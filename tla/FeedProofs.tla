------------------------------ MODULE FeedProofs ------------------------------
(***************************************************************************)
(* Proof that the subscription over a WebSocket implements OrderedFeed,    *)
(* for any number of events and publishers, any buffer, batch and queue,   *)
(* and any lost rows, lags and connections.                                *)
(***************************************************************************)
EXTENDS WireSubscription, FiniteSetTheorems, SequenceTheorems, TLAPS

\* A set of naturals has a least one.
LEMMA LeastExists ==
    ASSUME NEW S \in SUBSET Nat, S # {}
    PROVE  \E x \in S : \A y \in S : x <= y
<1> DEFINE R == {ss \in Nat \X Nat : ss[1] < ss[2]}
<1>1. IsWellFoundedOn(R, Nat)
  BY NatLessThanWellFounded DEF OpToRel
<1>2. \E x \in S : \A y \in S : <<y, x>> \notin R
  <2> HIDE DEF R
  <2> QED BY <1>1, WFMin, Zenon
<1>3. ASSUME NEW x \in S, NEW y \in S, <<y, x>> \notin R PROVE x <= y
  BY <1>3
<1> HIDE DEF R
<1> QED BY <1>2, <1>3

\* In a bounded set of naturals every rank is taken.
LEMMA RankExists ==
    ASSUME NEW S, S \subseteq Nat, NEW n \in Nat, \A s \in S : s <= n,
           NEW k \in 1..Cardinality(S)
    PROVE  \E x \in S : Rank(S, x) = k
<1> DEFINE Below(x) == {m \in S : m <= x}
           T == {x \in Nat : Cardinality(Below(x)) >= k}
<1>1. ASSUME NEW x \in Nat
      PROVE  IsFiniteSet(Below(x)) /\ Cardinality(Below(x)) \in Nat
  <2>1. Below(x) \in SUBSET Nat /\ \A s \in Below(x) : s <= x
    OBVIOUS
  <2> QED BY <2>1, FS_BoundedSetOfNaturals, FS_CardinalityType
<1>2. n \in T
  <2>1. Below(n) = S
    OBVIOUS
  <2> QED BY <2>1, <1>1
<1>3. PICK x \in Nat : Cardinality(Below(x)) >= k /\ \A y \in T : x <= y
  <2>1. T \in SUBSET Nat /\ T # {}
    BY <1>2
  <2>2. \E x \in T : \A y \in T : x <= y
    <3> HIDE DEF T
    <3> QED BY <2>1, LeastExists
  <2> QED BY <2>2
<1>4. CASE x = 0
  <2>1. Below(x) \subseteq {0}
    <3>1. \A m \in S : m <= x => m = 0
      BY <1>4
    <3> QED BY <3>1
  <2>2. Below(x) # {}
    BY <1>3, FS_EmptySet
  <2>3. Below(x) = {0} /\ 0 \in S
    BY <2>1, <2>2
  <2>4. Cardinality(Below(x)) = 1
    BY <2>3, FS_Singleton
  <2>5. Cardinality(Below(x)) = k
    BY <2>4, <1>3
  <2> QED BY <2>3, <2>5, <1>4 DEF Rank
<1>5. CASE x # 0
  <2> DEFINE y == x - 1
  <2>1. y \in Nat /\ ~(x <= y)
    BY <1>5
  <2>2. Cardinality(Below(y)) < k
    <3>1. y \notin T
      BY <1>3, <2>1
    <3> HIDE DEF y
    <3> QED BY <2>1, <3>1, <1>1
  <2>3. Below(x) = IF x \in S THEN Below(y) \cup {x} ELSE Below(y)
    <3>1. \A m \in S : m <= x <=> m <= y \/ m = x
      BY <2>1
    <3> QED BY <3>1
  <2>4. x \notin Below(y)
    BY <2>1
  <2> HIDE DEF y
  <2>5. x \in S
    BY <2>3, <2>2, <1>3, <1>1, <2>1
  <2>6. Cardinality(Below(x)) = Cardinality(Below(y)) + 1
    <3> HIDE DEF Below
    <3> QED BY <2>3, <2>4, <2>5, <1>1, <2>1, FS_AddElement
  <2>7. Cardinality(Below(x)) = k
    <3> HIDE DEF Below
    <3> QED BY <2>2, <2>6, <1>1, <2>1, <1>3
  <2> QED BY <2>5, <2>7 DEF Rank
<1> QED BY <1>4, <1>5

-----------------------------------------------------------------------------
(* The sequence of rows that load_after returns.                           *)

\* What load_after returns are rows after the one it is given, and it returns none
\* only if there is none.
LEMMA LoadShape ==
    ASSUME LogConstants, NEW a \in Nat, appended \in Nat, rows \subseteq 1..appended
    PROVE  /\ LoadAfter(a) \in Seq({n \in rows : n > a})
           /\ LoadAfter(a) = <<>> <=> {n \in rows : n > a} = {}
<1> DEFINE found == {n \in rows : n > a}
           size == IF Cardinality(found) < Batch THEN Cardinality(found) ELSE Batch
<1>1. found \subseteq Nat /\ \A n \in found : n <= appended
  <2>1. \A n \in rows : n \in Nat /\ n <= appended
    OBVIOUS
  <2> QED BY <2>1
<1>2. IsFiniteSet(found) /\ Cardinality(found) \in Nat
  BY <1>1, FS_BoundedSetOfNaturals, FS_CardinalityType
<1>3. /\ size \in Nat /\ size <= Cardinality(found)
      /\ size = 0 <=> Cardinality(found) = 0
  BY <1>2 DEF LogConstants
<1>4. LoadAfter(a) = [k \in 1..size |-> Nth(found, k)]
  BY DEF LoadAfter
<1> HIDE DEF found, size
<1>5. ASSUME NEW k \in 1..size PROVE Nth(found, k) \in found
  <2>1. k \in 1..Cardinality(found)
    BY <1>2, <1>3
  <2>2. \E x \in found : Rank(found, x) = k
    <3>1. \A s \in found : s <= appended
      BY <1>1
    <3>2. found \subseteq Nat
      BY <1>1
    <3> QED BY <3>1, <3>2, <2>1, RankExists, Zenon
  <2> QED BY <2>2 DEF Nth
<1>6. LoadAfter(a) \in Seq(found) /\ Len(LoadAfter(a)) = size
  BY <1>3, <1>4, <1>5
<1>7. LoadAfter(a) = <<>> <=> size = 0
  BY <1>6
<1>8. Cardinality(found) = 0 <=> found = {}
  BY <1>2, FS_EmptySet
<1> QED BY <1>3, <1>6, <1>7, <1>8 DEF found

\* While no row is lost it returns the run that follows.
LEMMA LoadIsRun ==
    ASSUME LogConstants, NEW a \in Nat, appended \in Nat, rows = 1..appended
    PROVE  \A k \in 1..Len(LoadAfter(a)) : LoadAfter(a)[k] = a + k
<1> DEFINE found == {n \in rows : n > a}
           size == IF Cardinality(found) < Batch THEN Cardinality(found) ELSE Batch
<1>1. found = (a + 1)..appended
  OBVIOUS
<1>2. Cardinality(found) = IF a + 1 > appended THEN 0 ELSE appended - a
  <2>1. Cardinality((a + 1)..appended) = IF a + 1 > appended THEN 0 ELSE appended - (a + 1) + 1
    BY FS_Interval
  <2> HIDE DEF found
  <2> QED BY <1>1, <2>1
<1>3. size \in Nat /\ \A k \in 1..size : k <= appended - a
  <2> HIDE DEF found
  <2> QED BY <1>2 DEF LogConstants
<1>4. LoadAfter(a) = [k \in 1..size |-> Nth(found, k)]
  BY DEF LoadAfter
<1> HIDE DEF size
<1>5. ASSUME NEW k \in 1..size PROVE Nth(found, k) = a + k
  <2>1. ASSUME NEW x \in found
        PROVE  Rank(found, x) = x - a
    <3>1. {m \in found : m <= x} = (a + 1)..x
      BY <1>1
    <3>2. x \in Int /\ x >= a + 1
      BY <1>1
    <3>3. Cardinality((a + 1)..x) = x - (a + 1) + 1
      BY <3>2, FS_Interval
    <3>4. Cardinality({m \in found : m <= x}) = Cardinality((a + 1)..x)
      BY <3>1
    <3> QED BY <3>2, <3>3, <3>4 DEF Rank
  <2>2. a + k \in found
    BY <1>1, <1>3
  <2>3. \A x \in found : x \in Int /\ (x - a = k <=> x = a + k)
    BY <1>1
  <2> HIDE DEF found
  <2> QED BY <2>1, <2>2, <2>3 DEF Nth
<1>6. Len(LoadAfter(a)) = size
  BY <1>3, <1>4
<1> QED BY <1>4, <1>5, <1>6

-----------------------------------------------------------------------------
(* The connection over a transport.                                        *)

\* A connection that knows of n events.
Conns(n) == [at : {"down", "open", "reading", "live"}, position : Nat,
             last : 0..n, target : 0..n, gapped : BOOLEAN]

\* The type of each variable, bounded by the events there are; frames are in flight only
\* of a subscription, and there is nothing before the reader joins.
StreamInv ==
    /\ appended \in 0..MaxEvents
    /\ rows \subseteq 1..appended /\ unsent \subseteq 1..appended
    /\ sent \in Seq(1..appended)
    /\ conn \in Conns(appended)
    /\ wire \in Seq(0..appended) /\ queue \in Seq(0..appended)
    /\ after \in 0..appended /\ read \in 0..appended
    /\ joined \in BOOLEAN /\ told \in BOOLEAN /\ ended \in BOOLEAN
    /\ drops \in 0..MaxDrops
    /\ conn.at # "down" \/ queue # <<>> \/ read # 0 \/ told => joined
    /\ conn.at \in {"down", "open"} => wire = <<>>

\* While no row is lost, the reader, the queue, the wire and the server follow each
\* other without a hole, and nobody has spoken of a gap.
RunInv ==
    rows = 1..appended =>
        /\ ~conn.gapped /\ ~ended /\ ~told
        /\ read + Len(queue) = after
        /\ \A i \in 1..Len(queue) : queue[i] = read + i
        /\ conn.at \in {"reading", "live"} => after + Len(wire) = conn.last
        /\ \A i \in 1..Len(wire) : wire[i] = after + i

WireInv == StreamInv /\ RunInv

\* The invariant holds at first, and says all that TypeOK and FramesAreARun say.
LEMMA WireInit0 ==
    ASSUME LogConstants, WireConstants, Init
    PROVE  WireInv
<1>1. /\ appended = 0 /\ rows = {} /\ unsent = {} /\ sent = <<>> /\ conn = NoConn
      /\ wire = <<>> /\ queue = <<>> /\ after = 0 /\ read = 0
      /\ joined = FALSE /\ told = FALSE /\ ended = FALSE /\ drops = 0
  BY DEF Init, LogInit, WireInit
<1>2. NoConn \in Conns(0) /\ NoConn.at = "down" /\ ~NoConn.gapped
  BY DEF NoConn, Conns
<1>3. /\ 0 \in 0..MaxEvents /\ 0 \in 0..MaxDrops /\ 0 \in 0..0
      /\ {} \subseteq 1..0 /\ <<>> \in Seq(1..0) /\ <<>> \in Seq(0..0)
  BY DEF LogConstants, WireConstants
<1>4. StreamInv
  BY <1>1, <1>2, <1>3, Zenon DEF StreamInv
<1>5. RunInv
  BY <1>1, <1>2 DEF RunInv
<1> QED BY <1>4, <1>5 DEF WireInv

LEMMA WireInvImplies ==
    ASSUME LogConstants, WireInv
    PROVE  TypeOK /\ FramesAreARun
<1>1. /\ appended \in Nat /\ 0..appended \subseteq 0..MaxEvents
      /\ 0..appended \subseteq Nat
  BY DEF LogConstants, WireInv, StreamInv
<1>2. wire \in Seq(0..MaxEvents) /\ queue \in Seq(0..MaxEvents)
  BY <1>1, SeqMonotonic, Zenon DEF WireInv, StreamInv
<1>3. conn \in [at : {"down", "open", "reading", "live"}, position : Nat,
                last : Nat, target : Nat, gapped : BOOLEAN]
  BY <1>1 DEF WireInv, StreamInv, Conns
<1>4. TypeOK
  BY <1>1, <1>2, <1>3 DEF WireInv, StreamInv, TypeOK
<1>5. FramesAreARun
  BY DEF WireInv, RunInv, FramesAreARun
<1> QED BY <1>4, <1>5

\* A publisher's step, or the loss of a row.
LEMMA LogKeeps ==
    ASSUME LogConstants, WireInv, LogNext, UNCHANGED wireVars
    PROVE  WireInv'
<1>0. UNCHANGED <<conn, wire, after, queue, joined, read, told, ended, drops>>
  BY DEF wireVars
<1>1. CASE AppendEvent
  <2>1. /\ appended \in Nat /\ appended' = appended + 1 /\ appended' \in 0..MaxEvents
        /\ rows' = rows \cup {appended + 1} /\ unsent' = unsent \cup {appended + 1}
        /\ sent' = sent
    BY <1>1 DEF AppendEvent, WireInv, StreamInv, LogConstants
  <2>2. 1..appended \subseteq 1..appended' /\ 0..appended \subseteq 0..appended'
        /\ appended + 1 \in 1..appended'
    BY <2>1
  <2>3. sent \in Seq(1..appended') /\ wire \in Seq(0..appended') /\ queue \in Seq(0..appended')
    BY <2>2, SeqMonotonic, Zenon DEF WireInv, StreamInv
  <2>4. conn \in Conns(appended')
    BY <2>2 DEF WireInv, StreamInv, Conns
  <2>5. StreamInv'
    BY <1>0, <2>1, <2>2, <2>3, <2>4 DEF WireInv, StreamInv
  <2>6. rows' = 1..appended' => rows = 1..appended
    <3>1. rows \subseteq 1..appended
      BY DEF WireInv, StreamInv
    <3>2. ASSUME rows' = 1..appended', NEW n \in 1..appended PROVE n \in rows
      BY <2>1, <3>2
    <3> QED BY <3>1, <3>2
  <2>7. RunInv'
    BY <1>0, <2>6 DEF WireInv, RunInv
  <2> QED BY <2>5, <2>7 DEF WireInv
<1>2. ASSUME NEW n \in 1..MaxEvents, Send(n)
      PROVE  WireInv'
  <2>1. /\ n \in 1..appended /\ unsent' = unsent \ {n} /\ sent' = Append(sent, n)
        /\ UNCHANGED <<appended, rows>>
    BY <1>2 DEF Send, WireInv, StreamInv
  <2>2. sent' \in Seq(1..appended)
    BY <2>1, AppendProperties DEF WireInv, StreamInv
  <2>3. StreamInv'
    BY <1>0, <2>1, <2>2 DEF WireInv, StreamInv
  <2> QED BY <1>0, <2>1, <2>3 DEF WireInv, RunInv
<1>3. ASSUME NEW n \in 1..MaxEvents, LoseRow(n)
      PROVE  WireInv'
  <2>1. n \in 1..appended /\ rows' = rows \ {n} /\ UNCHANGED <<appended, unsent, sent>>
    BY <1>3 DEF LoseRow, WireInv, StreamInv
  <2>2. StreamInv'
    BY <1>0, <2>1 DEF WireInv, StreamInv
  <2>3. rows' # 1..appended'
    BY <2>1
  <2> QED BY <2>2, <2>3 DEF WireInv, RunInv
<1> QED BY <1>1, <1>2, <1>3 DEF LogNext

\* The reader subscribes.
LEMMA SubscribeKeeps ==
    ASSUME LogConstants, WireInv, NEW a \in 0..MaxEvents, Subscribe(a)
    PROVE  WireInv'
<1>1. /\ ~joined /\ a \in 0..appended /\ joined' = TRUE /\ after' = a /\ read' = a
      /\ UNCHANGED <<appended, rows, unsent, sent, conn, wire, queue, told, ended, drops>>
  BY DEF Subscribe, logVars
<1>2. conn.at = "down" /\ wire = <<>> /\ queue = <<>>
  BY <1>1 DEF WireInv, StreamInv
<1>3. StreamInv'
  BY <1>1 DEF WireInv, StreamInv
<1>4. RunInv'
  BY <1>1, <1>2 DEF WireInv, RunInv
<1> QED BY <1>3, <1>4 DEF WireInv

\* A step that changes only the connection, which was not down, and keeps its
\* subscription as it was, keeps the invariant.
LEMMA ConnKeeps ==
    ASSUME WireInv, joined, conn' \in Conns(appended),
           UNCHANGED <<appended, rows, unsent, sent, wire, after, queue, joined, read, told,
                       ended, drops>>,
           conn'.at \in {"down", "open"} => wire = <<>>,
           rows = 1..appended =>
               /\ ~conn'.gapped
               /\ conn'.at \in {"reading", "live"} => after + Len(wire) = conn'.last
    PROVE  WireInv'
<1>1. StreamInv'
  BY DEF WireInv, StreamInv
<1>2. RunInv'
  BY DEF WireInv, RunInv
<1> QED BY <1>1, <1>2 DEF WireInv

\* The client connects, and the server registers its receiver.
LEMMA ConnectKeeps ==
    ASSUME LogConstants, WireInv, Connect
    PROVE  WireInv'
<1>1. /\ conn.at = "down" /\ joined
      /\ conn' = [NoConn EXCEPT !.at = "open", !.position = Len(sent)]
      /\ UNCHANGED <<appended, rows, unsent, sent, wire, after, queue, joined, read, told,
                     ended, drops>>
  BY DEF Connect, logVars
<1>2. Len(sent) \in Nat /\ 0 \in 0..appended /\ wire = <<>>
  BY <1>1 DEF WireInv, StreamInv, LogConstants
<1>3. conn' \in Conns(appended) /\ conn'.at = "open" /\ ~conn'.gapped
  BY <1>1, <1>2 DEF NoConn, Conns
<1> QED BY <1>1, <1>2, <1>3, ConnKeeps

\* event/subscribe.
LEMMA AcceptKeeps ==
    ASSUME LogConstants, WireInv, AcceptSubscribe
    PROVE  WireInv'
<1>1. /\ conn.at = "open"
      /\ conn' = [conn EXCEPT !.at = "reading", !.last = after, !.target = appended]
      /\ UNCHANGED <<appended, rows, unsent, sent, wire, after, queue, joined, read, told,
                     ended, drops>>
  BY DEF AcceptSubscribe, logVars
<1>2. appended \in 0..appended /\ after \in 0..appended /\ joined /\ wire = <<>>
  BY <1>1 DEF WireInv, StreamInv, LogConstants
<1>3. /\ conn' \in Conns(appended) /\ conn'.at = "reading" /\ conn'.last = after
      /\ conn'.gapped = conn.gapped
  BY <1>1, <1>2 DEF WireInv, StreamInv, Conns
<1>4. rows = 1..appended => ~conn.gapped
  BY DEF WireInv, RunInv
<1> QED BY <1>1, <1>2, <1>3, <1>4, ConnKeeps

\* Live events and lags that change nothing but the receiver.
LEMMA IgnoreKeeps ==
    ASSUME LogConstants, WireInv, IgnoreLive
    PROVE  WireInv'
<1>1. /\ conn.at = "open"
      /\ conn' = [conn EXCEPT !.position = IF HasLagged(@) THEN OldestKept ELSE @ + 1]
      /\ UNCHANGED <<appended, rows, unsent, sent, wire, after, queue, joined, read, told,
                     ended, drops>>
  BY DEF IgnoreLive, logVars
<1>2. conn \in Conns(appended) /\ joined /\ wire = <<>> /\ Len(sent) \in Nat
  BY <1>1 DEF WireInv, StreamInv
<1>3. (IF HasLagged(conn.position) THEN OldestKept ELSE conn.position + 1) \in Nat
  BY <1>2 DEF HasLagged, OldestKept, Conns, LogConstants
<1>4. /\ conn' \in Conns(appended) /\ conn'.at = "open" /\ conn'.gapped = conn.gapped
  BY <1>1, <1>2, <1>3 DEF Conns
<1> QED BY <1>1, <1>2, <1>4, ConnKeeps DEF WireInv, RunInv

\* recover_lagged.
LEMMA RecoverKeeps ==
    ASSUME LogConstants, WireInv, RecoverLagged
    PROVE  WireInv'
<1>1. /\ conn.at = "live" /\ HasLagged(conn.position)
      /\ conn' = [conn EXCEPT !.position = OldestKept,
                              !.at = IF conn.gapped THEN "live" ELSE "reading",
                              !.target = appended]
      /\ UNCHANGED <<appended, rows, unsent, sent, wire, after, queue, joined, read, told,
                     ended, drops>>
  BY DEF RecoverLagged, logVars
<1>2. /\ conn \in Conns(appended) /\ joined /\ Len(sent) \in Nat /\ appended \in 0..appended
  BY <1>1 DEF WireInv, StreamInv, LogConstants
<1>3. OldestKept \in Nat
  BY <1>1, <1>2 DEF HasLagged, OldestKept, Conns, LogConstants
<1>4. /\ conn' \in Conns(appended) /\ conn'.at \in {"live", "reading"}
      /\ conn'.gapped = conn.gapped /\ conn'.last = conn.last
  BY <1>1, <1>2, <1>3 DEF Conns
<1> QED BY <1>1, <1>2, <1>4, ConnKeeps DEF WireInv, RunInv

\* Frames that the server puts on the wire behind the others.
LEMMA SendKeeps ==
    ASSUME LogConstants, WireInv, joined, conn' \in Conns(appended), conn'.at \in {"reading", "live"},
           NEW frames \in Seq(0..appended), wire' = wire \o frames,
           UNCHANGED <<appended, rows, unsent, sent, after, queue, joined, read, told, ended, drops>>,
           conn.at \in {"reading", "live"},
           rows = 1..appended =>
               /\ ~conn'.gapped
               /\ conn'.last = conn.last + Len(frames)
               /\ \A k \in 1..Len(frames) : frames[k] = conn.last + k
    PROVE  WireInv'
<1>1. /\ wire' \in Seq(0..appended) /\ Len(wire') = Len(wire) + Len(frames)
      /\ Len(wire) \in Nat /\ Len(frames) \in Nat
      /\ \A i \in 1..(Len(wire) + Len(frames)) :
            wire'[i] = IF i <= Len(wire) THEN wire[i] ELSE frames[i - Len(wire)]
  BY ConcatProperties DEF WireInv, StreamInv
<1>2. StreamInv'
  BY <1>1 DEF WireInv, StreamInv
<1>3. RunInv'
  <2> SUFFICES ASSUME rows = 1..appended
               PROVE  /\ after + Len(wire') = conn'.last
                      /\ \A i \in 1..Len(wire') : wire'[i] = after + i
    BY DEF WireInv, RunInv
  <2>1. /\ after + Len(wire) = conn.last /\ after \in Nat /\ conn.last \in Nat
        /\ \A i \in 1..Len(wire) : wire[i] = after + i
    BY DEF WireInv, RunInv, StreamInv, Conns
  <2>2. after + Len(wire') = conn'.last
    BY <1>1, <2>1
  <2>3. ASSUME NEW i \in 1..Len(wire') PROVE wire'[i] = after + i
    <3>1. CASE i <= Len(wire)
      BY <1>1, <2>1, <3>1
    <3>2. CASE ~(i <= Len(wire))
      <4>1. i - Len(wire) \in 1..Len(frames)
        BY <1>1, <3>2
      <4>2. frames[i - Len(wire)] = conn.last + (i - Len(wire))
        BY <4>1
      <4> QED BY <1>1, <2>1, <3>2, <4>2
    <3> QED BY <3>1, <3>2
  <2> QED BY <2>2, <2>3
<1> QED BY <1>2, <1>3 DEF WireInv

\* One batch of catch_up: the run goes on behind the last frame, and without a lost row
\* no gap is seen.
LEMMA CatchUpKeeps ==
    ASSUME LogConstants, WireInv, CatchUp
    PROVE  WireInv'
<1> DEFINE found == LoadAfter(conn.last)
           last == IF found = <<>> THEN conn.last ELSE Last(found)
<1>1. /\ conn.at = "reading"
      /\ UNCHANGED <<appended, rows, unsent, sent, after, queue, joined, read, told, ended, drops>>
  BY DEF CatchUp, logVars
<1>2. /\ conn \in Conns(appended) /\ joined /\ appended \in Nat /\ rows \subseteq 1..appended
      /\ conn.last \in 0..appended /\ conn.target \in 0..appended /\ conn.last \in Nat
      /\ wire \in Seq(0..appended)
  BY <1>1 DEF WireInv, StreamInv, LogConstants, Conns
<1>3. /\ found \in Seq({n \in rows : n > conn.last})
      /\ found = <<>> <=> {n \in rows : n > conn.last} = {}
  BY <1>2, LoadShape
<1>4. rows = 1..appended => \A k \in 1..Len(found) : found[k] = conn.last + k
  BY <1>2, LoadIsRun
<1> HIDE DEF found
<1>5. found \in Seq(0..appended) /\ Len(found) \in Nat
  <2>1. {n \in rows : n > conn.last} \subseteq 0..appended
    <3>1. \A n \in rows : n \in 0..appended
      BY <1>2
    <3> QED BY <3>1
  <2>2. found \in Seq(0..appended)
    BY <1>3, <2>1, SeqMonotonic, Zenon
  <2> QED BY <2>2
<1>6. found # <<>> => Len(found) \in 1..Len(found)
  BY <1>5
<1>7. /\ last \in 0..appended
      /\ rows = 1..appended => last = conn.last + Len(found)
  BY <1>2, <1>4, <1>5, <1>6 DEF Last
<1>8. CASE IsGap(found, conn.last, conn.target)
  <2>1. /\ wire' = Append(wire, Gap)
        /\ conn' = [conn EXCEPT !.at = "live", !.last = conn.target, !.gapped = TRUE]
    BY <1>8 DEF CatchUp, found
  <2>2. rows # 1..appended
    <3> SUFFICES ASSUME rows = 1..appended PROVE FALSE
      OBVIOUS
    <3>1. CASE found = <<>>
      <4>1. appended \notin {n \in rows : n > conn.last}
        BY <1>3, <3>1
      <4> QED BY <1>2, <1>8, <3>1, <4>1 DEF IsGap
    <3>2. CASE found # <<>>
      <4>1. Head(found) = found[1] /\ 1 \in 1..Len(found)
        BY <1>5, <3>2
      <4> QED BY <1>4, <1>8, <3>2, <4>1 DEF IsGap
    <3> QED BY <3>1, <3>2
  <2>3. conn' \in Conns(appended) /\ conn'.at = "live"
    BY <1>2, <2>1 DEF Conns
  <2>4. <<Gap>> \in Seq(0..appended) /\ wire' = wire \o <<Gap>>
    BY <1>2, <2>1, AppendIsConcat DEF Gap
  <2> QED BY <1>1, <1>2, <2>2, <2>3, <2>4, SendKeeps
<1>9. CASE ~IsGap(found, conn.last, conn.target)
  <2>1. /\ wire' = wire \o found
        /\ conn' = [conn EXCEPT !.last = last,
                        !.at = IF found = <<>> \/ last >= conn.target THEN "live" ELSE "reading"]
    BY <1>9 DEF CatchUp, found
  <2> HIDE DEF last
  <2>2. /\ conn' \in Conns(appended) /\ conn'.at \in {"reading", "live"}
        /\ conn'.last = last /\ conn'.gapped = conn.gapped
    BY <1>2, <1>7, <2>1 DEF Conns
  <2>3. rows = 1..appended => ~conn.gapped
    BY DEF WireInv, RunInv
  <2> QED BY <1>1, <1>2, <1>4, <1>5, <1>7, <2>1, <2>2, <2>3, SendKeeps
<1> QED BY <1>8, <1>9

\* on_live_event.
LEMMA LiveKeeps ==
    ASSUME LogConstants, WireInv, OnLiveEvent
    PROVE  WireInv'
<1> DEFINE event == sent[conn.position + 1]
           taken == [conn EXCEPT !.position = @ + 1]
<1>1. /\ conn.at = "live" /\ conn.position < Len(sent)
      /\ UNCHANGED <<appended, rows, unsent, sent, after, queue, joined, read, told, ended, drops>>
  BY DEF OnLiveEvent, logVars, HasNext
<1>2. /\ conn \in Conns(appended) /\ joined /\ appended \in Nat
      /\ wire \in Seq(0..appended) /\ sent \in Seq(1..appended)
  BY <1>1 DEF WireInv, StreamInv, LogConstants
<1>3. event \in 1..appended /\ event \in 0..appended
  <2>1. conn.position + 1 \in 1..Len(sent)
    BY <1>1, <1>2 DEF Conns
  <2>2. event \in 1..appended
    BY <1>2, <2>1, ElementOfSeq
  <2> QED BY <1>2, <2>2
<1>4. rows = 1..appended => ~conn.gapped /\ after + Len(wire) = conn.last
  BY <1>1 DEF WireInv, RunInv
<1>5. /\ taken \in Conns(appended) /\ taken.at = "live"
      /\ taken.gapped = conn.gapped /\ taken.last = conn.last
  <2>1. conn.position + 1 \in Nat
    BY <1>2 DEF Conns
  <2> HIDE DEF event
  <2> QED BY <1>1, <1>2, <2>1 DEF Conns
<1>6. CASE conn.gapped \/ event <= conn.last
  <2>1. conn' = taken /\ UNCHANGED wire
    BY <1>6 DEF OnLiveEvent
  <2> HIDE DEF taken
  <2> QED BY <1>1, <1>2, <1>4, <1>5, <2>1, ConnKeeps
<1>7. CASE ~(conn.gapped \/ event <= conn.last) /\ event = conn.last + 1
  <2>1. conn' = [taken EXCEPT !.last = event] /\ wire' = Append(wire, event)
    BY <1>7 DEF OnLiveEvent
  <2> HIDE DEF event, taken
  <2>2. /\ conn' \in Conns(appended) /\ conn'.at = "live"
        /\ conn'.gapped = conn.gapped /\ conn'.last = event
    BY <1>3, <1>5, <2>1 DEF Conns
  <2>3. <<event>> \in Seq(0..appended) /\ wire' = wire \o <<event>>
    BY <1>2, <1>3, <2>1, AppendIsConcat
  <2>4. Len(<<event>>) = 1 /\ \A k \in 1..1 : <<event>>[k] = conn.last + k
    BY <1>7
  <2> QED BY <1>1, <1>2, <1>4, <1>7, <2>2, <2>3, <2>4, SendKeeps
<1>8. CASE ~(conn.gapped \/ event <= conn.last) /\ event # conn.last + 1
  <2>1. conn' = [taken EXCEPT !.at = "reading", !.target = appended] /\ UNCHANGED wire
    BY <1>8 DEF OnLiveEvent
  <2> HIDE DEF taken
  <2>2. appended \in 0..appended
    BY <1>2
  <2>3. /\ conn' \in Conns(appended) /\ conn'.at = "reading"
        /\ conn'.gapped = conn.gapped /\ conn'.last = conn.last
    BY <1>5, <2>1, <2>2 DEF Conns
  <2> QED BY <1>1, <1>2, <1>4, <2>1, <2>3, ConnKeeps
<1> QED BY <1>6, <1>7, <1>8

\* The client task takes a frame.
LEMMA ReceiveKeeps ==
    ASSUME LogConstants, WireInv, ClientReceive
    PROVE  WireInv'
<1> DEFINE frame == Head(wire)
<1>1. /\ conn.at # "down" /\ ~ended /\ wire # <<>> /\ wire' = Tail(wire)
      /\ UNCHANGED <<appended, rows, unsent, sent, conn, joined, read, told, drops>>
  BY DEF ClientReceive, logVars
<1>2. /\ joined /\ appended \in Nat /\ wire \in Seq(0..appended) /\ queue \in Seq(0..appended)
      /\ after \in 0..appended /\ conn \in Conns(appended) /\ read \in 0..appended
      /\ conn.at \in {"reading", "live"} /\ after \in Nat /\ read \in Nat
  BY <1>1 DEF WireInv, StreamInv, LogConstants, Conns
<1>3. /\ frame \in 0..appended /\ frame = wire[1] /\ Len(wire) \in Nat \ {0}
      /\ wire' \in Seq(0..appended) /\ Len(wire') = Len(wire) - 1
      /\ \A i \in 1..Len(wire') : wire'[i] = wire[i + 1]
  BY <1>1, <1>2, HeadTailProperties
<1>4. ASSUME rows = 1..appended
      PROVE  /\ ~conn.gapped /\ ~told /\ read + Len(queue) = after
             /\ \A i \in 1..Len(queue) : queue[i] = read + i
             /\ after + Len(wire) = conn.last
             /\ \A i \in 1..Len(wire) : wire[i] = after + i
             /\ frame = after + 1
  <2>1. \A i \in 1..Len(wire) : wire[i] = after + i
    BY <1>4 DEF WireInv, RunInv
  <2>2. frame = after + 1
    BY <2>1, <1>3
  <2> QED BY <1>2, <1>4, <2>1, <2>2 DEF WireInv, RunInv
<1> HIDE DEF frame
<1>5. CASE frame # Gap /\ frame <= after
  <2>1. UNCHANGED <<after, queue, ended>>
    BY <1>5 DEF ClientReceive, frame
  <2>2. StreamInv'
    BY <1>1, <1>2, <1>3, <2>1 DEF WireInv, StreamInv
  <2>3. rows # 1..appended
    BY <1>2, <1>4, <1>5
  <2> QED BY <1>1, <2>2, <2>3 DEF WireInv, RunInv
<1>6. CASE ~(frame # Gap /\ frame <= after) /\ frame = after + 1
  <2>1. after' = frame /\ queue' = Append(queue, frame) /\ UNCHANGED ended
    BY <1>6 DEF ClientReceive, frame
  <2>2. /\ queue' \in Seq(0..appended) /\ Len(queue') = Len(queue) + 1
        /\ \A i \in 1..Len(queue) : queue'[i] = queue[i]
        /\ queue'[Len(queue) + 1] = frame /\ Len(queue) \in Nat
    BY <1>2, <1>3, <2>1, AppendProperties
  <2>3. StreamInv'
    BY <1>1, <1>2, <1>3, <2>1, <2>2 DEF WireInv, StreamInv
  <2>4. RunInv'
    <3> SUFFICES ASSUME rows = 1..appended
                 PROVE  /\ read + Len(queue') = after'
                        /\ \A i \in 1..Len(queue') : queue'[i] = read + i
                        /\ after' + Len(wire') = conn.last
                        /\ \A i \in 1..Len(wire') : wire'[i] = after' + i
      BY <1>1, <1>4, <2>1 DEF RunInv
    <3>0. /\ read + Len(queue) = after /\ after + Len(wire) = conn.last
          /\ \A i \in 1..Len(queue) : queue[i] = read + i
          /\ after' = after + 1 /\ after \in Nat /\ read \in Nat
      BY <1>2, <1>4, <1>6, <2>1
    <3>1. read + Len(queue') = after' /\ after' + Len(wire') = conn.last
      <4>1. Len(queue') = Len(queue) + 1 /\ Len(queue) \in Nat
        BY <2>2
      <4>2. Len(wire') = Len(wire) - 1 /\ Len(wire) \in Nat
        BY <1>3
      <4>3. read + Len(queue') = after'
        <5>1. read + Len(queue) = after /\ after' = after + 1 /\ read \in Nat
          BY <3>0
        <5> QED BY ONLY <4>1, <5>1
      <4>4. after' + Len(wire') = after + Len(wire)
        BY <3>0, <4>2
      <4> QED BY <3>0, <4>3, <4>4
    <3>2. ASSUME NEW i \in 1..Len(queue') PROVE queue'[i] = read + i
      <4>1. CASE i \in 1..Len(queue)
        BY <2>2, <3>0, <4>1
      <4>2. CASE i = Len(queue) + 1
        BY <1>6, <2>2, <3>0, <4>2
      <4> QED BY <2>2, <4>1, <4>2
    <3>3. ASSUME NEW i \in 1..Len(wire') PROVE wire'[i] = after' + i
      <4>1. i + 1 \in 1..Len(wire) /\ wire'[i] = wire[i + 1]
        BY <1>3
      <4>2. wire[i + 1] = after + (i + 1)
        BY <1>4, <4>1
      <4> QED BY <1>2, <1>6, <2>1, <4>1, <4>2
    <3> QED BY <3>1, <3>2, <3>3
  <2> QED BY <2>3, <2>4 DEF WireInv
<1>7. CASE ~(frame # Gap /\ frame <= after) /\ frame # after + 1
  <2>1. queue' = Append(queue, Gap) /\ ended' = TRUE /\ UNCHANGED after
    BY <1>7 DEF ClientReceive, frame
  <2>2. queue' \in Seq(0..appended)
    BY <1>2, <2>1, AppendProperties DEF Gap
  <2>3. StreamInv'
    BY <1>1, <1>2, <1>3, <2>1, <2>2 DEF WireInv, StreamInv
  <2>4. rows # 1..appended
    BY <1>4, <1>7
  <2> QED BY <1>1, <2>3, <2>4 DEF WireInv, RunInv
<1> QED BY <1>5, <1>6, <1>7

\* The reader takes an event: the next one, unless a row is lost.
LEMMA ReadKeeps ==
    ASSUME LogConstants, WireInv, Read
    PROVE  /\ WireInv'
           /\ joined /\ ~told /\ UNCHANGED <<appended, joined>>
           /\ \/ read' = read + 1 /\ read < appended /\ told' = FALSE
              \/ read' = read /\ told' \in BOOLEAN /\ (told' => rows # 1..appended)
<1> DEFINE event == Head(queue)
<1>1. /\ queue # <<>> /\ ~told /\ queue' = Tail(queue)
      /\ UNCHANGED <<appended, rows, unsent, sent, conn, wire, after, joined, ended, drops>>
  BY DEF Read, logVars
<1>2. /\ joined /\ appended \in Nat /\ queue \in Seq(0..appended) /\ read \in 0..appended
      /\ told = FALSE /\ after \in Nat /\ read \in Nat
  BY <1>1 DEF WireInv, StreamInv, LogConstants
<1>3. /\ event \in 0..appended /\ event = queue[1] /\ Len(queue) \in Nat \ {0}
      /\ queue' \in Seq(0..appended) /\ Len(queue') = Len(queue) - 1
      /\ \A i \in 1..Len(queue') : queue'[i] = queue[i + 1]
  BY <1>1, <1>2, HeadTailProperties
<1>4. ASSUME rows = 1..appended
      PROVE  /\ read + Len(queue) = after
             /\ \A i \in 1..Len(queue) : queue[i] = read + i
             /\ event = read + 1
  <2>1. \A i \in 1..Len(queue) : queue[i] = read + i
    BY <1>4 DEF WireInv, RunInv
  <2>2. event = read + 1
    BY <2>1, <1>3
  <2> QED BY <1>4, <2>1, <2>2 DEF WireInv, RunInv
<1> HIDE DEF event
<1>5. CASE event = read + 1
  <2>1. read' = event /\ UNCHANGED told
    BY <1>5 DEF Read, event
  <2>2. StreamInv'
    BY <1>1, <1>2, <1>3, <2>1 DEF WireInv, StreamInv
  <2>3. RunInv'
    <3> SUFFICES ASSUME rows = 1..appended
                 PROVE  /\ read' + Len(queue') = after
                        /\ \A i \in 1..Len(queue') : queue'[i] = read' + i
      BY <1>1, <2>1 DEF WireInv, RunInv
    <3>1. read' + Len(queue') = after
      <4>1. read + Len(queue) = after /\ read' = read + 1
        BY <1>4, <1>5, <2>1
      <4>2. Len(queue') = Len(queue) - 1 /\ Len(queue) \in Nat /\ read \in Nat
        BY <1>2, <1>3
      <4> QED BY <4>1, <4>2
    <3>2. ASSUME NEW i \in 1..Len(queue') PROVE queue'[i] = read' + i
      <4>1. i + 1 \in 1..Len(queue) /\ queue'[i] = queue[i + 1]
        BY <1>3
      <4>2. queue[i + 1] = read + (i + 1)
        BY <1>4, <4>1
      <4> QED BY <1>2, <1>5, <2>1, <4>1, <4>2
    <3> QED BY <3>1, <3>2
  <2> QED BY <1>1, <1>2, <1>3, <1>5, <2>1, <2>2, <2>3 DEF WireInv
<1>6. CASE event # read + 1
  <2>1. told' = (event = Gap \/ event > read) /\ UNCHANGED read
    BY <1>6 DEF Read, event
  <2>2. rows # 1..appended
    BY <1>4, <1>6
  <2>3. told' \in BOOLEAN
    BY <2>1
  <2>4. StreamInv'
    BY <1>1, <1>2, <1>3, <2>1, <2>3 DEF WireInv, StreamInv
  <2> QED BY <1>1, <1>2, <2>1, <2>2, <2>3, <2>4 DEF WireInv, RunInv
<1> QED BY <1>5, <1>6

\* The connection breaks.
LEMMA DisconnectKeeps ==
    ASSUME LogConstants, WireConstants, WireInv, Disconnect
    PROVE  WireInv'
<1>1. /\ conn.at # "down" /\ drops < MaxDrops /\ drops' = drops + 1 /\ conn' = NoConn
      /\ wire' = <<>>
      /\ UNCHANGED <<appended, rows, unsent, sent, after, queue, joined, read, told, ended>>
  BY DEF Disconnect, logVars
<1>2. drops' \in 0..MaxDrops /\ joined /\ 0 \in 0..appended
  BY <1>1 DEF WireInv, StreamInv, WireConstants, LogConstants
<1>3. NoConn \in Conns(appended) /\ NoConn.at = "down" /\ ~NoConn.gapped
  BY <1>2 DEF NoConn, Conns
<1>4. StreamInv'
  BY <1>1, <1>2, <1>3 DEF WireInv, StreamInv
<1>5. RunInv'
  BY <1>1, <1>3 DEF WireInv, RunInv
<1> QED BY <1>4, <1>5 DEF WireInv

\* Every step keeps the invariant.
LEMMA WireStep ==
    ASSUME LogConstants, WireConstants, WireInv, [Next]_vars
    PROVE  WireInv'
<1>1. CASE UNCHANGED vars
  BY <1>1 DEF vars, logVars, wireVars, WireInv, StreamInv, RunInv
<1>2. CASE Next
  BY <1>2, LogKeeps, SubscribeKeeps, ConnectKeeps, AcceptKeeps, CatchUpKeeps, IgnoreKeeps,
     LiveKeeps, RecoverKeeps, ReceiveKeeps, ReadKeeps, DisconnectKeeps DEF Next, Server
<1> QED BY <1>1, <1>2

\* The invariant holds of every reachable state.
LEMMA WireAlways == Spec => []WireInv
<1>1. Init => WireInv
  BY WireInit0, LogConstants, WireConstants
<1>2. WireInv /\ [Next]_vars => WireInv'
  BY WireStep, LogConstants, WireConstants
<1> QED BY <1>1, <1>2, PTL DEF Spec

\* Every variable of the subscription keeps its type (serve_connection,
\* reconnecting_subscription).
THEOREM TypeCorrect == Spec => []TypeOK
<1>1. WireInv => TypeOK
  BY WireInvImplies, LogConstants
<1> QED BY <1>1, WireAlways, PTL

\* While no row is lost, the frames in flight are the run of events from the one the
\* client expects, whatever the broadcast order, lags, holes and broken connections
\* (catch_up, on_live_event, recover_lagged).
THEOREM FramesCorrect == Spec => []FramesAreARun
<1>1. WireInv => FramesAreARun
  BY WireInvImplies, LogConstants
<1> QED BY <1>1, WireAlways, PTL

\* The subscription over a transport implements the ordered feed: every event once and
\* in order, and a gap is told only if a row is lost (EventSubscription over the
\* reconnecting client).
THEOREM WireImplementsFeed == Spec => FeedIsOrdered
<1>1. Init => Feed!Init
  BY DEF Init, LogInit, WireInit, Feed!Init
<1>2. ASSUME WireInv, [Next]_vars
      PROVE  [Feed!Next]_(Feed!vars)
  <2> USE DEF Feed!Next, Feed!vars
  <2>1. CASE LogNext /\ UNCHANGED wireVars
    BY <2>1 DEF LogNext, AppendEvent, Send, LoseRow, wireVars, Feed!Produce
  <2>2. ASSUME NEW a \in 0..MaxEvents, Subscribe(a)
        PROVE  Feed!Join
    BY <2>2 DEF Subscribe, logVars, Feed!Join
  <2>3. CASE Connect \/ Server \/ ClientReceive \/ Disconnect
    <3>1. UNCHANGED <<appended, joined, read, told>>
      BY <2>3 DEF Connect, Server, AcceptSubscribe, CatchUp, IgnoreLive, OnLiveEvent,
                  RecoverLagged, ClientReceive, Disconnect, logVars
    <3> QED BY <3>1
  <2>4. CASE Read
    <3>1. /\ joined /\ ~told /\ UNCHANGED <<appended, joined>>
          /\ \/ read' = read + 1 /\ read < appended /\ told' = FALSE
             \/ read' = read /\ told' \in BOOLEAN /\ (told' => rows # 1..appended)
      BY <1>2, <2>4, ReadKeeps, LogConstants
    <3>2. told = FALSE
      BY <1>2, <3>1 DEF WireInv, StreamInv
    <3> QED BY <3>1, <3>2 DEF Feed!Deliver, Feed!Tell
  <2>5. CASE UNCHANGED vars
    BY <2>5 DEF vars, logVars, wireVars
  <2> QED BY <1>2, <2>1, <2>2, <2>3, <2>4, <2>5 DEF Next
<1> QED BY <1>1, <1>2, WireAlways, PTL DEF Spec, FeedIsOrdered, Feed!Spec
=============================================================================
