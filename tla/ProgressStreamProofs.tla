-------------------------- MODULE ProgressStreamProofs --------------------------
(***************************************************************************)
(* Proofs about the timeline: it stays whole, for any sizes of texts, any  *)
(* threshold and any number of items, as long as nothing is lost, and in   *)
(* order whatever is.  An observation publishes the text held back, then   *)
(* the event of its own: two appends, each of which may fail.  The         *)
(* invariant is over the values of the variables, so that it can be        *)
(* followed from one append to the next.                                   *)
(***************************************************************************)
EXTENDS ProgressStream, FiniteSetTheorems, TLAPS

Chunks == Nat \X Sizes
Events == [type : {"started", "delta", "completed", "notice"}, item : Nat, text : Seq(Chunks)]

Those(line, type, item) == {k \in DOMAIN line : line[k].type = type /\ line[k].item = item}
HeardIn(line, item, n) == UNION {ToSet(line[k].text) : k \in Those(line, "delta", item) \cap 1..n}

Ids(nest) == {nest[i].id : i \in DOMAIN nest}

\* The message that is being said, if any.
Saying(nest) ==
    IF nest # <<>> /\ nest[Len(nest)].kind = "message" THEN nest[Len(nest)].id ELSE 0

\* How much of the message is out of the observer.
Out(held, said) == Len(said) - Len(held.text)

\* A trial in a tool call, or one item alone.
NestInv(nest, started) ==
    /\ nest \in Seq([id : 1..started, kind : Kinds]) /\ started \in Nat
    /\ Len(nest) \in 0..2
    /\ Len(nest) = 2 => nest[1].kind = "tool" /\ nest[2].kind = "trial" /\ nest[1].id # nest[2].id

\* What is held back is the end of what was said of the message.
HeldInv(held, said, nest) ==
    /\ said \in Seq(Chunks) /\ \A i \in 1..Len(said) : said[i][1] = i
    /\ said # <<>> => Saying(nest) # 0
    /\ held = [item |-> held.item, text |-> held.text]
    /\ held.text \in Seq(Chunks) /\ Len(held.text) \in 0..Len(said)
    /\ \A i \in 1..Len(held.text) : held.text[i] = said[Out(held, said) + i]
    /\ held = NoDelta \/ (held.item # 0 /\ held.item = Saying(nest) /\ held.text # <<>>)

\* In order, each item completed once and after its text.
OrderInv(line, held, nest, started, said) ==
    /\ line \in Seq(Events) /\ \A k \in 1..Len(line) : line[k].item \in 0..started
    /\ \A k \in 1..Len(line) : line[k].type = "completed" =>
           /\ line[k].item # 0
           /\ Those(line, "completed", line[k].item) = {k}
           /\ Those(line, "delta", line[k].item) \subseteq 1..k
           /\ line[k].item \notin Ids(nest)
    /\ \A item \in 1..started : \A k, l \in Those(line, "delta", item) :
           \A i \in DOMAIN line[k].text, j \in DOMAIN line[l].text :
               k < l \/ (k = l /\ i < j) => line[k].text[i][1] < line[l].text[j][1]
    /\ \A i \in DOMAIN nest : nest[i].kind # "message" => Those(line, "delta", nest[i].id) = {}
    /\ Saying(nest) # 0 =>
           \A k \in Those(line, "delta", Saying(nest)) : \A i \in DOMAIN line[k].text :
               line[k].text[i][1] <= Out(held, said)

\* While nothing was lost, the text of each message is there, and each item's start and end.
WholeInv(line, held, nest, started, said, failed) ==
    /\ \A k \in 1..Len(line) : line[k].type = "completed" =>
           HeardIn(line, line[k].item, k) = ToSet(line[k].text)
    /\ Saying(nest) # 0 =>
           /\ HeardIn(line, Saying(nest), Len(line)) = {said[i] : i \in 1..Out(held, said)}
           /\ line # <<>> /\ line[Len(line)].item = Saying(nest)
    /\ \A k \in 1..Len(line) : line[k].item # 0 =>
           \E s \in Those(line, "started", line[k].item) : s <= k
    /\ \A item \in Ids(nest) : Those(line, "started", item) # {}
    /\ \A item \in 1..started \ failed : Those(line, "completed", item) # {} \/ item \in Ids(nest)

TimelineInv(line, gone, held, nest, started, said, failed) ==
    /\ gone \in Nat
    /\ NestInv(nest, started)
    /\ HeldInv(held, said, nest)
    /\ OrderInv(line, held, nest, started, said)
    /\ gone = 0 => WholeInv(line, held, nest, started, said, failed)

StreamInv ==
    /\ TimelineInv(timeline, dropped, pending, open, items, spoken, abandoned)
    /\ work \in {"running", "done", "failed", "dead"}
    /\ work \in {"done", "failed"} => Saying(open) = 0

\* One event is published, or lost.
Posted(line, gone, event, after, missing) ==
    \/ after = Append(line, event) /\ missing = gone
    \/ after = line /\ missing = gone + 1

-----------------------------------------------------------------------------
\* A line that grows by an event.
LEMMA LineGrows ==
    ASSUME NEW line \in Seq(Events), NEW event \in Events
    PROVE  /\ Append(line, event) \in Seq(Events)
           /\ Len(line) \in Nat /\ Len(Append(line, event)) = Len(line) + 1
           /\ DOMAIN line = 1..Len(line)
           /\ DOMAIN Append(line, event) = 1..(Len(line) + 1)
           /\ \A k \in 1..Len(line) : Append(line, event)[k] = line[k]
           /\ Append(line, event)[Len(line) + 1] = event
OBVIOUS

\* The new event joins the events of its own type and item, and no others.
LEMMA ThoseGrow ==
    ASSUME NEW line \in Seq(Events), NEW event \in Events, NEW type, NEW item
    PROVE  /\ Those(line, type, item) \subseteq 1..Len(line)
           /\ Those(Append(line, event), type, item) =
                  Those(line, type, item) \cup
                  (IF event.type = type /\ event.item = item THEN {Len(line) + 1} ELSE {})
<1> DEFINE longer == Append(line, event)
<1>1. /\ Len(line) \in Nat /\ DOMAIN line = 1..Len(line) /\ DOMAIN longer = 1..(Len(line) + 1)
      /\ \A k \in 1..Len(line) : longer[k] = line[k]
      /\ longer[Len(line) + 1] = event
  BY LineGrows
<1> HIDE DEF longer
<1>2. DOMAIN longer = DOMAIN line \cup {Len(line) + 1} /\ Len(line) + 1 \notin DOMAIN line
  BY <1>1
<1>3. Those(longer, type, item) = Those(line, type, item) \cup
          (IF event.type = type /\ event.item = item THEN {Len(line) + 1} ELSE {})
  BY <1>1, <1>2 DEF Those
<1> QED BY <1>1, <1>3 DEF Those, longer

\* An event of another type or item leaves them alone.
LEMMA ThoseKeep ==
    ASSUME NEW line \in Seq(Events), NEW event \in Events, NEW type, NEW item,
           event.type # type \/ event.item # item
    PROVE  Those(Append(line, event), type, item) = Those(line, type, item)
<1>1. Those(Append(line, event), type, item) =
          Those(line, type, item) \cup
          (IF event.type = type /\ event.item = item THEN {Len(line) + 1} ELSE {})
  BY ThoseGrow
<1>2. ~(event.type = type /\ event.item = item)
  OBVIOUS
<1> QED BY <1>1, <1>2, Zenon

\* An event adds the text it tells of its own item, behind what was told before.
LEMMA HeardGrows ==
    ASSUME NEW line \in Seq(Events), NEW event \in Events, NEW item
    PROVE  /\ \A n \in 0..Len(line) : HeardIn(Append(line, event), item, n) = HeardIn(line, item, n)
           /\ HeardIn(Append(line, event), item, Len(line) + 1) =
                  HeardIn(line, item, Len(line)) \cup
                  (IF event.type = "delta" /\ event.item = item THEN ToSet(event.text) ELSE {})
<1> DEFINE longer == Append(line, event)
           new == IF event.type = "delta" /\ event.item = item THEN {Len(line) + 1} ELSE {}
<1>1. /\ Len(line) \in Nat /\ \A k \in 1..Len(line) : longer[k] = line[k]
      /\ longer[Len(line) + 1] = event
  BY LineGrows
<1>2. /\ Those(line, "delta", item) \subseteq 1..Len(line)
      /\ Those(longer, "delta", item) = Those(line, "delta", item) \cup new
  BY ThoseGrow
<1>3. \A k \in new : k = Len(line) + 1
  OBVIOUS
<1> HIDE DEF longer
<1>4. ASSUME NEW n \in 0..Len(line)
      PROVE  HeardIn(longer, item, n) = HeardIn(line, item, n)
  <2>1. Those(longer, "delta", item) \cap 1..n = Those(line, "delta", item) \cap 1..n
    <3>1. new \cap 1..n = {}
      BY <1>1, <1>3
    <3> HIDE DEF new
    <3> QED BY <1>2, <3>1
  <2>2. \A k \in Those(line, "delta", item) \cap 1..n : longer[k] = line[k]
    BY <1>1
  <2> QED BY <2>1, <2>2 DEF HeardIn
<1>5. HeardIn(longer, item, Len(line) + 1) =
          HeardIn(line, item, Len(line)) \cup
          (IF event.type = "delta" /\ event.item = item THEN ToSet(event.text) ELSE {})
  <2>1. /\ Those(longer, "delta", item) \cap 1..(Len(line) + 1) = Those(line, "delta", item) \cup new
        /\ Those(line, "delta", item) \cap 1..Len(line) = Those(line, "delta", item)
    <3>1. 1..(Len(line) + 1) = 1..Len(line) \cup {Len(line) + 1}
      BY <1>1
    <3>2. new \subseteq {Len(line) + 1}
      BY <1>3
    <3> HIDE DEF new
    <3> QED BY <1>2, <3>1, <3>2
  <2>2. \A k \in Those(line, "delta", item) : longer[k] = line[k]
    BY <1>1, <1>2
  <2>3. CASE event.type = "delta" /\ event.item = item
    BY <1>1, <2>1, <2>2, <2>3 DEF HeardIn
  <2>4. CASE ~(event.type = "delta" /\ event.item = item)
    BY <1>1, <2>1, <2>2, <2>4 DEF HeardIn
  <2> QED BY <2>3, <2>4
<1> QED BY <1>4, <1>5 DEF longer

-----------------------------------------------------------------------------
\* What is said, where an item stands.
LEMMA NestFacts ==
    ASSUME NEW nest, NEW started, NestInv(nest, started)
    PROVE  /\ started \in Nat /\ Len(nest) \in {0, 1, 2} /\ DOMAIN nest = 1..Len(nest)
           /\ \A i \in 1..Len(nest) : nest[i].id \in 1..started /\ nest[i].kind \in Kinds
           /\ Ids(nest) \subseteq 1..started
           /\ Len(nest) = 0 <=> nest = <<>>
           /\ Saying(nest) # 0 => Len(nest) = 1 /\ nest[1].kind = "message" /\ Saying(nest) = nest[1].id
           /\ Saying(nest) # 0 => Saying(nest) \in Ids(nest) /\ Saying(nest) \in 1..started
<1>1. /\ started \in Nat /\ Len(nest) \in {0, 1, 2} /\ DOMAIN nest = 1..Len(nest)
      /\ \A i \in 1..Len(nest) : nest[i] \in [id : 1..started, kind : Kinds]
      /\ Len(nest) = 0 <=> nest = <<>>
  <2>1. nest \in Seq([id : 1..started, kind : Kinds]) /\ started \in Nat /\ Len(nest) \in 0..2
    BY DEF NestInv
  <2> DEFINE Item == [id : 1..started, kind : Kinds]
  <2>2. nest \in Seq(Item)
    BY <2>1
  <2> HIDE DEF Item
  <2>3. DOMAIN nest = 1..Len(nest) /\ \A i \in 1..Len(nest) : nest[i] \in Item
    BY <2>2
  <2>4. Len(nest) = 0 <=> nest = <<>>
    BY <2>2
  <2> QED BY <2>1, <2>3, <2>4 DEF Item
<1>2. \A i \in 1..Len(nest) : nest[i].id \in 1..started /\ nest[i].kind \in Kinds
  BY <1>1
<1>3. Ids(nest) \subseteq 1..started
  BY <1>1, <1>2 DEF Ids
<1>4. ASSUME Saying(nest) # 0
      PROVE  Len(nest) = 1 /\ nest[1].kind = "message" /\ Saying(nest) = nest[1].id
  <2>1. nest # <<>> /\ nest[Len(nest)].kind = "message" /\ Saying(nest) = nest[Len(nest)].id
    BY <1>4 DEF Saying
  <2>2. Len(nest) # 2
    BY <2>1 DEF NestInv
  <2>3. Len(nest) = 1
    BY <1>1, <2>1, <2>2
  <2> QED BY <2>1, <2>3
<1>5. Saying(nest) # 0 => Saying(nest) \in Ids(nest)
  BY <1>1, <1>4 DEF Ids
<1> QED BY <1>1, <1>2, <1>3, <1>4, <1>5

\* Nothing held back is held as well.
LEMMA NothingHeld ==
    ASSUME NEW held, NEW said, NEW nest, HeldInv(held, said, nest)
    PROVE  /\ HeldInv(NoDelta, said, nest)
           /\ Out(NoDelta, said) = Len(said) /\ Len(said) \in Nat
           /\ Out(held, said) \in 0..Len(said)
<1>1. NoDelta.text = <<>> /\ NoDelta.item = 0 /\ Len(<<>>) = 0 /\ <<>> \in Seq(Chunks)
  BY DEF NoDelta
<1>2. Len(said) \in Nat /\ Len(held.text) \in 0..Len(said)
  BY DEF HeldInv
<1>3. NoDelta = [item |-> NoDelta.item, text |-> NoDelta.text]
  BY DEF NoDelta
<1>4. HeldInv(NoDelta, said, nest)
  <2>1. \A i \in 1..Len(NoDelta.text) : NoDelta.text[i] = said[Out(NoDelta, said) + i]
    BY <1>1
  <2>2. Len(NoDelta.text) \in 0..Len(said) /\ NoDelta.text \in Seq(Chunks)
    BY <1>1, <1>2
  <2> QED BY <1>3, <2>1, <2>2 DEF HeldInv
<1> QED BY <1>1, <1>2, <1>4 DEF Out

\* What was told is in order still when nothing is held back.
LEMMA NothingHeldInOrder ==
    ASSUME NEW line, NEW held, NEW nest, NEW started, NEW said,
           NestInv(nest, started), HeldInv(held, said, nest), OrderInv(line, held, nest, started, said)
    PROVE  OrderInv(line, NoDelta, nest, started, said)
<1>1. /\ Out(NoDelta, said) = Len(said) /\ Len(said) \in Nat /\ Out(held, said) \in 0..Len(said)
  BY NothingHeld
<1>2. ASSUME Saying(nest) # 0, NEW k \in Those(line, "delta", Saying(nest)),
             NEW i \in DOMAIN line[k].text
      PROVE  line[k].text[i][1] <= Out(NoDelta, said)
  <2>1. line[k].text[i][1] <= Out(held, said)
    BY <1>2 DEF OrderInv
  <2>2. line[k].text[i][1] \in Nat
    <3>1. line \in Seq(Events) /\ k \in 1..Len(line)
      BY <1>2 DEF OrderInv, Those
    <3>2. line[k] \in Events
      BY <3>1
    <3>3. line[k].text \in Seq(Chunks)
      BY <3>2 DEF Events
    <3>4. line[k].text[i] \in Chunks
      BY <1>2, <3>3
    <3> QED BY <3>4 DEF Chunks
  <2> QED BY <1>1, <2>1, <2>2
<1> QED BY <1>2 DEF OrderInv

\* An event that is neither text nor an end.
LEMMA PlainInOrder ==
    ASSUME NEW line, NEW held, NEW nest, NEW started, NEW said, NEW event \in Events,
           OrderInv(line, held, nest, started, said),
           event.type \in {"started", "notice"}, event.item \in 0..started
    PROVE  OrderInv(Append(line, event), held, nest, started, said)
<1> DEFINE longer == Append(line, event)
<1>1. line \in Seq(Events)
  BY DEF OrderInv
<1>2. /\ longer \in Seq(Events) /\ Len(line) \in Nat /\ Len(longer) = Len(line) + 1
      /\ \A k \in 1..Len(line) : longer[k] = line[k]
      /\ longer[Len(line) + 1] = event
  BY <1>1, LineGrows
<1>0. event.type # "delta" /\ event.type # "completed"
  OBVIOUS
<1>3. \A item : Those(longer, "delta", item) = Those(line, "delta", item)
  <2>1. ASSUME NEW item PROVE Those(longer, "delta", item) = Those(line, "delta", item)
    <3>1. Those(longer, "delta", item) = Those(line, "delta", item) \cup
              (IF event.type = "delta" /\ event.item = item THEN {Len(line) + 1} ELSE {})
      BY <1>1, ThoseGrow
    <3> QED BY <1>0, <3>1
  <2> QED BY <2>1
<1>4. \A item : Those(longer, "completed", item) = Those(line, "completed", item)
  <2>1. ASSUME NEW item PROVE Those(longer, "completed", item) = Those(line, "completed", item)
    <3>1. Those(longer, "completed", item) = Those(line, "completed", item) \cup
              (IF event.type = "completed" /\ event.item = item THEN {Len(line) + 1} ELSE {})
      BY <1>1, ThoseGrow
    <3> QED BY <1>0, <3>1
  <2> QED BY <2>1
<1>5. \A item : Those(line, "delta", item) \subseteq 1..Len(line)
  BY <1>1, ThoseGrow
<1> HIDE DEF longer
<1>6. \A k \in 1..Len(longer) : longer[k].type = "completed" => k \in 1..Len(line)
  BY <1>2
<1>7. \A k \in 1..Len(longer) : longer[k].item \in 0..started
  <2>1. \A k \in 1..Len(longer) : k \in 1..Len(line) \/ k = Len(line) + 1
    BY <1>2
  <2>2. \A k \in 1..Len(line) : line[k].item \in 0..started
    BY DEF OrderInv
  <2> QED BY <1>2, <2>1, <2>2
<1>8. \A k \in 1..Len(longer) : longer[k].type = "completed" =>
           /\ longer[k].item # 0
           /\ Those(longer, "completed", longer[k].item) = {k}
           /\ Those(longer, "delta", longer[k].item) \subseteq 1..k
           /\ longer[k].item \notin Ids(nest)
  BY <1>2, <1>3, <1>4, <1>6 DEF OrderInv
<1>9. \A item \in 1..started : \A k, l \in Those(longer, "delta", item) :
           \A i \in DOMAIN longer[k].text, j \in DOMAIN longer[l].text :
               k < l \/ (k = l /\ i < j) => longer[k].text[i][1] < longer[l].text[j][1]
  <2>1. ASSUME NEW item \in 1..started, NEW k \in Those(longer, "delta", item),
               NEW l \in Those(longer, "delta", item),
               NEW i \in DOMAIN longer[k].text, NEW j \in DOMAIN longer[l].text,
               k < l \/ (k = l /\ i < j)
        PROVE  longer[k].text[i][1] < longer[l].text[j][1]
    <3>1. /\ k \in Those(line, "delta", item) /\ l \in Those(line, "delta", item)
          /\ longer[k] = line[k] /\ longer[l] = line[l]
      BY <1>2, <1>3, <1>5, <2>1
    <3> QED BY <2>1, <3>1 DEF OrderInv
  <2> QED BY <2>1
<1>10. \A i \in DOMAIN nest : nest[i].kind # "message" => Those(longer, "delta", nest[i].id) = {}
  BY <1>3 DEF OrderInv
<1>11. Saying(nest) # 0 =>
           \A k \in Those(longer, "delta", Saying(nest)) : \A i \in DOMAIN longer[k].text :
               longer[k].text[i][1] <= Out(held, said)
  BY <1>2, <1>3, <1>5 DEF OrderInv
<1> QED BY <1>2, <1>7, <1>8, <1>9, <1>10, <1>11 DEF OrderInv, longer

\* The numbers of the chunks held back.
LEMMA HeldNumbers ==
    ASSUME NEW held, NEW said, NEW nest, HeldInv(held, said, nest)
    PROVE  /\ DOMAIN held.text = 1..Len(held.text) /\ Len(held.text) \in Nat
           /\ \A i \in 1..Len(held.text) : /\ held.text[i][1] = Out(held, said) + i
                                           /\ Out(held, said) + i \in 1..Len(said)
<1>1. /\ held.text \in Seq(Chunks) /\ said \in Seq(Chunks) /\ Len(held.text) \in 0..Len(said)
      /\ \A i \in 1..Len(said) : said[i][1] = i
      /\ \A i \in 1..Len(held.text) : held.text[i] = said[Out(held, said) + i]
  BY DEF HeldInv
<1>2. DOMAIN held.text = 1..Len(held.text) /\ Len(held.text) \in Nat /\ Len(said) \in Nat
  BY <1>1
<1>3. \A i \in 1..Len(held.text) : Out(held, said) + i \in 1..Len(said)
  BY <1>1, <1>2 DEF Out
<1> QED BY <1>1, <1>2, <1>3

\* The text held back can be published, and it is that of the message being said.
LEMMA HeldLine ==
    ASSUME NEW held, NEW said, NEW nest, NEW started,
           NestInv(nest, started), HeldInv(held, said, nest), held # NoDelta
    PROVE  /\ DeltaEvent(held) \in Events /\ DeltaEvent(held).type = "delta"
           /\ DeltaEvent(held).item = Saying(nest) /\ DeltaEvent(held).text = held.text
           /\ Saying(nest) \in 1..started /\ Saying(nest) \in Ids(nest) /\ Saying(nest) # 0
<1>1. held.item # 0 /\ held.item = Saying(nest) /\ held.text \in Seq(Chunks)
  BY DEF HeldInv
<1>2. Saying(nest) \in 1..started /\ Saying(nest) \in Ids(nest) /\ started \in Nat
  BY <1>1, NestFacts
<1> QED BY <1>1, <1>2 DEF DeltaEvent, Event, Events

\* The text held back comes after what was told of its message (CoalesceDelta).
LEMMA TextInOrder ==
    ASSUME NEW line, NEW held, NEW nest, NEW started, NEW said,
           NestInv(nest, started), HeldInv(held, said, nest), held # NoDelta,
           OrderInv(line, held, nest, started, said)
    PROVE  OrderInv(Append(line, DeltaEvent(held)), NoDelta, nest, started, said)
<1> DEFINE event == DeltaEvent(held)
           longer == Append(line, event)
           message == Saying(nest)
           new == Len(line) + 1
<1>1. line \in Seq(Events)
  BY DEF OrderInv
<1>2. /\ event \in Events /\ event.type = "delta" /\ event.item = message /\ event.text = held.text
      /\ message \in 1..started /\ message \in Ids(nest) /\ message # 0
  BY HeldLine
<1>3. Len(nest) = 1 /\ nest[1].kind = "message" /\ DOMAIN nest = 1..Len(nest) /\ started \in Nat
  BY <1>2, NestFacts
<1> HIDE DEF event, message
<1>4. /\ longer \in Seq(Events) /\ Len(line) \in Nat /\ Len(longer) = new
      /\ \A k \in 1..Len(line) : longer[k] = line[k]
      /\ longer[new] = event
  BY <1>1, <1>2, LineGrows
<1>5. \A item : /\ item # message => Those(longer, "delta", item) = Those(line, "delta", item)
                /\ Those(longer, "delta", message) = Those(line, "delta", message) \cup {new}
                /\ Those(longer, "completed", item) = Those(line, "completed", item)
                /\ Those(line, "delta", item) \subseteq 1..Len(line)
  <2>1. ASSUME NEW item
        PROVE  /\ item # message => Those(longer, "delta", item) = Those(line, "delta", item)
               /\ Those(longer, "delta", message) = Those(line, "delta", message) \cup {new}
               /\ Those(longer, "completed", item) = Those(line, "completed", item)
               /\ Those(line, "delta", item) \subseteq 1..Len(line)
    <3>1. Those(longer, "delta", item) = Those(line, "delta", item) \cup
              (IF event.type = "delta" /\ event.item = item THEN {new} ELSE {})
      BY <1>1, <1>2, ThoseGrow
    <3>2. Those(longer, "delta", message) = Those(line, "delta", message) \cup
              (IF event.type = "delta" /\ event.item = message THEN {new} ELSE {})
      BY <1>1, <1>2, ThoseGrow
    <3>3. Those(longer, "completed", item) = Those(line, "completed", item)
      <4>1. event.type # "completed"
        BY <1>2
      <4> QED BY <1>1, <1>2, <4>1, ThoseKeep
    <3>4. Those(line, "delta", item) \subseteq 1..Len(line)
      BY <1>1, <1>2, ThoseGrow
    <3> QED BY <1>2, <3>1, <3>2, <3>3, <3>4
  <2> QED BY <2>1
<1> HIDE DEF longer
<1>6. \A k \in 1..Len(longer) : k \in 1..Len(line) \/ k = new
  BY <1>4
<1>7. \A k \in 1..Len(longer) : longer[k].item \in 0..started
  <2>1. \A k \in 1..Len(line) : line[k].item \in 0..started
    BY DEF OrderInv
  <2>2. event.item \in 0..started
    BY <1>2, <1>3
  <2> QED BY <1>4, <1>6, <2>1, <2>2
<1>8. \A k \in 1..Len(longer) : longer[k].type = "completed" =>
           /\ longer[k].item # 0
           /\ Those(longer, "completed", longer[k].item) = {k}
           /\ Those(longer, "delta", longer[k].item) \subseteq 1..k
           /\ longer[k].item \notin Ids(nest)
  <2>1. ASSUME NEW k \in 1..Len(longer), longer[k].type = "completed"
        PROVE  k \in 1..Len(line) /\ longer[k] = line[k]
    <3>1. k # new
      BY <1>2, <1>4, <2>1
    <3> QED BY <1>4, <1>6, <3>1
  <2>2. \A k \in 1..Len(line) : line[k].type = "completed" =>
           /\ line[k].item # 0
           /\ Those(line, "completed", line[k].item) = {k}
           /\ Those(line, "delta", line[k].item) \subseteq 1..k
           /\ line[k].item \notin Ids(nest)
    BY DEF OrderInv
  <2> QED BY <1>2, <1>5, <2>1, <2>2
<1> HIDE DEF new
<1>9. /\ \A i \in 1..Len(held.text) : /\ held.text[i][1] = Out(held, said) + i
                                      /\ Out(held, said) + i \in 1..Len(said)
      /\ DOMAIN held.text = 1..Len(held.text) /\ Len(held.text) \in Nat
      /\ Out(held, said) \in Nat /\ Out(NoDelta, said) = Len(said) /\ Len(said) \in Nat
      /\ Out(held, said) <= Len(said)
  BY HeldNumbers, NothingHeld
<1>10. ASSUME NEW k \in Those(line, "delta", message), NEW i \in DOMAIN line[k].text
       PROVE  line[k].text[i][1] <= Out(held, said) /\ line[k].text[i][1] \in Nat
  <2>1. line[k].text[i][1] <= Out(held, said)
    BY <1>2, <1>10 DEF OrderInv, message
  <2>2. line[k] \in Events
    BY <1>1, <1>5
  <2>3. line[k].text \in Seq(Chunks)
    BY <2>2 DEF Events
  <2>4. line[k].text[i] \in Chunks
    BY <1>10, <2>3
  <2> QED BY <2>1, <2>4 DEF Chunks
<1>11. ASSUME NEW item \in 1..started, NEW k \in Those(longer, "delta", item),
              NEW l \in Those(longer, "delta", item),
              NEW i \in DOMAIN longer[k].text, NEW j \in DOMAIN longer[l].text,
              k < l \/ (k = l /\ i < j)
       PROVE  longer[k].text[i][1] < longer[l].text[j][1]
  <2>1. CASE k \in Those(line, "delta", item) /\ l \in Those(line, "delta", item)
    <3>1. longer[k] = line[k] /\ longer[l] = line[l]
      BY <1>4, <1>5, <2>1
    <3> QED BY <1>11, <2>1, <3>1 DEF OrderInv
  <2>2. CASE k \in Those(line, "delta", item) /\ l = new /\ item = message
    <3>1. longer[k] = line[k] /\ longer[l].text = held.text
      BY <1>2, <1>4, <1>5, <2>2
    <3>2. longer[k].text[i][1] <= Out(held, said) /\ longer[k].text[i][1] \in Nat
      BY <1>10, <1>11, <2>2, <3>1
    <3>3. longer[l].text[j][1] = Out(held, said) + j /\ j \in 1..Len(held.text)
      BY <1>9, <1>11, <3>1
    <3> QED BY <1>9, <3>2, <3>3
  <2>3. CASE k = new /\ l \in Those(line, "delta", item)
    BY <1>4, <1>5, <1>11, <2>3 DEF new
  <2>4. CASE k = new /\ l = new
    <3>1. longer[k].text = held.text /\ longer[l].text = held.text
      BY <1>2, <1>4, <2>4
    <3>2. i < j
      BY <1>4, <1>11, <2>4 DEF new
    <3>3. i \in 1..Len(held.text) /\ j \in 1..Len(held.text)
      BY <1>9, <1>11, <3>1
    <3>4. longer[k].text[i][1] = Out(held, said) + i /\ longer[l].text[j][1] = Out(held, said) + j
      BY <1>9, <3>1, <3>3
    <3> QED BY <1>9, <3>2, <3>3, <3>4
  <2>5. item = message \/ Those(longer, "delta", item) = Those(line, "delta", item)
    BY <1>5
  <2> QED BY <1>5, <1>11, <2>1, <2>2, <2>3, <2>4, <2>5
<1>12. \A i \in DOMAIN nest : nest[i].kind # "message" => Those(longer, "delta", nest[i].id) = {}
  BY <1>3
<1>13. ASSUME NEW k \in Those(longer, "delta", message), NEW i \in DOMAIN longer[k].text
       PROVE  longer[k].text[i][1] <= Out(NoDelta, said)
  <2>1. CASE k \in Those(line, "delta", message)
    <3>1. longer[k] = line[k]
      BY <1>4, <1>5, <2>1
    <3>2. longer[k].text[i][1] <= Out(held, said) /\ longer[k].text[i][1] \in Nat
      BY <1>10, <1>13, <2>1, <3>1
    <3> QED BY <1>9, <3>2
  <2>2. CASE k = new
    <3>1. longer[k].text = held.text
      BY <1>2, <1>4, <2>2
    <3>2. i \in 1..Len(held.text) /\ longer[k].text[i][1] = Out(held, said) + i
      BY <1>9, <1>13, <3>1
    <3>3. Out(held, said) + i \in 1..Len(said)
      BY <1>9, <3>2
    <3> QED BY <1>9, <3>2, <3>3
  <2> QED BY <1>5, <1>13, <2>1, <2>2
<1> QED BY <1>4, <1>7, <1>8, <1>11, <1>12, <1>13 DEF OrderInv, longer, message, event

\* The items open after one more has started.
Opened(nest, started, kind) == Append(nest, [id |-> started + 1, kind |-> kind])

\* An item opens, where it may.
LEMMA NestOpens ==
    ASSUME NEW nest, NEW started, NEW kind \in Kinds, NestInv(nest, started),
           \/ nest = <<>> /\ kind # "trial"
           \/ kind = "trial" /\ (nest = <<>> \/ nest[Len(nest)].kind = "tool")
    PROVE  /\ NestInv(Opened(nest, started, kind), started + 1)
           /\ Ids(Opened(nest, started, kind)) = Ids(nest) \cup {started + 1}
           /\ Saying(Opened(nest, started, kind)) = IF kind = "message" THEN started + 1 ELSE 0
           /\ \A i \in DOMAIN Opened(nest, started, kind) :
                  \/ i \in DOMAIN nest /\ Opened(nest, started, kind)[i] = nest[i]
                  \/ Opened(nest, started, kind)[i] = [id |-> started + 1, kind |-> kind]
<1> DEFINE Item(n) == [id : 1..n, kind : Kinds]
           entry == [id |-> started + 1, kind |-> kind]
           wider == Append(nest, entry)
<1>1. /\ nest \in Seq(Item(started)) /\ started \in Nat /\ Len(nest) \in 0..2
      /\ Len(nest) \in {0, 1, 2} /\ DOMAIN nest = 1..Len(nest)
      /\ \A i \in 1..Len(nest) : nest[i].id \in 1..started /\ nest[i].kind \in Kinds
      /\ Len(nest) = 0 <=> nest = <<>>
  BY NestFacts DEF NestInv
<1>2. nest \in Seq(Item(started + 1)) /\ entry \in Item(started + 1) /\ started + 1 \in Nat
  <2>1. \A x \in Item(started) : x \in Item(started + 1)
    BY <1>1
  <2>2. entry \in Item(started + 1)
    BY <1>1
  <2> HIDE DEF Item
  <2> QED BY <1>1, <2>1, <2>2
<1>3. entry.id = started + 1 /\ entry.kind = kind
  OBVIOUS
<1> HIDE DEF Item, entry
<1>4. /\ wider \in Seq(Item(started + 1)) /\ Len(wider) = Len(nest) + 1
      /\ DOMAIN wider = 1..(Len(nest) + 1)
      /\ \A i \in 1..Len(nest) : wider[i] = nest[i]
      /\ wider[Len(nest) + 1] = entry /\ wider # <<>>
  BY <1>2
<1>5. Len(nest) = 0 \/ Len(nest) = 1
  <2>1. Len(nest) = 2 => nest[2].kind = "trial"
    BY DEF NestInv
  <2> QED BY <1>1, <2>1
<1> HIDE DEF wider
<1>6. NestInv(wider, started + 1)
  <2>1. CASE Len(nest) = 0
    BY <1>2, <1>4, <2>1 DEF NestInv, Item
  <2>2. CASE Len(nest) = 1
    <3>1. nest[1].kind = "tool" /\ kind = "trial" /\ nest[1].id \in 1..started
      BY <1>1, <2>2
    <3>2. wider[1] = nest[1] /\ wider[2] = entry /\ Len(wider) = 2
      BY <1>4, <2>2
    <3>3. wider[1].id # wider[2].id
      BY <1>1, <1>3, <3>1, <3>2
    <3> QED BY <1>2, <1>3, <1>4, <3>1, <3>2, <3>3 DEF NestInv, Item
  <2> QED BY <1>5, <2>1, <2>2
<1>7. Ids(wider) = Ids(nest) \cup {started + 1}
  <2>1. 1..(Len(nest) + 1) = 1..Len(nest) \cup {Len(nest) + 1}
    BY <1>1
  <2> QED BY <1>1, <1>3, <1>4, <2>1 DEF Ids
<1>8. Saying(wider) = IF kind = "message" THEN started + 1 ELSE 0
  BY <1>3, <1>4 DEF Saying
<1>9. \A i \in DOMAIN wider : (i \in DOMAIN nest /\ wider[i] = nest[i]) \/ wider[i] = entry
  <2>1. \A i \in 1..(Len(nest) + 1) : i \in 1..Len(nest) \/ i = Len(nest) + 1
    BY <1>1
  <2> QED BY <1>1, <1>4, <2>1
<1> QED BY <1>6, <1>7, <1>8, <1>9 DEF wider, entry, Opened

\* Nothing was told of an item that opens.
LEMMA OpensInOrder ==
    ASSUME NEW line, NEW nest, NEW started, NEW said, NEW kind \in Kinds,
           NestInv(nest, started), Saying(nest) = 0,
           \/ nest = <<>> /\ kind # "trial"
           \/ kind = "trial" /\ (nest = <<>> \/ nest[Len(nest)].kind = "tool"),
           OrderInv(line, NoDelta, nest, started, said)
    PROVE  OrderInv(line, NoDelta, Opened(nest, started, kind), started + 1, <<>>)
<1> DEFINE wider == Opened(nest, started, kind)
<1>1. /\ Ids(wider) = Ids(nest) \cup {started + 1}
      /\ Saying(wider) \in {0, started + 1}
      /\ \A i \in DOMAIN wider : \/ i \in DOMAIN nest /\ wider[i] = nest[i]
                                 \/ wider[i] = [id |-> started + 1, kind |-> kind]
  BY NestOpens
<1>2. started \in Nat
  BY DEF NestInv
<1> HIDE DEF wider
<1>3. line \in Seq(Events) /\ \A k \in 1..Len(line) : line[k].item \in 0..started
  BY DEF OrderInv
<1>4. DOMAIN line = 1..Len(line)
  BY <1>3
<1>5. \A k \in DOMAIN line : line[k].item # started + 1
  BY <1>2, <1>3, <1>4
<1>6. \A type : Those(line, type, started + 1) = {}
  BY <1>5 DEF Those
<1>7. \A k \in 1..Len(line) : line[k].item \in 0..(started + 1)
  BY <1>2, <1>3
<1>8. \A k \in 1..Len(line) : line[k].type = "completed" =>
           /\ line[k].item # 0
           /\ Those(line, "completed", line[k].item) = {k}
           /\ Those(line, "delta", line[k].item) \subseteq 1..k
           /\ line[k].item \notin Ids(wider)
  BY <1>1, <1>4, <1>5 DEF OrderInv
<1>9. ASSUME NEW item \in 1..(started + 1), NEW k \in Those(line, "delta", item),
             NEW l \in Those(line, "delta", item),
             NEW i \in DOMAIN line[k].text, NEW j \in DOMAIN line[l].text,
             k < l \/ (k = l /\ i < j)
      PROVE  line[k].text[i][1] < line[l].text[j][1]
  <2>1. item # started + 1
    BY <1>6
  <2>2. item \in 1..started
    BY <1>2, <2>1
  <2> QED BY <1>9, <2>2 DEF OrderInv
<1>10. \A i \in DOMAIN wider : wider[i].kind # "message" => Those(line, "delta", wider[i].id) = {}
  <2>1. ASSUME NEW i \in DOMAIN wider, wider[i].kind # "message"
        PROVE  Those(line, "delta", wider[i].id) = {}
    <3>1. CASE i \in DOMAIN nest /\ wider[i] = nest[i]
      BY <2>1, <3>1 DEF OrderInv
    <3>2. CASE wider[i] = [id |-> started + 1, kind |-> kind]
      <4>1. wider[i].id = started + 1
        BY <3>2
      <4> QED BY <1>6, <4>1
    <3> QED BY <1>1, <3>1, <3>2
  <2> QED BY <2>1
<1>11. Saying(wider) # 0 => Those(line, "delta", Saying(wider)) = {}
  BY <1>1, <1>6
<1> QED BY <1>3, <1>7, <1>8, <1>9, <1>10, <1>11 DEF OrderInv, wider

\* The innermost item closes.
LEMMA NestCloses ==
    ASSUME NEW nest, NEW started, NestInv(nest, started), nest # <<>>
    PROVE  /\ NestInv(Front(nest), started) /\ Saying(Front(nest)) = 0
           /\ nest[Len(nest)].id \in Ids(nest) /\ nest[Len(nest)].id \in 1..started
           /\ Ids(Front(nest)) = Ids(nest) \ {nest[Len(nest)].id}
           /\ \A i \in DOMAIN Front(nest) : i \in DOMAIN nest /\ Front(nest)[i] = nest[i]
<1> DEFINE Item == [id : 1..started, kind : Kinds]
           inner == Front(nest)
<1>1. /\ nest \in Seq(Item) /\ started \in Nat /\ Len(nest) \in {1, 2} /\ DOMAIN nest = 1..Len(nest)
      /\ \A i \in 1..Len(nest) : nest[i].id \in 1..started
  BY NestFacts DEF NestInv
<1>2. Len(nest) = 2 => nest[1].kind = "tool" /\ nest[1].id # nest[2].id
  BY DEF NestInv
<1> HIDE DEF Item
<1>3. /\ inner \in Seq(Item) /\ Len(inner) = Len(nest) - 1 /\ DOMAIN inner = 1..(Len(nest) - 1)
      /\ \A i \in 1..(Len(nest) - 1) : inner[i] = nest[i]
  BY <1>1 DEF Front
<1> HIDE DEF inner
<1>4. Len(inner) \in {0, 1}
  BY <1>1, <1>3
<1>5. NestInv(inner, started)
  <2>1. Len(inner) \in 0..2 /\ Len(inner) # 2
    BY <1>4
  <2>2. inner \in Seq([id : 1..started, kind : Kinds])
    BY <1>3 DEF Item
  <2>3. started \in Nat
    BY <1>1
  <2> QED BY ONLY <2>1, <2>2, <2>3, Zenon DEF NestInv
<1>6. Saying(inner) = 0
  <2>1. CASE Len(inner) = 0
    <3>1. inner = <<>>
      BY <1>3, <2>1
    <3> QED BY <3>1 DEF Saying
  <2>2. CASE Len(inner) = 1
    BY <1>1, <1>2, <1>3, <2>2 DEF Saying
  <2> QED BY <1>4, <2>1, <2>2
<1>7. nest[Len(nest)].id \in Ids(nest) /\ nest[Len(nest)].id \in 1..started
  BY <1>1 DEF Ids
<1>8. Ids(inner) = Ids(nest) \ {nest[Len(nest)].id}
  <2>1. CASE Len(nest) = 1
    <3>1. DOMAIN inner = {} /\ DOMAIN nest = {1}
      BY <1>1, <1>3, <2>1
    <3> QED BY <2>1, <3>1 DEF Ids
  <2>2. CASE Len(nest) = 2
    <3>1. DOMAIN inner = {1} /\ DOMAIN nest = {1, 2} /\ inner[1] = nest[1]
      BY <1>1, <1>3, <2>2
    <3> QED BY <1>2, <2>2, <3>1 DEF Ids
  <2> QED BY <1>1, <2>1, <2>2
<1>9. \A i \in DOMAIN inner : i \in DOMAIN nest /\ inner[i] = nest[i]
  BY <1>1, <1>3
<1> QED BY <1>5, <1>6, <1>7, <1>8, <1>9 DEF inner

\* What was told stays in order when the innermost item closes.
LEMMA ClosesInOrder ==
    ASSUME NEW line, NEW nest, NEW started, NEW said, NEW after,
           NestInv(nest, started), nest # <<>>,
           OrderInv(line, NoDelta, nest, started, said)
    PROVE  OrderInv(line, NoDelta, Front(nest), started, after)
<1>1. /\ Saying(Front(nest)) = 0 /\ Ids(Front(nest)) \subseteq Ids(nest)
      /\ \A i \in DOMAIN Front(nest) : i \in DOMAIN nest /\ Front(nest)[i] = nest[i]
  BY NestCloses
<1> DEFINE inner == Front(nest)
<1> HIDE DEF inner
<1> QED BY <1>1 DEF OrderInv, inner

\* The end of an item that has closed, published or lost.
LEMMA EndInOrder ==
    ASSUME NEW line, NEW nest, NEW started, NEW said, NEW event \in Events,
           OrderInv(line, NoDelta, nest, started, said), Saying(nest) = 0,
           event.type = "completed", event.item \in 1..started \ Ids(nest),
           Those(line, "completed", event.item) = {}, started \in Nat
    PROVE  OrderInv(Append(line, event), NoDelta, nest, started, said)
<1> DEFINE longer == Append(line, event)
           new == Len(line) + 1
<1>1. line \in Seq(Events)
  BY DEF OrderInv
<1>2. /\ longer \in Seq(Events) /\ Len(line) \in Nat /\ Len(longer) = new
      /\ \A k \in 1..Len(line) : longer[k] = line[k]
      /\ longer[new] = event
  BY <1>1, LineGrows
<1>3. \A item : Those(longer, "delta", item) = Those(line, "delta", item)
  <2>1. ASSUME NEW item PROVE Those(longer, "delta", item) = Those(line, "delta", item)
    <3>1. event.type # "delta"
      OBVIOUS
    <3> QED BY <1>1, <3>1, ThoseKeep
  <2> QED BY <2>1
<1>4. \A item : item # event.item => Those(longer, "completed", item) = Those(line, "completed", item)
  <2>1. ASSUME NEW item, item # event.item
        PROVE  Those(longer, "completed", item) = Those(line, "completed", item)
    BY <1>1, <2>1, ThoseKeep
  <2> QED BY <2>1
<1>5. Those(longer, "completed", event.item) = {new}
  <2>1. Those(longer, "completed", event.item) = Those(line, "completed", event.item) \cup
            (IF event.type = "completed" /\ event.item = event.item THEN {new} ELSE {})
    BY <1>1, ThoseGrow
  <2> QED BY <2>1
<1>6. \A item : Those(line, "delta", item) \subseteq 1..Len(line)
  <2>1. ASSUME NEW item PROVE Those(line, "delta", item) \subseteq 1..Len(line)
    BY <1>1, ThoseGrow
  <2> QED BY <2>1
<1> HIDE DEF longer
<1>7. \A k \in 1..Len(longer) : k \in 1..Len(line) \/ k = new
  BY <1>2
<1>8. \A k \in 1..Len(longer) : longer[k].item \in 0..started
  <2>1. \A k \in 1..Len(line) : line[k].item \in 0..started
    BY DEF OrderInv
  <2>2. event.item \in 0..started
    OBVIOUS
  <2> QED BY <1>2, <1>7, <2>1, <2>2
<1>9. ASSUME NEW k \in 1..Len(longer), longer[k].type = "completed"
      PROVE  /\ longer[k].item # 0
             /\ Those(longer, "completed", longer[k].item) = {k}
             /\ Those(longer, "delta", longer[k].item) \subseteq 1..k
             /\ longer[k].item \notin Ids(nest)
  <2>1. CASE k \in 1..Len(line)
    <3>1. longer[k] = line[k]
      BY <1>2, <2>1
    <3>2. /\ line[k].item # 0
          /\ Those(line, "completed", line[k].item) = {k}
          /\ Those(line, "delta", line[k].item) \subseteq 1..k
          /\ line[k].item \notin Ids(nest)
      BY <1>9, <2>1, <3>1 DEF OrderInv
    <3>3. line[k].item # event.item
      BY <3>2
    <3> QED BY <1>3, <1>4, <3>1, <3>2, <3>3
  <2>2. CASE k = new
    <3>1. longer[k] = event /\ Those(longer, "delta", event.item) \subseteq 1..Len(line)
      BY <1>2, <1>3, <1>6, <2>2
    <3>2. 1..Len(line) \subseteq 1..k /\ event.item # 0
      BY <1>2, <2>2
    <3> QED BY <1>5, <2>2, <3>1, <3>2
  <2> QED BY <1>7, <2>1, <2>2
<1> HIDE DEF new
<1>10. ASSUME NEW item \in 1..started, NEW k \in Those(longer, "delta", item),
              NEW l \in Those(longer, "delta", item),
              NEW i \in DOMAIN longer[k].text, NEW j \in DOMAIN longer[l].text,
              k < l \/ (k = l /\ i < j)
       PROVE  longer[k].text[i][1] < longer[l].text[j][1]
  <2>1. /\ k \in Those(line, "delta", item) /\ l \in Those(line, "delta", item)
        /\ longer[k] = line[k] /\ longer[l] = line[l]
    BY <1>2, <1>3, <1>6, <1>10
  <2> QED BY <1>10, <2>1 DEF OrderInv
<1>11. \A i \in DOMAIN nest : nest[i].kind # "message" => Those(longer, "delta", nest[i].id) = {}
  BY <1>3 DEF OrderInv
<1> QED BY <1>2, <1>8, <1>9, <1>10, <1>11 DEF OrderInv, longer

\* What is held back after one more chunk.
Held(held, nest, chunk) == [item |-> Saying(nest), text |-> Append(held.text, chunk)]

\* A chunk is said, and held back: what is out of the observer stays.
LEMMA HeldGrows ==
    ASSUME NEW held, NEW said, NEW nest, NEW size \in Sizes, HeldInv(held, said, nest),
           Saying(nest) # 0
    PROVE  /\ HeldInv(Held(held, nest, <<Len(said) + 1, size>>),
                      Append(said, <<Len(said) + 1, size>>), nest)
           /\ Out(Held(held, nest, <<Len(said) + 1, size>>), Append(said, <<Len(said) + 1, size>>))
                  = Out(held, said)
           /\ Held(held, nest, <<Len(said) + 1, size>>) # NoDelta
           /\ Out(held, said) \in 0..Len(said) /\ Len(said) \in Nat
           /\ \A i \in 1..Out(held, said) : Append(said, <<Len(said) + 1, size>>)[i] = said[i]
<1> DEFINE chunk == <<Len(said) + 1, size>>
           more == Append(said, chunk)
           text == Append(held.text, chunk)
           o == Out(held, said)
<1>1. /\ said \in Seq(Chunks) /\ held.text \in Seq(Chunks) /\ Len(held.text) \in 0..Len(said)
      /\ \A i \in 1..Len(said) : said[i][1] = i
      /\ \A i \in 1..Len(held.text) : held.text[i] = said[o + i]
  BY DEF HeldInv
<1>2. /\ Len(said) \in Nat /\ Len(held.text) \in Nat /\ o = Len(said) - Len(held.text)
      /\ o \in 0..Len(said)
  BY <1>1 DEF Out
<1>3. chunk \in Chunks /\ chunk[1] = Len(said) + 1
  BY <1>2 DEF Chunks
<1> HIDE DEF chunk, o
<1>4. /\ more \in Seq(Chunks) /\ Len(more) = Len(said) + 1
      /\ \A i \in 1..Len(said) : more[i] = said[i]
      /\ more[Len(said) + 1] = chunk
  BY <1>1, <1>3
<1>5. /\ text \in Seq(Chunks) /\ Len(text) = Len(held.text) + 1
      /\ \A i \in 1..Len(held.text) : text[i] = held.text[i]
      /\ text[Len(held.text) + 1] = chunk /\ text # <<>>
  BY <1>1, <1>3
<1> HIDE DEF more, text
<1> DEFINE next == [item |-> Saying(nest), text |-> text]
<1>6. next.item = Saying(nest) /\ next.text = text /\ next = [item |-> next.item, text |-> next.text]
  OBVIOUS
<1>7. Out(next, more) = o
  <2>1. Out(next, more) = (Len(said) + 1) - (Len(held.text) + 1)
    BY <1>4, <1>5, <1>6 DEF Out
  <2>2. o = Len(said) - Len(held.text) /\ Len(said) \in Nat /\ Len(held.text) \in Nat
    BY <1>2
  <2> QED BY ONLY <2>1, <2>2
<1> HIDE DEF next
<1>8. \A i \in 1..Len(more) : more[i][1] = i
  <2>1. \A i \in 1..Len(more) : i \in 1..Len(said) \/ i = Len(said) + 1
    BY <1>2, <1>4
  <2> QED BY <1>1, <1>3, <1>4, <2>1
<1>9. \A i \in 1..Len(text) : text[i] = more[o + i]
  <2>1. \A i \in 1..Len(text) : i \in 1..Len(held.text) \/ i = Len(held.text) + 1
    BY <1>2, <1>5
  <2>2. \A i \in 1..Len(held.text) : o + i \in 1..Len(said)
    BY <1>2
  <2>3. o + (Len(held.text) + 1) = Len(said) + 1
    <3>1. o = Len(said) - Len(held.text) /\ Len(said) \in Nat /\ Len(held.text) \in Nat
      BY <1>2
    <3>2. \A a, b \in Nat : (a - b) + (b + 1) = a + 1
      OBVIOUS
    <3> QED BY <3>1, <3>2, Zenon
  <2> QED BY <1>1, <1>4, <1>5, <2>1, <2>2, <2>3
<1>10. Len(text) \in 0..Len(more)
  BY <1>1, <1>2, <1>4, <1>5
<1>11. HeldInv(next, more, nest)
  BY <1>4, <1>5, <1>6, <1>7, <1>8, <1>9, <1>10 DEF HeldInv
<1>12. next # NoDelta
  BY <1>6 DEF NoDelta
<1>13. \A i \in 1..o : more[i] = said[i]
  BY <1>2, <1>4
<1> QED BY <1>2, <1>7, <1>11, <1>12, <1>13 DEF next, more, text, chunk, o, Held

-----------------------------------------------------------------------------
\* What each event does to a line that is whole.
LEMMA TextIsWhole ==
    ASSUME NEW line, NEW held, NEW nest, NEW started, NEW said, NEW failed,
           NestInv(nest, started), HeldInv(held, said, nest), held # NoDelta,
           OrderInv(line, held, nest, started, said),
           WholeInv(line, held, nest, started, said, failed)
    PROVE  WholeInv(Append(line, DeltaEvent(held)), NoDelta, nest, started, said, failed)
<1> DEFINE event == DeltaEvent(held)
           longer == Append(line, event)
           message == Saying(nest)
           new == Len(line) + 1
<1>1. line \in Seq(Events)
  BY DEF OrderInv
<1>2. /\ event \in Events /\ event.type = "delta" /\ event.item = message /\ event.text = held.text
      /\ message \in 1..started /\ message \in Ids(nest) /\ message # 0
  BY HeldLine
<1> HIDE DEF event, message
<1>3. /\ longer \in Seq(Events) /\ Len(line) \in Nat /\ Len(longer) = new
      /\ \A k \in 1..Len(line) : longer[k] = line[k]
      /\ longer[new] = event /\ longer # <<>>
  BY <1>1, <1>2, LineGrows
<1>4. \A item : /\ Those(longer, "started", item) = Those(line, "started", item)
                /\ Those(longer, "completed", item) = Those(line, "completed", item)
                /\ Those(line, "started", item) \subseteq 1..Len(line)
  <2>1. ASSUME NEW item
        PROVE  /\ Those(longer, "started", item) = Those(line, "started", item)
               /\ Those(longer, "completed", item) = Those(line, "completed", item)
               /\ Those(line, "started", item) \subseteq 1..Len(line)
    <3>1. event.type # "started" /\ event.type # "completed"
      BY <1>2
    <3>2. Those(longer, "started", item) = Those(line, "started", item)
      BY <1>1, <1>2, <3>1, ThoseKeep
    <3>3. Those(longer, "completed", item) = Those(line, "completed", item)
      BY <1>1, <1>2, <3>1, ThoseKeep
    <3>4. Those(line, "started", item) \subseteq 1..Len(line)
      BY <1>1, <1>2, ThoseGrow
    <3> QED BY <3>2, <3>3, <3>4
  <2> QED BY <2>1
<1>5. /\ \A item : \A n \in 0..Len(line) : HeardIn(longer, item, n) = HeardIn(line, item, n)
      /\ HeardIn(longer, message, new) = HeardIn(line, message, Len(line)) \cup ToSet(held.text)
  <2>1. ASSUME NEW item
        PROVE  \A n \in 0..Len(line) : HeardIn(longer, item, n) = HeardIn(line, item, n)
    BY <1>1, <1>2, HeardGrows
  <2>2. HeardIn(longer, message, new) = HeardIn(line, message, Len(line)) \cup
            (IF event.type = "delta" /\ event.item = message THEN ToSet(event.text) ELSE {})
    BY <1>1, <1>2, HeardGrows
  <2>3. HeardIn(longer, message, new) = HeardIn(line, message, Len(line)) \cup ToSet(held.text)
    BY <1>2, <2>2
  <2> QED BY <2>1, <2>3
<1> HIDE DEF longer
<1>6. \A k \in 1..Len(longer) : k \in 1..Len(line) \/ k = new
  BY <1>3
<1>7. ASSUME NEW k \in 1..Len(longer), longer[k].type = "completed"
      PROVE  HeardIn(longer, longer[k].item, k) = ToSet(longer[k].text)
  <2>1. k # new
    BY <1>2, <1>3, <1>7
  <2>2. k \in 1..Len(line) /\ k \in 0..Len(line) /\ longer[k] = line[k]
    BY <1>3, <1>6, <2>1
  <2>3. HeardIn(line, line[k].item, k) = ToSet(line[k].text)
    BY <1>7, <2>2 DEF WholeInv
  <2> QED BY <1>5, <2>2, <2>3
<1>8. HeardIn(longer, message, Len(longer)) = {said[i] : i \in 1..Out(NoDelta, said)}
  <2>1. HeardIn(line, message, Len(line)) = {said[i] : i \in 1..Out(held, said)}
    BY <1>2 DEF WholeInv, message
  <2>2. ToSet(held.text) = {said[Out(held, said) + i] : i \in 1..Len(held.text)}
    <3>1. \A i \in 1..Len(held.text) : held.text[i] = said[Out(held, said) + i]
      BY DEF HeldInv
    <3>2. DOMAIN held.text = 1..Len(held.text)
      BY HeldNumbers
    <3> QED BY <3>1, <3>2 DEF ToSet
  <2>3. /\ Out(held, said) \in 0..Len(said) /\ Len(said) \in Nat /\ Out(NoDelta, said) = Len(said)
        /\ Len(held.text) \in Nat /\ Out(held, said) = Len(said) - Len(held.text)
    BY NothingHeld, HeldNumbers DEF Out
  <2>4. \A i \in 1..Len(said) : \/ i \in 1..Out(held, said)
                                \/ /\ i - Out(held, said) \in 1..Len(held.text)
                                   /\ i = Out(held, said) + (i - Out(held, said))
    <3>1. \A a, h, o \in Nat : o = a - h => \A i \in 1..a :
              i \in 1..o \/ (i - o \in 1..h /\ i = o + (i - o))
      OBVIOUS
    <3>2. Out(held, said) \in Nat
      BY <2>3
    <3> QED BY <2>3, <3>1, <3>2, Zenon
  <2>5. /\ \A i \in 1..Out(held, said) : i \in 1..Len(said)
        /\ \A i \in 1..Len(held.text) : Out(held, said) + i \in 1..Len(said)
    BY <2>3
  <2>6. {said[i] : i \in 1..Out(held, said)} \cup
            {said[Out(held, said) + i] : i \in 1..Len(held.text)} = {said[i] : i \in 1..Len(said)}
    <3> DEFINE o == Out(held, said)
               told == {said[i] : i \in 1..o}
               rest == {said[o + i] : i \in 1..Len(held.text)}
               all == {said[i] : i \in 1..Len(said)}
    <3> HIDE DEF o
    <3>1. \A x \in told : x \in all
      BY <2>5 DEF o
    <3>2. \A x \in rest : x \in all
      BY <2>5 DEF o
    <3>3. ASSUME NEW x \in all PROVE x \in told \cup rest
      <4>1. PICK i \in 1..Len(said) : x = said[i]
        BY <3>3
      <4>2. CASE i \in 1..o
        BY <4>1, <4>2
      <4>3. CASE i - o \in 1..Len(held.text) /\ i = o + (i - o)
        BY <4>1, <4>3
      <4> QED BY <2>4, <4>2, <4>3 DEF o
    <3> HIDE DEF told, rest, all
    <3>4. told \cup rest = all
      BY <3>1, <3>2, <3>3
    <3> QED BY <3>4 DEF told, rest, all, o
  <2> QED BY <1>3, <1>5, <2>1, <2>2, <2>3, <2>6
<1>9. longer[Len(longer)].item = message
  BY <1>2, <1>3
<1>10. ASSUME NEW k \in 1..Len(longer), longer[k].item # 0
       PROVE  \E s \in Those(longer, "started", longer[k].item) : s <= k
  <2>1. CASE k \in 1..Len(line)
    <3>1. longer[k] = line[k]
      BY <1>3, <2>1
    <3>2. \E s \in Those(line, "started", line[k].item) : s <= k
      BY <1>10, <2>1, <3>1 DEF WholeInv
    <3> QED BY <1>4, <3>1, <3>2
  <2>2. CASE k = new
    <3>1. longer[k].item = message
      BY <1>2, <1>3, <2>2
    <3>2. PICK s \in Those(line, "started", message) : TRUE
      BY <1>2 DEF WholeInv
    <3>3. s \in 1..Len(line) /\ s \in Those(longer, "started", message)
      BY <1>4, <3>2
    <3>4. s <= k
      BY <1>3, <2>2, <3>3
    <3> QED BY <3>1, <3>3, <3>4
  <2> QED BY <1>6, <2>1, <2>2
<1>11. /\ \A item \in Ids(nest) : Those(longer, "started", item) # {}
       /\ \A item \in 1..started \ failed :
              Those(longer, "completed", item) # {} \/ item \in Ids(nest)
  BY <1>4 DEF WholeInv
<1> QED BY <1>3, <1>7, <1>8, <1>9, <1>10, <1>11 DEF WholeInv, longer, message, event

\* A chunk that is held back takes nothing from what was told.
LEMMA SaysIsWhole ==
    ASSUME NEW line, NEW held, NEW nest, NEW started, NEW said, NEW failed, NEW size \in Sizes,
           HeldInv(held, said, nest), Saying(nest) # 0,
           WholeInv(line, held, nest, started, said, failed)
    PROVE  WholeInv(line, Held(held, nest, <<Len(said) + 1, size>>), nest, started,
                    Append(said, <<Len(said) + 1, size>>), failed)
<1> DEFINE next == Held(held, nest, <<Len(said) + 1, size>>)
           more == Append(said, <<Len(said) + 1, size>>)
<1>1. Out(next, more) = Out(held, said) /\ \A i \in 1..Out(held, said) : more[i] = said[i]
  BY HeldGrows
<1> HIDE DEF next, more
<1>2. {more[i] : i \in 1..Out(next, more)} = {said[i] : i \in 1..Out(held, said)}
  BY <1>1
<1> QED BY <1>2 DEF WholeInv, next, more

\* A chunk that is held back leaves what was told in order.
LEMMA SaysInOrder ==
    ASSUME NEW line, NEW held, NEW nest, NEW started, NEW said, NEW size \in Sizes,
           HeldInv(held, said, nest), Saying(nest) # 0,
           OrderInv(line, held, nest, started, said)
    PROVE  OrderInv(line, Held(held, nest, <<Len(said) + 1, size>>), nest, started,
                    Append(said, <<Len(said) + 1, size>>))
<1> DEFINE next == Held(held, nest, <<Len(said) + 1, size>>)
           more == Append(said, <<Len(said) + 1, size>>)
<1>1. Out(next, more) = Out(held, said)
  BY HeldGrows
<1> HIDE DEF next, more
<1> QED BY <1>1 DEF OrderInv, next, more

\* A notice, or one more start of an item.
LEMMA PlainIsWhole ==
    ASSUME NEW line \in Seq(Events), NEW nest, NEW started, NEW said, NEW failed,
           NEW event \in Events,
           WholeInv(line, NoDelta, nest, started, said, failed), Saying(nest) = 0,
           event.type = "started" \/ (event.type = "notice" /\ event.item = 0)
    PROVE  WholeInv(Append(line, event), NoDelta, nest, started, said, failed)
<1> DEFINE longer == Append(line, event)
           new == Len(line) + 1
<1>1. /\ longer \in Seq(Events) /\ Len(line) \in Nat /\ Len(longer) = new
      /\ \A k \in 1..Len(line) : longer[k] = line[k]
      /\ longer[new] = event
  BY LineGrows
<1>2. event.type # "completed" /\ event.type # "delta"
  OBVIOUS
<1>3. \A item : /\ Those(line, "started", item) \subseteq Those(longer, "started", item)
                /\ Those(longer, "completed", item) = Those(line, "completed", item)
                /\ \A n \in 0..Len(line) : HeardIn(longer, item, n) = HeardIn(line, item, n)
  <2>1. ASSUME NEW item
        PROVE  /\ Those(line, "started", item) \subseteq Those(longer, "started", item)
               /\ Those(longer, "completed", item) = Those(line, "completed", item)
               /\ \A n \in 0..Len(line) : HeardIn(longer, item, n) = HeardIn(line, item, n)
    <3>1. Those(longer, "started", item) = Those(line, "started", item) \cup
              (IF event.type = "started" /\ event.item = item THEN {new} ELSE {})
      BY ThoseGrow
    <3>2. Those(longer, "completed", item) = Those(line, "completed", item)
      BY <1>2, ThoseKeep
    <3>3. \A n \in 0..Len(line) : HeardIn(longer, item, n) = HeardIn(line, item, n)
      BY HeardGrows
    <3> QED BY <3>1, <3>2, <3>3
  <2> QED BY <2>1
<1>4. event.type = "started" => new \in Those(longer, "started", event.item)
  <2>1. Those(longer, "started", event.item) = Those(line, "started", event.item) \cup
            (IF event.type = "started" /\ event.item = event.item THEN {new} ELSE {})
    BY ThoseGrow
  <2> QED BY <2>1
<1> HIDE DEF longer
<1>5. \A k \in 1..Len(longer) : k \in 1..Len(line) \/ k = new
  BY <1>1
<1>6. ASSUME NEW k \in 1..Len(longer), longer[k].type = "completed"
      PROVE  HeardIn(longer, longer[k].item, k) = ToSet(longer[k].text)
  <2>1. k # new
    BY <1>1, <1>2, <1>6
  <2>2. k \in 1..Len(line) /\ k \in 0..Len(line) /\ longer[k] = line[k]
    BY <1>1, <1>5, <2>1
  <2>3. HeardIn(line, line[k].item, k) = ToSet(line[k].text)
    BY <1>6, <2>2 DEF WholeInv
  <2> QED BY <1>3, <2>2, <2>3
<1>7. ASSUME NEW k \in 1..Len(longer), longer[k].item # 0
      PROVE  \E s \in Those(longer, "started", longer[k].item) : s <= k
  <2>1. CASE k \in 1..Len(line)
    <3>1. longer[k] = line[k]
      BY <1>1, <2>1
    <3>2. \E s \in Those(line, "started", line[k].item) : s <= k
      BY <1>7, <2>1, <3>1 DEF WholeInv
    <3> QED BY <1>3, <3>1, <3>2
  <2>2. CASE k = new
    <3>1. longer[k] = event /\ event.type = "started"
      BY <1>1, <1>7, <2>2
    <3>2. k <= k
      BY <1>1, <2>2
    <3> QED BY <1>4, <2>2, <3>1, <3>2
  <2> QED BY <1>5, <2>1, <2>2
<1>8. \A item \in Ids(nest) : Those(longer, "started", item) # {}
  BY <1>3 DEF WholeInv
<1>9. \A item \in 1..started \ failed : Those(longer, "completed", item) # {} \/ item \in Ids(nest)
  BY <1>3 DEF WholeInv
<1> QED BY <1>6, <1>7, <1>8, <1>9 DEF WholeInv, longer

\* An item starts: its start is told, and nothing else of it.
LEMMA StartIsWhole ==
    ASSUME NEW line, NEW nest, NEW started, NEW said, NEW failed, NEW kind \in Kinds,
           NestInv(nest, started), Saying(nest) = 0,
           \/ nest = <<>> /\ kind # "trial"
           \/ kind = "trial" /\ (nest = <<>> \/ nest[Len(nest)].kind = "tool"),
           OrderInv(line, NoDelta, nest, started, said),
           WholeInv(line, NoDelta, nest, started, said, failed)
    PROVE  WholeInv(Append(line, Started(started + 1)), NoDelta, Opened(nest, started, kind),
                    started + 1, <<>>, failed)
<1> DEFINE event == Started(started + 1)
           wider == Opened(nest, started, kind)
           longer == Append(line, event)
           new == Len(line) + 1
<1>1. /\ Ids(wider) = Ids(nest) \cup {started + 1}
      /\ Saying(wider) \in {0, started + 1}
  BY NestOpens
<1>2. /\ started \in Nat /\ line \in Seq(Events)
      /\ \A k \in 1..Len(line) : line[k].item \in 0..started
  BY DEF NestInv, OrderInv
<1>3. /\ event \in Events /\ event.type = "started" /\ event.item = started + 1
  BY <1>2 DEF Started, Event, Events
<1> HIDE DEF event, wider
<1>4. WholeInv(longer, NoDelta, nest, started, said, failed)
  BY <1>2, <1>3, PlainIsWhole
<1>5. /\ longer \in Seq(Events) /\ Len(line) \in Nat /\ Len(longer) = new
      /\ longer[new] = event /\ longer # <<>>
  BY <1>2, <1>3, LineGrows
<1>6. new \in Those(longer, "started", started + 1)
  <2>1. Those(longer, "started", event.item) = Those(line, "started", event.item) \cup
            (IF event.type = "started" /\ event.item = event.item THEN {new} ELSE {})
    BY <1>2, <1>3, ThoseGrow
  <2> QED BY <1>3, <2>1
<1>7. Those(longer, "delta", started + 1) = {}
  <2>1. Those(line, "delta", started + 1) = {}
    <3>1. DOMAIN line = 1..Len(line)
      BY <1>2
    <3>2. \A k \in DOMAIN line : line[k].item # started + 1
      BY <1>2, <3>1
    <3> QED BY <3>2 DEF Those
  <2>2. event.type # "delta"
    BY <1>3
  <2>3. Those(longer, "delta", started + 1) = Those(line, "delta", started + 1)
    BY <1>2, <1>3, <2>2, ThoseKeep
  <2> QED BY <2>1, <2>3
<1> HIDE DEF longer
<1>8. HeardIn(longer, started + 1, Len(longer)) = {(<<>>)[i] : i \in 1..Out(NoDelta, <<>>)}
  <2>1. Out(NoDelta, <<>>) = 0
    BY DEF Out, NoDelta
  <2>2. {(<<>>)[i] : i \in 1..Out(NoDelta, <<>>)} = {}
    BY <2>1
  <2>3. HeardIn(longer, started + 1, Len(longer)) = {}
    BY <1>7 DEF HeardIn
  <2> QED BY <2>2, <2>3
<1>9. \A item \in Ids(wider) : Those(longer, "started", item) # {}
  BY <1>1, <1>4, <1>6 DEF WholeInv
<1>10. ASSUME NEW item \in 1..(started + 1) \ failed
       PROVE  Those(longer, "completed", item) # {} \/ item \in Ids(wider)
  <2>1. item \in 1..started \/ item = started + 1
    BY <1>2
  <2> QED BY <1>1, <1>4, <2>1 DEF WholeInv
<1> QED BY <1>1, <1>3, <1>4, <1>5, <1>8, <1>9, <1>10 DEF WholeInv, wider, longer, event

\* The innermost item ends: its text was heard.
LEMMA EndIsWhole ==
    ASSUME NEW line, NEW nest, NEW started, NEW said, NEW failed, NEW after,
           NEW event \in Events,
           NestInv(nest, started), nest # <<>>, HeldInv(NoDelta, said, nest),
           OrderInv(line, NoDelta, nest, started, said),
           WholeInv(line, NoDelta, nest, started, said, failed),
           event.type = "completed", event.item = nest[Len(nest)].id,
           event.text = IF nest[Len(nest)].kind = "message" THEN said ELSE <<>>
    PROVE  WholeInv(Append(line, event), NoDelta, Front(nest), started, after, failed)
<1> DEFINE longer == Append(line, event)
           new == Len(line) + 1
           inner == Front(nest)
<1>1. /\ Saying(inner) = 0 /\ event.item \in Ids(nest) /\ event.item \in 1..started
      /\ Ids(inner) = Ids(nest) \ {event.item}
  BY NestCloses
<1>2. line \in Seq(Events) /\ said \in Seq(Chunks)
  BY DEF OrderInv, HeldInv
<1>3. /\ longer \in Seq(Events) /\ Len(line) \in Nat /\ Len(longer) = new
      /\ \A k \in 1..Len(line) : longer[k] = line[k]
      /\ longer[new] = event
  BY <1>2, LineGrows
<1>4. \A item : /\ Those(longer, "started", item) = Those(line, "started", item)
                /\ Those(line, "completed", item) \subseteq Those(longer, "completed", item)
                /\ Those(line, "started", item) \subseteq 1..Len(line)
                /\ \A n \in 0..Len(line) : HeardIn(longer, item, n) = HeardIn(line, item, n)
                /\ HeardIn(longer, item, new) = HeardIn(line, item, Len(line))
  <2>1. ASSUME NEW item
        PROVE  /\ Those(longer, "started", item) = Those(line, "started", item)
               /\ Those(line, "completed", item) \subseteq Those(longer, "completed", item)
               /\ Those(line, "started", item) \subseteq 1..Len(line)
               /\ \A n \in 0..Len(line) : HeardIn(longer, item, n) = HeardIn(line, item, n)
               /\ HeardIn(longer, item, new) = HeardIn(line, item, Len(line))
    <3>1. event.type # "started" /\ event.type # "delta"
      OBVIOUS
    <3>2. Those(longer, "started", item) = Those(line, "started", item)
      BY <1>2, <3>1, ThoseKeep
    <3>3. Those(longer, "completed", item) = Those(line, "completed", item) \cup
              (IF event.type = "completed" /\ event.item = item THEN {new} ELSE {})
      BY <1>2, ThoseGrow
    <3>4. Those(line, "started", item) \subseteq 1..Len(line)
      BY <1>2, ThoseGrow
    <3>5. \A n \in 0..Len(line) : HeardIn(longer, item, n) = HeardIn(line, item, n)
      BY <1>2, HeardGrows
    <3>6. HeardIn(longer, item, new) = HeardIn(line, item, Len(line)) \cup
              (IF event.type = "delta" /\ event.item = item THEN ToSet(event.text) ELSE {})
      BY <1>2, HeardGrows
    <3>7. HeardIn(longer, item, new) = HeardIn(line, item, Len(line))
      BY <3>1, <3>6
    <3> QED BY <3>2, <3>3, <3>4, <3>5, <3>7
  <2> QED BY <2>1
<1>5. new \in Those(longer, "completed", event.item)
  <2>1. Those(longer, "completed", event.item) = Those(line, "completed", event.item) \cup
            (IF event.type = "completed" /\ event.item = event.item THEN {new} ELSE {})
    BY <1>2, ThoseGrow
  <2> QED BY <2>1
<1>6. HeardIn(line, event.item, Len(line)) = ToSet(event.text)
  <2>1. CASE nest[Len(nest)].kind = "message"
    <3>1. Saying(nest) = event.item /\ Saying(nest) # 0 /\ event.text = said
      BY <1>1, <2>1, NestFacts DEF Saying
    <3>2. Out(NoDelta, said) = Len(said)
      BY NothingHeld
    <3>3. DOMAIN said = 1..Len(said)
      BY <1>2
    <3>4. HeardIn(line, event.item, Len(line)) = {said[i] : i \in 1..Len(said)}
      BY <3>1, <3>2 DEF WholeInv
    <3> QED BY <3>1, <3>3, <3>4 DEF ToSet
  <2>2. CASE nest[Len(nest)].kind # "message"
    <3>1. event.text = <<>> /\ ToSet(<<>>) = {}
      BY <2>2 DEF ToSet
    <3>2. Len(nest) \in DOMAIN nest
      BY NestFacts
    <3>3. Those(line, "delta", event.item) = {}
      BY <2>2, <3>2 DEF OrderInv
    <3>4. HeardIn(line, event.item, Len(line)) = {}
      BY <3>3 DEF HeardIn
    <3> QED BY <3>1, <3>4
  <2> QED BY <2>1, <2>2
<1> HIDE DEF longer, inner
<1>7. \A k \in 1..Len(longer) : k \in 1..Len(line) \/ k = new
  BY <1>3
<1>8. ASSUME NEW k \in 1..Len(longer), longer[k].type = "completed"
      PROVE  HeardIn(longer, longer[k].item, k) = ToSet(longer[k].text)
  <2>1. CASE k = new
    BY <1>3, <1>4, <1>6, <2>1
  <2>2. CASE k \in 1..Len(line)
    <3>1. k \in 0..Len(line) /\ longer[k] = line[k]
      BY <1>3, <2>2
    <3>2. HeardIn(line, line[k].item, k) = ToSet(line[k].text)
      BY <1>8, <2>2, <3>1 DEF WholeInv
    <3> QED BY <1>4, <3>1, <3>2
  <2> QED BY <1>7, <2>1, <2>2
<1>9. ASSUME NEW k \in 1..Len(longer), longer[k].item # 0
      PROVE  \E s \in Those(longer, "started", longer[k].item) : s <= k
  <2>1. CASE k \in 1..Len(line)
    <3>1. longer[k] = line[k]
      BY <1>3, <2>1
    <3>2. \E s \in Those(line, "started", line[k].item) : s <= k
      BY <1>9, <2>1, <3>1 DEF WholeInv
    <3> QED BY <1>4, <3>1, <3>2
  <2>2. CASE k = new
    <3>1. longer[k].item = event.item
      BY <1>3, <2>2
    <3>2. PICK s \in Those(line, "started", event.item) : TRUE
      BY <1>1 DEF WholeInv
    <3>3. s \in 1..Len(line) /\ s \in Those(longer, "started", event.item)
      BY <1>4, <3>2
    <3>4. s <= k
      BY <1>3, <2>2, <3>3
    <3> QED BY <3>1, <3>3, <3>4
  <2> QED BY <1>7, <2>1, <2>2
<1>10. \A item \in Ids(inner) : Those(longer, "started", item) # {}
  BY <1>1, <1>4 DEF WholeInv
<1>11. ASSUME NEW item \in 1..started \ failed
       PROVE  Those(longer, "completed", item) # {} \/ item \in Ids(inner)
  <2>1. Those(line, "completed", item) # {} \/ item \in Ids(nest)
    BY DEF WholeInv
  <2>2. CASE item = event.item
    BY <1>5, <2>2
  <2>3. CASE item # event.item
    BY <1>1, <1>4, <2>1, <2>3
  <2> QED BY <2>2, <2>3
<1> QED BY <1>1, <1>8, <1>9, <1>10, <1>11 DEF WholeInv, longer, inner

\* A trial fails within its tool call.
LEMMA FailIsWhole ==
    ASSUME NEW line, NEW nest, NEW started, NEW said, NEW failed,
           NestInv(nest, started), nest # <<>>,
           WholeInv(line, NoDelta, nest, started, said, failed)
    PROVE  WholeInv(line, NoDelta, Front(nest), started, said, failed \cup {nest[Len(nest)].id})
<1> DEFINE inner == Front(nest)
<1>1. /\ Saying(inner) = 0 /\ Ids(inner) = Ids(nest) \ {nest[Len(nest)].id}
  BY NestCloses
<1> HIDE DEF inner
<1>2. \A item \in 1..started \ (failed \cup {nest[Len(nest)].id}) :
          Those(line, "completed", item) # {} \/ item \in Ids(inner)
  BY <1>1 DEF WholeInv
<1> QED BY <1>1, <1>2 DEF WholeInv, inner

-----------------------------------------------------------------------------
\* An observation publishes its payloads in order, each of them or none.
LEMMA Appends ==
    ASSUME NEW line \in Seq(Events), NEW more
    PROVE  /\ more \in [1..0 -> Events] => line \o more = line
           /\ more \in [1..1 -> Events] => line \o more = Append(line, more[1])
           /\ more \in [1..2 -> Events] => line \o more = Append(Append(line, more[1]), more[2])
<1>1. ASSUME NEW n \in Nat, more \in [1..n -> Events] PROVE more \in Seq(Events) /\ Len(more) = n
  BY <1>1
<1>2. more \in [1..0 -> Events] => line \o more = line
  BY <1>1
<1>3. ASSUME more \in [1..1 -> Events] PROVE line \o more = Append(line, more[1])
  <2>1. more = [n \in 1..1 |-> more[n]] /\ more[1] \in Events
    BY <1>3
  <2>2. line \o [n \in 1..1 |-> more[n]] = Append(line, more[1])
    BY <2>1
  <2> QED BY <2>1, <2>2
<1>4. ASSUME more \in [1..2 -> Events]
      PROVE  line \o more = Append(Append(line, more[1]), more[2])
  <2>1. more = [n \in 1..2 |-> more[n]] /\ more[1] \in Events /\ more[2] \in Events
    BY <1>4
  <2>2. line \o [n \in 1..2 |-> more[n]] = Append(Append(line, more[1]), more[2])
    BY <2>1
  <2> QED BY <2>1, <2>2
<1> QED BY <1>2, <1>3, <1>4

\* The place of the n-th payload that is not lost.
Place(sent, lost, n) == CHOOSE k \in 1..sent \ lost : Cardinality((1..k) \ lost) = n

\* The payloads that are not lost are numbered in their order.
LEMMA Places ==
    /\ Cardinality({}) = 0 /\ Cardinality({1}) = 1 /\ Cardinality({2}) = 1
    /\ Cardinality({1, 2}) = 2
    /\ Place(1, {}, 1) = 1
    /\ Place(2, {}, 1) = 1 /\ Place(2, {}, 2) = 2
    /\ Place(2, {1}, 1) = 2 /\ Place(2, {2}, 1) = 1
<1>1. Cardinality({}) = 0
  BY FS_EmptySet
<1>2. Cardinality({1}) = 1 /\ Cardinality({2}) = 1
  BY FS_Singleton
<1>3. Cardinality({1, 2}) = 2
  <2>1. IsFiniteSet({1})
    BY FS_Singleton
  <2>2. 2 \notin {1} /\ {1} \cup {2} = {1, 2}
    OBVIOUS
  <2>3. Cardinality({1} \cup {2}) = Cardinality({1}) + 1
    BY <2>1, <2>2, FS_AddElement
  <2> QED BY <1>2, <2>2, <2>3
<1>4. 1..1 = {1} /\ 1..2 = {1, 2}
  OBVIOUS
<1>5. Place(1, {}, 1) = 1
  <2>1. \A k \in (1..1) \ {} : k = 1 /\ (1..k) \ {} = {1}
    BY <1>4
  <2> QED BY <1>2, <1>4, <2>1 DEF Place
<1>6. /\ (1..1) \ {} = {1} /\ (1..2) \ {} = {1, 2} /\ (1..2) \ {1} = {2} /\ (1..1) \ {1} = {}
      /\ (1..2) \ {2} = {1} /\ (1..1) \ {2} = {1}
  BY <1>4
<1>7. Place(2, {}, 1) = 1
  <2>1. \A k \in (1..2) \ {} : Cardinality((1..k) \ {}) = 1 <=> k = 1
    BY <1>2, <1>3, <1>6
  <2> QED BY <1>6, <2>1 DEF Place
<1>8. Place(2, {}, 2) = 2
  <2>1. \A k \in (1..2) \ {} : Cardinality((1..k) \ {}) = 2 <=> k = 2
    BY <1>2, <1>3, <1>6
  <2> QED BY <1>6, <2>1 DEF Place
<1>9. Place(2, {1}, 1) = 2
  <2>1. \A k \in (1..2) \ {1} : k = 2 /\ Cardinality((1..k) \ {1}) = 1
    BY <1>2, <1>6
  <2> QED BY <1>6, <2>1 DEF Place
<1>10. Place(2, {2}, 1) = 1
  <2>1. \A k \in (1..2) \ {2} : k = 1 /\ Cardinality((1..k) \ {2}) = 1
    BY <1>2, <1>6
  <2> QED BY <1>6, <2>1 DEF Place
<1> QED BY <1>1, <1>2, <1>3, <1>5, <1>7, <1>8, <1>9, <1>10

\* One payload, or two: the appends of an observation (emit).
LEMMA Observed ==
    ASSUME timeline \in Seq(Events), dropped \in Nat, NEW coalesced, Observe(coalesced)
    PROVE  /\ coalesced.payloads = <<>> => timeline' = timeline /\ dropped' = dropped
           /\ \A event \in Events : coalesced.payloads = <<event>> =>
                  Posted(timeline, dropped, event, timeline', dropped')
           /\ \A first, event \in Events :
                  /\ Len(coalesced.payloads) = 2
                  /\ coalesced.payloads[1] = first /\ coalesced.payloads[2] = event
                  =>
                  \E line, gone : /\ Posted(timeline, dropped, first, line, gone)
                                  /\ Posted(line, gone, event, timeline', dropped')
           /\ pending' = coalesced.pending
<1> DEFINE payloads == coalesced.payloads
<1>1. PICK lost \in SUBSET (1..Len(payloads)) :
          /\ dropped' = dropped + Cardinality(lost)
          /\ timeline' = timeline \o [n \in 1..(Len(payloads) - Cardinality(lost)) |->
                                         payloads[Place(Len(payloads), lost, n)]]
  BY DEF Observe, Place
<1>2. pending' = coalesced.pending
  BY DEF Observe
<1> HIDE DEF payloads
<1>3. ASSUME payloads = <<>> PROVE timeline' = timeline /\ dropped' = dropped
  <2>1. Len(payloads) = 0 /\ 1..0 = {}
    BY <1>3
  <2>2. lost = {} /\ Cardinality(lost) = 0
    BY <1>1, <2>1, Places
  <2> DEFINE more == [n \in 1..0 |-> payloads[Place(Len(payloads), lost, n)]]
  <2>3. timeline' = timeline \o more /\ dropped' = dropped
    BY <1>1, <2>1, <2>2
  <2>4. more \in [1..0 -> Events]
    BY <2>1
  <2> HIDE DEF more
  <2> QED BY <2>3, <2>4, Appends
<1>4. ASSUME NEW event \in Events, payloads = <<event>>
      PROVE  Posted(timeline, dropped, event, timeline', dropped')
  <2>1. Len(payloads) = 1 /\ payloads[1] = event /\ 1..1 = {1} /\ 1..0 = {}
    BY <1>4
  <2>2. lost \subseteq {1}
    BY <1>1, <2>1
  <2>3. lost = {} \/ lost = {1}
    BY <2>2
  <2>4. CASE lost = {}
    <3> DEFINE more == [n \in 1..1 |-> payloads[Place(1, {}, n)]]
    <3>1. timeline' = timeline \o more /\ dropped' = dropped
      BY <1>1, <2>1, <2>4, Places
    <3>2. more \in [1..1 -> Events] /\ more[1] = event
      BY <2>1, Places
    <3> HIDE DEF more
    <3> QED BY <3>1, <3>2, Appends DEF Posted
  <2>5. CASE lost = {1}
    <3> DEFINE more == [n \in 1..0 |-> payloads[Place(1, {1}, n)]]
    <3>1. timeline' = timeline \o more /\ dropped' = dropped + 1
      BY <1>1, <2>1, <2>5, Places
    <3>2. more \in [1..0 -> Events]
      BY <2>1
    <3> HIDE DEF more
    <3> QED BY <3>1, <3>2, Appends DEF Posted
  <2> QED BY <2>3, <2>4, <2>5
<1>5. ASSUME NEW first \in Events, NEW event \in Events,
             Len(payloads) = 2, payloads[1] = first, payloads[2] = event
      PROVE  \E line, gone : /\ Posted(timeline, dropped, first, line, gone)
                             /\ Posted(line, gone, event, timeline', dropped')
  <2>1. Len(payloads) = 2 /\ payloads[1] = first /\ payloads[2] = event
    BY <1>5
  <2>2. 1..2 = {1, 2} /\ 1..1 = {1} /\ 1..0 = {}
    OBVIOUS
  <2>3. lost \subseteq {1, 2}
    BY <1>1, <2>1, <2>2
  <2>4. lost = {} \/ lost = {1} \/ lost = {2} \/ lost = {1, 2}
    BY <2>3
  <2>5. CASE lost = {}
    <3> DEFINE more == [n \in 1..2 |-> payloads[Place(2, {}, n)]]
    <3>1. timeline' = timeline \o more /\ dropped' = dropped
      BY <1>1, <2>1, <2>5, Places
    <3>2. more \in [1..2 -> Events] /\ more[1] = first /\ more[2] = event
      BY <2>1, <2>2, Places
    <3> HIDE DEF more
    <3>3. timeline' = Append(Append(timeline, first), event)
      BY <3>1, <3>2, Appends
    <3> QED BY <3>1, <3>3 DEF Posted
  <2>6. CASE lost = {1}
    <3> DEFINE more == [n \in 1..1 |-> payloads[Place(2, {1}, n)]]
    <3>1. timeline' = timeline \o more /\ dropped' = dropped + 1
      BY <1>1, <2>1, <2>6, Places
    <3>2. more \in [1..1 -> Events] /\ more[1] = event
      BY <2>1, <2>2, Places
    <3> HIDE DEF more
    <3>3. timeline' = Append(timeline, event)
      BY <3>1, <3>2, Appends
    <3> QED BY <3>1, <3>3 DEF Posted
  <2>7. CASE lost = {2}
    <3> DEFINE more == [n \in 1..1 |-> payloads[Place(2, {2}, n)]]
    <3>1. timeline' = timeline \o more /\ dropped' = dropped + 1
      BY <1>1, <2>1, <2>7, Places
    <3>2. more \in [1..1 -> Events] /\ more[1] = first
      BY <2>1, <2>2, Places
    <3> HIDE DEF more
    <3>3. timeline' = Append(timeline, first)
      BY <3>1, <3>2, Appends
    <3> QED BY <3>1, <3>3 DEF Posted
  <2>8. CASE lost = {1, 2}
    <3> DEFINE more == [n \in 1..0 |-> payloads[Place(2, {1, 2}, n)]]
    <3>1. timeline' = timeline \o more /\ dropped' = dropped + 2
      BY <1>1, <2>1, <2>8, Places
    <3>2. more \in [1..0 -> Events]
      BY <2>2
    <3> HIDE DEF more
    <3>3. timeline' = timeline /\ dropped' = (dropped + 1) + 1
      BY <3>1, <3>2, Appends
    <3> QED BY <3>3 DEF Posted
  <2> QED BY <2>4, <2>5, <2>6, <2>7, <2>8
<1> QED BY <1>2, <1>3, <1>4, <1>5 DEF payloads

-----------------------------------------------------------------------------
\* What is held back goes first.
LEMMA Settled ==
    ASSUME NEW line, NEW gone, NEW held, NEW nest, NEW started, NEW said, NEW failed,
           TimelineInv(line, gone, held, nest, started, said, failed), held # NoDelta,
           NEW after, NEW missing, Posted(line, gone, DeltaEvent(held), after, missing)
    PROVE  TimelineInv(after, missing, NoDelta, nest, started, said, failed)
<1>1. /\ gone \in Nat /\ NestInv(nest, started) /\ HeldInv(held, said, nest)
      /\ OrderInv(line, held, nest, started, said)
      /\ gone = 0 => WholeInv(line, held, nest, started, said, failed)
  BY DEF TimelineInv
<1>2. /\ missing \in Nat /\ (after = line \/ after = Append(line, DeltaEvent(held)))
      /\ missing = 0 => after = Append(line, DeltaEvent(held)) /\ gone = 0
  <2>1. gone \in Nat
    BY <1>1
  <2> QED BY <2>1 DEF Posted
<1>3. HeldInv(NoDelta, said, nest)
  BY <1>1, NothingHeld
<1>4. OrderInv(line, NoDelta, nest, started, said)
  BY <1>1, NothingHeldInOrder
<1>5. OrderInv(Append(line, DeltaEvent(held)), NoDelta, nest, started, said)
  BY <1>1, TextInOrder
<1>6. gone = 0 => WholeInv(Append(line, DeltaEvent(held)), NoDelta, nest, started, said, failed)
  BY <1>1, TextIsWhole
<1> QED BY <1>1, <1>2, <1>3, <1>4, <1>5, <1>6 DEF TimelineInv

\* An event that is no text: the text held back is settled, then the event is posted.
LEMMA OtherObserved ==
    ASSUME TimelineInv(timeline, dropped, pending, open, items, spoken, abandoned),
           NEW event \in Events, Observe(CoalesceOther(<<event>>))
    PROVE  /\ pending' = NoDelta
           /\ \E line, gone :
                  /\ TimelineInv(line, gone, NoDelta, open, items, spoken, abandoned)
                  /\ Posted(line, gone, event, timeline', dropped')
<1>1. /\ timeline \in Seq(Events) /\ dropped \in Nat /\ NestInv(open, items)
      /\ HeldInv(pending, spoken, open)
  BY DEF TimelineInv, OrderInv
<1> DEFINE coalesced == CoalesceOther(<<event>>)
<1>2. pending' = NoDelta
  BY DEF Observe, CoalesceOther
<1>3. CASE pending = NoDelta
  <2>1. coalesced.payloads = <<event>>
    BY <1>3 DEF CoalesceOther
  <2>2. Posted(timeline, dropped, event, timeline', dropped')
    BY <1>1, <2>1, Observed
  <2> QED BY <1>2, <1>3, <2>2
<1>4. CASE pending # NoDelta
  <2>1. DeltaEvent(pending) \in Events
    BY <1>1, <1>4, HeldLine
  <2>2. /\ Len(coalesced.payloads) = 2
        /\ coalesced.payloads[1] = DeltaEvent(pending) /\ coalesced.payloads[2] = event
    <3>1. coalesced.payloads = <<DeltaEvent(pending)>> \o <<event>>
      BY <1>4 DEF CoalesceOther
    <3>2. ASSUME NEW x \in Events, NEW y \in Events
          PROVE  LET z == <<x>> \o <<y>> IN Len(z) = 2 /\ z[1] = x /\ z[2] = y
      OBVIOUS
    <3> QED BY <2>1, <3>1, <3>2
  <2>3. PICK line, gone : /\ Posted(timeline, dropped, DeltaEvent(pending), line, gone)
                          /\ Posted(line, gone, event, timeline', dropped')
    BY <1>1, <2>1, <2>2, Observed
  <2>4. TimelineInv(line, gone, NoDelta, open, items, spoken, abandoned)
    BY <1>4, <2>3, Settled
  <2> QED BY <1>2, <2>3, <2>4
<1> QED BY <1>3, <1>4

\* Progress with no event of its own settles the text held back too.
LEMMA NothingObserved ==
    ASSUME TimelineInv(timeline, dropped, pending, open, items, spoken, abandoned),
           Observe(CoalesceOther(<<>>))
    PROVE  /\ pending' = NoDelta
           /\ TimelineInv(timeline', dropped', NoDelta, open, items, spoken, abandoned)
<1>1. /\ timeline \in Seq(Events) /\ dropped \in Nat /\ NestInv(open, items)
      /\ HeldInv(pending, spoken, open)
  BY DEF TimelineInv, OrderInv
<1> DEFINE coalesced == CoalesceOther(<<>>)
<1>2. pending' = NoDelta
  BY DEF Observe, CoalesceOther
<1>3. CASE pending = NoDelta
  <2>1. coalesced.payloads = <<>>
    BY <1>3 DEF CoalesceOther
  <2>2. timeline' = timeline /\ dropped' = dropped
    BY <1>1, <2>1, Observed
  <2> QED BY <1>2, <1>3, <2>2
<1>4. CASE pending # NoDelta
  <2>1. DeltaEvent(pending) \in Events
    BY <1>1, <1>4, HeldLine
  <2>2. coalesced.payloads = <<DeltaEvent(pending)>>
    BY <1>4, <2>1 DEF CoalesceOther
  <2>3. Posted(timeline, dropped, DeltaEvent(pending), timeline', dropped')
    BY <1>1, <2>1, <2>2, Observed
  <2> QED BY <1>2, <1>4, <2>3, Settled
<1> QED BY <1>3, <1>4

-----------------------------------------------------------------------------
\* One step at a time.
LEMMA StartKeeps ==
    ASSUME StreamInv, StartItem
    PROVE  StreamInv'
<1>1. PICK kind \in Kinds : MayOpen(kind) /\ open' = Opened(open, items, kind)
  BY DEF StartItem, Opened
<1>2. /\ items' = items + 1 /\ spoken' = <<>> /\ UNCHANGED <<work, abandoned>>
      /\ Observe(CoalesceOther(<<Started(items + 1)>>)) /\ work = "running"
  BY DEF StartItem, Working
<1>3. TimelineInv(timeline, dropped, pending, open, items, spoken, abandoned)
  BY DEF StreamInv
<1>4. items \in Nat /\ Started(items + 1) \in Events /\ Started(items + 1).type = "started"
      /\ Started(items + 1).item = items + 1
  BY <1>3 DEF TimelineInv, NestInv, Started, Event, Events
<1>5. PICK line, gone : /\ TimelineInv(line, gone, NoDelta, open, items, spoken, abandoned)
                        /\ Posted(line, gone, Started(items + 1), timeline', dropped')
  BY <1>2, <1>3, <1>4, OtherObserved
<1>6. pending' = NoDelta
  BY <1>2, <1>3, <1>4, OtherObserved
<1>7. /\ gone \in Nat /\ NestInv(open, items) /\ HeldInv(NoDelta, spoken, open)
      /\ OrderInv(line, NoDelta, open, items, spoken)
      /\ gone = 0 => WholeInv(line, NoDelta, open, items, spoken, abandoned)
  BY <1>5 DEF TimelineInv
<1>8. /\ \/ open = <<>> /\ kind # "trial"
         \/ kind = "trial" /\ (open = <<>> \/ open[Len(open)].kind = "tool")
      /\ Saying(open) = 0
  <2>1. \/ open = <<>> /\ kind # "trial"
        \/ kind = "trial" /\ (open = <<>> \/ open[Len(open)].kind = "tool")
    <3>1. CASE kind = "trial" /\ open # <<>>
      <4>1. Innermost = open[Len(open)] /\ Innermost.kind \in {"none", "tool"}
        BY <1>1, <3>1 DEF MayOpen, Innermost
      <4>2. open[Len(open)].kind # "none"
        <5>1. Len(open) \in 1..Len(open) /\ open[Len(open)].kind \in Kinds
          BY <1>7, <3>1, NestFacts
        <5> QED BY <5>1 DEF Kinds
      <4> QED BY <3>1, <4>1, <4>2
    <3>2. CASE kind # "trial"
      BY <1>1, <3>2 DEF MayOpen
    <3> QED BY <3>1, <3>2
  <2> QED BY <2>1 DEF Saying
<1>9. NestInv(open', items')
  BY <1>1, <1>2, <1>7, <1>8, NestOpens
<1>10. HeldInv(NoDelta, <<>>, open')
  <2>1. Len(<<>>) = 0 /\ <<>> \in Seq(Chunks) /\ NoDelta.text = <<>>
    BY DEF NoDelta
  <2>2. NoDelta = [item |-> NoDelta.item, text |-> NoDelta.text]
    BY DEF NoDelta
  <2> QED BY <2>1, <2>2 DEF HeldInv
<1>11. OrderInv(line, NoDelta, open', items', <<>>)
  BY <1>1, <1>2, <1>7, <1>8, OpensInOrder
<1>12. OrderInv(Append(line, Started(items + 1)), NoDelta, open', items', <<>>)
  <2>1. Started(items + 1).item \in 0..items'
    BY <1>2, <1>4
  <2> QED BY <1>4, <1>11, <2>1, PlainInOrder
<1>13. gone = 0 => WholeInv(Append(line, Started(items + 1)), NoDelta, open', items', <<>>, abandoned)
  BY <1>1, <1>2, <1>7, <1>8, StartIsWhole
<1>14. /\ dropped' \in Nat /\ (timeline' = line \/ timeline' = Append(line, Started(items + 1)))
       /\ dropped' = 0 => timeline' = Append(line, Started(items + 1)) /\ gone = 0
  <2>1. gone \in Nat
    BY <1>7
  <2> QED BY <1>5, <2>1 DEF Posted
<1>15. TimelineInv(timeline', dropped', NoDelta, open', items', <<>>, abandoned)
  BY <1>9, <1>10, <1>11, <1>12, <1>13, <1>14 DEF TimelineInv
<1> QED BY <1>2, <1>6, <1>15 DEF StreamInv

\* A notice, or another repetition of a trial.
LEMMA PlainKeeps ==
    ASSUME StreamInv, NEW event \in Events, Observe(CoalesceOther(<<event>>)),
           Saying(open) = 0,
           \/ event.type = "started" /\ event.item \in Ids(open)
           \/ event.type = "notice" /\ event.item = 0,
           UNCHANGED <<open, items, spoken, work, abandoned>>
    PROVE  StreamInv'
<1>1. TimelineInv(timeline, dropped, pending, open, items, spoken, abandoned)
  BY DEF StreamInv
<1>2. PICK line, gone : /\ TimelineInv(line, gone, NoDelta, open, items, spoken, abandoned)
                        /\ Posted(line, gone, event, timeline', dropped')
  BY <1>1, OtherObserved
<1>3. pending' = NoDelta
  BY <1>1, OtherObserved
<1>4. /\ gone \in Nat /\ NestInv(open, items) /\ HeldInv(NoDelta, spoken, open)
      /\ OrderInv(line, NoDelta, open, items, spoken)
      /\ gone = 0 => WholeInv(line, NoDelta, open, items, spoken, abandoned)
      /\ line \in Seq(Events)
  BY <1>2 DEF TimelineInv, OrderInv
<1>5. event.item \in 0..items /\ event.type \in {"started", "notice"}
  <2>1. Ids(open) \subseteq 1..items /\ items \in Nat
    BY <1>4, NestFacts
  <2> QED BY <2>1
<1>6. OrderInv(Append(line, event), NoDelta, open, items, spoken)
  BY <1>4, <1>5, PlainInOrder
<1>7. gone = 0 => WholeInv(Append(line, event), NoDelta, open, items, spoken, abandoned)
  BY <1>4, PlainIsWhole
<1>8. /\ dropped' \in Nat /\ (timeline' = line \/ timeline' = Append(line, event))
      /\ dropped' = 0 => timeline' = Append(line, event) /\ gone = 0
  <2>1. gone \in Nat
    BY <1>4
  <2> QED BY <1>2, <2>1 DEF Posted
<1>9. TimelineInv(timeline', dropped', NoDelta, open, items, spoken, abandoned)
  BY <1>4, <1>6, <1>7, <1>8 DEF TimelineInv
<1> QED BY <1>3, <1>9 DEF StreamInv

\* A chunk is held back, or goes out with the text held back (CoalesceDelta).
LEMMA SayKeeps ==
    ASSUME StreamInv, Say
    PROVE  StreamInv'
<1>1. PICK size \in Sizes : LET chunk == <<Len(spoken) + 1, size>> IN
          /\ spoken' = Append(spoken, chunk)
          /\ Observe(CoalesceDelta(Innermost.id, chunk))
  BY DEF Say
<1> DEFINE chunk == <<Len(spoken) + 1, size>>
           next == Held(pending, open, chunk)
           message == Saying(open)
           coalesced == CoalesceDelta(message, chunk)
<1>2. TimelineInv(timeline, dropped, pending, open, items, spoken, abandoned)
  BY DEF StreamInv
<1>3. /\ dropped \in Nat /\ NestInv(open, items) /\ HeldInv(pending, spoken, open)
      /\ OrderInv(timeline, pending, open, items, spoken)
      /\ dropped = 0 => WholeInv(timeline, pending, open, items, spoken, abandoned)
      /\ timeline \in Seq(Events)
  BY <1>2 DEF TimelineInv, OrderInv
<1>4. Innermost.kind = "message" /\ UNCHANGED <<open, items, work, abandoned>> /\ work = "running"
  BY DEF Say, Working
<1>5. message # 0 /\ Innermost.id = message
  <2>1. open # <<>> /\ Innermost = open[Len(open)]
    <3>1. open = <<>> => Innermost.kind = "none"
      BY DEF Innermost
    <3> QED BY <1>4, <3>1 DEF Innermost
  <2>2. Len(open) \in 1..Len(open) /\ open[Len(open)].id \in 1..items /\ items \in Nat
    BY <1>3, <2>1, NestFacts
  <2> QED BY <1>4, <2>1, <2>2 DEF Saying
<1>6. spoken' = Append(spoken, chunk) /\ Observe(coalesced)
  BY <1>1, <1>5
<1>7. /\ HeldInv(next, spoken', open) /\ next # NoDelta
  BY <1>3, <1>5, <1>6, HeldGrows
<1>8. OrderInv(timeline, next, open, items, spoken')
  BY <1>3, <1>5, <1>6, SaysInOrder
<1>9. dropped = 0 => WholeInv(timeline, next, open, items, spoken', abandoned)
  BY <1>3, <1>5, <1>6, SaysIsWhole
<1>10. TimelineInv(timeline, dropped, next, open, items, spoken', abandoned)
  BY <1>3, <1>7, <1>8, <1>9 DEF TimelineInv
<1>11. \/ coalesced.payloads = <<>> /\ coalesced.pending = next
       \/ coalesced.payloads = <<DeltaEvent(next)>> /\ coalesced.pending = NoDelta
  <2> DEFINE kept == IF pending.item = message THEN pending ELSE [NoDelta EXCEPT !.item = message]
             told == [kept EXCEPT !.text = Append(@, chunk)]
             previous == IF pending.item \notin {0, message} THEN <<DeltaEvent(pending)>> ELSE <<>>
  <2>1. /\ pending = [item |-> pending.item, text |-> pending.text]
        /\ pending = NoDelta \/ pending.item = message
    BY <1>3 DEF HeldInv
  <2>2. previous = <<>>
    <3>1. pending.item \in {0, message}
      BY <2>1 DEF NoDelta
    <3> QED BY <3>1
  <2>3. kept = [item |-> message, text |-> pending.text]
    <3>1. CASE pending.item = message
      BY <2>1, <3>1
    <3>2. CASE pending.item # message
      <4>1. pending = NoDelta
        BY <2>1, <3>2
      <4>2. [NoDelta EXCEPT !.item = message] = [item |-> message, text |-> NoDelta.text]
        BY DEF NoDelta
      <4> QED BY <3>2, <4>1, <4>2
    <3> QED BY <3>1, <3>2
  <2> HIDE DEF kept
  <2>4. told = next
    <3>1. told = [item |-> message, text |-> Append(pending.text, chunk)]
      <4>1. [[item |-> message, text |-> pending.text] EXCEPT !.text = Append(@, chunk)]
                = [item |-> message, text |-> Append(pending.text, chunk)]
        <5> HIDE DEF chunk, message
        <5> QED OBVIOUS
      <4> QED BY <2>3, <4>1
    <3>2. next = [item |-> message, text |-> Append(pending.text, chunk)]
      BY DEF Held
    <3> QED BY <3>1, <3>2
  <2>5. coalesced = IF Size(told.text) >= Threshold
                    THEN [payloads |-> Append(previous, DeltaEvent(told)), pending |-> NoDelta]
                    ELSE [payloads |-> previous, pending |-> told]
    BY DEF CoalesceDelta, kept
  <2> HIDE DEF told, previous, next, coalesced
  <2>6. Append(<<>>, DeltaEvent(next)) = <<DeltaEvent(next)>>
    OBVIOUS
  <2>7. CASE Size(told.text) >= Threshold
    BY <2>2, <2>4, <2>5, <2>6, <2>7
  <2>8. CASE ~(Size(told.text) >= Threshold)
    BY <2>2, <2>4, <2>5, <2>8
  <2> QED BY <2>7, <2>8
<1> HIDE DEF coalesced, next, chunk
<1>12. CASE coalesced.payloads = <<>> /\ coalesced.pending = next
  <2>1. timeline' = timeline /\ dropped' = dropped /\ pending' = next
    BY <1>3, <1>6, <1>12, Observed
  <2> QED BY <1>4, <1>10, <2>1 DEF StreamInv
<1>13. CASE coalesced.payloads = <<DeltaEvent(next)>> /\ coalesced.pending = NoDelta
  <2>1. DeltaEvent(next) \in Events
    BY <1>3, <1>7, HeldLine
  <2>2. Posted(timeline, dropped, DeltaEvent(next), timeline', dropped') /\ pending' = NoDelta
    BY <1>3, <1>6, <1>13, <2>1, Observed
  <2>3. TimelineInv(timeline', dropped', NoDelta, open, items, spoken', abandoned)
    BY <1>7, <1>10, <2>2, Settled
  <2> QED BY <1>4, <2>2, <2>3 DEF StreamInv
<1> QED BY <1>11, <1>12, <1>13

\* An item ends, behind its text.
LEMMA CompleteKeeps ==
    ASSUME StreamInv, CompleteItem
    PROVE  StreamInv'
<1> DEFINE event == Completed(Innermost.id, IF Innermost.kind = "message" THEN spoken ELSE <<>>)
<1>1. /\ open # <<>> /\ Observe(CoalesceOther(<<event>>)) /\ work = "running"
      /\ open' = Front(open) /\ spoken' = <<>> /\ UNCHANGED <<items, work, abandoned>>
  BY DEF CompleteItem, Working
<1>2. TimelineInv(timeline, dropped, pending, open, items, spoken, abandoned)
  BY DEF StreamInv
<1>3. NestInv(open, items) /\ HeldInv(pending, spoken, open)
  BY <1>2 DEF TimelineInv
<1>4. Innermost = open[Len(open)] /\ items \in Nat /\ spoken \in Seq(Chunks)
      /\ open[Len(open)].id \in 1..items /\ Innermost.id \in Nat
  <2>1. Innermost = open[Len(open)]
    BY <1>1 DEF Innermost
  <2>2. items \in Nat /\ open[Len(open)].id \in 1..items
    BY <1>1, <1>3, NestCloses DEF NestInv
  <2>3. spoken \in Seq(Chunks)
    BY <1>3 DEF HeldInv
  <2>4. Innermost.id \in Nat
    BY <2>1, <2>2
  <2> QED BY <2>1, <2>2, <2>3, <2>4
<1>5. /\ event \in Events /\ event.type = "completed" /\ event.item = open[Len(open)].id
      /\ event.text = IF open[Len(open)].kind = "message" THEN spoken ELSE <<>>
  <2> DEFINE text == IF Innermost.kind = "message" THEN spoken ELSE <<>>
  <2>1. text \in Seq(Chunks)
    BY <1>4
  <2>2. text = IF open[Len(open)].kind = "message" THEN spoken ELSE <<>>
    BY <1>4
  <2> HIDE DEF text
  <2>3. /\ event \in Events /\ event.type = "completed" /\ event.item = Innermost.id
        /\ event.text = text
    BY <1>4, <2>1 DEF Completed, Event, Events, text
  <2> QED BY <1>4, <2>2, <2>3
<1> HIDE DEF event
<1>6. PICK line, gone : /\ TimelineInv(line, gone, NoDelta, open, items, spoken, abandoned)
                        /\ Posted(line, gone, event, timeline', dropped')
  BY <1>1, <1>2, <1>5, OtherObserved
<1>7. pending' = NoDelta
  BY <1>1, <1>2, <1>5, OtherObserved
<1>8. /\ gone \in Nat /\ HeldInv(NoDelta, spoken, open)
      /\ OrderInv(line, NoDelta, open, items, spoken)
      /\ gone = 0 => WholeInv(line, NoDelta, open, items, spoken, abandoned)
  BY <1>6 DEF TimelineInv
<1>9. /\ NestInv(open', items) /\ Saying(open') = 0
      /\ event.item \in Ids(open) /\ event.item \in 1..items
      /\ Ids(open') = Ids(open) \ {event.item}
  BY <1>1, <1>3, <1>5, NestCloses
<1>10. HeldInv(NoDelta, <<>>, open')
  <2>1. Len(<<>>) = 0 /\ <<>> \in Seq(Chunks) /\ NoDelta.text = <<>>
    BY DEF NoDelta
  <2>2. NoDelta = [item |-> NoDelta.item, text |-> NoDelta.text]
    BY DEF NoDelta
  <2> QED BY <2>1, <2>2 DEF HeldInv
<1>11. OrderInv(line, NoDelta, open', items, <<>>)
  BY <1>1, <1>3, <1>8, ClosesInOrder
<1>12. OrderInv(Append(line, event), NoDelta, open', items, <<>>)
  <2>1. Those(line, "completed", event.item) = {}
    <3>1. line \in Seq(Events)
      BY <1>8 DEF OrderInv
    <3>2. DOMAIN line = 1..Len(line)
      BY <3>1
    <3>3. \A k \in 1..Len(line) : line[k].type = "completed" => line[k].item \notin Ids(open)
      BY <1>8 DEF OrderInv
    <3> QED BY <1>9, <3>2, <3>3 DEF Those
  <2>2. event.item \in 1..items \ Ids(open')
    BY <1>9
  <2> QED BY <1>4, <1>5, <1>9, <1>11, <2>1, <2>2, EndInOrder
<1>13. gone = 0 => WholeInv(Append(line, event), NoDelta, open', items, <<>>, abandoned)
  BY <1>1, <1>3, <1>5, <1>8, EndIsWhole
<1>14. /\ dropped' \in Nat /\ (timeline' = line \/ timeline' = Append(line, event))
       /\ dropped' = 0 => timeline' = Append(line, event) /\ gone = 0
  <2>1. gone \in Nat
    BY <1>8
  <2> QED BY <1>6, <2>1 DEF Posted
<1>15. TimelineInv(timeline', dropped', NoDelta, open', items, <<>>, abandoned)
  BY <1>9, <1>10, <1>11, <1>12, <1>13, <1>14 DEF TimelineInv
<1> QED BY <1>1, <1>7, <1>15 DEF StreamInv

\* A trial ends with an error and says nothing.
LEMMA FailKeeps ==
    ASSUME StreamInv, TrialFails
    PROVE  StreamInv'
<1>1. /\ Len(open) = 2 /\ open' = Front(open) /\ work = "running"
      /\ abandoned' = abandoned \cup {Innermost.id}
      /\ UNCHANGED <<items, spoken, pending, timeline, work, dropped>>
  BY DEF TrialFails, Working
<1>2. /\ dropped \in Nat /\ NestInv(open, items) /\ HeldInv(pending, spoken, open)
      /\ OrderInv(timeline, pending, open, items, spoken)
      /\ dropped = 0 => WholeInv(timeline, pending, open, items, spoken, abandoned)
  BY DEF StreamInv, TimelineInv
<1>3. open # <<>> /\ Innermost = open[Len(open)] /\ Saying(open) = 0
  <2>1. open # <<>>
    BY <1>1
  <2>2. open[2].kind = "trial"
    BY <1>1, <1>2 DEF NestInv
  <2> QED BY <1>1, <2>1, <2>2 DEF Innermost, Saying
<1>4. pending = NoDelta /\ spoken = <<>>
  BY <1>2, <1>3 DEF HeldInv
<1>5. NestInv(open', items) /\ Saying(open') = 0
  BY <1>1, <1>2, <1>3, NestCloses
<1>6. HeldInv(NoDelta, spoken, open')
  BY <1>2, <1>4, <1>5 DEF HeldInv
<1>7. OrderInv(timeline, NoDelta, open', items, spoken)
  BY <1>1, <1>2, <1>3, <1>4, ClosesInOrder
<1>8. dropped = 0 => WholeInv(timeline, NoDelta, open', items, spoken, abandoned')
  BY <1>1, <1>2, <1>3, <1>4, FailIsWhole
<1>9. TimelineInv(timeline, dropped, NoDelta, open', items, spoken, abandoned')
  BY <1>2, <1>5, <1>6, <1>7, <1>8 DEF TimelineInv
<1> QED BY <1>1, <1>4, <1>9 DEF StreamInv

\* The invariant holds before the work emits anything.
LEMMA StreamStart ==
    ASSUME Init
    PROVE  StreamInv
<1>1. /\ open = <<>> /\ items = 0 /\ spoken = <<>> /\ pending = NoDelta
      /\ timeline = <<>> /\ work = "running" /\ dropped = 0 /\ abandoned = {}
  BY DEF Init
<1>2. Len(<<>>) = 0 /\ DOMAIN <<>> = {} /\ (\A i \in 1..Len(<<>>) : FALSE)
  OBVIOUS
<1>3. Saying(open) = 0 /\ Ids(open) = {} /\ \A type, item : Those(timeline, type, item) = {}
  BY <1>1, <1>2 DEF Saying, Ids, Those
<1>4. NestInv(open, items)
  <2>1. open \in Seq([id : 1..items, kind : Kinds])
    BY <1>1
  <2> QED BY <1>1, <1>2, <2>1 DEF NestInv
<1>5. HeldInv(pending, spoken, open)
  <2>1. pending = [item |-> pending.item, text |-> pending.text] /\ pending.text = <<>>
    BY <1>1 DEF NoDelta
  <2>2. spoken \in Seq(Chunks) /\ pending.text \in Seq(Chunks)
    BY <1>1, <2>1
  <2> QED BY <1>1, <1>2, <2>1, <2>2 DEF HeldInv
<1>6. OrderInv(timeline, pending, open, items, spoken)
  <2>1. timeline \in Seq(Events)
    BY <1>1
  <2> QED BY <1>1, <1>2, <1>3, <2>1 DEF OrderInv
<1>7. WholeInv(timeline, pending, open, items, spoken, abandoned)
  <2>1. \A item \in 1..items \ abandoned : FALSE
    BY <1>1
  <2> QED BY <1>1, <1>2, <1>3, <2>1 DEF WholeInv
<1> QED BY <1>1, <1>3, <1>4, <1>5, <1>6, <1>7 DEF StreamInv, TimelineInv

\* Every step of the work keeps the invariant.
LEMMA StreamStep ==
    ASSUME StreamInv, [Next]_streamVars
    PROVE  StreamInv'
<1>1. NestInv(open, items)
  BY DEF StreamInv, TimelineInv
<1>2. CASE StartItem
  BY <1>2, StartKeeps
<1>3. CASE RepeatTrial
  <2>1. /\ Innermost.kind = "trial" /\ Observe(CoalesceOther(<<Started(Innermost.id)>>))
        /\ UNCHANGED <<open, items, spoken, work, abandoned>>
    BY <1>3 DEF RepeatTrial
  <2>2. open # <<>> /\ Innermost = open[Len(open)]
    BY <2>1 DEF Innermost
  <2>3. Saying(open) = 0
    BY <2>1, <2>2 DEF Saying
  <2>4. Innermost.id \in Ids(open) /\ Innermost.id \in Nat
    <3>1. Len(open) \in DOMAIN open /\ DOMAIN open = 1..Len(open) /\ items \in Nat
      BY <1>1, <2>2, NestFacts
    <3>2. open[Len(open)].id \in 1..items
      BY <1>1, <3>1, NestFacts
    <3> QED BY <2>2, <3>1, <3>2 DEF Ids
  <2>5. /\ Started(Innermost.id) \in Events /\ Started(Innermost.id).type = "started"
        /\ Started(Innermost.id).item = Innermost.id
    <3> DEFINE id == Innermost.id
    <3>1. id \in Nat
      BY <2>4
    <3> HIDE DEF id
    <3>2. Started(id) \in Events /\ Started(id).type = "started" /\ Started(id).item = id
      BY <3>1 DEF Started, Event, Events
    <3> QED BY <3>2 DEF id
  <2> QED BY <2>1, <2>3, <2>4, <2>5, PlainKeeps
<1>4. CASE Note
  <2>1. /\ Innermost.kind # "message" /\ UNCHANGED <<open, items, spoken, work, abandoned>>
        /\ Observe(CoalesceOther(<<>>)) \/ Observe(CoalesceOther(<<Notice>>))
    BY <1>4 DEF Note
  <2>2. Saying(open) = 0
    BY <2>1 DEF Innermost, Saying
  <2>3. CASE Observe(CoalesceOther(<<>>))
    <3>1. TimelineInv(timeline', dropped', pending', open', items', spoken', abandoned')
      BY <2>1, <2>3, NothingObserved DEF StreamInv
    <3> QED BY <2>1, <3>1 DEF StreamInv
  <2>4. CASE Observe(CoalesceOther(<<Notice>>))
    <3>1. Notice \in Events /\ Notice.type = "notice" /\ Notice.item = 0
      BY DEF Notice, Event, Events
    <3> QED BY <2>1, <2>2, <2>4, <3>1, PlainKeeps
  <2> QED BY <2>1, <2>3, <2>4
<1>5. CASE Say
  BY <1>5, SayKeeps
<1>6. CASE CompleteItem
  BY <1>6, CompleteKeeps
<1>7. CASE TrialFails
  BY <1>7, FailKeeps
<1>8. CASE EndWork
  <2>1. /\ \/ open = <<>> /\ work' = "done"
           \/ Innermost.kind # "message" /\ work' = "failed"
           \/ work' = "dead"
        /\ UNCHANGED <<open, items, spoken, pending, timeline, dropped, abandoned>>
    BY <1>8 DEF EndWork
  <2>2. work' \in {"done", "failed"} => Saying(open) = 0
    BY <2>1 DEF Innermost, Saying
  <2> QED BY <2>1, <2>2 DEF StreamInv
<1>9. CASE UNCHANGED streamVars
  BY <1>9 DEF StreamInv, streamVars
<1> QED BY <1>2, <1>3, <1>4, <1>5, <1>6, <1>7, <1>8, <1>9 DEF Next

\* The bounds on what the work says.
BoundsInv == items \in 0..MaxItems /\ Len(spoken) <= MaxChunks

LEMMA BoundsStart ==
    ASSUME StreamAssumption, Init
    PROVE  BoundsInv
BY DEF StreamAssumption, Init, BoundsInv

LEMMA BoundsStep ==
    ASSUME StreamAssumption, StreamInv, BoundsInv, [Next]_streamVars
    PROVE  BoundsInv'
<1>1. /\ MaxItems \in Nat /\ MaxChunks \in Nat /\ items \in 0..MaxItems
      /\ spoken \in Seq(Chunks) /\ Len(spoken) <= MaxChunks
  BY DEF StreamAssumption, BoundsInv, StreamInv, TimelineInv, HeldInv
<1>2. CASE StartItem
  <2>1. items < MaxItems /\ items' = items + 1 /\ spoken' = <<>>
    BY <1>2 DEF StartItem
  <2> QED BY <1>1, <2>1 DEF BoundsInv
<1>3. CASE Say
  <2>1. /\ Len(spoken) < MaxChunks /\ items' = items
        /\ \E size \in Sizes : spoken' = Append(spoken, <<Len(spoken) + 1, size>>)
    BY <1>3 DEF Say
  <2>2. PICK size \in Sizes : spoken' = Append(spoken, <<Len(spoken) + 1, size>>)
    BY <2>1
  <2>3. <<Len(spoken) + 1, size>> \in Chunks
    BY <1>1 DEF Chunks
  <2>4. Len(spoken') = Len(spoken) + 1
    BY <1>1, <2>2, <2>3
  <2> QED BY <1>1, <2>1, <2>4 DEF BoundsInv
<1>4. CASE RepeatTrial \/ Note \/ CompleteItem \/ TrialFails \/ EndWork
  <2>1. items' = items /\ (spoken' = spoken \/ spoken' = <<>>)
    BY <1>4 DEF RepeatTrial, Note, CompleteItem, TrialFails, EndWork
  <2> QED BY <1>1, <2>1 DEF BoundsInv
<1>5. CASE UNCHANGED streamVars
  BY <1>1, <1>5 DEF BoundsInv, streamVars
<1> QED BY <1>2, <1>3, <1>4, <1>5 DEF Next

LEMMA StreamTypes ==
    ASSUME StreamInv, BoundsInv
    PROVE  TypeOK
<1>1. /\ NestInv(open, items) /\ HeldInv(pending, spoken, open)
      /\ timeline \in Seq(Events) /\ work \in {"running", "done", "failed", "dead"}
  BY DEF StreamInv, TimelineInv, OrderInv
<1>2. pending.item \in 0..items
  <2>1. items \in Nat /\ (Saying(open) # 0 => Saying(open) \in 1..items)
    BY <1>1, NestFacts
  <2>2. pending.item = 0 \/ (pending.item # 0 /\ pending.item = Saying(open))
    BY <1>1 DEF HeldInv, NoDelta
  <2> QED BY <2>1, <2>2
<1>3. ASSUME NEW k \in DOMAIN timeline
      PROVE  timeline[k].type \in {"started", "delta", "completed", "notice"}
  <2>1. timeline[k] \in Events
    BY <1>1
  <2> QED BY <2>1 DEF Events
<1> QED BY <1>1, <1>2, <1>3 DEF BoundsInv, TypeOK

\* The invariant says of the timeline what a reader relies on.
LEMMA StreamMeans ==
    ASSUME StreamInv
    PROVE  TimelineIsWhole
<1>1. /\ NestInv(open, items) /\ HeldInv(pending, spoken, open)
      /\ OrderInv(timeline, pending, open, items, spoken)
      /\ dropped = 0 => WholeInv(timeline, pending, open, items, spoken, abandoned)
      /\ work \in {"done", "failed"} => Saying(open) = 0
  BY DEF StreamInv, TimelineInv
<1>2. DOMAIN timeline = 1..Len(timeline)
  <2>1. timeline \in Seq(Events)
    BY <1>1 DEF OrderInv
  <2> QED BY <2>1
<1>3. /\ \A type, item : Of(type, item) = Those(timeline, type, item)
      /\ \A item, n : Heard(item, n) = HeardIn(timeline, item, n)
  BY DEF Of, Those, Heard, HeardIn
<1>4. \A k \in DOMAIN timeline : timeline[k].type = "completed" =>
          /\ Of("completed", timeline[k].item) = {k}
          /\ Of("delta", timeline[k].item) \subseteq 1..k
  BY <1>1, <1>2, <1>3 DEF OrderInv
<1>5. \A item \in 1..items : \A k, l \in Of("delta", item) :
          \A i \in DOMAIN timeline[k].text, j \in DOMAIN timeline[l].text :
              k < l \/ (k = l /\ i < j) => timeline[k].text[i][1] < timeline[l].text[j][1]
  BY <1>1, <1>3 DEF OrderInv
<1>6. ASSUME dropped = 0
      PROVE  /\ \A k \in DOMAIN timeline : timeline[k].type = "completed" =>
                    Heard(timeline[k].item, k) = ToSet(timeline[k].text)
             /\ \A k \in DOMAIN timeline : timeline[k].item # 0 =>
                    \E s \in Of("started", timeline[k].item) : s <= k
             /\ pending # NoDelta => timeline[Len(timeline)].item = pending.item
  <2>1. WholeInv(timeline, pending, open, items, spoken, abandoned)
    BY <1>1, <1>6
  <2>2. pending # NoDelta => pending.item = Saying(open) /\ Saying(open) # 0
    BY <1>1 DEF HeldInv
  <2> QED BY <1>2, <1>3, <2>1, <2>2 DEF WholeInv
<1>7. ASSUME dropped = 0, work \in {"done", "failed"}
      PROVE  /\ pending = NoDelta
             /\ \A item \in 1..items \ abandoned :
                    Of("completed", item) # {} \/ \E n \in DOMAIN open : open[n].id = item
  <2>1. pending = NoDelta
    BY <1>1, <1>7 DEF HeldInv
  <2>2. \A item \in 1..items \ abandoned : Of("completed", item) # {} \/ item \in Ids(open)
    BY <1>1, <1>3, <1>7 DEF WholeInv
  <2> QED BY <2>1, <2>2 DEF Ids
<1> QED BY <1>4, <1>5, <1>6, <1>7 DEF TimelineIsWhole

\* No item is completed twice and no text comes out of order or late, whatever is lost, and
\* while nothing is lost the timeline tells everything (coalesced_progress_payloads, emit).
THEOREM TimelineCorrect == Spec => []TimelineIsWhole
<1>1. Init => StreamInv
  BY StreamStart
<1>2. StreamInv /\ [Next]_streamVars => StreamInv'
  BY StreamStep
<1>3. StreamInv => TimelineIsWhole
  BY StreamMeans
<1> QED BY <1>1, <1>2, <1>3, PTL DEF Spec
================================================================================
