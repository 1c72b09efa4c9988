---------------------------- MODULE Configuration ----------------------------
(***************************************************************************)
(* The configuration file and the actors that hold what they read of it.   *)
(* An update comes as several keys; the actor takes each by itself: a      *)
(* clone is changed, validated and written over the file, and becomes the  *)
(* actor's own when the write is done.  A process reads the file only when *)
(* it starts, and "config set" of the command line is such a process.      *)
(***************************************************************************)
EXTENDS Ordering, Sequences

CONSTANTS
    Actors,                 \* the processes
    Keys, Values, Default,  \* each key's values, among them its default
    Invalid,                \* a value that set or validate refuses
    Changes,                \* what a client asks for: sequences of <<key, value>>
    MaxStarts, MaxUpdates   \* bounds

\* A key and its value come together (config/update, "config set").
ConfigurationAssumption ==
    /\ Default \in Values
    /\ Changes \subseteq Seq(Keys \X (Values \cup {Invalid}))

VARIABLES
    saved,      \* what the file holds (no file reads as the defaults), Broken when it
                \* does not parse
    actors,     \* each actor: where it is, its config, the clone, the keys to come
    overlaid,   \* the actors over whose opened file another has written
    asked,      \* history: the settings of its update that were answered as saved
    before,     \* history: the config its update began with
    foreign,    \* history: the actors whose file another one saved since they read it
    torn,       \* history: the last write did not end
    starts, updates

configVars == <<saved, actors, overlaid, asked, before, foreign, torn, starts, updates>>

Configs == [Keys -> Values]
Defaults == [k \in Keys |-> Default]
Broken == [k \in Keys |-> Invalid]

Off == [pc |-> "off", config |-> Defaults, clone |-> Defaults, queue |-> <<>>]

Init ==
    /\ saved = Defaults
    /\ actors = [a \in Actors |-> Off]
    /\ asked = [a \in Actors |-> <<>>] /\ before = [a \in Actors |-> Defaults]
    /\ overlaid = {} /\ foreign = {} /\ torn = FALSE
    /\ starts = 0 /\ updates = 0

\* validate, of the clone: a value that cannot be read or makes no sense is refused.
Valid(setting) == setting[2] # Invalid

Assign(config, setting) == [config EXCEPT ![setting[1]] = setting[2]]

\* One setting after the other: of each key, the last.
Applied(config, settings) ==
    LET of(k) == {n \in DOMAIN settings : settings[n][1] = k}
    IN [k \in Keys |-> IF of(k) = {} THEN config[k] ELSE settings[LastOf(of(k))][2]]

\* load_or_default: the file as it is, defaults for what it does not say.
Start(a) ==
    /\ actors[a].pc = "off" /\ starts < MaxStarts
    /\ saved # Broken
    /\ starts' = starts + 1
    /\ actors' = [actors EXCEPT ![a] = [Off EXCEPT !.pc = "idle", !.config = saved]]
    /\ before' = [before EXCEPT ![a] = saved]
    /\ foreign' = foreign \ {a}
    /\ UNCHANGED <<saved, overlaid, asked, torn, updates>>

\* config/update with its keys, or "config set".
Update(a) ==
    /\ actors[a].pc = "idle" /\ updates < MaxUpdates
    /\ updates' = updates + 1
    /\ \E change \in Changes :
           actors' = [actors EXCEPT ![a].pc = "set", ![a].queue = change]
    /\ asked' = [asked EXCEPT ![a] = <<>>]
    /\ before' = [before EXCEPT ![a] = actors[a].config]
    /\ UNCHANGED <<saved, overlaid, foreign, torn, starts>>

Idle(a) == actors' = [actors EXCEPT ![a].pc = "idle", ![a].queue = <<>>]

\* Mutant of SetKey: the actor changes its own configuration, and then saves it.
SetOwn(a) ==
    LET setting == Head(actors[a].queue) IN
    /\ actors[a].pc = "set" /\ actors[a].queue # <<>>
    /\ IF ~Valid(setting) THEN Idle(a)
       ELSE actors' = [actors EXCEPT ![a].pc = "truncate",
                          ![a].clone = Assign(actors[a].config, setting),
                          ![a].config = Assign(actors[a].config, setting)]
    /\ UNCHANGED <<saved, overlaid, asked, before, foreign, torn, starts, updates>>

\* set and validate on a clone; a refused value ends the update where it is.
SetKey(a) ==
    LET setting == Head(actors[a].queue) IN
    /\ actors[a].pc = "set" /\ actors[a].queue # <<>>
    /\ IF ~Valid(setting) THEN Idle(a)
       ELSE actors' = [actors EXCEPT ![a].pc = "truncate",
                                     ![a].clone = Assign(actors[a].config, setting)]
    /\ UNCHANGED <<saved, overlaid, asked, before, foreign, torn, starts, updates>>

\* fs::write empties the file, which reads as the defaults.
Truncate(a) ==
    /\ actors[a].pc = "truncate"
    /\ saved' = Defaults /\ overlaid' = {}
    /\ torn' = TRUE
    /\ actors' = [actors EXCEPT ![a].pc = "write"]
    /\ UNCHANGED <<asked, before, foreign, starts, updates>>

\* The bytes go to the start of the file: those of another that had it open stay behind
\* them when they are longer.
Overlay(a) ==
    overlaid' = (overlaid \ {a}) \cup {b \in Actors \ {a} : actors[b].pc = "write"}

\* The save is done, and the clone is the actor's configuration.  Nothing else of this
\* actor runs in between.
WriteAndAdopt(a) ==
    /\ actors[a].pc = "write"
    /\ saved' \in {actors[a].clone} \cup (IF a \in overlaid THEN {Broken} ELSE {})
    /\ torn' = (saved' = Broken)
    /\ Overlay(a)
    /\ foreign' = foreign \cup (Actors \ {a})
    /\ asked' = [asked EXCEPT ![a] = Append(@, Head(actors[a].queue))]
    /\ actors' = [actors EXCEPT ![a].config = actors[a].clone, ![a].queue = Tail(@),
          ![a].pc = IF Len(actors[a].queue) = 1 THEN "idle" ELSE "set"]
    /\ UNCHANGED <<before, starts, updates>>

\* A part of the file reads as the defaults for the keys that come later, or not at all.
Prefixes(config) ==
    {Broken} \cup {[k \in Keys |-> IF k \in some THEN config[k] ELSE Default] : some \in SUBSET Keys}

\* A write that ends early leaves a part, one that did not begin leaves the file alone.
WritePart(a) ==
    IF actors[a].pc = "write"
    THEN saved' \in Prefixes(actors[a].clone) /\ torn' = TRUE /\ Overlay(a)
    ELSE UNCHANGED <<saved, torn, overlaid>>

\* The disk is full, say, and the update ends with an error.
WriteFails(a) ==
    /\ actors[a].pc \in {"truncate", "write"}
    /\ WritePart(a)
    /\ Idle(a)
    /\ UNCHANGED <<asked, before, foreign, starts, updates>>

Die(a) ==
    /\ actors[a].pc # "off"
    /\ WritePart(a)
    /\ actors' = [actors EXCEPT ![a] = Off]
    /\ asked' = [asked EXCEPT ![a] = <<>>]
    /\ before' = [before EXCEPT ![a] = Defaults]
    /\ UNCHANGED <<foreign, starts, updates>>

Next == \E a \in Actors : \/ Start(a) \/ Update(a) \/ SetKey(a) \/ Truncate(a)
                          \/ WriteAndAdopt(a) \/ WriteFails(a) \/ Die(a)

Spec == Init /\ [][Next]_configVars

TypeOK ==
    /\ saved \in Configs \cup {Broken}
    /\ \A a \in Actors : /\ actors[a].config \in Configs /\ actors[a].clone \in Configs
                         /\ actors[a].pc \in {"off", "idle", "set", "truncate", "write"}

(***************************************************************************)
(* What the service answers by is what a restart reads: an actor's         *)
(* configuration is the file's, unless the last write did not end or       *)
(* another process saved since it read the file.  An update that fails     *)
(* half-way has changed the keys before the one that failed, and no other  *)
(* (SetConfig and ConfigUpdate, FixTraceConfig::set and save).             *)
(***************************************************************************)
RestartReadsSaved ==
    \A a \in Actors : actors[a].pc # "off" =>
        /\ ~torn /\ a \notin foreign => actors[a].config = saved
        /\ actors[a].config = Applied(before[a], asked[a])
================================================================================
