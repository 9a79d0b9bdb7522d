----------------------------- MODULE SwarmFiles -----------------------------
(***************************************************************************)
(* Swarm documents on disk as the builder, the composer and the importer   *)
(* write them (api/builder.go, swarmmerge.go, compose.go, automate.go,     *)
(* export.go).  Every request is a goroutine of its own and no lock is     *)
(* taken: it chooses a path, reads what is there, merges its own fields    *)
(* into that and writes the whole file back.                               *)
(***************************************************************************)
EXTENDS Integers, FiniteSets

CONSTANTS
    Asks,       \* bound: how many requests are ever made
    AtOnce,     \* bound: how many are in flight together
    Slots,      \* bound: slug.yaml, slug-2.yaml, ... up to this one
    ByHand,     \* the swarms somebody wrote, by slot: trigger and zone
    LocalZone,  \* this machine's, or NoZone when it cannot be determined
    Falls       \* bound: how often the daemon dies

NoZone == "no zone"
Zones  == {NoZone, "America/Chicago", "Europe/Paris"}
Times  == {"7 am", "9 am"}
NoTime == "no time"
Triggers == [type : {"manual", "cron"}, expr : Times \cup {NoTime}, zone : Zones]

ASSUME FilesAssumption ==
    /\ {Asks, AtOnce, Falls} \subseteq Nat /\ Slots \in Nat \ {0} /\ LocalZone \in Zones
    /\ DOMAIN ByHand \subseteq 1..Slots /\ \A f \in DOMAIN ByHand : ByHand[f] \in Triggers

Slot == 1..Slots
Caller == 1..Asks
Hand == 0  \* the author of a swarm that was there before

\* A document: who last gave its name, bots and snaps; its trigger; and who
\* wrote everything the builder does not model.
Documents == [bots : Caller \cup {Hand}, trigger : Triggers, rest : Caller \cup {Hand}]
Absent == [is |-> "absent"]
Cut    == [is |-> "cut short"]  \* empty, or two texts over each other
Text(d) == [is |-> "text", doc |-> d]

\* What the planner says of a draft: whether every bot resolves, how many
\* snaps do not type-check, and what else is wrong.
Unresolved == [resolves |-> FALSE, badSnaps |-> 0, unfed |-> FALSE]
Plans == [resolves : {TRUE}, badSnaps : {0, 2}, unfed : BOOLEAN] \cup {Unresolved}
NoPlan == [resolves |-> TRUE, badSnaps |-> 0, unfed |-> FALSE]

VARIABLES
    file,     \* what is in each slot
    call,     \* each request
    falls

fileVars == <<file, call, falls>>

Kinds == {"save", "automate", "import"}
Unasked ==
        [kind |-> "save", at |-> "new", target |-> Hand, schedule |-> "leave", zone |-> NoZone,
            first |-> NoPlan, plan |-> NoPlan, path |-> 1, text |-> Absent]

FilesInit ==
    /\ file = [f \in Slot |-> IF f \in DOMAIN ByHand
                              THEN Text([bots |-> Hand, trigger |-> ByHand[f], rest |-> Hand])
                              ELSE Absent]
    /\ call = [c \in Caller |-> Unasked]
    /\ falls = 0

Over(c) == call[c].at \in {"new", "saved", "refused"}
MovesTo(c, at) == call' = [call EXCEPT ![c].at = at, ![c].text = IF at \in {"saved", "refused"} THEN Absent ELSE @]

-----------------------------------------------------------------------------
(* What is asked for.                                                      *)

\* `schedule` is three-valued: absent, empty, or an expression the scheduler
\* can parse; `target` is a file by name, or none for a new swarm.
Arrives(c) ==
    /\ call[c].at = "new" /\ (\A d \in 1..(c - 1) : call[d].at # "new")
    /\ Cardinality({d \in Caller : ~Over(d)}) < AtOnce
    /\ UNCHANGED <<file, falls>>
AskSave(c) ==
    /\ Arrives(c)
    /\ \E f \in Slot \cup {Hand}, s \in {"leave", "manual"} \cup Times, z \in {NoZone, "Europe/Paris"} :
          /\ s \in {"leave", "manual"} => z = NoZone
          /\ call' = [call EXCEPT ![c] = [Unasked EXCEPT !.at = "check", !.target = f,
                                              !.schedule = s, !.zone = z]]
\* A sentence, from the Lab or the home page, that becomes a new swarm.
Automate(c) == Arrives(c) /\ call' = [call EXCEPT ![c] = [Unasked EXCEPT !.kind = "automate", !.at = "compose"]]
AskImport(c) == Arrives(c) /\ call' = [call EXCEPT ![c] = [Unasked EXCEPT !.kind = "import", !.at = "stat"]]

PlanOK(p) == p.resolves /\ p.badSnaps = 0 /\ ~p.unfed
\* countBadSnaps: what the resolver refuses has no snaps to count, and an
\* input nothing fills is not counted.
CountBad(p) == IF p.resolves THEN p.badSnaps ELSE 1

\* planWithOneCorrection keeps the first draft when the second attempt fails,
\* is a gap, or is not better by this count.
Corrected(p, q) == IF ~PlanOK(q) /\ CountBad(q) >= CountBad(p) THEN p ELSE q

\* composeSwarm: no model, no catalog, an unusable answer or a gap ends it.
\* The model's schedule may be one the scheduler cannot parse.
ComposeDraft(c) ==
    /\ call[c].at = "compose"
    /\ \/ MovesTo(c, "refused")
       \/ \E p \in Plans, s \in {"manual", "7 am"} :
             call' = [call EXCEPT ![c].first = p, ![c].plan = p, ![c].schedule = s,
                                  ![c].at = IF PlanOK(p) THEN "check" ELSE "correct"]
    /\ UNCHANGED <<file, falls>>
Correct(c) ==
    /\ call[c].at = "correct"
    /\ \/ MovesTo(c, "check")
       \/ \E q \in Plans :
             call' = [call EXCEPT ![c].plan = Corrected(call[c].first, q), ![c].at = "check"]
    /\ UNCHANGED <<file, falls>>

\* saveSwarm refuses a schedule it cannot parse, a zone nobody knows and a
\* draft that does not resolve before anything is written.
Check(c) ==
    /\ call[c].at = "check"
    /\ \/ call[c].plan.resolves /\ MovesTo(c, "stat")
       \/ MovesTo(c, "refused")
    /\ UNCHANGED <<file, falls>>

-----------------------------------------------------------------------------
(* The file.                                                               *)

\* uniqueSwarmPath: the first name no file has.
FreeSlots == {f \in Slot : file[f] = Absent}
Unique == CHOOSE f \in FreeSlots : \A g \in FreeSlots : f <= g

\* A named file must be there; a new one gets a name of its own.
ChoosePath(c) ==
    /\ call[c].at = "stat" /\ call[c].kind # "import"
    /\ LET f == call[c].target
       IN \/ f # Hand /\ file[f] = Absent /\ MovesTo(c, "refused")
          \/ f # Hand /\ file[f] # Absent /\ call' = [call EXCEPT ![c].at = "read", ![c].path = f]
          \/ f = Hand /\ FreeSlots # {} /\ call' = [call EXCEPT ![c].at = "read", ![c].path = Unique]
    /\ UNCHANGED <<file, falls>>

\* triggerFor and mergeIntoExistingSwarm: absent leaves the trigger alone,
\* empty makes it manual, and an expression takes the zone it is given, else
\* the one that is there, else this machine's.
Manual == [type |-> "manual", expr |-> NoTime, zone |-> NoZone]
ZoneAsGiven(given, kept) == given
ZoneFor(given, kept) == IF given # NoZone THEN given ELSE IF kept # NoZone THEN kept ELSE LocalZone
TriggerFor(c, kept) ==
    CASE call[c].schedule = "leave" -> kept
      [] call[c].schedule = "manual" -> Manual
      [] OTHER -> [type |-> "cron", expr |-> call[c].schedule, zone |-> ZoneFor(call[c].zone, kept.zone)]

\* The whole draft as a document of its own.
Marshalled(c) == [bots |-> c, trigger |-> TriggerFor(c, Manual), rest |-> c]
\* Only what the builder models is replaced.
Merged(c, d) == [d EXCEPT !.bots = c, !.trigger = TriggerFor(c, d.trigger)]

\* A file that is cut short is no document: 500, and nothing is written.
ReadFileAt(c) ==
    /\ call[c].at = "read"
    /\ LET there == file[call[c].path]
       IN \/ there = Cut /\ MovesTo(c, "refused")
          \/ /\ there # Cut
             /\ call' = [call EXCEPT ![c].at = "truncate",
                            ![c].text = Text(IF there = Absent THEN Marshalled(c) ELSE Merged(c, there.doc))]
    /\ UNCHANGED <<file, falls>>

\* handleImportSwarm writes the bundle's own text under the one name a save of
\* it would have chosen, unless there is a file.
ImportStat(c) ==
    /\ call[c].at = "stat" /\ call[c].kind = "import"
    /\ \/ file[1] # Absent /\ MovesTo(c, "refused")
       \/ /\ file[1] = Absent
          /\ call' = [call EXCEPT ![c].at = "truncate", ![c].path = 1,
                         ![c].text = Text([bots |-> c, trigger |-> Manual, rest |-> c])]
    /\ UNCHANGED <<file, falls>>

\* os.WriteFile empties the file, then fills it: two that fill it at once may
\* leave the end of the longer text behind the shorter.
CutShort(c) ==
    /\ call[c].at = "truncate" /\ MovesTo(c, "fill")
    /\ file' = [file EXCEPT ![call[c].path] = Cut] /\ UNCHANGED falls
FillIn(c) ==
    /\ call[c].at = "fill" /\ MovesTo(c, "saved")
    /\ \/ file' = [file EXCEPT ![call[c].path] = call[c].text]
       \/ file[call[c].path] # Cut /\ file' = [file EXCEPT ![call[c].path] = Cut]
    /\ UNCHANGED falls

DaemonFalls ==
    /\ falls < Falls /\ falls' = falls + 1
    /\ call' = [c \in Caller |-> IF Over(c) THEN call[c]
                            ELSE [call[c] EXCEPT !.at = "refused", !.text = Absent]]
    /\ UNCHANGED file

FilesNext ==
    \/ \E c \in Caller :
          \/ AskSave(c) \/ Automate(c) \/ AskImport(c) \/ ComposeDraft(c) \/ Correct(c) \/ Check(c) \/ ChoosePath(c)
          \/ ReadFileAt(c) \/ ImportStat(c) \/ CutShort(c) \/ FillIn(c)
    \/ DaemonFalls

FilesSpec == FilesInit /\ [][FilesNext]_fileVars

-----------------------------------------------------------------------------
FilesTypeOK ==
    /\ \A f \in Slot : file[f] \in {Absent, Cut} \/ file[f].doc \in Documents
    /\ \A c \in Caller :
          /\ call[c].kind \in Kinds /\ call[c].path \in Slot /\ call[c].target \in Slot \cup {Hand}
          /\ call[c].at \in {"new", "compose", "correct", "check", "stat", "read", "truncate", "fill",
                             "saved", "refused"}
          /\ {call[c].first, call[c].plan} \subseteq Plans
    /\ falls \in 0..Falls

\* swarmmerge.go: "Everything else survives", and a schedule that names no
\* zone leaves the one that is there.  However saves of a hand-written swarm
\* overlap, and wherever the daemon dies in them, a swarm that can be read
\* still has all the builder does not model, and of its trigger what no save
\* of it has asked to change.
Reached(f) == {c \in Caller : call[c].path = f /\ call[c].at \in {"read", "truncate", "fill", "saved", "refused"}
                                 /\ call[c].target = f}
HandWrittenSurvives ==
    \A f \in DOMAIN ByHand : file[f] # Cut =>
        LET now == file[f].doc
            by == Reached(f)
        IN /\ now.rest = Hand
           /\ (\A c \in by : call[c].schedule = "leave") => now.trigger = ByHand[f]
           /\ (\A c \in by : call[c].schedule # "manual" /\ call[c].zone = NoZone) /\ ByHand[f].zone # NoZone
                 => now.trigger.zone = ByHand[f].zone

\* compose.go: a second attempt is "never worse than not trying".  A draft
\* that could be saved is not given up for one that cannot.
NeverWorse ==
    \A c \in Caller : call[c].kind = "automate" /\ call[c].first.resolves => call[c].plan.resolves

\* builder.go: "saving two swarms with the same name never silently clobbers
\* the first one".
NoneClobbered ==
    \A c, d \in Caller :
        /\ c # d /\ {call[c].at, call[d].at} = {"saved"}
        /\ call[c].target = Hand /\ call[d].target = Hand
        => call[c].path # call[d].path
=============================================================================
