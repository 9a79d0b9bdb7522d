----------------------------- MODULE BotTuning -----------------------------
(***************************************************************************)
(* Editing a catalog bot from its card (api/bot_instructions.go,           *)
(* bot_guardrails.go, bot_connection.go, provider_connection.go) and the   *)
(* record of what it shipped with (api/team.go).  Every request runs in a  *)
(* goroutine of its own: it loads the manifest, reads it again as text,    *)
(* edits one part and writes the whole file back, then looks at the        *)
(* record and corrects it under TeamStore's mutex.                         *)
(***************************************************************************)
EXTENDS Integers, FiniteSets

CONSTANTS
    Requests,   \* bound: how many edits are ever asked for
    Together,   \* bound: how many are in flight at once
    Texts,      \* values a part can be given
    Original,   \* what each part shipped with
    Deaths,     \* bound: how often the daemon dies
    SaveFaults  \* bound: how often team.json cannot be written

Halves == {"instructions", "guardrails"}  \* what the Team remembers
Parts  == Halves \cup {"connection"}
NeverRecorded == "never recorded"

ASSUME TuningAssumption ==
    /\ Original \in [Parts -> Texts] /\ {"unloadable", NeverRecorded} \cap Texts = {}
    /\ Requests \in Nat /\ Together \in Nat /\ Deaths \in Nat /\ SaveFaults \in Nat

Request == 1..Requests

VARIABLES
    manifest,   \* nanobot.yaml: a value for each part, or Unloadable
    team,       \* team.json
    fleet,      \* fleet.json, what the file was called before
    edit,       \* each request
    torn,       \* team.json is being written: a read finds it cut short
    deaths, saveFaults,
    crossed   \* history: edits overlapped, the daemon died or a save failed

tuningVars == <<manifest, team, fleet, edit, torn, deaths, saveFaults, crossed>>

Unloadable == [p \in Parts |-> "unloadable"]
NoRecord == [h \in Halves |-> NeverRecorded]
TeamFiles == [is : {"missing", "corrupt", "map"}, shipped : [Halves -> Texts \cup {NeverRecorded}]]

Fresh ==
         [at |-> "new", part |-> "connection", all |-> FALSE, text |-> Original["connection"],
          previous |-> Original["connection"], raw |-> Original]

\* A bot as it was shipped or as earlier edits left it, and the record they
\* left: in team.json, or of its instructions in fleet.json.
Tuned(m) == [h \in Halves |-> IF m[h] = Original[h] THEN NeverRecorded ELSE Original[h]]
TuningInit ==
    /\ manifest \in [Parts -> Texts]
    /\ \/ fleet = NoRecord /\ team = [is |-> "map", shipped |-> Tuned(manifest)]
       \/ /\ manifest["guardrails"] = Original["guardrails"]
          /\ fleet = Tuned(manifest) /\ team = [is |-> "missing", shipped |-> NoRecord]
    /\ edit = [e \in Request |-> Fresh]
    /\ torn = FALSE /\ deaths = 0 /\ saveFaults = 0 /\ crossed = FALSE

Busy(e) == edit[e].at \notin {"new", "done"}
InFlight == {e \in Request : Busy(e)}

-----------------------------------------------------------------------------
(* The file edits.                                                         *)

Answered(e) == [edit EXCEPT ![e] = [Fresh EXCEPT !.at = "done"]]
Becomes(e, at) == edit' = IF at = "done" THEN Answered(e) ELSE [edit EXCEPT ![e].at = at]

\* A request that has passed the checks of its own handler: one line, not too
\* long; guardrails in range; an account that is connected before a bot goes
\* live, by a switch of its own or by that of a whole provider.
Asked(e, part, all) ==
    /\ edit[e].at = "new" /\ (\A f \in 1..(e - 1) : edit[f].at # "new")
    /\ Cardinality(InFlight) < Together
    /\ \E t \in Texts :
          edit' = [edit EXCEPT ![e].at = "load", ![e].part = part, ![e].all = all, ![e].text = t]
    /\ crossed' = (crossed \/ InFlight # {})
    /\ UNCHANGED <<manifest, team, fleet, torn, deaths, saveFaults>>
SetInstructions(e) == Asked(e, "instructions", FALSE)
SetGuardrails(e) == Asked(e, "guardrails", FALSE)
SetServiceConnection(e) == Asked(e, "connection", FALSE)
SetProviderConnection(e) == Asked(e, "connection", TRUE)

\* LoadNanobot: 404 when the file does not parse.  The switch of a whole
\* provider leaves a bot alone that is there already; a bot's own switch and
\* the other edits write in any case.
InPlace(e) == edit[e].all /\ manifest[edit[e].part] = edit[e].text
LoadManifest(e) ==
    /\ edit[e].at = "load"
    /\ \/ manifest = Unloadable /\ Becomes(e, "done")
       \/ InPlace(e) /\ Becomes(e, "done")
       \/ /\ manifest # Unloadable /\ ~InPlace(e)
          /\ edit' = [edit EXCEPT ![e].at = "read", ![e].previous = manifest[edit[e].part]]
    /\ UNCHANGED <<manifest, team, fleet, torn, deaths, saveFaults, crossed>>

\* os.ReadFile: the line to edit is not found in a file that is cut short.
ReadManifest(e) ==
    /\ edit[e].at = "read"
    /\ IF manifest = Unloadable THEN Becomes(e, "done")
       ELSE edit' = [edit EXCEPT ![e].at = "truncate", ![e].raw = manifest]
    /\ UNCHANGED <<manifest, team, fleet, torn, deaths, saveFaults, crossed>>

\* Each edit replaces its own lines of the text that was read.
WithInstructions(raw, t) == [raw EXCEPT !["instructions"] = t]
WithGuardrails(raw, t) == [raw EXCEPT !["guardrails"] = t]
WithConnection(raw, t) == [raw EXCEPT !["connection"] = t]
WithEdit(e) ==
    CASE edit[e].part = "instructions" -> WithInstructions(edit[e].raw, edit[e].text)
      [] edit[e].part = "guardrails" -> WithGuardrails(edit[e].raw, edit[e].text)
      [] edit[e].part = "connection" -> WithConnection(edit[e].raw, edit[e].text)

\* os.WriteFile empties the file before it fills it.  Two requests that fill
\* it at once may leave the end of the longer text behind the shorter.
Truncate(e) ==
    /\ edit[e].at = "truncate"
    /\ manifest' = Unloadable /\ Becomes(e, "fill")
    /\ UNCHANGED <<team, fleet, torn, deaths, saveFaults, crossed>>
Fill(e) ==
    /\ edit[e].at = "fill"
    /\ \/ manifest' = WithEdit(e)
       \/ manifest # Unloadable /\ manifest' = Unloadable
    /\ Becomes(e, IF edit[e].part \in Halves THEN "lookup" ELSE "done")
    /\ UNCHANGED <<team, fleet, torn, deaths, saveFaults, crossed>>

-----------------------------------------------------------------------------
(* TeamStore.                                                              *)

\* load: the old name is read once, while there is no file of the new one; a
\* corrupt file reads as an empty map.
Loaded == CASE team.is = "map" -> team.shipped
            [] team.is = "missing" -> fleet
            [] OTHER -> NoRecord

\* Shipped, or ShippedGuardrails, and what is to be done then.
LookUp(e) ==
    /\ edit[e].at = "lookup" /\ ~torn
    /\ LET shipped == Loaded[edit[e].part]
       IN Becomes(e, IF shipped # NeverRecorded /\ shipped = edit[e].text THEN "forget"
                     ELSE IF edit[e].text # edit[e].previous THEN "record" ELSE "done")
    /\ UNCHANGED <<manifest, team, fleet, torn, deaths, saveFaults, crossed>>

FirstOfAny(m, half, value) == IF m = NoRecord THEN [m EXCEPT ![half] = value] ELSE m

\* RecordTuned keeps the first value of the half it is about, whatever the
\* other half's record; Forget clears one half.
FirstOf(m, half, value) == IF m[half] = NeverRecorded THEN [m EXCEPT ![half] = value] ELSE m
Forgotten(m, half) == [m EXCEPT ![half] = NeverRecorded]
CorrectedFrom(e) ==
    IF edit[e].at = "forget" THEN Forgotten(Loaded, edit[e].part)
    ELSE FirstOf(Loaded, edit[e].part, edit[e].previous)

\* save is os.WriteFile once more, under the mutex.  Its error is dropped.
SaveTeam(e) ==
    /\ edit[e].at \in {"forget", "record"} /\ ~torn
    /\ \/ CorrectedFrom(e) = Loaded /\ Becomes(e, "done") /\ UNCHANGED <<team, torn, saveFaults, crossed>>
       \/ /\ CorrectedFrom(e) # Loaded /\ Becomes(e, "saving") /\ torn' = TRUE
          /\ team' = [is |-> "corrupt", shipped |-> CorrectedFrom(e)]
          /\ UNCHANGED <<saveFaults, crossed>>
       \/ /\ saveFaults < SaveFaults /\ saveFaults' = saveFaults + 1
          /\ Becomes(e, "done") /\ crossed' = TRUE /\ UNCHANGED <<team, torn>>
    /\ UNCHANGED <<manifest, fleet, deaths>>
TeamSaved(e) ==
    /\ edit[e].at = "saving" /\ Becomes(e, "done") /\ torn' = FALSE
    /\ team' = [team EXCEPT !.is = "map"]
    /\ UNCHANGED <<manifest, fleet, deaths, saveFaults, crossed>>

\* The daemon dies: every request in flight is gone, and with it the text of
\* a file that was being filled.
DaemonDies ==
    /\ deaths < Deaths /\ deaths' = deaths + 1
    /\ edit' = [e \in Request |-> IF Busy(e) THEN Answered(e)[e] ELSE edit[e]]
    /\ team' = IF torn THEN [team EXCEPT !.shipped = NoRecord] ELSE team
    /\ torn' = FALSE /\ crossed' = TRUE
    /\ UNCHANGED <<manifest, fleet, saveFaults>>

TuningNext ==
    \/ \E e \in Request :
          \/ SetInstructions(e) \/ SetGuardrails(e) \/ SetServiceConnection(e)
          \/ SetProviderConnection(e) \/ LoadManifest(e) \/ ReadManifest(e) \/ Truncate(e) \/ Fill(e)
          \/ LookUp(e) \/ SaveTeam(e) \/ TeamSaved(e)
    \/ DaemonDies

TuningSpec == TuningInit /\ [][TuningNext]_tuningVars

-----------------------------------------------------------------------------
TuningTypeOK ==
    /\ manifest = Unloadable \/ manifest \in [Parts -> Texts]
    /\ team \in TeamFiles /\ fleet \in [Halves -> Texts \cup {NeverRecorded}]
    /\ torn \in BOOLEAN /\ crossed \in BOOLEAN
    /\ deaths \in 0..Deaths /\ saveFaults \in 0..SaveFaults
    /\ \A e \in Request :
          /\ edit[e].at \in {"new", "load", "read", "truncate", "fill", "lookup",
                             "record", "forget", "saving", "done"}
          /\ edit[e].part \in Parts /\ {edit[e].text, edit[e].previous} \subseteq Texts

\* team.go: "what a bot shipped with, written the first time each of its two
\* independently-tunable things is changed".  After any sequence of edits,
\* put back or not, in any order of the halves, a half is on record exactly
\* when it differs from what it shipped with, and what is on record is that.
TunedIsOnRecord ==
    ~crossed /\ InFlight = {}
      => Loaded = Tuned(manifest)

\* team.go: "Only the first call records - the shipped value is the original,
\* not the previous edit".
ShippedIsOriginal == \A h \in Halves : Loaded[h] \in {NeverRecorded, Original[h]}
=============================================================================
