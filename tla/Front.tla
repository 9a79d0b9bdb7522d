-------------------------------- MODULE Front --------------------------------
(***************************************************************************)
(* What the swarm page does: starting runs from the page or by a webhook   *)
(* (api/runs.go, api/webhooks.go) and listing swarms with what their bots  *)
(* need and their last run (api/swarms.go), which reads a cache, the runs  *)
(* and the files one after another.                                        *)
(***************************************************************************)
EXTENDS Integers, FiniteSets

CONSTANTS
    SwarmYamls, \* files of examples/swarms
    Hooked,     \* the versions of a file whose trigger is a webhook
    Versions,   \* bound: how often a file is written
    Viewers,    \* GET /api/swarms, one each
    Starters,   \* POST /api/runs or /webhooks/{swarm}, one each
    Expiries    \* bound: how often the cache's TTL passes

ASSUME FrontAssumption ==
    /\ Versions \in Nat \ {0} /\ Hooked \subseteq 1..Versions /\ Expiries \in Nat
    /\ "nobody" \notin Viewers

Writings == 0..Versions
NoYaml == [f \in SwarmYamls |-> 0]
NoFlight == [of |-> "nobody", saw |-> NoYaml, current |-> TRUE]

VARIABLES
    yaml,      \* each file's version; 0 is no file
    saving,    \* files written by a save that has not yet invalidated
    settled,   \* history: files whose last writer was a save that has returned
    inspected, \* swarmInspectCache: what each file's bots needed, by version
    flight,    \* and the read that fills it
    view,      \* each listing
    start,     \* each start, and its run
    expiries

frontVars == <<yaml, saving, settled, inspected, flight, view, start, expiries>>

Nothing == [is |-> FALSE, of |-> NoYaml]
Unviewed == [at |-> "new", counts |-> NoYaml, cards |-> NoYaml, alone |-> FALSE, since |-> {}]
NoStart == [at |-> "new", by |-> "none", of |-> "none", planned |-> 0, run |-> "none",
              triggeredBy |-> "manual", listed |-> FALSE, hook |-> FALSE, row |-> "none"]

FrontInit ==
    /\ yaml \in [SwarmYamls -> {0, 1}] /\ saving = {} /\ settled = {}
    /\ inspected = Nothing /\ flight = NoFlight
    /\ view = [c \in Viewers |-> Unviewed] /\ start = [s \in Starters |-> NoStart]
    /\ expiries = 0

-----------------------------------------------------------------------------
(* Files.                                                                  *)

\* A listing only vouches for files nobody wrote since it began.
NewVersion(f) ==
    /\ yaml[f] < Versions /\ yaml' = [yaml EXCEPT ![f] = @ + 1]
    /\ settled' = settled \ {f}
    /\ view' = [c \in Viewers |-> [view[c] EXCEPT !.since = @ \ {f}]]

\* saveSwarm, handleImportSwarm, and the bots' connection editors: the file,
\* then the cache.
SaveYaml(f) ==
    /\ f \notin saving /\ NewVersion(f) /\ saving' = saving \cup {f}
    /\ UNCHANGED <<inspected, flight, start, expiries>>
CacheDropped == inspected' = Nothing /\ flight' = [flight EXCEPT !.current = FALSE]
SaveReturns(f) ==
    /\ f \in saving /\ saving' = saving \ {f} /\ settled' = settled \cup {f}
    /\ CacheDropped
    /\ UNCHANGED <<yaml, view, start, expiries>>
\* An editor or git, of which nobody is told.
WriteByHand(f) ==
    /\ NewVersion(f) /\ UNCHANGED <<saving, inspected, flight, start, expiries>>

-----------------------------------------------------------------------------
(* handleListSwarms.                                                       *)

ListSwarms(c) ==
    /\ view[c].at = "new"
    /\ view' = [view EXCEPT ![c].at = "inspects", ![c].since = settled \ saving,
                            ![c].alone = flight.of = "nobody"]
    /\ UNCHANGED <<yaml, saving, settled, inspected, flight, start, expiries>>

\* inspectedSwarms: cached, joined or read.
InspectedSwarms(c) ==
    /\ view[c].at = "inspects"
    /\ \/ /\ inspected.is
          /\ view' = [view EXCEPT ![c].at = "scans", ![c].counts = inspected.of] /\ UNCHANGED flight
       \/ /\ ~inspected.is /\ flight.of = "nobody" /\ flight' = [NoFlight EXCEPT !.of = c]
          /\ view' = [view EXCEPT ![c].at = "reads"]
       \/ /\ ~inspected.is /\ flight.of # "nobody"
          /\ view' = [view EXCEPT ![c].at = "joined"] /\ UNCHANGED flight
    /\ UNCHANGED <<yaml, saving, settled, inspected, start, expiries>>
\* inspectSwarm of every file, one after another.
InspectSwarms(c) ==
    /\ view[c].at = "reads" /\ flight' = [flight EXCEPT !.saw = yaml]
    /\ view' = [view EXCEPT ![c].at = "lands"]
    /\ UNCHANGED <<yaml, saving, settled, inspected, start, expiries>>
\* Kept unless an invalidation came meanwhile; whoever joined gets it anyway.
LandsCurrent == flight.current
Inspected(c) ==
    /\ view[c].at = "lands"
    /\ inspected' = (IF LandsCurrent THEN [is |-> TRUE, of |-> flight.saw] ELSE inspected)
    /\ view' = [d \in Viewers |-> IF d = c \/ view[d].at = "joined"
                                  THEN [view[d] EXCEPT !.at = "scans", !.counts = flight.saw] ELSE view[d]]
    /\ flight' = NoFlight
    /\ UNCHANGED <<yaml, saving, settled, start, expiries>>
TtlPasses ==
    /\ inspected.is /\ expiries < Expiries /\ expiries' = expiries + 1 /\ inspected' = Nothing
    /\ UNCHANGED <<yaml, saving, settled, flight, view, start>>
\* A card for each file there is, with the counts inspected for it or none.
Scan(c) ==
    /\ view[c].at = "scans" /\ view' = [view EXCEPT ![c].at = "shown", ![c].cards = yaml]
    /\ UNCHANGED <<yaml, saving, settled, inspected, flight, start, expiries>>

-----------------------------------------------------------------------------
(* Starting a run.                                                         *)

\* handleStartRun executes the file it is pointed at.  handleWebhook finds
\* it, looks at its trigger, and then reads the request's body.
AskStart(s) ==
    /\ start[s].at = "new"
    /\ \E f \in SwarmYamls :
          \/ start' = [start EXCEPT ![s].at = "plans", ![s].by = "manual", ![s].of = f]
          \/ /\ yaml[f] \in Hooked
             /\ start' = [start EXCEPT ![s].at = "plans", ![s].by = "webhook", ![s].of = f]
          \/ /\ yaml[f] \notin Hooked
             /\ start' = [start EXCEPT ![s].at = "over", ![s].by = "webhook"]
    /\ UNCHANGED <<yaml, saving, settled, inspected, flight, view, expiries>>
\* A body that is no JSON, or a swarm that is gone or does not type-check.
StartRefused(s) ==
    /\ start[s].at = "plans" /\ start' = [start EXCEPT ![s].at = "over"]
    /\ UNCHANGED <<yaml, saving, settled, inspected, flight, view, expiries>>
\* executeSwarm reads the file again; the run goes on by itself from here.
Execute(s) ==
    /\ start[s].at = "plans" /\ yaml[start[s].of] # 0
    /\ start' = [start EXCEPT ![s].at = "labels", ![s].planned = yaml[start[s].of], ![s].run = "running"]
    /\ UNCHANGED <<yaml, saving, settled, inspected, flight, view, expiries>>
\* Only a webhook's run is given another TriggeredBy; then RunStore.Add lists
\* the run, and last registers what records it, at once when it has ended.
Label(s) ==
    /\ start[s].at = "labels"
    /\ start' = [start EXCEPT ![s].at = "adds", ![s].triggeredBy = start[s].by]
    /\ UNCHANGED <<yaml, saving, settled, inspected, flight, view, expiries>>
AddBeforeLabel(s) == {"labels", "adds"}
AddAfter(s) == {"adds"}
Add(s) ==
    /\ start[s].at \in AddAfter(s) /\ ~start[s].listed
    /\ start' = [start EXCEPT ![s].listed = TRUE]
    /\ UNCHANGED <<yaml, saving, settled, inspected, flight, view, expiries>>
OnTerminal(s) ==
    /\ start[s].listed /\ ~start[s].hook
    /\ start' = [start EXCEPT ![s].hook = TRUE,
                    ![s].row = IF start[s].run = "over" THEN start[s].triggeredBy ELSE @]
    /\ UNCHANGED <<yaml, saving, settled, inspected, flight, view, expiries>>
RunEnds(s) ==
    /\ start[s].run = "running"
    /\ start' = [start EXCEPT ![s].run = "over",
                    ![s].row = IF start[s].hook THEN start[s].triggeredBy ELSE @]
    /\ UNCHANGED <<yaml, saving, settled, inspected, flight, view, expiries>>

YamlNext == \E f \in SwarmYamls : SaveYaml(f) \/ SaveReturns(f) \/ WriteByHand(f)
\* Listing and starting meet only in the files.
CardsNext ==
    \/ YamlNext \/ TtlPasses
    \/ \E c \in Viewers : ListSwarms(c) \/ InspectedSwarms(c) \/ InspectSwarms(c) \/ Inspected(c) \/ Scan(c)
StartsNext ==
    \/ YamlNext
    \/ \E s \in Starters :
          \/ AskStart(s) \/ StartRefused(s) \/ Execute(s) \/ Label(s)
          \/ Add(s) \/ OnTerminal(s) \/ RunEnds(s)
FrontNext == CardsNext \/ StartsNext

FrontSpec == FrontInit /\ [][FrontNext]_frontVars

-----------------------------------------------------------------------------
Maps == [SwarmYamls -> Writings]
FrontTypeOK ==
    /\ yaml \in Maps /\ saving \subseteq SwarmYamls /\ settled \subseteq SwarmYamls
    /\ inspected \in [is : BOOLEAN, of : Maps] /\ flight.saw \in Maps
    /\ flight.of \in Viewers \cup {"nobody"}
    /\ view \in [Viewers -> [at : {"new", "inspects", "reads", "joined", "lands", "scans", "shown"},
                             counts : Maps, cards : Maps, alone : BOOLEAN, since : SUBSET SwarmYamls]]
    /\ \A s \in Starters :
          /\ start[s].at \in {"new", "plans", "labels", "adds", "over"}
          /\ start[s].planned \in Writings /\ start[s].row \in {"none", "manual", "webhook"}

\* A listing that begins after a save returned, and finds no read of the files
\* under way, shows each card with its own file's counts, whatever reads were
\* under way during the save (swarms.go inspectedSwarms, builder.go:417-423).
NextListIsRight ==
    \A c \in Viewers : view[c].at = "shown" /\ view[c].alone =>
        \A f \in view[c].since : view[c].counts[f] = view[c].cards[f]

\* A run anyone can see, or that history keeps, says who started it, though it
\* runs, and may end, before its handler has said so (webhooks.go:111-120).
WhoStartedIt ==
    \A s \in Starters :
        /\ start[s].listed => start[s].triggeredBy = start[s].by
        /\ start[s].row # "none" => start[s].row = start[s].by

\* The swarm page tells what is in the files and who started what
\* (swarms.go, webhooks.go).
PageHonest == NextListIsRight /\ WhoStartedIt

\* builder.go:417-418: "A saved swarm's service counts must be right the
\* instant Save returns".
SavedCountsRight ==
    \A c \in Viewers : view[c].at = "shown" =>
        \A f \in view[c].since : view[c].counts[f] = view[c].cards[f]

\* webhooks.go:79-80: "A swarm that didn't ask to be triggered this way isn't
\* triggered this way."
OnlyWebhookSwarms ==
    \A s \in Starters : start[s].by = "webhook" /\ start[s].run # "none" => start[s].planned \in Hooked
=============================================================================
