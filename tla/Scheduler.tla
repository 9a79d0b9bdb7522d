----------------------------- MODULE Scheduler ------------------------------
(***************************************************************************)
(* internal/scheduler: cron.go (which minutes an expression allows),       *)
(* scheduler.go (the loop that rescans the swarms and fires those due) and *)
(* breaker.go (a schedule that keeps failing stops), over the runs the     *)
(* RunStore holds and across restarts of the daemon.                       *)
(*                                                                         *)
(* Time is the index of a minute in Calendar. A run is named by when it    *)
(* started: the n-th.                                                      *)
(***************************************************************************)
EXTENDS Integers, FiniteSets, Sequences

CONSTANTS
    Swarms,      \* swarm files
    Exprs,       \* what a trigger's expr may say: five fields, see Field
    Gone,        \* no file, one that cannot be read, or no cron trigger
    Calendar,    \* Calendar[t]: minute, hour, dom, month, dow of minute t
    MaxFailures, \* Breaker.MaxFailures
    RunsKept,    \* MaxPersistedRuns
    MaxRuns,     \* bound: runs ever
    MaxEdits,    \* bound: edits of swarm files
    MaxRestarts  \* bound: restarts of the daemon

ASSUME SchedulerAssumption ==
    /\ Gone \notin Exprs
    /\ MaxFailures \in Nat \ {0} /\ RunsKept \in Nat \ {0}
    /\ MaxRuns \in Nat /\ MaxEdits \in Nat /\ MaxRestarts \in Nat
    /\ Calendar \in Seq([{"minute", "hour", "dom", "month", "dow"} -> Nat]) /\ Calendar # <<>>

-----------------------------------------------------------------------------
(* cron.go. A field is a set of parts lo-hi/step; that of a star is empty.  *)

Bounds == [minute |-> <<0, 59>>, hour |-> <<0, 23>>, dom |-> <<1, 31>>,
           month |-> <<1, 12>>, dow |-> <<0, 7>>]
Star == {}
WholeField(f) == [lo |-> Bounds[f][1], hi |-> Bounds[f][2], step |-> 1]

\* parseField.
PartOK(f, p) ==
    p.step > 0 /\ p.lo <= p.hi /\ Bounds[f][1] <= p.lo /\ p.hi <= Bounds[f][2]
Parts(f, field) == IF field = Star THEN {WholeField(f)} ELSE field
Field(f, field) ==
    UNION {{v \in p.lo..p.hi : (v - p.lo) % p.step = 0} : p \in Parts(f, field)}

\* Parse: 7 is Sunday too.
Parses(e) == \A f \in DOMAIN Bounds : \A p \in Parts(f, e[f]) : PartOK(f, p)
Allowed(e, f) ==
    LET S == Field(f, e[f]) IN IF f = "dow" /\ 7 \in S THEN (S \ {7}) \cup {0} ELSE S

\* Schedule.matches: day of month or day of week when both are restricted.
Matches(e, t) ==
    LET On(f) == Calendar[t][f] \in Allowed(e, f)
    IN /\ On("minute") /\ On("hour") /\ On("month")
       /\ IF e.dom # Star /\ e.dow # Star THEN On("dom") \/ On("dow")
          ELSE (e.dom # Star => On("dom")) /\ (e.dow # Star => On("dow"))

Minutes == [e \in Exprs |-> IF Parses(e) THEN {t \in DOMAIN Calendar : Matches(e, t)} ELSE {}]

Never == Len(Calendar) + 1
NextFromHere(e, t) ==
    LET later == {u \in DOMAIN Calendar : u >= t /\ u \in Minutes[e]}
    IN IF later = {} THEN Never ELSE CHOOSE u \in later : \A v \in later : u <= v

\* Schedule.Next: the first minute after t, Never within the lookahead.
NextFire(e, t) ==
    LET later == {u \in DOMAIN Calendar : u > t /\ u \in Minutes[e]}
    IN IF later = {} THEN Never ELSE CHOOSE u \in later : \A v \in later : u <= v

-----------------------------------------------------------------------------
NoState == [expr |-> Gone, next |-> Never]

VARIABLES
    now,       \* the minute
    doc,       \* the expression in each swarm's file, or Gone
    edits,     \* edits so far
    event,     \* fsnotify has something to say
    tick,      \* the tick under way: the time it was given, files not yet
               \* scanned, files seen; at = 0 while Run sleeps
    st,        \* Scheduler.state
    runs,      \* every run: of which swarm, how it ended
    inMemory,  \* RunStore.List: runs in memory
    resumed,   \* Breaker.resumed, as the number of runs started before
    saved,     \* the same in the schedule_resumes table: what was answered
    fired,     \* when each swarm last fired, 0 once its state was built anew
    restarts

breakerVars == <<resumed, saved>>
schedVars == <<now, doc, edits, event, tick, st, runs, inMemory, breakerVars, fired, restarts>>

Asleep == [at |-> 0, todo |-> {}, seen |-> {}]

SchedTypeOK ==
    /\ now \in DOMAIN Calendar
    /\ doc \in [Swarms -> Exprs \cup {Gone}]
    /\ edits \in 0..MaxEdits /\ event \in BOOLEAN
    /\ tick \in [at : 0..Len(Calendar), todo : SUBSET Swarms, seen : SUBSET Swarms]
    /\ st \in [Swarms -> [expr : Exprs \cup {Gone}, next : 1..Never]]
    /\ Len(runs) <= MaxRuns
    /\ \A i \in DOMAIN runs :
          runs[i] \in [of : Swarms, end : {"running", "succeeded", "fault", "excused", "lost"}]
    /\ inMemory \in SUBSET DOMAIN runs
    /\ \A f \in {resumed, saved} : f \in [Swarms -> 0..MaxRuns]
    /\ fired \in [Swarms -> 0..Len(Calendar)]
    /\ restarts \in 0..MaxRestarts

SchedInit ==
    /\ now = 1 /\ doc \in [Swarms -> Exprs \cup {Gone}]
    /\ edits = 0 /\ event = TRUE /\ tick = Asleep
    /\ st = [s \in Swarms |-> NoState]
    /\ runs = <<>> /\ inMemory = {}
    /\ resumed = [s \in Swarms |-> 0] /\ saved = resumed
    /\ fired = [s \in Swarms |-> 0]
    /\ restarts = 0

-----------------------------------------------------------------------------
(* The world.                                                              *)

MinutePasses ==
    /\ now < Len(Calendar)
    /\ now' = now + 1
    /\ UNCHANGED <<doc, edits, event, tick, st, runs, inMemory, breakerVars, fired, restarts>>

\* A save is often two events, with no file or half a file in between.
Edit(s) ==
    /\ edits < MaxEdits
    /\ \E d \in (Exprs \cup {Gone}) \ {doc[s]} : doc' = [doc EXCEPT ![s] = d]
    /\ edits' = edits + 1 /\ event' = TRUE
    /\ UNCHANGED <<now, tick, st, runs, inMemory, breakerVars, fired, restarts>>

\* Ended runs beyond the cap leave memory and table, oldest first; runs in
\* progress stay.
KeptRuns(H, over) ==
    LET old == {i \in H : runs'[i].end # "running"}
    IN {i \in H : i \in old => over <= Cardinality({j \in old : j < i})}

\* A run ends: well, by a fault, or stopped or declined by somebody.
EndRun(i) ==
    /\ runs[i].end = "running"
    /\ \E how \in {"succeeded", "fault", "excused"} : runs' = [runs EXCEPT ![i].end = how]
    /\ inMemory' = KeptRuns(inMemory, Cardinality(inMemory) - RunsKept)
    /\ UNCHANGED <<now, doc, edits, event, tick, st, breakerVars, fired, restarts>>

BeginRun(s) ==
    /\ Len(runs) < MaxRuns
    /\ runs' = Append(runs, [of |-> s, end |-> "running"])
    /\ inMemory' = inMemory \cup {Len(runs) + 1}

\* The Run button, a webhook, the CLI.
StartByHand(s) ==
    /\ BeginRun(s)
    /\ UNCHANGED <<now, doc, edits, event, tick, st, breakerVars, fired, restarts>>

-----------------------------------------------------------------------------
(* breaker.go.                                                             *)

EvidenceOfAll(s, n, H) ==
    {i \in H : i > n /\ runs[i].of = s /\ runs[i].end \in {"succeeded", "fault", "excused"}}

\* Runs of s after the n-th that say something about it: ended, neither
\* stopped nor declined.
Evidence(s, n, H) ==
    {i \in H : i > n /\ runs[i].of = s /\ runs[i].end \in {"succeeded", "fault"}}

\* The failures nothing newer interrupts.
Streak(s, n, H) ==
    LET E == Evidence(s, n, H)
    IN {i \in E : \A j \in E : j >= i => runs[j].end # "succeeded"}
Paused(s) == Cardinality(Streak(s, resumed[s], inMemory)) >= MaxFailures

\* Resume: the table first; an error there and nothing has happened.
Resume(s) ==
    /\ \E i \in DOMAIN runs : i > resumed[s] /\ runs[i].of = s   \* or nothing changes
    /\ saved' = [saved EXCEPT ![s] = Len(runs)]
    /\ resumed' = [resumed EXCEPT ![s] = Len(runs)]
    /\ UNCHANGED <<now, doc, edits, event, tick, st, runs, inMemory, fired, restarts>>

\* The daemon comes back: runs in progress are gone, the newest ended ones
\* are read back, and so are the resumes.
Restart ==
    /\ restarts < MaxRestarts
    /\ restarts' = restarts + 1
    /\ runs' = [i \in DOMAIN runs |->
                  IF runs[i].end = "running" THEN [runs[i] EXCEPT !.end = "lost"] ELSE runs[i]]
    /\ inMemory' = {i \in inMemory : runs[i].end # "running"}
    /\ resumed' = saved
    /\ tick' = Asleep /\ event' = TRUE
    /\ st' = [s \in Swarms |-> NoState]
    /\ fired' = [s \in Swarms |-> 0]
    /\ UNCHANGED <<now, doc, edits, saved>>

-----------------------------------------------------------------------------
(* scheduler.go.                                                           *)

Usable(s) == IF doc[s] = Gone THEN FALSE ELSE Parses(doc[s])
Due(s) == now >= st[s].next

\* Run ticks when it starts, for an event and when wait's timer fires.
Wake ==
    /\ tick.at = 0
    /\ event \/ \E s \in Swarms : Due(s)
    /\ tick' = [at |-> now, todo |-> Swarms, seen |-> {}]
    /\ event' = FALSE
    /\ UNCHANGED <<now, doc, edits, st, runs, inMemory, breakerVars, fired, restarts>>

\* What tick makes of the state of s when its expression is d: due now if
\* this minute matches.
Rebuilt(d, t) == [expr |-> d, next |-> IF t \in Minutes[d] THEN t ELSE NextFire(d, t)]
Refreshed(s, d) == IF st[s].expr = d THEN st[s] ELSE Rebuilt(d, tick.at)

Scan(s) ==
    /\ tick' = [tick EXCEPT !.todo = @ \ {s},
                            !.seen = IF doc[s] = Gone THEN @ ELSE @ \cup {s}]
    /\ UNCHANGED <<now, doc, edits, event, breakerVars, restarts>>

\* A file that is gone, or whose expression does not parse, is passed over;
\* of the latter the old state stays.
PassOver(s) ==
    /\ ~Usable(s)
    /\ UNCHANGED <<st, runs, inMemory, fired>>

\* Not due; or due and paused, when the clock moves on all the same; or due.
\* ExecuteSwarm may fail to start a run.
Settle(s, next) ==
    LET q == Refreshed(s, doc[s])
    IN /\ st' = [st EXCEPT ![s] = [q EXCEPT !.next = next]]
       /\ fired' = [fired EXCEPT ![s] = IF q = st[s] THEN @ ELSE 0]
       /\ UNCHANGED <<runs, inMemory>>
NotDue(s) ==
    /\ tick.at < Refreshed(s, doc[s]).next
    /\ Settle(s, Refreshed(s, doc[s]).next)
SkipPausedStays(s) ==
    /\ tick.at >= Refreshed(s, doc[s]).next /\ Paused(s)
    /\ Settle(s, Refreshed(s, doc[s]).next)
SkipPaused(s) ==
    /\ tick.at >= Refreshed(s, doc[s]).next /\ Paused(s)
    /\ Settle(s, NextFire(doc[s], tick.at))
FailToStart(s) ==
    /\ tick.at >= Refreshed(s, doc[s]).next /\ ~Paused(s)
    /\ Settle(s, NextFire(doc[s], tick.at))
FireSwarm(s) ==
    /\ tick.at >= Refreshed(s, doc[s]).next /\ ~Paused(s)
    /\ BeginRun(s)
    /\ st' = [st EXCEPT ![s] = [expr |-> doc[s], next |-> NextFire(doc[s], tick.at)]]
    /\ fired' = [fired EXCEPT ![s] = tick.at]

TickSwarm(s) ==
    /\ s \in tick.todo
    /\ Scan(s)
    /\ \/ PassOver(s)
       \/ /\ Usable(s)
          /\ NotDue(s) \/ SkipPaused(s) \/ FailToStart(s) \/ FireSwarm(s)

\* What was not seen is forgotten.
EndTick ==
    /\ tick.at # 0 /\ tick.todo = {}
    /\ st' = [s \in Swarms |-> IF s \in tick.seen THEN st[s] ELSE NoState]
    /\ fired' = [s \in Swarms |-> IF s \in tick.seen THEN fired[s] ELSE 0]
    /\ tick' = Asleep
    /\ UNCHANGED <<now, doc, edits, event, runs, inMemory, breakerVars, restarts>>

Loop == Wake \/ (\E s \in Swarms : TickSwarm(s)) \/ EndTick

SchedNext ==
    \/ MinutePasses \/ Restart \/ Loop
    \/ \E s \in Swarms : Edit(s) \/ Resume(s) \/ StartByHand(s)
    \/ \E i \in DOMAIN runs : EndRun(i)

-----------------------------------------------------------------------------
(* Properties.                                                             *)

FiresNow(s) == Len(runs') > Len(runs) /\ s \in tick.todo /\ s \notin tick'.todo

\* A swarm fires once for a minute, whatever wakes the scheduler within it,
\* unless its state was built anew: the file was edited or unreadable for a
\* moment, or the daemon restarted.
NotTwiceAMinute ==
    [][\A s \in Swarms :
          FiresNow(s) /\ st[s].expr = doc[s] => tick.at > fired[s]]_schedVars

\* Once the newest MaxFailures runs that count have failed, restarts or not,
\* the schedule does not fire until somebody resumes it: unless the failures
\* have been pushed out of the history by runs of other swarms.
PauseHolds ==
    \A s \in Swarms :
        FiresNow(s) => LET all == Streak(s, saved[s], DOMAIN runs)
                       IN Cardinality(all) < MaxFailures \/ ~(all \subseteq inMemory)

\* A pause has MaxFailures faults behind it in runs started since the last
\* Resume that was answered: what a restart brings back, and a run that was
\* under way when Resume was pressed, a stopped or a declined one, do not count.
ResumeStartsAfresh ==
    \A s \in Swarms :
        Paused(s) => MaxFailures <=
            Cardinality({i \in DOMAIN runs :
                            i > saved[s] /\ runs[i].of = s /\ runs[i].end = "fault"})

\* The breaker pauses when it should, and only then (breaker.go Check, Resume).
PauseAsMeant == [][PauseHolds /\ ResumeStartsAfresh']_schedVars

\* What is due is dealt with, fired or skipped, and the clock moves on; as
\* long as its file can be read and parsed.
DueIsServed ==
    \A s \in Swarms :
        (Due(s) /\ Usable(s)) ~> (~Due(s) \/ ~Usable(s))

\* scheduler.go: "the process otherwise sleeps until the earliest known cron
\* fire time instead of waking up every 20 seconds to find nothing due". A
\* tick leaves nothing due that was due when it began.
TickLeavesNothingDue ==
    [][tick.at # 0 /\ tick'.at = 0 /\ restarts' = restarts
          => \A s \in Swarms : st'[s].next > tick.at]_schedVars
=============================================================================
