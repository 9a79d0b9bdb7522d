-------------------------- MODULE SchedulerProofs ---------------------------
(***************************************************************************)
(* What holds of Scheduler for every set of swarms and expressions, every  *)
(* calendar, and any bound on runs, edits and restarts.                    *)
(***************************************************************************)
EXTENDS Scheduler, FiniteSetTheorems, NaturalsInduction, SequenceTheorems, TLAPS

SchedSpec == SchedInit /\ [][SchedNext]_schedVars

RunRecord == [of : Swarms, end : {"running", "succeeded", "fault", "excused", "lost"}]
State == [expr : Exprs \cup {Gone}, next : 1..Never]
Tick == [at : 0..Len(Calendar), todo : SUBSET Swarms, seen : SUBSET Swarms]

\* What a scan relies on: a swarm that has fired is next due later than that,
\* and swarms are scanned only while a tick is under way.
FiredBefore ==
    /\ \A s \in Swarms : fired[s] < st[s].next
    /\ tick.todo # {} => tick.at > 0

\* What the breaker relies on: the Resume it remembers is the one answered.
SchedInv ==
    /\ SchedTypeOK /\ runs \in Seq(RunRecord)
    /\ resumed = saved
    /\ FiredBefore

-----------------------------------------------------------------------------
\* The calendar has a last minute; Never comes after it.
LEMMA Times ==
  /\ Len(Calendar) \in Nat \ {0} /\ DOMAIN Calendar = 1..Len(Calendar)
  /\ Never \in Nat /\ \A t \in 0..Len(Calendar) : t < Never /\ Never \in 1..Never
<1>1. Calendar \in Seq([{"minute", "hour", "dom", "month", "dow"} -> Nat]) /\ Calendar # <<>>
      BY SchedulerAssumption
<1>2. Len(Calendar) \in Nat /\ DOMAIN Calendar = 1..Len(Calendar) /\ Len(Calendar) # 0
      BY <1>1, LenProperties, EmptySeq
<1> QED  BY <1>2 DEF Never

\* A set of numbers that is not empty has a smallest.
LEMMA Earliest ==
  ASSUME NEW S, S \subseteq Nat, S # {}
  PROVE  \E m \in S : \A k \in S : m <= k
<1>1. PICK m \in S : \A k \in S : ~ (<<k, m>> \in OpToRel(<, Nat))
      BY NatLessThanWellFounded, WFMin
<1>2. ASSUME NEW k \in S PROVE ~(k < m)
      BY <1>1 DEF OpToRel
<1> QED  BY <1>2

\* Schedule.Next is later than the minute it is asked about.
LEMMA NextIsLater ==
  ASSUME NEW e, NEW t \in 0..Len(Calendar)
  PROVE  NextFire(e, t) \in 1..Never /\ NextFire(e, t) > t
<1> DEFINE later == {u \in DOMAIN Calendar : u > t /\ u \in Minutes[e]}
<1> HIDE DEF later
<1>0. NextFire(e, t) = IF later = {} THEN Never ELSE CHOOSE u \in later : \A v \in later : u <= v
      BY DEF NextFire, later
<1>1. later \subseteq Nat /\ \A u \in later : u > t /\ u \in 1..Never
      BY Times DEF later, Never
<1>2. CASE later = {}
      BY <1>0, <1>2, Times
<1>3. CASE later # {}
      BY <1>0, <1>1, <1>3, Earliest
<1> QED  BY <1>2, <1>3

\* A state built anew is due at a minute of the calendar or never.
LEMMA RebuiltIsState ==
  ASSUME SchedTypeOK, NEW s \in Swarms, NEW t \in 1..Len(Calendar)
  PROVE  Rebuilt(doc[s], t) \in State
<1>1. doc[s] \in Exprs \cup {Gone}  BY DEF SchedTypeOK
<1>2. NextFire(doc[s], t) \in 1..Never /\ t \in 1..Never  BY NextIsLater, Times DEF Never
<1> QED  BY <1>1, <1>2 DEF Rebuilt, State

\* The invariant holds when the daemon first comes up.
LEMMA SchedInvInit == SchedInit => SchedInv
<1> SUFFICES ASSUME SchedInit PROVE SchedInv
    OBVIOUS
<1> USE DEF SchedInit
<1>1. NoState \in State  BY Times DEF NoState, State
<1>2. SchedTypeOK
  <2>1. tick \in Tick /\ tick.todo = {}  BY Times DEF Asleep, Tick
  <2>2. st \in [Swarms -> State]  BY <1>1
  <2>3. now \in DOMAIN Calendar  BY Times
  <2>4. resumed \in [Swarms -> 0..MaxRuns] /\ saved \in [Swarms -> 0..MaxRuns]
        /\ edits \in 0..MaxEdits /\ restarts \in 0..MaxRestarts
        BY SchedulerAssumption
  <2>5. Len(runs) = 0 /\ DOMAIN runs = {}  BY EmptySeq
  <2>6. fired \in [Swarms -> 0..Len(Calendar)]  BY Times
  <2> HIDE DEF State
  <2> QED  BY <2>1, <2>2, <2>3, <2>4, <2>5, <2>6, SchedulerAssumption DEF SchedTypeOK, State, Tick
<1>3. runs \in Seq(RunRecord)  BY EmptySeq
<1>4. FiredBefore
  <2>1. \A s \in Swarms : fired[s] = 0 /\ st[s].next = Never  BY DEF NoState
  <2>2. tick.todo = {}  BY DEF Asleep
  <2> QED  BY <2>1, <2>2, Times DEF FiredBefore
<1> QED  BY <1>2, <1>3, <1>4 DEF SchedInv

-----------------------------------------------------------------------------
RunsOK == runs \in Seq(RunRecord) /\ Len(runs) <= MaxRuns /\ inMemory \subseteq DOMAIN runs

\* Runs begin, end and are lost, and their history keeps its type.
LEMMA RunsKeepType ==
  ASSUME SchedInv, SchedNext
  PROVE  RunsOK'
<1>0. /\ runs \in Seq(RunRecord) /\ Len(runs) \in Nat /\ DOMAIN runs = 1..Len(runs)
      /\ Len(runs) <= MaxRuns /\ inMemory \subseteq DOMAIN runs /\ MaxRuns \in Nat
      /\ \A i \in DOMAIN runs : runs[i] \in RunRecord
  <2>1. runs \in Seq(RunRecord)  BY DEF SchedInv
  <2>2. Len(runs) \in Nat /\ DOMAIN runs = 1..Len(runs) /\ \A i \in 1..Len(runs) : runs[i] \in RunRecord
        BY <2>1, LenProperties, ElementOfSeq
  <2> QED  BY <2>1, <2>2, SchedulerAssumption DEF SchedInv, SchedTypeOK
<1>1. ASSUME NEW s \in Swarms, BeginRun(s) PROVE RunsOK'
  <2>1. [of |-> s, end |-> "running"] \in RunRecord  BY DEF RunRecord
  <2>2. /\ runs' = Append(runs, [of |-> s, end |-> "running"]) /\ Len(runs) < MaxRuns
        /\ inMemory' = inMemory \cup {Len(runs) + 1}
        BY <1>1 DEF BeginRun
  <2> HIDE DEF RunRecord
  <2>3. runs' \in Seq(RunRecord) /\ Len(runs') = Len(runs) + 1 /\ DOMAIN runs' = 1..(Len(runs) + 1)
        BY <1>0, <2>1, <2>2, AppendProperties
  <2> QED  BY <1>0, <2>2, <2>3 DEF RunsOK
<1>2. ASSUME NEW R, DOMAIN R = DOMAIN runs, R = [i \in DOMAIN runs |-> R[i]],
             \A i \in DOMAIN runs : R[i] \in RunRecord
      PROVE  R \in Seq(RunRecord) /\ Len(R) = Len(runs)
  <2> HIDE DEF RunRecord
  <2> QED  BY <1>0, <1>2
<1>3. ASSUME NEW i \in DOMAIN runs, EndRun(i) PROVE RunsOK'
  <2>1. PICK how \in {"succeeded", "fault", "excused"} : runs' = [runs EXCEPT ![i].end = how]
        BY <1>3 DEF EndRun
  <2>2. inMemory' \subseteq inMemory  BY <1>3 DEF EndRun, KeptRuns
  <2>3. runs' = [runs EXCEPT ![i] = [runs[i] EXCEPT !.end = how]]  BY <2>1
  <2>4. [runs[i] EXCEPT !.end = how] \in RunRecord  BY <1>0 DEF RunRecord
  <2> HIDE DEF RunRecord
  <2>5. /\ DOMAIN runs' = DOMAIN runs /\ runs' = [k \in DOMAIN runs |-> runs'[k]]
        /\ \A k \in DOMAIN runs : runs'[k] \in RunRecord
        BY <1>0, <2>3, <2>4
  <2>6. runs' \in Seq(RunRecord) /\ Len(runs') = Len(runs)  BY <1>2, <2>5
  <2> QED  BY <1>0, <2>2, <2>5, <2>6 DEF RunsOK
<1>4. ASSUME Restart PROVE RunsOK'
  <2>1. runs' = [i \in DOMAIN runs |->
                  IF runs[i].end = "running" THEN [runs[i] EXCEPT !.end = "lost"] ELSE runs[i]]
        /\ inMemory' \subseteq inMemory
        BY <1>4 DEF Restart
  <2>2. \A i \in DOMAIN runs : [runs[i] EXCEPT !.end = "lost"] \in RunRecord  BY <1>0 DEF RunRecord
  <2> HIDE DEF RunRecord
  <2>3. /\ DOMAIN runs' = DOMAIN runs /\ runs' = [k \in DOMAIN runs |-> runs'[k]]
        /\ \A k \in DOMAIN runs : runs'[k] \in RunRecord
        BY <1>0, <2>1, <2>2
  <2>4. runs' \in Seq(RunRecord) /\ Len(runs') = Len(runs)  BY <1>2, <2>3
  <2> QED  BY <1>0, <2>1, <2>3, <2>4 DEF RunsOK
<1>5. CASE UNCHANGED <<runs, inMemory>>
      BY <1>0, <1>5 DEF RunsOK
<1>6. ASSUME NEW s \in Swarms, TickSwarm(s) PROVE UNCHANGED <<runs, inMemory>> \/ BeginRun(s)
      BY <1>6 DEF TickSwarm, PassOver, NotDue, SkipPaused, FailToStart, Settle, FireSwarm
<1>7. MinutePasses \/ Wake \/ EndTick => UNCHANGED <<runs, inMemory>>
      BY DEF MinutePasses, Wake, EndTick
<1>8. ASSUME NEW s \in Swarms, Edit(s) \/ Resume(s) PROVE UNCHANGED <<runs, inMemory>>
      BY <1>8 DEF Edit, Resume
<1>9. ASSUME NEW s \in Swarms, StartByHand(s) PROVE BeginRun(s)
      BY <1>9 DEF StartByHand
<1> QED  BY <1>1, <1>3, <1>4, <1>5, <1>6, <1>7, <1>8, <1>9 DEF SchedNext, Loop

\* What a tick does about one swarm: its state is left alone, or it is one
\* that is due later than the swarm has fired.
LEMMA TickKeepsState ==
  ASSUME SchedInv, NEW s \in Swarms, TickSwarm(s)
  PROVE  /\ tick.at \in 1..Len(Calendar) /\ tick'.at = tick.at
         /\ tick' \in Tick /\ tick'.todo \subseteq tick.todo
         /\ st' \in [Swarms -> State] /\ fired' \in [Swarms -> 0..Len(Calendar)]
         /\ \A q \in Swarms : fired'[q] < st'[q].next
<1>0. /\ tick \in Tick /\ st \in [Swarms -> State] /\ fired \in [Swarms -> 0..Len(Calendar)]
      /\ \A q \in Swarms : fired[q] < st[q].next
      BY DEF SchedInv, SchedTypeOK, FiredBefore, Tick, State
<1>1. /\ tick' \in Tick /\ tick'.at = tick.at /\ tick'.todo \subseteq tick.todo
      BY <1>0 DEF TickSwarm, Scan, Tick
<1>2. tick.at \in 1..Len(Calendar)
      BY <1>0, Times DEF TickSwarm, SchedInv, FiredBefore, Tick
<1>3. CASE UNCHANGED <<st, fired>>
      BY <1>0, <1>1, <1>2, <1>3
<1>4. CASE Usable(s) /\ ~UNCHANGED <<st, fired>>
  <2> DEFINE q == Refreshed(s, doc[s])
  <2>0. doc[s] \in Exprs \cup {Gone} /\ tick.at \in 0..Len(Calendar)
        BY <1>2, Times DEF SchedInv, SchedTypeOK
  <2>1. q \in State /\ (q = st[s] \/ q = Rebuilt(doc[s], tick.at))
    <3>1. SchedTypeOK  BY DEF SchedInv
    <3> QED  BY <1>0, <1>2, <3>1, RebuiltIsState DEF Refreshed
  <2>2. NextFire(doc[s], tick.at) \in 1..Never /\ NextFire(doc[s], tick.at) > tick.at
        BY <2>0, NextIsLater
  <2>3. CASE \E next \in {q.next, NextFire(doc[s], tick.at)} :
               /\ Settle(s, next)
               /\ next = q.next \/ tick.at >= q.next
    <3>1. PICK next \in {q.next, NextFire(doc[s], tick.at)} :
               /\ Settle(s, next)
               /\ next = q.next \/ tick.at >= q.next
          BY <2>3
    <3> HIDE DEF q
    <3>2. /\ st' = [st EXCEPT ![s] = [q EXCEPT !.next = next]]
          /\ fired' = [fired EXCEPT ![s] = IF q = st[s] THEN fired[s] ELSE 0]
          BY <3>1 DEF Settle, q
    <3>3. next \in 1..Never /\ next >= q.next
      <4>1. q.next \in 1..Never  BY <2>1 DEF State
      <4> QED  BY <1>2, <2>2, <3>1, <4>1, Times
    <3>4. [q EXCEPT !.next = next] \in State /\ [q EXCEPT !.next = next].next = next
          BY <2>1, <3>3 DEF State
    <3>5. st' \in [Swarms -> State] /\ st'[s].next = next /\ \A p \in Swarms : p # s => st'[p] = st[p]
      <4> HIDE DEF State
      <4> QED  BY <1>0, <3>2, <3>4
    <3>6. /\ fired' \in [Swarms -> 0..Len(Calendar)] /\ fired'[s] \in {0, fired[s]}
          /\ fired'[s] = fired[s] => q = st[s] \/ fired[s] = 0
          /\ \A p \in Swarms : p # s => fired'[p] = fired[p]
          BY <1>0, <3>2, Times
    <3>7. fired'[s] < next
      <4>1. fired[s] < st[s].next /\ fired[s] \in Nat /\ next \in Nat /\ next > 0 /\ q.next \in Nat
            BY <1>0, <2>1, <3>3, Times DEF State
      <4> QED  BY <3>3, <3>6, <4>1
    <3> QED  BY <1>0, <1>1, <1>2, <3>5, <3>6, <3>7
  <2>4. CASE FireSwarm(s)
    <3> DEFINE new == [expr |-> doc[s], next |-> NextFire(doc[s], tick.at)]
    <3>1. st' = [st EXCEPT ![s] = new] /\ fired' = [fired EXCEPT ![s] = tick.at]
          BY <2>4 DEF FireSwarm
    <3>2. new \in State /\ new.next > tick.at  BY <2>0, <2>2 DEF State
    <3> HIDE DEF new
    <3>3. /\ st' \in [Swarms -> State] /\ st'[s] = new /\ fired'[s] = tick.at
          /\ \A p \in Swarms : p # s => st'[p] = st[p] /\ fired'[p] = fired[p]
          /\ fired' \in [Swarms -> 0..Len(Calendar)]
      <4> HIDE DEF State
      <4> QED  BY <1>0, <2>0, <3>1, <3>2
    <3> QED  BY <1>0, <1>1, <1>2, <3>2, <3>3
  <2> QED  BY <1>4, <2>3, <2>4 DEF TickSwarm, PassOver, NotDue, SkipPaused, FailToStart
<1> QED  BY <1>3, <1>4 DEF TickSwarm, PassOver

\* Whatever happens, the states and the times keep their types and their order.
LEMMA ClockKeeps ==
  ASSUME SchedInv, SchedNext
  PROVE  /\ tick' \in Tick /\ st' \in [Swarms -> State] /\ fired' \in [Swarms -> 0..Len(Calendar)]
         /\ FiredBefore'
<1>0. /\ tick \in Tick /\ st \in [Swarms -> State] /\ fired \in [Swarms -> 0..Len(Calendar)]
      /\ FiredBefore /\ now \in 1..Len(Calendar)
      BY Times DEF SchedInv, SchedTypeOK, Tick, State
<1> DEFINE Forgotten(s) == st'[s] = NoState /\ fired'[s] = 0
<1>1. NoState \in State /\ NoState.next > 0 /\ Asleep \in Tick /\ Asleep.todo = {} /\ 0 \in 0..Len(Calendar)
      BY Times DEF NoState, State, Asleep, Tick
<1>2. CASE \E s \in Swarms : TickSwarm(s)
  <2>1. PICK s \in Swarms : TickSwarm(s)  BY <1>2
  <2> QED  BY <2>1, TickKeepsState DEF FiredBefore
<1>3. CASE Wake
  <2>1. UNCHANGED <<st, fired>> /\ tick' = [at |-> now, todo |-> Swarms, seen |-> {}]
        BY <1>3 DEF Wake
  <2> QED  BY <1>0, <2>1 DEF FiredBefore, Tick
<1>4. CASE EndTick \/ Restart
  <2>1. /\ tick' = Asleep /\ st' = [s \in Swarms |-> st'[s]] /\ fired' = [s \in Swarms |-> fired'[s]]
        /\ \A s \in Swarms : Forgotten(s) \/ (st'[s] = st[s] /\ fired'[s] = fired[s])
        BY <1>4 DEF EndTick, Restart
  <2> HIDE DEF State, NoState, Asleep, Tick
  <2>2. /\ \A s \in Swarms : st'[s] \in State /\ fired'[s] \in 0..Len(Calendar) /\ fired'[s] < st'[s].next
        BY <1>0, <1>1, <2>1 DEF FiredBefore
  <2> QED  BY <1>1, <2>1, <2>2 DEF FiredBefore
<1>5. CASE UNCHANGED <<tick, st, fired>>
      BY <1>0, <1>5 DEF FiredBefore
<1>6. MinutePasses \/ (\E s \in Swarms : Edit(s) \/ Resume(s) \/ StartByHand(s))
      \/ (\E i \in DOMAIN runs : EndRun(i)) => UNCHANGED <<tick, st, fired>>
      BY DEF MinutePasses, Edit, Resume, StartByHand, EndRun
<1> QED  BY <1>2, <1>3, <1>4, <1>5, <1>6 DEF SchedNext, Loop

\* Resume is remembered in both places, and a restart reads back what was
\* answered.
LEMMA ResumesKeep ==
  ASSUME SchedInv, SchedNext
  PROVE  resumed' = saved' /\ saved' \in [Swarms -> 0..MaxRuns]
<1>0. resumed = saved /\ saved \in [Swarms -> 0..MaxRuns] /\ Len(runs) \in 0..MaxRuns
  <2>1. Len(runs) \in Nat  BY LenProperties DEF SchedInv
  <2> QED  BY <2>1, SchedulerAssumption DEF SchedInv, SchedTypeOK
<1>1. CASE \E s \in Swarms : Resume(s)
      BY <1>0, <1>1 DEF Resume
<1>2. CASE Restart
      BY <1>0, <1>2 DEF Restart
<1>3. CASE UNCHANGED breakerVars
      BY <1>0, <1>3 DEF breakerVars
<1>4. MinutePasses \/ Wake \/ EndTick \/ (\E s \in Swarms : TickSwarm(s))
      \/ (\E s \in Swarms : Edit(s) \/ StartByHand(s)) \/ (\E i \in DOMAIN runs : EndRun(i))
      => UNCHANGED breakerVars
      BY DEF MinutePasses, Wake, EndTick, TickSwarm, Scan, Edit, StartByHand, EndRun
<1> QED  BY <1>1, <1>2, <1>3, <1>4 DEF SchedNext, Loop

\* The rest of the types: the minute, the files and the bounds.
LEMMA WorldKeeps ==
  ASSUME SchedInv, SchedNext
  PROVE  /\ now' \in DOMAIN Calendar /\ doc' \in [Swarms -> Exprs \cup {Gone}]
         /\ edits' \in 0..MaxEdits /\ event' \in BOOLEAN /\ restarts' \in 0..MaxRestarts
<1>0. /\ now \in DOMAIN Calendar /\ doc \in [Swarms -> Exprs \cup {Gone}]
      /\ edits \in 0..MaxEdits /\ event \in BOOLEAN /\ restarts \in 0..MaxRestarts
      BY DEF SchedInv, SchedTypeOK
<1>1. CASE MinutePasses
      BY <1>0, <1>1, Times DEF MinutePasses
<1>2. ASSUME NEW s \in Swarms, Edit(s)
      PROVE  /\ UNCHANGED <<now, restarts>> /\ doc' \in [Swarms -> Exprs \cup {Gone}]
             /\ edits' \in 0..MaxEdits /\ event' \in BOOLEAN
      BY <1>0, <1>2, SchedulerAssumption DEF Edit
<1>3. CASE Restart
  <2>1. /\ UNCHANGED <<now, doc, edits>> /\ event' = TRUE
        /\ restarts < MaxRestarts /\ restarts' = restarts + 1
        BY <1>3 DEF Restart
  <2>2. restarts' \in 0..MaxRestarts  BY <1>0, <2>1, SchedulerAssumption
  <2> QED  BY <1>0, <2>1, <2>2
<1>4. CASE UNCHANGED <<now, doc, edits, restarts>> /\ event' \in {event, FALSE}
      BY <1>0, <1>4
<1>5. Wake \/ EndTick \/ (\E s \in Swarms : TickSwarm(s))
      \/ (\E s \in Swarms : Resume(s) \/ StartByHand(s)) \/ (\E i \in DOMAIN runs : EndRun(i))
      => UNCHANGED <<now, doc, edits, restarts>> /\ event' \in {event, FALSE}
      BY DEF Wake, EndTick, TickSwarm, Scan, Resume, StartByHand, EndRun
<1> QED  BY <1>0, <1>1, <1>2, <1>3, <1>4, <1>5 DEF SchedNext, Loop

\* Every step keeps the invariant.
LEMMA SchedInvStep == SchedInv /\ [SchedNext]_schedVars => SchedInv'
<1> SUFFICES ASSUME SchedInv, [SchedNext]_schedVars PROVE SchedInv'
    OBVIOUS
<1>1. CASE SchedNext
  <2>1. SchedTypeOK'
    <3>1. \A i \in DOMAIN runs' : runs'[i] \in RunRecord
          BY <1>1, RunsKeepType, ElementOfSeq, LenProperties DEF RunsOK
    <3> QED  BY <1>1, <3>1, RunsKeepType, ClockKeeps, ResumesKeep, WorldKeeps
             DEF SchedTypeOK, RunsOK, RunRecord, Tick, State
  <2> QED  BY <1>1, <2>1, RunsKeepType, ClockKeeps, ResumesKeep DEF SchedInv, RunsOK
<1>2. CASE UNCHANGED schedVars
  <2> USE <1>2 DEF schedVars, breakerVars
  <2>1. SchedTypeOK'  BY DEF SchedInv, SchedTypeOK
  <2>2. FiredBefore' /\ resumed' = saved' /\ runs' \in Seq(RunRecord)
        BY DEF SchedInv, FiredBefore
  <2> QED  BY <2>1, <2>2 DEF SchedInv
<1> QED  BY <1>1, <1>2

\* The inductive invariant of the scheduler and the breaker.
THEOREM SchedInvariant == SchedSpec => []SchedInv
<1> QED  BY SchedInvInit, SchedInvStep, PTL DEF SchedSpec

\* Every variable of the scheduler stays in its type.
THEOREM SchedTypes == SchedSpec => []SchedTypeOK
<1>1. SchedInv => SchedTypeOK  BY DEF SchedInv
<1> QED  BY <1>1, SchedInvariant, PTL

-----------------------------------------------------------------------------
\* A run that begins as a swarm is scanned is the scheduler's: the swarm is
\* due, and not paused.
LEMMA FiringIsDue ==
  ASSUME SchedInv, SchedNext, NEW s \in Swarms, FiresNow(s)
  PROVE  Usable(s) /\ FireSwarm(s)
<1>0. Len(runs) \in Nat  BY LenProperties DEF SchedInv
<1>1. tick' # tick /\ runs' # runs  BY <1>0 DEF FiresNow
<1>2. ~Restart
  <2> SUFFICES ASSUME Restart PROVE FALSE
      OBVIOUS
  <2>1. DOMAIN runs' = DOMAIN runs  BY DEF Restart
  <2>2. RunsOK'  BY RunsKeepType
  <2>3. Len(runs') = Len(runs)
        BY <2>1, <2>2, LenProperties DEF RunsOK, SchedInv
  <2> QED  BY <1>0, <2>3 DEF FiresNow
<1>3. PICK q \in Swarms : TickSwarm(q)
      BY <1>1, <1>2 DEF SchedNext, Loop, MinutePasses, Wake, EndTick, Edit, Resume, StartByHand, EndRun
<1>4. q = s
  <2>1. tick \in Tick  BY DEF SchedInv, SchedTypeOK, Tick
  <2>2. tick'.todo = tick.todo \ {q}  BY <1>3, <2>1 DEF TickSwarm, Scan, Tick
  <2> QED  BY <2>2 DEF FiresNow
<1> QED  BY <1>1, <1>3, <1>4 DEF TickSwarm, PassOver, NotDue, SkipPaused, FailToStart, Settle

\* A swarm fires once for a minute, for any calendar and however often the
\* scheduler is woken within it.
THEOREM FiresOnce == SchedSpec => NotTwiceAMinute
<1>1. SchedInv /\ [SchedNext]_schedVars
      => [\A s \in Swarms : FiresNow(s) /\ st[s].expr = doc[s] => tick.at > fired[s]]_schedVars
  <2> SUFFICES ASSUME SchedInv, SchedNext, NEW s \in Swarms, FiresNow(s), st[s].expr = doc[s]
               PROVE  tick.at > fired[s]
      OBVIOUS
  <2>1. tick.at >= st[s].next  BY FiringIsDue DEF FireSwarm, Refreshed
  <2>2. fired[s] < st[s].next /\ fired[s] \in Nat /\ st[s].next \in Nat /\ tick.at \in Nat
        BY Times DEF SchedInv, FiredBefore, SchedTypeOK
  <2> QED  BY <2>1, <2>2
<1> QED  BY <1>1, SchedInvariant, PTL DEF SchedSpec, NotTwiceAMinute

\* A run of failures that is all in memory is what the breaker counts.
LEMMA StreakInMemory ==
  ASSUME SchedInv, NEW s \in Swarms, NEW n \in Nat
  PROVE  /\ IsFiniteSet(DOMAIN runs) /\ DOMAIN runs \subseteq Nat
         /\ IsFiniteSet(Streak(s, n, inMemory)) /\ IsFiniteSet(Streak(s, n, DOMAIN runs))
         /\ Streak(s, n, DOMAIN runs) \subseteq inMemory
              => Streak(s, n, DOMAIN runs) \subseteq Streak(s, n, inMemory)
         /\ Streak(s, n, inMemory)
              \subseteq {i \in DOMAIN runs : i > n /\ runs[i].of = s /\ runs[i].end = "fault"}
<1>1. DOMAIN runs = 1..Len(runs) /\ Len(runs) \in Nat /\ inMemory \subseteq DOMAIN runs
      BY LenProperties DEF SchedInv, SchedTypeOK
<1>2. IsFiniteSet(DOMAIN runs) /\ DOMAIN runs \subseteq Nat  BY <1>1, FS_Interval
<1>3. Streak(s, n, inMemory) \subseteq DOMAIN runs /\ Streak(s, n, DOMAIN runs) \subseteq DOMAIN runs
      BY <1>1 DEF Streak, Evidence
<1>4. IsFiniteSet(Streak(s, n, inMemory)) /\ IsFiniteSet(Streak(s, n, DOMAIN runs))
      BY <1>2, <1>3, FS_Subset
<1>5. Streak(s, n, DOMAIN runs) \subseteq inMemory
        => Streak(s, n, DOMAIN runs) \subseteq Streak(s, n, inMemory)
      BY <1>1 DEF Streak, Evidence
<1>6. ASSUME NEW i \in Streak(s, n, inMemory)
      PROVE  i \in DOMAIN runs /\ i > n /\ runs[i].of = s /\ runs[i].end = "fault"
  <2>1. i \in inMemory /\ i \in DOMAIN runs /\ i >= i  BY <1>1, <1>2 DEF Streak, Evidence
  <2> QED  BY <2>1 DEF Streak, Evidence
<1> QED  BY <1>2, <1>4, <1>5, <1>6

\* The breaker stops a schedule after MaxFailures failures whose runs are
\* still in the history, and holds it only for faults since the last Resume,
\* through any number of restarts.
THEOREM BreakerHolds == SchedSpec => PauseAsMeant
<1>1. ASSUME SchedInv PROVE ResumeStartsAfresh
  <2> SUFFICES ASSUME NEW s \in Swarms, Paused(s)
               PROVE  MaxFailures <= Cardinality({i \in DOMAIN runs :
                            i > saved[s] /\ runs[i].of = s /\ runs[i].end = "fault"})
      BY DEF ResumeStartsAfresh
  <2> DEFINE faults == {i \in DOMAIN runs : i > saved[s] /\ runs[i].of = s /\ runs[i].end = "fault"}
             streak == Streak(s, saved[s], inMemory)
  <2>1. saved[s] \in Nat /\ resumed[s] = saved[s]
        BY <1>1 DEF SchedInv, SchedTypeOK
  <2>2. IsFiniteSet(faults) /\ streak \subseteq faults
    <3>1. IsFiniteSet(DOMAIN runs) /\ streak \subseteq faults  BY <1>1, <2>1, StreakInMemory
    <3>2. faults \subseteq DOMAIN runs  OBVIOUS
    <3> QED  BY <3>1, <3>2, FS_Subset
  <2>3. Cardinality(streak) <= Cardinality(faults)  BY <2>2, FS_Subset
  <2>4. Cardinality(streak) \in Nat /\ Cardinality(faults) \in Nat
        BY <2>2, FS_Subset, FS_CardinalityType
  <2>5. Cardinality(streak) >= MaxFailures  BY <2>1 DEF Paused
  <2> QED  BY <2>3, <2>4, <2>5, SchedulerAssumption
<1>2. ASSUME SchedInv, SchedNext PROVE PauseHolds
  <2> SUFFICES ASSUME NEW s \in Swarms, FiresNow(s), Streak(s, saved[s], DOMAIN runs) \subseteq inMemory
               PROVE  Cardinality(Streak(s, saved[s], DOMAIN runs)) < MaxFailures
      BY DEF PauseHolds
  <2> DEFINE all == Streak(s, saved[s], DOMAIN runs)
             streak == Streak(s, saved[s], inMemory)
  <2>1. saved[s] \in Nat /\ resumed[s] = saved[s]
        BY <1>2 DEF SchedInv, SchedTypeOK
  <2>2. ~(Cardinality(streak) >= MaxFailures)
        BY <1>2, <2>1, FiringIsDue DEF FireSwarm, Paused
  <2>3. IsFiniteSet(streak) /\ all \subseteq streak
        BY <1>2, <2>1, StreakInMemory
  <2>4. Cardinality(all) <= Cardinality(streak)  BY <2>3, FS_Subset
  <2>5. Cardinality(streak) \in Nat /\ Cardinality(all) \in Nat
        BY <2>3, FS_Subset, FS_CardinalityType
  <2> QED  BY <2>2, <2>4, <2>5, SchedulerAssumption
<1>3. SchedInv /\ SchedInv' /\ [SchedNext]_schedVars => [PauseHolds /\ ResumeStartsAfresh']_schedVars
  <2>1. SchedInv => ResumeStartsAfresh  BY <1>1
  <2>2. SchedInv' => ResumeStartsAfresh'  BY <2>1, PTL
  <2> QED  BY <1>2, <2>2
<1> QED  BY <1>3, SchedInvariant, PTL DEF SchedSpec, PauseAsMeant
=============================================================================
