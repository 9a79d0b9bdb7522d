----------------------------- MODULE RunHistory -----------------------------
(***************************************************************************)
(* RunStore of internal/runner/store.go and the runs table behind it       *)
(* (sqlpersist.go): runs of this process and of those before it, held in   *)
(* memory while they are live, in SQLite once they have ended, and capped  *)
(* in both.                                                                *)
(*                                                                         *)
(* The actors are, per run, the goroutine that executes it and the handler *)
(* that started it and hands it to the store, and the daemon itself, which *)
(* may die at any step and comes up again through NewPersistentRunStore.   *)
(* What a run does between its start and its end is Run's subject.         *)
(***************************************************************************)
EXTENDS Integers, FiniteSets, Sequences

CONSTANTS
    Runs,       \* runs of this machine, past and future
    Legacy,     \* those an older version left behind as JSON files
    Start,      \* Start[r]: when r starts, <<second>> \o digits of its fraction
    Cap,        \* MaxPersistedRuns
    DiskFaults, \* runs whose row the disk may refuse
    Crashes     \* bound: how often the daemon dies

ASSUME RunsAssumption == IsFiniteSet(Runs) /\ Legacy \subseteq Runs /\ DiskFaults \subseteq Runs
ASSUME StartAssumption ==
    /\ Start \in [Runs -> Seq(Nat)]
    /\ \A r, q \in Runs : r # q => Start[r] # Start[q]
ASSUME BoundsAssumption == Cap \in Nat \ {0} /\ Crashes \in Nat

VARIABLES
    boot,    \* how far NewPersistentRunStore has come, "up" once it has
    mem,     \* RunStore.runs
    rows,    \* the runs table
    live,    \* what became of each Run object
    add,     \* the starter of each run: executeSwarm, then RunStore.Add
    hooked,  \* runs with RunStore's callback in onTerminalFns
    cb,      \* how far that callback has come
    fires,   \* how often it was called
    unsaved, \* runs whose row could not be written
    crashes

runVars == <<live, add, hooked, cb, fires, unsaved>>
vars == <<boot, mem, rows, runVars, crashes>>

\* time.Time.Before on the wall clock: s is a proper prefix of t or smaller
\* where they first differ.
Before(s, t) ==
    \E i \in 1..Len(t) :
        /\ i <= Len(s) + 1
        /\ \A j \in 1..(i - 1) : s[j] = t[j]
        /\ i <= Len(s) => s[i] < t[i]

\* started_at as timeString writes it and SQLite compares it: RFC 3339 with
\* the fraction's trailing zeros cut and a Z at the end, which sorts after
\* every digit, and after the point of a fraction.
Text(r) == Append(Start[r], 10)
TextBefore(r, q) == Before(Text(r), Text(q))

Init ==
    /\ boot = "check" /\ mem = {} /\ rows = {} /\ crashes = 0
    /\ live = [r \in Runs |-> IF r \in Legacy THEN "lost" ELSE "none"]
    /\ add = [r \in Runs |-> IF r \in Legacy THEN "end" ELSE "idle"]
    /\ hooked = {} /\ cb = [r \in Runs |-> "no"]
    /\ fires = [r \in Runs |-> 0] /\ unsaved = {}

-----------------------------------------------------------------------------
(* The daemon comes up.                                                    *)

\* migrateJSONHistory imports only into an empty table.
CheckEmpty ==
    /\ boot = "check"
    /\ boot' = IF rows = {} THEN "import" ELSE "load"
    /\ UNCHANGED <<mem, rows, runVars, crashes>>

\* One transaction per file, newest first; the first that fails ends it.
Import ==
    /\ boot = "import"
    /\ IF Legacy \subseteq rows
         THEN boot' = "load" /\ UNCHANGED rows
         ELSE \E r \in Legacy \ rows :
                /\ \A q \in Legacy \ rows : ~Before(Start[r], Start[q])
                /\ \/ rows' = rows \cup {r} /\ UNCHANGED boot
                   \/ r \in DiskFaults /\ boot' = "load" /\ UNCHANGED rows
    /\ UNCHANGED <<mem, runVars, crashes>>

\* The newest Cap rows, as ORDER BY started_at DESC has it.
IsNewest(K) ==
    /\ Cardinality(K) = IF Cardinality(rows) < Cap THEN Cardinality(rows) ELSE Cap
    /\ \A r \in K, q \in rows \ K : TextBefore(q, r)

\* loadSnapshotsSQL and pruneSQL.
Load ==
    /\ boot = "load"
    /\ \E K \in SUBSET rows :
          /\ IsNewest(K)
          /\ mem' = K /\ rows' = K
          /\ live' = [r \in Runs |-> IF r \in K THEN "ended" ELSE live[r]]
    /\ boot' = "up"
    /\ UNCHANGED <<add, hooked, cb, fires, unsaved, crashes>>

CrashKeepsHooks ==
    /\ crashes < Crashes
    /\ crashes' = crashes + 1
    /\ boot' = "check" /\ mem' = {}
    /\ cb' = [r \in Runs |-> "no"]
    /\ live' = [r \in Runs |-> IF live[r] = "none" THEN "none" ELSE "lost"]
    /\ add' = [r \in Runs |-> IF live[r] = "none" THEN "idle" ELSE "end"]
    /\ UNCHANGED <<rows, fires, unsaved, hooked>>

\* Whatever was only in memory is gone; a transaction that has not
\* committed has not happened.
Crash ==
    /\ crashes < Crashes
    /\ crashes' = crashes + 1
    /\ boot' = "check" /\ mem' = {} /\ hooked' = {}
    /\ cb' = [r \in Runs |-> "no"]
    /\ live' = [r \in Runs |-> IF live[r] = "none" THEN "none" ELSE "lost"]
    /\ add' = [r \in Runs |-> IF live[r] = "none" THEN "idle" ELSE "end"]
    /\ UNCHANGED <<rows, fires, unsaved>>

-----------------------------------------------------------------------------
(* A run starts, is added, ends and is recorded.                           *)

\* executeSwarm starts the run's goroutine and only then returns the run.
StartRun(r) ==
    /\ boot = "up" /\ live[r] = "none"
    /\ \A q \in Runs : Before(Start[q], Start[r]) => live[q] # "none"
    /\ live' = [live EXCEPT ![r] = "running"]
    /\ add' = [add EXCEPT ![r] = "insert"]
    /\ UNCHANGED <<boot, mem, rows, hooked, cb, fires, unsaved, crashes>>

Insert(r) ==
    /\ boot = "up" /\ add[r] = "insert"
    /\ mem' = mem \cup {r}
    /\ add' = [add EXCEPT ![r] = "hook"]
    /\ UNCHANGED <<boot, rows, live, hooked, cb, fires, unsaved, crashes>>

Fire(r) == cb' = [cb EXCEPT ![r] = "write"] /\ fires' = [fires EXCEPT ![r] = @ + 1]

\* onTerminal: the run may have ended before anyone asked to be told.
Hook(r) ==
    /\ boot = "up" /\ add[r] = "hook"
    /\ add' = [add EXCEPT ![r] = "end"]
    /\ IF live[r] = "ended"
         THEN Fire(r) /\ UNCHANGED hooked
         ELSE hooked' = hooked \cup {r} /\ UNCHANGED <<cb, fires>>
    /\ UNCHANGED <<boot, mem, rows, live, unsaved, crashes>>

\* SetStatus(terminal) reads the callbacks with the status it sets.
Finish(r) ==
    /\ boot = "up" /\ live[r] = "running"
    /\ live' = [live EXCEPT ![r] = "ended"]
    /\ IF r \in hooked THEN Fire(r) ELSE UNCHANGED <<cb, fires>>
    /\ UNCHANGED <<boot, mem, rows, add, hooked, unsaved, crashes>>

\* writeSnapshotSQL, in one transaction; a failure goes to the run's own log.
WriteRow(r) ==
    /\ boot = "up" /\ cb[r] = "write"
    /\ \/ rows' = rows \cup {r} /\ UNCHANGED unsaved
       \/ r \in DiskFaults /\ unsaved' = unsaved \cup {r} /\ UNCHANGED rows
    /\ cb' = [cb EXCEPT ![r] = "evict"]
    /\ UNCHANGED <<boot, mem, live, add, hooked, fires, crashes>>

EvictableAny == mem
\* Only runs that have ended are candidates.
Evictable == {q \in mem : live[q] = "ended"}

\* evictOldestBeyondCap: the oldest that have ended, whoever they are.
Evict(r) ==
    /\ boot = "up" /\ cb[r] = "evict"
    /\ \E D \in SUBSET Evictable :
          /\ \/ Cardinality(mem) - Cardinality(D) = Cap
             \/ Cardinality(mem) <= Cap /\ D = {}
             \/ Cardinality(mem) - Cardinality(D) > Cap /\ D = Evictable
          /\ \A d \in D, q \in Evictable \ D : Before(Start[d], Start[q])
          /\ mem' = mem \ D
    /\ cb' = [cb EXCEPT ![r] = "done"]
    /\ UNCHANGED <<boot, rows, live, add, hooked, fires, unsaved, crashes>>

Boot == CheckEmpty \/ Import \/ Load
Run(r) == StartRun(r) \/ Insert(r) \/ Hook(r) \/ Finish(r) \/ WriteRow(r) \/ Evict(r)

Settled == boot = "up" /\ \A r \in Runs : live[r] \in {"ended", "lost"} /\ cb[r] \in {"no", "done"}
Rest == Settled /\ UNCHANGED vars

Next == Boot \/ (\E r \in Runs : Run(r)) \/ Crash \/ Rest

Spec == Init /\ [][Next]_vars

-----------------------------------------------------------------------------
\* The type invariant.
TypeOK ==
    /\ boot \in {"check", "import", "load", "up"}
    /\ mem \subseteq Runs /\ rows \subseteq Runs /\ unsaved \subseteq Runs
    /\ live \in [Runs -> {"none", "running", "ended", "lost"}]
    /\ add \in [Runs -> {"idle", "insert", "hook", "end"}]
    /\ hooked \subseteq {r \in Runs : live[r] \in {"running", "ended"}}
    /\ cb \in [Runs -> {"no", "write", "evict", "done"}]
    /\ fires \in [Runs -> Nat] /\ crashes \in 0..Crashes

\* However the end of a run falls between the steps of Add, RunStore is told
\* of it once, and never misses it.
RecordedOnce ==
    \A r \in Runs \ Legacy :
        /\ fires[r] <= 1
        /\ live[r] = "ended" /\ add[r] = "end" => fires[r] = 1

\* A run in progress is never evicted, however old it is and however many
\* newer ones have ended: its gates can be answered and it can be stopped.
InProgressListed ==
    \A r \in Runs : live[r] = "running" /\ add[r] \in {"hook", "end"} => r \in mem

\* Once every end has been dealt with, memory holds Cap runs and those still
\* in progress at most, though rows may have failed to be written.
MemoryBounded ==
    boot = "up" /\ (\A r \in Runs : cb[r] \in {"no", "done"} /\ add[r] # "hook")
        => Cardinality(mem) <= Cap + Cardinality({r \in mem : live[r] = "running"})

\* The store keeps what it must and no more: each end is heard of once, runs
\* in progress stay reachable, and memory stays bounded (store.go Add,
\* evictOldestBeyondCap).
HistorySafety == RecordedOnce /\ InProgressListed /\ MemoryBounded

-----------------------------------------------------------------------------
\* "imports every run it finds, once": when the daemon is up, each of the
\* old runs is in the table, or Cap others are.
LegacyImported ==
    boot = "up" => Legacy \subseteq rows \/ Cardinality(rows) >= Cap
=============================================================================
