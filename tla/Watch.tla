------------------------------- MODULE Watch -------------------------------
(***************************************************************************)
(* A watch bot under a schedule: step.Interpret runs its steps in order,   *)
(* memory.get and memory.put among them, and a run is tried again when an  *)
(* attempt fails. The program is that of bots/drive-watch; the memory is   *)
(* the shared store's one value under <bot name>/last_file_id.             *)
(*                                                                         *)
(* Swarms each watch a folder of their own with the same bot, as           *)
(* meeting-to-action and repurpose-everything do. Which other bots run, and *)
(* when a swarm is fired, is left open.                                    *)
(***************************************************************************)
EXTENDS Integers, FiniteSets, Sequences

CONSTANTS
    Watchers,  \* swarms that use the bot
    Program,   \* its steps
    Arrivals,  \* bound: files per folder
    Retried,   \* the bot's retry: count
    Polls      \* bound: runs

ASSUME WatchAssumption ==
    /\ Arrivals \in Nat \ {0} /\ Retried \in Nat /\ Polls \in Nat /\ Program \in Seq(STRING)
    /\ "none" \notin Watchers

\* bots/drive-watch/nanobot.yaml.
DriveWatch == <<"list", "get", "stop", "put", "pick", "fetch">>

VARIABLES
    landed,    \* landed[w]: how many files w's folder holds; the newest is <<w, landed[w]>>
    mark,      \* the remembered id, Nothing at first
    poll,      \* poll[r]: run r
    handed,    \* handed[f]: how many runs handed file f on
    upset      \* history: upset[w]: what disturbed w's remembering

watchVars == <<landed, mark, poll, handed, upset>>

Nothing == <<"none", 0>>
Ids == Watchers \X (0..Arrivals)
Unfired == [of |-> "none", pc |-> 0, left |-> 0, listed |-> Nothing, seen |-> Nothing]
Polling(r) == poll[r].pc > 0
IsAt(r, step) == Polling(r) /\ poll[r].pc <= Len(Program) /\ Program[poll[r].pc] = step

WatchInit ==
    /\ landed = [w \in Watchers |-> 1] /\ mark = Nothing
    /\ poll = [r \in 1..Polls |-> Unfired]
    /\ handed = [f \in Ids |-> 0] /\ upset = [w \in Watchers |-> {}]

WatchTypeOK ==
    /\ landed \in [Watchers -> 1..Arrivals] /\ mark \in Ids \cup {Nothing}
    /\ \A r \in 1..Polls : /\ poll[r].of \in Watchers \cup {"none"} /\ poll[r].pc \in (-1)..(Len(Program) + 1)
                           /\ poll[r].listed # Nothing => poll[r].listed[1] = poll[r].of
    /\ handed \in [Ids -> 0..Polls] /\ upset \in [Watchers -> SUBSET {"memory", "overlap", "shared"}]

Upset(ws, why) == upset' = [w \in Watchers |-> IF w \in ws THEN upset[w] \cup {why} ELSE upset[w]]

Land(w) ==
    /\ landed[w] < Arrivals
    /\ landed' = [landed EXCEPT ![w] = @ + 1]
    /\ UNCHANGED <<mark, poll, handed, upset>>

\* The scheduler starts a run whether or not the one before has ended.
Poll(r, w) ==
    /\ poll[r] = Unfired /\ \A q \in 1..(r - 1) : poll[q] # Unfired
    /\ poll' = [poll EXCEPT ![r] = [Unfired EXCEPT !.of = w, !.pc = 1, !.left = Retried]]
    /\ Upset({v \in {w} : \E q \in 1..Polls : Polling(q) /\ poll[q].of = w}, "overlap")
    /\ UNCHANGED <<landed, mark, handed>>

Advance(r, p) == poll' = [poll EXCEPT ![r] = [p EXCEPT !.pc = @ + 1]]

\* The run is over.
Ended == [Unfired EXCEPT !.pc = -1]
Over(r) == poll' = [poll EXCEPT ![r] = Ended]

\* service.call files.list, newest first, one.
ListNewest(r) ==
    /\ IsAt(r, "list")
    /\ Advance(r, [poll[r] EXCEPT !.listed = <<poll[r].of, landed[poll[r].of]>>])
    /\ UNCHANGED <<landed, mark, handed, upset>>

\* memory.get is best effort: a store that fails reads as nothing remembered.
MemoryGet(r) ==
    /\ IsAt(r, "get")
    /\ \/ Advance(r, [poll[r] EXCEPT !.seen = mark]) /\ UNCHANGED upset
       \/ Advance(r, [poll[r] EXCEPT !.seen = Nothing]) /\ Upset({poll[r].of}, "memory")
    /\ UNCHANGED <<landed, mark, handed>>

StopIfOlder(r) ==
    /\ IsAt(r, "stop")
    /\ IF poll[r].listed[2] < poll[r].seen[2] THEN Over(r) ELSE Advance(r, poll[r])
    /\ UNCHANGED <<landed, mark, handed, upset>>

\* stop.if ends the bot, successfully and without outputs.
StopIf(r) ==
    /\ IsAt(r, "stop")
    /\ IF poll[r].listed = poll[r].seen THEN Over(r) ELSE Advance(r, poll[r])
    /\ UNCHANGED <<landed, mark, handed, upset>>

\* memory.put is best effort as well.
MemoryPut(r) ==
    /\ IsAt(r, "put")
    /\ Advance(r, poll[r])
    /\ \/ mark' = poll[r].listed /\ Upset(Watchers \ {poll[r].of}, "shared")
       \/ UNCHANGED mark /\ Upset({poll[r].of}, "memory")
    /\ UNCHANGED <<landed, handed>>

\* transform.pick, and the download of the file that was listed.
PickOrFetch(r) ==
    /\ \E s \in {"pick", "fetch"} : IsAt(r, s)
    /\ Advance(r, poll[r])
    /\ UNCHANGED <<landed, mark, handed, upset>>

\* Every output port is there: the bot's outputs go to the swarm.
HandOn(r) ==
    /\ poll[r].pc = Len(Program) + 1
    /\ handed' = [handed EXCEPT ![poll[r].listed] = @ + 1]
    /\ Over(r)
    /\ UNCHANGED <<landed, mark, upset>>

\* A call to the provider fails, and the bot with it: tried again from its
\* first step, on what the attempt before has left in memory.
CallFails(r) ==
    /\ IsAt(r, "list") \/ IsAt(r, "fetch")
    /\ IF poll[r].left = 0 THEN Over(r)
       ELSE poll' = [poll EXCEPT ![r] = [Unfired EXCEPT !.of = poll[r].of, !.pc = 1, !.left = poll[r].left - 1]]
    /\ UNCHANGED <<landed, mark, handed, upset>>

\* The daemon dies, and every run with it; memory is in SQLite.
DaemonDies ==
    /\ \E r \in 1..Polls : Polling(r)
    /\ poll' = [r \in 1..Polls |-> IF Polling(r) THEN Ended ELSE poll[r]]
    /\ UNCHANGED <<landed, mark, handed, upset>>

WatchNext ==
    \/ \E w \in Watchers : Land(w) \/ \E r \in 1..Polls : Poll(r, w)
    \/ \E r \in 1..Polls :
          \/ ListNewest(r) \/ MemoryGet(r) \/ StopIf(r) \/ MemoryPut(r) \/ PickOrFetch(r)
          \/ HandOn(r) \/ CallFails(r)
    \/ DaemonDies

-----------------------------------------------------------------------------
(* Properties.                                                             *)

\* A file is handed on once, whatever attempts fail at whatever step, are
\* tried again or die, and whatever lands meanwhile, as long as the swarm's
\* runs do not overlap, the store answers, and no other swarm uses the bot.
HandedOnOnce == \A f \in Ids : f[2] > 0 /\ upset[f[1]] = {} => handed[f] <= 1

\* docs/scheduler.md:65-69 of the two swarms that use drive-watch: "a run with
\* nothing new ends at its `stop.if`". No swarm whose store answers and whose
\* runs do not overlap gets past it with a file it has handed on already.
QuietWhenNothingNew ==
    \A r \in 1..Polls :
        IsAt(r, "put") /\ upset[poll[r].of] \subseteq {"shared"} => handed[poll[r].listed] = 0
=============================================================================
