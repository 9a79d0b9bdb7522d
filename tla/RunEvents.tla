----------------------------- MODULE RunEvents ------------------------------
(***************************************************************************)
(* The two event streams of internal/api/sse.go and what feeds them in     *)
(* runner/run.go and runner/store.go: the runs list, a snapshot followed   *)
(* by one delta per change, and the log of a run, a replay followed by the *)
(* entries appended since.                                                 *)
(*                                                                         *)
(* A run's row in the list is the number of changes it has seen. Channels  *)
(* hold Buffer values; a sender never waits for a slow client.             *)
(***************************************************************************)
EXTENDS Integers, FiniteSets, Sequences

CONSTANTS
    Listed,   \* runs
    Tails,    \* clients of one run's log
    Buffer,   \* 64 in the code
    Edits,    \* bound: Edits[r] changes of r before its end
    Entries   \* bound: length of the log

ASSUME EventsAssumption ==
    Buffer \in Nat \ {0} /\ Edits \in [Listed -> Nat] /\ Entries \in Nat

Unseen == -1

VARIABLES
    row,     \* each run: changes its summary has seen, whether it has ended
    adding,  \* how far RunStore.Add has come with it
    due,     \* runs that have changed and not yet called notifyChanged
    hushed,  \* those whose last change notifies nobody
    kept,    \* where Get finds it: in memory, in the table
    client,  \* the list's client: where it is, runs its snapshot has still to
             \* read, its channel, the rows it shows
    passed,  \* runs of which the client was not told: its channel was full, or
             \* the run could not be found when its turn came
    log,     \* entries appended to the run that is tailed
    tail     \* clients of its log: where they are, what they show, their
             \* channel, the entries skipped between replay and subscription
             \* and those dropped because the channel was full

listVars == <<row, adding, due, hushed, kept, client, passed>>
tailVars == <<log, tail>>
eventVars == <<listVars, tailVars>>

EventsTypeOK ==
    /\ row \in [Listed -> [seen : Nat, ended : BOOLEAN]]
    /\ adding \in [Listed -> {"no", "mapped", "hooked", "told"}]
    /\ due \in SUBSET Listed /\ hushed \in SUBSET Listed /\ passed \in SUBSET Listed
    /\ kept \in [Listed -> SUBSET {"memory", "table"}]
    /\ client.at \in {"away", "subscribed", "reading", "live"}
    /\ client.toRead \in SUBSET Listed /\ client.shows \in [Listed -> Nat \cup {Unseen}]
    /\ client.chan \in Seq(Listed) /\ Len(client.chan) <= Buffer
    /\ log \in 0..Entries
    /\ \A c \in Tails : Len(tail[c].chan) <= Buffer

EventsInit ==
    /\ row = [r \in Listed |-> [seen |-> 0, ended |-> FALSE]]
    /\ adding = [r \in Listed |-> "no"]
    /\ due = {} /\ hushed = {} /\ passed = {}
    /\ kept = [r \in Listed |-> {}]
    /\ client = [at |-> "away", toRead |-> {}, chan |-> <<>>, shows |-> [r \in Listed |-> Unseen]]
    /\ log = 0
    /\ tail = [c \in Tails |-> [at |-> "away", shows |-> <<>>, chan |-> <<>>, skipped |-> {}]]

-----------------------------------------------------------------------------
(* Runs change and tell.                                                   *)

\* broadcastChanged: a full channel is passed over.
Broadcast(r) ==
    IF client.at = "away" THEN UNCHANGED <<client, passed>>
    ELSE IF Len(client.chan) < Buffer
      THEN client' = [client EXCEPT !.chan = Append(@, r)] /\ UNCHANGED passed
      ELSE passed' = passed \cup {r} /\ UNCHANGED client

\* RunStore.Add: into the map, onChange, tell. The run is already executing,
\* and may be over.
AddToMap(r) ==
    /\ adding[r] = "no"
    /\ adding' = [adding EXCEPT ![r] = "mapped"]
    /\ kept' = [kept EXCEPT ![r] = @ \cup {"memory"}]
    /\ UNCHANGED <<row, due, hushed, client, passed>>
OnChange(r) ==
    /\ adding[r] = "mapped"
    /\ adding' = [adding EXCEPT ![r] = "hooked"]
    /\ UNCHANGED <<row, due, hushed, kept, client, passed>>
AddForgetsToTell(r) ==
    /\ adding[r] = "hooked"
    /\ adding' = [adding EXCEPT ![r] = "told"]
    /\ UNCHANGED <<row, due, hushed, kept, client, passed>>
AddTells(r) ==
    /\ adding[r] = "hooked"
    /\ Broadcast(r)
    /\ adding' = [adding EXCEPT ![r] = "told"]
    /\ UNCHANGED <<row, due, hushed, kept>>

\* SetStatus, SetError, SetNothingToDo, Stop and Decide change the row and
\* then notify; AddTolerated, and a gate that times out, only change it.
Touch(r, ends, tells) ==
    /\ ~row[r].ended
    /\ row[r].seen < Edits[r] \/ ends
    /\ row' = [row EXCEPT ![r].seen = @ + 1, ![r].ended = ends]
    /\ due' = IF tells THEN due \cup {r} ELSE due
    /\ hushed' = IF tells THEN hushed ELSE hushed \cup {r}
    /\ UNCHANGED <<adding, kept, client, passed>>

\* notifyChanged; before Add has registered there is nobody to call.
Notify(r) ==
    /\ r \in due
    /\ due' = due \ {r} /\ hushed' = hushed \ {r}
    /\ IF adding[r] \in {"no", "mapped"} THEN UNCHANGED <<client, passed>> ELSE Broadcast(r)
    /\ UNCHANGED <<row, adding, kept>>

\* The terminal callback Add registers last writes the row of a run that has
\* ended, and any run's callback may evict it.
RowWritten(r) ==
    /\ row[r].ended /\ adding[r] = "told" /\ "table" \notin kept[r]
    /\ kept' = [kept EXCEPT ![r] = @ \cup {"table"}]
    /\ UNCHANGED <<row, adding, due, hushed, client, passed>>
EvictEnded(r) ==
    /\ row[r].ended /\ "memory" \in kept[r]
    /\ kept' = [kept EXCEPT ![r] = @ \ {"memory"}]
    /\ UNCHANGED <<row, adding, due, hushed, client, passed>>

-----------------------------------------------------------------------------
(* handleRunsEvents.                                                       *)

SubscribeChanges ==
    /\ client.at = "away"
    /\ client' = [client EXCEPT !.at = "subscribed"]
    /\ UNCHANGED <<row, adding, due, hushed, kept, passed>>

\* List, then one summary after the other.
ListRuns ==
    /\ client.at = "subscribed"
    /\ client' = [client EXCEPT !.at = "reading",
                                !.toRead = {r \in Listed : "memory" \in kept[r]}]
    /\ UNCHANGED <<row, adding, due, hushed, kept, passed>>
Summarise(r) ==
    /\ client.at = "reading" /\ r \in client.toRead
    /\ client' = [client EXCEPT !.toRead = @ \ {r}, !.shows[r] = row[r].seen]
    /\ UNCHANGED <<row, adding, due, hushed, kept, passed>>
SnapshotSent ==
    /\ client.at = "reading" /\ client.toRead = {}
    /\ client' = [client EXCEPT !.at = "live"]
    /\ UNCHANGED <<row, adding, due, hushed, kept, passed>>

\* One delta: the row as it is now, from wherever Get finds the run.
Delta ==
    /\ client.at = "live" /\ client.chan # <<>>
    /\ LET r == Head(client.chan)
           found == kept[r] # {}
       IN /\ client' = [client EXCEPT !.chan = Tail(@),
                                      !.shows[r] = IF found THEN row[r].seen ELSE @]
          /\ passed' = IF found THEN passed \ {r} ELSE passed \cup {r}
    /\ UNCHANGED <<row, adding, due, hushed, kept>>

ListNext ==
    /\ \/ \E r \in Listed :
             \/ AddToMap(r) \/ OnChange(r) \/ AddTells(r)
             \/ \E ends, tells \in BOOLEAN : (ends => tells) /\ Touch(r, ends, tells)
             \/ Notify(r) \/ RowWritten(r) \/ EvictEnded(r) \/ Summarise(r)
       \/ SubscribeChanges \/ ListRuns \/ SnapshotSent \/ Delta
    /\ UNCHANGED tailVars

-----------------------------------------------------------------------------
(* handleRunEvents and appendEntry.                                        *)

\* LogEntries.
Replay(c) ==
    /\ tail[c].at = "away"
    /\ tail' = [tail EXCEPT ![c].at = "replayed", ![c].shows = [i \in 1..log |-> i]]
    /\ UNCHANGED log

Subscribe(c) ==
    /\ tail[c].at = "replayed"
    /\ tail' = [tail EXCEPT ![c].at = "live",
                            ![c].skipped = (Len(tail[c].shows) + 1)..log]
    /\ UNCHANGED log

\* Every subscriber is offered the entry under the lock it is appended under.
AppendEntry ==
    /\ log < Entries
    /\ log' = log + 1
    /\ tail' = [c \in Tails |->
                  IF tail[c].at # "live" THEN tail[c]
                  ELSE IF Len(tail[c].chan) < Buffer
                    THEN [tail[c] EXCEPT !.chan = Append(@, log')]
                    ELSE [tail[c] EXCEPT !.skipped = @ \cup {log'}]]

Receive(c) ==
    /\ tail[c].at = "live" /\ tail[c].chan # <<>>
    /\ tail' = [tail EXCEPT ![c].shows = Append(@, Head(tail[c].chan)), ![c].chan = Tail(@)]
    /\ UNCHANGED log

\* Unsubscribe.
HangUp(c) ==
    /\ tail[c].at = "live"
    /\ tail' = [tail EXCEPT ![c].at = "gone", ![c].chan = <<>>]
    /\ UNCHANGED log

TailNext ==
    /\ \/ AppendEntry
       \/ \E c \in Tails : Replay(c) \/ Subscribe(c) \/ Receive(c) \/ HangUp(c)
    /\ UNCHANGED listVars

EventsNext == ListNext \/ TailNext

-----------------------------------------------------------------------------
(* Properties.                                                             *)

\* A row the list's client shows is current, or a delta is on its way, or it
\* was passed over: subscribing before the snapshot, and Add telling after it
\* registers, leave no other way to miss a change. A change that notifies
\* nobody shows with the next one, at the latest when the run ends. A run that
\* was evicted before it was ever shown is not in the list.
ListCatchesUp ==
    client.at = "live" =>
        \A r \in Listed :
            \/ client.shows[r] = row[r].seen
            \/ \E i \in 1..Len(client.chan) : client.chan[i] = r
            \/ r \in due \/ adding[r] \in {"no", "mapped", "hooked"}
            \/ r \in hushed /\ ~row[r].ended
            \/ r \in passed
            \/ client.shows[r] = Unseen /\ "memory" \notin kept[r]

\* A tail shows the log's entries in order and none twice, and misses only
\* those appended between its replay and its subscription, or while its
\* channel was full.
TailFaithful ==
    \A c \in Tails :
        tail[c].at = "live" =>
            LET s == tail[c].shows \o tail[c].chan
            IN /\ \A i \in 1..(Len(s) - 1) : s[i] < s[i + 1]
               /\ {s[i] : i \in 1..Len(s)} = (1..log) \ tail[c].skipped

\* Neither of the two event streams a browser follows loses what the code
\* could have told it (sse.go handleRunsEvents, handleRunEvents).
StreamsFaithful == ListCatchesUp /\ TailFaithful
=============================================================================
