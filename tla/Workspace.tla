----------------------------- MODULE Workspace -----------------------------
(***************************************************************************)
(* The directory a bot's containers work in, <run>/<bot> (execute.go:      *)
(* runBotOnce, logTail; docker.go: RunContainer; cmd/nanobot-agent).  The  *)
(* tries of a retry:, the turns of a loop: and the fallback bot use it one *)
(* after another and nothing empties it in between.  The container appends *)
(* to log.jsonl and fills outputs/; the daemon follows the log while the   *)
(* container runs and collects the outputs when it has exited.             *)
(*                                                                         *)
(* A line that is half written counts as not written: the decoder stops    *)
(* before it.  What a line or an output holds is the round it came from.   *)
(***************************************************************************)
EXTENDS Integers, Sequences, FiniteSets

CONSTANTS
    Rounds,      \* bound: attempts that use the directory
    Ports,       \* declared output ports
    Lines,       \* bound: log lines of one container
    KillFaults   \* bound: how often docker kill fails

ASSUME WorkspaceAssumption == Rounds \in Nat \ {0} /\ Lines \in Nat /\ KillFaults \in Nat

Round  == 1..Rounds
NoneYet == 0
Readers == {"follow", "main"}

VARIABLES
    lines,     \* log.jsonl: the round and number of each line
    out,       \* outputs/: the round that wrote each port's file
    marker,    \* the round that wrote .nothing-to-do
    box,       \* what each round's container does
    unsaved,   \* outputs a container still has to write
    tail,      \* consumed and following of each round's logTail
    reading,   \* what drain has read under the tail's mutex, by reader
    runLog,    \* lines on the run's log, with the tail that logged them
    round, stage, result, collected, killFaults

boxVars  == <<lines, out, marker, box, unsaved>>
tailVars == <<tail, reading, runLog>>
hostVars == <<round, stage, result, collected, killFaults>>
workVars == <<boxVars, tailVars, hostVars>>

Results == {"none", "ok", "fail", "exceeded", "stopped", "nothing"}
Alive   == {"running", "saving", "stopping"}
Idle    == [by |-> "nobody", upto |-> 0]

WorkInit ==
    /\ lines = <<>> /\ out = [p \in Ports |-> NoneYet] /\ marker = NoneYet
    /\ box = [r \in Round |-> "off"] /\ unsaved = [r \in Round |-> Ports]
    /\ tail = [r \in Round |-> [consumed |-> 0, following |-> FALSE, closed |-> FALSE]]
    /\ reading = [r \in Round |-> Idle] /\ runLog = <<>>
    /\ round = 1 /\ stage = "prepare" /\ result = "none"
    /\ collected = [p \in Ports |-> NoneYet] /\ killFaults = 0

-----------------------------------------------------------------------------
(* The container: cmd/nanobot-agent.                                       *)

LinesOf(r) == {i \in DOMAIN lines : lines[i][1] = r}
Written(r) == IF LinesOf(r) = {} THEN 0 ELSE lines[CHOOSE i \in LinesOf(r) : \A j \in LinesOf(r) : j <= i][2]

\* logStream.write: a step's line is in the file as soon as it is logged.
StreamLog(r) ==
    /\ box[r] = "running" /\ Written(r) < Lines
    /\ lines' = Append(lines, <<r, Written(r) + 1>>)
    /\ UNCHANGED <<out, marker, box, unsaved, tailVars, hostVars>>

\* Interpret returns: with an error, because a stop.if held, or with a value
\* for every declared port.
InterpretReturns(r) ==
    /\ box[r] = "running"
    /\ \E next \in {"failed", "stopping", "saving"} : box' = [box EXCEPT ![r] = next]
    /\ UNCHANGED <<lines, out, marker, unsaved, tailVars, hostVars>>

\* One WriteOutput: overwrites what an earlier round left, or fails the bot.
WriteOutput(r) ==
    /\ box[r] = "saving"
    /\ \/ \E p \in unsaved[r] :
             /\ out' = [out EXCEPT ![p] = r]
             /\ unsaved' = [unsaved EXCEPT ![r] = @ \ {p}]
             /\ UNCHANGED box
       \/ unsaved[r] # {} /\ box' = [box EXCEPT ![r] = "failed"] /\ UNCHANGED <<out, unsaved>>
    /\ UNCHANGED <<lines, marker, tailVars, hostVars>>

\* The agent leaves the reason where the runner looks for it.
LeaveMarker(r) ==
    /\ box[r] = "stopping" /\ marker # r
    /\ marker' = r
    /\ UNCHANGED <<lines, out, box, unsaved, tailVars, hostVars>>

MayExit(r) == (box[r] = "saving" /\ unsaved[r] = {}) \/ (box[r] = "stopping" /\ marker = r)
ExitZero(r) ==
    /\ MayExit(r)
    /\ box' = [box EXCEPT ![r] = "exited"]
    /\ UNCHANGED <<lines, out, marker, unsaved, tailVars, hostVars>>

Container(r) ==
    StreamLog(r) \/ InterpretReturns(r) \/ WriteOutput(r) \/ LeaveMarker(r) \/ ExitZero(r)

-----------------------------------------------------------------------------
(* The tail.  drain reads the whole file and logs it from consumed on, all *)
(* of it under the tail's mutex; follow drains on every tick until it sees *)
(* that the attempt is over, runBotOnce once when the container is gone.   *)

ReadUnlocked(r, who) == reading' = [reading EXCEPT ![r] = [by |-> who, upto |-> Len(lines)]]
ReadFile(r, who) == reading[r] = Idle /\ ReadUnlocked(r, who)

LogNewAgain(r, who) ==
    /\ reading[r].by = who
    /\ runLog' = runLog \o [i \in 1..reading[r].upto |-> [tail |-> r, line |-> lines[i]]]
    /\ tail' = [tail EXCEPT ![r].consumed = reading[r].upto]
    /\ reading' = [reading EXCEPT ![r] = Idle]
LogNew(r, who) ==
    /\ reading[r].by = who
    /\ runLog' = runLog \o [i \in 1..(reading[r].upto - tail[r].consumed) |->
                               [tail |-> r, line |-> lines[tail[r].consumed + i]]]
    /\ tail' = [tail EXCEPT ![r].consumed = reading[r].upto]
    /\ reading' = [reading EXCEPT ![r] = Idle]

\* Both cases of the select may be ready: a tick can win over a closed stop.
Tick(r) ==
    /\ tail[r].following /\ Len(lines) > tail[r].consumed /\ ReadFile(r, "follow")
    /\ UNCHANGED <<boxVars, tail, runLog, hostVars>>
TickLogs(r) == LogNew(r, "follow") /\ UNCHANGED <<boxVars, hostVars>>
FollowStops(r) ==
    /\ tail[r].following /\ tail[r].closed /\ reading[r].by # "follow"
    /\ tail' = [tail EXCEPT ![r].following = FALSE]
    /\ UNCHANGED <<boxVars, reading, runLog, hostVars>>

-----------------------------------------------------------------------------
(* runBotOnce.                                                             *)

\* The workspace is made, not emptied; an image, an agent or an egress proxy
\* that is not to be had fails the attempt before its container starts.
Prepare ==
    /\ stage = "prepare"
    /\ \/ /\ stage' = "run" /\ box' = [box EXCEPT ![round] = "running"]
          /\ tail' = [tail EXCEPT ![round].following = TRUE]
          /\ UNCHANGED result
       \/ /\ stage' = "over" /\ result' = "fail" /\ UNCHANGED <<box, tail>>
    /\ UNCHANGED <<lines, out, marker, unsaved, reading, runLog, round, collected, killFaults>>

\* docker run returns with the container.
ContainerExits ==
    /\ stage = "run" /\ box[round] \in {"exited", "failed"}
    /\ stage' = "drain" /\ result' = IF box[round] = "exited" THEN "ok" ELSE "fail"
    /\ UNCHANGED <<boxVars, tailVars, round, collected, killFaults>>

\* max_runtime passes, or the run's context is cancelled; either is looked at
\* before the exit code.  docker kill stops the container, or fails and
\* leaves it running.
KillContainer ==
    /\ stage = "run" /\ box[round] # "off"
    /\ \E r \in {"exceeded", "stopped"} : result' = r
    /\ \/ /\ box' = [box EXCEPT ![round] = IF @ \in Alive THEN "killed" ELSE @]
          /\ UNCHANGED killFaults
       \/ killFaults < KillFaults /\ killFaults' = killFaults + 1 /\ UNCHANGED box
    /\ stage' = "drain"
    /\ UNCHANGED <<lines, out, marker, unsaved, tailVars, round, collected>>

DrainRead ==
    /\ stage = "drain" /\ ReadFile(round, "main")
    /\ UNCHANGED <<boxVars, tail, runLog, hostVars>>

\* After the last drain an error is returned; outputs are collected otherwise.
DrainLogs ==
    /\ stage = "drain" /\ LogNew(round, "main")
    /\ stage' = IF result = "ok" THEN "collect" ELSE "leave"
    /\ UNCHANGED <<boxVars, round, result, collected, killFaults>>

\* collectOutputs looks for the marker before it looks for any port.
CollectOutputs ==
    /\ stage = "collect" /\ stage' = "leave"
    /\ result' = IF marker # NoneYet THEN "nothing"
                 ELSE IF \E p \in Ports : out[p] = NoneYet THEN "fail" ELSE "ok"
    /\ collected' = IF result' = "ok" THEN out ELSE collected
    /\ UNCHANGED <<boxVars, tailVars, round, killFaults>>

\* The deferred close(stopTail).
Leave ==
    /\ stage = "leave" /\ stage' = "over"
    /\ tail' = [tail EXCEPT ![round].closed = TRUE]
    /\ UNCHANGED <<boxVars, reading, runLog, round, result, collected, killFaults>>

\* A retry or the fallback after an error, the next turn of a loop after
\* outputs: the same directory once more.  "nothing" and "stopped" are final.
NextRound ==
    /\ stage = "over" /\ result \in {"ok", "fail", "exceeded"} /\ round < Rounds
    /\ round' = round + 1 /\ stage' = "prepare" /\ result' = "none"
    /\ UNCHANGED <<boxVars, tailVars, collected, killFaults>>

WorkNext ==
    \/ \E r \in Round : Container(r) \/ Tick(r) \/ TickLogs(r) \/ FollowStops(r)
    \/ Prepare \/ ContainerExits \/ KillContainer \/ DrainRead \/ DrainLogs
    \/ CollectOutputs \/ Leave \/ NextRound

WorkSpec == WorkInit /\ [][WorkNext]_workVars

-----------------------------------------------------------------------------
WorkTypeOK ==
    /\ \A i \in DOMAIN lines : lines[i] \in Round \X (1..Lines)
    /\ out \in [Ports -> {NoneYet} \cup Round] /\ marker \in {NoneYet} \cup Round
    /\ box \in [Round -> Alive \cup {"off", "failed", "exited", "killed"}]
    /\ unsaved \in [Round -> SUBSET Ports]
    /\ \A r \in Round : tail[r].consumed \in 0..Len(lines) /\ tail[r].closed \in BOOLEAN
    /\ \A r \in Round : reading[r].by \in Readers \cup {"nobody"}
    /\ \A i \in DOMAIN runLog : runLog[i].tail \in Round
    /\ round \in Round /\ result \in Results /\ killFaults \in 0..KillFaults
    /\ stage \in {"prepare", "run", "drain", "collect", "leave", "over"}
    /\ collected \in [Ports -> {NoneYet} \cup Round]

\* The follower and the last drain share a tail.  Whichever comes first, the
\* n-th line a tail logs is the n-th line of the file, up to where it says it
\* has consumed it.
LoggedBy(r, j) == {i \in 1..j : runLog[i].tail = r}
TailInOrder ==
    \A r \in Round :
        /\ Cardinality(LoggedBy(r, Len(runLog))) = tail[r].consumed
        /\ \A j \in LoggedBy(r, Len(runLog)) :
               runLog[j].line = lines[Cardinality(LoggedBy(r, j))]

\* docs/runs.md: it "drains once more after it exits so a line written
\* between the last poll and exit is never lost".  When an attempt is over,
\* its tail has logged every line of a container that is gone.
Gone(r) == box[r] \in {"exited", "failed", "killed"}
NoLineLost ==
    \A r \in Round :
        Gone(r) /\ (r < round \/ stage = "over") /\ killFaults = 0
          => \A i \in LinesOf(r) : \E j \in DOMAIN runLog : runLog[j] = [tail |-> r, line |-> lines[i]]

\* Earlier rounds leave their files behind.  What a bot hands on was written
\* by the round that succeeded, unless a container outlived a failed kill.
OwnOutputs ==
    stage \in {"leave", "over"} /\ result = "ok" /\ killFaults = 0
      => \A p \in Ports : collected[p] = round

\* A container's log and files reach the run whole: in order, to the last
\* line, and from the round that succeeded (execute.go logTail, runBotOnce).
LogAndFilesWhole == TailInOrder /\ NoLineLost /\ OwnOutputs

\* logtail_test.go: "no line is ever emitted twice however many times we poll".
NoLineTwice ==
    \A i, j \in DOMAIN runLog : runLog[i].line = runLog[j].line => i = j

\* runner/wiring.go: the agent leaves the marker when it "stopped early on
\* purpose": a round that is over with nothing to do left it itself.
NothingIsMeant == stage \in {"leave", "over"} /\ result = "nothing" => marker = round
=============================================================================
