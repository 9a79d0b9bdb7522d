------------------------------ MODULE StateDir ------------------------------
(***************************************************************************)
(* ~/.nanobots on disk, and the processes that share it: the daemon and    *)
(* every `nanobots run` go through wiring.BuildRunStore, which loads the   *)
(* newest rows of the runs table, deletes the older ones and then every    *)
(* workspace and every file that no loaded run refers to.                  *)
(*                                                                         *)
(* Files are content-addressed: runs that produce the same bytes share one. *)
(***************************************************************************)
EXTENDS Integers, FiniteSets

CONSTANTS
    Processes,  \* the daemon, a command-line run
    Sessions,   \* the runs, 1..n as they start
    Digests,    \* contents of files
    Kept,       \* MaxPersistedRuns
    Startups    \* bound: how often a process is started

ASSUME StateDirAssumption ==
    /\ Sessions = 1..Cardinality(Sessions) /\ "none" \notin Processes
    /\ Kept \in Nat \ {0} /\ Startups \in Nat

VARIABLES
    stage,     \* stage[p]: how far process p has come up
    known,     \* known[p]: RunStore.runs of p
    owner,     \* owner[r]: the process that executes run r, "none" when none does
    table,     \* rows of the runs table
    dirs,      \* runs that have a workspace
    files,     \* digests in the blob store
    holds,     \* holds[r]: what r refers to, and where from
    begun,     \* how many runs have started
    worked,    \* history: runs that started a bot
    exposed,   \* history: runs some start-up swept past without seeing them
    startups

diskVars == <<table, dirs, files>>
runsVars == <<owner, holds, begun, worked>>
stateVars == <<stage, known, runsVars, diskVars, exposed, startups>>

Stages == {"down", "load", "prune", "dirs", "files", "up"}
Running == {r \in Sessions : owner[r] # "none"}

StateInit ==
    /\ stage = [p \in Processes |-> "down"] /\ known = [p \in Processes |-> {}]
    /\ owner = [r \in Sessions |-> "none"] /\ holds = [r \in Sessions |-> {}]
    /\ table = {} /\ dirs = {} /\ files = {}
    /\ begun = 0 /\ worked = {} /\ exposed = {} /\ startups = 0

StateTypeOK ==
    /\ stage \in [Processes -> Stages] /\ known \in [Processes -> SUBSET Sessions]
    /\ owner \in [Sessions -> Processes \cup {"none"}] /\ table \subseteq Sessions
    /\ dirs \subseteq worked /\ worked \subseteq 1..begun /\ files \subseteq Digests
    /\ \A r \in Running : r \in known[owner[r]] /\ r \notin table

\* The Kept newest of R.
Newest(R) == {r \in R : Cardinality({q \in R : q > r}) < Kept}

-----------------------------------------------------------------------------
(* A process comes up: NewPersistentRunStore, then the two clean-ups.      *)

StartProcess(p) ==
    /\ stage[p] = "down" /\ startups < Startups
    /\ stage' = [stage EXCEPT ![p] = "load"] /\ startups' = startups + 1
    /\ UNCHANGED <<known, runsVars, diskVars, exposed>>

LoadRows(p) ==
    /\ stage[p] = "load"
    /\ known' = [known EXCEPT ![p] = Newest(table)]
    /\ stage' = [stage EXCEPT ![p] = "prune"]
    /\ UNCHANGED <<runsVars, diskVars, exposed, startups>>

PruneRows(p) ==
    /\ stage[p] = "prune"
    /\ table' = Newest(table)
    /\ stage' = [stage EXCEPT ![p] = "dirs"]
    /\ UNCHANGED <<known, runsVars, dirs, files, exposed, startups>>

\* Runs that p's clean-up cannot know of.
SweptPast(p) == Running \cup (table \ known[p])

PruneWorkDirs(p) ==
    /\ stage[p] = "dirs"
    /\ dirs' = dirs \cap known[p]
    /\ exposed' = exposed \cup SweptPast(p)
    /\ stage' = [stage EXCEPT ![p] = "files"]
    /\ UNCHANGED <<known, runsVars, table, files, startups>>

\* Digests of a run's outputs and of what its bots' steps captured.
BlobRefsOfOutputs(r) == {h[1] : h \in {h \in holds[r] : h[2] = "output"}}
BlobRefs(r) == {h[1] : h \in holds[r]}

PruneBlobs(p) ==
    /\ stage[p] = "files"
    /\ files' = files \cap UNION {BlobRefs(r) : r \in known[p]}
    /\ exposed' = exposed \cup SweptPast(p)
    /\ stage' = [stage EXCEPT ![p] = "up"]
    /\ UNCHANGED <<known, runsVars, table, dirs, startups>>

-----------------------------------------------------------------------------
(* What a run does in between.                                             *)

\* ExecuteSwarm and RunStore.Add.
StartSession(p) ==
    /\ stage[p] = "up" /\ begun + 1 \in Sessions
    /\ begun' = begun + 1
    /\ owner' = [owner EXCEPT ![begun + 1] = p]
    /\ known' = [known EXCEPT ![p] = @ \cup {begun + 1}]
    /\ UNCHANGED <<stage, diskVars, holds, worked, exposed, startups>>

\* runBotOnce makes the workspace, if it is not there.
StartBot(r) ==
    /\ r \in Running
    /\ dirs' = dirs \cup {r} /\ worked' = worked \cup {r}
    /\ UNCHANGED <<stage, known, owner, table, files, holds, begun, exposed, startups>>

\* FSBlobStore.Write, which leaves alone a file that is there already; the
\* reference is recorded on the run as a step's capture or a bot's output.
Store(r, d, from) ==
    /\ r \in Running \cap worked
    /\ files' = files \cup {d}
    /\ holds' = [holds EXCEPT ![r] = @ \cup {<<d, from>>}]
    /\ UNCHANGED <<stage, known, owner, table, dirs, begun, worked, exposed, startups>>

\* The run ends and its row is written.
EndSession(r) ==
    /\ r \in Running
    /\ owner' = [owner EXCEPT ![r] = "none"] /\ table' = table \cup {r}
    /\ UNCHANGED <<stage, known, dirs, files, holds, begun, worked, exposed, startups>>

\* The command returns, or the process dies: its runs leave no row.
Exit(p) ==
    /\ stage[p] # "down"
    /\ stage' = [stage EXCEPT ![p] = "down"] /\ known' = [known EXCEPT ![p] = {}]
    /\ owner' = [r \in Sessions |-> IF owner[r] = p THEN "none" ELSE owner[r]]
    /\ UNCHANGED <<diskVars, holds, begun, worked, exposed, startups>>

StateNext ==
    \/ \E p \in Processes :
          \/ StartProcess(p) \/ LoadRows(p) \/ PruneRows(p) \/ PruneWorkDirs(p) \/ PruneBlobs(p)
          \/ StartSession(p) \/ Exit(p)
    \/ \E r \in Sessions :
          \/ StartBot(r) \/ EndSession(r)
          \/ \E d \in Digests, from \in {"output", "capture"} : Store(r, d, from)

-----------------------------------------------------------------------------
(* Properties.                                                             *)

\* persist.go: "A run you can still open in the UI keeps its workspace", and
\* every file it refers to, also one it shares with a run that aged out. The
\* exception are runs that were in progress while some process started.
KeptRunsWhole ==
    \A r \in table \ exposed :
        /\ r \in worked => r \in dirs
        /\ \A h \in holds[r] : h[1] \in files

\* wiring.go:288: "Startup is the safe moment: nothing is running, so no
\* container holds a bind mount into any of these" workspaces, so no run loses
\* its own under its hands, nor what its bots have handed on.
RunningKeepsItsFiles ==
    \A r \in Running :
        /\ r \in worked => r \in dirs
        /\ \A h \in holds[r] : h[1] \in files
=============================================================================
