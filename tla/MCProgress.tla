---------------------------- MODULE MCProgress -----------------------------
(* What has to go on in the daemon, side by side: a swarm of bots, one bot  *)
(* over a list, the caches of the API and the schedule. They share no state, *)
(* so each behaviour is one of the part that Init picks.                    *)
EXTENDS SwarmDag, TtlCache, FanOut, MCSchedule

CONSTANTS
    Threads,  \* parts that are run
    watch, notify, triage, mail

VARIABLE part

progressVars == <<part, vars, cacheVars, fanVars, schedVars>>

-----------------------------------------------------------------------------
(* A diamond: two branches from one source into one sink, with a slot fewer *)
(* than the branches need when Limit is 1.                                  *)
MCBots == {watch, notify, triage, mail}
MCDeps == [b \in MCBots |-> CASE b = watch -> {}
                              [] b \in {notify, triage} -> {watch}
                              [] b = mail -> {notify, triage}]
MCRetry == [b \in MCBots |-> IF b \in {watch, triage} THEN 1 ELSE 0]

-----------------------------------------------------------------------------
ProgressInit ==
    /\ part \in Threads
    /\ Init /\ CacheInit /\ FanOutInit
    /\ SchedInit /\ (part = "schedule" \/ doc = [s \in Swarms |-> Gone])

ProgressNext ==
    \/ part = "dag" /\ Next /\ UNCHANGED <<part, cacheVars, fanVars, schedVars>>
    \/ part = "cache" /\ CacheNext /\ UNCHANGED <<part, vars, fanVars, schedVars>>
    \/ part = "items" /\ FanOutNext /\ UNCHANGED <<part, vars, cacheVars, schedVars>>
    \/ part = "schedule" /\ SchedNext /\ UNCHANGED <<part, vars, cacheVars, fanVars>>

\* The fairness of each part, as its module explains it: goroutines run, and
\* the scheduler's loop is one of them.
ProgressFairness ==
    /\ \A b \in Bots : /\ WF_vars(part = "dag" /\ Bot(b))
                       /\ SF_vars(part = "dag" /\ TakeSlot(b))
    /\ WF_vars(part = "dag" /\ Return)
    /\ \A r \in Readers : WF_cacheVars(part = "cache" /\ Answer(r))
    /\ WF_fanVars(part = "items" /\ Runner) /\ WF_fanVars(part = "items" /\ Poller)
    /\ \A i \in Items : WF_fanVars(part = "items" /\ Steps(i))
    /\ WF_schedVars(part = "schedule" /\ Loop)

ProgressSpec == ProgressInit /\ [][ProgressNext]_progressVars /\ ProgressFairness

-----------------------------------------------------------------------------
\* The types of all parts.
ProgressTypes == TypeOK /\ CacheTypeOK /\ FanOutTypeOK /\ SchedTypeOK

\* Every bot of an acyclic swarm gets its verdict and the run its outcome.
SwarmReturns == part = "dag" => RunReturns

\* A fanned-out bot returns though nobody answers and no item is abandoned:
\* the gate's own timeout ends the wait of all, and the question's copy on
\* 1Claw is not polled for ever either.
BatchReturns == part = "items" => FanOutReturns /\ CopyWithdrawn
=============================================================================
