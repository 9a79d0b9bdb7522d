---------------------------- MODULE SwarmOutcome ----------------------------
(***************************************************************************)
(* What a run of a swarm promises, whatever the order its bots happen to   *)
(* run in (the comments of runDAG, docs/parallelism.md,                    *)
(* docs/error-policy.md, docs/runs.md): every bot gets one verdict, after  *)
(* the bots it reads from have theirs; a bot one of whose sources did not  *)
(* run is skipped and no other is; and the outcome of the run is a         *)
(* function of the verdicts.                                               *)
(***************************************************************************)
CONSTANTS
    Bots,      \* bot instances of the swarm
    Deps,      \* Deps[b] is the set of bots a snap leads from into b
    Continue,  \* bots marked on_error: continue
    When       \* bots that have a when: condition

VARIABLES verdict, outcome

Verdicts == {"none", "ran", "quiet", "skipped", "when", "tolerated", "failed"}
Outcomes == {"none", "succeeded", "nothing", "failed"}

Init == verdict = [b \in Bots |-> "none"] /\ outcome = "none"

\* The verdicts b may get once all its sources have theirs.
MayGet(b) ==
    IF \E d \in Deps[b] : verdict[d] # "ran"
      THEN {"skipped"}
      ELSE {"ran", "quiet"} \cup (IF b \in Continue THEN {"tolerated"} ELSE {"failed"})
                            \cup (IF b \in When THEN {"when"} ELSE {})

Decide(b, v) ==
    /\ verdict[b] = "none"
    /\ \A d \in Deps[b] : verdict[d] # "none"
    /\ v \in MayGet(b)
    /\ verdict' = [verdict EXCEPT ![b] = v]
    /\ UNCHANGED outcome

\* A failure nobody tolerated fails the run; a run in which nobody ran and
\* somebody looked and found nothing had nothing to do.
Outcome ==
    IF \E b \in Bots : verdict[b] = "failed" THEN "failed"
    ELSE IF (\A b \in Bots : verdict[b] # "ran") /\ (\E b \in Bots : verdict[b] = "quiet")
      THEN "nothing" ELSE "succeeded"

Conclude ==
    /\ outcome = "none" /\ \A b \in Bots : verdict[b] # "none"
    /\ outcome' = Outcome
    /\ UNCHANGED verdict

Next == (\E b \in Bots, v \in Verdicts : Decide(b, v)) \/ Conclude

Spec == Init /\ [][Next]_<<verdict, outcome>>
=============================================================================
