------------------------------ MODULE SwarmDag ------------------------------
(***************************************************************************)
(* runDAG of internal/runner/execute.go: one goroutine per bot of a swarm. *)
(* Each waits for the bots it reads from, is skipped or evaluates its      *)
(* when: condition, takes one of Limit slots, attempts its bot with        *)
(* retries and a fallback, and records what became of it.                  *)
(*                                                                         *)
(* Each step below is one critical section of runDAG's mu, one channel     *)
(* operation, or a decision between two of them.  How an attempt itself    *)
(* proceeds is Run's subject; here it ends in one of the ways Run lets it  *)
(* end.                                                                    *)
(***************************************************************************)
EXTENDS Integers, FiniteSets

CONSTANTS
    Bots,       \* bot instances of the swarm
    Deps,       \* Deps[b] is the set of bots a snap leads from into b
    Continue,   \* bots marked on_error: continue
    When,       \* bots that have a when: condition
    Retry,      \* Retry[b] is b's retry: count
    Fallback,   \* bots that have a fallback:
    Limit       \* NANOBOTS_MAX_PARALLEL_BOTS

ASSUME BotsAssumption == IsFiniteSet(Bots)
ASSUME DepsAssumption == Deps \in [Bots -> SUBSET Bots]
ASSUME MarksAssumption == Continue \subseteq Bots /\ When \subseteq Bots /\ Fallback \subseteq Bots
ASSUME CountsAssumption == Retry \in [Bots -> Nat] /\ Limit \in Nat \ {0}

VARIABLES
    pc,         \* where each bot's goroutine is
    done,       \* bots whose done channel is closed
    gone,       \* gone[b]: why b produced no outputs, "no" if it is not in the map
    fatal,      \* bots in the fatal map
    tolerated,  \* bots in Run.Tolerated
    outputs,    \* bots whose outputs are recorded on the run
    slots,      \* tokens in the slots channel
    tried,      \* retries b has used
    err,        \* what b's latest attempt came to
    didWork, quiet, cancelled, result

bookVars == <<gone, fatal, tolerated, didWork, quiet>>
vars == <<pc, done, bookVars, outputs, slots, tried, err, cancelled, result>>

Errors == {"ok", "nothing", "fail", "stopped", "declined", "ended"}
Reasons == {"no", "skipped", "when", "quiet", "tolerated", "failed"}

Init ==
    /\ pc = [b \in Bots |-> "wait"] /\ done = {}
    /\ gone = [b \in Bots |-> "no"] /\ fatal = {} /\ tolerated = {} /\ outputs = {}
    /\ slots = 0 /\ tried = [b \in Bots |-> 0] /\ err = [b \in Bots |-> "ok"]
    /\ didWork = FALSE /\ quiet = FALSE /\ cancelled = FALSE /\ result = "none"

Goto(b, l) == pc' = [pc EXCEPT ![b] = l]

\* Receives from every upstream done channel, one after the other.
AwaitUpstream(b) ==
    /\ pc[b] = "wait" /\ Deps[b] \subseteq done
    /\ Goto(b, "look")
    /\ UNCHANGED <<done, bookVars, outputs, slots, tried, err, cancelled, result>>

UpstreamMissingNotTolerated(b) == \E d \in Deps[b] : gone[d] \notin {"no", "tolerated"}

\* upstreamMissing: some source is in the gone map.
UpstreamMissing(b) == \E d \in Deps[b] : gone[d] # "no"

LookUpstream(b) ==
    /\ pc[b] = "look"
    /\ Goto(b, IF UpstreamMissing(b) THEN "skip" ELSE "when")
    /\ UNCHANGED <<done, bookVars, outputs, slots, tried, err, cancelled, result>>

MarkGone(b, why) == gone' = [gone EXCEPT ![b] = why]

Skip(b) ==
    /\ pc[b] = "skip"
    /\ MarkGone(b, "skipped")
    /\ Goto(b, "close")
    /\ UNCHANGED <<done, fatal, tolerated, didWork, quiet, outputs, slots, tried, err,
                   cancelled, result>>

\* No condition, or a true one; a false one; one that cannot be evaluated,
\* which counts as a failure of the bot.
WhenTrue(b) ==
    /\ pc[b] = "when"
    /\ Goto(b, "slot")
    /\ UNCHANGED <<done, bookVars, outputs, slots, tried, err, cancelled, result>>

WhenFalse(b) ==
    /\ pc[b] = "when" /\ b \in When
    /\ MarkGone(b, "when")
    /\ Goto(b, "close")
    /\ UNCHANGED <<done, fatal, tolerated, didWork, quiet, outputs, slots, tried, err,
                   cancelled, result>>

WhenFails(b) ==
    /\ pc[b] = "when" /\ b \in When
    /\ err' = [err EXCEPT ![b] = "fail"]
    /\ Goto(b, "record")
    /\ UNCHANGED <<done, bookVars, outputs, slots, tried, cancelled, result>>

TakeSlot(b) ==
    /\ pc[b] = "slot" /\ slots < Limit
    /\ slots' = slots + 1
    /\ Goto(b, "attempt")
    /\ UNCHANGED <<done, bookVars, outputs, tried, err, cancelled, result>>

\* runBot returns; it records the outputs before it returns nil.
AttemptEnds(b) ==
    /\ pc[b] = "attempt"
    /\ \E e \in Errors :
          /\ e \in {"stopped", "ended"} => cancelled
          /\ err' = [err EXCEPT ![b] = e]
          /\ outputs' = IF e = "ok" THEN outputs \cup {b} ELSE outputs
    /\ Goto(b, "judge")
    /\ UNCHANGED <<done, bookVars, slots, tried, cancelled, result>>

WorthRetrying(e) == e \in {"fail", "stopped"}

TriesLeftOneMore(b) == tried[b] <= Retry[b]
TriesLeft(b) == tried[b] < Retry[b]

\* runOneBotWithRetries and then runOneBot decide what follows an attempt.
Judge(b) ==
    /\ pc[b] = "judge"
    /\ IF WorthRetrying(err[b]) /\ TriesLeft(b)
         THEN Goto(b, "attempt") /\ tried' = [tried EXCEPT ![b] = @ + 1]
         ELSE /\ Goto(b, IF WorthRetrying(err[b]) /\ b \in Fallback /\ ~cancelled
                           THEN "fallback" ELSE "release")
              /\ UNCHANGED tried
    /\ UNCHANGED <<done, bookVars, outputs, slots, err, cancelled, result>>

\* The fallback's own error is quoted, not wrapped: whatever it was, the bot
\* keeps the error of its last attempt.
FallbackEnds(b) ==
    /\ pc[b] = "fallback"
    /\ \/ err' = [err EXCEPT ![b] = "ok"] /\ outputs' = outputs \cup {b}
       \/ UNCHANGED <<err, outputs>>
    /\ Goto(b, "release")
    /\ UNCHANGED <<done, bookVars, slots, tried, cancelled, result>>

ReleaseSlot(b) ==
    /\ pc[b] = "release"
    /\ slots' = slots - 1
    /\ Goto(b, "record")
    /\ UNCHANGED <<done, bookVars, outputs, tried, err, cancelled, result>>

RecordWork(b) ==
    /\ pc[b] = "record" /\ err[b] = "ok"
    /\ didWork' = TRUE
    /\ Goto(b, "close")
    /\ UNCHANGED <<done, gone, fatal, tolerated, quiet, outputs, slots, tried, err,
                   cancelled, result>>

RecordNothing(b) ==
    /\ pc[b] = "record" /\ err[b] = "nothing"
    /\ MarkGone(b, "quiet")
    /\ quiet' = TRUE
    /\ Goto(b, "close")
    /\ UNCHANGED <<done, fatal, tolerated, didWork, outputs, slots, tried, err, cancelled, result>>

\* recordBotFailure: a tolerated failure is put on the run under the run's
\* lock first, and in gone under runDAG's.
Tolerate(b) ==
    /\ pc[b] = "record" /\ err[b] \notin {"ok", "nothing"} /\ b \in Continue
    /\ tolerated' = tolerated \cup {b}
    /\ Goto(b, "mark")
    /\ UNCHANGED <<done, gone, fatal, didWork, quiet, outputs, slots, tried, err, cancelled, result>>

MarkTolerated(b) ==
    /\ pc[b] = "mark"
    /\ MarkGone(b, "tolerated")
    /\ Goto(b, "close")
    /\ UNCHANGED <<done, fatal, tolerated, didWork, quiet, outputs, slots, tried, err,
                   cancelled, result>>

RecordFatalNotGone(b) ==
    /\ pc[b] = "record" /\ err[b] \notin {"ok", "nothing"} /\ b \notin Continue
    /\ fatal' = fatal \cup {b}
    /\ Goto(b, "close")
    /\ UNCHANGED <<done, gone, tolerated, didWork, quiet, outputs, slots, tried, err,
                   cancelled, result>>

RecordFatal(b) ==
    /\ pc[b] = "record" /\ err[b] \notin {"ok", "nothing"} /\ b \notin Continue
    /\ MarkGone(b, "failed")
    /\ fatal' = fatal \cup {b}
    /\ Goto(b, "close")
    /\ UNCHANGED <<done, tolerated, didWork, quiet, outputs, slots, tried, err, cancelled, result>>

CloseDoneIfRan(b) ==
    /\ pc[b] = "close"
    /\ done' = IF gone[b] = "no" THEN done \cup {b} ELSE done
    /\ Goto(b, "end")
    /\ UNCHANGED <<bookVars, outputs, slots, tried, err, cancelled, result>>

\* The deferred close(done[id]) and wg.Done().
CloseDone(b) ==
    /\ pc[b] = "close"
    /\ done' = done \cup {b}
    /\ Goto(b, "end")
    /\ UNCHANGED <<bookVars, outputs, slots, tried, err, cancelled, result>>

Bot(b) ==
    \/ AwaitUpstream(b) \/ LookUpstream(b) \/ Skip(b) \/ WhenTrue(b) \/ WhenFalse(b)
    \/ WhenFails(b) \/ TakeSlot(b) \/ AttemptEnds(b) \/ Judge(b) \/ FallbackEnds(b)
    \/ ReleaseSlot(b) \/ RecordWork(b) \/ RecordNothing(b) \/ Tolerate(b) \/ MarkTolerated(b)
    \/ RecordFatal(b) \/ CloseDone(b)

\* wg.Wait() returns and runDAG does.
Return ==
    /\ result = "none" /\ \A b \in Bots : pc[b] = "end"
    /\ result' = IF fatal # {} THEN "failed"
                 ELSE IF ~didWork /\ quiet THEN "nothing" ELSE "succeeded"
    /\ UNCHANGED <<pc, done, bookVars, outputs, slots, tried, err, cancelled>>

\* Run.Stop cancels the run's context; runDAG itself never looks at it.
Cancel ==
    /\ ~cancelled /\ result = "none"
    /\ cancelled' = TRUE
    /\ UNCHANGED <<pc, done, bookVars, outputs, slots, tried, err, result>>

Returned == result # "none" /\ UNCHANGED vars

Next == (\E b \in Bots : Bot(b)) \/ Return \/ Cancel \/ Returned

Spec == Init /\ [][Next]_vars

\* Goroutines run, and an attempt ends (Run's StopEndsRun and EveryRunEnds
\* say when).  A slot freed for ever again goes to everyone that waits: Go
\* serves the senders blocked on a channel in order.
Fairness ==
    /\ \A b \in Bots : WF_vars(Bot(b)) /\ SF_vars(TakeSlot(b))
    /\ WF_vars(Return)

FairSpec == Spec /\ Fairness
-----------------------------------------------------------------------------
Pcs == {"wait", "look", "skip", "when", "slot", "attempt", "judge", "fallback", "release",
        "record", "mark", "close", "end"}
Holding == {"attempt", "judge", "fallback", "release"}

\* The type invariant.
TypeOK ==
    /\ pc \in [Bots -> Pcs] /\ done \subseteq Bots
    /\ gone \in [Bots -> Reasons] /\ fatal \subseteq Bots /\ tolerated \subseteq Bots
    /\ outputs \subseteq Bots /\ slots \in 0..Limit
    /\ tried \in [Bots -> Nat] /\ err \in [Bots -> Errors]
    /\ \A b \in Bots : tried[b] <= Retry[b]
    /\ didWork \in BOOLEAN /\ quiet \in BOOLEAN /\ cancelled \in BOOLEAN
    /\ result \in {"none", "succeeded", "nothing", "failed"}

\* A bot past its upstream check finds the outputs of every bot it reads
\* from: resolveInputs never meets an upstream with "no recorded outputs".
InputsReady ==
    \A b \in Bots :
        pc[b] \in {"when", "slot"} \cup Holding => Deps[b] \subseteq outputs \cap done

\* Every slot taken is held by exactly one bot that will give it back, so a
\* run never loses one to a skip, a failure, a retry or a fallback.
SlotsBalanced == slots = Cardinality({b \in Bots : pc[b] \in Holding})

\* A decision is final: after a declined approval, a quiet watch or a run
\* that ended, the bot is neither retried nor replaced.
DecisionsFinal ==
    [][\A b \in Bots : err[b] \in {"declined", "nothing", "ended"} => err'[b] = err[b]]_vars

\* A failure is recorded once: as fatal, or as tolerated, never as both, and
\* no failure is lost once its bot is done.
FailuresRecorded ==
    /\ fatal \cap tolerated = {}
    /\ \A b \in done : err[b] \in {"fail", "stopped", "declined", "ended"} =>
          b \in (IF b \in Continue THEN tolerated ELSE fatal)

\* What a bot's goroutine may rely on and must leave behind, at every step of
\* runDAG: inputs that are there, a slot to give back, a failure on record.
DagSafety == InputsReady /\ SlotsBalanced /\ FailuresRecorded

\* What the rest of the swarm knows of b once b's done channel is closed.
Verdict(b) == IF b \notin done THEN "none" ELSE IF gone[b] = "no" THEN "ran" ELSE gone[b]

Promise == INSTANCE SwarmOutcome WITH verdict <- [b \in Bots |-> Verdict(b)], outcome <- result

\* The scheduler implements the promise: whatever the interleaving, the
\* verdicts and the outcome are those of SwarmOutcome.
KeepsPromise == Promise!Spec

\* Every bot of an acyclic swarm gets its verdict and the run its outcome.
RunReturns == <>(result # "none")
=============================================================================
