-------------------------------- MODULE Run --------------------------------
(***************************************************************************)
(* One run of a swarm: the Run object of internal/runner/run.go and every  *)
(* goroutine that touches it while its bots are in flight.                 *)
(*                                                                         *)
(* Four kinds of actor share the object, each step below being one         *)
(* critical section of Run.mu or one local decision between two of them:   *)
(*                                                                         *)
(*   worker   one attempt of one bot: step.Interpret in its own goroutine, *)
(*            or a container and the callback handlers it is blocked in;   *)
(*   bot      the goroutine that waits for the attempt, retries it, and    *)
(*            waits out a locked vault (execute.go, inprocess.go);         *)
(*   exec     the goroutine of executeSwarm that ends the run;             *)
(*   people   who stop the run and answer its approvals, in the app, the   *)
(*            CLI or the 1Claw queue.                                      *)
(*                                                                         *)
(* Bots here have no edges between them and are all in flight from the     *)
(* start; which bot starts when is SwarmDag's subject.  An attempt opens   *)
(* at most one approval gate, so a worker also names its gate.             *)
(***************************************************************************)
EXTENDS Integers, FiniteSets

CONSTANTS
    Bots,       \* bot instances of the swarm
    Gated,      \* bots whose write sits behind an inline approve step
    Writes,     \* bots that declare guardrails.writes_allowed
    Container,  \* bots that run in a container; the others run in-process
    Continue,   \* bots marked on_error: continue
    Tries,      \* the retry: budget of a bot that may be retried
    Relocks,    \* bound: how often one bot finds the vault locked
    Stoppers    \* people who may press Stop, once each

ASSUME SubsetsAssumption ==
    Gated \subseteq Bots /\ Writes \subseteq Bots
    /\ Container \subseteq Bots /\ Continue \subseteq Bots
ASSUME BoundsAssumption == Tries \in Nat /\ Relocks \in Nat

Attempts == 1..(1 + Tries + Relocks)
Workers  == Bots \X Attempts

\* planner.CheckRetry refuses retry: on a bot that writes.
TriesFor(b) == IF b \in Writes THEN 0 ELSE Tries

VARIABLES
    \* the Run object
    status, stopped, declined, err, cancelled,
    approvals,  \* gates listed in Run.approvals
    decided,    \* gates whose PendingApproval.decided is set
    buf,        \* what a gate's one-slot decision channel holds
    closed,     \* gates whose channel has been closed
    history,    \* the row RunStore wrote when the run ended
    \* workers
    pc, alive, got, result,
    abandoned,  \* workers nobody waits for any more
    wrote,      \* workers that performed their write step
    answer,     \* what a person said to each gate
    \* bots, the executor, the people pressing Stop
    bot, att, used, waited, botErr, exec, stop

runVars    == <<status, stopped, declined, err, cancelled, history>>
gateVars   == <<approvals, decided, buf, closed, answer>>
workerVars == <<pc, alive, got, result, wrote>>
botVars    == <<bot, att, used, waited, botErr, abandoned>>
vars == <<runVars, gateVars, workerVars, botVars, exec, stop>>

TerminalStatus == {"succeeded", "failed"}
Status  == {"running", "awaiting_approval", "awaiting_unlock"} \cup TerminalStatus
Terminal == status \in TerminalStatus

Results == {"ok", "fail", "locked", "nothing", "declined", "ended", "timeout"}
Errors  == Results \cup {"exceeded", "stopped"}
Answers == {"none", "yes", "no"}
NoRow   == [status |-> "none"]

Init ==
    /\ status = "running" /\ err = "none" /\ history = NoRow
    /\ stopped = FALSE /\ declined = FALSE /\ cancelled = FALSE
    /\ approvals = {} /\ decided = {} /\ closed = {} /\ abandoned = {} /\ wrote = {}
    /\ buf = [w \in Workers |-> "none"] /\ answer = [w \in Workers |-> "none"]
    /\ pc = [w \in Workers |-> IF w[2] = 1 THEN "work" ELSE "off"]
    /\ alive = [w \in Workers |-> FALSE] /\ got = [w \in Workers |-> "none"]
    /\ result = [w \in Workers |-> "ok"]
    /\ bot = [b \in Bots |-> "attempt"] /\ att = [b \in Bots |-> 1]
    /\ used = [b \in Bots |-> 0] /\ waited = [b \in Bots |-> FALSE]
    /\ botErr = [b \in Bots |-> "ok"]
    /\ exec = "wait" /\ stop = [p \in Stoppers |-> "idle"]

-----------------------------------------------------------------------------
(* The worker.                                                             *)

\* An abandoned container has been killed and runs no further step, though
\* the callback handler it was blocked in lives on; an abandoned goroutine
\* keeps interpreting the bot.
RunsSteps(w) == w \in abandoned => w[1] \notin Container

\* The attempt returns r to whoever waits for it.
Return(w, r) == pc' = [pc EXCEPT ![w] = "done"] /\ result' = [result EXCEPT ![w] = r]

\* The number of attempts of w's bot that ended on a locked vault.
Locks(b) == att[b] - 1 - used[b]

\* A step fails, finds the vault locked, or stops the bot with nothing to do.
\* A container's steps report errors as text, so only its preparation on the
\* host (agentFor) can end an attempt with an error that is known as a lock.
GiveUp(w) ==
    /\ pc[w] \in {"work", "act", "acted"} /\ RunsSteps(w)
    /\ \E r \in {"fail", "locked", "nothing"} :
          /\ r = "locked" => Locks(w[1]) < Relocks /\ (w[1] \in Container => pc[w] = "work")
          /\ Return(w, r)
    /\ UNCHANGED <<runVars, gateVars, alive, got, wrote, botVars, exec, stop>>

\* A bot with no gate goes straight on to its write.
Proceed(w) ==
    /\ pc[w] = "work" /\ w[1] \notin Gated /\ RunsSteps(w)
    /\ pc' = [pc EXCEPT ![w] = "act"]
    /\ UNCHANGED <<runVars, gateVars, alive, got, result, wrote, botVars, exec, stop>>

\* requestApproval: the question is listed under the lock ...
OpenGate(w) ==
    /\ pc[w] = "work" /\ w[1] \in Gated /\ RunsSteps(w)
    /\ approvals' = approvals \cup {w}
    /\ pc' = [pc EXCEPT ![w] = "announce"]
    /\ UNCHANGED <<runVars, decided, buf, closed, answer, alive, got, result, wrote,
                   botVars, exec, stop>>

\* ... and the status set afterwards, whatever it was.
Announce(w) ==
    /\ pc[w] = "announce"
    /\ status' = "awaiting_approval"
    /\ pc' = [pc EXCEPT ![w] = "await"]
    /\ UNCHANGED <<stopped, declined, err, cancelled, history, gateVars, alive, got, result,
                   wrote, botVars, exec, stop>>

\* A decision is taken off the channel, a buffered one even after close();
\* alive is read in the same critical section that unlists the gate.
Receive(w) ==
    /\ pc[w] = "await" /\ buf[w] # "none"
    /\ approvals' = approvals \ {w}
    /\ buf' = [buf EXCEPT ![w] = "none"]
    /\ got' = [got EXCEPT ![w] = buf[w]]
    /\ alive' = [alive EXCEPT ![w] = ~Terminal]
    /\ pc' = [pc EXCEPT ![w] = "resume"]
    /\ UNCHANGED <<runVars, decided, closed, answer, result, wrote, botVars, exec, stop>>

AfterAnswerUnread(w) == pc' = [pc EXCEPT ![w] = "act"] /\ UNCHANGED result

\* What the bot does with an answer: an inline gate fails the bot on a no.
AfterAnswer(w) ==
    IF got[w] = "yes"
      THEN pc' = [pc EXCEPT ![w] = "act"] /\ UNCHANGED result
      ELSE Return(w, "declined")

\* The lock has been released since alive was read; both locals end here.
Resume(w) ==
    /\ pc[w] = "resume"
    /\ status' = IF alive[w] THEN "running" ELSE status
    /\ AfterAnswer(w)
    /\ alive' = [alive EXCEPT ![w] = FALSE] /\ got' = [got EXCEPT ![w] = "none"]
    /\ UNCHANGED <<stopped, declined, err, cancelled, history, gateVars, wrote, botVars,
                   exec, stop>>

\* The channel was closed under the waiter and nothing is buffered in it.
FindClosed(w) ==
    /\ pc[w] = "await" /\ w \in closed /\ buf[w] = "none"
    /\ Return(w, "ended")
    /\ UNCHANGED <<runVars, gateVars, alive, got, wrote, botVars, exec, stop>>

GateTimeoutIfShown(w) ==
    /\ pc[w] = "await" /\ status = "awaiting_approval"
    /\ approvals' = approvals \ {w}
    /\ Return(w, "timeout")
    /\ UNCHANGED <<runVars, decided, buf, closed, answer, alive, got, wrote, botVars, exec, stop>>

\* ApprovalTimeout: select may pick the timer though a decision is buffered.
GateTimeout(w) ==
    /\ pc[w] = "await"
    /\ approvals' = approvals \ {w}
    /\ Return(w, "timeout")
    /\ UNCHANGED <<runVars, decided, buf, closed, answer, alive, got, wrote, botVars, exec, stop>>

\* The write step, and then the end of the bot.
Write(w) ==
    /\ pc[w] = "act" /\ RunsSteps(w)
    /\ wrote' = wrote \cup {w}
    /\ pc' = [pc EXCEPT ![w] = "acted"]
    /\ UNCHANGED <<runVars, gateVars, alive, got, result, botVars, exec, stop>>

Finish(w) ==
    /\ pc[w] = "acted" /\ RunsSteps(w)
    /\ Return(w, "ok")
    /\ UNCHANGED <<runVars, gateVars, alive, got, wrote, botVars, exec, stop>>

Worker(w) ==
    \/ GiveUp(w) \/ Proceed(w) \/ OpenGate(w) \/ Announce(w) \/ Receive(w)
    \/ Resume(w) \/ FindClosed(w) \/ Write(w) \/ Finish(w)

-----------------------------------------------------------------------------
(* The bot: waiting for an attempt, the vault, and the next attempt.       *)

Current(b) == <<b, att[b]>>

SettleThoughWritten(b, e) ==
    /\ botErr' = [botErr EXCEPT ![b] = e]
    /\ bot' = [bot EXCEPT ![b] =
                 IF e = "locked" THEN "locked" ELSE IF waited[b] THEN "restore" ELSE "judge"]
    /\ UNCHANGED <<att, used, waited>>

\* attemptThroughVaultUnlock, once an attempt has ended with e.
Settle(b, e) ==
    /\ botErr' = [botErr EXCEPT ![b] = e]
    /\ bot' = [bot EXCEPT ![b] =
                 IF e = "locked" /\ b \notin Writes THEN "locked"
                 ELSE IF waited[b] THEN "restore" ELSE "judge"]
    /\ UNCHANGED <<att, used, waited>>

\* interpretInProcess and RunContainer: the attempt came back, or its time
\* is up, or the run was cancelled - whichever the select happens to see.
AttemptReturns(b) ==
    /\ bot[b] = "attempt" /\ pc[Current(b)] = "done"
    /\ Settle(b, result[Current(b)])
    /\ UNCHANGED <<runVars, gateVars, workerVars, abandoned, exec, stop>>

Abandon(b, e) ==
    /\ bot[b] = "attempt"
    /\ abandoned' = abandoned \cup {Current(b)}
    /\ Settle(b, e)
    /\ UNCHANGED <<runVars, gateVars, workerVars, exec, stop>>

MaxRuntime(b) == Abandon(b, "exceeded")
CtxDoneLate(b) == cancelled /\ pc[Current(b)] = "done" /\ Abandon(b, "stopped")
CtxDone(b)    == cancelled /\ Abandon(b, "stopped")

\* The next attempt starts with a worker of its own.
StartAttempt(b) ==
    /\ att' = [att EXCEPT ![b] = @ + 1]
    /\ pc' = [pc EXCEPT ![<<b, att[b] + 1>>] = "work"]
    /\ bot' = [bot EXCEPT ![b] = "attempt"]

AwaitUnlock(b) ==
    /\ bot[b] = "locked"
    /\ status' = "awaiting_unlock"
    /\ waited' = [waited EXCEPT ![b] = TRUE]
    /\ bot' = [bot EXCEPT ![b] = "unlockwait"]
    /\ UNCHANGED <<stopped, declined, err, cancelled, history, gateVars, workerVars,
                   att, used, botErr, abandoned, exec, stop>>

\* The poll interval ends, or the run's context does.
UnlockPoll(b) ==
    /\ bot[b] = "unlockwait"
    /\ IF stopped
         THEN /\ bot' = [bot EXCEPT ![b] = "judge"]
              /\ botErr' = [botErr EXCEPT ![b] = "stopped"]
              /\ UNCHANGED <<att, pc>>
         ELSE StartAttempt(b) /\ UNCHANGED botErr
    /\ UNCHANGED <<runVars, gateVars, alive, got, result, wrote, used, waited, abandoned,
                   exec, stop>>

\* GetStatus, then SetStatus in a critical section of its own.
RestoreRead(b) ==
    /\ bot[b] = "restore"
    /\ bot' = [bot EXCEPT ![b] = IF Terminal THEN "judge" ELSE "restoreset"]
    /\ UNCHANGED <<runVars, gateVars, workerVars, att, used, waited, botErr, abandoned,
                   exec, stop>>

RestoreSet(b) ==
    /\ bot[b] = "restoreset"
    /\ status' = "running"
    /\ bot' = [bot EXCEPT ![b] = "judge"]
    /\ UNCHANGED <<stopped, declined, err, cancelled, history, gateVars, workerVars,
                   att, used, waited, botErr, abandoned, exec, stop>>

\* worthRetrying: a decision is not retried, everything else is.
WorthRetrying(e) == e \notin {"nothing", "declined", "ended"}

TriesLeftOneMore(b) == used[b] <= TriesFor(b)
TriesLeft(b) == used[b] < TriesFor(b)

\* runOneBotWithRetries, between two attempts.
Judge(b) ==
    /\ bot[b] = "judge"
    /\ IF botErr[b] # "ok" /\ WorthRetrying(botErr[b]) /\ TriesLeft(b)
         THEN StartAttempt(b) /\ used' = [used EXCEPT ![b] = @ + 1]
         ELSE bot' = [bot EXCEPT ![b] = "done"] /\ UNCHANGED <<att, pc, used>>
    /\ waited' = [waited EXCEPT ![b] = FALSE]
    /\ UNCHANGED <<runVars, gateVars, alive, got, result, wrote, botErr, abandoned, exec, stop>>

Bot(b) ==
    \/ AttemptReturns(b) \/ CtxDone(b) \/ AwaitUnlock(b) \/ UnlockPoll(b)
    \/ RestoreRead(b) \/ RestoreSet(b) \/ Judge(b)

-----------------------------------------------------------------------------
(* The executor: executeSwarm's goroutine once every bot has finished.     *)

Fatal(b) == botErr[b] \notin {"ok", "nothing"} /\ b \notin Continue

BotsFinishedEarly ==
    /\ exec = "wait" /\ \E b \in Bots : bot[b] = "done" /\ Fatal(b)
    /\ exec' = "failing"
    /\ UNCHANGED <<runVars, gateVars, workerVars, botVars, stop>>

BotsFinished ==
    /\ exec = "wait" /\ \A b \in Bots : bot[b] = "done"
    /\ exec' = IF \E b \in Bots : Fatal(b) THEN "failing" ELSE "succeeding"
    /\ UNCHANGED <<runVars, gateVars, workerVars, botVars, stop>>

RecordError ==
    /\ exec = "failing"
    /\ err' = IF stopped THEN "stopped" ELSE "failed"
    /\ exec' = "failed"
    /\ UNCHANGED <<status, stopped, declined, cancelled, history, gateVars, workerVars,
                   botVars, stop>>

SweepStillListed == closed' = closed \cup approvals /\ UNCHANGED approvals

\* SetStatus's critical section when s is terminal: every gate still listed
\* is unlisted and its channel closed.
SweepGates == approvals' = {} /\ closed' = closed \cup approvals

EndRunUnexplained ==
    /\ exec \in {"failing", "succeeding"}
    /\ status' = IF exec = "failing" THEN "failed" ELSE "succeeded"
    /\ SweepGates
    /\ exec' = "persist"
    /\ UNCHANGED <<stopped, declined, err, cancelled, history, decided, buf, answer,
                   workerVars, botVars, stop>>

EndRun ==
    /\ exec \in {"failed", "succeeding"}
    /\ status' = IF exec = "failed" THEN "failed" ELSE "succeeded"
    /\ SweepGates
    /\ exec' = "persist"
    /\ UNCHANGED <<stopped, declined, err, cancelled, history, decided, buf, answer,
                   workerVars, botVars, stop>>

\* onTerminal's callback, outside the lock: RunStore snapshots the run.
Persist ==
    /\ exec = "persist"
    /\ history' = [status |-> status, err |-> err, stopped |-> stopped]
    /\ exec' = "end"
    /\ UNCHANGED <<status, stopped, declined, err, cancelled, gateVars, workerVars, botVars, stop>>

Executor == BotsFinished \/ RecordError \/ EndRun \/ Persist

-----------------------------------------------------------------------------
(* People.                                                                 *)

\* Stop: a flag, then the context, then the gates - three critical sections.
PressStop(p) ==
    /\ stop[p] = "idle"
    /\ IF Terminal
         THEN stop' = [stop EXCEPT ![p] = "refused"] /\ UNCHANGED stopped
         ELSE stop' = [stop EXCEPT ![p] = "cancel"] /\ stopped' = TRUE
    /\ UNCHANGED <<status, declined, err, cancelled, history, gateVars, workerVars, botVars, exec>>

CancelContext(p) ==
    /\ stop[p] = "cancel"
    /\ cancelled' = TRUE
    /\ stop' = [stop EXCEPT ![p] = "release"]
    /\ UNCHANGED <<status, stopped, declined, err, history, gateVars, workerVars, botVars, exec>>

ReleaseApprovals(p) ==
    /\ stop[p] = "release"
    /\ SweepGates
    /\ stop' = [stop EXCEPT ![p] = "done"]
    /\ UNCHANGED <<runVars, decided, buf, answer, workerVars, botVars, exec>>

CanDecideAgain(g) == g \in approvals
CanDecide(g) == g \in approvals /\ g \notin decided

\* Decide, from the app, the CLI or the 1Claw mirror.
Decide(g, a) ==
    /\ CanDecide(g)
    /\ decided' = decided \cup {g}
    /\ declined' = (declined \/ a = "no")
    /\ buf' = [buf EXCEPT ![g] = a]
    /\ answer' = [answer EXCEPT ![g] = a]
    /\ UNCHANGED <<status, stopped, err, cancelled, history, approvals, closed, workerVars,
                   botVars, exec, stop>>

-----------------------------------------------------------------------------
\* Nothing is left to happen but presses of Stop and kills of the idle.
Quiet == /\ exec = "end"
         /\ \A w \in Workers : \/ pc[w] \in {"off", "done"}
                               \/ pc[w] \in {"work", "act", "acted"} /\ ~RunsSteps(w)

Idle == Quiet /\ UNCHANGED vars

Next ==
    \/ \E w \in Workers : Worker(w) \/ GateTimeout(w)
    \/ \E w \in Workers, a \in {"yes", "no"} : Decide(w, a)
    \/ \E b \in Bots : Bot(b) \/ MaxRuntime(b)
    \/ Executor
    \/ \E p \in Stoppers : PressStop(p) \/ CancelContext(p) \/ ReleaseApprovals(p)
    \/ Idle

Spec == Init /\ [][Next]_vars

\* Goroutines run; every step of a bot carries its own deadline, so a worker
\* whose container has not been killed moves on.  Nobody owes an answer, a
\* press of Stop, or a timer: gates may stay open for ever.
Fairness ==
    /\ \A w \in Workers : WF_vars(Worker(w))
    /\ \A b \in Bots : WF_vars(Bot(b))
    /\ WF_vars(Executor)
    /\ \A p \in Stoppers : WF_vars(CancelContext(p)) /\ WF_vars(ReleaseApprovals(p))

FairSpec == Spec /\ Fairness

-----------------------------------------------------------------------------
(* What must hold.                                                         *)

\* The type invariant.
TypeOK ==
    /\ status \in Status /\ err \in {"none", "failed", "stopped"}
    /\ stopped \in BOOLEAN /\ declined \in BOOLEAN /\ cancelled \in BOOLEAN
    /\ approvals \subseteq Workers /\ decided \subseteq Workers /\ closed \subseteq Workers
    /\ abandoned \subseteq Workers /\ wrote \subseteq Workers
    /\ buf \in [Workers -> Answers] /\ answer \in [Workers -> Answers]
    /\ pc \in [Workers -> {"off", "work", "announce", "await", "resume", "act", "acted", "done"}]
    /\ alive \in [Workers -> BOOLEAN] /\ got \in [Workers -> Answers]
    /\ result \in [Workers -> Results]
    /\ bot \in [Bots -> {"attempt", "locked", "unlockwait", "restore", "restoreset", "judge", "done"}]
    /\ att \in [Bots -> Attempts] /\ used \in [Bots -> Nat]
    /\ \A b \in Bots : used[b] \in 0..TriesFor(b) /\ Locks(b) \in 0..Relocks
    /\ waited \in [Bots -> BOOLEAN] /\ botErr \in [Bots -> Errors]
    /\ exec \in {"wait", "failing", "failed", "succeeding", "persist", "end"}
    /\ stop \in [Stoppers -> {"idle", "refused", "cancel", "release", "done"}]

\* A listed gate has an open channel, and one with no answer has room in it:
\* Decide neither panics on a closed channel nor blocks holding Run.mu, and
\* neither sweep closes a channel twice.
ChannelSafe ==
    \A g \in approvals : g \notin closed /\ (g \notin decided => buf[g] = "none")

\* Behind an inline gate nothing is written unless a person said yes to that
\* very attempt - also in an attempt nobody waits for any more, and also when
\* a timeout, a Stop or the run's end races the answer.
NoWriteWithoutYes ==
    \A w \in wrote : w[1] \in Gated => answer[w] = "yes"

\* A question is answered once: a second answer changes nothing.
AnsweredOnce ==
    [][\A w \in Workers : answer[w] # "none" => answer'[w] = answer[w]]_vars

\* A bot that declares writes performs them in at most one attempt of the
\* run, whatever fails, times out or finds the vault locked after the write.
WritesOnce ==
    \A b \in Writes : Cardinality({w \in wrote : w[1] = b}) <= 1

\* An ended run changes status only at the hands of a worker that was
\* abandoned before the end: every other goroutine of the run is past its
\* last SetStatus by then.
OnlyAbandonedRevive ==
    [][Terminal /\ status' # status
         => \E w \in abandoned : pc[w] # pc'[w]]_vars

\* The row written to history is the run the API still serves, for as long
\* as that run reads as ended; and a failed row carries its reason.
HistoryAgrees ==
    history # NoRow =>
        /\ Terminal => history.status = status /\ history.err = err /\ history.stopped = stopped
        /\ history.status = "failed" => history.err # "none"

\* Stop ends the run though no answer, timer or timeout ever comes.
StopEndsRun == stopped ~> exec = "end"

\* Every run ends though nobody ever answers, as long as timers fire and the
\* vault does not stay locked.
EveryRunEnds ==
    (\A w \in Workers : WF_vars(GateTimeout(w))) => <>(exec = "end")

-----------------------------------------------------------------------------
(* What the repository says of a run and the code does not do.             *)

\* onTerminal: a run is written to history "when it's complete and will
\* never change again".
TerminalIsFinal == [][Terminal => status' = status]_vars

\* StoppedByUser: "The status is still "failed"".
StoppedRunFailed == exec = "end" /\ stopped /\ Terminal => status = "failed"

\* "Nor is a run that ended underneath the bot" retried: no attempt starts
\* once Stop has cancelled the run's context.
NoAttemptAfterStop == [][cancelled => att' = att]_vars

\* "the run's status flips to awaiting_approval ... and everything blocks
\* until a decision arrives": a waiting, unanswered gate shows in the status
\* of a run that has not ended.
OpenGateShows ==
    (\E g \in approvals : pc[g] = "await" /\ g \notin decided) /\ exec = "wait"
        => status = "awaiting_approval"
=============================================================================
