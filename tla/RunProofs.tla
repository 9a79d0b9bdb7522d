----------------------------- MODULE RunProofs -----------------------------
(***************************************************************************)
(* What holds of Run for every set of bots, every number of retries and    *)
(* vault waits and any number of people pressing Stop: also that its       *)
(* steps are counted, and that nothing but an open gate holds it up.       *)
(***************************************************************************)
EXTENDS Run, FiniteSetTheorems, TLAPS

\* A bot that is about to wait for the vault has a vault wait left.
LocksBounded ==
    \A b \in Bots :
        \/ bot[b] \in {"locked", "unlockwait"}
        \/ bot[b] = "attempt" /\ pc[Current(b)] = "done" /\ result[Current(b)] = "locked"
        => b \in Writes \/ Locks(b) < Relocks

Typed == TypeOK /\ LocksBounded /\ \A b \in Writes : bot[b] \notin {"locked", "unlockwait"}

\* A worker is a bot and the number of one of its attempts; no bot has more
\* retries than Tries.
LEMMA WorkerParts ==
  /\ \A w \in Workers : w[1] \in Bots /\ w[2] \in Attempts /\ w = <<w[1], w[2]>>
  /\ \A b \in Bots, n \in Attempts : <<b, n>> \in Workers
  /\ \A n \in Attempts : n \in Nat
  /\ \A b \in Bots : TriesFor(b) \in Nat /\ TriesFor(b) <= Tries
  BY BoundsAssumption DEF Workers, Attempts, TriesFor

\* The types hold when the run starts.
LEMMA TypedInit == Init => Typed
<1> SUFFICES ASSUME Init PROVE Typed
    OBVIOUS
<1> USE BoundsAssumption DEF Init
<1>1. \A b \in Bots : used[b] \in 0..TriesFor(b) /\ Locks(b) \in 0..Relocks
      BY WorkerParts DEF Locks
<1>2. att \in [Bots -> Attempts]
      BY DEF Attempts
<1>3. TypeOK
      BY <1>1, <1>2 DEF TypeOK, Status, TerminalStatus, Answers, Results, Errors
<1>4. LocksBounded /\ \A b \in Writes : bot[b] \notin {"locked", "unlockwait"}
      BY <1>2, WorkerParts, SubsetsAssumption DEF LocksBounded, Current
<1> QED  BY <1>3, <1>4 DEF Typed

\* A step of a worker, or the timeout of its gate, keeps the types.
LEMMA TypedWorker ==
  ASSUME Typed, NEW w \in Workers, Worker(w) \/ GateTimeout(w)
  PROVE  Typed'
<1> USE BoundsAssumption, SubsetsAssumption
    DEF Typed, TypeOK, LocksBounded, Workers, Status, TerminalStatus, Answers, Results, Errors,
        Locks, TriesFor, Current, Return, runVars, gateVars, workerVars, botVars
<1>1. CASE GiveUp(w)      BY <1>1 DEF GiveUp
<1>2. CASE Proceed(w)     BY <1>2 DEF Proceed
<1>3. CASE OpenGate(w)    BY <1>3 DEF OpenGate
<1>4. CASE Announce(w)    BY <1>4 DEF Announce
<1>5. CASE Receive(w)     BY <1>5 DEF Receive, Terminal
<1>6. CASE Resume(w)
  <2>1. CASE got[w] = "yes"  BY <1>6, <2>1 DEF Resume, AfterAnswer
  <2>2. CASE got[w] # "yes"
    <3>1. Return(w, "declined") /\ UNCHANGED <<att, used, bot>>
          BY <1>6, <2>2 DEF Resume, AfterAnswer
    <3>2. TypeOK'  BY <1>6, <3>1 DEF Resume
    <3>3. LocksBounded' /\ (\A c \in Writes : bot[c] \notin {"locked", "unlockwait"})'
          BY <3>1
    <3> QED  BY <3>2, <3>3
  <2> QED  BY <2>1, <2>2
<1>7. CASE FindClosed(w)  BY <1>7 DEF FindClosed
<1>8. CASE Write(w)       BY <1>8 DEF Write
<1>9. CASE Finish(w)      BY <1>9 DEF Finish
<1>10. CASE GateTimeout(w) BY <1>10 DEF GateTimeout
<1> QED  BY <1>1, <1>2, <1>3, <1>4, <1>5, <1>6, <1>7, <1>8, <1>9, <1>10 DEF Worker

\* Starting an attempt that is left keeps the types.
LEMMA StartedTyped ==
  ASSUME Typed, NEW b \in Bots, att[b] + 1 \in Attempts, StartAttempt(b)
  PROVE  /\ att' \in [Bots -> Attempts] /\ att'[b] = att[b] + 1
         /\ \A c \in Bots \ {b} : att'[c] = att[c] /\ bot'[c] = bot[c]
                                  /\ pc'[Current(c)] = pc[Current(c)]
         /\ bot'[b] = "attempt" /\ pc'[<<b, att'[b]>>] = "work"
         /\ bot' \in [Bots -> {"attempt", "locked", "unlockwait", "restore",
                                "restoreset", "judge", "done"}]
         /\ pc' \in [Workers -> {"off", "work", "announce", "await", "resume",
                                 "act", "acted", "done"}]
<1>1. <<b, att[b] + 1>> \in Workers  BY WorkerParts
<1> QED  BY <1>1, WorkerParts DEF Typed, TypeOK, StartAttempt, Current

\* A step of a bot keeps the types: an attempt starts only while a retry or a
\* vault wait is left.
LEMMA TypedBot ==
  ASSUME Typed, NEW b \in Bots, Bot(b) \/ MaxRuntime(b)
  PROVE  Typed'
<1> USE BoundsAssumption, SubsetsAssumption
    DEF Typed, TypeOK, LocksBounded, Workers, Attempts, Status, TerminalStatus, Answers, Results,
        Errors, Locks, TriesFor, Current, Settle, StartAttempt, Abandon,
        runVars, gateVars, workerVars, botVars
<1>1. CASE AttemptReturns(b)
  <2>1. Current(b) \in Workers  BY WorkerParts
  <2>2. TypeOK'  BY <1>1, <2>1 DEF AttemptReturns
  <2>3. LocksBounded' /\ (\A c \in Writes : bot[c] \notin {"locked", "unlockwait"})'
        BY <1>1, <2>1 DEF AttemptReturns
  <2> QED  BY <2>2, <2>3
<1>2. CASE CtxDone(b)        BY <1>2 DEF CtxDone
<1>3. CASE AwaitUnlock(b)    BY <1>3 DEF AwaitUnlock
<1>4. CASE UnlockPoll(b)
  <2>1. CASE stopped   BY <1>4, <2>1 DEF UnlockPoll
  <2>2. CASE ~stopped
    <3>1. b \notin Writes /\ Locks(b) < Relocks  BY <1>4 DEF UnlockPoll
    <3>2. att[b] + 1 \in Attempts  BY <3>1, WorkerParts
    <3>3. StartAttempt(b) /\ UNCHANGED <<used, waited, botErr, result>>
          BY <1>4, <2>2 DEF UnlockPoll
    <3>4. \A c \in Bots : used'[c] \in 0..TriesFor(c) /\ Locks(c)' \in 0..Relocks
          BY <3>1, <3>2, <3>3, StartedTyped, WorkerParts
    <3>5. TypeOK'
          BY ONLY <1>4, <2>2, <3>2, <3>3, <3>4, StartedTyped, Typed
             DEF UnlockPoll, Typed, TypeOK, runVars, gateVars
    <3>6. LocksBounded' /\ (\A c \in Writes : bot[c] \notin {"locked", "unlockwait"})'
          BY <3>1, <3>2, <3>3, StartedTyped, WorkerParts
    <3> QED  BY <3>5, <3>6
  <2> QED  BY <2>1, <2>2
<1>5. CASE RestoreRead(b)    BY <1>5 DEF RestoreRead
<1>6. CASE RestoreSet(b)     BY <1>6 DEF RestoreSet
<1>7. CASE Judge(b)
  <2>1. CASE botErr[b] # "ok" /\ WorthRetrying(botErr[b]) /\ TriesLeft(b)
    <3>1. att[b] + 1 \in Attempts  BY <2>1, WorkerParts DEF TriesLeft
    <3>2. /\ StartAttempt(b) /\ UNCHANGED <<botErr, result>>
          /\ used' = [used EXCEPT ![b] = @ + 1]
          BY <1>7, <2>1 DEF Judge
    <3>3. \A c \in Bots : used'[c] \in 0..TriesFor(c) /\ Locks(c)' \in 0..Relocks
          BY <2>1, <3>1, <3>2, StartedTyped, WorkerParts DEF TriesLeft
    <3>4. TypeOK'
          BY ONLY <1>7, <2>1, <3>1, <3>2, <3>3, StartedTyped, Typed
             DEF Judge, Typed, TypeOK, runVars, gateVars
    <3>5. LocksBounded' /\ (\A c \in Writes : bot[c] \notin {"locked", "unlockwait"})'
          BY <2>1, <3>1, <3>2, StartedTyped, WorkerParts DEF TriesLeft
    <3> QED  BY <3>4, <3>5
  <2>2. CASE ~(botErr[b] # "ok" /\ WorthRetrying(botErr[b]) /\ TriesLeft(b))
        BY <1>7, <2>2 DEF Judge
  <2> QED  BY <2>1, <2>2
<1>8. CASE MaxRuntime(b)     BY <1>8 DEF MaxRuntime
<1> QED  BY <1>1, <1>2, <1>3, <1>4, <1>5, <1>6, <1>7, <1>8 DEF Bot

\* So does every step of the run.
LEMMA TypedStep == Typed /\ [Next]_vars => Typed'
<1> SUFFICES ASSUME Typed, [Next]_vars PROVE Typed'
    OBVIOUS
<1> USE DEF Typed, TypeOK, LocksBounded, Status, TerminalStatus, Answers, Locks, Current,
        runVars, gateVars, workerVars, botVars
<1>1. CASE \E w \in Workers : Worker(w) \/ GateTimeout(w)  BY <1>1, TypedWorker
<1>2. CASE \E b \in Bots : Bot(b) \/ MaxRuntime(b)         BY <1>2, TypedBot
<1>3. CASE \E w \in Workers, a \in {"yes", "no"} : Decide(w, a)
      BY <1>3 DEF Decide, CanDecide
<1>4. CASE BotsFinished  BY <1>4 DEF BotsFinished
<1>5. CASE RecordError   BY <1>5 DEF RecordError
<1>6. CASE EndRun        BY <1>6 DEF EndRun, SweepGates
<1>7. CASE Persist       BY <1>7 DEF Persist
<1>8. CASE \E p \in Stoppers : PressStop(p)
  <2> PICK p \in Stoppers : PressStop(p)  BY <1>8
  <2>1. CASE Terminal   BY <2>1 DEF PressStop
  <2>2. CASE ~Terminal  BY <2>2 DEF PressStop
  <2> QED  BY <2>1, <2>2
<1>9. CASE \E p \in Stoppers : CancelContext(p)    BY <1>9 DEF CancelContext
<1>10. CASE \E p \in Stoppers : ReleaseApprovals(p) BY <1>10 DEF ReleaseApprovals, SweepGates
<1>11. CASE UNCHANGED vars  BY <1>11 DEF vars
<1> QED
    BY <1>1, <1>2, <1>3, <1>4, <1>5, <1>6, <1>7, <1>8, <1>9, <1>10, <1>11
    DEF Next, Executor, Idle

\* Every variable of the model stays in its type: in particular no bot is
\* attempted more often than its retries and its vault waits allow.
THEOREM RunTypeOK == Spec => []TypeOK
<1>1. Typed => TypeOK  BY DEF Typed
<1> QED  BY <1>1, TypedInit, TypedStep, PTL DEF Spec

-----------------------------------------------------------------------------
(* Gates.                                                                  *)

Fresh(w) == /\ w \notin approvals /\ w \notin decided /\ w \notin closed
            /\ buf[w] = "none" /\ answer[w] = "none"

\* An answer travels from the person to the write: from answer to the
\* channel, to the local of the waiter, to the step behind the gate.
AnswersTraced ==
    \A w \in Workers :
        /\ pc[w] \in {"off", "work"} => Fresh(w)
        /\ answer[w] # "none" => w \in decided
        /\ buf[w] # "none" => answer[w] = buf[w]
        /\ pc[w] = "resume" => got[w] = answer[w] /\ got[w] # "none"
        /\ w[1] \in Gated /\ (pc[w] \in {"act", "acted"} \/ w \in wrote) => answer[w] = "yes"

\* The attempts a bot has not reached are unused, those it has left have
\* returned or been abandoned.
AttemptsLeft ==
    \A b \in Bots, n \in Attempts :
        /\ n > att[b] => pc[<<b, n>>] = "off"
        /\ n < att[b] \/ (n = att[b] /\ bot[b] # "attempt")
             => pc[<<b, n>>] = "done" \/ <<b, n>> \in abandoned

\* The executor acts when every bot is done, and only it ends the run.
EndOrder ==
    /\ exec # "wait" => \A b \in Bots : bot[b] = "done"
    /\ Terminal => exec \in {"persist", "end"}

IInv == Typed /\ ChannelSafe /\ AnswersTraced /\ AttemptsLeft /\ EndOrder

\* The inductive invariant holds when the run starts.
LEMMA IInvInit == Init => IInv
<1> SUFFICES ASSUME Init PROVE IInv
    OBVIOUS
<1>1. Typed  BY TypedInit
<1>2. ChannelSafe /\ EndOrder  BY DEF Init, ChannelSafe, EndOrder, Terminal, TerminalStatus
<1>3. AnswersTraced  BY DEF Init, AnswersTraced, Fresh
<1>4. AttemptsLeft
      BY BoundsAssumption DEF Init, AttemptsLeft, Workers, Attempts
<1> QED  BY <1>1, <1>2, <1>3, <1>4 DEF IInv

\* A step of a worker, or the timeout of its gate, keeps the invariant.
LEMMA WorkerStep ==
  ASSUME IInv, NEW w \in Workers, Worker(w) \/ GateTimeout(w)
  PROVE  ChannelSafe' /\ AnswersTraced' /\ AttemptsLeft' /\ EndOrder'
<1> USE DEF IInv, Typed, TypeOK, ChannelSafe, AnswersTraced, Fresh, Return,
        runVars, gateVars, workerVars, botVars
<1>1. ChannelSafe'
      BY DEF Worker, GiveUp, Proceed, OpenGate, Announce, Receive, Resume, AfterAnswer,
             FindClosed, Write, Finish, GateTimeout
<1>2. AnswersTraced'
  <2>1. CASE GiveUp(w)      BY <2>1 DEF GiveUp
  <2>2. CASE Proceed(w)     BY <2>2 DEF Proceed
  <2>3. CASE OpenGate(w)    BY <2>3 DEF OpenGate
  <2>4. CASE Announce(w)    BY <2>4 DEF Announce
  <2>5. CASE Receive(w)     BY <2>5 DEF Receive
  <2>6. CASE Resume(w)      BY <2>6 DEF Resume, AfterAnswer
  <2>7. CASE FindClosed(w)  BY <2>7 DEF FindClosed
  <2>8. CASE Write(w)       BY <2>8 DEF Write
  <2>9. CASE Finish(w)      BY <2>9 DEF Finish
  <2>10. CASE GateTimeout(w) BY <2>10 DEF GateTimeout
  <2> QED  BY <2>1, <2>2, <2>3, <2>4, <2>5, <2>6, <2>7, <2>8, <2>9, <2>10 DEF Worker
<1>3. /\ pc[w] \notin {"off", "done"}
      /\ UNCHANGED <<att, bot, abandoned, exec>>
      /\ \A v \in Workers \ {w} : pc'[v] = pc[v]
      /\ Terminal' => Terminal
  <2>1. CASE Resume(w)
    <3>1. status' \in {"running", status}  BY <2>1 DEF Resume
    <3> QED  BY <2>1, <3>1 DEF Resume, AfterAnswer, Terminal, TerminalStatus
  <2>2. CASE ~Resume(w)
        BY <2>2 DEF Worker, GiveUp, Proceed, OpenGate, Announce, Receive, FindClosed, Write,
                    Finish, GateTimeout, Terminal, TerminalStatus
  <2> QED  BY <2>1, <2>2
<1>4. AttemptsLeft'
  <2> SUFFICES ASSUME NEW b \in Bots, NEW n \in Attempts
               PROVE  /\ n > att[b] => pc'[<<b, n>>] = "off"
                      /\ n < att[b] \/ (n = att[b] /\ bot[b] # "attempt")
                           => pc'[<<b, n>>] = "done" \/ <<b, n>> \in abandoned
      BY <1>3 DEF AttemptsLeft
  <2>1. <<b, n>> \in Workers  BY WorkerParts
  <2>2. CASE <<b, n>> = w   BY <1>3, <2>1, <2>2 DEF AttemptsLeft
  <2>3. CASE <<b, n>> # w   BY <1>3, <2>1, <2>3 DEF AttemptsLeft
  <2> QED  BY <2>2, <2>3
<1>5. EndOrder'
      BY <1>3 DEF EndOrder
<1> QED  BY <1>1, <1>2, <1>4, <1>5

\* A step of a bot keeps the invariant.
LEMMA BotStep ==
  ASSUME IInv, NEW b \in Bots, Bot(b) \/ MaxRuntime(b)
  PROVE  ChannelSafe' /\ AnswersTraced' /\ AttemptsLeft' /\ EndOrder'
<1> USE DEF IInv, Typed, TypeOK, runVars, gateVars, workerVars, botVars
<1>1. UNCHANGED <<gateVars, wrote, got, exec>> /\ (Terminal' => Terminal) /\ bot[b] # "done"
      BY DEF Bot, AttemptReturns, CtxDone, MaxRuntime, Abandon, AwaitUnlock, UnlockPoll,
             RestoreRead, RestoreSet, Judge, Terminal, TerminalStatus
<1>2. ChannelSafe'  BY <1>1 DEF ChannelSafe
<1>3. EndOrder'     BY <1>1 DEF EndOrder
\* A bot that starts its next attempt finds that attempt's worker unused ...
<1>4. CASE StartAttempt(b) /\ bot[b] # "attempt" /\ UNCHANGED abandoned
  <2> DEFINE next == <<b, att[b] + 1>>
  <2>1. att[b] + 1 \in Attempts
        BY <1>4, TypedBot DEF StartAttempt
  <2>2. next \in Workers /\ pc[next] = "off" /\ pc' = [pc EXCEPT ![next] = "work"]
    <3>1. att[b] + 1 > att[b]  BY <2>1, WorkerParts
    <3> QED  BY <1>4, <2>1, <3>1, WorkerParts DEF StartAttempt, AttemptsLeft
  <2>3. AnswersTraced'
        BY <1>1, <2>2 DEF AnswersTraced, Fresh
  <2>4. AttemptsLeft'
    <3> SUFFICES ASSUME NEW c \in Bots, NEW n \in Attempts
                 PROVE  /\ n > att'[c] => pc'[<<c, n>>] = "off"
                        /\ n < att'[c] \/ (n = att'[c] /\ bot'[c] # "attempt")
                             => pc'[<<c, n>>] = "done" \/ <<c, n>> \in abandoned'
        BY DEF AttemptsLeft
    <3>1. <<c, n>> \in Workers /\ att[c] \in Nat /\ n \in Nat
          BY WorkerParts
    <3>2. CASE c # b
      <4>1. att'[c] = att[c] /\ bot'[c] = bot[c] /\ pc'[<<c, n>>] = pc[<<c, n>>]
            BY <1>4, <2>2, <3>1, <3>2 DEF StartAttempt
      <4> QED  BY <1>4, <4>1 DEF AttemptsLeft
    <3>3. CASE c = b
      <4>1. att'[b] = att[b] + 1 /\ bot'[b] = "attempt"
            BY <1>4, <2>1, StartedTyped
      <4>2. n # att[b] + 1 => pc'[<<b, n>>] = pc[<<b, n>>]
            BY <2>2, <3>1, <3>3
      <4>3. n > att'[b] => pc'[<<b, n>>] = "off"
            BY <3>1, <3>3, <4>1, <4>2 DEF AttemptsLeft
      <4>4. n < att'[b] => pc'[<<b, n>>] = "done" \/ <<b, n>> \in abandoned'
        <5> SUFFICES ASSUME n < att'[b]
                     PROVE  pc[<<b, n>>] = "done" \/ <<b, n>> \in abandoned
            BY <1>4, <3>1, <3>3, <4>1, <4>2
        <5>1. n < att[b] \/ n = att[b]
              BY <3>1, <3>3, <4>1
        <5> HIDE DEF Typed
        <5>2. AttemptsLeft  OBVIOUS
        <5> QED  BY <1>4, <5>1, <5>2 DEF AttemptsLeft
      <4> QED  BY <3>3, <4>1, <4>3, <4>4
    <3> QED  BY <3>2, <3>3
  <2> QED  BY <1>2, <1>3, <2>3, <2>4
\* ... and every other step of a bot leaves the workers alone.
<1>5. CASE UNCHANGED <<pc, att>> /\ \/ bot[b] # "attempt" /\ bot'[b] # "attempt" /\ UNCHANGED abandoned
                                    \/ abandoned' = abandoned \cup {Current(b)}
                                    \/ pc[Current(b)] = "done" /\ UNCHANGED abandoned
  <2>1. AnswersTraced'  BY <1>1, <1>5 DEF AnswersTraced, Fresh
  <2>2. AttemptsLeft'
    <3> SUFFICES ASSUME NEW c \in Bots, NEW n \in Attempts
                 PROVE  /\ n > att'[c] => pc'[<<c, n>>] = "off"
                        /\ n < att'[c] \/ (n = att'[c] /\ bot'[c] # "attempt")
                             => pc'[<<c, n>>] = "done" \/ <<c, n>> \in abandoned'
        BY DEF AttemptsLeft
    <3>1. bot' \in [Bots -> {"attempt", "locked", "unlockwait", "restore",
                             "restoreset", "judge", "done"}] /\ abandoned \subseteq abandoned'
          BY <1>5, TypedBot
    <3>2. CASE c # b
      <4>1. bot'[c] = bot[c]
            BY <3>2 DEF Bot, AttemptReturns, CtxDone, MaxRuntime, Abandon, Settle, AwaitUnlock,
                        UnlockPoll, RestoreRead, RestoreSet, Judge, StartAttempt
      <4> QED  BY <1>5, <3>1, <4>1 DEF AttemptsLeft
    <3>3. CASE c = b
          BY <1>5, <3>1, <3>3, WorkerParts DEF AttemptsLeft, Current
    <3> QED  BY <3>2, <3>3
  <2> QED  BY <1>2, <1>3, <2>1, <2>2
<1> QED
  BY <1>4, <1>5 DEF Bot, AttemptReturns, CtxDone, MaxRuntime, Abandon, Settle, AwaitUnlock,
                    UnlockPoll, RestoreRead, RestoreSet, Judge

\* So does every step of the run.
LEMMA IInvStep == IInv /\ [Next]_vars => IInv'
<1> SUFFICES ASSUME IInv, [Next]_vars PROVE IInv'
    OBVIOUS
<1>0. Typed'  BY TypedStep DEF IInv
<1> USE DEF IInv, Typed, TypeOK, runVars, gateVars, workerVars, botVars
<1>1. CASE \E w \in Workers : Worker(w) \/ GateTimeout(w)  BY <1>0, <1>1, WorkerStep
<1>2. CASE \E b \in Bots : Bot(b) \/ MaxRuntime(b)         BY <1>0, <1>2, BotStep
<1>3. CASE \E w \in Workers, a \in {"yes", "no"} : Decide(w, a)
  <2> PICK g \in Workers, a \in {"yes", "no"} : Decide(g, a)  BY <1>3
  <2>1. /\ g \in approvals /\ g \notin decided
        /\ UNCHANGED <<pc, got, wrote, att, bot, abandoned, exec, status, approvals, closed>>
        BY DEF Decide, CanDecide
  <2>2. ChannelSafe'    BY DEF Decide, CanDecide, ChannelSafe
  <2>3. AnswersTraced'  BY <2>1 DEF Decide, AnswersTraced, Fresh
  <2>4. AttemptsLeft' /\ EndOrder'  BY <2>1 DEF AttemptsLeft, EndOrder, Terminal
  <2> QED  BY <1>0, <2>2, <2>3, <2>4
\* The executor and Stop touch no worker; they may empty the list of gates.
<1>4. ASSUME /\ UNCHANGED <<pc, got, wrote, att, bot, abandoned, decided, buf, answer>>
             /\ UNCHANGED <<approvals, closed>> \/ SweepGates
      PROVE  ChannelSafe' /\ AnswersTraced' /\ AttemptsLeft'
      BY <1>4 DEF SweepGates, ChannelSafe, AnswersTraced, Fresh, AttemptsLeft
<1>5. CASE Executor
  <2>1. ChannelSafe' /\ AnswersTraced' /\ AttemptsLeft'
        BY <1>4, <1>5 DEF Executor, BotsFinished, RecordError, EndRun, Persist
  <2>2. EndOrder'
        BY <1>5 DEF Executor, BotsFinished, RecordError, EndRun, Persist, EndOrder, Terminal,
                    TerminalStatus
  <2> QED  BY <1>0, <2>1, <2>2
<1>6. CASE \E p \in Stoppers : PressStop(p) \/ CancelContext(p) \/ ReleaseApprovals(p)
  <2>1. UNCHANGED <<pc, got, wrote, att, bot, abandoned, decided, buf, answer, exec, status>>
        /\ (UNCHANGED <<approvals, closed>> \/ SweepGates)
        BY <1>6 DEF PressStop, CancelContext, ReleaseApprovals
  <2> QED  BY <1>0, <1>4, <2>1 DEF EndOrder, Terminal
<1>7. CASE UNCHANGED vars
  <2>1. UNCHANGED <<pc, got, wrote, att, bot, abandoned, decided, buf, answer, exec, status,
                    approvals, closed>>
        BY <1>7 DEF vars
  <2> QED  BY <1>0, <1>4, <2>1 DEF EndOrder, Terminal
<1> QED  BY <1>1, <1>2, <1>3, <1>5, <1>6, <1>7 DEF Next, Idle

\* The inductive invariant holds of every run: channels, answers, attempts
\* and the order of the run's end.
THEOREM RunInvariant == Spec => []IInv
<1> QED  BY IInvInit, IInvStep, PTL DEF Spec

-----------------------------------------------------------------------------
(* Results.                                                                *)

\* Decide never panics on a closed channel, never blocks holding Run.mu, and
\* no sweep closes a channel twice, for any number of gates and of people.
THEOREM RunChannelSafe == Spec => []ChannelSafe
<1>1. IInv => ChannelSafe  BY DEF IInv
<1> QED  BY <1>1, RunInvariant, PTL

\* Nothing behind an inline gate is written without that gate's yes.
THEOREM RunNoWriteWithoutYes == Spec => []NoWriteWithoutYes
<1>1. IInv => NoWriteWithoutYes
      BY DEF IInv, Typed, TypeOK, AnswersTraced, NoWriteWithoutYes
<1> QED  BY <1>1, RunInvariant, PTL

\* The answer to a gate, once given, is never replaced.
THEOREM RunAnsweredOnce == Spec => AnsweredOnce
<1>1. IInv /\ [Next]_vars
        => [\A w \in Workers : answer[w] # "none" => answer'[w] = answer[w]]_vars
  <2> SUFFICES ASSUME IInv, Next, NEW w \in Workers, answer[w] # "none"
               PROVE  answer'[w] = answer[w]
      OBVIOUS
  <2>1. w \in decided  BY DEF IInv, AnswersTraced
  <2>2. CASE \E g \in Workers, a \in {"yes", "no"} : Decide(g, a)
        BY <2>1, <2>2 DEF Decide, CanDecide, IInv, Typed, TypeOK
  <2>3. CASE ~\E g \in Workers, a \in {"yes", "no"} : Decide(g, a)
    <3>1. UNCHANGED answer
      <4>1. CASE \E v \in Workers : Worker(v) \/ GateTimeout(v)
            BY <4>1 DEF Worker, GiveUp, Proceed, OpenGate, Announce, Receive, Resume, FindClosed,
                        Write, Finish, GateTimeout, gateVars
      <4>2. CASE \E b \in Bots : Bot(b) \/ MaxRuntime(b)
            BY <4>2 DEF Bot, AttemptReturns, CtxDone, MaxRuntime, Abandon, AwaitUnlock, UnlockPoll,
                        RestoreRead, RestoreSet, Judge, gateVars
      <4>3. CASE Executor
            BY <4>3 DEF Executor, BotsFinished, RecordError, EndRun, Persist, gateVars
      <4>4. CASE \E p \in Stoppers : PressStop(p) \/ CancelContext(p) \/ ReleaseApprovals(p)
            BY <4>4 DEF PressStop, CancelContext, ReleaseApprovals, gateVars
      <4>5. CASE Idle
            BY <4>5 DEF Idle, vars, gateVars
      <4> QED  BY <2>3, <4>1, <4>2, <4>3, <4>4, <4>5 DEF Next
    <3> QED  BY <3>1
  <2> QED  BY <2>2, <2>3
<1> QED  BY <1>1, RunInvariant, PTL DEF Spec, AnsweredOnce

\* Whoever changes the status of an ended run is an abandoned worker.
THEOREM RunOnlyAbandonedRevive == Spec => OnlyAbandonedRevive
<1>1. IInv /\ [Next]_vars
        => [Terminal /\ status' # status => \E w \in abandoned : pc[w] # pc'[w]]_vars
  <2> SUFFICES ASSUME IInv, Next, Terminal, status' # status
               PROVE  \E w \in abandoned : pc[w] # pc'[w]
      OBVIOUS
  <2>1. exec \in {"persist", "end"} /\ \A b \in Bots : bot[b] = "done"
        BY DEF IInv, EndOrder
  <2>2. CASE \E w \in Workers : Worker(w) \/ GateTimeout(w)
    <3> PICK w \in Workers : Worker(w) \/ GateTimeout(w)  BY <2>2
    <3>1. pc[w] \notin {"off", "done"} /\ pc'[w] # pc[w]
      <4> USE DEF IInv, Typed, TypeOK, Return
      <4>1. CASE Resume(w)  BY <4>1 DEF Resume, AfterAnswer
      <4>2. CASE ~Resume(w)
            BY <4>2 DEF Worker, GiveUp, Proceed, OpenGate, Announce, Receive, FindClosed, Write,
                        Finish, GateTimeout
      <4> QED  BY <4>1, <4>2
    <3>2. w \in abandoned
      <4>1. w[1] \in Bots /\ w[2] \in Attempts /\ w = <<w[1], w[2]>>
            BY WorkerParts
      <4>2. att[w[1]] \in Nat /\ w[2] \in Nat /\ bot[w[1]] = "done"
            BY <2>1, <4>1, WorkerParts DEF IInv, Typed, TypeOK
      <4>3. /\ w[2] > att[w[1]] => pc[w] = "off"
            /\ w[2] < att[w[1]] \/ w[2] = att[w[1]] => pc[w] = "done" \/ w \in abandoned
            BY <4>1, <4>2 DEF IInv, AttemptsLeft
      <4> QED  BY <3>1, <4>2, <4>3
    <3> QED  BY <3>1, <3>2
  <2>3. CASE \E b \in Bots : Bot(b) \/ MaxRuntime(b)
        BY <2>1, <2>3 DEF Bot, AttemptReturns, CtxDone, MaxRuntime, Abandon, AwaitUnlock,
                          UnlockPoll, RestoreRead, RestoreSet, Judge
  <2>4. CASE Executor
        BY <2>1, <2>4 DEF Executor, BotsFinished, RecordError, EndRun, Persist, runVars
  <2>5. CASE \/ \E w \in Workers, a \in {"yes", "no"} : Decide(w, a)
             \/ \E p \in Stoppers : PressStop(p) \/ CancelContext(p) \/ ReleaseApprovals(p)
             \/ Idle
        BY <2>5 DEF Decide, PressStop, CancelContext, ReleaseApprovals, Idle, vars, runVars
  <2> QED  BY <2>2, <2>3, <2>4, <2>5 DEF Next
<1> QED  BY <1>1, RunInvariant, PTL DEF Spec, OnlyAbandonedRevive

-----------------------------------------------------------------------------
(* Writes and history.                                                     *)

\* A bot that writes has one attempt, and no attempt writes before its bot
\* has reached it.
OneWriter ==
    /\ \A b \in Writes : att[b] = 1
    /\ \A w \in wrote : w[2] <= att[w[1]]

\* A failure has its reason before it shows, and the row is the last the
\* executor does.
FailureExplained ==
    /\ exec = "failed" \/ status = "failed" => err # "none"
    /\ history # NoRow => exec = "end"

\* A step of a worker, or the timeout of its gate, writes only in an attempt
\* its bot has reached.
LEMMA WriterWorker ==
  ASSUME IInv, OneWriter, NEW w \in Workers, Worker(w) \/ GateTimeout(w)
  PROVE  OneWriter'
<1>1. UNCHANGED att /\ wrote' \in {wrote, wrote \cup {w}} /\ (wrote' # wrote => pc[w] = "act")
      BY DEF Worker, GiveUp, Proceed, OpenGate, Announce, Receive, Resume, FindClosed, Write,
             Finish, GateTimeout, botVars
<1>2. pc[w] = "act" => w[2] <= att[w[1]]
  <2>1. w[1] \in Bots /\ w[2] \in Attempts /\ w = <<w[1], w[2]>>  BY WorkerParts
  <2>2. w[2] \in Nat /\ att[w[1]] \in Nat  BY <2>1, WorkerParts DEF IInv, Typed, TypeOK
  <2>3. w[2] > att[w[1]] => pc[w] = "off"  BY <2>1 DEF IInv, AttemptsLeft
  <2> QED  BY <2>2, <2>3
<1> QED  BY <1>1, <1>2 DEF OneWriter

\* A step of a bot starts no second attempt of one that writes.
LEMMA WriterBot ==
  ASSUME IInv, OneWriter, NEW b \in Bots, Bot(b) \/ MaxRuntime(b)
  PROVE  OneWriter'
<1>1. UNCHANGED wrote
      BY DEF Bot, AttemptReturns, CtxDone, MaxRuntime, Abandon, AwaitUnlock, UnlockPoll,
             RestoreRead, RestoreSet, Judge, workerVars
<1>2. UNCHANGED att \/ (b \notin Writes /\ att' = [att EXCEPT ![b] = @ + 1])
  <2>1. b \in Writes => bot[b] # "unlockwait" /\ ~TriesLeft(b)
    <3>1. b \in Writes => used[b] \in 0..0  BY DEF IInv, Typed, TypeOK, TriesFor
    <3>2. b \in Writes => ~(used[b] < 0)    BY <3>1
    <3> QED  BY <3>2 DEF IInv, Typed, TriesLeft, TriesFor
  <2>2. CASE UnlockPoll(b)  BY <2>1, <2>2 DEF UnlockPoll, StartAttempt
  <2>3. CASE Judge(b)       BY <2>1, <2>3 DEF Judge, StartAttempt
  <2>4. CASE ~UnlockPoll(b) /\ ~Judge(b)
        BY <2>4 DEF Bot, AttemptReturns, CtxDone, MaxRuntime, Abandon, Settle, AwaitUnlock,
                    RestoreRead, RestoreSet
  <2> QED  BY <2>2, <2>3, <2>4
<1>3. att \in [Bots -> Attempts] /\ (\A c \in Bots : att[c] \in Nat) /\ Writes \subseteq Bots
      BY WorkerParts, SubsetsAssumption DEF IInv, Typed, TypeOK
<1>4. \A c \in Writes : att'[c] = 1
      BY <1>2, <1>3 DEF OneWriter
<1>5. \A w \in wrote : w[2] <= att'[w[1]]
  <2> SUFFICES ASSUME NEW w \in wrote PROVE w[2] <= att'[w[1]]
      OBVIOUS
  <2>1. w \in Workers  BY DEF IInv, Typed, TypeOK
  <2>2. w[1] \in Bots /\ w[2] \in Nat  BY <2>1, WorkerParts
  <2>3. w[2] <= att[w[1]]  BY DEF OneWriter
  <2>4. att'[w[1]] = att[w[1]] \/ att'[w[1]] = att[w[1]] + 1  BY <1>2, <1>3, <2>2
  <2> QED  BY <1>3, <2>2, <2>3, <2>4
<1> QED  BY <1>1, <1>4, <1>5 DEF OneWriter

\* Every step of the run leaves a writing bot its one attempt.
LEMMA WriterStep == IInv /\ OneWriter /\ [Next]_vars => OneWriter'
<1> SUFFICES ASSUME IInv, OneWriter, [Next]_vars PROVE OneWriter'
    OBVIOUS
<1>1. CASE \E w \in Workers : Worker(w) \/ GateTimeout(w)  BY <1>1, WriterWorker
<1>2. CASE \E b \in Bots : Bot(b) \/ MaxRuntime(b)         BY <1>2, WriterBot
<1>3. CASE UNCHANGED <<wrote, att>>  BY <1>3 DEF OneWriter
<1> QED
  BY <1>1, <1>2, <1>3
  DEF Next, Decide, Executor, BotsFinished, RecordError, EndRun, Persist, PressStop,
      CancelContext, ReleaseApprovals, Idle, vars, workerVars, botVars

\* What a bot that declares writes has written, it wrote in one attempt,
\* however many bots, retries and people there are.
THEOREM RunWritesOnce == Spec => []WritesOnce
<1>1. Init => OneWriter
      BY SubsetsAssumption DEF Init, OneWriter
<1>2. IInv /\ OneWriter => WritesOnce
  <2> SUFFICES ASSUME IInv, OneWriter, NEW b \in Writes
               PROVE  Cardinality({w \in wrote : w[1] = b}) <= 1
      BY DEF WritesOnce
  <2>1. {w \in wrote : w[1] = b} \subseteq {<<b, 1>>}
    <3> SUFFICES ASSUME NEW w \in wrote, w[1] = b PROVE w = <<b, 1>>
        OBVIOUS
    <3>1. w \in Workers  BY DEF IInv, Typed, TypeOK
    <3>2. w[2] \in 1..(1 + Tries + Relocks) /\ w = <<w[1], w[2]>>
          BY <3>1, WorkerParts DEF Attempts
    <3>3. w[2] <= 1  BY DEF OneWriter
    <3>4. w[2] = 1  BY <3>2, <3>3, BoundsAssumption
    <3> QED  BY <3>2, <3>4
  <2>2. IsFiniteSet({<<b, 1>>}) /\ Cardinality({<<b, 1>>}) = 1  BY FS_Singleton
  <2> QED  BY <2>1, <2>2, FS_Subset
<1> QED  BY <1>1, <1>2, WriterStep, RunInvariant, PTL DEF Spec

\* Once the executor has ended the run, no step makes it read as ended anew:
\* a status that was revived stays so.
LEMMA EndedOnce ==
  ASSUME IInv, [Next]_vars
  PROVE  /\ exec \in {"persist", "end"} => exec' \in {"persist", "end"}
         /\ ~EndRun => (Terminal' => Terminal /\ UNCHANGED status)
         /\ exec # "failing" => UNCHANGED err
         /\ Terminal => UNCHANGED stopped
<1> USE DEF Terminal, TerminalStatus, runVars
<1>1. CASE \E w \in Workers : Worker(w) \/ GateTimeout(w)
  <2> PICK w \in Workers : Worker(w) \/ GateTimeout(w)  BY <1>1
  <2>1. UNCHANGED <<exec, err, stopped>> /\ status' \in {status, "awaiting_approval", "running"}
    <3>1. CASE Resume(w)  BY <3>1 DEF Resume
    <3>2. CASE ~Resume(w)
          BY <3>2 DEF Worker, GiveUp, Proceed, OpenGate, Announce, Receive, FindClosed, Write,
                      Finish, GateTimeout
    <3> QED  BY <3>1, <3>2
  <2> QED  BY <2>1
<1>2. CASE \E b \in Bots : Bot(b) \/ MaxRuntime(b)
  <2>1. UNCHANGED <<exec, err, stopped>> /\ status' \in {status, "awaiting_unlock", "running"}
        BY <1>2 DEF Bot, AttemptReturns, CtxDone, MaxRuntime, Abandon, AwaitUnlock, UnlockPoll,
                    RestoreRead, RestoreSet, Judge
  <2> QED  BY <2>1
<1>3. CASE Executor
      BY <1>3 DEF Executor, BotsFinished, RecordError, EndRun, Persist
<1>4. CASE \E p \in Stoppers : PressStop(p)
      BY <1>4 DEF PressStop
<1>5. CASE UNCHANGED <<exec, err, stopped, status>>
      BY <1>5
<1> QED
  BY <1>1, <1>2, <1>3, <1>4, <1>5 DEF Next, Decide, CancelContext, ReleaseApprovals, Idle, vars

\* The row agrees with the run when it is written, and from then on.
LEMMA HistoryStep ==
  IInv /\ FailureExplained /\ HistoryAgrees /\ [Next]_vars => FailureExplained' /\ HistoryAgrees'
<1> SUFFICES ASSUME IInv, FailureExplained, HistoryAgrees, [Next]_vars
             PROVE  FailureExplained' /\ HistoryAgrees'
    OBVIOUS
<1> USE DEF FailureExplained, HistoryAgrees
<1>1. CASE Persist
      BY <1>1 DEF Persist, Terminal, TerminalStatus
<1>2. CASE EndRun
      BY <1>2 DEF EndRun
<1>3. CASE RecordError
      BY <1>3 DEF RecordError, Terminal
<1>4. CASE BotsFinished
      BY <1>4 DEF BotsFinished, Terminal, runVars
<1>5. CASE ~Executor
  <2>1. UNCHANGED <<history, exec, err>>
        BY <1>5 DEF Next, Worker, GiveUp, Proceed, OpenGate, Announce, Receive, Resume, FindClosed,
                    Write, Finish, GateTimeout, Bot, AttemptReturns, CtxDone, MaxRuntime, Abandon,
                    AwaitUnlock, UnlockPoll, RestoreRead, RestoreSet, Judge, Decide, PressStop,
                    CancelContext, ReleaseApprovals, Idle, vars, runVars
  <2>2. (Terminal' => Terminal /\ UNCHANGED status) /\ (Terminal => UNCHANGED stopped)
        BY <1>5, EndedOnce DEF Executor
  <2>3. status' = "failed" => status = "failed"
        BY <2>2 DEF Terminal, TerminalStatus
  <2> QED  BY <2>1, <2>2, <2>3
<1> QED  BY <1>1, <1>2, <1>3, <1>4, <1>5 DEF Executor

\* What history says of a run is what the API says of it for as long as it
\* reads as ended, and a failure has its reason, whoever acts after the end.
THEOREM RunHistoryAgrees == Spec => []HistoryAgrees
<1>1. Init => FailureExplained /\ HistoryAgrees
      BY DEF Init, FailureExplained, HistoryAgrees
<1> QED  BY <1>1, HistoryStep, RunInvariant, PTL DEF Spec

-----------------------------------------------------------------------------
(* What a run needs to end, besides fairness: nobody waits for what cannot  *)
(* come any more, and every actor's steps are counted.                      *)

\* A worker that neither a person nor a timer has to wake.
WorkerCan(w) ==
    \/ pc[w] \in {"announce", "resume"}
    \/ pc[w] \in {"work", "act", "acted"} /\ RunsSteps(w)
    \/ pc[w] = "await" /\ (buf[w] # "none" \/ w \in closed)

BotCan(b) ==
    \/ bot[b] \in {"locked", "unlockwait", "restore", "restoreset", "judge"}
    \/ bot[b] = "attempt" /\ (pc[Current(b)] = "done" \/ cancelled)

ExecCan ==
    \/ exec \in {"failing", "failed", "succeeding", "persist"}
    \/ exec = "wait" /\ \A b \in Bots : bot[b] = "done"

\* A gate that is shown to people and has no answer yet.
Open(w) == w \in approvals /\ w \notin decided

\* Whoever waits at a gate is shown there, or has an answer or a closed channel
\* to find: no sweep, timeout or answer takes a gate off the list and leaves
\* its waiter behind, abandoned or not.
NobodyWaitsUnseen == \A w \in Workers : pc[w] = "await" => Open(w) \/ WorkerCan(w)

\* A run that has not ended is held up by nothing but an open gate of a bot's
\* current attempt, and once its context is cancelled by that neither.
OnlyGatesHold ==
    exec # "end" =>
        \/ ExecCan
        \/ \E b \in Bots : BotCan(b)
        \/ \E w \in Workers : WorkerCan(w)
        \/ ~cancelled /\ \E b \in Bots : bot[b] = "attempt" /\ Open(Current(b))

\* The steps each has left, at most. An attempt that has not started yet
\* counts its start.
WorkerLeft(w) ==
    CASE pc[w] = "off" -> 8 [] pc[w] = "work" -> 7 [] pc[w] = "announce" -> 6
      [] pc[w] = "await" -> 5 [] pc[w] = "resume" -> 4 [] pc[w] = "act" -> 3
      [] pc[w] = "acted" -> 2 [] OTHER -> 0

BotRank(p) ==
    CASE p = "attempt" -> 7 [] p = "locked" -> 6 [] p = "unlockwait" -> 5
      [] p = "restore" -> 4 [] p = "restoreset" -> 3 [] p = "judge" -> 2 [] OTHER -> 0

BotLeft(b) == 8 * (1 + Tries + Relocks - att[b]) + BotRank(bot[b])

ExecLeft ==
    CASE exec = "wait" -> 4 [] exec = "failing" -> 3 [] exec \in {"failed", "succeeding"} -> 2
      [] exec = "persist" -> 1 [] OTHER -> 0

\* A step of a worker, a bot or the executor brings it nearer to its end, and
\* nothing that anybody does takes one of them back.
RunStepsCounted ==
    [][/\ \A w \in Workers : /\ Worker(w) \/ GateTimeout(w) => WorkerLeft(w)' < WorkerLeft(w)
                             /\ WorkerLeft(w)' <= WorkerLeft(w)
       /\ \A b \in Bots : /\ Bot(b) \/ MaxRuntime(b) => BotLeft(b)' < BotLeft(b)
                          /\ BotLeft(b)' <= BotLeft(b)
       /\ Executor => ExecLeft' < ExecLeft
       /\ ExecLeft' <= ExecLeft]_vars

\* A waiter is on the list or its channel is closed, a decided one has its
\* answer in the channel, and an attempt a bot waits for runs.
WaitInv ==
    /\ \A w \in Workers : pc[w] \in {"announce", "await"} =>
          /\ w \in approvals \/ w \in closed
          /\ w \in decided => buf[w] # "none"
    /\ \A b \in Bots : bot[b] = "attempt" => pc[Current(b)] # "off" /\ Current(b) \notin abandoned
    /\ \A b \in Bots, n \in Attempts : n > att[b] => <<b, n>> \notin abandoned

\* The facts about types that the steps below need.
LEMMA RunShapes ==
    ASSUME IInv
    PROVE  /\ pc \in [Workers -> {"off", "work", "announce", "await", "resume", "act", "acted", "done"}]
           /\ bot \in [Bots -> {"attempt", "locked", "unlockwait", "restore", "restoreset", "judge", "done"}]
           /\ buf \in [Workers -> Answers] /\ att \in [Bots -> Attempts]
           /\ approvals \subseteq Workers
           /\ exec \in {"wait", "failing", "failed", "succeeding", "persist", "end"}
BY DEF IInv, Typed, TypeOK

\* Where each step of a worker leads, and what it does to its own gate.
LEMMA WorkerMoves ==
    ASSUME IInv, NEW w \in Workers, Worker(w) \/ GateTimeout(w)
    PROVE  /\ UNCHANGED <<decided, closed, abandoned, bot, att, exec>>
           /\ \A v \in Workers : v # w =>
                 pc'[v] = pc[v] /\ buf'[v] = buf[v] /\ (v \in approvals => v \in approvals')
           /\ \/ pc[w] = "work" /\ pc'[w] \in {"act", "done"}
              \/ pc[w] = "work" /\ pc'[w] = "announce" /\ w \in approvals' /\ w \notin decided
              \/ pc[w] = "announce" /\ pc'[w] = "await" /\ UNCHANGED <<approvals, buf>>
              \/ pc[w] = "await" /\ pc'[w] \in {"resume", "done"}
              \/ pc[w] = "resume" /\ pc'[w] \in {"act", "done"}
              \/ pc[w] = "act" /\ pc'[w] \in {"acted", "done"}
              \/ pc[w] = "acted" /\ pc'[w] = "done"
<1>0. /\ pc \in [Workers -> {"off", "work", "announce", "await", "resume", "act", "acted", "done"}]
      /\ buf \in [Workers -> Answers]
      /\ pc[w] \in {"off", "work"} => w \notin decided
  BY RunShapes DEF IInv, AnswersTraced, Fresh
<1> USE DEF Return, runVars, gateVars, workerVars, botVars
<1>1. CASE GiveUp(w)      BY <1>0, <1>1 DEF GiveUp
<1>2. CASE Proceed(w)     BY <1>0, <1>2 DEF Proceed
<1>3. CASE OpenGate(w)    BY <1>0, <1>3 DEF OpenGate
<1>4. CASE Announce(w)    BY <1>0, <1>4 DEF Announce
<1>5. CASE Receive(w)     BY <1>0, <1>5 DEF Receive
<1>6. CASE Resume(w)      BY <1>0, <1>6 DEF Resume, AfterAnswer
<1>7. CASE FindClosed(w)  BY <1>0, <1>7 DEF FindClosed
<1>8. CASE Write(w)       BY <1>0, <1>8 DEF Write
<1>9. CASE Finish(w)      BY <1>0, <1>9 DEF Finish
<1>10. CASE GateTimeout(w) BY <1>0, <1>10 DEF GateTimeout
<1> QED BY <1>1, <1>2, <1>3, <1>4, <1>5, <1>6, <1>7, <1>8, <1>9, <1>10 DEF Worker

\* Where each step of a bot leads: on, or to its next attempt.
LEMMA BotMoves ==
    ASSUME IInv, NEW b \in Bots, Bot(b) \/ MaxRuntime(b)
    PROVE  /\ UNCHANGED <<approvals, decided, closed, buf, exec>>
           /\ \A c \in Bots : c # b => bot'[c] = bot[c] /\ att'[c] = att[c]
           /\ \/ /\ UNCHANGED <<pc, att>>
                 /\ \/ /\ bot[b] = "attempt" /\ bot'[b] \in {"locked", "restore", "judge"}
                       /\ abandoned' \subseteq abandoned \cup {Current(b)}
                    \/ /\ UNCHANGED abandoned
                       /\ \/ bot[b] = "locked" /\ bot'[b] = "unlockwait"
                          \/ bot[b] = "unlockwait" /\ bot'[b] = "judge"
                          \/ bot[b] = "restore" /\ bot'[b] \in {"judge", "restoreset"}
                          \/ bot[b] = "restoreset" /\ bot'[b] = "judge"
                          \/ bot[b] = "judge" /\ bot'[b] = "done"
              \/ /\ bot[b] \in {"unlockwait", "judge"} /\ bot'[b] = "attempt"
                 /\ UNCHANGED abandoned /\ att[b] + 1 \in Attempts /\ att'[b] = att[b] + 1
                 /\ pc[<<b, att[b] + 1>>] = "off"
                 /\ pc' = [pc EXCEPT ![<<b, att[b] + 1>>] = "work"]
<1>0. /\ bot \in [Bots -> {"attempt", "locked", "unlockwait", "restore", "restoreset", "judge", "done"}]
      /\ att \in [Bots -> Attempts]
  BY RunShapes
<1> USE DEF Settle, Abandon, runVars, gateVars, workerVars, botVars
<1>s. ASSUME StartAttempt(b), bot[b] \in {"unlockwait", "judge"}
      PROVE  /\ bot'[b] = "attempt" /\ att[b] + 1 \in Attempts /\ att'[b] = att[b] + 1
             /\ pc[<<b, att[b] + 1>>] = "off"
             /\ pc' = [pc EXCEPT ![<<b, att[b] + 1>>] = "work"]
             /\ \A c \in Bots : c # b => bot'[c] = bot[c] /\ att'[c] = att[c]
  <2>1. att[b] + 1 \in Attempts
    <3>1. Typed' BY TypedBot DEF IInv
    <3>2. att'[b] = att[b] + 1 BY <1>0, <1>s DEF StartAttempt
    <3> QED BY <3>1, <3>2 DEF Typed, TypeOK
  <2>2. pc[<<b, att[b] + 1>>] = "off"
    <3>1. att[b] + 1 > att[b] BY <1>0, WorkerParts
    <3> QED BY <2>1, <3>1 DEF IInv, AttemptsLeft
  <2> QED BY <1>0, <1>s, <2>1, <2>2 DEF StartAttempt
<1>1. CASE AttemptReturns(b) BY <1>0, <1>1 DEF AttemptReturns
<1>2. CASE CtxDone(b)        BY <1>0, <1>2 DEF CtxDone
<1>3. CASE AwaitUnlock(b)    BY <1>0, <1>3 DEF AwaitUnlock
<1>4. CASE UnlockPoll(b)
  <2>1. CASE stopped   BY <1>0, <1>4, <2>1 DEF UnlockPoll
  <2>2. CASE ~stopped  BY <1>0, <1>4, <1>s, <2>2 DEF UnlockPoll
  <2> QED BY <2>1, <2>2
<1>5. CASE RestoreRead(b)    BY <1>0, <1>5 DEF RestoreRead
<1>6. CASE RestoreSet(b)     BY <1>0, <1>6 DEF RestoreSet
<1>7. CASE Judge(b)
  <2>1. CASE botErr[b] # "ok" /\ WorthRetrying(botErr[b]) /\ TriesLeft(b)
    BY <1>0, <1>7, <1>s, <2>1 DEF Judge
  <2>2. CASE ~(botErr[b] # "ok" /\ WorthRetrying(botErr[b]) /\ TriesLeft(b))
    BY <1>0, <1>7, <2>2 DEF Judge
  <2> QED BY <2>1, <2>2
<1>8. CASE MaxRuntime(b)     BY <1>0, <1>8 DEF MaxRuntime
<1> QED BY <1>1, <1>2, <1>3, <1>4, <1>5, <1>6, <1>7, <1>8 DEF Bot

\* Nobody else moves a worker or a bot. Stop and the end of the run sweep,
\* an answer goes into a listed gate's channel.
Others ==
    \/ \E g \in Workers, a \in {"yes", "no"} : Decide(g, a)
    \/ Executor
    \/ \E p \in Stoppers : PressStop(p) \/ CancelContext(p) \/ ReleaseApprovals(p)
    \/ UNCHANGED vars

\* The executor goes from one stage of the end to the next.
LEMMA ExecutorMoves ==
    ASSUME Executor
    PROVE  \/ exec = "wait" /\ exec' \in {"failing", "succeeding"}
           \/ exec = "failing" /\ exec' = "failed"
           \/ exec \in {"failed", "succeeding"} /\ exec' = "persist"
           \/ exec = "persist" /\ exec' = "end"
BY DEF Executor, BotsFinished, RecordError, EndRun, Persist

\* What others do to gates, and that only the executor moves on.
LEMMA OthersMove ==
    ASSUME IInv, Others
    PROVE  /\ UNCHANGED <<pc, bot, att, abandoned>>
           /\ \/ \E g \in Workers, a \in {"yes", "no"} :
                    /\ decided' = decided \cup {g} /\ buf' = [buf EXCEPT ![g] = a]
                    /\ UNCHANGED <<approvals, closed>>
              \/ UNCHANGED <<decided, buf>> /\ (UNCHANGED <<approvals, closed>> \/ SweepGates)
           /\ ExecLeft' <= ExecLeft
           /\ Executor => ExecLeft' < ExecLeft
<1> USE DEF runVars, gateVars, workerVars, botVars
<1>1. CASE \E g \in Workers, a \in {"yes", "no"} : Decide(g, a)
  <2>1. PICK g \in Workers, a \in {"yes", "no"} : Decide(g, a) BY <1>1
  <2>2. exec' = exec BY <2>1 DEF Decide
  <2>3. ExecLeft' <= ExecLeft BY <2>2 DEF ExecLeft
  <2>4. ~Executor BY <2>2, ExecutorMoves
  <2>5. UNCHANGED <<pc, bot, att, abandoned>> BY <2>1 DEF Decide
  <2>6. /\ decided' = decided \cup {g} /\ buf' = [buf EXCEPT ![g] = a]
        /\ UNCHANGED <<approvals, closed>>
    BY <2>1 DEF Decide
  <2> QED BY <2>3, <2>4, <2>5, <2>6
<1>2. CASE Executor
  <2>1. \/ exec = "wait" /\ exec' \in {"failing", "succeeding"}
        \/ exec = "failing" /\ exec' = "failed"
        \/ exec \in {"failed", "succeeding"} /\ exec' = "persist"
        \/ exec = "persist" /\ exec' = "end"
    BY <1>2, ExecutorMoves
  <2>2. ExecLeft' < ExecLeft /\ ExecLeft' <= ExecLeft BY <2>1 DEF ExecLeft
  <2>3. /\ UNCHANGED <<pc, bot, att, abandoned, decided, buf>>
        /\ UNCHANGED <<approvals, closed>> \/ SweepGates
    BY <1>2 DEF Executor, BotsFinished, RecordError, EndRun, Persist
  <2> QED BY <2>2, <2>3
<1>3. CASE (\E p \in Stoppers : PressStop(p) \/ CancelContext(p) \/ ReleaseApprovals(p)) \/ UNCHANGED vars
  <2>1. /\ UNCHANGED <<pc, bot, att, abandoned, decided, buf, exec>>
        /\ UNCHANGED <<approvals, closed>> \/ SweepGates
    BY <1>3 DEF PressStop, CancelContext, ReleaseApprovals, vars
  <2>2. ExecLeft' <= ExecLeft BY <2>1 DEF ExecLeft
  <2>3. ~Executor BY <2>1, ExecutorMoves
  <2> QED BY <2>1, <2>2, <2>3
<1> QED BY <1>1, <1>2, <1>3 DEF Others

\* No step leaves a waiter behind.
LEMMA WaitKept == IInv /\ WaitInv /\ [Next]_vars => WaitInv'
<1> SUFFICES ASSUME IInv, WaitInv, [Next]_vars PROVE WaitInv'
  OBVIOUS
<1>0. /\ pc \in [Workers -> {"off", "work", "announce", "await", "resume", "act", "acted", "done"}]
      /\ bot \in [Bots -> {"attempt", "locked", "unlockwait", "restore", "restoreset", "judge", "done"}]
      /\ buf \in [Workers -> Answers] /\ att \in [Bots -> Attempts]
  BY RunShapes
<1>c. \A b \in Bots : Current(b) \in Workers /\ Current(b) = <<b, att[b]>>
  BY <1>0, WorkerParts DEF Current
<1>1. ASSUME NEW w \in Workers, Worker(w) \/ GateTimeout(w) PROVE WaitInv'
  <2>1. \A v \in Workers : pc'[v] \in {"announce", "await"} =>
          /\ v \in approvals' \/ v \in closed'
          /\ v \in decided' => buf'[v] # "none"
    BY <1>1, WorkerMoves DEF WaitInv
  <2>2. \A b \in Bots : Current(b)' = Current(b) BY <1>1, WorkerMoves DEF Current
  <2>3. \A b \in Bots : bot'[b] = "attempt" => pc'[Current(b)] # "off" /\ Current(b) \notin abandoned'
    BY <1>1, <1>c, WorkerMoves DEF WaitInv
  <2>4. \A b \in Bots, n \in Attempts : n > att'[b] => <<b, n>> \notin abandoned'
    BY <1>1, WorkerMoves DEF WaitInv
  <2> QED BY <2>1, <2>2, <2>3, <2>4 DEF WaitInv
<1>2. ASSUME NEW b \in Bots, Bot(b) \/ MaxRuntime(b) PROVE WaitInv'
  <2>0. /\ UNCHANGED <<approvals, decided, closed, buf>>
        /\ \A c \in Bots : c # b => bot'[c] = bot[c] /\ att'[c] = att[c]
    BY <1>2, BotMoves
  <2>1. CASE /\ UNCHANGED <<pc, att>> /\ bot'[b] # "attempt"
             /\ abandoned' \subseteq abandoned \cup {Current(b)}
    <3>1. \A c \in Bots : Current(c)' = Current(c) BY <2>1 DEF Current
    <3>2. ASSUME NEW c \in Bots, bot'[c] = "attempt"
          PROVE  pc[Current(c)] # "off" /\ Current(c) \notin abandoned'
      <4>1. c # b /\ bot[c] = "attempt" BY <2>0, <2>1, <3>2
      <4>2. Current(c) # Current(b) BY <4>1, <1>c
      <4> QED BY <2>1, <4>1, <4>2 DEF WaitInv
    <3>3. ASSUME NEW c \in Bots, NEW n \in Attempts, n > att[c] PROVE <<c, n>> \notin abandoned'
      <4>1. <<c, n>> \notin abandoned BY <3>3 DEF WaitInv
      <4>2. n # att[c] BY <1>0, <3>3, WorkerParts
      <4>3. <<c, n>> # Current(b) BY <1>c, <4>2
      <4> QED BY <2>1, <4>1, <4>3
    <3>4. \A v \in Workers : pc'[v] \in {"announce", "await"} =>
             /\ v \in approvals' \/ v \in closed'
             /\ v \in decided' => buf'[v] # "none"
      BY <2>0, <2>1 DEF WaitInv
    <3> QED BY <2>1, <3>1, <3>2, <3>3, <3>4 DEF WaitInv
  <2>2. CASE /\ bot'[b] = "attempt" /\ UNCHANGED abandoned
             /\ att[b] + 1 \in Attempts /\ att'[b] = att[b] + 1
             /\ pc' = [pc EXCEPT ![<<b, att[b] + 1>>] = "work"]
    <3>0. <<b, att[b] + 1>> \in Workers /\ att[b] \in Nat BY <1>0, <2>2, WorkerParts
    <3>1. /\ pc'[<<b, att[b] + 1>>] = "work"
          /\ \A v \in Workers : v # <<b, att[b] + 1>> => pc'[v] = pc[v]
      BY <1>0, <2>2, <3>0
    <3>2. \A v \in Workers : pc'[v] \in {"announce", "await"} =>
             /\ v \in approvals' \/ v \in closed'
             /\ v \in decided' => buf'[v] # "none"
      BY <2>0, <3>1 DEF WaitInv
    <3>3. ASSUME NEW c \in Bots, bot'[c] = "attempt"
          PROVE  pc'[<<c, att'[c]>>] # "off" /\ <<c, att'[c]>> \notin abandoned'
      <4>1. CASE c = b
        <5>1. att[b] + 1 > att[b] BY <3>0
        <5> QED BY <2>2, <3>1, <4>1, <5>1 DEF WaitInv
      <4>2. CASE c # b
        <5>1. att'[c] = att[c] /\ bot[c] = "attempt" BY <2>0, <3>3, <4>2
        <5>2. Current(c) # <<b, att[b] + 1>> BY <1>c, <4>2
        <5> QED BY <1>c, <2>2, <3>1, <5>1, <5>2 DEF WaitInv
      <4> QED BY <4>1, <4>2
    <3>4. ASSUME NEW c \in Bots, NEW n \in Attempts, n > att'[c] PROVE <<c, n>> \notin abandoned'
      <4>1. n > att[c] BY <1>0, <2>0, <2>2, <3>0, <3>4, WorkerParts
      <4> QED BY <2>2, <4>1 DEF WaitInv
    <3> QED BY <3>2, <3>3, <3>4 DEF WaitInv, Current
  <2> QED BY <1>2, <2>1, <2>2, BotMoves
<1>3. CASE Others
  <2>1. UNCHANGED <<pc, bot, att, abandoned>> BY <1>3, OthersMove
  <2>2. \A v \in Workers : pc[v] \in {"announce", "await"} =>
             /\ v \in approvals' \/ v \in closed'
             /\ v \in decided' => buf'[v] # "none"
    <3>1. CASE \E g \in Workers, a \in {"yes", "no"} :
                  /\ decided' = decided \cup {g} /\ buf' = [buf EXCEPT ![g] = a]
                  /\ UNCHANGED <<approvals, closed>>
      BY <1>0, <3>1 DEF WaitInv
    <3>2. CASE UNCHANGED <<decided, buf>> /\ (UNCHANGED <<approvals, closed>> \/ SweepGates)
      BY <3>2 DEF WaitInv, SweepGates
    <3> QED BY <1>3, <3>1, <3>2, OthersMove
  <2> QED BY <2>1, <2>2 DEF WaitInv, Current
<1> QED BY <1>1, <1>2, <1>3 DEF Next, Others, Idle

\* Who waits, and for what, in every run.
LEMMA WaitInvariant == Spec => []WaitInv
<1>1. Init => WaitInv
  <2> SUFFICES ASSUME Init PROVE WaitInv OBVIOUS
  <2>1. \A b \in Bots : Current(b) \in Workers /\ Current(b)[2] = 1
    BY BoundsAssumption DEF Init, Current, Workers, Attempts
  <2> QED BY <2>1 DEF Init, WaitInv
<1> QED BY <1>1, WaitKept, RunInvariant, PTL DEF Spec

\* For any bots, retries, gates and presses of Stop: an approval that is waited
\* for is one that people see and can answer, unless its answer or its end is
\* already there to be found, also for attempts nobody waits for any more; and
\* a run that has not ended is held up by an open gate of a current attempt, or
\* not at all.
THEOREM RunHeldByGatesOnly == Spec => [](NobodyWaitsUnseen /\ OnlyGatesHold)
<1>1. IInv /\ WaitInv => NobodyWaitsUnseen
  BY DEF WaitInv, NobodyWaitsUnseen, Open, WorkerCan
<1>2. IInv /\ WaitInv => OnlyGatesHold
  <2> SUFFICES ASSUME IInv, WaitInv, exec # "end", ~ExecCan, \A b \in Bots : ~BotCan(b),
                      \A w \in Workers : ~WorkerCan(w)
               PROVE  ~cancelled /\ \E b \in Bots : bot[b] = "attempt" /\ Open(Current(b))
    BY DEF OnlyGatesHold
  <2>0. /\ pc \in [Workers -> {"off", "work", "announce", "await", "resume", "act", "acted", "done"}]
        /\ bot \in [Bots -> {"attempt", "locked", "unlockwait", "restore", "restoreset", "judge", "done"}]
        /\ att \in [Bots -> Attempts]
        /\ exec \in {"wait", "failing", "failed", "succeeding", "persist", "end"}
    BY RunShapes
  <2>1. PICK b \in Bots : bot[b] # "done" BY <2>0 DEF ExecCan
  <2>2. bot[b] = "attempt" /\ pc[Current(b)] # "done" /\ ~cancelled
    BY <2>0, <2>1 DEF BotCan
  <2>3. Current(b) \in Workers BY <2>0, WorkerParts DEF Current
  <2>4. pc[Current(b)] # "off" /\ Current(b) \notin abandoned BY <2>2 DEF WaitInv
  <2>5. pc[Current(b)] = "await" /\ ~WorkerCan(Current(b))
    BY <2>0, <2>2, <2>3, <2>4 DEF WorkerCan, RunsSteps
  <2>6. Open(Current(b)) BY <1>1, <2>3, <2>5 DEF NobodyWaitsUnseen
  <2> QED BY <2>2, <2>6
<1> QED BY <1>1, <1>2, RunInvariant, WaitInvariant, PTL

\* For any bots and retries: a worker takes seven steps at most, a bot eight for
\* each attempt that is left, the executor four, and nobody's step, no answer,
\* timer or press of Stop takes one of them back. A run that goes on for ever
\* does so because somebody is not scheduled or a gate stays open.
THEOREM RunCounted == Spec => RunStepsCounted
<1>1. IInv /\ [Next]_vars =>
        [/\ \A w \in Workers : /\ Worker(w) \/ GateTimeout(w) => WorkerLeft(w)' < WorkerLeft(w)
                               /\ WorkerLeft(w)' <= WorkerLeft(w)
         /\ \A b \in Bots : /\ Bot(b) \/ MaxRuntime(b) => BotLeft(b)' < BotLeft(b)
                            /\ BotLeft(b)' <= BotLeft(b)
         /\ Executor => ExecLeft' < ExecLeft
         /\ ExecLeft' <= ExecLeft]_vars
  <2> SUFFICES ASSUME IInv, Next
               PROVE  /\ \A w \in Workers :
                            /\ Worker(w) \/ GateTimeout(w) => WorkerLeft(w)' < WorkerLeft(w)
                            /\ WorkerLeft(w)' <= WorkerLeft(w)
                      /\ \A b \in Bots : /\ Bot(b) \/ MaxRuntime(b) => BotLeft(b)' < BotLeft(b)
                                         /\ BotLeft(b)' <= BotLeft(b)
                      /\ Executor => ExecLeft' < ExecLeft
                      /\ ExecLeft' <= ExecLeft
    OBVIOUS
  <2>0. /\ pc \in [Workers -> {"off", "work", "announce", "await", "resume", "act", "acted", "done"}]
        /\ att \in [Bots -> Attempts] /\ Tries \in Nat /\ Relocks \in Nat
        /\ \A b \in Bots : att[b] \in Nat
    BY RunShapes, WorkerParts, BoundsAssumption
  <2>1. ASSUME NEW w \in Workers, pc'[w] = pc[w] PROVE WorkerLeft(w)' <= WorkerLeft(w)
    BY <2>1 DEF WorkerLeft
  <2>2. ASSUME NEW w \in Workers, Worker(w) \/ GateTimeout(w)
        PROVE  WorkerLeft(w)' < WorkerLeft(w) /\ WorkerLeft(w)' <= WorkerLeft(w)
    BY <2>2, WorkerMoves DEF WorkerLeft
  <2>3. ASSUME NEW b \in Bots, bot'[b] = bot[b], att'[b] = att[b] PROVE BotLeft(b)' <= BotLeft(b)
    <3>1. BotRank(bot[b]) \in Int BY DEF BotRank
    <3> QED BY <2>0, <2>3, <3>1 DEF BotLeft
  <2>4. ASSUME NEW b \in Bots, Bot(b) \/ MaxRuntime(b)
        PROVE  BotLeft(b)' < BotLeft(b) /\ BotLeft(b)' <= BotLeft(b)
    <3>0. att[b] \in Nat /\ BotRank(bot[b]) \in Int /\ BotRank(bot'[b]) \in Int
      BY <2>0 DEF BotRank
    <3>1. \/ att'[b] = att[b] /\ BotRank(bot'[b]) < BotRank(bot[b])
          \/ att'[b] = att[b] + 1 /\ BotRank(bot'[b]) = 7 /\ BotRank(bot[b]) \in {2, 5}
      <4>1. CASE att'[b] = att[b] /\ \/ bot[b] = "attempt" /\ bot'[b] \in {"locked", "restore", "judge"}
                                     \/ bot[b] = "locked" /\ bot'[b] = "unlockwait"
                                     \/ bot[b] = "unlockwait" /\ bot'[b] = "judge"
                                     \/ bot[b] = "restore" /\ bot'[b] \in {"judge", "restoreset"}
                                     \/ bot[b] = "restoreset" /\ bot'[b] = "judge"
                                     \/ bot[b] = "judge" /\ bot'[b] = "done"
        BY <4>1 DEF BotRank
      <4>2. CASE att'[b] = att[b] + 1 /\ bot[b] \in {"unlockwait", "judge"} /\ bot'[b] = "attempt"
        BY <4>2 DEF BotRank
      <4>3. UNCHANGED att => att'[b] = att[b] OBVIOUS
      <4> QED BY <2>4, <4>1, <4>2, <4>3, BotMoves
    <3> QED BY <2>0, <3>0, <3>1 DEF BotLeft
  <2>5. CASE \E w \in Workers : Worker(w) \/ GateTimeout(w)
    <3>1. PICK w \in Workers : Worker(w) \/ GateTimeout(w) BY <2>5
    <3>2. /\ UNCHANGED <<bot, att, exec>>
          /\ \A v \in Workers : v # w => pc'[v] = pc[v]
      BY <3>1, WorkerMoves
    <3>3. ExecLeft' <= ExecLeft BY <3>2 DEF ExecLeft
    <3>4. ~Executor BY <3>2, ExecutorMoves
    <3> QED BY <2>1, <2>2, <2>3, <2>4, <3>1, <3>2, <3>3, <3>4
  <2>6. CASE \E b \in Bots : Bot(b) \/ MaxRuntime(b)
    <3>1. PICK b \in Bots : Bot(b) \/ MaxRuntime(b) BY <2>6
    <3>2. UNCHANGED exec /\ \A c \in Bots : c # b => bot'[c] = bot[c] /\ att'[c] = att[c]
      BY <3>1, BotMoves
    <3>3. ASSUME NEW w \in Workers PROVE WorkerLeft(w)' <= WorkerLeft(w)
      <4>1. CASE UNCHANGED pc BY <2>1, <4>1
      <4>2. CASE pc[<<b, att[b] + 1>>] = "off" /\ pc' = [pc EXCEPT ![<<b, att[b] + 1>>] = "work"]
        <5>1. CASE w = <<b, att[b] + 1>>
          <6>1. pc[w] = "off" /\ pc'[w] = "work" BY <2>0, <4>2, <5>1
          <6> QED BY <6>1 DEF WorkerLeft
        <5>2. CASE w # <<b, att[b] + 1>>
          <6>1. pc'[w] = pc[w] BY <2>0, <4>2, <5>2
          <6> QED BY <2>1, <6>1
        <5> QED BY <5>1, <5>2
      <4> QED BY <3>1, <4>1, <4>2, BotMoves
    <3>4. ExecLeft' <= ExecLeft BY <3>2 DEF ExecLeft
    <3>5. ~Executor BY <3>2, ExecutorMoves
    <3> QED BY <2>2, <2>3, <2>4, <3>1, <3>2, <3>3, <3>4, <3>5
  <2>7. CASE Others
    <3>1. UNCHANGED <<pc, bot, att>> /\ ExecLeft' <= ExecLeft /\ (Executor => ExecLeft' < ExecLeft)
      BY <2>7, OthersMove
    <3> QED BY <2>1, <2>2, <2>3, <2>4, <3>1
  <2> QED BY <2>5, <2>6, <2>7 DEF Next, Others, Idle
<1> QED BY <1>1, RunInvariant, PTL DEF Spec, RunStepsCounted
=============================================================================
