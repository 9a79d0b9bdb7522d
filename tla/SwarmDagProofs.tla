--------------------------- MODULE SwarmDagProofs ---------------------------
(***************************************************************************)
(* For every swarm and every interleaving: runDAG feeds a bot only outputs *)
(* that are there, loses no failure, gives the verdicts and the outcome    *)
(* SwarmOutcome promises, and never comes to a halt before it returns.     *)
(***************************************************************************)
EXTENDS SwarmDag, FiniteSetTheorems, TLAPS

-----------------------------------------------------------------------------
(* The inductive invariant.                                                *)

Typed ==
    /\ pc \in [Bots -> Pcs] /\ done \subseteq Bots
    /\ gone \in [Bots -> Reasons] /\ fatal \subseteq Bots /\ tolerated \subseteq Bots
    /\ outputs \subseteq Bots /\ err \in [Bots -> Errors]
    /\ didWork \in BOOLEAN /\ quiet \in BOOLEAN /\ cancelled \in BOOLEAN
    /\ result \in {"none", "succeeded", "nothing", "failed"}

Early == {"wait", "look", "skip", "when", "slot"}
Past  == {"when", "slot", "record", "mark"} \cup Holding
Over  == {"close", "end"}

\* What the books say of a bot that has left them for good.
Booked(b) ==
    /\ gone[b] = "skipped" <=> UpstreamMissing(b)
    /\ gone[b] \in {"skipped", "when"} => err[b] = "ok"
    /\ gone[b] = "no" => b \in outputs /\ err[b] = "ok" /\ didWork
    /\ gone[b] = "when" => b \in When
    /\ gone[b] = "quiet" => err[b] = "nothing" /\ quiet
    /\ gone[b] = "tolerated" => b \in Continue /\ b \in tolerated
    /\ gone[b] = "failed" => b \notin Continue /\ b \in fatal

BotInv(b) ==
    /\ b \in done <=> pc[b] = "end"
    /\ pc[b] # "wait" => Deps[b] \subseteq done
    /\ pc[b] \notin Over => gone[b] = "no"
    /\ pc[b] \in Early => err[b] = "ok"
    /\ pc[b] = "skip" => UpstreamMissing(b)
    /\ pc[b] \in Past => ~UpstreamMissing(b)
    /\ pc[b] \in {"judge", "release", "record"} /\ err[b] = "ok" => b \in outputs
    /\ pc[b] = "attempt" => err[b] = "ok" \/ WorthRetrying(err[b])
    /\ pc[b] = "fallback" => WorthRetrying(err[b])
    /\ pc[b] = "mark" => b \in Continue /\ b \in tolerated /\ err[b] \notin {"ok", "nothing"}
    /\ pc[b] \in Over => Booked(b)
    /\ b \in fatal => gone[b] = "failed"
    /\ b \in tolerated => b \in Continue

\* The two flags runDAG decides on speak of bots that are over.
Flags ==
    /\ didWork => \E b \in Bots : pc[b] \in Over /\ gone[b] = "no"
    /\ quiet => \E b \in Bots : pc[b] \in Over /\ gone[b] = "quiet"

Counts ==
    /\ slots \in Nat /\ slots <= Limit /\ SlotsBalanced
    /\ tried \in [Bots -> Nat] /\ \A b \in Bots : tried[b] <= Retry[b]

DagInv == Typed /\ (\A b \in Bots : BotInv(b)) /\ Flags /\ Counts

-----------------------------------------------------------------------------
\* A step of one bot changes nothing that is written down under another's
\* name, takes nothing back, and finds its bot not yet done.
Frame(b) ==
    /\ pc[b] # "end"
    /\ \A c \in Bots : c # b =>
          /\ pc'[c] = pc[c] /\ gone'[c] = gone[c] /\ err'[c] = err[c]
          /\ c \in done' <=> c \in done
          /\ c \in fatal' <=> c \in fatal
          /\ c \in tolerated' <=> c \in tolerated
    /\ done \subseteq done' /\ outputs \subseteq outputs'
    /\ didWork => didWork'
    /\ quiet => quiet'
    /\ result' = result

\* Every action of runDAG's goroutine for b stays within its frame.
LEMMA BotFrame ==
    ASSUME Typed, NEW b \in Bots, Bot(b) PROVE Frame(b)
<1>1. CASE AwaitUpstream(b)
  BY <1>1 DEF AwaitUpstream, Typed, Frame, Goto, bookVars
<1>2. CASE LookUpstream(b)
  BY <1>2 DEF LookUpstream, Typed, Frame, Goto, bookVars
<1>3. CASE Skip(b)
  BY <1>3 DEF Skip, Typed, Frame, Goto, bookVars, MarkGone
<1>4. CASE WhenTrue(b)
  BY <1>4 DEF WhenTrue, Typed, Frame, Goto, bookVars
<1>5. CASE WhenFalse(b)
  BY <1>5 DEF WhenFalse, Typed, Frame, Goto, bookVars, MarkGone
<1>6. CASE WhenFails(b)
  BY <1>6 DEF WhenFails, Typed, Frame, Goto, bookVars
<1>7. CASE TakeSlot(b)
  BY <1>7 DEF TakeSlot, Typed, Frame, Goto, bookVars
<1>8. CASE AttemptEnds(b)
  BY <1>8 DEF AttemptEnds, Typed, Frame, Goto, bookVars
<1>9. CASE Judge(b)
  BY <1>9 DEF Judge, Typed, Frame, Goto, bookVars
<1>10. CASE FallbackEnds(b)
  BY <1>10 DEF FallbackEnds, Typed, Frame, Goto, bookVars
<1>11. CASE ReleaseSlot(b)
  BY <1>11 DEF ReleaseSlot, Typed, Frame, Goto, bookVars
<1>12. CASE RecordWork(b)
  BY <1>12 DEF RecordWork, Typed, Frame, Goto, bookVars
<1>13. CASE RecordNothing(b)
  BY <1>13 DEF RecordNothing, Typed, Frame, Goto, bookVars, MarkGone
<1>14. CASE Tolerate(b)
  BY <1>14 DEF Tolerate, Typed, Frame, Goto, bookVars
<1>15. CASE MarkTolerated(b)
  BY <1>15 DEF MarkTolerated, Typed, Frame, Goto, bookVars, MarkGone
<1>16. CASE RecordFatal(b)
  BY <1>16 DEF RecordFatal, Typed, Frame, Goto, bookVars, MarkGone
<1>17. CASE CloseDone(b)
  BY <1>17 DEF CloseDone, Typed, Frame, Goto, bookVars
<1> QED BY <1>1, <1>2, <1>3, <1>4, <1>5, <1>6, <1>7, <1>8, <1>9, <1>10, <1>11, <1>12, <1>13, <1>14, <1>15, <1>16, <1>17 DEF Bot

\* Every action of b keeps the types.
LEMMA TypedBot ==
    ASSUME Typed, NEW b \in Bots, Bot(b) PROVE Typed'
<1>1. CASE AwaitUpstream(b)
  BY <1>1 DEF AwaitUpstream, Typed, Pcs, Errors, Reasons, Holding, Goto, bookVars
<1>2. CASE LookUpstream(b)
  BY <1>2 DEF LookUpstream, Typed, Pcs, Errors, Reasons, Holding, Goto, bookVars
<1>3. CASE Skip(b)
  BY <1>3 DEF Skip, Typed, Pcs, Errors, Reasons, Holding, Goto, bookVars, MarkGone
<1>4. CASE WhenTrue(b)
  BY <1>4 DEF WhenTrue, Typed, Pcs, Errors, Reasons, Holding, Goto, bookVars
<1>5. CASE WhenFalse(b)
  BY <1>5 DEF WhenFalse, Typed, Pcs, Errors, Reasons, Holding, Goto, bookVars, MarkGone
<1>6. CASE WhenFails(b)
  BY <1>6 DEF WhenFails, Typed, Pcs, Errors, Reasons, Holding, Goto, bookVars
<1>7. CASE TakeSlot(b)
  BY <1>7 DEF TakeSlot, Typed, Pcs, Errors, Reasons, Holding, Goto, bookVars
<1>8. CASE AttemptEnds(b)
  BY <1>8 DEF AttemptEnds, Typed, Pcs, Errors, Reasons, Holding, Goto, bookVars
<1>9. CASE Judge(b)
  BY <1>9 DEF Judge, Typed, Pcs, Errors, Reasons, Holding, Goto, bookVars
<1>10. CASE FallbackEnds(b)
  BY <1>10 DEF FallbackEnds, Typed, Pcs, Errors, Reasons, Holding, Goto, bookVars
<1>11. CASE ReleaseSlot(b)
  BY <1>11 DEF ReleaseSlot, Typed, Pcs, Errors, Reasons, Holding, Goto, bookVars
<1>12. CASE RecordWork(b)
  BY <1>12 DEF RecordWork, Typed, Pcs, Errors, Reasons, Holding, Goto, bookVars
<1>13. CASE RecordNothing(b)
  BY <1>13 DEF RecordNothing, Typed, Pcs, Errors, Reasons, Holding, Goto, bookVars, MarkGone
<1>14. CASE Tolerate(b)
  BY <1>14 DEF Tolerate, Typed, Pcs, Errors, Reasons, Holding, Goto, bookVars
<1>15. CASE MarkTolerated(b)
  BY <1>15 DEF MarkTolerated, Typed, Pcs, Errors, Reasons, Holding, Goto, bookVars, MarkGone
<1>16. CASE RecordFatal(b)
  BY <1>16 DEF RecordFatal, Typed, Pcs, Errors, Reasons, Holding, Goto, bookVars, MarkGone
<1>17. CASE CloseDone(b)
  BY <1>17 DEF CloseDone, Typed, Pcs, Errors, Reasons, Holding, Goto, bookVars
<1> QED BY <1>1, <1>2, <1>3, <1>4, <1>5, <1>6, <1>7, <1>8, <1>9, <1>10, <1>11, <1>12, <1>13, <1>14, <1>15, <1>16, <1>17 DEF Bot

-----------------------------------------------------------------------------
(* The invariant.                                                          *)

\* Whether an upstream is missing is settled once all of them are done.
LEMMA UpstreamSettled ==
    ASSUME Typed, NEW b \in Bots, Frame(b), \A c \in Bots : BotInv(c),
           NEW c \in Bots, pc[c] # "wait"
    PROVE  UpstreamMissing(c)' <=> UpstreamMissing(c)
<1>1. \A d \in Deps[c] : d # b /\ d \in Bots
  BY DepsAssumption DEF BotInv, Frame, Typed
<1> QED BY <1>1 DEF UpstreamMissing, Frame

\* A step of b leaves what is known of the other bots true.
LEMMA OtherBots ==
    ASSUME Typed, Typed', NEW b \in Bots, Frame(b), \A c \in Bots : BotInv(c),
           NEW c \in Bots, c # b
    PROVE  BotInv(c)'
<1>1. pc[c] # "wait" => (UpstreamMissing(c)' <=> UpstreamMissing(c))
  BY UpstreamSettled
<1>2. BotInv(c) OBVIOUS
<1>3. pc'[c] = pc[c] /\ gone'[c] = gone[c] /\ err'[c] = err[c]
      /\ (c \in done' <=> c \in done) /\ (c \in fatal' <=> c \in fatal)
      /\ (c \in tolerated' <=> c \in tolerated)
      /\ done \subseteq done' /\ outputs \subseteq outputs'
      /\ (didWork => didWork') /\ (quiet => quiet')
  BY DEF Frame
<1> QED BY <1>1, <1>2, <1>3 DEF BotInv, Booked, Early, Past, Over, Holding

\* A step of b leaves what is known of b true.
LEMMA OwnBot ==
    ASSUME Typed, Typed', NEW b \in Bots, Bot(b), Frame(b), \A c \in Bots : BotInv(c)
    PROVE  BotInv(b)'
<1>a. pc[b] # "wait" => (UpstreamMissing(b)' <=> UpstreamMissing(b))
  BY UpstreamSettled
<1>b. BotInv(b) OBVIOUS
<1>1. CASE AwaitUpstream(b)
  BY <1>1, <1>a, <1>b DEF AwaitUpstream, Typed, BotInv, Booked, Early, Past, Over, Holding, Goto, bookVars, WorthRetrying
<1>2. CASE LookUpstream(b)
  BY <1>2, <1>a, <1>b DEF LookUpstream, Typed, BotInv, Booked, Early, Past, Over, Holding, Goto, bookVars, WorthRetrying
<1>3. CASE Skip(b)
  BY <1>3, <1>a, <1>b DEF Skip, Typed, BotInv, Booked, Early, Past, Over, Holding, Goto, bookVars, WorthRetrying, MarkGone
<1>4. CASE WhenTrue(b)
  BY <1>4, <1>a, <1>b DEF WhenTrue, Typed, BotInv, Booked, Early, Past, Over, Holding, Goto, bookVars, WorthRetrying
<1>5. CASE WhenFalse(b)
  BY <1>5, <1>a, <1>b DEF WhenFalse, Typed, BotInv, Booked, Early, Past, Over, Holding, Goto, bookVars, WorthRetrying, MarkGone
<1>6. CASE WhenFails(b)
  BY <1>6, <1>a, <1>b DEF WhenFails, Typed, BotInv, Booked, Early, Past, Over, Holding, Goto, bookVars, WorthRetrying
<1>7. CASE TakeSlot(b)
  BY <1>7, <1>a, <1>b DEF TakeSlot, Typed, BotInv, Booked, Early, Past, Over, Holding, Goto, bookVars, WorthRetrying
<1>8. CASE AttemptEnds(b)
  BY <1>8, <1>a, <1>b DEF AttemptEnds, Typed, BotInv, Booked, Early, Past, Over, Holding, Goto, bookVars, WorthRetrying, Errors
<1>9. CASE Judge(b)
  BY <1>9, <1>a, <1>b DEF Judge, Typed, BotInv, Booked, Early, Past, Over, Holding, Goto, bookVars, WorthRetrying
<1>10. CASE FallbackEnds(b)
  BY <1>10, <1>a, <1>b DEF FallbackEnds, Typed, BotInv, Booked, Early, Past, Over, Holding, Goto, bookVars, WorthRetrying
<1>11. CASE ReleaseSlot(b)
  BY <1>11, <1>a, <1>b DEF ReleaseSlot, Typed, BotInv, Booked, Early, Past, Over, Holding, Goto, bookVars, WorthRetrying
<1>12. CASE RecordWork(b)
  BY <1>12, <1>a, <1>b DEF RecordWork, Typed, BotInv, Booked, Early, Past, Over, Holding, Goto, bookVars, WorthRetrying
<1>13. CASE RecordNothing(b)
  BY <1>13, <1>a, <1>b DEF RecordNothing, Typed, BotInv, Booked, Early, Past, Over, Holding, Goto, bookVars, WorthRetrying, MarkGone
<1>14. CASE Tolerate(b)
  BY <1>14, <1>a, <1>b DEF Tolerate, Typed, BotInv, Booked, Early, Past, Over, Holding, Goto, bookVars, WorthRetrying
<1>15. CASE MarkTolerated(b)
  BY <1>15, <1>a, <1>b DEF MarkTolerated, Typed, BotInv, Booked, Early, Past, Over, Holding, Goto, bookVars, WorthRetrying, MarkGone
<1>16. CASE RecordFatal(b)
  BY <1>16, <1>a, <1>b DEF RecordFatal, Typed, BotInv, Booked, Early, Past, Over, Holding, Goto, bookVars, WorthRetrying, MarkGone
<1>17. CASE CloseDone(b)
  BY <1>17, <1>a, <1>b DEF CloseDone, Typed, BotInv, Booked, Early, Past, Over, Holding, Goto, bookVars, WorthRetrying
<1> QED BY <1>1, <1>2, <1>3, <1>4, <1>5, <1>6, <1>7, <1>8, <1>9, <1>10, <1>11, <1>12, <1>13, <1>14, <1>15, <1>16, <1>17 DEF Bot

\* No step of b empties a flag of the bot that set it.
LEMMA FlagsKept ==
    ASSUME Typed, Typed', Flags, NEW b \in Bots, Bot(b), \A c \in Bots : BotInv(c)
    PROVE  Flags'
<1>1. CASE AwaitUpstream(b)
  BY <1>1 DEF AwaitUpstream, Typed, Flags, BotInv, Over, Goto, bookVars
<1>2. CASE LookUpstream(b)
  BY <1>2 DEF LookUpstream, Typed, Flags, BotInv, Over, Goto, bookVars
<1>3. CASE Skip(b)
  BY <1>3 DEF Skip, Typed, Flags, BotInv, Over, Goto, bookVars, MarkGone
<1>4. CASE WhenTrue(b)
  BY <1>4 DEF WhenTrue, Typed, Flags, BotInv, Over, Goto, bookVars
<1>5. CASE WhenFalse(b)
  BY <1>5 DEF WhenFalse, Typed, Flags, BotInv, Over, Goto, bookVars, MarkGone
<1>6. CASE WhenFails(b)
  BY <1>6 DEF WhenFails, Typed, Flags, BotInv, Over, Goto, bookVars
<1>7. CASE TakeSlot(b)
  BY <1>7 DEF TakeSlot, Typed, Flags, BotInv, Over, Goto, bookVars
<1>8. CASE AttemptEnds(b)
  BY <1>8 DEF AttemptEnds, Typed, Flags, BotInv, Over, Goto, bookVars
<1>9. CASE Judge(b)
  BY <1>9 DEF Judge, Typed, Flags, BotInv, Over, Goto, bookVars, TriesLeft
<1>10. CASE FallbackEnds(b)
  BY <1>10 DEF FallbackEnds, Typed, Flags, BotInv, Over, Goto, bookVars
<1>11. CASE ReleaseSlot(b)
  BY <1>11 DEF ReleaseSlot, Typed, Flags, BotInv, Over, Goto, bookVars
<1>12. CASE RecordWork(b)
  BY <1>12 DEF RecordWork, Typed, Flags, BotInv, Over, Goto, bookVars
<1>13. CASE RecordNothing(b)
  BY <1>13 DEF RecordNothing, Typed, Flags, BotInv, Over, Goto, bookVars, MarkGone
<1>14. CASE Tolerate(b)
  BY <1>14 DEF Tolerate, Typed, Flags, BotInv, Over, Goto, bookVars
<1>15. CASE MarkTolerated(b)
  BY <1>15 DEF MarkTolerated, Typed, Flags, BotInv, Over, Goto, bookVars, MarkGone
<1>16. CASE RecordFatal(b)
  BY <1>16 DEF RecordFatal, Typed, Flags, BotInv, Over, Goto, bookVars, MarkGone
<1>17. CASE CloseDone(b)
  BY <1>17 DEF CloseDone, Typed, Flags, BotInv, Over, Goto, bookVars
<1> QED BY <1>1, <1>2, <1>3, <1>4, <1>5, <1>6, <1>7, <1>8, <1>9, <1>10, <1>11, <1>12, <1>13, <1>14, <1>15, <1>16, <1>17 DEF Bot

\* Retries and slots are counted right: a slot more is held after TakeSlot,
\* one less after ReleaseSlot, and the holders are the same otherwise.
LEMMA CountsKept ==
    ASSUME Typed, Typed', Counts, NEW b \in Bots, Bot(b)
    PROVE  Counts'
<1> DEFINE H == {c \in Bots : pc[c] \in Holding}
<1>h. IsFiniteSet(H) /\ slots = Cardinality(H)
  <2>1. H \subseteq Bots OBVIOUS
  <2> QED BY <2>1, BotsAssumption, FS_Subset DEF Counts, SlotsBalanced
<1>t. tried' \in [Bots -> Nat] /\ \A c \in Bots : tried'[c] <= Retry[c]
  <2>1. CASE Judge(b)
    BY <2>1, CountsAssumption DEF Judge, Counts, TriesLeft
  <2>2. CASE tried' = tried
    BY <2>2 DEF Counts
  <2> QED BY <2>1, <2>2 DEF Bot, AwaitUpstream, LookUpstream, Skip, WhenTrue, WhenFalse,
        WhenFails, TakeSlot, AttemptEnds, FallbackEnds, ReleaseSlot, RecordWork,
        RecordNothing, Tolerate, MarkTolerated, RecordFatal, CloseDone
<1>1. CASE TakeSlot(b)
  <2>1. H' = H \cup {b} /\ b \notin H
    BY <1>1 DEF TakeSlot, Goto, Typed, Holding
  <2>2. Cardinality(H') = Cardinality(H) + 1
    BY <2>1, <1>h, FS_AddElement
  <2>3. slots' = slots + 1 /\ slots < Limit
    BY <1>1 DEF TakeSlot
  <2> QED BY <2>2, <2>3, <1>h, <1>t, CountsAssumption DEF Counts, SlotsBalanced
<1>2. CASE ReleaseSlot(b)
  <2>1. H' = H \ {b} /\ b \in H
    BY <1>2 DEF ReleaseSlot, Goto, Typed, Holding
  <2>2. Cardinality(H') = Cardinality(H) - 1
    BY <2>1, <1>h, FS_RemoveElement
  <2>3. Cardinality(H') \in Nat
    <3>1. IsFiniteSet(H') BY <2>1, <1>h, FS_RemoveElement
    <3> QED BY <3>1, FS_CardinalityType
  <2>4. slots' = slots - 1
    BY <1>2 DEF ReleaseSlot
  <2> QED BY <2>2, <2>3, <2>4, <1>h, <1>t, CountsAssumption DEF Counts, SlotsBalanced
<1>3. CASE slots' = slots /\ H' = H
  BY <1>3, <1>h, <1>t DEF Counts, SlotsBalanced
<1>4. CASE ~TakeSlot(b) /\ ~ReleaseSlot(b)
  <2>1. slots' = slots
    BY <1>4 DEF Bot, AwaitUpstream, LookUpstream, Skip, WhenTrue, WhenFalse, WhenFails,
       AttemptEnds, Judge, FallbackEnds, RecordWork, RecordNothing, Tolerate, MarkTolerated,
       RecordFatal, CloseDone
  <2>2. \A c \in Bots : pc'[c] \in Holding <=> pc[c] \in Holding
    BY <1>4 DEF Bot, AwaitUpstream, LookUpstream, Skip, WhenTrue, WhenFalse, WhenFails,
       AttemptEnds, Judge, FallbackEnds, RecordWork, RecordNothing, Tolerate, MarkTolerated,
       RecordFatal, CloseDone, Goto, Holding, Typed
  <2> QED BY <1>3, <2>1, <2>2
<1> QED BY <1>1, <1>2, <1>4

\* The invariant holds when runDAG has started its goroutines ...
LEMMA DagInvInit == Init => DagInv
<1> SUFFICES ASSUME Init PROVE DagInv OBVIOUS
<1>1. Typed
  BY DEF Init, Typed, Pcs, Reasons, Errors
<1>2. (\A b \in Bots : BotInv(b)) /\ Flags
  BY DEF Init, BotInv, Flags, Early, Past, Over, Holding
<1>3. {b \in Bots : pc[b] \in Holding} = {}
  BY DEF Init, Holding
<1>4. Counts
  BY <1>3, FS_EmptySet, CountsAssumption DEF Init, Counts, SlotsBalanced
<1> QED BY <1>1, <1>2, <1>4 DEF DagInv

\* ... and no step of it breaks it.
LEMMA DagInvStep == DagInv /\ [Next]_vars => DagInv'
<1> SUFFICES ASSUME DagInv, [Next]_vars PROVE DagInv' OBVIOUS
<1>0. Typed /\ (\A c \in Bots : BotInv(c)) /\ Flags /\ Counts BY DEF DagInv
<1>1. ASSUME NEW b \in Bots, Bot(b) PROVE DagInv'
  <2>1. Frame(b) /\ Typed' BY <1>0, <1>1, BotFrame, TypedBot
  <2>2. \A c \in Bots : c # b => BotInv(c)' BY <1>0, <1>1, <2>1, OtherBots
  <2>3. BotInv(b)' BY <1>0, <1>1, <2>1, OwnBot
  <2>4. Flags' /\ Counts' BY <1>0, <1>1, <2>1, FlagsKept, CountsKept
  <2> QED BY <2>1, <2>2, <2>3, <2>4 DEF DagInv
<1>2. CASE Return \/ Cancel \/ UNCHANGED vars
  <2>1. UNCHANGED <<pc, done, gone, fatal, tolerated, didWork, quiet, outputs, slots, tried, err>>
    BY <1>2 DEF Return, Cancel, vars, bookVars
  <2>2. Typed'
    BY <1>0, <1>2 DEF Return, Cancel, vars, bookVars, Typed
  <2>3. \A c \in Bots : BotInv(c)'
    BY <1>0, <2>1 DEF BotInv, Booked, UpstreamMissing
  <2>4. Flags'
    BY <1>0, <2>1 DEF Flags
  <2>5. Counts'
    BY <1>0, <2>1 DEF Counts, SlotsBalanced
  <2> QED BY <2>2, <2>3, <2>4, <2>5 DEF DagInv
<1> QED BY <1>1, <1>2 DEF Next, Returned

\* The inductive invariant, for every run of every swarm.
THEOREM DagInvariant == Spec => []DagInv
<1> QED BY DagInvInit, DagInvStep, PTL DEF Spec

\* Types are kept, no more than Limit slots are taken, and no bot is retried
\* more often than its retry: says.
THEOREM DagTypeOK == Spec => []TypeOK
<1>1. DagInv => TypeOK
  BY CountsAssumption DEF DagInv, Typed, Counts, TypeOK
<1> QED BY <1>1, DagInvariant, PTL

\* Every slot taken is held by a bot that will give it back.
THEOREM DagSlotsBalanced == Spec => []SlotsBalanced
<1>1. DagInv => SlotsBalanced BY DEF DagInv, Counts
<1> QED BY <1>1, DagInvariant, PTL

\* A bot that got past its upstream check finds all the outputs it reads.
THEOREM DagInputsReady == Spec => []InputsReady
<1>1. DagInv => InputsReady
  <2> SUFFICES ASSUME DagInv, NEW b \in Bots, pc[b] \in {"when", "slot"} \cup Holding,
                      NEW d \in Deps[b]
               PROVE  d \in outputs /\ d \in done
    BY DEF InputsReady
  <2>1. d \in Bots /\ BotInv(b) /\ BotInv(d)
    BY DepsAssumption DEF DagInv
  <2>2. d \in done /\ gone[d] = "no"
    BY <2>1 DEF BotInv, Past, Holding, UpstreamMissing
  <2> QED BY <2>1, <2>2 DEF BotInv, Over, Booked
<1> QED BY <1>1, DagInvariant, PTL

\* Every failure is on the books, and on one of them only.
THEOREM DagFailuresRecorded == Spec => []FailuresRecorded
<1>1. DagInv => FailuresRecorded
  <2> SUFFICES ASSUME DagInv PROVE FailuresRecorded OBVIOUS
  <2>1. \A b \in Bots : BotInv(b) /\ gone[b] \in Reasons
    BY DEF DagInv, Typed
  <2>2. fatal \subseteq Bots /\ tolerated \subseteq Bots /\ done \subseteq Bots
    BY DEF DagInv, Typed
  <2>3. ASSUME NEW b \in done, err[b] \in {"fail", "stopped", "declined", "ended"}
        PROVE  b \in (IF b \in Continue THEN tolerated ELSE fatal)
    BY <2>1, <2>2, <2>3 DEF BotInv, Over, Booked, Reasons
  <2>4. fatal \cap tolerated = {}
    <3> SUFFICES ASSUME NEW b \in fatal, b \in tolerated PROVE FALSE OBVIOUS
    <3>1. gone[b] = "failed" /\ b \in Continue BY <2>1, <2>2 DEF BotInv
    <3> QED BY <3>1, <2>1, <2>2 DEF BotInv, Over, Booked
  <2> QED BY <2>3, <2>4 DEF FailuresRecorded
<1> QED BY <1>1, DagInvariant, PTL

\* What runDAG's goroutines rely on and leave behind holds for every swarm.
THEOREM DagSafe == Spec => []DagSafety
<1>1. InputsReady /\ SlotsBalanced /\ FailuresRecorded => DagSafety
  BY DEF DagSafety
<1> QED
  BY <1>1, DagInputsReady, DagSlotsBalanced, DagFailuresRecorded, PTL

\* After a declined approval, a quiet watch or a run that ended underneath
\* it, a bot is neither retried nor replaced.
THEOREM DagDecisionsFinal == Spec => DecisionsFinal
<1>1. DagInv /\ [Next]_vars =>
        [\A b \in Bots : err[b] \in {"declined", "nothing", "ended"} => err'[b] = err[b]]_vars
  <2> SUFFICES ASSUME DagInv, Next, NEW c \in Bots,
                      err[c] \in {"declined", "nothing", "ended"}
               PROVE  err'[c] = err[c]
    BY DEF vars
  <2>0. Typed /\ BotInv(c) BY DEF DagInv
  <2>1. ASSUME NEW b \in Bots, Bot(b) PROVE err'[c] = err[c]
    <3>1. CASE c # b
      BY <2>0, <2>1, <3>1, BotFrame DEF Frame
    <3>2. CASE c = b
      BY <2>0, <2>1, <3>2 DEF BotInv, Early, WorthRetrying, Bot, AwaitUpstream, LookUpstream,
         Skip, WhenTrue, WhenFalse, WhenFails, TakeSlot, AttemptEnds, Judge, FallbackEnds,
         ReleaseSlot, RecordWork, RecordNothing, Tolerate, MarkTolerated, RecordFatal, CloseDone
    <3> QED BY <3>1, <3>2
  <2> QED BY <2>1 DEF Next, Return, Cancel, Returned, vars
<1> QED BY <1>1, DagInvariant, PTL DEF Spec, DecisionsFinal

-----------------------------------------------------------------------------
(* The refinement: CloseDone makes a verdict public, Return the outcome,   *)
(* and every other step is a stutter of SwarmOutcome.                      *)

Verdicts == [b \in Bots |-> Verdict(b)]

\* The verdicts of done bots stand while any other bot acts.
LEMMA VerdictsStand ==
    ASSUME DagInv, NEW b \in Bots, Frame(b), NEW c \in Bots, c # b
    PROVE  Verdict(c)' = Verdict(c)
  BY DEF Frame, Verdict

\* Only the close of its done channel gives a bot its verdict.
LEMMA BotStutters ==
    ASSUME DagInv, NEW b \in Bots, Bot(b), ~CloseDone(b)
    PROVE  Verdicts' = Verdicts /\ result' = result
<1>1. Frame(b) BY BotFrame DEF DagInv
<1>2. b \notin done BY <1>1 DEF DagInv, BotInv, Frame
<1>3. done' = done
  BY DEF Bot, AwaitUpstream, LookUpstream, Skip, WhenTrue, WhenFalse, WhenFails, TakeSlot,
     AttemptEnds, Judge, FallbackEnds, ReleaseSlot, RecordWork, RecordNothing, Tolerate,
     MarkTolerated, RecordFatal
<1>4. Verdict(b)' = Verdict(b) BY <1>2, <1>3 DEF Verdict
<1>5. \A c \in Bots : Verdict(c)' = Verdict(c) BY <1>1, <1>4, VerdictsStand
<1> QED BY <1>1, <1>5 DEF Verdicts, Frame

\* Closing b's done channel is SwarmOutcome's Decide, with one of the
\* verdicts b may get.
LEMMA CloseDecides ==
    ASSUME DagInv, NEW b \in Bots, CloseDone(b)
    PROVE  Promise!Decide(b, Verdict(b)') /\ Verdict(b)' \in Promise!Verdicts
<1>1. Frame(b)
  <2>1. Bot(b) BY DEF Bot
  <2> QED BY <2>1, BotFrame DEF DagInv
<1>2. Typed /\ BotInv(b) /\ Booked(b) /\ b \notin done
  BY <1>1 DEF DagInv, CloseDone, BotInv, Over, Frame
<1>3. Verdict(b)' = IF gone[b] = "no" THEN "ran" ELSE gone[b]
  BY <1>2 DEF CloseDone, Typed, bookVars, Verdict
<1>4. Verdict(b) = "none" /\ \A d \in Deps[b] : d \in Bots /\ d \in done
  BY <1>2, DepsAssumption DEF Verdict, BotInv, CloseDone
<1>5. \A d \in Deps[b] : Verdict(d) # "none" /\ (Verdict(d) # "ran" <=> gone[d] # "no")
  BY <1>2, <1>4 DEF Verdict, Typed, Reasons
<1>6. gone[b] \in Reasons BY <1>2 DEF Typed
<1>7. Verdict(b)' \in Promise!MayGet(b)
  <2>1. (\E d \in Deps[b] : Verdict(d) # "ran") <=> UpstreamMissing(b)
    BY <1>5 DEF UpstreamMissing
  <2>2. CASE UpstreamMissing(b)
    BY <1>2, <1>3, <1>4, <2>1, <2>2 DEF Booked, Promise!MayGet
  <2>3. CASE ~UpstreamMissing(b)
    BY <1>2, <1>3, <1>4, <1>6, <2>1, <2>3 DEF Booked, Promise!MayGet, Reasons
  <2> QED BY <2>2, <2>3
<1>8. Verdicts' = [Verdicts EXCEPT ![b] = Verdict(b)']
  BY <1>1, VerdictsStand DEF Verdicts
<1>9. result' = result BY <1>1 DEF Frame
<1> QED BY <1>3, <1>4, <1>5, <1>6, <1>7, <1>8, <1>9
        DEF Promise!Decide, Promise!Verdicts, Verdicts, Reasons

\* Returning is SwarmOutcome's Conclude: the three things runDAG looks at
\* say of the verdicts what the outcome is defined from.
LEMMA ReturnConcludes ==
    ASSUME DagInv, Return PROVE Promise!Conclude
<1>1. \A b \in Bots : BotInv(b) /\ pc[b] = "end" /\ gone[b] \in Reasons
  BY DEF DagInv, Return, Typed
<1>2. \A b \in Bots : b \in done /\ Booked(b)
  BY <1>1 DEF BotInv, Over
<1>v. \A b \in Bots : Verdict(b) = (IF gone[b] = "no" THEN "ran" ELSE gone[b])
  BY <1>2 DEF Verdict
<1>n. \A b \in Bots : Verdict(b) # "none"
  BY <1>1, <1>v DEF Reasons
<1>3. fatal # {} <=> \E b \in Bots : Verdict(b) = "failed"
  <2>1. fatal \subseteq Bots BY DEF DagInv, Typed
  <2>2. \A b \in fatal : Verdict(b) = "failed" BY <1>1, <1>v, <2>1 DEF BotInv
  <2>3. \A b \in Bots : Verdict(b) = "failed" => b \in fatal BY <1>2, <1>v DEF Booked
  <2> QED BY <2>1, <2>2, <2>3
<1>4. didWork <=> \E b \in Bots : Verdict(b) = "ran"
  <2>1. didWork => \E b \in Bots : Verdict(b) = "ran" BY <1>v DEF DagInv, Flags
  <2>2. \A b \in Bots : Verdict(b) = "ran" => gone[b] = "no" BY <1>1, <1>v DEF Reasons
  <2> QED BY <1>2, <2>1, <2>2 DEF Booked
<1>5. quiet <=> \E b \in Bots : Verdict(b) = "quiet"
  <2>1. quiet => \E b \in Bots : Verdict(b) = "quiet" BY <1>v DEF DagInv, Flags
  <2>2. \A b \in Bots : Verdict(b) = "quiet" => gone[b] = "quiet" BY <1>v
  <2> QED BY <1>2, <2>1, <2>2 DEF Booked
<1>6. result' = Promise!Outcome
  BY <1>3, <1>4, <1>5 DEF Return, Promise!Outcome
<1>7. Verdicts' = Verdicts
  BY DEF Return, Verdicts, Verdict, bookVars
<1> QED BY <1>n, <1>6, <1>7 DEF Promise!Conclude, Return, Verdicts

\* The scheduler of runDAG implements SwarmOutcome: whatever the order its
\* bots run in, they get the verdicts, and the run the outcome, promised.
THEOREM DagKeepsPromise == Spec => KeepsPromise
<1>1. Init => Promise!Init
  BY DEF Init, Promise!Init, Verdict
<1>2. DagInv /\ [Next]_vars => [Promise!Next]_<<Verdicts, result>>
  <2> SUFFICES ASSUME DagInv, [Next]_vars
               PROVE  Promise!Next \/ (Verdicts' = Verdicts /\ result' = result)
    OBVIOUS
  <2>1. ASSUME NEW b \in Bots, CloseDone(b) PROVE Promise!Next
    BY <2>1, CloseDecides DEF Promise!Next
  <2>2. ASSUME NEW b \in Bots, Bot(b), ~CloseDone(b)
        PROVE  Verdicts' = Verdicts /\ result' = result
    BY <2>2, BotStutters
  <2>3. CASE Return
    BY <2>3, ReturnConcludes DEF Promise!Next
  <2>4. CASE Cancel \/ UNCHANGED vars
    BY <2>4 DEF Cancel, vars, bookVars, Verdicts, Verdict
  <2> QED BY <2>1, <2>2, <2>3, <2>4 DEF Next, Returned
<1> QED BY <1>1, <1>2, DagInvariant, PTL DEF Spec, KeepsPromise, Promise!Spec, Verdicts
-----------------------------------------------------------------------------
(* What termination needs of every swarm, besides fairness: each bot has a *)
(* number of steps left that only falls, and some bot can take one.        *)

\* How far a bot's place is from its end. A retry goes back from "judge" to
\* "attempt".
Rank(p) ==
    CASE p = "wait" -> 12 [] p = "look" -> 11 [] p = "skip" -> 10 [] p = "when" -> 10
      [] p = "slot" -> 9 [] p = "attempt" -> 8 [] p = "judge" -> 7 [] p = "fallback" -> 6
      [] p = "release" -> 5 [] p = "record" -> 4 [] p = "mark" -> 3 [] p = "close" -> 2
      [] OTHER -> 0

\* The steps b has left, at most: two for each retry it has not used, and its
\* way to the end.
StepsLeft(b) == 2 * (Retry[b] - tried[b]) + Rank(pc[b])

\* A step of b costs b one at least and the other bots nothing.
StepsCounted ==
    [][\A b \in Bots : Bot(b) => /\ StepsLeft(b)' < StepsLeft(b)
                                 /\ \A c \in Bots : c # b => StepsLeft(c)' = StepsLeft(c)]_vars

\* The bots between two steps that nothing holds up.
CanGo(b) ==
    \/ pc[b] \in Pcs \ {"wait", "slot", "end"}
    \/ pc[b] = "wait" /\ Deps[b] \subseteq done
    \/ pc[b] = "slot" /\ slots < Limit

\* No snap leads round in a circle: in every set of bots there is one that
\* reads from none of them. The planner refuses other swarms.
Acyclic == \A T \in SUBSET Bots : T # {} => \E b \in T : Deps[b] \cap T = {}

SomeoneCanGo == (\E b \in Bots : pc[b] # "end") => \E b \in Bots : CanGo(b)

\* What is left is a natural number.
LEMMA StepsLeftBounded ==
    ASSUME Typed, Counts, NEW b \in Bots
    PROVE  StepsLeft(b) \in 0..(2 * Retry[b] + 12)
<1>1. Retry[b] \in Nat /\ tried[b] \in Nat /\ tried[b] <= Retry[b]
  BY CountsAssumption DEF Counts
<1>2. Rank(pc[b]) \in 0..12
  BY DEF Rank, Typed, Pcs
<1> QED BY <1>1, <1>2 DEF StepsLeft

\* A step of b brings b nearer to its end.
LEMMA BotDescends ==
    ASSUME Typed, Counts, NEW b \in Bots, Bot(b) PROVE StepsLeft(b)' < StepsLeft(b)
<1>0. Retry[b] \in Nat /\ tried[b] \in Nat /\ tried[b] <= Retry[b]
  BY CountsAssumption DEF Counts
<1>t. pc \in [Bots -> Pcs] /\ tried \in [Bots -> Nat] /\ b \in Bots
  BY DEF Typed, Counts
<1>s. ASSUME tried'[b] = tried[b], Rank(pc'[b]) < Rank(pc[b]), Rank(pc'[b]) \in Nat, Rank(pc[b]) \in Nat
      PROVE  StepsLeft(b)' < StepsLeft(b)
  BY <1>0, <1>s DEF StepsLeft
<1>1. CASE AwaitUpstream(b)
  <2>1. pc[b] = "wait" /\ pc'[b] = "look" /\ tried'[b] = tried[b]
    BY <1>t, <1>1 DEF AwaitUpstream, Goto
  <2> QED BY <2>1, <1>s DEF Rank
<1>2. CASE LookUpstream(b)
  <2>1. pc[b] = "look" /\ pc'[b] \in {"skip", "when"} /\ tried'[b] = tried[b]
    BY <1>t, <1>2 DEF LookUpstream, Goto
  <2> QED BY <2>1, <1>s DEF Rank
<1>3. CASE Skip(b)
  <2>1. pc[b] = "skip" /\ pc'[b] = "close" /\ tried'[b] = tried[b]
    BY <1>t, <1>3 DEF Skip, Goto, MarkGone
  <2> QED BY <2>1, <1>s DEF Rank
<1>4. CASE WhenTrue(b)
  <2>1. pc[b] = "when" /\ pc'[b] = "slot" /\ tried'[b] = tried[b]
    BY <1>t, <1>4 DEF WhenTrue, Goto
  <2> QED BY <2>1, <1>s DEF Rank
<1>5. CASE WhenFalse(b)
  <2>1. pc[b] = "when" /\ pc'[b] = "close" /\ tried'[b] = tried[b]
    BY <1>t, <1>5 DEF WhenFalse, Goto, MarkGone
  <2> QED BY <2>1, <1>s DEF Rank
<1>6. CASE WhenFails(b)
  <2>1. pc[b] = "when" /\ pc'[b] = "record" /\ tried'[b] = tried[b]
    BY <1>t, <1>6 DEF WhenFails, Goto
  <2> QED BY <2>1, <1>s DEF Rank
<1>7. CASE TakeSlot(b)
  <2>1. pc[b] = "slot" /\ pc'[b] = "attempt" /\ tried'[b] = tried[b]
    BY <1>t, <1>7 DEF TakeSlot, Goto
  <2> QED BY <2>1, <1>s DEF Rank
<1>8. CASE AttemptEnds(b)
  <2>1. pc[b] = "attempt" /\ pc'[b] = "judge" /\ tried'[b] = tried[b]
    BY <1>t, <1>8 DEF AttemptEnds, Goto
  <2> QED BY <2>1, <1>s DEF Rank
<1>9. CASE Judge(b)
  <2>1. CASE WorthRetrying(err[b]) /\ TriesLeft(b)
    <3>1. pc[b] = "judge" /\ pc'[b] = "attempt" /\ tried'[b] = tried[b] + 1
      BY <1>t, <1>9, <2>1 DEF Judge, Goto
    <3>2. Rank(pc[b]) = 7 /\ Rank(pc'[b]) = 8
      BY <3>1 DEF Rank
    <3> QED BY <1>0, <3>1, <3>2 DEF StepsLeft
  <2>2. CASE ~(WorthRetrying(err[b]) /\ TriesLeft(b))
    <3>1. pc[b] = "judge" /\ pc'[b] \in {"fallback", "release"} /\ tried'[b] = tried[b]
      BY <1>t, <1>9, <2>2 DEF Judge, Goto
    <3>2. Rank(pc[b]) = 7 /\ Rank(pc'[b]) \in {5, 6}
      BY <3>1 DEF Rank
    <3> QED BY <3>1, <3>2, <1>s
  <2> QED BY <2>1, <2>2
<1>10. CASE FallbackEnds(b)
  <2>1. pc[b] = "fallback" /\ pc'[b] = "release" /\ tried'[b] = tried[b]
    BY <1>t, <1>10 DEF FallbackEnds, Goto
  <2> QED BY <2>1, <1>s DEF Rank
<1>11. CASE ReleaseSlot(b)
  <2>1. pc[b] = "release" /\ pc'[b] = "record" /\ tried'[b] = tried[b]
    BY <1>t, <1>11 DEF ReleaseSlot, Goto
  <2> QED BY <2>1, <1>s DEF Rank
<1>12. CASE RecordWork(b)
  <2>1. pc[b] = "record" /\ pc'[b] = "close" /\ tried'[b] = tried[b]
    BY <1>t, <1>12 DEF RecordWork, Goto
  <2> QED BY <2>1, <1>s DEF Rank
<1>13. CASE RecordNothing(b)
  <2>1. pc[b] = "record" /\ pc'[b] = "close" /\ tried'[b] = tried[b]
    BY <1>t, <1>13 DEF RecordNothing, Goto, MarkGone
  <2> QED BY <2>1, <1>s DEF Rank
<1>14. CASE Tolerate(b)
  <2>1. pc[b] = "record" /\ pc'[b] = "mark" /\ tried'[b] = tried[b]
    BY <1>t, <1>14 DEF Tolerate, Goto
  <2> QED BY <2>1, <1>s DEF Rank
<1>15. CASE MarkTolerated(b)
  <2>1. pc[b] = "mark" /\ pc'[b] = "close" /\ tried'[b] = tried[b]
    BY <1>t, <1>15 DEF MarkTolerated, Goto, MarkGone
  <2> QED BY <2>1, <1>s DEF Rank
<1>16. CASE RecordFatal(b)
  <2>1. pc[b] = "record" /\ pc'[b] = "close" /\ tried'[b] = tried[b]
    BY <1>t, <1>16 DEF RecordFatal, Goto, MarkGone
  <2> QED BY <2>1, <1>s DEF Rank
<1>17. CASE CloseDone(b)
  <2>1. pc[b] = "close" /\ pc'[b] = "end" /\ tried'[b] = tried[b]
    BY <1>t, <1>17 DEF CloseDone, Goto
  <2> QED BY <2>1, <1>s DEF Rank
<1> QED BY <1>1, <1>2, <1>3, <1>4, <1>5, <1>6, <1>7, <1>8, <1>9,
           <1>10, <1>11, <1>12, <1>13, <1>14, <1>15, <1>16, <1>17 DEF Bot

\* Only b's own step counts a retry of b.
LEMMA TriesKept ==
    ASSUME Counts, NEW b \in Bots, Bot(b), NEW c \in Bots, c # b PROVE tried'[c] = tried[c]
<1>1. tried \in [Bots -> Nat] BY DEF Counts
<1>2. UNCHANGED tried \/ tried' = [tried EXCEPT ![b] = @ + 1]
  BY DEF Bot, AwaitUpstream, LookUpstream, Skip, WhenTrue, WhenFalse, WhenFails,
     TakeSlot, AttemptEnds, Judge, FallbackEnds, ReleaseSlot, RecordWork,
     RecordNothing, Tolerate, MarkTolerated, RecordFatal, CloseDone
<1> QED BY <1>1, <1>2

\* Every swarm, cyclic or not: a bot takes 2 * Retry + 12 steps at most, and no
\* step of another gives it one back. So runDAG cannot retry, fall back or
\* wait in turns for ever: it returns or it is stuck.
THEOREM DagStepsCounted ==
    Spec => [](\A b \in Bots : StepsLeft(b) \in 0..(2 * Retry[b] + 12)) /\ StepsCounted
<1>1. DagInv => \A b \in Bots : StepsLeft(b) \in 0..(2 * Retry[b] + 12)
  BY StepsLeftBounded DEF DagInv
<1>2. DagInv /\ [Next]_vars =>
        [\A b \in Bots : Bot(b) => /\ StepsLeft(b)' < StepsLeft(b)
                                   /\ \A c \in Bots : c # b => StepsLeft(c)' = StepsLeft(c)]_vars
  <2> SUFFICES ASSUME DagInv, NEW b \in Bots, Bot(b)
               PROVE  /\ StepsLeft(b)' < StepsLeft(b)
                      /\ \A c \in Bots : c # b => StepsLeft(c)' = StepsLeft(c)
    OBVIOUS
  <2>0. Typed /\ Counts BY DEF DagInv
  <2>1. StepsLeft(b)' < StepsLeft(b) BY <2>0, BotDescends
  <2>2. ASSUME NEW c \in Bots, c # b PROVE StepsLeft(c)' = StepsLeft(c)
    <3>1. pc'[c] = pc[c]
      BY <2>0, <2>2, BotFrame DEF Frame
    <3>2. tried'[c] = tried[c]
      BY <2>0, <2>2, TriesKept
    <3> QED BY <3>1, <3>2 DEF StepsLeft
  <2> QED BY <2>1, <2>2
<1> QED BY <1>1, <1>2, DagInvariant, PTL DEF Spec, StepsCounted

\* Whatever fails, is skipped, retried or stopped: while a bot of an acyclic
\* swarm has not closed its done channel, some bot of it can go on. Bots that
\* wait for one another, and a slot that is never given back, are what it
\* excludes.
THEOREM DagNeverStuck == ASSUME Acyclic PROVE Spec => []SomeoneCanGo
<1>1. DagInv => SomeoneCanGo
  <2> SUFFICES ASSUME DagInv, \E b \in Bots : pc[b] # "end" PROVE \E b \in Bots : CanGo(b)
    BY DEF SomeoneCanGo
  <2> DEFINE Left == {b \in Bots : pc[b] # "end"}
  <2>1. PICK b \in Left : Deps[b] \cap Left = {}
    <3>1. Left \in SUBSET Bots /\ Left # {} OBVIOUS
    <3> QED BY <3>1 DEF Acyclic
  <2>2. b \in Bots /\ pc[b] \in Pcs /\ pc[b] # "end"
    BY DEF DagInv, Typed
  <2>3. Deps[b] \subseteq done
    <3> SUFFICES ASSUME NEW d \in Deps[b] PROVE d \in done OBVIOUS
    <3>1. d \in Bots BY <2>2, DepsAssumption
    <3>2. pc[d] = "end" BY <2>1, <3>1
    <3> QED BY <3>1, <3>2 DEF DagInv, BotInv
  <2>4. CASE pc[b] # "slot"
    BY <2>2, <2>3, <2>4 DEF CanGo
  <2>5. CASE pc[b] = "slot" /\ slots < Limit
    BY <2>2, <2>5 DEF CanGo
  <2>6. CASE ~(slots < Limit)
    <3> DEFINE Holders == {c \in Bots : pc[c] \in Holding}
    <3>1. slots \in Nat /\ slots = Cardinality(Holders) BY DEF DagInv, Counts, SlotsBalanced
    <3>2. Cardinality(Holders) # 0 BY <2>6, <3>1, CountsAssumption
    <3>3. PICK c \in Bots : pc[c] \in Holding BY <3>2, FS_EmptySet
    <3> QED BY <3>3 DEF CanGo, Holding, Pcs
  <2> QED BY <2>4, <2>5, <2>6
<1> QED BY <1>1, DagInvariant, PTL
=============================================================================
