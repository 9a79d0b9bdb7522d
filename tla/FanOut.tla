------------------------------- MODULE FanOut -------------------------------
(***************************************************************************)
(* One fanned-out bot: runBot and runItems of internal/runner/execute.go,  *)
(* the gate its items share (BatchApprover) and the copy of the question   *)
(* in 1Claw's queue (RunQueueApprover.mirror), both in approver.go.        *)
(*                                                                         *)
(* A bot may stop early, asks, writes, and gives its item's output. An     *)
(* attempt that exceeds its max_runtime is abandoned: its goroutine, or    *)
(* the callback handler of a killed container, goes on. What other bots of *)
(* the run do, and Stop, is in Run.                                        *)
(***************************************************************************)
EXTENDS Integers, Sequences, FiniteSets

CONSTANTS
    MaxItems,  \* bound: how long the lists may be
    ItemLimit  \* parallelBots()

ASSUME FanOutAssumption == MaxItems \in Nat /\ ItemLimit \in Nat \ {0}

Items == 1..MaxItems

VARIABLES
    loop,      \* runBot: where it is, the width, the item to start next,
               \* and how the bot ended
    failed,    \* runItems: failed
    item,      \* each item: where its steps are; is runBotOnce still running;
               \* how that ended
    out,       \* runItems: out, 0 for none
    batch,     \* BatchApprover: asked, the answer, who holds mu (0 for none)
    question,  \* the approval in the run's queue
    copy,      \* the copy in 1Claw's queue, and the goroutine that polls it
    agent,     \* the agent that asks on 1Claw, as the orchestrator caches it
    person,    \* history: what people have said, here or there
    declined,  \* Run.DeclinedByUser
    sent       \* history: how often each item has written

gateVars == <<batch, question, copy, agent, person, declined>>
itemVars == <<failed, item, out, sent>>
fanVars == <<loop, itemVars, gateVars>>

FanOutTypeOK ==
    /\ loop \in [pc : {"start", "take", "check", "launch", "wait", "done"}, n : 0..MaxItems,
                 next : 1..(MaxItems + 1), slots : 0..ItemLimit,
                 result : {"none", "ok", "error", "nothing"}, outputs : Seq(Items)]
    /\ failed \in BOOLEAN
    /\ item \in [Items -> [pc : {"new", "work", "want", "open", "ask", "told", "wrote", "over"},
                           live : BOOLEAN, result : {"none", "ok", "error", "nothing"}]]
    /\ out \in [Items -> 0..MaxItems] /\ sent \in [Items -> 0..MaxItems]
    /\ batch \in [asked : BOOLEAN, answer : {"none", "yes", "no", "error"}, mu : 0..MaxItems]
    /\ question \in {"none", "listed", "yes", "no", "gone"}
    /\ copy \in [is : {"none", "pending", "approved", "rejected", "expired", "cancelled"},
                 polled : BOOLEAN, done : BOOLEAN]
    /\ agent \in {"unknown", "ready", "broken"}
    /\ person \subseteq {"yes", "no"} /\ declined \in BOOLEAN

FanOutInit ==
    /\ loop = [pc |-> "start", n |-> 0, next |-> 1, slots |-> 0, result |-> "none", outputs |-> <<>>]
    /\ failed = FALSE
    /\ item = [i \in Items |-> [pc |-> "new", live |-> FALSE, result |-> "none"]]
    /\ out = [i \in Items |-> 0] /\ sent = [i \in Items |-> 0]
    /\ batch = [asked |-> FALSE, answer |-> "none", mu |-> 0]
    /\ question = "none" /\ copy = [is |-> "none", polled |-> FALSE, done |-> FALSE]
    /\ agent = "unknown" /\ person = {} /\ declined = FALSE

-----------------------------------------------------------------------------
(* runBot and runItems.                                                    *)

Launched == 1..(loop.next - 1)
Running == {i \in Items : item[i].live}

\* fanOutWidth: two lists walked in lockstep. No item is a success.
Width ==
    /\ loop.pc = "start"
    /\ \E a, b \in 0..MaxItems :
          loop' = IF a # b THEN [loop EXCEPT !.pc = "done", !.result = "error"]
                  ELSE IF a = 0 THEN [loop EXCEPT !.pc = "done", !.result = "ok"]
                  ELSE [loop EXCEPT !.pc = "take", !.n = a]
    /\ UNCHANGED <<itemVars, gateVars>>

Take ==
    /\ loop.pc = "take"
    /\ IF loop.next > loop.n THEN loop' = [loop EXCEPT !.pc = "wait"]
       ELSE loop.slots < ItemLimit /\ loop' = [loop EXCEPT !.pc = "check", !.slots = @ + 1]
    /\ UNCHANGED <<itemVars, gateVars>>

Check ==
    /\ loop.pc = "check"
    /\ loop' = IF failed THEN [loop EXCEPT !.pc = "wait", !.slots = @ - 1]
               ELSE [loop EXCEPT !.pc = "launch"]
    /\ UNCHANGED <<itemVars, gateVars>>

Launch ==
    /\ loop.pc = "launch"
    /\ item' = [item EXCEPT ![loop.next] = [@ EXCEPT !.pc = "work", !.live = TRUE]]
    /\ loop' = [loop EXCEPT !.pc = "take", !.next = @ + 1]
    /\ UNCHANGED <<failed, out, sent, gateVars>>

\* The error of the lowest-numbered item is the bot's, nothing to do
\* included; else one output per item, in the order of the items.
Aggregate ==
    /\ loop.pc = "wait" /\ Running = {}
    /\ LET bad == {i \in Launched : item[i].result # "ok"}
       IN loop' = IF bad = {} THEN [loop EXCEPT !.pc = "done", !.result = "ok",
                                                !.outputs = [i \in 1..loop.n |-> out[i]]]
                  ELSE LET first == CHOOSE i \in bad : \A k \in bad : i <= k
                       IN [loop EXCEPT !.pc = "done", !.result = item[first].result]
    /\ UNCHANGED <<itemVars, gateVars>>

\* runBotOnce of item i returns: the result is recorded and the slot given
\* back. Somebody may have stopped waiting for it.
RecordedAs(i, pc, result, place, fails) ==
    /\ item' = [item EXCEPT ![i] = [pc |-> pc, live |-> FALSE,
                                    result |-> IF item[i].live THEN result ELSE @.result]]
    /\ IF item[i].live
         THEN /\ out' = IF result = "ok" THEN [out EXCEPT ![place] = i] ELSE out
              /\ failed' = (failed \/ fails)
              /\ loop' = [loop EXCEPT !.slots = @ - 1]
         ELSE UNCHANGED <<out, failed, loop>>
    /\ UNCHANGED sent
Record(i, pc, result) == RecordedAs(i, pc, result, i, result # "ok")

-----------------------------------------------------------------------------
(* The steps of one item.                                                  *)

Goes(i, pc) ==
    /\ item' = [item EXCEPT ![i].pc = pc]
    /\ UNCHANGED <<loop, failed, out>>

\* stop.if ends the bot, or some step fails, or the steps reach the gate.
Work(i) ==
    /\ item[i].pc = "work"
    /\ \/ Goes(i, "want") /\ UNCHANGED sent
       \/ \E result \in {"error", "nothing"} : Record(i, "over", result)
    /\ UNCHANGED gateVars

\* BatchApprover.Approve: the first caller keeps mu and asks, the others wait
\* for it and take over its answer.
Asks(i) ==
    /\ Goes(i, "open")
    /\ batch' = [batch EXCEPT !.asked = TRUE, !.mu = i]
    /\ question' = "listed"
ApproveEach(i) ==
    /\ item[i].pc = "want" /\ batch.mu = 0
    /\ Asks(i)
    /\ UNCHANGED <<sent, copy, agent, person, declined>>
Approve(i) ==
    /\ item[i].pc = "want" /\ batch.mu = 0
    /\ IF batch.asked THEN Goes(i, "told") /\ UNCHANGED <<batch, question>> ELSE Asks(i)
    /\ UNCHANGED <<sent, copy, agent, person, declined>>

\* mirror: without the agent, or when 1Claw refuses, the question is
\* answerable here only. A failure to get the agent is remembered.
Mirror(i) ==
    /\ item[i].pc = "open"
    /\ Goes(i, "ask")
    /\ \E now \in (IF agent = "unknown" THEN {"ready", "broken"} ELSE {agent}),
          opened \in {[is |-> "pending", polled |-> TRUE, done |-> FALSE], copy} :
          agent' = now /\ copy' = IF now = "ready" THEN opened ELSE copy
    /\ UNCHANGED <<batch, question, person, declined, sent>>

\* The local wait returns: an answer is in, or thirty minutes are over. done
\* is closed, mu let go.
SettleItem(i, answer, closes) ==
    /\ item[i].pc = "ask"
    /\ Goes(i, "told")
    /\ batch' = [batch EXCEPT !.answer = answer, !.mu = 0]
    /\ question' = "gone"
    /\ copy' = [copy EXCEPT !.done = closes]
    /\ UNCHANGED <<agent, person, declined, sent>>
Answered(i) == question \in {"yes", "no"} /\ SettleItem(i, question, TRUE)
GateTimeoutLeavesPoller(i) == question # "gone" /\ SettleItem(i, "error", FALSE)
GateTimeout(i) == question # "gone" /\ SettleItem(i, "error", TRUE)

\* With no yes the approve step fails.
Act(i) ==
    /\ item[i].pc = "told"
    /\ \/ /\ batch.answer = "yes"
          /\ Goes(i, "wrote")
          /\ sent' = [sent EXCEPT ![i] = @ + 1]
       \/ batch.answer # "yes" /\ Record(i, "over", "error")
    /\ UNCHANGED gateVars

ReturnItem(i) ==
    /\ item[i].pc = "wrote"
    /\ \E result \in {"ok", "error"} : Record(i, "over", result)
    /\ UNCHANGED gateVars

\* max_runtime: runBotOnce returns, the steps go on.
MaxRuntimeOver(i) ==
    /\ item[i].live
    /\ Record(i, item[i].pc, "error")
    /\ UNCHANGED gateVars

-----------------------------------------------------------------------------
(* Answers.                                                                *)

\* Run.Decide, which refuses a question that was decided or is gone.
Decide(approved) ==
    /\ question' = IF question # "listed" THEN question ELSE IF approved THEN "yes" ELSE "no"
    /\ declined' = (declined \/ (question = "listed" /\ ~approved))

PersonDecides ==
    /\ question = "listed"
    /\ \E approved \in BOOLEAN :
          Decide(approved) /\ person' = person \cup {IF approved THEN "yes" ELSE "no"}
    /\ UNCHANGED <<loop, itemVars, batch, copy, agent>>

PersonDecidesOn1Claw ==
    /\ copy.is = "pending"
    /\ \/ copy' = [copy EXCEPT !.is = "approved"] /\ person' = person \cup {"yes"}
       \/ copy' = [copy EXCEPT !.is = "rejected"] /\ person' = person \cup {"no"}
    /\ UNCHANGED <<loop, itemVars, batch, question, agent, declined>>

CopyExpires ==
    /\ copy.is = "pending"
    /\ copy' = [copy EXCEPT !.is = "expired"]
    /\ UNCHANGED <<loop, itemVars, batch, question, agent, person, declined>>

\* The poller's select, which chooses freely when both are ready: it withdraws
\* the copy, which may fail, or takes over a status other than pending.
Withdraw ==
    /\ copy.polled /\ copy.done
    /\ \E now \in {copy.is, IF copy.is = "pending" THEN "cancelled" ELSE copy.is} :
          copy' = [copy EXCEPT !.polled = FALSE, !.is = now]
    /\ UNCHANGED <<loop, itemVars, batch, question, agent, person, declined>>

Poll ==
    /\ copy.polled /\ copy.is # "pending"
    /\ Decide(copy.is = "approved")
    /\ copy' = [copy EXCEPT !.polled = FALSE]
    /\ UNCHANGED <<loop, itemVars, batch, agent, person>>

-----------------------------------------------------------------------------
Steps(i) == Approve(i) \/ Mirror(i) \/ Answered(i) \/ GateTimeout(i) \/ Act(i) \/ ReturnItem(i) \/ Work(i)
Runner == Width \/ Take \/ Check \/ Launch \/ Aggregate
Poller == Withdraw \/ Poll

FanOutNext ==
    \/ Runner \/ Poller \/ PersonDecides \/ PersonDecidesOn1Claw \/ CopyExpires
    \/ \E i \in Items : Steps(i) \/ MaxRuntimeOver(i)

-----------------------------------------------------------------------------
(* Properties.                                                             *)

\* Whatever order the items return in, a bot that succeeds gives one output
\* per item, each at its item's place: the next bot pairs them by position.
OutputsPaired ==
    loop.result = "ok" => loop.outputs = [i \in 1..loop.n |-> i]

\* One question covers the batch: an item writes at most once and only when
\* somebody said yes, here or on 1Claw, to that question, and no two items
\* write under different answers.
OneAnswerForAll ==
    /\ \A i \in Items : sent[i] <= 1 /\ (sent[i] > 0 => batch.answer = "yes" /\ "yes" \in person)
    /\ Cardinality({i \in Items : item[i].pc \in {"open", "ask"}}) <= 1

\* What a fanned-out bot hands on and what it may do for it: paired outputs
\* under one answer (execute.go runItems, approver.go BatchApprover).
FanOutSafety == OutputsPaired /\ OneAnswerForAll

\* Once the wait here is over, the goroutine that polls 1Claw ends: it has
\* withdrawn the copy, tried to, or seen an answer.
CopyWithdrawn == (question = "gone") ~> ~copy.polled

\* A fanned-out bot returns though nobody answers and no item is abandoned:
\* the gate's own timeout ends the wait of all.
FanOutReturns == <>(loop.pc = "done")
=============================================================================
