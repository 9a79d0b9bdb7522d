------------------------------- MODULE Steps -------------------------------
(***************************************************************************)
(* A bot's steps: the interpreter in its container (step/interpret.go,     *)
(* agentloop.go), its calls back to the daemon (step/remote.go), the       *)
(* daemon's answers (api/callbacks.go, runner/callback.go) and what they   *)
(* do (step/live.go).  A handler runs in a goroutine of the daemon, which  *)
(* the container's end does not stop.  Left out: a call that fails on the  *)
(* way, or by its client's timeout of 35 minutes (remote.go:46), while its *)
(* handler goes on.                                                        *)
(***************************************************************************)
EXTENDS Integers, Sequences, FiniteSets

CONSTANTS
    Programs,   \* step lists, of StepKinds
    Turns,      \* bound: the tool calls one answer of the model can ask for
    Attempts,   \* bound: 1 + the bot's `retry`
    MaxIterations, \* of an agent.loop
    Strays      \* bound: how many containers survive being killed

\* One kind for every way the interpreter treats a step.
StepKinds ==
    {"read",    \* service.call that reads, ai.generate, web.fetch, memory.recall
     "soft",    \* memory.get, memory.put, memory.remember: a failure is logged
     "send",    \* service.call that writes, notify
     "bound",   \* the same over a 1Claw binding that asks its own approval
     "local",   \* transform.now, transform.pick, transform.render
     "gate",    \* approve that binds no output
     "ask",     \* approve that does
     "stop",    \* stop.if
     "loop"}    \* agent.loop
\* What a tool call of the model can be. A tool writes if the bot declares
\* writes: for it (schema/types.go AgentTool); CheckAgentLoop does not compare
\* that with what the operation does.
ToolKinds == {"reads", "writes", "undeclared"}

ASSUME StepsAssumption ==
    /\ Programs \subseteq Seq(StepKinds) /\ Programs # {} /\ Turns \subseteq Seq(ToolKinds)
    /\ Attempts \in Nat \ {0} /\ MaxIterations \in 1..20 /\ Strays \in Nat

Attempt == 1..Attempts

VARIABLES
    program,
    mode,       \* "container" or "in_process": runsInProcess
    inter,      \* the interpreter of each attempt's container
    serve,      \* the daemon's handler of its one call in flight
    tokens,     \* CallbackRegistry: attempts whose token is known
    over,       \* attempts the runner has an outcome of
    yes,        \* calls a person said yes to: <<attempt, call>>
    effects,    \* what was done to the outside
    strays

stepVars == <<program, mode, inter, serve, tokens, over, yes, effects, strays>>

\* `n` numbers the calls of an attempt, `turn` holds the tool calls of the
\* model's last answer that are still to be made, `messages` what it has seen.
Goal == [is |-> "goal", calls |-> 0]
Result == [is |-> "result", calls |-> 0]
AsksFor(k) == [is |-> "asks", calls |-> k]
NotBegun == [at |-> "not_begun", step |-> 1, n |-> 0, iter |-> 0, turn |-> <<>>, messages |-> <<>>]
Idling == [at |-> "idle", op |-> "read", answer |-> "none", turn |-> <<>>]

StepsInit ==
    /\ program \in Programs /\ mode \in {"container", "in_process"}
    /\ inter = [a \in Attempt |-> NotBegun] /\ serve = [a \in Attempt |-> Idling]
    /\ tokens = {} /\ over = [a \in Attempt |-> "no"]
    /\ yes = {} /\ effects = {} /\ strays = 0

-----------------------------------------------------------------------------
(* The interpreter.                                                        *)

\* The runner registers a token and starts the interpreter, in a container or
\* as a goroutine; a failed attempt is tried again.
Begin(a) ==
    /\ inter[a].at = "not_begun" /\ (a > 1 => over[a - 1] = "failed")
    /\ inter' = [inter EXCEPT ![a].at = "step"] /\ tokens' = tokens \cup {a}
    /\ UNCHANGED <<program, mode, serve, over, yes, effects, strays>>

Kind(a) == IF inter[a].step \in DOMAIN program THEN program[inter[a].step] ELSE "end"
Past(i) == [i EXCEPT !.at = "step", !.step = @ + 1]
Ends(i, how) == [i EXCEPT !.at = how, !.turn = <<>>, !.messages = <<>>]

\* RemoteDeps posts to the daemon; in process there is no token to look up.
Calls(a, op) ==
    /\ inter' = [inter EXCEPT ![a].at = "calls", ![a].n = @ + 1]
    /\ serve' = [serve EXCEPT ![a] = [Idling EXCEPT !.op = op,
                                         !.at = IF mode = "container" THEN "sent" ELSE "admitted"]]
Goes(a, i) == inter' = [inter EXCEPT ![a] = i] /\ UNCHANGED serve

\* One step.  The loop's first message is its goal; at the end a declared
\* output may be missing or of another type.
Step(a) ==
    /\ inter[a].at = "step"
    /\ \/ Kind(a) \in {"read", "soft", "send", "bound", "gate", "ask"} /\ Calls(a, Kind(a))
       \/ Kind(a) = "local" /\ \E i \in {Past(inter[a]), Ends(inter[a], "failed")} : Goes(a, i)
       \/ Kind(a) = "stop" /\ \E i \in {Past(inter[a]), Ends(inter[a], "stopped")} : Goes(a, i)
       \/ Kind(a) = "loop" /\ Goes(a, [inter[a] EXCEPT !.at = "model", !.iter = 1, !.messages = <<Goal>>])
       \/ Kind(a) = "end" /\ \E how \in {"done", "failed"} : Goes(a, Ends(inter[a], how))
    /\ UNCHANGED <<program, mode, tokens, over, yes, effects, strays>>

\* The call a tool call of the model begins with: a tool that writes asks
\* first, and one that is not declared, or whose arguments are no JSON, makes
\* no call.
OpOf(tool) == [reads |-> "tool", writes |-> "tool_gate", undeclared |-> "refused"][tool]
\* The conversation once a tool call has its result.
AfterTool(i) ==
    LET rest == Tail(i.turn)
    IN [i EXCEPT !.messages = Append(@, Result), !.turn = rest,
                 !.at = IF rest = <<>> THEN "model" ELSE "tools",
                 !.iter = IF rest = <<>> THEN @ + 1 ELSE @]
\* max_iterations counts calls of the model, the first included.
TurnsLeft(i) == i.iter <= MaxIterations
LoopStep(a) ==
    /\ \/ inter[a].at = "model" /\ TurnsLeft(inter[a]) /\ Calls(a, "model")
       \/ inter[a].at = "model" /\ ~TurnsLeft(inter[a]) /\ Goes(a, Ends(inter[a], "failed"))
       \/ inter[a].at = "tools" /\ OpOf(Head(inter[a].turn)) # "refused" /\ Calls(a, OpOf(Head(inter[a].turn)))
       \/ inter[a].at = "tools" /\ OpOf(Head(inter[a].turn)) = "refused" /\ Goes(a, AfterTool(inter[a]))
       \/ inter[a].at = "write" /\ Calls(a, "tool_send")
    /\ UNCHANGED <<program, mode, tokens, over, yes, effects, strays>>

-----------------------------------------------------------------------------
(* The daemon.                                                             *)

Answers(a, what) == serve' = [serve EXCEPT ![a].at = "answered", ![a].answer = what]

\* depsFromRequest: an unknown token is answered 401.
Admit(a) ==
    /\ serve[a].at = "sent"
    /\ \/ a \in tokens /\ serve' = [serve EXCEPT ![a].at = "admitted"]
       \/ a \notin tokens /\ Answers(a, "error")
    /\ UNCHANGED <<program, mode, inter, tokens, over, yes, effects, strays>>

Gates == {"gate", "ask", "tool_gate"}
Sends == {"send", "tool_send"}
Done(a) == effects' = effects \cup {[attempt |-> a, call |-> inter[a].n, step |-> inter[a].step,
                                      op |-> serve[a].op, late |-> over[a] # "no"]}

\* What the handlers do.  A call that failed may have had its effect.  A call
\* over a binding may have to wait for 1Claw's approval, and is then repeated.
AnswerRead(a) ==
    /\ serve[a].op \in {"read", "soft", "tool"} /\ UNCHANGED effects
    /\ \E what \in {"ok", "error"} : Answers(a, what)
Send(a) ==
    /\ serve[a].op \in Sends
    /\ \/ UNCHANGED effects /\ Answers(a, "error")
       \/ Done(a) /\ \E what \in {"ok", "error"} : Answers(a, what)
OpenGate(a) ==
    /\ serve[a].op \in Gates \cup {"bound"} /\ UNCHANGED effects
    /\ serve' = [serve EXCEPT ![a].at = "asking"]
Generate(a) ==
    /\ serve[a].op = "model" /\ UNCHANGED effects
    /\ \/ \E what \in {"final", "error"} : Answers(a, what)
       \/ \E t \in Turns : serve' = [serve EXCEPT ![a].at = "answered", ![a].answer = "tools", ![a].turn = t]
Act(a) ==
    /\ serve[a].at = "admitted"
    /\ AnswerRead(a) \/ Send(a) \/ OpenGate(a) \/ Generate(a)
    /\ UNCHANGED <<program, mode, inter, tokens, over, yes, strays>>

\* A person decides, or the wait ends: time is up, the vault is locked.
Decide(a) ==
    /\ serve[a].at = "asking"
    /\ \/ Answers(a, "error") /\ UNCHANGED <<yes, effects>>
       \/ Answers(a, "no") /\ UNCHANGED <<yes, effects>>
       \/ serve[a].op # "bound" /\ Answers(a, "ok") /\ yes' = yes \cup {<<a, inter[a].n>>}
             /\ UNCHANGED effects
       \/ serve[a].op = "bound" /\ Answers(a, "ok") /\ Done(a) /\ yes' = yes \cup {<<a, inter[a].n>>}
    /\ UNCHANGED <<program, mode, inter, tokens, over, strays>>

-----------------------------------------------------------------------------
(* The answer.                                                             *)

\* A rejection ends the bot only where nothing looks at the decision.
AfterAnyGate(i, answer) == IF answer = "error" THEN Ends(i, "failed") ELSE Past(i)
AfterGate(i, answer) == IF answer = "ok" THEN Past(i) ELSE Ends(i, "failed")
\* A tool that fails tells the model so; a write that is not approved ends
\* the loop.
AfterCall(i, op, answer, turn) ==
    CASE op \in {"read", "send", "bound"} -> IF answer = "ok" THEN Past(i) ELSE Ends(i, "failed")
      [] op = "soft" -> Past(i)
      [] op = "gate" -> AfterGate(i, answer)
      [] op = "ask" -> IF answer = "error" THEN Ends(i, "failed") ELSE Past(i)
      [] op = "tool_gate" -> IF answer = "ok" THEN [i EXCEPT !.at = "write"] ELSE Ends(i, "failed")
      [] op \in {"tool", "tool_send"} -> AfterTool(i)
      [] op = "model" /\ answer = "final" -> [Past(i) EXCEPT !.messages = <<>>]
      [] op = "model" /\ answer = "tools" /\ turn # <<>> ->
            [i EXCEPT !.at = "tools", !.turn = turn, !.messages = Append(@, AsksFor(Len(turn)))]
      [] OTHER -> Ends(i, "failed")

Receive(a) ==
    /\ inter[a].at = "calls" /\ serve[a].at = "answered"
    /\ inter' = [inter EXCEPT ![a] = AfterCall(inter[a], serve[a].op, serve[a].answer, serve[a].turn)]
    /\ serve' = [serve EXCEPT ![a] = Idling]
    /\ UNCHANGED <<program, mode, tokens, over, yes, effects, strays>>

-----------------------------------------------------------------------------
(* The runner.                                                             *)

\* Unregister is deferred, whatever the outcome.
Settled(a, how) == over' = [over EXCEPT ![a] = how] /\ tokens' = tokens \ {a}
Ended(a) ==
    /\ inter[a].at \in {"done", "stopped", "failed"} /\ over[a] = "no"
    /\ Settled(a, inter[a].at)
    /\ UNCHANGED <<program, mode, inter, serve, yes, effects, strays>>

\* The bot's time is up or the run is stopped: the container is killed, which
\* may fail; the interpreter that runs in process is abandoned where it is.
GiveUp(a) ==
    /\ over[a] = "no" /\ inter[a].at \notin {"not_begun", "done", "stopped", "failed"}
    /\ \E how \in {"failed", "stopped"} : Settled(a, how)
    /\ \/ mode = "container" /\ inter' = [inter EXCEPT ![a] = Ends(@, "gone")] /\ UNCHANGED strays
       \/ mode = "container" /\ strays < Strays /\ strays' = strays + 1 /\ UNCHANGED inter
       \/ mode = "in_process" /\ UNCHANGED <<inter, strays>>
    /\ UNCHANGED <<program, mode, serve, yes, effects>>

StepsNext ==
    \E a \in Attempt :
        \/ Begin(a) \/ Step(a) \/ LoopStep(a) \/ Admit(a) \/ Act(a) \/ Decide(a)
        \/ Receive(a) \/ Ended(a) \/ GiveUp(a)

StepsSpec == StepsInit /\ [][StepsNext]_stepVars

-----------------------------------------------------------------------------
StepsTypeOK ==
    /\ program \in Programs /\ mode \in {"container", "in_process"} /\ tokens \subseteq Attempt
    /\ over \in [Attempt -> {"no", "done", "stopped", "failed"}] /\ strays \in 0..Strays
    /\ \A a \in Attempt :
          /\ inter[a].at \in {"not_begun", "step", "calls", "model", "tools", "write",
                              "done", "stopped", "failed", "gone"}
          /\ inter[a].step \in 1..(Len(program) + 1) /\ inter[a].iter \in 0..(MaxIterations + 1)
          /\ serve[a].at \in {"idle", "sent", "admitted", "asking", "answered"}

\* interpret.go, agentloop.go: nothing is sent past an inline gate of the bot
\* that was not answered yes in this very attempt, and no write of an agent's
\* tool without a yes of its own: not the one an earlier attempt, an earlier
\* turn or another call of the same tool was given.
NothingUnasked ==
    \A e \in effects :
        /\ e.op = "tool_send" => <<e.attempt, e.call - 1>> \in yes
        /\ Cardinality({y \in yes : y[1] = e.attempt /\ y[2] < e.call})
             >= Cardinality({s \in 1..(e.step - 1) : program[s] = "gate"})

\* callback.go: a token dies with its attempt.  Of an attempt that is over in
\* a container, killed or not, the outside sees at most the one call that was
\* being answered.
OverActsNoMore ==
    mode = "container" =>
        \A a \in Attempt : Cardinality({e \in effects : e.attempt = a /\ e.late}) <= 1

\* agentloop.go: whenever the model is called, every tool call it has asked
\* for has exactly one result, and they come before what it asks next.
ResultsAfter(messages, k) ==
    {j \in (k + 1)..Len(messages) : \A m \in (k + 1)..j : messages[m] = Result}
EveryCallAnswered ==
    \A a \in Attempt : inter[a].at = "model" =>
        \A k \in DOMAIN inter[a].messages : inter[a].messages[k].is = "asks" =>
            Cardinality(ResultsAfter(inter[a].messages, k)) = inter[a].messages[k].calls

\* Nothing is done unasked, by an attempt that is over, or on half of what a
\* model was told (interpret.go, callback.go, agentloop.go).
ActsAsAsked == NothingUnasked /\ OverActsNoMore /\ EveryCallAnswered
=============================================================================
