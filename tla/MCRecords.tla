----------------------------- MODULE MCRecords -----------------------------
(* What the daemon keeps and shows: run history, event streams, schedules,  *)
(* catalog, state directory, remembered marks and secrets, and what a plan  *)
(* has promised about a run. The parts share no state, so each behaviour is one *)
(* of the part that Init picks.                                             *)
EXTENDS RunHistory, RunEvents, Foundry, SwarmPlan, StateDir, Watch, Secrets, Nesting, MCSchedule, TLC

CONSTANTS
    Subjects,  \* parts that are run
    r1, r2, r3, r4, r5,
    head, middle, last

VARIABLE subject

recordVars == <<subject, vars, eventVars, foundryVars, planVars, stateVars, watchVars, secretVars,
                nestVars, schedVars>>

-----------------------------------------------------------------------------
(* Two old runs and three new ones: r4, at 2.51 s, has a smaller text than  *)
(* r3, at 2.5 s.                                                            *)
MCStart == [r \in Runs |-> CASE r = r1 -> <<1>>
                             [] r = r2 -> <<1, 5>>
                             [] r = r3 -> <<2, 5>>
                             [] r = r4 -> <<2, 5, 1>>
                             [] r = r5 -> <<3>>]
MCEdits == [r \in Listed |-> IF r = "a" THEN 1 ELSE 0]

MCCalls ==
    LET C(op, key) == [at |-> "daemon", key |-> key, op |-> op]
    IN [c1 |-> C("put", "slack"), c2 |-> C("put", "drive"), c3 |-> C("delete", "slack"),
        c4 |-> C("get", "slack"), c5 |-> C("put", "slack")]

-----------------------------------------------------------------------------
(* Documents.                                                               *)
MCPlanBots == {head, middle, last}
Port(n, of, schema) == [n |-> n, of |-> of, schema |-> schema]
Text0 == Port(0, "string", FALSE)
Text1 == Port(1, "string", FALSE)
Text2 == Port(2, "string", FALSE)
Object == Port(0, "json", TRUE)
Objects == Port(1, "json", TRUE)
PlainObject == Port(0, "json", FALSE)

BotOf(in, out) ==
    [in |-> in, out |-> out, required |-> TRUE, default |-> FALSE, given |-> FALSE,
     when |-> "none", loop |-> "none", until |-> "none", fallback |-> NoFallback]
SourceOf(out) == [BotOf(Str, out) EXCEPT !.required = FALSE]
SnapOf(f, path, join, t) == [from |-> f, path |-> path, join |-> join, to |-> t]

SnapRefused(d, s) == JoinType(s.join, OutType(d, s)) = Bad

\* head to middle to last, each input port declared to fit what arrives.
Chain(out1, path1, join1, out2, path2, join2) ==
    LET s1 == SnapOf(head, path1, join1, middle)
        s2 == SnapOf(middle, path2, join2, last)
        d == [bots |-> head :> SourceOf(out1) @@ middle :> BotOf(Str, out2) @@ last :> BotOf(Str, Text0),
              snaps |-> <<s1, s2>>]
    IN [d EXCEPT !.bots[middle].in = IF SnapRefused(d, s1) THEN @ ELSE JoinType(join1, OutType(d, s1)),
                 !.bots[last].in = IF SnapRefused(d, s2) THEN @ ELSE JoinType(join2, OutType(d, s2))]
Chains ==
    {Chain(o1, p1, j1, o2, p2, j2) :
        o1 \in {Text1, Text2, Objects}, p1 \in {<<>>, <<"*">>, <<"0">>, <<"*", "f">>, <<"*", "*">>},
        j1 \in {"none", "text", "first", "flatten"},
        o2 \in {Text0, Text1, Object}, p2 \in {<<>>, <<"*">>, <<"f">>}, j2 \in {"none", "text", "flatten"}}

\* Every field of the middle bot, fanned out or not.
Middle(path, out) == Chain(Text1, path, "none", out, <<>>, "none")
Like(b) ==
    [is |-> TRUE, in |-> b.in, out |-> b.out, same |-> TRUE, required |-> b.required, default |-> b.default]
Turning == {<<"none", "none">>, <<"feeds_unknown", "none">>}
           \cup {"alone", "feeds"} \X {"none", "holds", "orders"}
Middles ==
    {[Middle(p, o) EXCEPT
          !.bots[middle].when = w, !.bots[middle].loop = l[1], !.bots[middle].until = l[2],
          !.bots[middle].given = g, !.bots[middle].fallback = IF f THEN Like(Middle(p, o).bots[middle]) ELSE @] :
        p \in {<<"*">>, <<"0">>, <<>>}, o \in {Text0, Object, Text1},
        w \in {"none", "holds", "orders"}, l \in Turning, g, f \in BOOLEAN}

\* Every fallback, for a middle bot that is fed, fanned out, or left without a
\* value; one with other outputs is like the bot otherwise.
Unfed(d) == [d EXCEPT !.snaps = Tail(@), !.bots[middle].required = FALSE]
Fallbacks(b) ==
    {[is |-> TRUE, in |-> t, out |-> b.out, same |-> s, required |-> r, default |-> e] :
        t \in {Str, ListOf(Str)}, s, r, e \in BOOLEAN}
    \cup {[Like(b) EXCEPT !.out = o] : o \in {Text0, Text1, Object, PlainObject}}
StandIns ==
    UNION {{[d EXCEPT !.bots[middle].fallback = f, !.bots[middle].loop = l] :
                f \in Fallbacks(d.bots[middle]), l \in {"none", "feeds"}} :
           d \in {Middle(p, o) : p \in {<<"*">>, <<"0">>, <<>>}, o \in {Text0, Text1, Object}}
                 \cup {Chain(Text1, <<"0">>, "none", Object, <<"f">>, "none")}
                 \cup {[Unfed(Middle(<<>>, o)) EXCEPT !.bots[middle].given = g, !.bots[middle].default = e] :
                          o \in {Text0, Text1}, g, e \in BOOLEAN}}

\* Every graph of at most three plain snaps.
Graph(E) ==
    LET seq == CHOOSE s \in [1..Cardinality(E) -> E] : {s[i] : i \in DOMAIN s} = E
    IN [bots |-> [b \in MCPlanBots |-> [SourceOf(Text0) EXCEPT !.required = b # head]],
        snaps |-> [i \in DOMAIN seq |-> SnapOf(seq[i][1], <<>>, "none", seq[i][2])]]
Graphs == {Graph(E) : E \in {X \in SUBSET (MCPlanBots \X MCPlanBots) : Cardinality(X) <= 3}}

MCDocs == Chains \cup Middles \cup StandIns \cup Graphs

-----------------------------------------------------------------------------
(* Swarms that nest one another: file a uses b or c or itself, b may go on  *)
(* to another, ports map to a bot, to the nested swarm or to nothing, and  *)
(* a file may be gone or mix its own bots with a nested swarm's.           *)
NestedIn(node, links, from, to) ==
    [node |-> node, gone |-> FALSE, mixed |-> FALSE, links |-> links, in |-> from, out |-> to,
     value |-> FALSE, dir |-> "c"]
Links == {{}} \cup {{<<"w", "n">>}, {<<"n", "w">>}, {<<"w", "n">>, <<"n", "w">>}}
AndC(a, b, from, to) ==
    "a" :> [a EXCEPT !.dir = "a"] @@ "b" :> [b EXCEPT !.dir = "b"] @@ "c" :> NestedIn(NoNode, {}, from, to)
Unnested == AndC(NestedIn(NoNode, {}, "none", "w"), NestedIn(NoNode, {}, "w", "w"), "w", "w")
MCNestings ==
    {AndC([NestedIn(n1, l1, "none", "w") EXCEPT !.value = v], NestedIn(n2, l2, i2, o2), i3, o3) :
        n1 \in {"a", "b", "c", NoNode}, n2 \in {"a", "c", NoNode}, l1, l2 \in Links,
        i2, o2 \in {"w", "n", "none"}, i3, o3 \in {"w", "none"}, v \in BOOLEAN}
    \cup {AndC([NestedIn("b", {<<"w", "n">>}, "none", "w") EXCEPT !.mixed = m],
               [NestedIn("c", {}, "w", "w") EXCEPT !.gone = ~m], "w", "w") : m \in BOOLEAN}

-----------------------------------------------------------------------------
\* A part that does not run has one initial state, among those it could have.
ASSUME IdleAssumption == Unnested \in Nestings /\ "c" \in NestFiles /\ Graph({}) \in Docs
RecordsInit ==
    /\ subject \in Subjects
    /\ IF subject = "nest" THEN NestInit ELSE NestInitOf({Unnested}) /\ outer = "c"
    /\ Init /\ EventsInit /\ FoundryInit /\ StateInit /\ WatchInit /\ SecretsInit
    /\ PlanInitOf(IF subject = "plan" THEN Docs ELSE {Graph({})})
    /\ SchedInit /\ doc = [s \in Swarms |-> FirstOrSunday]

RecordsNext ==
    \/ subject = "history" /\ Next
         /\ UNCHANGED <<subject, eventVars, foundryVars, planVars, stateVars, watchVars, secretVars, nestVars, schedVars>>
    \/ subject = "list" /\ ListNext
         /\ UNCHANGED <<subject, vars, foundryVars, planVars, stateVars, watchVars, secretVars, nestVars, schedVars>>
    \/ subject = "tail" /\ TailNext
         /\ UNCHANGED <<subject, vars, foundryVars, planVars, stateVars, watchVars, secretVars, nestVars, schedVars>>
    \/ subject = "foundry" /\ FoundryNext
         /\ UNCHANGED <<subject, vars, eventVars, planVars, stateVars, watchVars, secretVars, nestVars, schedVars>>
    \/ subject = "plan" /\ PlanNext
         /\ UNCHANGED <<subject, vars, eventVars, foundryVars, stateVars, watchVars, secretVars, nestVars, schedVars>>
    \/ subject = "state" /\ StateNext
         /\ UNCHANGED <<subject, vars, eventVars, foundryVars, planVars, watchVars, secretVars, nestVars, schedVars>>
    \/ subject = "watch" /\ WatchNext
         /\ UNCHANGED <<subject, vars, eventVars, foundryVars, planVars, stateVars, secretVars, nestVars, schedVars>>
    \/ subject = "secrets" /\ SecretsNext
         /\ UNCHANGED <<subject, vars, eventVars, foundryVars, planVars, stateVars, watchVars, nestVars, schedVars>>
    \/ subject = "schedule" /\ SchedNext
         /\ UNCHANGED <<subject, vars, eventVars, foundryVars, planVars, stateVars, watchVars, secretVars, nestVars>>
    \/ subject = "nest" /\ NestNext
         /\ UNCHANGED <<subject, vars, eventVars, foundryVars, planVars, stateVars, watchVars, secretVars, schedVars>>

RecordsSpec == RecordsInit /\ [][RecordsNext]_recordVars

\* The types of all parts.
RecordsTypes ==
    /\ TypeOK /\ EventsTypeOK /\ FoundryTypeOK /\ PlanTypeOK
    /\ StateTypeOK /\ WatchTypeOK /\ SecretsTypeOK /\ SchedTypeOK /\ NestTypeOK
=============================================================================
