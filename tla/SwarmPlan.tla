----------------------------- MODULE SwarmPlan -----------------------------
(***************************************************************************)
(* What a plan promises a run. internal/planner accepts or refuses a swarm *)
(* document; internal/runner then hands each bot the values its snaps      *)
(* carry. The two are written apart and have to agree: an accepted document *)
(* must not fail, in the middle of a run, over a question the plan answered. *)
(*                                                                         *)
(* Every bot has one input and one output port. A port type is n levels of *)
(* list over a string or a json object; schema says whether the port names *)
(* a schema file, which has one string field, "f". Templates and literals  *)
(* in inputs: and default: are taken to be of the port's type, which the   *)
(* planner does not look at. A fallback has ports of its own; same says    *)
(* that its input port has the name of the bot's. A condition either holds *)
(* or not of any value (a truth test, == or !=) or orders two (<, <=, >,   *)
(* >=), which wants numbers: a text or plain json may be one, or not.      *)
(***************************************************************************)
EXTENDS Integers, Sequences, FiniteSets

CONSTANTS
    PlanBots,  \* bot instances
    Docs,      \* swarm documents: [bots : [PlanBots -> ...], snaps : Seq(...)]
    MaxLen     \* bound: length of the lists bots produce

PortTypes == [n : Nat, of : {"string", "json"}]
Ports == [n : Nat, of : {"string", "json"}, schema : BOOLEAN]
BotRefs ==
    [in : PortTypes, out : Ports, required : BOOLEAN, default : BOOLEAN, given : BOOLEAN,
     when : {"none", "holds", "orders"},
     loop : {"none", "alone", "feeds", "feeds_unknown"}, until : {"none", "holds", "orders"},
     fallback : [is : BOOLEAN, in : PortTypes, out : Ports, same : BOOLEAN,
                 required : BOOLEAN, default : BOOLEAN]]
Snaps ==
    [from : PlanBots, to : PlanBots, path : Seq(STRING), join : {"none", "text", "first", "flatten"}]

ASSUME PlanAssumption ==
    MaxLen \in Nat /\ Docs \subseteq [bots : [PlanBots -> BotRefs], snaps : Seq(Snaps)]

VARIABLES
    sheet,     \* the document
    verdict,   \* of the planner
    outputs,   \* Run.Outputs, Missing until the bot has returned
    inputs,    \* history: what each bot was handed, one value per item or turn
    stoodIn,   \* history: bots whose fallback was handed it
    fate       \* how the run goes

planVars == <<sheet, verdict, outputs, inputs, stoodIn, fate>>

-----------------------------------------------------------------------------
(* Types, as the planner sees them.                                        *)

Str == [n |-> 0, of |-> "string"]
Bad == [n |-> 0, of |-> "error"]
ListOf(t) == [t EXCEPT !.n = @ + 1]
ElementOf(t) == [t EXCEPT !.n = @ - 1]
Declared(port) == [n |-> port.n, of |-> port.of]

Marks == {"*", "0"}
HasMarker(path) == \E i \in DOMAIN path : path[i] = "*"

Into(d, b) == {i \in DOMAIN d.snaps : d.snaps[i].to = b}
FannedOver(d, b) == {i \in Into(d, b) : HasMarker(d.snaps[i].path)}
IsFannedOut(d, b) == FannedOver(d, b) # {}

\* resolveDeclaredEndpointType: an index or * peels a level of list, a field
\* is looked up in the schema of a json port.
TypeAt(port, path) ==
    LET peels == IF Len(path) <= port.n THEN Len(path) ELSE port.n
        rest == SubSeq(path, peels + 1, Len(path))
    IN IF \E i \in 1..peels : path[i] \notin Marks THEN Bad
       ELSE IF rest = <<>> THEN [n |-> port.n - peels, of |-> port.of]
       ELSE IF rest = <<"f">> /\ port.of = "json" /\ port.schema THEN Str
       ELSE Bad

OutTypeAsDeclared(d, s) == TypeAt(d.bots[s.from].out, s.path)

\* resolveEndpointType: the whole port of a fanned-out bot is a list.
OutType(d, s) ==
    LET t == TypeAt(d.bots[s.from].out, s.path)
    IN IF t # Bad /\ s.path = <<>> /\ IsFannedOut(d, s.from) THEN ListOf(t) ELSE t

\* "text" stands for lines, json and count.
JoinType(mode, t) ==
    CASE t = Bad \/ mode = "none" -> t
      [] t # Bad /\ mode # "none" /\ t.n = 0 -> Bad
      [] t.n > 0 /\ mode = "text" -> Str
      [] t.n > 0 /\ mode = "first" -> ElementOf(t)
      [] t.n > 0 /\ mode = "flatten" -> IF t.n > 1 THEN ElementOf(t) ELSE Bad

-----------------------------------------------------------------------------
(* The planner's checks.                                                   *)

\* TypeCheckSnaps and Assignable.
SnapFits(d, s) ==
    LET t == JoinType(s.join, OutType(d, s))
    IN t # Bad /\ t = d.bots[s.to].in

\* CheckRequiredInputs, CheckSnapAndValueCollision.
Fed(d, b) == LET q == d.bots[b] IN q.required => q.given \/ q.default \/ Into(d, b) # {}
NoCollision(d, b) == ~(d.bots[b].given /\ Into(d, b) # {})

\* CheckFallback: the same output port, schema aside, and no input required
\* that the bot has no port for. Not: of which type, or whether it is fed.
NoFallback ==
    [is |-> FALSE, in |-> Str, out |-> [n |-> 0, of |-> "string", schema |-> FALSE],
     same |-> FALSE, required |-> FALSE, default |-> FALSE]
FallbackFits(d, b) ==
    LET fb == d.bots[b].fallback
    IN fb.is => Declared(fb.out) = Declared(d.bots[b].out) /\ (fb.required => fb.same)

\* CheckLoop: not fanned out as well, and feed: names ports the bot has.
LoopFits(d, b) ==
    d.bots[b].loop # "none" => ~IsFannedOut(d, b) /\ d.bots[b].loop # "feeds_unknown"

\* BuildDAG: Kahn's algorithm places every bot, wave after wave.
ReadsFrom(d, b) == {d.snaps[i].from : i \in Into(d, b)}
HasOrder(d) ==
    LET placed[k \in 0..Cardinality(PlanBots)] ==
            IF k = 0 THEN {} ELSE {b \in PlanBots : ReadsFrom(d, b) \subseteq placed[k - 1]}
    IN placed[Cardinality(PlanBots)] = PlanBots

\* planSwarm and PlanResult.OK.
PlanOK(d) ==
    /\ \A i \in DOMAIN d.snaps : SnapFits(d, d.snaps[i]) /\ d.snaps[i].from # d.snaps[i].to
    /\ \A b \in PlanBots : Fed(d, b) /\ NoCollision(d, b) /\ FallbackFits(d, b) /\ LoopFits(d, b)
    /\ HasOrder(d)

-----------------------------------------------------------------------------
(* Values, as the runner handles them.                                     *)

V(k) == [k |-> k, items |-> <<>>]
L(seq) == [k |-> "list", items |-> seq]
Missing == V("missing")    \* no value
Shape == V("shape")        \* an error over what kind of value there is, or none at all
Lacking == V("lacking")    \* an error over how many there are
Errs == {Shape, Lacking}

\* What a bot may produce on a port. An object has the field its schema names.
Scalar(port) == V(IF port.of = "string" THEN "string" ELSE IF port.schema THEN "object" ELSE "bare")
ShortLists(S) == {L(s) : s \in UNION {[1..m -> S] : m \in 0..MaxLen}}
Produces(port) ==
    LET made[n \in 0..port.n] == IF n = 0 THEN {Scalar(port)} ELSE ShortLists(made[n - 1])
    IN made[port.n]
Plain(t) == [n |-> t.n, of |-> t.of, schema |-> FALSE]

\* n levels of list over what is in S, of any length.
Lists(S) == [k : {"list"}, items : Seq(S)]
Nested(S, n) ==
    LET nested[m \in 0..n] == IF m = 0 THEN S ELSE Lists(nested[m - 1])
    IN nested[n]
Scalars(of) == IF of = "string" THEN {V("string")} ELSE {V("object"), V("bare")}
Conforms(v, t) == v \in Nested(Scalars(t.of), t.n)

\* resolveSnapValueAt: one segment; at is the item's index, 0 outside a fan-out.
Segment(v, seg, at) ==
    IF v \in Errs THEN v
    ELSE IF seg \notin Marks THEN IF v.k = "object" THEN V("string") ELSE Shape
    ELSE IF v.k # "list" \/ (seg = "*" /\ at = 0) THEN Shape
    ELSE LET i == IF seg = "*" THEN at ELSE 1
         IN IF i \in DOMAIN v.items THEN v.items[i] ELSE Lacking

\* The values on the way along a path.
Walk(v, path, at) ==
    LET walk[i \in 0..Len(path)] == IF i = 0 THEN v ELSE Segment(walk[i - 1], path[i], at)
    IN walk

Concat(lists) ==
    LET concat[i \in 0..Len(lists)] == IF i = 0 THEN <<>> ELSE concat[i - 1] \o lists[i].items
    IN concat[Len(lists)]

JoinValue(mode, v) ==
    IF v \in Errs \/ mode = "none" THEN v
    ELSE IF v.k # "list" THEN Shape
    ELSE CASE mode = "text" -> V("string")
           [] mode = "first" -> IF v.items = <<>> THEN Lacking ELSE v.items[1]
           [] mode = "flatten" ->
                IF \E i \in DOMAIN v.items : v.items[i].k # "list" THEN Shape
                ELSE L(Concat(v.items))

Carried(s, at) == JoinValue(s.join, Walk(outputs[s.from], s.path, at)[Len(s.path)])

\* The ports of the one that runs: the bot, or the fallback that stands in.
Runner(q, standIn) ==
    IF standIn THEN q.fallback
    ELSE [in |-> q.in, out |-> q.out, same |-> TRUE, required |-> q.required, default |-> q.default]

\* resolveInputsAt, over the runner's own port: the value or else the last snap
\* the document has for a port of that name, else the port's default.
ValueFor(b, standIn, at) ==
    LET q == sheet.bots[b]
        p == Runner(q, standIn)
    IN IF p.same /\ q.given THEN CHOOSE v \in Produces(Plain(q.in)) : TRUE
       ELSE IF p.same /\ Into(sheet, b) # {}
         THEN Carried(sheet.snaps[CHOOSE i \in Into(sheet, b) : \A j \in Into(sheet, b) : j <= i], at)
       ELSE IF p.default THEN CHOOSE v \in Produces(Plain(p.in)) : TRUE
       ELSE IF p.required THEN Shape ELSE Missing

\* EvalCondition may answer; when it orders it may also fail.
Answers(condition, v) == condition = "orders" => v.k \in {"string", "bare"}

\* fanOutLength: the list at the first marker.
Along(s) ==
    LET first == CHOOSE i \in DOMAIN s.path : s.path[i] = "*" /\ \A j \in 1..(i - 1) : s.path[j] # "*"
        v == Walk(outputs[s.from], s.path, 0)[first - 1]
    IN IF v \in Errs \/ v.k = "list" THEN v ELSE Shape

-----------------------------------------------------------------------------
PlanInitOf(docs) ==
    /\ sheet \in docs /\ verdict = "none"
    /\ outputs = [b \in PlanBots |-> Missing]
    /\ inputs = [b \in PlanBots |-> <<>>] /\ stoodIn = {}
    /\ fate = "fine"
PlanInit == PlanInitOf(Docs)

PlanTypeOK ==
    /\ verdict \in {"none", "accepted", "refused"}
    /\ fate \in {"fine", "over", "shape", "lacking", "undecided", "unordered"}
    /\ stoodIn \subseteq PlanBots
    /\ \A b \in PlanBots : inputs[b] # <<>> => verdict = "accepted"

Plan ==
    /\ verdict = "none"
    /\ verdict' = IF PlanOK(sheet) THEN "accepted" ELSE "refused"
    /\ UNCHANGED <<sheet, outputs, inputs, stoodIn, fate>>

ReadyToRun(b) ==
    outputs[b] = Missing /\ \A a \in ReadsFrom(sheet, b) : outputs[a] # Missing

\* The values one bot, or its fallback, was handed, and what came of it.
Handed(b, standIn, vs, unordered) ==
    /\ inputs' = [inputs EXCEPT ![b] = vs]
    /\ stoodIn' = IF standIn THEN stoodIn \cup {b} ELSE stoodIn \ {b}
    /\ fate' = IF Shape \in {vs[i] : i \in DOMAIN vs} THEN "shape"
               ELSE IF Lacking \in {vs[i] : i \in DOMAIN vs} THEN "lacking"
               ELSE IF unordered THEN "unordered" ELSE "fine"
Returned(b, v) == outputs' = [outputs EXCEPT ![b] = IF fate' = "fine" THEN v ELSE @]

\* runBotLoop: another turn only where the turn before feeds it, its output v
\* replacing the value of the port it names; two turns here, or one if until:
\* says so.
Turns(b, standIn, v) ==
    LET q == sheet.bots[b]
        first == ValueFor(b, standIn, 0)
        fed == IF ~Runner(q, standIn).same THEN first ELSE IF q.loop = "feeds" THEN v ELSE V("null")
    IN {turns \in {<<first>>, <<first, fed>>} :
            \/ Len(turns) = 1 /\ (q.loop \in {"none", "alone"} \/ q.until # "none" \/ first \in Errs)
            \/ Len(turns) = 2 /\ q.loop \in {"feeds", "feeds_unknown"} /\ first \notin Errs}

\* runBot, for a bot that is not fanned out: once, or turn after turn.
RunOnce(b, standIn) ==
    /\ ~IsFannedOut(sheet, b)
    /\ LET q == sheet.bots[b]
           until == IF q.loop = "none" THEN "none" ELSE q.until
       IN \E v, w \in Produces(Runner(q, standIn).out), unordered \in BOOLEAN :
             \E turns \in Turns(b, standIn, v) :
                LET final == IF Len(turns) = 1 THEN v ELSE w
                IN /\ IF unordered THEN until = "orders" ELSE Answers(until, v) /\ Answers(until, final)
                   /\ Handed(b, standIn, turns, unordered) /\ Returned(b, final)

\* For one that is: as often as its lists, which agree, are long
\* (fanOutWidth, aggregateOutputs).
RunPerItem(b, standIn) ==
    /\ IsFannedOut(sheet, b)
    /\ LET lists == {Along(sheet.snaps[i]) : i \in FannedOver(sheet, b)}
           lengths == {Len(v.items) : v \in lists}
           Fails(e) == Handed(b, standIn, <<e>>, FALSE) /\ UNCHANGED outputs
       IN \/ lists \cap Errs # {} /\ Fails(CHOOSE e \in lists \cap Errs : TRUE)
          \/ lists \cap Errs = {} /\ Cardinality(lengths) > 1 /\ Fails(Lacking)
          \/ /\ lists \cap Errs = {} /\ Cardinality(lengths) = 1
             /\ LET n == CHOOSE n \in lengths : TRUE
                IN /\ Handed(b, standIn, [i \in 1..n |-> ValueFor(b, standIn, i)], FALSE)
                   /\ \E vs \in [1..n -> Produces(Runner(sheet.bots[b], standIn).out)] : Returned(b, L(vs))

RunAs(b, standIn) == RunOnce(b, standIn) \/ RunPerItem(b, standIn)

\* whenGate: on the bot's own inputs, outside any fan-out. Where it fails
\* nothing stands in.
Gate(b) ==
    LET q == sheet.bots[b]
        v == ValueFor(b, FALSE, 0)
    IN /\ q.when # "none"
       /\ \/ v = Shape /\ fate' = "undecided"
          \/ v = Lacking /\ fate' = "lacking"
          \/ v \notin Errs /\ q.when = "orders" /\ fate' = "unordered"
          \/ v \notin Errs /\ Answers(q.when, v) /\ fate' = "over"
       /\ UNCHANGED <<outputs, inputs, stoodIn>>

\* runOneBot: when:, the bot, and should that fail, of whatever, its fallback.
RunBot(b) ==
    /\ verdict = "accepted" /\ fate = "fine" /\ ReadyToRun(b)
    /\ LET q == sheet.bots[b]
           passes == q.when # "none" => LET v == ValueFor(b, FALSE, 0) IN v \notin Errs /\ Answers(q.when, v)
       IN \/ Gate(b)
          \/ passes /\ RunAs(b, FALSE) /\ (fate' = "fine" \/ ~q.fallback.is)
          \/ passes /\ q.fallback.is /\ RunAs(b, TRUE)
    /\ UNCHANGED <<sheet, verdict>>

PlanNext == Plan \/ \E b \in PlanBots : RunBot(b)

-----------------------------------------------------------------------------
(* Properties.                                                             *)

\* What the type check does not see: a path into the output of a fanned-out
\* bot, which is a list more than declared; when: on a fanned-out bot; a feed
\* from a port of another type; a fallback whose schema is another, whose port
\* of the bot's name is of another type than what it is handed, or which
\* requires a value the document has for the bot at most by default.
Unchecked(d) ==
    \/ \E i \in DOMAIN d.snaps : d.snaps[i].path # <<>> /\ IsFannedOut(d, d.snaps[i].from)
    \/ \E b \in PlanBots :
          LET q == d.bots[b]
              fb == q.fallback
              handed == q.given \/ Into(d, b) # {}
          IN \/ q.when # "none" /\ IsFannedOut(d, b)
             \/ q.loop = "feeds" /\ Declared(q.out) # q.in
             \/ fb.is /\ fb.out.schema # q.out.schema
             \/ fb.is /\ fb.same /\ fb.in # q.in /\ (handed \/ q.loop = "feeds")
             \/ fb.is /\ fb.required /\ ~fb.default /\ ~handed

\* But for that, a run of an accepted document never stops over the kind of a
\* value unless a condition of the document orders one, and hands every bot,
\* or the fallback in its place, values of the type that one's port declares,
\* whatever the lists' lengths: type check, join, fan-out, loop and fallback
\* agree with what the runner does.
PlanKeepsTypes ==
    verdict = "accepted" /\ ~Unchecked(sheet) =>
        /\ fate \notin {"shape", "undecided"}
        /\ fate = "unordered" => \E b \in PlanBots : "orders" \in {sheet.bots[b].when, sheet.bots[b].until}
        /\ \A b \in PlanBots : \A i \in DOMAIN inputs[b] :
              LET p == Runner(sheet.bots[b], b \in stoodIn)
              IN inputs[b][i] \in Errs \/ Conforms(inputs[b][i], p.in)
                 \/ (inputs[b][i] = Missing /\ ~p.required)
=============================================================================
