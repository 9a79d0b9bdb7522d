----------------------------- MODULE BotProofs -----------------------------
(***************************************************************************)
(* What holds of one bot at work: of Steps, for any steps, answers of a    *)
(* model and attempts; of Workspace, for any rounds, ports and lines and   *)
(* however often docker kill fails; and of Agents, for any bots, calls,    *)
(* failures and deaths.                                                    *)
(***************************************************************************)
EXTENDS Steps, Workspace, Agents, FiniteSetTheorems, SequenceTheorems, TLAPS,
        WellFoundedInduction

-----------------------------------------------------------------------------
(* Steps.                                                                  *)

Spots    == {"not_begun", "step", "calls", "model", "tools", "write",
             "done", "stopped", "failed", "gone"}
Posted   == {"read", "soft", "send", "bound", "gate", "ask"}
ToolOps  == {"tool", "tool_gate", "tool_send"}
Ops      == Posted \cup ToolOps \cup {"model"}
Message  == [is : {"goal", "result", "asks"}, calls : Nat]
Talk     == [at : Spots, step : Nat \ {0}, n : Nat, iter : Nat,
             turn : Seq(ToolKinds), messages : Seq(Message)]
Handler  == [at : {"idle", "sent", "admitted", "asking", "answered"}, op : Ops,
             answer : {"none", "ok", "no", "error", "final", "tools"}, turn : Seq(ToolKinds)]
Effect   == [attempt : Attempt, call : Nat, step : Nat \ {0}, op : Ops, late : BOOLEAN]

StepShape ==
    /\ program \in Seq(StepKinds) /\ mode \in {"container", "in_process"}
    /\ inter \in [Attempt -> Talk] /\ serve \in [Attempt -> Handler]
    /\ tokens \subseteq Attempt /\ over \in [Attempt -> {"no", "done", "stopped", "failed"}]
    /\ yes \subseteq Attempt \X Nat /\ IsFiniteSet(yes)
    /\ effects \subseteq Effect

\* A conversation with `p` tool calls still to be made: what a message asks
\* for comes right after it, and either that is all there and more follows, or
\* it is the last to ask and what is missing is still to be made.
Conversation(m, p) ==
    \A k \in DOMAIN m : m[k].is = "asks" =>
        /\ k + m[k].calls = Len(m) + p \/ k + m[k].calls < Len(m)
        /\ \A j \in (k + 1)..(k + m[k].calls) : j \in DOMAIN m => m[j] = Result
        /\ k + m[k].calls + 1 \in DOMAIN m => m[k + m[k].calls + 1] # Result

\* A call is in flight for the step the interpreter is at; what a model has
\* asked for is at hand while its tools are called, and only then.
KindAt(i) == IF i.step \in DOMAIN program THEN program[i.step] ELSE "end"
Midway(i, s) == i.at \in {"tools", "write"} \/ (i.at = "calls" /\ s.op \in ToolOps)
Fitting(i, s) ==
    /\ i.at \notin {"calls", "gone"} => s.at = "idle"
    /\ i.at \in {"model", "tools", "write"} => KindAt(i) = "loop"
    /\ s.at # "idle" => \/ s.op \in Posted /\ s.op = KindAt(i)
                        \/ s.op \in ToolOps \cup {"model"} /\ KindAt(i) = "loop"
    /\ i.at = "calls" => s.at # "idle"
    /\ Midway(i, s) <=> i.turn # <<>>
    /\ Conversation(i.messages, Len(i.turn))

\* The calls of an attempt that were answered yes before its n-th, and the
\* gates before a step of the bot.
YesBelow(ys, a, n) == {y \in ys : y[1] = a /\ y[2] < n}
GatesBefore(k) == {s \in 1..(k - 1) : program[s] = "gate"}

\* An answer of yes is of the call in flight or of an earlier one.  Whoever
\* may write has one of its own, and the gates that are behind have theirs.
AskedFor(a, i, s) ==
    /\ \A y \in yes : y[1] = a => y[2] <= i.n
    /\ i.at = "write" => <<a, i.n>> \in yes
    /\ s.at # "idle" /\ s.op = "tool_send" => <<a, i.n - 1>> \in yes
    /\ s.at = "answered" /\ s.answer = "ok" /\ s.op \in {"gate", "tool_gate"} => <<a, i.n>> \in yes
    /\ s.at = "idle" => Cardinality(YesBelow(yes, a, i.n + 1)) >= Cardinality(GatesBefore(i.step))
    /\ s.at # "idle" => Cardinality(YesBelow(yes, a, i.n)) >= Cardinality(GatesBefore(i.step))

\* An attempt in a container that is over has no token any more, and acts
\* late only through the handler that had looked its token up.
Late(es, a) == {e \in es : e.attempt = a /\ e.late}
LateOnce(a, i, s) ==
    /\ i.at = "not_begun" => over[a] = "no"
    /\ mode = "container" =>
           /\ over[a] = "no" => Late(effects, a) = {}
           /\ over[a] # "no" => a \notin tokens
           /\ s.at \in {"admitted", "asking"} => Late(effects, a) = {}
           /\ \A e, f \in Late(effects, a) : e = f

OfAttempt(a) ==
    Fitting(inter[a], serve[a]) /\ AskedFor(a, inter[a], serve[a]) /\ LateOnce(a, inter[a], serve[a])

StepsInv == StepShape /\ NothingUnasked /\ \A a \in Attempt : OfAttempt(a)

\* A conversation that nobody has asked anything in is one.
LEMMA NothingAsked == Conversation(<<>>, 0) /\ Conversation(<<Goal>>, 0)
<1>1. DOMAIN <<>> = {}
      OBVIOUS
<1>2. DOMAIN <<Goal>> = 1..1 /\ <<Goal>>[1] = Goal /\ Goal.is # "asks"
      BY DEF Goal
<1>3. \A k \in 1..1 : k = 1
      OBVIOUS
<1>4. \A k \in DOMAIN <<Goal>> : <<Goal>>[k].is # "asks"
      BY <1>2, <1>3
<1> QED  BY <1>1, <1>4 DEF Conversation

\* One of the calls that are still to be made has its result.
LEMMA OneAnswered ==
  ASSUME NEW m \in Seq(Message), NEW p \in Nat, p > 0, Conversation(m, p)
  PROVE  Append(m, Result) \in Seq(Message) /\ Conversation(Append(m, Result), p - 1)
<1>1. Result \in Message /\ Result.is # "asks"
      BY DEF Result, Message
<1>2. PICK d : d = Append(m, Result)
      OBVIOUS
<1>3. /\ d \in Seq(Message) /\ Len(d) = Len(m) + 1 /\ Len(m) \in Nat
      /\ \A k \in 1..Len(m) : d[k] = m[k]
      /\ d[Len(m) + 1] = Result
      BY <1>1, <1>2, AppendProperties, LenProperties
<1>4. DOMAIN m = 1..Len(m) /\ DOMAIN d = 1..(Len(m) + 1)
      BY <1>3, LenProperties
<1>5. ASSUME NEW k \in DOMAIN d, d[k].is = "asks"
      PROVE  /\ k + d[k].calls = Len(d) + (p - 1) \/ k + d[k].calls < Len(d)
             /\ \A j \in (k + 1)..(k + d[k].calls) : j \in DOMAIN d => d[j] = Result
             /\ k + d[k].calls + 1 \in DOMAIN d => d[k + d[k].calls + 1] # Result
  <2>1. k \in 1..Len(m)
        BY <1>1, <1>3, <1>4, <1>5
  <2>2. k \in DOMAIN m /\ d[k] = m[k]
        BY <1>3, <1>4, <2>1
  <2>3. m[k].calls \in Nat
    <3>1. m[k] \in Message  BY <2>1, ElementOfSeq
    <3> QED  BY <3>1 DEF Message
  <2>4. /\ k + m[k].calls = Len(m) + p \/ k + m[k].calls < Len(m)
        /\ \A j \in (k + 1)..(k + m[k].calls) : j \in DOMAIN m => m[j] = Result
        /\ k + m[k].calls + 1 \in DOMAIN m => m[k + m[k].calls + 1] # Result
        BY <1>5, <2>2 DEF Conversation
  <2>5. PICK c \in Nat : c = m[k].calls
        BY <2>3
  <2>6. k + c = Len(d) + (p - 1) \/ k + c < Len(d)
        BY <1>3, <2>1, <2>4, <2>5
  <2>7. ASSUME NEW j \in (k + 1)..(k + c), j \in DOMAIN d PROVE d[j] = Result
    <3>1. CASE j = Len(m) + 1  BY <1>3, <3>1
    <3>2. CASE j # Len(m) + 1
      <4>1. j \in 1..Len(m)  BY <1>3, <1>4, <2>7, <3>2
      <4> QED  BY <1>3, <1>4, <2>4, <2>5, <4>1
    <3> QED  BY <3>1, <3>2
  <2>8. ASSUME k + c + 1 \in DOMAIN d PROVE d[k + c + 1] # Result
    <3>1. k + c + 1 \in 1..Len(m)
          BY <1>3, <1>4, <2>1, <2>4, <2>5, <2>8
    <3>2. m[k + c + 1] # Result  BY <1>4, <2>4, <2>5, <3>1
    <3> QED  BY <1>3, <3>1, <3>2
  <2> QED  BY <2>2, <2>5, <2>6, <2>7, <2>8
<1>6. Conversation(d, p - 1)
      BY <1>5 DEF Conversation
<1> QED  BY <1>2, <1>3, <1>6

\* The model asks for `c` calls more, when all that it had asked for is there.
LEMMA ModelAsks ==
  ASSUME NEW m \in Seq(Message), NEW c \in Nat, Conversation(m, 0)
  PROVE  Append(m, AsksFor(c)) \in Seq(Message) /\ Conversation(Append(m, AsksFor(c)), c)
<1>1. AsksFor(c) \in Message /\ AsksFor(c).calls = c /\ AsksFor(c) # Result
      BY DEF AsksFor, Message, Result
<1>2. PICK d : d = Append(m, AsksFor(c))
      OBVIOUS
<1>3. /\ d \in Seq(Message) /\ Len(d) = Len(m) + 1 /\ Len(m) \in Nat
      /\ \A k \in 1..Len(m) : d[k] = m[k]
      /\ d[Len(m) + 1] = AsksFor(c)
      BY <1>1, <1>2, AppendProperties, LenProperties
<1>4. DOMAIN m = 1..Len(m) /\ DOMAIN d = 1..(Len(m) + 1)
      BY <1>3, LenProperties
<1>5. ASSUME NEW k \in DOMAIN d, d[k].is = "asks"
      PROVE  /\ k + d[k].calls = Len(d) + c \/ k + d[k].calls < Len(d)
             /\ \A j \in (k + 1)..(k + d[k].calls) : j \in DOMAIN d => d[j] = Result
             /\ k + d[k].calls + 1 \in DOMAIN d => d[k + d[k].calls + 1] # Result
  <2>1. CASE k = Len(m) + 1
    <3>1. d[k].calls = c  BY <1>1, <1>3, <2>1
    <3>2. \A j \in (k + 1)..(k + c) : j \notin DOMAIN d
          BY <1>3, <1>4, <2>1
    <3>3. k + c + 1 \notin DOMAIN d
          BY <1>3, <1>4, <2>1
    <3>4. k + c = Len(d) + c
          BY <1>3, <2>1
    <3> QED  BY <3>1, <3>2, <3>3, <3>4
  <2>2. CASE k # Len(m) + 1
    <3>1. k \in 1..Len(m)  BY <1>3, <1>4, <2>2
    <3>2. k \in DOMAIN m /\ d[k] = m[k]  BY <1>3, <1>4, <3>1
    <3>3. m[k].calls \in Nat
      <4>1. m[k] \in Message  BY <3>1, ElementOfSeq
      <4> QED  BY <4>1 DEF Message
    <3>4. /\ k + m[k].calls = Len(m) + 0 \/ k + m[k].calls < Len(m)
          /\ \A j \in (k + 1)..(k + m[k].calls) : j \in DOMAIN m => m[j] = Result
          /\ k + m[k].calls + 1 \in DOMAIN m => m[k + m[k].calls + 1] # Result
          BY <1>5, <3>2 DEF Conversation
    <3>5. PICK g \in Nat : g = m[k].calls
          BY <3>3
    <3>6. k + g < Len(d)
          BY <1>3, <3>1, <3>4, <3>5
    <3>7. ASSUME NEW j \in (k + 1)..(k + g) PROVE d[j] = Result
      <4>1. j \in 1..Len(m)  BY <1>3, <3>1, <3>6, <3>7
      <4> QED  BY <1>3, <1>4, <3>4, <3>5, <4>1
    <3>8. ASSUME k + g + 1 \in DOMAIN d PROVE d[k + g + 1] # Result
      <4>1. CASE k + g + 1 = Len(m) + 1  BY <1>1, <1>3, <4>1
      <4>2. CASE k + g + 1 # Len(m) + 1
        <5>1. k + g + 1 \in 1..Len(m)  BY <1>3, <1>4, <3>8, <4>2
        <5>2. m[k + g + 1] # Result  BY <1>4, <3>4, <3>5, <5>1
        <5> QED  BY <1>3, <5>1, <5>2
      <4> QED  BY <4>1, <4>2
    <3> QED  BY <3>2, <3>5, <3>6, <3>7, <3>8
  <2> QED  BY <2>1, <2>2
<1>6. Conversation(d, c)
      BY <1>5 DEF Conversation
<1> QED  BY <1>2, <1>3, <1>6

\* A conversation with no call to make has one result for every call.
LEMMA AllAnswered ==
  ASSUME NEW m \in Seq(Message), Conversation(m, 0), NEW k \in DOMAIN m, m[k].is = "asks"
  PROVE  Cardinality(ResultsAfter(m, k)) = m[k].calls
<1>1. Len(m) \in Nat /\ DOMAIN m = 1..Len(m) /\ m[k] \in Message
      BY LenProperties, ElementOfSeq
<1>2. PICK c \in Nat : c = m[k].calls
      BY <1>1 DEF Message
<1>3. /\ k + c <= Len(m)
      /\ \A j \in (k + 1)..(k + c) : j \in DOMAIN m => m[j] = Result
      /\ k + c + 1 \in DOMAIN m => m[k + c + 1] # Result
      BY <1>1, <1>2 DEF Conversation
<1>4. ResultsAfter(m, k) = (k + 1)..(k + c)
  <2>1. ASSUME NEW j \in (k + 1)..(k + c) PROVE j \in ResultsAfter(m, k)
    <3>1. j \in (k + 1)..Len(m)  BY <1>1, <1>3, <2>1
    <3>2. \A i \in (k + 1)..j : i \in (k + 1)..(k + c) /\ i \in DOMAIN m
          BY <1>1, <1>3, <2>1
    <3> QED  BY <1>3, <3>1, <3>2 DEF ResultsAfter
  <2>2. ASSUME NEW j \in ResultsAfter(m, k) PROVE j \in (k + 1)..(k + c)
    <3>1. j \in (k + 1)..Len(m) /\ \A i \in (k + 1)..j : m[i] = Result
          BY DEF ResultsAfter
    <3>2. CASE j <= k + c  BY <1>1, <3>1, <3>2
    <3>3. CASE ~(j <= k + c)
      <4>1. k + c + 1 \in (k + 1)..j /\ k + c + 1 \in DOMAIN m
            BY <1>1, <3>1, <3>3
      <4> QED  BY <1>3, <3>1, <4>1
    <3> QED  BY <3>2, <3>3
  <2> QED  BY <2>1, <2>2
<1>5. k + 1 \in Int /\ k + c \in Int
      BY <1>1
<1>6. Cardinality((k + 1)..(k + c)) = IF k + 1 > k + c THEN 0 ELSE (k + c) - (k + 1) + 1
      BY <1>5, FS_Interval
<1>7. (IF k + 1 > k + c THEN 0 ELSE (k + c) - (k + 1) + 1) = c
      BY <1>1, <1>2
<1> QED  BY <1>2, <1>4, <1>6, <1>7

-----------------------------------------------------------------------------

\* Answers and gates are counted.
LEMMA YesCounted ==
  ASSUME NEW ys, IsFiniteSet(ys), NEW a, NEW n
  PROVE  IsFiniteSet(YesBelow(ys, a, n)) /\ Cardinality(YesBelow(ys, a, n)) \in Nat
<1>1. YesBelow(ys, a, n) \in SUBSET ys
      BY DEF YesBelow
<1> QED  BY <1>1, FS_Subset, FS_CardinalityType

\* More answers, or a later call, count no less.
LEMMA YesGrows ==
  ASSUME NEW ys, NEW zs, IsFiniteSet(zs), ys \subseteq zs, ys \subseteq Attempt \X Nat,
         NEW a, NEW n \in Nat, NEW m \in Nat, n <= m
  PROVE  Cardinality(YesBelow(ys, a, n)) <= Cardinality(YesBelow(zs, a, m))
<1>1. YesBelow(ys, a, n) \in SUBSET YesBelow(zs, a, m)
      BY DEF YesBelow
<1> QED  BY <1>1, YesCounted, FS_Subset

\* A call that was answered yes counts from the next one on.
LEMMA YesMore ==
  ASSUME NEW ys, IsFiniteSet(ys), ys \subseteq Attempt \X Nat,
         NEW a, NEW n \in Nat, <<a, n>> \in ys
  PROVE  Cardinality(YesBelow(ys, a, n)) + 1 <= Cardinality(YesBelow(ys, a, n + 1))
<1> DEFINE old == YesBelow(ys, a, n)
<1>1. IsFiniteSet(old) /\ Cardinality(old) \in Nat /\ <<a, n>> \notin old
  <2>1. <<a, n>>[2] = n /\ ~(n < n)  OBVIOUS
  <2> QED  BY <2>1, YesCounted DEF YesBelow
<1>2. old \cup {<<a, n>>} \in SUBSET YesBelow(ys, a, n + 1)
      BY DEF YesBelow
<1> HIDE DEF old
<1>3. Cardinality(old \cup {<<a, n>>}) = Cardinality(old) + 1
      BY <1>1, FS_AddElement
<1>4. Cardinality(old \cup {<<a, n>>}) <= Cardinality(YesBelow(ys, a, n + 1))
      BY <1>2, YesCounted, FS_Subset
<1> QED  BY <1>3, <1>4 DEF old

\* A step that is no gate has no gate behind it that was not behind it
\* before, and a gate adds one.
LEMMA GatesCounted ==
  ASSUME NEW k \in Nat \ {0}
  PROVE  /\ Cardinality(GatesBefore(k)) \in Nat
         /\ program[k] # "gate" => Cardinality(GatesBefore(k + 1)) = Cardinality(GatesBefore(k))
         /\ program[k] = "gate" => Cardinality(GatesBefore(k + 1)) = Cardinality(GatesBefore(k)) + 1
<1> DEFINE old == GatesBefore(k)
<1>1. IsFiniteSet(1..(k - 1))
      BY FS_Interval
<1>2. old \in SUBSET (1..(k - 1))
      BY DEF GatesBefore
<1>3. IsFiniteSet(old) /\ Cardinality(old) \in Nat
      BY <1>1, <1>2, FS_Subset, FS_CardinalityType
<1>4. (k + 1) - 1 = k /\ k \notin old
      BY <1>2
<1>5. ASSUME program[k] # "gate" PROVE GatesBefore(k + 1) = old
      BY <1>4, <1>5 DEF GatesBefore
<1>6. ASSUME program[k] = "gate" PROVE GatesBefore(k + 1) = old \cup {k}
      BY <1>4, <1>6 DEF GatesBefore
<1> HIDE DEF old
<1>7. Cardinality(old \cup {k}) = Cardinality(old) + 1
      BY <1>3, <1>4, FS_AddElement
<1> QED  BY <1>3, <1>5, <1>6, <1>7 DEF old

\* What one attempt does leaves the others as they are.
LEMMA OneActs ==
  ASSUME StepsInv, StepShape', NothingUnasked', NEW a \in Attempt, OfAttempt(a)',
         program' = program, mode' = mode,
         \A b \in Attempt \ {a} :
             /\ inter'[b] = inter[b] /\ serve'[b] = serve[b] /\ over'[b] = over[b]
             /\ b \in tokens' => b \in tokens
             /\ \A y : y[1] = b => (y \in yes' <=> y \in yes)
             /\ \A e : e.attempt = b => (e \in effects' <=> e \in effects)
  PROVE  StepsInv'
<1>1. ASSUME NEW b \in Attempt, b # a PROVE OfAttempt(b)'
  <2>1. /\ inter'[b] = inter[b] /\ serve'[b] = serve[b] /\ over'[b] = over[b]
        /\ b \in tokens' => b \in tokens
        BY <1>1
  <2>2. \A n : YesBelow(yes', b, n) = YesBelow(yes, b, n)
    <3>1. TAKE n
    <3>2. \A y : y[1] = b => (y \in yes' <=> y \in yes)
          BY <1>1
    <3> QED  BY <3>2 DEF YesBelow
  <2>3. Late(effects', b) = Late(effects, b)
    <3>1. \A e : e.attempt = b => (e \in effects' <=> e \in effects)
          BY <1>1
    <3> QED  BY <3>1 DEF Late
  <2>4. Fitting(inter[b], serve[b]) /\ AskedFor(b, inter[b], serve[b]) /\ LateOnce(b, inter[b], serve[b])
        BY DEF StepsInv, OfAttempt
  <2>5. Fitting(inter[b], serve[b])'
        BY <2>1, <2>4 DEF Fitting, KindAt, Midway
  <2>6. \A k : GatesBefore(k)' = GatesBefore(k)
        BY DEF GatesBefore
  <2>7. AskedFor(b, inter[b], serve[b])'
    <3>1. \A n : <<b, n>> \in yes' <=> <<b, n>> \in yes
          BY <1>1
    <3>2. \A y \in yes' : y[1] = b => y \in yes
          BY <1>1
    <3>3. \A y \in yes' : y[1] = b => y[2] <= inter[b].n
          BY <2>4, <3>2 DEF AskedFor
    <3>4. /\ inter[b].at = "write" => <<b, inter[b].n>> \in yes'
          /\ serve[b].at # "idle" /\ serve[b].op = "tool_send" => <<b, inter[b].n - 1>> \in yes'
          /\ serve[b].at = "answered" /\ serve[b].answer = "ok" /\ serve[b].op \in {"gate", "tool_gate"}
                => <<b, inter[b].n>> \in yes'
          BY <2>4, <3>1 DEF AskedFor
    <3>5. /\ serve[b].at = "idle" => Cardinality(YesBelow(yes', b, inter[b].n + 1))
                                         >= Cardinality(GatesBefore(inter[b].step))
          /\ serve[b].at # "idle" => Cardinality(YesBelow(yes', b, inter[b].n))
                                         >= Cardinality(GatesBefore(inter[b].step))
          BY <2>2, <2>4 DEF AskedFor
    <3>6. GatesBefore(inter[b].step)' = GatesBefore(inter[b].step)
          BY <2>1, <2>6 DEF GatesBefore
    <3> QED  BY <2>1, <3>3, <3>4, <3>5, <3>6 DEF AskedFor
  <2>8. LateOnce(b, inter[b], serve[b])'
        BY <2>1, <2>3, <2>4 DEF LateOnce
  <2> QED  BY <2>5, <2>7, <2>8 DEF OfAttempt
<1> QED  BY <1>1 DEF StepsInv

\* What was done stays backed by its answers, however many more there are.
LEMMA UnaskedStays ==
  ASSUME StepShape, NothingUnasked, program' = program, yes \subseteq yes', IsFiniteSet(yes'),
         \A e \in effects' \ effects :
             /\ e.op = "tool_send" => <<e.attempt, e.call - 1>> \in yes'
             /\ Cardinality(YesBelow(yes', e.attempt, e.call)) >= Cardinality(GatesBefore(e.step))
  PROVE  NothingUnasked'
<1>1. ASSUME NEW e \in effects
      PROVE  /\ e.op = "tool_send" => <<e.attempt, e.call - 1>> \in yes'
             /\ Cardinality(YesBelow(yes', e.attempt, e.call)) >= Cardinality(GatesBefore(e.step))
  <2>1. /\ e.op = "tool_send" => <<e.attempt, e.call - 1>> \in yes
        /\ Cardinality(YesBelow(yes, e.attempt, e.call)) >= Cardinality(GatesBefore(e.step))
        BY DEF NothingUnasked, YesBelow, GatesBefore
  <2>2. e.call \in Nat /\ e.step \in Nat \ {0} /\ yes \subseteq Attempt \X Nat /\ IsFiniteSet(yes)
        BY DEF StepShape, Effect
  <2>3. Cardinality(YesBelow(yes, e.attempt, e.call)) <= Cardinality(YesBelow(yes', e.attempt, e.call))
        BY <2>2, YesGrows
  <2>4. /\ Cardinality(YesBelow(yes, e.attempt, e.call)) \in Nat
        /\ Cardinality(YesBelow(yes', e.attempt, e.call)) \in Nat
        /\ Cardinality(GatesBefore(e.step)) \in Nat
        BY <2>2, YesCounted, GatesCounted
  <2> QED  BY <2>1, <2>3, <2>4
<1>2. ASSUME NEW e \in effects'
      PROVE  /\ e.op = "tool_send" => <<e.attempt, e.call - 1>> \in yes'
             /\ Cardinality(YesBelow(yes', e.attempt, e.call)) >= Cardinality(GatesBefore(e.step))
      BY <1>1, <1>2
<1> QED  BY <1>2 DEF NothingUnasked, YesBelow, GatesBefore

\* A step of an attempt that does nothing to the outside and settles nothing.
LEMMA OneTurns ==
  ASSUME StepsInv, NEW a \in Attempt, NEW i \in Talk, NEW s \in Handler,
         UNCHANGED <<program, mode, tokens, over, yes, effects>>,
         inter' \in [Attempt -> Talk], inter'[a] = i,
         serve' \in [Attempt -> Handler], serve'[a] = s,
         \A b \in Attempt \ {a} : inter'[b] = inter[b] /\ serve'[b] = serve[b],
         Fitting(i, s), AskedFor(a, i, s), LateOnce(a, i, s)
  PROVE  StepsInv'
<1>1. StepShape'
      BY DEF StepsInv, StepShape
<1>2. NothingUnasked'
      BY DEF StepsInv, NothingUnasked
<1>3. OfAttempt(a)'
  <2>1. Fitting(inter[a], serve[a])'
        BY DEF Fitting, KindAt, Midway
  <2>2. GatesBefore(inter[a].step)' = GatesBefore(i.step)
        BY DEF GatesBefore
  <2>3. AskedFor(a, inter[a], serve[a])'
        BY <2>2 DEF AskedFor
  <2>4. LateOnce(a, inter[a], serve[a])'
        BY DEF LateOnce
  <2> QED  BY <2>1, <2>3, <2>4 DEF OfAttempt
<1> QED  BY <1>1, <1>2, <1>3, OneActs

\* An interpreter calls the daemon.
LEMMA CallKeeps ==
  ASSUME StepsInv, NEW a \in Attempt, NEW op \in Ops, Calls(a, op),
         inter[a].at \in {"step", "model", "tools", "write"},
         UNCHANGED <<program, mode, tokens, over, yes, effects>>,
         op \in Posted => op = KindAt(inter[a]),
         op \notin Posted => KindAt(inter[a]) = "loop",
         op \in ToolOps <=> inter[a].turn # <<>>,
         op = "tool_send" => inter[a].at = "write"
  PROVE  StepsInv'
<1>1. /\ inter[a] \in Talk /\ inter \in [Attempt -> Talk] /\ serve \in [Attempt -> Handler]
      /\ mode \in {"container", "in_process"}
      /\ yes \subseteq Attempt \X Nat /\ IsFiniteSet(yes)
      BY DEF StepsInv, StepShape
<1>2. PICK i : i = [inter[a] EXCEPT !.at = "calls", !.n = @ + 1]
      OBVIOUS
<1>3. PICK s : s = [Idling EXCEPT !.op = op, !.at = IF mode = "container" THEN "sent" ELSE "admitted"]
      OBVIOUS
<1>4. /\ i \in Talk /\ i.at = "calls" /\ i.n = inter[a].n + 1 /\ i.step = inter[a].step
      /\ i.turn = inter[a].turn /\ i.messages = inter[a].messages /\ inter[a].n \in Nat
      /\ i.step \in Nat \ {0}
  <2>1. inter[a].n + 1 \in Nat  BY <1>1 DEF Talk
  <2> QED  BY <1>1, <1>2, <2>1 DEF Talk, Spots
<1>5. /\ s \in Handler /\ s.op = op /\ s.at \in {"sent", "admitted"}
      /\ s.at = "admitted" => mode # "container"
      BY <1>3, EmptySeq DEF Handler, Idling
<1>6. inter' = [inter EXCEPT ![a] = i] /\ serve' = [serve EXCEPT ![a] = s]
      BY <1>2, <1>3 DEF Calls
<1>7. /\ inter' \in [Attempt -> Talk] /\ inter'[a] = i
      /\ serve' \in [Attempt -> Handler] /\ serve'[a] = s
      /\ \A b \in Attempt \ {a} : inter'[b] = inter[b] /\ serve'[b] = serve[b]
      BY <1>1, <1>4, <1>5, <1>6
<1>8. Fitting(inter[a], serve[a]) /\ AskedFor(a, inter[a], serve[a]) /\ LateOnce(a, inter[a], serve[a])
      BY DEF StepsInv, OfAttempt
<1>9. serve[a].at = "idle"
      BY <1>8 DEF Fitting
<1>10. Fitting(i, s)
  <2>1. KindAt(i) = KindAt(inter[a])  BY <1>4 DEF KindAt
  <2>2. Conversation(i.messages, Len(i.turn))  BY <1>4, <1>8 DEF Fitting
  <2>3. Midway(i, s) <=> i.turn # <<>>  BY <1>4, <1>5 DEF Midway
  <2>4. s.at # "idle"  BY <1>5
  <2>5. op \in Posted \/ op \in ToolOps \cup {"model"}  BY DEF Ops
  <2>6. \/ s.op \in Posted /\ s.op = KindAt(i)
        \/ s.op \in ToolOps \cup {"model"} /\ KindAt(i) = "loop"
        BY <1>5, <2>1, <2>5 DEF Posted, ToolOps
  <2> QED  BY <1>4, <2>2, <2>3, <2>4, <2>6 DEF Fitting
<1>11. AskedFor(a, i, s)
  <2>1. \A y \in yes : y[1] = a => y[2] <= i.n
    <3>1. TAKE y \in yes
    <3>2. y[2] \in Nat  BY <1>1
    <3>3. y[1] = a => y[2] <= inter[a].n  BY <1>8 DEF AskedFor
    <3> QED  BY <1>4, <3>2, <3>3
  <2>2. i.n - 1 = inter[a].n  BY <1>4
  <2>3. op = "tool_send" => <<a, i.n - 1>> \in yes
        BY <1>8, <2>2 DEF AskedFor
  <2>4. Cardinality(YesBelow(yes, a, i.n)) >= Cardinality(GatesBefore(i.step))
        BY <1>4, <1>8, <1>9 DEF AskedFor
  <2> QED  BY <1>4, <1>5, <2>1, <2>3, <2>4 DEF AskedFor
<1>12. LateOnce(a, i, s)
      BY <1>4, <1>5, <1>8 DEF LateOnce
<1> QED  BY <1>4, <1>5, <1>7, <1>10, <1>11, <1>12, OneTurns

\* An interpreter goes on by itself; the gates behind it are no more than
\* before, and it may not write without asking.
LEMMA GoKeeps ==
  ASSUME StepsInv, NEW a \in Attempt, NEW i \in Talk, Goes(a, i),
         inter[a].at \in {"step", "model", "tools", "write"},
         UNCHANGED <<program, mode, tokens, over, yes, effects>>,
         i.at \notin {"not_begun", "calls", "gone", "write"}, i.n = inter[a].n,
         i.at \in {"model", "tools"} => KindAt(i) = "loop",
         i.at = "tools" <=> i.turn # <<>>,
         Conversation(i.messages, Len(i.turn)),
         Cardinality(GatesBefore(i.step)) = Cardinality(GatesBefore(inter[a].step))
  PROVE  StepsInv'
<1>1. inter \in [Attempt -> Talk] /\ serve \in [Attempt -> Handler]
      BY DEF StepsInv, StepShape
<1>2. PICK s \in Handler : s = serve[a]
      BY <1>1
<1>3. /\ inter' \in [Attempt -> Talk] /\ inter'[a] = i
      /\ serve' \in [Attempt -> Handler] /\ serve'[a] = s
      /\ \A b \in Attempt \ {a} : inter'[b] = inter[b] /\ serve'[b] = serve[b]
      BY <1>1, <1>2 DEF Goes
<1>4. Fitting(inter[a], s) /\ AskedFor(a, inter[a], s) /\ LateOnce(a, inter[a], s)
      BY <1>2 DEF StepsInv, OfAttempt
<1>5. s.at = "idle"
      BY <1>4 DEF Fitting
<1>6. Fitting(i, s)
      BY <1>5 DEF Fitting, Midway
<1>7. AskedFor(a, i, s)
      BY <1>4, <1>5 DEF AskedFor
<1>8. LateOnce(a, i, s)
      BY <1>4, <1>5 DEF LateOnce
<1> QED  BY <1>3, <1>6, <1>7, <1>8, OneTurns

-----------------------------------------------------------------------------

\* The next step.
LEMMA PastShape ==
  ASSUME NEW i \in Talk
  PROVE  /\ Past(i) \in Talk /\ Past(i).at = "step" /\ Past(i).step = i.step + 1
         /\ Past(i).n = i.n /\ Past(i).turn = i.turn /\ Past(i).messages = i.messages
<1>1. i.step + 1 \in Nat \ {0}
      BY DEF Talk
<1> QED  BY <1>1 DEF Past, Talk, Spots

\* The end of an attempt.
LEMMA EndsShape ==
  ASSUME NEW i \in Talk, NEW how \in Spots
  PROVE  /\ Ends(i, how) \in Talk /\ Ends(i, how).at = how /\ Ends(i, how).step = i.step
         /\ Ends(i, how).n = i.n /\ Ends(i, how).turn = <<>> /\ Ends(i, how).messages = <<>>
<1>1. <<>> \in Seq(ToolKinds) /\ <<>> \in Seq(Message)
      BY EmptySeq
<1> QED  BY <1>1 DEF Ends, Talk

\* A tool call has its result.
LEMMA AfterToolShape ==
  ASSUME NEW i \in Talk, i.turn # <<>>, Conversation(i.messages, Len(i.turn))
  PROVE  /\ AfterTool(i) \in Talk /\ AfterTool(i).step = i.step /\ AfterTool(i).n = i.n
         /\ AfterTool(i).at \in {"model", "tools"}
         /\ AfterTool(i).at = "tools" <=> AfterTool(i).turn # <<>>
         /\ Conversation(AfterTool(i).messages, Len(AfterTool(i).turn))
<1>1. i.turn \in Seq(ToolKinds) /\ i.messages \in Seq(Message) /\ i.iter \in Nat
      BY DEF Talk
<1>2. PICK rest : rest = Tail(i.turn)
      OBVIOUS
<1>3. rest \in Seq(ToolKinds) /\ Len(rest) = Len(i.turn) - 1 /\ Len(i.turn) \in Nat /\ Len(i.turn) > 0
      BY <1>1, <1>2, HeadTailProperties, EmptySeq
<1>4. PICK m : m = Append(i.messages, Result)
      OBVIOUS
<1>5. m \in Seq(Message) /\ Conversation(m, Len(rest))
      BY <1>1, <1>3, <1>4, OneAnswered
<1>6. AfterTool(i) = [i EXCEPT !.messages = m, !.turn = rest,
                          !.at = IF rest = <<>> THEN "model" ELSE "tools",
                          !.iter = IF rest = <<>> THEN @ + 1 ELSE @]
      BY <1>2, <1>4 DEF AfterTool
<1>7. i.iter + 1 \in Nat
      BY <1>1
<1>8. /\ AfterTool(i) \in Talk /\ AfterTool(i).step = i.step /\ AfterTool(i).n = i.n
      /\ AfterTool(i).at = IF rest = <<>> THEN "model" ELSE "tools"
      /\ AfterTool(i).turn = rest /\ AfterTool(i).messages = m
      BY <1>1, <1>3, <1>5, <1>6, <1>7 DEF Talk, Spots
<1> QED  BY <1>5, <1>8

\* An attempt that ends by itself.
LEMMA EndKeeps ==
  ASSUME StepsInv, NEW a \in Attempt, NEW how \in {"done", "stopped", "failed"},
         Goes(a, Ends(inter[a], how)), inter[a].at \in {"step", "model", "tools", "write"},
         UNCHANGED <<program, mode, tokens, over, yes, effects>>
  PROVE  StepsInv'
<1>1. inter[a] \in Talk /\ how \in Spots
      BY DEF StepsInv, StepShape, Spots
<1>2. PICK i : i = Ends(inter[a], how)
      OBVIOUS
<1>3. i \in Talk /\ i.at = how /\ i.step = inter[a].step /\ i.n = inter[a].n /\ i.turn = <<>> /\ i.messages = <<>>
      BY <1>1, <1>2, EndsShape
<1>4. Conversation(i.messages, Len(i.turn))
      BY <1>3, NothingAsked, EmptySeq
<1> QED  BY <1>2, <1>3, <1>4, GoKeeps

\* An interpreter goes on to the next step, which is no gate.
LEMMA PastKeeps ==
  ASSUME StepsInv, NEW a \in Attempt, Goes(a, Past(inter[a])), inter[a].at = "step",
         Kind(a) \in {"local", "stop"}, UNCHANGED <<program, mode, tokens, over, yes, effects>>
  PROVE  StepsInv'
<1>1. inter[a] \in Talk /\ Fitting(inter[a], serve[a])
      BY DEF StepsInv, StepShape, OfAttempt
<1>2. PICK i : i = Past(inter[a])
      OBVIOUS
<1>3. /\ i \in Talk /\ i.at = "step" /\ i.step = inter[a].step + 1
      /\ i.n = inter[a].n /\ i.turn = inter[a].turn /\ i.messages = inter[a].messages
      BY <1>1, <1>2, PastShape
<1>4. i.turn = <<>> /\ Conversation(i.messages, Len(i.turn))
      BY <1>1, <1>3 DEF Fitting, Midway
<1>5. program[inter[a].step] # "gate" /\ inter[a].step \in Nat \ {0}
      BY <1>1 DEF Kind, Talk
<1>6. Cardinality(GatesBefore(i.step)) = Cardinality(GatesBefore(inter[a].step))
      BY <1>3, <1>5, GatesCounted
<1> QED  BY <1>2, <1>3, <1>4, <1>6, GoKeeps

\* One step of a bot.
LEMMA StepKeeps ==
  ASSUME StepsInv, NEW a \in Attempt, Step(a)
  PROVE  StepsInv'
<1>1. inter[a].at = "step" /\ UNCHANGED <<program, mode, tokens, over, yes, effects>>
      BY DEF Step
<1>2. inter[a] \in Talk /\ Fitting(inter[a], serve[a])
      BY DEF StepsInv, StepShape, OfAttempt
<1>3. inter[a].turn = <<>> /\ Kind(a) = KindAt(inter[a])
      BY <1>1, <1>2 DEF Fitting, Midway, Kind, KindAt
<1>4. CASE Kind(a) \in Posted /\ Calls(a, Kind(a))
  <2>1. PICK op \in Posted : op = Kind(a)
        BY <1>4
  <2>2. op \in Ops /\ op \notin ToolOps /\ op # "tool_send"
        BY <2>1 DEF Ops, Posted, ToolOps
  <2> QED  BY <1>1, <1>3, <1>4, <2>1, <2>2, CallKeeps
<1>5. CASE Kind(a) = "local" /\ \E i \in {Past(inter[a]), Ends(inter[a], "failed")} : Goes(a, i)
      BY <1>1, <1>5, PastKeeps, EndKeeps
<1>6. CASE Kind(a) = "stop" /\ \E i \in {Past(inter[a]), Ends(inter[a], "stopped")} : Goes(a, i)
      BY <1>1, <1>6, PastKeeps, EndKeeps
<1>7. CASE Kind(a) = "loop" /\ Goes(a, [inter[a] EXCEPT !.at = "model", !.iter = 1, !.messages = <<Goal>>])
  <2>1. PICK i : i = [inter[a] EXCEPT !.at = "model", !.iter = 1, !.messages = <<Goal>>]
        OBVIOUS
  <2>2. <<Goal>> \in Seq(Message)
    <3>1. Goal \in Message  BY DEF Goal, Message
    <3> QED  BY <3>1
  <2>3. /\ i \in Talk /\ i.at = "model" /\ i.step = inter[a].step /\ i.n = inter[a].n
        /\ i.turn = inter[a].turn /\ i.messages = <<Goal>>
        BY <1>2, <2>1, <2>2 DEF Talk, Spots
  <2>4. Conversation(i.messages, Len(i.turn))
        BY <1>3, <2>3, NothingAsked, EmptySeq
  <2>5. KindAt(i) = "loop"
        BY <1>3, <1>7, <2>3 DEF KindAt
  <2> QED  BY <1>1, <1>3, <1>7, <2>1, <2>3, <2>4, <2>5, GoKeeps
<1>8. CASE Kind(a) = "end" /\ \E how \in {"done", "failed"} : Goes(a, Ends(inter[a], how))
      BY <1>1, <1>8, EndKeeps
<1> QED  BY <1>4, <1>5, <1>6, <1>7, <1>8 DEF Step, Posted

\* One step of an agent's loop.
LEMMA LoopStepKeeps ==
  ASSUME StepsInv, NEW a \in Attempt, LoopStep(a)
  PROVE  StepsInv'
<1>1. inter[a].at \in {"model", "tools", "write"} /\ UNCHANGED <<program, mode, tokens, over, yes, effects>>
      BY DEF LoopStep
<1>2. inter[a] \in Talk /\ Fitting(inter[a], serve[a])
      BY DEF StepsInv, StepShape, OfAttempt
<1>3. /\ KindAt(inter[a]) = "loop" /\ Conversation(inter[a].messages, Len(inter[a].turn))
      /\ inter[a].turn # <<>> <=> inter[a].at \in {"tools", "write"}
      BY <1>1, <1>2 DEF Fitting, Midway
<1>4. CASE inter[a].at = "model" /\ Calls(a, "model")
  <2>1. "model" \in Ops /\ "model" \notin Posted /\ "model" \notin ToolOps
        BY DEF Ops, Posted, ToolOps
  <2> QED  BY <1>1, <1>3, <1>4, <2>1, CallKeeps
<1>5. CASE inter[a].at = "model" /\ Goes(a, Ends(inter[a], "failed"))
      BY <1>1, <1>5, EndKeeps
<1>6. CASE inter[a].at = "tools" /\ OpOf(Head(inter[a].turn)) # "refused" /\ Calls(a, OpOf(Head(inter[a].turn)))
  <2>1. Head(inter[a].turn) \in ToolKinds
        BY <1>2, <1>3, <1>6, HeadTailProperties DEF Talk
  <2>2. PICK op : op = OpOf(Head(inter[a].turn))
        OBVIOUS
  <2>3. op \in {"tool", "tool_gate"}
        BY <1>6, <2>1, <2>2 DEF OpOf, ToolKinds
  <2>4. op \in Ops /\ op \notin Posted /\ op \in ToolOps /\ op # "tool_send"
        BY <2>3 DEF Ops, Posted, ToolOps
  <2> QED  BY <1>1, <1>3, <1>6, <2>2, <2>4, CallKeeps
<1>7. CASE inter[a].at = "tools" /\ Goes(a, AfterTool(inter[a]))
  <2>1. PICK i : i = AfterTool(inter[a])
        OBVIOUS
  <2>2. /\ i \in Talk /\ i.step = inter[a].step /\ i.n = inter[a].n
        /\ i.at \in {"model", "tools"} /\ (i.at = "tools" <=> i.turn # <<>>)
        /\ Conversation(i.messages, Len(i.turn))
        BY <1>2, <1>3, <1>7, <2>1, AfterToolShape
  <2>3. KindAt(i) = "loop"
        BY <1>3, <2>2 DEF KindAt
  <2> QED  BY <1>1, <1>7, <2>1, <2>2, <2>3, GoKeeps
<1>8. CASE inter[a].at = "write" /\ Calls(a, "tool_send")
  <2>1. "tool_send" \in Ops /\ "tool_send" \notin Posted /\ "tool_send" \in ToolOps
        BY DEF Ops, Posted, ToolOps
  <2> QED  BY <1>1, <1>3, <1>8, <2>1, CallKeeps
<1> QED  BY <1>4, <1>5, <1>6, <1>7, <1>8 DEF LoopStep

-----------------------------------------------------------------------------

\* An answer, with what was done and what was said yes to on the way.
LEMMA AnswerKeeps ==
  ASSUME StepsInv, NEW a \in Attempt, NEW s \in Handler,
         serve[a].at \in {"admitted", "asking"}, s.at = "answered", s.op = serve[a].op,
         serve' = [serve EXCEPT ![a] = s],
         NEW E, E \subseteq {[attempt |-> a, call |-> inter[a].n, step |-> inter[a].step,
                              op |-> serve[a].op, late |-> over[a] # "no"]},
         effects' = effects \cup E,
         NEW Y, Y \subseteq {<<a, inter[a].n>>}, yes' = yes \cup Y,
         s.answer = "ok" /\ s.op \in {"gate", "tool_gate"} => <<a, inter[a].n>> \in yes \cup Y,
         UNCHANGED <<program, mode, inter, tokens, over>>
  PROVE  StepsInv'
<1>1. /\ StepShape /\ NothingUnasked /\ inter[a] \in Talk /\ serve[a] \in Handler
      /\ Fitting(inter[a], serve[a]) /\ AskedFor(a, inter[a], serve[a]) /\ LateOnce(a, inter[a], serve[a])
      BY DEF StepsInv, StepShape, OfAttempt
<1>2. PICK n \in Nat, k \in Nat \ {0} : n = inter[a].n /\ k = inter[a].step
      BY <1>1 DEF Talk
<1>3. yes \subseteq Attempt \X Nat /\ IsFiniteSet(yes)
      BY <1>1 DEF StepShape
<1>4. yes \subseteq yes' /\ yes' \subseteq Attempt \X Nat /\ IsFiniteSet(yes')
  <2>1. IsFiniteSet({<<a, n>>})  BY FS_Singleton
  <2>2. IsFiniteSet(Y)  BY <1>2, <2>1, FS_Subset
  <2>3. IsFiniteSet(yes')  BY <1>3, <2>2, FS_Union
  <2> QED  BY <1>2, <1>3, <2>3
<1>5. E \subseteq Effect
  <2>1. PICK l \in BOOLEAN : l = (over[a] # "no")
        OBVIOUS
  <2>2. serve[a].op \in Ops
        BY <1>1 DEF Handler
  <2>3. [attempt |-> a, call |-> n, step |-> k, op |-> serve[a].op, late |-> l] \in Effect
        BY <2>2 DEF Effect
  <2>4. E \subseteq {[attempt |-> a, call |-> n, step |-> k, op |-> serve[a].op, late |-> l]}
        BY <1>2, <2>1
  <2> QED  BY <2>3, <2>4
<1>6. serve' \in [Attempt -> Handler] /\ serve'[a] = s /\ \A b \in Attempt \ {a} : serve'[b] = serve[b]
      BY <1>1 DEF StepShape
<1>7. StepShape'
      BY <1>1, <1>4, <1>5, <1>6 DEF StepShape
<1>8. /\ Cardinality(YesBelow(yes, a, n)) >= Cardinality(GatesBefore(k))
      /\ serve[a].op = "tool_send" => <<a, n - 1>> \in yes
      /\ \A y \in yes : y[1] = a => y[2] <= n
      BY <1>1, <1>2 DEF AskedFor
<1>9. Cardinality(YesBelow(yes', a, n)) >= Cardinality(GatesBefore(k))
  <2>1. Cardinality(YesBelow(yes, a, n)) <= Cardinality(YesBelow(yes', a, n))
        BY <1>2, <1>3, <1>4, YesGrows
  <2>2. /\ Cardinality(YesBelow(yes, a, n)) \in Nat /\ Cardinality(YesBelow(yes', a, n)) \in Nat
        /\ Cardinality(GatesBefore(k)) \in Nat
        BY <1>2, <1>3, <1>4, YesCounted, GatesCounted
  <2> QED  BY <1>8, <2>1, <2>2
<1>10. NothingUnasked'
  <2>1. ASSUME NEW e \in effects' \ effects
        PROVE  /\ e.op = "tool_send" => <<e.attempt, e.call - 1>> \in yes'
               /\ Cardinality(YesBelow(yes', e.attempt, e.call)) >= Cardinality(GatesBefore(e.step))
    <3>1. e.attempt = a /\ e.call = n /\ e.step = k /\ e.op = serve[a].op
          BY <1>2, <2>1
    <3> QED  BY <1>4, <1>8, <1>9, <3>1
  <2> QED  BY <1>1, <1>4, <2>1, UnaskedStays
<1>11. OfAttempt(a)'
  <2>1. Fitting(inter[a], serve[a])'
        BY <1>1, <1>6 DEF Fitting, KindAt, Midway
  <2>2. GatesBefore(inter[a].step)' = GatesBefore(k)
        BY <1>2 DEF GatesBefore
  <2>3. \A y \in yes' : y[1] = a => y[2] <= n
        BY <1>2, <1>8
  <2>4. /\ inter[a].at # "write"
        /\ s.op = "tool_send" => <<a, n - 1>> \in yes'
        /\ s.answer = "ok" /\ s.op \in {"gate", "tool_gate"} => <<a, n>> \in yes'
        BY <1>1, <1>2, <1>8 DEF Fitting
  <2>5. AskedFor(a, inter[a], serve[a])'
        BY <1>2, <1>6, <1>9, <2>2, <2>3, <2>4 DEF AskedFor
  <2>6. LateOnce(a, inter[a], serve[a])'
    <3>1. mode = "container" => Late(effects, a) = {}
          BY <1>1 DEF LateOnce
    <3>2. mode = "container" => \A e \in Late(effects', a) : e \in E
          BY <3>1 DEF Late
    <3>3. mode = "container" => \A e, f \in Late(effects', a) : e = f
          BY <3>2
    <3>4. mode = "container" /\ over[a] = "no" => Late(effects', a) = {}
      <4>1. ASSUME mode = "container", over[a] = "no", NEW e \in Late(effects', a) PROVE FALSE
        <5>1. e \in E /\ e.late  BY <3>2, <4>1 DEF Late
        <5>2. PICK l : l = (over[a] # "no")  OBVIOUS
        <5>3. e = [attempt |-> a, call |-> inter[a].n, step |-> inter[a].step,
                   op |-> serve[a].op, late |-> l]
              BY <5>1, <5>2
        <5>4. e.late = l  BY <5>3
        <5> QED  BY <4>1, <5>1, <5>2, <5>4
      <4> QED  BY <4>1
    <3> QED  BY <1>1, <1>6, <3>3, <3>4 DEF LateOnce
  <2> QED  BY <2>1, <2>5, <2>6 DEF OfAttempt
<1>12. \A b \in Attempt \ {a} :
          /\ \A y : y[1] = b => (y \in yes' <=> y \in yes)
          /\ \A e : e.attempt = b => (e \in effects' <=> e \in effects)
      OBVIOUS
<1> QED  BY <1>6, <1>7, <1>10, <1>11, <1>12, OneActs

\* A handler goes on without an answer, or with one that is no yes.
LEMMA HandlerKeeps ==
  ASSUME StepsInv, NEW a \in Attempt, NEW s \in Handler,
         serve[a].at # "idle", s.at # "idle", s.op = serve[a].op,
         serve' = [serve EXCEPT ![a] = s],
         s.at = "answered" => s.answer # "ok",
         mode = "container" /\ s.at \in {"admitted", "asking"} => Late(effects, a) = {},
         UNCHANGED <<program, mode, inter, tokens, over, yes, effects>>
  PROVE  StepsInv'
<1>1. /\ StepShape /\ inter[a] \in Talk
      /\ Fitting(inter[a], serve[a]) /\ AskedFor(a, inter[a], serve[a]) /\ LateOnce(a, inter[a], serve[a])
      BY DEF StepsInv, StepShape, OfAttempt
<1>2. serve' \in [Attempt -> Handler] /\ serve'[a] = s /\ \A b \in Attempt \ {a} : serve'[b] = serve[b]
      BY <1>1 DEF StepShape
<1>3. Fitting(inter[a], s) /\ AskedFor(a, inter[a], s)
      BY <1>1 DEF Fitting, Midway, AskedFor
<1>4. LateOnce(a, inter[a], s)
      BY <1>1 DEF LateOnce
<1>5. inter' \in [Attempt -> Talk] /\ inter'[a] = inter[a] /\ \A b \in Attempt \ {a} : inter'[b] = inter[b]
      BY <1>1 DEF StepShape
<1> QED  BY <1>1, <1>2, <1>3, <1>4, <1>5, OneTurns

\* The daemon looks the token up.
LEMMA AdmitKeeps ==
  ASSUME StepsInv, NEW a \in Attempt, Admit(a)
  PROVE  StepsInv'
<1>1. /\ serve[a].at = "sent" /\ serve[a] \in Handler
      /\ UNCHANGED <<program, mode, inter, tokens, over, yes, effects>>
      /\ LateOnce(a, inter[a], serve[a])
      BY DEF Admit, StepsInv, StepShape, OfAttempt
<1>2. CASE a \in tokens /\ serve' = [serve EXCEPT ![a].at = "admitted"]
  <2>1. PICK s : s = [serve[a] EXCEPT !.at = "admitted"]
        OBVIOUS
  <2>2. s \in Handler /\ s.at = "admitted" /\ s.op = serve[a].op
        BY <1>1, <2>1 DEF Handler
  <2>3. mode = "container" => Late(effects, a) = {}
        BY <1>1, <1>2 DEF LateOnce
  <2> QED  BY <1>1, <1>2, <2>1, <2>2, <2>3, HandlerKeeps
<1>3. CASE a \notin tokens /\ Answers(a, "error")
  <2>1. PICK s : s = [serve[a] EXCEPT !.at = "answered", !.answer = "error"]
        OBVIOUS
  <2>2. s \in Handler /\ s.at = "answered" /\ s.answer = "error" /\ s.op = serve[a].op
        BY <1>1, <2>1 DEF Handler
  <2>3. serve' = [serve EXCEPT ![a] = s]
        BY <1>3, <2>1 DEF Answers
  <2> QED  BY <1>1, <2>2, <2>3, HandlerKeeps
<1> QED  BY <1>2, <1>3 DEF Admit

\* An answer that nobody was asked for.
LEMMA PlainAnswerKeeps ==
  ASSUME StepsInv, NEW a \in Attempt, NEW what \in {"ok", "no", "error", "final"}, Answers(a, what),
         serve[a].at \in {"admitted", "asking"}, what = "ok" => serve[a].op \notin {"gate", "tool_gate"},
         UNCHANGED <<program, mode, inter, tokens, over, yes, effects>>
  PROVE  StepsInv'
<1>1. serve[a] \in Handler
      BY DEF StepsInv, StepShape
<1>2. PICK s : s = [serve[a] EXCEPT !.at = "answered", !.answer = what]
      OBVIOUS
<1>3. s \in Handler /\ s.at = "answered" /\ s.answer = what /\ s.op = serve[a].op
      BY <1>1, <1>2 DEF Handler
<1>4. serve' = [serve EXCEPT ![a] = s]
      BY <1>2 DEF Answers
<1>5. effects' = effects \cup {} /\ yes' = yes \cup {}
      OBVIOUS
<1>6. {} \subseteq {<<a, inter[a].n>>} /\
      {} \subseteq {[attempt |-> a, call |-> inter[a].n, step |-> inter[a].step,
                     op |-> serve[a].op, late |-> over[a] # "no"]}
      OBVIOUS
<1>7. ~(s.answer = "ok" /\ s.op \in {"gate", "tool_gate"})
      BY <1>3
<1> QED  BY <1>3, <1>4, <1>5, <1>6, <1>7, AnswerKeeps

\* An answer after something was done, or may have been said yes to.
LEMMA DoneKeeps ==
  ASSUME StepsInv, NEW a \in Attempt, NEW what \in {"ok", "error"}, Answers(a, what),
         serve[a].at \in {"admitted", "asking"}, what = "ok" => serve[a].op \notin {"gate", "tool_gate"},
         Done(a), NEW Y, Y \subseteq {<<a, inter[a].n>>}, yes' = yes \cup Y,
         UNCHANGED <<program, mode, inter, tokens, over>>
  PROVE  StepsInv'
<1>1. serve[a] \in Handler
      BY DEF StepsInv, StepShape
<1>2. PICK s : s = [serve[a] EXCEPT !.at = "answered", !.answer = what]
      OBVIOUS
<1>3. s \in Handler /\ s.at = "answered" /\ s.answer = what /\ s.op = serve[a].op
      BY <1>1, <1>2 DEF Handler
<1>4. serve' = [serve EXCEPT ![a] = s]
      BY <1>2 DEF Answers
<1>5. PICK E : E = {[attempt |-> a, call |-> inter[a].n, step |-> inter[a].step,
                     op |-> serve[a].op, late |-> over[a] # "no"]}
      OBVIOUS
<1>6. effects' = effects \cup E
      BY <1>5 DEF Done
<1>7. ~(s.answer = "ok" /\ s.op \in {"gate", "tool_gate"})
      BY <1>3
<1> QED  BY <1>3, <1>4, <1>5, <1>6, <1>7, AnswerKeeps

\* The daemon acts on what it was asked.
LEMMA ActKeeps ==
  ASSUME StepsInv, NEW a \in Attempt, Act(a)
  PROVE  StepsInv'
<1>1. /\ serve[a].at = "admitted" /\ serve[a] \in Handler
      /\ UNCHANGED <<program, mode, inter, tokens, over, yes>>
      /\ LateOnce(a, inter[a], serve[a])
      BY DEF Act, StepsInv, StepShape, OfAttempt
<1>2. CASE AnswerRead(a)
  <2>1. PICK what \in {"ok", "error"} : Answers(a, what)
        BY <1>2 DEF AnswerRead
  <2>2. UNCHANGED effects /\ serve[a].op \notin {"gate", "tool_gate"}
        BY <1>2 DEF AnswerRead
  <2> QED  BY <1>1, <2>1, <2>2, PlainAnswerKeeps
<1>3. CASE Send(a)
  <2>1. serve[a].op \notin {"gate", "tool_gate"}
        BY <1>3 DEF Send, Sends
  <2>2. CASE UNCHANGED effects /\ Answers(a, "error")
        BY <1>1, <2>2, PlainAnswerKeeps
  <2>3. CASE Done(a) /\ \E what \in {"ok", "error"} : Answers(a, what)
    <3>1. PICK what \in {"ok", "error"} : Answers(a, what)
          BY <2>3
    <3>2. yes' = yes \cup {} /\ {} \subseteq {<<a, inter[a].n>>}
          BY <1>1
    <3> QED  BY <1>1, <2>1, <2>3, <3>1, <3>2, DoneKeeps
  <2> QED  BY <1>3, <2>2, <2>3 DEF Send
<1>4. CASE OpenGate(a)
  <2>1. PICK s : s = [serve[a] EXCEPT !.at = "asking"]
        OBVIOUS
  <2>2. s \in Handler /\ s.at = "asking" /\ s.op = serve[a].op
        BY <1>1, <2>1 DEF Handler
  <2>3. serve' = [serve EXCEPT ![a] = s] /\ UNCHANGED effects
        BY <1>4, <2>1 DEF OpenGate
  <2>4. mode = "container" => Late(effects, a) = {}
        BY <1>1 DEF LateOnce
  <2> QED  BY <1>1, <2>2, <2>3, <2>4, HandlerKeeps
<1>5. CASE Generate(a)
  <2>1. UNCHANGED effects
        BY <1>5 DEF Generate
  <2>2. CASE \E what \in {"final", "error"} : Answers(a, what)
        BY <1>1, <2>1, <2>2, PlainAnswerKeeps
  <2>3. CASE \E t \in Turns : serve' = [serve EXCEPT ![a].at = "answered", ![a].answer = "tools", ![a].turn = t]
    <3>1. PICK t \in Turns : serve' = [serve EXCEPT ![a].at = "answered", ![a].answer = "tools", ![a].turn = t]
          BY <2>3
    <3>2. t \in Seq(ToolKinds)
          BY StepsAssumption
    <3>3. PICK s : s = [serve[a] EXCEPT !.at = "answered", !.answer = "tools", !.turn = t]
          OBVIOUS
    <3>4. s \in Handler /\ s.at = "answered" /\ s.answer = "tools" /\ s.op = serve[a].op
          BY <1>1, <3>2, <3>3 DEF Handler
    <3>5. serve' = [serve EXCEPT ![a] = s]
          BY <3>1, <3>3
    <3> QED  BY <1>1, <2>1, <3>4, <3>5, HandlerKeeps
  <2> QED  BY <1>5, <2>2, <2>3 DEF Generate
<1> QED  BY <1>2, <1>3, <1>4, <1>5 DEF Act

\* A person decides.
LEMMA DecideKeeps ==
  ASSUME StepsInv, NEW a \in Attempt, Decide(a)
  PROVE  StepsInv'
<1>1. /\ serve[a].at = "asking" /\ serve[a] \in Handler
      /\ UNCHANGED <<program, mode, inter, tokens, over>>
      BY DEF Decide, StepsInv, StepShape
<1>2. CASE Answers(a, "error") /\ UNCHANGED <<yes, effects>>
      BY <1>1, <1>2, PlainAnswerKeeps
<1>3. CASE Answers(a, "no") /\ UNCHANGED <<yes, effects>>
      BY <1>1, <1>3, PlainAnswerKeeps
<1>4. CASE Answers(a, "ok") /\ yes' = yes \cup {<<a, inter[a].n>>} /\ UNCHANGED effects
  <2>1. PICK s : s = [serve[a] EXCEPT !.at = "answered", !.answer = "ok"]
        OBVIOUS
  <2>2. s \in Handler /\ s.at = "answered" /\ s.op = serve[a].op
        BY <1>1, <2>1 DEF Handler
  <2>3. serve' = [serve EXCEPT ![a] = s]
        BY <1>4, <2>1 DEF Answers
  <2>4. effects' = effects \cup {}
        BY <1>4
  <2>5. {} \subseteq {[attempt |-> a, call |-> inter[a].n, step |-> inter[a].step,
                       op |-> serve[a].op, late |-> over[a] # "no"]}
        OBVIOUS
  <2>6. PICK Y : Y = {<<a, inter[a].n>>}
        OBVIOUS
  <2>7. Y \subseteq {<<a, inter[a].n>>} /\ yes' = yes \cup Y /\ <<a, inter[a].n>> \in yes \cup Y
        BY <1>4, <2>6
  <2> QED  BY <1>1, <2>2, <2>3, <2>4, <2>5, <2>7, AnswerKeeps
<1>5. CASE serve[a].op = "bound" /\ Answers(a, "ok") /\ Done(a) /\ yes' = yes \cup {<<a, inter[a].n>>}
  <2>1. PICK Y : Y = {<<a, inter[a].n>>}
        OBVIOUS
  <2>2. Y \subseteq {<<a, inter[a].n>>} /\ yes' = yes \cup Y /\ serve[a].op \notin {"gate", "tool_gate"}
        BY <1>5, <2>1
  <2> QED  BY <1>1, <1>5, <2>2, DoneKeeps
<1> QED  BY <1>1, <1>2, <1>3, <1>4, <1>5 DEF Decide

-----------------------------------------------------------------------------

\* The interpreter goes on from an answer.
LEMMA FromAnswer ==
  ASSUME StepsInv, NEW a \in Attempt, NEW i \in Talk, inter' = [inter EXCEPT ![a] = i],
         serve' = [serve EXCEPT ![a] = Idling], inter[a].at = "calls",
         UNCHANGED <<program, mode, tokens, over, yes, effects>>,
         i.at \notin {"not_begun", "calls", "gone"}, i.n = inter[a].n,
         i.at \in {"model", "tools", "write"} => KindAt(i) = "loop",
         i.at \in {"tools", "write"} <=> i.turn # <<>>,
         Conversation(i.messages, Len(i.turn)),
         i.at = "write" => <<a, i.n>> \in yes,
         Cardinality(YesBelow(yes, a, i.n + 1)) >= Cardinality(GatesBefore(i.step))
  PROVE  StepsInv'
<1>1. /\ inter \in [Attempt -> Talk] /\ serve \in [Attempt -> Handler]
      /\ AskedFor(a, inter[a], serve[a]) /\ LateOnce(a, inter[a], serve[a])
      BY DEF StepsInv, StepShape, OfAttempt
<1>2. Idling \in Handler /\ Idling.at = "idle"
      BY EmptySeq DEF Idling, Handler, Ops, Posted
<1>3. /\ inter' \in [Attempt -> Talk] /\ inter'[a] = i
      /\ serve' \in [Attempt -> Handler] /\ serve'[a] = Idling
      /\ \A b \in Attempt \ {a} : inter'[b] = inter[b] /\ serve'[b] = serve[b]
      BY <1>1, <1>2
<1>4. Fitting(i, Idling)
      BY <1>2 DEF Fitting, Midway
<1>5. AskedFor(a, i, Idling)
      BY <1>1, <1>2 DEF AskedFor
<1>6. LateOnce(a, i, Idling)
      BY <1>1, <1>2 DEF LateOnce
<1> QED  BY <1>2, <1>3, <1>4, <1>5, <1>6, OneTurns

\* An answer comes back: what it lets the bot do was asked for.
LEMMA ReceiveKeeps ==
  ASSUME StepsInv, NEW a \in Attempt, Receive(a)
  PROVE  StepsInv'
<1> DEFINE i == inter[a]
           s == serve[a]
           j == AfterCall(i, s.op, s.answer, s.turn)
<1>1. /\ i \in Talk /\ s \in Handler /\ i.at = "calls" /\ s.at = "answered"
      /\ Fitting(i, s) /\ AskedFor(a, i, s)
      /\ yes \subseteq Attempt \X Nat /\ IsFiniteSet(yes)
      BY DEF StepsInv, StepShape, OfAttempt, Receive
<1>2. /\ inter' = [inter EXCEPT ![a] = j] /\ serve' = [serve EXCEPT ![a] = Idling]
      /\ UNCHANGED <<program, mode, tokens, over, yes, effects>>
      BY DEF Receive
<1> HIDE DEF j
<1>3. i.n \in Nat /\ i.step \in Nat \ {0} /\ i.turn \in Seq(ToolKinds) /\ i.messages \in Seq(Message)
      /\ s.turn \in Seq(ToolKinds) /\ s.op \in Ops
      BY <1>1 DEF Talk, Handler
<1>4. /\ \/ s.op \in Posted /\ s.op = KindAt(i)
         \/ s.op \in ToolOps \cup {"model"} /\ KindAt(i) = "loop"
      /\ Conversation(i.messages, Len(i.turn)) /\ (s.op \in ToolOps <=> i.turn # <<>>)
      /\ Cardinality(YesBelow(yes, a, i.n)) >= Cardinality(GatesBefore(i.step))
      /\ s.answer = "ok" /\ s.op \in {"gate", "tool_gate"} => <<a, i.n>> \in yes
      BY <1>1 DEF Fitting, Midway, AskedFor
<1>5. /\ Cardinality(YesBelow(yes, a, i.n)) \in Nat /\ Cardinality(YesBelow(yes, a, i.n + 1)) \in Nat
      /\ Cardinality(GatesBefore(i.step)) \in Nat /\ Cardinality(GatesBefore(i.step + 1)) \in Nat
      BY <1>1, <1>3, YesCounted, GatesCounted
<1>6. /\ Cardinality(YesBelow(yes, a, i.n)) <= Cardinality(YesBelow(yes, a, i.n + 1))
      /\ <<a, i.n>> \in yes =>
             Cardinality(YesBelow(yes, a, i.n)) + 1 <= Cardinality(YesBelow(yes, a, i.n + 1))
  <2>1. i.n + 1 \in Nat /\ i.n <= i.n + 1 /\ yes \subseteq yes  BY <1>3
  <2>2. Cardinality(YesBelow(yes, a, i.n)) <= Cardinality(YesBelow(yes, a, i.n + 1))
        BY <1>1, <1>3, <2>1, YesGrows, Zenon
  <2>3. ASSUME <<a, i.n>> \in yes
        PROVE  Cardinality(YesBelow(yes, a, i.n)) + 1 <= Cardinality(YesBelow(yes, a, i.n + 1))
        BY <1>1, <1>3, <2>3, YesMore, Zenon
  <2> QED  BY <2>2, <2>3
<1>7. Cardinality(YesBelow(yes, a, i.n + 1)) >= Cardinality(GatesBefore(i.step))
      BY <1>4, <1>5, <1>6
<1>8. KindAt(i) # "end" /\ KindAt(i) = program[i.step]
      BY <1>4 DEF KindAt, Posted
<1>9. KindAt(i) = "gate" => s.op = "gate"
      BY <1>4
<1>10. CASE j = Ends(i, "failed")
  <2>1. "failed" \in Spots  BY DEF Spots
  <2>2. j \in Talk /\ j.at = "failed" /\ j.step = i.step /\ j.n = i.n /\ j.turn = <<>> /\ j.messages = <<>>
        BY <1>1, <1>10, <2>1, EndsShape
  <2>3. Conversation(j.messages, Len(j.turn))
        BY <2>2, NothingAsked, EmptySeq
  <2> QED  BY <1>1, <1>2, <1>7, <2>2, <2>3, FromAnswer
<1>11. CASE j = Past(i) /\ s.op \in Posted /\ (s.op = "gate" => s.answer = "ok")
  <2>1. /\ j \in Talk /\ j.at = "step" /\ j.step = i.step + 1
        /\ j.n = i.n /\ j.turn = i.turn /\ j.messages = i.messages
        BY <1>1, <1>11, PastShape
  <2>2. s.op \notin ToolOps  BY <1>11 DEF Posted, ToolOps
  <2>3. j.turn = <<>> /\ Conversation(j.messages, Len(j.turn))
        BY <1>4, <2>1, <2>2
  <2>4. Cardinality(YesBelow(yes, a, i.n + 1)) >= Cardinality(GatesBefore(i.step + 1))
    <3>1. CASE program[i.step] = "gate"
      <4>1. <<a, i.n>> \in yes  BY <1>4, <1>8, <1>9, <1>11, <3>1
      <4>2. Cardinality(GatesBefore(i.step + 1)) = Cardinality(GatesBefore(i.step)) + 1
            BY <1>3, <3>1, GatesCounted
      <4> QED  BY <1>4, <1>5, <1>6, <4>1, <4>2
    <3>2. CASE program[i.step] # "gate"
      <4>1. Cardinality(GatesBefore(i.step + 1)) = Cardinality(GatesBefore(i.step))
            BY <1>3, <3>2, GatesCounted
      <4> QED  BY <1>7, <4>1
    <3> QED  BY <3>1, <3>2
  <2> QED  BY <1>1, <1>2, <2>1, <2>3, <2>4, FromAnswer
<1>12. CASE s.op = "tool_gate" /\ s.answer = "ok" /\ j = [i EXCEPT !.at = "write"]
  <2>1. /\ j \in Talk /\ j.at = "write" /\ j.step = i.step /\ j.n = i.n
        /\ j.turn = i.turn /\ j.messages = i.messages
        BY <1>1, <1>12 DEF Talk, Spots
  <2>2. KindAt(j) = KindAt(i)  BY <2>1 DEF KindAt
  <2>3. KindAt(i) = "loop" /\ i.turn # <<>> /\ <<a, i.n>> \in yes
        BY <1>4, <1>12 DEF Posted, ToolOps
  <2> QED  BY <1>1, <1>2, <1>4, <1>7, <2>1, <2>2, <2>3, FromAnswer
<1>13. CASE s.op \in {"tool", "tool_send"} /\ j = AfterTool(i)
  <2>1. KindAt(i) = "loop" /\ i.turn # <<>>
        BY <1>4, <1>13 DEF Posted, ToolOps
  <2>2. /\ j \in Talk /\ j.step = i.step /\ j.n = i.n
        /\ j.at \in {"model", "tools"} /\ (j.at = "tools" <=> j.turn # <<>>)
        /\ Conversation(j.messages, Len(j.turn))
        BY <1>1, <1>4, <1>13, <2>1, AfterToolShape
  <2>3. KindAt(j) = KindAt(i)  BY <2>2 DEF KindAt
  <2> QED  BY <1>1, <1>2, <1>7, <2>1, <2>2, <2>3, FromAnswer
<1>14. CASE s.op = "model" /\ j = [Past(i) EXCEPT !.messages = <<>>]
  <2>1. PICK p \in Talk : p = Past(i) /\ p.at = "step" /\ p.step = i.step + 1 /\ p.n = i.n /\ p.turn = i.turn
        BY <1>1, PastShape
  <2>2. /\ j \in Talk /\ j.at = "step" /\ j.step = i.step + 1
        /\ j.n = i.n /\ j.turn = i.turn /\ j.messages = <<>>
        BY <1>14, <2>1, EmptySeq DEF Talk
  <2>3. i.turn = <<>> /\ KindAt(i) = "loop"
        BY <1>4, <1>14 DEF Posted, ToolOps
  <2>4. Conversation(j.messages, Len(j.turn))
        BY <2>2, <2>3, NothingAsked, EmptySeq
  <2>5. Cardinality(GatesBefore(i.step + 1)) = Cardinality(GatesBefore(i.step))
        BY <1>3, <1>8, <2>3, GatesCounted
  <2> QED  BY <1>1, <1>2, <1>7, <2>2, <2>3, <2>4, <2>5, FromAnswer
<1>15. CASE /\ s.op = "model" /\ s.turn # <<>>
            /\ j = [i EXCEPT !.at = "tools", !.turn = s.turn, !.messages = Append(@, AsksFor(Len(s.turn)))]
  <2>1. i.turn = <<>> /\ KindAt(i) = "loop"
        BY <1>4, <1>15 DEF Posted, ToolOps
  <2>2. PICK m : m = Append(i.messages, AsksFor(Len(s.turn)))
        OBVIOUS
  <2>3. m \in Seq(Message) /\ Conversation(m, Len(s.turn))
    <3>1. Conversation(i.messages, 0)  BY <1>4, <2>1, EmptySeq
    <3>2. Len(s.turn) \in Nat  BY <1>3, LenProperties
    <3> QED  BY <1>3, <2>2, <3>1, <3>2, ModelAsks
  <2>4. /\ j \in Talk /\ j.at = "tools" /\ j.step = i.step /\ j.n = i.n
        /\ j.turn = s.turn /\ j.messages = m
        BY <1>1, <1>3, <1>15, <2>2, <2>3 DEF Talk, Spots
  <2>5. KindAt(j) = KindAt(i)  BY <2>4 DEF KindAt
  <2> QED  BY <1>1, <1>2, <1>7, <1>15, <2>1, <2>3, <2>4, <2>5, FromAnswer
<1>16. CASE s.op \in {"read", "send", "bound"}
  <2>1. j = IF s.answer = "ok" THEN Past(i) ELSE Ends(i, "failed")
        BY <1>16 DEF j, AfterCall
  <2> QED  BY <1>10, <1>11, <1>16, <2>1 DEF Posted
<1>17. CASE s.op = "soft"
  <2>1. j = Past(i)  BY <1>17 DEF j, AfterCall
  <2> QED  BY <1>11, <1>17, <2>1 DEF Posted
<1>18. CASE s.op = "gate"
  <2>1. j = IF s.answer = "ok" THEN Past(i) ELSE Ends(i, "failed")
        BY <1>18 DEF j, AfterCall, AfterGate
  <2> QED  BY <1>10, <1>11, <1>18, <2>1 DEF Posted
<1>19. CASE s.op = "ask"
  <2>1. j = IF s.answer = "error" THEN Ends(i, "failed") ELSE Past(i)
        BY <1>19 DEF j, AfterCall
  <2> QED  BY <1>10, <1>11, <1>19, <2>1 DEF Posted
<1>20. CASE s.op = "tool_gate"
  <2>1. j = IF s.answer = "ok" THEN [i EXCEPT !.at = "write"] ELSE Ends(i, "failed")
        BY <1>20 DEF j, AfterCall
  <2> QED  BY <1>10, <1>12, <1>20, <2>1
<1>21. CASE s.op \in {"tool", "tool_send"}
  <2>1. j = AfterTool(i)  BY <1>21 DEF j, AfterCall
  <2> QED  BY <1>13, <1>21, <2>1
<1>22. CASE s.op = "model"
  <2>1. CASE s.answer = "final"
    <3>1. j = [Past(i) EXCEPT !.messages = <<>>]  BY <1>22, <2>1 DEF j, AfterCall
    <3> QED  BY <1>14, <1>22, <3>1
  <2>2. CASE s.answer = "tools" /\ s.turn # <<>>
    <3>1. j = [i EXCEPT !.at = "tools", !.turn = s.turn, !.messages = Append(@, AsksFor(Len(s.turn)))]
          BY <1>22, <2>2 DEF j, AfterCall
    <3> QED  BY <1>15, <1>22, <2>2, <3>1
  <2>3. CASE s.answer # "final" /\ ~(s.answer = "tools" /\ s.turn # <<>>)
    <3>1. j = Ends(i, "failed")  BY <1>22, <2>3 DEF j, AfterCall
    <3> QED  BY <1>10, <3>1
  <2> QED  BY <2>1, <2>2, <2>3
<1> QED  BY <1>3, <1>16, <1>17, <1>18, <1>19, <1>20, <1>21, <1>22 DEF Ops, Posted, ToolOps

-----------------------------------------------------------------------------

\* Nobody has begun, and nobody has been asked.
LEMMA StepsStart == StepsInit => StepsInv
<1> SUFFICES ASSUME StepsInit PROVE StepsInv
    OBVIOUS
<1>1. NotBegun \in Talk /\ Idling \in Handler
      BY EmptySeq DEF NotBegun, Idling, Talk, Handler, Spots, Ops, Posted
<1>2. yes = {} /\ effects = {} /\ \A a \in Attempt : inter[a] = NotBegun /\ serve[a] = Idling /\ over[a] = "no"
      BY DEF StepsInit
<1>3. StepShape
      BY <1>1, StepsAssumption, FS_EmptySet DEF StepsInit, StepShape
<1>4. NothingUnasked
      BY <1>2 DEF NothingUnasked
<1>5. ASSUME NEW a \in Attempt PROVE OfAttempt(a)
  <2>1. /\ NotBegun.at = "not_begun" /\ NotBegun.step = 1 /\ NotBegun.n = 0 /\ NotBegun.turn = <<>>
        /\ NotBegun.messages = <<>> /\ Idling.at = "idle"
        BY DEF NotBegun, Idling
  <2>2. Fitting(NotBegun, Idling)
        BY <2>1, NothingAsked, EmptySeq DEF Fitting, Midway
  <2>3. GatesBefore(1) = {} /\ Cardinality({}) = 0
        BY FS_EmptySet DEF GatesBefore
  <2>4. Cardinality(YesBelow(yes, a, 1)) \in Nat
        BY <1>3, YesCounted DEF StepShape
  <2>5. AskedFor(a, NotBegun, Idling)
    <3>1. NotBegun.n + 1 = 1 /\ GatesBefore(NotBegun.step) = {}
          BY <2>1, <2>3
    <3>2. Cardinality(YesBelow(yes, a, NotBegun.n + 1)) >= Cardinality(GatesBefore(NotBegun.step))
          BY <2>3, <2>4, <3>1
    <3> QED  BY <1>2, <2>1, <3>2 DEF AskedFor
  <2>6. LateOnce(a, NotBegun, Idling)
        BY <1>2, <2>1 DEF LateOnce, Late
  <2> QED  BY <1>2, <2>2, <2>5, <2>6 DEF OfAttempt
<1> QED  BY <1>3, <1>4, <1>5 DEF StepsInv

\* An attempt begins, with a token of its own.
LEMMA BeginKeeps ==
  ASSUME StepsInv, NEW a \in Attempt, Begin(a)
  PROVE  StepsInv'
<1>1. /\ StepShape /\ inter[a] \in Talk /\ inter[a].at = "not_begun"
      /\ Fitting(inter[a], serve[a]) /\ AskedFor(a, inter[a], serve[a]) /\ LateOnce(a, inter[a], serve[a])
      /\ tokens' = tokens \cup {a} /\ UNCHANGED <<program, mode, serve, over, yes, effects>>
      BY DEF StepsInv, StepShape, OfAttempt, Begin
<1>2. PICK i : i = [inter[a] EXCEPT !.at = "step"]
      OBVIOUS
<1>3. /\ i \in Talk /\ i.at = "step" /\ i.step = inter[a].step /\ i.n = inter[a].n
      /\ i.turn = inter[a].turn /\ i.messages = inter[a].messages
      BY <1>1, <1>2 DEF Talk, Spots
<1>4. inter' = [inter EXCEPT ![a] = i]
      BY <1>2 DEF Begin
<1>5. inter' \in [Attempt -> Talk] /\ inter'[a] = i /\ \A b \in Attempt \ {a} : inter'[b] = inter[b]
      BY <1>1, <1>3, <1>4 DEF StepShape
<1>6. StepShape'
      BY <1>1, <1>5 DEF StepShape
<1>7. NothingUnasked'
      BY <1>1 DEF StepsInv, NothingUnasked
<1>8. serve[a].at = "idle" /\ over[a] = "no"
      BY <1>1 DEF Fitting, LateOnce
<1>9. OfAttempt(a)'
  <2>1. Fitting(inter[a], serve[a])'
        BY <1>1, <1>3, <1>5, <1>8 DEF Fitting, KindAt, Midway
  <2>2. GatesBefore(inter[a].step)' = GatesBefore(inter[a].step)
        BY <1>1, <1>3, <1>5 DEF GatesBefore
  <2>3. AskedFor(a, inter[a], serve[a])'
        BY <1>1, <1>3, <1>5, <1>8, <2>2 DEF AskedFor
  <2>4. LateOnce(a, inter[a], serve[a])'
        BY <1>1, <1>3, <1>5, <1>8 DEF LateOnce
  <2> QED  BY <2>1, <2>3, <2>4 DEF OfAttempt
<1>10. \A b \in Attempt \ {a} : b \in tokens' => b \in tokens
      BY <1>1
<1> QED  BY <1>1, <1>5, <1>6, <1>7, <1>9, <1>10, OneActs

\* An attempt has an outcome: its token is gone, whatever still runs.
LEMMA SettledKeeps ==
  ASSUME StepsInv, NEW a \in Attempt, NEW how \in {"done", "stopped", "failed"}, Settled(a, how),
         over[a] = "no", inter[a].at # "not_begun",
         NEW i \in Talk, inter' \in [Attempt -> Talk], inter'[a] = i,
         \A b \in Attempt \ {a} : inter'[b] = inter[b],
         i.at # "not_begun", Fitting(i, serve[a]), AskedFor(a, i, serve[a]),
         UNCHANGED <<program, mode, serve, yes, effects>>
  PROVE  StepsInv'
<1>1. /\ StepShape /\ LateOnce(a, inter[a], serve[a])
      /\ over' = [over EXCEPT ![a] = how] /\ tokens' = tokens \ {a}
      BY DEF StepsInv, OfAttempt, Settled
<1>2. over' \in [Attempt -> {"no", "done", "stopped", "failed"}] /\ over'[a] = how
      /\ \A b \in Attempt \ {a} : over'[b] = over[b]
      BY <1>1 DEF StepShape
<1>3. StepShape'
      BY <1>1, <1>2 DEF StepShape
<1>4. NothingUnasked'
      BY DEF StepsInv, NothingUnasked
<1>5. OfAttempt(a)'
  <2>1. Fitting(inter[a], serve[a])'
        BY DEF Fitting, KindAt, Midway
  <2>2. GatesBefore(inter[a].step)' = GatesBefore(i.step)
        BY DEF GatesBefore
  <2>3. AskedFor(a, inter[a], serve[a])'
        BY <2>2 DEF AskedFor
  <2>4. mode = "container" => Late(effects, a) = {}
        BY <1>1 DEF LateOnce
  <2>5. LateOnce(a, inter[a], serve[a])'
        BY <1>1, <1>2, <2>4 DEF LateOnce
  <2> QED  BY <2>1, <2>3, <2>5 DEF OfAttempt
<1>6. \A b \in Attempt \ {a} : b \in tokens' => b \in tokens
      BY <1>1
<1> QED  BY <1>2, <1>3, <1>4, <1>5, <1>6, OneActs

\* The runner hears how an attempt ended.
LEMMA EndedKeeps ==
  ASSUME StepsInv, NEW a \in Attempt, Ended(a)
  PROVE  StepsInv'
<1>1. /\ inter[a].at \in {"done", "stopped", "failed"} /\ over[a] = "no" /\ Settled(a, inter[a].at)
      /\ UNCHANGED <<program, mode, inter, serve, yes, effects>>
      BY DEF Ended
<1>2. /\ inter \in [Attempt -> Talk] /\ inter[a] \in Talk
      /\ Fitting(inter[a], serve[a]) /\ AskedFor(a, inter[a], serve[a])
      BY DEF StepsInv, StepShape, OfAttempt
<1> QED  BY <1>1, <1>2, SettledKeeps

\* The runner gives an attempt up: it is gone, or goes on without a token.
LEMMA GiveUpKeeps ==
  ASSUME StepsInv, NEW a \in Attempt, GiveUp(a)
  PROVE  StepsInv'
<1>1. /\ over[a] = "no" /\ inter[a].at \notin {"not_begun", "done", "stopped", "failed"}
      /\ UNCHANGED <<program, mode, serve, yes, effects>>
      BY DEF GiveUp
<1>2. PICK how \in {"failed", "stopped"} : Settled(a, how)
      BY DEF GiveUp
<1>3. /\ inter \in [Attempt -> Talk] /\ inter[a] \in Talk
      /\ Fitting(inter[a], serve[a]) /\ AskedFor(a, inter[a], serve[a])
      BY DEF StepsInv, StepShape, OfAttempt
<1>4. CASE inter' = [inter EXCEPT ![a] = Ends(@, "gone")]
  <2>1. PICK i : i = Ends(inter[a], "gone")
        OBVIOUS
  <2>2. "gone" \in Spots  BY DEF Spots
  <2>3. i \in Talk /\ i.at = "gone" /\ i.step = inter[a].step /\ i.n = inter[a].n /\ i.turn = <<>> /\ i.messages = <<>>
        BY <1>3, <2>1, <2>2, EndsShape
  <2>4. inter' \in [Attempt -> Talk] /\ inter'[a] = i /\ \A b \in Attempt \ {a} : inter'[b] = inter[b]
        BY <1>3, <1>4, <2>1, <2>3
  <2>5. Conversation(i.messages, Len(i.turn)) /\ KindAt(i) = KindAt(inter[a])
        BY <2>3, NothingAsked, EmptySeq DEF KindAt
  <2>6. Fitting(i, serve[a])
        BY <1>3, <2>3, <2>5 DEF Fitting, Midway
  <2>7. AskedFor(a, i, serve[a])
        BY <1>3, <2>3 DEF AskedFor
  <2> QED  BY <1>1, <1>2, <2>3, <2>4, <2>6, <2>7, SettledKeeps
<1>5. CASE UNCHANGED inter
      BY <1>1, <1>2, <1>3, <1>5, SettledKeeps
<1> QED  BY <1>4, <1>5 DEF GiveUp

\* No step of the interpreter, of the daemon or of the runner takes it away.
LEMMA StepsKeep == StepsInv /\ [StepsNext]_stepVars => StepsInv'
<1> SUFFICES ASSUME StepsInv, [StepsNext]_stepVars PROVE StepsInv'
    OBVIOUS
<1>1. CASE UNCHANGED stepVars
  <2> USE <1>1 DEF stepVars
  <2>1. StepShape' /\ NothingUnasked'
        BY DEF StepsInv, StepShape, NothingUnasked
  <2>2. ASSUME NEW a \in Attempt PROVE OfAttempt(a)'
    <3>1. Fitting(inter[a], serve[a])'
          BY DEF StepsInv, OfAttempt, Fitting, KindAt, Midway
    <3>2. GatesBefore(inter[a].step)' = GatesBefore(inter[a].step)
          BY DEF GatesBefore
    <3>3. AskedFor(a, inter[a], serve[a])'
          BY <3>2 DEF StepsInv, OfAttempt, AskedFor
    <3>4. LateOnce(a, inter[a], serve[a])'
          BY DEF StepsInv, OfAttempt, LateOnce
    <3> QED  BY <3>1, <3>3, <3>4 DEF OfAttempt
  <2> QED  BY <2>1, <2>2 DEF StepsInv
<1>2. ASSUME NEW a \in Attempt,
             \/ Begin(a) \/ Step(a) \/ LoopStep(a) \/ Admit(a) \/ Act(a) \/ Decide(a)
             \/ Receive(a) \/ Ended(a) \/ GiveUp(a)
      PROVE  StepsInv'
      BY <1>2, BeginKeeps, StepKeeps, LoopStepKeeps, AdmitKeeps, ActKeeps, DecideKeeps,
         ReceiveKeeps, EndedKeeps, GiveUpKeeps
<1> QED  BY <1>1, <1>2 DEF StepsNext

\* At most one thing is done late, and the model hears of every call it made.
LEMMA StepsTell == StepsInv => ActsAsAsked
<1> SUFFICES ASSUME StepsInv PROVE ActsAsAsked
    OBVIOUS
<1>1. OverActsNoMore
  <2> SUFFICES ASSUME mode = "container", NEW a \in Attempt
               PROVE  Cardinality({e \in effects : e.attempt = a /\ e.late}) <= 1
      BY DEF OverActsNoMore
  <2>1. \A e, f \in Late(effects, a) : e = f
        BY DEF StepsInv, OfAttempt, LateOnce
  <2>2. CASE Late(effects, a) = {}
        BY <2>2, FS_EmptySet DEF Late
  <2>3. CASE Late(effects, a) # {}
    <3>1. PICK e : Late(effects, a) = {e}
          BY <2>1, <2>3
    <3>2. Cardinality(Late(effects, a)) = 1
          BY <3>1, FS_Singleton
    <3>3. Cardinality(Late(effects, a)) <= 1
          BY <3>2
    <3> QED  BY <3>3 DEF Late
  <2> QED  BY <2>2, <2>3
<1>2. EveryCallAnswered
  <2> SUFFICES ASSUME NEW a \in Attempt, inter[a].at = "model",
                      NEW k \in DOMAIN inter[a].messages, inter[a].messages[k].is = "asks"
               PROVE  Cardinality(ResultsAfter(inter[a].messages, k)) = inter[a].messages[k].calls
      BY DEF EveryCallAnswered
  <2>1. inter[a].messages \in Seq(Message)
        BY DEF StepsInv, StepShape, Talk
  <2>2. inter[a].turn = <<>> /\ Conversation(inter[a].messages, Len(inter[a].turn))
        BY DEF StepsInv, OfAttempt, Fitting, Midway
  <2>3. Conversation(inter[a].messages, 0)
        BY <2>2, EmptySeq
  <2> QED  BY <2>1, <2>3, AllAnswered
<1> QED  BY <1>1, <1>2 DEF StepsInv, ActsAsAsked

\* A bot acts as it was asked to, for any bot's steps, any answers of a model,
\* attempts and failed kills: nothing goes out past a gate, and no tool of an
\* agent writes, without a yes of this attempt; an attempt that is over does
\* at most what was being done; and a model that is called has heard of every
\* call it asked for (interpret.go, agentloop.go, callback.go).
THEOREM StepsAsAsked == StepsSpec => []ActsAsAsked
  BY StepsStart, StepsKeep, StepsTell, PTL DEF StepsSpec

\* A bot is at one of its steps or behind the last, and a model is called no
\* more often than it may: an agent's tools work in a turn that was left.
InBounds(i, s) ==
    /\ i.step \in 1..(Len(program) + 1) /\ i.iter \in 0..(MaxIterations + 1)
    /\ i.at \in {"tools", "write"} \/ (i.at = "calls" /\ s.op \in ToolOps \cup {"model"})
          => i.iter <= MaxIterations
StepsBounds ==
    /\ program \in Programs /\ strays \in 0..Strays
    /\ \A a \in Attempt : InBounds(inter[a], serve[a])

\* Only one attempt moves.
LEMMA OneInBounds ==
  ASSUME StepsInv, StepsBounds, NEW a \in Attempt, NEW i, NEW s,
         inter' = [inter EXCEPT ![a] = i], serve' = [serve EXCEPT ![a] = s],
         InBounds(i, s), program' = program, strays' \in 0..Strays
  PROVE  StepsBounds'
<1>1. inter \in [Attempt -> Talk] /\ serve \in [Attempt -> Handler]  BY DEF StepsInv, StepShape
<1>2. /\ inter'[a] = i /\ serve'[a] = s
      /\ \A b \in Attempt \ {a} : inter'[b] = inter[b] /\ serve'[b] = serve[b]
      BY <1>1
<1>3. ASSUME NEW b \in Attempt PROVE InBounds(inter[b], serve[b])'
  <2>1. CASE b = a  BY <1>2, <2>1 DEF InBounds
  <2>2. CASE b # a  BY <1>2, <2>2 DEF InBounds, StepsBounds
  <2> QED  BY <2>1, <2>2
<1> QED  BY <1>3 DEF StepsBounds

\* The numbers of a talk, and of a program.
LEMMA TalkNumbers ==
  ASSUME StepsInv, StepsBounds, NEW a \in Attempt
  PROVE  /\ inter[a] \in Talk /\ serve[a] \in Handler /\ Fitting(inter[a], serve[a])
         /\ inter[a].step \in 1..(Len(program) + 1) /\ inter[a].iter \in 0..(MaxIterations + 1)
         /\ Len(program) \in Nat /\ MaxIterations \in Nat /\ MaxIterations >= 1
         /\ DOMAIN program = 1..Len(program) /\ InBounds(inter[a], serve[a])
<1>1. program \in Seq(StepKinds)  BY DEF StepsInv, StepShape
<1>2. Len(program) \in Nat /\ DOMAIN program = 1..Len(program)  BY <1>1, LenProperties
<1>3. MaxIterations \in Nat /\ MaxIterations >= 1  BY StepsAssumption
<1>4. inter[a] \in Talk /\ serve[a] \in Handler /\ Fitting(inter[a], serve[a])
      BY DEF StepsInv, StepShape, OfAttempt
<1>5. InBounds(inter[a], serve[a])  BY DEF StepsBounds
<1> QED  BY <1>2, <1>3, <1>4, <1>5 DEF InBounds

\* The next step of a bot that was at one is at a step or behind the last.
LEMMA PastInBounds ==
  ASSUME StepsInv, StepsBounds, NEW a \in Attempt, KindAt(inter[a]) # "end", NEW s
  PROVE  InBounds(Past(inter[a]), s)
<1>1. inter[a].step \in DOMAIN program  BY DEF KindAt
<1>2. /\ Past(inter[a]).at = "step" /\ Past(inter[a]).step = inter[a].step + 1
      /\ Past(inter[a]).iter = inter[a].iter
      BY TalkNumbers DEF Past, Talk
<1>3. inter[a].step + 1 \in 1..(Len(program) + 1)
      BY <1>1, TalkNumbers
<1> QED  BY <1>2, <1>3, TalkNumbers DEF InBounds

\* An attempt that ends stays where it was.
LEMMA EndsInBounds ==
  ASSUME StepsInv, StepsBounds, NEW a \in Attempt, NEW how \in {"done", "stopped", "failed", "gone"}, NEW s
  PROVE  InBounds(Ends(inter[a], how), s)
<1>1. /\ Ends(inter[a], how).at = how /\ Ends(inter[a], how).step = inter[a].step
      /\ Ends(inter[a], how).iter = inter[a].iter
      BY TalkNumbers DEF Ends, Talk
<1> QED  BY <1>1, TalkNumbers DEF InBounds

\* A result of a tool ends the turn, if it was the last, or is in it.
LEMMA AfterToolInBounds ==
  ASSUME StepsInv, StepsBounds, NEW a \in Attempt, Midway(inter[a], serve[a]), NEW s
  PROVE  InBounds(AfterTool(inter[a]), s)
<1>1. inter[a].iter <= MaxIterations /\ inter[a].iter \in Nat
      BY TalkNumbers DEF InBounds, Midway
<1>2. PICK rest : rest = Tail(inter[a].turn)  OBVIOUS
<1>3. PICK k \in Nat : k = inter[a].iter + 1  BY <1>1
<1>4. /\ AfterTool(inter[a]).at = IF rest = <<>> THEN "model" ELSE "tools"
      /\ AfterTool(inter[a]).step = inter[a].step
      /\ AfterTool(inter[a]).iter = IF rest = <<>> THEN k ELSE inter[a].iter
      BY <1>2, <1>3, TalkNumbers DEF AfterTool, Talk
<1>5. k \in 0..(MaxIterations + 1)  BY <1>1, <1>3, TalkNumbers
<1>6. rest = <<>> => AfterTool(inter[a]).iter = k /\ AfterTool(inter[a]).at = "model"
      BY <1>4
<1>7. rest # <<>> => AfterTool(inter[a]).iter = inter[a].iter /\ AfterTool(inter[a]).at = "tools"
      BY <1>4
<1>8. CASE rest = <<>>
      BY <1>4, <1>5, <1>6, <1>8, TalkNumbers DEF InBounds
<1>9. CASE rest # <<>>
      BY <1>1, <1>4, <1>7, <1>9, TalkNumbers DEF InBounds
<1> QED  BY <1>8, <1>9

\* A call is posted in a turn that was left.
LEMMA CallInBounds ==
  ASSUME StepsInv, StepsBounds, NEW a \in Attempt, NEW op, Calls(a, op),
         op \in ToolOps \cup {"model"} => inter[a].iter <= MaxIterations,
         program' = program, strays' = strays
  PROVE  StepsBounds'
<1>1. PICK k \in Nat : k = inter[a].n + 1  BY TalkNumbers DEF Talk
<1>2. PICK i : i = [inter[a] EXCEPT !.at = "calls", !.n = k]  OBVIOUS
<1>3. PICK s : s = [Idling EXCEPT !.op = op, !.at = IF mode = "container" THEN "sent" ELSE "admitted"]
      OBVIOUS
<1>4. i.at = "calls" /\ i.step = inter[a].step /\ i.iter = inter[a].iter
      BY <1>2, TalkNumbers DEF Talk
<1>5. s.op = op
      BY <1>3 DEF Idling
<1>6. InBounds(i, s)
      BY <1>4, <1>5, TalkNumbers DEF InBounds
<1>7. inter' = [inter EXCEPT ![a] = i] /\ serve' = [serve EXCEPT ![a] = s]
      BY <1>1, <1>2, <1>3 DEF Calls
<1>8. strays' \in 0..Strays  BY DEF StepsBounds
<1> QED  BY <1>6, <1>7, <1>8, OneInBounds

\* An interpreter goes on by itself.
LEMMA GoInBounds ==
  ASSUME StepsInv, StepsBounds, NEW a \in Attempt, NEW i, Goes(a, i), InBounds(i, serve[a]),
         program' = program, strays' = strays
  PROVE  StepsBounds'
<1>1. serve' = [serve EXCEPT ![a] = serve[a]]
      BY DEF Goes, StepsInv, StepShape
<1>2. inter' = [inter EXCEPT ![a] = i]  BY DEF Goes
<1>3. strays' \in 0..Strays  BY DEF StepsBounds
<1> QED  BY <1>1, <1>2, <1>3, OneInBounds

\* Where only the daemon moves, bounds stay: it does not change what was asked.
LEMMA ServeInBounds ==
  ASSUME StepsInv, StepsBounds, UNCHANGED <<program, inter, strays>>,
         \A a \in Attempt : serve'[a].op = serve[a].op
  PROVE  StepsBounds'
BY DEF StepsBounds, InBounds

\* An answer does not change what was asked.
LEMMA AnswersOp ==
  ASSUME StepsInv, NEW a \in Attempt, NEW at, NEW answer, NEW turn,
         serve' = [serve EXCEPT ![a].at = at, ![a].answer = answer, ![a].turn = turn]
  PROVE  \A b \in Attempt : serve'[b].op = serve[b].op
<1>1. serve \in [Attempt -> Handler]  BY DEF StepsInv, StepShape
<1> QED  BY <1>1 DEF Handler

\* No model is asked yet, and every bot is at its first step.
LEMMA StepsBoundsInit == StepsInit => StepsBounds
<1> SUFFICES ASSUME StepsInit PROVE StepsBounds
    OBVIOUS
<1>1. program \in Programs /\ Programs \subseteq Seq(StepKinds) /\ MaxIterations \in Nat /\ Strays \in Nat
      BY StepsAssumption DEF StepsInit
<1>2. Len(program) \in Nat  BY <1>1, LenProperties
<1>3. ASSUME NEW a \in Attempt PROVE InBounds(inter[a], serve[a])
  <2>1. inter[a].at = "not_begun" /\ inter[a].step = 1 /\ inter[a].iter = 0
        BY DEF StepsInit, NotBegun
  <2> QED  BY <1>1, <1>2, <2>1 DEF InBounds
<1>4. strays \in 0..Strays  BY <1>1 DEF StepsInit
<1> QED  BY <1>1, <1>3, <1>4 DEF StepsBounds

\* Each step keeps the bounds.
LEMMA StepsBoundsStep == StepsInv /\ StepsBounds /\ [StepsNext]_stepVars => StepsBounds'
<1> SUFFICES ASSUME StepsInv, StepsBounds, [StepsNext]_stepVars PROVE StepsBounds'
    OBVIOUS
<1>a. inter \in [Attempt -> Talk] /\ serve \in [Attempt -> Handler]  BY DEF StepsInv, StepShape
<1>1. ASSUME NEW a \in Attempt, Begin(a) PROVE StepsBounds'
  <2>1. PICK i : i = [inter[a] EXCEPT !.at = "step"]  OBVIOUS
  <2>2. i.at = "step" /\ i.step = inter[a].step /\ i.iter = inter[a].iter
        BY <2>1, TalkNumbers DEF Talk
  <2>3. InBounds(i, serve[a])  BY <2>2, TalkNumbers DEF InBounds
  <2>4. UNCHANGED <<program, serve, strays>>
        BY <1>1 DEF Begin
  <2>5. Goes(a, i)
        BY <1>1, <2>1 DEF Begin, Goes
  <2> QED  BY <2>3, <2>4, <2>5, GoInBounds
<1>2. ASSUME NEW a \in Attempt, Step(a) PROVE StepsBounds'
  <2>1. program' = program /\ strays' = strays  BY <1>2 DEF Step
  <2>2. CASE Kind(a) \in {"read", "soft", "send", "bound", "gate", "ask"} /\ Calls(a, Kind(a))
    <3>1. PICK op : op = Kind(a)  OBVIOUS
    <3>2. op \notin ToolOps \cup {"model"} /\ Calls(a, op)
          BY <2>2, <3>1 DEF ToolOps
    <3> QED  BY <2>1, <3>2, CallInBounds
  <2>3. CASE Kind(a) \in {"local", "stop"} /\ \E i \in {Past(inter[a]), Ends(inter[a], "failed"), Ends(inter[a], "stopped")} : Goes(a, i)
    <3>1. KindAt(inter[a]) # "end"  BY <2>3 DEF Kind, KindAt
    <3>2. InBounds(Past(inter[a]), serve[a])  BY <3>1, PastInBounds
    <3>3. InBounds(Ends(inter[a], "failed"), serve[a]) /\ InBounds(Ends(inter[a], "stopped"), serve[a])
          BY EndsInBounds
    <3>4. PICK i \in {Past(inter[a]), Ends(inter[a], "failed"), Ends(inter[a], "stopped")} : Goes(a, i)
          BY <2>3
    <3>5. InBounds(i, serve[a])  BY <3>2, <3>3, <3>4
    <3> QED  BY <2>1, <3>4, <3>5, GoInBounds
  <2>4. CASE Kind(a) = "loop" /\ Goes(a, [inter[a] EXCEPT !.at = "model", !.iter = 1, !.messages = <<Goal>>])
    <3>1. PICK i : i = [inter[a] EXCEPT !.at = "model", !.iter = 1, !.messages = <<Goal>>]  OBVIOUS
    <3>2. i.at = "model" /\ i.step = inter[a].step /\ i.iter = 1
          BY <3>1, TalkNumbers DEF Talk
    <3>3. InBounds(i, serve[a])  BY <3>2, TalkNumbers DEF InBounds
    <3> QED  BY <2>1, <2>4, <3>1, <3>3, GoInBounds
  <2>5. CASE \E how \in {"done", "failed"} : Goes(a, Ends(inter[a], how))
    <3>1. PICK how \in {"done", "failed"} : Goes(a, Ends(inter[a], how))  BY <2>5
    <3>2. InBounds(Ends(inter[a], how), serve[a])  BY <3>1, EndsInBounds
    <3> QED  BY <2>1, <3>1, <3>2, GoInBounds
  <2> QED  BY <1>2, <2>2, <2>3, <2>4, <2>5 DEF Step
<1>3. ASSUME NEW a \in Attempt, LoopStep(a) PROVE StepsBounds'
  <2>1. program' = program /\ strays' = strays  BY <1>3 DEF LoopStep
  <2>2. CASE inter[a].at = "model" /\ TurnsLeft(inter[a]) /\ Calls(a, "model")
        BY <2>1, <2>2, CallInBounds DEF TurnsLeft
  <2>3. CASE Goes(a, Ends(inter[a], "failed"))
    <3>1. InBounds(Ends(inter[a], "failed"), serve[a])  BY EndsInBounds
    <3> QED  BY <2>1, <2>3, <3>1, GoInBounds
  <2>4. CASE inter[a].at = "tools" /\ Calls(a, OpOf(Head(inter[a].turn)))
    <3>1. inter[a].iter <= MaxIterations  BY <2>4, TalkNumbers DEF InBounds
    <3> QED  BY <2>1, <2>4, <3>1, CallInBounds
  <2>5. CASE inter[a].at = "tools" /\ Goes(a, AfterTool(inter[a]))
    <3>1. InBounds(AfterTool(inter[a]), serve[a])  BY <2>5, AfterToolInBounds DEF Midway
    <3> QED  BY <2>1, <2>5, <3>1, GoInBounds
  <2>6. CASE inter[a].at = "write" /\ Calls(a, "tool_send")
    <3>1. inter[a].iter <= MaxIterations  BY <2>6, TalkNumbers DEF InBounds
    <3> QED  BY <2>1, <2>6, <3>1, CallInBounds
  <2> QED  BY <1>3, <2>2, <2>3, <2>4, <2>5, <2>6 DEF LoopStep
<1>b. ASSUME NEW a \in Attempt, NEW what, Answers(a, what) PROVE \A b \in Attempt : serve'[b].op = serve[b].op
      BY <1>a, <1>b DEF Answers, Handler
<1>4. ASSUME NEW a \in Attempt, Admit(a) PROVE StepsBounds'
  <2>1. serve' = [serve EXCEPT ![a].at = "admitted"] => \A b \in Attempt : serve'[b].op = serve[b].op
        BY <1>a DEF Handler
  <2>2. \A b \in Attempt : serve'[b].op = serve[b].op
        BY <1>4, <1>b, <2>1 DEF Admit
  <2> QED  BY <1>4, <2>2, ServeInBounds DEF Admit
<1>5. ASSUME NEW a \in Attempt, Act(a) PROVE StepsBounds'
  <2>1. serve' = [serve EXCEPT ![a].at = "asking"] => \A b \in Attempt : serve'[b].op = serve[b].op
        BY <1>a DEF Handler
  <2>2. AnswerRead(a) \/ Send(a) => \A b \in Attempt : serve'[b].op = serve[b].op
        BY <1>b DEF AnswerRead, Send
  <2>3. ASSUME NEW t, serve' = [serve EXCEPT ![a].at = "answered", ![a].answer = "tools", ![a].turn = t]
        PROVE  \A b \in Attempt : serve'[b].op = serve[b].op
        BY <2>3, AnswersOp
  <2>4. Generate(a) => \A b \in Attempt : serve'[b].op = serve[b].op
        BY <1>b, <2>3 DEF Generate
  <2>5. OpenGate(a) => \A b \in Attempt : serve'[b].op = serve[b].op
        BY <2>1 DEF OpenGate
  <2>6. \A b \in Attempt : serve'[b].op = serve[b].op
        BY <1>5, <2>2, <2>4, <2>5 DEF Act
  <2> QED  BY <1>5, <2>6, ServeInBounds DEF Act
<1>6. ASSUME NEW a \in Attempt, Decide(a) PROVE StepsBounds'
  <2>1. \A b \in Attempt : serve'[b].op = serve[b].op
        BY <1>6, <1>b DEF Decide
  <2> QED  BY <1>6, <2>1, ServeInBounds DEF Decide
<1>7. ASSUME NEW a \in Attempt, Receive(a) PROVE StepsBounds'
  <2> DEFINE i == inter[a]
             s == serve[a]
             j == AfterCall(i, s.op, s.answer, s.turn)
  <2>1. /\ i.at = "calls" /\ s.at = "answered" /\ inter' = [inter EXCEPT ![a] = j]
        /\ serve' = [serve EXCEPT ![a] = Idling] /\ UNCHANGED <<program, strays>>
        BY <1>7 DEF Receive
  <2>2. /\ i \in Talk /\ s \in Handler /\ i.step \in 1..(Len(program) + 1)
        /\ i.iter \in 0..(MaxIterations + 1) /\ MaxIterations \in Nat
        /\ InBounds(i, s) /\ Fitting(i, s)
        BY TalkNumbers
  <2>3. KindAt(i) # "end"
        BY <2>1, <2>2 DEF Fitting, Posted
  <2>4. InBounds(Past(i), Idling)  BY <2>3, PastInBounds
  <2>5. InBounds(Ends(i, "failed"), Idling)  BY EndsInBounds
  <2>6. CASE j = AfterTool(i) /\ s.op \in {"tool", "tool_send"}
    <3>1. Midway(i, s)  BY <2>1, <2>6 DEF Midway, ToolOps
    <3>2. InBounds(AfterTool(i), Idling)  BY <3>1, AfterToolInBounds
    <3> QED  BY <2>1, <2>2, <2>6, <3>2, OneInBounds DEF StepsBounds
  <2>7. CASE j = [i EXCEPT !.at = "write"] /\ s.op = "tool_gate"
    <3>1. i.iter <= MaxIterations  BY <2>1, <2>2, <2>7 DEF InBounds, ToolOps
    <3>2. j.at = "write" /\ j.step = i.step /\ j.iter = i.iter  BY <2>2, <2>7 DEF Talk
    <3>3. InBounds(j, Idling)  BY <2>2, <3>1, <3>2 DEF InBounds
    <3> QED  BY <2>1, <3>3, OneInBounds DEF StepsBounds
  <2>8. CASE j = [Past(i) EXCEPT !.messages = <<>>]
    <3>1. Past(i) \in Talk  BY <2>2, PastShape
    <3>2. j.at = Past(i).at /\ j.step = Past(i).step /\ j.iter = Past(i).iter  BY <2>8, <3>1 DEF Talk
    <3>3. InBounds(j, Idling)  BY <2>4, <3>2 DEF InBounds
    <3> QED  BY <2>1, <3>3, OneInBounds DEF StepsBounds
  <2>9. CASE j = [i EXCEPT !.at = "tools", !.turn = s.turn, !.messages = Append(@, AsksFor(Len(s.turn)))] /\ s.op = "model"
    <3>1. i.iter <= MaxIterations  BY <2>1, <2>2, <2>9 DEF InBounds
    <3>2. j.at = "tools" /\ j.step = i.step /\ j.iter = i.iter  BY <2>2, <2>9 DEF Talk
    <3>3. InBounds(j, Idling)  BY <2>2, <3>1, <3>2 DEF InBounds
    <3> QED  BY <2>1, <3>3, OneInBounds DEF StepsBounds
  <2>10. CASE j = Past(i) \/ j = Ends(i, "failed")
    <3>1. InBounds(j, Idling)  BY <2>4, <2>5, <2>10
    <3> QED  BY <2>1, <3>1, OneInBounds DEF StepsBounds
  <2>11. \/ j = Past(i) \/ j = Ends(i, "failed")
         \/ j = AfterTool(i) /\ s.op \in {"tool", "tool_send"}
         \/ j = [i EXCEPT !.at = "write"] /\ s.op = "tool_gate"
         \/ j = [Past(i) EXCEPT !.messages = <<>>]
         \/ j = [i EXCEPT !.at = "tools", !.turn = s.turn, !.messages = Append(@, AsksFor(Len(s.turn)))] /\ s.op = "model"
         BY DEF AfterCall, AfterGate
  <2> QED  BY <2>6, <2>7, <2>8, <2>9, <2>10, <2>11
<1>8. ASSUME NEW a \in Attempt, Ended(a) PROVE StepsBounds'
  <2>1. UNCHANGED <<program, inter, serve, strays>>  BY <1>8 DEF Ended
  <2> QED  BY <2>1, ServeInBounds
<1>9. ASSUME NEW a \in Attempt, GiveUp(a) PROVE StepsBounds'
  <2>1. UNCHANGED <<program, serve>>  BY <1>9 DEF GiveUp
  <2>2. strays' \in 0..Strays
    <3>1. strays \in 0..Strays /\ Strays \in Nat  BY StepsAssumption DEF StepsBounds
    <3>2. strays' = strays \/ (strays < Strays /\ strays' = strays + 1)  BY <1>9 DEF GiveUp
    <3> QED  BY <3>1, <3>2
  <2>3. CASE inter' = inter
        BY <2>1, <2>2, <2>3 DEF StepsBounds, InBounds
  <2>4. CASE inter' = [inter EXCEPT ![a] = Ends(@, "gone")]
    <3>1. InBounds(Ends(inter[a], "gone"), serve[a])  BY EndsInBounds
    <3>2. inter' = [inter EXCEPT ![a] = Ends(inter[a], "gone")]  BY <2>4
    <3>3. serve' = [serve EXCEPT ![a] = serve[a]]  BY <1>a, <2>1
    <3> QED  BY <2>1, <2>2, <3>1, <3>2, <3>3, OneInBounds
  <2> QED  BY <1>9, <2>3, <2>4 DEF GiveUp
<1>10. CASE UNCHANGED stepVars
  <2>1. UNCHANGED <<program, inter, serve, strays>>  BY <1>10 DEF stepVars
  <2> QED  BY <2>1, ServeInBounds
<1> QED  BY <1>1, <1>2, <1>3, <1>4, <1>5, <1>6, <1>7, <1>8, <1>9, <1>10 DEF StepsNext

\* The types of Steps: a bot never gets past the end of its steps, and its
\* loop never calls the model more than max_iterations times, whatever the
\* model asks for and however calls and attempts end (agentloop.go).
THEOREM StepsTypes == StepsSpec => []StepsTypeOK
<1>1. StepsInv /\ StepsBounds => StepsTypeOK
  <2> SUFFICES ASSUME StepsInv, StepsBounds PROVE StepsTypeOK
      OBVIOUS
  <2>1. /\ mode \in {"container", "in_process"} /\ tokens \subseteq Attempt
        /\ over \in [Attempt -> {"no", "done", "stopped", "failed"}]
        BY DEF StepsInv, StepShape
  <2>2. ASSUME NEW a \in Attempt
        PROVE  /\ inter[a].at \in Spots
               /\ serve[a].at \in {"idle", "sent", "admitted", "asking", "answered"}
        BY TalkNumbers DEF Talk, Handler
  <2>3. ASSUME NEW a \in Attempt
        PROVE  inter[a].step \in 1..(Len(program) + 1) /\ inter[a].iter \in 0..(MaxIterations + 1)
        BY TalkNumbers
  <2> QED  BY <2>1, <2>2, <2>3 DEF StepsTypeOK, StepsBounds, Spots
<1> QED  BY <1>1, StepsStart, StepsKeep, StepsBoundsInit, StepsBoundsStep, PTL DEF StepsSpec

-----------------------------------------------------------------------------
(* Workspace.                                                              *)

Line   == Round \X (1..Lines)
Logged == [tail : Round, line : Line]
Place  == [consumed : Nat, following : BOOLEAN, closed : BOOLEAN]
Reader == Readers \cup {"nobody"}

\* The types the proof needs: the file and the log are sequences of lines.
WorkShape ==
    /\ lines \in Seq(Line) /\ runLog \in Seq(Logged)
    /\ out \in [Ports -> {NoneYet} \cup Round] /\ marker \in {NoneYet} \cup Round
    /\ box \in [Round -> Alive \cup {"off", "failed", "exited", "killed"}]
    /\ unsaved \in [Round -> SUBSET Ports]
    /\ tail \in [Round -> Place]
    /\ reading \in [Round -> [by : Reader, upto : Nat]]
    /\ round \in Round /\ result \in Results /\ killFaults \in 0..KillFaults
    /\ stage \in {"prepare", "run", "drain", "collect", "leave", "over"}
    /\ collected \in [Ports -> {NoneYet} \cup Round]

\* A tail has consumed no more than there is, and whoever holds its mutex has
\* read at least what it has consumed.  The daemon's own drain is only of the
\* round it is in.
ReadOn ==
    \A r \in Round :
        /\ tail[r].consumed <= Len(lines)
        /\ reading[r].by # "nobody" =>
               tail[r].consumed <= reading[r].upto /\ reading[r].upto <= Len(lines)
        /\ reading[r].by = "main" => r = round /\ stage = "drain"

\* What has been consumed is on the run's log.
OnTheLog ==
    \A r \in Round : \A i \in 1..tail[r].consumed :
        \E j \in DOMAIN runLog : runLog[j] = [tail |-> r, line |-> lines[i]]

\* While no kill has failed only the current round's container may be alive,
\* and only while docker run waits for it; a later round's has never been.
OneAlive ==
    /\ \A r \in Round : r > round \/ (r = round /\ stage = "prepare") => box[r] = "off"
    /\ killFaults = 0 =>
           \A r \in Round : box[r] \in Alive => r = round /\ stage = "run"
    /\ \A r \in Round : box[r] = "off" => LinesOf(r) = {} /\ unsaved[r] = Ports

\* A round whose last drain is done has nothing left to drain, and a last
\* drain that has read the file has read all that round wrote.
Drained ==
    killFaults = 0 =>
        \A r \in Round :
            /\ r < round \/ (r = round /\ stage \in {"collect", "leave", "over"}) =>
                   \A i \in LinesOf(r) : i <= tail[r].consumed
            /\ reading[r].by = "main" => \A i \in LinesOf(r) : i <= reading[r].upto

\* A file that is no longer to be written was written by this round; a
\* container that left with success wrote all of them, or the marker.
FilesHold ==
    /\ killFaults = 0 => \A p \in Ports : p \notin unsaved[round] => out[p] = round
    /\ \A r \in Round : box[r] = "exited" => unsaved[r] = {} \/ marker # NoneYet
    /\ stage = "collect" => result = "ok"
    /\ stage \in {"drain", "collect"} /\ result = "ok" => box[round] = "exited"

WorkInv ==
    /\ WorkShape /\ ReadOn /\ OnTheLog /\ TailInOrder
    /\ OneAlive /\ Drained /\ FilesHold /\ OwnOutputs

\* A tail that has logged something has logged a first and a last of it.
LEMMA SomeLast ==
  ASSUME NEW n \in Nat, NEW S \in SUBSET (1..n), S # {}
  PROVE  \E i \in S : \A j \in S : j <= i
<1> DEFINE Back == {n - i : i \in S}
<1>1. Back \subseteq Nat /\ Back # {}
  <2>1. \A i \in S : i \in 1..n /\ n - i \in Nat  OBVIOUS
  <2> QED  BY <2>1
<1>2. PICK m \in Back : \A k \in Back : ~ (<<k, m>> \in OpToRel(<, Nat))
      BY <1>1, NatLessThanWellFounded, WFMin
<1>3. \A k \in Back : ~(k < m)
      BY <1>1, <1>2 DEF OpToRel
<1>4. PICK i \in S : m = n - i
      BY <1>2
<1>5. ASSUME NEW j \in S PROVE j <= i
  <2>1. n - j \in Back  OBVIOUS
  <2>2. ~(n - j < n - i)  BY <1>3, <1>4, <2>1
  <2> QED  BY <2>2
<1> QED  BY <1>5

\* How many lines a container has written is a number of lines.
LEMMA WrittenIsCounted ==
  ASSUME lines \in Seq(Line), NEW r \in Round
  PROVE  Written(r) \in 0..Lines
<1>1. Len(lines) \in Nat /\ DOMAIN lines = 1..Len(lines)
      OBVIOUS
<1>2. CASE LinesOf(r) = {}
  <2> QED  BY <1>2, WorkspaceAssumption DEF Written
<1>3. CASE LinesOf(r) # {}
  <2>1. LinesOf(r) \in SUBSET (1..Len(lines))
        BY <1>1 DEF LinesOf
  <2>2. \E i \in LinesOf(r) : \A j \in LinesOf(r) : j <= i
        BY <1>1, <1>3, <2>1, SomeLast
  <2>3. PICK k \in LinesOf(r) : Written(r) = lines[k][2]
        BY <1>3, <2>2 DEF Written
  <2>4. lines[k] \in Line
        BY <1>1, <2>1, <2>3
  <2> QED  BY <2>3, <2>4, WorkspaceAssumption DEF Line
<1> QED  BY <1>2, <1>3

\* The entries of one tail among the first of a log.
OfTail(log, r, j) == {i \in 1..j : log[i].tail = r}

\* A block of lines appended to a log changes no earlier count; a tail whose
\* block it is counts on, line by line, and the other tails' counts stand.
LEMMA CountOn ==
  ASSUME NEW log \in Seq(Logged), NEW log2 \in Seq(Logged), NEW n \in Nat, NEW t \in Round,
         Len(log2) = Len(log) + n,
         \A i \in 1..Len(log) : log2[i] = log[i],
         \A i \in (Len(log) + 1)..(Len(log) + n) : log2[i].tail = t,
         NEW r \in Round
  PROVE  /\ \A j \in 0..Len(log) : OfTail(log2, r, j) = OfTail(log, r, j)
         /\ r = t => \A k \in 0..n :
              Cardinality(OfTail(log2, r, Len(log) + k)) = Cardinality(OfTail(log, r, Len(log))) + k
         /\ r # t => OfTail(log2, r, Len(log2)) = OfTail(log, r, Len(log))
<1> DEFINE m == Len(log)
           Old == {i \in 1..m : log[i].tail = r}
<1>0. m \in Nat
      OBVIOUS
<1> HIDE DEF m
<1>1. \A j \in 0..m : {i \in 1..j : log2[i].tail = r} = {i \in 1..j : log[i].tail = r}
      BY <1>0 DEF m
<1>2. ASSUME r = t, NEW k \in 0..n
      PROVE  Cardinality({i \in 1..(m + k) : log2[i].tail = r}) = Cardinality(Old) + k
  <2> DEFINE New == (m + 1)..(m + k)
  <2>0. k \in Nat /\ m + 1 \in Int /\ m + k \in Int
        BY <1>0
  <2>1. {i \in 1..(m + k) : log2[i].tail = r} = Old \cup New
        BY <1>0, <1>2 DEF m
  <2>2. Old \cap New = {}
        BY <1>0
  <2>3. IsFiniteSet(New) /\ Cardinality(New) = k
    <3>1. Cardinality(New) = IF m + 1 > m + k THEN 0 ELSE (m + k) - (m + 1) + 1
          BY <2>0, FS_Interval
    <3>2. IsFiniteSet(New)  BY <2>0, FS_Interval
    <3>3. (IF m + 1 > m + k THEN 0 ELSE (m + k) - (m + 1) + 1) = k
          BY <1>0, <2>0
    <3> QED  BY <3>1, <3>2, <3>3
  <2>4. IsFiniteSet(Old)
    <3>1. IsFiniteSet(1..m)  BY <1>0, FS_Interval
    <3>2. Old \in SUBSET (1..m)  OBVIOUS
    <3> QED  BY <3>1, <3>2, FS_Subset
  <2>5. Cardinality({}) = 0
        BY FS_EmptySet
  <2>6. Cardinality(Old) \in Nat
        BY <2>4, FS_CardinalityType
  <2> HIDE DEF Old, New
  <2>7. Cardinality(Old \cup New)
          = Cardinality(Old) + Cardinality(New) - Cardinality(Old \cap New)
        BY <2>3, <2>4, FS_Union
  <2>8. Cardinality(Old \cup New) = Cardinality(Old) + k
    <3>1. Cardinality(Old \cap New) = 0  BY <2>2, <2>5
    <3>2. Cardinality(New) = k  BY <2>3
    <3>3. Cardinality(Old \cup New) = Cardinality(Old) + k - 0
          BY <2>7, <3>1, <3>2
    <3> QED  BY <2>0, <2>6, <3>3
  <2> QED  BY <2>1, <2>8
<1>3. ASSUME r # t
      PROVE  {i \in 1..Len(log2) : log2[i].tail = r} = Old
      BY <1>0, <1>3 DEF m
<1> QED  BY <1>1, <1>2, <1>3 DEF m, OfTail

\* The lines a tail has logged by then are among all it has logged, and each
\* has its number.
LEMMA PlaceOfLine ==
  ASSUME runLog \in Seq(Logged), NEW r \in Round, NEW j \in LoggedBy(r, Len(runLog))
  PROVE  Cardinality(LoggedBy(r, j)) \in 1..Cardinality(LoggedBy(r, Len(runLog)))
<1>1. Len(runLog) \in Nat  OBVIOUS
<1>2. IsFiniteSet(1..Len(runLog))  BY <1>1, FS_Interval
<1>3. LoggedBy(r, Len(runLog)) \in SUBSET (1..Len(runLog))  BY DEF LoggedBy
<1>4. IsFiniteSet(LoggedBy(r, Len(runLog)))  BY <1>2, <1>3, FS_Subset
<1>5. LoggedBy(r, j) \in SUBSET LoggedBy(r, Len(runLog)) /\ j \in LoggedBy(r, j)
      BY <1>1 DEF LoggedBy
<1>6. IsFiniteSet(LoggedBy(r, j)) /\ Cardinality(LoggedBy(r, j)) <= Cardinality(LoggedBy(r, Len(runLog)))
      BY <1>4, <1>5, FS_Subset
<1>7. Cardinality(LoggedBy(r, j)) # 0
      BY <1>5, <1>6, FS_EmptySet
<1> QED  BY <1>4, <1>6, <1>7, FS_CardinalityType

\* The tails stay in order while the log stands and the file only grows.
LEMMA InOrderStays ==
  ASSUME WorkShape, ReadOn, TailInOrder, OnTheLog,
         runLog' = runLog, \A r \in Round : tail'[r].consumed = tail[r].consumed,
         \A i \in 1..Len(lines) : lines'[i] = lines[i]
  PROVE  TailInOrder' /\ OnTheLog'
<1>0. runLog \in Seq(Logged) /\ Len(lines) \in Nat /\ \A r \in Round : tail[r].consumed \in Nat
      BY DEF WorkShape, Place
<1>1. ASSUME NEW r \in Round
      PROVE  /\ Cardinality(LoggedBy(r, Len(runLog))') = tail'[r].consumed
             /\ \A j \in LoggedBy(r, Len(runLog))' :
                    runLog'[j].line = lines'[Cardinality(LoggedBy(r, j)')]
  <2>1. \A j : LoggedBy(r, j)' = LoggedBy(r, j)
        BY DEF LoggedBy
  <2>2. Cardinality(LoggedBy(r, Len(runLog))) = tail[r].consumed /\ tail[r].consumed <= Len(lines)
        BY DEF TailInOrder, ReadOn
  <2>3. ASSUME NEW j \in LoggedBy(r, Len(runLog))
        PROVE  runLog[j].line = lines'[Cardinality(LoggedBy(r, j))]
    <3>1. Cardinality(LoggedBy(r, j)) \in 1..Len(lines)
          BY <1>0, <2>2, PlaceOfLine
    <3> QED  BY <3>1 DEF TailInOrder
  <2> QED  BY <2>1, <2>2, <2>3 DEF LoggedBy
<1>2. ASSUME NEW r \in Round, NEW i \in 1..tail'[r].consumed
      PROVE  \E j \in DOMAIN runLog' : runLog'[j] = [tail |-> r, line |-> lines'[i]]
  <2>1. i \in 1..tail[r].consumed /\ i \in 1..Len(lines)
        BY <1>0, <1>2 DEF ReadOn
  <2> QED  BY <2>1 DEF OnTheLog
<1> QED  BY <1>1, <1>2 DEF TailInOrder, OnTheLog, LoggedBy

\* drain logs what it has read from where the tail stands: the tail's mutex
\* has kept everybody else from moving it.
LEMMA LogNewShape ==
  ASSUME WorkShape, NEW r \in Round, NEW who \in Readers, LogNew(r, who)
  PROVE  /\ reading[r].by = who /\ reading[r].by # "nobody"
         /\ reading[r].upto \in Nat /\ tail[r].consumed \in Nat
         /\ tail' \in [Round -> Place] /\ tail'[r].consumed = reading[r].upto
         /\ tail'[r].closed = tail[r].closed /\ tail'[r].following = tail[r].following
         /\ \A q \in Round \ {r} : tail'[q] = tail[q]
         /\ reading' \in [Round -> [by : Reader, upto : Nat]] /\ reading'[r] = Idle
         /\ \A q \in Round \ {r} : reading'[q] = reading[q]
<1>1. tail[r] \in Place /\ reading[r] \in [by : Reader, upto : Nat]
      BY DEF WorkShape
<1>2. tail' = [tail EXCEPT ![r] = [tail[r] EXCEPT !.consumed = reading[r].upto]]
      BY DEF LogNew
<1>3. PICK t : t = [tail[r] EXCEPT !.consumed = reading[r].upto]
      OBVIOUS
<1>4. t \in Place /\ t.consumed = reading[r].upto /\ t.closed = tail[r].closed
      /\ t.following = tail[r].following
      BY <1>1, <1>3 DEF Place
<1>5. tail' = [tail EXCEPT ![r] = t]
      BY <1>2, <1>3
<1>6. Idle \in [by : Reader, upto : Nat]
      BY DEF Idle, Reader
<1>7. /\ tail' \in [Round -> Place] /\ tail'[r] = t
      /\ \A q \in Round \ {r} : tail'[q] = tail[q]
      BY <1>4, <1>5 DEF WorkShape
<1>8. /\ reading' \in [Round -> [by : Reader, upto : Nat]] /\ reading'[r] = Idle
      /\ \A q \in Round \ {r} : reading'[q] = reading[q]
      BY <1>6 DEF WorkShape, LogNew
<1>9. reading[r].by = who /\ who # "nobody"
      BY DEF LogNew, Readers
<1>10. reading[r].upto \in Nat /\ tail[r].consumed \in Nat
      BY <1>1 DEF Place
<1> QED  BY <1>4, <1>7, <1>8, <1>9, <1>10

\* The block of lines drain appends.
LEMMA LogNewBlock ==
  ASSUME WorkShape, ReadOn, NEW r \in Round, NEW who \in Readers, LogNew(r, who),
         NEW n, n = reading[r].upto - tail[r].consumed
  PROVE  /\ n \in Nat /\ runLog' \in Seq(Logged) /\ Len(runLog') = Len(runLog) + n
         /\ Len(runLog) \in Nat
         /\ \A i \in 1..Len(runLog) : runLog'[i] = runLog[i]
         /\ \A k \in 1..n : tail[r].consumed + k \in 1..Len(lines)
         /\ \A k \in 1..n : runLog'[Len(runLog) + k]
                              = [tail |-> r, line |-> lines[tail[r].consumed + k]]
<1> DEFINE b == [k \in 1..n |-> [tail |-> r, line |-> lines[tail[r].consumed + k]]]
<1>1. /\ reading[r].upto \in Nat /\ tail[r].consumed \in Nat /\ reading[r].by # "nobody"
      BY LogNewShape
<1>2. tail[r].consumed <= reading[r].upto /\ reading[r].upto <= Len(lines)
      BY <1>1 DEF ReadOn
<1>3. n \in Nat /\ lines \in Seq(Line) /\ Len(lines) \in Nat /\ runLog \in Seq(Logged)
      BY <1>1, <1>2 DEF WorkShape
<1>4. \A k \in 1..n : tail[r].consumed + k \in 1..Len(lines)
      BY <1>1, <1>2, <1>3
<1>5. \A k \in 1..n : lines[tail[r].consumed + k] \in Line
      BY <1>3, <1>4
<1>6. \A k \in 1..n : b[k] \in Logged
      BY <1>5 DEF Logged
<1>7. b \in [1..n -> Logged]
      BY <1>6
<1>8. runLog' = runLog \o b
      BY DEF LogNew
<1>9. \A k \in 1..n : b[k] = [tail |-> r, line |-> lines[tail[r].consumed + k]]
      OBVIOUS
<1> HIDE DEF b
<1>10. /\ runLog' \in Seq(Logged) /\ Len(runLog') = Len(runLog) + n
       /\ \A i \in 1..Len(runLog) + n : runLog'[i] =
              IF i <= Len(runLog) THEN runLog[i] ELSE b[i - Len(runLog)]
  <2>1. b \in Seq(Logged) /\ Len(b) = n
        BY <1>3, <1>7
  <2>2. /\ runLog \o b \in Seq(Logged) /\ Len(runLog \o b) = Len(runLog) + Len(b)
        /\ \A i \in 1..Len(runLog) + Len(b) : (runLog \o b)[i] =
               IF i <= Len(runLog) THEN runLog[i] ELSE b[i - Len(runLog)]
        BY <1>3, <2>1, ConcatProperties
  <2> QED  BY <1>8, <2>1, <2>2
<1>11. Len(runLog) \in Nat
      BY <1>3
<1>12. \A i \in 1..Len(runLog) : runLog'[i] = runLog[i]
      BY <1>3, <1>10, <1>11
<1>13. ASSUME NEW k \in 1..n PROVE runLog'[Len(runLog) + k] = b[k]
  <2>1. Len(runLog) + k \in 1..Len(runLog) + n /\ ~(Len(runLog) + k <= Len(runLog))
        /\ (Len(runLog) + k) - Len(runLog) = k
        BY <1>3, <1>11, <1>13
  <2> QED  BY <1>10, <2>1
<1> QED  BY <1>3, <1>4, <1>9, <1>10, <1>11, <1>12, <1>13

\* What drain logs are the next lines, in their order.
LEMMA LogNewInOrder ==
  ASSUME WorkShape, ReadOn, TailInOrder, NEW r \in Round, NEW who \in Readers,
         LogNew(r, who), lines' = lines
  PROVE  TailInOrder'
<1>1. PICK n : n = reading[r].upto - tail[r].consumed
      OBVIOUS
<1>2. /\ n \in Nat /\ runLog' \in Seq(Logged) /\ Len(runLog') = Len(runLog) + n
      /\ Len(runLog) \in Nat
      /\ \A i \in 1..Len(runLog) : runLog'[i] = runLog[i]
      /\ \A k \in 1..n : runLog'[Len(runLog) + k]
                           = [tail |-> r, line |-> lines[tail[r].consumed + k]]
      BY <1>1, LogNewBlock
<1>3. \A i \in (Len(runLog) + 1)..(Len(runLog) + n) : runLog'[i].tail = r
  <2>1. TAKE i \in (Len(runLog) + 1)..(Len(runLog) + n)
  <2>2. i - Len(runLog) \in 1..n /\ Len(runLog) + (i - Len(runLog)) = i
        BY <1>2
  <2>3. runLog'[i] = [tail |-> r, line |-> lines[tail[r].consumed + (i - Len(runLog))]]
        BY <1>2, <2>2
  <2> QED  BY <2>3
<1>4. runLog \in Seq(Logged) /\ tail[r].consumed \in Nat /\ tail'[r].consumed = reading[r].upto
      /\ reading[r].upto \in Nat /\ \A q \in Round \ {r} : tail'[q] = tail[q]
      BY LogNewShape DEF WorkShape
<1>5. ASSUME NEW q \in Round
      PROVE  /\ Cardinality(LoggedBy(q, Len(runLog))') = tail'[q].consumed
             /\ \A j \in LoggedBy(q, Len(runLog))' :
                    runLog'[j].line = lines[Cardinality(LoggedBy(q, j)')]
  <2>1. /\ \A j \in 0..Len(runLog) : OfTail(runLog', q, j) = OfTail(runLog, q, j)
        /\ q = r => \A k \in 0..n :
              Cardinality(OfTail(runLog', q, Len(runLog) + k)) = Cardinality(OfTail(runLog, q, Len(runLog))) + k
        /\ q # r => OfTail(runLog', q, Len(runLog')) = OfTail(runLog, q, Len(runLog))
    <3>1. /\ runLog \in Seq(Logged) /\ runLog' \in Seq(Logged) /\ n \in Nat /\ r \in Round /\ q \in Round
          /\ Len(runLog') = Len(runLog) + n
          BY <1>2, <1>4
    <3>2. \A i \in 1..Len(runLog) : runLog'[i] = runLog[i]
          BY <1>2
    <3> QED  BY <3>1, <3>2, <1>3, CountOn, ZenonT(30)
  <2>2. \A j \in 0..Len(runLog) : LoggedBy(q, j)' = LoggedBy(q, j)
        BY <2>1 DEF LoggedBy, OfTail
  <2>3. /\ Cardinality(LoggedBy(q, Len(runLog))) = tail[q].consumed
        /\ \A j \in LoggedBy(q, Len(runLog)) : runLog[j].line = lines[Cardinality(LoggedBy(q, j))]
        BY DEF TailInOrder
  <2>4. ASSUME NEW j \in LoggedBy(q, Len(runLog))
        PROVE  runLog'[j].line = lines[Cardinality(LoggedBy(q, j)')]
    <3>1. j \in 1..Len(runLog)  BY DEF LoggedBy
    <3>2. j \in 0..Len(runLog)  BY <1>2, <3>1
    <3>3. LoggedBy(q, j)' = LoggedBy(q, j)  BY <2>2, <3>2
    <3>4. runLog'[j] = runLog[j]  BY <1>2, <3>1
    <3> QED  BY <2>3, <3>3, <3>4
  <2>5. CASE q # r
    <3>1. OfTail(runLog', q, Len(runLog')) = OfTail(runLog, q, Len(runLog))
          BY <2>1, <2>5
    <3>2. LoggedBy(q, Len(runLog))' = LoggedBy(q, Len(runLog))
          BY <3>1 DEF LoggedBy, OfTail
    <3>3. tail'[q].consumed = tail[q].consumed
          BY <1>4, <2>5
    <3> QED  BY <2>3, <2>4, <3>2, <3>3
  <2>6. CASE q = r
    <3>1. \A k \in 0..n :
              Cardinality(OfTail(runLog', q, Len(runLog) + k))
                = Cardinality(OfTail(runLog, q, Len(runLog))) + k
          BY <2>1, <2>6
    <3>2. Cardinality(OfTail(runLog, q, Len(runLog))) = tail[r].consumed
          BY <2>3, <2>6 DEF LoggedBy, OfTail
    <3>3. ASSUME NEW k \in 0..n, NEW j, j = Len(runLog) + k
          PROVE  Cardinality(OfTail(runLog', q, j)) = tail[r].consumed + k
          BY <3>1, <3>2, <3>3
    <3>4. n \in 0..n /\ tail[r].consumed + n = reading[r].upto
          BY <1>1, <1>2, <1>4
    <3>5. Cardinality(OfTail(runLog', q, Len(runLog'))) = tail'[q].consumed
          BY <1>2, <1>4, <2>6, <3>3, <3>4
    <3>6. Cardinality(LoggedBy(q, Len(runLog))') = tail'[q].consumed
          BY <3>5 DEF LoggedBy, OfTail
    <3>7. ASSUME NEW j \in LoggedBy(q, Len(runLog))'
          PROVE  runLog'[j].line = lines[Cardinality(LoggedBy(q, j)')]
      <4>1. j \in 1..(Len(runLog) + n) /\ runLog'[j].tail = q
            BY <1>2 DEF LoggedBy
      <4>2. CASE j \in 1..Len(runLog)
        <5>1. j \in LoggedBy(q, Len(runLog))
              BY <1>2, <4>1, <4>2 DEF LoggedBy
        <5> QED  BY <2>4, <5>1
      <4>3. CASE j \notin 1..Len(runLog)
        <5>1. PICK k : k = j - Len(runLog)
              OBVIOUS
        <5>2. k \in 1..n /\ k \in 0..n /\ j = Len(runLog) + k
              BY <1>2, <4>1, <4>3, <5>1
        <5>3. Cardinality(LoggedBy(q, j)') = tail[r].consumed + k
              BY <3>3, <5>2 DEF LoggedBy, OfTail
        <5>4. runLog'[j] = [tail |-> r, line |-> lines[tail[r].consumed + k]]
              BY <1>2, <5>2
        <5> QED  BY <5>3, <5>4
      <4> QED  BY <4>2, <4>3
    <3> QED  BY <3>6, <3>7
  <2> QED  BY <2>5, <2>6
<1> QED  BY <1>4, <1>5 DEF TailInOrder

\* What drain consumes is on the log.
LEMMA LogNewOnTheLog ==
  ASSUME WorkShape, ReadOn, OnTheLog, NEW r \in Round, NEW who \in Readers,
         LogNew(r, who), lines' = lines
  PROVE  OnTheLog'
<1>1. PICK n : n = reading[r].upto - tail[r].consumed
      OBVIOUS
<1>2. /\ n \in Nat /\ runLog' \in Seq(Logged) /\ Len(runLog') = Len(runLog) + n
      /\ Len(runLog) \in Nat
      /\ \A i \in 1..Len(runLog) : runLog'[i] = runLog[i]
      /\ \A k \in 1..n : runLog'[Len(runLog) + k]
                           = [tail |-> r, line |-> lines[tail[r].consumed + k]]
      BY <1>1, LogNewBlock
<1>3. /\ tail[r].consumed \in Nat /\ tail'[r].consumed = reading[r].upto
      /\ reading[r].upto \in Nat /\ \A q \in Round \ {r} : tail'[q] = tail[q]
      BY LogNewShape
<1>4. DOMAIN runLog = 1..Len(runLog) /\ DOMAIN runLog' = 1..Len(runLog')
      BY <1>2 DEF WorkShape
<1>5. ASSUME NEW q \in Round, NEW i \in 1..tail'[q].consumed
      PROVE  \E j \in DOMAIN runLog' : runLog'[j] = [tail |-> q, line |-> lines[i]]
  <2>1. CASE i \in 1..tail[q].consumed
    <3>1. PICK j \in DOMAIN runLog : runLog[j] = [tail |-> q, line |-> lines[i]]
          BY <2>1 DEF OnTheLog
    <3>2. j \in DOMAIN runLog' /\ runLog'[j] = runLog[j]
          BY <1>2, <1>4
    <3> QED  BY <3>1, <3>2
  <2>2. CASE i \notin 1..tail[q].consumed
    <3>1. q = r
          BY <1>3, <1>5, <2>2
    <3>2. PICK k : k = i - tail[r].consumed
          OBVIOUS
    <3>3. k \in 1..n /\ i = tail[r].consumed + k
      <4>1. i \in 1..reading[r].upto /\ ~(i \in 1..tail[r].consumed)
            BY <1>3, <1>5, <2>2, <3>1
      <4> QED  BY <1>1, <1>3, <3>2, <4>1
    <3>4. Len(runLog) + k \in DOMAIN runLog'
          BY <1>2, <1>4, <3>3
    <3>5. runLog'[Len(runLog) + k] = [tail |-> q, line |-> lines[i]]
          BY <1>2, <3>1, <3>3
    <3> QED  BY <3>4, <3>5
  <2> QED  BY <2>1, <2>2
<1> QED  BY <1>5 DEF OnTheLog

-----------------------------------------------------------------------------

\* Nothing is written, read or logged to begin with, and no container is.
LEMMA WorkStarts == WorkInit => WorkInv
<1> SUFFICES ASSUME WorkInit PROVE WorkInv
    OBVIOUS
<1>1. 1 \in Round /\ 0 \in 0..KillFaults
      BY WorkspaceAssumption DEF Round
<1>2. Len(runLog) = 0 /\ Len(lines) = 0 /\ DOMAIN lines = {} /\ DOMAIN runLog = {}
      BY DEF WorkInit
<1>3. WorkShape
  <2>1. lines \in Seq(Line) /\ runLog \in Seq(Logged)
        BY EmptySeq DEF WorkInit
  <2>2. tail \in [Round -> Place]
        BY DEF WorkInit, Place
  <2>3. reading \in [Round -> [by : Reader, upto : Nat]]
        BY DEF WorkInit, Idle, Reader
  <2> QED  BY <1>1, <2>1, <2>2, <2>3 DEF WorkInit, WorkShape, NoneYet, Results, Alive
<1>4. \A r \in Round : tail[r].consumed = 0 /\ reading[r].by = "nobody"
      BY DEF WorkInit, Idle
<1>5. ReadOn /\ OnTheLog
      BY <1>2, <1>4 DEF ReadOn, OnTheLog
<1>6. TailInOrder
  <2>1. \A r \in Round : LoggedBy(r, Len(runLog)) = {}
        BY <1>2 DEF LoggedBy
  <2> QED  BY <1>4, <2>1, FS_EmptySet DEF TailInOrder
<1>7. OneAlive /\ Drained
  <2>1. \A r \in Round : LinesOf(r) = {} /\ unsaved[r] = Ports /\ box[r] = "off"
        BY <1>2 DEF LinesOf, WorkInit
  <2> QED  BY <2>1 DEF OneAlive, Drained, Alive
<1>8. FilesHold /\ OwnOutputs
      BY <1>1 DEF WorkInit, FilesHold, OwnOutputs
<1> QED  BY <1>3, <1>5, <1>6, <1>7, <1>8 DEF WorkInv

\* A container is alive in the current round, while docker run waits for it.
LEMMA AliveNow ==
  ASSUME WorkInv, NEW r \in Round, box[r] \in Alive
  PROVE  /\ box[r] # "off" /\ ~(r > round) /\ ~(r = round /\ stage = "prepare")
         /\ killFaults = 0 => r = round /\ stage = "run" /\ reading[r].by # "main"
         /\ killFaults = 0 => ~(r < round) /\ stage \notin {"collect", "leave", "over"}
<1>1. box[r] # "off"
      BY DEF Alive
<1> QED  BY <1>1 DEF WorkInv, OneAlive, ReadOn, Round

\* The tails do not move while a container does something other than log.
LEMMA TailsStand ==
  ASSUME WorkInv, UNCHANGED <<lines, tailVars, hostVars>>
  PROVE  ReadOn' /\ OnTheLog' /\ TailInOrder' /\ Drained' /\ OwnOutputs'
<1> USE DEF WorkInv, tailVars, hostVars
<1>1. ReadOn'  BY DEF ReadOn
<1>2. TailInOrder' /\ OnTheLog'
      BY InOrderStays
<1>3. \A r \in Round : LinesOf(r)' = LinesOf(r)
      BY DEF LinesOf
<1>4. Drained'
      BY <1>3 DEF Drained
<1>5. OwnOutputs'
      BY DEF OwnOutputs
<1> QED  BY <1>1, <1>2, <1>4, <1>5

\* A log line is appended: only a running container's, and the last drain of
\* its round has not begun unless a kill has failed.
LEMMA StreamLogKeeps ==
  ASSUME WorkInv, NEW r \in Round, StreamLog(r)
  PROVE  WorkInv'
<1> DEFINE e == <<r, Written(r) + 1>>
<1>0. box[r] \in Alive /\ lines \in Seq(Line) /\ Len(lines) \in Nat
      BY DEF StreamLog, Alive, WorkInv, WorkShape
<1>1. e \in Line
  <2>1. Written(r) \in 0..Lines /\ Written(r) < Lines
        BY <1>0, WrittenIsCounted DEF StreamLog
  <2> QED  BY <2>1, WorkspaceAssumption DEF Line
<1>2. lines' = Append(lines, e)
      BY DEF StreamLog
<1> HIDE DEF e
<1>3. /\ lines' \in Seq(Line) /\ Len(lines') = Len(lines) + 1
      /\ \A i \in 1..Len(lines) : lines'[i] = lines[i]
      /\ lines'[Len(lines) + 1] = e
      BY <1>0, <1>1, <1>2, AppendProperties
<1>4. UNCHANGED <<out, marker, box, unsaved, tail, reading, runLog, round, stage, result, collected, killFaults>>
      BY DEF StreamLog, tailVars, hostVars
<1>5. WorkShape'
      BY <1>3, <1>4 DEF WorkInv, WorkShape
<1>6. ReadOn'
  <2>1. \A q \in Round : tail[q].consumed \in Nat /\ reading[q].upto \in Nat
        BY DEF WorkInv, WorkShape, Place
  <2> QED  BY <1>0, <1>3, <1>4, <2>1 DEF WorkInv, ReadOn
<1>7. TailInOrder' /\ OnTheLog'
      BY <1>3, <1>4, InOrderStays DEF WorkInv
<1>8. \A q \in Round : q # r => LinesOf(q)' = LinesOf(q)
  <2>1. e[1] = r  BY DEF e
  <2>2. DOMAIN lines = 1..Len(lines) /\ DOMAIN lines' = 1..(Len(lines) + 1)
        BY <1>0, <1>3
  <2> QED  BY <1>0, <1>3, <2>1, <2>2 DEF LinesOf
<1>9. OneAlive'
  <2>1. \A q \in Round : box[q] = "off" => LinesOf(q)' = {} /\ unsaved[q] = Ports
        BY <1>0, <1>8, AliveNow DEF WorkInv, OneAlive
  <2> QED  BY <1>4, <2>1 DEF WorkInv, OneAlive
<1>10. Drained'
  <2> SUFFICES ASSUME killFaults = 0, NEW q \in Round
               PROVE  /\ q < round \/ (q = round /\ stage \in {"collect", "leave", "over"}) =>
                             \A i \in LinesOf(q)' : i <= tail[q].consumed
                      /\ reading[q].by = "main" => \A i \in LinesOf(q)' : i <= reading[q].upto
      BY <1>4 DEF Drained
  <2>1. CASE q = r
        BY <1>0, <2>1, AliveNow
  <2>2. CASE q # r
        BY <1>8, <2>2 DEF WorkInv, Drained
  <2> QED  BY <2>1, <2>2
<1>11. FilesHold' /\ OwnOutputs'
      BY <1>4 DEF WorkInv, FilesHold, OwnOutputs
<1> QED  BY <1>5, <1>6, <1>7, <1>9, <1>10, <1>11 DEF WorkInv

\* The interpreter returns: the container is alive before and after, or failed.
LEMMA InterpretKeeps ==
  ASSUME WorkInv, NEW r \in Round, InterpretReturns(r)
  PROVE  WorkInv'
<1>1. PICK next \in {"failed", "stopping", "saving"} : box' = [box EXCEPT ![r] = next]
      BY DEF InterpretReturns
<1>2. /\ box[r] \in Alive
      /\ UNCHANGED <<lines, out, marker, unsaved, tailVars, hostVars>>
      BY DEF InterpretReturns, Alive
<1>3. ReadOn' /\ OnTheLog' /\ TailInOrder' /\ Drained' /\ OwnOutputs'
      BY <1>2, TailsStand
<1>4. UNCHANGED <<lines, out, marker, unsaved, tail, reading, runLog, round, stage, result, collected, killFaults>>
      BY <1>2 DEF tailVars, hostVars
<1>5. box \in [Round -> Alive \cup {"off", "failed", "exited", "killed"}]
      BY DEF WorkInv, WorkShape
<1>6. box' \in [Round -> Alive \cup {"off", "failed", "exited", "killed"}]
      BY <1>1, <1>5 DEF Alive
<1>7. WorkShape'
      BY <1>4, <1>6 DEF WorkInv, WorkShape
<1>8. box'[r] # "off" /\ box'[r] # "exited" /\ \A q \in Round \ {r} : box'[q] = box[q]
      BY <1>1, <1>5
<1>9. OneAlive'
  <2>1. \A q \in Round : LinesOf(q)' = LinesOf(q)  BY <1>4 DEF LinesOf
  <2>2. ASSUME NEW q \in Round, q > round \/ (q = round /\ stage = "prepare")
        PROVE  box'[q] = "off"
        BY <1>2, <1>8, <2>2, AliveNow DEF WorkInv, OneAlive
  <2>3. ASSUME killFaults = 0, NEW q \in Round, box'[q] \in Alive
        PROVE  q = round /\ stage = "run"
        BY <1>2, <1>8, <2>3, AliveNow DEF WorkInv, OneAlive
  <2>4. ASSUME NEW q \in Round, box'[q] = "off"
        PROVE  LinesOf(q) = {} /\ unsaved[q] = Ports
        BY <1>8, <2>4 DEF WorkInv, OneAlive
  <2> QED  BY <1>4, <2>1, <2>2, <2>3, <2>4 DEF OneAlive
<1>10. FilesHold'
  <2>1. ASSUME stage \in {"drain", "collect"}, result = "ok" PROVE box'[round] = "exited"
    <3>1. box[round] = "exited"  BY <2>1 DEF WorkInv, FilesHold
    <3>2. round # r  BY <1>2, <3>1 DEF Alive
    <3> QED  BY <1>8, <3>1, <3>2 DEF WorkInv, WorkShape
  <2>2. \A q \in Round : box'[q] = "exited" => unsaved[q] = {} \/ marker # NoneYet
        BY <1>8 DEF WorkInv, FilesHold
  <2> QED  BY <1>4, <2>1, <2>2 DEF WorkInv, FilesHold
<1> QED  BY <1>3, <1>7, <1>9, <1>10 DEF WorkInv

\* An output is written by a container that is alive, or the bot fails.
LEMMA WriteOutputKeeps ==
  ASSUME WorkInv, NEW r \in Round, WriteOutput(r)
  PROVE  WorkInv'
<1>1. /\ box[r] \in Alive /\ box[r] # "exited"
      /\ UNCHANGED <<lines, marker, tailVars, hostVars>>
      BY DEF WriteOutput, Alive
<1>2. ReadOn' /\ OnTheLog' /\ TailInOrder' /\ Drained' /\ OwnOutputs'
      BY <1>1, TailsStand
<1>3. UNCHANGED <<lines, marker, tail, reading, runLog, round, stage, result, collected, killFaults>>
      BY <1>1 DEF tailVars, hostVars
<1>4. \A q \in Round : LinesOf(q)' = LinesOf(q)
      BY <1>3 DEF LinesOf
<1>5. /\ box \in [Round -> Alive \cup {"off", "failed", "exited", "killed"}]
      /\ unsaved \in [Round -> SUBSET Ports]
      /\ out \in [Ports -> {NoneYet} \cup Round]
      BY DEF WorkInv, WorkShape
<1>6. CASE \E p \in unsaved[r] :
             /\ out' = [out EXCEPT ![p] = r]
             /\ unsaved' = [unsaved EXCEPT ![r] = @ \ {p}]
             /\ UNCHANGED box
  <2>1. PICK p \in unsaved[r] :
             /\ out' = [out EXCEPT ![p] = r]
             /\ unsaved' = [unsaved EXCEPT ![r] = @ \ {p}]
             /\ UNCHANGED box
        BY <1>6
  <2>2. p \in Ports  BY <1>5
  <2>3. out' \in [Ports -> {NoneYet} \cup Round] /\ unsaved' \in [Round -> SUBSET Ports]
        BY <1>5, <2>1, <2>2
  <2>4. unsaved'[r] = unsaved[r] \ {p} /\ \A q \in Round \ {r} : unsaved'[q] = unsaved[q]
        BY <1>5, <2>1
  <2>5. WorkShape'
        BY <1>3, <2>1, <2>3 DEF WorkInv, WorkShape
  <2>6. OneAlive'
        BY <1>1, <1>3, <1>4, <2>1, <2>4, AliveNow DEF WorkInv, OneAlive
  <2>7. FilesHold'
    <3>1. ASSUME killFaults = 0, NEW o \in Ports, o \notin unsaved'[round]
          PROVE  out'[o] = round
      <4>1. r = round  BY <1>1, <3>1, AliveNow
      <4>2. CASE o = p
            BY <1>5, <2>1, <2>2, <4>1, <4>2
      <4>3. CASE o # p
        <5>1. o \notin unsaved[round]  BY <2>4, <3>1, <4>1, <4>3
        <5>2. out[o] = round  BY <3>1, <5>1 DEF WorkInv, FilesHold
        <5> QED  BY <1>5, <2>1, <4>3, <5>2
      <4> QED  BY <4>2, <4>3
    <3>2. \A q \in Round : box[q] = "exited" => unsaved'[q] = {} \/ marker # NoneYet
          BY <1>1, <2>4 DEF WorkInv, FilesHold
    <3> QED  BY <1>3, <2>1, <3>1, <3>2 DEF WorkInv, FilesHold
  <2> QED  BY <1>2, <2>5, <2>6, <2>7 DEF WorkInv
<1>7. CASE box' = [box EXCEPT ![r] = "failed"] /\ UNCHANGED <<out, unsaved>>
  <2>1. box' \in [Round -> Alive \cup {"off", "failed", "exited", "killed"}]
        BY <1>5, <1>7
  <2>2. box'[r] = "failed" /\ \A q \in Round \ {r} : box'[q] = box[q]
        BY <1>5, <1>7
  <2>3. WorkShape'
        BY <1>3, <1>7, <2>1 DEF WorkInv, WorkShape
  <2>4. OneAlive'
    <3>1. "failed" \notin Alive /\ "failed" # "off"  BY DEF Alive
    <3>2. \A q \in Round : q > round \/ (q = round /\ stage = "prepare") => box'[q] = "off"
          BY <1>1, <2>2, AliveNow DEF WorkInv, OneAlive
    <3>3. killFaults = 0 => \A q \in Round : box'[q] \in Alive => q = round /\ stage = "run"
          BY <2>2, <3>1 DEF WorkInv, OneAlive
    <3>4. \A q \in Round : box'[q] = "off" => LinesOf(q) = {} /\ unsaved[q] = Ports
          BY <2>2, <3>1 DEF WorkInv, OneAlive
    <3> QED  BY <1>3, <1>4, <1>7, <3>2, <3>3, <3>4 DEF OneAlive
  <2>5. FilesHold'
    <3>1. ASSUME stage \in {"drain", "collect"}, result = "ok" PROVE box'[round] = "exited"
      <4>1. box[round] = "exited"  BY <3>1 DEF WorkInv, FilesHold
      <4>2. round # r  BY <1>1, <4>1
      <4> QED  BY <2>2, <4>1, <4>2 DEF WorkInv, WorkShape
    <3>2. \A q \in Round : box'[q] = "exited" => unsaved[q] = {} \/ marker # NoneYet
          BY <2>2 DEF WorkInv, FilesHold
    <3> QED  BY <1>3, <1>7, <3>1, <3>2 DEF WorkInv, FilesHold
  <2> QED  BY <1>2, <2>3, <2>4, <2>5 DEF WorkInv
<1> QED  BY <1>6, <1>7 DEF WriteOutput

\* The marker is left by a round, and stays.
LEMMA LeaveMarkerKeeps ==
  ASSUME WorkInv, NEW r \in Round, LeaveMarker(r)
  PROVE  WorkInv'
<1>1. marker' = r /\ UNCHANGED <<lines, out, box, unsaved, tailVars, hostVars>>
      BY DEF LeaveMarker
<1>2. ReadOn' /\ OnTheLog' /\ TailInOrder' /\ Drained' /\ OwnOutputs'
      BY <1>1, TailsStand
<1>3. UNCHANGED <<lines, out, box, unsaved, tail, reading, runLog, round, stage, result, collected, killFaults>>
      BY <1>1 DEF tailVars, hostVars
<1>4. marker' # NoneYet /\ marker' \in Round
      BY <1>1 DEF Round, NoneYet
<1>5. WorkShape'
      BY <1>3, <1>4 DEF WorkInv, WorkShape
<1>6. \A q \in Round : LinesOf(q)' = LinesOf(q)
      BY <1>3 DEF LinesOf
<1>7. OneAlive'
      BY <1>3, <1>6 DEF WorkInv, OneAlive
<1>8. FilesHold'
      BY <1>3, <1>4 DEF WorkInv, FilesHold
<1> QED  BY <1>2, <1>5, <1>7, <1>8 DEF WorkInv

\* A container exits with success when its files, or its marker, are there.
LEMMA ExitZeroKeeps ==
  ASSUME WorkInv, NEW r \in Round, ExitZero(r)
  PROVE  WorkInv'
<1>1. /\ box[r] \in Alive /\ box' = [box EXCEPT ![r] = "exited"]
      /\ UNCHANGED <<lines, out, marker, unsaved, tailVars, hostVars>>
      BY DEF ExitZero, MayExit, Alive
<1>2. unsaved[r] = {} \/ marker # NoneYet
      BY DEF ExitZero, MayExit, Round, NoneYet
<1>3. ReadOn' /\ OnTheLog' /\ TailInOrder' /\ Drained' /\ OwnOutputs'
      BY <1>1, TailsStand
<1>4. UNCHANGED <<lines, out, marker, unsaved, tail, reading, runLog, round, stage, result, collected, killFaults>>
      BY <1>1 DEF tailVars, hostVars
<1>5. box \in [Round -> Alive \cup {"off", "failed", "exited", "killed"}]
      BY DEF WorkInv, WorkShape
<1>6. box' \in [Round -> Alive \cup {"off", "failed", "exited", "killed"}]
      BY <1>1, <1>5
<1>7. WorkShape'
      BY <1>4, <1>6 DEF WorkInv, WorkShape
<1>8. box'[r] = "exited" /\ \A q \in Round \ {r} : box'[q] = box[q]
      BY <1>1, <1>5
<1>9. OneAlive'
  <2>1. "exited" \notin Alive /\ "exited" # "off"  BY DEF Alive
  <2>2. \A q \in Round : LinesOf(q)' = LinesOf(q)  BY <1>4 DEF LinesOf
  <2>3. \A q \in Round : q > round \/ (q = round /\ stage = "prepare") => box'[q] = "off"
        BY <1>1, <1>8, AliveNow DEF WorkInv, OneAlive
  <2>4. killFaults = 0 => \A q \in Round : box'[q] \in Alive => q = round /\ stage = "run"
        BY <1>8, <2>1 DEF WorkInv, OneAlive
  <2>5. \A q \in Round : box'[q] = "off" => LinesOf(q) = {} /\ unsaved[q] = Ports
        BY <1>8, <2>1 DEF WorkInv, OneAlive
  <2> QED  BY <1>4, <2>2, <2>3, <2>4, <2>5 DEF OneAlive
<1>10. FilesHold'
  <2>1. stage \in {"drain", "collect"} /\ result = "ok" => box'[round] = "exited"
        BY <1>8 DEF WorkInv, FilesHold, WorkShape
  <2>2. \A q \in Round : box'[q] = "exited" => unsaved[q] = {} \/ marker # NoneYet
        BY <1>2, <1>8 DEF WorkInv, FilesHold
  <2> QED  BY <1>4, <2>1, <2>2 DEF WorkInv, FilesHold
<1> QED  BY <1>3, <1>7, <1>9, <1>10 DEF WorkInv

-----------------------------------------------------------------------------

\* A reader reads the file: all of it, and the mutex is its.
LEMMA ReadKeeps ==
  ASSUME WorkInv, NEW r \in Round, NEW who \in Readers, ReadFile(r, who),
         who = "main" => r = round /\ stage = "drain",
         UNCHANGED <<boxVars, tail, runLog, hostVars>>
  PROVE  WorkInv'
<1>1. UNCHANGED <<lines, out, marker, box, unsaved, tail, runLog, round, stage, result, collected, killFaults>>
      BY DEF boxVars, hostVars
<1>2. lines \in Seq(Line) /\ Len(lines) \in Nat /\ DOMAIN lines = 1..Len(lines)
      BY DEF WorkInv, WorkShape
<1>3. PICK e : e = [by |-> who, upto |-> Len(lines)]
      OBVIOUS
<1>4. e \in [by : Reader, upto : Nat] /\ e.by = who /\ e.upto = Len(lines)
      BY <1>2, <1>3 DEF Reader
<1>5. reading' = [reading EXCEPT ![r] = e]
      BY <1>3 DEF ReadFile, ReadUnlocked
<1>6. /\ reading' \in [Round -> [by : Reader, upto : Nat]] /\ reading'[r] = e
      /\ \A q \in Round \ {r} : reading'[q] = reading[q]
      BY <1>4, <1>5 DEF WorkInv, WorkShape
<1>7. WorkShape'
      BY <1>1, <1>6 DEF WorkInv, WorkShape
<1>8. ReadOn'
  <2>1. ASSUME NEW q \in Round
        PROVE  /\ tail[q].consumed <= Len(lines)
               /\ reading'[q].by # "nobody" =>
                      tail[q].consumed <= reading'[q].upto /\ reading'[q].upto <= Len(lines)
               /\ reading'[q].by = "main" => q = round /\ stage = "drain"
    <3>1. CASE q = r
          BY <1>2, <1>4, <1>6, <3>1 DEF WorkInv, ReadOn
    <3>2. CASE q # r
          BY <1>6, <3>2 DEF WorkInv, ReadOn
    <3> QED  BY <3>1, <3>2
  <2> QED  BY <1>1, <2>1 DEF ReadOn
<1>9. TailInOrder' /\ OnTheLog'
      BY <1>1, InOrderStays DEF WorkInv
<1>10. \A q \in Round : LinesOf(q)' = LinesOf(q)
      BY <1>1 DEF LinesOf
<1>11. OneAlive'
      BY <1>1, <1>10 DEF WorkInv, OneAlive
<1>12. Drained'
  <2>1. ASSUME killFaults = 0, NEW q \in Round, reading'[q].by = "main"
        PROVE  \A i \in LinesOf(q) : i <= reading'[q].upto
    <3>1. CASE q = r
          BY <1>2, <1>4, <1>6, <3>1 DEF LinesOf
    <3>2. CASE q # r
          BY <1>6, <2>1, <3>2 DEF WorkInv, Drained
    <3> QED  BY <3>1, <3>2
  <2> QED  BY <1>1, <1>10, <2>1 DEF WorkInv, Drained
<1>13. FilesHold' /\ OwnOutputs'
      BY <1>1 DEF WorkInv, FilesHold, OwnOutputs
<1> QED  BY <1>7, <1>8, <1>9, <1>11, <1>12, <1>13 DEF WorkInv

\* What a reader has read goes to the log, and the mutex is given back.
LEMMA LogNewMoves ==
  ASSUME WorkInv, NEW r \in Round, NEW who \in Readers, LogNew(r, who), lines' = lines
  PROVE  /\ runLog' \in Seq(Logged) /\ tail' \in [Round -> Place]
         /\ reading' \in [Round -> [by : Reader, upto : Nat]]
         /\ TailInOrder' /\ OnTheLog'
         /\ \A q \in Round : tail[q].consumed <= tail'[q].consumed /\ tail'[q].consumed <= Len(lines)
         /\ \A q \in Round : reading'[q].by # "nobody" =>
                q # r /\ reading'[q] = reading[q] /\ tail'[q] = tail[q]
         /\ tail'[r].consumed = reading[r].upto /\ reading[r].by = who
<1>1. WorkShape /\ ReadOn /\ TailInOrder /\ OnTheLog
      BY DEF WorkInv
<1>2. TailInOrder' /\ OnTheLog'
      BY <1>1, LogNewInOrder, LogNewOnTheLog
<1>3. runLog' \in Seq(Logged)
  <2>1. PICK n : n = reading[r].upto - tail[r].consumed  OBVIOUS
  <2> QED  BY <1>1, <2>1, LogNewBlock
<1>4. /\ reading[r].by = who /\ reading[r].by # "nobody"
      /\ reading[r].upto \in Nat /\ tail[r].consumed \in Nat
      /\ tail' \in [Round -> Place] /\ tail'[r].consumed = reading[r].upto
      /\ \A q \in Round \ {r} : tail'[q] = tail[q]
      /\ reading' \in [Round -> [by : Reader, upto : Nat]] /\ reading'[r] = Idle
      /\ \A q \in Round \ {r} : reading'[q] = reading[q]
      BY <1>1, LogNewShape
<1>5. \A q \in Round : tail[q].consumed \in Nat
      BY <1>1 DEF WorkShape, Place
<1>6. ASSUME NEW q \in Round
      PROVE  tail[q].consumed <= tail'[q].consumed /\ tail'[q].consumed <= Len(lines)
  <2>1. CASE q = r  BY <1>1, <1>4, <2>1 DEF ReadOn
  <2>2. CASE q # r  BY <1>1, <1>4, <1>5, <2>2 DEF ReadOn
  <2> QED  BY <2>1, <2>2
<1>7. Idle.by = "nobody"
      BY DEF Idle
<1> QED  BY <1>2, <1>3, <1>4, <1>6, <1>7

\* The follower logs.
LEMMA TickLogsKeeps ==
  ASSUME WorkInv, NEW r \in Round, TickLogs(r)
  PROVE  WorkInv'
<1>1. /\ LogNew(r, "follow") /\ "follow" \in Readers
      /\ UNCHANGED <<lines, out, marker, box, unsaved, round, stage, result, collected, killFaults>>
      BY DEF TickLogs, boxVars, hostVars, Readers
<1>2. /\ runLog' \in Seq(Logged) /\ tail' \in [Round -> Place]
      /\ reading' \in [Round -> [by : Reader, upto : Nat]]
      /\ TailInOrder' /\ OnTheLog'
      /\ \A q \in Round : tail[q].consumed <= tail'[q].consumed /\ tail'[q].consumed <= Len(lines)
      /\ \A q \in Round : reading'[q].by # "nobody" =>
             q # r /\ reading'[q] = reading[q] /\ tail'[q] = tail[q]
      BY <1>1, LogNewMoves
<1>3. WorkShape'
      BY <1>1, <1>2 DEF WorkInv, WorkShape
<1>4. ReadOn'
      BY <1>1, <1>2 DEF WorkInv, ReadOn
<1>5. \A q \in Round : LinesOf(q)' = LinesOf(q)
      BY <1>1 DEF LinesOf
<1>6. OneAlive'
      BY <1>1, <1>5 DEF WorkInv, OneAlive
<1>7. Drained'
  <2>1. \A q \in Round : tail[q].consumed \in Nat /\ tail'[q].consumed \in Nat
        BY <1>2 DEF WorkInv, WorkShape, Place
  <2>2. \A q \in Round : \A i \in LinesOf(q) : i \in Nat
        BY DEF LinesOf, WorkInv, WorkShape
  <2>3. ASSUME killFaults = 0, NEW q \in Round,
               q < round \/ (q = round /\ stage \in {"collect", "leave", "over"}), NEW i \in LinesOf(q)
        PROVE  i <= tail'[q].consumed
    <3>1. i <= tail[q].consumed  BY <2>3 DEF WorkInv, Drained
    <3> QED  BY <1>2, <2>1, <2>2, <3>1
  <2>4. ASSUME killFaults = 0, NEW q \in Round, reading'[q].by = "main", NEW i \in LinesOf(q)
        PROVE  i <= reading'[q].upto
        BY <1>2, <2>4 DEF WorkInv, Drained
  <2> QED  BY <1>1, <1>5, <2>3, <2>4 DEF Drained
<1>8. FilesHold' /\ OwnOutputs'
      BY <1>1 DEF WorkInv, FilesHold, OwnOutputs
<1> QED  BY <1>2, <1>3, <1>4, <1>6, <1>7, <1>8 DEF WorkInv

\* The last drain logs: with it everything its round wrote is on the log.
LEMMA DrainLogsKeeps ==
  ASSUME WorkInv, DrainLogs
  PROVE  WorkInv'
<1>1. /\ stage = "drain" /\ LogNew(round, "main") /\ "main" \in Readers /\ round \in Round
      /\ stage' = IF result = "ok" THEN "collect" ELSE "leave"
      /\ UNCHANGED <<lines, out, marker, box, unsaved, round, result, collected, killFaults>>
      BY DEF DrainLogs, boxVars, Readers, WorkInv, WorkShape
<1>2. /\ runLog' \in Seq(Logged) /\ tail' \in [Round -> Place]
      /\ reading' \in [Round -> [by : Reader, upto : Nat]]
      /\ TailInOrder' /\ OnTheLog'
      /\ \A q \in Round : tail[q].consumed <= tail'[q].consumed /\ tail'[q].consumed <= Len(lines)
      /\ \A q \in Round : reading'[q].by # "nobody" =>
             q # round /\ reading'[q] = reading[q] /\ tail'[q] = tail[q]
      /\ tail'[round].consumed = reading[round].upto /\ reading[round].by = "main"
      BY <1>1, LogNewMoves
<1>3. WorkShape'
      BY <1>1, <1>2 DEF WorkInv, WorkShape
<1>4. \A q \in Round : reading'[q].by # "main"
  <2>1. ASSUME NEW q \in Round, reading'[q].by = "main" PROVE FALSE
    <3>1. q # round /\ reading[q].by = "main"  BY <1>2, <2>1
    <3> QED  BY <3>1 DEF WorkInv, ReadOn
  <2> QED  BY <2>1
<1>5. ReadOn'
      BY <1>1, <1>2, <1>4 DEF WorkInv, ReadOn
<1>6. \A q \in Round : LinesOf(q)' = LinesOf(q)
      BY <1>1 DEF LinesOf
<1>7. OneAlive'
  <2>1. killFaults = 0 => \A q \in Round : box[q] \notin Alive
        BY <1>1 DEF WorkInv, OneAlive
  <2>2. stage' # "prepare"  BY <1>1
  <2>3. \A q \in Round : q > round \/ (q = round /\ stage' = "prepare") => box[q] = "off"
        BY <2>2 DEF WorkInv, OneAlive
  <2>4. \A q \in Round : box[q] = "off" => LinesOf(q) = {} /\ unsaved[q] = Ports
        BY DEF WorkInv, OneAlive
  <2> QED  BY <1>1, <1>6, <2>1, <2>3, <2>4 DEF OneAlive
<1>8. Drained'
  <2>1. \A q \in Round : tail[q].consumed \in Nat /\ tail'[q].consumed \in Nat
        BY <1>2 DEF WorkInv, WorkShape, Place
  <2>2. \A q \in Round : \A i \in LinesOf(q) : i \in Nat
        BY DEF LinesOf, WorkInv, WorkShape
  <2>3. ASSUME killFaults = 0, NEW q \in Round, q < round \/ q = round, NEW i \in LinesOf(q)
        PROVE  i <= tail'[q].consumed
    <3>1. CASE q < round
      <4>1. i <= tail[q].consumed  BY <2>3, <3>1 DEF WorkInv, Drained
      <4> QED  BY <1>2, <2>1, <2>2, <4>1
    <3>2. CASE q = round
          BY <1>2, <2>3, <3>2 DEF WorkInv, Drained
    <3> QED  BY <2>3, <3>1, <3>2
  <2> QED  BY <1>1, <1>4, <1>6, <2>3 DEF Drained
<1>9. FilesHold' /\ OwnOutputs'
  <2>1. stage' = "collect" => result = "ok"  BY <1>1
  <2>2. stage' = "leave" => result # "ok"  BY <1>1
  <2>3. stage' \in {"collect", "leave"}  BY <1>1
  <2>4. OwnOutputs'  BY <1>1, <2>2, <2>3 DEF OwnOutputs
  <2>5. FilesHold'  BY <1>1, <2>1, <2>2, <2>3 DEF WorkInv, FilesHold
  <2> QED  BY <2>4, <2>5
<1> QED  BY <1>2, <1>3, <1>5, <1>7, <1>8, <1>9 DEF WorkInv

-----------------------------------------------------------------------------

\* That a tail follows, or is told to stop, does not move it.
LEMMA FollowingSet ==
  ASSUME WorkShape, NEW r \in Round, NEW b \in BOOLEAN, tail' = [tail EXCEPT ![r].following = b]
  PROVE  tail' \in [Round -> Place] /\ \A q \in Round : tail'[q].consumed = tail[q].consumed
<1>1. tail \in [Round -> Place] /\ tail[r] \in Place
      BY DEF WorkShape
<1>2. PICK t : t = [tail[r] EXCEPT !.following = b]
      OBVIOUS
<1>3. t \in Place /\ t.consumed = tail[r].consumed
      BY <1>1, <1>2 DEF Place
<1>4. tail' = [tail EXCEPT ![r] = t]
      BY <1>2
<1> QED  BY <1>1, <1>3, <1>4

\* Nor that it is told to stop.
LEMMA ClosedSet ==
  ASSUME WorkShape, NEW r \in Round, tail' = [tail EXCEPT ![r].closed = TRUE]
  PROVE  tail' \in [Round -> Place] /\ \A q \in Round : tail'[q].consumed = tail[q].consumed
<1>1. tail \in [Round -> Place] /\ tail[r] \in Place
      BY DEF WorkShape
<1>2. PICK t : t = [tail[r] EXCEPT !.closed = TRUE]
      OBVIOUS
<1>3. t \in Place /\ t.consumed = tail[r].consumed
      BY <1>1, <1>2 DEF Place
<1>4. tail' = [tail EXCEPT ![r] = t]
      BY <1>2
<1> QED  BY <1>1, <1>3, <1>4

\* The follower is told to stop, and does.
LEMMA FollowStopsKeeps ==
  ASSUME WorkInv, NEW r \in Round, FollowStops(r)
  PROVE  WorkInv'
<1>1. /\ tail' = [tail EXCEPT ![r].following = FALSE]
      /\ UNCHANGED <<lines, out, marker, box, unsaved, reading, runLog, round, stage, result, collected, killFaults>>
      BY DEF FollowStops, boxVars, hostVars
<1>2. tail' \in [Round -> Place] /\ \A q \in Round : tail'[q].consumed = tail[q].consumed
      BY <1>1, FollowingSet DEF WorkInv
<1>3. WorkShape'
      BY <1>1, <1>2 DEF WorkInv, WorkShape
<1>4. ReadOn'
      BY <1>1, <1>2 DEF WorkInv, ReadOn
<1>5. TailInOrder' /\ OnTheLog'
      BY <1>1, <1>2, InOrderStays DEF WorkInv
<1>6. \A q \in Round : LinesOf(q)' = LinesOf(q)
      BY <1>1 DEF LinesOf
<1>7. OneAlive' /\ Drained'
      BY <1>1, <1>2, <1>6 DEF WorkInv, OneAlive, Drained
<1>8. FilesHold' /\ OwnOutputs'
      BY <1>1 DEF WorkInv, FilesHold, OwnOutputs
<1> QED  BY <1>3, <1>4, <1>5, <1>7, <1>8 DEF WorkInv

\* The container of the round starts, or the attempt is over before it does.
LEMMA PrepareKeeps ==
  ASSUME WorkInv, Prepare
  PROVE  WorkInv'
<1>1. /\ stage = "prepare" /\ round \in Round
      /\ UNCHANGED <<lines, out, marker, unsaved, reading, runLog, round, collected, killFaults>>
      BY DEF Prepare, WorkInv, WorkShape
<1>2. \A q \in Round : reading[q].by # "main"
      BY <1>1 DEF WorkInv, ReadOn
<1>3. \A q \in Round : LinesOf(q)' = LinesOf(q)
      BY <1>1 DEF LinesOf
<1>4. box[round] = "off" /\ LinesOf(round) = {} /\ unsaved[round] = Ports
      BY <1>1 DEF WorkInv, OneAlive
<1>5. CASE /\ stage' = "run" /\ box' = [box EXCEPT ![round] = "running"]
           /\ tail' = [tail EXCEPT ![round].following = TRUE]
           /\ UNCHANGED result
  <2>1. tail' \in [Round -> Place] /\ \A q \in Round : tail'[q].consumed = tail[q].consumed
        BY <1>1, <1>5, FollowingSet DEF WorkInv
  <2>2. box \in [Round -> Alive \cup {"off", "failed", "exited", "killed"}]
        BY DEF WorkInv, WorkShape
  <2>3. box' \in [Round -> Alive \cup {"off", "failed", "exited", "killed"}]
        BY <1>5, <2>2 DEF Alive
  <2>4. WorkShape'
        BY <1>1, <1>5, <2>1, <2>3 DEF WorkInv, WorkShape
  <2>5. ReadOn'
        BY <1>1, <1>2, <2>1 DEF WorkInv, ReadOn
  <2>6. TailInOrder' /\ OnTheLog'
        BY <1>1, <2>1, InOrderStays DEF WorkInv
  <2>7. box'[round] = "running" /\ \A q \in Round \ {round} : box'[q] = box[q]
        BY <1>1, <1>5, <2>2
  <2>8. OneAlive'
    <3>1. \A q \in Round : q > round => box'[q] = "off"
          BY <2>7 DEF WorkInv, OneAlive, Round
    <3>2. killFaults = 0 => \A q \in Round : box'[q] \in Alive => q = round
          BY <1>1, <2>7 DEF WorkInv, OneAlive
    <3>3. \A q \in Round : box'[q] = "off" => LinesOf(q) = {} /\ unsaved[q] = Ports
          BY <2>7 DEF WorkInv, OneAlive
    <3> QED  BY <1>1, <1>3, <1>5, <3>1, <3>2, <3>3 DEF OneAlive
  <2>9. Drained'
        BY <1>1, <1>2, <1>3, <1>5, <2>1 DEF WorkInv, Drained
  <2>10. FilesHold' /\ OwnOutputs'
    <3>1. \A q \in Round : box'[q] = "exited" => unsaved[q] = {} \/ marker # NoneYet
          BY <2>7 DEF WorkInv, FilesHold
    <3> QED  BY <1>1, <1>4, <1>5, <3>1 DEF FilesHold, OwnOutputs
  <2> QED  BY <2>4, <2>5, <2>6, <2>8, <2>9, <2>10 DEF WorkInv
<1>6. CASE stage' = "over" /\ result' = "fail" /\ UNCHANGED <<box, tail>>
  <2>1. WorkShape'
        BY <1>1, <1>6 DEF WorkInv, WorkShape, Results
  <2>2. ReadOn'
        BY <1>1, <1>2, <1>6 DEF WorkInv, ReadOn
  <2>3. TailInOrder' /\ OnTheLog'
        BY <1>1, <1>6, InOrderStays DEF WorkInv
  <2>4. OneAlive'
        BY <1>1, <1>3, <1>6 DEF WorkInv, OneAlive
  <2>5. Drained'
        BY <1>1, <1>2, <1>3, <1>4, <1>6 DEF WorkInv, Drained
  <2>6. FilesHold' /\ OwnOutputs'
        BY <1>1, <1>6 DEF WorkInv, FilesHold, OwnOutputs
  <2> QED  BY <2>1, <2>2, <2>3, <2>4, <2>5, <2>6 DEF WorkInv
<1> QED  BY <1>5, <1>6 DEF Prepare

\* docker run returns: its container is no longer alive.
LEMMA ContainerExitsKeeps ==
  ASSUME WorkInv, ContainerExits
  PROVE  WorkInv'
<1>1. /\ stage = "run" /\ box[round] \in {"exited", "failed"} /\ stage' = "drain"
      /\ result' = IF box[round] = "exited" THEN "ok" ELSE "fail"
      /\ UNCHANGED <<lines, out, marker, box, unsaved, tail, reading, runLog, round, collected, killFaults>>
      BY DEF ContainerExits, boxVars, tailVars
<1>2. \A q \in Round : reading[q].by # "main"
      BY <1>1 DEF WorkInv, ReadOn
<1>3. \A q \in Round : LinesOf(q)' = LinesOf(q)
      BY <1>1 DEF LinesOf
<1>4. WorkShape'
      BY <1>1 DEF WorkInv, WorkShape, Results
<1>5. ReadOn'
      BY <1>1, <1>2 DEF WorkInv, ReadOn
<1>6. TailInOrder' /\ OnTheLog'
      BY <1>1, InOrderStays DEF WorkInv
<1>7. OneAlive'
  <2>1. box[round] \notin Alive
        BY <1>1 DEF Alive
  <2>2. killFaults = 0 => \A q \in Round : box[q] \notin Alive
        BY <2>1 DEF WorkInv, OneAlive
  <2> QED  BY <1>1, <1>3, <2>2 DEF WorkInv, OneAlive
<1>8. Drained'
      BY <1>1, <1>2, <1>3 DEF WorkInv, Drained
<1>9. FilesHold' /\ OwnOutputs'
      BY <1>1 DEF WorkInv, FilesHold, OwnOutputs
<1> QED  BY <1>4, <1>5, <1>6, <1>7, <1>8, <1>9 DEF WorkInv

\* A container is killed, or a kill fails: from then on one may be alive.
LEMMA KillKeeps ==
  ASSUME WorkInv, KillContainer
  PROVE  WorkInv'
<1>1. /\ stage = "run" /\ box[round] # "off" /\ round \in Round /\ stage' = "drain"
      /\ result' \in {"exceeded", "stopped"}
      /\ UNCHANGED <<lines, out, marker, unsaved, tail, reading, runLog, round, collected>>
      BY DEF KillContainer, tailVars, WorkInv, WorkShape
<1>2. \A q \in Round : reading[q].by # "main"
      BY <1>1 DEF WorkInv, ReadOn
<1>3. \A q \in Round : LinesOf(q)' = LinesOf(q)
      BY <1>1 DEF LinesOf
<1>4. ReadOn'
      BY <1>1, <1>2 DEF WorkInv, ReadOn
<1>5. TailInOrder' /\ OnTheLog'
      BY <1>1, InOrderStays DEF WorkInv
<1>6. box \in [Round -> Alive \cup {"off", "failed", "exited", "killed"}] /\ killFaults \in 0..KillFaults
      BY DEF WorkInv, WorkShape
<1>7. /\ box' \in [Round -> Alive \cup {"off", "failed", "exited", "killed"}]
      /\ killFaults' \in 0..KillFaults
      /\ killFaults' = 0 => killFaults = 0 /\ box'[round] \notin Alive
      /\ box'[round] # "off" /\ (box'[round] = "exited" => box[round] = "exited")
      /\ \A q \in Round \ {round} : box'[q] = box[q]
  <2>1. CASE /\ box' = [box EXCEPT ![round] = IF @ \in Alive THEN "killed" ELSE @]
             /\ UNCHANGED killFaults
    <3>1. PICK b : b = IF box[round] \in Alive THEN "killed" ELSE box[round]
          OBVIOUS
    <3>2. box' = [box EXCEPT ![round] = b]
          BY <2>1, <3>1
    <3>3. /\ b \in Alive \cup {"off", "failed", "exited", "killed"} /\ b \notin Alive
          /\ b # "off" /\ (b = "exited" => box[round] = "exited")
          BY <1>1, <1>6, <3>1 DEF Alive
    <3> QED  BY <1>1, <1>6, <2>1, <3>2, <3>3
  <2>2. CASE killFaults < KillFaults /\ killFaults' = killFaults + 1 /\ UNCHANGED box
        BY <1>1, <1>6, <2>2, WorkspaceAssumption
  <2> QED  BY <2>1, <2>2 DEF KillContainer
<1>8. WorkShape'
      BY <1>1, <1>7 DEF WorkInv, WorkShape, Results
<1>9. OneAlive'
  <2>1. \A q \in Round : q > round => box'[q] = "off"
        BY <1>7 DEF WorkInv, OneAlive, Round
  <2>2. killFaults' = 0 => \A q \in Round : box'[q] \notin Alive
        BY <1>1, <1>7 DEF WorkInv, OneAlive
  <2>3. \A q \in Round : box'[q] = "off" => LinesOf(q) = {} /\ unsaved[q] = Ports
        BY <1>7 DEF WorkInv, OneAlive
  <2> QED  BY <1>1, <1>3, <2>1, <2>2, <2>3 DEF OneAlive
<1>10. Drained'
      BY <1>1, <1>2, <1>3, <1>7 DEF WorkInv, Drained
<1>11. FilesHold' /\ OwnOutputs'
  <2>1. \A q \in Round : box'[q] = "exited" => unsaved[q] = {} \/ marker # NoneYet
        BY <1>7 DEF WorkInv, FilesHold
  <2> QED  BY <1>1, <1>7, <2>1 DEF WorkInv, FilesHold, OwnOutputs
<1> QED  BY <1>4, <1>5, <1>8, <1>9, <1>10, <1>11 DEF WorkInv

\* Outputs are collected when the marker is not there and all of them are:
\* the container that left with success wrote them.
LEMMA CollectKeeps ==
  ASSUME WorkInv, CollectOutputs
  PROVE  WorkInv'
<1>1. /\ stage = "collect" /\ stage' = "leave"
      /\ result' = IF marker # NoneYet THEN "nothing"
                   ELSE IF \E p \in Ports : out[p] = NoneYet THEN "fail" ELSE "ok"
      /\ collected' = IF result' = "ok" THEN out ELSE collected
      /\ UNCHANGED <<lines, out, marker, box, unsaved, tail, reading, runLog, round, killFaults>>
      BY DEF CollectOutputs, boxVars, tailVars
<1>2. \A q \in Round : reading[q].by # "main"
      BY <1>1 DEF WorkInv, ReadOn
<1>3. \A q \in Round : LinesOf(q)' = LinesOf(q)
      BY <1>1 DEF LinesOf
<1>4. result' \in Results
      BY <1>1 DEF Results
<1>5. WorkShape'
      BY <1>1, <1>4 DEF WorkInv, WorkShape
<1>6. ReadOn'
      BY <1>1, <1>2 DEF WorkInv, ReadOn
<1>7. TailInOrder' /\ OnTheLog'
      BY <1>1, InOrderStays DEF WorkInv
<1>8. OneAlive' /\ Drained'
      BY <1>1, <1>2, <1>3 DEF WorkInv, OneAlive, Drained
<1>9. FilesHold'
      BY <1>1 DEF WorkInv, FilesHold
<1>10. OwnOutputs'
  <2>1. ASSUME result' = "ok", killFaults = 0, NEW p \in Ports
        PROVE  collected'[p] = round
    <3>1. marker = NoneYet /\ collected' = out
          BY <1>1, <2>1
    <3>2. box[round] = "exited" /\ round \in Round
          BY <1>1 DEF WorkInv, FilesHold, WorkShape
    <3>3. unsaved[round] = {}
          BY <3>1, <3>2 DEF WorkInv, FilesHold
    <3> QED  BY <2>1, <3>1, <3>3 DEF WorkInv, FilesHold
  <2> QED  BY <1>1, <2>1 DEF OwnOutputs
<1> QED  BY <1>5, <1>6, <1>7, <1>8, <1>9, <1>10 DEF WorkInv

\* The attempt is left.
LEMMA LeaveKeeps ==
  ASSUME WorkInv, Leave
  PROVE  WorkInv'
<1>1. /\ stage = "leave" /\ stage' = "over" /\ round \in Round
      /\ tail' = [tail EXCEPT ![round].closed = TRUE]
      /\ UNCHANGED <<lines, out, marker, box, unsaved, reading, runLog, round, result, collected, killFaults>>
      BY DEF Leave, boxVars, WorkInv, WorkShape
<1>2. tail' \in [Round -> Place] /\ \A q \in Round : tail'[q].consumed = tail[q].consumed
      BY <1>1, ClosedSet DEF WorkInv
<1>3. \A q \in Round : reading[q].by # "main"
      BY <1>1 DEF WorkInv, ReadOn
<1>4. \A q \in Round : LinesOf(q)' = LinesOf(q)
      BY <1>1 DEF LinesOf
<1>5. WorkShape'
      BY <1>1, <1>2 DEF WorkInv, WorkShape
<1>6. ReadOn'
      BY <1>1, <1>2, <1>3 DEF WorkInv, ReadOn
<1>7. TailInOrder' /\ OnTheLog'
      BY <1>1, <1>2, InOrderStays DEF WorkInv
<1>8. OneAlive' /\ Drained'
      BY <1>1, <1>2, <1>3, <1>4 DEF WorkInv, OneAlive, Drained
<1>9. FilesHold' /\ OwnOutputs'
      BY <1>1 DEF WorkInv, FilesHold, OwnOutputs
<1> QED  BY <1>5, <1>6, <1>7, <1>8, <1>9 DEF WorkInv

\* The next round: nobody has used its container, and nothing of it is there.
LEMMA NextRoundKeeps ==
  ASSUME WorkInv, NextRound
  PROVE  WorkInv'
<1>1. /\ stage = "over" /\ round < Rounds /\ round' = round + 1 /\ stage' = "prepare"
      /\ result' = "none" /\ round \in Round
      /\ UNCHANGED <<lines, out, marker, box, unsaved, tail, reading, runLog, collected, killFaults>>
      BY DEF NextRound, boxVars, tailVars, WorkInv, WorkShape
<1>2. round' \in Round /\ \A q \in Round : (q < round' <=> q < round \/ q = round)
      BY <1>1, WorkspaceAssumption DEF Round
<1>3. \A q \in Round : q > round' \/ q = round' => q > round
      BY <1>1 DEF Round
<1>4. \A q \in Round : reading[q].by # "main"
      BY <1>1 DEF WorkInv, ReadOn
<1>5. \A q \in Round : LinesOf(q)' = LinesOf(q)
      BY <1>1 DEF LinesOf
<1>6. WorkShape'
      BY <1>1, <1>2 DEF WorkInv, WorkShape, Results
<1>7. ReadOn'
      BY <1>1, <1>4 DEF WorkInv, ReadOn
<1>8. TailInOrder' /\ OnTheLog'
      BY <1>1, InOrderStays DEF WorkInv
<1>9. OneAlive'
  <2>1. killFaults = 0 => \A q \in Round : box[q] \notin Alive
        BY <1>1 DEF WorkInv, OneAlive
  <2>2. \A q \in Round : q > round' \/ q = round' => box[q] = "off"
        BY <1>3 DEF WorkInv, OneAlive
  <2>3. \A q \in Round : box[q] = "off" => LinesOf(q) = {} /\ unsaved[q] = Ports
        BY DEF WorkInv, OneAlive
  <2> QED  BY <1>1, <1>5, <2>1, <2>2, <2>3 DEF OneAlive
<1>10. Drained'
  <2>1. killFaults = 0 =>
            \A q \in Round : q < round' => \A i \in LinesOf(q) : i <= tail[q].consumed
        BY <1>1, <1>2 DEF WorkInv, Drained
  <2> QED  BY <1>1, <1>4, <1>5, <2>1 DEF Drained
<1>11. FilesHold' /\ OwnOutputs'
  <2>1. unsaved[round'] = Ports
        BY <1>2, <1>3 DEF WorkInv, OneAlive
  <2> QED  BY <1>1, <2>1 DEF WorkInv, FilesHold, OwnOutputs
<1> QED  BY <1>6, <1>7, <1>8, <1>9, <1>10, <1>11 DEF WorkInv

-----------------------------------------------------------------------------

\* No step of the container, of the tail or of the runner takes it away.
LEMMA WorkKeeps == WorkInv /\ [WorkNext]_workVars => WorkInv'
<1> SUFFICES ASSUME WorkInv, [WorkNext]_workVars PROVE WorkInv'
    OBVIOUS
<1>1. ASSUME NEW r \in Round, Container(r) PROVE WorkInv'
      BY <1>1, StreamLogKeeps, InterpretKeeps, WriteOutputKeeps, LeaveMarkerKeeps, ExitZeroKeeps
      DEF Container
<1>2. ASSUME NEW r \in Round, Tick(r) PROVE WorkInv'
  <2>1. "follow" \in Readers /\ "follow" # "main"  BY DEF Readers
  <2> QED  BY <1>2, <2>1, ReadKeeps DEF Tick
<1>3. CASE DrainRead
  <2>1. "main" \in Readers  BY DEF Readers
  <2>2. round \in Round  BY DEF WorkInv, WorkShape
  <2> QED  BY <1>3, <2>1, <2>2, ReadKeeps DEF DrainRead
<1>4. CASE UNCHANGED workVars
  <2> USE <1>4 DEF workVars, boxVars, tailVars, hostVars
  <2>1. WorkShape' /\ ReadOn' /\ FilesHold' /\ OwnOutputs'
        BY DEF WorkInv, WorkShape, ReadOn, FilesHold, OwnOutputs
  <2>2. TailInOrder' /\ OnTheLog'
        BY InOrderStays DEF WorkInv
  <2>3. \A q \in Round : LinesOf(q)' = LinesOf(q)
        BY DEF LinesOf
  <2>4. OneAlive' /\ Drained'
        BY <2>3 DEF WorkInv, OneAlive, Drained
  <2> QED  BY <2>1, <2>2, <2>4 DEF WorkInv
<1> QED  BY <1>1, <1>2, <1>3, <1>4, TickLogsKeeps, FollowStopsKeeps, PrepareKeeps, ContainerExitsKeeps,
            KillKeeps, DrainLogsKeeps, CollectKeeps, LeaveKeeps, NextRoundKeeps DEF WorkNext

\* A round that is over has logged every line of a container that is gone.
LEMMA AllIsLogged == WorkInv => NoLineLost
<1> SUFFICES ASSUME WorkInv, NEW r \in Round, r < round \/ stage = "over", killFaults = 0,
                    Gone(r), NEW i \in LinesOf(r)
             PROVE  \E j \in DOMAIN runLog : runLog[j] = [tail |-> r, line |-> lines[i]]
    BY DEF NoLineLost
<1>1. ~(r > round)
  <2>1. box[r] # "off"  BY DEF Gone
  <2> QED  BY <2>1 DEF WorkInv, OneAlive
<1>2. r < round \/ (r = round /\ stage = "over")
      BY <1>1 DEF WorkInv, WorkShape, Round
<1>3. i <= tail[r].consumed
      BY <1>2 DEF WorkInv, Drained
<1>4. i \in 1..tail[r].consumed
      BY <1>3 DEF WorkInv, WorkShape, Place, LinesOf
<1> QED  BY <1>4 DEF WorkInv, OnTheLog

\* A container's log and files reach the run whole, for any number of rounds,
\* any ports and lines and however often docker kill fails: each tail logs
\* the file's lines in order, the last drain gets all of them, and outputs
\* are of the round that succeeded (execute.go: logTail, runBotOnce).
THEOREM WorkReachesRun == WorkSpec => []LogAndFilesWhole
<1>1. WorkInv => LogAndFilesWhole
      BY AllIsLogged DEF WorkInv, LogAndFilesWhole
<1> QED  BY <1>1, WorkStarts, WorkKeeps, PTL DEF WorkSpec

\* The types of Workspace: whoever reads or writes the directory when, a tail
\* never counts more lines than there are (execute.go: logTail).
THEOREM WorkTypes == WorkSpec => []WorkTypeOK
<1>1. WorkInv => WorkTypeOK
  <2> SUFFICES ASSUME WorkInv PROVE WorkTypeOK
      OBVIOUS
  <2>1. WorkShape /\ ReadOn  BY DEF WorkInv
  <2>2. \A i \in DOMAIN lines : lines[i] \in Round \X (1..Lines)
        BY <2>1, ElementOfSeq DEF WorkShape, Line
  <2>3. \A i \in DOMAIN runLog : runLog[i].tail \in Round
    <3>1. \A i \in DOMAIN runLog : runLog[i] \in Logged
          BY <2>1, ElementOfSeq DEF WorkShape
    <3> QED  BY <3>1 DEF Logged
  <2>4. ASSUME NEW r \in Round PROVE tail[r].consumed \in 0..Len(lines) /\ tail[r].closed \in BOOLEAN
    <3>1. tail[r] \in Place  BY <2>1 DEF WorkShape
    <3>2. tail[r].consumed \in Nat /\ tail[r].consumed <= Len(lines)
          BY <2>1, <3>1 DEF Place, ReadOn
    <3>3. Len(lines) \in Nat  BY <2>1, LenProperties DEF WorkShape
    <3>4. tail[r].consumed \in 0..Len(lines)  BY <3>2, <3>3
    <3>5. tail[r].closed \in BOOLEAN  BY <3>1 DEF Place
    <3> QED  BY <3>4, <3>5
  <2>5. \A r \in Round : reading[r].by \in Readers \cup {"nobody"}
        BY <2>1 DEF WorkShape, Reader
  <2> QED  BY <2>1, <2>2, <2>3, <2>4, <2>5 DEF WorkTypeOK, WorkShape
<1> QED  BY <1>1, WorkStarts, WorkKeeps, PTL DEF WorkSpec

-----------------------------------------------------------------------------
(* Agents.                                                                 *)

AgentCall == [at : {"new", "list", "load", "create", "invalidate", "save", "fill", "over"},
              name : Names, seen : SUBSET (Nat \X Names), id : Nat]
AgentShapes ==
    /\ remote \in SUBSET (Nat \X Names) /\ fresh \in Nat
    /\ listing \in SUBSET (Nat \X Names) /\ listed \in BOOLEAN
    /\ credential \in [Names -> Nat]
    /\ ensure \in [Ensure -> AgentCall]

\* The calls for n that have got that far.
Inquires(e, n) == Pending(e) /\ ensure[e].name = n
Stores(e, n) == ensure[e].name = n /\ ensure[e].at \in {"invalidate", "save", "fill"}

\* One call at a time asks for n, and the listing it decides by has n's agent:
\* from when the agent is made until the listing is dropped, that call is the
\* one that made it.
OneCall(n) == \A e, f \in Ensure : Inquires(e, n) /\ Inquires(f, n) => e = f
ListingKnows(n) ==
    /\ listed /\ (\A e \in Ensure : ~(ensure[e].name = n /\ ensure[e].at = "invalidate"))
          => \A k \in Nat : <<k, n>> \in remote => <<k, n>> \in listing
    /\ \A e \in Ensure : ensure[e].at = "load" /\ ensure[e].name = n
          => \A k \in Nat : <<k, n>> \in remote => <<k, n>> \in ensure[e].seen
\* n has one agent at most, and a credential for it once nobody is storing it.
AgentAndKey(n) ==
    /\ \A k, l \in Nat : <<k, n>> \in remote /\ <<l, n>> \in remote => k = l
    /\ \A e \in Ensure : ensure[e].at = "create" /\ ensure[e].name = n => \A k \in Nat : <<k, n>> \notin remote
    /\ \A e \in Ensure : Stores(e, n) => <<ensure[e].id, n>> \in remote
    /\ (\A e \in Ensure : ~Stores(e, n)) => \A k \in Nat : <<k, n>> \in remote => credential[n] = k

AgentsInv ==
    /\ AgentShapes
    /\ \A n \in Names \ disturbed : OneCall(n) /\ ListingKnows(n) /\ AgentAndKey(n)

\* One call goes on, the others do not.
LEMMA OneGoesOn ==
  ASSUME ensure \in [Ensure -> AgentCall], NEW e \in Ensure, NEW x \in AgentCall, ensure' = [ensure EXCEPT ![e] = x]
  PROVE  /\ ensure' \in [Ensure -> AgentCall] /\ ensure'[e] = x
         /\ \A f \in Ensure : f # e => ensure'[f] = ensure[f]
<1> HIDE DEF AgentCall
<1> QED  OBVIOUS

\* There is no agent and nobody has asked for one.
LEMMA AgentsInvInit == AgentsInit => AgentsInv
<1> SUFFICES ASSUME AgentsInit PROVE AgentsInv
    OBVIOUS
<1>1. Unstarted \in AgentCall
      BY DEF Unstarted, AgentCall, None, Names
<1>2. AgentShapes
  <2>1. ensure \in [Ensure -> AgentCall]
    <3> HIDE DEF AgentCall
    <3> QED  BY <1>1 DEF AgentsInit
  <2> QED  BY <2>1 DEF AgentsInit, AgentShapes, None
<1>3. \A e \in Ensure : ensure[e].at = "new"
      BY DEF AgentsInit, Unstarted
<1>4. \A n \in Names : OneCall(n) /\ ListingKnows(n) /\ AgentAndKey(n)
      BY <1>3 DEF AgentsInit, OneCall, ListingKnows, AgentAndKey, Inquires, Pending, Stores
<1> QED  BY <1>2, <1>4 DEF AgentsInv

\* What holds of a name goes on holding while the agents, the listing and the
\* credentials stay and a call for it moves to where nothing is known.
LEMMA CallLeaves ==
  ASSUME AgentsInv, NEW n \in Names \ disturbed, NEW e \in Ensure, NEW x \in AgentCall,
         ensure' = [ensure EXCEPT ![e] = x], x.name = ensure[e].name, Pending(e),
         x.at = "over", ensure[e].at \in {"list", "load", "create"},
         UNCHANGED <<remote, listing, listed, credential>>
  PROVE  OneCall(n)' /\ ListingKnows(n)' /\ AgentAndKey(n)'
<1>1. /\ ensure'[e] = x /\ \A f \in Ensure : f # e => ensure'[f] = ensure[f]
      BY OneGoesOn DEF AgentsInv, AgentShapes
<1>2. OneCall(n) /\ ListingKnows(n) /\ AgentAndKey(n)  BY DEF AgentsInv
<1>3. OneCall(n)'
      BY <1>1, <1>2 DEF OneCall, Inquires, Pending
<1>4. ListingKnows(n)'
      BY <1>1, <1>2 DEF ListingKnows
<1>5. AgentAndKey(n)'
      BY <1>1, <1>2 DEF AgentAndKey, Stores
<1> QED  BY <1>3, <1>4, <1>5


\* The record of a call in AgentCall, and its name in Names.
LEMMA CallTyped ==
  ASSUME AgentShapes, NEW e \in Ensure
  PROVE  ensure[e] \in AgentCall /\ ensure[e].name \in Names /\ ensure[e].id \in Nat
<1>1. ensure[e] \in AgentCall  BY DEF AgentShapes
<1> QED  BY <1>1 DEF AgentCall

\* A call returns where it had nothing to store.
LEMMA ReturnsKeeps ==
  ASSUME AgentsInv, NEW e \in Ensure, ensure[e].at \in {"list", "load", "create"}, NEW how, Returns(e, how),
         UNCHANGED <<remote, listing, listed, credential, fresh, disturbed>>
  PROVE  AgentsInv'
<1>1. ensure[e] \in AgentCall  BY CallTyped DEF AgentsInv
<1>2. PICK x : x = [ensure[e] EXCEPT !.at = "over", !.seen = {}]
      OBVIOUS
<1>3. x \in AgentCall /\ x.at = "over" /\ x.name = ensure[e].name
      BY <1>1, <1>2 DEF AgentCall
<1>4. ensure' = [ensure EXCEPT ![e] = x]
      BY <1>2 DEF Returns, EnsureOver
<1>5. ensure' \in [Ensure -> AgentCall]
      BY <1>3, <1>4, OneGoesOn DEF AgentsInv, AgentShapes
<1>6. AgentShapes'
      BY <1>5 DEF AgentsInv, AgentShapes
<1>7. Pending(e)  BY DEF Pending
<1>8. ASSUME NEW n \in Names \ disturbed PROVE OneCall(n)' /\ ListingKnows(n)' /\ AgentAndKey(n)'
      BY <1>3, <1>4, <1>7, CallLeaves
<1> QED  BY <1>6, <1>8 DEF AgentsInv

\* An agent is asked for.
LEMMA AskingKeeps ==
  ASSUME AgentsInv, NEW e \in Ensure, NEW p \in Names, Asking(e, p)
  PROVE  AgentsInv'
<1>1. ensure[e] \in AgentCall /\ ensure[e].at = "new"  BY CallTyped DEF AgentsInv, Asking
<1>2. PICK x : x = [ensure[e] EXCEPT !.at = "list", !.name = p]
      OBVIOUS
<1>3. x \in AgentCall /\ x.at = "list" /\ x.name = p
      BY <1>1, <1>2 DEF AgentCall
<1>4. ensure' = [ensure EXCEPT ![e] = x]
      BY <1>2 DEF Asking
<1>5. /\ ensure' \in [Ensure -> AgentCall] /\ ensure'[e] = x
      /\ \A f \in Ensure : f # e => ensure'[f] = ensure[f]
      BY <1>3, <1>4, OneGoesOn DEF AgentsInv, AgentShapes
<1>6. UNCHANGED <<remote, fresh, listing, listed, credential>>  BY DEF Asking
<1>7. AgentShapes'
      BY <1>5, <1>6 DEF AgentsInv, AgentShapes
<1>8. ASSUME NEW n \in Names \ disturbed' PROVE OneCall(n)' /\ ListingKnows(n)' /\ AgentAndKey(n)'
  <2>1. n \notin disturbed /\ (p = n => \A f \in Ensure : ~Inquires(f, n))
        BY <1>8 DEF Asking, Disturb, Inquires
  <2>2. OneCall(n) /\ ListingKnows(n) /\ AgentAndKey(n)  BY <2>1 DEF AgentsInv
  <2>3. OneCall(n)'
        BY <1>3, <1>5, <2>1, <2>2 DEF OneCall, Inquires, Pending
  <2>4. ListingKnows(n)'
        BY <1>1, <1>3, <1>5, <1>6, <2>2 DEF ListingKnows
  <2>5. AgentAndKey(n)'
        BY <1>1, <1>3, <1>5, <1>6, <2>2 DEF AgentAndKey, Stores
  <2> QED  BY <2>3, <2>4, <2>5
<1> QED  BY <1>7, <1>8 DEF AgentsInv

\* A call reads the listing, or has it made.
LEMMA ListKeeps ==
  ASSUME AgentsInv, NEW e \in Ensure, ListAgents(e)
  PROVE  AgentsInv'
<1>1. /\ ensure[e] \in AgentCall /\ ensure[e].at = "list" /\ ensure[e].name \in Names
      /\ UNCHANGED <<remote, fresh, credential, disturbed>>
      BY CallTyped DEF AgentsInv, ListAgents
<1>2. CASE Returns(e, "error") /\ UNCHANGED <<listing, listed>>
      BY <1>1, <1>2, ReturnsKeeps
<1>3. ASSUME NEW s \in SUBSET (Nat \X Names), (s = listing /\ listed) \/ s = remote,
             ensure' = [ensure EXCEPT ![e].at = "load", ![e].seen = s],
             listed', listing' = s
      PROVE  AgentsInv'
  <2>1. PICK x : x = [ensure[e] EXCEPT !.at = "load", !.seen = s]
        OBVIOUS
  <2>2. x \in AgentCall /\ x.at = "load" /\ x.name = ensure[e].name /\ x.seen = s
        BY <1>1, <2>1 DEF AgentCall
  <2>3. ensure' = [ensure EXCEPT ![e] = x]
        BY <1>3, <2>1
  <2>4. /\ ensure' \in [Ensure -> AgentCall] /\ ensure'[e] = x
        /\ \A f \in Ensure : f # e => ensure'[f] = ensure[f]
        BY <2>2, <2>3, OneGoesOn DEF AgentsInv, AgentShapes
  <2>5. AgentShapes'
        BY <1>1, <1>3, <2>4 DEF AgentsInv, AgentShapes
  <2>6. ASSUME NEW n \in Names \ disturbed PROVE OneCall(n)' /\ ListingKnows(n)' /\ AgentAndKey(n)'
    <3>1. OneCall(n) /\ ListingKnows(n) /\ AgentAndKey(n)  BY DEF AgentsInv
    <3>2. OneCall(n)'
          BY <1>1, <2>2, <2>4, <3>1 DEF OneCall, Inquires, Pending
    <3>3. AgentAndKey(n)'
          BY <1>1, <2>2, <2>4, <3>1 DEF AgentAndKey, Stores
    <3>4. ASSUME \A f \in Ensure : ~(ensure[f].name = n /\ ensure[f].at = "invalidate"), NEW k \in Nat, <<k, n>> \in remote
          PROVE  <<k, n>> \in s
          BY <1>3, <3>1, <3>4 DEF ListingKnows
    <3>5. ensure[e].name = n => \A f \in Ensure : ~(ensure[f].name = n /\ ensure[f].at = "invalidate")
          BY <1>1, <3>1 DEF OneCall, Inquires, Pending
    <3>6. ListingKnows(n)'
          BY <1>1, <1>3, <2>2, <2>4, <3>1, <3>4, <3>5 DEF ListingKnows
    <3> QED  BY <3>2, <3>3, <3>6
  <2> QED  BY <1>1, <2>5, <2>6 DEF AgentsInv
<1>4. listing \in SUBSET (Nat \X Names) /\ remote \in SUBSET (Nat \X Names)
      BY DEF AgentsInv, AgentShapes
<1> QED  BY <1>1, <1>2, <1>3, <1>4 DEF ListAgents

\* A call that finds no agent of its name in the listing creates one: there is none.
LEMMA LoadKeeps ==
  ASSUME AgentsInv, NEW e \in Ensure, LoadCredential(e)
  PROVE  AgentsInv'
<1>1. /\ ensure[e] \in AgentCall /\ ensure[e].at = "load" /\ ensure[e].name \in Names
      /\ UNCHANGED <<remote, fresh, listing, listed, credential, disturbed>>
      BY CallTyped DEF AgentsInv, LoadCredential
<1>2. CASE Returns(e, "error") \/ Returns(e, "known")
      BY <1>1, <1>2, ReturnsKeeps
<1>3. CASE ~Taken(e) /\ ensure' = [ensure EXCEPT ![e].at = "create"]
  <2>1. PICK x : x = [ensure[e] EXCEPT !.at = "create"]
        OBVIOUS
  <2>2. x \in AgentCall /\ x.at = "create" /\ x.name = ensure[e].name
        BY <1>1, <2>1 DEF AgentCall
  <2>3. ensure' = [ensure EXCEPT ![e] = x]
        BY <1>3, <2>1
  <2>4. /\ ensure' \in [Ensure -> AgentCall] /\ ensure'[e] = x
        /\ \A f \in Ensure : f # e => ensure'[f] = ensure[f]
        BY <2>2, <2>3, OneGoesOn DEF AgentsInv, AgentShapes
  <2>5. AgentShapes'
        BY <1>1, <2>4 DEF AgentsInv, AgentShapes
  <2>6. ASSUME NEW n \in Names \ disturbed PROVE OneCall(n)' /\ ListingKnows(n)' /\ AgentAndKey(n)'
    <3>1. OneCall(n) /\ ListingKnows(n) /\ AgentAndKey(n)  BY DEF AgentsInv
    <3>2. OneCall(n)'
          BY <1>1, <2>2, <2>4, <3>1 DEF OneCall, Inquires, Pending
    <3>3. ListingKnows(n)'
          BY <1>1, <2>2, <2>4, <3>1 DEF ListingKnows
    <3>4. ensure[e].name = n => \A k \in Nat : <<k, n>> \notin remote
          BY <1>1, <1>3, <3>1 DEF ListingKnows, Taken
    <3>5. AgentAndKey(n)'
          BY <1>1, <2>2, <2>4, <3>1, <3>4 DEF AgentAndKey, Stores
    <3> QED  BY <3>2, <3>3, <3>5
  <2> QED  BY <1>1, <2>5, <2>6 DEF AgentsInv
<1> QED  BY <1>2, <1>3 DEF LoadCredential

\* An agent is created once: nobody else asks for it, and there is none.  An
\* agent made by a request that failed is a lost key, and counts as disturbed.
LEMMA CreateKeeps ==
  ASSUME AgentsInv, NEW e \in Ensure, CreateAgent(e)
  PROVE  AgentsInv'
<1>1. /\ ensure[e] \in AgentCall /\ ensure[e].at = "create" /\ ensure[e].name \in Names
      /\ UNCHANGED <<listing, listed, credential>>
      BY CallTyped DEF AgentsInv, CreateAgent
<1>2. CASE Returns(e, "error") /\ UNCHANGED <<remote, fresh, disturbed>>
      BY <1>1, <1>2, ReturnsKeeps
<1>3. PICK p \in Names : p = ensure[e].name
      BY <1>1
<1>4. /\ fresh \in Nat /\ fresh + 1 \in Nat /\ remote \cup {<<fresh, p>>} \in SUBSET (Nat \X Names)
      /\ {} \in SUBSET (Nat \X Names)
      BY DEF AgentsInv, AgentShapes
<1>5. CASE /\ remote' = remote \cup {<<fresh, p>>} /\ fresh' = fresh + 1 /\ UNCHANGED disturbed
           /\ ensure' = [ensure EXCEPT ![e].at = "invalidate", ![e].id = fresh, ![e].seen = {}]
  <2>1. PICK x : x = [ensure[e] EXCEPT !.at = "invalidate", !.id = fresh, !.seen = {}]
        OBVIOUS
  <2>2. x \in AgentCall /\ x.at = "invalidate" /\ x.name = p /\ x.id = fresh
        BY <1>1, <1>3, <1>4, <2>1 DEF AgentCall
  <2>3. ensure' = [ensure EXCEPT ![e] = x]
        BY <1>5, <2>1
  <2>4. /\ ensure' \in [Ensure -> AgentCall] /\ ensure'[e] = x
        /\ \A f \in Ensure : f # e => ensure'[f] = ensure[f]
        BY <2>2, <2>3, OneGoesOn DEF AgentsInv, AgentShapes
  <2>5. AgentShapes'
        BY <1>1, <1>4, <1>5, <2>4 DEF AgentsInv, AgentShapes
  <2>6. ASSUME NEW n \in Names \ disturbed PROVE OneCall(n)' /\ ListingKnows(n)' /\ AgentAndKey(n)'
    <3>1. OneCall(n) /\ ListingKnows(n) /\ AgentAndKey(n)  BY DEF AgentsInv
    <3>2. \A k \in Nat : <<k, n>> \in remote' <=> <<k, n>> \in remote \/ (k = fresh /\ n = p)
          BY <1>5
    <3>3. OneCall(n)'
          BY <1>1, <1>3, <2>2, <2>4, <3>1 DEF OneCall, Inquires, Pending
    <3>4. p = n => \A f \in Ensure : f # e => ~Inquires(f, n)
          BY <1>1, <1>3, <3>1 DEF OneCall, Inquires, Pending
    <3>5. ListingKnows(n)'
          BY <1>1, <2>2, <2>4, <3>1, <3>2, <3>4 DEF ListingKnows, Inquires, Pending
    <3>6. p = n => \A k \in Nat : <<k, n>> \notin remote
          BY <1>1, <1>3, <3>1 DEF AgentAndKey
    <3>7. \A f \in Ensure : Stores(f, n)' => <<ensure'[f].id, n>> \in remote'
          BY <1>4, <1>5, <2>2, <2>4, <3>1, <3>2 DEF AgentAndKey, Stores
    <3>8. \A f \in Ensure : ensure'[f].at = "create" /\ ensure'[f].name = n => \A k \in Nat : <<k, n>> \notin remote'
          BY <2>2, <2>4, <3>1, <3>2, <3>4 DEF AgentAndKey, Inquires, Pending
    <3>9. (\A f \in Ensure : ~Stores(f, n)') => \A k \in Nat : <<k, n>> \in remote' => credential'[n] = k
      <4>1. SUFFICES ASSUME \A f \in Ensure : ~Stores(f, n)' PROVE \A k \in Nat : <<k, n>> \in remote' => credential'[n] = k
            OBVIOUS
      <4>2. p # n  BY <2>2, <2>4, <4>1 DEF Stores
      <4>3. \A f \in Ensure : ~Stores(f, n)  BY <1>1, <2>4, <4>1 DEF Stores
      <4> QED  BY <1>1, <3>1, <3>2, <4>2, <4>3 DEF AgentAndKey
    <3>10. \A k, l \in Nat : <<k, n>> \in remote' /\ <<l, n>> \in remote' => k = l
          BY <3>1, <3>2, <3>6 DEF AgentAndKey
    <3> QED  BY <3>3, <3>5, <3>7, <3>8, <3>9, <3>10 DEF AgentAndKey
  <2> QED  BY <1>5, <2>5, <2>6 DEF AgentsInv
<1>6. CASE /\ remote' = remote \cup {<<fresh, p>>} /\ fresh' = fresh + 1 /\ Disturb(p)
           /\ Returns(e, "error")
  <2>1. PICK x : x = [ensure[e] EXCEPT !.at = "over", !.seen = {}]
        OBVIOUS
  <2>2. x \in AgentCall /\ x.at = "over" /\ x.name = p
        BY <1>1, <1>3, <2>1 DEF AgentCall
  <2>3. ensure' = [ensure EXCEPT ![e] = x]
        BY <1>6, <2>1 DEF Returns, EnsureOver
  <2>4. /\ ensure' \in [Ensure -> AgentCall] /\ ensure'[e] = x
        /\ \A f \in Ensure : f # e => ensure'[f] = ensure[f]
        BY <2>2, <2>3, OneGoesOn DEF AgentsInv, AgentShapes
  <2>5. AgentShapes'
        BY <1>1, <1>4, <1>6, <2>4 DEF AgentsInv, AgentShapes
  <2>6. ASSUME NEW n \in Names \ disturbed' PROVE OneCall(n)' /\ ListingKnows(n)' /\ AgentAndKey(n)'
    <3>1. n # p /\ n \notin disturbed  BY <1>6 DEF Disturb
    <3>2. OneCall(n) /\ ListingKnows(n) /\ AgentAndKey(n)  BY <3>1 DEF AgentsInv
    <3>3. \A k \in Nat : <<k, n>> \in remote' <=> <<k, n>> \in remote
          BY <1>6, <3>1
    <3>4. OneCall(n)'
          BY <2>2, <2>4, <3>1, <3>2 DEF OneCall, Inquires, Pending
    <3>5. ListingKnows(n)'
          BY <1>1, <1>3, <2>2, <2>4, <3>1, <3>2, <3>3 DEF ListingKnows
    <3>6. \A f \in Ensure : Stores(f, n)' <=> Stores(f, n)
          BY <1>3, <2>2, <2>4, <3>1 DEF Stores
    <3>7. \A f \in Ensure : Stores(f, n)' => ensure'[f].id = ensure[f].id
          BY <2>2, <2>4, <3>1 DEF Stores
    <3>8. AgentAndKey(n)'
      <4>1. \A f \in Ensure : Stores(f, n)' => <<ensure'[f].id, n>> \in remote'
            BY <1>6, <3>2, <3>6, <3>7 DEF AgentAndKey
      <4> QED  BY <1>1, <2>2, <2>4, <3>1, <3>2, <3>3, <3>6, <4>1 DEF AgentAndKey
    <3> QED  BY <3>4, <3>5, <3>8
  <2> QED  BY <2>5, <2>6 DEF AgentsInv
<1> QED  BY <1>2, <1>3, <1>5, <1>6 DEF CreateAgent

\* The listing is dropped.
LEMMA DropKeeps ==
  ASSUME AgentsInv, Forget \/ \E e \in Ensure : Invalidate(e)
  PROVE  AgentsInv'
<1>1. /\ UNCHANGED <<remote, fresh, credential, disturbed>> /\ listed' = FALSE /\ listing' = {}
      BY DEF Forget, Invalidate, Invalidated
<1>2. CASE UNCHANGED ensure
  <2>1. AgentShapes'  BY <1>1, <1>2 DEF AgentsInv, AgentShapes
  <2>2. ASSUME NEW n \in Names \ disturbed PROVE OneCall(n)' /\ ListingKnows(n)' /\ AgentAndKey(n)'
        BY <1>1, <1>2 DEF AgentsInv, OneCall, ListingKnows, AgentAndKey, Inquires, Pending, Stores
  <2> QED  BY <1>1, <2>1, <2>2 DEF AgentsInv
<1>3. ASSUME NEW e \in Ensure, Invalidate(e) PROVE AgentsInv'
  <2>1. ensure[e] \in AgentCall /\ ensure[e].at = "invalidate"  BY <1>3, CallTyped DEF AgentsInv, Invalidate
  <2>2. PICK x : x = [ensure[e] EXCEPT !.at = "save"]
        OBVIOUS
  <2>3. x \in AgentCall /\ x.at = "save" /\ x.name = ensure[e].name /\ x.id = ensure[e].id
        BY <2>1, <2>2 DEF AgentCall
  <2>4. ensure' = [ensure EXCEPT ![e] = x]
        BY <1>3, <2>2 DEF Invalidate
  <2>5. /\ ensure' \in [Ensure -> AgentCall] /\ ensure'[e] = x
        /\ \A f \in Ensure : f # e => ensure'[f] = ensure[f]
        BY <2>3, <2>4, OneGoesOn DEF AgentsInv, AgentShapes
  <2>6. AgentShapes'
        BY <1>1, <2>5 DEF AgentsInv, AgentShapes
  <2>7. ASSUME NEW n \in Names \ disturbed PROVE OneCall(n)' /\ ListingKnows(n)' /\ AgentAndKey(n)'
    <3>1. OneCall(n) /\ ListingKnows(n) /\ AgentAndKey(n)  BY DEF AgentsInv
    <3>2. OneCall(n)'
          BY <2>1, <2>3, <2>5, <3>1 DEF OneCall, Inquires, Pending
    <3>3. ListingKnows(n)'
          BY <1>1, <2>3, <2>5, <3>1 DEF ListingKnows
    <3>4. \A f \in Ensure : (Stores(f, n)' <=> Stores(f, n)) /\ ensure'[f].id = ensure[f].id
          BY <2>1, <2>3, <2>5 DEF Stores
    <3>5. AgentAndKey(n)'
          BY <1>1, <2>3, <2>5, <3>1, <3>4 DEF AgentAndKey
    <3> QED  BY <3>2, <3>3, <3>5
  <2> QED  BY <1>1, <2>6, <2>7 DEF AgentsInv
<1> QED  BY <1>2, <1>3 DEF Forget

\* A call that stores a credential goes on: it is the only one of its name.
LEMMA StoringKeeps ==
  ASSUME AgentsInv, NEW e \in Ensure, NEW x \in AgentCall, x.name = ensure[e].name, x.id = ensure[e].id,
         NEW c \in Nat, ensure[e].at \in {"save", "fill"}, x.at \in {"fill", "over"},
         x.at = "over" => c = ensure[e].id,
         ensure' = [ensure EXCEPT ![e] = x], credential' = [credential EXCEPT ![ensure[e].name] = c],
         UNCHANGED <<remote, fresh, listing, listed, disturbed>>
  PROVE  AgentsInv'
<1>1. PICK p \in Names : p = ensure[e].name
      BY CallTyped DEF AgentsInv
<1>2. /\ ensure' \in [Ensure -> AgentCall] /\ ensure'[e] = x
      /\ \A f \in Ensure : f # e => ensure'[f] = ensure[f]
      BY OneGoesOn DEF AgentsInv, AgentShapes
<1>3. /\ credential' \in [Names -> Nat] /\ credential'[p] = c
      /\ \A n \in Names : n # p => credential'[n] = credential[n]
      BY <1>1 DEF AgentsInv, AgentShapes
<1>4. AgentShapes'
      BY <1>2, <1>3 DEF AgentsInv, AgentShapes
<1>5. ASSUME NEW n \in Names \ disturbed PROVE OneCall(n)' /\ ListingKnows(n)' /\ AgentAndKey(n)'
  <2>1. OneCall(n) /\ ListingKnows(n) /\ AgentAndKey(n)  BY DEF AgentsInv
  <2>2. OneCall(n)'
        BY <1>1, <1>2, <2>1 DEF OneCall, Inquires, Pending
  <2>3. ListingKnows(n)'
        BY <1>1, <1>2, <2>1 DEF ListingKnows
  <2>4. \A f \in Ensure : Stores(f, n)' => Stores(f, n) /\ ensure'[f].id = ensure[f].id
        BY <1>1, <1>2 DEF Stores
  <2>5. \A f \in Ensure : Stores(f, n)' => <<ensure'[f].id, n>> \in remote'
        BY <2>1, <2>4 DEF AgentAndKey
  <2>6. \A f \in Ensure : ensure'[f].at = "create" /\ ensure'[f].name = n => \A k \in Nat : <<k, n>> \notin remote'
        BY <1>2, <2>1 DEF AgentAndKey
  <2>7. (\A f \in Ensure : ~Stores(f, n)') => \A k \in Nat : <<k, n>> \in remote' => credential'[n] = k
    <3>1. SUFFICES ASSUME \A f \in Ensure : ~Stores(f, n)', NEW k \in Nat, <<k, n>> \in remote PROVE credential'[n] = k
          OBVIOUS
    <3>2. CASE n = p
      <4>1. x.at = "over" /\ Stores(e, n)  BY <1>1, <1>2, <3>1, <3>2 DEF Stores
      <4>2. <<ensure[e].id, n>> \in remote /\ ensure[e].id \in Nat  BY <2>1, <4>1, CallTyped DEF AgentAndKey, AgentsInv
      <4> QED  BY <1>3, <2>1, <3>1, <3>2, <4>1, <4>2 DEF AgentAndKey
    <3>3. CASE n # p
      <4>1. \A f \in Ensure : ~Stores(f, n)  BY <1>1, <1>2, <3>1, <3>3 DEF Stores
      <4> QED  BY <1>3, <2>1, <3>1, <3>3, <4>1 DEF AgentAndKey
    <3> QED  BY <3>2, <3>3
  <2>8. \A k, l \in Nat : <<k, n>> \in remote' /\ <<l, n>> \in remote' => k = l
        BY <2>1 DEF AgentAndKey
  <2> QED  BY <2>2, <2>3, <2>5, <2>6, <2>7, <2>8 DEF AgentAndKey
<1> QED  BY <1>4, <1>5 DEF AgentsInv

\* The credential file is emptied and filled; one that cannot be written is a
\* lost key, and counts as disturbed.
LEMMA SaveKeeps ==
  ASSUME AgentsInv, NEW e \in Ensure, SaveCredential(e)
  PROVE  AgentsInv'
<1>1. /\ ensure[e] \in AgentCall /\ ensure[e].at \in {"save", "fill"} /\ ensure[e].id \in Nat
      /\ ensure[e].name \in Names
      /\ UNCHANGED <<remote, fresh, listing, listed>>
      BY CallTyped DEF AgentsInv, SaveCredential
<1>2. CASE /\ ensure[e].at = "save" /\ credential' = [credential EXCEPT ![ensure[e].name] = CutOff]
           /\ ensure' = [ensure EXCEPT ![e].at = "fill"] /\ UNCHANGED disturbed
  <2>1. PICK x : x = [ensure[e] EXCEPT !.at = "fill"]
        OBVIOUS
  <2>2. x \in AgentCall /\ x.at = "fill" /\ x.name = ensure[e].name /\ x.id = ensure[e].id
        BY <1>1, <2>1 DEF AgentCall
  <2>3. ensure' = [ensure EXCEPT ![e] = x]
        BY <1>2, <2>1
  <2>4. CutOff \in Nat  BY AgentsAssumption DEF CutOff
  <2> QED  BY <1>1, <1>2, <2>2, <2>3, <2>4, StoringKeeps
<1>3. CASE /\ ensure[e].at = "fill" /\ credential' = [credential EXCEPT ![ensure[e].name] = ensure[e].id]
           /\ Returns(e, "known") /\ UNCHANGED disturbed
  <2>1. PICK x : x = [ensure[e] EXCEPT !.at = "over", !.seen = {}]
        OBVIOUS
  <2>2. x \in AgentCall /\ x.at = "over" /\ x.name = ensure[e].name /\ x.id = ensure[e].id
        BY <1>1, <2>1 DEF AgentCall
  <2>3. ensure' = [ensure EXCEPT ![e] = x]
        BY <1>3, <2>1 DEF Returns, EnsureOver
  <2> QED  BY <1>1, <1>3, <2>2, <2>3, StoringKeeps
<1>4. CASE /\ ensure[e].at = "save" /\ Returns(e, "error") /\ Disturb(ensure[e].name) /\ UNCHANGED credential
  <2>1. PICK x : x = [ensure[e] EXCEPT !.at = "over", !.seen = {}]
        OBVIOUS
  <2>2. x \in AgentCall /\ x.at = "over" /\ x.name = ensure[e].name
        BY <1>1, <2>1 DEF AgentCall
  <2>3. ensure' = [ensure EXCEPT ![e] = x]
        BY <1>4, <2>1 DEF Returns, EnsureOver
  <2>4. /\ ensure' \in [Ensure -> AgentCall] /\ ensure'[e] = x
        /\ \A f \in Ensure : f # e => ensure'[f] = ensure[f]
        BY <2>2, <2>3, OneGoesOn DEF AgentsInv, AgentShapes
  <2>5. AgentShapes'
        BY <1>1, <1>4, <2>4 DEF AgentsInv, AgentShapes
  <2>6. ASSUME NEW n \in Names \ disturbed' PROVE OneCall(n)' /\ ListingKnows(n)' /\ AgentAndKey(n)'
    <3>1. n # ensure[e].name /\ n \notin disturbed  BY <1>4 DEF Disturb
    <3>2. OneCall(n) /\ ListingKnows(n) /\ AgentAndKey(n)  BY <3>1 DEF AgentsInv
    <3>3. OneCall(n)'
          BY <2>2, <2>4, <3>1, <3>2 DEF OneCall, Inquires, Pending
    <3>4. ListingKnows(n)'
          BY <1>1, <1>4, <2>2, <2>4, <3>1, <3>2 DEF ListingKnows
    <3>5. AgentAndKey(n)'
          BY <1>1, <1>4, <2>2, <2>4, <3>1, <3>2 DEF AgentAndKey, Stores
    <3> QED  BY <3>3, <3>4, <3>5
  <2> QED  BY <2>5, <2>6 DEF AgentsInv
<1> QED  BY <1>2, <1>3, <1>4 DEF SaveCredential, CredentialPath

\* An agent deleted behind the daemon's back counts as disturbed.
LEMMA PruneKeeps ==
  ASSUME AgentsInv, Prune
  PROVE  AgentsInv'
<1>1. UNCHANGED <<fresh, listing, listed, ensure>>  BY DEF Prune
<1>2. PICK a \in remote : /\ remote' = remote \ {a} /\ Disturb(a[2])
                          /\ \/ credential' = [credential EXCEPT ![a[2]] = None]
                             \/ UNCHANGED credential
      BY DEF Prune
<1>3. PICK i \in Nat, p \in Names : a = <<i, p>>
      BY DEF AgentsInv, AgentShapes
<1>4. /\ credential' \in [Names -> Nat] /\ \A n \in Names : n # p => credential'[n] = credential[n]
      BY <1>2, <1>3 DEF AgentsInv, AgentShapes, None
<1>5. AgentShapes'
      BY <1>1, <1>2, <1>4 DEF AgentsInv, AgentShapes
<1>6. ASSUME NEW n \in Names \ disturbed' PROVE OneCall(n)' /\ ListingKnows(n)' /\ AgentAndKey(n)'
  <2>1. n # p /\ n \notin disturbed  BY <1>2, <1>3, <1>6 DEF Disturb
  <2>2. OneCall(n) /\ ListingKnows(n) /\ AgentAndKey(n)  BY <2>1 DEF AgentsInv
  <2>3. \A k \in Nat : <<k, n>> \in remote' <=> <<k, n>> \in remote
        BY <1>2, <1>3, <2>1
  <2>4. OneCall(n)'  BY <1>1, <2>2 DEF OneCall, Inquires, Pending
  <2>5. ListingKnows(n)'  BY <1>1, <2>2, <2>3 DEF ListingKnows
  <2>6. \A f \in Ensure : Stores(f, n)' => <<ensure'[f].id, n>> \in remote'
    <3>1. \A f \in Ensure : Stores(f, n) => <<ensure[f].id, n>> \in remote /\ ensure[f].id \in Nat
          BY <2>2, CallTyped DEF AgentAndKey, AgentsInv
    <3> QED  BY <1>1, <2>3, <3>1 DEF Stores
  <2>7. AgentAndKey(n)'  BY <1>1, <1>4, <2>1, <2>2, <2>3, <2>6 DEF AgentAndKey, Stores
  <2> QED  BY <2>4, <2>5, <2>7
<1> QED  BY <1>5, <1>6 DEF AgentsInv

\* The daemon dies with the calls it was making.
LEMMA StopsKeep ==
  ASSUME AgentsInv, DaemonStops
  PROVE  AgentsInv'
<1>1. UNCHANGED <<remote, fresh, credential>> /\ listed' = FALSE /\ listing' = {}
      BY DEF DaemonStops
<1>2. \A e \in Ensure : ensure'[e] \in AgentCall /\ ensure'[e].at \in {"new", "over"}
  <2>1. TAKE e \in Ensure
  <2>2. ensure[e] \in AgentCall  BY CallTyped DEF AgentsInv
  <2>3. CASE Pending(e)
    <3>1. PICK x : x = [ensure[e] EXCEPT !.at = "over", !.seen = {}]
          OBVIOUS
    <3>2. EnsureOver(e)[e] = x  BY <3>1 DEF EnsureOver, AgentsInv, AgentShapes
    <3>3. ensure'[e] = x  BY <2>3, <3>2 DEF DaemonStops
    <3> QED  BY <2>2, <3>1, <3>3 DEF AgentCall
  <2>4. CASE ~Pending(e)
        BY <2>2, <2>4 DEF DaemonStops, Pending
  <2> QED  BY <2>3, <2>4
<1>3. ensure' \in [Ensure -> AgentCall]
  <2>1. ensure' = [e \in Ensure |-> ensure'[e]]  BY DEF DaemonStops
  <2> HIDE DEF AgentCall
  <2> QED  BY <1>2, <2>1
<1>4. AgentShapes'
      BY <1>1, <1>3 DEF AgentsInv, AgentShapes
<1>5. ASSUME NEW n \in Names \ disturbed' PROVE OneCall(n)' /\ ListingKnows(n)' /\ AgentAndKey(n)'
  <2>1. n \notin disturbed /\ \A e \in Ensure : ~Inquires(e, n)
        BY <1>5 DEF DaemonStops, Inquires
  <2>2. OneCall(n) /\ ListingKnows(n) /\ AgentAndKey(n)  BY <2>1 DEF AgentsInv
  <2>3. \A e \in Ensure : ~Inquires(e, n)' /\ ~Stores(e, n)' /\ ~Stores(e, n)
        BY <1>2, <2>1 DEF Inquires, Pending, Stores
  <2>4. OneCall(n)'  BY <2>3 DEF OneCall
  <2>5. ListingKnows(n)'  BY <1>1, <1>2 DEF ListingKnows
  <2>6. AgentAndKey(n)'  BY <1>1, <1>2, <2>2, <2>3 DEF AgentAndKey
  <2> QED  BY <2>4, <2>5, <2>6
<1> QED  BY <1>4, <1>5 DEF AgentsInv

\* A name has one agent at most, and the key for it.
LEMMA OneOfEach == AgentsInv => OneAgentAndItsKey
<1> SUFFICES ASSUME AgentsInv, NEW n \in Names \ disturbed,
                    \A e \in Ensure : ~(Pending(e) /\ ensure[e].name = n),
                    NEW made, made = {a[1] : a \in {b \in remote : b[2] = n}}
             PROVE  Cardinality(made) <= 1 /\ (made # {} => credential[n] \in made)
    BY DEF OneAgentAndItsKey
<1>1. \A k : k \in made <=> k \in Nat /\ <<k, n>> \in remote
      BY DEF AgentsInv, AgentShapes
<1>2. \A e \in Ensure : ~Stores(e, n)
      BY DEF Stores, Pending
<1>3. \A k \in Nat : <<k, n>> \in remote => credential[n] = k
      BY <1>2 DEF AgentsInv, AgentAndKey
<1>4. CASE made = {}
      BY <1>4, FS_EmptySet
<1>5. CASE made # {}
  <2>1. made = {credential[n]}  BY <1>1, <1>3, <1>5
  <2>2. Cardinality(made) = 1  BY <2>1, FS_Singleton
  <2> QED  BY <2>1, <2>2
<1> QED  BY <1>4, <1>5

\* Each step keeps what holds of agents and keys.
LEMMA AgentsInvStep == AgentsInv /\ [AgentsNext]_agentVars => AgentsInv'
<1> SUFFICES ASSUME AgentsInv, [AgentsNext]_agentVars PROVE AgentsInv'
    OBVIOUS
<1>1. ASSUME NEW e \in Ensure, AgentFor(e) \/ ApprovalAgent(e) PROVE AgentsInv'
  <2>1. PICK p \in Names : Asking(e, p)  BY <1>1 DEF AgentFor, ApprovalAgent, Names
  <2> QED  BY <2>1, AskingKeeps
<1>2. CASE UNCHANGED agentVars
  <2>1. UNCHANGED <<remote, fresh, listing, listed, credential, ensure, disturbed>>
        BY <1>2 DEF agentVars
  <2>2. AgentShapes'  BY <2>1 DEF AgentsInv, AgentShapes
  <2>3. ASSUME NEW n \in Names \ disturbed PROVE OneCall(n)' /\ ListingKnows(n)' /\ AgentAndKey(n)'
        BY <2>1 DEF AgentsInv, OneCall, ListingKnows, AgentAndKey, Inquires, Pending, Stores
  <2> QED  BY <2>1, <2>2, <2>3 DEF AgentsInv
<1> QED  BY <1>1, <1>2, ListKeeps, LoadKeeps, CreateKeeps, SaveKeeps, DropKeeps, PruneKeeps, StopsKeep
         DEF AgentsNext

\* A name nobody asked for twice at once, and whose agent and key arrived, has
\* one agent and its key, whatever the other names' calls made of the shared
\* listing (oneclaw/agents.go EnsureAgent, state.go).
THEOREM AgentsKeyed == AgentsSpec => []OneAgentAndItsKey
<1>1. AgentsInv /\ [AgentsNext]_agentVars => AgentsInv'  BY AgentsInvStep
<1> QED  BY <1>1, AgentsInvInit, OneOfEach, PTL DEF AgentsSpec
\* The calls that may have made an agent.
MadeStages == {"invalidate", "save", "fill", "over"}
Makers == {e \in Ensure : ensure[e].at \in MadeStages}

\* Each agent's id was given by a call of its own, so there are ids enough.
AgentIds ==
    /\ AgentsTypeOK /\ ensure \in [Ensure -> AgentCall]
    /\ \A e \in Ensure : ensure[e].at \in {"invalidate", "save", "fill"} => ensure[e].id \in Ids
    /\ fresh \in 1..(Cardinality(Makers) + 1)

\* Makers are calls, and finitely many.
LEMMA MakersFinite ==
  /\ IsFiniteSet(Ensure) /\ Cardinality(Ensure) = EnsureCalls
  /\ \A M \in SUBSET Ensure : IsFiniteSet(M) /\ Cardinality(M) \in Nat /\ Cardinality(M) <= EnsureCalls
<1>1. EnsureCalls \in Nat  BY AgentsAssumption
<1>2. IsFiniteSet(Ensure) /\ Cardinality(Ensure) = EnsureCalls
      BY <1>1, FS_Interval DEF Ensure
<1>3. ASSUME NEW M \in SUBSET Ensure
      PROVE  IsFiniteSet(M) /\ Cardinality(M) \in Nat /\ Cardinality(M) <= EnsureCalls
  <2>1. IsFiniteSet(M) /\ Cardinality(M) <= Cardinality(Ensure)  BY <1>2, FS_Subset
  <2>2. Cardinality(M) \in Nat  BY <2>1, FS_CardinalityType
  <2> QED  BY <1>2, <2>1, <2>2
<1> QED  BY <1>2, <1>3

\* A call that has not made an agent can still number one.
LEMMA FreshIsLeft ==
  ASSUME AgentIds, NEW e \in Ensure, ensure[e].at \notin MadeStages
  PROVE  fresh \in Ids
<1>1. Makers \in SUBSET Ensure /\ Makers \cup {e} \in SUBSET Ensure /\ e \notin Makers
      BY DEF Makers
<1>2. IsFiniteSet(Makers) /\ Cardinality(Makers) \in Nat
      BY <1>1, MakersFinite
<1>3. Cardinality(Makers \cup {e}) = Cardinality(Makers) + 1
      BY <1>1, <1>2, FS_AddElement
<1>4. Cardinality(Makers \cup {e}) <= EnsureCalls
      BY <1>1, MakersFinite
<1>5. fresh \in 1..(Cardinality(Makers) + 1)  BY DEF AgentIds
<1> QED  BY <1>2, <1>3, <1>4, <1>5, AgentsAssumption DEF Ids

\* One call goes on: the calls keep their shape, and who has made an agent
\* still has.
LEMMA CallGoesOn ==
  ASSUME AgentIds, NEW e \in Ensure, NEW x \in AgentCall, ensure' = [ensure EXCEPT ![e] = x],
         x.seen \in Listings,
         x.at \in {"invalidate", "save", "fill"} => x.id \in Ids,
         ensure[e].at \in MadeStages => x.at \in MadeStages
  PROVE  /\ ensure' \in [Ensure -> AgentCall]
         /\ \A f \in Ensure :
                /\ ensure'[f].at \in {"new", "list", "load", "create", "invalidate", "save", "fill", "over"}
                /\ ensure'[f].name \in Names /\ ensure'[f].seen \in Listings
                /\ ensure'[f].at \in {"invalidate", "save", "fill"} => ensure'[f].id \in Ids
         /\ Makers' = IF x.at \in MadeStages THEN Makers \cup {e} ELSE Makers
<1>1. /\ ensure' \in [Ensure -> AgentCall] /\ ensure'[e] = x
      /\ \A f \in Ensure : f # e => ensure'[f] = ensure[f]
      BY OneGoesOn DEF AgentIds
<1>2. x.at \in {"new", "list", "load", "create", "invalidate", "save", "fill", "over"} /\ x.name \in Names
      BY DEF AgentCall
<1>3. ASSUME NEW f \in Ensure
      PROVE /\ ensure'[f].at \in {"new", "list", "load", "create", "invalidate", "save", "fill", "over"}
            /\ ensure'[f].name \in Names /\ ensure'[f].seen \in Listings
            /\ ensure'[f].at \in {"invalidate", "save", "fill"} => ensure'[f].id \in Ids
      BY <1>1, <1>2 DEF AgentIds, AgentsTypeOK
<1>4. Makers' = IF x.at \in MadeStages THEN Makers \cup {e} ELSE Makers
      BY <1>1 DEF Makers
<1> QED  BY <1>1, <1>3, <1>4

\* What a call that makes no agent keeps.
LEMMA CallKeepsIds ==
  ASSUME AgentIds, NEW e \in Ensure, NEW x \in AgentCall, ensure' = [ensure EXCEPT ![e] = x],
         x.seen \in Listings,
         x.at \in {"invalidate", "save", "fill"} => x.id \in Ids,
         ensure[e].at \in MadeStages => x.at \in MadeStages,
         UNCHANGED <<remote, fresh>>, listing' \in Listings, listed' \in BOOLEAN,
         credential' \in [Names -> Ids \cup {None, CutOff}],
         gateAgent' \in {"unknown", "known", "error"}, disturbed' \subseteq Names
  PROVE  AgentIds'
<1>1. /\ ensure' \in [Ensure -> AgentCall]
      /\ \A f \in Ensure :
             /\ ensure'[f].at \in {"new", "list", "load", "create", "invalidate", "save", "fill", "over"}
             /\ ensure'[f].name \in Names /\ ensure'[f].seen \in Listings
             /\ ensure'[f].at \in {"invalidate", "save", "fill"} => ensure'[f].id \in Ids
      BY CallGoesOn
<1>2. Makers' = Makers \cup {e} \/ Makers' = Makers
      BY CallGoesOn
<1>3. fresh' \in 1..(Cardinality(Makers') + 1)
  <2>1. Makers \in SUBSET Ensure /\ Makers' \in SUBSET Ensure /\ Makers \subseteq Makers'
        BY <1>2 DEF Makers
  <2>2. IsFiniteSet(Makers') /\ Cardinality(Makers') \in Nat /\ Cardinality(Makers) \in Nat
        BY <2>1, MakersFinite
  <2>3. Cardinality(Makers) <= Cardinality(Makers')
        BY <2>1, <2>2, FS_Subset
  <2>4. fresh' = fresh /\ fresh \in 1..(Cardinality(Makers) + 1)
        BY DEF AgentIds
  <2> QED  BY <2>2, <2>3, <2>4
<1>4. AgentsTypeOK'
      BY <1>1 DEF AgentIds, AgentsTypeOK
<1> QED  BY <1>1, <1>3, <1>4 DEF AgentIds

\* A call that returns with nothing to store.
LEMMA ReturnKeepsIds ==
  ASSUME AgentIds, NEW e \in Ensure, NEW how \in {"known", "error"}, Returns(e, how),
         UNCHANGED <<remote, fresh>>, listing' \in Listings, listed' \in BOOLEAN,
         credential' \in [Names -> Ids \cup {None, CutOff}], disturbed' \subseteq Names
  PROVE  AgentIds'
<1>1. ensure[e] \in AgentCall /\ ensure[e].seen \in Listings  BY DEF AgentIds, AgentsTypeOK
<1>2. PICK x : x = [ensure[e] EXCEPT !.at = "over", !.seen = {}]
      OBVIOUS
<1>3. x \in AgentCall /\ x.at = "over" /\ x.seen = {}
      BY <1>1, <1>2 DEF AgentCall
<1>4. ensure' = [ensure EXCEPT ![e] = x]
      BY <1>2 DEF Returns, EnsureOver
<1>5. gateAgent' \in {"unknown", "known", "error"}
      BY DEF Returns, AgentIds, AgentsTypeOK
<1>6. x.seen \in Listings /\ x.at \in MadeStages /\ x.at \notin {"invalidate", "save", "fill"}
      BY <1>3 DEF Listings, MadeStages
<1> QED  BY <1>3, <1>4, <1>5, <1>6, CallKeepsIds

\* There is no agent, and the first id is free.
LEMMA AgentIdsInit == AgentsInit => AgentIds
<1> SUFFICES ASSUME AgentsInit PROVE AgentIds
    OBVIOUS
<1>1. Unstarted \in AgentCall
      BY DEF Unstarted, AgentCall, None, Names
<1>2. ensure \in [Ensure -> AgentCall] /\ \A e \in Ensure : ensure[e] = Unstarted
  <2> HIDE DEF AgentCall
  <2> QED  BY <1>1 DEF AgentsInit
<1>3. Makers = {}
      BY <1>2 DEF Makers, MadeStages, Unstarted
<1>4. fresh \in 1..(Cardinality(Makers) + 1)
  <2>1. Cardinality(Makers) = 0  BY <1>3, FS_EmptySet
  <2> QED  BY <2>1 DEF AgentsInit
<1>5. AgentsTypeOK
      BY <1>2 DEF AgentsInit, AgentsTypeOK, Unstarted, Listings, Names, None
<1> QED  BY <1>2, <1>4, <1>5 DEF AgentIds, Unstarted

\* What each action keeps of the calls, the ids and the files.
LEMMA AgentIdsStep == AgentIds /\ [AgentsNext]_agentVars => AgentIds'
<1> SUFFICES ASSUME AgentIds, [AgentsNext]_agentVars PROVE AgentIds'
    OBVIOUS
<1>a. /\ remote \in Listings /\ listing \in Listings /\ listed \in BOOLEAN
      /\ credential \in [Names -> Ids \cup {None, CutOff}] /\ {} \in Listings
      /\ gateAgent \in {"unknown", "known", "error"} /\ disturbed \subseteq Names
      BY DEF AgentIds, AgentsTypeOK, Listings
<1>b. ASSUME NEW e \in Ensure
      PROVE  /\ ensure[e] \in AgentCall /\ ensure[e].seen \in Listings /\ ensure[e].name \in Names
             /\ ensure[e].at \in {"invalidate", "save", "fill"} => ensure[e].id \in Ids
      BY DEF AgentIds, AgentsTypeOK
<1>1. ASSUME NEW e \in Ensure, NEW p \in Names, Asking(e, p) PROVE AgentIds'
  <2>1. PICK x : x = [ensure[e] EXCEPT !.at = "list", !.name = p]
        OBVIOUS
  <2>2. x \in AgentCall /\ x.at = "list" /\ x.seen = ensure[e].seen
        BY <1>b, <2>1 DEF AgentCall
  <2>3. ensure' = [ensure EXCEPT ![e] = x] /\ ensure[e].at = "new"
        BY <1>1, <2>1 DEF Asking
  <2>4. disturbed' \subseteq Names
        BY <1>1, <1>a DEF Asking, Disturb
  <2>5. UNCHANGED <<remote, fresh, listing, listed, credential, gateAgent>>
        BY <1>1 DEF Asking
  <2>6. x.seen \in Listings /\ x.at \notin {"invalidate", "save", "fill"} /\ ensure[e].at \notin MadeStages
        BY <1>b, <2>2, <2>3 DEF MadeStages
  <2> QED  BY <1>a, <2>2, <2>3, <2>4, <2>5, <2>6, CallKeepsIds
<1>2. ASSUME NEW e \in Ensure, ListAgents(e) PROVE AgentIds'
  <2>1. ensure[e].at = "list" /\ UNCHANGED <<remote, fresh, credential, disturbed>>
        BY <1>2 DEF ListAgents
  <2>2. ASSUME NEW seen \in Listings, ensure' = [ensure EXCEPT ![e].at = "load", ![e].seen = seen],
               listing' \in Listings, listed' \in BOOLEAN, gateAgent' = gateAgent
        PROVE  AgentIds'
    <3>1. PICK x : x = [ensure[e] EXCEPT !.at = "load", !.seen = seen]
          OBVIOUS
    <3>2. seen \in SUBSET (Nat \X Names)
          BY AgentsAssumption DEF Listings, Ids
    <3>3. x \in AgentCall /\ x.at = "load" /\ x.seen = seen
          BY <1>b, <3>1, <3>2 DEF AgentCall
    <3>4. ensure' = [ensure EXCEPT ![e] = x]
          BY <2>2, <3>1
    <3>5. x.seen \in Listings /\ x.at \notin {"invalidate", "save", "fill"} /\ ensure[e].at \notin MadeStages
          BY <2>1, <2>2, <3>3 DEF MadeStages
    <3> QED  BY <1>a, <2>1, <2>2, <3>3, <3>4, <3>5, CallKeepsIds
  <2>3. CASE listed /\ ensure' = [ensure EXCEPT ![e].at = "load", ![e].seen = listing]
             /\ UNCHANGED <<listing, listed, gateAgent, netFaults>>
        BY <1>a, <2>2, <2>3
  <2>4. CASE /\ ~listed /\ listing' = remote /\ listed' = TRUE
             /\ ensure' = [ensure EXCEPT ![e].at = "load", ![e].seen = remote]
             /\ UNCHANGED <<gateAgent, netFaults>>
        BY <1>a, <2>2, <2>4
  <2>5. CASE /\ ~listed /\ netFaults < NetFaults /\ netFaults' = netFaults + 1
             /\ Returns(e, "error") /\ UNCHANGED <<listing, listed>>
        BY <1>a, <2>1, <2>5, ReturnKeepsIds
  <2> QED  BY <1>2, <2>3, <2>4, <2>5 DEF ListAgents
<1>3. ASSUME NEW e \in Ensure, LoadCredential(e) PROVE AgentIds'
  <2>1. ensure[e].at = "load" /\ UNCHANGED <<remote, fresh, listing, listed, credential, disturbed>>
        BY <1>3 DEF LoadCredential
  <2>2. ASSUME NEW how \in {"known", "error"}, Returns(e, how) PROVE AgentIds'
        BY <1>a, <2>1, <2>2, ReturnKeepsIds
  <2>3. CASE ensure' = [ensure EXCEPT ![e].at = "create"] /\ UNCHANGED gateAgent
    <3>1. PICK x : x = [ensure[e] EXCEPT !.at = "create"]
          OBVIOUS
    <3>2. x \in AgentCall /\ x.at = "create" /\ x.seen = ensure[e].seen
          BY <1>b, <3>1 DEF AgentCall
    <3>3. ensure' = [ensure EXCEPT ![e] = x]
          BY <2>3, <3>1
    <3>4. x.seen \in Listings /\ x.at \notin {"invalidate", "save", "fill"} /\ ensure[e].at \notin MadeStages
          BY <1>b, <2>1, <3>2 DEF MadeStages
    <3> QED  BY <1>a, <2>1, <2>3, <3>2, <3>3, <3>4, CallKeepsIds
  <2> QED  BY <1>3, <2>2, <2>3 DEF LoadCredential
<1>4. ASSUME NEW e \in Ensure, CreateAgent(e) PROVE AgentIds'
  <2>1. ensure[e].at = "create" /\ UNCHANGED <<listing, listed, credential>>
        BY <1>4 DEF CreateAgent
  <2>2. fresh \in Ids /\ <<fresh, ensure[e].name>> \in Ids \X Names
    <3>1. ensure[e].at \notin MadeStages  BY <2>1 DEF MadeStages
    <3>2. fresh \in Ids  BY <3>1, FreshIsLeft
    <3> QED  BY <1>b, <3>2
  <2>3. remote \cup {<<fresh, ensure[e].name>>} \in Listings
        BY <1>a, <2>2 DEF Listings
  <2>4. ASSUME NEW x \in AgentCall, ensure' = [ensure EXCEPT ![e] = x], x.seen \in Listings,
               x.at \in {"invalidate", "over"}, x.at = "invalidate" => x.id \in Ids,
               remote' = remote \cup {<<fresh, ensure[e].name>>}, fresh' = fresh + 1,
               gateAgent' \in {"unknown", "known", "error"}, disturbed' \subseteq Names
        PROVE  AgentIds'
    <3>1. ensure[e].at \notin MadeStages /\ x.at \in MadeStages
          /\ (x.at \in {"invalidate", "save", "fill"} => x.id \in Ids)
          BY <2>1, <2>4 DEF MadeStages
    <3>2. /\ ensure' \in [Ensure -> AgentCall]
          /\ \A f \in Ensure :
                 /\ ensure'[f].at \in {"new", "list", "load", "create", "invalidate", "save", "fill", "over"}
                 /\ ensure'[f].name \in Names /\ ensure'[f].seen \in Listings
                 /\ ensure'[f].at \in {"invalidate", "save", "fill"} => ensure'[f].id \in Ids
          /\ Makers' = Makers \cup {e}
          BY <2>4, <3>1, CallGoesOn
    <3>3. fresh' \in 1..(Cardinality(Makers') + 1)
      <4>1. Makers \in SUBSET Ensure /\ e \notin Makers
            BY <3>1 DEF Makers
      <4>2. IsFiniteSet(Makers) /\ Cardinality(Makers) \in Nat
            BY <4>1, MakersFinite
      <4>3. Cardinality(Makers') = Cardinality(Makers) + 1
            BY <3>2, <4>1, <4>2, FS_AddElement
      <4>4. fresh \in 1..(Cardinality(Makers) + 1)  BY DEF AgentIds
      <4> QED  BY <2>4, <4>2, <4>3, <4>4
    <3>4. AgentsTypeOK'
          BY <1>a, <2>1, <2>3, <2>4, <3>2 DEF AgentsTypeOK
    <3> QED  BY <3>2, <3>3, <3>4 DEF AgentIds
  <2>5. ASSUME ensure' = [ensure EXCEPT ![e].at = "invalidate", ![e].id = fresh, ![e].seen = {}],
               remote' = remote \cup {<<fresh, ensure[e].name>>}, fresh' = fresh + 1,
               UNCHANGED <<gateAgent, disturbed>>
        PROVE  AgentIds'
    <3>1. PICK x : x = [ensure[e] EXCEPT !.at = "invalidate", !.id = fresh, !.seen = {}]
          OBVIOUS
    <3>2. fresh \in Nat  BY <2>2, AgentsAssumption DEF Ids
    <3>3. x \in AgentCall /\ x.at = "invalidate" /\ x.seen = {} /\ x.id = fresh
          BY <1>b, <3>1, <3>2 DEF AgentCall
    <3>4. ensure' = [ensure EXCEPT ![e] = x]
          BY <2>5, <3>1
    <3> QED  BY <1>a, <2>2, <2>4, <2>5, <3>3, <3>4
  <2>6. ASSUME Returns(e, "error"), remote' = remote \cup {<<fresh, ensure[e].name>>}, fresh' = fresh + 1,
               disturbed' \subseteq Names
        PROVE  AgentIds'
    <3>1. PICK x : x = [ensure[e] EXCEPT !.at = "over", !.seen = {}]
          OBVIOUS
    <3>2. x \in AgentCall /\ x.at = "over" /\ x.seen = {}
          BY <1>b, <3>1 DEF AgentCall
    <3>3. ensure' = [ensure EXCEPT ![e] = x]
          BY <2>6, <3>1 DEF Returns, EnsureOver
    <3>4. gateAgent' \in {"unknown", "known", "error"}
          BY <1>a, <2>6 DEF Returns
    <3> QED  BY <1>a, <2>4, <2>6, <3>2, <3>3, <3>4
  <2>7. ASSUME Returns(e, "error"), UNCHANGED <<remote, fresh, disturbed>> PROVE AgentIds'
        BY <1>a, <2>1, <2>7, ReturnKeepsIds
  <2>8. CASE /\ ~AtCap /\ remote' = remote \cup {<<fresh, ensure[e].name>>} /\ fresh' = fresh + 1
             /\ ensure' = [ensure EXCEPT ![e].at = "invalidate", ![e].id = fresh, ![e].seen = {}]
             /\ UNCHANGED <<gateAgent, disturbed, netFaults>>
        BY <2>5, <2>8
  <2>9. CASE AtCap /\ Returns(e, "error") /\ UNCHANGED <<remote, fresh, disturbed, netFaults>>
        BY <2>7, <2>9
  <2>10. CASE /\ netFaults < NetFaults /\ netFaults' = netFaults + 1 /\ Returns(e, "error")
              /\ \/ UNCHANGED <<remote, fresh, disturbed>>
                 \/ /\ ~AtCap /\ remote' = remote \cup {<<fresh, ensure[e].name>>} /\ fresh' = fresh + 1
                    /\ Disturb(ensure[e].name)
    <3>1. Disturb(ensure[e].name) => disturbed' \subseteq Names
          BY <1>a, <1>b DEF Disturb
    <3> QED  BY <2>6, <2>7, <2>10, <3>1
  <2> QED  BY <1>4, <2>8, <2>9, <2>10 DEF CreateAgent
<1>5. ASSUME NEW e \in Ensure, Invalidate(e) PROVE AgentIds'
  <2>1. PICK x : x = [ensure[e] EXCEPT !.at = "save"]
        OBVIOUS
  <2>2. x \in AgentCall /\ x.at = "save" /\ x.seen = ensure[e].seen /\ x.id = ensure[e].id
        BY <1>b, <2>1 DEF AgentCall
  <2>3. ensure' = [ensure EXCEPT ![e] = x] /\ ensure[e].at = "invalidate"
        BY <1>5, <2>1 DEF Invalidate
  <2>4. UNCHANGED <<remote, fresh, credential, gateAgent, disturbed>> /\ listing' = {} /\ listed' = FALSE
        BY <1>5 DEF Invalidate, Invalidated
  <2>5. x.seen \in Listings /\ x.id \in Ids /\ x.at \in MadeStages
        BY <1>b, <2>2, <2>3 DEF MadeStages
  <2> QED  BY <1>a, <2>2, <2>3, <2>4, <2>5, CallKeepsIds
<1>6. ASSUME NEW e \in Ensure, SaveCredential(e) PROVE AgentIds'
  <2>1. UNCHANGED <<remote, fresh, listing, listed>>
        BY <1>6 DEF SaveCredential
  <2>2. ASSUME NEW v \in Ids \cup {None, CutOff}, credential' = [credential EXCEPT ![ensure[e].name] = v]
        PROVE  credential' \in [Names -> Ids \cup {None, CutOff}]
    <3> HIDE DEF Names, Ids, None, CutOff
    <3> QED  BY <1>a, <2>2
  <2>3. CASE /\ ensure[e].at = "save" /\ credential' = [credential EXCEPT ![CredentialPath(ensure[e].name)] = CutOff]
             /\ ensure' = [ensure EXCEPT ![e].at = "fill"] /\ UNCHANGED <<gateAgent, disturbed>>
    <3>1. PICK x : x = [ensure[e] EXCEPT !.at = "fill"]
          OBVIOUS
    <3>2. x \in AgentCall /\ x.at = "fill" /\ x.seen = ensure[e].seen /\ x.id = ensure[e].id
          BY <1>b, <3>1 DEF AgentCall
    <3>3. ensure' = [ensure EXCEPT ![e] = x]
          BY <2>3, <3>1
    <3>4. x.seen \in Listings /\ x.id \in Ids /\ x.at \in MadeStages
          BY <1>b, <2>3, <3>2 DEF MadeStages
    <3>5. credential' \in [Names -> Ids \cup {None, CutOff}]
          BY <2>2, <2>3 DEF CredentialPath
    <3> QED  BY <1>a, <2>1, <2>3, <3>2, <3>3, <3>4, <3>5, CallKeepsIds
  <2>4. CASE /\ ensure[e].at = "fill" /\ credential' = [credential EXCEPT ![CredentialPath(ensure[e].name)] = ensure[e].id]
             /\ Returns(e, "known") /\ UNCHANGED disturbed
    <3>1. credential' \in [Names -> Ids \cup {None, CutOff}]
          BY <1>b, <2>2, <2>4 DEF CredentialPath
    <3> QED  BY <1>a, <2>1, <2>4, <3>1, ReturnKeepsIds
  <2>5. CASE ensure[e].at = "save" /\ Returns(e, "error") /\ Disturb(ensure[e].name) /\ UNCHANGED credential
    <3>1. disturbed' \subseteq Names
          BY <1>a, <1>b, <2>5 DEF Disturb
    <3> QED  BY <1>a, <2>1, <2>5, <3>1, ReturnKeepsIds
  <2> QED  BY <1>6, <2>3, <2>4, <2>5 DEF SaveCredential
<1>7. ASSUME UNCHANGED <<fresh, ensure>>, remote' \in Listings, listing' \in Listings, listed' \in BOOLEAN,
             credential' \in [Names -> Ids \cup {None, CutOff}],
             gateAgent' \in {"unknown", "known", "error"}, disturbed' \subseteq Names
      PROVE  AgentIds'
  <2>1. AgentsTypeOK'  BY <1>7 DEF AgentIds, AgentsTypeOK
  <2>2. Makers' = Makers  BY <1>7 DEF Makers
  <2> QED  BY <1>7, <2>1, <2>2 DEF AgentIds
<1>8. CASE Forget
  <2>1. UNCHANGED <<fresh, ensure, remote, credential, gateAgent, disturbed>> /\ listing' = {} /\ listed' = FALSE
        BY <1>8 DEF Forget
  <2> QED  BY <1>a, <1>7, <2>1
<1>9. CASE Prune
  <2>1. PICK a \in remote : /\ remote' = remote \ {a} /\ Disturb(a[2])
                            /\ \/ credential' = [credential EXCEPT ![a[2]] = None]
                               \/ UNCHANGED credential
        BY <1>9 DEF Prune
  <2>2. a[2] \in Names /\ remote' \in Listings
        BY <1>a, <2>1 DEF Listings
  <2>3. disturbed' \subseteq Names
        BY <1>a, <2>1, <2>2 DEF Disturb
  <2>4. credential' \in [Names -> Ids \cup {None, CutOff}]
    <3> HIDE DEF Names, Ids, None, CutOff
    <3> QED  BY <1>a, <2>1, <2>2
  <2>5. UNCHANGED <<fresh, ensure, listing, listed, gateAgent>>
        BY <1>9 DEF Prune
  <2> QED  BY <1>a, <1>7, <2>2, <2>3, <2>4, <2>5
<1>10. CASE DaemonStops
  <2>1. /\ UNCHANGED <<remote, fresh, credential>> /\ listing' = {} /\ listed' = FALSE /\ gateAgent' = "unknown"
        /\ disturbed' = disturbed \cup {ensure[e].name : e \in {f \in Ensure : Pending(f)}}
        /\ ensure' = [e \in Ensure |-> IF Pending(e) THEN EnsureOver(e)[e] ELSE ensure[e]]
        BY <1>10 DEF DaemonStops
  <2>2. disturbed' \subseteq Names
        BY <1>a, <1>b, <2>1
  <2>3. ASSUME NEW e \in Ensure
        PROVE  /\ ensure'[e] \in AgentCall /\ ensure'[e].name \in Names /\ ensure'[e].seen \in Listings
               /\ ensure'[e].at \in MadeStages \/ ensure'[e].at = "new"
               /\ ensure'[e].at \notin {"invalidate", "save", "fill"}
               /\ ensure[e].at \in MadeStages => ensure'[e].at \in MadeStages
    <3>1. PICK x : x = [ensure[e] EXCEPT !.at = "over", !.seen = {}]
          OBVIOUS
    <3>2. x \in AgentCall /\ x.at = "over" /\ x.name = ensure[e].name /\ x.seen = {}
          BY <1>b, <3>1 DEF AgentCall
    <3>3. EnsureOver(e)[e] = x
          BY <3>1 DEF EnsureOver, AgentIds
    <3>4. CASE Pending(e)
      <4>1. ensure'[e] = x  BY <2>1, <3>3, <3>4
      <4> QED  BY <1>a, <1>b, <3>2, <4>1 DEF MadeStages
    <3>5. CASE ~Pending(e)
      <4>1. ensure'[e] = ensure[e] /\ ensure[e].at \in {"new", "over"}
            BY <2>1, <3>5 DEF Pending
      <4> QED  BY <1>b, <4>1 DEF MadeStages
    <3> QED  BY <3>4, <3>5
  <2>4. ensure' \in [Ensure -> AgentCall]
    <3> HIDE DEF AgentCall
    <3> QED  BY <2>1, <2>3
  <2>5. AgentsTypeOK'
    <3>1. \A e \in Ensure : ensure'[e].at \in {"new", "list", "load", "create", "invalidate", "save", "fill", "over"}
          BY <2>3 DEF MadeStages
    <3> QED  BY <1>a, <2>1, <2>2, <2>3, <3>1 DEF AgentsTypeOK
  <2>6. fresh' \in 1..(Cardinality(Makers') + 1)
    <3>1. Makers \in SUBSET Ensure /\ Makers' \in SUBSET Ensure /\ Makers \subseteq Makers'
          BY <2>3 DEF Makers
    <3>2. IsFiniteSet(Makers') /\ Cardinality(Makers') \in Nat /\ Cardinality(Makers) \in Nat
          BY <3>1, MakersFinite
    <3>3. Cardinality(Makers) <= Cardinality(Makers')
          BY <3>1, <3>2, FS_Subset
    <3>4. fresh' = fresh /\ fresh \in 1..(Cardinality(Makers) + 1)
          BY <2>1 DEF AgentIds
    <3> QED  BY <3>2, <3>3, <3>4
  <2> QED  BY <2>3, <2>4, <2>5, <2>6 DEF AgentIds
<1>11. CASE UNCHANGED agentVars
  <2>1. UNCHANGED <<remote, fresh, listing, listed, credential, ensure, gateAgent, disturbed>>
        BY <1>11 DEF agentVars
  <2> QED  BY <1>a, <1>7, <2>1
<1>12. ASSUME NEW e \in Ensure, AgentFor(e) \/ ApprovalAgent(e) PROVE AgentIds'
  <2>1. PICK p \in Names : Asking(e, p)  BY <1>12 DEF AgentFor, ApprovalAgent, Names
  <2> QED  BY <1>1, <2>1
<1> QED  BY <1>2, <1>3, <1>4, <1>5, <1>6, <1>8, <1>9, <1>10, <1>11, <1>12 DEF AgentsNext

\* The types of Agents: however calls, failures, prunes and crashes are
\* interleaved, there are ids enough for the agents made, and every file,
\* listing and call holds what its reader expects (oneclaw/agents.go).
THEOREM AgentsTypes == AgentsSpec => []AgentsTypeOK
<1>1. AgentIds => AgentsTypeOK  BY DEF AgentIds
<1> QED  BY <1>1, AgentIdsInit, AgentIdsStep, PTL DEF AgentsSpec

=============================================================================
