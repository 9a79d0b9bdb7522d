----------------------------- MODULE PlanProofs -----------------------------
(***************************************************************************)
(* Proofs about SwarmPlan, for every document: bots of any number, ports   *)
(* of any depth, paths, joins, loops and fallbacks of any kind, and lists  *)
(* of any length. What the planner's types promise is shown of the         *)
(* runner's values by following both along a path, one level of list at a  *)
(* time. And about Nesting, for every set of files that name each other:   *)
(* what they flatten to is what they mean, one level of nesting at a time. *)
(***************************************************************************)
EXTENDS SwarmPlan, Nesting, SequenceTheorems, FiniteSetTheorems, WellFoundedInduction, TLAPS

PlanSpec == PlanInit /\ [][PlanNext]_planVars

\* A set of numbers that is not empty has a least.
LEMMA Smallest ==
  ASSUME NEW T \in SUBSET Nat, T # {}
  PROVE  \E n \in T : \A m \in T : n <= m
<1>1. PICK n \in T : \A m \in T : ~(<<m, n>> \in OpToRel(<, Nat))
      BY NatLessThanWellFounded, WFMin
<1>2. \A m \in T : ~(m < n)
      BY <1>1 DEF OpToRel
<1> QED  BY <1>2

\* A function that is defined by what it is at 0 and by how it goes on is one.
LEMMA NestedIs ==
  ASSUME NEW S, NEW n \in Nat
  PROVE  \E f : f = [m \in 0..n |-> IF m = 0 THEN S ELSE Lists(f[m - 1])]
<1> DEFINE Is(f, N) == f = [m \in 0..N |-> IF m = 0 THEN S ELSE Lists(f[m - 1])]
           T == {N \in Nat : ~\E f : Is(f, N)}
<1>1. SUFFICES ASSUME T # {} PROVE FALSE
      OBVIOUS
<1>2. PICK N \in T : \A m \in T : N <= m  BY <1>1, Smallest
<1>3. N # 0
  <2>1. Is([m \in 0..0 |-> S], 0)  OBVIOUS
  <2> QED  BY <2>1
<1>4. N - 1 \in Nat /\ N - 1 \notin T  BY <1>2, <1>3
<1>5. PICK f : Is(f, N - 1)  BY <1>4
<1> DEFINE g == [m \in 0..N |-> IF m = 0 THEN S ELSE Lists(f[m - 1])]
<1>6. \A m \in 0..(N - 1) : g[m] = f[m]  BY <1>4, <1>5
<1>7. Is(g, N)
  <2>1. ASSUME NEW m \in 0..N, m # 0 PROVE g[m - 1] = f[m - 1]
    <3>1. m - 1 \in 0..(N - 1)  BY <1>3, <1>4, <2>1
    <3> QED  BY <1>6, <3>1
  <2>2. \A m \in 0..N : g[m] = IF m = 0 THEN S ELSE Lists(g[m - 1])  BY <2>1
  <2> QED  BY <2>2
<1> QED  BY <1>2, <1>7

\* What is nested one level deeper.
LEMMA NestedAt ==
  ASSUME NEW S
  PROVE  /\ Nested(S, 0) = S
         /\ \A n \in Nat : Nested(S, n + 1) = Lists(Nested(S, n))
<1> DEFINE Is(f, n) == f = [m \in 0..n |-> IF m = 0 THEN S ELSE Lists(f[m - 1])]
           G(n) == CHOOSE f : Is(f, n)
<1>1. ASSUME NEW n \in Nat PROVE Is(G(n), n)
  <2>1. \E f : Is(f, n)  BY NestedIs
  <2> HIDE DEF Is
  <2> QED  BY <2>1
<1>2. \A n : Nested(S, n) = G(n)[n]  BY DEF Nested
<1> HIDE DEF G
<1>3. ASSUME NEW n \in Nat PROVE G(n + 1)[n] = G(n)[n]
  <2> DEFINE T == {m \in 0..n : G(n + 1)[m] # G(n)[m]}
  <2>1. SUFFICES ASSUME T # {} PROVE FALSE
        OBVIOUS
  <2>2. PICK m \in T : \A k \in T : m <= k
    <3>1. T \in SUBSET Nat  OBVIOUS
    <3> HIDE DEF T
    <3> QED  BY <2>1, <3>1, Smallest
  <2>3. CASE m = 0  BY <1>1, <2>2, <2>3
  <2>4. CASE m # 0
    <3>1. m - 1 \in 0..n /\ m - 1 \notin T  BY <2>2, <2>4
    <3>2. G(n + 1)[m] = Lists(G(n + 1)[m - 1]) /\ G(n)[m] = Lists(G(n)[m - 1])
          BY <1>1, <2>2, <2>4
    <3> QED  BY <2>2, <3>1, <3>2
  <2> QED  BY <2>3, <2>4
<1>4. ASSUME NEW n \in Nat PROVE Nested(S, n + 1) = Lists(Nested(S, n))
  <2>1. G(n + 1)[n + 1] = Lists(G(n + 1)[n])
    <3>1. n + 1 \in Nat /\ n + 1 \in 0..(n + 1) /\ n + 1 # 0 /\ (n + 1) - 1 = n  OBVIOUS
    <3>2. G(n + 1)[n + 1] = IF n + 1 = 0 THEN S ELSE Lists(G(n + 1)[(n + 1) - 1])  BY <1>1, <3>1
    <3> QED  BY <3>1, <3>2
  <2> QED  BY <1>2, <1>3, <2>1
<1>5. Nested(S, 0) = S
  <2>1. G(0)[0] = S  BY <1>1
  <2> QED  BY <1>2, <2>1
<1> QED  BY <1>4, <1>5

\* A list of what is in a set is a list of what is in a larger one.
LEMMA ListsGrow ==
  ASSUME NEW S, NEW U, S \subseteq U
  PROVE  Lists(S) \subseteq Lists(U)
<1>1. Seq(S) \subseteq Seq(U)
  <2> SUFFICES ASSUME NEW s \in Seq(S) PROVE s \in Seq(U)
      OBVIOUS
  <2>1. \A i \in 1..Len(s) : s[i] \in U  BY ElementOfSeq
  <2>2. s \in Seq(S) /\ s = [i \in 1..Len(s) |-> s[i]] /\ Len(s) \in Nat  BY SeqDef, LenProperties
  <2> QED  BY <2>1, <2>2
<1> QED  BY <1>1 DEF Lists

\* More to choose from makes more nested values.
LEMMA NestedGrows ==
  ASSUME NEW S, NEW U, S \subseteq U, NEW n \in Nat
  PROVE  Nested(S, n) \subseteq Nested(U, n)
<1> DEFINE T == {m \in Nat : ~(Nested(S, m) \subseteq Nested(U, m))}
<1>1. SUFFICES ASSUME T # {} PROVE FALSE
      OBVIOUS
<1>2. PICK m \in T : \A k \in T : m <= k  BY <1>1, Smallest
<1>3. m # 0  BY <1>2, NestedAt
<1>4. m - 1 \in Nat /\ m - 1 \notin T /\ (m - 1) + 1 = m  BY <1>2, <1>3
<1>5. Nested(S, m) = Lists(Nested(S, m - 1)) /\ Nested(U, m) = Lists(Nested(U, m - 1))
      BY <1>4, NestedAt
<1>6. Nested(S, m - 1) \subseteq Nested(U, m - 1)  BY <1>4
<1>7. Lists(Nested(S, m - 1)) \subseteq Lists(Nested(U, m - 1))  BY <1>6, ListsGrow
<1> QED  BY <1>2, <1>5, <1>7

\* What a bot may produce on a port: something, and of the port's type.
LEMMA ProducesNested ==
  ASSUME NEW port \in Ports
  PROVE  /\ Produces(port) # {}
         /\ Produces(port) \subseteq Nested({Scalar(port)}, port.n)
<1> DEFINE N == port.n
           S == {Scalar(port)}
           Is(f, n) == f = [m \in 0..n |-> IF m = 0 THEN S ELSE ShortLists(f[m - 1])]
<1>1. N \in Nat  BY DEF Ports
<1> HIDE DEF S, N
<1>2. \E f : Is(f, N)
  <2> DEFINE T == {n \in Nat : ~\E f : Is(f, n)}
  <2>1. SUFFICES ASSUME T # {} PROVE FALSE
        BY <1>1
  <2>2. PICK n \in T : \A m \in T : n <= m  BY <2>1, Smallest
  <2>3. n # 0
    <3>1. Is([m \in 0..0 |-> S], 0)  OBVIOUS
    <3> QED  BY <3>1
  <2>4. n - 1 \in Nat /\ n - 1 \notin T
    <3>1. n - 1 \in Nat /\ ~(n <= n - 1)  BY <2>2, <2>3
    <3> HIDE DEF T
    <3> QED  BY <2>2, <3>1
  <2>5. PICK f : Is(f, n - 1)  BY <2>4
  <2> DEFINE g == [m \in 0..n |-> IF m = 0 THEN S ELSE ShortLists(f[m - 1])]
  <2>6. \A m \in 0..(n - 1) : g[m] = f[m]  BY <2>4, <2>5
  <2>7. Is(g, n)
    <3>1. ASSUME NEW m \in 0..n, m # 0 PROVE g[m - 1] = f[m - 1]
      <4>1. m - 1 \in 0..(n - 1)  BY <2>3, <2>4, <3>1
      <4> QED  BY <2>6, <4>1
    <3>2. \A m \in 0..n : g[m] = IF m = 0 THEN S ELSE ShortLists(g[m - 1])  BY <3>1
    <3> QED  BY <3>2
  <2> QED  BY <2>2, <2>7
<1> DEFINE made == CHOOSE f : Is(f, N)
<1>3. Is(made, N)
  <2> HIDE DEF Is
  <2> QED  BY <1>2
<1>4. Produces(port) = made[N]  BY DEF Produces, S, N
<1> HIDE DEF made
<1>5. ASSUME NEW U, NEW W, U # {}, U \subseteq W
      PROVE  ShortLists(U) # {} /\ ShortLists(U) \subseteq Lists(W)
  <2>1. L(<<>>) \in ShortLists(U)
    <3>1. <<>> \in [1..0 -> U] /\ 0 \in 0..MaxLen  BY PlanAssumption
    <3> QED  BY <3>1 DEF ShortLists
  <2>2. ASSUME NEW x \in ShortLists(U) PROVE x \in Lists(W)
    <3>1. PICK m \in 0..MaxLen : \E s \in [1..m -> U] : x = L(s)  BY DEF ShortLists
    <3>2. PICK s \in [1..m -> U] : x = L(s)  BY <3>1
    <3>3. s \in Seq(W)
      <4>1. m \in Nat  BY PlanAssumption
      <4>2. s \in [1..m -> W]  BY <1>5, <3>2
      <4> QED  BY <4>1, <4>2
    <3> QED  BY <3>2, <3>3 DEF L, Lists
  <2> QED  BY <2>1, <2>2
<1>6. ASSUME NEW n \in 0..N PROVE made[n] # {} /\ made[n] \subseteq Nested(S, n)
  <2> DEFINE T == {m \in 0..N : ~(made[m] # {} /\ made[m] \subseteq Nested(S, m))}
  <2>1. SUFFICES ASSUME T # {} PROVE FALSE
        OBVIOUS
  <2>2. PICK m \in T : \A k \in T : m <= k
    <3>1. T \in SUBSET Nat  BY <1>1
    <3> HIDE DEF T
    <3> QED  BY <2>1, <3>1, Smallest
  <2>3. CASE m = 0
    <3>1. made[0] = S /\ Nested(S, 0) = S /\ S # {}  BY <1>1, <1>3, NestedAt DEF S
    <3> QED  BY <2>2, <2>3, <3>1
  <2>4. CASE m # 0
    <3>1. m - 1 \in 0..N /\ m - 1 \notin T /\ m - 1 \in Nat /\ (m - 1) + 1 = m  BY <1>1, <2>2, <2>4
    <3>2. made[m] = ShortLists(made[m - 1])  BY <1>3, <2>2, <2>4
    <3>3. Nested(S, m) = Lists(Nested(S, m - 1))  BY <3>1, NestedAt
    <3>4. made[m - 1] # {} /\ made[m - 1] \subseteq Nested(S, m - 1)  BY <3>1
    <3>5. ShortLists(made[m - 1]) # {} /\ ShortLists(made[m - 1]) \subseteq Lists(Nested(S, m - 1))
          BY <1>5, <3>4
    <3> QED  BY <2>2, <3>2, <3>3, <3>5
  <2> QED  BY <2>3, <2>4
<1>7. N \in 0..N  BY <1>1
<1> QED  BY <1>4, <1>6, <1>7 DEF S, N

-----------------------------------------------------------------------------
(* Values along a path, and through a join.                                 *)

\* Values are lists, scalars, errors or nothing, and none is two of them.
LEMMA ValuesApart ==
  /\ Shape # Lacking /\ Missing \notin Errs
  /\ \A S : \A x \in Lists(S) : x.k = "list" /\ x.items \in Seq(S) /\ x \notin Errs /\ x # Missing
  /\ \A k \in {"string", "object", "bare"} : V(k) \notin Errs /\ V(k).k = k /\ V(k) # Missing
  /\ Shape.k = "shape" /\ Lacking.k = "lacking" /\ Errs = {Shape, Lacking} /\ Missing.k = "missing"
<1>1. \A k : V(k).k = k  BY DEF V
<1>2. Shape.k = "shape" /\ Lacking.k = "lacking" /\ Missing.k = "missing"
      BY <1>1 DEF Shape, Lacking, Missing
<1>3. \A S : \A x \in Lists(S) : x.k = "list" /\ x.items \in Seq(S)
      BY DEF Lists
<1> QED  BY <1>1, <1>2, <1>3 DEF Errs

\* An index of a list that has such an item is that item.
LEMMA PeelSound ==
  ASSUME NEW S, NEW v \in Lists(S) \cup {Lacking}, NEW seg \in Marks, NEW at \in Nat,
         seg = "*" => at # 0
  PROVE  Segment(v, seg, at) \in S \cup {Lacking}
<1>1. CASE v = Lacking  BY <1>1, ValuesApart DEF Segment
<1>2. CASE v \in Lists(S)
  <2>1. v \notin Errs /\ v.k = "list" /\ v.items \in Seq(S)  BY <1>2, ValuesApart
  <2>2. \A i \in DOMAIN v.items : v.items[i] \in S  BY <2>1, ElementOfSeq
  <2>3. Segment(v, seg, at) = LET i == IF seg = "*" THEN at ELSE 1
                              IN IF i \in DOMAIN v.items THEN v.items[i] ELSE Lacking
        BY <2>1 DEF Segment
  <2> QED  BY <2>2, <2>3
<1> QED  BY <1>1, <1>2

\* A walk goes on segment by segment.
LEMMA WalkIs ==
  ASSUME NEW v, NEW path, Len(path) \in Nat, NEW at
  PROVE  /\ Walk(v, path, at)[0] = v
         /\ \A i \in 1..Len(path) : Walk(v, path, at)[i] = Segment(Walk(v, path, at)[i - 1], path[i], at)
<1> DEFINE N == Len(path)
           Is(f, n) == f = [i \in 0..n |-> IF i = 0 THEN v ELSE Segment(f[i - 1], path[i], at)]
<1> HIDE DEF N
<1>1. N \in Nat  BY DEF N
<1>2. \E f : Is(f, N)
  <2> DEFINE T == {n \in Nat : ~\E f : Is(f, n)}
  <2>1. SUFFICES ASSUME T # {} PROVE FALSE
        BY <1>1
  <2>2. PICK n \in T : \A m \in T : n <= m  BY <2>1, Smallest
  <2>3. n # 0
    <3>1. Is([m \in 0..0 |-> v], 0)  OBVIOUS
    <3> QED  BY <3>1
  <2>4. n - 1 \in Nat /\ n - 1 \notin T
    <3>1. n - 1 \in Nat /\ ~(n <= n - 1)  BY <2>2, <2>3
    <3> HIDE DEF T
    <3> QED  BY <2>2, <3>1
  <2>5. PICK f : Is(f, n - 1)  BY <2>4
  <2> DEFINE g == [i \in 0..n |-> IF i = 0 THEN v ELSE Segment(f[i - 1], path[i], at)]
  <2>6. \A i \in 0..(n - 1) : g[i] = f[i]  BY <2>4, <2>5
  <2>7. Is(g, n)
    <3>1. ASSUME NEW i \in 0..n, i # 0 PROVE g[i - 1] = f[i - 1]
      <4>1. i - 1 \in 0..(n - 1)  BY <2>3, <2>4, <3>1
      <4> QED  BY <2>6, <4>1
    <3>2. \A i \in 0..n : g[i] = IF i = 0 THEN v ELSE Segment(g[i - 1], path[i], at)  BY <3>1
    <3> QED  BY <3>2
  <2> QED  BY <2>2, <2>7
<1> DEFINE walk == CHOOSE f : Is(f, N)
<1>3. Is(walk, N)
  <2> HIDE DEF Is
  <2> QED  BY <1>2
<1>4. Walk(v, path, at) = walk  BY DEF Walk, N
<1> HIDE DEF walk
<1> QED  BY <1>1, <1>3, <1>4 DEF N

\* Markers that stand before any field take a level each, or meet a list that
\* is too short.
LEMMA WalkDown ==
  ASSUME NEW S, NEW n \in Nat, NEW v \in Nested(S, n), NEW path \in Seq(STRING), NEW at \in Nat,
         NEW m \in 0..Len(path), m <= n,
         \A i \in 1..m : path[i] \in Marks /\ (path[i] = "*" => at # 0)
  PROVE  Walk(v, path, at)[m] \in Nested(S, n - m) \cup {Lacking}
<1> DEFINE w == Walk(v, path, at)
           T == {i \in 0..m : w[i] \notin Nested(S, n - i) \cup {Lacking}}
<1>0. /\ Len(path) \in Nat /\ m \in Nat
      /\ w[0] = v /\ \A i \in 1..Len(path) : w[i] = Segment(w[i - 1], path[i], at)
  <2>1. Len(path) \in Nat  BY LenProperties
  <2> QED  BY <2>1, WalkIs
<1> HIDE DEF w
<1>1. SUFFICES ASSUME T # {} PROVE FALSE
      BY <1>0 DEF w
<1>2. PICK i \in T : \A k \in T : i <= k
  <2>1. T \in SUBSET Nat  BY <1>0
  <2> HIDE DEF T
  <2> QED  BY <1>1, <2>1, Smallest
<1>3. i # 0
  <2>1. n - 0 = n  OBVIOUS
  <2> QED  BY <1>0, <1>2, <2>1
<1>4. i - 1 \in 0..m /\ i - 1 \notin T
  <2>1. i - 1 \in 0..m /\ ~(i <= i - 1)  BY <1>0, <1>2, <1>3
  <2> HIDE DEF T
  <2> QED  BY <1>2, <2>1
<1>5. w[i - 1] \in Nested(S, n - (i - 1)) \cup {Lacking}  BY <1>4
<1>6. Nested(S, n - (i - 1)) = Lists(Nested(S, n - i))
  <2>1. n - i \in Nat /\ (n - i) + 1 = n - (i - 1)  BY <1>0, <1>2
  <2> QED  BY <2>1, NestedAt
<1>7. i \in 1..m /\ i \in 1..Len(path)  BY <1>0, <1>2, <1>3
<1>8. w[i] = Segment(w[i - 1], path[i], at) /\ path[i] \in Marks /\ (path[i] = "*" => at # 0)
      BY <1>0, <1>7
<1>9. w[i] \in Nested(S, n - i) \cup {Lacking}
  <2> DEFINE X == Nested(S, n - i)
  <2>1. w[i - 1] \in Lists(X) \cup {Lacking}  BY <1>5, <1>6
  <2> HIDE DEF X, T
  <2>2. Segment(w[i - 1], path[i], at) \in X \cup {Lacking}  BY <1>8, <2>1, PeelSound
  <2> QED  BY <1>8, <2>2 DEF X
<1> QED  BY <1>2, <1>9

\* What stands on a port is of the port's type.
LEMMA ScalarFits == ASSUME NEW port \in Ports PROVE {Scalar(port)} \subseteq Scalars(port.of)
BY DEF Scalar, Scalars, Ports

\* Along a path the type checker follows, the runner meets values of the
\* types the checker finds, or lists that are too short.
LEMMA PathSound ==
  ASSUME NEW port \in Ports, NEW v \in Nested({Scalar(port)}, port.n), NEW path \in Seq(STRING),
         NEW at \in Nat, HasMarker(path) => at # 0, TypeAt(port, path) # Bad
  PROVE  /\ TypeAt(port, path) \in PortTypes
         /\ LET x == Walk(v, path, at)[Len(path)]
            IN x = Lacking \/ Conforms(x, TypeAt(port, path))
<1> DEFINE n == port.n
           len == Len(path)
           peels == IF len <= n THEN len ELSE n
           rest == SubSeq(path, peels + 1, len)
           w == Walk(v, path, at)
<1>1. n \in Nat /\ len \in Nat /\ port.of \in {"string", "json"} /\ peels \in 0..len /\ peels <= n
      /\ peels \in Nat
      BY LenProperties DEF Ports
<1>2. /\ \A i \in 1..peels : path[i] \in Marks
      /\ rest = <<>> => TypeAt(port, path) = [n |-> n - peels, of |-> port.of]
      /\ rest # <<>> => rest = <<"f">> /\ port.of = "json" /\ port.schema /\ TypeAt(port, path) = Str
      BY DEF TypeAt
<1>3. Len(rest) = len - peels /\ \A i \in 1..(len - peels) : rest[i] = path[peels + i]
  <2>1. CASE peels = len
    <3>1. rest = <<>>  BY <1>1, <2>1, SubSeqProperties
    <3> QED  BY <1>1, <2>1, <3>1
  <2>2. CASE peels < len
    <3>1. peels + 1 \in 1..len /\ len \in 1..len  BY <1>1, <2>2
    <3> QED  BY <1>1, <2>2, <3>1, SubSeqProperties
  <2> QED  BY <1>1, <2>1, <2>2
<1> HIDE DEF peels, rest
<1>4. \A i \in 1..peels : path[i] = "*" => at # 0
  <2>1. \A i \in 1..peels : i \in DOMAIN path  BY <1>1, LenProperties
  <2> QED  BY <2>1 DEF HasMarker
<1>5. w[peels] \in Nested({Scalar(port)}, n - peels) \cup {Lacking}
      BY <1>1, <1>2, <1>4, WalkDown
<1>6. CASE rest = <<>>
  <2>1. peels = len /\ n - peels \in Nat  BY <1>1, <1>3, <1>6
  <2>2. TypeAt(port, path) = [n |-> n - peels, of |-> port.of]  BY <1>2, <1>6
  <2>3. Nested({Scalar(port)}, n - peels) \subseteq Nested(Scalars(port.of), n - peels)
        BY <2>1, ScalarFits, NestedGrows
  <2>4. TypeAt(port, path) \in PortTypes /\ TypeAt(port, path).n = n - peels /\ TypeAt(port, path).of = port.of
        BY <1>1, <2>1, <2>2 DEF PortTypes
  <2> QED  BY <1>5, <2>1, <2>3, <2>4 DEF Conforms
<1>7. CASE rest # <<>>
  <2>1. rest = <<"f">> /\ port.of = "json" /\ port.schema /\ TypeAt(port, path) = Str
        BY <1>2, <1>7
  <2>2. len = peels + 1 /\ path[len] = "f" /\ n - peels = 0
    <3>1. Len(rest) = 1 /\ rest[1] = "f"  BY <2>1
    <3>0. len - peels = 1  BY <1>3, <3>1
    <3>2. len = peels + 1  BY <1>1, <3>0
    <3>3. 1 \in 1..(len - peels)  BY <1>1, <3>2
    <3>4. path[len] = "f"  BY <1>3, <3>1, <3>2, <3>3
    <3>5. peels = n  BY <1>1, <3>2 DEF peels
    <3> QED  BY <1>1, <3>2, <3>4, <3>5
  <2>3. Scalar(port) = V("object")  BY <2>1 DEF Scalar
  <2>4. w[peels] \in {V("object"), Lacking}  BY <1>5, <2>2, <2>3, NestedAt
  <2>5. w[len] = Segment(w[peels], "f", at)
    <3>1. len \in 1..len /\ len - 1 = peels  BY <1>1, <2>2
    <3>2. w[len] = Segment(w[len - 1], path[len], at)  BY <1>1, <3>1, WalkIs
    <3> QED  BY <2>2, <3>1, <3>2
  <2>6. w[len] \in {V("string"), Lacking}
    <3>1. "f" \notin Marks  BY DEF Marks
    <3>2. V("object") \notin Errs /\ V("object").k = "object" /\ Lacking \in Errs  BY ValuesApart
    <3> QED  BY <2>4, <2>5, <3>1, <3>2 DEF Segment
  <2>7. Str \in PortTypes /\ Str.n = 0 /\ Str.of = "string"  BY DEF Str, PortTypes
  <2>8. Conforms(V("string"), Str)
    <3>1. Nested(Scalars("string"), 0) = Scalars("string")  BY NestedAt
    <3> QED  BY <2>7, <3>1 DEF Conforms, Scalars
  <2> QED  BY <2>1, <2>6, <2>7, <2>8
<1> QED  BY <1>6, <1>7

\* Lists one after another are a list.
LEMMA ConcatSound ==
  ASSUME NEW S, NEW lists \in Seq(Lists(S))
  PROVE  Concat(lists) \in Seq(S)
<1> DEFINE N == Len(lists)
           Step(x, i) == x \o lists[i].items
           Is(f, n) == f = [i \in 0..n |-> IF i = 0 THEN <<>> ELSE Step(f[i - 1], i)]
<1>1. N \in Nat /\ \A i \in 1..N : lists[i].items \in Seq(S)
  <2>1. N \in Nat /\ \A i \in 1..N : lists[i] \in Lists(S)  BY LenProperties, ElementOfSeq
  <2> QED  BY <2>1, ValuesApart
<1> HIDE DEF N, Step
<1>2. \E f : Is(f, N)
  <2> DEFINE T == {n \in Nat : ~\E f : Is(f, n)}
  <2>1. SUFFICES ASSUME T # {} PROVE FALSE
        BY <1>1
  <2>2. PICK n \in T : \A m \in T : n <= m  BY <2>1, Smallest
  <2>3. n # 0
    <3>1. Is([m \in 0..0 |-> <<>>], 0)  OBVIOUS
    <3> QED  BY <3>1
  <2>4. n - 1 \in Nat /\ n - 1 \notin T
    <3>1. n - 1 \in Nat /\ ~(n <= n - 1)  BY <2>2, <2>3
    <3> HIDE DEF T
    <3> QED  BY <2>2, <3>1
  <2>5. PICK f : Is(f, n - 1)  BY <2>4
  <2> DEFINE g == [i \in 0..n |-> IF i = 0 THEN <<>> ELSE Step(f[i - 1], i)]
  <2>6. \A i \in 0..(n - 1) : g[i] = f[i]  BY <2>4, <2>5
  <2>7. Is(g, n)
    <3>1. ASSUME NEW i \in 0..n, i # 0 PROVE g[i - 1] = f[i - 1]
      <4>1. i - 1 \in 0..(n - 1)  BY <2>3, <2>4, <3>1
      <4> QED  BY <2>6, <4>1
    <3>2. \A i \in 0..n : g[i] = IF i = 0 THEN <<>> ELSE Step(g[i - 1], i)  BY <3>1
    <3> QED  BY <3>2
  <2> QED  BY <2>2, <2>7
<1> DEFINE all == CHOOSE f : Is(f, N)
<1>3. Is(all, N)
  <2> HIDE DEF Is
  <2> QED  BY <1>2
<1>4. Concat(lists) = all[N]  BY DEF Concat, N, Step
<1> HIDE DEF all
<1>5. all[0] = <<>> /\ \A i \in 1..N : all[i] = all[i - 1] \o lists[i].items
      BY <1>1, <1>3 DEF Step
<1>6. ASSUME NEW n \in 0..N PROVE all[n] \in Seq(S)
  <2> DEFINE T == {i \in 0..N : all[i] \notin Seq(S)}
  <2>1. SUFFICES ASSUME T # {} PROVE FALSE
        OBVIOUS
  <2>2. PICK i \in T : \A k \in T : i <= k
    <3>1. T \in SUBSET Nat  BY <1>1
    <3> HIDE DEF T
    <3> QED  BY <2>1, <3>1, Smallest
  <2>3. i # 0
    <3>1. <<>> \in Seq(S)  BY EmptySeq
    <3> QED  BY <1>5, <2>2, <3>1
  <2>4. i - 1 \in 0..N /\ i - 1 \notin T /\ i \in 1..N
    <3>1. i - 1 \in 0..N /\ ~(i <= i - 1) /\ i \in 1..N  BY <1>1, <2>2, <2>3
    <3> HIDE DEF T
    <3> QED  BY <2>2, <3>1
  <2>5. all[i - 1] \in Seq(S)  BY <2>4
  <2>6. all[i] \in Seq(S)  BY <1>1, <1>5, <2>4, <2>5, ConcatProperties
  <2> QED  BY <2>2, <2>6
<1>7. N \in 0..N  BY <1>1
<1> QED  BY <1>4, <1>6, <1>7

\* A join the type checker accepts makes of a value of the type it starts from
\* one of the type it ends with, or meets a list that is too short.
LEMMA JoinSound ==
  ASSUME NEW t \in PortTypes, NEW v, v = Lacking \/ Conforms(v, t),
         NEW mode \in {"none", "text", "first", "flatten"}, JoinType(mode, t) # Bad
  PROVE  /\ JoinType(mode, t) \in PortTypes
         /\ JoinValue(mode, v) = Lacking \/ Conforms(JoinValue(mode, v), JoinType(mode, t))
<1> DEFINE U == Scalars(t.of)
<1>1. t.n \in Nat /\ t.of \in {"string", "json"} /\ t # Bad /\ t = [n |-> t.n, of |-> t.of]
  <2>1. Bad.of = "error"  BY DEF Bad
  <2> QED  BY <2>1 DEF PortTypes
<1>2. CASE v = Lacking
  <2>1. JoinValue(mode, v) = Lacking  BY <1>2, ValuesApart DEF JoinValue
  <2>2. JoinType(mode, t) \in PortTypes
    <3>1. mode = "none" => JoinType(mode, t) = t  BY DEF JoinType
    <3>2. mode # "none" => t.n > 0  BY <1>1 DEF JoinType
    <3>3. mode = "text" => JoinType(mode, t) = Str  BY <1>1, <3>2 DEF JoinType
    <3>4. mode \in {"first", "flatten"} => JoinType(mode, t) = ElementOf(t)  BY <1>1, <3>2 DEF JoinType
    <3>5. t.n > 0 => ElementOf(t) \in PortTypes  BY <1>1 DEF ElementOf, PortTypes
    <3>6. Str \in PortTypes  BY DEF Str, PortTypes
    <3> QED  BY <3>1, <3>2, <3>3, <3>4, <3>5, <3>6
  <2> QED  BY <2>1, <2>2
<1>3. CASE v # Lacking /\ mode = "none"
  <2>1. JoinType(mode, t) = t /\ JoinValue(mode, v) = v  BY <1>3 DEF JoinType, JoinValue
  <2> QED  BY <1>3, <2>1
<1>4. CASE v # Lacking /\ mode # "none"
  <2>1. t.n > 0 /\ t.n - 1 \in Nat /\ (t.n - 1) + 1 = t.n  BY <1>1, <1>4 DEF JoinType
  <2>2. v \in Lists(Nested(U, t.n - 1))  BY <1>4, <2>1, NestedAt DEF Conforms
  <2>3. v \notin Errs /\ v.k = "list" /\ v.items \in Seq(Nested(U, t.n - 1))  BY <2>2, ValuesApart
  <2>4. /\ ElementOf(t) \in PortTypes /\ ElementOf(t).n = t.n - 1 /\ ElementOf(t).of = t.of
        BY <1>1, <2>1 DEF ElementOf, PortTypes
  <2>5. \A i \in 1..Len(v.items) : v.items[i] \in Nested(U, t.n - 1)  BY <2>3, ElementOfSeq
  <2>6. CASE mode = "text"
    <3>1. JoinType(mode, t) = Str  BY <1>1, <2>1, <2>6 DEF JoinType
    <3>2. JoinValue(mode, v) = V("string")  BY <2>3, <2>6 DEF JoinValue
    <3>3. Str \in PortTypes /\ Str.n = 0 /\ Str.of = "string"  BY DEF Str, PortTypes
    <3>4. Conforms(V("string"), Str)
      <4>1. Nested(Scalars("string"), 0) = Scalars("string")  BY NestedAt
      <4> QED  BY <3>3, <4>1 DEF Conforms, Scalars
    <3> QED  BY <3>1, <3>2, <3>3, <3>4
  <2>7. CASE mode = "first"
    <3>1. JoinType(mode, t) = ElementOf(t)  BY <1>1, <2>1, <2>7 DEF JoinType
    <3>2. JoinValue(mode, v) = IF v.items = <<>> THEN Lacking ELSE v.items[1]
          BY <2>3, <2>7 DEF JoinValue
    <3>3. v.items # <<>> => 1 \in 1..Len(v.items)  BY <2>3, LenProperties, EmptySeq
    <3> QED  BY <2>4, <2>5, <3>1, <3>2, <3>3 DEF Conforms
  <2>8. CASE mode = "flatten"
    <3>1. t.n > 1 /\ JoinType(mode, t) = ElementOf(t)  BY <1>1, <2>1, <2>8 DEF JoinType
    <3>2. t.n - 2 \in Nat /\ (t.n - 2) + 1 = t.n - 1  BY <1>1, <3>1
    <3>3. Nested(U, t.n - 1) = Lists(Nested(U, t.n - 2))  BY <3>2, NestedAt
    <3>4. v.items \in Seq(Lists(Nested(U, t.n - 2)))  BY <2>3, <3>3
    <3>5. \A i \in DOMAIN v.items : v.items[i].k = "list"
          BY <2>3, <2>5, <3>3, LenProperties, ValuesApart
    <3>6. JoinValue(mode, v) = L(Concat(v.items))  BY <2>3, <2>8, <3>5 DEF JoinValue
    <3>7. L(Concat(v.items)) \in Lists(Nested(U, t.n - 2))
      <4>1. Concat(v.items) \in Seq(Nested(U, t.n - 2))  BY <3>4, ConcatSound
      <4> QED  BY <4>1 DEF L, Lists
    <3> QED  BY <2>4, <3>1, <3>3, <3>6, <3>7 DEF Conforms
  <2> QED  BY <1>4, <2>6, <2>7, <2>8
<1> QED  BY <1>2, <1>3, <1>4

\* A value of a type is no error.
LEMMA ConformsIsValue ==
  ASSUME NEW t \in PortTypes, NEW v, Conforms(v, t)
  PROVE  v \notin Errs /\ v # Missing
<1>1. t.n \in Nat  BY DEF PortTypes
<1>2. CASE t.n = 0
  <2>1. v \in Scalars(t.of)  BY <1>2, NestedAt DEF Conforms
  <2> QED  BY <2>1, ValuesApart DEF Scalars
<1>3. CASE t.n # 0
  <2>1. t.n - 1 \in Nat /\ (t.n - 1) + 1 = t.n  BY <1>1, <1>3
  <2>2. v \in Lists(Nested(Scalars(t.of), t.n - 1))  BY <2>1, NestedAt DEF Conforms
  <2> QED  BY <2>2, ValuesApart
<1> QED  BY <1>2, <1>3

\* What a bot may produce conforms to its port.
LEMMA ProducesConforms ==
  ASSUME NEW port \in Ports
  PROVE  Declared(port) \in PortTypes /\ \A v \in Produces(port) : Conforms(v, Declared(port))
<1>1. port.n \in Nat /\ port.of \in {"string", "json"}  BY DEF Ports
<1>2. Nested({Scalar(port)}, port.n) \subseteq Nested(Scalars(port.of), port.n)
      BY <1>1, ScalarFits, NestedGrows
<1>3. Declared(port).n = port.n /\ Declared(port).of = port.of /\ Declared(port) \in PortTypes
      BY <1>1 DEF Declared, PortTypes
<1> QED  BY <1>2, <1>3, ProducesNested DEF Conforms

\* A given or a default value is of the type of its port.
LEMMA PlainConforms ==
  ASSUME NEW t \in PortTypes
  PROVE  Conforms(CHOOSE v \in Produces(Plain(t)) : TRUE, t)
<1>1. Plain(t) \in Ports /\ Declared(Plain(t)) = t  BY DEF Plain, Ports, Declared, PortTypes
<1>2. (CHOOSE v \in Produces(Plain(t)) : TRUE) \in Produces(Plain(t))  BY <1>1, ProducesNested
<1> QED  BY <1>1, <1>2, ProducesConforms

-----------------------------------------------------------------------------
(* The invariant of a checked run.                                         *)

\* The values a bot may hand on, one or a list with one for each item.
OutValues(d, b) ==
    LET S == Nested({Scalar(d.bots[b].out)}, d.bots[b].out.n)
    IN IF IsFannedOut(d, b) THEN Lists(S) ELSE S

\* A value one that runs on ports p may be handed.
GoodFor(p, v) == v = Lacking \/ Conforms(v, p.in) \/ (v = Missing /\ ~p.required)

\* The ports of the one that ran, bot or fallback.
Ran(b) == Runner(sheet.bots[b], b \in stoodIn)

Orders == \E b \in PlanBots : "orders" \in {sheet.bots[b].when, sheet.bots[b].until}

\* Outputs are of the types of their ports, and with them what is handed on.
TypesKept ==
    /\ fate \notin {"shape", "undecided"} /\ (fate = "unordered" => Orders)
    /\ \A b \in PlanBots : outputs[b] # Missing => outputs[b] \in OutValues(sheet, b)
    /\ \A b \in PlanBots : \A i \in DOMAIN inputs[b] : GoodFor(Ran(b), inputs[b][i])
PlanInv ==
    /\ sheet \in Docs
    /\ outputs = [b \in PlanBots |-> outputs[b]] /\ inputs = [b \in PlanBots |-> inputs[b]]
    /\ verdict = "accepted" => PlanOK(sheet)
    /\ verdict # "accepted" =>
          fate = "fine" /\ \A b \in PlanBots : outputs[b] = Missing /\ inputs[b] = <<>>
    /\ verdict = "accepted" /\ ~Unchecked(sheet) => TypesKept

\* The documents of a checked run.
Checked == PlanInv /\ verdict = "accepted" /\ ~Unchecked(sheet)

LEMMA CheckedSheet ==
  ASSUME Checked
  PROVE  /\ sheet.bots \in [PlanBots -> BotRefs] /\ sheet.snaps \in Seq(Snaps) /\ PlanOK(sheet) /\ TypesKept
         /\ \A i \in DOMAIN sheet.snaps :
               sheet.snaps[i] \in Snaps /\ SnapFits(sheet, sheet.snaps[i]) /\ i \in Nat
         /\ \A b \in PlanBots : sheet.bots[b] \in BotRefs
BY PlanAssumption, ElementOfSeq, LenProperties DEF Checked, PlanInv, PlanOK

\* A marker stands before any field, and has a level to take.
LEMMA MarkersFirst ==
  ASSUME NEW port \in Ports, NEW path \in Seq(STRING), TypeAt(port, path) # Bad,
         NEW i \in 1..Len(path), path[i] = "*"
  PROVE  i <= port.n /\ \A j \in 1..i : path[j] \in Marks
<1> DEFINE n == port.n
           len == Len(path)
           peels == IF len <= n THEN len ELSE n
           rest == SubSeq(path, peels + 1, len)
<1>1. n \in Nat /\ len \in Nat /\ peels \in 0..len /\ peels <= n /\ peels \in Nat
      BY LenProperties DEF Ports
<1>2. /\ \A j \in 1..peels : path[j] \in Marks
      /\ rest # <<>> => rest = <<"f">>
      BY DEF TypeAt
<1>3. i <= peels
  <2> SUFFICES ASSUME ~(i <= peels) PROVE FALSE
      OBVIOUS
  <2>1. peels + 1 \in 1..len /\ len \in 1..len /\ peels < len /\ i - peels \in 1..(len - peels)
        BY <1>1
  <2> HIDE DEF peels
  <2>2. Len(rest) = len - peels /\ \A k \in 1..(len - peels) : rest[k] = path[peels + k]
        BY <1>1, <2>1, SubSeqProperties
  <2> HIDE DEF rest
  <2>3. peels + (i - peels) = i  BY <1>1, <2>1
  <2>4. rest[i - peels] = "*"  BY <2>1, <2>2, <2>3
  <2>5. rest # <<>>  BY <1>1, <2>1, <2>2
  <2>6. Len(rest) = 1 /\ rest[1] = "f"  BY <1>2, <2>5
  <2>7. len - peels = 1  BY <2>2, <2>6
  <2>8. i - peels = 1  BY <2>1, <2>7
  <2> QED  BY <2>4, <2>6, <2>8
<1> QED  BY <1>1, <1>2, <1>3

\* A join does not mend a type that is none.
LEMMA JoinOfBad == ASSUME NEW mode, NEW t, JoinType(mode, t) # Bad PROVE t # Bad
BY DEF JoinType, Bad

\* The type of a whole port is the one it declares.
LEMMA TypeOfPort ==
  ASSUME NEW port \in Ports
  PROVE  TypeAt(port, <<>>) = Declared(port) /\ Declared(port) # Bad
<1>1. port.n \in Nat /\ port.of \in {"string", "json"}  BY DEF Ports
<1>2. Len(<<>>) = 0 /\ 0 <= port.n /\ port.n - 0 = port.n  BY <1>1
<1>3. SubSeq(<<>>, 0 + 1, 0) = <<>>  OBVIOUS
<1> DEFINE rest == SubSeq(<<>>, 0 + 1, 0)
<1>4. TypeAt(port, <<>>) = IF rest = <<>> THEN [n |-> port.n - 0, of |-> port.of]
                           ELSE IF rest = <<"f">> /\ port.of = "json" /\ port.schema THEN Str ELSE Bad
      BY <1>1, <1>2 DEF TypeAt
<1> QED  BY <1>1, <1>2, <1>3, <1>4 DEF Declared, Bad

\* A list of what is on a port has one level more.
LEMMA ListOfPort ==
  ASSUME NEW port \in Ports, NEW v \in Lists(Nested({Scalar(port)}, port.n))
  PROVE  ListOf(Declared(port)) \in PortTypes /\ Conforms(v, ListOf(Declared(port)))
<1>1. port.n \in Nat /\ port.of \in {"string", "json"}  BY DEF Ports
<1>2. v \in Nested({Scalar(port)}, port.n + 1)  BY <1>1, NestedAt
<1>3. Nested({Scalar(port)}, port.n + 1) \subseteq Nested(Scalars(port.of), port.n + 1)
      BY <1>1, ScalarFits, NestedGrows
<1>4. ListOf(Declared(port)) = [n |-> port.n + 1, of |-> port.of]  BY DEF ListOf, Declared
<1>5. [n |-> port.n + 1, of |-> port.of] \in PortTypes  BY <1>1 DEF PortTypes
<1> QED  BY <1>2, <1>3, <1>4, <1>5 DEF Conforms

\* What a snap of a checked document carries is of the type of the port it
\* leads to.
LEMMA CarriedSound ==
  ASSUME Checked, NEW i \in DOMAIN sheet.snaps, outputs[sheet.snaps[i].from] # Missing,
         NEW at \in Nat, HasMarker(sheet.snaps[i].path) => at # 0
  PROVE  \/ Carried(sheet.snaps[i], at) = Lacking
         \/ Conforms(Carried(sheet.snaps[i], at), sheet.bots[sheet.snaps[i].to].in)
<1> DEFINE s == sheet.snaps[i]
           port == sheet.bots[s.from].out
           S == Nested({Scalar(port)}, port.n)
           v == outputs[s.from]
           x == Walk(v, s.path, at)[Len(s.path)]
           t == OutType(sheet, s)
<1>1. /\ s \in Snaps /\ SnapFits(sheet, s) /\ port \in Ports
      /\ s.from \in PlanBots /\ s.path \in Seq(STRING) /\ s.join \in {"none", "text", "first", "flatten"}
      BY CheckedSheet DEF Snaps, BotRefs
<1>2. v \in OutValues(sheet, s.from)  BY <1>1, CheckedSheet DEF TypesKept
<1>3. JoinType(s.join, t) # Bad /\ JoinType(s.join, t) = sheet.bots[s.to].in  BY <1>1 DEF SnapFits
<1>4. t # Bad
  <2> HIDE DEF t, s
  <2> QED  BY <1>3, JoinOfBad
<1>5. s.path # <<>> => ~IsFannedOut(sheet, s.from)  BY DEF Checked, Unchecked
<1>6. t \in PortTypes /\ (x = Lacking \/ Conforms(x, t))
  <2>1. CASE s.path = <<>> /\ IsFannedOut(sheet, s.from)
    <3>1. v \in Lists(S)  BY <1>2, <2>1 DEF OutValues
    <3>2. TypeAt(port, s.path) = Declared(port) /\ TypeAt(port, s.path) # Bad
          BY <1>1, <2>1, TypeOfPort
    <3>3. t = ListOf(Declared(port))  BY <2>1, <3>2 DEF OutType
    <3>4. x = v
      <4>1. Len(s.path) = 0 /\ Len(s.path) \in Nat  BY <2>1
      <4> DEFINE path == s.path
      <4> HIDE DEF v, path
      <4>2. Len(path) \in Nat  BY <4>1 DEF path
      <4>3. Walk(v, path, at)[0] = v  BY <4>2, WalkIs
      <4> QED  BY <4>1, <4>3 DEF x, path
    <3> HIDE DEF x, t, v
    <3> QED  BY <1>1, <3>1, <3>3, <3>4, ListOfPort
  <2>2. CASE ~IsFannedOut(sheet, s.from)
    <3>1. v \in S  BY <1>2, <2>2 DEF OutValues
    <3>2. t = TypeAt(port, s.path)  BY <2>2 DEF OutType
    <3> QED  BY <1>1, <1>4, <3>1, <3>2, PathSound
  <2> QED  BY <1>5, <2>1, <2>2
<1>7. Carried(s, at) = JoinValue(s.join, x)  BY DEF Carried
<1> HIDE DEF x, t
<1>8. JoinValue(s.join, x) = Lacking \/ Conforms(JoinValue(s.join, x), JoinType(s.join, t))
      BY <1>1, <1>3, <1>6, JoinSound
<1> QED  BY <1>3, <1>7, <1>8

-----------------------------------------------------------------------------
(* What a bot is handed.                                                   *)

\* The last snap into a port.
LEMMA LastSnap ==
  ASSUME Checked, NEW b \in PlanBots, Into(sheet, b) # {}
  PROVE  LET last == CHOOSE i \in Into(sheet, b) : \A j \in Into(sheet, b) : j <= i
         IN last \in Into(sheet, b)
<1> DEFINE I == Into(sheet, b)
           N == Len(sheet.snaps)
           T == {N - i : i \in I}
<1>1. N \in Nat /\ I \subseteq 1..N
      BY CheckedSheet, LenProperties DEF Into
<1>2. PICK m \in T : \A k \in T : m <= k
  <2>1. T \in SUBSET Nat /\ T # {}  BY <1>1
  <2> HIDE DEF T
  <2> QED  BY <2>1, Smallest
<1>3. PICK i \in I : m = N - i  BY <1>2
<1>4. ASSUME NEW j \in I PROVE j <= i
  <2>1. N - i <= N - j  BY <1>2, <1>3, <1>4
  <2>2. i \in Nat /\ j \in Nat  BY <1>1, <1>3, <1>4
  <2> QED  BY <1>1, <2>1, <2>2
<1> HIDE DEF T, N, I
<1>5. \E l \in I : \A j \in I : j <= l  BY <1>3, <1>4
<1>6. (CHOOSE l \in I : \A j \in I : j <= l) \in I  BY <1>5
<1> QED  BY <1>6 DEF I

\* A bot that runs, or a fallback that the document has for it.
MayRun(b, standIn) == standIn \in BOOLEAN /\ (standIn => sheet.bots[b].fallback.is)

\* What a checked document lets a fallback differ in: where it is handed what
\* the bot would be, the ports are the same.
LEMMA RunnerFits ==
  ASSUME Checked, NEW b \in PlanBots, NEW standIn, MayRun(b, standIn)
  PROVE  LET q == sheet.bots[b]
             p == Runner(q, standIn)
             handed == q.given \/ Into(sheet, b) # {}
         IN /\ q \in BotRefs /\ p.in \in PortTypes /\ p.out = q.out
            /\ p.same /\ (handed \/ q.loop = "feeds") => p.in = q.in
            /\ p.required => p.default \/ (p.same /\ handed)
<1> DEFINE q == sheet.bots[b]
           fb == q.fallback
           handed == q.given \/ Into(sheet, b) # {}
<1>1. q \in BotRefs /\ q.in \in PortTypes /\ fb.in \in PortTypes  BY CheckedSheet DEF BotRefs
<1>2. CASE ~standIn
  <2>1. q.required => q.given \/ q.default \/ Into(sheet, b) # {}
        BY CheckedSheet DEF PlanOK, Fed
  <2> QED  BY <1>1, <1>2, <2>1 DEF Runner
<1>3. CASE standIn
  <2> DEFINE o == q.out
             f == fb.out
  <2>1. fb.is  BY <1>3 DEF MayRun
  <2>2. Declared(f) = Declared(o) /\ (fb.required => fb.same)
        BY <2>1, CheckedSheet DEF PlanOK, FallbackFits
  <2>3. /\ f.schema = o.schema
        /\ fb.same /\ (handed \/ q.loop = "feeds") => fb.in = q.in
        /\ fb.required => fb.default \/ handed
        BY <2>1 DEF Checked, Unchecked
  <2>4. o \in Ports /\ f \in Ports  BY CheckedSheet DEF BotRefs
  <2>5. f = o
    <3> HIDE DEF o, f
    <3>1. f.n = o.n /\ f.of = o.of  BY <2>2 DEF Declared
    <3> QED  BY <2>3, <2>4, <3>1 DEF Ports
  <2>6. Runner(q, standIn) = fb  BY <1>3 DEF Runner
  <2> QED  BY <1>1, <2>2, <2>3, <2>5, <2>6
<1> QED  BY <1>2, <1>3 DEF MayRun

\* A bot of a checked document that is not fanned out, or is handed the value
\* of one item, is handed a value of the type of its input port; so is its
\* fallback.
LEMMA ValueSound ==
  ASSUME Checked, NEW b \in PlanBots, \A a \in ReadsFrom(sheet, b) : outputs[a] # Missing,
         NEW standIn, MayRun(b, standIn), NEW at \in Nat, IsFannedOut(sheet, b) => at # 0
  PROVE  GoodFor(Runner(sheet.bots[b], standIn), ValueFor(b, standIn, at))
<1> DEFINE q == sheet.bots[b]
           p == Runner(q, standIn)
           plain(t) == CHOOSE v \in Produces(Plain(t)) : TRUE
           last == CHOOSE i \in Into(sheet, b) : \A j \in Into(sheet, b) : j <= i
           v == ValueFor(b, standIn, at)
<1>1. /\ q \in BotRefs /\ q.in \in PortTypes /\ p.in \in PortTypes
      /\ p.same /\ (q.given \/ Into(sheet, b) # {}) => p.in = q.in
      /\ p.required => p.default \/ (p.same /\ (q.given \/ Into(sheet, b) # {}))
      BY RunnerFits DEF BotRefs
<1>2. Conforms(plain(q.in), q.in) /\ Conforms(plain(p.in), p.in)
  <2> HIDE DEF p, q
  <2> QED  BY <1>1, PlainConforms
<1>3. v = IF p.same /\ q.given THEN plain(q.in)
          ELSE IF p.same /\ Into(sheet, b) # {} THEN Carried(sheet.snaps[last], at)
          ELSE IF p.default THEN plain(p.in)
          ELSE IF p.required THEN Shape ELSE Missing
      BY DEF ValueFor
<1> HIDE DEF v, plain, last, p
<1>4. CASE p.same /\ ~q.given /\ Into(sheet, b) # {}
  <2>1. last \in Into(sheet, b)  BY <1>4, LastSnap DEF last
  <2>2. last \in DOMAIN sheet.snaps /\ sheet.snaps[last].to = b  BY <2>1 DEF Into
  <2>3. outputs[sheet.snaps[last].from] # Missing  BY <2>1 DEF ReadsFrom
  <2>4. HasMarker(sheet.snaps[last].path) => at # 0  BY <2>1 DEF FannedOver, IsFannedOut
  <2>5. Carried(sheet.snaps[last], at) = Lacking \/ Conforms(Carried(sheet.snaps[last], at), q.in)
        BY <2>2, <2>3, <2>4, CarriedSound
  <2>6. GoodFor(p, v)  BY <1>1, <1>3, <1>4, <2>5 DEF GoodFor
  <2> QED  BY <2>6 DEF v, p
<1>5. CASE ~(p.same /\ ~q.given /\ Into(sheet, b) # {})
  <2>1. \/ v = plain(q.in) /\ p.in = q.in
        \/ v = plain(p.in)
        \/ v = Missing /\ ~p.required
        BY <1>1, <1>3, <1>5
  <2>2. GoodFor(p, v)  BY <1>2, <2>1 DEF GoodFor
  <2> QED  BY <2>2 DEF v, p
<1> QED  BY <1>4, <1>5

\* The list along which a bot of a checked document is fanned out is one, or
\* is out of reach in one that is too short.
LEMMA AlongSound ==
  ASSUME Checked, NEW b \in PlanBots, \A a \in ReadsFrom(sheet, b) : outputs[a] # Missing,
         NEW i \in FannedOver(sheet, b)
  PROVE  LET v == Along(sheet.snaps[i]) IN v = Lacking \/ \E S : v \in Lists(S)
<1> DEFINE s == sheet.snaps[i]
           port == sheet.bots[s.from].out
           S == Nested({Scalar(port)}, port.n)
           out == outputs[s.from]
           path == s.path
           first == CHOOSE k \in DOMAIN path : path[k] = "*" /\ \A j \in 1..(k - 1) : path[j] # "*"
           v == Walk(out, path, 0)[first - 1]
<1>1. i \in DOMAIN sheet.snaps /\ i \in Into(sheet, b) /\ HasMarker(path)  BY DEF FannedOver, Into
<1>2. /\ s \in Snaps /\ SnapFits(sheet, s) /\ port \in Ports /\ s.from \in PlanBots /\ path \in Seq(STRING)
      BY <1>1, CheckedSheet DEF Snaps, BotRefs
<1>3. Along(s) = IF v \in Errs \/ v.k = "list" THEN v ELSE Shape  BY DEF Along
<1>4. out # Missing /\ out \in OutValues(sheet, s.from)
      BY <1>1, <1>2, CheckedSheet DEF ReadsFrom, TypesKept
<1>5. path # <<>> /\ Len(path) \in Nat /\ DOMAIN path = 1..Len(path)
      BY <1>1, <1>2, LenProperties DEF HasMarker
<1>6. ~IsFannedOut(sheet, s.from)  BY <1>1, <1>5 DEF Checked, Unchecked
<1>7. out \in S  BY <1>4, <1>6 DEF OutValues
<1>8. TypeAt(port, path) # Bad
  <2> DEFINE t == OutType(sheet, s)
  <2>1. JoinType(s.join, t) # Bad  BY <1>2 DEF SnapFits
  <2>2. t = TypeAt(port, path)  BY <1>6 DEF OutType
  <2> HIDE DEF t
  <2>3. t # Bad  BY <2>1, JoinOfBad
  <2> QED  BY <2>2, <2>3
<1> HIDE DEF v, port, out, path
<1>9. first \in 1..Len(path) /\ path[first] = "*" /\ \A j \in 1..(first - 1) : path[j] # "*"
  <2> DEFINE T == {k \in DOMAIN path : path[k] = "*"}
  <2>1. T # {} /\ T \in SUBSET Nat  BY <1>1, <1>5 DEF HasMarker
  <2>2. PICK k \in T : \A j \in T : k <= j
    <3> HIDE DEF T
    <3> QED  BY <2>1, Smallest
  <2>3. k \in DOMAIN path /\ path[k] = "*" /\ \A j \in 1..(k - 1) : path[j] # "*"
    <3>1. \A j \in 1..(k - 1) : j \in 1..Len(path) /\ ~(k <= j)  BY <1>5, <2>1, <2>2
    <3> QED  BY <1>5, <2>2, <3>1
  <2>4. first \in DOMAIN path /\ path[first] = "*" /\ \A j \in 1..(first - 1) : path[j] # "*"
        BY <2>3
  <2> QED  BY <1>5, <2>4
<1> HIDE DEF first
<1>10. first <= port.n /\ \A j \in 1..first : path[j] \in Marks
       BY <1>2, <1>8, <1>9, MarkersFirst
<1>11. port.n \in Nat  BY <1>2 DEF Ports
<1> DEFINE m == first - 1
<1>12. m \in 0..Len(path) /\ m <= port.n /\ 0 \in Nat
       /\ \A j \in 1..m : path[j] \in Marks /\ (path[j] = "*" => 0 # 0)
       BY <1>5, <1>9, <1>10, <1>11
<1> DEFINE X == Nested({Scalar(port)}, port.n - first)
<1>13. Walk(out, path, 0)[m] \in Nested({Scalar(port)}, port.n - m) \cup {Lacking}
  <2> HIDE DEF m
  <2>1. out \in Nested({Scalar(port)}, port.n)  BY <1>7
  <2> QED  BY <1>2, <1>11, <1>12, <2>1, WalkDown
<1>14. Nested({Scalar(port)}, port.n - m) = Lists(X)
  <2>1. port.n - first \in Nat /\ (port.n - first) + 1 = port.n - m  BY <1>9, <1>10, <1>11
  <2> QED  BY <2>1, NestedAt
<1>15. v \in Lists(X) \cup {Lacking}  BY <1>13, <1>14 DEF v
<1> HIDE DEF X
<1>16. Along(s) = v
  <2>1. v \in Errs \/ v.k = "list"  BY <1>15, ValuesApart
  <2> QED  BY <1>3, <2>1
<1> QED  BY <1>15, <1>16

-----------------------------------------------------------------------------
(* The steps.                                                              *)

\* What a bot may be handed is no error over the kind of a value.
LEMMA GoodNoShape ==
  ASSUME NEW p, p.in \in PortTypes, NEW v, GoodFor(p, v)
  PROVE  v # Shape /\ (v \in Errs => v = Lacking)
<1>1. v = Lacking \/ v \notin Errs
  <2>1. Conforms(v, p.in) => v \notin Errs  BY ConformsIsValue
  <2> QED  BY <2>1, ValuesApart DEF GoodFor
<1> QED  BY <1>1, ValuesApart

\* Handing a bot such values keeps the history good and the run from stopping
\* over a kind.
HandedWell ==
    /\ inputs' = [c \in PlanBots |-> inputs'[c]]
    /\ fate' \in {"fine", "lacking", "over", "unordered"} /\ (fate' = "unordered" => Orders)
    /\ \A c \in PlanBots : \A i \in DOMAIN inputs'[c] :
          GoodFor(Runner(sheet.bots[c], c \in stoodIn'), inputs'[c][i])

LEMMA HandedKeeps ==
  ASSUME Checked, NEW b \in PlanBots, NEW standIn, MayRun(b, standIn), NEW vs, NEW unordered, unordered => Orders,
         \A i \in DOMAIN vs : GoodFor(Runner(sheet.bots[b], standIn), vs[i]),
         Handed(b, standIn, vs, unordered)
  PROVE  HandedWell
<1>1. inputs = [c \in PlanBots |-> inputs[c]]  BY DEF Checked, PlanInv
<1>2. /\ inputs' = [inputs EXCEPT ![b] = vs]
      /\ stoodIn' = IF standIn THEN stoodIn \cup {b} ELSE stoodIn \ {b}
      BY DEF Handed
<1>3. \A c \in PlanBots : inputs'[c] = IF c = b THEN vs ELSE inputs[c]  BY <1>1, <1>2
<1>4. \A c \in PlanBots : \A i \in DOMAIN inputs[c] : GoodFor(Ran(c), inputs[c][i])
      BY CheckedSheet DEF TypesKept
<1>5. Shape \notin {vs[i] : i \in DOMAIN vs}
  <2>1. PICK p : p = Runner(sheet.bots[b], standIn)
        OBVIOUS
  <2>2. p.in \in PortTypes  BY <2>1, RunnerFits
  <2>3. ASSUME NEW i \in DOMAIN vs PROVE vs[i] # Shape  BY <2>1, <2>2, GoodNoShape
  <2> QED  BY <2>3
<1>6. fate' \in {"fine", "lacking", "unordered"} /\ (fate' = "unordered" => Orders)
  <2>1. fate' = IF Lacking \in {vs[i] : i \in DOMAIN vs} THEN "lacking"
                ELSE IF unordered THEN "unordered" ELSE "fine"
        BY <1>5 DEF Handed
  <2> HIDE DEF Orders
  <2> QED  BY <2>1
<1>7. inputs' = [c \in PlanBots |-> inputs'[c]]  BY <1>1, <1>2
<1>8. ASSUME NEW c \in PlanBots, NEW i \in DOMAIN inputs'[c]
      PROVE  GoodFor(Runner(sheet.bots[c], c \in stoodIn'), inputs'[c][i])
  <2>1. CASE c = b
    <3>1. (c \in stoodIn') = standIn  BY <1>2, <2>1 DEF MayRun
    <3>2. inputs'[c] = vs  BY <1>3, <2>1
    <3> QED  BY <1>8, <2>1, <3>1, <3>2
  <2>2. CASE c # b
    <3>1. (c \in stoodIn') = (c \in stoodIn)  BY <1>2, <2>2
    <3>2. inputs'[c] = inputs[c]  BY <1>3, <2>2
    <3>3. GoodFor(Ran(c), inputs[c][i])  BY <1>4, <1>8, <3>2
    <3> QED  BY <3>1, <3>2, <3>3 DEF Ran
  <2> QED  BY <2>1, <2>2
<1> QED  BY <1>6, <1>7, <1>8 DEF HandedWell

\* A bot that returns what its port may carry keeps the outputs typed.
LEMMA ReturnedKeeps ==
  ASSUME Checked, NEW b \in PlanBots, NEW v \in OutValues(sheet, b), sheet' = sheet,
         Returned(b, v) \/ UNCHANGED outputs
  PROVE  /\ outputs' = [c \in PlanBots |-> outputs'[c]]
         /\ \A c \in PlanBots : outputs'[c] # Missing => outputs'[c] \in OutValues(sheet, c)
<1>1. outputs = [c \in PlanBots |-> outputs[c]]  BY DEF Checked, PlanInv
<1>2. \A c \in PlanBots : outputs[c] # Missing => outputs[c] \in OutValues(sheet, c)
      BY CheckedSheet DEF TypesKept
<1>3. CASE UNCHANGED outputs  BY <1>1, <1>2, <1>3
<1>4. CASE Returned(b, v)
  <2>1. PICK u : outputs' = [outputs EXCEPT ![b] = u] /\ (u = v \/ u = outputs[b])
        BY <1>4 DEF Returned
  <2>2. \A c \in PlanBots : outputs'[c] = IF c = b THEN u ELSE outputs[c]  BY <1>1, <2>1
  <2>3. outputs' = [c \in PlanBots |-> outputs'[c]]  BY <1>1, <2>1
  <2> QED  BY <1>2, <2>1, <2>2, <2>3
<1> QED  BY <1>3, <1>4

\* The step of one bot keeps the types, whichever way it runs.
Keeps ==
    /\ outputs' = [c \in PlanBots |-> outputs'[c]]
    /\ \A c \in PlanBots : outputs'[c] # Missing => outputs'[c] \in OutValues(sheet, c)
    /\ HandedWell

LEMMA OnceKeeps ==
  ASSUME Checked, NEW b \in PlanBots, \A a \in ReadsFrom(sheet, b) : outputs[a] # Missing,
         NEW standIn, MayRun(b, standIn), RunOnce(b, standIn), sheet' = sheet
  PROVE  Keeps
<1> DEFINE q == sheet.bots[b]
           p == Runner(q, standIn)
           first == ValueFor(b, standIn, 0)
           until == IF q.loop = "none" THEN "none" ELSE q.until
<1>1. /\ q \in BotRefs /\ q.out \in Ports /\ q.in \in PortTypes /\ p.out = q.out
      /\ q.loop \in {"none", "alone", "feeds", "feeds_unknown"}
      /\ p.same /\ q.loop = "feeds" => p.in = q.in
      BY CheckedSheet, RunnerFits DEF BotRefs
<1>2. ~IsFannedOut(sheet, b)  BY DEF RunOnce
<1>3. GoodFor(p, first)  BY <1>2, ValueSound
<1>4. q.loop # "feeds_unknown"  BY CheckedSheet DEF PlanOK, LoopFits
<1>5. q.loop = "feeds" => Declared(q.out) = q.in  BY DEF Checked, Unchecked
<1> DEFINE Took(v, w, unordered, turns) ==
             LET last == IF Len(turns) = 1 THEN v ELSE w
             IN /\ IF unordered THEN until = "orders" ELSE Answers(until, v) /\ Answers(until, last)
                /\ Handed(b, standIn, turns, unordered) /\ Returned(b, last)
<1>0. PICK v \in Produces(q.out), w \in Produces(q.out), unordered \in BOOLEAN :
         \E turns \in Turns(b, standIn, v) : Took(v, w, unordered, turns)
      BY <1>1 DEF RunOnce
<1>6. PICK turns \in Turns(b, standIn, v) : Took(v, w, unordered, turns)
      BY <1>0
<1>7. unordered => Orders
  <2>1. unordered => q.until = "orders"  BY <1>6
  <2> QED  BY <2>1 DEF Orders
<1>8. PICK u : Handed(b, standIn, turns, unordered) /\ Returned(b, u) /\ (u = v \/ u = w)
      BY <1>6
<1>9. PICK fed : /\ fed = (IF ~p.same THEN first ELSE IF q.loop = "feeds" THEN v ELSE V("null"))
                 /\ turns \in {<<first>>, <<first, fed>>}
                 /\ Len(turns) = 2 => q.loop = "feeds"
      BY <1>4 DEF Turns
<1>10. Conforms(v, Declared(q.out))  BY <1>1, <1>6, ProducesConforms
<1> HIDE DEF first, p
<1>11. q.loop = "feeds" => GoodFor(p, fed)
  <2>1. CASE ~p.same  BY <1>3, <1>9, <2>1
  <2>2. CASE p.same
    <3>1. q.loop = "feeds" => fed = v /\ Conforms(v, p.in)  BY <1>1, <1>5, <1>9, <1>10, <2>2
    <3> QED  BY <3>1 DEF GoodFor
  <2> QED  BY <2>1, <2>2
<1>12. \A i \in DOMAIN turns : GoodFor(p, turns[i])
  <2>1. CASE turns = <<first>>
    <3>1. DOMAIN turns = {1} /\ turns[1] = first  BY <2>1
    <3> QED  BY <1>3, <3>1
  <2>2. CASE turns = <<first, fed>>
    <3>1. DOMAIN turns = {1, 2} /\ turns[1] = first /\ turns[2] = fed /\ Len(turns) = 2  BY <2>2
    <3>2. GoodFor(p, fed)  BY <1>9, <1>11, <3>1
    <3> QED  BY <1>3, <3>1, <3>2
  <2> QED  BY <1>9, <2>1, <2>2
<1>13. OutValues(sheet, b) = Nested({Scalar(q.out)}, q.out.n)  BY <1>2 DEF OutValues
<1>14. u \in OutValues(sheet, b)
       BY <1>1, <1>6, <1>8, <1>13, ProducesNested
<1>15. HandedWell  BY <1>7, <1>8, <1>12, HandedKeeps DEF p
<1>16. /\ outputs' = [c \in PlanBots |-> outputs'[c]]
       /\ \A c \in PlanBots : outputs'[c] # Missing => outputs'[c] \in OutValues(sheet, c)
       BY <1>8, <1>14, ReturnedKeeps
<1> QED  BY <1>15, <1>16 DEF Keeps

LEMMA PerItemKeeps ==
  ASSUME Checked, NEW b \in PlanBots, \A a \in ReadsFrom(sheet, b) : outputs[a] # Missing,
         NEW standIn, MayRun(b, standIn), RunPerItem(b, standIn), sheet' = sheet
  PROVE  Keeps
<1> DEFINE q == sheet.bots[b]
           p == Runner(q, standIn)
           Fails(e) == Handed(b, standIn, <<e>>, FALSE) /\ UNCHANGED outputs
           lists == {Along(sheet.snaps[i]) : i \in FannedOver(sheet, b)}
           lengths == {Len(v.items) : v \in lists}
           S == Nested({Scalar(q.out)}, q.out.n)
<1>1. q \in BotRefs /\ q.out \in Ports /\ p.out = q.out  BY CheckedSheet, RunnerFits DEF BotRefs
<1>2. IsFannedOut(sheet, b)  BY DEF RunPerItem
<1>3. \A v \in lists : v = Lacking \/ \E U : v \in Lists(U)  BY AlongSound
<1>4. \/ lists \cap Errs # {} /\ Fails(CHOOSE e \in lists \cap Errs : TRUE)
      \/ Fails(Lacking)
      \/ /\ lists \cap Errs = {} /\ Cardinality(lengths) = 1
         /\ LET n == CHOOSE n \in lengths : TRUE
            IN /\ Handed(b, standIn, [i \in 1..n |-> ValueFor(b, standIn, i)], FALSE)
               /\ \E vs \in [1..n -> Produces(q.out)] : Returned(b, L(vs))
      BY <1>1 DEF RunPerItem
<1> HIDE DEF lists, lengths, p
<1>5. OutValues(sheet, b) = Lists(S)  BY <1>2 DEF OutValues
<1>6. L(<<>>) \in Lists(S)  BY EmptySeq DEF L, Lists
<1>7. CASE Fails(Lacking)
  <2>1. \A i \in DOMAIN <<Lacking>> : <<Lacking>>[i] = Lacking  OBVIOUS
  <2>2. \A i \in DOMAIN <<Lacking>> : GoodFor(p, <<Lacking>>[i])  BY <2>1 DEF GoodFor
  <2>3. HandedWell  BY <1>7, <2>2, HandedKeeps DEF p
  <2>4. /\ outputs' = [c \in PlanBots |-> outputs'[c]]
        /\ \A c \in PlanBots : outputs'[c] # Missing => outputs'[c] \in OutValues(sheet, c)
        BY <1>5, <1>6, <1>7, ReturnedKeeps
  <2> QED  BY <2>3, <2>4 DEF Keeps
<1>8. CASE lists \cap Errs # {} /\ Fails(CHOOSE e \in lists \cap Errs : TRUE)
  <2> DEFINE e == CHOOSE e \in lists \cap Errs : TRUE
  <2>1. e \in lists /\ e \in Errs  BY <1>8
  <2> HIDE DEF e
  <2>2. e = Lacking  BY <1>3, <2>1, ValuesApart
  <2> QED  BY <1>7, <1>8, <2>2 DEF e
<1>9. CASE /\ lists \cap Errs = {} /\ Cardinality(lengths) = 1
           /\ LET n == CHOOSE n \in lengths : TRUE
              IN /\ Handed(b, standIn, [i \in 1..n |-> ValueFor(b, standIn, i)], FALSE)
                 /\ \E vs \in [1..n -> Produces(q.out)] : Returned(b, L(vs))
  <2> DEFINE n == CHOOSE n \in lengths : TRUE
  <2>1. lengths # {}
    <3>1. Cardinality({}) = 0  BY FS_EmptySet
    <3>2. Cardinality(lengths) = 1  BY <1>9
    <3> QED  BY <3>1, <3>2
  <2>2. n \in lengths  BY <2>1
  <2>3. Handed(b, standIn, [i \in 1..n |-> ValueFor(b, standIn, i)], FALSE)  BY <1>9
  <2>4. PICK vs \in [1..n -> Produces(q.out)] : Returned(b, L(vs))  BY <1>9
  <2> HIDE DEF n
  <2>5. n \in Nat
    <3>1. PICK v \in lists : n = Len(v.items)  BY <2>2 DEF lengths
    <3>2. v # Lacking  BY <1>9, ValuesApart
    <3>3. PICK U : v \in Lists(U)  BY <1>3, <3>1, <3>2
    <3>4. v.items \in Seq(U)  BY <3>3, ValuesApart
    <3> QED  BY <3>1, <3>4, LenProperties
  <2> DEFINE given == [i \in 1..n |-> ValueFor(b, standIn, i)]
  <2>6. \A i \in DOMAIN given : GoodFor(p, given[i])
    <3>1. ASSUME NEW i \in 1..n PROVE GoodFor(p, ValueFor(b, standIn, i))
      <4>1. i \in Nat /\ i # 0  BY <2>5
      <4> QED  BY <4>1, ValueSound DEF p
    <3> QED  BY <3>1
  <2> HIDE DEF given
  <2>7. HandedWell
    <3>1. Handed(b, standIn, given, FALSE)  BY <2>3 DEF given
    <3> QED  BY <2>6, <3>1, HandedKeeps DEF p
  <2>8. L(vs) \in OutValues(sheet, b)
    <3>1. Produces(q.out) \subseteq S  BY <1>1, ProducesNested
    <3>2. vs \in [1..n -> S]  BY <2>4, <3>1
    <3>3. vs \in Seq(S)  BY <2>5, <3>2, SeqDef
    <3> QED  BY <1>5, <3>3 DEF L, Lists
  <2>9. /\ outputs' = [c \in PlanBots |-> outputs'[c]]
        /\ \A c \in PlanBots : outputs'[c] # Missing => outputs'[c] \in OutValues(sheet, c)
        BY <2>4, <2>8, ReturnedKeeps
  <2> QED  BY <2>7, <2>9 DEF Keeps
<1> QED  BY <1>4, <1>7, <1>8, <1>9

\* A bot that runs, by itself or its fallback, keeps the types.
LEMMA BotKeeps ==
  ASSUME Checked, NEW b \in PlanBots, RunBot(b)
  PROVE  Keeps /\ sheet' = sheet /\ verdict' = verdict
<1> DEFINE q == sheet.bots[b]
           v == ValueFor(b, FALSE, 0)
<1>1. sheet' = sheet /\ verdict' = verdict  BY DEF RunBot
<1>2. \A a \in ReadsFrom(sheet, b) : outputs[a] # Missing  BY DEF RunBot, ReadyToRun
<1>3. ASSUME NEW standIn, MayRun(b, standIn), RunAs(b, standIn) PROVE Keeps
      BY <1>1, <1>2, <1>3, OnceKeeps, PerItemKeeps DEF RunAs
<1>4. CASE Gate(b)
  <2>1. /\ q.when # "none" /\ UNCHANGED <<outputs, inputs, stoodIn>>
        /\ \/ v = Shape
           \/ fate' \in {"lacking", "over"}
           \/ fate' = "unordered" /\ q.when = "orders"
        BY <1>4 DEF Gate
  <2>2. ~IsFannedOut(sheet, b)  BY <2>1 DEF Checked, Unchecked
  <2> HIDE DEF v
  <2>3. v # Shape
    <3>1. PICK p : p = Runner(q, FALSE)
          OBVIOUS
    <3>2. MayRun(b, FALSE)  BY DEF MayRun
    <3>3. GoodFor(p, v) /\ p.in \in PortTypes  BY <1>2, <2>2, <3>1, <3>2, ValueSound, RunnerFits DEF v
    <3> QED  BY <3>3, GoodNoShape
  <2>4. fate' \in {"lacking", "over", "unordered"} /\ (fate' = "unordered" => Orders)
        BY <2>1, <2>3 DEF Orders
  <2>5. outputs = [c \in PlanBots |-> outputs[c]] /\ inputs = [c \in PlanBots |-> inputs[c]]
        BY DEF Checked, PlanInv
  <2>6. TypesKept  BY CheckedSheet
  <2>7. HandedWell  BY <2>1, <2>4, <2>5, <2>6 DEF HandedWell, TypesKept, Ran
  <2> QED  BY <1>1, <2>1, <2>5, <2>6, <2>7 DEF Keeps, TypesKept
<1>5. Gate(b) \/ RunAs(b, FALSE) \/ (q.fallback.is /\ RunAs(b, TRUE))
      BY DEF RunBot
<1>6. MayRun(b, FALSE) /\ (q.fallback.is => MayRun(b, TRUE))  BY DEF MayRun
<1> QED  BY <1>1, <1>3, <1>4, <1>5, <1>6

\* What holds of every document, whether or not it was checked.
LEMMA BotMoves ==
  ASSUME NEW b \in PlanBots, RunBot(b), PlanInv
  PROVE  outputs' = [c \in PlanBots |-> outputs'[c]] /\ inputs' = [c \in PlanBots |-> inputs'[c]]
<1>1. outputs = [c \in PlanBots |-> outputs[c]] /\ inputs = [c \in PlanBots |-> inputs[c]]
      BY DEF PlanInv
<1>2. \/ UNCHANGED <<outputs, inputs>>
      \/ \E standIn, vs, unordered :
            Handed(b, standIn, vs, unordered) /\ (outputs' = outputs \/ \E v : Returned(b, v))
  <2>1. CASE Gate(b)  BY <2>1 DEF Gate
  <2>2. ASSUME NEW standIn, RunOnce(b, standIn) \/ RunPerItem(b, standIn)
        PROVE  \E vs, unordered :
                  Handed(b, standIn, vs, unordered) /\ (outputs' = outputs \/ \E v : Returned(b, v))
        BY <2>2 DEF RunOnce, RunPerItem
  <2> QED  BY <2>1, <2>2 DEF RunBot, RunAs
<1>3. (\E vs : inputs' = [inputs EXCEPT ![b] = vs]) \/ inputs' = inputs
      BY <1>2 DEF Handed
<1>4. (\E v : outputs' = [outputs EXCEPT ![b] = v]) \/ outputs' = outputs
      BY <1>2 DEF Returned
<1> QED  BY <1>1, <1>3, <1>4

LEMMA PlanInvInit == ASSUME PlanInit PROVE PlanInv
BY DEF PlanInit, PlanInitOf, PlanInv

LEMMA PlanInvStep ==
  ASSUME PlanInv, [PlanNext]_planVars
  PROVE  PlanInv'
<1>1. CASE Plan
  <2>1. verdict = "none" /\ verdict' = (IF PlanOK(sheet) THEN "accepted" ELSE "refused")
        /\ UNCHANGED <<sheet, outputs, inputs, stoodIn, fate>>
        BY <1>1 DEF Plan
  <2>2. fate = "fine" /\ \A b \in PlanBots : outputs[b] = Missing /\ inputs[b] = <<>>
        BY <2>1 DEF PlanInv
  <2>3. TypesKept
    <3>1. \A b \in PlanBots : DOMAIN inputs[b] = {}  BY <2>2
    <3> QED  BY <2>2, <3>1 DEF TypesKept
  <2>4. TypesKept'  BY <2>1, <2>3 DEF TypesKept, OutValues, GoodFor, Ran, Orders
  <2> QED  BY <2>1, <2>2, <2>4 DEF PlanInv
<1>2. CASE \E b \in PlanBots : RunBot(b)
  <2>1. PICK b \in PlanBots : RunBot(b)  BY <1>2
  <2>2. verdict = "accepted" /\ sheet' = sheet /\ verdict' = verdict  BY <2>1 DEF RunBot
  <2>3. outputs' = [c \in PlanBots |-> outputs'[c]] /\ inputs' = [c \in PlanBots |-> inputs'[c]]
        BY <2>1, BotMoves
  <2>4. ~Unchecked(sheet) => TypesKept'
    <3>1. SUFFICES ASSUME ~Unchecked(sheet) PROVE TypesKept'
          OBVIOUS
    <3>2. Checked  BY <2>2, <3>1 DEF Checked
    <3>3. Keeps  BY <2>1, <3>2, BotKeeps
    <3> QED  BY <2>2, <3>3 DEF Keeps, HandedWell, TypesKept, OutValues, GoodFor, Ran, Orders
  <2> QED  BY <2>2, <2>3, <2>4 DEF PlanInv
<1>3. CASE UNCHANGED planVars
      BY <1>3 DEF planVars, PlanInv, TypesKept, OutValues, GoodFor, Ran, Orders
<1> QED  BY <1>1, <1>2, <1>3 DEF PlanNext

LEMMA PlanInvKeepsTypes == ASSUME PlanInv PROVE PlanKeepsTypes
<1> SUFFICES ASSUME verdict = "accepted", ~Unchecked(sheet) PROVE
      /\ fate \notin {"shape", "undecided"}
      /\ fate = "unordered" => Orders
      /\ \A b \in PlanBots : \A i \in DOMAIN inputs[b] :
            inputs[b][i] \in Errs \/ Conforms(inputs[b][i], Ran(b).in)
            \/ (inputs[b][i] = Missing /\ ~Ran(b).required)
    BY DEF PlanKeepsTypes, Ran, Orders
<1>1. TypesKept  BY DEF PlanInv
<1>2. Lacking \in Errs  BY DEF Errs
<1> QED  BY <1>1, <1>2 DEF TypesKept, GoodFor

\* A run of an accepted document never stops over the kind of a value that no
\* condition orders, nor hands one of the wrong type to a bot or its fallback.
THEOREM PlansKeepTypes == PlanSpec => []PlanKeepsTypes
<1>1. PlanInit => PlanInv  BY PlanInvInit
<1>2. PlanInv /\ [PlanNext]_planVars => PlanInv'  BY PlanInvStep
<1>3. PlanInv => PlanKeepsTypes  BY PlanInvKeepsTypes
<1> QED  BY <1>1, <1>2, <1>3, PTL DEF PlanSpec

\* A bot is handed values only once its document is accepted.
THEOREM PlanTypes == PlanSpec => []PlanTypeOK
<1> DEFINE Fates == {"fine", "over", "shape", "lacking", "undecided", "unordered"}
           Typed == /\ verdict \in {"none", "accepted", "refused"}
                    /\ fate \in Fates /\ stoodIn \subseteq PlanBots
<1>1. PlanInit => PlanInv /\ Typed
      BY PlanInvInit DEF PlanInit, PlanInitOf
<1>2. PlanInv /\ Typed /\ [PlanNext]_planVars => (PlanInv /\ Typed)'
  <2> SUFFICES ASSUME PlanInv, Typed, [PlanNext]_planVars PROVE Typed'
      BY PlanInvStep
  <2>1. CASE Plan  BY <2>1 DEF Plan
  <2>2. ASSUME NEW b \in PlanBots, RunBot(b) PROVE Typed'
    <3>1. verdict' = verdict  BY <2>2 DEF RunBot
    <3>2. ASSUME NEW standIn, NEW vs, NEW unordered, Handed(b, standIn, vs, unordered)
          PROVE  fate' \in Fates /\ stoodIn' \subseteq PlanBots
          BY <3>2 DEF Handed
    <3>3. ASSUME NEW standIn, RunAs(b, standIn) PROVE fate' \in Fates /\ stoodIn' \subseteq PlanBots
      <4>1. CASE RunOnce(b, standIn)  BY <3>2, <4>1 DEF RunOnce
      <4>2. CASE RunPerItem(b, standIn)  BY <3>2, <4>2 DEF RunPerItem
      <4> QED  BY <3>3, <4>1, <4>2 DEF RunAs
    <3>4. CASE Gate(b)  BY <3>1, <3>4 DEF Gate
    <3> QED  BY <2>2, <3>1, <3>3, <3>4 DEF RunBot
  <2>3. CASE UNCHANGED planVars  BY <2>3 DEF planVars
  <2> QED  BY <2>1, <2>2, <2>3 DEF PlanNext
<1>3. PlanInv /\ Typed => PlanTypeOK
      BY DEF PlanInv, PlanTypeOK
<1> QED  BY <1>1, <1>2, <1>3, PTL DEF PlanSpec

-----------------------------------------------------------------------------
(* Nesting.                                                                *)

\* The chains of files, and the file or no file a chain goes on with.
FileChains == Seq(NestFiles) \ {<<>>}
GoesOn(docs, chain) == docs[chain[Len(chain)]].node

\* A chain that goes on is a chain, one longer.
LEMMA ChainGoesOn ==
  ASSUME NEW docs \in [NestFiles -> NestDocs], NEW chain \in FileChains
  PROVE  /\ Len(chain) \in Nat /\ Len(chain) > 0 /\ chain[Len(chain)] \in NestFiles
         /\ docs[chain[Len(chain)]] \in NestDocs
         /\ GoesOn(docs, chain) \in NestFiles \cup {NoNode}
         /\ \A g \in NestFiles : Append(chain, g) \in FileChains /\ Len(Append(chain, g)) = Len(chain) + 1
<1>1. chain \in Seq(NestFiles) /\ chain # <<>>  BY DEF FileChains
<1>2. Len(chain) \in Nat /\ Len(chain) > 0  BY <1>1, LenProperties, EmptySeq
<1>3. Len(chain) \in 1..Len(chain)  BY <1>2
<1>4. chain[Len(chain)] \in NestFiles  BY <1>1, <1>3, ElementOfSeq
<1>5. docs[chain[Len(chain)]] \in NestDocs  BY <1>4
<1>6. \A d \in NestDocs : d.node \in NestFiles \cup {NoNode}  BY DEF NestDocs
<1>7. ASSUME NEW g \in NestFiles
      PROVE  Append(chain, g) \in FileChains /\ Len(Append(chain, g)) = Len(chain) + 1
  <2>1. Append(chain, g) \in Seq(NestFiles) /\ Len(Append(chain, g)) = Len(chain) + 1
        BY <1>1, AppendProperties
  <2>2. Append(chain, g) # <<>>  BY <1>2, <2>1, EmptySeq
  <2> QED  BY <2>1, <2>2 DEF FileChains
<1> QED  BY <1>2, <1>4, <1>5, <1>6, <1>7 DEF GoesOn

\* A file without a node, or too deep, is not looked into.
LEMMA NotLookedInto ==
  ASSUME NEW docs, NEW chain, GoesOn(docs, chain) = NoNode \/ Len(chain) > MaxNest, NEW x, NEW y
  PROVE  FlatFrom(docs, chain, x) = FlatFrom(docs, chain, y)
<1>1. CASE GoesOn(docs, chain) = NoNode  BY <1>1 DEF GoesOn, FlatFrom
<1>2. CASE GoesOn(docs, chain) # NoNode /\ Len(chain) > MaxNest
  <2>1. \A d : Stops(docs, d, chain)  BY <1>2 DEF Stops
  <2> QED  BY <1>2, <2>1 DEF GoesOn, FlatFrom
<1> QED  BY <1>1, <1>2

\* Flattening ends, so that its recursion defines a function.
LEMMA FlatIs ==
  ASSUME NEW docs \in [NestFiles -> NestDocs]
  PROVE  \A chain \in FileChains :
           Flat(docs)[chain] = FlatFrom(docs, chain, Flat(docs)[Append(chain, GoesOn(docs, chain))])
<1> DEFINE More(chain) == Append(chain, GoesOn(docs, chain))
           Is(f) == f = [chain \in FileChains |-> FlatFrom(docs, chain, f[More(chain)])]
           From(f, n) == \A chain \in FileChains : Len(chain) + n > MaxNest =>
                            f[chain] = FlatFrom(docs, chain, f[More(chain)])
           T == {n \in Nat : ~\E f : f = [chain \in FileChains |-> f[chain]] /\ From(f, n)}
<1>0. MaxNest \in Nat  BY NestAssumption
<1> HIDE DEF GoesOn
<1>1. T = {}
  <2>1. SUFFICES ASSUME T # {} PROVE FALSE
        OBVIOUS
  <2>2. PICK n \in T : \A m \in T : n <= m
    <3>1. T \in SUBSET Nat  OBVIOUS
    <3> HIDE DEF T
    <3> QED  BY <2>1, <3>1, Smallest
  <2>3. n # 0
    <3> SUFFICES \E f : f = [chain \in FileChains |-> f[chain]] /\ From(f, 0)
        OBVIOUS
    <3> DEFINE f == [chain \in FileChains |-> FlatFrom(docs, chain, 0)]
    <3>1. f = [chain \in FileChains |-> f[chain]]  OBVIOUS
    <3>2. ASSUME NEW chain \in FileChains, Len(chain) + 0 > MaxNest
          PROVE  f[chain] = FlatFrom(docs, chain, f[More(chain)])
      <4>1. f[chain] = FlatFrom(docs, chain, 0)  OBVIOUS
      <4>2. Len(chain) > MaxNest  BY <3>2, ChainGoesOn
      <4> HIDE DEF f, More, T
      <4>3. \A x, y : FlatFrom(docs, chain, x) = FlatFrom(docs, chain, y)  BY <4>2, NotLookedInto
      <4> QED  BY <4>1, <4>3
    <3>3. From(f, 0)  BY <3>2
    <3> HIDE DEF f, From
    <3> QED  BY <3>1, <3>3
  <2>4. n - 1 \in Nat /\ n - 1 \notin T
    <3>1. n - 1 \in Nat /\ ~(n <= n - 1)  BY <2>2, <2>3
    <3> HIDE DEF T
    <3> QED  BY <2>2, <3>1
  <2>5. PICK f : f = [chain \in FileChains |-> f[chain]] /\ From(f, n - 1)
    <3> HIDE DEF From
    <3> QED  BY <2>4
  <2> DEFINE h == [chain \in FileChains |-> FlatFrom(docs, chain, f[More(chain)])]
  <2>6. h = [chain \in FileChains |-> h[chain]]  OBVIOUS
  <2>7. From(h, n)
    <3> SUFFICES ASSUME NEW chain \in FileChains, Len(chain) + n > MaxNest
                 PROVE  h[chain] = FlatFrom(docs, chain, h[More(chain)])
        OBVIOUS
    <3>1. h[chain] = FlatFrom(docs, chain, f[More(chain)])  OBVIOUS
    <3>2. CASE GoesOn(docs, chain) = NoNode
      <4> HIDE DEF h, More
      <4> QED  BY <3>1, <3>2, NotLookedInto
    <3>3. CASE GoesOn(docs, chain) # NoNode
      <4>1. More(chain) \in FileChains /\ Len(More(chain)) = Len(chain) + 1 /\ Len(chain) \in Nat
            BY <3>3, ChainGoesOn
      <4>2. Len(More(chain)) + (n - 1) > MaxNest  BY <1>0, <2>2, <4>1
      <4>3. f[More(chain)] = FlatFrom(docs, More(chain), f[More(More(chain))])
        <5> DEFINE c == More(chain)
        <5>1. c \in FileChains /\ Len(c) + (n - 1) > MaxNest  BY <4>1, <4>2
        <5> HIDE DEF c
        <5>2. f[c] = FlatFrom(docs, c, f[More(c)])  BY <2>5, <5>1
        <5> QED  BY <5>2 DEF c
      <4>4. h[More(chain)] = FlatFrom(docs, More(chain), f[More(More(chain))])  BY <4>1
      <4> HIDE DEF h, More
      <4> QED  BY <3>1, <4>3, <4>4
    <3> QED  BY <3>2, <3>3
  <2> HIDE DEF h, From
  <2>8. n \notin T  BY <2>6, <2>7
  <2> QED  BY <2>2, <2>8
<1>2. \E f : Is(f)
  <2>1. MaxNest + 1 \in Nat /\ MaxNest + 1 \notin T  BY <1>0, <1>1
  <2>2. PICK f : f = [chain \in FileChains |-> f[chain]] /\ From(f, MaxNest + 1)
    <3> HIDE DEF From
    <3> QED  BY <2>1
  <2>3. ASSUME NEW chain \in FileChains PROVE f[chain] = FlatFrom(docs, chain, f[More(chain)])
    <3>1. Len(chain) + (MaxNest + 1) > MaxNest  BY <1>0, ChainGoesOn
    <3> HIDE DEF More
    <3> QED  BY <2>2, <3>1
  <2> HIDE DEF More
  <2>4. Is(f)  BY <2>2, <2>3
  <2> QED  BY <2>4
<1> DEFINE flat == CHOOSE f : Is(f)
<1>3. Is(flat)
  <2> HIDE DEF Is
  <2> QED  BY <1>2
<1>4. Flat(docs) = flat  BY DEF Flat, FileChains, GoesOn
<1> HIDE DEF flat, More
<1>5. \A chain \in FileChains : flat[chain] = FlatFrom(docs, chain, flat[More(chain)])  BY <1>3
<1> QED  BY <1>4, <1>5 DEF More

-----------------------------------------------------------------------------
\* There is one file at each level, until there is none.
LEMMA LevelIs ==
  ASSUME NEW docs \in [NestFiles -> NestDocs], NEW top \in NestFiles
  PROVE  LET level == Level(docs, top)
         IN /\ Depth \in Nat /\ level[0] = top
            /\ \A k \in 1..Depth : level[k] = IF level[k - 1] = NoNode THEN NoNode ELSE docs[level[k - 1]].node
<1> DEFINE Step(x) == IF x = NoNode THEN NoNode ELSE docs[x].node
           Is(f, n) == f = [k \in 0..n |-> IF k = 0 THEN top ELSE Step(f[k - 1])]
<1> HIDE DEF Step
<1>1. Depth \in Nat  BY NestAssumption, FS_CardinalityType DEF Depth
<1>2. \E f : Is(f, Depth)
  <2> DEFINE T == {n \in Nat : ~\E f : Is(f, n)}
  <2>1. SUFFICES ASSUME T # {} PROVE FALSE
        BY <1>1
  <2>2. PICK n \in T : \A m \in T : n <= m  BY <2>1, Smallest
  <2>3. n # 0
    <3>1. Is([m \in 0..0 |-> top], 0)  OBVIOUS
    <3> QED  BY <3>1
  <2>4. n - 1 \in Nat /\ n - 1 \notin T
    <3>1. n - 1 \in Nat /\ ~(n <= n - 1)  BY <2>2, <2>3
    <3> HIDE DEF T
    <3> QED  BY <2>2, <3>1
  <2>5. PICK f : Is(f, n - 1)  BY <2>4
  <2> DEFINE g == [k \in 0..n |-> IF k = 0 THEN top ELSE Step(f[k - 1])]
  <2>6. \A k \in 0..(n - 1) : g[k] = f[k]  BY <2>4, <2>5
  <2>7. Is(g, n)
    <3>1. ASSUME NEW k \in 0..n, k # 0 PROVE g[k - 1] = f[k - 1]
      <4>1. k - 1 \in 0..(n - 1)  BY <2>3, <2>4, <3>1
      <4> QED  BY <2>6, <4>1
    <3>2. \A k \in 0..n : g[k] = IF k = 0 THEN top ELSE Step(g[k - 1])  BY <3>1
    <3> QED  BY <3>2
  <2> QED  BY <2>2, <2>7
<1> DEFINE level == CHOOSE f : Is(f, Depth)
<1>3. Is(level, Depth)
  <2> HIDE DEF Is
  <2> QED  BY <1>2
<1>4. Level(docs, top) = level  BY DEF Level, Step
<1> HIDE DEF level
<1> QED  BY <1>1, <1>3, <1>4 DEF Step

\* Levels are files, without a gap.
LEMMA LevelsGoDown ==
  ASSUME NEW docs \in [NestFiles -> NestDocs], NEW top \in NestFiles
  PROVE  LET level == Level(docs, top)
         IN /\ 0 \in LevelsOf(level)
            /\ \A k \in LevelsOf(level) : level[k] \in NestFiles /\ docs[level[k]] \in NestDocs
            /\ \A k \in LevelsOf(level) : \A j \in 0..k : j \in LevelsOf(level)
            /\ \A k \in LevelsOf(level) : k < Depth => level[k + 1] = docs[level[k]].node
<1> DEFINE level == Level(docs, top)
<1>1. /\ Depth \in Nat /\ level[0] = top
      /\ \A k \in 1..Depth : level[k] = IF level[k - 1] = NoNode THEN NoNode ELSE docs[level[k - 1]].node
      BY LevelIs
<1> HIDE DEF level
<1>2. \A d \in NestDocs : d.node \in NestFiles \cup {NoNode}  BY DEF NestDocs
<1>3. top # NoNode /\ 0 \in LevelsOf(level)
  <2>1. top # NoNode  BY NestAssumption
  <2> QED  BY <1>1, <2>1 DEF LevelsOf
<1>4. ASSUME NEW k \in LevelsOf(level), k # 0 PROVE k - 1 \in LevelsOf(level)
  <2>1. k \in 1..Depth /\ level[k] # NoNode /\ k - 1 \in 0..Depth  BY <1>1, <1>4 DEF LevelsOf
  <2>2. level[k - 1] # NoNode  BY <1>1, <2>1
  <2> QED  BY <2>1, <2>2 DEF LevelsOf
<1>5. \A k \in LevelsOf(level) : level[k] \in NestFiles
  <2> DEFINE T == {k \in LevelsOf(level) : level[k] \notin NestFiles}
  <2>1. SUFFICES ASSUME T # {} PROVE FALSE
        OBVIOUS
  <2>2. PICK k \in T : \A m \in T : k <= m
    <3>1. T \in SUBSET Nat  BY DEF LevelsOf
    <3> HIDE DEF T
    <3> QED  BY <2>1, <3>1, Smallest
  <2>3. k # 0  BY <1>1, <2>2
  <2>4. k - 1 \in LevelsOf(level) /\ k \in 1..Depth /\ level[k] # NoNode
        BY <1>1, <1>4, <2>2, <2>3 DEF LevelsOf
  <2>5. level[k - 1] \in NestFiles
    <3>1. k - 1 \notin T
      <4>1. ~(k <= k - 1)  BY <2>4
      <4> HIDE DEF T
      <4> QED  BY <2>2, <4>1
    <3> QED  BY <2>4, <3>1
  <2>6. level[k] = docs[level[k - 1]].node
    <3>1. level[k - 1] # NoNode  BY <2>5, NestAssumption
    <3> QED  BY <1>1, <2>4, <3>1
  <2>7. level[k] \in NestFiles  BY <1>2, <2>4, <2>5, <2>6
  <2> QED  BY <2>2, <2>7
<1>6. ASSUME NEW k \in LevelsOf(level), NEW j \in 0..k PROVE j \in LevelsOf(level)
  <2> DEFINE T == {m \in Nat : k - m \in 0..k /\ k - m \notin LevelsOf(level)}
  <2>0. k \in 0..Depth  BY DEF LevelsOf
  <2>1. SUFFICES ASSUME T # {} PROVE FALSE
    <3>1. k - (k - j) = j /\ k - j \in Nat  BY <1>1, <2>0
    <3> QED  BY <3>1
  <2>2. PICK m \in T : \A i \in T : m <= i
    <3>1. T \in SUBSET Nat  OBVIOUS
    <3> HIDE DEF T
    <3> QED  BY <2>1, <3>1, Smallest
  <2>3. m # 0  BY <1>1, <1>6, <2>0, <2>2
  <2>4. m - 1 \in Nat /\ m - 1 \notin T
    <3>1. m - 1 \in Nat /\ ~(m <= m - 1)  BY <2>2, <2>3
    <3> HIDE DEF T
    <3> QED  BY <2>2, <3>1
  <2>5. k - (m - 1) \in 0..k /\ (k - (m - 1)) - 1 = k - m /\ k - (m - 1) # 0  BY <1>1, <2>0, <2>2, <2>4
  <2>6. k - (m - 1) \in LevelsOf(level)  BY <2>4, <2>5
  <2>7. k - m \in LevelsOf(level)  BY <1>4, <2>5, <2>6
  <2> QED  BY <2>2, <2>7
<1>7. ASSUME NEW k \in LevelsOf(level), k < Depth PROVE level[k + 1] = docs[level[k]].node
  <2>1. k + 1 \in 1..Depth /\ (k + 1) - 1 = k /\ level[k] # NoNode  BY <1>1, <1>7 DEF LevelsOf
  <2> QED  BY <1>1, <2>1
<1>8. \A k \in LevelsOf(level) : docs[level[k]] \in NestDocs  BY <1>5
<1> QED  BY <1>3, <1>5, <1>6, <1>7, <1>8 DEF level

\* Whoever is behind a name is found within the levels, so that the recursion
\* that follows it defines a function.
LEMMA BehindIs ==
  ASSUME NEW docs, NEW level
  PROVE  \A k \in 0..(Depth + 1) :
           Behind(docs, level)[k] = BehindFrom(docs, level, k, Behind(docs, level)[k + 1])
<1> DEFINE K == 0..(Depth + 1)
           Step(k, x) == BehindFrom(docs, level, k, x)
           Is(f) == f = [k \in K |-> Step(k, f[k + 1])]
           From(f, n) == \A k \in K : k + n > Depth => f[k] = Step(k, f[k + 1])
           T == {n \in Nat : ~\E f : f = [k \in K |-> f[k]] /\ From(f, n)}
<1>0. Depth \in Nat  BY NestAssumption, FS_CardinalityType DEF Depth
<1>1. ASSUME NEW k \in K, k > Depth, NEW x, NEW y PROVE Step(k, x) = Step(k, y)
      BY <1>1 DEF BehindFrom
<1> HIDE DEF Step
<1>2. T = {}
  <2>1. SUFFICES ASSUME T # {} PROVE FALSE
        OBVIOUS
  <2>2. PICK n \in T : \A m \in T : n <= m
    <3>1. T \in SUBSET Nat  OBVIOUS
    <3> HIDE DEF T
    <3> QED  BY <2>1, <3>1, Smallest
  <2>3. n # 0
    <3> SUFFICES \E f : f = [k \in K |-> f[k]] /\ From(f, 0)
        OBVIOUS
    <3> DEFINE f == [k \in K |-> Step(k, 0)]
    <3>1. f = [k \in K |-> f[k]]  OBVIOUS
    <3>2. ASSUME NEW k \in K, k + 0 > Depth PROVE f[k] = Step(k, f[k + 1])
      <4>1. f[k] = Step(k, 0)  OBVIOUS
      <4>2. k > Depth  BY <1>0, <3>2
      <4> HIDE DEF f, T
      <4> QED  BY <1>1, <4>1, <4>2
    <3>3. From(f, 0)  BY <3>2
    <3> HIDE DEF f, From
    <3> QED  BY <3>1, <3>3
  <2>4. n - 1 \in Nat /\ n - 1 \notin T
    <3>1. n - 1 \in Nat /\ ~(n <= n - 1)  BY <2>2, <2>3
    <3> HIDE DEF T
    <3> QED  BY <2>2, <3>1
  <2>5. PICK f : f = [k \in K |-> f[k]] /\ From(f, n - 1)
    <3> HIDE DEF From
    <3> QED  BY <2>4
  <2> DEFINE h == [k \in K |-> Step(k, f[k + 1])]
  <2>6. h = [k \in K |-> h[k]]  OBVIOUS
  <2>7. From(h, n)
    <3> SUFFICES ASSUME NEW k \in K, k + n > Depth PROVE h[k] = Step(k, h[k + 1])
        OBVIOUS
    <3>1. h[k] = Step(k, f[k + 1])  OBVIOUS
    <3>2. CASE k > Depth
      <4> HIDE DEF h, T
      <4> QED  BY <1>1, <3>1, <3>2
    <3>3. CASE ~(k > Depth)
      <4>1. k + 1 \in K /\ (k + 1) + (n - 1) > Depth  BY <1>0, <2>2, <3>3
      <4>2. f[k + 1] = Step(k + 1, f[(k + 1) + 1])  BY <2>5, <4>1
      <4>3. h[k + 1] = Step(k + 1, f[(k + 1) + 1])  BY <4>1
      <4> HIDE DEF h
      <4> QED  BY <3>1, <4>2, <4>3
    <3> QED  BY <3>2, <3>3
  <2> HIDE DEF h, From
  <2>8. n \notin T  BY <2>6, <2>7
  <2> QED  BY <2>2, <2>8
<1>3. \E f : Is(f)
  <2>1. Depth + 1 \in Nat /\ Depth + 1 \notin T  BY <1>0, <1>2
  <2>2. PICK f : f = [k \in K |-> f[k]] /\ From(f, Depth + 1)
    <3> HIDE DEF From
    <3> QED  BY <2>1
  <2>3. ASSUME NEW k \in K PROVE f[k] = Step(k, f[k + 1])
    <3>1. k + (Depth + 1) > Depth  BY <1>0
    <3> QED  BY <2>2, <3>1
  <2>4. Is(f)  BY <2>2, <2>3
  <2> QED  BY <2>4
<1> DEFINE behind == CHOOSE f : Is(f)
<1>4. Is(behind)
  <2> HIDE DEF Is
  <2> QED  BY <1>3
<1>5. Behind(docs, level) = behind  BY DEF Behind, Step
<1> HIDE DEF behind
<1> QED  BY <1>4, <1>5 DEF Step

-----------------------------------------------------------------------------
\* The chain of files down to a level, and what they flatten to.
ChainTo(docs, top, k) == [i \in 1..(k + 1) |-> Level(docs, top)[i - 1]]
FlatAt(docs, top, k) == Flat(docs)[ChainTo(docs, top, k)]

\* A chain goes on with the next level.
LEMMA ChainAt ==
  ASSUME NEW docs \in [NestFiles -> NestDocs], NEW top \in NestFiles,
         NEW k \in LevelsOf(Level(docs, top))
  PROVE  LET level == Level(docs, top)
             chain == ChainTo(docs, top, k)
         IN /\ k \in Nat /\ k <= Depth /\ chain \in FileChains /\ Len(chain) = k + 1 /\ chain[k + 1] = level[k]
            /\ \A i \in 0..k : \E j \in DOMAIN chain : chain[j] = level[i]
            /\ k + 1 \in LevelsOf(level) => Append(chain, level[k + 1]) = ChainTo(docs, top, k + 1)
<1> DEFINE level == Level(docs, top)
           chain == ChainTo(docs, top, k)
<1>1. Depth \in Nat  BY LevelIs
<1>2. k \in 0..Depth /\ k \in Nat /\ k <= Depth  BY <1>1 DEF LevelsOf
<1>3. /\ \A j \in 0..k : level[j] \in NestFiles
      /\ k + 1 \in LevelsOf(level) => level[k + 1] \in NestFiles
      BY LevelsGoDown
<1> HIDE DEF level
<1>4. chain = [i \in 1..(k + 1) |-> level[i - 1]]  BY DEF ChainTo, level
<1>5. \A i \in 1..(k + 1) : i - 1 \in 0..k  BY <1>2
<1>6. chain \in [1..(k + 1) -> NestFiles]  BY <1>3, <1>4, <1>5
<1>7. chain \in Seq(NestFiles) /\ Len(chain) = k + 1 /\ k + 1 \in Nat /\ DOMAIN chain = 1..(k + 1)
      BY <1>2, <1>6
<1> HIDE DEF chain
<1>8. chain \in FileChains  BY <1>2, <1>7 DEF FileChains
<1>9. chain[k + 1] = level[k]
  <2>1. k + 1 \in 1..(k + 1) /\ (k + 1) - 1 = k  BY <1>2
  <2> QED  BY <1>4, <2>1
<1>10. \A i \in 0..k : \E j \in DOMAIN chain : chain[j] = level[i]
  <2> SUFFICES ASSUME NEW i \in 0..k PROVE \E j \in DOMAIN chain : chain[j] = level[i]
      OBVIOUS
  <2>1. i + 1 \in 1..(k + 1) /\ (i + 1) - 1 = i  BY <1>2
  <2>2. chain[i + 1] = level[i]  BY <1>4, <2>1
  <2> QED  BY <1>7, <2>1, <2>2
<1>11. ASSUME k + 1 \in LevelsOf(level) PROVE Append(chain, level[k + 1]) = ChainTo(docs, top, k + 1)
  <2> DEFINE longer == Append(chain, level[k + 1])
             next == [i \in 1..((k + 1) + 1) |-> level[i - 1]]
  <2>1. level[k + 1] \in NestFiles  BY <1>3, <1>11
  <2>2. /\ longer \in Seq(NestFiles) /\ Len(longer) = (k + 1) + 1
        /\ \A i \in 1..(k + 1) : longer[i] = chain[i]
        /\ longer[(k + 1) + 1] = level[k + 1]
        BY <1>7, <2>1, AppendProperties
  <2> HIDE DEF longer
  <2>3. longer = [i \in 1..((k + 1) + 1) |-> longer[i]]  BY <2>2, LenProperties
  <2>4. ASSUME NEW i \in 1..((k + 1) + 1) PROVE longer[i] = level[i - 1]
    <3>1. CASE i \in 1..(k + 1)  BY <1>4, <2>2, <3>1
    <3>2. CASE i = (k + 1) + 1
      <4>1. i - 1 = k + 1  BY <1>2, <3>2
      <4> QED  BY <2>2, <3>2, <4>1
    <3> QED  BY <1>2, <3>1, <3>2
  <2>5. longer = next  BY <2>3, <2>4
  <2> QED  BY <2>5 DEF longer, ChainTo, level
<1> QED  BY <1>2, <1>7, <1>8, <1>9, <1>10, <1>11 DEF level, chain

\* What a level flattens to, and what that says of the next.
LEMMA LevelFlattens ==
  ASSUME NEW docs \in [NestFiles -> NestDocs], NEW top \in NestFiles,
         NEW k \in LevelsOf(Level(docs, top))
  PROVE  LET level == Level(docs, top)
             d == docs[level[k]]
             e == docs[level[k + 1]]
             inner == FlatAt(docs, top, k + 1)
         IN /\ d.node = NoNode => FlatAt(docs, top, k) = Alone(d) /\ k + 1 \notin LevelsOf(level)
            /\ d.node # NoNode /\ k < Depth => k + 1 \in LevelsOf(level)
            /\ k + 1 \in LevelsOf(level) /\ FlatAt(docs, top, k).ok =>
                 /\ \A i \in 0..k : level[i] # level[k + 1]
                 /\ Fits(d, e, inner) /\ FlatAt(docs, top, k) = Inlined(d, e, inner)
<1> DEFINE level == Level(docs, top)
           chain == ChainTo(docs, top, k)
           d == docs[level[k]]
           e == docs[level[k + 1]]
           inner == FlatAt(docs, top, k + 1)
<1>1. /\ k \in Nat /\ k <= Depth /\ Depth \in Nat
      /\ chain \in FileChains /\ Len(chain) = k + 1 /\ chain[k + 1] = level[k]
      /\ \A i \in 0..k : \E j \in DOMAIN chain : chain[j] = level[i]
      /\ k + 1 \in LevelsOf(level) => Append(chain, level[k + 1]) = ChainTo(docs, top, k + 1)
      BY ChainAt, LevelIs
<1>2. k < Depth => level[k + 1] = d.node  BY LevelsGoDown
<1> HIDE DEF level, chain
<1>3. GoesOn(docs, chain) = d.node  BY <1>1 DEF GoesOn
<1>4. FlatAt(docs, top, k) = FlatFrom(docs, chain, Flat(docs)[Append(chain, d.node)])
  <2>1. FlatAt(docs, top, k) = Flat(docs)[chain]  BY DEF FlatAt, chain
  <2>2. Flat(docs)[chain] = FlatFrom(docs, chain, Flat(docs)[Append(chain, GoesOn(docs, chain))])
        BY <1>1, FlatIs
  <2> QED  BY <1>3, <2>1, <2>2
<1>5. k + 1 \in LevelsOf(level) => k < Depth /\ level[k + 1] # NoNode  BY <1>1 DEF LevelsOf
<1>6. ASSUME d.node = NoNode PROVE FlatAt(docs, top, k) = Alone(d) /\ k + 1 \notin LevelsOf(level)
  <2>1. FlatAt(docs, top, k) = Alone(d)  BY <1>1, <1>4, <1>6 DEF FlatFrom
  <2> QED  BY <1>2, <1>5, <1>6, <2>1
<1>7. ASSUME d.node # NoNode, k < Depth PROVE k + 1 \in LevelsOf(level)
  <2>1. level[k + 1] # NoNode /\ k + 1 \in 0..Depth  BY <1>1, <1>2, <1>7
  <2> QED  BY <2>1 DEF LevelsOf
<1>8. ASSUME k + 1 \in LevelsOf(level), FlatAt(docs, top, k).ok
      PROVE  /\ \A i \in 0..k : level[i] # level[k + 1]
             /\ Fits(d, e, inner) /\ FlatAt(docs, top, k) = Inlined(d, e, inner)
  <2>1. d.node = level[k + 1] /\ d.node # NoNode  BY <1>2, <1>5, <1>8
  <2>2. Flat(docs)[Append(chain, d.node)] = inner  BY <1>1, <1>8, <2>1 DEF FlatAt
  <2>3. docs[chain[Len(chain)]] = d  BY <1>1
  <2> HIDE DEF d, e, inner
  <2>4. FlatAt(docs, top, k) = IF Stops(docs, d, chain) \/ ~Fits(d, docs[d.node], inner) THEN Refused
                           ELSE Inlined(d, docs[d.node], inner)
        BY <1>4, <2>1, <2>2, <2>3 DEF FlatFrom
  <2>5. docs[d.node] = e  BY <2>1 DEF e
  <2>6. ~Stops(docs, d, chain) /\ Fits(d, e, inner)
    <3>1. FlatAt(docs, top, k) # Refused  BY <1>8 DEF Refused
    <3> QED  BY <2>4, <2>5, <3>1
  <2>7. \A i \in DOMAIN chain : chain[i] # d.node  BY <2>6 DEF Stops
  <2> QED  BY <1>1, <2>1, <2>4, <2>5, <2>6, <2>7
<1> QED  BY <1>6, <1>7, <1>8 DEF level

\* Where the outer file is flattened, each level is, all its wires end at its
\* bots, and no file is inside itself.
LEMMA AllFit ==
  ASSUME NEW docs \in [NestFiles -> NestDocs], NEW top \in NestFiles,
         FlatAt(docs, top, 0).ok, Wired(FlatAt(docs, top, 0))
  PROVE  LET level == Level(docs, top)
         IN /\ \A k \in LevelsOf(level) : FlatAt(docs, top, k).ok /\ Wired(FlatAt(docs, top, k))
            /\ ~Endless(level)
<1> DEFINE level == Level(docs, top)
           Own2(k) == \A i, j \in 0..k : level[i] = level[j] => i = j
           Good(k) == FlatAt(docs, top, k).ok /\ Wired(FlatAt(docs, top, k)) /\ Own2(k)
           T == {k \in LevelsOf(level) : ~Good(k)}
<1>1. Depth \in Nat  BY LevelIs
<1>2. T = {}
  <2>1. SUFFICES ASSUME T # {} PROVE FALSE
        OBVIOUS
  <2>2. PICK k \in T : \A m \in T : k <= m
    <3>1. T \in SUBSET Nat  BY DEF LevelsOf
    <3> HIDE DEF T
    <3> QED  BY <2>1, <3>1, Smallest
  <2>3. k \in LevelsOf(level) /\ k \in Nat  BY DEF LevelsOf
  <2>4. k # 0
    <3>1. Own2(0)  OBVIOUS
    <3> QED  BY <2>2, <3>1
  <2>5. k - 1 \in Nat /\ k - 1 \in LevelsOf(level) /\ k - 1 \notin T
    <3>1. k - 1 \in 0..k /\ k - 1 \in Nat /\ ~(k <= k - 1)  BY <2>3, <2>4
    <3>2. k - 1 \in LevelsOf(level)  BY <2>3, <3>1, LevelsGoDown
    <3> HIDE DEF T
    <3> QED  BY <2>2, <3>1, <3>2
  <2> DEFINE m == k - 1
  <2>6. m \in LevelsOf(level) /\ m + 1 = k /\ m \in Nat /\ m + 1 \in LevelsOf(level)  BY <2>3, <2>5
  <2>7. Good(m)  BY <2>5
  <2> HIDE DEF m, T, level, Own2
  <2>8. /\ \A i \in 0..m : level[i] # level[m + 1]
        /\ Fits(docs[level[m]], docs[level[m + 1]], FlatAt(docs, top, m + 1))
        BY <2>6, <2>7, LevelFlattens DEF level
  <2>9. FlatAt(docs, top, k).ok /\ Wired(FlatAt(docs, top, k))  BY <2>6, <2>8 DEF Fits
  <2>10. Own2(k)
    <3> SUFFICES ASSUME NEW i \in 0..k, NEW j \in 0..k, level[i] = level[j] PROVE i = j
        BY DEF Own2
    <3>1. CASE i \in 0..m /\ j \in 0..m  BY <2>7, <3>1 DEF Own2
    <3>2. CASE i = k \/ j = k
      <4>1. (i = k /\ j \in 0..m) \/ (j = k /\ i \in 0..m) \/ i = j  BY <2>6, <3>2
      <4> QED  BY <2>6, <2>8, <4>1
    <3> QED  BY <2>6, <3>1, <3>2
  <2> QED  BY <2>2, <2>9, <2>10 DEF T
<1>3. ASSUME Endless(level) PROVE FALSE
  <2>1. Depth \in LevelsOf(level)  BY <1>3 DEF Endless
  <2>2. Own2(Depth)  BY <1>2, <2>1
  <2>3. \A k \in 0..Depth : level[k] \in NestFiles  BY <2>1, LevelsGoDown
  <2> HIDE DEF level
  <2> DEFINE f == [k \in 0..Depth |-> level[k]]
  <2>4. f \in [0..Depth -> NestFiles]  BY <2>3
  <2>5. IsFiniteSet(0..Depth) /\ Cardinality(0..Depth) = Depth + 1
    <3>1. IsFiniteSet(0..Depth) /\ Cardinality(0..Depth) = IF 0 > Depth THEN 0 ELSE Depth - 0 + 1
          BY <1>1, FS_Interval
    <3> QED  BY <1>1, <3>1
  <2>6. Cardinality(NestFiles) < Cardinality(0..Depth)  BY <1>1, <2>5 DEF Depth
  <2>7. \E i, j \in 0..Depth : i # j /\ f[i] = f[j]
    <3> HIDE DEF f
    <3> QED  BY <2>4, <2>5, <2>6, NestAssumption, FS_PigeonHole
  <2> QED  BY <2>2, <2>7
<1> QED  BY <1>2, <1>3

-----------------------------------------------------------------------------
\* The name of a bot: nodes, and "w" at the end.
Named(id) == id \in Seq(Own) /\ id # <<>> /\ id[Len(id)] = "w"

\* One thing is a sequence, and so is one thing over and over.
LEMMA OneOrMore ==
  ASSUME NEW S, NEW x \in S
  PROVE  /\ <<x>> \in Seq(S) /\ Len(<<x>>) = 1 /\ <<x>>[1] = x /\ <<x>> # <<>>
         /\ \A m \in Nat : LET s == [i \in 1..m |-> x] IN s \in Seq(S) /\ Len(s) = m
OBVIOUS

\* What a name says of the names it is made from.
LEMMA Names ==
  /\ Named(<<"w">>)
  /\ \A x : Named(<<x>>) => x = "w"
  /\ \A x : Named(<<"n", x>>) => x = "w"
  /\ \A id : Named(id) => Named(Prefixed(id))
  /\ Prefixed(<<"w">>) = <<"n", "w">>
<1>1. Named(<<"w">>)
  <2>1. "w" \in Own  BY DEF Own
  <2> QED  BY <2>1, OneOrMore DEF Named
<1>2. \A x : Len(<<x>>) = 1 /\ <<x>>[1] = x  OBVIOUS
<1>3. \A x : Len(<<"n", x>>) = 2 /\ <<"n", x>>[2] = x  OBVIOUS
<1>4. ASSUME NEW id, Named(id) PROVE Named(Prefixed(id))
  <2> DEFINE s == <<"n">> \o id
  <2>1. id \in Seq(Own) /\ Len(id) \in Nat /\ Len(id) > 0 /\ id[Len(id)] = "w"
        BY <1>4, LenProperties, EmptySeq DEF Named
  <2>2. <<"n">> \in Seq(Own) /\ Len(<<"n">>) = 1
    <3>1. "n" \in Own  BY DEF Own
    <3> QED  BY <3>1, OneOrMore
  <2>3. /\ s \in Seq(Own) /\ Len(s) = 1 + Len(id)
        /\ \A i \in 1..(1 + Len(id)) : s[i] = IF i <= 1 THEN <<"n">>[i] ELSE id[i - 1]
    <3> DEFINE a == <<"n">>
    <3>1. a \in Seq(Own) /\ Len(a) = 1  BY <2>2
    <3> HIDE DEF a
    <3>2. a \o id \in Seq(Own) /\ Len(a \o id) = Len(a) + Len(id)
          /\ \A i \in 1..(Len(a) + Len(id)) : (a \o id)[i] = IF i <= Len(a) THEN a[i] ELSE id[i - Len(a)]
          BY <2>1, <3>1, ConcatProperties
    <3> QED  BY <3>1, <3>2 DEF a
  <2> HIDE DEF s
  <2>4. 1 + Len(id) \in 1..(1 + Len(id)) /\ (1 + Len(id)) - 1 = Len(id) /\ ~(1 + Len(id) <= 1)  BY <2>1
  <2>5. s[Len(s)] = "w"  BY <2>1, <2>3, <2>4
  <2>6. s # <<>>  BY <2>1, <2>3, EmptySeq
  <2> QED  BY <2>3, <2>5, <2>6 DEF Named, Prefixed, s
<1>5. Prefixed(<<"w">>) = <<"n", "w">>
  <2>1. \A x, y : <<x>> \o <<y>> = <<x, y>>
    <3> SUFFICES ASSUME NEW x, NEW y PROVE <<x>> \o <<y>> = <<x, y>>
        OBVIOUS
    <3> DEFINE S == {x, y}
               s == <<x>>
               t == <<y>>
               u == <<x, y>>
    <3>1. s \in Seq(S) /\ t \in Seq(S) /\ Len(s) = 1 /\ Len(t) = 1 /\ s[1] = x /\ t[1] = y
          BY OneOrMore
    <3>2. u \in Seq(S) /\ Len(u) = 2 /\ u[1] = x /\ u[2] = y  OBVIOUS
    <3> HIDE DEF S, s, t, u
    <3>3. s \o t \in Seq(S) /\ Len(s \o t) = 2 /\ (s \o t)[1] = x /\ (s \o t)[2] = y
      <4>1. /\ s \o t \in Seq(S) /\ Len(s \o t) = 1 + 1
            /\ \A i \in 1..(1 + 1) : (s \o t)[i] = IF i <= 1 THEN s[i] ELSE t[i - 1]
            BY <3>1, ConcatProperties
      <4>2. 1 \in 1..(1 + 1) /\ 2 \in 1..(1 + 1) /\ ~(2 <= 1) /\ 2 - 1 = 1 /\ 1 + 1 = 2  OBVIOUS
      <4> QED  BY <3>1, <4>1, <4>2
    <3>4. \A i \in 1..2 : (s \o t)[i] = u[i]
      <4>1. \A i \in 1..2 : i = 1 \/ i = 2  OBVIOUS
      <4> QED  BY <3>2, <3>3, <4>1
    <3>5. s \o t = u  BY <3>2, <3>3, <3>4, SeqEqual
    <3> QED  BY <3>5 DEF s, t, u
  <2> QED  BY <2>1 DEF Prefixed
<1>6. \A x : Named(<<x>>) => x = "w"  BY <1>2 DEF Named
<1>7. \A x : Named(<<"n", x>>) => x = "w"  BY <1>3 DEF Named
<1> QED  BY <1>1, <1>4, <1>5, <1>6, <1>7

\* Where a name stands does not depend on where its nodes are counted.
LEMMA InsideNext ==
  ASSUME NEW id \in Seq(Own), NEW k \in Nat
  PROVE  Inside(0, id) = id /\ Inside(k, Prefixed(id)) = Inside(k + 1, id)
<1> DEFINE ns(m) == [i \in 1..m |-> "n"]
           a == <<"n">>
<1>0. "n" \in Own  BY DEF Own
<1>1. \A m \in Nat : ns(m) \in Seq(Own) /\ Len(ns(m)) = m  BY <1>0, OneOrMore
<1>2. a \in Seq(Own) /\ Len(a) = 1 /\ a[1] = "n"  BY <1>0, OneOrMore
<1>3. Inside(0, id) = id
  <2>1. ns(0) = <<>>  OBVIOUS
  <2>2. <<>> \o id = id  BY ConcatEmptySeq
  <2> QED  BY <2>1, <2>2 DEF Inside
<1>4. ns(k) \o a = ns(k + 1)
  <2> DEFINE s == ns(k) \o a
             t == ns(k + 1)
             n == ns(k)
  <2>1. n \in Seq(Own) /\ Len(n) = k /\ \A i \in 1..k : n[i] = "n"  BY <1>1
  <2>2. t \in Seq(Own) /\ Len(t) = k + 1 /\ \A i \in 1..(k + 1) : t[i] = "n"
    <3>1. k + 1 \in Nat  OBVIOUS
    <3> QED  BY <1>1, <3>1
  <2> HIDE DEF n, a, t
  <2>3. /\ n \o a \in Seq(Own) /\ Len(n \o a) = k + 1
        /\ \A i \in 1..(k + 1) : (n \o a)[i] = IF i <= k THEN n[i] ELSE a[i - k]
    <3>1. /\ n \o a \in Seq(Own) /\ Len(n \o a) = Len(n) + Len(a)
          /\ \A i \in 1..(Len(n) + Len(a)) : (n \o a)[i] = IF i <= Len(n) THEN n[i] ELSE a[i - Len(n)]
          BY <1>2, <2>1, ConcatProperties
    <3> QED  BY <1>2, <2>1, <3>1
  <2>4. \A i \in 1..(k + 1) : (n \o a)[i] = "n"
    <3>1. ASSUME NEW i \in 1..(k + 1) PROVE (n \o a)[i] = "n"
      <4>1. i <= k \/ i - k = 1  OBVIOUS
      <4>2. i <= k => i \in 1..k  OBVIOUS
      <4> QED  BY <1>2, <2>1, <2>3, <4>1, <4>2
    <3> QED  BY <3>1
  <2>5. n \o a = t  BY <2>2, <2>3, <2>4, SeqEqual
  <2> QED  BY <2>5 DEF n, t
<1>5. Inside(k, Prefixed(id)) = ns(k) \o (a \o id)  BY DEF Inside, Prefixed
<1>6. ns(k) \o (a \o id) = (ns(k) \o a) \o id
  <2> DEFINE n == ns(k)
  <2>1. n \in Seq(Own)  BY <1>1
  <2> HIDE DEF n, a
  <2>2. n \o (a \o id) = (n \o a) \o id  BY <1>2, <2>1, ConcatAssociative
  <2> QED  BY <2>2 DEF n
<1>7. Inside(k + 1, id) = ns(k + 1) \o id  BY DEF Inside
<1> QED  BY <1>3, <1>4, <1>5, <1>6, <1>7

-----------------------------------------------------------------------------
\* A name at a level and the bot behind it, when the name is a bot's once the
\* node's boundary is replaced.
LEMMA BoundaryMeans ==
  ASSUME NEW docs, NEW level, NEW k \in LevelsOf(level), NEW side \in {"in", "out"}, NEW x \in Own,
         NEW to \in Own \cup {"none"}, Named(Boundary(x, to)),
         x = "n" => /\ k + 1 \in LevelsOf(level)
                    /\ to = IF side = "in" THEN docs[level[k + 1]].in ELSE docs[level[k + 1]].out
  PROVE  Inside(k, Boundary(x, to)) = Behind(docs, level)[k][side][x]
<1> DEFINE b == Behind(docs, level)
           e == docs[level[k + 1]]
           port == IF side = "in" THEN e.in ELSE e.out
<1>1. Depth \in Nat /\ k \in 0..Depth /\ k \in Nat
      BY NestAssumption, FS_CardinalityType DEF Depth, LevelsOf
<1>2. \A m \in 0..(Depth + 1) : b[m] = BehindFrom(docs, level, m, b[m + 1])  BY BehindIs
<1> HIDE DEF b
<1>3. ASSUME NEW m \in 0..Depth PROVE b[m][side]["w"] = Inside(m, <<"w">>)
  <2>1. m \in 0..(Depth + 1) /\ ~(m > Depth)  BY <1>1
  <2>2. "w" \in Own \cup {"none"} /\ "w" # "none"  BY DEF Own
  <2>3. ASSUME NEW next PROVE BehindFrom(docs, level, m, next)[side]["w"] = Inside(m, <<"w">>)
        BY <2>1, <2>2 DEF BehindFrom
  <2>4. b[m] = BehindFrom(docs, level, m, b[m + 1])  BY <1>2, <2>1
  <2> QED  BY <2>3, <2>4
<1>4. CASE x = "w"
  <2>1. Boundary(x, to) = <<"w">>  BY <1>4 DEF Boundary
  <2> QED  BY <1>1, <1>3, <1>4, <2>1 DEF b
<1>5. CASE x = "n"
  <2>1. Boundary(x, to) = <<"n", to>>  BY <1>5 DEF Boundary
  <2>2. to = "w" /\ to = port /\ k + 1 \in LevelsOf(level)  BY <1>5, <2>1, Names
  <2>3. b[k][side]["n"] = b[k + 1][side]["w"]
    <3>1. k \in 0..(Depth + 1) /\ ~(k > Depth)  BY <1>1
    <3>2. "n" \in Own \cup {"none"} /\ "n" # "none" /\ "n" # "w"  BY DEF Own
    <3>3. b[k][side]["n"] = b[k + 1][side][port]
      <4>1. ASSUME NEW next PROVE BehindFrom(docs, level, k, next)[side]["n"] = next[side][port]
            BY <2>2, <3>1, <3>2 DEF BehindFrom
      <4>2. b[k] = BehindFrom(docs, level, k, b[k + 1])  BY <1>2, <3>1
      <4> QED  BY <4>1, <4>2
    <3> QED  BY <2>2, <3>3
  <2>4. k + 1 \in 0..Depth  BY <2>2 DEF LevelsOf
  <2>5. Inside(k, <<"n", "w">>) = Inside(k + 1, <<"w">>)
    <3>1. "w" \in Own  BY DEF Own
    <3>2. <<"w">> \in Seq(Own)  BY <3>1, OneOrMore
    <3>3. Inside(k, Prefixed(<<"w">>)) = Inside(k + 1, <<"w">>)  BY <1>1, <3>2, InsideNext
    <3> QED  BY <3>3, Names
  <2>6. b[k + 1][side]["w"] = Inside(k + 1, <<"w">>)  BY <1>3, <2>4
  <2> QED  BY <1>5, <2>1, <2>2, <2>3, <2>5, <2>6 DEF b
<1> QED  BY <1>4, <1>5 DEF Own

-----------------------------------------------------------------------------
\* The levels from one on, and the ones of them that are given a value.
LevelsFrom(level, k) == {j \in LevelsOf(level) : j >= k}
GivenFrom(docs, level, k) ==
    {j \in LevelsFrom(level, k) : docs[level[j]].value /\ docs[level[j]].node # NoNode}

\* What is flattened from a level on has what is meant from there on, but for
\* the nodes the level itself is inside of.
FaithfulFrom(p, docs, level, k) ==
    /\ \A b \in p.bots : Named(b.id)
    /\ \A i \in p.given : Named(i)
    /\ \A s \in p.snaps : s = <<s[1], s[2]>>
    /\ {Inside(k, b.id) : b \in p.bots} = {Inside(j, <<"w">>) : j \in LevelsFrom(level, k)}
    /\ {<<Inside(k, s[1]), Inside(k, s[2])>> : s \in p.snaps}
         = UNION {WiresAt(docs, level, j) : j \in LevelsFrom(level, k)}
    /\ {Inside(k, i) : i \in p.given}
         = {Behind(docs, level)[j]["in"]["n"] : j \in GivenFrom(docs, level, k)}

\* A file without a node is what it means.
LEMMA LastFaithful ==
  ASSUME NEW docs, NEW level, NEW k \in LevelsOf(level), LevelsFrom(level, k) = {k},
         docs[level[k]] \in NestDocs, docs[level[k]].node = NoNode, Wired(Alone(docs[level[k]]))
  PROVE  FaithfulFrom(Alone(docs[level[k]]), docs, level, k)
<1> DEFINE d == docs[level[k]]
           p == Alone(d)
           behind == Behind(docs, level)
<1>1. /\ p.bots = {[id |-> <<"w">>, dir |-> d.dir]} /\ p.given = {}
      /\ p.snaps = {<<<<l[1]>>, <<l[2]>>>> : l \in d.links}
      BY DEF Alone
<1>2. d.links \subseteq Own \X Own  BY DEF NestDocs
<1> HIDE DEF p
<1>3. \A b \in p.bots : b.id = <<"w">>  BY <1>1
<1>4. {b.id : b \in p.bots} = {<<"w">>}  BY <1>1
<1>5. ASSUME NEW l \in d.links PROVE l[1] = "w" /\ l[2] = "w"
  <2>1. <<<<l[1]>>, <<l[2]>>>> \in p.snaps  BY <1>1
  <2>2. <<l[1]>> \in {b.id : b \in p.bots} /\ <<l[2]>> \in {b.id : b \in p.bots}
        BY <2>1 DEF Wired, p
  <2>3. <<l[1]>> = <<"w">> /\ <<l[2]>> = <<"w">>  BY <1>4, <2>2
  <2> QED  BY <2>3
<1>6. ASSUME NEW l \in d.links
      PROVE  /\ Inside(k, <<l[1]>>) = behind[k]["out"][l[1]]
             /\ Inside(k, <<l[2]>>) = behind[k]["in"][l[2]]
  <2>1. Boundary("w", "none") = <<"w">> /\ "w" \in Own /\ "w" # "n"  BY DEF Boundary, Own
  <2>2. ASSUME NEW side \in {"in", "out"} PROVE Inside(k, <<"w">>) = behind[k][side]["w"]
        BY <2>1, Names, BoundaryMeans
  <2> QED  BY <1>5, <2>2
<1>7. {<<Inside(k, s[1]), Inside(k, s[2])>> : s \in p.snaps} = WiresAt(docs, level, k)
  <2>1. {<<Inside(k, s[1]), Inside(k, s[2])>> : s \in p.snaps}
          = {<<Inside(k, <<l[1]>>), Inside(k, <<l[2]>>)>> : l \in d.links}
    <3> DEFINE wire(l) == <<<<l[1]>>, <<l[2]>>>>
    <3>1. p.snaps = {wire(l) : l \in d.links}  BY <1>1
    <3>2. \A l : wire(l)[1] = <<l[1]>> /\ wire(l)[2] = <<l[2]>>  OBVIOUS
    <3> DEFINE left(s) == <<Inside(k, s[1]), Inside(k, s[2])>>
               right(l) == <<Inside(k, <<l[1]>>), Inside(k, <<l[2]>>)>>
    <3> HIDE DEF wire
    <3>3. \A l : left(wire(l)) = right(l)  BY <3>2
    <3> HIDE DEF left, right
    <3>4. {left(s) : s \in p.snaps} = {right(l) : l \in d.links}  BY <3>1, <3>3
    <3> QED  BY <3>4 DEF left, right
  <2>2. WiresAt(docs, level, k) = {<<behind[k]["out"][l[1]], behind[k]["in"][l[2]]>> : l \in d.links}
        BY DEF WiresAt
  <2> HIDE DEF behind, d
  <2> QED  BY <1>6, <2>1, <2>2
<1>8. UNION {WiresAt(docs, level, j) : j \in LevelsFrom(level, k)} = WiresAt(docs, level, k)  OBVIOUS
<1>9. \A s \in p.snaps : s = <<s[1], s[2]>>  BY <1>1
<1>10. {Inside(k, b.id) : b \in p.bots} = {Inside(j, <<"w">>) : j \in LevelsFrom(level, k)}
       BY <1>1
<1>11. GivenFrom(docs, level, k) = {}  BY DEF GivenFrom
<1>12. {Inside(k, i) : i \in p.given} = {Behind(docs, level)[j]["in"]["n"] : j \in GivenFrom(docs, level, k)}
       BY <1>1, <1>11
<1>13. (\A b \in p.bots : Named(b.id)) /\ (\A i \in p.given : Named(i))  BY <1>1, <1>3, Names
<1> QED  BY <1>7, <1>8, <1>9, <1>10, <1>12, <1>13 DEF FaithfulFrom, p


\* A file with the next level's in the place of its node is what it means, if
\* that one is.
LEMMA InlinedFaithful ==
  ASSUME NEW docs, NEW level, NEW k \in LevelsOf(level), k + 1 \in LevelsOf(level),
         LevelsFrom(level, k) = {k} \cup LevelsFrom(level, k + 1),
         docs[level[k]] \in NestDocs, docs[level[k + 1]] \in NestDocs, docs[level[k]].node # NoNode,
         NEW q, Fits(docs[level[k]], docs[level[k + 1]], q), FaithfulFrom(q, docs, level, k + 1),
         Wired(Inlined(docs[level[k]], docs[level[k + 1]], q))
  PROVE  FaithfulFrom(Inlined(docs[level[k]], docs[level[k + 1]], q), docs, level, k)
<1> DEFINE d == docs[level[k]]
           e == docs[level[k + 1]]
           p == Inlined(d, e, q)
           behind == Behind(docs, level)
           mine == [id |-> <<"w">>, dir |-> d.dir]
           theirs(b) == [id |-> Prefixed(b.id), dir |-> d.dir]
           wire(l) == <<Boundary(l[1], e.out), Boundary(l[2], e.in)>>
           inner(s) == <<Prefixed(s[1]), Prefixed(s[2])>>
           places(s) == <<Inside(k, s[1]), Inside(k, s[2])>>
           deeper(s) == <<Inside(k + 1, s[1]), Inside(k + 1, s[2])>>
<1>1. /\ p.bots = {mine} \cup {theirs(b) : b \in q.bots}
      /\ p.snaps = {wire(l) : l \in d.links} \cup {inner(s) : s \in q.snaps}
      /\ p.given = (IF d.value THEN {<<"n", e.in>>} ELSE {}) \cup {Prefixed(i) : i \in q.given}
      BY DEF Inlined, Alone
<1>2. /\ d.links \subseteq Own \X Own /\ d.value \in BOOLEAN
      /\ e.in \in Own \cup {"none"} /\ e.out \in Own \cup {"none"}
      BY DEF NestDocs
<1>3. k \in Nat /\ k + 1 \in Nat  BY DEF LevelsOf
<1>4. /\ mine.id = <<"w">> /\ \A b : theirs(b).id = Prefixed(b.id)
      /\ \A l : wire(l)[1] = Boundary(l[1], e.out) /\ wire(l)[2] = Boundary(l[2], e.in)
      /\ \A s : inner(s)[1] = Prefixed(s[1]) /\ inner(s)[2] = Prefixed(s[2])
      /\ \A l : wire(l) = <<wire(l)[1], wire(l)[2]>>
      /\ \A s : inner(s) = <<inner(s)[1], inner(s)[2]>>
      OBVIOUS
<1>5. /\ \A b \in q.bots : Named(b.id)
      /\ \A i \in q.given : Named(i)
      /\ {Inside(k + 1, b.id) : b \in q.bots} = {Inside(j, <<"w">>) : j \in LevelsFrom(level, k + 1)}
      /\ {deeper(s) : s \in q.snaps} = UNION {WiresAt(docs, level, j) : j \in LevelsFrom(level, k + 1)}
      /\ {Inside(k + 1, i) : i \in q.given} = {behind[j]["in"]["n"] : j \in GivenFrom(docs, level, k + 1)}
      BY DEF FaithfulFrom
<1>6. /\ \A s \in p.snaps : {s[1], s[2]} \subseteq {b.id : b \in p.bots}
      /\ \A s \in q.snaps : {s[1], s[2]} \subseteq {b.id : b \in q.bots}
      /\ d.value => <<e.in>> \in {b.id : b \in q.bots}
      BY DEF Wired, Fits
<1> HIDE DEF p, mine, theirs, wire, inner
<1>7. ASSUME NEW id, Named(id) PROVE Named(Prefixed(id)) /\ Inside(k, Prefixed(id)) = Inside(k + 1, id)
  <2>1. id \in Seq(Own)  BY <1>7 DEF Named
  <2> QED  BY <1>3, <1>7, <2>1, Names, InsideNext
<1>8. \A b \in p.bots : Named(b.id)
  <2>1. Named(mine.id)  BY <1>4, Names
  <2>2. \A b \in q.bots : Named(theirs(b).id)  BY <1>4, <1>5, <1>7
  <2> QED  BY <1>1, <2>1, <2>2
<1>9. \A s \in p.snaps : Named(s[1]) /\ Named(s[2])  BY <1>6, <1>8
<1>10. \A s \in q.snaps : Named(s[1]) /\ Named(s[2])  BY <1>5, <1>6
<1>11. ASSUME NEW side \in {"in", "out"}, NEW x \in Own, NEW to,
              to = IF side = "in" THEN e.in ELSE e.out, Named(Boundary(x, to))
       PROVE  Inside(k, Boundary(x, to)) = behind[k][side][x]
  <2>1. to \in Own \cup {"none"}  BY <1>2, <1>11
  <2> QED  BY <1>11, <2>1, BoundaryMeans
<1>12. {Inside(k, b.id) : b \in p.bots} = {Inside(j, <<"w">>) : j \in LevelsFrom(level, k)}
  <2> DEFINE at(b) == Inside(k, b.id)
             on(b) == Inside(k + 1, b.id)
             own(j) == Inside(j, <<"w">>)
  <2>1. at(mine) = own(k) /\ \A b \in q.bots : at(theirs(b)) = on(b)  BY <1>4, <1>5, <1>7
  <2>2. {on(b) : b \in q.bots} = {own(j) : j \in LevelsFrom(level, k + 1)}  BY <1>5
  <2> HIDE DEF at, on, own
  <2>3. {at(b) : b \in p.bots} = {at(mine)} \cup {on(b) : b \in q.bots}  BY <1>1, <2>1
  <2>4. {own(j) : j \in LevelsFrom(level, k)} = {own(k)} \cup {own(j) : j \in LevelsFrom(level, k + 1)}
        OBVIOUS
  <2>5. {at(b) : b \in p.bots} = {own(j) : j \in LevelsFrom(level, k)}  BY <2>1, <2>2, <2>3, <2>4
  <2> QED  BY <2>5 DEF at, own
<1>13. {places(wire(l)) : l \in d.links} = WiresAt(docs, level, k)
  <2> DEFINE meant(l) == <<behind[k]["out"][l[1]], behind[k]["in"][l[2]]>>
  <2>1. ASSUME NEW l \in d.links PROVE places(wire(l)) = meant(l)
    <3>1. l[1] \in Own /\ l[2] \in Own  BY <1>2
    <3>2. wire(l) \in p.snaps  BY <1>1
    <3>3. Named(Boundary(l[1], e.out)) /\ Named(Boundary(l[2], e.in))  BY <1>4, <1>9, <3>2
    <3>4. Inside(k, Boundary(l[1], e.out)) = behind[k]["out"][l[1]]
      <4>1. e.out = IF "out" = "in" THEN e.in ELSE e.out  OBVIOUS
      <4> QED  BY <1>11, <3>1, <3>3, <4>1
    <3>5. Inside(k, Boundary(l[2], e.in)) = behind[k]["in"][l[2]]
      <4>1. e.in = IF "in" = "in" THEN e.in ELSE e.out  OBVIOUS
      <4> QED  BY <1>11, <3>1, <3>3, <4>1
    <3> QED  BY <1>4, <3>4, <3>5
  <2>2. WiresAt(docs, level, k) = {meant(l) : l \in d.links}  BY DEF WiresAt
  <2> HIDE DEF places, meant
  <2> QED  BY <2>1, <2>2
<1>14. {places(s) : s \in p.snaps} = UNION {WiresAt(docs, level, j) : j \in LevelsFrom(level, k)}
  <2>1. ASSUME NEW s \in q.snaps PROVE places(inner(s)) = deeper(s)  BY <1>4, <1>7, <1>10
  <2> HIDE DEF places, deeper
  <2>2. {places(s) : s \in p.snaps} = {places(wire(l)) : l \in d.links} \cup {deeper(s) : s \in q.snaps}
        BY <1>1, <2>1
  <2> DEFINE meant(j) == WiresAt(docs, level, j)
  <2>3. {places(s) : s \in p.snaps} = meant(k) \cup UNION {meant(j) : j \in LevelsFrom(level, k + 1)}
        BY <1>5, <1>13, <2>2
  <2> HIDE DEF meant
  <2>4. UNION {meant(j) : j \in LevelsFrom(level, k)} = meant(k) \cup UNION {meant(j) : j \in LevelsFrom(level, k + 1)}
        OBVIOUS
  <2> QED  BY <2>3, <2>4 DEF meant
<1>15. d.value => Named(<<"n", e.in>>) /\ Inside(k, <<"n", e.in>>) = behind[k]["in"]["n"]
  <2> SUFFICES ASSUME d.value PROVE Named(<<"n", e.in>>) /\ Inside(k, <<"n", e.in>>) = behind[k]["in"]["n"]
      OBVIOUS
  <2>1. e.in = "w"
    <3>1. Named(<<e.in>>)  BY <1>5, <1>6
    <3> QED  BY <3>1, Names
  <2>2. Named(<<"n", "w">>)  BY Names
  <2>3. Boundary("n", e.in) = <<"n", e.in>> /\ "n" \in Own  BY DEF Boundary, Own
  <2>4. e.in = IF "in" = "in" THEN e.in ELSE e.out  OBVIOUS
  <2>5. Named(Boundary("n", e.in))  BY <2>1, <2>2, <2>3
  <2>6. Inside(k, Boundary("n", e.in)) = behind[k]["in"]["n"]  BY <1>11, <2>3, <2>4, <2>5
  <2> QED  BY <2>1, <2>2, <2>3, <2>6
<1>16. GivenFrom(docs, level, k) = (IF d.value THEN {k} ELSE {}) \cup GivenFrom(docs, level, k + 1)
       BY <1>2 DEF GivenFrom
<1>17. {Inside(k, i) : i \in p.given} = {behind[j]["in"]["n"] : j \in GivenFrom(docs, level, k)}
  <2> DEFINE at(i) == Inside(k, i)
             on(i) == Inside(k + 1, i)
             node(j) == behind[j]["in"]["n"]
             set == <<"n", e.in>>
  <2>1. (d.value => at(set) = node(k)) /\ \A i \in q.given : at(Prefixed(i)) = on(i)
        BY <1>5, <1>7, <1>15
  <2>2. {on(i) : i \in q.given} = {node(j) : j \in GivenFrom(docs, level, k + 1)}  BY <1>5
  <2>3. p.given = (IF d.value THEN {set} ELSE {}) \cup {Prefixed(i) : i \in q.given}  BY <1>1
  <2> HIDE DEF at, on, node, set
  <2>4. {at(i) : i \in p.given} = (IF d.value THEN {node(k)} ELSE {}) \cup {on(i) : i \in q.given}
        BY <1>2, <2>1, <2>3
  <2>5. {node(j) : j \in GivenFrom(docs, level, k)}
          = (IF d.value THEN {node(k)} ELSE {}) \cup {node(j) : j \in GivenFrom(docs, level, k + 1)}
        BY <1>2, <1>16
  <2>6. {at(i) : i \in p.given} = {node(j) : j \in GivenFrom(docs, level, k)}  BY <2>2, <2>4, <2>5
  <2> QED  BY <2>6 DEF at, node
<1>18. \A i \in p.given : Named(i)
  <2>1. \A i \in q.given : Named(Prefixed(i))  BY <1>5, <1>7
  <2> DEFINE set == <<"n", e.in>>
  <2>2. p.given = (IF d.value THEN {set} ELSE {}) \cup {Prefixed(i) : i \in q.given}  BY <1>1
  <2>3. d.value => Named(set)  BY <1>15
  <2> HIDE DEF set
  <2> QED  BY <2>1, <2>2, <2>3
<1>19. \A s \in p.snaps : s = <<s[1], s[2]>>  BY <1>1, <1>4
<1> QED  BY <1>8, <1>12, <1>14, <1>17, <1>18, <1>19 DEF FaithfulFrom, p

-----------------------------------------------------------------------------
\* The levels from one on are that one and, if there is one, the ones from the
\* next on.
LEMMA LevelsGoOn ==
  ASSUME NEW docs \in [NestFiles -> NestDocs], NEW top \in NestFiles,
         NEW k \in LevelsOf(Level(docs, top))
  PROVE  LET level == Level(docs, top)
         IN LevelsFrom(level, k) = {k} \cup (IF k + 1 \in LevelsOf(level) THEN LevelsFrom(level, k + 1) ELSE {})
<1> DEFINE level == Level(docs, top)
<1>1. \A j \in LevelsOf(level) : j \in Nat /\ \A i \in 0..j : i \in LevelsOf(level)
      BY LevelsGoDown DEF LevelsOf
<1> HIDE DEF level
<1>2. k \in LevelsOf(level)  BY DEF level
<1>3. ASSUME NEW j \in LevelsFrom(level, k), j # k
      PROVE  k + 1 \in LevelsOf(level) /\ j \in LevelsFrom(level, k + 1)
  <2>1. j \in LevelsOf(level) /\ j >= k  BY DEF LevelsFrom
  <2>2. k + 1 \in 0..j /\ j >= k + 1  BY <1>1, <1>2, <1>3, <2>1
  <2> QED  BY <1>1, <2>1, <2>2 DEF LevelsFrom
<1>4. k \in LevelsFrom(level, k)  BY <1>1, <1>2 DEF LevelsFrom
<1>5. LevelsFrom(level, k + 1) \subseteq LevelsFrom(level, k)  BY <1>1, <1>2 DEF LevelsFrom
<1>6. LevelsFrom(level, k) = {k} \cup (IF k + 1 \in LevelsOf(level) THEN LevelsFrom(level, k + 1) ELSE {})
      BY <1>3, <1>4, <1>5
<1> QED  BY <1>6 DEF level

\* A swarm that is planned is at every level what its files mean: the last
\* one is, and each one is if the next is.
LEMMA AllFaithful ==
  ASSUME NEW docs \in [NestFiles -> NestDocs], NEW top \in NestFiles,
         FlatAt(docs, top, 0).ok, Wired(FlatAt(docs, top, 0))
  PROVE  LET level == Level(docs, top)
         IN \A k \in LevelsOf(level) : FaithfulFrom(FlatAt(docs, top, k), docs, level, k)
<1> DEFINE level == Level(docs, top)
           Good(k) == FaithfulFrom(FlatAt(docs, top, k), docs, level, k)
           T == {n \in Nat : \E k \in LevelsOf(level) : Depth - k = n /\ ~Good(k)}
<1>1. Depth \in Nat /\ \A k \in LevelsOf(level) : k \in Nat /\ k <= Depth
      BY LevelIs DEF LevelsOf
<1>2. ~Endless(level) /\ \A k \in LevelsOf(level) : FlatAt(docs, top, k).ok /\ Wired(FlatAt(docs, top, k))
      BY AllFit
<1>3. \A k \in LevelsOf(level) : docs[level[k]] \in NestDocs  BY LevelsGoDown
<1>4. ASSUME NEW k \in LevelsOf(level)
      PROVE  LevelsFrom(level, k) = {k} \cup (IF k + 1 \in LevelsOf(level) THEN LevelsFrom(level, k + 1) ELSE {})
      BY LevelsGoOn
<1>5. ASSUME NEW k \in LevelsOf(level), docs[level[k]].node = NoNode PROVE Good(k)
  <2>1. FlatAt(docs, top, k) = Alone(docs[level[k]]) /\ k + 1 \notin LevelsOf(level)
        BY <1>5, LevelFlattens
  <2>2. LevelsFrom(level, k) = {k}  BY <1>4, <2>1
  <2>3. Wired(Alone(docs[level[k]]))  BY <1>2, <2>1
  <2> HIDE DEF level
  <2>4. FaithfulFrom(Alone(docs[level[k]]), docs, level, k)  BY <1>3, <1>5, <2>2, <2>3, LastFaithful
  <2> QED  BY <2>1, <2>4
<1>6. ASSUME NEW k \in LevelsOf(level), docs[level[k]].node # NoNode
      PROVE  k + 1 \in LevelsOf(level) /\ (Good(k + 1) => Good(k))
  <2>1. k < Depth
    <3>1. k # Depth  BY <1>2 DEF Endless
    <3> QED  BY <1>1, <3>1
  <2>2. k + 1 \in LevelsOf(level)  BY <1>6, <2>1, LevelFlattens
  <2> DEFINE d == docs[level[k]]
             e == docs[level[k + 1]]
             q == FlatAt(docs, top, k + 1)
  <2>3. Fits(d, e, q) /\ FlatAt(docs, top, k) = Inlined(d, e, q)  BY <1>2, <2>2, LevelFlattens
  <2>4. LevelsFrom(level, k) = {k} \cup LevelsFrom(level, k + 1)  BY <1>4, <2>2
  <2>5. d \in NestDocs /\ e \in NestDocs  BY <1>3, <2>2
  <2>6. Wired(Inlined(d, e, q))  BY <1>2, <2>3
  <2>7. ASSUME Good(k + 1) PROVE Good(k)
    <3>1. FaithfulFrom(q, docs, level, k + 1)  BY <2>7
    <3> HIDE DEF level, q
    <3>2. FaithfulFrom(Inlined(d, e, q), docs, level, k)
          BY <1>6, <2>2, <2>3, <2>4, <2>5, <2>6, <3>1, InlinedFaithful
    <3> QED  BY <2>3, <3>2
  <2> QED  BY <2>2, <2>7
<1> HIDE DEF Good, level
<1>7. T = {}
  <2>1. SUFFICES ASSUME T # {} PROVE FALSE
        OBVIOUS
  <2>2. PICK n \in T : \A m \in T : n <= m
    <3>1. T \in SUBSET Nat  OBVIOUS
    <3> HIDE DEF T
    <3> QED  BY <2>1, <3>1, Smallest
  <2>3. PICK k \in LevelsOf(level) : Depth - k = n /\ ~Good(k)  BY <2>2
  <2>4. k + 1 \in LevelsOf(level) /\ ~Good(k + 1)  BY <1>5, <1>6, <2>3
  <2>5. Depth - (k + 1) \in Nat /\ Depth - (k + 1) = n - 1  BY <1>1, <2>3, <2>4
  <2>6. n - 1 \in T  BY <2>4, <2>5
  <2>7. n \in Nat /\ ~(n <= n - 1)  BY <2>2
  <2> HIDE DEF T
  <2> QED  BY <2>2, <2>6, <2>7
<1>8. ASSUME NEW k \in LevelsOf(level) PROVE Good(k)
  <2>1. Depth - k \in Nat  BY <1>1
  <2> QED  BY <1>7, <2>1
<1> QED  BY <1>8 DEF Good, level

\* A swarm that is planned is what its files mean.
LEMMA FlatFaithful ==
  ASSUME NEW docs \in [NestFiles -> NestDocs], NEW top \in NestFiles,
         Flat(docs)[<<top>>].ok, Wired(Flat(docs)[<<top>>])
  PROVE  Faithful(Flat(docs)[<<top>>], docs, Level(docs, top))
<1> DEFINE level == Level(docs, top)
           p == FlatAt(docs, top, 0)
           behind == Behind(docs, level)
<1>1. FlatAt(docs, top, 0) = Flat(docs)[<<top>>]
  <2>1. ChainTo(docs, top, 0) = <<top>>
    <3>1. \A i \in 1..(0 + 1) : level[i - 1] = top  BY LevelIs
    <3> HIDE DEF level
    <3>2. [i \in 1..(0 + 1) |-> level[i - 1]] = <<top>>  BY <3>1
    <3> QED  BY <3>2 DEF ChainTo, level
  <2> QED  BY <2>1 DEF FlatAt
<1>2. ~Endless(level)  BY <1>1, AllFit
<1>3. 0 \in LevelsOf(level)  BY LevelsGoDown
<1>4. FaithfulFrom(p, docs, level, 0)  BY <1>1, <1>3, AllFaithful
<1>5. \A s \in p.snaps : s[1] \in {b.id : b \in p.bots} /\ s[2] \in {b.id : b \in p.bots}
      BY <1>1 DEF Wired
<1>6. LevelsFrom(level, 0) = LevelsOf(level)
  <2>1. \A j \in LevelsOf(level) : j >= 0  BY LevelIs DEF LevelsOf
  <2> HIDE DEF level
  <2> QED  BY <2>1 DEF LevelsFrom
<1> HIDE DEF level, p
<1>7. \A id : Named(id) => Inside(0, id) = id  BY InsideNext DEF Named
<1>8. /\ \A b \in p.bots : Inside(0, b.id) = b.id
      /\ \A i \in p.given : Inside(0, i) = i
      /\ \A s \in p.snaps : s = <<s[1], s[2]>> /\ Inside(0, s[1]) = s[1] /\ Inside(0, s[2]) = s[2]
  <2>1. \A b \in p.bots : Named(b.id)  BY <1>4 DEF FaithfulFrom
  <2>2. \A s \in p.snaps : Named(s[1]) /\ Named(s[2])  BY <1>5, <2>1
  <2>3. (\A i \in p.given : Named(i)) /\ \A s \in p.snaps : s = <<s[1], s[2]>>  BY <1>4 DEF FaithfulFrom
  <2> QED  BY <1>7, <2>1, <2>2, <2>3
<1>9. {b.id : b \in p.bots} = {Inside(j, <<"w">>) : j \in LevelsOf(level)}
  <2>1. {Inside(0, b.id) : b \in p.bots} = {Inside(j, <<"w">>) : j \in LevelsOf(level)}
        BY <1>4, <1>6 DEF FaithfulFrom
  <2>2. {Inside(0, b.id) : b \in p.bots} = {b.id : b \in p.bots}  BY <1>8
  <2> QED  BY <2>1, <2>2
<1>10. p.snaps = Meant(docs, level)
  <2> DEFINE places(s) == <<Inside(0, s[1]), Inside(0, s[2])>>
  <2>1. {places(s) : s \in p.snaps} = Meant(docs, level)
        BY <1>4, <1>6 DEF FaithfulFrom, Meant
  <2>2. \A s \in p.snaps : places(s) = s  BY <1>8
  <2> HIDE DEF places
  <2>3. {places(s) : s \in p.snaps} = p.snaps  BY <2>2
  <2> QED  BY <2>1, <2>3
<1>11. p.given = {behind[j]["in"]["n"] :
                    j \in {i \in LevelsOf(level) : docs[level[i]].value /\ docs[level[i]].node # NoNode}}
  <2>1. {Inside(0, i) : i \in p.given} = {behind[j]["in"]["n"] : j \in GivenFrom(docs, level, 0)}
        BY <1>4 DEF FaithfulFrom
  <2>2. GivenFrom(docs, level, 0) = {i \in LevelsOf(level) : docs[level[i]].value /\ docs[level[i]].node # NoNode}
        BY <1>6 DEF GivenFrom
  <2> DEFINE at(i) == Inside(0, i)
  <2>3. \A i \in p.given : at(i) = i  BY <1>8
  <2> HIDE DEF at
  <2>4. {at(i) : i \in p.given} = p.given  BY <2>3
  <2> QED  BY <2>1, <2>2, <2>4 DEF at
<1> QED  BY <1>1, <1>2, <1>9, <1>10, <1>11 DEF Faithful, level, p

-----------------------------------------------------------------------------
\* What is planned is what the outer file flattens to.
NestInv ==
    /\ outer \in NestFiles /\ nest \in [NestFiles -> NestDocs]
    /\ planned.is = "fine" =>
         LET p == Flat(nest)[<<outer>>] IN planned.as = p /\ p.ok /\ Wired(p)

\* A swarm that is planned has exactly the bots and wires of the files it was
\* made from, however deep they nest, and no file is inside itself
\* (nest.go InlineNestedSwarms).
THEOREM FlatteningFaithful == NestSpec => []FlattensFaithfully
<1>1. NestInit => NestInv
  <2> SUFFICES ASSUME NestInit PROVE NestInv
      OBVIOUS
  <2>1. outer \in NestFiles /\ nest \in Nestings /\ planned = [is |-> "not yet"]
        BY DEF NestInit, NestInitOf
  <2>2. planned.is # "fine"  BY <2>1
  <2> QED  BY <2>1, <2>2, NestAssumption DEF NestInv
<1>2. NestInv /\ [NestNext]_nestVars => NestInv'
  <2> SUFFICES ASSUME NestInv, [NestNext]_nestVars PROVE NestInv'
      OBVIOUS
  <2>1. CASE PlanNested
    <3> DEFINE p == Flat(nest)[<<outer>>]
    <3> HIDE DEF p
    <3>1. /\ nest' = nest /\ outer' = outer
          /\ planned' = [is |-> IF p.ok /\ Wired(p) THEN "fine" ELSE "refused", as |-> p]
          BY <2>1 DEF PlanNested, p
    <3>2. planned'.is = "fine" => planned'.as = p /\ p.ok /\ Wired(p)  BY <3>1
    <3> QED  BY <3>1, <3>2 DEF NestInv, p
  <2>2. CASE UNCHANGED nestVars  BY <2>2 DEF NestInv, nestVars
  <2> QED  BY <2>1, <2>2 DEF NestNext
<1>3. NestInv => FlattensFaithfully
      BY FlatFaithful DEF NestInv, FlattensFaithfully
<1> QED  BY <1>1, <1>2, <1>3, PTL DEF NestSpec
\* Every document that is planned is one of the files.
THEOREM NestTypes == NestSpec => []NestTypeOK
<1>1. NestInit => NestTypeOK
  <2> SUFFICES ASSUME NestInit PROVE NestTypeOK
      OBVIOUS
  <2>1. planned.is = "not yet"  BY DEF NestInit, NestInitOf
  <2> QED  BY <2>1, NestAssumption DEF NestInit, NestInitOf, NestTypeOK
<1>2. NestTypeOK /\ [NestNext]_nestVars => NestTypeOK'
  <2> SUFFICES ASSUME NestTypeOK, [NestNext]_nestVars PROVE NestTypeOK'
      OBVIOUS
  <2>1. CASE PlanNested
    <3> DEFINE p == Flat(nest)[<<outer>>]
    <3> HIDE DEF p
    <3>1. planned' = [is |-> IF p.ok /\ Wired(p) THEN "fine" ELSE "refused", as |-> p]
          BY <2>1 DEF PlanNested, p
    <3>2. planned'.is \in {"fine", "refused"}  BY <3>1
    <3> QED  BY <2>1, <3>2 DEF NestTypeOK, PlanNested
  <2>2. CASE UNCHANGED nestVars  BY <2>2 DEF NestTypeOK, nestVars
  <2> QED  BY <2>1, <2>2 DEF NestNext
<1> QED  BY <1>1, <1>2, PTL DEF NestSpec

=============================================================================
