------------------------------ MODULE Nesting ------------------------------
(***************************************************************************)
(* Flattening a swarm that nests others before it is resolved              *)
(* (planner/nest.go): each swarm: node becomes the bots and snaps of the   *)
(* file it names, and its boundary ports become the ports they map to.     *)
(* Every file here has one bot "w" of its own and at most one node "n".    *)
(***************************************************************************)
EXTENDS Integers, Sequences, FiniteSets

CONSTANTS
    NestFiles,  \* the files there are
    Nestings,    \* the sets of documents planned: functions on NestFiles
    MaxNest      \* maxNestDepth

NoNode == "no file"
Own    == {"w", "n"}
Refused == [ok |-> FALSE, bots |-> {}, snaps |-> {}, given |-> {}]

\* node: the file nested at "n"; gone: that file can not be read; mixed: the
\* ref also sets retry, on_error, when, loop or fallback; links: snaps; in,
\* out: what spec.ports maps to; value: a literal for the node's input.
NestDocs == [node : NestFiles \cup {NoNode}, gone : BOOLEAN, mixed : BOOLEAN, links : SUBSET (Own \X Own),
             in : Own \cup {"none"}, out : Own \cup {"none"}, value : BOOLEAN, dir : STRING]

ASSUME NestAssumption ==
    /\ MaxNest \in Nat /\ IsFiniteSet(NestFiles) /\ NoNode \notin NestFiles
    /\ Nestings \subseteq [NestFiles -> NestDocs]

VARIABLES
    nest,     \* the documents
    outer,    \* the one that is planned
    planned   \* its flattened form

nestVars == <<nest, outer, planned>>

NestInitOf(nestings) ==
    /\ nest \in nestings /\ outer \in NestFiles /\ planned = [is |-> "not yet"]
NestInit == NestInitOf(Nestings)

\* prefix := ref.ID + "/": a bot's id is the sequence of nodes it is inside of.
Prefixed(id) == <<"n">> \o id
NodeForgotten(x, to) == <<IF x = "n" THEN to ELSE x>>
\* rewriteBoundaryEndpoint: the port's maps_to, as the nested file wrote it.
Boundary(x, to) == IF x = "n" THEN <<"n", to>> ELSE <<x>>

\* A file by itself.
Alone(d) == [ok |-> TRUE, bots |-> {[id |-> <<"w">>, dir |-> d.dir]},
             snaps |-> {<<<<l[1]>>, <<l[2]>>>> : l \in d.links}, given |-> {}]

\* What is refused before the nested file is looked into.
Stops(docs, d, chain) ==
    \/ Len(chain) > MaxNest \/ d.mixed \/ d.gone \/ \E i \in DOMAIN chain : chain[i] = d.node
    \/ docs[d.node].in = "none" /\ docs[d.node].out = "none"

\* inlineOneSwarm and the rewriting: of e in the place of d's node.
Wired(p) == \A s \in p.snaps : {s[1], s[2]} \subseteq {b.id : b \in p.bots}   \* renameEndpoint
Fits(d, e, inner) ==
    /\ inner.ok /\ Wired(inner)
    /\ (\E l \in d.links : l[1] = "n") => e.out # "none"
    /\ (\E l \in d.links : l[2] = "n") => e.in # "none"
    /\ d.value => <<e.in>> \in {b.id : b \in inner.bots}
Inlined(d, e, inner) ==
    [ok |-> TRUE,
     bots |-> Alone(d).bots \cup {[id |-> Prefixed(b.id), dir |-> d.dir] : b \in inner.bots},
     snaps |-> {<<Boundary(l[1], e.out), Boundary(l[2], e.in)>> : l \in d.links}
                  \cup {<<Prefixed(s[1]), Prefixed(s[2])>> : s \in inner.snaps},
     given |-> (IF d.value THEN {<<"n", e.in>>} ELSE {}) \cup {Prefixed(i) : i \in inner.given}]

\* InlineNestedSwarms(file, ..., chain); the chain ends with the file itself.
FlatFrom(docs, chain, inner) ==
    LET d == docs[chain[Len(chain)]]
    IN IF d.node = NoNode THEN Alone(d)
       ELSE IF Stops(docs, d, chain) \/ ~Fits(d, docs[d.node], inner) THEN Refused
       ELSE Inlined(d, docs[d.node], inner)
Flat(docs) ==
    LET flat[chain \in Seq(NestFiles) \ {<<>>}] ==
            FlatFrom(docs, chain, flat[Append(chain, docs[chain[Len(chain)]].node)])
    IN flat

\* Plan(path) seeds the chain with the file's own path; Resolve then loads a
\* bot's path: from the flattened swarm's directory, and a snap that names no
\* bot does not type-check.
PlanNested ==
    /\ planned = [is |-> "not yet"]
    /\ LET p == Flat(nest)[<<outer>>]
       IN planned' = [is |-> IF p.ok /\ Wired(p) THEN "fine" ELSE "refused", as |-> p]
    /\ UNCHANGED <<nest, outer>>

NestNext == PlanNested
NestSpec == NestInit /\ [][NestNext]_nestVars

-----------------------------------------------------------------------------
NestTypeOK ==
    /\ outer \in NestFiles /\ nest \in [NestFiles -> NestDocs]
    /\ planned.is \in {"not yet", "fine", "refused"}

(* What nesting means: level k of the tree is a file at node n/n/.../n.     *)
Depth == Cardinality(NestFiles)
Level(docs, top) ==
    LET level[k \in 0..Depth] ==
            IF k = 0 THEN top ELSE IF level[k - 1] = NoNode THEN NoNode ELSE docs[level[k - 1]].node
    IN level
LevelsOf(level) == {k \in 0..Depth : level[k] # NoNode}
Inside(k, id) == [i \in 1..k |-> "n"] \o id

\* The bot behind a name at level k, through as many boundaries as it takes.
BehindFrom(docs, level, k, next) ==
    [side \in {"in", "out"} |-> [x \in Own \cup {"none"} |->
        IF x = "none" \/ k > Depth THEN <<>>
        ELSE IF x = "w" THEN Inside(k, <<"w">>)
        ELSE IF k + 1 \notin LevelsOf(level) THEN <<>>
        ELSE LET e == docs[level[k + 1]] IN next[side][IF side = "in" THEN e.in ELSE e.out]]]
Behind(docs, level) ==
    LET behind[k \in 0..(Depth + 1)] == BehindFrom(docs, level, k, behind[k + 1])
    IN behind

\* What the files mean: the wires at each level, between the bots behind.
WiresAt(docs, level, k) ==
    LET behind == Behind(docs, level)
    IN {<<behind[k]["out"][l[1]], behind[k]["in"][l[2]]>> : l \in docs[level[k]].links}
Meant(docs, level) == UNION {WiresAt(docs, level, k) : k \in LevelsOf(level)}
Endless(level) == Depth \in LevelsOf(level)
Sound(docs, level) ==
    /\ ~Endless(level)
    /\ \A s \in Meant(docs, level) : s[1] # <<>> /\ s[2] # <<>>
    /\ \A k \in LevelsOf(level) :
          LET d == docs[level[k]]
          IN d.node # NoNode => /\ ~d.mixed /\ ~d.gone
                                /\ {docs[d.node].in, docs[d.node].out} # {"none"}
                                /\ d.value => Behind(docs, level)[k]["in"]["n"] # <<>>

\* A flattened plan has exactly the bots and the wires of the files it was
\* made from, each under its own path, and no swarm that contains itself has one
\* (nest.go InlineNestedSwarms).
Faithful(p, docs, level) ==
    /\ ~Endless(level)
    /\ {b.id : b \in p.bots} = {Inside(k, <<"w">>) : k \in LevelsOf(level)}
    /\ p.snaps = Meant(docs, level)
    /\ p.given = {Behind(docs, level)[k]["in"]["n"] :
                     k \in {j \in LevelsOf(level) : docs[level[j]].value /\ docs[level[j]].node # NoNode}}
FlattensFaithfully == planned.is = "fine" => Faithful(planned.as, nest, Level(nest, outer))

\* docs/nested-swarms.md: the nested swarm is "exactly as if it were a
\* single bot".
LikeASingleBot == planned.is = "refused" => ~Sound(nest, Level(nest, outer))

\* resolve.go:33-34: "`path:` refs are resolved relative to the swarm file's
\* own directory".
PathsStayPut ==
    planned.is = "fine" =>
        LET level == Level(nest, outer)
        IN \A k \in LevelsOf(level) : [id |-> Inside(k, <<"w">>), dir |-> nest[level[k]].dir] \in planned.as.bots
=============================================================================
