---------------------------- MODULE DeskProofs -----------------------------
(***************************************************************************)
(* What holds of the screens and of what they configure: of Roster, for    *)
(* any roles, requests and order of edits; of Probes, for any times a      *)
(* check may take and any status requests; of Front, for any files,        *)
(* viewers and saves; of Lab, for any messages, roles and choices of       *)
(* engine; of BotTuning, for any answers, edits and texts; of SwarmFiles,  *)
(* for any canvas saves and hand edits; and of Setup, for any presses,     *)
(* callbacks and settings.  And of all of these side by side with a bot at *)
(* work, as MCDesk composes them.                                          *)
(***************************************************************************)
EXTENDS MCDesk, BotProofs, FiniteSetTheorems, SequenceTheorems, TLAPS

-----------------------------------------------------------------------------
(* Roster.                                                                 *)

Override == [is : BOOLEAN, focus : Focuses \cup {NoLine}, retired : BOOLEAN, always : BOOLEAN]
EditKinds ==
    {Edit("set", f) : f \in Focuses} \cup {Edit(k, b) : k \in {"retired", "always", "reset"}, b \in BOOLEAN}
PostRecord == [at : {"new", "waits", "edits", "over"}, id : Roles,
               todo : Seq(EditKinds), seen : Overridings \cup {<<>>}]

\* A request that has read the file has the lock, so what it read is still
\* what the file says, and its edit is added to everybody's.
ReadUnderLock(p) ==
    /\ post[p].at = "edits" => mu = p /\ post[p].seen = asked
    /\ post[p].at \in {"waits", "edits"} => post[p].todo # <<>>

RosterInv ==
    /\ catalog \in [is : {"whole", "broken"}, of : [Roles -> {NoLine, Initially, Upgraded}]]
    /\ overrides \in [is : {"whole", "garbled"}, of : Overridings] /\ asked \in Overridings
    /\ mu \in Posts \cup {Nobody} /\ post \in [Posts -> PostRecord]
    /\ overrides.of = asked /\ (overrides.is = "garbled" => asked = NoEdits)
    /\ \A r \in Roles : asked[r].focus # NoLine => asked[r].is
    /\ \A p \in Posts : ReadUnderLock(p)

\* An edit makes an entry; only an entry has words.
LEMMA EditMakesEntry ==
  ASSUME NEW o \in Override, NEW e \in EditKinds, o.focus # NoLine => o.is
  PROVE  /\ AfterEdit(o, e) \in Override
         /\ AfterEdit(o, e).focus # NoLine => AfterEdit(o, e).is
<1>1. CASE \E f \in Focuses : e = Edit("set", f)
  <2>1. PICK f \in Focuses : e = Edit("set", f)  BY <1>1
  <2>2. e.kind = "set" /\ e.value = f  BY <2>1 DEF Edit
  <2>3. AfterEdit(o, e) = [o EXCEPT !.is = TRUE, !.focus = f]  BY <2>2 DEF AfterEdit
  <2> QED  BY <2>3 DEF Override
<1>2. CASE \E k \in {"retired", "always", "reset"}, b \in BOOLEAN : e = Edit(k, b)
  <2>1. PICK k \in {"retired", "always", "reset"}, b \in BOOLEAN : e = Edit(k, b)  BY <1>2
  <2>2. e.kind = k /\ e.value = b  BY <2>1 DEF Edit
  <2>3. CASE k = "retired"
    <3>1. AfterEdit(o, e) = [o EXCEPT !.is = TRUE, !.retired = b]  BY <2>2, <2>3 DEF AfterEdit
    <3> QED  BY <3>1 DEF Override
  <2>4. CASE k = "always"
    <3>1. AfterEdit(o, e) = [o EXCEPT !.is = TRUE, !.always = b]  BY <2>2, <2>4 DEF AfterEdit
    <3> QED  BY <3>1 DEF Override
  <2>5. CASE k = "reset"
    <3>1. AfterEdit(o, e) = Blank  BY <2>2, <2>5 DEF AfterEdit
    <3> QED  BY <3>1 DEF Override, Blank
  <2> QED  BY <2>3, <2>4, <2>5
<1> QED  BY <1>1, <1>2 DEF EditKinds

\* A list of one edit.
LEMMA OneEdit ==
  ASSUME NEW S, NEW e \in S
  PROVE  <<e>> \in Seq(S) /\ <<e>> # <<>>
OBVIOUS

\* What a request may ask for is an edit.
LEMMA Edits ==
  /\ \A f \in Focuses : Edit("set", f) \in EditKinds
  /\ \A k \in {"retired", "always", "reset"}, b \in BOOLEAN : Edit(k, b) \in EditKinds
BY DEF EditKinds

\* A request that is not there yet, or no more.
LEMMA NoRequest ==
  ASSUME NEW r \in Roles
  PROVE  /\ Unposted \in PostRecord /\ Unposted.at = "new"
         /\ [Unposted EXCEPT !.at = "over"] \in PostRecord
         /\ [Unposted EXCEPT !.at = "over"].at = "over"
<1>1. (CHOOSE q \in Roles : TRUE) \in Roles  OBVIOUS
<1>2. Unposted \in PostRecord /\ Unposted.at = "new"
      BY <1>1, EmptySeq DEF Unposted, PostRecord
<1>3. ASSUME NEW x \in PostRecord PROVE [x EXCEPT !.at = "over"] \in PostRecord /\ [x EXCEPT !.at = "over"].at = "over"
      BY DEF PostRecord
<1> QED  BY <1>2, <1>3

\* No overrides yet, and no request.
LEMMA RosterInvInit == RosterInit => RosterInv
<1> SUFFICES ASSUME RosterInit PROVE RosterInv
    OBVIOUS
<1>1. PICK r \in Roles : TRUE  BY DEF RosterInit
<1>3. NoEdits \in Overridings /\ \A q \in Roles : NoEdits[q].focus = NoLine
      BY DEF NoEdits, Overridings, Blank
<1>4. Unposted \in PostRecord /\ Unposted.at = "new"
      BY <1>1, NoRequest
<1>5. \A p \in Posts : post[p] = Unposted /\ post[p].at = "new"
      BY <1>4 DEF RosterInit
<1>6. post \in [Posts -> PostRecord]
      BY <1>4 DEF RosterInit
<1>7. catalog \in [is : {"whole", "broken"}, of : [Roles -> {NoLine, Initially, Upgraded}]]
      BY DEF RosterInit
<1>8. overrides = [is |-> "whole", of |-> NoEdits] /\ asked = NoEdits /\ mu = Nobody
      BY DEF RosterInit
<1>9. overrides \in [is : {"whole", "garbled"}, of : Overridings] /\ overrides.of = asked
      BY <1>3, <1>8
<1> QED  BY <1>3, <1>5, <1>6, <1>7, <1>8, <1>9 DEF RosterInv, ReadUnderLock

\* What a request keeps of itself while others move.
LEMMA OthersWait ==
  ASSUME RosterInv, NEW p \in Posts, NEW x \in PostRecord,
         post' = [post EXCEPT ![p] = x],
         x.at = "edits" => mu' = p /\ x.seen = asked',
         x.at \in {"waits", "edits"} => x.todo # <<>>,
         \A q \in Posts : q # p /\ post[q].at = "edits" => mu' = q /\ asked' = asked
  PROVE  post' \in [Posts -> PostRecord] /\ \A q \in Posts : ReadUnderLock(q)'
<1> HIDE DEF PostRecord
<1>1. post' \in [Posts -> PostRecord]  BY DEF RosterInv
<1>2. ASSUME NEW q \in Posts PROVE ReadUnderLock(q)'
  <2>1. CASE q = p
    <3>1. post'[q] = x  BY <2>1 DEF RosterInv
    <3> QED  BY <2>1, <3>1 DEF ReadUnderLock
  <2>2. CASE q # p
    <3>1. post'[q] = post[q]  BY <2>2 DEF RosterInv
    <3> QED  BY <2>2, <3>1 DEF ReadUnderLock, RosterInv
  <2> QED  BY <2>1, <2>2
<1> QED  BY <1>1, <1>2

\* A request begins.
LEMMA PostingKeeps ==
  ASSUME RosterInv, NEW p \in Posts, PostRole(p) \/ PostReset(p)
  PROVE  RosterInv'
<1>1. PICK x \in PostRecord : /\ post' = [post EXCEPT ![p] = x]
                              /\ x.at = "waits" /\ x.todo # <<>>
  <2>1. CASE PostRole(p)
    <3>1. PICK r \in Roles, words \in {<<>>} \cup {<<Edit("set", f)>> : f \in Focuses},
               off \in FlagEdits("retired"), must \in FlagEdits("always") :
            /\ words \o off \o must # <<>>
            /\ post' = [post EXCEPT ![p] = [at |-> "waits", id |-> r, todo |-> words \o off \o must, seen |-> <<>>]]
          BY <2>1 DEF PostRole
    <3>2. words \in Seq(EditKinds)
      <4>1. CASE words = <<>>  BY <4>1, EmptySeq
      <4>2. CASE \E f \in Focuses : words = <<Edit("set", f)>>
            BY <4>2, Edits, OneEdit
      <4> QED  BY <4>1, <4>2
    <3>3. \A k \in {"retired", "always"} : \A s \in FlagEdits(k) : s \in Seq(EditKinds)
      <4> SUFFICES ASSUME NEW k \in {"retired", "always"}, NEW s \in FlagEdits(k) PROVE s \in Seq(EditKinds)
          OBVIOUS
      <4>1. CASE s = <<>>  BY <4>1, EmptySeq
      <4>2. CASE \E b \in BOOLEAN : s = <<Edit(k, b)>>
        <5>1. PICK b \in BOOLEAN : s = <<Edit(k, b)>>  BY <4>2
        <5>2. Edit(k, b) \in EditKinds  BY Edits
        <5> QED  BY <5>1, <5>2, OneEdit
      <4> QED  BY <4>1, <4>2 DEF FlagEdits
    <3>4. words \o off \o must \in Seq(EditKinds)
          BY <3>2, <3>3, ConcatProperties
    <3>5. [at |-> "waits", id |-> r, todo |-> words \o off \o must, seen |-> <<>>] \in PostRecord
          BY <3>4 DEF PostRecord
    <3> QED  BY <3>1, <3>5
  <2>2. CASE PostReset(p)
    <3>1. PICK r \in Roles : 
            post' = [post EXCEPT ![p] = [at |-> "waits", id |-> r, todo |-> <<Edit("reset", FALSE)>>, seen |-> <<>>]]
          BY <2>2 DEF PostReset
    <3>2. <<Edit("reset", FALSE)>> \in Seq(EditKinds) /\ <<Edit("reset", FALSE)>> # <<>>
      <4>1. Edit("reset", FALSE) \in EditKinds  BY Edits
      <4> QED  BY <4>1, OneEdit
    <3>3. [at |-> "waits", id |-> r, todo |-> <<Edit("reset", FALSE)>>, seen |-> <<>>] \in PostRecord
          BY <3>2 DEF PostRecord
    <3> QED  BY <3>1, <3>2, <3>3
  <2> QED  BY <2>1, <2>2
<1>2. UNCHANGED <<catalog, overrides, mu, asked>> /\ post[p].at = "new"
      BY DEF PostRole, PostReset
<1>3. post' \in [Posts -> PostRecord] /\ \A q \in Posts : ReadUnderLock(q)'
  <2>1. \A q \in Posts : q # p /\ post[q].at = "edits" => mu' = q /\ asked' = asked
        BY <1>2 DEF RosterInv, ReadUnderLock
  <2> QED  BY <1>1, <2>1, OthersWait
<1> QED  BY <1>2, <1>3 DEF RosterInv

\* A request reads the file under the lock.
LEMMA ReadingOverrides ==
  ASSUME RosterInv, NEW p \in Posts, ReadOverrides(p)
  PROVE  RosterInv'
<1>1. UNCHANGED <<catalog, overrides, asked>> /\ mu = Nobody /\ mu' = p /\ post[p].at = "waits"
      BY DEF ReadOverrides, Locked
<1>2. post' = [post EXCEPT ![p] = [post[p] EXCEPT !.at = "edits", !.seen = Overrides]]
      BY DEF ReadOverrides
<1>3. Overrides = asked /\ asked \in Overridings
      BY DEF Overrides, RosterInv
<1>4. post[p] \in PostRecord /\ post[p].todo # <<>>
      BY <1>1 DEF RosterInv, ReadUnderLock
<1>5. PICK x : x = [post[p] EXCEPT !.at = "edits", !.seen = Overrides]
      OBVIOUS
<1>6. x \in PostRecord /\ x.at = "edits" /\ x.seen = asked /\ x.todo = post[p].todo
      BY <1>3, <1>4, <1>5 DEF PostRecord
<1>7. post' = [post EXCEPT ![p] = x]
      BY <1>2, <1>5
<1>8. \A q \in Posts : post[q].at # "edits"
  <2>1. Nobody \notin Posts  BY RosterAssumption DEF Nobody, Posts
  <2> QED  BY <1>1, <2>1 DEF RosterInv, ReadUnderLock
<1>9. post' \in [Posts -> PostRecord] /\ \A q \in Posts : ReadUnderLock(q)'
  <2> HIDE DEF PostRecord
  <2> QED  BY <1>1, <1>4, <1>6, <1>7, <1>8, OthersWait
<1> QED  BY <1>1, <1>9 DEF RosterInv

\* It writes its edit, or cannot, and lets go of the lock.
LEMMA WritingOverrides ==
  ASSUME RosterInv, NEW p \in Posts, WriteOverrides(p)
  PROVE  RosterInv'
<1>1. PICK e, r, x : e = Head(post[p].todo) /\ r = post[p].id /\ x = post[p]
      OBVIOUS
<1>2. /\ x.at = "edits" /\ mu = p /\ mu' = Nobody /\ UNCHANGED catalog
      /\ x \in PostRecord /\ x.seen = asked /\ x.todo # <<>>
      BY <1>1 DEF WriteOverrides, RosterInv, ReadUnderLock
<1>3. r \in Roles /\ x.todo \in Seq(EditKinds) /\ asked \in Overridings
      BY <1>1, <1>2 DEF PostRecord, RosterInv
<1>4. e \in EditKinds /\ Tail(x.todo) \in Seq(EditKinds) /\ Len(Tail(x.todo)) = Len(x.todo) - 1
      /\ Len(x.todo) \in Nat
      BY <1>1, <1>2, <1>3, HeadTailProperties, LenProperties
<1>5. \A q \in Posts : q # p => post[q].at # "edits"
      BY <1>2 DEF RosterInv, ReadUnderLock
<1>6. \/ UNCHANGED <<overrides, asked>>
      \/ /\ overrides' = [is |-> "whole", of |-> [asked EXCEPT ![r] = AfterEdit(@, e)]]
         /\ asked' = [asked EXCEPT ![r] = AfterEdit(@, e)]
      BY <1>1, <1>2 DEF WriteOverrides
<1>7. /\ overrides' \in [is : {"whole", "garbled"}, of : Overridings] /\ asked' \in Overridings
      /\ overrides'.of = asked' /\ (overrides'.is = "garbled" => asked' = NoEdits)
      /\ \A q \in Roles : asked'[q].focus # NoLine => asked'[q].is
  <2>1. CASE UNCHANGED <<overrides, asked>>
        BY <2>1 DEF RosterInv
  <2>2. CASE /\ overrides' = [is |-> "whole", of |-> [asked EXCEPT ![r] = AfterEdit(@, e)]]
             /\ asked' = [asked EXCEPT ![r] = AfterEdit(@, e)]
    <3>1. asked \in [Roles -> Override]  BY <1>3 DEF Overridings, Override
    <3>2. asked[r].focus # NoLine => asked[r].is  BY <1>3 DEF RosterInv
    <3>3. PICK o : o = AfterEdit(asked[r], e)  OBVIOUS
    <3> HIDE DEF Override
    <3>4. o \in Override /\ (o.focus # NoLine => o.is)
          BY <1>3, <1>4, <3>1, <3>2, <3>3, EditMakesEntry
    <3>5. asked' = [asked EXCEPT ![r] = o]  BY <2>2, <3>3
    <3>6. asked' \in [Roles -> Override] /\ \A q \in Roles : asked'[q] = IF q = r THEN o ELSE asked[q]
          BY <1>3, <3>1, <3>4, <3>5
    <3>7. \A q \in Roles : asked'[q].focus # NoLine => asked'[q].is
          BY <3>4, <3>6 DEF RosterInv
    <3>8. asked' \in Overridings  BY <3>6 DEF Overridings, Override
    <3>9. overrides' = [is |-> "whole", of |-> asked']  BY <2>2
    <3> QED  BY <3>7, <3>8, <3>9
  <2> QED  BY <1>6, <2>1, <2>2
<1>8. PICK y \in PostRecord : /\ post' = [post EXCEPT ![p] = y]
                              /\ y.at = "over" \/ (y.at = "waits" /\ y.todo # <<>>)
  <2>1. CASE PostOver(p)
    <3>1. PICK y : y = [Unposted EXCEPT !.at = "over"]
          OBVIOUS
    <3>2. y \in PostRecord /\ y.at = "over"  BY <1>3, <3>1, NoRequest
    <3>3. post' = [post EXCEPT ![p] = y]  BY <2>1, <3>1 DEF PostOver
    <3> QED  BY <3>2, <3>3
  <2>2. CASE /\ Len(x.todo) # 1
             /\ post' = [post EXCEPT ![p].at = "waits", ![p].todo = Tail(@), ![p].seen = <<>>]
    <3>1. post' = [post EXCEPT ![p] = [x EXCEPT !.at = "waits", !.todo = Tail(x.todo), !.seen = <<>>]]
          BY <1>1, <2>2
    <3>2. PICK y : y = [x EXCEPT !.at = "waits", !.todo = Tail(x.todo), !.seen = <<>>]
          OBVIOUS
    <3>3. y \in PostRecord /\ y.at = "waits" /\ y.todo = Tail(x.todo)
          BY <1>2, <1>4, <3>2 DEF PostRecord
    <3>4. Tail(x.todo) # <<>>
      <4>1. Len(x.todo) # 0  BY <1>2, <1>3, EmptySeq
      <4>2. Len(Tail(x.todo)) # 0  BY <1>4, <2>2, <4>1
      <4> QED  BY <4>2, EmptySeq
    <3> QED  BY <3>1, <3>2, <3>3, <3>4
  <2> QED  BY <1>1, <2>1, <2>2 DEF WriteOverrides
<1>9. post' \in [Posts -> PostRecord] /\ \A q \in Posts : ReadUnderLock(q)'
  <2> HIDE DEF PostRecord
  <2> QED  BY <1>5, <1>8, OthersWait
<1> QED  BY <1>2, <1>7, <1>9 DEF RosterInv

\* A pull changes the catalog alone; a hand edit waits for the lock and takes
\* everybody's edits with it.
LEMMA OutsidersKeep ==
  ASSUME RosterInv, Pull \/ HandEdit
  PROVE  RosterInv'
<1>1. CASE Pull
  <2>1. UNCHANGED <<overrides, mu, post, asked>>  BY <1>1 DEF Pull
  <2>2. catalog' \in [is : {"whole", "broken"}, of : [Roles -> {NoLine, Initially, Upgraded}]]
        BY <1>1 DEF Pull, RosterInv
  <2> QED  BY <2>1, <2>2 DEF RosterInv, ReadUnderLock
<1>2. CASE HandEdit
  <2>1. UNCHANGED <<catalog, mu, post>> /\ mu = Nobody /\ asked' = NoEdits
        /\ overrides' \in {[is |-> how, of |-> NoEdits] : how \in {"garbled", "whole"}}
        BY <1>2 DEF HandEdit
  <2>2. NoEdits \in Overridings /\ \A q \in Roles : NoEdits[q].focus = NoLine
        BY DEF NoEdits, Overridings, Blank
  <2>3. overrides' \in [is : {"whole", "garbled"}, of : Overridings] /\ overrides'.of = asked'
        BY <2>1, <2>2
  <2>4. \A q \in Posts : post[q].at # "edits"
    <3>1. Nobody \notin Posts  BY RosterAssumption DEF Nobody, Posts
    <3> QED  BY <2>1, <3>1 DEF RosterInv, ReadUnderLock
  <2>5. \A q \in Posts : ReadUnderLock(q)'
        BY <2>1, <2>4 DEF RosterInv, ReadUnderLock
  <2> QED  BY <2>1, <2>2, <2>3, <2>5 DEF RosterInv
<1> QED  BY <1>1, <1>2

\* The roster of the overrides as they are is that of all edits.
LEMMA RosterOfEdits == RosterInv => BoardSeesEveryEdit
<1> SUFFICES ASSUME RosterInv, overrides.is = "whole", catalog.is = "whole"
             PROVE  RosterLines =
                      {[role |-> r, focus |-> IF asked[r].focus # NoLine THEN asked[r].focus ELSE catalog.of[r],
                        always |-> asked[r].always] :
                          r \in {q \in Roles : ~asked[q].retired /\ {asked[q].focus, catalog.of[q]} # {NoLine}}}
    BY DEF BoardSeesEveryEdit
<1>1. Overrides = asked  BY DEF Overrides, RosterInv
<1>2. Active = {q \in Roles : ~asked[q].retired /\ {asked[q].focus, catalog.of[q]} # {NoLine}}
      BY <1>1 DEF Active, Listed, FocusOf, Shipped, RosterInv
<1>3. \A r \in Roles : FocusOf(r) = IF asked[r].focus # NoLine THEN asked[r].focus ELSE catalog.of[r]
      BY <1>1 DEF FocusOf, Shipped
<1>4. RosterLines = {[role |-> r, focus |-> FocusOf(r), always |-> asked[r].always] : r \in Active}
      BY <1>1 DEF RosterLines
<1> QED  BY <1>2, <1>3, <1>4

\* Every step keeps the invariant.
LEMMA RosterInvStep == RosterInv /\ [RosterNext]_rosterVars => RosterInv'
<1> SUFFICES ASSUME RosterInv, [RosterNext]_rosterVars PROVE RosterInv'
    OBVIOUS
<1>1. CASE UNCHANGED rosterVars
      BY <1>1 DEF rosterVars, RosterInv, ReadUnderLock
<1>2. CASE RosterNext
      BY <1>2, PostingKeeps, ReadingOverrides, WritingOverrides, OutsidersKeep DEF RosterNext
<1> QED  BY <1>1, <1>2

\* Edits of one request are not lost to another's: what a board is shown is
\* the catalog with all of them (roles.go Store.mu).
THEOREM RosterShowsEdits == RosterSpec => []BoardSeesEveryEdit
<1>1. RosterInv /\ [RosterNext]_rosterVars => RosterInv'  BY RosterInvStep
<1> QED  BY <1>1, RosterInvInit, RosterOfEdits, PTL DEF RosterSpec

\* A request that edits has read a file of everybody's edits.
THEOREM RosterTypes == RosterSpec => []RosterTypeOK
<1>1. RosterInv => RosterTypeOK
  <2> SUFFICES ASSUME RosterInv PROVE RosterTypeOK
      OBVIOUS
  <2>1. /\ catalog.is \in {"whole", "broken"} /\ catalog.of \in [Roles -> {NoLine, Initially, Upgraded}]
        /\ overrides.is \in {"whole", "garbled"} /\ overrides.of \in Overridings
        BY DEF RosterInv
  <2>2. ASSUME NEW p \in Posts
        PROVE  /\ post[p].at \in {"new", "waits", "edits", "over"} /\ post[p].id \in Roles
               /\ post[p].at = "edits" => post[p].seen \in Overridings
        BY DEF RosterInv, PostRecord, ReadUnderLock
  <2> QED  BY <2>1, <2>2 DEF RosterTypeOK, RosterInv
<1> QED  BY <1>1, RosterInvInit, RosterInvStep, PTL DEF RosterSpec

-----------------------------------------------------------------------------
(* Probes.                                                                 *)

PollRecord == [now : Moments \cup {Nil}, at : [Probed -> {"new", "waits", "checks", "done"}],
               got : [Probed -> Moments \cup {Nil}], mid : SUBSET Probed]
Short(p) == CheckTime[p] < ProbeTtl[p]

\* What a probe knows is no older than it says, and a check runs for one
\* request, which it began after; a short one began in the moment that asked.
AsOldAsSaid(p) ==
    /\ checkedAt[p] # Nil => checkedAt[p] <= observed[p]
    /\ begun[p] # Nil => clock - begun[p] <= CheckTime[p] /\ begun[p] <= clock
StagesAgree(c, p) ==
    /\ poll[c].at[p] # "new" => poll[c].now # Nil /\ poll[c].now <= clock
    /\ poll[c].at[p] = "checks" =>
          /\ probeMu[p] = c /\ begun[p] # Nil /\ poll[c].now <= begun[p]
          /\ Short(p) => begun[p] = poll[c].now /\ p \notin poll[c].mid
    /\ poll[c].at[p] = "done" => poll[c].got[p] > poll[c].now - ProbeTtl[p]

\* Whoever finds a short probe's mutex free finds a fresh answer too, or has
\* only just asked, and during no check.
FreeIsFresh(c, p) ==
    poll[c].at[p] = "waits" /\ probeMu[p] = Nil /\ Short(p) =>
        RecentEnough(p, poll[c].now) \/ (poll[c].now = clock /\ p \notin poll[c].mid)

ProbesInv ==
    /\ ProbesTypeOK
    /\ \A p \in Probed : AsOldAsSaid(p)
    /\ \A c \in Callers, p \in Probed : StagesAgree(c, p) /\ FreeIsFresh(c, p)

\* Moments are numbers, and none is Nil; nobody is no caller.
LEMMA MomentsAreNumbers ==
  /\ Moments \subseteq Nat /\ Nil \notin Moments /\ Nil \notin Callers /\ Nil \in Int
  /\ \A p \in Probed : ProbeTtl[p] \in Nat \ {0} /\ CheckTime[p] \in Nat
BY ProbesAssumption DEF Moments, Callers, Nil

\* Nobody has asked.
LEMMA ProbesInvInit == ProbesInit => ProbesInv
<1> SUFFICES ASSUME ProbesInit PROVE ProbesInv
    OBVIOUS
<1>1. Unpolled \in PollRecord /\ \A p \in Probed : Unpolled.at[p] = "new"
      BY DEF Unpolled, PollRecord
<1>2. poll \in [Callers -> PollRecord] /\ \A c \in Callers, p \in Probed : poll[c].at[p] = "new"
  <2> HIDE DEF PollRecord
  <2> QED  BY <1>1 DEF ProbesInit
<1>3. clock \in Moments /\ clock = 0
      BY ProbesAssumption DEF ProbesInit, Moments
<1>4. \A p \in Probed : checkedAt[p] = Nil /\ begun[p] = Nil /\ probeMu[p] = Nil
      BY DEF ProbesInit
<1>5. ProbesTypeOK
      BY <1>2, <1>3 DEF ProbesTypeOK, PollRecord, ProbesInit
<1> QED  BY <1>2, <1>4, <1>5 DEF ProbesInv, AsOldAsSaid, StagesAgree, FreeIsFresh

\* What the invariant says of types, field by field.
LEMMA ProbeFields ==
  ASSUME ProbesTypeOK
  PROVE  /\ clock \in Nat /\ poll \in [Callers -> PollRecord]
         /\ \A p \in Probed : /\ checkedAt[p] \in Moments \cup {Nil} /\ checkedAt[p] \in Int
                              /\ observed[p] \in Int /\ begun[p] \in Int
                              /\ (begun[p] # Nil => begun[p] \in Moments)
                              /\ (observed[p] \in Moments \cup {Nil})
         /\ \A c \in Callers : /\ poll[c].now \in Int /\ poll[c].now \in Moments \cup {Nil}
                               /\ \A p \in Probed : poll[c].got[p] \in Int
<1>1. Moments \cup {Nil} \subseteq Int /\ Moments \subseteq Nat
  <2>1. Moments \subseteq Nat /\ Nil \in Int  BY MomentsAreNumbers
  <2>2. Moments \subseteq Int  BY <2>1
  <2> QED  BY <2>1, <2>2
<1>2. clock \in Nat /\ poll \in [Callers -> PollRecord]
      BY <1>1 DEF ProbesTypeOK, PollRecord
<1>3. \A p \in Probed : /\ checkedAt[p] \in Moments \cup {Nil} /\ observed[p] \in Moments \cup {Nil}
                        /\ begun[p] \in Moments \cup {Nil}
      BY DEF ProbesTypeOK
<1>4. \A c \in Callers : /\ poll[c].now \in Moments \cup {Nil}
                         /\ \A p \in Probed : poll[c].got[p] \in Moments \cup {Nil}
      BY <1>2 DEF PollRecord
<1> QED  BY <1>1, <1>2, <1>3, <1>4

\* Request c has moved to `to` with probe p, where it got t.
MovedOn(c, p, to, t) ==
    /\ poll' \in [Callers -> PollRecord]
    /\ poll'[c].now = poll[c].now /\ poll'[c].mid = poll[c].mid
    /\ poll'[c].at[p] = to /\ poll'[c].got[p] = t
    /\ \A q \in Probed : q # p => poll'[c].at[q] = poll[c].at[q] /\ poll'[c].got[q] = poll[c].got[q]
    /\ \A d \in Callers : d # c => poll'[d] = poll[d]

\* A request moves on with one probe.
LEMMA AtOneProbe ==
  ASSUME poll \in [Callers -> PollRecord], NEW c \in Callers, NEW p \in Probed,
         NEW to \in {"waits", "checks", "done"}, NEW t \in Moments \cup {Nil},
         poll' = [poll EXCEPT ![c].at[p] = to, ![c].got[p] = t]
  PROVE  MovedOn(c, p, to, t)
<1>1. PICK x : x = poll[c]
      OBVIOUS
<1>2. x \in PollRecord  BY <1>1
<1>3. PICK y : y = [x EXCEPT !.at[p] = to, !.got[p] = t]
      OBVIOUS
<1>4. /\ y \in PollRecord /\ y.now = x.now /\ y.mid = x.mid
      /\ y.at = [x.at EXCEPT ![p] = to] /\ y.got = [x.got EXCEPT ![p] = t]
  <2>1. x.at \in [Probed -> {"new", "waits", "checks", "done"}] /\ x.got \in [Probed -> Moments \cup {Nil}]
        BY <1>2 DEF PollRecord
  <2>2. [x.at EXCEPT ![p] = to] \in [Probed -> {"new", "waits", "checks", "done"}]
        BY <2>1
  <2>3. [x.got EXCEPT ![p] = t] \in [Probed -> Moments \cup {Nil}]
        BY <2>1
  <2> QED  BY <1>2, <1>3, <2>2, <2>3 DEF PollRecord
<1>5. /\ y.at[p] = to /\ y.got[p] = t
      /\ \A q \in Probed : q # p => y.at[q] = x.at[q] /\ y.got[q] = x.got[q]
      BY <1>2, <1>4 DEF PollRecord
<1>6. poll' = [poll EXCEPT ![c] = y]
      BY <1>1, <1>3
<1>7. poll' \in [Callers -> PollRecord] /\ poll'[c] = y /\ \A d \in Callers : d # c => poll'[d] = poll[d]
      BY <1>4, <1>6
<1> QED  BY <1>1, <1>4, <1>5, <1>7 DEF MovedOn

\* The same for one that gets nothing yet.
LEMMA AtOneProbeOnly ==
  ASSUME poll \in [Callers -> PollRecord], NEW c \in Callers, NEW p \in Probed,
         NEW to \in {"waits", "checks", "done"}, poll' = [poll EXCEPT ![c].at[p] = to]
  PROVE  MovedOn(c, p, to, poll[c].got[p])
<1>1. PICK x : x = poll[c]
      OBVIOUS
<1>2. x \in PollRecord  BY <1>1
<1>3. PICK y : y = [x EXCEPT !.at[p] = to]
      OBVIOUS
<1>4. /\ y \in PollRecord /\ y.now = x.now /\ y.mid = x.mid /\ y.got = x.got
      /\ y.at = [x.at EXCEPT ![p] = to]
  <2>1. x.at \in [Probed -> {"new", "waits", "checks", "done"}]
        BY <1>2 DEF PollRecord
  <2>2. [x.at EXCEPT ![p] = to] \in [Probed -> {"new", "waits", "checks", "done"}]
        BY <2>1
  <2> QED  BY <1>2, <1>3, <2>2 DEF PollRecord
<1>5. y.at[p] = to /\ \A q \in Probed : q # p => y.at[q] = x.at[q]
      BY <1>2, <1>4 DEF PollRecord
<1>6. poll' = [poll EXCEPT ![c] = y]
      BY <1>1, <1>3
<1>7. poll' \in [Callers -> PollRecord] /\ poll'[c] = y /\ \A d \in Callers : d # c => poll'[d] = poll[d]
      BY <1>4, <1>6
<1> QED  BY <1>1, <1>4, <1>5, <1>7 DEF MovedOn

\* A request comes in.
LEMMA PollKeepsProbes ==
  ASSUME ProbesInv, NEW c \in Callers, Poll(c)
  PROVE  ProbesInv'
<1>0. ProbesTypeOK /\ clock \in Moments  BY DEF ProbesInv, ProbesTypeOK
<1>1. UNCHANGED <<clock, probeMu, checkedAt, observed, begun>> /\ poll[c].now = Nil
      BY DEF Poll
<1>2. PICK x : x = [poll[c] EXCEPT !.now = clock, !.at = [p \in Probed |-> "waits"],
                                     !.mid = {p \in Probed : Checking(p) # {}}]
      OBVIOUS
<1>3. poll[c] \in PollRecord  BY <1>0, ProbeFields
<1>4. /\ x \in PollRecord /\ x.now = clock /\ x.mid = {p \in Probed : Checking(p) # {}}
      /\ \A p \in Probed : x.at[p] = "waits"
      BY <1>0, <1>2, <1>3 DEF PollRecord
<1>5. poll' = [poll EXCEPT ![c] = x]
      BY <1>2 DEF Poll
<1>6. poll' \in [Callers -> PollRecord] /\ poll'[c] = x /\ \A d \in Callers : d # c => poll'[d] = poll[d]
  <2> HIDE DEF PollRecord
  <2> QED  BY <1>0, <1>4, <1>5, ProbeFields
<1>7. \A p \in Probed : poll[c].at[p] = "new"
      BY <1>1 DEF ProbesInv, StagesAgree
<1>8. ProbesTypeOK'
      BY <1>0, <1>1, <1>6 DEF ProbesTypeOK, PollRecord
<1>9. ASSUME NEW p \in Probed PROVE AsOldAsSaid(p)'
      BY <1>1, <1>6, <1>7 DEF ProbesInv, AsOldAsSaid
<1>10. ASSUME NEW d \in Callers, NEW p \in Probed PROVE StagesAgree(d, p)' /\ FreeIsFresh(d, p)'
  <2>1. CASE d = c
    <3>1. probeMu[p] = Nil => Checking(p) = {}
          BY MomentsAreNumbers DEF ProbesInv, StagesAgree, Checking
    <3>2. clock \in Nat /\ clock # Nil  BY <1>0, MomentsAreNumbers
    <3> QED  BY <1>1, <1>4, <1>6, <2>1, <3>1, <3>2 DEF StagesAgree, FreeIsFresh
  <2>2. CASE d # c
        BY <1>1, <1>6, <2>2 DEF ProbesInv, StagesAgree, FreeIsFresh, RecentEnough
  <2> QED  BY <2>1, <2>2
<1> QED  BY <1>8, <1>9, <1>10 DEF ProbesInv

\* A request gets a fresh answer, or the mutex.
LEMMA GetKeepsProbes ==
  ASSUME ProbesInv, NEW c \in Callers, NEW p \in Probed, Get(c, p)
  PROVE  ProbesInv'
<1>0. ProbesTypeOK  BY DEF ProbesInv
<1>1. UNCHANGED <<clock, checkedAt, observed>> /\ poll[c].at[p] = "waits" /\ probeMu[p] = Nil
      BY DEF Get
<1>2. poll[c].now # Nil /\ poll[c].now <= clock /\ poll[c].now \in Nat
      BY <1>0, <1>1, ProbeFields, MomentsAreNumbers DEF ProbesInv, StagesAgree
<1>3. CASE /\ RecentEnough(p, poll[c].now) /\ UNCHANGED <<probeMu, begun>>
           /\ poll' = [poll EXCEPT ![c].at[p] = "done", ![c].got[p] = observed[p]]
  <2>1. PICK t : t = observed[p]  OBVIOUS
  <2>2. t \in Moments \cup {Nil} /\ poll \in [Callers -> PollRecord]  BY <1>0, <2>1, ProbeFields
  <2>3. MovedOn(c, p, "done", t)
    <3>1. poll' = [poll EXCEPT ![c].at[p] = "done", ![c].got[p] = t]
          BY <1>3, <2>1
    <3> QED  BY <2>2, <3>1, AtOneProbe
  <2>4. t > poll[c].now - ProbeTtl[p]
    <3>1. checkedAt[p] <= t /\ poll[c].now - checkedAt[p] < ProbeTtl[p]
          BY <1>3, <2>1 DEF RecentEnough, ProbesInv, AsOldAsSaid
    <3> QED  BY <1>0, <1>2, <2>1, <3>1, ProbeFields, MomentsAreNumbers
  <2>5. ProbesTypeOK'
        BY <1>0, <1>1, <1>3, <2>3 DEF MovedOn, ProbesTypeOK, PollRecord
  <2>6. ASSUME NEW q \in Probed PROVE AsOldAsSaid(q)'
        BY <1>1, <1>3, <2>3 DEF MovedOn, ProbesInv, AsOldAsSaid
  <2>7. ASSUME NEW d \in Callers, NEW q \in Probed PROVE StagesAgree(d, q)' /\ FreeIsFresh(d, q)'
        BY <1>1, <1>2, <1>3, <2>3, <2>4 DEF MovedOn, ProbesInv, StagesAgree, FreeIsFresh, RecentEnough
  <2> QED  BY <2>5, <2>6, <2>7 DEF ProbesInv
<1>4. CASE /\ ~RecentEnough(p, poll[c].now)
           /\ MuHeld(c, p) /\ begun' = [begun EXCEPT ![p] = clock]
           /\ poll' = [poll EXCEPT ![c].at[p] = "checks"]
  <2>1. PICK t : t = poll[c].got[p]  OBVIOUS
  <2>2. t \in Moments \cup {Nil} /\ poll \in [Callers -> PollRecord]
        BY <1>0, <2>1, ProbeFields DEF PollRecord
  <2>3. MovedOn(c, p, "checks", t)
    <3>1. poll' = [poll EXCEPT ![c].at[p] = "checks"]
          BY <1>4
    <3> QED  BY <2>1, <2>2, <3>1, AtOneProbeOnly
  <2>4. /\ probeMu' \in [Probed -> Callers \cup {Nil}] /\ begun' \in [Probed -> Moments \cup {Nil}]
        /\ probeMu'[p] = c /\ begun'[p] = clock
        /\ \A q \in Probed : q # p => probeMu'[q] = probeMu[q] /\ begun'[q] = begun[q]
        BY <1>0, <1>4 DEF MuHeld, ProbesTypeOK
  <2>5. ProbesTypeOK'
        BY <1>0, <1>1, <2>3, <2>4 DEF MovedOn, ProbesTypeOK, PollRecord
  <2>6. clock \in Nat /\ clock # Nil /\ c # Nil
        BY <1>0, ProbeFields, MomentsAreNumbers DEF ProbesTypeOK
  <2>7. Short(p) => poll[c].now = clock /\ p \notin poll[c].mid
        BY <1>1, <1>4 DEF ProbesInv, FreeIsFresh
  <2>8. ASSUME NEW q \in Probed PROVE AsOldAsSaid(q)'
    <3>1. CASE q = p
      <4>1. clock - clock <= CheckTime[p]  BY <2>6, MomentsAreNumbers
      <4> QED  BY <1>1, <2>3, <2>4, <2>6, <3>1, <4>1 DEF MovedOn, ProbesInv, AsOldAsSaid
    <3>2. CASE q # p
          BY <1>1, <2>3, <2>4, <3>2 DEF MovedOn, ProbesInv, AsOldAsSaid
    <3> QED  BY <3>1, <3>2
  <2>9. ASSUME NEW d \in Callers, NEW q \in Probed PROVE StagesAgree(d, q)' /\ FreeIsFresh(d, q)'
    <3>1. CASE d = c /\ q = p
          BY <1>1, <1>2, <2>3, <2>4, <2>6, <2>7, <3>1 DEF MovedOn, StagesAgree, FreeIsFresh
    <3>2. CASE d # c /\ q = p
      <4>1. poll[d].at[p] # "checks"
            BY <1>1, MomentsAreNumbers DEF ProbesInv, StagesAgree
      <4> QED  BY <1>1, <2>3, <2>4, <2>6, <3>2, <4>1 DEF MovedOn, ProbesInv, StagesAgree, FreeIsFresh
    <3>3. CASE q # p
          BY <1>1, <2>3, <2>4, <3>3 DEF MovedOn, ProbesInv, StagesAgree, FreeIsFresh, RecentEnough
    <3> QED  BY <3>1, <3>2, <3>3
  <2> QED  BY <2>5, <2>8, <2>9 DEF ProbesInv
<1> QED  BY <1>3, <1>4 DEF Get

\* A check ends.
LEMMA CheckedKeepsProbes ==
  ASSUME ProbesInv, NEW c \in Callers, NEW p \in Probed, Checked(c, p)
  PROVE  ProbesInv'
<1>0. ProbesTypeOK  BY DEF ProbesInv
<1>1. UNCHANGED clock /\ poll[c].at[p] = "checks"
      BY DEF Checked
<1>2. /\ poll[c].now # Nil /\ poll[c].now \in Nat /\ poll[c].now \in Moments
      /\ begun[p] # Nil /\ begun[p] \in Nat /\ poll[c].now <= begun[p] /\ probeMu[p] = c
      /\ begun[p] <= clock /\ clock - begun[p] <= CheckTime[p]
      /\ Short(p) => begun[p] = poll[c].now
  <2>1. /\ poll[c].now # Nil /\ begun[p] # Nil /\ poll[c].now <= begun[p] /\ probeMu[p] = c
        /\ begun[p] <= clock /\ clock - begun[p] <= CheckTime[p]
        /\ Short(p) => begun[p] = poll[c].now
        BY <1>1 DEF ProbesInv, StagesAgree, AsOldAsSaid
  <2> QED  BY <1>0, <2>1, ProbeFields, MomentsAreNumbers
<1>3. PICK t \in begun[p]..clock : /\ observed' = [observed EXCEPT ![p] = t]
                                   /\ poll' = [poll EXCEPT ![c].at[p] = "done", ![c].got[p] = t]
      BY DEF Checked
<1>4. t \in Moments /\ t >= begun[p] /\ t \in Nat
      BY <1>0, <1>2, <1>3, ProbesAssumption DEF ProbesTypeOK, Moments
<1>5. MovedOn(c, p, "done", t)
  <2>1. poll \in [Callers -> PollRecord]  BY <1>0, ProbeFields
  <2> QED  BY <1>3, <1>4, <2>1, AtOneProbe
<1>6. /\ checkedAt' = [checkedAt EXCEPT ![p] = poll[c].now]
      /\ probeMu' = [probeMu EXCEPT ![p] = Nil] /\ begun' = [begun EXCEPT ![p] = Nil]
      BY DEF Checked, Stamp
<1>7. /\ probeMu' \in [Probed -> Callers \cup {Nil}]
      /\ \A f \in {checkedAt', begun', observed'} : f \in [Probed -> Moments \cup {Nil}]
      /\ checkedAt'[p] = poll[c].now /\ probeMu'[p] = Nil /\ begun'[p] = Nil /\ observed'[p] = t
      /\ \A q \in Probed : q # p => /\ probeMu'[q] = probeMu[q] /\ begun'[q] = begun[q]
                                    /\ checkedAt'[q] = checkedAt[q] /\ observed'[q] = observed[q]
      BY <1>0, <1>2, <1>3, <1>4, <1>6 DEF ProbesTypeOK
<1>8. ProbesTypeOK'
      BY <1>0, <1>1, <1>5, <1>7 DEF MovedOn, ProbesTypeOK, PollRecord
<1>9. ASSUME NEW q \in Probed PROVE AsOldAsSaid(q)'
  <2>1. CASE q = p
        BY <1>2, <1>4, <1>7, <2>1 DEF AsOldAsSaid
  <2>2. CASE q # p
        BY <1>1, <1>5, <1>7, <2>2 DEF MovedOn, ProbesInv, AsOldAsSaid
  <2> QED  BY <2>1, <2>2
<1>10. ASSUME NEW d \in Callers, NEW q \in Probed PROVE StagesAgree(d, q)' /\ FreeIsFresh(d, q)'
  <2>1. CASE d = c /\ q = p
    <3>1. t > poll[c].now - ProbeTtl[p]  BY <1>2, <1>4, MomentsAreNumbers
    <3>2. poll[c].now <= clock  BY <1>2, <1>0, ProbeFields
    <3> QED  BY <1>1, <1>2, <1>5, <2>1, <3>1, <3>2 DEF MovedOn, StagesAgree, FreeIsFresh
  <2>2. CASE d # c /\ q = p
    <3>1. poll[d].at[p] # "checks"
          BY <1>2, <2>2 DEF ProbesInv, StagesAgree
    <3>2. ASSUME poll[d].at[p] = "waits", Short(p) PROVE poll[d].now - poll[c].now < ProbeTtl[p]
      <4>1. poll[d].now <= clock /\ poll[d].now \in Int /\ clock \in Int
            BY <1>0, <3>2, ProbeFields DEF ProbesInv, StagesAgree
      <4>2. clock - poll[c].now <= CheckTime[p] /\ CheckTime[p] < ProbeTtl[p]
            BY <1>2, <3>2 DEF Short
      <4> QED  BY <1>2, <4>1, <4>2, MomentsAreNumbers
    <3> QED  BY <1>1, <1>2, <1>5, <1>7, <2>2, <3>1, <3>2 DEF MovedOn, ProbesInv, StagesAgree, FreeIsFresh, RecentEnough
  <2>3. CASE q # p
        BY <1>1, <1>5, <1>7, <2>3 DEF MovedOn, ProbesInv, StagesAgree, FreeIsFresh, RecentEnough
  <2> QED  BY <2>1, <2>2, <2>3
<1> QED  BY <1>8, <1>9, <1>10 DEF ProbesInv

\* A moment passes.
LEMMA TimeKeepsProbes ==
  ASSUME ProbesInv, TimePasses
  PROVE  ProbesInv'
<1>0. ProbesTypeOK  BY DEF ProbesInv
<1>1. clock' = clock + 1 /\ clock < Ticks /\ UNCHANGED <<probeMu, checkedAt, observed, begun, poll>>
      BY DEF TimePasses
<1>2. clock' \in Moments /\ clock \in Nat
      BY <1>0, <1>1, ProbesAssumption DEF ProbesTypeOK, Moments
<1>3. ProbesTypeOK'
      BY <1>0, <1>1, <1>2 DEF ProbesTypeOK
<1>4. ASSUME NEW p \in Probed PROVE AsOldAsSaid(p)'
  <2>1. begun[p] # Nil => clock - begun[p] < CheckTime[p] /\ begun[p] <= clock
        BY DEF TimePasses, ProbesInv, AsOldAsSaid
  <2>2. begun[p] \in Int /\ CheckTime[p] \in Int  BY <1>0, ProbeFields, MomentsAreNumbers
  <2> QED  BY <1>1, <1>2, <2>1, <2>2 DEF ProbesInv, AsOldAsSaid
<1>5. ASSUME NEW c \in Callers, NEW p \in Probed PROVE StagesAgree(c, p)' /\ FreeIsFresh(c, p)'
  <2>1. poll[c].at[p] = "waits" => probeMu[p] # Nil  BY DEF TimePasses
  <2>2. poll[c].now \in Int  BY <1>0, ProbeFields
  <2> QED  BY <1>1, <1>2, <2>1, <2>2 DEF ProbesInv, StagesAgree, FreeIsFresh
<1> QED  BY <1>3, <1>4, <1>5 DEF ProbesInv

\* Every step keeps the invariant.
LEMMA ProbesInvStep == ProbesInv /\ [ProbesNext]_probeVars => ProbesInv'
<1> SUFFICES ASSUME ProbesInv, [ProbesNext]_probeVars PROVE ProbesInv'
    OBVIOUS
<1>1. CASE UNCHANGED probeVars
  <2>1. ProbesTypeOK'  BY <1>1 DEF probeVars, ProbesInv, ProbesTypeOK
  <2> QED  BY <1>1, <2>1 DEF probeVars, ProbesInv, AsOldAsSaid, StagesAgree, FreeIsFresh, RecentEnough
<1>2. CASE ProbesNext
      BY <1>2, PollKeepsProbes, GetKeepsProbes, CheckedKeepsProbes, TimeKeepsProbes DEF ProbesNext
<1> QED  BY <1>1, <1>2

\* However long checks take and whoever waits, a status is never older than
\* its TTL when it was asked for, and a short check serves all who come in
\* meanwhile (server.go handleStatus).
THEOREM ProbesHonest == ProbesSpec => []StatusHonest
<1>1. ProbesInv /\ [ProbesNext]_probeVars => ProbesInv'  BY ProbesInvStep
<1>2. ProbesInv => StatusHonest
      BY DEF ProbesInv, StatusHonest, StatusIsRecent, ShortCheckShared, StagesAgree, Short, ProbesTypeOK
<1> QED  BY <1>1, <1>2, ProbesInvInit, PTL DEF ProbesSpec

\* A status is known of a moment that has come, or not at all.
THEOREM ProbesTypes == ProbesSpec => []ProbesTypeOK
<1>1. ProbesInv => ProbesTypeOK  BY DEF ProbesInv
<1> QED  BY <1>1, ProbesInvInit, ProbesInvStep, PTL DEF ProbesSpec

-----------------------------------------------------------------------------
(* Front.                                                                  *)

ViewRecord == [at : {"new", "inspects", "reads", "joined", "lands", "scans", "shown"},
               counts : Maps, cards : Maps, alone : BOOLEAN, since : SUBSET SwarmYamls]
StartRecord == [at : {"new", "plans", "labels", "adds", "over"}, by : {"none", "manual", "webhook"},
                of : SwarmYamls \cup {"none"}, planned : Writings, run : {"none", "running", "over"},
                triggeredBy : {"none", "manual", "webhook"}, listed : BOOLEAN, hook : BOOLEAN,
                row : {"none", "manual", "webhook"}]

\* Files that are as the last save that returned left them.
Vouched == settled \ saving

CardTypes ==
    /\ yaml \in Maps /\ saving \subseteq SwarmYamls /\ settled \subseteq SwarmYamls
    /\ inspected \in [is : BOOLEAN, of : Maps]
    /\ flight \in [of : Viewers \cup {"nobody"}, saw : Maps, current : BOOLEAN]
    /\ view \in [Viewers -> ViewRecord]

\* The cache, and a read that may still fill it, know these files; a read
\* that a listing may join began after the listing did.
CacheKnows ==
    /\ inspected.is => \A f \in Vouched : inspected.of[f] = yaml[f]
    /\ flight.of # "nobody" =>
          /\ view[flight.of].at \in {"reads", "lands"}
          /\ view[flight.of].at = "lands" /\ flight.current =>
                \A f \in Vouched : flight.saw[f] = yaml[f]
Landed == flight.of # "nobody" /\ view[flight.of].at = "lands"
ViewSound(c) ==
    /\ view[c].since \subseteq Vouched
    /\ view[c].at \in {"reads", "lands"} => flight.of = c
    /\ view[c].at = "joined" => flight.of # "nobody"
    /\ view[c].alone =>
          /\ view[c].at \in {"inspects", "reads", "joined", "lands"} /\ Landed =>
                \A f \in view[c].since : flight.saw[f] = yaml[f]
          /\ view[c].at = "scans" => \A f \in view[c].since : view[c].counts[f] = yaml[f]
          /\ view[c].at = "shown" => \A f \in view[c].since : view[c].counts[f] = view[c].cards[f]

CardsInv == CardTypes /\ CacheKnows /\ \A c \in Viewers : ViewSound(c)

\* A run is listed by its handler after it has been labelled, and recorded
\* under that label.
StartSound(x) ==
    /\ x.at = "plans" => x.of \in SwarmYamls
    /\ x.run # "none" <=> x.at \in {"labels", "adds"}
    /\ x.at = "adds" => x.triggeredBy = x.by
    /\ x.listed => x.at = "adds"
    /\ x.hook => x.listed
    /\ x.row # "none" => x.at = "adds" /\ x.row = x.by
StartsInv == start \in [Starters -> StartRecord] /\ \A s \in Starters : StartSound(start[s])

\* No file has two versions to begin with, nobody looks and nothing runs.
LEMMA FrontInvInit == FrontInit => CardsInv /\ StartsInv
<1> SUFFICES ASSUME FrontInit PROVE CardsInv /\ StartsInv
    OBVIOUS
<1>1. NoYaml \in Maps /\ 0 \in Writings /\ 1 \in Writings
      BY FrontAssumption DEF NoYaml, Maps, Writings
<1>2. yaml \in Maps
      BY <1>1 DEF FrontInit, Maps
<1>3. Unviewed \in ViewRecord /\ Unviewed.at = "new" /\ Unviewed.since = {} /\ ~Unviewed.alone
      BY <1>1 DEF Unviewed, ViewRecord
<1>4. view \in [Viewers -> ViewRecord] /\ \A c \in Viewers : view[c] = Unviewed
      BY <1>3 DEF FrontInit
<1>5. inspected = Nothing /\ flight = NoFlight /\ saving = {} /\ settled = {}
      BY DEF FrontInit
<1>6. CardsInv
  <2>1. CardTypes
        BY <1>1, <1>2, <1>4, <1>5 DEF CardTypes, Nothing, NoFlight
  <2>2. CacheKnows
        BY <1>5 DEF CacheKnows, Nothing, NoFlight
  <2>3. \A c \in Viewers : ViewSound(c)
        BY <1>3, <1>4 DEF ViewSound
  <2> QED  BY <2>1, <2>2, <2>3 DEF CardsInv
<1>7. StartsInv
  <2>1. NoStart \in StartRecord /\ StartSound(NoStart)
        BY <1>1 DEF NoStart, StartRecord, StartSound
  <2>2. start = [s \in Starters |-> NoStart]  BY DEF FrontInit
  <2> QED  BY <2>1, <2>2 DEF StartsInv
<1> QED  BY <1>6, <1>7

\* A file is written: nobody vouches for it any more.
LEMMA NewVersionKeeps ==
  ASSUME CardsInv, NEW f \in SwarmYamls, NewVersion(f), saving' \in {saving, saving \cup {f}},
         UNCHANGED <<inspected, flight>>
  PROVE  CardsInv'
<1>1. /\ yaml' \in Maps /\ \A g \in SwarmYamls : g # f => yaml'[g] = yaml[g]
      /\ Vouched' = Vouched \ {f} /\ settled' \subseteq SwarmYamls
  <2>1. yaml' = [yaml EXCEPT ![f] = yaml[f] + 1] /\ yaml[f] + 1 \in Writings
        BY FrontAssumption DEF NewVersion, CardsInv, CardTypes, Maps, Writings
  <2> QED  BY <2>1 DEF NewVersion, CardsInv, CardTypes, Maps, Vouched
<1>2. ASSUME NEW c \in Viewers
      PROVE  /\ view'[c] \in ViewRecord /\ view'[c].since = view[c].since \ {f}
             /\ view'[c].at = view[c].at /\ view'[c].alone = view[c].alone
             /\ view'[c].counts = view[c].counts /\ view'[c].cards = view[c].cards
  <2>1. view'[c] = [view[c] EXCEPT !.since = view[c].since \ {f}]  BY DEF NewVersion
  <2>2. view[c] \in ViewRecord  BY DEF CardsInv, CardTypes
  <2> QED  BY <2>1, <2>2 DEF ViewRecord
<1>3. view' \in [Viewers -> ViewRecord]
  <2>1. view' = [c \in Viewers |-> view'[c]]  BY DEF NewVersion
  <2> HIDE DEF ViewRecord
  <2> QED  BY <1>2, <2>1
<1>4. CardTypes'
      BY <1>1, <1>3 DEF CardsInv, CardTypes
<1>5. Vouched \subseteq SwarmYamls
      BY DEF CardsInv, CardTypes, Vouched
<1>6. CacheKnows'
      BY <1>1, <1>2, <1>5 DEF CardsInv, CacheKnows, CardTypes
<1>7. ASSUME NEW c \in Viewers PROVE ViewSound(c)'
  <2>1. view[c].since \subseteq Vouched  BY DEF CardsInv, ViewSound
  <2>2. Landed' <=> Landed
        BY <1>2 DEF Landed, CardsInv, CardTypes
  <2>3. \A g \in view'[c].since : g \in view[c].since /\ yaml'[g] = yaml[g]
        BY <1>1, <1>2, <1>5, <2>1
  <2> QED  BY <1>1, <1>2, <2>1, <2>2, <2>3 DEF CardsInv, ViewSound
<1> QED  BY <1>4, <1>6, <1>7 DEF CardsInv

\* A save returns, and drops the cache.
LEMMA SaveReturnsKeeps ==
  ASSUME CardsInv, NEW f \in SwarmYamls, SaveReturns(f)
  PROVE  CardsInv'
<1>1. /\ saving' = saving \ {f} /\ settled' = settled \cup {f} /\ UNCHANGED <<yaml, view>>
      /\ inspected' = Nothing /\ flight' = [flight EXCEPT !.current = FALSE]
      BY DEF SaveReturns, CacheDropped
<1>2. /\ flight' \in [of : Viewers \cup {"nobody"}, saw : Maps, current : BOOLEAN]
      /\ flight'.of = flight.of /\ flight'.saw = flight.saw /\ ~flight'.current
      BY <1>1 DEF CardsInv, CardTypes
<1>3. inspected' \in [is : BOOLEAN, of : Maps] /\ ~inspected'.is
      BY <1>1, FrontAssumption DEF Nothing, NoYaml, Maps, Writings
<1>4. Vouched \subseteq Vouched'
      BY <1>1 DEF Vouched
<1>5. CardTypes'
      BY <1>1, <1>2, <1>3 DEF CardsInv, CardTypes
<1>6. CacheKnows'
      BY <1>1, <1>2, <1>3 DEF CardsInv, CacheKnows
<1>7. ASSUME NEW c \in Viewers PROVE ViewSound(c)'
      BY <1>1, <1>2, <1>4 DEF CardsInv, ViewSound, Landed
<1> QED  BY <1>5, <1>6, <1>7 DEF CardsInv

\* A listing begins.
LEMMA ListSwarmsKeeps ==
  ASSUME CardsInv, NEW c \in Viewers, ListSwarms(c)
  PROVE  CardsInv'
<1>1. /\ UNCHANGED <<yaml, saving, settled, inspected, flight>> /\ view[c].at = "new"
      /\ view[c] \in ViewRecord
      BY DEF ListSwarms, CardsInv, CardTypes
<1>2. PICK x : x = [view[c] EXCEPT !.at = "inspects", !.since = settled \ saving, !.alone = (flight.of = "nobody")]
      OBVIOUS
<1>3. x \in ViewRecord /\ x.at = "inspects" /\ x.since = Vouched /\ (x.alone => flight.of = "nobody")
  <2>1. x = [at |-> "inspects", counts |-> view[c].counts, cards |-> view[c].cards,
             alone |-> (flight.of = "nobody"), since |-> settled \ saving]
        BY <1>1, <1>2 DEF ViewRecord
  <2>2. x.at = "inspects" /\ x.since = settled \ saving /\ x.alone = (flight.of = "nobody")
        BY <2>1
  <2>3. view[c].counts \in Maps /\ view[c].cards \in Maps  BY <1>1 DEF ViewRecord
  <2>4. settled \ saving \in SUBSET SwarmYamls  BY DEF CardsInv, CardTypes
  <2>5. (flight.of = "nobody") \in BOOLEAN  OBVIOUS
  <2> QED  BY <2>1, <2>2, <2>3, <2>4, <2>5 DEF Vouched, ViewRecord
<1>4. view' = [view EXCEPT ![c] = x]
      BY <1>2 DEF ListSwarms
<1> HIDE DEF ViewRecord
<1>5. view' \in [Viewers -> ViewRecord] /\ view'[c] = x /\ \A d \in Viewers : d # c => view'[d] = view[d]
      BY <1>3, <1>4 DEF CardsInv, CardTypes
<1>6. flight.of # c
      BY <1>1, FrontAssumption DEF CardsInv, CacheKnows
<1>7. CardTypes' /\ CacheKnows'
      BY <1>1, <1>5, <1>6 DEF CardsInv, CardTypes, CacheKnows, Vouched
<1>8. ASSUME NEW d \in Viewers PROVE ViewSound(d)'
  <2>1. CASE d = c
        BY <1>1, <1>3, <1>5, <2>1 DEF ViewSound, Landed, Vouched
  <2>2. CASE d # c
        BY <1>1, <1>5, <1>6, <2>2 DEF CardsInv, ViewSound, Landed, Vouched, CardTypes
  <2> QED  BY <2>1, <2>2
<1> QED  BY <1>7, <1>8 DEF CardsInv

\* One viewer moves on.
Onward(c, x) ==
    /\ view' \in [Viewers -> ViewRecord] /\ view'[c] = x
    /\ \A d \in Viewers : d # c => view'[d] = view[d]
\* The viewer, and nobody else.
LEMMA ViewerMoves ==
  ASSUME CardTypes, NEW c \in Viewers, NEW x \in ViewRecord, view' = [view EXCEPT ![c] = x]
  PROVE  Onward(c, x)
<1> HIDE DEF ViewRecord
<1> QED  BY DEF CardTypes, Onward

\* It finds the cache full, a read it can join, or has to read itself.
LEMMA InspectedSwarmsKeeps ==
  ASSUME CardsInv, NEW c \in Viewers, InspectedSwarms(c)
  PROVE  CardsInv'
<1>1. /\ UNCHANGED <<yaml, saving, settled, inspected>> /\ view[c].at = "inspects"
      /\ view[c] \in ViewRecord /\ flight.of # c /\ c # "nobody"
      BY FrontAssumption DEF InspectedSwarms, CardsInv, CardTypes, CacheKnows
<1>2. CASE /\ inspected.is /\ UNCHANGED flight
           /\ view' = [view EXCEPT ![c].at = "scans", ![c].counts = inspected.of]
  <2>1. PICK x : x = [view[c] EXCEPT !.at = "scans", !.counts = inspected.of]
        OBVIOUS
  <2>2. x \in ViewRecord /\ x.at = "scans" /\ x.counts = inspected.of /\ x.since = view[c].since
        BY <1>1, <2>1 DEF ViewRecord, CardsInv, CardTypes
  <2>3. Onward(c, x)
    <3>1. view' = [view EXCEPT ![c] = x]  BY <1>2, <2>1
    <3> QED  BY <2>2, <3>1, ViewerMoves DEF CardsInv
  <2>4. CardTypes' /\ CacheKnows'
        BY <1>1, <1>2, <2>3 DEF CardsInv, CardTypes, CacheKnows, Vouched, Onward
  <2>5. ASSUME NEW d \in Viewers PROVE ViewSound(d)'
    <3>1. CASE d = c
          BY <1>1, <1>2, <2>2, <2>3, <3>1 DEF CardsInv, CacheKnows, ViewSound, Vouched, Onward
    <3>2. CASE d # c
          BY <1>1, <1>2, <2>3, <3>2 DEF CardsInv, ViewSound, Landed, Vouched, CardTypes, Onward
    <3> QED  BY <3>1, <3>2
  <2> QED  BY <2>4, <2>5 DEF CardsInv
<1>3. CASE /\ ~inspected.is /\ flight.of = "nobody" /\ flight' = [NoFlight EXCEPT !.of = c]
           /\ view' = [view EXCEPT ![c].at = "reads"]
  <2>1. PICK x : x = [view[c] EXCEPT !.at = "reads"]
        OBVIOUS
  <2>2. x \in ViewRecord /\ x.at = "reads" /\ x.since = view[c].since
        BY <1>1, <2>1 DEF ViewRecord
  <2>3. Onward(c, x)
    <3>1. view' = [view EXCEPT ![c] = x]  BY <1>3, <2>1
    <3> QED  BY <2>2, <3>1, ViewerMoves DEF CardsInv
  <2>4. /\ flight' \in [of : Viewers \cup {"nobody"}, saw : Maps, current : BOOLEAN]
        /\ flight'.of = c
    <3>1. flight' = [of |-> c, saw |-> NoYaml, current |-> TRUE]
          BY <1>3 DEF NoFlight
    <3>2. NoYaml \in Maps  BY FrontAssumption DEF NoYaml, Maps, Writings
    <3> QED  BY <3>1, <3>2
  <2>5. CardTypes' /\ CacheKnows'
        BY <1>1, <2>2, <2>3, <2>4 DEF CardsInv, CardTypes, CacheKnows, Vouched, Onward
  <2>6. ~Landed'
        BY <2>2, <2>3, <2>4 DEF Landed, Onward
  <2>7. ASSUME NEW d \in Viewers PROVE ViewSound(d)'
    <3>1. CASE d = c
          BY <1>1, <2>2, <2>3, <2>4, <2>6, <3>1 DEF CardsInv, ViewSound, Vouched, Onward
    <3>2. CASE d # c
      <4>1. view[d].at \notin {"reads", "lands"}
            BY <1>3, FrontAssumption DEF CardsInv, ViewSound
      <4> QED  BY <1>1, <2>3, <2>4, <2>6, <3>2, <4>1 DEF CardsInv, ViewSound, Vouched, Onward
    <3> QED  BY <3>1, <3>2
  <2> QED  BY <2>5, <2>7 DEF CardsInv
<1>4. CASE /\ ~inspected.is /\ flight.of # "nobody" /\ UNCHANGED flight
           /\ view' = [view EXCEPT ![c].at = "joined"]
  <2>1. PICK x : x = [view[c] EXCEPT !.at = "joined"]
        OBVIOUS
  <2>2. x \in ViewRecord /\ x.at = "joined" /\ x.since = view[c].since /\ x.alone = view[c].alone
        BY <1>1, <2>1 DEF ViewRecord
  <2>3. Onward(c, x)
    <3>1. view' = [view EXCEPT ![c] = x]  BY <1>4, <2>1
    <3> QED  BY <2>2, <3>1, ViewerMoves DEF CardsInv
  <2>4. CardTypes' /\ CacheKnows'
        BY <1>1, <1>4, <2>3 DEF CardsInv, CardTypes, CacheKnows, Vouched, Onward
  <2>5. ASSUME NEW d \in Viewers PROVE ViewSound(d)'
    <3>0. Landed' <=> Landed
          BY <1>1, <1>4, <2>3 DEF Landed, Onward, CardsInv, CardTypes
    <3>1. CASE d = c
          BY <1>1, <1>4, <2>2, <2>3, <3>0, <3>1 DEF CardsInv, ViewSound, Vouched, Onward
    <3>2. CASE d # c
          BY <1>1, <1>4, <2>3, <3>0, <3>2 DEF CardsInv, ViewSound, Vouched, Onward
    <3> QED  BY <3>1, <3>2
  <2> QED  BY <2>4, <2>5 DEF CardsInv
<1> QED  BY <1>2, <1>3, <1>4 DEF InspectedSwarms

\* It reads every file.
LEMMA InspectSwarmsKeeps ==
  ASSUME CardsInv, NEW c \in Viewers, InspectSwarms(c)
  PROVE  CardsInv'
<1>1. /\ UNCHANGED <<yaml, saving, settled, inspected>> /\ view[c].at = "reads"
      /\ view[c] \in ViewRecord /\ flight.of = c
      BY DEF InspectSwarms, CardsInv, CardTypes, ViewSound
<1>2. PICK x : x = [view[c] EXCEPT !.at = "lands"]
      OBVIOUS
<1>3. x \in ViewRecord /\ x.at = "lands" /\ x.since = view[c].since
      BY <1>1, <1>2 DEF ViewRecord
<1>4. Onward(c, x)
  <2>1. view' = [view EXCEPT ![c] = x]  BY <1>2 DEF InspectSwarms
  <2> QED  BY <1>3, <2>1, ViewerMoves DEF CardsInv
<1>5. /\ flight' \in [of : Viewers \cup {"nobody"}, saw : Maps, current : BOOLEAN]
      /\ flight'.of = flight.of /\ flight'.saw = yaml
  <2>1. flight' = [flight EXCEPT !.saw = yaml]  BY DEF InspectSwarms
  <2> QED  BY <2>1 DEF CardsInv, CardTypes
<1>6. CardTypes'
      BY <1>1, <1>4, <1>5 DEF CardsInv, CardTypes, Onward
<1>7. CacheKnows'
      BY <1>1, <1>3, <1>4, <1>5 DEF CardsInv, CacheKnows, Vouched, Onward
<1>8. ASSUME NEW d \in Viewers PROVE ViewSound(d)'
  <2>1. CASE d = c
        BY <1>1, <1>3, <1>4, <1>5, <2>1 DEF CardsInv, ViewSound, Vouched, Onward
  <2>2. CASE d # c
        BY <1>1, <1>4, <1>5, <2>2 DEF CardsInv, ViewSound, Vouched, Onward
  <2> QED  BY <2>1, <2>2
<1> QED  BY <1>6, <1>7, <1>8 DEF CardsInv

\* The read lands, for all who joined it.
LEMMA InspectedKeeps ==
  ASSUME CardsInv, NEW c \in Viewers, Inspected(c)
  PROVE  CardsInv'
<1>1. /\ UNCHANGED <<yaml, saving, settled>> /\ flight.of = c /\ view[c].at = "lands" /\ c # "nobody"
      /\ flight' = NoFlight /\ flight.saw \in Maps
      BY FrontAssumption DEF Inspected, CardsInv, CardTypes, ViewSound
<1>2. /\ inspected' \in [is : BOOLEAN, of : Maps]
      /\ inspected'.is => \A f \in Vouched : inspected'.of[f] = yaml[f]
  <2>1. CASE flight.current
    <3>1. inspected' = [is |-> TRUE, of |-> flight.saw]  BY <2>1 DEF Inspected, LandsCurrent
    <3>2. \A f \in Vouched : flight.saw[f] = yaml[f]  BY <1>1, <2>1 DEF CardsInv, CacheKnows
    <3> QED  BY <1>1, <3>1, <3>2
  <2>2. CASE ~flight.current
    <3>1. inspected' = inspected  BY <2>2 DEF Inspected, LandsCurrent
    <3> QED  BY <3>1 DEF CardsInv, CacheKnows, CardTypes
  <2> QED  BY <2>1, <2>2
<1>3. ASSUME NEW d \in Viewers, d = c \/ view[d].at = "joined"
      PROVE  /\ view'[d] \in ViewRecord /\ view'[d].at = "scans" /\ view'[d].counts = flight.saw
             /\ view'[d].since = view[d].since /\ view'[d].alone = view[d].alone
             /\ view[d].at \in {"lands", "joined"}
  <2>1. view'[d] = [view[d] EXCEPT !.at = "scans", !.counts = flight.saw]  BY <1>3 DEF Inspected
  <2>2. view[d] \in ViewRecord  BY DEF CardsInv, CardTypes
  <2> QED  BY <1>1, <1>3, <2>1, <2>2 DEF ViewRecord
<1>4. ASSUME NEW d \in Viewers, ~(d = c \/ view[d].at = "joined") PROVE view'[d] = view[d]
      BY <1>4 DEF Inspected
<1>5. view' \in [Viewers -> ViewRecord]
  <2>1. view' = [d \in Viewers |-> view'[d]]  BY DEF Inspected
  <2>2. \A d \in Viewers : view'[d] \in ViewRecord
    <3> HIDE DEF ViewRecord
    <3> QED  BY <1>3, <1>4 DEF CardsInv, CardTypes
  <2> HIDE DEF ViewRecord
  <2> QED  BY <2>1, <2>2
<1>6. NoFlight \in [of : Viewers \cup {"nobody"}, saw : Maps, current : BOOLEAN] /\ NoFlight.of = "nobody"
      BY FrontAssumption DEF NoFlight, NoYaml, Maps, Writings
<1>7. CardTypes'
      BY <1>1, <1>2, <1>5, <1>6 DEF CardsInv, CardTypes
<1>8. CacheKnows' /\ ~Landed'
      BY <1>1, <1>2, <1>6 DEF CacheKnows, Vouched, Landed
<1>9. ASSUME NEW d \in Viewers PROVE ViewSound(d)'
  <2>1. CASE d = c \/ view[d].at = "joined"
    <3>1. view[d].alone => \A f \in view[d].since : flight.saw[f] = yaml[f]
          BY <1>1, <1>3, <2>1 DEF CardsInv, ViewSound, Landed
    <3> QED  BY <1>1, <1>3, <2>1, <3>1 DEF CardsInv, ViewSound, Vouched
  <2>2. CASE ~(d = c \/ view[d].at = "joined")
    <3>1. view[d].at \notin {"reads", "lands"}  BY <1>1, <2>2 DEF CardsInv, ViewSound
    <3> QED  BY <1>1, <1>4, <1>8, <2>2, <3>1 DEF CardsInv, ViewSound, Vouched
  <2> QED  BY <2>1, <2>2
<1> QED  BY <1>7, <1>8, <1>9 DEF CardsInv

\* The page is put together from the files there are.
LEMMA ScanKeeps ==
  ASSUME CardsInv, NEW c \in Viewers, Scan(c)
  PROVE  CardsInv'
<1>1. /\ UNCHANGED <<yaml, saving, settled, inspected, flight>> /\ view[c].at = "scans"
      /\ view[c] \in ViewRecord /\ flight.of # c /\ yaml \in Maps
      BY FrontAssumption DEF Scan, CardsInv, CardTypes, CacheKnows
<1>2. PICK x : x = [view[c] EXCEPT !.at = "shown", !.cards = yaml]
      OBVIOUS
<1>3. /\ x \in ViewRecord /\ x.at = "shown" /\ x.since = view[c].since /\ x.alone = view[c].alone
      /\ x.counts = view[c].counts /\ x.cards = yaml
      BY <1>1, <1>2 DEF ViewRecord
<1>4. Onward(c, x)
  <2>1. view' = [view EXCEPT ![c] = x]  BY <1>2 DEF Scan
  <2> QED  BY <1>3, <2>1, ViewerMoves DEF CardsInv
<1>5. CardTypes' /\ CacheKnows' /\ (Landed' <=> Landed)
      BY <1>1, <1>4 DEF CardsInv, CardTypes, CacheKnows, Vouched, Onward, Landed
<1>6. ASSUME NEW d \in Viewers PROVE ViewSound(d)'
  <2>1. CASE d = c
        BY <1>1, <1>3, <1>4, <2>1 DEF CardsInv, ViewSound, Vouched, Onward
  <2>2. CASE d # c
        BY <1>1, <1>4, <1>5, <2>2 DEF CardsInv, ViewSound, Vouched, Onward
  <2> QED  BY <2>1, <2>2
<1> QED  BY <1>5, <1>6 DEF CardsInv

\* Starting runs keeps the cards, and the other way round.
LEMMA CardsStep ==
  ASSUME CardsInv, [FrontNext]_frontVars
  PROVE  CardsInv'
<1>1. CASE UNCHANGED <<yaml, saving, settled, inspected, flight, view>>
      BY <1>1 DEF CardsInv, CardTypes, CacheKnows, ViewSound, Vouched, Landed
<1>2. CASE YamlNext
  <2>1. PICK f \in SwarmYamls : SaveYaml(f) \/ SaveReturns(f) \/ WriteByHand(f)
        BY <1>2 DEF YamlNext
  <2>2. CASE SaveYaml(f) \/ WriteByHand(f)
        BY <2>2, NewVersionKeeps DEF SaveYaml, WriteByHand
  <2> QED  BY <2>1, <2>2, SaveReturnsKeeps
<1>3. CASE TtlPasses
  <2>1. UNCHANGED <<yaml, saving, settled, flight, view>> /\ inspected' = Nothing
        BY <1>3 DEF TtlPasses
  <2>2. inspected' \in [is : BOOLEAN, of : Maps] /\ ~inspected'.is
        BY <2>1, FrontAssumption DEF Nothing, NoYaml, Maps, Writings
  <2> QED  BY <2>1, <2>2 DEF CardsInv, CardTypes, CacheKnows, ViewSound, Vouched, Landed
<1>4. CASE \E c \in Viewers : ListSwarms(c) \/ InspectedSwarms(c) \/ InspectSwarms(c) \/ Inspected(c) \/ Scan(c)
      BY <1>4, ListSwarmsKeeps, InspectedSwarmsKeeps, InspectSwarmsKeeps, InspectedKeeps, ScanKeeps
<1>5. CASE \E s \in Starters : AskStart(s) \/ StartRefused(s) \/ Execute(s) \/ Label(s)
                               \/ Add(s) \/ OnTerminal(s) \/ RunEnds(s)
  <2>1. UNCHANGED <<yaml, saving, settled, inspected, flight, view>>
        BY <1>5 DEF AskStart, StartRefused, Execute, Label, Add, OnTerminal, RunEnds
  <2> QED  BY <1>1, <2>1
<1>6. CASE UNCHANGED frontVars
      BY <1>1, <1>6 DEF frontVars
<1> QED  BY <1>2, <1>3, <1>4, <1>5, <1>6 DEF FrontNext, CardsNext, StartsNext

\* A run is started, labelled, listed and recorded.
LEMMA StartsStep ==
  ASSUME CardTypes, StartsInv, [FrontNext]_frontVars
  PROVE  StartsInv'
<1>1. CASE UNCHANGED start
      BY <1>1 DEF StartsInv
<1>2. ASSUME NEW s \in Starters, NEW x \in StartRecord, StartSound(x), start' = [start EXCEPT ![s] = x]
      PROVE  StartsInv'
  <2>1. \A q \in Starters : start'[q] = IF q = s THEN x ELSE start[q]
        BY <1>2 DEF StartsInv
  <2> HIDE DEF StartRecord, StartSound
  <2> QED  BY <1>2, <2>1 DEF StartsInv
<1>3. ASSUME NEW s \in Starters, AskStart(s) PROVE StartsInv'
  <2>1. PICK f \in SwarmYamls :
          \/ start' = [start EXCEPT ![s].at = "plans", ![s].by = "manual", ![s].of = f]
          \/ start' = [start EXCEPT ![s].at = "plans", ![s].by = "webhook", ![s].of = f]
          \/ start' = [start EXCEPT ![s].at = "over", ![s].by = "webhook"]
        BY <1>3 DEF AskStart
  <2>2. start[s] \in StartRecord /\ StartSound(start[s]) /\ start[s].at = "new"
        BY <1>3 DEF StartsInv, AskStart
  <2>3. CASE start' = [start EXCEPT ![s].at = "plans", ![s].by = "manual", ![s].of = f]
    <3>1. PICK x : x = [start[s] EXCEPT !.at = "plans", !.by = "manual", !.of = f]
          OBVIOUS
    <3>2. x \in StartRecord /\ StartSound(x)
          BY <2>2, <3>1 DEF StartRecord, StartSound
    <3>3. start' = [start EXCEPT ![s] = x]  BY <2>3, <3>1
    <3> QED  BY <1>2, <3>2, <3>3
  <2>4. CASE start' = [start EXCEPT ![s].at = "plans", ![s].by = "webhook", ![s].of = f]
    <3>1. PICK x : x = [start[s] EXCEPT !.at = "plans", !.by = "webhook", !.of = f]
          OBVIOUS
    <3>2. x \in StartRecord /\ StartSound(x)
          BY <2>2, <3>1 DEF StartRecord, StartSound
    <3>3. start' = [start EXCEPT ![s] = x]  BY <2>4, <3>1
    <3> QED  BY <1>2, <3>2, <3>3
  <2>5. CASE start' = [start EXCEPT ![s].at = "over", ![s].by = "webhook"]
    <3>1. PICK x : x = [start[s] EXCEPT !.at = "over", !.by = "webhook"]
          OBVIOUS
    <3>2. x \in StartRecord /\ StartSound(x)
          BY <2>2, <3>1 DEF StartRecord, StartSound
    <3>3. start' = [start EXCEPT ![s] = x]  BY <2>5, <3>1
    <3> QED  BY <1>2, <3>2, <3>3
  <2> QED  BY <2>1, <2>3, <2>4, <2>5
<1>4. ASSUME NEW s \in Starters, StartRefused(s) \/ Execute(s) PROVE StartsInv'
  <2>1. start[s] \in StartRecord /\ StartSound(start[s]) /\ start[s].at = "plans"
        BY <1>4 DEF StartsInv, StartRefused, Execute
  <2>2. CASE StartRefused(s)
    <3>1. PICK x : x = [start[s] EXCEPT !.at = "over"]
          OBVIOUS
    <3>2. x \in StartRecord /\ StartSound(x)
          BY <2>1, <3>1 DEF StartRecord, StartSound
    <3>3. start' = [start EXCEPT ![s] = x]  BY <2>2, <3>1 DEF StartRefused
    <3> QED  BY <1>2, <3>2, <3>3
  <2>3. CASE Execute(s)
    <3>0. yaml[start[s].of] \in Writings
      <4>1. start[s].of \in SwarmYamls  BY <2>1 DEF StartSound
      <4> QED  BY <4>1 DEF CardTypes, Maps
    <3>1. PICK x : x = [start[s] EXCEPT !.at = "labels", !.planned = yaml[start[s].of], !.run = "running"]
          OBVIOUS
    <3>2. x \in StartRecord /\ StartSound(x)
          BY <2>1, <3>0, <3>1 DEF StartRecord, StartSound
    <3>3. start' = [start EXCEPT ![s] = x]  BY <2>3, <3>1 DEF Execute
    <3> QED  BY <1>2, <3>2, <3>3
  <2> QED  BY <1>4, <2>2, <2>3
<1>5. ASSUME NEW s \in Starters, Label(s) \/ Add(s) PROVE StartsInv'
  <2>1. start[s] \in StartRecord /\ StartSound(start[s])
        BY DEF StartsInv
  <2>2. CASE Label(s)
    <3>1. PICK x : x = [start[s] EXCEPT !.at = "adds", !.triggeredBy = start[s].by]
          OBVIOUS
    <3>2. start[s].at = "labels"  BY <2>2 DEF Label
    <3>3. x \in StartRecord /\ StartSound(x)
          BY <2>1, <3>1, <3>2 DEF StartRecord, StartSound
    <3>4. start' = [start EXCEPT ![s] = x]  BY <2>2, <3>1 DEF Label
    <3> QED  BY <1>2, <3>3, <3>4
  <2>3. CASE Add(s)
    <3>1. PICK x : x = [start[s] EXCEPT !.listed = TRUE]
          OBVIOUS
    <3>2. start[s].at = "adds"  BY <2>3 DEF Add, AddAfter
    <3>3. x \in StartRecord /\ StartSound(x)
          BY <2>1, <3>1, <3>2 DEF StartRecord, StartSound
    <3>4. start' = [start EXCEPT ![s] = x]  BY <2>3, <3>1 DEF Add
    <3> QED  BY <1>2, <3>3, <3>4
  <2> QED  BY <1>5, <2>2, <2>3
<1>6. ASSUME NEW s \in Starters, OnTerminal(s) \/ RunEnds(s) PROVE StartsInv'
  <2>1. start[s] \in StartRecord /\ StartSound(start[s])
        BY DEF StartsInv
  <2>2. CASE OnTerminal(s)
    <3>1. PICK row : row = IF start[s].run = "over" THEN start[s].triggeredBy ELSE start[s].row
          OBVIOUS
    <3>2. PICK x : x = [start[s] EXCEPT !.hook = TRUE, !.row = row]
          OBVIOUS
    <3>3. start[s].listed  BY <2>2 DEF OnTerminal
    <3>4. row \in {"none", "manual", "webhook"} /\ (row # "none" => row = start[s].by)
          BY <2>1, <3>1, <3>3 DEF StartRecord, StartSound
    <3>5. x \in StartRecord /\ StartSound(x)
          BY <2>1, <3>2, <3>3, <3>4 DEF StartRecord, StartSound
    <3>6. start' = [start EXCEPT ![s] = x]  BY <2>2, <3>1, <3>2 DEF OnTerminal
    <3> QED  BY <1>2, <3>5, <3>6
  <2>3. CASE RunEnds(s)
    <3>1. PICK row : row = IF start[s].hook THEN start[s].triggeredBy ELSE start[s].row
          OBVIOUS
    <3>2. PICK x : x = [start[s] EXCEPT !.run = "over", !.row = row]
          OBVIOUS
    <3>3. start[s].run = "running"  BY <2>3 DEF RunEnds
    <3>4. /\ row \in {"none", "manual", "webhook"}
          /\ row # "none" => row = start[s].by /\ start[s].at = "adds"
          BY <2>1, <3>1 DEF StartRecord, StartSound
    <3>5. x \in StartRecord /\ StartSound(x)
          BY <2>1, <3>2, <3>3, <3>4 DEF StartRecord, StartSound
    <3>6. start' = [start EXCEPT ![s] = x]  BY <2>3, <3>1, <3>2 DEF RunEnds
    <3> QED  BY <1>2, <3>5, <3>6
  <2> QED  BY <1>6, <2>2, <2>3
<1>7. CASE CardsNext \/ YamlNext \/ UNCHANGED frontVars
  <2>1. UNCHANGED start
        BY <1>7 DEF CardsNext, YamlNext, frontVars, SaveYaml, SaveReturns, WriteByHand, TtlPasses,
           ListSwarms, InspectedSwarms, InspectSwarms, Inspected, Scan
  <2> QED  BY <1>1, <2>1
<1> QED  BY <1>3, <1>4, <1>5, <1>6, <1>7 DEF FrontNext, StartsNext

\* Every step keeps the invariant.
LEMMA FrontInvStep == CardsInv /\ StartsInv /\ [FrontNext]_frontVars => (CardsInv /\ StartsInv)'
BY CardsStep, StartsStep DEF CardsInv

\* Whatever is read and written side by side, a listing that begins after a
\* save returned and joins no older read shows that save's counts, and a run
\* says who started it (swarms.go, webhooks.go).
THEOREM FrontHonest == FrontSpec => []PageHonest
<1>1. CardsInv /\ StartsInv /\ [FrontNext]_frontVars => (CardsInv /\ StartsInv)'  BY FrontInvStep
<1>2. CardsInv /\ StartsInv => PageHonest
  <2> SUFFICES ASSUME CardsInv, StartsInv PROVE PageHonest
      OBVIOUS
  <2>1. NextListIsRight  BY DEF CardsInv, ViewSound, NextListIsRight
  <2>2. WhoStartedIt  BY DEF StartsInv, StartSound, WhoStartedIt
  <2> QED  BY <2>1, <2>2 DEF PageHonest
<1> QED  BY <1>1, <1>2, FrontInvInit, PTL DEF FrontSpec

\* No version of a file is counted, shown or run that was never written.
THEOREM FrontTypes == FrontSpec => []FrontTypeOK
<1>1. CardsInv /\ StartsInv => FrontTypeOK
  <2> SUFFICES ASSUME CardsInv, StartsInv PROVE FrontTypeOK
      OBVIOUS
  <2>1. flight.saw \in Maps /\ flight.of \in Viewers \cup {"nobody"}
        BY DEF CardsInv, CardTypes
  <2>2. \A s \in Starters :
          /\ start[s].at \in {"new", "plans", "labels", "adds", "over"}
          /\ start[s].planned \in Writings /\ start[s].row \in {"none", "manual", "webhook"}
        BY DEF StartsInv, StartRecord
  <2> QED  BY <2>1, <2>2 DEF FrontTypeOK, CardsInv, CardTypes, ViewRecord
<1> QED  BY <1>1, FrontInvInit, FrontInvStep, PTL DEF FrontSpec

-----------------------------------------------------------------------------
(* Lab.                                                                    *)

Said == [who : {"human", "lab"}, of : Messages]
Stations == {"new", "logged", "routing", "composing", "preparing", "adding", "working",
             "answered", "over", "gone"}
TalkRecord ==
    [at : Stations, seen : Seq(Said), role : Staff \cup {"none"}, with : Engines \cup {NoEngine},
     offer : BOOLEAN, sent : Nat, text : Nat,
     end : {"none", "no model", "undecided", "chat", "no engine", "composed", "problem", "reported"},
     bare : Nat]
Prefs == [def : Engines \cup {NoEngine}, roles : [Staff -> Engines \cup {NoEngine}]]

\* What a message's goroutine has seen and heard, by where it is: it decides
\* about the turn it appended itself, and all an agent says is taken before
\* the agent's end.
TalkSound(m) ==
    /\ talk[m].at = "routing" =>
          talk[m].seen # <<>> /\ talk[m].seen[Len(talk[m].seen)] = [who |-> "human", of |-> m]
    /\ talk[m].at = "working" => talk[m].sent = talk[m].text + (IF talk[m].offer THEN 1 ELSE 0)
    /\ talk[m].at \in {"new", "logged", "routing", "composing", "preparing", "adding"} =>
          talk[m].sent = 0 /\ talk[m].text = 0 /\ ~talk[m].offer
    /\ talk[m].end = "reported" => talk[m].at \in {"answered", "over"} /\ talk[m].text = talk[m].sent

TalkInv ==
    /\ said \in Seq(Said) /\ talk \in [Messages -> TalkRecord]
    /\ \A m \in Messages : TalkSound(m)

\* There is no engine in force only when there is no key for any.
EngineInv ==
    /\ keys \subseteq AllKeys /\ engine \in Prefs
    /\ saved \in {Unchosen, Torn} \cup {[is |-> "whole", pref |-> p] : p \in Prefs}
    /\ saved # Torn => engine = PrefsFrom(saved, keys)
    /\ engine.def = NoEngine => Fallback(keys) = NoEngine

\* What a file makes the preferences.
LEMMA PrefsOfFile ==
  ASSUME NEW old \in {Unchosen, Torn} \cup {[is |-> "whole", pref |-> p] : p \in Prefs}, NEW k
  PROVE  /\ PrefsFrom(old, k) \in Prefs
         /\ PrefsFrom(old, k).def = NoEngine => Fallback(k) = NoEngine
<1>1. Fallback(k) \in Engines \cup {NoEngine}
      BY DEF Fallback, Engines
<1>2. CASE old \in {Unchosen, Torn}
  <2>1. old.is # "whole"  BY <1>2 DEF Unchosen, Torn
  <2>2. PrefsFrom(old, k) = [def |-> Fallback(k), roles |-> NoOverrides]
        BY <2>1 DEF PrefsFrom
  <2>3. NoOverrides \in [Staff -> Engines \cup {NoEngine}]
        BY DEF NoOverrides
  <2> QED  BY <1>1, <2>2, <2>3 DEF Prefs
<1>3. CASE \E p \in Prefs : old = [is |-> "whole", pref |-> p]
  <2>1. PICK p \in Prefs : old = [is |-> "whole", pref |-> p]  BY <1>3
  <2>2. PrefsFrom(old, k) = [def |-> IF p.def = NoEngine THEN Fallback(k) ELSE p.def, roles |-> p.roles]
        BY <2>1 DEF PrefsFrom
  <2> QED  BY <1>1, <2>2 DEF Prefs
<1> QED  BY <1>2, <1>3

\* Preferences that name an engine are read back as they were written.
LEMMA ReadBack ==
  ASSUME NEW p \in Prefs, NEW k, p.def = NoEngine => Fallback(k) = NoEngine
  PROVE  PrefsFrom([is |-> "whole", pref |-> p], k) = p
<1>1. PrefsFrom([is |-> "whole", pref |-> p], k)
        = [def |-> IF p.def = NoEngine THEN Fallback(k) ELSE p.def, roles |-> p.roles]
      BY DEF PrefsFrom
<1>2. (IF p.def = NoEngine THEN Fallback(k) ELSE p.def) = p.def
      OBVIOUS
<1>3. p = [def |-> p.def, roles |-> p.roles]
      BY DEF Prefs
<1> QED  BY <1>1, <1>2, <1>3

\* Nothing has been said and nobody has chosen.
LEMMA LabInvInit == LabInit => TalkInv /\ EngineInv
<1> SUFFICES ASSUME LabInit PROVE TalkInv /\ EngineInv
    OBVIOUS
<1>1. TalkInv
  <2>1. Unsaid \in TalkRecord  BY EmptySeq DEF Unsaid, TalkRecord, Stations
  <2>2. talk \in [Messages -> TalkRecord] /\ \A m \in Messages : talk[m] = Unsaid
        BY <2>1 DEF LabInit
  <2>3. \A m \in Messages : TalkSound(m)
        BY <2>2 DEF TalkSound, Unsaid
  <2>4. said \in Seq(Said)  BY EmptySeq DEF LabInit
  <2> QED  BY <2>2, <2>3, <2>4 DEF TalkInv
<1>2. EngineInv
      BY PrefsOfFile DEF LabInit, EngineInv
<1> QED  BY <1>1, <1>2

\* A message's goroutine moves on, and the others do not.
LEMMA OneTalks ==
  ASSUME TalkInv, NEW m \in Messages, NEW x \in TalkRecord, talk' = [talk EXCEPT ![m] = x],
         said' \in Seq(Said),
         x.at # "routing",
         x.at = "working" => x.sent = x.text + (IF x.offer THEN 1 ELSE 0),
         x.at \in {"new", "logged", "composing", "preparing", "adding"} =>
            x.sent = 0 /\ x.text = 0 /\ ~x.offer,
         x.end = "reported" => x.at \in {"answered", "over"} /\ x.text = x.sent
  PROVE  TalkInv'
<1> HIDE DEF TalkRecord
<1>1. talk' \in [Messages -> TalkRecord] /\ talk'[m] = x /\ \A n \in Messages : n # m => talk'[n] = talk[n]
      BY DEF TalkInv
<1>2. ASSUME NEW n \in Messages PROVE TalkSound(n)'
  <2>1. CASE n = m
        BY <1>1, <2>1 DEF TalkSound
  <2>2. CASE n # m
        BY <1>1, <2>2 DEF TalkInv, TalkSound
  <2> QED  BY <2>1, <2>2
<1> QED  BY <1>1, <1>2 DEF TalkInv

\* An answer counted once more is a count.
LEMMA CountedOn ==
  ASSUME NEW x \in TalkRecord
  PROVE  \E k \in Nat : k = x.bare + 1
<1>1. x.bare \in Nat  BY DEF TalkRecord
<1> HIDE DEF TalkRecord
<1> QED  BY <1>1

\* A message answers from a place where nothing has been delegated, or an
\* agent has ended with its words taken.
LEMMA ReplyKeeps ==
  ASSUME TalkInv, NEW m \in Messages, UNCHANGED said,
         NEW how \in {"no model", "undecided", "chat", "no engine", "composed", "problem", "reported"},
         how = "reported" => talk[m].text = talk[m].sent, Answer(m, how)
  PROVE  TalkInv'
<1>1. talk[m] \in TalkRecord  BY DEF TalkInv
<1>2. PICK k \in Nat : k = talk[m].bare + 1
      BY <1>1, CountedOn
<1>6. PICK x : x = [talk[m] EXCEPT !.at = "answered", !.end = how, !.bare = k]
      OBVIOUS
<1>3. talk' = [talk EXCEPT ![m] = x]
      BY <1>2, <1>6 DEF Answer
<1>4. /\ x \in TalkRecord /\ x.at = "answered" /\ x.end = how
      /\ x.text = talk[m].text /\ x.sent = talk[m].sent
      BY <1>1, <1>6 DEF TalkRecord, Stations
<1>5. said' \in Seq(Said)  BY DEF TalkInv
<1> HIDE DEF TalkRecord
<1> QED  BY <1>3, <1>4, <1>5, OneTalks

\* A message goes somewhere else and takes nothing with it.
LEMMA MoveKeeps ==
  ASSUME TalkInv, NEW m \in Messages, NEW at \in Stations \ {"routing"}, said' \in Seq(Said), Moves(m, at),
         \/ talk[m].at \in {"new", "logged", "routing", "composing", "preparing", "adding"}
         \/ at = "over" /\ talk[m].at = "answered",
         at \in {"over", "answered"} \/ talk[m].end # "reported"
  PROVE  TalkInv'
<1>1. talk[m] \in TalkRecord /\ TalkSound(m)  BY DEF TalkInv
<1>2. PICK x : x = [talk[m] EXCEPT !.at = at]
      OBVIOUS
<1>3. talk' = [talk EXCEPT ![m] = x]
      BY <1>2 DEF Moves
<1>4. /\ x \in TalkRecord /\ x.at = at /\ x.end = talk[m].end /\ x.offer = talk[m].offer
      /\ x.text = talk[m].text /\ x.sent = talk[m].sent
      BY <1>1, <1>2 DEF TalkRecord
<1>5. talk[m].at \in {"new", "logged", "routing", "composing", "preparing", "adding"} =>
         talk[m].sent = 0 /\ talk[m].text = 0 /\ ~talk[m].offer
      BY <1>1 DEF TalkSound
<1>6. x.end = "reported" => x.at \in {"answered", "over"} /\ x.text = x.sent
      BY <1>1, <1>4 DEF TalkSound
<1>7. x.at = "working" => x.sent = x.text + (IF x.offer THEN 1 ELSE 0)
      BY <1>4, <1>5
<1>8. x.at \in {"new", "logged", "composing", "preparing", "adding"} => x.sent = 0 /\ x.text = 0 /\ ~x.offer
      BY <1>4, <1>5
<1> HIDE DEF TalkRecord
<1> QED  BY <1>3, <1>4, <1>6, <1>7, <1>8, OneTalks

\* Only a message whose agent has ended has reported.
LEMMA NotReported ==
  ASSUME TalkInv, NEW m \in Messages, talk[m].at \notin {"answered", "over"}
  PROVE  talk[m].end # "reported"
BY DEF TalkInv, TalkSound

\* A message comes in, and is heard.
LEMMA HearKeeps ==
  ASSUME TalkInv, NEW m \in Messages, PostMessage(m) \/ Hear(m)
  PROVE  TalkInv'
<1>1. CASE PostMessage(m)
  <2>1. talk[m].at = "new" /\ Moves(m, "logged") /\ said' \in Seq(Said) /\ "logged" \in Stations \ {"routing"}
        BY <1>1 DEF PostMessage, TalkInv, Stations
  <2>2. talk[m].end # "reported"  BY <2>1, NotReported
  <2> QED  BY <2>1, <2>2, MoveKeeps
<1>2. CASE Hear(m)
  <2>1. talk[m].at = "logged" /\ said' = Append(said, [who |-> "human", of |-> m])
        BY <1>2 DEF Hear
  <2>2. PICK x : x = [talk[m] EXCEPT !.at = "routing", !.seen = said']
        OBVIOUS
  <2>3. talk' = [talk EXCEPT ![m] = x]
        BY <1>2, <2>2 DEF Hear, Seen
  <2>4. /\ said' \in Seq(Said) /\ said' # <<>>
        /\ said'[Len(said')] = [who |-> "human", of |-> m]
    <3>1. said \in Seq(Said) /\ [who |-> "human", of |-> m] \in Said
          BY DEF TalkInv, Said
    <3> QED  BY <2>1, <3>1, AppendProperties
  <2>5. talk[m] \in TalkRecord  BY DEF TalkInv
  <2>6. /\ x \in TalkRecord /\ x.at = "routing" /\ x.seen = said' /\ x.end = talk[m].end
        /\ x.sent = talk[m].sent /\ x.text = talk[m].text /\ x.offer = talk[m].offer
        BY <2>2, <2>4, <2>5 DEF TalkRecord, Stations
  <2>7. x.sent = 0 /\ x.text = 0 /\ ~x.offer /\ x.end # "reported"
        BY <2>1, <2>6, NotReported DEF TalkInv, TalkSound
  <2> HIDE DEF TalkRecord
  <2>8. talk' \in [Messages -> TalkRecord] /\ talk'[m] = x /\ \A n \in Messages : n # m => talk'[n] = talk[n]
        BY <2>3, <2>6 DEF TalkInv
  <2>9. ASSUME NEW n \in Messages PROVE TalkSound(n)'
    <3>1. CASE n = m
          BY <2>4, <2>6, <2>7, <2>8, <3>1 DEF TalkSound
    <3>2. CASE n # m
          BY <2>8, <3>2 DEF TalkInv, TalkSound
    <3> QED  BY <3>1, <3>2
  <2> QED  BY <2>4, <2>8, <2>9 DEF TalkInv
<1> QED  BY <1>1, <1>2

\* It is routed.
LEMMA RouteKeeps ==
  ASSUME TalkInv, EngineInv, NEW m \in Messages, Route(m) \/ Composed(m)
  PROVE  TalkInv'
<1>1. UNCHANGED said /\ talk[m].at \in {"routing", "composing"}
      BY DEF Route, Composed
<1>2. CASE \E how \in {"no model", "undecided", "chat", "no engine", "composed"} : Answer(m, how)
  <2>1. PICK how \in {"no model", "undecided", "chat", "no engine", "composed"} : Answer(m, how)
        BY <1>2
  <2> QED  BY <1>1, <2>1, ReplyKeeps
<1>3. CASE Moves(m, "composing")
  <2>1. "composing" \in Stations \ {"routing"} /\ said' \in Seq(Said)
        BY <1>1 DEF Stations, TalkInv
  <2>2. talk[m].end # "reported"  BY <1>1, NotReported
  <2> QED  BY <1>1, <1>3, <2>1, <2>2, MoveKeeps
<1>4. CASE \E r \in Staff :
             talk' = [talk EXCEPT ![m].at = "preparing", ![m].role = r, ![m].with = EngineFor(r)]
  <2>1. PICK r \in Staff :
           talk' = [talk EXCEPT ![m].at = "preparing", ![m].role = r, ![m].with = EngineFor(r)]
        BY <1>4
  <2>2. PICK e : e = EngineFor(r)
        OBVIOUS
  <2>3. e \in Engines \cup {NoEngine}
        BY <2>2 DEF EngineFor, EngineInv, Prefs
  <2>4. PICK x : x = [talk[m] EXCEPT !.at = "preparing", !.role = r, !.with = e]
        OBVIOUS
  <2>5. talk' = [talk EXCEPT ![m] = x]
        BY <2>1, <2>2, <2>4
  <2>6. talk[m] \in TalkRecord  BY DEF TalkInv
  <2>7. /\ x \in TalkRecord /\ x.at = "preparing" /\ x.end = talk[m].end
        /\ x.sent = talk[m].sent /\ x.text = talk[m].text /\ x.offer = talk[m].offer
        BY <2>3, <2>4, <2>6 DEF TalkRecord, Stations
  <2>8. x.sent = 0 /\ x.text = 0 /\ ~x.offer /\ x.end # "reported"
        BY <1>1, <2>7, NotReported DEF TalkInv, TalkSound
  <2>9. said' \in Seq(Said)  BY <1>1 DEF TalkInv
  <2> HIDE DEF TalkRecord
  <2> QED  BY <2>5, <2>7, <2>8, <2>9, OneTalks
<1> QED  BY <1>2, <1>3, <1>4 DEF Route, Composed

\* A delegation is prepared.
LEMMA PrepareAgentKeeps ==
  ASSUME TalkInv, NEW m \in Messages, PrepareWork(m) \/ AddWorktree(m) \/ Remember(m)
  PROVE  TalkInv'
<1>1. CASE Remember(m)
  <2>1. /\ talk[m].at = "answered" /\ said' = Append(said, [who |-> "lab", of |-> m]) /\ Moves(m, "over")
        /\ "over" \in Stations \ {"routing"}
        BY <1>1 DEF Remember, Stations
  <2>2. said \in Seq(Said) /\ [who |-> "lab", of |-> m] \in Said  BY DEF TalkInv, Said
  <2>3. said' \in Seq(Said)  BY <2>1, <2>2, AppendProperties
  <2> QED  BY <2>1, <2>3, MoveKeeps
<1>2. CASE PrepareWork(m) \/ AddWorktree(m)
  <2>1. talk[m].at \in {"preparing", "adding"} /\ UNCHANGED said /\ said' \in Seq(Said)
        BY <1>2 DEF PrepareWork, AddWorktree, TalkInv
  <2>2. Answer(m, "problem") \/ Moves(m, "adding") \/ Moves(m, "working")
        BY <1>2 DEF PrepareWork, AddWorktree
  <2>3. talk[m].end # "reported"  BY <2>1, NotReported
  <2>4. {"adding", "working"} \subseteq Stations \ {"routing"}  BY DEF Stations
  <2>5. CASE Answer(m, "problem")  BY <2>1, <2>5, ReplyKeeps
  <2>6. CASE Moves(m, "adding")  BY <2>1, <2>3, <2>4, <2>6, MoveKeeps
  <2>7. CASE Moves(m, "working")  BY <2>1, <2>3, <2>4, <2>7, MoveKeeps
  <2> QED  BY <2>2, <2>5, <2>6, <2>7
<1> QED  BY <1>1, <1>2

\* An agent talks, is heard, and ends when it is not waiting to be.
LEMMA AgentTalks ==
  ASSUME TalkInv, NEW m \in Messages, Offer(m) \/ Take(m) \/ Finish(m)
  PROVE  TalkInv'
<1>1. /\ talk[m] \in TalkRecord /\ talk[m].at = "working" /\ talk[m].end # "reported"
      /\ UNCHANGED said /\ said' \in Seq(Said)
      /\ talk[m].sent = talk[m].text + (IF talk[m].offer THEN 1 ELSE 0)
      /\ talk[m].sent \in Nat /\ talk[m].text \in Nat
  <2>1. talk[m] \in TalkRecord /\ talk[m].at = "working" /\ UNCHANGED said /\ TalkSound(m)
        BY DEF Offer, Take, Finish, TalkInv
  <2> QED  BY <2>1 DEF TalkInv, TalkSound, TalkRecord
<1>2. CASE Offer(m)
  <2>k. PICK k \in Nat : k = talk[m].sent + 1
        BY <1>1
  <2>1. PICK x : x = [talk[m] EXCEPT !.offer = TRUE, !.sent = k]
        OBVIOUS
  <2>2. talk' = [talk EXCEPT ![m] = x] /\ ~talk[m].offer
        BY <1>2, <2>k, <2>1 DEF Offer
  <2>3. /\ x \in TalkRecord /\ x.at = "working" /\ x.end = talk[m].end /\ x.offer
        /\ x.sent = k /\ x.text = talk[m].text
        BY <1>1, <2>1 DEF TalkRecord
  <2> HIDE DEF TalkRecord
  <2>4. x.sent = x.text + (IF x.offer THEN 1 ELSE 0)  BY <1>1, <2>k, <2>2, <2>3
  <2> QED  BY <1>1, <2>2, <2>3, <2>4, OneTalks
<1>3. CASE Take(m)
  <2>k. PICK k \in Nat : k = talk[m].text + 1
        BY <1>1
  <2>1. PICK x : x = [talk[m] EXCEPT !.offer = FALSE, !.text = k]
        OBVIOUS
  <2>2. talk' = [talk EXCEPT ![m] = x] /\ talk[m].offer
        BY <1>3, <2>k, <2>1 DEF Take
  <2>3. /\ x \in TalkRecord /\ x.at = "working" /\ x.end = talk[m].end /\ ~x.offer
        /\ x.sent = talk[m].sent /\ x.text = k
        BY <1>1, <2>1 DEF TalkRecord
  <2> HIDE DEF TalkRecord
  <2>4. x.sent = x.text + (IF x.offer THEN 1 ELSE 0)  BY <1>1, <2>k, <2>2, <2>3
  <2> QED  BY <1>1, <2>2, <2>3, <2>4, OneTalks
<1>4. CASE Finish(m)
  <2>1. ~talk[m].offer /\ (Answer(m, "reported") \/ Answer(m, "problem"))
        BY <1>4 DEF Finish, Blocked
  <2>2. talk[m].text = talk[m].sent  BY <1>1, <2>1
  <2> QED  BY <1>1, <2>1, <2>2, ReplyKeeps
<1> QED  BY <1>2, <1>3, <1>4

\* The daemon starts again.
LEMMA RestartKeeps ==
  ASSUME TalkInv, EngineInv, Restart
  PROVE  TalkInv' /\ EngineInv'
<1>1. TalkInv'
  <2>1. Unsaid \in TalkRecord /\ [Unsaid EXCEPT !.at = "gone"] \in TalkRecord
        BY EmptySeq DEF Unsaid, TalkRecord, Stations
  <2>2. \A m \in Messages : talk'[m] \in {Unsaid, [Unsaid EXCEPT !.at = "gone"]}
        BY DEF Restart
  <2>3. talk' = [m \in Messages |-> talk'[m]]
        BY DEF Restart
  <2>4. talk' \in [Messages -> TalkRecord]
    <3> HIDE DEF TalkRecord
    <3> QED  BY <2>1, <2>2, <2>3
  <2>5. \A x \in {Unsaid, [Unsaid EXCEPT !.at = "gone"]} :
           /\ x.at \in {"new", "gone"} /\ x.end = "none" /\ x.sent = 0 /\ x.text = 0 /\ ~x.offer
        BY DEF Unsaid
  <2>6. \A m \in Messages : TalkSound(m)'
        BY <2>2, <2>5 DEF TalkSound
  <2>7. said' \in Seq(Said)  BY EmptySeq DEF Restart
  <2> QED  BY <2>4, <2>6, <2>7 DEF TalkInv
<1>2. EngineInv'
  <2>1. keys' \subseteq AllKeys /\ engine' = PrefsFrom(saved', keys') /\ saved' = saved
        BY DEF Restart
  <2>2. saved' \in {Unchosen, Torn} \cup {[is |-> "whole", pref |-> p] : p \in Prefs}
        BY <2>1 DEF EngineInv
  <2>3. engine' \in Prefs /\ (engine'.def = NoEngine => Fallback(keys') = NoEngine)
        BY <2>1, <2>2, PrefsOfFile
  <2> QED  BY <2>1, <2>2, <2>3 DEF EngineInv, Fallback
<1> QED  BY <1>1, <1>2

\* A choice is written through or put back.
LEMMA ChooseKeeps ==
  ASSUME EngineInv, NEW new \in Prefs, new.def = NoEngine => engine.def = NoEngine, Choose(new)
  PROVE  EngineInv'
<1>1. keys' = keys  BY DEF Choose
<1>2. CASE engine' = new /\ saved' = [is |-> "whole", pref |-> new]
  <2>1. new.def = NoEngine => Fallback(keys) = NoEngine  BY DEF EngineInv
  <2>2. PrefsFrom(saved', keys) = new  BY <1>2, <2>1, ReadBack
  <2>3. saved' \in {[is |-> "whole", pref |-> p] : p \in Prefs}  BY <1>2
  <2>4. keys' \subseteq AllKeys  BY <1>1 DEF EngineInv
  <2> QED  BY <1>1, <1>2, <2>1, <2>2, <2>3, <2>4 DEF EngineInv, Fallback
<1>3. CASE engine' = engine /\ saved' \in {saved, Torn}
      BY <1>1, <1>3 DEF EngineInv, PrefsFrom, Fallback
<1> QED  BY <1>2, <1>3 DEF Choose, PutBack

\* A chosen engine is one; clearing a role leaves the default.
LEMMA ChoosingKeeps ==
  ASSUME EngineInv, ChooseDefault \/ \E r \in Staff : ChooseRole(r)
  PROVE  EngineInv'
<1>1. engine \in Prefs /\ NoEngine \notin Engines  BY DEF EngineInv, NoEngine, Engines
<1>2. CASE ChooseDefault
  <2>1. PICK e \in Engines : Choose([engine EXCEPT !.def = e])  BY <1>2 DEF ChooseDefault
  <2>2. PICK new : new = [engine EXCEPT !.def = e]
        OBVIOUS
  <2>3. new \in Prefs /\ new.def = e  BY <1>1, <2>2 DEF Prefs
  <2>4. Choose(new)  BY <2>1, <2>2
  <2> QED  BY <1>1, <2>3, <2>4, ChooseKeeps
<1>3. ASSUME NEW r \in Staff, ChooseRole(r) PROVE EngineInv'
  <2>1. PICK e \in Engines \cup {NoEngine} : Choose([engine EXCEPT !.roles[r] = e])
        BY <1>3 DEF ChooseRole
  <2>2. PICK new : new = [engine EXCEPT !.roles[r] = e]
        OBVIOUS
  <2>3. new \in Prefs /\ new.def = engine.def
    <3>1. engine.roles \in [Staff -> Engines \cup {NoEngine}]  BY <1>1 DEF Prefs
    <3>2. [engine.roles EXCEPT ![r] = e] \in [Staff -> Engines \cup {NoEngine}]  BY <3>1
    <3> QED  BY <1>1, <2>2, <3>2 DEF Prefs
  <2>4. Choose(new)  BY <2>1, <2>2
  <2> QED  BY <2>3, <2>4, ChooseKeeps
<1> QED  BY <1>2, <1>3

\* Every step keeps the invariant.
LEMMA LabInvStep == TalkInv /\ EngineInv /\ [LabNext]_labVars => (TalkInv /\ EngineInv)'
<1> SUFFICES ASSUME TalkInv, EngineInv, [LabNext]_labVars PROVE TalkInv' /\ EngineInv'
    OBVIOUS
<1>1. ASSUME UNCHANGED <<said, talk>> PROVE TalkInv'
      BY <1>1 DEF TalkInv, TalkSound
<1>2. ASSUME UNCHANGED <<keys, engine, saved>> PROVE EngineInv'
      BY <1>2 DEF EngineInv, PrefsFrom, Fallback
<1>3. ASSUME NEW m \in Messages,
             PostMessage(m) \/ Hear(m) \/ Route(m) \/ Composed(m) \/ Remember(m)
               \/ PrepareWork(m) \/ AddWorktree(m) \/ Offer(m) \/ Take(m) \/ Finish(m)
      PROVE  TalkInv' /\ EngineInv'
  <2>1. UNCHANGED <<keys, engine, saved>>
        BY <1>3 DEF PostMessage, Hear, Route, Composed, Remember, PrepareWork, AddWorktree, Offer, Take, Finish
  <2>2. TalkInv'  BY <1>3, HearKeeps, RouteKeeps, PrepareAgentKeeps, AgentTalks
  <2> QED  BY <1>2, <2>1, <2>2
<1>4. CASE ChooseDefault \/ \E r \in Staff : ChooseRole(r)
  <2>1. UNCHANGED <<said, talk>>  BY <1>4 DEF ChooseDefault, ChooseRole, Choose
  <2> QED  BY <1>1, <1>4, <2>1, ChoosingKeeps
<1>5. CASE UNCHANGED labVars
      BY <1>1, <1>2, <1>5 DEF labVars
<1> QED  BY <1>3, <1>4, <1>5, RestartKeeps DEF LabNext

\* Lab decides about the message it was sent, an answer holds all its agent
\* said, and the engines in force are those the next start loads (lab.go,
\* preferences.go).
THEOREM LabKeepsFaith == LabSpec => []LabFaithful
<1>1. TalkInv /\ EngineInv /\ [LabNext]_labVars => (TalkInv /\ EngineInv)'  BY LabInvStep
<1>2. TalkInv /\ EngineInv => LabFaithful
      BY DEF TalkInv, EngineInv, TalkSound, LabFaithful, RoutesItsOwn, SummaryWhole, EngineSurvivesRestart
<1> QED  BY <1>1, <1>2, LabInvInit, PTL DEF LabSpec

\* Lab: an agent that is at work is somebody's, and has said no more than its
\* container streamed.
LabBounds ==
    /\ \A m \in Messages :
          /\ talk[m].with \in IF talk[m].role = "none" THEN {NoEngine} ELSE Engines
          /\ talk[m].sent <= Chunks /\ talk[m].text <= talk[m].sent
    /\ worktree \in [Staff -> {"absent", "there"}]
    /\ changes \in 0..Choices /\ boots \in 0..Boots

\* Nobody has asked anything of Lab.
LEMMA LabBoundsInit == LabInit => LabBounds
<1> SUFFICES ASSUME LabInit PROVE LabBounds
    OBVIOUS
<1>1. \A m \in Messages : talk[m].role = "none" /\ talk[m].with = NoEngine /\ talk[m].sent = 0 /\ talk[m].text = 0
      BY DEF LabInit, Unsaid
<1> QED  BY <1>1, LabAssumption DEF LabInit, LabBounds

\* One message's goroutine moves on within its bounds.
LEMMA OneBound ==
  ASSUME TalkInv, LabBounds, NEW m \in Messages, NEW x \in TalkRecord, talk' = [talk EXCEPT ![m] = x],
         x.with \in IF x.role = "none" THEN {NoEngine} ELSE Engines,
         x.sent <= Chunks, x.text <= x.sent,
         worktree' \in [Staff -> {"absent", "there"}], UNCHANGED <<changes, boots>>
  PROVE  LabBounds'
<1> HIDE DEF TalkRecord
<1>1. talk'[m] = x /\ \A n \in Messages : n # m => talk'[n] = talk[n]  BY DEF TalkInv
<1> QED  BY <1>1 DEF LabBounds

\* Each step of Lab stays within the bounds.
LEMMA LabBoundsStep == TalkInv /\ EngineInv /\ LabBounds /\ [LabNext]_labVars => LabBounds'
<1> SUFFICES ASSUME TalkInv, EngineInv, LabBounds, [LabNext]_labVars PROVE LabBounds'
    OBVIOUS
<1>1. ASSUME UNCHANGED <<talk, worktree>>, changes' \in 0..Choices, boots' \in 0..Boots PROVE LabBounds'
      BY <1>1 DEF LabBounds
<1>2. ASSUME NEW m \in Messages, NEW at \in Stations, Moves(m, at), UNCHANGED <<changes, boots>>,
             worktree' \in [Staff -> {"absent", "there"}]
      PROVE  LabBounds'
  <2>1. PICK x : x = [talk[m] EXCEPT !.at = at]
        OBVIOUS
  <2>2. talk[m] \in TalkRecord  BY DEF TalkInv
  <2>3. x \in TalkRecord /\ x.with = talk[m].with /\ x.role = talk[m].role /\ x.sent = talk[m].sent /\ x.text = talk[m].text
    <3> HIDE DEF Stations, Engines, NoEngine
    <3> QED  BY <2>1, <2>2 DEF TalkRecord
  <2>4. talk' = [talk EXCEPT ![m] = x]  BY <1>2, <2>1 DEF Moves
  <2> QED  BY <1>2, <2>3, <2>4, OneBound DEF LabBounds
<1>3. ASSUME NEW m \in Messages,
             NEW how \in {"none", "no model", "undecided", "chat", "no engine", "composed", "problem", "reported"},
             Answer(m, how), UNCHANGED <<changes, boots>>, worktree' \in [Staff -> {"absent", "there"}]
      PROVE  LabBounds'
  <2>a. talk[m] \in TalkRecord  BY DEF TalkInv
  <2>0. PICK k \in Nat : k = talk[m].bare + 1  BY <2>a, CountedOn
  <2>1. PICK x : x = [talk[m] EXCEPT !.at = "answered", !.end = how, !.bare = k]
        OBVIOUS
  <2>2. talk[m] \in TalkRecord /\ "answered" \in Stations  BY DEF TalkInv, Stations
  <2>3. x \in TalkRecord /\ x.with = talk[m].with /\ x.role = talk[m].role /\ x.sent = talk[m].sent /\ x.text = talk[m].text
    <3> HIDE DEF Stations, Engines, NoEngine
    <3> QED  BY <2>1, <2>2 DEF TalkRecord
  <2>4. talk' = [talk EXCEPT ![m] = x]  BY <1>3, <2>0, <2>1 DEF Answer
  <2> QED  BY <1>3, <2>3, <2>4, OneBound DEF LabBounds
<1>4. \A at \in {"logged", "over", "composing", "preparing", "adding", "working"} : at \in Stations
      BY DEF Stations
<1>5. worktree \in [Staff -> {"absent", "there"}]  BY DEF LabBounds
<1>6. ASSUME NEW m \in Messages, PostMessage(m) \/ Composed(m) \/ Remember(m) \/ Finish(m) PROVE LabBounds'
  <2>1. worktree' \in [Staff -> {"absent", "there"}] /\ UNCHANGED <<changes, boots>>
        BY <1>5, <1>6 DEF PostMessage, Composed, Remember, Finish
  <2> QED  BY <1>2, <1>3, <1>4, <1>6, <2>1 DEF PostMessage, Composed, Remember, Finish
<1>7. ASSUME NEW m \in Messages, Hear(m) PROVE LabBounds'
  <2>1. talk' = [talk EXCEPT ![m].at = "routing", ![m].seen = said'] /\ UNCHANGED <<worktree, changes, boots>>
        BY <1>7 DEF Hear, Seen
  <2>2. PICK y : y = said'
        OBVIOUS
  <2>3. PICK x : x = [talk[m] EXCEPT !.at = "routing", !.seen = y]
        OBVIOUS
  <2>4. talk[m] \in TalkRecord  BY DEF TalkInv
  <2>5. x.with = talk[m].with /\ x.role = talk[m].role /\ x.sent = talk[m].sent /\ x.text = talk[m].text
        BY <2>3, <2>4 DEF TalkRecord
  <2>6. talk' = [talk EXCEPT ![m] = x]  BY <2>1, <2>2, <2>3
  <2>7. talk'[m] = x /\ \A n \in Messages : n # m => talk'[n] = talk[n]
    <3> HIDE DEF TalkRecord
    <3> QED  BY <2>6 DEF TalkInv
  <2>8. ASSUME NEW n \in Messages
        PROVE  /\ talk'[n].with = talk[n].with /\ talk'[n].role = talk[n].role
               /\ talk'[n].sent = talk[n].sent /\ talk'[n].text = talk[n].text
    <3>1. CASE n = m  BY <2>5, <2>7, <3>1
    <3>2. CASE n # m  BY <2>7, <3>2
    <3> QED  BY <3>1, <3>2
  <2>9. LabBounds  OBVIOUS
  <2>10. \A n \in Messages :
            /\ talk'[n].with \in IF talk'[n].role = "none" THEN {NoEngine} ELSE Engines
            /\ talk'[n].sent <= Chunks /\ talk'[n].text <= talk'[n].sent
    <3> HIDE DEF TalkRecord, Engines, NoEngine, TalkInv, EngineInv
    <3> QED  BY <2>8, <2>9 DEF LabBounds
  <2>11. UNCHANGED <<worktree, changes, boots>>  BY <2>1
  <2> QED  BY <2>9, <2>10, <2>11 DEF LabBounds
<1>8. ASSUME NEW m \in Messages, Route(m) PROVE LabBounds'
  <2>1. worktree' \in [Staff -> {"absent", "there"}] /\ UNCHANGED <<changes, boots>>
        BY <1>5, <1>8 DEF Route
  <2>2. ASSUME NEW r \in Staff, engine.def # NoEngine,
               talk' = [talk EXCEPT ![m].at = "preparing", ![m].role = r, ![m].with = EngineFor(r)]
        PROVE  LabBounds'
    <3>1. EngineFor(r) \in Engines
          BY <2>2 DEF EngineFor, EngineInv, Prefs, NoEngine
    <3>2. PICK w \in Engines : w = EngineFor(r)  BY <3>1
    <3>3. PICK x : x = [talk[m] EXCEPT !.at = "preparing", !.role = r, !.with = w]
          OBVIOUS
    <3>4. talk[m] \in TalkRecord /\ "preparing" \in Stations  BY DEF TalkInv, Stations
    <3>5. x \in TalkRecord /\ x.with = w /\ x.role = r /\ x.sent = talk[m].sent /\ x.text = talk[m].text
      <4> HIDE DEF Stations, Engines, NoEngine
      <4> QED  BY <3>2, <3>3, <3>4 DEF TalkRecord
    <3>6. talk' = [talk EXCEPT ![m] = x]  BY <2>2, <3>2, <3>3
    <3>7. r # "none"  BY LabAssumption
    <3>8. x.with \in IF x.role = "none" THEN {NoEngine} ELSE Engines  BY <3>2, <3>5, <3>7
    <3> HIDE DEF TalkRecord, Engines
    <3> QED  BY <2>1, <3>5, <3>6, <3>8, OneBound DEF LabBounds
  <2> QED  BY <1>2, <1>3, <1>4, <1>8, <2>1, <2>2 DEF Route
<1>9. ASSUME NEW m \in Messages, PrepareWork(m) \/ AddWorktree(m) PROVE LabBounds'
  <2>1. worktree' \in [Staff -> {"absent", "there"}] /\ UNCHANGED <<changes, boots>>
        BY <1>5, <1>9 DEF PrepareWork, AddWorktree
  <2> QED  BY <1>2, <1>3, <1>4, <1>9, <2>1 DEF PrepareWork, AddWorktree
<1>10. ASSUME NEW m \in Messages, Offer(m) \/ Take(m) PROVE LabBounds'
  <2>1. /\ talk[m] \in TalkRecord /\ talk[m].sent \in Nat /\ talk[m].text \in Nat
        /\ talk[m].sent = talk[m].text + (IF talk[m].offer THEN 1 ELSE 0)
        BY <1>10 DEF Offer, Take, TalkInv, TalkSound, TalkRecord
  <2>2. worktree' \in [Staff -> {"absent", "there"}] /\ UNCHANGED <<changes, boots>>
        BY <1>5, <1>10 DEF Offer, Take
  <2>3. CASE Offer(m)
    <3>0. PICK n \in Nat : n = talk[m].sent + 1
          BY <2>1
    <3>1. PICK x : x = [talk[m] EXCEPT !.offer = TRUE, !.sent = n]
          OBVIOUS
    <3>2. x \in TalkRecord /\ x.with = talk[m].with /\ x.role = talk[m].role /\ x.sent = n /\ x.text = talk[m].text
      <4> HIDE DEF Stations, Engines, NoEngine
      <4> QED  BY <2>1, <3>0, <3>1 DEF TalkRecord
    <3>3. talk' = [talk EXCEPT ![m] = x] /\ talk[m].sent < Chunks  BY <2>3, <3>0, <3>1 DEF Offer
    <3>4. x.sent <= Chunks /\ x.text <= x.sent  BY <2>1, <3>0, <3>2, <3>3, LabAssumption DEF LabBounds
    <3>5. x.with \in IF x.role = "none" THEN {NoEngine} ELSE Engines  BY <3>2 DEF LabBounds
    <3> HIDE DEF TalkRecord
    <3> QED  BY <2>2, <3>2, <3>3, <3>4, <3>5, OneBound
  <2>4. CASE Take(m)
    <3>0. PICK n \in Nat : n = talk[m].text + 1
          BY <2>1
    <3>1. PICK x : x = [talk[m] EXCEPT !.offer = FALSE, !.text = n]
          OBVIOUS
    <3>2. x \in TalkRecord /\ x.with = talk[m].with /\ x.role = talk[m].role /\ x.sent = talk[m].sent /\ x.text = n
      <4> HIDE DEF Stations, Engines, NoEngine
      <4> QED  BY <2>1, <3>0, <3>1 DEF TalkRecord
    <3>3. talk' = [talk EXCEPT ![m] = x] /\ talk[m].offer  BY <2>4, <3>0, <3>1 DEF Take
    <3>4. x.sent <= Chunks /\ x.text <= x.sent  BY <2>1, <3>0, <3>2, <3>3 DEF LabBounds
    <3>5. x.with \in IF x.role = "none" THEN {NoEngine} ELSE Engines  BY <3>2 DEF LabBounds
    <3> HIDE DEF TalkRecord
    <3> QED  BY <2>2, <3>2, <3>3, <3>4, <3>5, OneBound
  <2> QED  BY <1>10, <2>3, <2>4
<1>11. CASE ChooseDefault \/ \E r \in Staff : ChooseRole(r)
  <2>1. UNCHANGED <<talk, worktree, boots>> /\ changes < Choices /\ changes' = changes + 1
        BY <1>11 DEF ChooseDefault, ChooseRole, Choose
  <2>2. changes' \in 0..Choices /\ boots' \in 0..Boots  BY <2>1, LabAssumption DEF LabBounds
  <2> QED  BY <1>1, <2>1, <2>2
<1>12. CASE Restart
  <2>1. boots' \in 0..Boots /\ UNCHANGED <<worktree, changes>>  BY <1>12, LabAssumption DEF Restart, LabBounds
  <2>2. \A m \in Messages : talk'[m].role = "none" /\ talk'[m].with = NoEngine /\ talk'[m].sent = 0 /\ talk'[m].text = 0
        BY <1>12 DEF Restart, Unsaid
  <2> QED  BY <2>1, <2>2, LabAssumption DEF LabBounds
<1>13. CASE UNCHANGED labVars
      BY <1>1, <1>13 DEF labVars, LabBounds
<1> QED  BY <1>6, <1>7, <1>8, <1>9, <1>10, <1>11, <1>12, <1>13 DEF LabNext

\* A delegation has its role's engine or the default one, which has a key, and
\* its answer holds no more than its agent said.
THEOREM LabTypes == LabSpec => []LabTypeOK
<1>1. TalkInv /\ EngineInv /\ LabBounds => LabTypeOK
  <2> SUFFICES ASSUME TalkInv, EngineInv, LabBounds PROVE LabTypeOK
      OBVIOUS
  <2>1. ASSUME NEW m \in Messages
        PROVE  /\ talk[m].at \in Stations /\ talk[m].seen \in Seq(Said) /\ talk[m].role \in Staff \cup {"none"}
               /\ talk[m].sent \in 0..Chunks /\ talk[m].text \in 0..Chunks
    <3>1. talk[m] \in TalkRecord  BY DEF TalkInv
    <3>2. /\ talk[m].at \in Stations /\ talk[m].seen \in Seq(Said) /\ talk[m].role \in Staff \cup {"none"}
          /\ talk[m].sent \in Nat /\ talk[m].text \in Nat
      <4> HIDE DEF Stations, Engines, NoEngine
      <4> QED  BY <3>1 DEF TalkRecord
    <3> QED  BY <3>2, LabAssumption DEF LabBounds
  <2>2. saved.is \in {"absent", "torn", "whole"}  BY DEF EngineInv, Unchosen, Torn
  <2> QED  BY <2>1, <2>2 DEF LabTypeOK, LabBounds, TalkInv, EngineInv, Stations, Said, Prefs
<1> QED  BY <1>1, LabInvInit, LabBoundsInit, LabInvStep, LabBoundsStep, PTL DEF LabSpec

-----------------------------------------------------------------------------
(* BotTuning.                                                              *)

Whole == [Parts -> Texts]
TuningCall == [at : {"new", "load", "read", "truncate", "fill", "lookup", "record", "forget", "saving", "done"},
               part : Parts, all : BOOLEAN, text : Texts, previous : Texts, raw : Whole]
Records == [Halves -> Texts \cup {NeverRecorded}]
TuningShapes ==
    /\ manifest \in Whole \cup {Unloadable} /\ edit \in [Request -> TuningCall]
    /\ team \in [is : {"missing", "corrupt", "map"}, shipped : Records] /\ fleet \in Records
    /\ crossed \in BOOLEAN

\* The record agrees with the manifest, or will when the edit has corrected it.
OnRecord == manifest \in Whole /\ Loaded = Tuned(manifest)
AsRead(e) == Loaded = Tuned(edit[e].raw) /\ edit[e].previous = edit[e].raw[edit[e].part]
EditSound(e) ==
    /\ edit[e].at \in {"load", "read", "truncate"} => OnRecord
    /\ edit[e].at \in {"read", "truncate"} => edit[e].previous = manifest[edit[e].part]
    /\ edit[e].at = "truncate" => edit[e].raw = manifest
    /\ edit[e].at = "fill" => manifest = Unloadable /\ AsRead(e)
    /\ edit[e].at = "lookup" => edit[e].part \in Halves /\ manifest = WithEdit(e) /\ AsRead(e)
    /\ edit[e].at \in {"forget", "record"} => manifest \in Whole /\ CorrectedFrom(e) = Tuned(manifest)
    /\ edit[e].at = "saving" => manifest \in Whole /\ team.shipped = Tuned(manifest)

\* One edit at a time, and nobody else's files.
Alone ==
    /\ \A e, f \in Request : Busy(e) /\ Busy(f) => e = f
    /\ (\A e \in Request : ~Busy(e)) => OnRecord
    /\ \A e \in Request : EditSound(e)

TuningInv == TuningShapes /\ (~crossed => Alone)

\* The file nobody can load is not one.
LEMMA NotWhole == Unloadable \notin Whole
<1>1. Unloadable["connection"] = "unloadable" /\ "connection" \in Parts
      BY DEF Unloadable, Parts
<1>2. \A m \in Whole : m["connection"] \in Texts
      BY <1>1 DEF Whole
<1> QED  BY <1>1, <1>2, TuningAssumption

\* What is on record of a manifest.
LEMMA TunedRecord ==
  ASSUME NEW m \in Whole
  PROVE  /\ Tuned(m) \in Records
         /\ \A h \in Halves : Tuned(m)[h] = IF m[h] = Original[h] THEN NeverRecorded ELSE Original[h]
<1>1. \A h \in Halves : Original[h] \in Texts
      BY TuningAssumption DEF Parts
<1> QED  BY <1>1 DEF Tuned, Records

\* What an edit makes of a manifest.
LEMMA EditedManifest ==
  ASSUME NEW e \in Request, edit[e] \in TuningCall
  PROVE  /\ WithEdit(e) \in Whole
         /\ WithEdit(e)[edit[e].part] = edit[e].text
         /\ \A p \in Parts : p # edit[e].part => WithEdit(e)[p] = edit[e].raw[p]
<1>1. edit[e].part \in Parts /\ edit[e].raw \in Whole /\ edit[e].text \in Texts
      BY DEF TuningCall
<1>2. WithEdit(e) = [edit[e].raw EXCEPT ![edit[e].part] = edit[e].text]
  <2>1. CASE edit[e].part = "instructions"  BY <2>1 DEF WithEdit, WithInstructions
  <2>2. CASE edit[e].part = "guardrails"  BY <2>2 DEF WithEdit, WithGuardrails
  <2>3. CASE edit[e].part = "connection"  BY <2>3 DEF WithEdit, WithConnection
  <2> QED  BY <1>1, <2>1, <2>2, <2>3 DEF Parts, Halves
<1> QED  BY <1>1, <1>2 DEF Whole

\* An edit leaves the record of the other half as it is, and corrects its own.
LEMMA Corrections ==
  ASSUME NEW raw \in Whole, NEW m \in Whole, NEW h \in Halves, NEW old, old = Tuned(raw),
         \A p \in Parts : p # h => m[p] = raw[p]
  PROVE  /\ old[h] # NeverRecorded /\ old[h] = m[h] => Forgotten(old, h) = Tuned(m)
         /\ ~(old[h] # NeverRecorded /\ old[h] = m[h]) /\ m[h] # raw[h] => FirstOf(old, h, raw[h]) = Tuned(m)
         /\ m[h] = raw[h] => old = Tuned(m)
<1>1. /\ old \in Records /\ Tuned(m) \in Records
      /\ \A k \in Halves : old[k] = IF raw[k] = Original[k] THEN NeverRecorded ELSE Original[k]
      /\ \A k \in Halves : Tuned(m)[k] = IF m[k] = Original[k] THEN NeverRecorded ELSE Original[k]
      BY TunedRecord
<1>2. \A k \in Halves : k # h => old[k] = Tuned(m)[k]
      BY <1>1 DEF Parts
<1>3. \A k \in Halves : Original[k] # NeverRecorded
      BY TuningAssumption DEF Parts
<1>4. ASSUME old[h] # NeverRecorded, old[h] = m[h] PROVE Forgotten(old, h) = Tuned(m)
      BY <1>1, <1>2, <1>3, <1>4 DEF Forgotten, Records
<1>5. ASSUME ~(old[h] # NeverRecorded /\ old[h] = m[h]), m[h] # raw[h] PROVE FirstOf(old, h, raw[h]) = Tuned(m)
  <2>1. CASE raw[h] = Original[h]
    <3>1. old[h] = NeverRecorded /\ Tuned(m)[h] = raw[h]  BY <1>1, <1>5, <2>1
    <3>2. FirstOf(old, h, raw[h]) = [old EXCEPT ![h] = raw[h]]  BY <3>1 DEF FirstOf
    <3> QED  BY <1>1, <1>2, <3>1, <3>2 DEF Records
  <2>2. CASE raw[h] # Original[h]
    <3>1. old[h] = Original[h] /\ Tuned(m)[h] = Original[h]  BY <1>1, <1>3, <1>5, <2>2
    <3>2. FirstOf(old, h, raw[h]) = old  BY <1>3, <3>1 DEF FirstOf
    <3> QED  BY <1>1, <1>2, <3>1, <3>2 DEF Records
  <2> QED  BY <2>1, <2>2
<1>6. ASSUME m[h] = raw[h] PROVE old = Tuned(m)
      BY <1>1, <1>2, <1>6 DEF Records
<1> QED  BY <1>4, <1>5, <1>6

\* The bot is as it was shipped or as it was tuned, on record, and nobody edits it.
LEMMA TuningInvInit == TuningInit => TuningInv
<1> SUFFICES ASSUME TuningInit PROVE TuningInv
    OBVIOUS
<1>1. Original \in Whole /\ manifest \in Whole  BY TuningAssumption DEF TuningInit, Whole
<1>2. Fresh \in TuningCall /\ Fresh.at = "new"
  <2>1. "connection" \in Parts  BY DEF Parts
  <2>2. Original["connection"] \in Texts  BY <1>1, <2>1 DEF Whole
  <2> HIDE DEF Whole, Parts
  <2> QED  BY <1>1, <2>1, <2>2 DEF Fresh, TuningCall
<1>3. NoRecord \in Records /\ Tuned(manifest) \in Records
      BY <1>1, TunedRecord DEF NoRecord, Records
<1>4. edit \in [Request -> TuningCall] /\ \A e \in Request : edit[e].at = "new"
  <2> HIDE DEF TuningCall
  <2> QED  BY <1>2 DEF TuningInit
<1>5. TuningShapes
  <2> HIDE DEF Records, TuningCall
  <2>1. PICK t \in Records : t = Tuned(manifest)  BY <1>3
  <2>2. /\ fleet \in {NoRecord, t} /\ crossed = FALSE
        /\ team = [is |-> "map", shipped |-> t] \/ team = [is |-> "missing", shipped |-> NoRecord]
        BY <2>1 DEF TuningInit
  <2>3. team \in [is : {"missing", "corrupt", "map"}, shipped : Records]  BY <1>3, <2>2
  <2> QED  BY <1>1, <1>3, <1>4, <2>2, <2>3 DEF TuningShapes
<1>6. Loaded = Tuned(manifest)
      BY DEF TuningInit, Loaded
<1>7. Alone
      BY <1>1, <1>4, <1>6 DEF Alone, Busy, OnRecord, EditSound
<1> QED  BY <1>5, <1>7 DEF TuningInv

\* One edit moves, the others stay where they are.
LEMMA OneEdits ==
  ASSUME TuningShapes, NEW e \in Request, NEW x \in TuningCall, edit' = [edit EXCEPT ![e] = x]
  PROVE  /\ edit' \in [Request -> TuningCall] /\ edit'[e] = x
         /\ \A f \in Request : f # e => edit'[f] = edit[f]
<1> HIDE DEF TuningCall
<1> QED  BY DEF TuningShapes

\* The one edit goes on, or leaves what it edited on record.
LEMMA EditGoesOn ==
  ASSUME TuningInv, NEW e \in Request, Busy(e), NEW x \in TuningCall, edit' = [edit EXCEPT ![e] = x],
         TuningShapes', UNCHANGED crossed,
         Alone => (x.at \in {"new", "done"} => OnRecord') /\ EditSound(e)'
  PROVE  TuningInv'
<1>1. /\ edit'[e] = x /\ \A f \in Request : f # e => edit'[f] = edit[f]
      BY OneEdits DEF TuningInv
<1>2. ASSUME Alone PROVE Alone'
  <2>1. \A f \in Request : f # e => ~Busy(f)  BY <1>2 DEF Alone
  <2>2. \A f \in Request : f # e => ~Busy(f)' /\ EditSound(f)'
        BY <1>1, <2>1 DEF Busy, EditSound
  <2>3. (\A f \in Request : ~Busy(f)') => OnRecord'
        BY <1>1, <1>2 DEF Busy
  <2> QED  BY <1>2, <2>2, <2>3 DEF Alone
<1> QED  BY <1>2 DEF TuningInv

\* A request that has ended forgets what it was about.
LEMMA Becoming ==
  ASSUME TuningShapes, NEW e \in Request,
         NEW at \in {"load", "read", "truncate", "fill", "lookup", "record", "forget", "saving", "done"},
         Becomes(e, at)
  PROVE  \E x \in TuningCall :
            /\ edit' = [edit EXCEPT ![e] = x] /\ x.at = at
            /\ at # "done" => /\ x.part = edit[e].part /\ x.text = edit[e].text
                             /\ x.previous = edit[e].previous /\ x.raw = edit[e].raw
<1>1. edit[e] \in TuningCall  BY DEF TuningShapes
<1>2. Fresh \in TuningCall
  <2>1. "connection" \in Parts /\ Original \in Whole  BY TuningAssumption DEF Parts, Whole
  <2>2. Original["connection"] \in Texts  BY <2>1 DEF Whole
  <2> HIDE DEF Whole, Parts
  <2> QED  BY <2>1, <2>2 DEF Fresh, TuningCall
<1>3. CASE at = "done"
  <2>1. PICK x : x = [Fresh EXCEPT !.at = "done"]
        OBVIOUS
  <2>2. x \in TuningCall /\ x.at = "done"  BY <1>2, <2>1 DEF TuningCall
  <2>3. edit' = [edit EXCEPT ![e] = x]  BY <1>3, <2>1 DEF Becomes, Answered
  <2> QED  BY <1>3, <2>2, <2>3
<1>4. CASE at # "done"
  <2>1. PICK x : x = [edit[e] EXCEPT !.at = at]
        OBVIOUS
  <2>2. /\ x \in TuningCall /\ x.at = at /\ x.part = edit[e].part /\ x.text = edit[e].text
        /\ x.previous = edit[e].previous /\ x.raw = edit[e].raw
        BY <1>1, <2>1 DEF TuningCall
  <2>3. edit' = [edit EXCEPT ![e] = x]  BY <1>4, <2>1 DEF Becomes
  <2> QED  BY <2>2, <2>3
<1> QED  BY <1>3, <1>4

\* An edit is asked for, beside another or alone.
LEMMA AskedKeeps ==
  ASSUME TuningInv, NEW e \in Request, NEW p \in Parts, NEW all \in BOOLEAN, Asked(e, p, all)
  PROVE  TuningInv'
<1>1. /\ edit[e] \in TuningCall /\ edit[e].at = "new" /\ UNCHANGED <<manifest, team, fleet>>
      /\ crossed' = (crossed \/ InFlight # {}) /\ crossed \in BOOLEAN
      BY DEF TuningInv, TuningShapes, Asked
<1>2. PICK t \in Texts :
         edit' = [edit EXCEPT ![e].at = "load", ![e].part = p, ![e].all = all, ![e].text = t]
      BY DEF Asked
<1>3. PICK x : x = [edit[e] EXCEPT !.at = "load", !.part = p, !.all = all, !.text = t]
      OBVIOUS
<1>4. x \in TuningCall /\ x.at = "load"  BY <1>1, <1>3 DEF TuningCall
<1>5. edit' = [edit EXCEPT ![e] = x]  BY <1>2, <1>3
<1>6. /\ edit' \in [Request -> TuningCall] /\ edit'[e] = x /\ \A f \in Request : f # e => edit'[f] = edit[f]
      BY <1>4, <1>5, OneEdits DEF TuningInv
<1>7. TuningShapes'
      BY <1>1, <1>6 DEF TuningInv, TuningShapes
<1>8. ASSUME ~crossed' PROVE Alone'
  <2>1. ~crossed /\ \A f \in Request : ~Busy(f)  BY <1>1, <1>8 DEF InFlight
  <2>2. OnRecord  BY <2>1 DEF TuningInv, Alone
  <2>3. OnRecord'  BY <1>1, <2>2 DEF OnRecord, Loaded
  <2>4. \A f \in Request : f # e => ~Busy(f)' /\ EditSound(f)'
        BY <1>6, <2>1 DEF Busy, EditSound
  <2>5. EditSound(e)'  BY <1>4, <1>6, <2>3 DEF EditSound
  <2> QED  BY <2>3, <2>4, <2>5 DEF Alone
<1> QED  BY <1>7, <1>8 DEF TuningInv

\* A request reads the manifest, and leaves it as it is when it cannot.
LEMMA ReadingKeeps ==
  ASSUME TuningInv, NEW e \in Request, LoadManifest(e) \/ ReadManifest(e)
  PROVE  TuningInv'
<1>1. /\ edit[e] \in TuningCall /\ edit[e].at \in {"load", "read"} /\ UNCHANGED <<manifest, team, fleet, crossed>>
      /\ Busy(e) /\ manifest \in Whole \cup {Unloadable} /\ edit[e].part \in Parts
  <2>1. /\ edit[e] \in TuningCall /\ edit[e].at \in {"load", "read"} /\ UNCHANGED <<manifest, team, fleet, crossed>>
        /\ Busy(e) /\ manifest \in Whole \cup {Unloadable}
        BY DEF TuningInv, TuningShapes, LoadManifest, ReadManifest, Busy
  <2> QED  BY <2>1 DEF TuningCall
<1>2. ASSUME Alone PROVE OnRecord /\ OnRecord' /\ EditSound(e)
  <2>1. OnRecord /\ EditSound(e)  BY <1>1, <1>2 DEF Alone, EditSound
  <2> QED  BY <1>1, <2>1 DEF OnRecord, Loaded
<1>3. ASSUME NEW x \in TuningCall, edit' = [edit EXCEPT ![e] = x] PROVE TuningShapes' /\ edit'[e] = x
      BY <1>1, <1>3, OneEdits DEF TuningInv, TuningShapes
<1>4. CASE Becomes(e, "done")
  <2>1. PICK x \in TuningCall : edit' = [edit EXCEPT ![e] = x] /\ x.at = "done"
        BY <1>4, Becoming DEF TuningInv
  <2>2. TuningShapes' /\ edit'[e] = x  BY <1>3, <2>1
  <2>3. EditSound(e)'  BY <2>1, <2>2 DEF EditSound
  <2> QED  BY <1>1, <1>2, <2>1, <2>2, <2>3, EditGoesOn
<1>5. CASE LoadManifest(e) /\ manifest # Unloadable
           /\ edit' = [edit EXCEPT ![e].at = "read", ![e].previous = manifest[edit[e].part]]
  <2>1. PICK t \in Texts : t = manifest[edit[e].part]
        BY <1>1, <1>5 DEF Whole
  <2>2. PICK x : x = [edit[e] EXCEPT !.at = "read", !.previous = t]
        OBVIOUS
  <2>3. x \in TuningCall /\ x.at = "read" /\ x.previous = t /\ x.part = edit[e].part
        BY <1>1, <2>2 DEF TuningCall
  <2>4. edit' = [edit EXCEPT ![e] = x]  BY <1>5, <2>1, <2>2
  <2>5. TuningShapes' /\ edit'[e] = x  BY <1>3, <2>3, <2>4
  <2>6. Alone => EditSound(e)'  BY <1>1, <1>2, <2>1, <2>3, <2>5 DEF EditSound
  <2> QED  BY <1>1, <2>3, <2>4, <2>5, <2>6, EditGoesOn
<1>6. CASE ReadManifest(e) /\ manifest # Unloadable
           /\ edit' = [edit EXCEPT ![e].at = "truncate", ![e].raw = manifest]
  <2>1. PICK m \in Whole : m = manifest
        BY <1>1, <1>6
  <2>2. PICK x : x = [edit[e] EXCEPT !.at = "truncate", !.raw = m]
        OBVIOUS
  <2>3. /\ x \in TuningCall /\ x.at = "truncate" /\ x.raw = m /\ x.previous = edit[e].previous
        /\ x.part = edit[e].part
        BY <1>1, <2>2 DEF TuningCall
  <2>4. edit' = [edit EXCEPT ![e] = x]  BY <1>6, <2>1, <2>2
  <2>5. TuningShapes' /\ edit'[e] = x  BY <1>3, <2>3, <2>4
  <2>6. edit[e].at = "read"  BY <1>6 DEF ReadManifest
  <2>7. Alone => EditSound(e)'  BY <1>1, <1>2, <2>1, <2>3, <2>5, <2>6 DEF EditSound
  <2> QED  BY <1>1, <2>3, <2>4, <2>5, <2>7, EditGoesOn
<1> QED  BY <1>4, <1>5, <1>6 DEF LoadManifest, ReadManifest

\* The manifest is emptied and filled: with what was read and the one edit.
LEMMA WritingKeeps ==
  ASSUME TuningInv, NEW e \in Request, Truncate(e) \/ Fill(e)
  PROVE  TuningInv'
<1>1. /\ edit[e] \in TuningCall /\ edit[e].at \in {"truncate", "fill"} /\ UNCHANGED <<team, fleet, crossed>>
      /\ Busy(e) /\ edit[e].part \in Parts /\ edit[e].raw \in Whole
  <2>1. /\ edit[e] \in TuningCall /\ edit[e].at \in {"truncate", "fill"} /\ UNCHANGED <<team, fleet, crossed>>
        /\ Busy(e)
        BY DEF TuningInv, TuningShapes, Truncate, Fill, Busy
  <2> QED  BY <2>1 DEF TuningCall
<1>2. WithEdit(e) \in Whole  BY <1>1, EditedManifest
<1>3. manifest' \in Whole \cup {Unloadable}
      BY <1>2 DEF Truncate, Fill
<1>4. ASSUME NEW x \in TuningCall, edit' = [edit EXCEPT ![e] = x] PROVE TuningShapes' /\ edit'[e] = x
      BY <1>1, <1>3, <1>4, OneEdits DEF TuningInv, TuningShapes
<1>5. Loaded' = Loaded  BY <1>1 DEF Loaded
<1>6. CASE Truncate(e)
  <2>1. edit[e].at = "truncate" /\ manifest' = Unloadable /\ Becomes(e, "fill")  BY <1>6 DEF Truncate
  <2>2. PICK x \in TuningCall :
           /\ edit' = [edit EXCEPT ![e] = x] /\ x.at = "fill"
           /\ x.part = edit[e].part /\ x.previous = edit[e].previous /\ x.raw = edit[e].raw
        BY <2>1, Becoming DEF TuningInv
  <2>3. TuningShapes' /\ edit'[e] = x  BY <1>4, <2>2
  <2>4. Alone => EditSound(e)'
    <3>1. SUFFICES ASSUME Alone PROVE AsRead(e)'
          BY <2>1, <2>2, <2>3 DEF EditSound
    <3>2. OnRecord /\ edit[e].previous = manifest[edit[e].part] /\ edit[e].raw = manifest
          BY <2>1, <3>1 DEF Alone, EditSound
    <3> QED  BY <1>5, <2>2, <2>3, <3>2 DEF OnRecord, AsRead
  <2> QED  BY <1>1, <2>2, <2>3, <2>4, EditGoesOn
<1>7. CASE Fill(e)
  <2>1. edit[e].at = "fill"  BY <1>7 DEF Fill
  <2>2. ASSUME Alone PROVE manifest' = WithEdit(e) /\ AsRead(e)
    <3>1. manifest = Unloadable /\ AsRead(e)  BY <2>1, <2>2 DEF Alone, EditSound
    <3> QED  BY <1>7, <3>1 DEF Fill
  <2>3. CASE edit[e].part \in Halves
    <3>1. Becomes(e, "lookup")  BY <1>7, <2>3 DEF Fill
    <3>2. PICK x \in TuningCall :
             /\ edit' = [edit EXCEPT ![e] = x] /\ x.at = "lookup" /\ x.text = edit[e].text
             /\ x.part = edit[e].part /\ x.previous = edit[e].previous /\ x.raw = edit[e].raw
          BY <3>1, Becoming DEF TuningInv
    <3>3. TuningShapes' /\ edit'[e] = x  BY <1>4, <3>2
    <3>4. WithEdit(e)' = WithEdit(e)  BY <3>2, <3>3 DEF WithEdit
    <3>5. Alone => EditSound(e)'
          BY <1>5, <2>2, <2>3, <3>2, <3>3, <3>4 DEF EditSound, AsRead
    <3> QED  BY <1>1, <3>2, <3>3, <3>5, EditGoesOn
  <2>4. CASE edit[e].part \notin Halves
    <3>1. Becomes(e, "done")  BY <1>7, <2>4 DEF Fill
    <3>2. PICK x \in TuningCall : edit' = [edit EXCEPT ![e] = x] /\ x.at = "done"
          BY <3>1, Becoming DEF TuningInv
    <3>3. TuningShapes' /\ edit'[e] = x  BY <1>4, <3>2
    <3>4. ASSUME Alone PROVE OnRecord'
      <4>1. \A p \in Halves : WithEdit(e)[p] = edit[e].raw[p]
            BY <1>1, <2>4, EditedManifest DEF Parts
      <4>2. Tuned(WithEdit(e)) = Tuned(edit[e].raw)  BY <4>1 DEF Tuned
      <4> QED  BY <1>2, <1>5, <2>2, <3>4, <4>2 DEF OnRecord, AsRead
    <3>5. EditSound(e)'  BY <3>2, <3>3 DEF EditSound
    <3> QED  BY <1>1, <3>2, <3>3, <3>4, <3>5, EditGoesOn
  <2> QED  BY <2>3, <2>4
<1> QED  BY <1>6, <1>7

\* The record is read as one of the two halves.
LEMMA LoadedTyped == TuningShapes => Loaded \in Records
<1> SUFFICES ASSUME TuningShapes PROVE Loaded \in Records
    OBVIOUS
<1>1. NoRecord \in Records  BY DEF NoRecord, Records
<1>2. team.shipped \in Records /\ fleet \in Records  BY DEF TuningShapes
<1> QED  BY <1>1, <1>2 DEF Loaded

\* What the record is of the half that was edited says what is to be done.
LEMMA LookUpKeeps ==
  ASSUME TuningInv, NEW e \in Request, LookUp(e)
  PROVE  TuningInv'
<1>1. /\ edit[e] \in TuningCall /\ edit[e].at = "lookup" /\ UNCHANGED <<manifest, team, fleet, crossed>>
      /\ Busy(e) /\ edit[e].raw \in Whole
  <2>1. /\ edit[e] \in TuningCall /\ edit[e].at = "lookup" /\ UNCHANGED <<manifest, team, fleet, crossed>>
        /\ Busy(e)
        BY DEF TuningInv, TuningShapes, LookUp, Busy
  <2> QED  BY <2>1 DEF TuningCall
<1>2. Loaded' = Loaded  BY <1>1 DEF Loaded
<1>3. PICK at : /\ Becomes(e, at)
                /\ at = IF Loaded[edit[e].part] # NeverRecorded /\ Loaded[edit[e].part] = edit[e].text THEN "forget"
                        ELSE IF edit[e].text # edit[e].previous THEN "record" ELSE "done"
      BY DEF LookUp
<1>4. /\ at \in {"forget", "record", "done"}
      /\ at = "forget" => Loaded[edit[e].part] # NeverRecorded /\ Loaded[edit[e].part] = edit[e].text
      /\ at = "record" => /\ ~(Loaded[edit[e].part] # NeverRecorded /\ Loaded[edit[e].part] = edit[e].text)
                          /\ edit[e].text # edit[e].previous
      /\ at = "done" => edit[e].text = edit[e].previous
      BY <1>3
<1>5. PICK x \in TuningCall :
         /\ edit' = [edit EXCEPT ![e] = x] /\ x.at = at
         /\ at # "done" => /\ x.part = edit[e].part /\ x.text = edit[e].text
                          /\ x.previous = edit[e].previous /\ x.raw = edit[e].raw
      BY <1>3, <1>4, Becoming DEF TuningInv
<1>6. TuningShapes' /\ edit'[e] = x
      BY <1>1, <1>5, OneEdits DEF TuningInv, TuningShapes
<1>7. ASSUME Alone
      PROVE  /\ manifest \in Whole
             /\ at = "forget" => Forgotten(Loaded, edit[e].part) = Tuned(manifest)
             /\ at = "record" => FirstOf(Loaded, edit[e].part, edit[e].previous) = Tuned(manifest)
             /\ at = "done" => Loaded = Tuned(manifest)
  <2>1. edit[e].part \in Halves /\ manifest = WithEdit(e) /\ AsRead(e)  BY <1>1, <1>7 DEF Alone, EditSound
  <2>5. PICK h \in Halves : h = edit[e].part  BY <2>1
  <2>6. PICK raw \in Whole : raw = edit[e].raw  BY <1>1
  <2>7. PICK old : old = Loaded
        OBVIOUS
  <2>2. old = Tuned(raw) /\ raw[h] = edit[e].previous
        BY <2>1, <2>5, <2>6, <2>7 DEF AsRead
  <2>3. PICK m \in Whole : m = manifest /\ m[h] = edit[e].text /\ \A p \in Parts : p # h => m[p] = raw[p]
        BY <1>1, <2>1, <2>5, <2>6, EditedManifest
  <2>4. /\ old[h] # NeverRecorded /\ old[h] = m[h] => Forgotten(old, h) = Tuned(m)
        /\ ~(old[h] # NeverRecorded /\ old[h] = m[h]) /\ m[h] # raw[h] => FirstOf(old, h, raw[h]) = Tuned(m)
        /\ m[h] = raw[h] => old = Tuned(m)
        BY <2>2, <2>3, Corrections
  <2> QED  BY <1>4, <2>5, <2>7, <2>2, <2>3, <2>4
<1>8. ASSUME Alone PROVE x.at = "done" => OnRecord'
      BY <1>1, <1>2, <1>5, <1>7, <1>8 DEF OnRecord
<1>9. ASSUME Alone PROVE EditSound(e)'
  <2>1. at = "forget" => CorrectedFrom(e)' = Forgotten(Loaded, edit[e].part)
        BY <1>2, <1>5, <1>6 DEF CorrectedFrom
  <2>2. at = "record" => CorrectedFrom(e)' = FirstOf(Loaded, edit[e].part, edit[e].previous)
        BY <1>2, <1>5, <1>6 DEF CorrectedFrom
  <2> QED  BY <1>1, <1>4, <1>5, <1>6, <1>7, <1>9, <2>1, <2>2 DEF EditSound
<1> QED  BY <1>1, <1>4, <1>5, <1>6, <1>8, <1>9, EditGoesOn

\* The record is corrected, and the file is written anew.
LEMMA SavingKeeps ==
  ASSUME TuningInv, NEW e \in Request, SaveTeam(e) \/ TeamSaved(e)
  PROVE  TuningInv'
<1>1. /\ edit[e] \in TuningCall /\ edit[e].at \in {"forget", "record", "saving"} /\ UNCHANGED <<manifest, fleet>>
      /\ Busy(e) /\ edit[e].part \in Parts /\ edit[e].previous \in Texts
  <2>1. /\ edit[e] \in TuningCall /\ edit[e].at \in {"forget", "record", "saving"} /\ UNCHANGED <<manifest, fleet>>
        /\ Busy(e)
        BY DEF TuningInv, TuningShapes, SaveTeam, TeamSaved, Busy
  <2> QED  BY <2>1 DEF TuningCall
<1>2. CorrectedFrom(e) \in Records
  <2>1. Loaded \in Records  BY LoadedTyped DEF TuningInv
  <2> QED  BY <1>1, <2>1 DEF CorrectedFrom, Forgotten, FirstOf, Records
<1>3. ASSUME NEW x \in TuningCall, edit' = [edit EXCEPT ![e] = x],
             team' \in [is : {"missing", "corrupt", "map"}, shipped : Records], crossed' \in BOOLEAN
      PROVE  TuningShapes' /\ edit'[e] = x
      BY <1>1, <1>3, OneEdits DEF TuningInv, TuningShapes
<1>4. team \in [is : {"missing", "corrupt", "map"}, shipped : Records] /\ crossed \in BOOLEAN
      BY DEF TuningInv, TuningShapes
<1>5. CASE SaveTeam(e) /\ CorrectedFrom(e) = Loaded /\ Becomes(e, "done") /\ UNCHANGED <<team, crossed>>
  <2>1. PICK x \in TuningCall : edit' = [edit EXCEPT ![e] = x] /\ x.at = "done"
        BY <1>5, Becoming DEF TuningInv
  <2>2. TuningShapes' /\ edit'[e] = x  BY <1>3, <1>4, <1>5, <2>1
  <2>3. Loaded' = Loaded  BY <1>1, <1>5 DEF Loaded
  <2>4. edit[e].at \in {"forget", "record"}  BY <1>5 DEF SaveTeam
  <2>5. Alone => OnRecord'
        BY <1>1, <1>5, <2>3, <2>4 DEF Alone, EditSound, OnRecord
  <2>6. EditSound(e)'  BY <2>1, <2>2 DEF EditSound
  <2> QED  BY <1>1, <1>5, <2>1, <2>2, <2>5, <2>6, EditGoesOn
<1>6. CASE /\ SaveTeam(e) /\ Becomes(e, "saving") /\ UNCHANGED crossed
           /\ team' = [is |-> "corrupt", shipped |-> CorrectedFrom(e)]
  <2>1. PICK x \in TuningCall : edit' = [edit EXCEPT ![e] = x] /\ x.at = "saving"
        BY <1>6, Becoming DEF TuningInv
  <2>2. team' \in [is : {"missing", "corrupt", "map"}, shipped : Records] /\ team'.shipped = CorrectedFrom(e)
        BY <1>2, <1>6
  <2>3. TuningShapes' /\ edit'[e] = x  BY <1>3, <1>4, <1>6, <2>1, <2>2
  <2>4. edit[e].at \in {"forget", "record"}  BY <1>6 DEF SaveTeam
  <2>5. Alone => EditSound(e)'
        BY <1>1, <2>1, <2>2, <2>3, <2>4 DEF Alone, EditSound
  <2> QED  BY <1>1, <1>6, <2>1, <2>3, <2>5, EditGoesOn
<1>7. CASE Becomes(e, "done") /\ crossed' = TRUE /\ UNCHANGED team
  <2>1. PICK x \in TuningCall : edit' = [edit EXCEPT ![e] = x]
        BY <1>7, Becoming DEF TuningInv
  <2>2. TuningShapes'  BY <1>3, <1>4, <1>7, <2>1
  <2> QED  BY <1>7, <2>2 DEF TuningInv
<1>8. CASE TeamSaved(e)
  <2>1. edit[e].at = "saving" /\ Becomes(e, "done") /\ UNCHANGED crossed /\ team' = [team EXCEPT !.is = "map"]
        BY <1>8 DEF TeamSaved
  <2>2. PICK x \in TuningCall : edit' = [edit EXCEPT ![e] = x] /\ x.at = "done"
        BY <2>1, Becoming DEF TuningInv
  <2>3. /\ team' \in [is : {"missing", "corrupt", "map"}, shipped : Records]
        /\ team'.is = "map" /\ team'.shipped = team.shipped
        BY <1>4, <2>1
  <2>4. TuningShapes' /\ edit'[e] = x  BY <1>3, <1>4, <2>1, <2>2, <2>3
  <2>5. Loaded' = team.shipped  BY <2>3 DEF Loaded
  <2>6. Alone => OnRecord'
        BY <1>1, <2>1, <2>5 DEF Alone, EditSound, OnRecord
  <2>7. EditSound(e)'  BY <2>2, <2>4 DEF EditSound
  <2> QED  BY <1>1, <2>1, <2>2, <2>4, <2>6, <2>7, EditGoesOn
<1> QED  BY <1>5, <1>6, <1>7, <1>8 DEF SaveTeam

\* The daemon dies with its requests, in the middle of a save or not: that
\* counts as crossed.
LEMMA DeathKeeps ==
  ASSUME TuningInv, DaemonDies
  PROVE  TuningInv'
<1>1. UNCHANGED <<manifest, fleet>> /\ crossed' = TRUE  BY DEF DaemonDies
<1>2. NoRecord \in Records  BY DEF NoRecord, Records
<1>3. team' \in [is : {"missing", "corrupt", "map"}, shipped : Records]
  <2>1. team \in [is : {"missing", "corrupt", "map"}, shipped : Records]  BY DEF TuningInv, TuningShapes
  <2>2. team' \in {team, [team EXCEPT !.shipped = NoRecord]}  BY DEF DaemonDies
  <2> HIDE DEF Records, NoRecord
  <2> QED  BY <1>2, <2>1, <2>2
<1>4. ASSUME NEW e \in Request PROVE edit'[e] \in TuningCall
  <2>1. edit[e] \in TuningCall  BY DEF TuningInv, TuningShapes
  <2>2. CASE Busy(e)
    <3>1. PICK y : y = Answered(e)
          OBVIOUS
    <3>2. Fresh \in TuningCall
      <4>1. "connection" \in Parts /\ Original \in Whole  BY TuningAssumption DEF Parts, Whole
      <4>2. Original["connection"] \in Texts  BY <4>1 DEF Whole
      <4> HIDE DEF Whole, Parts
      <4> QED  BY <4>1, <4>2 DEF Fresh, TuningCall
    <3>3. PICK x : x = [Fresh EXCEPT !.at = "done"]
          OBVIOUS
    <3>4. x \in TuningCall  BY <3>2, <3>3 DEF TuningCall
    <3>5. y[e] = x
      <4> HIDE DEF TuningCall
      <4> QED  BY <3>1, <3>3 DEF Answered, TuningInv, TuningShapes
    <3> QED  BY <2>2, <3>1, <3>4, <3>5 DEF DaemonDies
  <2>3. CASE ~Busy(e)  BY <2>1, <2>3 DEF DaemonDies
  <2> QED  BY <2>2, <2>3
<1>5. edit' \in [Request -> TuningCall]
  <2>1. edit' = [e \in Request |-> edit'[e]]  BY DEF DaemonDies
  <2> HIDE DEF TuningCall
  <2> QED  BY <1>4, <2>1
<1>6. TuningShapes'
      BY <1>1, <1>3, <1>5 DEF TuningInv, TuningShapes
<1> QED  BY <1>1, <1>6 DEF TuningInv

\* Every step keeps the invariant.
LEMMA TuningInvStep == TuningInv /\ [TuningNext]_tuningVars => TuningInv'
<1> SUFFICES ASSUME TuningInv, [TuningNext]_tuningVars PROVE TuningInv'
    OBVIOUS
<1>1. ASSUME NEW e \in Request,
             SetInstructions(e) \/ SetGuardrails(e) \/ SetServiceConnection(e) \/ SetProviderConnection(e)
      PROVE  TuningInv'
  <2>1. {"instructions", "guardrails", "connection"} \subseteq Parts  BY DEF Parts, Halves
  <2> QED  BY <1>1, <2>1, AskedKeeps
           DEF SetInstructions, SetGuardrails, SetServiceConnection, SetProviderConnection
<1>2. CASE UNCHANGED tuningVars
  <2>1. UNCHANGED <<manifest, team, fleet, edit, crossed>>  BY <1>2 DEF tuningVars
  <2>2. TuningShapes'  BY <2>1 DEF TuningInv, TuningShapes
  <2>3. Loaded' = Loaded  BY <2>1 DEF Loaded
  <2>4. OnRecord' <=> OnRecord  BY <2>1, <2>3 DEF OnRecord
  <2>5. ASSUME NEW e \in Request PROVE (EditSound(e) => EditSound(e)') /\ (Busy(e)' <=> Busy(e))
    <3>1. WithEdit(e)' = WithEdit(e)  BY <2>1 DEF WithEdit
    <3>2. CorrectedFrom(e)' = CorrectedFrom(e)  BY <2>1, <2>3 DEF CorrectedFrom
    <3> QED  BY <2>1, <2>3, <2>4, <3>1, <3>2 DEF EditSound, AsRead, Busy
  <2> QED  BY <2>1, <2>2, <2>4, <2>5 DEF TuningInv, Alone
<1> QED  BY <1>1, <1>2, ReadingKeeps, WritingKeeps, LookUpKeeps, SavingKeeps, DeathKeeps DEF TuningNext

\* Whatever is edited and put back, in any order of the halves, one edit after
\* another: a half is on record when it differs from what it shipped with, and
\* what is on record is that (api/team.go RecordTuned, bot_instructions.go,
\* bot_guardrails.go).
THEOREM TuningRecorded == TuningSpec => []TunedIsOnRecord
<1>1. TuningInv /\ [TuningNext]_tuningVars => TuningInv'  BY TuningInvStep
<1>2. TuningInv => TunedIsOnRecord
      BY DEF TuningInv, Alone, OnRecord, TunedIsOnRecord, InFlight
<1> QED  BY <1>1, <1>2, TuningInvInit, PTL DEF TuningSpec

\* Each edit, death and failed save leaves texts the two halves can have.
LEMMA TuningTypesStep == TuningInv /\ TuningTypeOK /\ [TuningNext]_tuningVars => TuningTypeOK'
<1> SUFFICES ASSUME TuningInv, TuningTypeOK, [TuningNext]_tuningVars PROVE TuningTypeOK'
    OBVIOUS
<1>0. Deaths \in Nat /\ SaveFaults \in Nat  BY TuningAssumption
<1>b. deaths \in 0..Deaths /\ saveFaults \in 0..SaveFaults  BY DEF TuningTypeOK
<1>t. torn' \in BOOLEAN
  <2>1. torn \in BOOLEAN  BY DEF TuningTypeOK
  <2>2. torn' \in {torn, TRUE, FALSE}
        BY DEF TuningNext, tuningVars, DaemonDies, SaveTeam, TeamSaved, SetInstructions, SetGuardrails,
           SetServiceConnection, SetProviderConnection, Asked, LoadManifest, ReadManifest, Truncate, Fill, LookUp
  <2> QED  BY <2>1, <2>2
<1>1. deaths' \in 0..Deaths /\ saveFaults' \in 0..SaveFaults
  <2>1. \/ deaths < Deaths /\ deaths' = deaths + 1 /\ saveFaults' = saveFaults
        \/ saveFaults < SaveFaults /\ saveFaults' = saveFaults + 1 /\ deaths' = deaths
        \/ UNCHANGED <<deaths, saveFaults>>
        BY DEF TuningNext, tuningVars, DaemonDies, SaveTeam, TeamSaved, SetInstructions, SetGuardrails,
           SetServiceConnection, SetProviderConnection, Asked, LoadManifest, ReadManifest, Truncate, Fill, LookUp
  <2> QED  BY <1>0, <1>b, <2>1
<1>2. TuningShapes'  BY TuningInvStep DEF TuningInv
<1>3. ASSUME NEW e \in Request
      PROVE  /\ edit'[e].at \in {"new", "load", "read", "truncate", "fill", "lookup",
                                "record", "forget", "saving", "done"}
             /\ edit'[e].part \in Parts /\ {edit'[e].text, edit'[e].previous} \subseteq Texts
  <2>1. edit'[e] \in TuningCall  BY <1>2 DEF TuningShapes
  <2> HIDE DEF Whole, Parts
  <2> QED  BY <2>1 DEF TuningCall
<1>4. /\ manifest' = Unloadable \/ manifest' \in [Parts -> Texts]
      /\ team' \in TeamFiles /\ fleet' \in [Halves -> Texts \cup {NeverRecorded}] /\ crossed' \in BOOLEAN
      BY <1>2 DEF TuningShapes, Whole, TeamFiles, Records
<1> QED  BY <1>1, <1>t, <1>3, <1>4 DEF TuningTypeOK

\* The record is of texts the two halves can have, whatever is edited, dies
\* or can not be written.
THEOREM TuningTypes == TuningSpec => []TuningTypeOK
<1>1. TuningInit => TuningTypeOK
  <2> SUFFICES ASSUME TuningInit PROVE TuningTypeOK
      OBVIOUS
  <2>1. TuningShapes  BY TuningInvInit DEF TuningInv
  <2>2. torn = FALSE /\ deaths = 0 /\ saveFaults = 0  BY DEF TuningInit
  <2>3. ASSUME NEW e \in Request
        PROVE  /\ edit[e].at \in {"new", "load", "read", "truncate", "fill", "lookup",
                                  "record", "forget", "saving", "done"}
               /\ edit[e].part \in Parts /\ {edit[e].text, edit[e].previous} \subseteq Texts
    <3>1. edit[e] \in TuningCall  BY <2>1 DEF TuningShapes
    <3> HIDE DEF Whole, Parts
    <3> QED  BY <3>1 DEF TuningCall
  <2>4. /\ manifest = Unloadable \/ manifest \in [Parts -> Texts]
        /\ team \in TeamFiles /\ fleet \in [Halves -> Texts \cup {NeverRecorded}] /\ crossed \in BOOLEAN
        BY <2>1 DEF TuningShapes, Whole, TeamFiles, Records
  <2>5. Deaths \in Nat /\ SaveFaults \in Nat  BY TuningAssumption
  <2>7. torn \in BOOLEAN  BY <2>2
  <2>8. deaths = 0 /\ saveFaults = 0  BY <2>2
  <2>9. deaths \in 0..Deaths /\ saveFaults \in 0..SaveFaults  BY <2>5, <2>8
  <2> QED  BY <2>3, <2>4, <2>7, <2>9 DEF TuningTypeOK
<1> QED  BY <1>1, TuningInvInit, TuningInvStep, TuningTypesStep, PTL DEF TuningSpec

-----------------------------------------------------------------------------
(* SwarmFiles.                                                             *)

Schedules == {"leave", "manual"} \cup Times
FileText == {Absent, Cut} \cup {Text(d) : d \in Documents}
SaveCall == [kind : Kinds, at : {"new", "compose", "correct", "check", "stat", "read", "truncate", "fill",
                              "saved", "refused"},
          target : Slot \cup {Hand}, schedule : Schedules, zone : Zones,
          first : Plans \cup {NoPlan}, plan : Plans \cup {NoPlan}, path : Nat, text : FileText]

\* A document of the hand-written swarm f: as somebody wrote it, but for what
\* a save that has come to it asked to change.
Faithful(f, d) ==
    /\ d.rest = Hand
    /\ (\A c \in Reached(f) : call[c].schedule = "leave") => d.trigger = ByHand[f]
    /\ (\A c \in Reached(f) : call[c].schedule # "manual" /\ call[c].zone = NoZone) /\ ByHand[f].zone # NoZone
          => d.trigger.zone = ByHand[f].zone

\* What is in its file, and what a save is about to put there: nobody else
\* comes to its path.
OnDisk(f) == file[f] # Cut => \E d \in Documents : file[f] = Text(d) /\ Faithful(f, d)
AboutToWrite(f) ==
    \A c \in Caller : call[c].path = f /\ call[c].at \in {"read", "truncate", "fill", "saved"} =>
        /\ call[c].target = f
        /\ call[c].at \in {"truncate", "fill"} => \E d \in Documents : call[c].text = Text(d) /\ Faithful(f, d)

FilesInv ==
    /\ file \in [Slot -> FileText] /\ call \in [Caller -> SaveCall]
    /\ \A c \in Caller : call[c].at = "read" => call[c].path \in Slot
    /\ \A f \in DOMAIN ByHand : OnDisk(f) /\ AboutToWrite(f)

\* A text is not an empty place or a torn one, and is the text of one document.
LEMMA TextIsText ==
  ASSUME NEW d, NEW e
  PROVE  Text(d).doc = d /\ Text(d) # Cut /\ Text(d) # Absent /\ (Text(d) = Text(e) => d = e)
<1>1. Text(d).doc = d /\ Text(e).doc = e /\ Text(d).is = "text"  BY DEF Text
<1>2. Cut.is # "text" /\ Absent.is # "text"  BY DEF Cut, Absent
<1> QED  BY <1>1, <1>2

\* A swarm is as it was written until somebody asks otherwise of it.
LEMMA FaithfulStays ==
  ASSUME NEW f, NEW d, Faithful(f, d),
         \A c \in Reached(f) : c \in Reached(f)' /\ call'[c].schedule = call[c].schedule /\ call'[c].zone = call[c].zone
  PROVE  Faithful(f, d)'
BY DEF Faithful

\* One call moves, and what it had asked of a swarm it had come to stays asked.
LEMMA CallMoves ==
  ASSUME FilesInv, NEW c \in Caller, NEW x \in SaveCall, call' = [call EXCEPT ![c] = x],
         call[c].at \in {"read", "truncate", "fill", "saved", "refused"} =>
            /\ x.path = call[c].path /\ x.target = call[c].target
            /\ x.schedule = call[c].schedule /\ x.zone = call[c].zone
            /\ x.at \in {"read", "truncate", "fill", "saved", "refused"}
  PROVE  /\ call' \in [Caller -> SaveCall] /\ call'[c] = x /\ \A d \in Caller : d # c => call'[d] = call[d]
         /\ \A f, d : Faithful(f, d) => Faithful(f, d)'
<1> HIDE DEF SaveCall
<1>1. call' \in [Caller -> SaveCall] /\ call'[c] = x /\ \A d \in Caller : d # c => call'[d] = call[d]
      BY DEF FilesInv
<1>2. \A f : \A d \in Reached(f) : d \in Reached(f)' /\ call'[d].schedule = call[d].schedule /\ call'[d].zone = call[d].zone
      BY <1>1 DEF Reached
<1> QED  BY <1>1, <1>2, FaithfulStays

\* The files stay while a call moves to where it has nothing to write.
LEMMA CallMovesOn ==
  ASSUME FilesInv, NEW c \in Caller, NEW x \in SaveCall, call' = [call EXCEPT ![c] = x], UNCHANGED file,
         call[c].at \in {"read", "truncate", "fill", "saved", "refused"} =>
            /\ x.path = call[c].path /\ x.target = call[c].target
            /\ x.schedule = call[c].schedule /\ x.zone = call[c].zone
            /\ x.at \in {"read", "truncate", "fill", "saved", "refused"},
         x.at = "read" => x.path \in Slot,
         x.at \in {"read", "truncate", "fill", "saved"} /\ x.path \in DOMAIN ByHand =>
            /\ x.target = x.path
            /\ x.at \in {"truncate", "fill"} => \E d \in Documents : x.text = Text(d) /\ Faithful(x.path, d)'
  PROVE  FilesInv'
<1>1. /\ call' \in [Caller -> SaveCall] /\ call'[c] = x /\ \A d \in Caller : d # c => call'[d] = call[d]
      /\ \A f, d : Faithful(f, d) => Faithful(f, d)'
      BY CallMoves
<1> HIDE DEF SaveCall
<1>2. ASSUME NEW f \in DOMAIN ByHand PROVE OnDisk(f)' /\ AboutToWrite(f)'
  <2>1. OnDisk(f) /\ AboutToWrite(f)  BY DEF FilesInv
  <2>2. OnDisk(f)'  BY <1>1, <2>1 DEF OnDisk
  <2>3. ASSUME NEW e \in Caller, call'[e].path = f, call'[e].at \in {"read", "truncate", "fill", "saved"}
        PROVE  /\ call'[e].target = f
               /\ call'[e].at \in {"truncate", "fill"} => \E d \in Documents : call'[e].text = Text(d) /\ Faithful(f, d)'
    <3>1. CASE e = c  BY <1>1, <2>3, <3>1
    <3>2. CASE e # c
      <4>1. call'[e] = call[e]  BY <1>1, <3>2
      <4> QED  BY <1>1, <2>1, <2>3, <4>1 DEF AboutToWrite
    <3> QED  BY <3>1, <3>2
  <2> QED  BY <2>2, <2>3 DEF AboutToWrite
<1>3. \A e \in Caller : call'[e].at = "read" => call'[e].path \in Slot
      BY <1>1 DEF FilesInv
<1> QED  BY <1>1, <1>2, <1>3 DEF FilesInv

\* The first free name is a free one.
LEMMA UniqueIsFree ==
  ASSUME FreeSlots # {}
  PROVE  Unique \in Slot /\ Unique \in Nat /\ file[Unique] = Absent
<1>1. FreeSlots \subseteq Nat  BY FilesAssumption DEF FreeSlots, Slot
<1>2. \E m \in FreeSlots : \A k \in FreeSlots : ~ (<<k, m>> \in OpToRel(<, Nat))
      BY <1>1, NatLessThanWellFounded, WFMin
<1>3. PICK m \in FreeSlots : \A k \in FreeSlots : ~ (<<k, m>> \in OpToRel(<, Nat))
      BY <1>2
<1>4. \A k \in FreeSlots : ~(k < m)
      BY <1>1, <1>3 DEF OpToRel
<1>5. \A k \in FreeSlots : m <= k
      BY <1>1, <1>4
<1>6. Unique \in FreeSlots
      BY <1>5 DEF Unique
<1> QED  BY <1>1, <1>6 DEF FreeSlots

\* A hand-written swarm is one of the slots and is never away.
LEMMA HandWrittenThere ==
  ASSUME FilesInv, NEW f \in DOMAIN ByHand
  PROVE  f \in Slot /\ f \in Nat /\ file[f] # Absent
<1>1. f \in Slot /\ f \in Nat  BY FilesAssumption DEF Slot
<1>2. Cut # Absent
  <2>1. Cut.is # Absent.is  BY DEF Cut, Absent
  <2> QED  BY <2>1
<1>3. file[f] # Cut => \E d : file[f] = Text(d)  BY DEF FilesInv, OnDisk
<1> QED  BY <1>1, <1>2, <1>3, TextIsText

\* The swarms there are were written by hand, and nothing has been asked.
LEMMA FilesInvInit == FilesInit => FilesInv
<1> SUFFICES ASSUME FilesInit PROVE FilesInv
    OBVIOUS
<1>1. Unasked \in SaveCall
  <2>1. Absent \in FileText /\ "leave" \in Schedules /\ NoZone \in Zones /\ NoPlan \in Plans \cup {NoPlan}
        BY DEF FileText, Schedules, Zones
  <2>2. "save" \in Kinds /\ Hand \in Slot \cup {Hand}  BY DEF Kinds
  <2> HIDE DEF FileText, Schedules, Kinds, Hand
  <2> QED  BY <2>1, <2>2 DEF Unasked, SaveCall
<1>2. call \in [Caller -> SaveCall] /\ \A c \in Caller : call[c].at = "new"
  <2>1. Unasked.at = "new"  BY DEF Unasked
  <2> HIDE DEF SaveCall
  <2> QED  BY <1>1, <2>1 DEF FilesInit
<1>3. \A f \in DOMAIN ByHand : [bots |-> Hand, trigger |-> ByHand[f], rest |-> Hand] \in Documents
      BY FilesAssumption DEF Documents
<1>4. file \in [Slot -> FileText]
  <2>1. \A f \in Slot : file[f] \in FileText
        BY <1>3 DEF FilesInit, FileText
  <2> QED  BY <2>1 DEF FilesInit
<1>5. ASSUME NEW f \in DOMAIN ByHand PROVE OnDisk(f) /\ AboutToWrite(f)
  <2>1. PICK d : d = [bots |-> Hand, trigger |-> ByHand[f], rest |-> Hand]
        OBVIOUS
  <2>2. d \in Documents /\ Faithful(f, d)
        BY <1>3, <2>1 DEF Faithful
  <2>3. f \in Slot  BY FilesAssumption DEF Slot
  <2>4. file[f] = Text(d)
        BY <2>1, <2>3 DEF FilesInit
  <2> QED  BY <1>2, <2>2, <2>4 DEF OnDisk, AboutToWrite
<1> QED  BY <1>2, <1>4, <1>5 DEF FilesInv

\* Something is asked for.
LEMMA AskKeeps ==
  ASSUME FilesInv, NEW c \in Caller, AskSave(c) \/ Automate(c) \/ AskImport(c)
  PROVE  FilesInv'
<1>1. call[c].at = "new" /\ UNCHANGED file
      BY DEF AskSave, Automate, AskImport, Arrives
<1>2. ASSUME NEW x \in SaveCall, x.at \in {"check", "compose", "stat"}, call' = [call EXCEPT ![c] = x]
      PROVE  FilesInv'
      BY <1>1, <1>2, CallMovesOn
<1>3. Unasked \in SaveCall
  <2>1. Absent \in FileText /\ "leave" \in Schedules /\ NoZone \in Zones /\ NoPlan \in Plans \cup {NoPlan}
        BY DEF FileText, Schedules, Zones
  <2>2. "save" \in Kinds /\ Hand \in Slot \cup {Hand}  BY DEF Kinds
  <2> HIDE DEF FileText, Schedules, Kinds, Hand
  <2> QED  BY <2>1, <2>2 DEF Unasked, SaveCall
<1>4. CASE AskSave(c)
  <2>1. PICK f \in Slot \cup {Hand}, s \in {"leave", "manual"} \cup Times, z \in {NoZone, "Europe/Paris"} :
           call' = [call EXCEPT ![c] = [Unasked EXCEPT !.at = "check", !.target = f, !.schedule = s, !.zone = z]]
        BY <1>4 DEF AskSave
  <2>2. f \in Slot \cup {Hand} /\ s \in Schedules /\ z \in Zones
        BY DEF Schedules, Zones
  <2>3. PICK x : x = [Unasked EXCEPT !.at = "check", !.target = f, !.schedule = s, !.zone = z]
        OBVIOUS
  <2>4. x \in SaveCall /\ x.at = "check"
        BY <1>3, <2>2, <2>3 DEF SaveCall
  <2> QED  BY <1>2, <2>1, <2>3, <2>4
<1>5. CASE Automate(c)
  <2>1. PICK x : x = [Unasked EXCEPT !.kind = "automate", !.at = "compose"]
        OBVIOUS
  <2>2. x \in SaveCall /\ x.at = "compose"
        BY <1>3, <2>1 DEF SaveCall, Kinds
  <2> QED  BY <1>2, <1>5, <2>1, <2>2 DEF Automate
<1>6. CASE AskImport(c)
  <2>1. PICK x : x = [Unasked EXCEPT !.kind = "import", !.at = "stat"]
        OBVIOUS
  <2>2. x \in SaveCall /\ x.at = "stat"
        BY <1>3, <2>1 DEF SaveCall, Kinds
  <2> QED  BY <1>2, <1>6, <2>1, <2>2 DEF AskImport
<1> QED  BY <1>4, <1>5, <1>6

\* A call that has not chosen its path goes on, or is refused.
LEMMA PathlessMoves ==
  ASSUME FilesInv, NEW c \in Caller, call[c].at \in {"compose", "correct", "check", "stat"}, UNCHANGED file,
         NEW at \in {"correct", "check", "stat", "refused"}, MovesTo(c, at)
  PROVE  FilesInv'
<1>1. call[c] \in SaveCall  BY DEF FilesInv
<1>2. Absent \in FileText  BY DEF FileText
<1>3. PICK x : x = [call[c] EXCEPT !.at = at, !.text = IF at \in {"saved", "refused"} THEN Absent ELSE call[c].text]
      OBVIOUS
<1>4. x \in SaveCall /\ x.at = at
  <2> HIDE DEF FileText, Absent
  <2> QED  BY <1>1, <1>2, <1>3 DEF SaveCall
<1>5. call' = [call EXCEPT ![c] = x]  BY <1>3 DEF MovesTo
<1> QED  BY <1>4, <1>5, CallMovesOn

\* A draft is composed and corrected, and checked.
LEMMA DraftKeeps ==
  ASSUME FilesInv, NEW c \in Caller, ComposeDraft(c) \/ Correct(c) \/ Check(c)
  PROVE  FilesInv'
<1>1. call[c].at \in {"compose", "correct", "check"} /\ UNCHANGED file /\ call[c] \in SaveCall
      BY DEF ComposeDraft, Correct, Check, FilesInv
<1>2. CASE \E at \in {"correct", "check", "stat", "refused"} : MovesTo(c, at)
      BY <1>1, <1>2, PathlessMoves
<1>3. ASSUME NEW p \in Plans, NEW s \in {"manual", "7 am"}, NEW at \in {"check", "correct"},
             call' = [call EXCEPT ![c].first = p, ![c].plan = p, ![c].schedule = s, ![c].at = at]
      PROVE  FilesInv'
  <2>1. s \in Schedules  BY DEF Schedules, Times
  <2>2. PICK x : x = [call[c] EXCEPT !.first = p, !.plan = p, !.schedule = s, !.at = at]
        OBVIOUS
  <2>3. x \in SaveCall /\ x.at = at
    <3> HIDE DEF Plans
    <3> QED  BY <1>1, <2>1, <2>2 DEF SaveCall
  <2>4. call' = [call EXCEPT ![c] = x]  BY <1>3, <2>2
  <2> QED  BY <1>1, <2>3, <2>4, CallMovesOn
<1>4. ASSUME NEW q \in Plans, call' = [call EXCEPT ![c].plan = Corrected(call[c].first, q), ![c].at = "check"]
      PROVE  FilesInv'
  <2>1. call[c].first \in Plans \cup {NoPlan}  BY <1>1 DEF SaveCall
  <2>2. PICK r : r = Corrected(call[c].first, q)
        OBVIOUS
  <2>3. r \in Plans \cup {NoPlan}  BY <2>1, <2>2 DEF Corrected
  <2>4. PICK x : x = [call[c] EXCEPT !.plan = r, !.at = "check"]
        OBVIOUS
  <2>5. x \in SaveCall /\ x.at = "check"
        BY <1>1, <2>3, <2>4 DEF SaveCall
  <2>6. call' = [call EXCEPT ![c] = x]  BY <1>4, <2>2, <2>4
  <2> QED  BY <1>1, <2>5, <2>6, CallMovesOn
<1>5. CASE ComposeDraft(c)
      BY <1>2, <1>3, <1>5 DEF ComposeDraft
<1>6. CASE Correct(c)
      BY <1>2, <1>4, <1>6 DEF Correct
<1>7. CASE Check(c)
      BY <1>2, <1>7 DEF Check
<1> QED  BY <1>5, <1>6, <1>7

\* A call comes to the file it names, or to a name nobody has.
LEMMA PathKeeps ==
  ASSUME FilesInv, NEW c \in Caller, ChoosePath(c) \/ ImportStat(c)
  PROVE  FilesInv'
<1>1. call[c].at = "stat" /\ UNCHANGED file /\ call[c] \in SaveCall
      BY DEF ChoosePath, ImportStat, FilesInv
<1>2. CASE MovesTo(c, "refused")
      BY <1>1, <1>2, PathlessMoves
<1>3. ASSUME NEW f \in Nat, f \in Slot, f \in DOMAIN ByHand => call[c].target = f,
             call' = [call EXCEPT ![c].at = "read", ![c].path = f]
      PROVE  FilesInv'
  <2>1. PICK x : x = [call[c] EXCEPT !.at = "read", !.path = f]
        OBVIOUS
  <2>2. x \in SaveCall /\ x.at = "read" /\ x.path = f /\ x.target = call[c].target
        BY <1>1, <2>1 DEF SaveCall
  <2>3. call' = [call EXCEPT ![c] = x]  BY <1>3, <2>1
  <2> QED  BY <1>1, <1>3, <2>2, <2>3, CallMovesOn
<1>4. CASE ChoosePath(c)
  <2>1. CASE call[c].target # Hand /\ call' = [call EXCEPT ![c].at = "read", ![c].path = call[c].target]
    <3>1. call[c].target \in Slot  BY <1>1, <2>1 DEF SaveCall
    <3>2. Slot \subseteq Nat  BY FilesAssumption DEF Slot
    <3> QED  BY <1>3, <2>1, <3>1, <3>2
  <2>2. CASE FreeSlots # {} /\ call' = [call EXCEPT ![c].at = "read", ![c].path = Unique]
    <3>1. Unique \in Nat /\ Unique \in Slot /\ Unique \notin DOMAIN ByHand  BY <2>2, UniqueIsFree, HandWrittenThere
    <3> QED  BY <1>3, <2>2, <3>1
  <2> QED  BY <1>2, <1>4, <2>1, <2>2 DEF ChoosePath
<1>5. CASE ImportStat(c) /\ file[1] = Absent
  <2>1. PICK d : d = [bots |-> c, trigger |-> Manual, rest |-> c]
        OBVIOUS
  <2>2. d \in Documents
        BY <2>1 DEF Documents, Triggers, Manual, Zones
  <2>3. PICK t : t = Text(d)
        OBVIOUS
  <2>4. t \in FileText  BY <2>2, <2>3 DEF FileText
  <2>5. PICK x : x = [call[c] EXCEPT !.at = "truncate", !.path = 1, !.text = t]
        OBVIOUS
  <2>6. x \in SaveCall /\ x.at = "truncate" /\ x.path = 1
    <3> HIDE DEF FileText
    <3> QED  BY <1>1, <2>4, <2>5 DEF SaveCall
  <2>7. CASE call' = [call EXCEPT ![c].at = "truncate", ![c].path = 1, ![c].text = Text(d)]
    <3>1. call' = [call EXCEPT ![c] = x]  BY <2>3, <2>5, <2>7
    <3>2. 1 \notin DOMAIN ByHand  BY <1>5, HandWrittenThere
    <3> QED  BY <1>1, <2>6, <3>1, <3>2, CallMovesOn
  <2> QED  BY <1>2, <1>5, <2>1, <2>7 DEF ImportStat
<1> QED  BY <1>2, <1>4, <1>5 DEF ImportStat

\* The trigger a save gives a swarm is one.
LEMMA TriggerTyped ==
  ASSUME NEW c \in Caller, call[c] \in SaveCall, NEW kept \in Triggers
  PROVE  TriggerFor(c, kept) \in Triggers
<1>1. kept.zone \in Zones  BY DEF Triggers
<1>2. call[c].schedule \in Schedules /\ call[c].zone \in Zones
      BY DEF SaveCall
<1>3. PICK z : z = ZoneFor(call[c].zone, kept.zone)
      OBVIOUS
<1>4. z \in Zones  BY <1>1, <1>2, <1>3, FilesAssumption DEF ZoneFor
<1>5. CASE call[c].schedule \in {"leave", "manual"}
      BY <1>5 DEF TriggerFor, Manual, Triggers, Zones
<1>6. CASE call[c].schedule \in Times /\ call[c].schedule \notin {"leave", "manual"}
  <2>1. TriggerFor(c, kept) = [type |-> "cron", expr |-> call[c].schedule, zone |-> z]
        BY <1>3, <1>6 DEF TriggerFor
  <2> HIDE DEF Times, Zones, NoTime
  <2> QED  BY <1>4, <1>6, <2>1 DEF Triggers
<1> QED  BY <1>2, <1>5, <1>6 DEF Schedules

\* A save replaces what it models and keeps the rest, and of the trigger what
\* it was not asked to change.
LEMMA MergedIsFaithful ==
  ASSUME NEW c \in Caller, call[c] \in SaveCall, NEW f, NEW d \in Documents, Faithful(f, d), c \in Reached(f)
  PROVE  Merged(c, d) \in Documents /\ Faithful(f, Merged(c, d))
<1>1. d.trigger \in Triggers  BY DEF Documents
<1>2. PICK t \in Triggers : t = TriggerFor(c, d.trigger)
      BY <1>1, TriggerTyped
<1>3. PICK e : e = [d EXCEPT !.bots = c, !.trigger = t]
      OBVIOUS
<1>4. e \in Documents /\ e.rest = d.rest /\ e.trigger = t
  <2> HIDE DEF Triggers
  <2> QED  BY <1>2, <1>3 DEF Documents
<1>5. Merged(c, d) = e  BY <1>2, <1>3 DEF Merged
<1>6. call[c].schedule = "leave" => t = d.trigger
      BY <1>2 DEF TriggerFor
<1>7. call[c].schedule # "manual" /\ call[c].zone = NoZone /\ d.trigger.zone # NoZone => t.zone = d.trigger.zone
      BY <1>2 DEF TriggerFor, ZoneFor
<1>8. Faithful(f, e)
      BY <1>4, <1>6, <1>7 DEF Faithful
<1> QED  BY <1>4, <1>5, <1>8

\* A save reads its file and merges into what is there.
LEMMA ReadFileKeeps ==
  ASSUME FilesInv, NEW c \in Caller, ReadFileAt(c)
  PROVE  FilesInv'
<1>1. call[c].at = "read" /\ UNCHANGED file /\ call[c] \in SaveCall
      BY DEF ReadFileAt, FilesInv
<1>2. CASE MovesTo(c, "refused")
  <2>1. PICK t \in FileText : t = Absent
        BY DEF FileText
  <2>2. PICK x : x = [call[c] EXCEPT !.at = "refused", !.text = t]
        OBVIOUS
  <2>3. call' = [call EXCEPT ![c] = x]  BY <1>2, <2>1, <2>2 DEF MovesTo
  <2>4. /\ x \in SaveCall /\ x.at = "refused" /\ x.path = call[c].path /\ x.target = call[c].target
        /\ x.schedule = call[c].schedule /\ x.zone = call[c].zone
    <3> HIDE DEF FileText
    <3> QED  BY <1>1, <2>2 DEF SaveCall
  <2> QED  BY <1>1, <2>3, <2>4, CallMovesOn
<1>3. ASSUME NEW t \in FileText, call' = [call EXCEPT ![c].at = "truncate", ![c].text = t],
             call[c].path \in DOMAIN ByHand =>
                \E d \in Documents : t = Text(d) /\ Faithful(call[c].path, d)
      PROVE  FilesInv'
  <2>1. PICK x : x = [call[c] EXCEPT !.at = "truncate", !.text = t]
        OBVIOUS
  <2>2. /\ x \in SaveCall /\ x.at = "truncate" /\ x.text = t /\ x.path = call[c].path /\ x.target = call[c].target
        /\ x.schedule = call[c].schedule /\ x.zone = call[c].zone
    <3> HIDE DEF FileText
    <3> QED  BY <1>1, <2>1 DEF SaveCall
  <2>3. call' = [call EXCEPT ![c] = x]  BY <1>3, <2>1
  <2>4. \A f, d : Faithful(f, d) => Faithful(f, d)'
        BY <1>1, <2>2, <2>3, CallMoves
  <2>5. call[c].path \in DOMAIN ByHand => call[c].target = call[c].path
        BY <1>1 DEF FilesInv, AboutToWrite
  <2>6. x.path \in DOMAIN ByHand => \E d \in Documents : x.text = Text(d) /\ Faithful(x.path, d)'
        BY <1>3, <2>2, <2>4
  <2> HIDE DEF SaveCall
  <2> QED  BY <1>1, <2>2, <2>3, <2>5, <2>6, CallMovesOn
<1>4. ASSUME NEW there, there = file[call[c].path], there # Cut,
             NEW d, d = IF there = Absent THEN Marshalled(c) ELSE Merged(c, there.doc),
             call' = [call EXCEPT ![c].at = "truncate", ![c].text = Text(d)]
      PROVE  FilesInv'
  <2>1. CASE call[c].path \in DOMAIN ByHand
    <3>1. PICK f \in DOMAIN ByHand : f = call[c].path
          BY <2>1
    <3>2. call[c].target = f /\ c \in Reached(f)  BY <1>1, <3>1 DEF FilesInv, AboutToWrite, Reached
    <3>3. PICK e \in Documents : there = Text(e) /\ Faithful(f, e)
          BY <1>4, <3>1 DEF FilesInv, OnDisk
    <3>4. d = Merged(c, e)  BY <1>4, <3>3, TextIsText
    <3>5. d \in Documents /\ Faithful(f, d)  BY <1>1, <3>2, <3>3, <3>4, MergedIsFaithful
    <3>6. PICK t \in FileText : t = Text(d)  BY <3>5 DEF FileText
    <3> QED  BY <1>3, <1>4, <3>1, <3>5, <3>6
  <2>2. CASE call[c].path \notin DOMAIN ByHand
    <3>1. d \in Documents
      <4>1. CASE there = Absent
        <5>1. Manual \in Triggers  BY DEF Triggers, Manual, Zones
        <5>2. PICK t \in Triggers : t = TriggerFor(c, Manual)
              BY <1>1, <5>1, TriggerTyped
        <5>3. d = [bots |-> c, trigger |-> t, rest |-> c]
              BY <1>4, <4>1, <5>2 DEF Marshalled
        <5> HIDE DEF Triggers
        <5> QED  BY <5>2, <5>3 DEF Documents
      <4>2. CASE there # Absent
        <5>1. call[c].path \in Slot  BY <1>1 DEF FilesInv
        <5>2. PICK e \in Documents : there = Text(e)
              BY <1>4, <4>2, <5>1 DEF FilesInv, FileText
        <5>3. d = Merged(c, e)  BY <1>4, <4>2, <5>2, TextIsText
        <5>4. e.trigger \in Triggers  BY DEF Documents
        <5>5. PICK t \in Triggers : t = TriggerFor(c, e.trigger)
              BY <1>1, <5>4, TriggerTyped
        <5>6. d = [e EXCEPT !.bots = c, !.trigger = t]  BY <5>3, <5>5 DEF Merged
        <5> HIDE DEF Triggers
        <5> QED  BY <5>5, <5>6 DEF Documents
      <4> QED  BY <4>1, <4>2
    <3>2. PICK t \in FileText : t = Text(d)  BY <3>1 DEF FileText
    <3> QED  BY <1>3, <1>4, <2>2, <3>2
  <2> QED  BY <2>1, <2>2
<1> QED  BY <1>1, <1>2, <1>4 DEF ReadFileAt

\* A file is cut short and filled, one's own text or over somebody else's.
LEMMA WriteKeeps ==
  ASSUME FilesInv, NEW c \in Caller, CutShort(c) \/ FillIn(c)
  PROVE  FilesInv'
<1>1. call[c].at \in {"truncate", "fill"} /\ call[c] \in SaveCall
      BY DEF CutShort, FillIn, FilesInv
<1>2. PICK at, t : /\ at \in {"fill", "saved"} /\ t \in FileText /\ call' = [call EXCEPT ![c].at = at, ![c].text = t]
                   /\ at = "fill" => t = call[c].text
  <2>1. Absent \in FileText /\ call[c].text \in FileText  BY <1>1 DEF FileText, SaveCall
  <2>2. CASE MovesTo(c, "fill")  BY <2>1, <2>2 DEF MovesTo
  <2>3. CASE MovesTo(c, "saved")
    <3>1. PICK u \in FileText : u = Absent  BY <2>1
    <3>2. call' = [call EXCEPT ![c].at = "saved", ![c].text = u]  BY <2>3, <3>1 DEF MovesTo
    <3> WITNESS "saved", u
    <3> QED  BY <3>1, <3>2
  <2> QED  BY <2>2, <2>3 DEF CutShort, FillIn
<1>3. PICK x : x = [call[c] EXCEPT !.at = at, !.text = t]
      OBVIOUS
<1>4. /\ x \in SaveCall /\ x.at = at /\ x.text = t /\ x.path = call[c].path /\ x.target = call[c].target
      /\ x.schedule = call[c].schedule /\ x.zone = call[c].zone
  <2> HIDE DEF FileText
  <2> QED  BY <1>1, <1>2, <1>3 DEF SaveCall
<1>5. call' = [call EXCEPT ![c] = x]  BY <1>2, <1>3
<1>6. /\ call' \in [Caller -> SaveCall] /\ call'[c] = x /\ \A d \in Caller : d # c => call'[d] = call[d]
      /\ \A f, d : Faithful(f, d) => Faithful(f, d)'
      BY <1>1, <1>2, <1>4, <1>5, CallMoves
<1>7. PICK u \in {Cut, call[c].text} : file' = [file EXCEPT ![call[c].path] = u]
      BY DEF CutShort, FillIn
<1>8. u \in FileText
  <2>1. Cut \in FileText /\ call[c].text \in FileText  BY <1>1 DEF FileText, SaveCall
  <2> QED  BY <2>1
<1> HIDE DEF SaveCall, FileText
<1>9. file' \in [Slot -> FileText] /\ \A f \in Slot : file'[f] \in {file[f]} \cup (IF f = call[c].path THEN {u} ELSE {})
      BY <1>7, <1>8 DEF FilesInv
<1>10. ASSUME NEW f \in DOMAIN ByHand PROVE OnDisk(f)' /\ AboutToWrite(f)'
  <2>1. OnDisk(f) /\ AboutToWrite(f)  BY DEF FilesInv
  <2>2. f = call[c].path => \E d \in Documents : call[c].text = Text(d) /\ Faithful(f, d)
        BY <1>1, <2>1 DEF AboutToWrite
  <2>3. OnDisk(f)'
        BY <1>6, <1>9, <2>1, <2>2, HandWrittenThere DEF OnDisk
  <2>4. ASSUME NEW e \in Caller, call'[e].path = f, call'[e].at \in {"read", "truncate", "fill", "saved"}
        PROVE  /\ call'[e].target = f
               /\ call'[e].at \in {"truncate", "fill"} => \E d \in Documents : call'[e].text = Text(d) /\ Faithful(f, d)'
    <3>1. CASE e = c  BY <1>1, <1>2, <1>4, <1>6, <2>1, <2>2, <2>4, <3>1 DEF AboutToWrite
    <3>2. CASE e # c
      <4>1. call'[e] = call[e]  BY <1>6, <3>2
      <4> QED  BY <1>6, <2>1, <2>4, <4>1 DEF AboutToWrite
    <3> QED  BY <3>1, <3>2
  <2> QED  BY <2>3, <2>4 DEF AboutToWrite
<1>11. \A e \in Caller : call'[e].at = "read" => call'[e].path \in Slot
      BY <1>2, <1>4, <1>6 DEF FilesInv
<1> QED  BY <1>6, <1>9, <1>10, <1>11 DEF FilesInv

\* The daemon dies in the middle of any saves: their files stay as they are.
LEMMA FallKeeps ==
  ASSUME FilesInv, DaemonFalls
  PROVE  FilesInv'
<1>1. UNCHANGED file  BY DEF DaemonFalls
<1>2. ASSUME NEW c \in Caller
      PROVE  /\ call'[c] \in SaveCall /\ call'[c].path = call[c].path /\ call'[c].target = call[c].target
             /\ call'[c].schedule = call[c].schedule /\ call'[c].zone = call[c].zone
             /\ call'[c].at = IF Over(c) THEN call[c].at ELSE "refused"
  <2>1. call[c] \in SaveCall  BY DEF FilesInv
  <2>2. CASE Over(c)
        BY <2>1, <2>2 DEF DaemonFalls
  <2>3. CASE ~Over(c)
    <3>1. PICK t \in FileText : t = Absent  BY DEF FileText
    <3>2. PICK x : x = [call[c] EXCEPT !.at = "refused", !.text = t]
          OBVIOUS
    <3>3. call'[c] = x  BY <2>3, <3>1, <3>2 DEF DaemonFalls
    <3> HIDE DEF FileText
    <3>4. /\ x \in SaveCall /\ x.at = "refused" /\ x.path = call[c].path /\ x.target = call[c].target
          /\ x.schedule = call[c].schedule /\ x.zone = call[c].zone
          BY <2>1, <3>2 DEF SaveCall
    <3> QED  BY <2>3, <3>3, <3>4
  <2> QED  BY <2>2, <2>3
<1>3. call' \in [Caller -> SaveCall]
  <2>1. call' = [c \in Caller |-> call'[c]]  BY DEF DaemonFalls
  <2> HIDE DEF SaveCall
  <2> QED  BY <1>2, <2>1
<1>4. \A f, d : Faithful(f, d) => Faithful(f, d)'
  <2>1. \A f : \A c \in Reached(f) : c \in Reached(f)' /\ call'[c].schedule = call[c].schedule /\ call'[c].zone = call[c].zone
        BY <1>2 DEF Reached
  <2> QED  BY <2>1, FaithfulStays
<1>5. ASSUME NEW f \in DOMAIN ByHand PROVE OnDisk(f)' /\ AboutToWrite(f)'
      BY <1>1, <1>2, <1>4 DEF FilesInv, OnDisk, AboutToWrite, Over
<1>6. \A c \in Caller : call'[c].at # "read"
      BY <1>2 DEF Over
<1> QED  BY <1>1, <1>3, <1>5, <1>6 DEF FilesInv

\* Every step keeps the invariant.
LEMMA FilesInvStep == FilesInv /\ [FilesNext]_fileVars => FilesInv'
<1> SUFFICES ASSUME FilesInv, [FilesNext]_fileVars PROVE FilesInv'
    OBVIOUS
<1>1. CASE UNCHANGED fileVars
      BY <1>1 DEF fileVars, FilesInv, OnDisk, AboutToWrite, Faithful, Reached
<1> QED  BY <1>1, AskKeeps, DraftKeeps, PathKeeps, ReadFileKeeps, WriteKeeps, FallKeeps DEF FilesNext

\* A swarm somebody wrote by hand keeps what no save has asked to change,
\* however many saves overlap and wherever the daemon dies in them
\* (api/builder.go, swarmmerge.go).
THEOREM HandWrittenKept == FilesSpec => []HandWrittenSurvives
<1>1. FilesInv /\ [FilesNext]_fileVars => FilesInv'  BY FilesInvStep
<1>2. FilesInv => HandWrittenSurvives
  <2> SUFFICES ASSUME FilesInv, NEW f \in DOMAIN ByHand, file[f] # Cut, NEW now, now = file[f].doc
               PROVE  /\ now.rest = Hand
                      /\ (\A c \in Reached(f) : call[c].schedule = "leave") => now.trigger = ByHand[f]
                      /\ (\A c \in Reached(f) : call[c].schedule # "manual" /\ call[c].zone = NoZone) /\ ByHand[f].zone # NoZone
                            => now.trigger.zone = ByHand[f].zone
      BY DEF HandWrittenSurvives
  <2>1. PICK d \in Documents : file[f] = Text(d) /\ Faithful(f, d)  BY DEF FilesInv, OnDisk
  <2>2. now = d  BY <2>1, TextIsText
  <2> QED  BY <2>1, <2>2 DEF Faithful
<1> QED  BY <1>1, <1>2, FilesInvInit, PTL DEF FilesSpec

\* Every request has a path of the directory, before it has chosen it too.
PathsTyped == (\A c \in Caller : call[c].path \in Slot) /\ falls \in 0..Falls

\* Nobody has asked for a save.
LEMMA PathsTypedInit == FilesInit => PathsTyped
<1> SUFFICES ASSUME FilesInit PROVE PathsTyped
    OBVIOUS
<1>1. \A c \in Caller : call[c].path = 1  BY DEF FilesInit, Unasked
<1> QED  BY <1>1, FilesAssumption DEF FilesInit, PathsTyped, Slot

\* A save chooses a path of the directory and keeps it.
LEMMA PathsTypedStep == FilesInv /\ PathsTyped /\ [FilesNext]_fileVars => PathsTyped'
<1> SUFFICES ASSUME FilesInv, PathsTyped, [FilesNext]_fileVars PROVE PathsTyped'
    OBVIOUS
<1>1. 1 \in Slot  BY FilesAssumption DEF Slot
<1>2. ASSUME NEW c \in Caller, NEW x, call' = [call EXCEPT ![c] = x], x.path \in Slot, UNCHANGED falls
      PROVE  PathsTyped'
      BY <1>2 DEF PathsTyped, FilesInv
<1>3. ASSUME NEW c \in Caller, NEW at, MovesTo(c, at), UNCHANGED falls PROVE PathsTyped'
  <2>1. PICK x : x = [call[c] EXCEPT !.at = at, !.text = IF at \in {"saved", "refused"} THEN Absent ELSE call[c].text]
        OBVIOUS
  <2>2. call[c] \in SaveCall  BY DEF FilesInv
  <2>3. x.path = call[c].path  BY <2>1, <2>2 DEF SaveCall
  <2>4. call' = [call EXCEPT ![c] = x]  BY <1>3, <2>1 DEF MovesTo
  <2> QED  BY <1>2, <1>3, <2>3, <2>4 DEF PathsTyped
<1>4. ASSUME NEW c \in Caller, AskSave(c) \/ Automate(c) \/ AskImport(c) PROVE PathsTyped'
  <2>1. UNCHANGED falls  BY <1>4 DEF AskSave, Automate, AskImport, Arrives
  <2>2. CASE AskSave(c)
    <3>1. PICK f, s, z : call' = [call EXCEPT ![c] = [Unasked EXCEPT !.at = "check", !.target = f, !.schedule = s, !.zone = z]]
          BY <2>2 DEF AskSave
    <3>2. PICK x : x = [Unasked EXCEPT !.at = "check", !.target = f, !.schedule = s, !.zone = z]
          OBVIOUS
    <3>3. x.path = 1  BY <3>2 DEF Unasked
    <3> QED  BY <1>1, <1>2, <2>1, <3>1, <3>2, <3>3
  <2>3. CASE Automate(c)
    <3>2. PICK x : x = [Unasked EXCEPT !.kind = "automate", !.at = "compose"]
          OBVIOUS
    <3>3. x.path = 1  BY <3>2 DEF Unasked
    <3> QED  BY <1>1, <1>2, <2>1, <2>3, <3>2, <3>3 DEF Automate
  <2>4. CASE AskImport(c)
    <3>2. PICK x : x = [Unasked EXCEPT !.kind = "import", !.at = "stat"]
          OBVIOUS
    <3>3. x.path = 1  BY <3>2 DEF Unasked
    <3> QED  BY <1>1, <1>2, <2>1, <2>4, <3>2, <3>3 DEF AskImport
  <2> QED  BY <1>4, <2>2, <2>3, <2>4
<1>5. ASSUME NEW c \in Caller, ComposeDraft(c) \/ Correct(c) \/ Check(c) \/ CutShort(c) \/ FillIn(c) PROVE PathsTyped'
  <2>1. UNCHANGED falls /\ call[c] \in SaveCall  BY <1>5 DEF ComposeDraft, Correct, Check, CutShort, FillIn, FilesInv
  <2>2. ASSUME NEW p, NEW s, NEW at,
               call' = [call EXCEPT ![c].first = p, ![c].plan = p, ![c].schedule = s, ![c].at = at]
        PROVE  PathsTyped'
    <3>1. PICK x : x = [call[c] EXCEPT !.first = p, !.plan = p, !.schedule = s, !.at = at]
          OBVIOUS
    <3>2. x.path = call[c].path  BY <2>1, <3>1 DEF SaveCall
    <3>3. call' = [call EXCEPT ![c] = x]  BY <2>2, <3>1
    <3> QED  BY <1>2, <2>1, <3>2, <3>3 DEF PathsTyped
  <2>3. ASSUME NEW q, call' = [call EXCEPT ![c].plan = q, ![c].at = "check"]
        PROVE  PathsTyped'
    <3>1. PICK x : x = [call[c] EXCEPT !.plan = q, !.at = "check"]
          OBVIOUS
    <3>2. x.path = call[c].path  BY <2>1, <3>1 DEF SaveCall
    <3>3. call' = [call EXCEPT ![c] = x]  BY <2>3, <3>1
    <3> QED  BY <1>2, <2>1, <3>2, <3>3 DEF PathsTyped
  <2>4. CASE ComposeDraft(c)
    <3>1. CASE MovesTo(c, "refused")  BY <1>3, <2>1, <3>1
    <3>2. CASE ~MovesTo(c, "refused")
      <4>1. PICK p \in Plans, s \in {"manual", "7 am"} :
               call' = [call EXCEPT ![c].first = p, ![c].plan = p, ![c].schedule = s,
                                    ![c].at = IF PlanOK(p) THEN "check" ELSE "correct"]
            BY <2>4, <3>2 DEF ComposeDraft
      <4> QED  BY <2>2, <4>1
    <3> QED  BY <3>1, <3>2
  <2>5. CASE Correct(c)
    <3>1. CASE MovesTo(c, "check")  BY <1>3, <2>1, <3>1
    <3>2. CASE ~MovesTo(c, "check")
      <4>1. PICK q : call' = [call EXCEPT ![c].plan = q, ![c].at = "check"]
            BY <2>5, <3>2 DEF Correct
      <4> QED  BY <2>3, <4>1
    <3> QED  BY <3>1, <3>2
  <2>6. CASE Check(c) \/ CutShort(c) \/ FillIn(c)
    <3>1. \E at : MovesTo(c, at)  BY <2>6 DEF Check, CutShort, FillIn
    <3> QED  BY <1>3, <2>1, <3>1
  <2> QED  BY <1>5, <2>4, <2>5, <2>6
<1>6. ASSUME NEW c \in Caller, ChoosePath(c) PROVE PathsTyped'
  <2>1. UNCHANGED falls /\ call[c] \in SaveCall  BY <1>6 DEF ChoosePath, FilesInv
  <2>2. CASE MovesTo(c, "refused")  BY <1>3, <2>1, <2>2
  <2>3. ASSUME NEW f \in Slot, call' = [call EXCEPT ![c].at = "read", ![c].path = f] PROVE PathsTyped'
    <3>1. PICK x : x = [call[c] EXCEPT !.at = "read", !.path = f]
          OBVIOUS
    <3>2. x.path = f  BY <2>1, <3>1 DEF SaveCall
    <3>3. call' = [call EXCEPT ![c] = x]  BY <2>3, <3>1
    <3> QED  BY <1>2, <2>1, <3>2, <3>3
  <2>4. CASE call[c].target # Hand /\ call' = [call EXCEPT ![c].at = "read", ![c].path = call[c].target]
    <3>1. call[c].target \in Slot  BY <2>1, <2>4 DEF SaveCall
    <3> QED  BY <2>3, <2>4, <3>1
  <2>5. CASE FreeSlots # {} /\ call' = [call EXCEPT ![c].at = "read", ![c].path = Unique]
    <3>1. Unique \in Slot  BY <2>5, UniqueIsFree
    <3> QED  BY <2>3, <2>5, <3>1
  <2> QED  BY <1>6, <2>2, <2>4, <2>5 DEF ChoosePath
<1>7. ASSUME NEW c \in Caller, ReadFileAt(c) \/ ImportStat(c) PROVE PathsTyped'
  <2>1. UNCHANGED falls /\ call[c] \in SaveCall  BY <1>7 DEF ReadFileAt, ImportStat, FilesInv
  <2>2. CASE MovesTo(c, "refused")  BY <1>3, <2>1, <2>2
  <2>3. ASSUME NEW t, call' = [call EXCEPT ![c].at = "truncate", ![c].text = t] PROVE PathsTyped'
    <3>1. PICK x : x = [call[c] EXCEPT !.at = "truncate", !.text = t]
          OBVIOUS
    <3>2. x.path = call[c].path  BY <2>1, <3>1 DEF SaveCall
    <3>3. call' = [call EXCEPT ![c] = x]  BY <2>3, <3>1
    <3> QED  BY <1>2, <2>1, <3>2, <3>3 DEF PathsTyped
  <2>4. ASSUME NEW t, call' = [call EXCEPT ![c].at = "truncate", ![c].path = 1, ![c].text = t] PROVE PathsTyped'
    <3>1. PICK x : x = [call[c] EXCEPT !.at = "truncate", !.path = 1, !.text = t]
          OBVIOUS
    <3>2. x.path = 1  BY <2>1, <3>1 DEF SaveCall
    <3>3. call' = [call EXCEPT ![c] = x]  BY <2>4, <3>1
    <3> QED  BY <1>1, <1>2, <2>1, <3>2, <3>3
  <2>5. CASE ~MovesTo(c, "refused")
    <3>1. \/ \E t : call' = [call EXCEPT ![c].at = "truncate", ![c].text = t]
          \/ \E t : call' = [call EXCEPT ![c].at = "truncate", ![c].path = 1, ![c].text = t]
          BY <1>7, <2>5 DEF ReadFileAt, ImportStat
    <3> QED  BY <2>3, <2>4, <3>1
  <2> QED  BY <2>2, <2>5
<1>8. CASE DaemonFalls
  <2>0. Falls \in Nat /\ falls \in 0..Falls  BY FilesAssumption DEF PathsTyped
  <2>3. falls < Falls /\ falls' = falls + 1  BY <1>8 DEF DaemonFalls
  <2>1. falls' \in 0..Falls  BY <2>0, <2>3
  <2>2. ASSUME NEW c \in Caller PROVE call'[c].path = call[c].path
    <3>1. call[c] \in SaveCall  BY DEF FilesInv
    <3>2. PICK x : x = [call[c] EXCEPT !.at = "refused", !.text = Absent]
          OBVIOUS
    <3>3. x.path = call[c].path  BY <3>1, <3>2 DEF SaveCall
    <3>4. call'[c] \in {call[c], x}  BY <1>8, <3>2 DEF DaemonFalls
    <3> QED  BY <3>3, <3>4
  <2> QED  BY <2>1, <2>2 DEF PathsTyped
<1>9. CASE UNCHANGED fileVars  BY <1>9 DEF fileVars, PathsTyped
<1> QED  BY <1>4, <1>5, <1>6, <1>7, <1>8, <1>9 DEF FilesNext

\* A swarm's file is absent, cut short or a whole document, and every save has
\* a path of the directory and a plan the planner can give.
THEOREM FilesTypes == FilesSpec => []FilesTypeOK
<1>1. FilesInv /\ PathsTyped => FilesTypeOK
  <2> SUFFICES ASSUME FilesInv, PathsTyped PROVE FilesTypeOK
      OBVIOUS
  <2>1. ASSUME NEW f \in Slot PROVE file[f] \in {Absent, Cut} \/ file[f].doc \in Documents
    <3>1. file[f] \in FileText  BY DEF FilesInv
    <3>2. CASE file[f] \in {Absent, Cut}  BY <3>2
    <3>3. CASE file[f] \notin {Absent, Cut}
      <4>1. PICK d \in Documents : file[f] = Text(d)  BY <3>1, <3>3 DEF FileText
      <4> QED  BY <4>1, TextIsText
    <3> QED  BY <3>2, <3>3
  <2>2. NoPlan \in Plans  BY DEF NoPlan, Plans
  <2>3. ASSUME NEW c \in Caller
        PROVE  /\ call[c].kind \in Kinds /\ call[c].path \in Slot /\ call[c].target \in Slot \cup {Hand}
               /\ call[c].at \in {"new", "compose", "correct", "check", "stat", "read", "truncate", "fill",
                                  "saved", "refused"}
               /\ {call[c].first, call[c].plan} \subseteq Plans
    <3>1. call[c] \in SaveCall  BY DEF FilesInv
    <3> HIDE DEF FileText, Plans, Kinds
    <3>2. /\ call[c].kind \in Kinds /\ call[c].target \in Slot \cup {Hand}
          /\ call[c].at \in {"new", "compose", "correct", "check", "stat", "read", "truncate", "fill",
                                  "saved", "refused"}
          /\ call[c].first \in Plans \cup {NoPlan} /\ call[c].plan \in Plans \cup {NoPlan}
          BY <3>1 DEF SaveCall
    <3> QED  BY <2>2, <3>2 DEF PathsTyped
  <2> QED  BY <2>1, <2>3 DEF FilesTypeOK, PathsTyped
<1> QED  BY <1>1, FilesInvInit, PathsTypedInit, FilesInvStep, PathsTypedStep, PTL DEF FilesSpec

-----------------------------------------------------------------------------
(* Setup.                                                                  *)

PressRecord == [at : {"new", "waiting", "exchanging", "over"}, service : Services]
LinkRecord == [token : Nat, n : Nat]
ConnectShapes ==
    /\ boot.n \in Nat /\ local \in [Paths -> Nat] /\ vault \in [Paths -> Nat]
    /\ connect \in [Press -> PressRecord] /\ linked \in [Services -> LinkRecord]

\* A request that waits for the browser is for a provider.
PressSound(c) == connect[c].at \in {"waiting", "exchanging"} => connect[c].service \in OAuth

\* What this start has said is connected is kept where it reads.
LinkSound(s) ==
    /\ linked[s].n <= boot.n
    /\ s # "linkedin" /\ linked[s].token # NoToken /\ linked[s].n = boot.n => Kept(s) = linked[s].token

SetupInv ==
    /\ ConnectShapes
    /\ \A c \in Press : PressSound(c)
    /\ \A s \in Services : LinkSound(s)

\* The services are where their secrets are kept.
LEMMA ServicesArePaths == Services \subseteq Paths /\ "linkedin_access" \in Paths /\ "linkedin_access" \notin Services
BY DEF Services, Paths, Pasted, OAuth

\* Nothing has been connected.
LEMMA SetupInvInit == SetupInit => SetupInv
<1> SUFFICES ASSUME SetupInit PROVE SetupInv
    OBVIOUS
<1>1. boot.n = 0 /\ local \in [Paths -> Nat] /\ vault \in [Paths -> Nat]
      BY DEF SetupInit, NoToken
<1>2. Unpressed \in PressRecord /\ Unpressed.at = "new"
      BY DEF Unpressed, PressRecord, Services, Pasted
<1>3. connect \in [Press -> PressRecord] /\ \A c \in Press : connect[c].at = "new"
  <2> HIDE DEF PressRecord
  <2> QED  BY <1>2 DEF SetupInit
<1>4. linked \in [Services -> LinkRecord] /\ \A s \in Services : linked[s].token = NoToken /\ linked[s].n = 0
  <2>1. PICK r : r = [token |-> NoToken, n |-> 0]
        OBVIOUS
  <2>2. r \in LinkRecord /\ r.token = NoToken /\ r.n = 0  BY <2>1 DEF LinkRecord, NoToken
  <2>3. linked = [s \in Services |-> r]  BY <2>1 DEF SetupInit
  <2> HIDE DEF LinkRecord
  <2> QED  BY <2>2, <2>3
<1>5. ConnectShapes  BY <1>1, <1>3, <1>4 DEF ConnectShapes
<1> QED  BY <1>1, <1>3, <1>4, <1>5 DEF SetupInv, PressSound, LinkSound

\* What a secret is kept under is read from there, and no other path.
LEMMA StoredAt ==
  ASSUME ConnectShapes, NEW p \in Paths, NEW t \in Nat, UNCHANGED boot, Store(p, t)
  PROVE  /\ local' \in [Paths -> Nat] /\ vault' \in [Paths -> Nat]
         /\ Kept(p)' = t /\ \A q \in Paths : q # p => Kept(q)' = Kept(q)
<1>1. CASE p \in Pasted /\ Backend = "file"
  <2>1. local' = [local EXCEPT ![p] = t] /\ vault' = vault /\ Backend' = Backend
        BY <1>1 DEF Store, Backend, OneClaw
  <2> QED  BY <1>1, <2>1 DEF ConnectShapes, Kept
<1>2. CASE ~(p \in Pasted /\ Backend = "file")
  <2>1. vault' = [vault EXCEPT ![p] = t] /\ local' = local /\ Backend' = Backend
        BY <1>2 DEF Store, Backend, OneClaw
  <2> QED  BY <1>2, <2>1 DEF ConnectShapes, Kept
<1> QED  BY <1>1, <1>2

\* A press goes on, and the others do not.
LEMMA OnePress ==
  ASSUME connect \in [Press -> PressRecord], NEW c \in Press, NEW x \in PressRecord, connect' = [connect EXCEPT ![c] = x]
  PROVE  /\ connect' \in [Press -> PressRecord] /\ connect'[c] = x
         /\ \A d \in Press : d # c => connect'[d] = connect[d]
<1> HIDE DEF PressRecord
<1> QED  OBVIOUS

\* A token is stored, and its service is told it is connected.
LEMMA LinkingKeeps ==
  ASSUME SetupInv, NEW c \in Press, NEW s \in Services, NEW p \in Paths, Store(p, c), Linked(c, s), UNCHANGED boot,
         p = s \/ (s = "linkedin" /\ p = "linkedin_access"),
         NEW x \in PressRecord, x.at = "over", connect' = [connect EXCEPT ![c] = x]
  PROVE  SetupInv'
<1>1. c \in Nat /\ c # NoToken  BY SetupAssumption DEF Press, NoToken
<1>2. /\ connect' \in [Press -> PressRecord] /\ connect'[c] = x
      /\ \A d \in Press : d # c => connect'[d] = connect[d]
      BY OnePress DEF SetupInv, ConnectShapes
<1>3. /\ local' \in [Paths -> Nat] /\ vault' \in [Paths -> Nat]
      /\ Kept(p)' = c /\ \A q \in Paths : q # p => Kept(q)' = Kept(q)
      BY <1>1, StoredAt DEF SetupInv
<1>4. PICK r \in LinkRecord : r = [token |-> c, n |-> boot.n]
      BY <1>1 DEF LinkRecord, SetupInv, ConnectShapes
<1>5. linked' = [linked EXCEPT ![s] = r] /\ r.token = c /\ r.n = boot.n
      BY <1>4 DEF Linked
<1>6. /\ linked' \in [Services -> LinkRecord] /\ linked'[s] = r
      /\ \A z \in Services : z # s => linked'[z] = linked[z]
  <2> HIDE DEF LinkRecord
  <2> QED  BY <1>5 DEF SetupInv, ConnectShapes
<1>7. boot'.n = boot.n /\ boot.n \in Nat
      BY DEF SetupInv, ConnectShapes
<1>8. ConnectShapes'  BY <1>2, <1>3, <1>6, <1>7 DEF ConnectShapes
<1>9. ASSUME NEW d \in Press PROVE PressSound(d)'
  <2>1. CASE d = c  BY <1>2, <2>1 DEF PressSound
  <2>2. CASE d # c
    <3>1. connect[d].service \in Services  BY DEF SetupInv, ConnectShapes, PressRecord
    <3>2. connect'[d] = connect[d]  BY <1>2, <2>2
    <3> QED  BY <1>7, <3>1, <3>2 DEF SetupInv, PressSound
  <2> QED  BY <2>1, <2>2
<1>10. ASSUME NEW z \in Services PROVE LinkSound(z)'
  <2>1. CASE z = s
        BY <1>3, <1>5, <1>6, <1>7, <2>1 DEF LinkSound
  <2>2. CASE z # s
    <3>1. z # p /\ z \in Paths  BY <2>2, ServicesArePaths
    <3> QED  BY <1>3, <1>6, <1>7, <2>2, <3>1 DEF SetupInv, LinkSound
  <2> QED  BY <2>1, <2>2
<1> QED  BY <1>8, <1>9, <1>10 DEF SetupInv

\* Somebody presses Connect.
LEMMA PressKeeps ==
  ASSUME SetupInv, NEW c \in Press,
         Paste(c) \/ BeginOAuth(c) \/ Redirected(c) \/ Approved(c) \/ NotApproved(c)
  PROVE  SetupInv'
<1>1. connect[c] \in PressRecord /\ UNCHANGED boot
      BY DEF SetupInv, ConnectShapes, Paste, BeginOAuth, Redirected, Approved, NotApproved
<1>2. ASSUME NEW x \in PressRecord, connect' = [connect EXCEPT ![c] = x], UNCHANGED <<local, vault, linked>>,
             x.at \in {"waiting", "exchanging"} => x.service \in OAuth
      PROVE  SetupInv'
  <2>1. /\ connect' \in [Press -> PressRecord] /\ connect'[c] = x
        /\ \A d \in Press : d # c => connect'[d] = connect[d]
        BY <1>2, OnePress DEF SetupInv, ConnectShapes
  <2>2. \A s : Kept(s)' = Kept(s)
        BY <1>1, <1>2 DEF OneClaw, Kept, Backend
  <2>3. ConnectShapes'  BY <1>1, <1>2, <2>1 DEF SetupInv, ConnectShapes
  <2>4. \A d \in Press : PressSound(d)'
        BY <1>2, <2>1 DEF SetupInv, PressSound
  <2>5. \A s \in Services : LinkSound(s)'
        BY <1>1, <1>2, <2>2 DEF SetupInv, LinkSound
  <2> QED  BY <2>3, <2>4, <2>5 DEF SetupInv
<1>3. CASE Paste(c)
  <2>1. PICK s \in Pasted : /\ Store(s, c) /\ Linked(c, s)
                            /\ connect' = [connect EXCEPT ![c] = [at |-> "over", service |-> s]]
        BY <1>3 DEF Paste
  <2>2. s \in Services /\ s \in Paths
        BY <2>1, ServicesArePaths DEF Services
  <2>3. PICK x \in PressRecord : x = [at |-> "over", service |-> s]
        BY <2>2 DEF PressRecord
  <2>4. x.at = "over" /\ connect' = [connect EXCEPT ![c] = x]  BY <2>1, <2>3
  <2> QED  BY <1>1, <2>1, <2>2, <2>4, LinkingKeeps
<1>4. CASE BeginOAuth(c)
  <2>1. PICK s \in OAuth : connect' = [connect EXCEPT ![c] = [at |-> "waiting", service |-> s]]
        BY <1>4 DEF BeginOAuth
  <2>2. PICK x \in PressRecord : x = [at |-> "waiting", service |-> s]
        BY DEF PressRecord, Services
  <2>3. x.service \in OAuth  BY <2>1, <2>2
  <2>4. connect' = [connect EXCEPT ![c] = x]  BY <2>1, <2>2
  <2>5. UNCHANGED <<local, vault, linked>>  BY <1>4 DEF BeginOAuth
  <2> QED  BY <1>2, <2>3, <2>4, <2>5
<1>5. ASSUME NEW at \in {"exchanging", "over"}, connect[c].at \in {"waiting", "exchanging"},
             connect' = [connect EXCEPT ![c].at = at], UNCHANGED <<local, vault, linked>>
      PROVE  SetupInv'
  <2>1. PICK x : x = [connect[c] EXCEPT !.at = at]
        OBVIOUS
  <2>2. x \in PressRecord /\ x.at = at /\ x.service = connect[c].service  BY <1>1, <2>1 DEF PressRecord
  <2>3. connect' = [connect EXCEPT ![c] = x]  BY <1>5, <2>1
  <2>4. connect[c].service \in OAuth  BY <1>5 DEF SetupInv, PressSound
  <2> QED  BY <1>2, <1>5, <2>2, <2>3, <2>4
<1>6. CASE Redirected(c) \/ NotApproved(c)
      BY <1>5, <1>6 DEF Redirected, NotApproved
<1>7. CASE Approved(c)
  <2>1. PICK s : s = connect[c].service
        OBVIOUS
  <2>2. s \in OAuth /\ s \in Services /\ s \in Paths
    <3>1. s \in OAuth  BY <1>7, <2>1 DEF Approved, SetupInv, PressSound
    <3> QED  BY <3>1, ServicesArePaths DEF Services
  <2>3. PICK p \in Paths : Store(p, c) /\ (p = s \/ (s = "linkedin" /\ p = "linkedin_access"))
        BY <1>7, <2>1, <2>2, ServicesArePaths DEF Approved
  <2>4. Linked(c, s) /\ connect' = [connect EXCEPT ![c].at = "over"]  BY <1>7, <2>1 DEF Approved
  <2>5. PICK x : x = [connect[c] EXCEPT !.at = "over"]
        OBVIOUS
  <2>6. x \in PressRecord /\ x.at = "over"  BY <1>1, <2>5 DEF PressRecord
  <2>7. connect' = [connect EXCEPT ![c] = x]  BY <2>4, <2>5
  <2> QED  BY <1>1, <2>2, <2>3, <2>4, <2>6, <2>7, LinkingKeeps
<1> QED  BY <1>3, <1>4, <1>6, <1>7

\* A new start has said nothing of any service yet.
LEMMA StartKeeps ==
  ASSUME SetupInv, Start
  PROVE  SetupInv'
<1>1. boot.n \in Nat /\ boot'.n = boot.n + 1 /\ UNCHANGED <<local, vault, linked>>
      BY DEF Start, SetupInv, ConnectShapes
<1>2. ASSUME NEW c \in Press PROVE connect'[c] \in PressRecord /\ connect'[c].at \in {"new", "over"}
  <2>1. connect[c] \in PressRecord  BY DEF SetupInv, ConnectShapes
  <2>2. CASE connect[c].at \in {"waiting", "exchanging"}
    <3>1. PICK x : x = [connect[c] EXCEPT !.at = "over"]
          OBVIOUS
    <3>2. connect'[c] = x  BY <2>2, <3>1 DEF Start
    <3> QED  BY <2>1, <3>1, <3>2 DEF PressRecord
  <2>3. CASE connect[c].at \notin {"waiting", "exchanging"}
    <3>1. connect'[c] = connect[c]  BY <2>3 DEF Start
    <3> QED  BY <2>1, <2>3, <3>1 DEF PressRecord
  <2> QED  BY <2>2, <2>3
<1>3. connect' \in [Press -> PressRecord]
  <2>1. connect' = [c \in Press |-> connect'[c]]  BY DEF Start
  <2> HIDE DEF PressRecord
  <2> QED  BY <1>2, <2>1
<1>4. ConnectShapes'  BY <1>1, <1>3 DEF SetupInv, ConnectShapes
<1>5. ASSUME NEW s \in Services PROVE LinkSound(s)'
  <2>1. linked[s].n \in Nat  BY DEF SetupInv, ConnectShapes, LinkRecord
  <2>2. linked[s].n <= boot.n  BY DEF SetupInv, LinkSound
  <2> QED  BY <1>1, <2>1, <2>2 DEF LinkSound
<1> QED  BY <1>2, <1>4, <1>5 DEF SetupInv, PressSound

\* The status list and a bot's token source find the same credentials.
LEMMA SameCredentials == ConnectShapes => StatusMatchesBots
<1> SUFFICES ASSUME ~locked, NEW s \in Services, Configured(s)
             PROVE  ServiceConnected(s) <=> Given(s) # NoToken
    BY DEF StatusMatchesBots
<1>1. Readable(s) /\ (s \in Pasted \/ OneClaw)
      BY DEF Readable, Configured, Services
<1>2. CASE s = "linkedin"
      BY <1>1, <1>2 DEF ServiceConnected, Given
<1>3. CASE s # "linkedin"
      BY <1>1, <1>3 DEF ServiceConnected, Given
<1> QED  BY <1>2, <1>3

\* Every step keeps the invariant.
LEMMA SetupInvStep == SetupInv /\ [SetupNext]_setupVars => SetupInv'
<1> SUFFICES ASSUME SetupInv, [SetupNext]_setupVars PROVE SetupInv'
    OBVIOUS
<1>1. ASSUME UNCHANGED <<boot, local, vault, connect, linked>> PROVE SetupInv'
  <2>1. \A s : Kept(s)' = Kept(s)
        BY <1>1 DEF OneClaw, Kept, Backend
  <2> QED  BY <1>1, <2>1 DEF SetupInv, ConnectShapes, PressSound, LinkSound
<1>2. CASE \E w \in Writers : ReadLines(w) \/ WriteLines(w)
      BY <1>1, <1>2 DEF ReadLines, WriteLines
<1>3. CASE Lock \/ ReadStatus
      BY <1>1, <1>3 DEF Lock, ReadStatus
<1>4. CASE \E b \in Sessions : GoogleToken(b) \/ LinkedInToken(b) \/ SecondRead(b)
                                \/ \E s \in Services : PastedToken(b, s)
      BY <1>1, <1>4 DEF GoogleToken, LinkedInToken, SecondRead, PastedToken, NeedsToken
<1>5. CASE UNCHANGED setupVars
      BY <1>1, <1>5 DEF setupVars
<1> QED  BY <1>2, <1>3, <1>4, <1>5, PressKeeps, StartKeeps DEF SetupNext

\* What the Connect screen says is connected is what a run is given, of a
\* service whose client id the start has read (api/connections.go, wiring.go
\* BuildSecretsStore, step/*_live.go Token).
THEOREM ConnectionsHold == SetupSpec => []ConnectionsAgree
<1>1. SetupInv /\ [SetupNext]_setupVars => SetupInv'  BY SetupInvStep
<1>2. SetupInv => ConnectionsAgree
  <2> SUFFICES ASSUME SetupInv PROVE ConnectedIsGiven
      BY SameCredentials DEF SetupInv, ConnectionsAgree
  <2> QED  BY DEF SetupInv, LinkSound, ConnectedIsGiven, Given
<1> QED  BY <1>1, <1>2, SetupInvInit, PTL DEF SetupSpec
\* Setup, with what a writer of the env file is about to write.
WriterRecord == [at : {"idle", "read"}, key : EnvKeys, lines : SUBSET EnvKeys]
TokenRecord == [token : Tokens, n : 0..Starts]
SourceRecord == [service : Services, token : Tokens,
                 said : {"nothing", "not configured", "second read", "locked", "no account", "token"}]
SetupShapes ==
    /\ env \subseteq EnvKeys /\ boot.keys \subseteq EnvKeys /\ boot.n \in 0..Starts
    /\ writer \in [Writers -> WriterRecord]
    /\ local \in [Paths -> Tokens] /\ vault \in [Paths -> Tokens] /\ locked \in BOOLEAN
    /\ connect \in [Press -> PressRecord] /\ linked \in [Services -> TokenRecord]
    /\ session \in [Sessions -> SourceRecord]
    /\ status \in [Services -> {"unread", "connected", "not connected"}] /\ saves \in 0..Saves

\* Nothing is set up.
LEMMA SetupShapesInit == SetupInit => SetupShapes
<1> SUFFICES ASSUME SetupInit PROVE SetupShapes
    OBVIOUS
<1>1. NoToken \in Tokens /\ 0 \in 0..Starts /\ 0 \in 0..Saves  BY SetupAssumption DEF Tokens, NoToken
<1>2. NotWriting \in WriterRecord  BY DEF NotWriting, WriterRecord, EnvKeys
<1>3. Unpressed \in PressRecord  BY DEF Unpressed, PressRecord, Services, Pasted
<1>4. FreshSource \in SourceRecord
  <2> HIDE DEF Tokens, NoToken
  <2> QED  BY <1>1 DEF FreshSource, SourceRecord, Services, Pasted
<1>5. [token |-> NoToken, n |-> 0] \in TokenRecord  BY <1>1 DEF TokenRecord
<1>6. Unread \in [Services -> {"unread", "connected", "not connected"}]  BY DEF Unread
<1>7. boot.keys = env /\ boot.n = 0  BY DEF SetupInit
<1> HIDE DEF WriterRecord, PressRecord, SourceRecord, TokenRecord, Tokens, NoToken, Services, Paths, EnvKeys
<1> QED  BY <1>1, <1>2, <1>3, <1>4, <1>5, <1>6, <1>7 DEF SetupInit, SetupShapes

\* What is kept is a token of some press.
LEMMA KeptTyped == SetupShapes => \A p \in Paths : Kept(p) \in Tokens
BY DEF SetupShapes, Kept

\* A source says what it has read.
LEMMA SaysTyped ==
  ASSUME SetupShapes, NEW b \in Sessions, NEW s \in Services, NEW t \in Tokens,
         NEW word \in {"nothing", "not configured", "second read", "locked", "no account", "token"}, Says(b, s, word, t)
  PROVE  session' \in [Sessions -> SourceRecord]
<1>1. PICK x : x = [service |-> s, said |-> word, token |-> t]
      OBVIOUS
<1>2. x \in SourceRecord
  <2> HIDE DEF Tokens, Services
  <2> QED  BY <1>1 DEF SourceRecord
<1>3. session' = [session EXCEPT ![b] = x]  BY <1>1 DEF Says
<1> HIDE DEF SourceRecord
<1> QED  BY <1>2, <1>3 DEF SetupShapes

\* Each step of set-up keeps the shapes.
LEMMA SetupShapesStep == SetupShapes /\ [SetupNext]_setupVars => SetupShapes'
<1> SUFFICES ASSUME SetupShapes, [SetupNext]_setupVars PROVE SetupShapes'
    OBVIOUS
<1>n. Connects \in Nat /\ Starts \in Nat /\ Saves \in Nat  BY SetupAssumption
<1>1. NoToken \in Tokens /\ \A c \in Press : c \in Tokens  BY <1>n DEF Tokens, NoToken, Press
<1>s. /\ env \subseteq EnvKeys /\ boot.keys \subseteq EnvKeys /\ boot.n \in 0..Starts
      /\ writer \in [Writers -> WriterRecord]
      /\ local \in [Paths -> Tokens] /\ vault \in [Paths -> Tokens] /\ locked \in BOOLEAN
      /\ connect \in [Press -> PressRecord] /\ linked \in [Services -> TokenRecord]
      /\ session \in [Sessions -> SourceRecord]
      /\ status \in [Services -> {"unread", "connected", "not connected"}] /\ saves \in 0..Saves
      BY DEF SetupShapes
<1>i. boot.n \in 0..Starts /\ saves \in 0..Saves  BY DEF SetupShapes
<1>p. Services \subseteq Paths /\ "linkedin_access" \in Paths /\ "google" \in Services /\ "linkedin" \in Services
      /\ Pasted \subseteq Services /\ OAuth \subseteq Services
      BY DEF Paths, Services, OAuth
<1>2. ASSUME NEW w \in Writers, ReadLines(w) PROVE SetupShapes'
  <2>1. PICK k \in EnvKeys : writer' = [writer EXCEPT ![w] = [at |-> "read", key |-> k, lines |-> env]]
        BY <1>2 DEF ReadLines
  <2>2. PICK x : x = [at |-> "read", key |-> k, lines |-> env]
        OBVIOUS
  <2>3. x \in WriterRecord  BY <1>s, <2>2 DEF WriterRecord
  <2>4. writer' \in [Writers -> WriterRecord]
    <3> HIDE DEF WriterRecord
    <3> QED  BY <1>s, <2>1, <2>2, <2>3
  <2>6. saves < Saves /\ saves' = saves + 1  BY <1>2 DEF ReadLines
  <2>5. saves' \in 0..Saves  BY <1>n, <1>i, <2>6
  <2> QED  BY <1>s, <1>2, <2>4, <2>5 DEF ReadLines, SetupShapes
<1>3. ASSUME NEW w \in Writers, WriteLines(w) PROVE SetupShapes'
  <2>1. writer[w].lines \subseteq EnvKeys /\ writer[w].key \in EnvKeys  BY <1>s DEF WriterRecord
  <2>2. env' \subseteq EnvKeys  BY <1>s, <1>3, <2>1 DEF WriteLines
  <2>3. NotWriting \in WriterRecord  BY DEF NotWriting, WriterRecord, EnvKeys
  <2>4. writer' \in [Writers -> WriterRecord]
    <3> HIDE DEF WriterRecord
    <3> QED  BY <1>s, <1>3, <2>3 DEF WriteLines
  <2> QED  BY <1>s, <1>3, <2>2, <2>4 DEF WriteLines, SetupShapes
<1>4. CASE Start
  <2>6. boot.n < Starts /\ boot'.n = boot.n + 1 /\ boot'.keys = env  BY <1>4 DEF Start
  <2>7. boot'.n \in 0..Starts  BY <1>n, <1>i, <2>6
  <2>1. boot'.keys \subseteq EnvKeys /\ boot'.n \in 0..Starts  BY <1>s, <2>6, <2>7
  <2>2. ASSUME NEW c \in Press PROVE connect'[c] \in PressRecord
    <3>1. PICK x : x = [connect[c] EXCEPT !.at = "over"]
          OBVIOUS
    <3>2. x \in PressRecord  BY <1>s, <3>1 DEF PressRecord
    <3>3. connect'[c] \in {connect[c], x}  BY <1>4, <3>1 DEF Start
    <3> QED  BY <1>s, <3>2, <3>3
  <2>3. connect' \in [Press -> PressRecord]
    <3>1. connect' = [c \in Press |-> connect'[c]]  BY <1>4 DEF Start
    <3> HIDE DEF PressRecord
    <3> QED  BY <2>2, <3>1
  <2>4. session' \in [Sessions -> SourceRecord]
    <3>1. FreshSource \in SourceRecord
      <4> HIDE DEF Tokens, NoToken
      <4> QED  BY <1>1 DEF FreshSource, SourceRecord, Services, Pasted
    <3> HIDE DEF SourceRecord
    <3> QED  BY <1>4, <3>1 DEF Start
  <2>5. status' \in [Services -> {"unread", "connected", "not connected"}]  BY <1>4 DEF Start, Unread
  <2> QED  BY <1>s, <1>4, <2>1, <2>3, <2>4, <2>5 DEF Start, SetupShapes
<1>5. CASE Lock
      BY <1>s, <1>5 DEF Lock, SetupShapes
<1>6. CASE ReadStatus
  <2>1. status' \in [Services -> {"unread", "connected", "not connected"}]
    <3> HIDE DEF Services
    <3> QED  BY <1>6 DEF ReadStatus
  <2> QED  BY <1>s, <1>6, <2>1 DEF ReadStatus, SetupShapes
\* A press that stores a token, and what it says it has linked.
<1>7. ASSUME NEW p \in Paths, NEW c \in Press, Store(p, c)
      PROVE  local' \in [Paths -> Tokens] /\ vault' \in [Paths -> Tokens]
  <2> HIDE DEF Paths, Tokens
  <2> QED  BY <1>1, <1>s, <1>7 DEF Store
<1>8. ASSUME NEW c \in Press, NEW s \in Services, Linked(c, s) PROVE linked' \in [Services -> TokenRecord]
  <2>1. PICK x : x = [token |-> c, n |-> boot.n]
        OBVIOUS
  <2>2. x \in TokenRecord
    <3> HIDE DEF Tokens
    <3> QED  BY <1>1, <1>s, <2>1 DEF TokenRecord
  <2> HIDE DEF TokenRecord, Services
  <2> QED  BY <1>s, <1>8, <2>1, <2>2 DEF Linked
<1>9. ASSUME NEW c \in Press, NEW at \in {"new", "waiting", "exchanging", "over"}, NEW s \in Services,
             connect' = [connect EXCEPT ![c] = [at |-> at, service |-> s]]
      PROVE  connect' \in [Press -> PressRecord]
  <2>1. PICK x : x = [at |-> at, service |-> s]
        OBVIOUS
  <2>2. x \in PressRecord
    <3> HIDE DEF Services
    <3> QED  BY <2>1 DEF PressRecord
  <2> HIDE DEF PressRecord, Services
  <2> QED  BY <1>s, <1>9, <2>1, <2>2
<1>10. ASSUME NEW c \in Press, NEW at \in {"new", "waiting", "exchanging", "over"},
             connect' = [connect EXCEPT ![c].at = at]
      PROVE  connect' \in [Press -> PressRecord]
  <2>1. PICK x : x = [connect[c] EXCEPT !.at = at]
        OBVIOUS
  <2>2. x \in PressRecord
    <3> HIDE DEF Services
    <3> QED  BY <1>s, <2>1 DEF PressRecord
  <2> HIDE DEF PressRecord
  <2> QED  BY <1>s, <1>10, <2>1, <2>2
<1>u. Unread \in [Services -> {"unread", "connected", "not connected"}]  BY DEF Unread
<1>11. ASSUME NEW c \in Press, Paste(c) PROVE SetupShapes'
  <2>1. PICK s \in Pasted : /\ Store(s, c) /\ Linked(c, s)
                            /\ connect' = [connect EXCEPT ![c] = [at |-> "over", service |-> s]]
        BY <1>11 DEF Paste
  <2>2. s \in Services /\ s \in Paths  BY <1>p
  <2>3. /\ local' \in [Paths -> Tokens] /\ vault' \in [Paths -> Tokens] /\ linked' \in [Services -> TokenRecord]
        /\ connect' \in [Press -> PressRecord]
        BY <1>7, <1>8, <1>9, <2>1, <2>2
  <2> QED  BY <1>s, <1>u, <1>11, <2>3 DEF Paste, SetupShapes
<1>12. ASSUME NEW c \in Press, BeginOAuth(c) PROVE SetupShapes'
  <2>1. PICK s \in OAuth : connect' = [connect EXCEPT ![c] = [at |-> "waiting", service |-> s]]
        BY <1>12 DEF BeginOAuth
  <2>2. connect' \in [Press -> PressRecord]  BY <1>p, <1>9, <2>1
  <2> QED  BY <1>s, <1>12, <2>2 DEF BeginOAuth, SetupShapes
<1>13. ASSUME NEW c \in Press, Redirected(c) \/ NotApproved(c) PROVE SetupShapes'
  <2>1. connect' \in [Press -> PressRecord]  BY <1>10, <1>13 DEF Redirected, NotApproved
  <2> QED  BY <1>s, <1>13, <2>1 DEF Redirected, NotApproved, SetupShapes
<1>14. ASSUME NEW c \in Press, Approved(c) PROVE SetupShapes'
  <2>1. connect[c].service \in Services /\ connect[c].service \in Paths  BY <1>s, <1>p DEF PressRecord
  <2>2. PICK p \in Paths : Store(p, c)  BY <1>14, <1>p, <2>1 DEF Approved
  <2>3. Linked(c, connect[c].service) /\ connect' = [connect EXCEPT ![c].at = "over"]  BY <1>14 DEF Approved
  <2>4. /\ local' \in [Paths -> Tokens] /\ vault' \in [Paths -> Tokens] /\ linked' \in [Services -> TokenRecord]
        /\ connect' \in [Press -> PressRecord]
        BY <1>7, <1>8, <1>10, <2>1, <2>2, <2>3
  <2> QED  BY <1>s, <1>u, <1>14, <2>4 DEF Approved, SetupShapes
<1>15. ASSUME NEW b \in Sessions, GoogleToken(b) \/ LinkedInToken(b) \/ SecondRead(b)
                                 \/ \E s \in Services : PastedToken(b, s)
       PROVE  SetupShapes'
  <2>1. UNCHANGED <<env, writer, boot, local, vault, locked, connect, linked, status, saves>>
        BY <1>15 DEF GoogleToken, LinkedInToken, SecondRead, PastedToken, NeedsToken
  <2>2. \A p \in Paths : Kept(p) \in Tokens  BY KeptTyped
  <2>3. \E s \in Services, t \in Tokens,
           word \in {"nothing", "not configured", "second read", "locked", "no account", "token"} : Says(b, s, word, t)
    <3>1. CASE GoogleToken(b)
          BY <1>1, <1>p, <2>2, <3>1 DEF GoogleToken, ReadToken
    <3>2. CASE LinkedInToken(b)
          BY <1>1, <1>p, <2>2, <3>2 DEF LinkedInToken
    <3>3. CASE SecondRead(b)
          BY <1>1, <1>p, <2>2, <3>3 DEF SecondRead
    <3>4. ASSUME NEW s \in Services, PastedToken(b, s)
          PROVE  \E t \in Tokens,
                    word \in {"nothing", "not configured", "second read", "locked", "no account", "token"} : Says(b, s, word, t)
          BY <1>1, <1>p, <2>2, <3>4 DEF PastedToken, ReadToken
    <3> QED  BY <1>15, <3>1, <3>2, <3>3, <3>4
  <2>4. session' \in [Sessions -> SourceRecord]  BY <2>3, SaysTyped
  <2> QED  BY <1>s, <2>1, <2>4 DEF SetupShapes
<1>16. CASE UNCHANGED setupVars
      BY <1>s, <1>16 DEF setupVars, SetupShapes
<1> QED  BY <1>2, <1>3, <1>4, <1>5, <1>6, <1>11, <1>12, <1>13, <1>14, <1>15, <1>16 DEF SetupNext

\* A token is one some press of Connect brought, wherever it is kept or read.
THEOREM SetupTypes == SetupSpec => []SetupTypeOK
<1>1. SetupShapes => SetupTypeOK
      BY DEF SetupShapes, SetupTypeOK, WriterRecord, PressRecord, TokenRecord, SourceRecord
<1> QED  BY <1>1, SetupShapesInit, SetupShapesStep, PTL DEF SetupSpec

-----------------------------------------------------------------------------
(* The parts side by side.                                                 *)

\* A step is one of one part, and stutters in the others.
LEMMA EachPartSteps ==
  [DeskNext]_deskVars =>
      /\ [WorkNext]_workVars /\ [TuningNext]_tuningVars /\ [FilesNext]_fileVars
      /\ [StepsNext]_stepVars /\ [AgentsNext]_agentVars /\ [LabNext]_labVars
      /\ [SetupNext]_setupVars /\ [RosterNext]_rosterVars /\ [ProbesNext]_probeVars
      /\ [FrontNext]_frontVars
<1>1. DeskNext \/ UNCHANGED deskVars
      => /\ WorkNext \/ UNCHANGED workVars
         /\ TuningNext \/ UNCHANGED tuningVars
         /\ FilesNext \/ UNCHANGED fileVars
         /\ StepsNext \/ UNCHANGED stepVars
         /\ AgentsNext \/ UNCHANGED agentVars
         /\ LabNext \/ UNCHANGED labVars
         /\ SetupNext \/ UNCHANGED setupVars
         /\ RosterNext \/ UNCHANGED rosterVars
         /\ ProbesNext \/ UNCHANGED probeVars
         /\ FrontNext \/ UNCHANGED frontVars
      BY DEF DeskNext, deskVars, FrontNext
<1> QED  BY <1>1

\* A behaviour of all parts is a behaviour of each.
LEMMA EachPartBehaves ==
  DeskSpec => /\ WorkSpec /\ TuningSpec /\ FilesSpec /\ StepsSpec /\ AgentsSpec /\ LabSpec
              /\ SetupSpec /\ RosterSpec /\ ProbesSpec /\ FrontSpec
<1>1. DeskInit => /\ WorkInit /\ TuningInit /\ FilesInit /\ StepsInit /\ AgentsInit /\ LabInit
                  /\ SetupInit /\ RosterInit /\ ProbesInit /\ FrontInit
      BY DEF DeskInit
<1> QED  BY <1>1, EachPartSteps, PTL
         DEF DeskSpec, WorkSpec, TuningSpec, FilesSpec, StepsSpec, AgentsSpec, LabSpec, SetupSpec,
             RosterSpec, ProbesSpec, FrontSpec

\* The screens and the bots at work keep their types side by side.
THEOREM DeskTyped == DeskSpec => []DeskTypes
<1>1. /\ WorkTypeOK /\ TuningTypeOK /\ FilesTypeOK /\ StepsTypeOK /\ AgentsTypeOK /\ LabTypeOK
      /\ SetupTypeOK /\ RosterTypeOK /\ ProbesTypeOK /\ FrontTypeOK
      => DeskTypes
      BY DEF DeskTypes
<1> QED  BY <1>1, EachPartBehaves, WorkTypes, TuningTypes, FilesTypes, StepsTypes, AgentsTypes,
            LabTypes, SetupTypes, RosterTypes, ProbesTypes, FrontTypes, PTL

\* What each screen and each bot promises holds of them side by side: logs
\* and files, steps, agents, edits, swarm files, Lab, connections, the team's
\* board, the status bar and the swarm page.
THEOREM DeskSafe ==
  DeskSpec => [](/\ LogAndFilesWhole /\ ActsAsAsked /\ OneAgentAndItsKey /\ TunedIsOnRecord
                 /\ HandWrittenSurvives /\ LabFaithful /\ ConnectionsAgree /\ BoardSeesEveryEdit
                 /\ StatusHonest /\ PageHonest)
<1> QED  BY EachPartBehaves, WorkReachesRun, StepsAsAsked, AgentsKeyed, TuningRecorded,
            HandWrittenKept, LabKeepsFaith, ConnectionsHold, RosterShowsEdits, ProbesHonest,
            FrontHonest, PTL
=============================================================================
