------------------------------- MODULE Roster -------------------------------
(***************************************************************************)
(* The role library a review board picks from (roles/roles.go, api/roles.go *)
(* and runner/wiring.go roster): a shipped catalog, a user's overrides of  *)
(* it, and requests that make up to three separate edits each.             *)
(***************************************************************************)
EXTENDS Integers, Sequences, FiniteSets

CONSTANTS
    Roles,        \* role ids, shipped or a user's own
    Focuses,      \* lines a user writes
    RoleRequests, \* bound: POSTs to /api/roles
    Outsiders,    \* bound: how often git changes roles.yaml or someone edits roles.json
    DiskFails     \* bound: how often it can not be replaced

NoLine == "no line"
Upgraded == "a newer release's line"
Initially == "the shipped line"

ASSUME RosterAssumption ==
    /\ Focuses \cap {NoLine, Upgraded, Initially} = {}
    /\ {RoleRequests, Outsiders, DiskFails} \subseteq Nat

Posts == 1..RoleRequests

VARIABLES
    catalog,   \* roles.yaml: what it says of each role, when it can be read
    overrides, \* roles.json
    mu,        \* Store.mu: the request that has it
    post,      \* each request: the edits it has left, and the file as it read it
    asked,     \* history: what all successful edits of a role since its last reset add up to
    outside, diskFails

rosterVars == <<catalog, overrides, mu, post, asked, outside, diskFails>>

Nobody == 0
Unposted == [at |-> "new", id |-> CHOOSE r \in Roles : TRUE, todo |-> <<>>, seen |-> <<>>]

\* override{}, which a role without an entry is edited from.
Blank == [is |-> FALSE, focus |-> NoLine, retired |-> FALSE, always |-> FALSE]
NoEdits == [r \in Roles |-> Blank]

Edit(kind, value) == [kind |-> kind, value |-> value]
FlagEdits(kind) == {<<>>} \cup {<<Edit(kind, v)>> : v \in BOOLEAN}

RosterInit ==
    /\ \E c \in [Roles -> {NoLine, Initially}] :
          (\E r \in Roles : c[r] # NoLine) /\ catalog = [is |-> "whole", of |-> c]
    /\ overrides = [is |-> "whole", of |-> NoEdits] /\ asked = NoEdits
    /\ mu = Nobody /\ post = [p \in Posts |-> Unposted]
    /\ outside = 0 /\ diskFails = 0

-----------------------------------------------------------------------------
(* Reading.                                                                *)

\* overrides: a missing file has no edits, one that can not be read has none
\* either, and only whoever lists is told.
Overrides == IF overrides.is = "whole" THEN overrides.of ELSE NoEdits
Shipped == catalog.of

\* list: the catalog's roles, as edited, and then the user's own.
Listed == {r \in Roles : Shipped[r] # NoLine \/ Overrides[r].is}
FocusOf(r) == IF Overrides[r].focus # NoLine THEN Overrides[r].focus ELSE Shipped[r]
Active == {r \in Listed : ~Overrides[r].retired /\ FocusOf(r) # NoLine}
\* Roster: one line each; an error means no roster at all.
RosterLines ==
    IF overrides.is = "garbled" \/ catalog.is = "broken" THEN {}
    ELSE {[role |-> r, focus |-> FocusOf(r), always |-> Overrides[r].always] : r \in Active}

-----------------------------------------------------------------------------
(* A request.                                                              *)

\* handleSetRole: the wording if it has any, then each flag it carries.
PostRole(p) ==
    /\ post[p].at = "new" /\ (\A q \in 1..(p - 1) : post[q].at # "new")
    /\ \E r \in Roles, words \in {<<>>} \cup {<<Edit("set", f)>> : f \in Focuses},
          off \in FlagEdits("retired"), must \in FlagEdits("always") :
          /\ words \o off \o must # <<>>
          /\ post' = [post EXCEPT ![p] = [at |-> "waits", id |-> r, todo |-> words \o off \o must, seen |-> <<>>]]
    /\ UNCHANGED <<catalog, overrides, mu, asked, outside, diskFails>>
PostReset(p) ==
    /\ post[p].at = "new" /\ (\A q \in 1..(p - 1) : post[q].at # "new")
    /\ \E r \in Roles :
          post' = [post EXCEPT ![p] = [at |-> "waits", id |-> r, todo |-> <<Edit("reset", FALSE)>>, seen |-> <<>>]]
    /\ UNCHANGED <<catalog, overrides, mu, asked, outside, diskFails>>

PostOver(p) == post' = [post EXCEPT ![p] = [Unposted EXCEPT !.at = "over"]]

\* Set, SetAlways, SetRetired and Reset each read the file and replace it
\* under the one lock; an unreadable file is taken for an empty one.
NotLocked(p) == mu' = mu
Locked(p) == mu = Nobody /\ mu' = p
ReadOverrides(p) ==
    /\ post[p].at = "waits" /\ Locked(p)
    /\ post' = [post EXCEPT ![p].at = "edits", ![p].seen = Overrides]
    /\ UNCHANGED <<catalog, overrides, asked, outside, diskFails>>

\* Set keeps the flags of the entry it replaces.
AfterEdit(o, e) ==
    CASE e.kind = "set"     -> [o EXCEPT !.is = TRUE, !.focus = e.value]
      [] e.kind = "retired" -> [o EXCEPT !.is = TRUE, !.retired = e.value]
      [] e.kind = "always"  -> [o EXCEPT !.is = TRUE, !.always = e.value]
      [] e.kind = "reset"   -> Blank

\* writeOverrides: a temporary file renamed over the old one.  The request
\* goes on to its next edit; its answer lists the library, which changes
\* nothing.
WriteOverrides(p) ==
    LET e == Head(post[p].todo)
        r == post[p].id
        edited == [post[p].seen EXCEPT ![r] = AfterEdit(@, e)]
    IN /\ post[p].at = "edits" /\ mu' = (IF mu = p THEN Nobody ELSE mu)
       /\ \/ /\ ~(e.kind = "set" /\ catalog.is = "broken")
             /\ IF e.kind = "reset" /\ ~post[p].seen[r].is
                THEN UNCHANGED <<overrides, asked>>
                ELSE /\ overrides' = [is |-> "whole", of |-> edited]
                     /\ asked' = [asked EXCEPT ![r] = AfterEdit(@, e)]
             /\ IF Len(post[p].todo) = 1 THEN PostOver(p)
                ELSE post' = [post EXCEPT ![p].at = "waits", ![p].todo = Tail(@), ![p].seen = <<>>]
             /\ UNCHANGED diskFails
          \/ /\ e.kind = "set" /\ catalog.is = "broken" /\ PostOver(p)
             /\ UNCHANGED <<overrides, asked, diskFails>>
          \/ /\ diskFails < DiskFails /\ diskFails' = diskFails + 1 /\ PostOver(p)
             /\ UNCHANGED <<overrides, asked>>
    /\ UNCHANGED <<catalog, outside>>

-----------------------------------------------------------------------------
(* What else happens to the files.                                         *)

\* A pull adds, drops or rewords a role, or stops at a conflict in the file.
Pull ==
    /\ outside < Outsiders /\ outside' = outside + 1
    /\ \/ catalog' = [is |-> "broken", of |-> [r \in Roles |-> NoLine]]
       \/ \E r \in Roles, line \in {NoLine, Upgraded} :
             catalog' = [is |-> "whole", of |-> [catalog.of EXCEPT ![r] = line]]
    /\ UNCHANGED <<overrides, mu, post, asked, diskFails>>

\* Someone leaves the file unreadable, or removes it, between two edits.
HandEdit ==
    /\ outside < Outsiders /\ outside' = outside + 1 /\ mu = Nobody
    /\ overrides' \in {[is |-> how, of |-> NoEdits] : how \in {"garbled", "whole"}}
    /\ asked' = NoEdits
    /\ UNCHANGED <<catalog, mu, post, diskFails>>

RosterNext ==
    \/ \E p \in Posts : PostRole(p) \/ PostReset(p) \/ ReadOverrides(p) \/ WriteOverrides(p)
    \/ Pull \/ HandEdit

RosterSpec == RosterInit /\ [][RosterNext]_rosterVars

-----------------------------------------------------------------------------
Overridings == [Roles -> [is : BOOLEAN, focus : Focuses \cup {NoLine}, retired : BOOLEAN, always : BOOLEAN]]
RosterTypeOK ==
    /\ catalog.is \in {"whole", "broken"} /\ catalog.of \in [Roles -> {NoLine, Initially, Upgraded}]
    /\ overrides.is \in {"whole", "garbled"} /\ overrides.of \in Overridings /\ asked \in Overridings
    /\ mu \in Posts \cup {Nobody}
    /\ \A p \in Posts :
          /\ post[p].at \in {"new", "waits", "edits", "over"} /\ post[p].id \in Roles
          /\ post[p].at = "edits" => post[p].seen \in Overridings

\* What the next board is shown is the catalog as edited by everyone: no edit
\* of one request is undone by another that read the file earlier, a role
\* switched off stays off through rewordings and upgrades, and one that was
\* reset says what it ships with (roles.go: Store.mu, Set, Retired).
BoardSeesEveryEdit ==
    overrides.is = "whole" /\ catalog.is = "whole" =>
        RosterLines =
            {[role |-> r, focus |-> IF asked[r].focus # NoLine THEN asked[r].focus ELSE catalog.of[r],
              always |-> asked[r].always] :
                r \in {q \in Roles : ~asked[q].retired /\ {asked[q].focus, catalog.of[q]} # {NoLine}}}

\* roles.go:118-120: "A corrupt overrides file [...] must not be silently
\* replaced".
CorruptFileStays == [][overrides.is = "garbled" => UNCHANGED overrides]_rosterVars
=============================================================================
