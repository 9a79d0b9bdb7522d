------------------------------- MODULE Probes -------------------------------
(***************************************************************************)
(* GET /api/status and its two probes (api/server.go): each caches one     *)
(* answer and holds its mutex over the slow check.  Time passes in ticks   *)
(* of a few seconds; all else is instant beside it.                        *)
(***************************************************************************)
EXTENDS Integers, FiniteSets

CONSTANTS
    Probed,    \* docker, vault
    ProbeTtl,  \* how long an answer of each is used
    CheckTime, \* how long a check of each may take
    Polls,     \* bound: requests
    Ticks      \* bound: time

ASSUME ProbesAssumption ==
    /\ ProbeTtl \in [Probed -> Nat \ {0}] /\ CheckTime \in [Probed -> Nat]
    /\ Polls \in Nat /\ Ticks \in Nat

Callers == 1..Polls
Nil == -1  \* never, and nobody

VARIABLES
    clock,
    probeMu,    \* each probe's mutex: who has it
    checkedAt,  \* and when its answer is said to be from
    observed,   \* history: when the answer was true
    begun,      \* history: when the check that runs began
    poll        \* each request: `now`, and where it is with each probe

probeVars == <<clock, probeMu, checkedAt, observed, begun, poll>>

Unpolled == [now |-> Nil, at |-> [p \in Probed |-> "new"], got |-> [p \in Probed |-> Nil], mid |-> {}]

ProbesInit ==
    /\ clock = 0 /\ probeMu = [p \in Probed |-> Nil] /\ checkedAt = [p \in Probed |-> Nil]
    /\ observed = [p \in Probed |-> Nil] /\ begun = [p \in Probed |-> Nil]
    /\ poll = [c \in Callers |-> Unpolled]

Checking(p) == {c \in Callers : poll[c].at[p] = "checks"}

\* handleStatus takes the time and starts a goroutine for each probe.
Poll(c) ==
    /\ poll[c].now = Nil /\ (\A d \in 1..(c - 1) : poll[d].now # Nil)
    /\ poll' = [poll EXCEPT ![c].now = clock, ![c].at = [p \in Probed |-> "waits"],
                            ![c].mid = {p \in Probed : Checking(p) # {}}]
    /\ UNCHANGED <<clock, probeMu, checkedAt, observed, begun>>

\* An answer that is fresh enough is used as it is.
RecentEnough(p, now) == checkedAt[p] # Nil /\ now - checkedAt[p] < ProbeTtl[p]
MuHeld(c, p) == probeMu' = [probeMu EXCEPT ![p] = c]
Get(c, p) ==
    /\ poll[c].at[p] = "waits" /\ probeMu[p] = Nil
    /\ \/ /\ RecentEnough(p, poll[c].now)
          /\ poll' = [poll EXCEPT ![c].at[p] = "done", ![c].got[p] = observed[p]]
          /\ UNCHANGED <<probeMu, begun>>
       \/ /\ ~RecentEnough(p, poll[c].now)
          /\ MuHeld(c, p) /\ begun' = [begun EXCEPT ![p] = clock]
          /\ poll' = [poll EXCEPT ![c].at[p] = "checks"]
    /\ UNCHANGED <<clock, checkedAt, observed>>

\* What the check finds was so at some moment while it ran; it is kept as of
\* the caller's `now`.
StampAtEnd(c) == clock
Stamp(c) == poll[c].now
Checked(c, p) ==
    /\ poll[c].at[p] = "checks"
    /\ \E t \in begun[p]..clock :
          /\ observed' = [observed EXCEPT ![p] = t]
          /\ poll' = [poll EXCEPT ![c].at[p] = "done", ![c].got[p] = t]
    /\ checkedAt' = [checkedAt EXCEPT ![p] = Stamp(c)]
    /\ probeMu' = [probeMu EXCEPT ![p] = Nil] /\ begun' = [begun EXCEPT ![p] = Nil]
    /\ UNCHANGED clock

\* No mutex stays free while someone waits for it, and no check exceeds its
\* timeout.
TimePasses ==
    /\ clock < Ticks /\ clock' = clock + 1
    /\ \A p \in Probed :
          /\ (\E c \in Callers : poll[c].at[p] = "waits") => probeMu[p] # Nil
          /\ begun[p] # Nil => clock - begun[p] < CheckTime[p]
    /\ UNCHANGED <<probeMu, checkedAt, observed, begun, poll>>

ProbesNext ==
    \/ TimePasses
    \/ \E c \in Callers : Poll(c) \/ (\E p \in Probed : Get(c, p) \/ Checked(c, p))

ProbesSpec == ProbesInit /\ [][ProbesNext]_probeVars

-----------------------------------------------------------------------------
Moments == 0..Ticks
ProbesTypeOK ==
    /\ clock \in Moments /\ probeMu \in [Probed -> Callers \cup {Nil}]
    /\ {checkedAt, observed, begun} \subseteq [Probed -> Moments \cup {Nil}]
    /\ poll \in [Callers -> [now : Moments \cup {Nil}, at : [Probed -> {"new", "waits", "checks", "done"}],
                             got : [Probed -> Moments \cup {Nil}], mid : SUBSET Probed]]

\* A status answer is never older, at the time it was asked for, than the
\* probe's TTL, however long the check it was taken from went on and whoever
\* waited for it (server.go vaultProbe.get, dockerProbe.get).
StatusIsRecent ==
    \A c \in Callers, p \in Probed :
        poll[c].at[p] = "done" => poll[c].got[p] > poll[c].now - ProbeTtl[p]

\* A request that arrives during a check makes none of its own, for a probe
\* whose check ends within its TTL.
ShortCheckShared ==
    \A c \in Callers : \A p \in poll[c].mid : CheckTime[p] < ProbeTtl[p] => poll[c].at[p] # "checks"

\* The status bar is recent, and one short check serves all who wait for it
\* (server.go handleStatus).
StatusHonest == StatusIsRecent /\ ShortCheckShared

\* server.go:314-316: "a second caller arriving mid-check blocks, and then
\* finds a value fresh enough to use".
CheckShared == \A c \in Callers : \A p \in poll[c].mid : poll[c].at[p] # "checks"
=============================================================================
