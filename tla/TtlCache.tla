------------------------------ MODULE TtlCache ------------------------------
(***************************************************************************)
(* ttlCache of internal/api/ttlcache.go: an answer that costs several      *)
(* remote reads, kept for a while, asked for once however many requests    *)
(* arrive, served while expired and dropped by whoever changes what it     *)
(* describes.                                                              *)
(*                                                                         *)
(* What the answer describes is a count of changes; an answer is the count *)
(* its oldest read saw. The actors are requests, the goroutine that        *)
(* refreshes an expired answer, and handlers that make a change and then   *)
(* invalidate.                                                             *)
(***************************************************************************)
EXTENDS Integers, FiniteSets

CONSTANTS
    Requests,  \* goroutines of handlers that call do or doStale
    Changers,  \* handlers that change something and invalidate
    Changes    \* bound: how many changes there are

ASSUME CacheAssumption == Changes \in Nat /\ "refresh" \notin Requests

Readers == Requests \cup {"refresh"}
None == -1     \* no value
Failed == -2   \* fn returned an error

VARIABLES
    world,      \* changes made so far, by this app or elsewhere
    announced,  \* the newest change of this app whose invalidate has returned
    wrote,      \* the change a handler has made and not yet invalidated, or 0
    cache,      \* ttlCache: val (None unless set), expired, gen
    flying,     \* ttlCache.flight, as the set of the reader that owns it
    refreshing, \* ttlCache.refreshing
    rd          \* each reader: where it is; what fn, or the flight it joined,
                \* gave it and since which generation; announced and gen when
                \* it asked; whose flight it waits for

changeVars == <<world, announced, wrote>>
cacheVars == <<changeVars, cache, flying, refreshing, rd>>

Count == 0..Changes
CacheTypeOK ==
    /\ world \in Count /\ announced \in Count /\ wrote \in [Changers -> Count]
    /\ cache \in [val : Count \cup {None}, expired : BOOLEAN, gen : Count]
    /\ flying \in SUBSET Readers /\ refreshing \in BOOLEAN
    /\ rd \in [Readers -> [pc : {"idle", "enter", "compute", "store", "close", "wait", "got"},
                           saw : Count \cup {None, Failed}, since : Count,
                           change : Count, gen : Count, joined : Readers]]

Idle(r) == [pc |-> "idle", saw |-> None, since |-> 0, change |-> 0, gen |-> 0, joined |-> r]

CacheInit ==
    /\ world = 0 /\ announced = 0 /\ wrote = [c \in Changers |-> 0]
    /\ cache = [val |-> None, expired |-> FALSE, gen |-> 0]
    /\ flying = {} /\ refreshing = FALSE
    /\ rd = [r \in Readers |-> Idle(r)]

-----------------------------------------------------------------------------
(* Changes.                                                                *)

\* A handler connects an account or edits a swarm (c), or somebody elsewhere
\* does, whom nothing here hears of.
Change(c) ==
    /\ wrote[c] = 0 /\ world < Changes
    /\ world' = world + 1
    /\ wrote' = [wrote EXCEPT ![c] = world']
    /\ UNCHANGED <<announced, cache, flying, refreshing, rd>>

ChangeElsewhere ==
    /\ world < Changes
    /\ world' = world + 1
    /\ UNCHANGED <<announced, wrote, cache, flying, refreshing, rd>>

\* invalidate drops the value, not the flight: somebody waits for that.
InvalidateTo(c, gen) ==
    /\ wrote[c] # 0
    /\ cache' = [val |-> None, expired |-> FALSE, gen |-> gen]
    /\ announced' = IF wrote[c] > announced THEN wrote[c] ELSE announced
    /\ wrote' = [wrote EXCEPT ![c] = 0]
    /\ UNCHANGED <<world, flying, refreshing, rd>>
Invalidate(c) == InvalidateTo(c, cache.gen + 1)

\* The TTL passes.
Expire ==
    /\ cache.val # None /\ ~cache.expired
    /\ cache' = [cache EXCEPT !.expired = TRUE]
    /\ UNCHANGED <<changeVars, flying, refreshing, rd>>

-----------------------------------------------------------------------------
(* do and doStale.                                                         *)

Asking(r) == [Idle(r) EXCEPT !.pc = "enter", !.change = announced, !.gen = cache.gen]
Occupied(q, saw, since) == [q EXCEPT !.pc = "got", !.saw = saw, !.since = since]

\* doStale with an expired value serves it, and claims the refresh unless one
\* is claimed or a flight is up; otherwise it lets go of the lock and calls do.
CallDoStale(r) ==
    /\ rd[r].pc = "idle"
    /\ IF cache.val # None /\ cache.expired
         THEN LET claim == ~refreshing /\ flying = {}
              IN /\ refreshing' = (refreshing \/ claim)
                 /\ rd' = [rd EXCEPT ![r] = Occupied(Asking(r), cache.val, cache.gen),
                                     !["refresh"] = IF claim THEN Asking("refresh") ELSE @]
         ELSE rd' = [rd EXCEPT ![r] = Asking(r)] /\ UNCHANGED refreshing
    /\ UNCHANGED <<changeVars, cache, flying>>

CallDo(r) ==
    /\ rd[r].pc = "idle"
    /\ rd' = [rd EXCEPT ![r] = Asking(r)]
    /\ UNCHANGED <<changeVars, cache, flying, refreshing>>

\* do's first critical section; the refresh comes with a zero TTL.
Hits(r) == cache.val # None /\ ~cache.expired /\ r # "refresh"

TakeOff(r) ==
    /\ flying' = flying \cup {r}
    /\ rd' = [rd EXCEPT ![r].pc = "compute", ![r].since = cache.gen]

Enter(r) ==
    /\ rd[r].pc = "enter"
    /\ \/ /\ Hits(r)
          /\ rd' = [rd EXCEPT ![r] = Occupied(@, cache.val, cache.gen)]
          /\ UNCHANGED flying
       \/ /\ ~Hits(r)
          /\ \E q \in flying : rd' = [rd EXCEPT ![r].pc = "wait", ![r].joined = q]
          /\ UNCHANGED flying
       \/ ~Hits(r) /\ flying = {} /\ TakeOff(r)
    /\ UNCHANGED <<changeVars, cache, refreshing>>

\* fn: the oldest of its reads, or an error.
Compute(r) ==
    /\ rd[r].pc = "compute"
    /\ \E v \in {world, Failed} : rd' = [rd EXCEPT ![r].saw = v, ![r].pc = "store"]
    /\ UNCHANGED <<changeVars, cache, flying, refreshing>>

StoreAndLand(r, keeps, lands) ==
    /\ rd[r].pc = "store"
    /\ cache' = IF keeps THEN [cache EXCEPT !.val = rd[r].saw, !.expired = FALSE] ELSE cache
    /\ flying' = IF lands THEN {} ELSE flying
    /\ rd' = [rd EXCEPT ![r].pc = "close"]
    /\ UNCHANGED <<changeVars, refreshing>>
StoreAnyway(r) == StoreAndLand(r, rd[r].saw # Failed, TRUE)
StoreOrStayUp(r) == StoreAndLand(r, rd[r].saw # Failed /\ cache.gen = rd[r].since, rd[r].saw # Failed)

\* do's second critical section: a value that an invalidation overtook, or an
\* error, is not kept.
Store(r) == StoreAndLand(r, rd[r].saw # Failed /\ cache.gen = rd[r].since, TRUE)

\* The flight's waiters wake with its answer. The next flight may be up
\* before they do, with waiters of its own.
Close(r) ==
    /\ rd[r].pc = "close"
    /\ rd' = [q \in Readers |->
                IF q = r \/ (rd[q].pc = "wait" /\ rd[q].joined = r)
                  THEN [Occupied(rd[q], rd[r].saw, rd[r].since) EXCEPT !.joined = q]
                  ELSE rd[q]]
    /\ UNCHANGED <<changeVars, cache, flying, refreshing>>

\* The reader takes its answer away; the refresh gives up its claim.
Leave(r) ==
    /\ rd[r].pc = "got"
    /\ rd' = [rd EXCEPT ![r] = Idle(r)]
    /\ refreshing' = (refreshing /\ r # "refresh")
    /\ UNCHANGED <<changeVars, cache, flying>>

Answer(r) == Enter(r) \/ Compute(r) \/ Store(r) \/ Close(r) \/ Leave(r)

CacheNext ==
    \/ \E c \in Changers : Change(c) \/ Invalidate(c)
    \/ ChangeElsewhere \/ Expire
    \/ \E r \in Requests : CallDo(r) \/ CallDoStale(r)
    \/ \E r \in Readers : Answer(r)

-----------------------------------------------------------------------------
(* Properties.                                                             *)

\* What is cached was read after every change that has been announced, however
\* long a flight took and whoever started it: the generation check of do.
NothingOvertaken == cache.val # None => cache.val >= announced

\* Whoever asks after a change was announced gets an answer that has seen it,
\* unless it joined a flight that was up before: nothing else serves the past.
PastOnlyByJoining ==
    \A r \in Readers :
        rd[r].pc = "got" /\ rd[r].saw # Failed /\ rd[r].saw < rd[r].change
            => rd[r].since < rd[r].gen

\* No value older than an announced change is kept for later callers, and the
\* past is served to nobody but those who joined in it (ttlcache.go do, doStale).
CacheSafety == NothingOvertaken /\ PastOnlyByJoining

\* Every call returns and a refresh gives up its claim, fn returning: a flight
\* that fails leaves nothing for later callers to wait on.
CacheAnswers ==
    \A r \in Readers : (rd[r].pc # "idle") ~> (rd[r].pc = "idle")
=============================================================================
