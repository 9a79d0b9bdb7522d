-------------------------- MODULE ProgressProofs ---------------------------
(***************************************************************************)
(* What holds of TtlCache for every set of requests and of handlers, and   *)
(* any number of changes; of FanOut for lists of any length and any number *)
(* of items at a time; of both side by side with a swarm and the           *)
(* scheduler, as MCProgress composes them; and that calls and items have   *)
(* a number of steps left that only falls, and one that can be taken.      *)
(***************************************************************************)
EXTENDS MCProgress, SwarmDagProofs, SchedulerProofs, FiniteSetTheorems, NaturalsInduction, TLAPS

-----------------------------------------------------------------------------
(* TtlCache.                                                               *)

CacheSpec == CacheInit /\ [][CacheNext]_cacheVars

\* Types that do not bound the generation, which counts invalidations.
Reader ==
    [pc : {"idle", "enter", "compute", "store", "close", "wait", "got"},
     saw : Count \cup {None, Failed}, since : Nat, change : Count, gen : Nat, joined : Readers]
CacheTyped ==
    /\ world \in Count /\ announced \in Count /\ wrote \in [Changers -> Count]
    /\ cache \in [val : Count \cup {None}, expired : BOOLEAN, gen : Nat]
    /\ flying \in SUBSET Readers /\ refreshing \in BOOLEAN
    /\ rd \in [Readers -> Reader]

\* Nothing is announced that has not happened, and no reader has heard of
\* what has not been announced.
NoneAhead ==
    /\ announced <= world
    /\ \A c \in Changers : wrote[c] <= world
    /\ \A r \in Readers : rd[r].change <= announced /\ rd[r].since <= cache.gen /\ rd[r].gen <= cache.gen

\* An answer that fn has given and nobody has been given yet.
Fresh(r) == rd[r].pc \in {"store", "close"} /\ rd[r].saw # Failed

\* An answer that misses an announced change misses an invalidation too, and
\* whoever asked after the one asked after the other: the generation a flight
\* began in tells all there is to know of what it can have seen.
GenerationTells ==
    \A r \in Readers : Fresh(r) =>
        /\ rd[r].saw # None
        /\ announced > rd[r].saw => cache.gen > rd[r].since
        /\ \A q \in Readers : rd[q].change > rd[r].saw => rd[q].gen > rd[r].since

CacheInv == CacheTyped /\ NoneAhead /\ GenerationTells /\ CacheSafety

\* Counts are natural numbers, and None and Failed are none of them.
LEMMA SumCounts ==
  /\ Count \subseteq Nat /\ Changes \in Nat /\ 0 \in Count /\ "refresh" \in Readers
  /\ \A n \in Count : n < Changes => n + 1 \in Count
  /\ None \notin Nat /\ Failed \notin Nat /\ None # Failed
BY CacheAssumption DEF Count, None, Failed, Readers

\* What is counted is a number.
LEMMA Numbers ==
  ASSUME CacheInv
  PROVE  /\ world \in Nat /\ announced \in Nat /\ cache.gen \in Nat
         /\ \A c \in Changers : wrote[c] \in Nat
         /\ \A r \in Readers : /\ rd[r] \in Reader /\ rd[r].change \in Nat /\ rd[r].gen \in Nat
                               /\ rd[r].since \in Nat /\ rd[r].saw \in Int
<1>1. world \in Nat /\ announced \in Nat /\ cache.gen \in Nat /\ \A c \in Changers : wrote[c] \in Nat
      BY SumCounts DEF CacheInv, CacheTyped
<1>2. \A r \in Readers : rd[r] \in Reader
      BY DEF CacheInv, CacheTyped
<1>3. \A x \in Reader : x.change \in Nat /\ x.gen \in Nat /\ x.since \in Nat /\ x.saw \in Int
  <2>1. \A x \in Reader : /\ x.change \in Count /\ x.gen \in Nat /\ x.since \in Nat
                          /\ x.saw \in Count \cup {None, Failed}
        BY DEF Reader
  <2>2. None \in Int /\ Failed \in Int  BY DEF None, Failed
  <2> HIDE DEF Reader
  <2>3. ASSUME NEW x \in Reader PROVE x.saw \in Int /\ x.change \in Nat
    <3>1. x.saw \in Count \cup {None, Failed} /\ x.change \in Count  BY <2>1
    <3>2. Count \subseteq Int /\ Count \subseteq Nat  BY DEF Count
    <3> QED  BY <2>2, <3>1, <3>2
  <2> QED  BY <2>1, <2>3
<1> HIDE DEF Reader
<1> QED  BY <1>1, <1>2, <1>3

\* The invariant holds before anybody asks.
LEMMA CacheInvInit == CacheInit => CacheInv
<1> SUFFICES ASSUME CacheInit PROVE CacheInv
    OBVIOUS
<1> USE SumCounts DEF CacheInit, Idle
<1>1. CacheTyped  BY DEF CacheTyped, Reader
<1>2. NoneAhead  BY DEF NoneAhead
<1>3. GenerationTells  BY DEF GenerationTells, Fresh
<1>4. CacheSafety  BY DEF CacheSafety, NothingOvertaken, PastOnlyByJoining
<1> QED  BY <1>1, <1>2, <1>3, <1>4 DEF CacheInv

\* A change, announced or not, keeps the invariant.
LEMMA ChangeKeeps ==
  ASSUME CacheInv,
         \/ \E c \in Changers : Change(c) \/ Invalidate(c)
         \/ ChangeElsewhere
         \/ Expire
  PROVE  CacheInv'
<1> USE SumCounts DEF CacheInv
<1>1. CASE \E c \in Changers : Change(c)
  <2> PICK c \in Changers : Change(c)  BY <1>1
  <2>1. CacheTyped'  BY DEF Change, CacheTyped
  <2>2. NoneAhead'
    <3>1. /\ world' = world + 1 /\ UNCHANGED <<announced, cache, rd>>
          /\ \A d \in Changers : wrote'[d] = wrote[d] \/ wrote'[d] = world'
          BY DEF Change, CacheTyped
    <3> QED  BY <3>1, Numbers DEF NoneAhead
  <2>3. GenerationTells' /\ CacheSafety'
        BY DEF Change, GenerationTells, Fresh, CacheSafety, NothingOvertaken, PastOnlyByJoining
  <2> QED  BY <2>1, <2>2, <2>3
<1>2. CASE \E c \in Changers : Invalidate(c)
  <2> PICK c \in Changers : Invalidate(c)  BY <1>2
  <2> USE DEF Invalidate, InvalidateTo
  <2>1. CacheTyped'  BY DEF CacheTyped
  <2>2. NoneAhead'
    <3>1. /\ UNCHANGED <<world, rd>> /\ cache'.gen = cache.gen + 1
          /\ announced' \in {wrote[c], announced} /\ announced' >= announced
          /\ \A d \in Changers : wrote'[d] = wrote[d] \/ wrote'[d] = 0
          BY Numbers DEF CacheTyped
    <3> QED  BY <3>1, Numbers DEF NoneAhead
  <2>3. cache'.gen = cache.gen + 1 /\ cache.gen \in Nat /\ UNCHANGED rd  BY DEF CacheTyped
  <2>4. GenerationTells'
    <3> SUFFICES ASSUME NEW r \in Readers, Fresh(r)
                 PROVE  cache.gen + 1 > rd[r].since
        BY <2>3 DEF GenerationTells, Fresh
    <3> QED  BY <2>3 DEF NoneAhead, CacheTyped, Reader
  <2>5. CacheSafety'
        BY <2>3 DEF CacheSafety, NothingOvertaken, PastOnlyByJoining
  <2> QED  BY <2>1, <2>2, <2>4, <2>5
<1>3. CASE ChangeElsewhere
  <2> USE DEF ChangeElsewhere
  <2>1. CacheTyped'  BY <1>3 DEF CacheTyped
  <2>2. NoneAhead'  BY <1>3, Numbers DEF NoneAhead
  <2>3. GenerationTells' /\ CacheSafety'
        BY <1>3 DEF GenerationTells, Fresh, CacheSafety, NothingOvertaken, PastOnlyByJoining
  <2> QED  BY <2>1, <2>2, <2>3
<1>4. CASE Expire
      BY <1>4 DEF Expire, changeVars, CacheTyped, NoneAhead, GenerationTells, Fresh, CacheSafety,
                  NothingOvertaken, PastOnlyByJoining
<1> QED  BY <1>1, <1>2, <1>3, <1>4

\* What one reader must be like for the invariant, the others being as they are.
Sound(x) ==
    /\ x \in Reader /\ x.change <= announced /\ x.since <= cache.gen /\ x.gen <= cache.gen
    /\ x.pc = "got" /\ x.saw # Failed /\ x.saw < x.change => x.since < x.gen
    /\ x.pc \in {"store", "close"} /\ x.saw # Failed =>
         /\ x.saw # None
         /\ announced > x.saw => cache.gen > x.since
         /\ \A q \in Readers : rd[q].change > x.saw => rd[q].gen > x.since

\* Under the invariant every reader is like that.
LEMMA AllSound == CacheInv => \A r \in Readers : Sound(rd[r])
BY Numbers DEF CacheInv, NoneAhead, GenerationTells, Fresh, CacheSafety, PastOnlyByJoining, Sound

\* A reader keeps what it had heard when it asked, asks now, or is idle.
Hears(x, y) ==
    \/ x.change = y.change /\ x.gen = y.gen
    \/ x.change = announced /\ x.gen = cache.gen
    \/ x.change = 0

\* A step that changes no generation keeps the invariant if every reader it
\* touches is sound afterwards and nothing old is cached.
LEMMA SoundReadersKeep ==
  ASSUME CacheInv, UNCHANGED <<world, announced, wrote>>, cache'.gen = cache.gen,
         cache' \in [val : Count \cup {None}, expired : BOOLEAN, gen : Nat],
         flying' \in SUBSET Readers, refreshing' \in BOOLEAN, NothingOvertaken',
         rd' = [q \in Readers |-> rd'[q]],
         \A q \in Readers : rd'[q] = rd[q] \/ (Sound(rd'[q]) /\ Hears(rd'[q], rd[q]))
  PROVE  CacheInv'
<1>1. \A q \in Readers : Sound(rd'[q]) /\ Hears(rd'[q], rd[q])
      BY AllSound DEF Hears
<1>2. \A q \in Readers : rd'[q] \in Reader
      BY <1>1 DEF Sound
<1>3. rd' \in [Readers -> Reader]
  <2> HIDE DEF Reader
  <2> QED  BY <1>2
<1>4. CacheTyped'
      BY <1>3 DEF CacheInv, CacheTyped, Reader, Count
<1>5. NoneAhead'
      BY <1>1 DEF CacheInv, NoneAhead, Sound
<1>6. GenerationTells'
  <2> SUFFICES ASSUME NEW p \in Readers, Fresh(p)', NEW q \in Readers
               PROVE  /\ rd'[p].saw # None
                      /\ announced > rd'[p].saw => cache.gen > rd'[p].since
                      /\ rd'[q].change > rd'[p].saw => rd'[q].gen > rd'[p].since
      BY DEF GenerationTells
  <2>1. /\ rd'[p].saw # None
        /\ announced > rd'[p].saw => cache.gen > rd'[p].since
        /\ rd[q].change > rd'[p].saw => rd[q].gen > rd'[p].since
        BY <1>1 DEF Sound, Fresh
  <2>2. rd'[p].saw \in Nat
        BY <1>2, <2>1, SumCounts DEF Reader, Fresh
  <2>3. Hears(rd'[q], rd[q])
        BY <1>1
  <2> QED  BY <2>1, <2>2, <2>3 DEF Hears
<1>7. PastOnlyByJoining'
      BY <1>1 DEF PastOnlyByJoining, Sound
<1> QED  BY <1>4, <1>5, <1>6, <1>7 DEF CacheInv, CacheSafety

\* Whoever asks now has heard all that is announced, in this generation.
LEMMA AskingNow ==
  ASSUME CacheInv, NEW r \in Readers
  PROVE  /\ Sound(Asking(r)) /\ Hears(Asking(r), rd[r])
         /\ cache.val # None => LET x == Occupied(Asking(r), cache.val, cache.gen)
                                IN  Sound(x) /\ Hears(x, rd[r])
<1>1. announced \in Nat /\ announced \in Count /\ cache.gen \in Nat /\ cache.val \in Count \cup {None}
      BY Numbers DEF CacheInv, CacheTyped
<1>2. cache.val # None => cache.val >= announced /\ cache.val \in Nat
      BY <1>1, SumCounts DEF CacheInv, CacheSafety, NothingOvertaken
<1>3. /\ Asking(r) \in Reader
      /\ Asking(r).pc = "enter" /\ Asking(r).change = announced
      /\ Asking(r).gen = cache.gen /\ Asking(r).since = 0
      BY <1>1, SumCounts DEF Reader, Asking, Idle
<1>4. ASSUME cache.val # None, NEW x, x = Occupied(Asking(r), cache.val, cache.gen)
      PROVE  /\ x \in Reader
             /\ x.pc = "got" /\ x.saw = cache.val /\ x.since = cache.gen
             /\ x.change = announced /\ x.gen = cache.gen
      BY <1>1, <1>3, <1>4 DEF Occupied, Reader
<1> HIDE DEF Asking, Occupied, Reader
<1>5. Sound(Asking(r)) /\ Hears(Asking(r), rd[r])
      BY <1>1, <1>3 DEF Sound, Hears
<1>6. ASSUME cache.val # None, NEW x, x = Occupied(Asking(r), cache.val, cache.gen)
      PROVE  Sound(x) /\ Hears(x, rd[r])
      BY <1>1, <1>2, <1>4, <1>6 DEF Sound, Hears
<1> QED  BY <1>5, <1>6

\* Asking keeps the invariant.
LEMMA AskKeeps ==
  ASSUME CacheInv, NEW r \in Requests, CallDo(r) \/ CallDoStale(r)
  PROVE  CacheInv'
<1>0. r \in Readers /\ "refresh" \in Readers /\ rd = [q \in Readers |-> rd[q]]
      BY DEF Readers, CacheInv, CacheTyped
<1>1. /\ UNCHANGED <<world, announced, wrote, cache, flying>> /\ refreshing' \in BOOLEAN
      /\ flying' \in SUBSET Readers
      /\ cache' \in [val : Count \cup {None}, expired : BOOLEAN, gen : Nat]
      BY DEF CallDo, CallDoStale, CacheInv, CacheTyped, changeVars
\* A reader is as it was, or asks, or has the cached value already.
<1>2. /\ rd' = [q \in Readers |-> rd'[q]]
      /\ \A q \in Readers :
           \/ rd'[q] = rd[q]
           \/ rd'[q] = Asking(q)
           \/ rd'[q] = Occupied(Asking(q), cache.val, cache.gen) /\ cache.val # None
  <2>1. CASE CallDo(r)  BY <1>0, <2>1 DEF CallDo
  <2>2. CASE CallDoStale(r)
    <3>1. CASE cache.val # None /\ cache.expired
      <4>1. PICK x : rd' = [rd EXCEPT ![r] = Occupied(Asking(r), cache.val, cache.gen), !["refresh"] = x]
                     /\ x \in {Asking("refresh"), [rd EXCEPT ![r] = Occupied(Asking(r), cache.val, cache.gen)]["refresh"]}
            BY <2>2, <3>1 DEF CallDoStale
      <4> HIDE DEF Asking, Occupied
      <4> QED  BY <1>0, <3>1, <4>1
    <3>2. CASE ~(cache.val # None /\ cache.expired)
      <4>1. rd' = [rd EXCEPT ![r] = Asking(r)]  BY <2>2, <3>2 DEF CallDoStale
      <4> QED  BY <1>0, <4>1
    <3> QED  BY <3>1, <3>2
  <2> QED  BY <2>1, <2>2
<1>3. \A q \in Readers : rd'[q] = rd[q] \/ (Sound(rd'[q]) /\ Hears(rd'[q], rd[q]))
      BY <1>2, AskingNow
<1>4. NothingOvertaken'
      BY <1>1 DEF CacheInv, CacheSafety, NothingOvertaken
<1> QED  BY <1>1, <1>2, <1>3, <1>4, SoundReadersKeep

\* A reader's own steps keep the invariant.
LEMMA AnswerKeeps ==
  ASSUME CacheInv, NEW r \in Readers, Answer(r)
  PROVE  CacheInv'
<1>0. /\ rd = [q \in Readers |-> rd[q]] /\ Sound(rd[r]) /\ rd[r] \in Reader
      /\ cache \in [val : Count \cup {None}, expired : BOOLEAN, gen : Nat]
      /\ flying \in SUBSET Readers /\ refreshing \in BOOLEAN /\ NothingOvertaken
      BY AllSound DEF CacheInv, CacheTyped, CacheSafety, Sound
<1>1. CASE Enter(r)
  <2>0. UNCHANGED <<world, announced, wrote, cache, refreshing>> /\ rd[r].pc = "enter"
        BY <1>1 DEF Enter, changeVars
  <2>1. /\ flying' \in SUBSET Readers /\ rd' = [q \in Readers |-> rd'[q]]
        /\ \A q \in Readers \ {r} : rd'[q] = rd[q]
        /\ \/ rd'[r] = [rd[r] EXCEPT !.pc = "got", !.saw = cache.val, !.since = cache.gen] /\ Hits(r)
           \/ \E j \in Readers : rd'[r] = [rd[r] EXCEPT !.pc = "wait", !.joined = j]
           \/ rd'[r] = [rd[r] EXCEPT !.pc = "compute", !.since = cache.gen]
    <3>1. CASE Hits(r) /\ rd' = [rd EXCEPT ![r] = Occupied(@, cache.val, cache.gen)] /\ UNCHANGED flying
          BY <1>0, <3>1 DEF Occupied
    <3>2. CASE (\E q \in flying : rd' = [rd EXCEPT ![r].pc = "wait", ![r].joined = q]) /\ UNCHANGED flying
      <4>1. PICK j \in Readers : rd' = [rd EXCEPT ![r].pc = "wait", ![r].joined = j]  BY <1>0, <3>2
      <4>2. rd'[r] = [rd[r] EXCEPT !.pc = "wait", !.joined = j]  BY <1>0, <4>1
      <4>3. rd' = [q \in Readers |-> rd'[q]] /\ \A q \in Readers \ {r} : rd'[q] = rd[q]
            BY <1>0, <4>1
      <4> QED  BY <1>0, <3>2, <4>2, <4>3
    <3>3. CASE TakeOff(r)
      <4>1. rd' = [rd EXCEPT ![r].pc = "compute", ![r].since = cache.gen] /\ flying' = flying \cup {r}
            BY <3>3 DEF TakeOff
      <4>2. rd'[r] = [rd[r] EXCEPT !.pc = "compute", !.since = cache.gen]  BY <1>0, <4>1
      <4>3. rd' = [q \in Readers |-> rd'[q]] /\ \A q \in Readers \ {r} : rd'[q] = rd[q]
            BY <1>0, <4>1
      <4> QED  BY <1>0, <4>1, <4>2, <4>3
    <3> QED  BY <1>1, <3>1, <3>2, <3>3 DEF Enter
  <2>2. Sound(rd'[r]) /\ Hears(rd'[r], rd[r])
    <3>1. cache.gen \in Nat /\ rd[r].change \in Nat /\ announced \in Nat  BY Numbers
    <3>2. CASE rd'[r] = [rd[r] EXCEPT !.pc = "got", !.saw = cache.val, !.since = cache.gen] /\ Hits(r)
      <4>1. cache.val >= rd[r].change /\ cache.val \in Nat /\ cache.val \in Count
            BY <1>0, <3>1, <3>2, SumCounts DEF Hits, NothingOvertaken, Sound
      <4>2. /\ rd'[r] \in Reader /\ rd'[r].pc = "got" /\ rd'[r].saw = cache.val /\ rd'[r].since = cache.gen
            /\ rd'[r].change = rd[r].change /\ rd'[r].gen = rd[r].gen
            BY <1>0, <3>1, <3>2, <4>1 DEF Reader
      <4> QED  BY <1>0, <3>1, <4>1, <4>2 DEF Sound, Hears
    <3>3. CASE \E j \in Readers : rd'[r] = [rd[r] EXCEPT !.pc = "wait", !.joined = j]
          BY <1>0, <3>1, <3>3 DEF Sound, Reader, Hears
    <3>4. CASE rd'[r] = [rd[r] EXCEPT !.pc = "compute", !.since = cache.gen]
      <4>1. /\ rd'[r] \in Reader /\ rd'[r].pc = "compute" /\ rd'[r].since = cache.gen
            /\ rd'[r].change = rd[r].change /\ rd'[r].gen = rd[r].gen
            BY <1>0, <3>1, <3>4 DEF Reader
      <4> QED  BY <1>0, <3>1, <4>1 DEF Sound, Hears
    <3> QED  BY <2>1, <3>2, <3>3, <3>4
  <2>3. NothingOvertaken'  BY <1>0, <2>0 DEF NothingOvertaken
  <2> QED  BY <1>0, <2>0, <2>1, <2>2, <2>3, SoundReadersKeep
<1>2. CASE Compute(r)
  <2>0. UNCHANGED <<world, announced, wrote, cache, flying, refreshing>>
        BY <1>2 DEF Compute, changeVars
  <2>1. PICK v \in {world, Failed} : rd' = [rd EXCEPT ![r].saw = v, ![r].pc = "store"]
        BY <1>2 DEF Compute
  <2>2. rd' = [q \in Readers |-> rd'[q]] /\ \A q \in Readers \ {r} : rd'[q] = rd[q]
        BY <1>0, <2>1
  <2>3. rd'[r] = [rd[r] EXCEPT !.saw = v, !.pc = "store"]
        BY <1>0, <2>1
  <2>4. v \in Count \cup {Failed} /\ (v # Failed => v = world /\ v # None)
        BY SumCounts DEF CacheInv, CacheTyped
  <2>5. announced <= world /\ \A q \in Readers : ~(rd[q].change > world)
        BY Numbers DEF CacheInv, NoneAhead
  <2>6. Sound(rd'[r]) /\ Hears(rd'[r], rd[r])
    <3>1. /\ rd'[r] \in Reader /\ rd'[r].pc = "store" /\ rd'[r].saw = v
          /\ rd'[r].change = rd[r].change /\ rd'[r].gen = rd[r].gen /\ rd'[r].since = rd[r].since
          BY <1>0, <2>3, <2>4 DEF Reader
    <3> QED  BY <1>0, <2>4, <2>5, <3>1, Numbers DEF Sound, Hears
  <2>7. NothingOvertaken'  BY <1>0, <2>0 DEF NothingOvertaken
  <2> QED  BY <1>0, <2>0, <2>2, <2>6, <2>7, SoundReadersKeep
<1>3. CASE Store(r)
  <2>0. /\ UNCHANGED <<world, announced, wrote, refreshing>> /\ flying' = {} /\ rd[r].pc = "store"
        /\ cache' = IF rd[r].saw # Failed /\ cache.gen = rd[r].since
                      THEN [cache EXCEPT !.val = rd[r].saw, !.expired = FALSE] ELSE cache
        /\ rd' = [rd EXCEPT ![r].pc = "close"]
        BY <1>3 DEF Store, StoreAndLand, changeVars
  <2>1. rd' = [q \in Readers |-> rd'[q]] /\ \A q \in Readers \ {r} : rd'[q] = rd[q]
        BY <1>0, <2>0
  <2>2. rd'[r] = [rd[r] EXCEPT !.pc = "close"]
        BY <1>0, <2>0
  <2>3. Sound(rd'[r]) /\ Hears(rd'[r], rd[r])
        BY <1>0, <2>0, <2>2 DEF Sound, Reader, Hears
\* What is kept was asked for in this generation, so it misses nothing.
  <2>4. /\ cache'.gen = cache.gen /\ NothingOvertaken'
        /\ cache' \in [val : Count \cup {None}, expired : BOOLEAN, gen : Nat]
    <3>1. CASE rd[r].saw # Failed /\ cache.gen = rd[r].since
      <4>1. rd[r].saw \in Count /\ rd[r].saw \in Nat /\ announced \in Nat /\ ~(announced > rd[r].saw)
            BY <1>0, <2>0, <3>1, Numbers, SumCounts DEF Sound, Reader
      <4>2. cache' = [cache EXCEPT !.val = rd[r].saw, !.expired = FALSE]  BY <2>0, <3>1
      <4>3. /\ cache'.gen = cache.gen /\ cache'.val = rd[r].saw
            /\ cache' \in [val : Count \cup {None}, expired : BOOLEAN, gen : Nat]
            BY <1>0, <4>1, <4>2
      <4> QED  BY <2>0, <4>1, <4>3 DEF NothingOvertaken
    <3>2. CASE ~(rd[r].saw # Failed /\ cache.gen = rd[r].since)
          BY <1>0, <2>0, <3>2 DEF NothingOvertaken
    <3> QED  BY <3>1, <3>2
  <2> QED  BY <2>0, <2>1, <2>3, <2>4, <1>0, SoundReadersKeep
<1>4. CASE Close(r)
  <2>0. UNCHANGED <<world, announced, wrote, cache, flying, refreshing>> /\ rd[r].pc = "close"
        BY <1>4 DEF Close, changeVars
  <2>1. /\ rd' = [q \in Readers |-> rd'[q]]
        /\ \A q \in Readers :
             \/ rd'[q] = rd[q]
             \/ rd'[q] = [rd[q] EXCEPT !.pc = "got", !.saw = rd[r].saw, !.since = rd[r].since, !.joined = q]
        BY <1>4 DEF Close, Occupied
  <2>2. ASSUME NEW q \in Readers,
               rd'[q] = [rd[q] EXCEPT !.pc = "got", !.saw = rd[r].saw, !.since = rd[r].since, !.joined = q]
        PROVE  Sound(rd'[q]) /\ Hears(rd'[q], rd[q])
    <3>1. Sound(rd[q]) /\ rd[q] \in Reader  BY AllSound, Numbers
    <3>2. rd[q].change > rd[r].saw /\ rd[r].saw # Failed => rd[q].gen > rd[r].since
          BY <1>0, <2>0 DEF Sound
    <3> QED  BY <1>0, <2>2, <3>1, <3>2, Numbers DEF Sound, Reader, Hears
  <2>3. NothingOvertaken'  BY <1>0, <2>0 DEF NothingOvertaken
  <2> QED  BY <1>0, <2>0, <2>1, <2>2, <2>3, SoundReadersKeep
<1>5. CASE Leave(r)
  <2>0. /\ UNCHANGED <<world, announced, wrote, cache, flying>> /\ refreshing' \in BOOLEAN
        /\ rd' = [rd EXCEPT ![r] = Idle(r)]
        BY <1>5 DEF Leave, changeVars
  <2>1. rd' = [q \in Readers |-> rd'[q]] /\ rd'[r] = Idle(r) /\ \A q \in Readers \ {r} : rd'[q] = rd[q]
        BY <1>0, <2>0
  <2>2. Sound(Idle(r)) /\ Hears(Idle(r), rd[r])
        BY Numbers, SumCounts DEF Sound, Reader, Hears, Idle
  <2>3. NothingOvertaken'  BY <1>0, <2>0 DEF NothingOvertaken
  <2> QED  BY <1>0, <2>0, <2>1, <2>2, <2>3, SoundReadersKeep
<1> QED  BY <1>1, <1>2, <1>3, <1>4, <1>5 DEF Answer

\* So does every step.
LEMMA CacheInvStep == CacheInv /\ [CacheNext]_cacheVars => CacheInv'
<1> SUFFICES ASSUME CacheInv, [CacheNext]_cacheVars PROVE CacheInv'
    OBVIOUS
<1>1. CASE UNCHANGED cacheVars
      BY <1>1 DEF cacheVars, changeVars, CacheInv, CacheTyped, NoneAhead, GenerationTells, Fresh,
                  CacheSafety, NothingOvertaken, PastOnlyByJoining
<1> QED  BY <1>1, ChangeKeeps, AskKeeps, AnswerKeeps DEF CacheNext

\* The inductive invariant: the generation tells what a flight can have seen.
THEOREM CacheInvariant == CacheSpec => []CacheInv
<1> QED  BY CacheInvInit, CacheInvStep, PTL DEF CacheSpec

\* However requests, refreshes and invalidations overlap, the cache keeps no
\* value older than an announced change, and serves the past to nobody but
\* those who joined in it.
THEOREM CacheSafe == CacheSpec => []CacheSafety
<1>1. CacheInv => CacheSafety  BY DEF CacheInv
<1> QED  BY <1>1, CacheInvariant, PTL

-----------------------------------------------------------------------------
\* Changes made and not announced yet; every invalidation used one up.
Pending == {c \in Changers : wrote[c] # 0}
GenerationBound ==
    IsFiniteSet(Pending) /\ cache.gen + Cardinality(Pending) <= world

\* There are no more generations than changes.
LEMMA GenerationStep ==
  CacheInv /\ GenerationBound /\ [CacheNext]_cacheVars => GenerationBound'
<1> SUFFICES ASSUME CacheInv, GenerationBound, [CacheNext]_cacheVars PROVE GenerationBound'
    OBVIOUS
<1> USE DEF GenerationBound
<1>0. /\ world \in Nat /\ cache.gen \in Nat /\ Cardinality(Pending) \in Nat
      /\ wrote \in [Changers -> Count]
      BY SumCounts, FS_CardinalityType DEF CacheInv, CacheTyped
<1>1. CASE \E c \in Changers : Change(c)
  <2> PICK c \in Changers : Change(c)  BY <1>1
  <2>1. Pending' = Pending \cup {c} /\ world' = world + 1 /\ UNCHANGED cache /\ c \notin Pending
        BY <1>0 DEF Change, Pending
  <2>2. IsFiniteSet(Pending') /\ Cardinality(Pending') = Cardinality(Pending) + 1
        BY <2>1, FS_AddElement
  <2> QED  BY <1>0, <2>1, <2>2
<1>2. CASE \E c \in Changers : Invalidate(c)
  <2> PICK c \in Changers : Invalidate(c)  BY <1>2
  <2>1. Pending' = Pending \ {c} /\ UNCHANGED world /\ c \in Pending /\ cache'.gen = cache.gen + 1
        BY <1>0 DEF Invalidate, InvalidateTo, Pending
  <2>2. IsFiniteSet(Pending') /\ Cardinality(Pending') = Cardinality(Pending) - 1
        BY <2>1, FS_RemoveElement
  <2> QED  BY <1>0, <2>1, <2>2
<1>3. CASE ChangeElsewhere
  <2>1. Pending' = Pending /\ UNCHANGED cache /\ world' = world + 1
        BY <1>3 DEF ChangeElsewhere, Pending
  <2> QED  BY <1>0, <2>1
<1>4. CASE UNCHANGED <<world, wrote>> /\ cache'.gen = cache.gen
      BY <1>4 DEF Pending
<1>5. Expire \/ (\E r \in Requests : CallDo(r) \/ CallDoStale(r)) \/ (\E r \in Readers : Answer(r))
      \/ UNCHANGED cacheVars
        => UNCHANGED <<world, wrote>> /\ cache'.gen = cache.gen
  <2>1. Expire => UNCHANGED <<world, wrote>> /\ cache'.gen = cache.gen
        BY DEF CacheInv, CacheTyped, Expire, changeVars
  <2>2. ASSUME NEW r \in Requests, CallDo(r) \/ CallDoStale(r)
        PROVE  UNCHANGED <<world, wrote, cache>>
        BY <2>2 DEF CallDo, CallDoStale, changeVars
  <2>3. ASSUME NEW r \in Readers, Answer(r)
        PROVE  UNCHANGED <<world, wrote>> /\ cache'.gen = cache.gen
        BY <2>3 DEF CacheInv, CacheTyped, Answer, Enter, TakeOff, Compute, Store, StoreAndLand, Close, Leave,
                    changeVars
  <2> QED  BY <2>1, <2>2, <2>3 DEF cacheVars, changeVars
<1> QED  BY <1>1, <1>2, <1>3, <1>4, <1>5 DEF CacheNext

\* Every variable stays in its type: in particular a generation is never
\* reused, and there are no more of them than changes.
THEOREM CacheTypes == CacheSpec => []CacheTypeOK
<1>1. CacheInit => GenerationBound
  <2> SUFFICES ASSUME CacheInit PROVE GenerationBound
      OBVIOUS
  <2>1. Pending = {} /\ world = 0 /\ cache.gen = 0  BY DEF CacheInit, Pending
  <2> QED  BY <2>1, FS_EmptySet DEF GenerationBound
<1>2. CacheInv /\ GenerationBound => CacheTypeOK
  <2> SUFFICES ASSUME CacheInv, GenerationBound PROVE CacheTypeOK
      OBVIOUS
  <2>1. cache.gen \in Count
    <3>1. Cardinality(Pending) \in Nat  BY FS_CardinalityType DEF GenerationBound
    <3> QED  BY <3>1, SumCounts DEF CacheInv, CacheTyped, GenerationBound, Count
  <2>2. \A r \in Readers : rd[r].since \in Count
        BY <2>1, SumCounts DEF CacheInv, CacheTyped, NoneAhead, Reader, Count
  <2>3. \A r \in Readers : rd[r].gen \in Count
        BY <2>1, SumCounts, Numbers DEF CacheInv, NoneAhead, Count
  <2> QED  BY <2>1, <2>2, <2>3 DEF CacheInv, CacheTyped, CacheTypeOK, Reader
<1> QED  BY <1>1, <1>2, GenerationStep, CacheInvariant, PTL DEF CacheSpec

-----------------------------------------------------------------------------
(* FanOut.                                                                 *)

FanOutSpec == FanOutInit /\ [][FanOutNext]_fanVars

Places == {"new", "work", "want", "open", "ask", "told", "wrote", "over"}
Ends == {"ok", "error", "nothing"}
LoopType ==
    [pc : {"start", "take", "check", "launch", "wait", "done"}, n : 0..MaxItems,
     next : 1..(MaxItems + 1), slots : Int,
     result : Ends \cup {"none"}, outputs : Seq(Items)]
Item == [pc : Places, live : BOOLEAN, result : Ends \cup {"none"}]

\* Types that do not bound what has to be counted.
FanOutTyped ==
    /\ loop \in LoopType
    /\ failed \in BOOLEAN
    /\ item \in [Items -> Item]
    /\ out \in [Items -> 0..MaxItems] /\ sent \in [Items -> Nat]
    /\ batch \in [asked : BOOLEAN, answer : {"none", "yes", "no", "error"}, mu : 0..MaxItems]
    /\ question \in {"none", "listed", "yes", "no", "gone"}
    /\ copy \in [is : {"none", "pending", "approved", "rejected", "expired", "cancelled"},
                 polled : BOOLEAN, done : BOOLEAN]
    /\ agent \in {"unknown", "ready", "broken"}
    /\ person \subseteq {"yes", "no"} /\ declined \in BOOLEAN

\* The loop stops short of the list only for an item that failed.
LoopInOrder ==
    /\ loop.next <= loop.n + 1
    /\ loop.pc = "start" => loop.next = 1 /\ loop.n = 0
    /\ loop.pc \in {"check", "launch"} => loop.next <= loop.n
    /\ loop.pc = "wait" => failed \/ loop.next = loop.n + 1
    /\ loop.pc # "done" => loop.result = "none" /\ loop.outputs = <<>>

\* An item that is not launched has done nothing, one that runs has no result,
\* and one that succeeded has put its output in its place.
ItemsInPlace ==
    /\ \A i \in Items :
         /\ i >= loop.next => item[i].pc = "new" /\ ~item[i].live /\ item[i].result = "none"
         /\ item[i].live => item[i].result = "none"
         /\ item[i].result = "ok" => out[i] = i
    /\ failed => \E i \in Launched : item[i].result \in {"error", "nothing"}

LoopInv == LoopInOrder /\ ItemsInPlace /\ OutputsPaired

\* Whoever is at the gate holds it and there is no answer yet; an answer of
\* yes is a person's; an item that has written did so under that answer.
GateInv ==
    /\ ~batch.asked => batch.answer = "none"
    /\ batch.answer = "yes" \/ question = "yes" \/ copy.is = "approved" => "yes" \in person
    /\ \A i \in Items :
         /\ item[i].pc \in {"open", "ask"} => batch.mu = i /\ batch.asked /\ batch.answer = "none"
         /\ sent[i] <= 1
         /\ sent[i] > 0 => batch.answer = "yes" /\ item[i].pc \in {"wrote", "over"}

FanOutInv == FanOutTyped /\ LoopInv /\ GateInv

-----------------------------------------------------------------------------
\* Item numbers are numbers, and there is no item 0.
LEMMA Numbering ==
  /\ MaxItems \in Nat /\ ItemLimit \in Nat \ {0} /\ Items \subseteq Nat /\ 0 \notin Items
  /\ \A i \in Items : i >= 1 /\ i <= MaxItems
BY FanOutAssumption DEF Items

\* A set of numbers that is not empty has a smallest.
LEMMA Smallest ==
  ASSUME NEW S, S \subseteq Nat, S # {}
  PROVE  \E m \in S : \A k \in S : m <= k
<1>1. \E m \in S : \A k \in S : ~ (<<k, m>> \in OpToRel(<, Nat))
      BY NatLessThanWellFounded, WFMin
<1>2. PICK m \in S : \A k \in S : ~ (<<k, m>> \in OpToRel(<, Nat))
      BY <1>1
<1>3. ASSUME NEW k \in S PROVE ~(k < m)
      BY <1>2 DEF OpToRel
<1> QED  BY <1>3

\* The invariant holds before the bot starts.
LEMMA FanOutInvInit == FanOutInit => FanOutInv
<1> SUFFICES ASSUME FanOutInit PROVE FanOutInv
    OBVIOUS
<1> USE Numbering DEF FanOutInit
<1>0. \A i \in Items : /\ item[i] \in Item /\ item[i].pc = "new" /\ ~item[i].live /\ item[i].result = "none"
                       /\ sent[i] = 0 /\ out[i] = 0
      BY DEF Item, Places
<1>1. FanOutTyped
  <2>1. loop \in LoopType
    <3>1. loop.outputs \in Seq(Items)  OBVIOUS
    <3> QED  BY <3>1 DEF Ends, LoopType
  <2>2. item \in [Items -> Item] /\ out \in [Items -> 0..MaxItems] /\ sent \in [Items -> Nat]
        BY <1>0
  <2> QED  BY <2>1, <2>2 DEF FanOutTyped, LoopType
<1>2. LoopInv
  <2>1. loop.pc = "start" /\ loop.n = 0 /\ loop.next = 1 /\ loop.result = "none" /\ ~failed
        /\ loop.outputs = <<>>
        OBVIOUS
  <2> HIDE DEF FanOutInit
  <2> QED  BY <1>0, <2>1 DEF LoopInv, LoopInOrder, ItemsInPlace, OutputsPaired
<1>3. GateInv
  <2>1. ~batch.asked /\ batch.answer = "none" /\ question = "none" /\ copy.is = "none"
        OBVIOUS
  <2> HIDE DEF FanOutInit
  <2>2. \A i \in Items : item[i].pc \notin {"open", "ask"} /\ sent[i] <= 1 /\ ~(sent[i] > 0)
    <3>1. ASSUME NEW i \in Items PROVE item[i].pc = "new" /\ sent[i] = 0
          BY <1>0
    <3> QED  BY <3>1
  <2> QED  BY <2>1, <2>2 DEF GateInv
<1> QED  BY <1>1, <1>2, <1>3 DEF FanOutInv

\* An item that moves on keeps everything but its place.
LEMMA GoesThere ==
  ASSUME FanOutTyped, NEW i \in Items, NEW spot \in Places, Goes(i, spot)
  PROVE  /\ item' \in [Items -> Item] /\ UNCHANGED <<loop, failed, out>>
         /\ item'[i].pc = spot /\ item'[i].live = item[i].live /\ item'[i].result = item[i].result
         /\ \A j \in Items : j # i => item'[j] = item[j]
<1>1. item' = [item EXCEPT ![i].pc = spot] /\ UNCHANGED <<loop, failed, out>> /\ item \in [Items -> Item]
      BY DEF Goes, FanOutTyped, LoopType
<1>2. item'[i] = [item[i] EXCEPT !.pc = spot] /\ item[i] \in Item
      BY <1>1
<1>3. /\ item'[i].pc = spot /\ item'[i].live = item[i].live /\ item'[i].result = item[i].result
      /\ item'[i] \in Item
      BY <1>2 DEF Item
<1> HIDE DEF Item
<1> QED  BY <1>1, <1>3

\* What is recorded of an item: its result, its output and whether the bot has
\* failed, unless nobody waits for it any more.
LEMMA RecordThere ==
  ASSUME FanOutTyped, NEW i \in Items, NEW spot \in Places, NEW ending \in Ends, Record(i, spot, ending)
  PROVE  /\ item' \in [Items -> Item] /\ UNCHANGED sent
         /\ item'[i].pc = spot /\ ~item'[i].live
         /\ item'[i].result = IF item[i].live THEN ending ELSE item[i].result
         /\ \A j \in Items : j # i => item'[j] = item[j]
         /\ out' \in [Items -> 0..MaxItems] /\ failed' \in BOOLEAN
         /\ \A j \in Items : j # i => out'[j] = out[j]
         /\ out'[i] = IF item[i].live /\ ending = "ok" THEN i ELSE out[i]
         /\ failed' = (failed \/ (item[i].live /\ ending # "ok"))
         /\ loop' = IF item[i].live THEN [loop EXCEPT !.slots = @ - 1] ELSE loop
<1> USE DEF Record, RecordedAs, FanOutTyped, LoopType
<1>1. /\ item' = [item EXCEPT ![i] = [pc |-> spot, live |-> FALSE,
                                      result |-> IF item[i].live THEN ending ELSE item[i].result]]
      /\ item \in [Items -> Item] /\ out \in [Items -> 0..MaxItems] /\ failed \in BOOLEAN
      /\ UNCHANGED sent
      OBVIOUS
<1> DEFINE after == [pc |-> spot, live |-> FALSE, result |-> IF item[i].live THEN ending ELSE item[i].result]
<1>2. after \in Item /\ after.pc = spot /\ ~after.live
      /\ after.result = IF item[i].live THEN ending ELSE item[i].result
  <2>1. item[i] \in Item  OBVIOUS
  <2>2. item[i].result \in Ends \cup {"none"}  BY <2>1 DEF Item
  <2> QED  BY <2>2 DEF Item
<1>3. item' \in [Items -> Item] /\ item'[i] = after /\ \A j \in Items : j # i => item'[j] = item[j]
  <2> HIDE DEF after, Item, Record, RecordedAs, FanOutTyped, LoopType
  <2>1. item' = [item EXCEPT ![i] = after]  BY <1>1 DEF after
  <2> QED  BY <1>1, <1>2, <2>1
<1>4. CASE item[i].live
  <2>1. /\ out' = IF ending = "ok" THEN [out EXCEPT ![i] = i] ELSE out
        /\ failed' = (failed \/ ending # "ok") /\ loop' = [loop EXCEPT !.slots = @ - 1]
        BY <1>4
  <2>2. i \in 0..MaxItems  BY DEF Items
  <2> HIDE DEF after, Item, Record, RecordedAs, FanOutTyped, LoopType
  <2>3. /\ out' \in [Items -> 0..MaxItems] /\ failed' \in BOOLEAN
        /\ \A j \in Items : j # i => out'[j] = out[j]
        /\ out'[i] = IF item[i].live /\ ending = "ok" THEN i ELSE out[i]
        BY <1>1, <1>4, <2>1, <2>2
  <2>4. failed' = (failed \/ (item[i].live /\ ending # "ok"))
        BY <1>4, <2>1
  <2>5. loop' = IF item[i].live THEN [loop EXCEPT !.slots = @ - 1] ELSE loop
        BY <1>4, <2>1
  <2> QED  BY <1>1, <1>2, <1>3, <2>3, <2>4, <2>5
<1>5. CASE ~item[i].live
  <2>1. UNCHANGED <<out, failed, loop>>
        BY <1>5
  <2> HIDE DEF after, Item, Record, RecordedAs, FanOutTyped, LoopType
  <2> QED  BY <1>1, <1>2, <1>3, <1>5, <2>1
<1> QED  BY <1>4, <1>5

-----------------------------------------------------------------------------
\* A step of an item moves it or records how it ended; it was launched.
LEMMA ItemSteps ==
  ASSUME FanOutTyped, NEW i \in Items, Steps(i) \/ MaxRuntimeOver(i)
  PROVE  /\ item[i].pc # "new" \/ item[i].live
         /\ \/ \E spot \in Places : Goes(i, spot)
            \/ \E spot \in Places, ending \in Ends : Record(i, spot, ending)
<1> USE DEF Places, Ends
<1>1. CASE Work(i)  BY <1>1 DEF Work
<1>2. CASE Approve(i)
      BY <1>2 DEF Approve, Asks
<1>3. CASE Mirror(i) \/ Answered(i) \/ GateTimeout(i)
      BY <1>3 DEF Mirror, Answered, GateTimeout, SettleItem
<1>4. CASE Act(i) \/ ReturnItem(i)  BY <1>4 DEF Act, ReturnItem
<1>5. CASE MaxRuntimeOver(i)
  <2>1. item[i].live /\ Record(i, item[i].pc, "error")  BY <1>5 DEF MaxRuntimeOver
  <2>2. item[i].pc \in Places  BY DEF FanOutTyped, LoopType, Item
  <2> QED  BY <2>1, <2>2
<1> QED  BY <1>1, <1>2, <1>3, <1>4, <1>5 DEF Steps

\* An item's step keeps what the loop relies on.
LEMMA ItemKeepsLoop ==
  ASSUME FanOutTyped, LoopInv, NEW i \in Items, Steps(i) \/ MaxRuntimeOver(i)
  PROVE  LoopInv'
<1> DEFINE fails == item'[i].result \in {"error", "nothing"}
\* What a step does to the item, whichever it is.
<1>1. /\ \A j \in Items : j # i => item'[j] = item[j] /\ out'[j] = out[j]
      /\ item'[i].live => item[i].live /\ item'[i].result = item[i].result
      /\ item[i].live \/ item'[i].result = item[i].result
      /\ item[i].result # "none" /\ ~item[i].live => item'[i].result = item[i].result /\ out'[i] = out[i]
      /\ item'[i].result = "ok" => out'[i] = i
      /\ failed' => failed \/ fails
      /\ loop'.pc = loop.pc /\ loop'.n = loop.n /\ loop'.next = loop.next
      /\ loop'.result = loop.result /\ loop'.outputs = loop.outputs
      /\ failed => failed'
  <2>0. /\ item[i].live => item[i].result = "none"
        /\ item[i].result = "ok" => out[i] = i
        BY DEF LoopInv, ItemsInPlace
  <2>1. CASE \E spot \in Places : Goes(i, spot)
    <3>1. PICK spot \in Places : Goes(i, spot)  BY <2>1
    <3> QED  BY <2>0, <3>1, GoesThere
  <2>2. CASE \E spot \in Places, ending \in Ends : Record(i, spot, ending)
    <3>1. PICK spot \in Places, ending \in Ends : Record(i, spot, ending)  BY <2>2
    <3>2. loop'.pc = loop.pc /\ loop'.n = loop.n /\ loop'.next = loop.next
          /\ loop'.result = loop.result /\ loop'.outputs = loop.outputs
      <4>1. loop' = loop \/ loop' = [loop EXCEPT !.slots = @ - 1]  BY <3>1, RecordThere
      <4> QED  BY <4>1 DEF FanOutTyped, LoopType
    <3>3. /\ ~item'[i].live
          /\ item'[i].result = IF item[i].live THEN ending ELSE item[i].result
          /\ \A j \in Items : j # i => item'[j] = item[j] /\ out'[j] = out[j]
          /\ out'[i] = IF item[i].live /\ ending = "ok" THEN i ELSE out[i]
          /\ failed' = (failed \/ (item[i].live /\ ending # "ok"))
          BY <3>1, RecordThere
    <3> QED  BY <2>0, <3>2, <3>3 DEF Ends
  <2> QED  BY <2>1, <2>2, ItemSteps
<1>2. i < loop.next
  <2>1. i >= loop.next => item[i].pc = "new" /\ ~item[i].live  BY DEF LoopInv, ItemsInPlace
  <2>2. loop.next \in Int /\ i \in Int  BY Numbering DEF FanOutTyped, LoopType
  <2> QED  BY <2>1, <2>2, ItemSteps
<1>3. LoopInOrder'
      BY <1>1 DEF LoopInv, LoopInOrder
<1>4. ItemsInPlace'
  <2>1. ASSUME NEW j \in Items
        PROVE  /\ j >= loop'.next => item'[j].pc = "new" /\ ~item'[j].live /\ item'[j].result = "none"
               /\ item'[j].live => item'[j].result = "none"
               /\ item'[j].result = "ok" => out'[j] = j
    <3>1. loop.next \in Int /\ i \in Int  BY Numbering DEF FanOutTyped, LoopType
    <3> QED  BY <1>1, <1>2, <3>1 DEF LoopInv, ItemsInPlace
  <2>2. ASSUME failed' PROVE \E k \in Launched' : item'[k].result \in {"error", "nothing"}
    <3>0. Launched' = Launched /\ i \in Launched /\ Launched \subseteq Items
      <4>1. loop.next \in 1..(MaxItems + 1)  BY DEF FanOutTyped, LoopType
      <4> QED  BY <1>1, <1>2, <4>1, Numbering DEF Launched, Items
    <3>1. CASE failed
      <4>1. PICK k \in Launched : item[k].result \in {"error", "nothing"}
            BY <3>1 DEF LoopInv, ItemsInPlace
      <4>2. item'[k].result = item[k].result
            BY <1>1, <3>0, <4>1 DEF LoopInv, ItemsInPlace
      <4> QED  BY <3>0, <4>1, <4>2
    <3>2. CASE ~failed  BY <1>1, <2>2, <3>0, <3>2
    <3> QED  BY <3>1, <3>2
  <2> QED  BY <2>1, <2>2 DEF ItemsInPlace
<1>5. OutputsPaired'
      BY <1>1 DEF LoopInv, OutputsPaired
<1> QED  BY <1>3, <1>4, <1>5 DEF LoopInv

\* So does a step of the loop itself; a bot that gives outputs has started
\* every item, and each succeeded.
LEMMA RunnerKeepsLoop ==
  ASSUME FanOutTyped, LoopInv, Runner
  PROVE  LoopInv'
<1> USE Numbering
<1>0. /\ loop.n \in Nat /\ loop.next \in Nat /\ loop.next >= 1 /\ loop.n <= MaxItems
      /\ loop.next <= MaxItems + 1
      BY DEF FanOutTyped, LoopType
<1>1. CASE Width
  <2>1. PICK a \in 0..MaxItems :
             \/ loop' = [loop EXCEPT !.pc = "done", !.result = "error"]
             \/ loop' = [loop EXCEPT !.pc = "done", !.result = "ok"]
             \/ loop' = [loop EXCEPT !.pc = "take", !.n = a]
        BY <1>1 DEF Width
  <2>2. loop.pc = "start" /\ UNCHANGED <<failed, item, out>>
        BY <1>1 DEF Width, itemVars
  <2>3. /\ loop'.next = 1 /\ loop'.outputs = <<>> /\ loop'.n \in Nat
        /\ \/ loop'.pc = "done" /\ loop'.n = 0
           \/ loop'.pc = "take" /\ loop'.result = "none"
    <3>1. loop.next = 1 /\ loop.n = 0 /\ loop.outputs = <<>> /\ loop.result = "none"
          BY <2>2 DEF LoopInv, LoopInOrder
    <3>2. CASE loop' = [loop EXCEPT !.pc = "done", !.result = "error"]
          BY <3>1, <3>2 DEF FanOutTyped, LoopType
    <3>3. CASE loop' = [loop EXCEPT !.pc = "done", !.result = "ok"]
          BY <3>1, <3>3 DEF FanOutTyped, LoopType
    <3>4. CASE loop' = [loop EXCEPT !.pc = "take", !.n = a]
          BY <3>1, <3>4 DEF FanOutTyped, LoopType
    <3> QED  BY <2>1, <3>2, <3>3, <3>4
  <2>4. loop'.n = 0 => loop'.outputs = [i \in 1..loop'.n |-> i]
    <3>1. <<>> = [i \in 1..0 |-> i]
          OBVIOUS
    <3> QED  BY <2>3, <3>1
  <2>5. OutputsPaired' /\ LoopInOrder'
        BY <2>3, <2>4 DEF OutputsPaired, LoopInOrder
  <2>6. ItemsInPlace'
        BY <2>2, <2>3 DEF LoopInv, LoopInOrder, ItemsInPlace, Launched
  <2> QED  BY <2>5, <2>6 DEF LoopInv
<1>2. CASE Take \/ Check
  <2>1. /\ loop'.n = loop.n /\ loop'.next = loop.next
        /\ loop'.result = loop.result /\ loop'.outputs = loop.outputs
        /\ loop'.pc \in {"wait", "check", "launch"} /\ loop.pc \in {"take", "check"}
        /\ loop'.pc \in {"check", "launch"} => loop.next <= loop.n
        /\ loop'.pc = "wait" => failed \/ loop.next > loop.n
        /\ UNCHANGED <<failed, item, out>>
    <3>1. CASE Take
      <4>1. /\ loop.pc = "take" /\ UNCHANGED <<failed, item, out>>
            /\ \/ loop.next > loop.n /\ loop' = [loop EXCEPT !.pc = "wait"]
               \/ ~(loop.next > loop.n) /\ loop' = [loop EXCEPT !.pc = "check", !.slots = @ + 1]
            BY <3>1 DEF Take, itemVars
      <4>2. CASE loop.next > loop.n /\ loop' = [loop EXCEPT !.pc = "wait"]
            BY <4>1, <4>2 DEF FanOutTyped, LoopType
      <4>3. CASE ~(loop.next > loop.n) /\ loop' = [loop EXCEPT !.pc = "check", !.slots = @ + 1]
        <5>1. /\ loop'.n = loop.n /\ loop'.next = loop.next /\ loop'.pc = "check"
              /\ loop'.result = loop.result /\ loop'.outputs = loop.outputs
              BY <4>3 DEF FanOutTyped, LoopType
        <5> QED  BY <1>0, <4>1, <4>3, <5>1
      <4> QED  BY <4>1, <4>2, <4>3
    <3>2. CASE Check
          BY <1>0, <3>2 DEF Check, itemVars, FanOutTyped, LoopType, LoopInv, LoopInOrder
    <3> QED  BY <1>2, <3>1, <3>2
  <2>2. LoopInOrder'  BY <1>0, <2>1 DEF LoopInv, LoopInOrder
  <2>3. ItemsInPlace' /\ OutputsPaired'
        BY <2>1 DEF LoopInv, ItemsInPlace, OutputsPaired, Launched
  <2> QED  BY <2>2, <2>3 DEF LoopInv
<1>3. CASE Launch
  <2> DEFINE first == loop.next
  <2>1. /\ loop.pc = "launch" /\ loop'.pc = "take" /\ loop'.n = loop.n /\ loop'.next = loop.next + 1
        /\ loop'.result = loop.result /\ loop'.outputs = loop.outputs /\ UNCHANGED <<failed, out>>
        BY <1>3 DEF Launch, FanOutTyped, LoopType
  <2>2. first \in Items /\ first <= loop.n
        BY <1>0, <2>1 DEF LoopInv, LoopInOrder, Items
  <2>3. /\ item'[first].result = "none" /\ \A j \in Items : j # first => item'[j] = item[j]
    <3>1. item' = [item EXCEPT ![first] = [item[first] EXCEPT !.pc = "work", !.live = TRUE]]
          BY <1>3 DEF Launch
    <3>2. item[first].result = "none" /\ item[first] \in Item /\ item \in [Items -> Item]
          BY <1>0, <2>2 DEF LoopInv, ItemsInPlace, FanOutTyped, LoopType
    <3>3. item'[first] = [item[first] EXCEPT !.pc = "work", !.live = TRUE]
          BY <2>2, <3>1, <3>2
    <3> QED  BY <3>1, <3>2, <3>3 DEF Item
  <2>4. LoopInOrder'  BY <1>0, <2>1, <2>2 DEF LoopInv, LoopInOrder
  <2>5. ItemsInPlace'
    <3>1. ASSUME NEW j \in Items
          PROVE  /\ j >= loop'.next => item'[j].pc = "new" /\ ~item'[j].live /\ item'[j].result = "none"
                 /\ item'[j].live => item'[j].result = "none"
                 /\ item'[j].result = "ok" => out'[j] = j
      <4>1. CASE j = first  BY <1>0, <2>1, <2>3, <4>1
      <4>2. CASE j # first  BY <1>0, <2>1, <2>3, <4>2 DEF LoopInv, ItemsInPlace
      <4> QED  BY <4>1, <4>2
    <3>2. ASSUME failed' PROVE \E k \in Launched' : item'[k].result \in {"error", "nothing"}
      <4>1. PICK k \in Launched : item[k].result \in {"error", "nothing"}
            BY <2>1, <3>2 DEF LoopInv, ItemsInPlace
      <4>2. k # first /\ k \in Launched' /\ k \in Items
            BY <1>0, <2>1, <4>1 DEF Launched, Items
      <4> QED  BY <2>3, <4>1, <4>2
    <3> QED  BY <3>1, <3>2 DEF ItemsInPlace
  <2>6. OutputsPaired'  BY <2>1 DEF LoopInv, LoopInOrder, OutputsPaired
  <2> QED  BY <2>4, <2>5, <2>6 DEF LoopInv
<1>4. CASE Aggregate
  <2> DEFINE bad == {i \in Launched : item[i].result # "ok"}
             first == CHOOSE i \in bad : \A k \in bad : i <= k
  <2>1. /\ loop.pc = "wait" /\ UNCHANGED <<failed, item, out>>
        /\ loop' = IF bad = {} THEN [loop EXCEPT !.pc = "done", !.result = "ok",
                                                 !.outputs = [i \in 1..loop.n |-> out[i]]]
                   ELSE [loop EXCEPT !.pc = "done", !.result = item[first].result]
        BY <1>4 DEF Aggregate, itemVars
  <2> HIDE DEF first, bad
  <2>2. loop'.pc = "done" /\ loop'.n = loop.n /\ loop'.next = loop.next
        BY <2>1 DEF FanOutTyped, LoopType
  <2>3. LoopInOrder' /\ ItemsInPlace'
        BY <2>1, <2>2 DEF LoopInv, LoopInOrder, ItemsInPlace, Launched
  <2>4. OutputsPaired'
    <3>1. CASE bad = {}
      <4>1. ~failed /\ \A i \in Launched : item[i].result = "ok"
            BY <3>1 DEF bad, LoopInv, ItemsInPlace
      <4>2. loop.next = loop.n + 1
            BY <2>1, <4>1 DEF LoopInv, LoopInOrder
      <4>3. \A i \in 1..loop.n : out[i] = i
            BY <1>0, <4>1, <4>2 DEF Launched, Items, LoopInv, ItemsInPlace
      <4>4. loop'.outputs = [i \in 1..loop.n |-> out[i]]
            BY <2>1, <3>1 DEF FanOutTyped, LoopType
      <4> QED  BY <2>2, <4>3, <4>4 DEF OutputsPaired
    <3>2. CASE bad # {}
      <4>1. loop'.result = item[first].result  BY <2>1, <3>2 DEF FanOutTyped, LoopType
      <4>2. \E i \in bad : \A k \in bad : i <= k
        <5>1. bad \subseteq Nat  BY <1>0 DEF bad, Launched
        <5> QED  BY <3>2, <5>1, Smallest
      <4>3. item[first].result # "ok"  BY <4>2 DEF bad, first
      <4> QED  BY <4>1, <4>3 DEF OutputsPaired
    <3> QED  BY <3>1, <3>2
  <2> QED  BY <2>3, <2>4 DEF LoopInv
<1> QED  BY <1>1, <1>2, <1>3, <1>4 DEF Runner

-----------------------------------------------------------------------------
\* Every step keeps the types.
LEMMA RunnerKeepsTypes ==
  ASSUME FanOutTyped, LoopInv, Runner
  PROVE  FanOutTyped'
<1>a. loop \in LoopType
      BY DEF FanOutTyped
<1>0. /\ item \in [Items -> Item]
      /\ loop.n \in Nat /\ loop.n <= MaxItems /\ loop.next \in 1..(MaxItems + 1) /\ loop.slots \in Int
      BY DEF FanOutTyped, LoopType
<1>1. UNCHANGED <<sent, batch, question, copy, agent, person, declined, out, failed>>
      BY DEF Runner, Width, Take, Check, Launch, Aggregate, itemVars, gateVars
<1>2. CASE Width
  <2>1. UNCHANGED item  BY <1>2 DEF Width, itemVars
  <2>2. PICK a \in 0..MaxItems :
             \/ loop' = [loop EXCEPT !.pc = "done", !.result = "error"]
             \/ loop' = [loop EXCEPT !.pc = "done", !.result = "ok"]
             \/ loop' = [loop EXCEPT !.pc = "take", !.n = a]
        BY <1>2 DEF Width
  <2>3. /\ [loop EXCEPT !.pc = "done", !.result = "error"] \in LoopType
        /\ [loop EXCEPT !.pc = "done", !.result = "ok"] \in LoopType
        BY <1>a DEF LoopType, Ends
  <2>4. [loop EXCEPT !.pc = "take", !.n = a] \in LoopType
        BY <1>a DEF LoopType
  <2>5. loop' \in LoopType  BY <2>2, <2>3, <2>4
  <2> QED  BY <1>0, <1>1, <2>1, <2>5 DEF FanOutTyped
<1>3. CASE Take \/ Check
  <2>1. UNCHANGED item  BY <1>3 DEF Take, Check, itemVars
  <2>2. \/ loop' = [loop EXCEPT !.pc = "wait"]
        \/ loop' = [loop EXCEPT !.pc = "launch"]
        \/ loop' = [loop EXCEPT !.pc = "check", !.slots = loop.slots + 1]
        \/ loop' = [loop EXCEPT !.pc = "wait", !.slots = loop.slots - 1]
        BY <1>3 DEF Take, Check
  <2>3. loop' \in LoopType
    <3>1. loop.slots + 1 \in Int /\ loop.slots - 1 \in Int  BY <1>0
    <3> QED  BY <1>a, <2>2, <3>1 DEF LoopType
  <2> QED  BY <1>0, <1>1, <2>1, <2>3 DEF FanOutTyped
<1>4. CASE Launch
  <2>1. loop.next \in Items /\ loop.next <= MaxItems
        BY <1>0, <1>4, Numbering DEF Launch, LoopInv, LoopInOrder, Items
  <2>2. item' = [item EXCEPT ![loop.next] = [item[loop.next] EXCEPT !.pc = "work", !.live = TRUE]]
        /\ loop' = [loop EXCEPT !.pc = "take", !.next = @ + 1]
        BY <1>4 DEF Launch
  <2>3. [item[loop.next] EXCEPT !.pc = "work", !.live = TRUE] \in Item
    <3>1. item[loop.next] \in Item  BY <1>0, <2>1, Numbering
    <3> QED  BY <3>1 DEF Item, Places
  <2>4. item' \in [Items -> Item]
    <3> HIDE DEF Item
    <3> QED  BY <1>0, <2>1, <2>2, <2>3
  <2>5. loop' \in LoopType
    <3>1. loop.next + 1 \in 1..(MaxItems + 1)  BY <1>0, <2>1, Numbering
    <3> QED  BY <1>a, <2>2, <3>1 DEF LoopType
  <2> QED  BY <1>1, <2>4, <2>5 DEF FanOutTyped
<1>5. CASE Aggregate
  <2>1. UNCHANGED item  BY <1>5 DEF Aggregate, itemVars
  <2> DEFINE bad == {i \in Launched : item[i].result # "ok"}
             first == CHOOSE i \in bad : \A k \in bad : i <= k
  <2>2. /\ loop.pc = "wait"
        /\ loop' = IF bad = {} THEN [loop EXCEPT !.pc = "done", !.result = "ok",
                                                 !.outputs = [i \in 1..loop.n |-> out[i]]]
                   ELSE [loop EXCEPT !.pc = "done", !.result = item[first].result]
        BY <1>5 DEF Aggregate
  <2>3. Launched \subseteq Items  BY <1>0, Numbering DEF Launched, Items
  <2> HIDE DEF bad, first
  <2>4. CASE bad = {}
    <3>1. \A i \in 1..loop.n : i \in Items /\ out[i] = i
      <4>1. ~failed /\ \A i \in Launched : item[i].result = "ok"
            BY <2>4 DEF bad, LoopInv, ItemsInPlace
      <4>2. loop.next = loop.n + 1  BY <2>2, <4>1 DEF LoopInv, LoopInOrder
      <4>3. loop.n \in Nat /\ loop.n <= MaxItems  BY <1>0
      <4> QED  BY <4>1, <4>2, <4>3, Numbering DEF Launched, Items, LoopInv, ItemsInPlace
    <3>2. [i \in 1..loop.n |-> out[i]] \in Seq(Items)
      <4>1. loop.n \in Nat  BY <1>0
      <4> QED  BY <3>1, <4>1
    <3>3. loop' \in LoopType  BY <1>a, <2>2, <2>4, <3>2 DEF LoopType, Ends
    <3> QED  BY <1>0, <1>1, <2>1, <3>3 DEF FanOutTyped
  <2>5. CASE bad # {}
    <3>1. bad \subseteq Nat  BY <2>3, Numbering DEF bad
    <3>2. first \in Items  BY <2>3, <2>5, <3>1, Smallest DEF first, bad
    <3>3. item[first].result \in Ends \cup {"none"}
      <4>1. item[first] \in Item  BY <1>0, <3>2
      <4> QED  BY <4>1 DEF Item
    <3>4. loop' \in LoopType  BY <1>a, <2>2, <2>5, <3>3 DEF LoopType
    <3> QED  BY <1>0, <1>1, <2>1, <3>4 DEF FanOutTyped
  <2> QED  BY <2>4, <2>5
<1> QED  BY <1>2, <1>3, <1>4, <1>5 DEF Runner

\* An item's steps keep the types, whatever they do at the gate.
LEMMA ItemKeepsTypes ==
  ASSUME FanOutTyped, NEW i \in Items, Steps(i) \/ MaxRuntimeOver(i)
  PROVE  FanOutTyped'
<1>1. /\ item' \in [Items -> Item] /\ failed' \in BOOLEAN /\ out' \in [Items -> 0..MaxItems]
      /\ loop' \in LoopType
  <2>1. CASE \E spot \in Places : Goes(i, spot)
    <3>1. PICK spot \in Places : Goes(i, spot)  BY <2>1
    <3> QED  BY <3>1, GoesThere DEF FanOutTyped, LoopType
  <2>2. CASE \E spot \in Places, ending \in Ends : Record(i, spot, ending)
    <3>1. PICK spot \in Places, ending \in Ends : Record(i, spot, ending)  BY <2>2
    <3>2. loop' = loop \/ loop' = [loop EXCEPT !.slots = @ - 1]  BY <3>1, RecordThere
    <3>3. loop' \in LoopType
      <4>1. loop \in LoopType /\ loop.slots - 1 \in Int  BY DEF FanOutTyped, LoopType
      <4> QED  BY <3>2, <4>1 DEF LoopType
    <3> QED  BY <3>1, <3>3, RecordThere
  <2> QED  BY <2>1, <2>2, ItemSteps
<1>2. /\ sent' \in [Items -> Nat]
      /\ batch' \in [asked : BOOLEAN, answer : {"none", "yes", "no", "error"}, mu : 0..MaxItems]
      /\ question' \in {"none", "listed", "yes", "no", "gone"}
      /\ copy' \in [is : {"none", "pending", "approved", "rejected", "expired", "cancelled"},
                    polled : BOOLEAN, done : BOOLEAN]
      /\ agent' \in {"unknown", "ready", "broken"} /\ UNCHANGED <<person, declined>>
  <2>1. CASE Work(i) \/ ReturnItem(i) \/ MaxRuntimeOver(i)
    <3>1. UNCHANGED <<sent, gateVars>>
          BY <2>1 DEF Work, ReturnItem, MaxRuntimeOver, Record, RecordedAs
    <3> QED  BY <3>1 DEF gateVars, FanOutTyped, LoopType
  <2>2. CASE Act(i)
    <3>1. UNCHANGED gateVars /\ (UNCHANGED sent \/ sent' = [sent EXCEPT ![i] = @ + 1])
          BY <2>2 DEF Act, Record, RecordedAs
    <3>2. sent' \in [Items -> Nat]  BY <3>1 DEF FanOutTyped
    <3> QED  BY <3>1, <3>2 DEF gateVars, FanOutTyped
  <2>3. CASE Approve(i)
    <3>1. i \in 0..MaxItems  BY Numbering DEF Items
    <3> QED  BY <2>3, <3>1 DEF Approve, Asks, FanOutTyped, LoopType
  <2>4. CASE Mirror(i)
    <3>1. /\ UNCHANGED <<sent, batch, question, person, declined>>
          /\ agent' \in {"ready", "broken", agent}
          /\ copy' = copy \/ copy' = [is |-> "pending", polled |-> TRUE, done |-> FALSE]
          BY <2>4 DEF Mirror
    <3>2. copy' \in [is : {"none", "pending", "approved", "rejected", "expired", "cancelled"},
                     polled : BOOLEAN, done : BOOLEAN]
      <4>1. CASE copy' = copy  BY <4>1 DEF FanOutTyped
      <4>2. CASE copy' = [is |-> "pending", polled |-> TRUE, done |-> FALSE]  BY <4>2
      <4> QED  BY <3>1, <4>1, <4>2
    <3>3. agent' \in {"unknown", "ready", "broken"}
          BY <3>1 DEF FanOutTyped
    <3> QED  BY <3>1, <3>2, <3>3 DEF FanOutTyped
  <2>5. CASE Answered(i) \/ GateTimeout(i)
    <3>1. 0 \in 0..MaxItems  BY Numbering
    <3> QED  BY <2>5, <3>1 DEF Answered, GateTimeout, SettleItem, FanOutTyped, LoopType
  <2> QED  BY <2>1, <2>2, <2>3, <2>4, <2>5 DEF Steps
<1> QED  BY <1>1, <1>2 DEF FanOutTyped, LoopType

\* Answers, and the goroutine that fetches them, touch the question and its
\* copy only.
Answering == Poller \/ PersonDecides \/ PersonDecidesOn1Claw \/ CopyExpires

\* They keep the types.
LEMMA AnsweringKeepsTypes ==
  ASSUME FanOutTyped, Answering
  PROVE  FanOutTyped' /\ UNCHANGED <<loop, failed, item, out, sent, batch, agent>>
<1> USE DEF Decide
<1>1. UNCHANGED <<loop, failed, item, out, sent, batch, agent>>
      BY DEF Answering, Poller, Withdraw, Poll, PersonDecides, PersonDecidesOn1Claw, CopyExpires, itemVars
<1>2. question' \in {"none", "listed", "yes", "no", "gone"} /\ declined' \in BOOLEAN
  <2>1. CASE UNCHANGED <<question, declined>>  BY <2>1 DEF FanOutTyped
  <2>2. CASE \E approved \in BOOLEAN : Decide(approved)  BY <2>2 DEF FanOutTyped
  <2> QED  BY <2>1, <2>2 DEF Answering, Poller, Withdraw, Poll, PersonDecides, PersonDecidesOn1Claw, CopyExpires
<1>3. person' \subseteq {"yes", "no"}
  <2>1. person' \in {person, person \cup {"yes"}, person \cup {"no"}}
        BY DEF Answering, Poller, Withdraw, Poll, PersonDecides, PersonDecidesOn1Claw, CopyExpires
  <2> QED  BY <2>1 DEF FanOutTyped
<1>4. copy' \in [is : {"none", "pending", "approved", "rejected", "expired", "cancelled"},
                 polled : BOOLEAN, done : BOOLEAN]
  <2>1. CASE PersonDecides  BY <2>1 DEF PersonDecides, FanOutTyped
  <2>2. CASE PersonDecidesOn1Claw  BY <2>2 DEF PersonDecidesOn1Claw, FanOutTyped
  <2>3. CASE CopyExpires  BY <2>3 DEF CopyExpires, FanOutTyped
  <2>4. CASE Withdraw
    <3>1. PICK after \in {copy.is, "cancelled"} : copy' = [copy EXCEPT !.polled = FALSE, !.is = after]
          BY <2>4 DEF Withdraw
    <3> QED  BY <3>1 DEF FanOutTyped
  <2>5. CASE Poll  BY <2>5 DEF Poll, FanOutTyped
  <2> QED  BY <2>1, <2>2, <2>3, <2>4, <2>5 DEF Answering, Poller
<1> QED  BY <1>1, <1>2, <1>3, <1>4 DEF FanOutTyped

\* A yes in the run's queue, or of the copy, is a person's.
LEMMA AnsweringKeepsGate ==
  ASSUME FanOutTyped, GateInv, Answering
  PROVE  GateInv'
<1>1. UNCHANGED <<item, sent, batch>>  BY AnsweringKeepsTypes
<1>2. "yes" \in person => "yes" \in person'
      BY DEF Answering, Poller, Withdraw, Poll, PersonDecides, PersonDecidesOn1Claw, CopyExpires
<1>3. question' = "yes" => "yes" \in person'
  <2>1. CASE PersonDecides  BY <2>1 DEF PersonDecides, Decide, GateInv
  <2>2. CASE Poll  BY <2>2 DEF Poll, Decide, GateInv
  <2>3. CASE UNCHANGED question  BY <1>2, <2>3 DEF GateInv
  <2> QED  BY <2>1, <2>2, <2>3 DEF Answering, Poller, Withdraw, PersonDecidesOn1Claw, CopyExpires
<1>4. copy'.is = "approved" => "yes" \in person'
  <2>1. copy'.is \in {copy.is, "expired", "cancelled"} \/ (copy'.is \in {"approved", "rejected"} /\ PersonDecidesOn1Claw)
    <3>1. CASE PersonDecides \/ CopyExpires \/ Poll
          BY <3>1 DEF PersonDecides, CopyExpires, Poll, FanOutTyped
    <3>2. CASE PersonDecidesOn1Claw  BY <3>2 DEF PersonDecidesOn1Claw, FanOutTyped
    <3>3. CASE Withdraw
      <4>1. PICK after \in {copy.is, "cancelled"} : copy' = [copy EXCEPT !.polled = FALSE, !.is = after]
            BY <3>3 DEF Withdraw
      <4> QED  BY <4>1 DEF FanOutTyped
    <3> QED  BY <3>1, <3>2, <3>3 DEF Answering, Poller
  <2>2. CASE PersonDecidesOn1Claw
        BY <2>2 DEF PersonDecidesOn1Claw, GateInv, FanOutTyped
  <2> QED  BY <1>2, <2>1, <2>2 DEF GateInv
<1>5. (~batch.asked => batch.answer = "none")' /\ (batch.answer = "yes" => "yes" \in person)'
      BY <1>1, <1>2 DEF GateInv
<1>6. \A i \in Items :
         /\ item'[i].pc \in {"open", "ask"} => batch'.mu = i /\ batch'.asked /\ batch'.answer = "none"
         /\ sent'[i] <= 1
         /\ sent'[i] > 0 => batch'.answer = "yes" /\ item'[i].pc \in {"wrote", "over"}
      BY <1>1 DEF GateInv
<1> QED  BY <1>3, <1>4, <1>5, <1>6 DEF GateInv

\* The loop launches nobody who is at the gate or has written.
LEMMA RunnerKeepsGate ==
  ASSUME FanOutTyped, LoopInv, GateInv, Runner
  PROVE  GateInv'
<1>1. UNCHANGED <<sent, batch, question, copy, agent, person, declined>>
      BY DEF Runner, Width, Take, Check, Launch, Aggregate, itemVars, gateVars
<1>2. \A i \in Items : item'[i].pc = item[i].pc \/ (item[i].pc = "new" /\ item'[i].pc = "work")
  <2>1. CASE Launch
    <3>1. loop.next \in Items
          BY <2>1, Numbering DEF Launch, LoopInv, LoopInOrder, Items, FanOutTyped, LoopType
    <3>2. item[loop.next].pc = "new"
      <4>0. loop.next \in Nat  BY <3>1, Numbering
      <4>1. loop.next >= loop.next  BY <4>0
      <4> QED  BY <3>1, <4>1 DEF LoopInv, ItemsInPlace
    <3>3. item' = [item EXCEPT ![loop.next] = [item[loop.next] EXCEPT !.pc = "work", !.live = TRUE]]
          BY <2>1 DEF Launch
    <3>4. item \in [Items -> Item] /\ item[loop.next] \in Item  BY <3>1 DEF FanOutTyped
    <3>5. item'[loop.next] = [item[loop.next] EXCEPT !.pc = "work", !.live = TRUE]
          BY <3>1, <3>3, <3>4
    <3>6. item'[loop.next].pc = "work"  BY <3>4, <3>5 DEF Item
    <3> QED  BY <3>2, <3>3, <3>4, <3>6
  <2>2. CASE UNCHANGED item  BY <2>2
  <2> QED  BY <2>1, <2>2 DEF Runner, Width, Take, Check, Aggregate, itemVars
<1> QED  BY <1>1, <1>2 DEF GateInv

\* Only one item ever asks, and it asks before anybody is told anything; so
\* the answer is the one under which every item writes.
LEMMA ItemKeepsGate ==
  ASSUME FanOutTyped, GateInv, NEW i \in Items, Steps(i) \/ MaxRuntimeOver(i)
  PROVE  GateInv'
<1> USE DEF Places, Ends
<1>0. /\ batch \in [asked : BOOLEAN, answer : {"none", "yes", "no", "error"}, mu : 0..MaxItems]
      /\ copy \in [is : {"none", "pending", "approved", "rejected", "expired", "cancelled"},
                   polled : BOOLEAN, done : BOOLEAN]
      /\ sent \in [Items -> Nat] /\ 0 \notin Items
      BY Numbering DEF FanOutTyped
<1>1. CASE Work(i) \/ ReturnItem(i) \/ MaxRuntimeOver(i) \/ (Act(i) /\ UNCHANGED sent)
  <2>1. UNCHANGED <<sent, gateVars>>
        BY <1>1 DEF Work, ReturnItem, MaxRuntimeOver, Act, Record, RecordedAs
  <2>2. /\ \A j \in Items : j # i => item'[j].pc = item[j].pc
        /\ \/ item'[i].pc = item[i].pc
           \/ item'[i].pc = "want" /\ item[i].pc = "work"
           \/ item'[i].pc = "over"
    <3>1. CASE \E spot \in Places : item[i].pc = "work" /\ spot = "want" /\ Goes(i, spot)
          BY <3>1, GoesThere
    <3>2. CASE \E spot \in Places, ending \in Ends : (spot = "over" \/ spot = item[i].pc) /\ Record(i, spot, ending)
          BY <3>2, RecordThere
    <3>3. item[i].pc \in Places  BY DEF FanOutTyped, Item
    <3>4. Work(i) \/ ReturnItem(i) \/ MaxRuntimeOver(i) => <3>1!1 \/ <3>2!1
          BY <3>3 DEF Work, ReturnItem, MaxRuntimeOver
    <3>5. Act(i) /\ UNCHANGED sent => <3>2!1
      <4>1. Goes(i, "wrote") /\ sent' = [sent EXCEPT ![i] = @ + 1] => sent' # sent
            BY <1>0
      <4> QED  BY <4>1 DEF Act
    <3> QED  BY <1>1, <3>1, <3>2, <3>4, <3>5
  <2> QED  BY <2>1, <2>2 DEF GateInv, gateVars
<1>2. CASE Act(i) /\ ~UNCHANGED sent
  <2>1. /\ item[i].pc = "told" /\ batch.answer = "yes" /\ Goes(i, "wrote") /\ UNCHANGED gateVars
        /\ sent' = [sent EXCEPT ![i] = @ + 1]
        BY <1>2 DEF Act, Record, RecordedAs
  <2>2. /\ \A j \in Items : j # i => item'[j].pc = item[j].pc /\ sent'[j] = sent[j]
        /\ item'[i].pc = "wrote" /\ sent'[i] = sent[i] + 1
        BY <1>0, <2>1, GoesThere
  <2>3. sent[i] = 0  BY <1>0, <2>1 DEF GateInv
  <2> QED  BY <2>1, <2>2, <2>3 DEF GateInv, gateVars
<1>3. CASE Approve(i)
  <2>1. CASE batch.asked
    <3>1. Goes(i, "told") /\ item[i].pc = "want" /\ UNCHANGED <<sent, gateVars>>
          BY <1>3, <2>1 DEF Approve, gateVars
    <3>2. item'[i].pc = "told" /\ \A j \in Items : j # i => item'[j].pc = item[j].pc
          BY <3>1, GoesThere
    <3> QED  BY <3>1, <3>2 DEF GateInv, gateVars
  <2>2. CASE ~batch.asked
    <3>1. /\ Goes(i, "open") /\ item[i].pc = "want" /\ UNCHANGED <<sent, copy, agent, person, declined>>
          /\ batch' = [batch EXCEPT !.asked = TRUE, !.mu = i] /\ question' = "listed" /\ batch.mu = 0
          BY <1>3, <2>2 DEF Approve, Asks
    <3>2. item'[i].pc = "open" /\ \A j \in Items : j # i => item'[j].pc = item[j].pc
          BY <3>1, GoesThere
    <3>3. batch'.asked /\ batch'.mu = i /\ batch'.answer = batch.answer
          BY <1>0, <3>1
    <3>4. batch.answer = "none" /\ \A j \in Items : item[j].pc \notin {"open", "ask"}
          BY <1>0, <2>2, <3>1 DEF GateInv
    <3> QED  BY <3>1, <3>2, <3>3, <3>4 DEF GateInv
  <2> QED  BY <2>1, <2>2
<1>4. CASE Mirror(i)
  <2>1. /\ Goes(i, "ask") /\ item[i].pc = "open" /\ UNCHANGED <<batch, question, person, declined, sent>>
        /\ copy' = copy \/ copy' = [is |-> "pending", polled |-> TRUE, done |-> FALSE]
        BY <1>4 DEF Mirror
  <2>2. item'[i].pc = "ask" /\ \A j \in Items : j # i => item'[j].pc = item[j].pc
        BY <2>1, GoesThere
  <2>3. copy'.is = "approved" => copy.is = "approved"
        BY <2>1
  <2> QED  BY <2>1, <2>2, <2>3 DEF GateInv
<1>5. CASE Answered(i) \/ GateTimeout(i)
  <2>1. PICK answer \in {"yes", "no", "error"} :
           /\ answer = "yes" => question = "yes"
           /\ SettleItem(i, answer, TRUE)
        BY <1>5 DEF Answered, GateTimeout
  <2>2. /\ Goes(i, "told") /\ item[i].pc = "ask" /\ UNCHANGED <<agent, person, declined, sent>>
        /\ batch' = [batch EXCEPT !.answer = answer, !.mu = 0] /\ question' = "gone"
        /\ copy' = [copy EXCEPT !.done = TRUE]
        BY <2>1 DEF SettleItem
  <2>3. item'[i].pc = "told" /\ \A j \in Items : j # i => item'[j].pc = item[j].pc
        BY <2>2, GoesThere
  <2>4. batch'.asked = batch.asked /\ batch'.answer = answer /\ copy'.is = copy.is
        BY <1>0, <2>2
  <2>5. /\ batch.asked /\ batch.answer = "none" /\ batch.mu = i
        /\ \A j \in Items : j # i => item[j].pc \notin {"open", "ask"}
        BY <2>2 DEF GateInv
  <2>6. \A j \in Items : sent[j] = 0
        BY <1>0, <2>5 DEF GateInv
  <2>7. batch'.answer = "yes" \/ question' = "yes" \/ copy'.is = "approved" => "yes" \in person'
        BY <2>1, <2>2, <2>4 DEF GateInv
  <2> QED  BY <2>2, <2>3, <2>4, <2>5, <2>6, <2>7 DEF GateInv
<1> QED  BY <1>1, <1>2, <1>3, <1>4, <1>5 DEF Steps

\* Every step keeps the invariant.
LEMMA FanOutInvStep == FanOutInv /\ [FanOutNext]_fanVars => FanOutInv'
<1> SUFFICES ASSUME FanOutInv, [FanOutNext]_fanVars PROVE FanOutInv'
    OBVIOUS
<1> USE DEF FanOutInv
<1>1. CASE Runner
      BY <1>1, RunnerKeepsTypes, RunnerKeepsLoop, RunnerKeepsGate
<1>2. CASE Answering
  <2>1. FanOutTyped' /\ GateInv' /\ UNCHANGED <<loop, failed, item, out>>
        BY <1>2, AnsweringKeepsTypes, AnsweringKeepsGate
  <2>2. LoopInv'
        BY <2>1 DEF LoopInv, LoopInOrder, ItemsInPlace, OutputsPaired, Launched
  <2> QED  BY <2>1, <2>2
<1>3. CASE \E i \in Items : Steps(i) \/ MaxRuntimeOver(i)
      BY <1>3, ItemKeepsTypes, ItemKeepsLoop, ItemKeepsGate
<1>4. CASE UNCHANGED fanVars
  <2> USE <1>4 DEF fanVars, itemVars, gateVars
  <2>1. FanOutTyped'  BY DEF FanOutTyped
  <2>2. LoopInv'  BY DEF LoopInv, LoopInOrder, ItemsInPlace, OutputsPaired, Launched
  <2>3. GateInv'  BY DEF GateInv
  <2> QED  BY <2>1, <2>2, <2>3
<1> QED  BY <1>1, <1>2, <1>3, <1>4 DEF FanOutNext, Answering

\* The inductive invariant of a fanned-out bot.
THEOREM FanOutInvariant == FanOutSpec => []FanOutInv
<1> QED  BY FanOutInvInit, FanOutInvStep, PTL DEF FanOutSpec

\* The outputs of a fanned-out bot are paired with its items, and one person's
\* answer covers all that its items write.
THEOREM FanOutSafe == FanOutSpec => []FanOutSafety
<1>1. FanOutInv => FanOutSafety
  <2> SUFFICES ASSUME FanOutInv PROVE FanOutSafety
      OBVIOUS
  <2> DEFINE Askers == {i \in Items : item[i].pc \in {"open", "ask"}}
  <2>1. Askers \subseteq {batch.mu}  BY DEF FanOutInv, GateInv
  <2>2. Cardinality(Askers) <= 1
    <3>1. IsFiniteSet({batch.mu}) /\ Cardinality({batch.mu}) = 1  BY FS_Singleton
    <3>2. Cardinality(Askers) <= Cardinality({batch.mu})  BY <2>1, <3>1, FS_Subset
    <3> QED  BY <3>1, <3>2
  <2> QED  BY <2>2 DEF FanOutInv, LoopInv, GateInv, FanOutSafety, OneAnswerForAll
<1> QED  BY <1>1, FanOutInvariant, PTL

-----------------------------------------------------------------------------
\* One slot for each item that runs and one for the item about to start:
\* neither an error, an early stop nor an abandoned attempt leaks one.
Reserved == IF loop.pc \in {"check", "launch"} THEN 1 ELSE 0
SlotsCounted ==
    /\ IsFiniteSet(Running) /\ loop.slots = Cardinality(Running) + Reserved
    /\ loop.slots <= ItemLimit

\* The loop takes and gives back slots as it goes.
LEMMA RunnerKeepsSlots ==
  ASSUME FanOutInv, SlotsCounted, Runner
  PROVE  SlotsCounted'
<1>0. /\ loop.slots \in Int /\ ItemLimit \in Nat /\ Cardinality(Running) \in Nat /\ loop \in LoopType
      /\ IsFiniteSet(Running)
      BY Numbering, FS_CardinalityType DEF FanOutInv, FanOutTyped, LoopType, SlotsCounted
<1>1. CASE Launch
  <2>1. loop.next \in Items /\ loop.next \in Nat
        BY <1>1, Numbering DEF Launch, FanOutInv, LoopInv, LoopInOrder, Items, FanOutTyped, LoopType
  <2>2. loop.next >= loop.next  BY <2>1
  <2>3. ~item[loop.next].live  BY <2>1, <2>2 DEF FanOutInv, LoopInv, ItemsInPlace
  <2>4. item' = [item EXCEPT ![loop.next] = [item[loop.next] EXCEPT !.pc = "work", !.live = TRUE]]
        BY <1>1 DEF Launch
  <2>5. item \in [Items -> Item] /\ item[loop.next] \in Item  BY <2>1 DEF FanOutInv, FanOutTyped
  <2>6. item'[loop.next] = [item[loop.next] EXCEPT !.pc = "work", !.live = TRUE]
        BY <2>1, <2>4, <2>5
  <2>7. item'[loop.next].live  BY <2>5, <2>6 DEF Item
  <2>8. \A j \in Items : j # loop.next => item'[j] = item[j]  BY <2>4, <2>5
  <2>9. Running' = Running \cup {loop.next} /\ loop.next \notin Running
        BY <2>1, <2>3, <2>7, <2>8 DEF Running
  <2>10. IsFiniteSet(Running') /\ Cardinality(Running') = Cardinality(Running) + 1
        BY <1>0, <2>9, FS_AddElement
  <2>11. loop.pc = "launch" /\ loop'.pc = "take" /\ loop'.slots = loop.slots
        BY <1>0, <1>1 DEF Launch, LoopType
  <2> QED  BY <1>0, <2>10, <2>11 DEF SlotsCounted, Reserved
<1>2. CASE Width \/ Take \/ Check \/ Aggregate
  <2>1. Running' = Running  BY <1>2 DEF Width, Take, Check, Aggregate, itemVars, Running
  <2>2. \/ loop'.slots = loop.slots /\ loop.pc \in {"start", "take", "wait"} /\ loop'.pc \in {"take", "wait", "done"}
        \/ loop'.slots = loop.slots /\ loop.pc = "check" /\ loop'.pc = "launch"
        \/ /\ loop'.slots = loop.slots + 1 /\ loop.slots < ItemLimit
           /\ loop.pc = "take" /\ loop'.pc = "check"
        \/ loop'.slots = loop.slots - 1 /\ loop.pc = "check" /\ loop'.pc = "wait"
    <3>1. CASE Width
      <4>1. PICK a \in 0..MaxItems :
             \/ loop' = [loop EXCEPT !.pc = "done", !.result = "error"]
             \/ loop' = [loop EXCEPT !.pc = "done", !.result = "ok"]
             \/ loop' = [loop EXCEPT !.pc = "take", !.n = a]
            BY <3>1 DEF Width
      <4>2. loop'.slots = loop.slots /\ loop'.pc \in {"take", "done"}
            BY <1>0, <4>1 DEF LoopType
      <4> QED  BY <3>1, <4>2 DEF Width
    <3>2. CASE Take
      <4>1. \/ loop' = [loop EXCEPT !.pc = "wait"]
            \/ loop.slots < ItemLimit /\ loop' = [loop EXCEPT !.pc = "check", !.slots = loop.slots + 1]
            BY <3>2 DEF Take
      <4>2. CASE loop' = [loop EXCEPT !.pc = "wait"]
            BY <1>0, <3>2, <4>2 DEF LoopType, Take
      <4>3. CASE loop.slots < ItemLimit /\ loop' = [loop EXCEPT !.pc = "check", !.slots = loop.slots + 1]
            BY <1>0, <3>2, <4>3 DEF LoopType, Take
      <4> QED  BY <4>1, <4>2, <4>3
    <3>3. CASE Check
      <4>1. CASE loop' = [loop EXCEPT !.pc = "wait", !.slots = loop.slots - 1]
            BY <1>0, <3>3, <4>1 DEF LoopType, Check
      <4>2. CASE loop' = [loop EXCEPT !.pc = "launch"]
            BY <1>0, <3>3, <4>2 DEF LoopType, Check
      <4> QED  BY <3>3, <4>1, <4>2 DEF Check
    <3>4. CASE Aggregate
      <4>1. loop'.slots = loop.slots /\ loop'.pc = "done"
            BY <1>0, <3>4 DEF LoopType, Aggregate
      <4> QED  BY <3>4, <4>1 DEF Aggregate
    <3> QED  BY <1>2, <3>1, <3>2, <3>3, <3>4
  <2> QED  BY <1>0, <2>1, <2>2 DEF SlotsCounted, Reserved
<1> QED  BY <1>1, <1>2 DEF Runner

\* An item gives its slot back exactly when it stops being waited for.
LEMMA ItemKeepsSlots ==
  ASSUME FanOutInv, SlotsCounted, NEW i \in Items, Steps(i) \/ MaxRuntimeOver(i)
  PROVE  SlotsCounted'
<1>0. /\ loop.slots \in Int /\ ItemLimit \in Nat /\ Cardinality(Running) \in Nat /\ loop \in LoopType
      /\ IsFiniteSet(Running) /\ FanOutTyped
      BY Numbering, FS_CardinalityType DEF FanOutInv, FanOutTyped, LoopType, SlotsCounted
<1>1. CASE \E spot \in Places : Goes(i, spot)
  <2>1. UNCHANGED loop /\ \A j \in Items : item'[j].live = item[j].live
        BY <1>0, <1>1, GoesThere
  <2>2. Running' = Running  BY <2>1 DEF Running
  <2> QED  BY <2>1, <2>2 DEF SlotsCounted, Reserved
<1>2. CASE \E spot \in Places, ending \in Ends : Record(i, spot, ending)
  <2>1. /\ ~item'[i].live /\ \A j \in Items : j # i => item'[j] = item[j]
        /\ loop' = IF item[i].live THEN [loop EXCEPT !.slots = @ - 1] ELSE loop
        BY <1>0, <1>2, RecordThere
  <2>2. CASE item[i].live
    <3>1. Running' = Running \ {i} /\ i \in Running  BY <2>1, <2>2 DEF Running
    <3>2. IsFiniteSet(Running') /\ Cardinality(Running') = Cardinality(Running) - 1
          BY <1>0, <3>1, FS_RemoveElement
    <3>3. loop'.slots = loop.slots - 1 /\ loop'.pc = loop.pc
          BY <1>0, <2>1, <2>2 DEF LoopType
    <3> QED  BY <1>0, <3>2, <3>3 DEF SlotsCounted, Reserved
  <2>3. CASE ~item[i].live
    <3>1. Running' = Running /\ UNCHANGED loop  BY <2>1, <2>3 DEF Running
    <3> QED  BY <3>1 DEF SlotsCounted, Reserved
  <2> QED  BY <2>2, <2>3
<1> QED  BY <1>0, <1>1, <1>2, ItemSteps

\* No slot is leaked and there are never more items at a time than there are
\* slots: MaxItems and the limit may be anything.
THEOREM SlotsBalance == FanOutSpec => []SlotsCounted
<1>1. FanOutInit => SlotsCounted
  <2> SUFFICES ASSUME FanOutInit PROVE SlotsCounted
      OBVIOUS
  <2>1. Running = {} /\ loop.slots = 0 /\ loop.pc = "start"  BY DEF FanOutInit, Running
  <2> QED  BY <2>1, FS_EmptySet, Numbering DEF SlotsCounted, Reserved
<1>2. FanOutInv /\ SlotsCounted /\ [FanOutNext]_fanVars => SlotsCounted'
  <2> SUFFICES ASSUME FanOutInv, SlotsCounted, [FanOutNext]_fanVars PROVE SlotsCounted'
      OBVIOUS
  <2>1. CASE UNCHANGED fanVars
        BY <2>1 DEF fanVars, itemVars, SlotsCounted, Reserved, Running
  <2>2. CASE Answering
    <3>1. UNCHANGED <<loop, item>>  BY <2>2, AnsweringKeepsTypes DEF FanOutInv
    <3> QED  BY <3>1 DEF SlotsCounted, Reserved, Running
  <2> QED  BY <2>1, <2>2, RunnerKeepsSlots, ItemKeepsSlots DEF FanOutNext, Answering
<1> QED  BY <1>1, <1>2, FanOutInvariant, PTL DEF FanOutSpec

\* Every variable of a fanned-out bot stays in its type.
THEOREM FanOutTypes == FanOutSpec => []FanOutTypeOK
<1>1. FanOutInv /\ SlotsCounted => FanOutTypeOK
  <2> SUFFICES ASSUME FanOutInv, SlotsCounted PROVE FanOutTypeOK
      OBVIOUS
  <2>1. loop.slots \in 0..ItemLimit
    <3>1. Cardinality(Running) \in Nat /\ Reserved \in {0, 1}
          BY FS_CardinalityType DEF SlotsCounted, Reserved
    <3> QED  BY <3>1, Numbering DEF SlotsCounted
  <2>2. sent \in [Items -> 0..MaxItems]
    <3>1. \A i \in Items : sent[i] \in 0..MaxItems
          BY Numbering DEF FanOutInv, GateInv, FanOutTyped
    <3> QED  BY <3>1 DEF FanOutInv, FanOutTyped
  <2>3. loop \in [pc : {"start", "take", "check", "launch", "wait", "done"}, n : 0..MaxItems,
                 next : 1..(MaxItems + 1), slots : 0..ItemLimit,
                 result : {"none", "ok", "error", "nothing"}, outputs : Seq(Items)]
        BY <2>1 DEF FanOutInv, FanOutTyped, LoopType, Ends
  <2>4. item \in [Items -> [pc : {"new", "work", "want", "open", "ask", "told", "wrote", "over"},
                           live : BOOLEAN, result : {"none", "ok", "error", "nothing"}]]
    <3>1. Item = [pc : {"new", "work", "want", "open", "ask", "told", "wrote", "over"},
                  live : BOOLEAN, result : {"none", "ok", "error", "nothing"}]
          BY DEF Item, Places, Ends
    <3> QED  BY <3>1 DEF FanOutInv, FanOutTyped
  <2> QED  BY <2>2, <2>3, <2>4 DEF FanOutInv, FanOutTyped, FanOutTypeOK
<1> QED  BY <1>1, FanOutInvariant, SlotsBalance, PTL

-----------------------------------------------------------------------------
(* The parts side by side.                                                 *)

\* A behaviour of all parts is a behaviour of each.
LEMMA EachProgresses == ProgressSpec => Spec /\ CacheSpec /\ FanOutSpec /\ SchedSpec
<1>1. ProgressInit => Init /\ CacheInit /\ FanOutInit /\ SchedInit
      BY DEF ProgressInit
<1>2. ProgressNext \/ UNCHANGED progressVars
      => /\ Next \/ UNCHANGED vars
         /\ CacheNext \/ UNCHANGED cacheVars
         /\ FanOutNext \/ UNCHANGED fanVars
         /\ SchedNext \/ UNCHANGED schedVars
      BY DEF ProgressNext, progressVars
<1>3. [ProgressNext]_progressVars
      => [Next]_vars /\ [CacheNext]_cacheVars /\ [FanOutNext]_fanVars /\ [SchedNext]_schedVars
      BY <1>2
<1> QED  BY <1>1, <1>3, PTL DEF ProgressSpec, Spec, CacheSpec, FanOutSpec, SchedSpec

\* The parts that have to go on keep their types side by side.
THEOREM ProgressTyped == ProgressSpec => []ProgressTypes
<1>1. TypeOK /\ CacheTypeOK /\ FanOutTypeOK /\ SchedTypeOK => ProgressTypes
      BY DEF ProgressTypes
<1> QED  BY <1>1, EachProgresses, DagTypeOK, CacheTypes, FanOutTypes, SchedTypes, PTL

\* What a swarm, a cache and a fanned-out bot promise holds of them side by
\* side (execute.go, ttlcache.go, fanout.go).
THEOREM ProgressSafe == ProgressSpec => [](DagSafety /\ CacheSafety /\ FanOutSafety)
<1> QED  BY EachProgresses, DagSafe, CacheSafe, FanOutSafe, PTL

-----------------------------------------------------------------------------
(* What the cache's answers need, besides fairness: that each step brings a *)
(* call nearer to its answer, and that nobody waits in vain.                *)

\* The steps a call has left, at most.
CallLeft(r) ==
    CASE rd[r].pc = "enter" -> 5 [] rd[r].pc = "compute" -> 4 [] rd[r].pc = "store" -> 3
      [] rd[r].pc = "close" -> 2 [] rd[r].pc = "wait" -> 2 [] rd[r].pc = "got" -> 1 [] OTHER -> 0

\* Each step of a call brings it nearer to its end, and no step of anybody
\* takes a call back that is on its way, the refresh included.
CallsCounted ==
    [][\A r \in Readers :
          /\ Answer(r) => CallLeft(r)' < CallLeft(r)
          /\ rd[r].pc # "idle" => CallLeft(r)' <= CallLeft(r)]_cacheVars

\* Nobody waits but for a reader that is on its way to wake it.
WaitsForOneThatRuns ==
    \A r \in Readers : rd[r].pc = "wait" => rd[rd[r].joined].pc \in {"compute", "store", "close"}

\* A flight is up while its owner fetches, and the refresh is asked for only
\* when it is idle.
FlightInv ==
    /\ \A q \in flying : rd[q].pc \in {"compute", "store"}
    /\ WaitsForOneThatRuns
    /\ ~refreshing => rd["refresh"].pc = "idle"

\* What a step does to the readers' places.
Moved(r, from, to) ==
    /\ rd[r].pc = from /\ rd'[r].pc = to
    /\ \A q \in Readers : q # r => rd'[q] = rd[q]

\* Who asks is idle, and the only other reader that may move is the refresh.
LEMMA AskMoves ==
    ASSUME CacheInv, FlightInv, NEW r \in Requests, CallDo(r) \/ CallDoStale(r)
    PROVE  /\ flying' = flying /\ r \in Readers /\ rd[r].pc = "idle"
           /\ rd'[r].pc \in {"enter", "got"}
           /\ \A q \in Readers : q # r =>
                 \/ rd'[q] = rd[q]
                 \/ q = "refresh" /\ rd[q].pc = "idle" /\ rd'[q].pc = "enter"
           /\ refreshing' \/ (~refreshing /\ rd'["refresh"] = rd["refresh"])
<1>0. /\ rd \in [Readers -> Reader] /\ r \in Readers /\ "refresh" \in Readers /\ r # "refresh"
      /\ refreshing \in BOOLEAN
  BY CacheAssumption DEF CacheInv, CacheTyped, Readers
<1>1. /\ Asking(r).pc = "enter" /\ Asking("refresh").pc = "enter"
      /\ Occupied(Asking(r), cache.val, cache.gen).pc = "got"
  BY DEF Asking, Idle, Occupied
<1>2. CASE CallDo(r)
  <2>1. rd' = [rd EXCEPT ![r] = Asking(r)] /\ rd[r].pc = "idle" /\ flying' = flying
        /\ refreshing' = refreshing
    BY <1>2 DEF CallDo
  <2> HIDE DEF Asking, Reader
  <2> QED BY <1>0, <1>1, <2>1
<1>3. CASE CallDoStale(r) /\ cache.val # None /\ cache.expired
  <2>1. PICK x : /\ rd' = [rd EXCEPT ![r] = Occupied(Asking(r), cache.val, cache.gen),
                                     !["refresh"] = x]
                 /\ \/ ~refreshing /\ x = Asking("refresh")
                    \/ x = [rd EXCEPT ![r] = Occupied(Asking(r), cache.val, cache.gen)]["refresh"]
    BY <1>3 DEF CallDoStale
  <2>2. /\ rd[r].pc = "idle" /\ flying' = flying
        /\ refreshing' = (refreshing \/ (~refreshing /\ flying = {}))
    BY <1>3 DEF CallDoStale
  <2>3. ~refreshing' => rd'["refresh"] = rd["refresh"]
    <3>1. CASE flying = {}
      BY <1>0, <2>2, <3>1
    <3>2. CASE flying # {}
      <4>1. rd' = [rd EXCEPT ![r] = Occupied(Asking(r), cache.val, cache.gen),
                             !["refresh"] = @]
        BY <1>3, <3>2 DEF CallDoStale
      <4> HIDE DEF Asking, Occupied, Reader
      <4> QED BY <1>0, <4>1
    <3> QED BY <3>1, <3>2
  <2> HIDE DEF Asking, Occupied, Reader
  <2>4. rd'[r] = Occupied(Asking(r), cache.val, cache.gen)
    BY <1>0, <2>1
  <2>5. \A q \in Readers : q # r /\ q # "refresh" => rd'[q] = rd[q]
    BY <1>0, <2>1
  <2>6. rd'["refresh"] = x
    BY <1>0, <2>1
  <2>7. rd'["refresh"] = rd["refresh"] \/ (rd["refresh"].pc = "idle" /\ rd'["refresh"].pc = "enter")
    BY <1>0, <1>1, <2>1, <2>6 DEF FlightInv
  <2>8. refreshing' \/ (~refreshing /\ rd'["refresh"] = rd["refresh"])
    BY <1>0, <2>2, <2>3
  <2> QED BY <1>0, <1>1, <2>2, <2>4, <2>5, <2>7, <2>8
<1>4. CASE CallDoStale(r) /\ ~(cache.val # None /\ cache.expired)
  <2>1. rd' = [rd EXCEPT ![r] = Asking(r)] /\ rd[r].pc = "idle" /\ flying' = flying
        /\ refreshing' = refreshing
    BY <1>4 DEF CallDoStale
  <2> HIDE DEF Asking, Reader
  <2> QED BY <1>0, <1>1, <2>1
<1> QED BY <1>2, <1>3, <1>4

\* Each step of an answer, and whom it moves.
LEMMA AnswerMoves ==
    ASSUME CacheInv, NEW r \in Readers, Answer(r)
    PROVE  \/ /\ Moved(r, "enter", "got") \/ Moved(r, "compute", "store")
              /\ flying' = flying /\ refreshing' = refreshing
           \/ /\ Moved(r, "enter", "wait") /\ rd'[r].joined \in flying
              /\ flying' = flying /\ refreshing' = refreshing
           \/ /\ Moved(r, "enter", "compute") /\ flying = {} /\ flying' = {r}
              /\ refreshing' = refreshing
           \/ Moved(r, "store", "close") /\ flying' = {} /\ refreshing' = refreshing
           \/ /\ rd[r].pc = "close" /\ flying' = flying /\ refreshing' = refreshing
              /\ \A q \in Readers :
                    IF q = r \/ (rd[q].pc = "wait" /\ rd[q].joined = r)
                      THEN rd'[q].pc = "got" ELSE rd'[q] = rd[q]
           \/ /\ Moved(r, "got", "idle") /\ flying' = flying
              /\ refreshing' = (refreshing /\ r # "refresh")
<1>0. rd \in [Readers -> Reader] /\ flying \subseteq Readers
  BY DEF CacheInv, CacheTyped
<1>f. ASSUME NEW x, NEW to, x.pc = to, NEW from, rd[r].pc = from, rd' = [rd EXCEPT ![r] = x]
      PROVE  Moved(r, from, to) /\ rd'[r] = x
  <2> HIDE DEF Reader
  <2> QED BY <1>0, <1>f DEF Moved
<1>1. CASE Enter(r)
  <2>0. rd[r].pc = "enter" /\ refreshing' = refreshing
    BY <1>1 DEF Enter
  <2>1. CASE rd' = [rd EXCEPT ![r] = Occupied(@, cache.val, cache.gen)] /\ UNCHANGED flying
    <3>1. rd' = [rd EXCEPT ![r] = Occupied(rd[r], cache.val, cache.gen)] BY <2>1
    <3>2. Occupied(rd[r], cache.val, cache.gen).pc = "got" BY <1>0 DEF Occupied, Reader
    <3>3. Moved(r, "enter", "got") BY <2>0, <3>1, <3>2, <1>f
    <3> QED BY <2>0, <2>1, <3>3
  <2>2. CASE (\E q \in flying : rd' = [rd EXCEPT ![r].pc = "wait", ![r].joined = q]) /\ UNCHANGED flying
    <3>1. PICK q \in flying : rd' = [rd EXCEPT ![r].pc = "wait", ![r].joined = q] BY <2>2
    <3>2. rd' = [rd EXCEPT ![r] = [rd[r] EXCEPT !.pc = "wait", !.joined = q]] BY <1>0, <3>1
    <3>3. PICK x : x = [rd[r] EXCEPT !.pc = "wait", !.joined = q] OBVIOUS
    <3>4. x.pc = "wait" /\ x.joined = q BY <1>0, <3>3 DEF Reader
    <3>5. Moved(r, "enter", "wait") /\ rd'[r] = x BY <2>0, <3>2, <3>3, <3>4, <1>f
    <3> QED BY <2>0, <2>2, <3>4, <3>5
  <2>3. CASE flying = {} /\ TakeOff(r)
    <3>1. rd' = [rd EXCEPT ![r].pc = "compute", ![r].since = cache.gen] /\ flying' = {r}
      BY <2>3 DEF TakeOff
    <3>2. rd' = [rd EXCEPT ![r] = [rd[r] EXCEPT !.pc = "compute", !.since = cache.gen]] BY <1>0, <3>1
    <3>3. PICK x : x = [rd[r] EXCEPT !.pc = "compute", !.since = cache.gen] OBVIOUS
    <3>4. x.pc = "compute" BY <1>0, <3>3 DEF Reader
    <3>5. Moved(r, "enter", "compute") BY <2>0, <3>2, <3>3, <3>4, <1>f
    <3> QED BY <2>0, <2>3, <3>1, <3>5
  <2> QED BY <1>1, <2>1, <2>2, <2>3 DEF Enter
<1>2. CASE Compute(r)
  <2>1. PICK v \in {world, Failed} : rd' = [rd EXCEPT ![r].saw = v, ![r].pc = "store"]
    BY <1>2 DEF Compute
  <2>2. rd' = [rd EXCEPT ![r] = [rd[r] EXCEPT !.saw = v, !.pc = "store"]] BY <1>0, <2>1
  <2>3. PICK x : x = [rd[r] EXCEPT !.saw = v, !.pc = "store"] OBVIOUS
  <2>4. x.pc = "store" BY <1>0, <2>3 DEF Reader
  <2>5. rd[r].pc = "compute" /\ flying' = flying /\ refreshing' = refreshing BY <1>2 DEF Compute
  <2>6. Moved(r, "compute", "store") BY <2>2, <2>3, <2>4, <2>5, <1>f
  <2> QED BY <2>5, <2>6
<1>3. CASE Store(r)
  <2>1. rd[r].pc = "store" /\ flying' = {} /\ refreshing' = refreshing
        /\ rd' = [rd EXCEPT ![r].pc = "close"]
    BY <1>3 DEF Store, StoreAndLand
  <2>2. rd' = [rd EXCEPT ![r] = [rd[r] EXCEPT !.pc = "close"]] BY <1>0, <2>1
  <2>3. PICK x : x = [rd[r] EXCEPT !.pc = "close"] OBVIOUS
  <2>4. x.pc = "close" BY <1>0, <2>3 DEF Reader
  <2>5. Moved(r, "store", "close") BY <2>1, <2>2, <2>3, <2>4, <1>f
  <2> QED BY <2>1, <2>5
<1>4. CASE Close(r)
  <2>1. rd[r].pc = "close" /\ flying' = flying /\ refreshing' = refreshing
    BY <1>4 DEF Close
  <2>2. ASSUME NEW q \in Readers
        PROVE  IF q = r \/ (rd[q].pc = "wait" /\ rd[q].joined = r)
                 THEN rd'[q].pc = "got" ELSE rd'[q] = rd[q]
    <3>1. CASE q = r \/ (rd[q].pc = "wait" /\ rd[q].joined = r)
      <4>1. rd'[q] = [Occupied(rd[q], rd[r].saw, rd[r].since) EXCEPT !.joined = q]
        BY <1>4, <3>1 DEF Close
      <4>2. rd'[q].pc = "got" BY <1>0, <4>1 DEF Occupied, Reader
      <4> QED BY <3>1, <4>2
    <3>2. CASE ~(q = r \/ (rd[q].pc = "wait" /\ rd[q].joined = r))
      BY <1>4, <3>2 DEF Close
    <3> QED BY <3>1, <3>2
  <2> QED BY <2>1, <2>2
<1>5. CASE Leave(r)
  <2>1. rd[r].pc = "got" /\ flying' = flying /\ refreshing' = (refreshing /\ r # "refresh")
        /\ rd' = [rd EXCEPT ![r] = Idle(r)]
    BY <1>5 DEF Leave
  <2>2. Idle(r).pc = "idle" BY DEF Idle
  <2>3. Moved(r, "got", "idle") BY <2>1, <2>2, <1>f
  <2> QED BY <2>1, <2>3
<1> QED BY <1>1, <1>2, <1>3, <1>4, <1>5 DEF Answer

\* A flight's owner is on its way to wake those who joined it.
LEMMA FlightKept == CacheInv /\ FlightInv /\ [CacheNext]_cacheVars => FlightInv'
<1> SUFFICES ASSUME CacheInv, FlightInv, [CacheNext]_cacheVars PROVE FlightInv'
  OBVIOUS
<1>0. /\ rd \in [Readers -> Reader] /\ flying \subseteq Readers /\ "refresh" \in Readers
      /\ refreshing \in BOOLEAN
      /\ \A q \in Readers : rd[q].joined \in Readers
  BY DEF CacheInv, CacheTyped, Readers, Reader
<1>1. CASE UNCHANGED <<flying, refreshing, rd>>
  BY <1>1 DEF FlightInv, WaitsForOneThatRuns
<1>2. ASSUME NEW r \in Requests, CallDo(r) \/ CallDoStale(r) PROVE FlightInv'
  <2>1. /\ flying' = flying /\ r \in Readers /\ rd[r].pc = "idle"
        /\ rd'[r].pc \in {"enter", "got"}
        /\ \A q \in Readers : q # r =>
              \/ rd'[q] = rd[q]
              \/ q = "refresh" /\ rd[q].pc = "idle" /\ rd'[q].pc = "enter"
        /\ refreshing' \/ (~refreshing /\ rd'["refresh"] = rd["refresh"])
    BY <1>2, AskMoves
  <2>2. \A q \in Readers : rd[q].pc # "idle" => rd'[q] = rd[q]
    BY <2>1
  <2>3. \A q \in flying' : rd'[q].pc \in {"compute", "store"}
    BY <1>0, <2>1, <2>2 DEF FlightInv
  <2>4. ASSUME NEW q \in Readers, rd'[q].pc = "wait"
        PROVE  rd'[rd'[q].joined].pc \in {"compute", "store", "close"}
    <3>1. rd'[q] = rd[q] BY <2>1, <2>4
    <3>2. rd[rd[q].joined].pc \in {"compute", "store", "close"}
      BY <2>4, <3>1 DEF FlightInv, WaitsForOneThatRuns
    <3> QED BY <1>0, <2>2, <3>1, <3>2
  <2>5. ~refreshing' => rd'["refresh"].pc = "idle"
    BY <2>1 DEF FlightInv
  <2> QED BY <2>3, <2>4, <2>5 DEF FlightInv, WaitsForOneThatRuns
<1>3. ASSUME NEW r \in Readers, Answer(r) PROVE FlightInv'
  <2>0. /\ \A q \in flying : rd[q].pc \in {"compute", "store"}
        /\ \A q \in Readers : rd[q].pc = "wait" => rd[rd[q].joined].pc \in {"compute", "store", "close"}
        /\ ~refreshing => rd["refresh"].pc = "idle"
    BY DEF FlightInv, WaitsForOneThatRuns
  <2> SUFFICES /\ \A q \in flying' : rd'[q].pc \in {"compute", "store"}
               /\ \A q \in Readers : rd'[q].pc = "wait" =>
                     rd'[rd'[q].joined].pc \in {"compute", "store", "close"}
               /\ ~refreshing' => rd'["refresh"].pc = "idle"
    BY DEF FlightInv, WaitsForOneThatRuns
  <2>1. CASE /\ Moved(r, "enter", "got") \/ Moved(r, "compute", "store")
             /\ flying' = flying /\ refreshing' = refreshing
    BY <1>0, <2>0, <2>1 DEF Moved
  <2>2. CASE /\ Moved(r, "enter", "wait") /\ rd'[r].joined \in flying
             /\ flying' = flying /\ refreshing' = refreshing
    BY <1>0, <2>0, <2>2 DEF Moved
  <2>3. CASE /\ Moved(r, "enter", "compute") /\ flying = {} /\ flying' = {r}
             /\ refreshing' = refreshing
    BY <1>0, <2>0, <2>3 DEF Moved
  <2>4. CASE Moved(r, "store", "close") /\ flying' = {} /\ refreshing' = refreshing
    BY <1>0, <2>0, <2>4 DEF Moved
  <2>5. CASE /\ rd[r].pc = "close" /\ flying' = flying /\ refreshing' = refreshing
             /\ \A q \in Readers :
                   IF q = r \/ (rd[q].pc = "wait" /\ rd[q].joined = r)
                     THEN rd'[q].pc = "got" ELSE rd'[q] = rd[q]
    BY <1>0, <2>0, <2>5
  <2>6. CASE /\ Moved(r, "got", "idle") /\ flying' = flying
             /\ refreshing' = (refreshing /\ r # "refresh")
    BY <1>0, <2>0, <2>6 DEF Moved
  <2> QED BY <1>3, <2>1, <2>2, <2>3, <2>4, <2>5, <2>6, AnswerMoves
<1>4. CASE \E c \in Changers : Change(c) \/ Invalidate(c)
  <2>1. UNCHANGED <<flying, refreshing, rd>>
    BY <1>4 DEF Change, Invalidate, InvalidateTo
  <2> QED BY <1>1, <2>1
<1>5. CASE ChangeElsewhere \/ Expire \/ UNCHANGED cacheVars
  <2>1. UNCHANGED <<flying, refreshing, rd>>
    BY <1>5 DEF ChangeElsewhere, Expire, cacheVars
  <2> QED BY <1>1, <2>1
<1> QED BY <1>2, <1>3, <1>4, <1>5 DEF CacheNext

\* The cache's flights, for any readers and changes.
LEMMA FlightInvariant == CacheSpec => []FlightInv
<1>1. CacheInit => FlightInv
  BY DEF CacheInit, FlightInv, WaitsForOneThatRuns, Idle, Readers
<1> QED BY <1>1, FlightKept, CacheInvariant, PTL DEF CacheSpec

\* However calls overlap, and whether fn fails or is overtaken: a call takes
\* five steps at most, the refresh included, and whoever waits for a flight
\* waits for a reader that is on its way to land it. No circle of waiters and
\* no flight without an owner can come about.
THEOREM CacheNeverStuck == CacheSpec => []WaitsForOneThatRuns /\ CallsCounted
<1>1. FlightInv => WaitsForOneThatRuns BY DEF FlightInv
<1>2. CacheInv /\ FlightInv /\ [CacheNext]_cacheVars =>
        [\A r \in Readers :
          /\ Answer(r) => CallLeft(r)' < CallLeft(r)
          /\ rd[r].pc # "idle" => CallLeft(r)' <= CallLeft(r)]_cacheVars
  <2> SUFFICES ASSUME CacheInv, FlightInv, CacheNext
               PROVE  \A r \in Readers :
                        /\ Answer(r) => CallLeft(r)' < CallLeft(r)
                        /\ rd[r].pc # "idle" => CallLeft(r)' <= CallLeft(r)
    OBVIOUS
  <2>1. ASSUME NEW q \in Readers, rd'[q].pc = rd[q].pc PROVE CallLeft(q)' <= CallLeft(q)
    BY <2>1 DEF CallLeft
  <2>2. ASSUME NEW r \in Readers, Answer(r)
        PROVE  /\ CallLeft(r)' < CallLeft(r)
               /\ \A q \in Readers : CallLeft(q)' <= CallLeft(q)
    <3>1. CASE \/ Moved(r, "enter", "got") \/ Moved(r, "compute", "store")
               \/ Moved(r, "enter", "wait") \/ Moved(r, "enter", "compute")
               \/ Moved(r, "store", "close") \/ Moved(r, "got", "idle")
      <4>1. CallLeft(r)' < CallLeft(r) BY <3>1 DEF Moved, CallLeft
      <4>2. \A q \in Readers : q # r => rd'[q].pc = rd[q].pc BY <3>1 DEF Moved
      <4>3. CallLeft(r)' <= CallLeft(r) BY <3>1 DEF Moved, CallLeft
      <4> QED BY <2>1, <4>1, <4>2, <4>3
    <3>2. CASE /\ rd[r].pc = "close"
               /\ \A q \in Readers :
                     IF q = r \/ (rd[q].pc = "wait" /\ rd[q].joined = r)
                       THEN rd'[q].pc = "got" ELSE rd'[q] = rd[q]
      <4>1. rd'[r].pc = "got" BY <3>2
      <4>2. CallLeft(r)' < CallLeft(r) BY <3>2, <4>1 DEF CallLeft
      <4>3. ASSUME NEW q \in Readers PROVE CallLeft(q)' <= CallLeft(q)
        <5>1. CASE rd'[q] = rd[q] BY <2>1, <5>1
        <5>2. CASE rd[q].pc \in {"wait", "close"} /\ rd'[q].pc = "got" BY <5>2 DEF CallLeft
        <5> QED BY <3>2, <5>1, <5>2
      <4> QED BY <4>2, <4>3
    <3> QED BY <2>2, <3>1, <3>2, AnswerMoves
  <2>3. ASSUME NEW r \in Requests, CallDo(r) \/ CallDoStale(r), NEW q \in Readers, rd[q].pc # "idle"
        PROVE  CallLeft(q)' <= CallLeft(q)
    <3>1. rd'[q] = rd[q] BY <2>3, AskMoves
    <3> QED BY <2>1, <3>1
  <2>4. CASE UNCHANGED rd
    <3>1. \A q \in Readers : CallLeft(q)' <= CallLeft(q) BY <2>1, <2>4
    <3> QED BY <2>2, <3>1
  <2>5. CASE (\E c \in Changers : Change(c) \/ Invalidate(c)) \/ ChangeElsewhere \/ Expire
    <3>1. UNCHANGED rd BY <2>5 DEF Change, Invalidate, InvalidateTo, ChangeElsewhere, Expire
    <3> QED BY <2>4, <3>1
  <2>6. CASE \E r \in Requests : CallDo(r) \/ CallDoStale(r)
    BY <2>2, <2>3, <2>6
  <2>7. CASE \E r \in Readers : Answer(r)
    BY <2>2, <2>7
  <2> QED BY <2>5, <2>6, <2>7 DEF CacheNext
<1> QED BY <1>1, <1>2, CacheInvariant, FlightInvariant, PTL DEF CacheSpec, CallsCounted

-----------------------------------------------------------------------------
(* What a fan-out needs to end, besides fairness: a bound on the steps of   *)
(* the loop and of each item, and somebody who can take one.                *)

\* The steps the loop has left, at most: three for each item not yet started.
LoopLeft ==
    CASE loop.pc = "start" -> 3 * MaxItems + 4
      [] loop.pc = "take" -> 3 * (loop.n + 1 - loop.next) + 2
      [] loop.pc = "check" -> 3 * (loop.n + 1 - loop.next) + 1
      [] loop.pc = "launch" -> 3 * (loop.n + 1 - loop.next)
      [] loop.pc = "wait" -> 1
      [] OTHER -> 0

\* The steps item i has left, its launch included.
ItemLeft(i) ==
    CASE item[i].pc = "new" -> 7 [] item[i].pc = "work" -> 6 [] item[i].pc = "want" -> 5
      [] item[i].pc = "open" -> 4 [] item[i].pc = "ask" -> 3 [] item[i].pc = "told" -> 2
      [] item[i].pc = "wrote" -> 1 [] OTHER -> 0

\* A step of the loop brings the loop nearer to its end, a step of an item
\* that item, and nothing anybody does takes either back.
BatchStepsCounted ==
    [][/\ Runner => LoopLeft' < LoopLeft
       /\ LoopLeft' <= LoopLeft
       /\ \A i \in Items : /\ Steps(i) => ItemLeft(i)' < ItemLeft(i)
                           /\ ItemLeft(i)' <= ItemLeft(i)]_fanVars

\* The loop is at a step that nothing holds up: a slot is free, or the items
\* it waits for have ended.
RunnerCan ==
    \/ loop.pc \in {"start", "check", "launch"}
    \/ loop.pc = "take" /\ (loop.next > loop.n \/ loop.slots < ItemLimit)
    \/ loop.pc = "wait" /\ Running = {}

\* An item is: the one wait it cannot end itself is that for the batch's
\* mutex. Its wait for an answer ends by the gate's timer.
ItemCan(i) ==
    \/ item[i].pc \in {"work", "told", "wrote", "open"}
    \/ item[i].pc = "want" /\ batch.mu = 0
    \/ item[i].pc = "ask" /\ question # "gone"

SomeoneCanWork == loop.pc # "done" => RunnerCan \/ \E i \in Items : ItemCan(i)

\* The mutex of the batch is held by the item that asks, as long as it asks,
\* and an item that is waited for has a step to take.
MutexInv ==
    /\ batch.mu # 0 => item[batch.mu].pc \in {"open", "ask"}
    /\ \A i \in Items : item[i].pc \in {"open", "ask"} => question # "gone"
    /\ \A i \in Items : item[i].live => item[i].pc \notin {"new", "over"}

\* Where each step of an item leads.
LEMMA ItemMoves ==
    ASSUME FanOutTyped, GateInv, NEW i \in Items, Steps(i)
    PROVE  /\ \A j \in Items : j # i => item'[j] = item[j]
           /\ item'[i].live => item[i].live
           /\ item'[i].live => item'[i].pc # "over"
           /\ \/ /\ item[i].pc = "work" /\ item'[i].pc \in {"want", "over"}
                 /\ UNCHANGED <<batch, question>>
              \/ /\ item[i].pc = "want" /\ batch.mu = 0 /\ item'[i].pc = "open"
                 /\ batch'.mu = i /\ question' = "listed"
              \/ /\ item[i].pc = "want" /\ batch.mu = 0 /\ item'[i].pc = "told"
                 /\ UNCHANGED <<batch, question>>
              \/ /\ item[i].pc = "open" /\ item'[i].pc = "ask"
                 /\ UNCHANGED <<batch, question>>
              \/ /\ item[i].pc = "ask" /\ item'[i].pc = "told" /\ batch'.mu = 0
              \/ /\ item[i].pc = "told" /\ item'[i].pc \in {"wrote", "over"}
                 /\ UNCHANGED <<batch, question>>
              \/ /\ item[i].pc = "wrote" /\ item'[i].pc = "over"
                 /\ UNCHANGED <<batch, question>>
<1> DEFINE B == [asked : BOOLEAN, answer : {"none", "yes", "no", "error"}, mu : 0..MaxItems]
<1>0. batch \in B /\ i \in 0..MaxItems
  BY Numbering DEF FanOutTyped, Items
<1>g. ASSUME NEW spot \in Places, spot # "over", Goes(i, spot)
      PROVE  /\ \A j \in Items : j # i => item'[j] = item[j]
             /\ item'[i].live => item[i].live
             /\ item'[i].live => item'[i].pc # "over"
             /\ item'[i].pc = spot
  BY <1>g, GoesThere
<1>r. ASSUME NEW ending \in Ends, Record(i, "over", ending)
      PROVE  /\ \A j \in Items : j # i => item'[j] = item[j]
             /\ item'[i].live => item[i].live
             /\ item'[i].live => item'[i].pc # "over"
             /\ item'[i].pc = "over"
  <2>1. "over" \in Places BY DEF Places
  <2> QED BY <1>r, <2>1, RecordThere
<1>p. {"want", "open", "ask", "told", "wrote"} \subseteq Places BY DEF Places
<1>e. {"ok", "error", "nothing"} \subseteq Ends BY DEF Ends
<1>1. CASE Work(i)
  <2>1. item[i].pc = "work" /\ UNCHANGED <<batch, question>>
    BY <1>1 DEF Work, gateVars
  <2>2. CASE Goes(i, "want") BY <1>g, <1>p, <2>1, <2>2
  <2>3. CASE \E ending \in {"error", "nothing"} : Record(i, "over", ending)
    BY <1>r, <1>e, <2>1, <2>3
  <2> QED BY <1>1, <2>2, <2>3 DEF Work
<1>2. CASE Approve(i)
  <2>1. item[i].pc = "want" /\ batch.mu = 0
    BY <1>2 DEF Approve
  <2>2. CASE batch.asked
    <3>1. Goes(i, "told") /\ UNCHANGED <<batch, question>> BY <1>2, <2>2 DEF Approve
    <3> QED BY <1>g, <1>p, <2>1, <3>1
  <2>3. CASE ~batch.asked
    <3>1. Goes(i, "open") /\ question' = "listed" /\ batch' = [batch EXCEPT !.asked = TRUE, !.mu = i]
      BY <1>2, <2>3 DEF Approve, Asks
    <3>2. batch'.mu = i BY <1>0, <3>1
    <3> QED BY <1>g, <1>p, <2>1, <3>1, <3>2
  <2> QED BY <2>2, <2>3
<1>3. CASE Mirror(i)
  <2>1. item[i].pc = "open" /\ Goes(i, "ask") /\ UNCHANGED <<batch, question>>
    BY <1>3 DEF Mirror
  <2> QED BY <1>g, <1>p, <2>1
<1>4. CASE Answered(i) \/ GateTimeout(i)
  <2>1. PICK answer : SettleItem(i, answer, TRUE)
    BY <1>4 DEF Answered, GateTimeout
  <2>2. item[i].pc = "ask" /\ Goes(i, "told") /\ batch' = [batch EXCEPT !.answer = answer, !.mu = 0]
    BY <2>1 DEF SettleItem
  <2>3. batch'.mu = 0 BY <1>0, <2>2
  <2> QED BY <1>g, <1>p, <2>2, <2>3
<1>5. CASE Act(i)
  <2>1. item[i].pc = "told" /\ UNCHANGED <<batch, question>>
    BY <1>5 DEF Act, gateVars
  <2>2. CASE Goes(i, "wrote") BY <1>g, <1>p, <2>1, <2>2
  <2>3. CASE Record(i, "over", "error") BY <1>r, <1>e, <2>1, <2>3
  <2> QED BY <1>5, <2>2, <2>3 DEF Act
<1>6. CASE ReturnItem(i)
  <2>1. item[i].pc = "wrote" /\ UNCHANGED <<batch, question>>
    BY <1>6 DEF ReturnItem, gateVars
  <2>2. PICK ending \in {"ok", "error"} : Record(i, "over", ending)
    BY <1>6 DEF ReturnItem
  <2> QED BY <1>r, <1>e, <2>1, <2>2
<1> QED BY <1>1, <1>2, <1>3, <1>4, <1>5, <1>6 DEF Steps

\* max_runtime moves nobody: the item's steps go on where they are.
LEMMA AbandonedStays ==
    ASSUME FanOutTyped, NEW i \in Items, MaxRuntimeOver(i)
    PROVE  /\ \A j \in Items : j # i => item'[j] = item[j]
           /\ ~item'[i].live /\ item'[i].pc = item[i].pc
           /\ UNCHANGED <<batch, question>>
<1>1. Record(i, item[i].pc, "error") /\ UNCHANGED <<batch, question>>
  BY DEF MaxRuntimeOver, gateVars
<1>2. item[i].pc \in Places /\ "error" \in Ends
  BY DEF FanOutTyped, Item, Ends
<1> QED BY <1>1, <1>2, RecordThere

\* The loop moves only the item it launches.
LEMMA RunnerMoves ==
    ASSUME FanOutInv, Runner
    PROVE  /\ UNCHANGED <<batch, question>>
           /\ \/ item' = item
              \/ /\ loop.next \in Items /\ item[loop.next].pc = "new"
                 /\ item'[loop.next].pc = "work"
                 /\ \A j \in Items : j # loop.next => item'[j] = item[j]
<1>1. CASE Launch
  <2>1. loop.next \in Items /\ loop.next \in Nat
    BY <1>1, Numbering DEF Launch, FanOutInv, LoopInv, LoopInOrder, Items, FanOutTyped, LoopType
  <2>2. loop.next >= loop.next BY <2>1
  <2>3. item[loop.next].pc = "new" BY <2>1, <2>2 DEF FanOutInv, LoopInv, ItemsInPlace
  <2>4. item' = [item EXCEPT ![loop.next] = [item[loop.next] EXCEPT !.pc = "work", !.live = TRUE]]
        /\ UNCHANGED <<batch, question>>
    BY <1>1 DEF Launch, gateVars
  <2>5. item \in [Items -> Item] /\ item[loop.next] \in Item BY <2>1 DEF FanOutInv, FanOutTyped
  <2>6. item'[loop.next] = [item[loop.next] EXCEPT !.pc = "work", !.live = TRUE]
    BY <2>1, <2>4, <2>5
  <2>7. item'[loop.next].pc = "work" BY <2>5, <2>6 DEF Item
  <2>8. \A j \in Items : j # loop.next => item'[j] = item[j] BY <2>4, <2>5
  <2> QED BY <2>1, <2>3, <2>4, <2>7, <2>8
<1>2. CASE Width \/ Take \/ Check \/ Aggregate
  BY <1>2 DEF Width, Take, Check, Aggregate, itemVars, gateVars
<1> QED BY <1>1, <1>2 DEF Runner

\* Whoever answers leaves the items and the mutex alone.
LEMMA AnsweringMoves ==
    ASSUME FanOutTyped, Answering
    PROVE  UNCHANGED <<loop, item, batch>> /\ (question # "gone" => question' # "gone")
BY DEF Answering, Poller, Withdraw, Poll, PersonDecides, PersonDecidesOn1Claw, CopyExpires, Decide,
       FanOutTyped, itemVars

\* No step leaves the mutex with an item that cannot go on.
LEMMA MutexKept == FanOutInv /\ MutexInv /\ [FanOutNext]_fanVars => MutexInv'
<1> SUFFICES ASSUME FanOutInv, MutexInv, [FanOutNext]_fanVars PROVE MutexInv'
  OBVIOUS
<1>0. /\ FanOutTyped /\ GateInv /\ batch.mu \in Items \cup {0} /\ 0 \notin Items
      /\ \A i \in Items : item[i].pc \in {"open", "ask"} => batch.mu = i
  BY Numbering DEF FanOutInv, FanOutTyped, GateInv, Items
<1>1. CASE UNCHANGED fanVars
  BY <1>1 DEF fanVars, itemVars, gateVars, MutexInv
<1>2. CASE Runner
  BY <1>0, <1>2, RunnerMoves DEF MutexInv
<1>3. CASE Answering
  BY <1>0, <1>3, AnsweringMoves DEF MutexInv
<1>4. ASSUME NEW i \in Items, MaxRuntimeOver(i) PROVE MutexInv'
  BY <1>0, <1>4, AbandonedStays DEF MutexInv
<1>5. ASSUME NEW i \in Items, Steps(i) PROVE MutexInv'
  BY <1>0, <1>5, ItemMoves DEF MutexInv
<1> QED BY <1>1, <1>2, <1>3, <1>4, <1>5 DEF FanOutNext, Answering

\* Who holds the batch's mutex, for lists of any length.
LEMMA MutexInvariant == FanOutSpec => []MutexInv
<1>1. FanOutInit => MutexInv
  BY Numbering DEF FanOutInit, MutexInv
<1> QED BY <1>1, MutexKept, FanOutInvariant, PTL DEF FanOutSpec

\* Items hold slots while they wait for the batch's mutex, and the loop waits
\* for slots: but whoever holds the mutex holds it only while it can go on, so
\* that as long as the bot has not ended, for any number of items and slots
\* and whatever fails or is abandoned, somebody has a step to take.
THEOREM BatchNeverStuck == FanOutSpec => []SomeoneCanWork
<1>1. FanOutInv /\ SlotsCounted /\ MutexInv => SomeoneCanWork
  <2> SUFFICES ASSUME FanOutInv, SlotsCounted, MutexInv, loop.pc # "done", ~RunnerCan
               PROVE  \E i \in Items : ItemCan(i)
    BY DEF SomeoneCanWork
  <2>0. /\ loop.pc \in {"take", "wait"} /\ loop.slots \in Int /\ ItemLimit \in Nat \ {0}
        /\ item \in [Items -> Item] /\ batch.mu \in Items \cup {0}
    BY Numbering DEF FanOutInv, FanOutTyped, LoopType, RunnerCan, Items
  <2>1. PICK i \in Items : item[i].live
    <3>1. CASE loop.pc = "wait"
      BY <3>1 DEF RunnerCan, Running
    <3>2. CASE loop.pc = "take"
      <4>1. ~(loop.slots < ItemLimit) BY <3>2 DEF RunnerCan
      <4>2. loop.slots = Cardinality(Running) + 0 BY <3>2 DEF SlotsCounted, Reserved
      <4>3. Cardinality(Running) # 0 BY <2>0, <4>1, <4>2, FS_CardinalityType DEF SlotsCounted
      <4>4. Running # {} BY <4>3, FS_EmptySet
      <4> QED BY <4>4 DEF Running
    <3> QED BY <2>0, <3>1, <3>2
  <2>2. item[i].pc \in {"work", "want", "open", "ask", "told", "wrote"}
    BY <2>0, <2>1 DEF MutexInv, Item, Places
  <2>3. CASE item[i].pc # "want" \/ batch.mu = 0
    BY <2>2, <2>3 DEF ItemCan, MutexInv
  <2>4. CASE batch.mu # 0
    <3>1. batch.mu \in Items /\ item[batch.mu].pc \in {"open", "ask"} /\ question # "gone"
      BY <2>0, <2>4 DEF MutexInv
    <3> QED BY <3>1 DEF ItemCan
  <2> QED BY <2>3, <2>4
<1> QED BY <1>1, FanOutInvariant, SlotsBalance, MutexInvariant, PTL

\* The loop's own steps bring it nearer to its end.
LEMMA LoopDescends ==
    ASSUME FanOutInv, Runner PROVE LoopLeft' < LoopLeft
<1>0. /\ loop \in LoopType /\ loop.n \in Nat /\ loop.next \in Nat /\ loop.next >= 1
      /\ MaxItems \in Nat /\ loop.n <= MaxItems /\ loop.next <= loop.n + 1
      /\ loop.pc = "start" => loop.next = 1
      /\ loop.pc \in {"check", "launch"} => loop.next <= loop.n
  BY Numbering DEF FanOutInv, FanOutTyped, LoopType, LoopInv, LoopInOrder
<1>1. CASE Width
  <2>1. PICK a \in 0..MaxItems :
             \/ loop' = [loop EXCEPT !.pc = "done", !.result = "error"]
             \/ loop' = [loop EXCEPT !.pc = "done", !.result = "ok"]
             \/ loop' = [loop EXCEPT !.pc = "take", !.n = a]
    BY <1>1 DEF Width
  <2>2. loop'.pc = "done" \/ (loop'.pc = "take" /\ loop'.n = a /\ loop'.next = loop.next)
    BY <1>0, <2>1 DEF LoopType
  <2>3. loop.pc = "start" BY <1>1 DEF Width
  <2>4. CASE loop'.pc = "done" BY <1>0, <2>3, <2>4 DEF LoopLeft
  <2>5. CASE loop'.pc = "take" /\ loop'.n = a /\ loop'.next = loop.next
    BY <1>0, <2>3, <2>5 DEF LoopLeft
  <2> QED BY <2>2, <2>4, <2>5
<1>2. CASE Take
  <2>0. loop.pc = "take" BY <1>2 DEF Take
  <2>1. CASE loop.next > loop.n
    <3>1. loop' = [loop EXCEPT !.pc = "wait"] BY <1>2, <2>1 DEF Take
    <3>2. loop'.pc = "wait" BY <1>0, <3>1 DEF LoopType
    <3> QED BY <1>0, <2>0, <3>2 DEF LoopLeft
  <2>2. CASE ~(loop.next > loop.n)
    <3>1. loop' = [loop EXCEPT !.pc = "check", !.slots = loop.slots + 1] BY <1>2, <2>2 DEF Take
    <3>2. loop'.pc = "check" /\ loop'.n = loop.n /\ loop'.next = loop.next BY <1>0, <3>1 DEF LoopType
    <3> QED BY <1>0, <2>0, <3>2 DEF LoopLeft
  <2> QED BY <2>1, <2>2
<1>3. CASE Check
  <2>0. loop.pc = "check" BY <1>3 DEF Check
  <2>1. CASE failed
    <3>1. loop' = [loop EXCEPT !.pc = "wait", !.slots = loop.slots - 1] BY <1>3, <2>1 DEF Check
    <3>2. loop'.pc = "wait" BY <1>0, <3>1 DEF LoopType
    <3> QED BY <1>0, <2>0, <3>2 DEF LoopLeft
  <2>2. CASE ~failed
    <3>1. loop' = [loop EXCEPT !.pc = "launch"] BY <1>3, <2>2 DEF Check
    <3>2. loop'.pc = "launch" /\ loop'.n = loop.n /\ loop'.next = loop.next BY <1>0, <3>1 DEF LoopType
    <3> QED BY <1>0, <2>0, <3>2 DEF LoopLeft
  <2> QED BY <2>1, <2>2
<1>4. CASE Launch
  <2>0. loop.pc = "launch" BY <1>4 DEF Launch
  <2>1. loop' = [loop EXCEPT !.pc = "take", !.next = loop.next + 1] BY <1>4 DEF Launch
  <2>2. loop'.pc = "take" /\ loop'.n = loop.n /\ loop'.next = loop.next + 1 BY <1>0, <2>1 DEF LoopType
  <2> QED BY <1>0, <2>0, <2>2 DEF LoopLeft
<1>5. CASE Aggregate
  <2>0. loop.pc = "wait" BY <1>5 DEF Aggregate
  <2>1. loop'.pc = "done" BY <1>0, <1>5 DEF Aggregate, LoopType
  <2> QED BY <2>0, <2>1 DEF LoopLeft
<1> QED BY <1>1, <1>2, <1>3, <1>4, <1>5 DEF Runner

\* For any number of items and slots, an item takes six steps at most once it
\* is launched, and the loop three for each item and four more, whatever fails
\* and whoever answers: neither ever goes back.
THEOREM BatchCounted == FanOutSpec => BatchStepsCounted
<1>1. FanOutInv /\ [FanOutNext]_fanVars =>
        [/\ Runner => LoopLeft' < LoopLeft
         /\ LoopLeft' <= LoopLeft
         /\ \A i \in Items : /\ Steps(i) => ItemLeft(i)' < ItemLeft(i)
                             /\ ItemLeft(i)' <= ItemLeft(i)]_fanVars
  <2> SUFFICES ASSUME FanOutInv, FanOutNext
               PROVE  /\ Runner => LoopLeft' < LoopLeft
                      /\ LoopLeft' <= LoopLeft
                      /\ \A i \in Items : /\ Steps(i) => ItemLeft(i)' < ItemLeft(i)
                                          /\ ItemLeft(i)' <= ItemLeft(i)
    OBVIOUS
  <2>0. FanOutTyped /\ GateInv BY DEF FanOutInv
  <2>1. LoopLeft \in Int
    BY Numbering DEF FanOutInv, FanOutTyped, LoopType, LoopLeft
  <2>2. ASSUME NEW i \in Items, Steps(i) PROVE ItemLeft(i)' < ItemLeft(i)
    BY <2>0, <2>2, ItemMoves DEF ItemLeft
  <2>3. ASSUME NEW i \in Items, item'[i].pc = item[i].pc PROVE ItemLeft(i)' <= ItemLeft(i)
    BY <2>3 DEF ItemLeft
  <2>4. ASSUME NEW i \in Items, Steps(i) PROVE ItemLeft(i)' <= ItemLeft(i)
    BY <2>0, <2>4, ItemMoves DEF ItemLeft
  <2>5. LoopLeft' <= LoopLeft
    <3>1. CASE Runner
      <4>1. LoopLeft' < LoopLeft BY <3>1, LoopDescends
      <4>2. FanOutTyped' BY <3>1, FanOutInvStep DEF FanOutInv, FanOutNext
      <4>3. LoopLeft' \in Int
        BY <4>2, Numbering DEF FanOutTyped, LoopType, LoopLeft
      <4> QED BY <2>1, <4>1, <4>3
    <3>2. ASSUME NEW i \in Items, Steps(i) \/ MaxRuntimeOver(i) PROVE LoopLeft' <= LoopLeft
      <4>1. loop' = loop \/ loop' = [loop EXCEPT !.slots = loop.slots - 1]
        BY <2>0, <3>2, ItemSteps, GoesThere, RecordThere
      <4>2. loop'.pc = loop.pc /\ loop'.n = loop.n /\ loop'.next = loop.next
        BY <2>0, <4>1 DEF FanOutTyped, LoopType
      <4>3. LoopLeft' = LoopLeft BY <4>2 DEF LoopLeft
      <4> QED BY <2>1, <4>3
    <3>3. CASE Answering
      <4>1. LoopLeft' = LoopLeft BY <2>0, <3>3, AnsweringMoves DEF LoopLeft
      <4> QED BY <2>1, <4>1
    <3> QED BY <3>1, <3>2, <3>3 DEF FanOutNext, Answering
  <2>6. ASSUME NEW i \in Items PROVE ItemLeft(i)' <= ItemLeft(i)
    <3>1. CASE Runner
      <4>1. CASE item' = item BY <2>3, <4>1
      <4>2. CASE /\ item[loop.next].pc = "new" /\ item'[loop.next].pc = "work"
                 /\ \A j \in Items : j # loop.next => item'[j] = item[j]
        <5>1. CASE i = loop.next BY <4>2, <5>1 DEF ItemLeft
        <5>2. CASE i # loop.next BY <2>3, <4>2, <5>2
        <5> QED BY <5>1, <5>2
      <4> QED BY <3>1, <4>1, <4>2, RunnerMoves
    <3>2. ASSUME NEW k \in Items, Steps(k) PROVE ItemLeft(i)' <= ItemLeft(i)
      <4>1. k # i => item'[i] = item[i] BY <2>0, <3>2, ItemMoves
      <4> QED BY <2>3, <2>4, <3>2, <4>1
    <3>3. ASSUME NEW k \in Items, MaxRuntimeOver(k) PROVE ItemLeft(i)' <= ItemLeft(i)
      <4>1. item'[i].pc = item[i].pc BY <2>0, <3>3, AbandonedStays
      <4> QED BY <2>3, <4>1
    <3>4. CASE Answering
      <4>1. item' = item BY <2>0, <3>4, AnsweringMoves
      <4> QED BY <2>3, <4>1
    <3> QED BY <3>1, <3>2, <3>3, <3>4 DEF FanOutNext, Answering
  <2> QED BY <2>2, <2>5, <2>6, LoopDescends
<1> QED BY <1>1, FanOutInvariant, PTL DEF FanOutSpec, BatchStepsCounted
=============================================================================
