--------------------------- MODULE RecordsProofs ----------------------------
(***************************************************************************)
(* What holds of the parts that keep records: of RunHistory, for any runs, *)
(* cap and number of crashes; of Secrets, for any number of calls, keys    *)
(* and deaths, of the one process that has the directory; of RunEvents,    *)
(* for any runs, clients, channel sizes and logs; of StateDir, for any     *)
(* processes, runs and dead rows; of Watch, for any watchers of any files  *)
(* with the steps of drive-watch; and of Foundry, for any jobs that write  *)
(* any bots.  And of all of these side by side with plans, nestings and    *)
(* schedules, as MCRecords composes them.                                  *)
(***************************************************************************)
EXTENDS MCRecords, PlanProofs, SchedulerProofs, FiniteSetTheorems,
        SequenceTheorems, TLAPS

(* RunHistory.                                                             *)

\* A daemon that is still coming up has no run of its own.
BootAlone == boot # "up" => \A r \in Runs : live[r] \in {"none", "lost"}

\* Where r's Run object, its starter, its callback and its row can stand to
\* one another: it has been reported exactly if it has ended and is hooked.
RunStands(r) ==
    /\ live[r] = "none" => add[r] = "idle"
    /\ live[r] = "lost" => add[r] = "end"
    /\ live[r] = "running" => add[r] \in {"insert", "hook", "end"}
    /\ r \in hooked => add[r] = "end"
    /\ live[r] \in {"none", "running"} => fires[r] = 0
    /\ live[r] = "running" /\ add[r] = "end" => r \in hooked
    /\ live[r] = "ended" => fires[r] = IF add[r] = "end" THEN 1 ELSE 0
    /\ fires[r] \in {0, 1}
    /\ cb[r] # "no" \/ r \in rows => fires[r] = 1

HistoryInv ==
    /\ TypeOK
    /\ BootAlone
    /\ \A r \in Runs \ Legacy : RunStands(r)
    /\ \A r \in Legacy : live[r] \in {"lost", "ended"} /\ add[r] = "end"
    /\ InProgressListed

\* Every step of the store, of a run and of the daemon keeps the invariant.
LEMMA HistoryInvStep == HistoryInv /\ [Next]_vars => HistoryInv'
<1> SUFFICES ASSUME HistoryInv, [Next]_vars PROVE HistoryInv'
  OBVIOUS
<1> USE RunsAssumption, BoundsAssumption DEF HistoryInv, TypeOK, BootAlone, RunStands, InProgressListed
<1>1. CASE CheckEmpty
  BY <1>1 DEF CheckEmpty, runVars
<1>2. CASE Import
  BY <1>2 DEF Import, runVars
<1>3. CASE Load
  BY <1>3 DEF Load, runVars
<1>4. CASE Crash
  BY <1>4 DEF Crash
<1>5. ASSUME NEW r \in Runs, Run(r) PROVE HistoryInv'
  <2>1. CASE StartRun(r)
    BY <2>1 DEF StartRun
  <2>2. CASE Insert(r)
    BY <2>2 DEF Insert
  <2>3. CASE Hook(r)
    BY <2>3 DEF Hook, Fire
  <2>4. CASE Finish(r)
    BY <2>4 DEF Finish, Fire
  <2>5. CASE WriteRow(r)
    BY <2>5 DEF WriteRow
  <2>6. CASE Evict(r)
    BY <2>6 DEF Evict, Evictable
  <2> QED
    BY <1>5, <2>1, <2>2, <2>3, <2>4, <2>5, <2>6 DEF Run
<1>6. CASE UNCHANGED vars
  BY <1>6 DEF vars, runVars
<1> QED
  BY <1>1, <1>2, <1>3, <1>4, <1>5, <1>6 DEF Next, Boot, Rest

\* The invariant holds of every reachable state.
THEOREM HistoryInvariant == Spec => []HistoryInv
<1>1. Init => HistoryInv
  BY RunsAssumption, BoundsAssumption
     DEF Init, HistoryInv, TypeOK, BootAlone, RunStands, InProgressListed
<1> QED
  BY <1>1, HistoryInvStep, PTL DEF Spec

\* The type invariant, and with it that callbacks are registered only on
\* runs of the daemon that is up.
THEOREM HistoryTypeOK == Spec => []TypeOK
BY HistoryInvariant, PTL DEF HistoryInv

\* Whether a run ends before or after RunStore.Add registers its callback,
\* RunStore is told of the end once.
THEOREM HistoryRecordedOnce == Spec => []RecordedOnce
<1>1. HistoryInv => RecordedOnce
  BY DEF HistoryInv, TypeOK, RunStands, RecordedOnce
<1> QED
  BY <1>1, HistoryInvariant, PTL

\* evictOldestBeyondCap and the load at start-up never drop a run in
\* progress from the map.
THEOREM HistoryInProgressListed == Spec => []InProgressListed
BY HistoryInvariant, PTL DEF HistoryInv

-----------------------------------------------------------------------------
(* The bound on memory.                                                    *)

RunningIn(M) == {r \in M : live[r] = "running"}

\* Some end has yet to be dealt with: a callback is under way, or the starter
\* of a run that has ended is about to ask for one.
EndPending ==
    \E r \in Runs : cb[r] \in {"write", "evict"} \/ (live[r] = "ended" /\ add[r] = "hook")

\* What memory holds was started, and was put there by Add or by Load.
MemStarted ==
    \A r \in mem : live[r] \in {"running", "ended"} /\ add[r] \in {"hook", "end"}

BoundInv ==
    /\ MemStarted
    /\ boot = "up" => EndPending \/ Cardinality(mem) <= Cap + Cardinality(RunningIn(mem))

\* Every set of runs is finite, and so is the count of any of its parts.
LEMMA Finite ==
  ASSUME NEW M \in SUBSET Runs
  PROVE  IsFiniteSet(M) /\ Cardinality(M) \in Nat
BY RunsAssumption, FS_Subset, FS_CardinalityType

\* What is left after an eviction fits: Cap runs, or those in progress.
LEMMA EvictBounds ==
  ASSUME HistoryInv, BoundInv, NEW r \in Runs, Evict(r)
  PROVE  MemStarted' /\ Cardinality(mem') <= Cap + Cardinality(RunningIn(mem)')
<1> USE BoundsAssumption DEF HistoryInv, TypeOK
<1>1. PICK D \in SUBSET Evictable :
        /\ \/ Cardinality(mem) - Cardinality(D) = Cap
           \/ Cardinality(mem) <= Cap /\ D = {}
           \/ Cardinality(mem) - Cardinality(D) > Cap /\ D = Evictable
        /\ mem' = mem \ D
  BY DEF Evict
<1>2. D \subseteq mem /\ mem' \subseteq mem /\ UNCHANGED <<live, add>>
  BY <1>1 DEF Evict, Evictable
<1>3. MemStarted'
  BY <1>2 DEF BoundInv, MemStarted
<1>4. Cardinality(mem') = Cardinality(mem) - Cardinality(D)
  <2>1. IsFiniteSet(mem) /\ mem \cap D = D
    BY <1>2, Finite
  <2>2. Cardinality(mem \ D) = Cardinality(mem) - Cardinality(mem \cap D)
    BY <2>1, FS_Difference
  <2> QED
    BY <1>1, <2>1, <2>2
<1>5. Cardinality(RunningIn(mem)') \in Nat /\ Cardinality(mem') \in Nat /\ Cardinality(mem) \in Nat
  BY <1>2, Finite DEF RunningIn
<1>6. CASE Cardinality(mem) - Cardinality(D) > Cap /\ D = Evictable
  <2>1. mem' = RunningIn(mem)'
    BY <1>1, <1>2, <1>6 DEF BoundInv, MemStarted, Evictable, RunningIn
  <2> QED
    BY <1>3, <1>5, <2>1
<1>7. CASE Cardinality(mem) - Cardinality(D) = Cap
  BY <1>3, <1>4, <1>5, <1>7
<1>8. CASE Cardinality(mem) <= Cap /\ D = {}
  <2>1. mem' = mem
    BY <1>1, <1>8
  <2> QED
    BY <1>3, <1>5, <1>8, <2>1
<1> QED
  BY <1>1, <1>6, <1>7, <1>8

\* A run put into memory while it is in progress counts on both sides.
LEMMA InsertBounds ==
  ASSUME HistoryInv, BoundInv, NEW r \in Runs, Insert(r)
  PROVE  BoundInv'
<1> USE BoundsAssumption DEF HistoryInv, TypeOK
<1>1. r \notin Legacy /\ r \notin mem /\ live[r] \in {"running", "ended"}
  BY DEF Insert, BoundInv, MemStarted, RunStands
<1>2. MemStarted'
  BY <1>1 DEF Insert, BoundInv, MemStarted
<1>3. CASE EndPending \/ live[r] = "ended"
  <2>1. EndPending'
    BY <1>3 DEF Insert, EndPending
  <2> QED
    BY <1>2, <2>1 DEF BoundInv
<1>4. CASE ~EndPending /\ live[r] = "running"
  <2>1. RunningIn(mem)' = RunningIn(mem) \cup {r} /\ r \notin RunningIn(mem)
    BY <1>1, <1>4 DEF Insert, RunningIn
  <2>2. /\ IsFiniteSet(mem) /\ Cardinality(mem) \in Nat
        /\ IsFiniteSet(RunningIn(mem)) /\ Cardinality(RunningIn(mem)) \in Nat
    BY Finite DEF RunningIn
  <2>3. Cardinality(RunningIn(mem)') = Cardinality(RunningIn(mem)) + 1
    <3>1. Cardinality(RunningIn(mem) \cup {r}) = Cardinality(RunningIn(mem)) + 1
      BY <2>1, <2>2, FS_AddElement
    <3> QED
      BY <2>1, <3>1
  <2>4. Cardinality(mem') = Cardinality(mem) + 1
    BY <1>1, <2>2, FS_AddElement DEF Insert
  <2>5. Cardinality(mem) <= Cap + Cardinality(RunningIn(mem))
    BY <1>4 DEF Insert, BoundInv
  <2>6. Cardinality(mem') <= Cap + Cardinality(RunningIn(mem)')
    BY <2>2, <2>3, <2>4, <2>5
  <2> QED
    BY <1>2, <2>6 DEF BoundInv
<1> QED
  BY <1>1, <1>3, <1>4

\* What start-up loads is Cap rows at most.
LEMMA LoadBounds ==
  ASSUME HistoryInv, BoundInv, Load
  PROVE  BoundInv'
<1> USE RunsAssumption, BoundsAssumption DEF HistoryInv, TypeOK
<1>1. PICK K \in SUBSET rows :
        IsNewest(K) /\ mem' = K
        /\ live' = [r \in Runs |-> IF r \in K THEN "ended" ELSE live[r]]
  BY DEF Load
<1>2. Cardinality(K) <= Cap
  <2>1. Cardinality(rows) \in Nat
    BY Finite
  <2> QED
    BY <1>1, <2>1 DEF IsNewest
<1>3. MemStarted'
  <2>1. \A r \in K : r \in Runs /\ add[r] = "end" /\ add' = add
    <3>1. \A r \in Runs \ Legacy : r \in rows => add[r] = "end"
      BY DEF Load, BootAlone, RunStands
    <3> QED
      BY <1>1, <3>1 DEF Load, runVars
  <2> QED
    BY <1>1, <2>1 DEF MemStarted
<1>4. Cardinality(mem') \in Nat /\ Cardinality(RunningIn(mem)') \in Nat
  <2>1. mem' \subseteq Runs
    BY <1>1
  <2> QED
    BY <2>1, Finite DEF RunningIn
<1> QED
  BY <1>1, <1>2, <1>3, <1>4 DEF BoundInv

\* Every step keeps the bound, or leaves an end to be dealt with.
LEMMA BoundStep == HistoryInv /\ BoundInv /\ [Next]_vars => BoundInv'
<1> SUFFICES ASSUME HistoryInv, BoundInv, [Next]_vars PROVE BoundInv'
  OBVIOUS
<1> USE DEF BoundInv, MemStarted, EndPending, RunningIn
<1>1. CASE CheckEmpty
  BY <1>1 DEF CheckEmpty, runVars
<1>2. CASE Import
  BY <1>2 DEF Import, runVars
<1>3. CASE Load
  BY <1>3, LoadBounds
<1>4. CASE Crash
  BY <1>4 DEF Crash
<1>5. ASSUME NEW r \in Runs, Run(r) PROVE BoundInv'
  <2> USE DEF HistoryInv, TypeOK, RunStands
  <2>1. CASE StartRun(r)
    <3>1. mem' = mem /\ r \notin mem /\ RunningIn(mem)' = RunningIn(mem)
      BY <2>1 DEF StartRun
    <3> QED
      BY <2>1, <3>1 DEF StartRun
  <2>2. CASE Insert(r)
    BY <2>2, InsertBounds
  <2>3. CASE Hook(r)
    <3>1. CASE live[r] = "ended"
      <4>1. cb'[r] = "write"
        BY <2>3, <3>1 DEF Hook, Fire
      <4>2. EndPending'
        BY <4>1
      <4>3. MemStarted'
        BY <2>3 DEF Hook
      <4> QED
        BY <4>2, <4>3
    <3>2. CASE live[r] # "ended"
      <4>1. EndPending => EndPending'
        BY <2>3, <3>2 DEF Hook
      <4>2. UNCHANGED <<boot, mem, live>> /\ RunningIn(mem)' = RunningIn(mem)
        BY <2>3, <3>2 DEF Hook
      <4> QED
        BY <2>3, <4>1, <4>2 DEF Hook
    <3> QED
      BY <3>1, <3>2
  <2>4. CASE Finish(r)
    <3>1. CASE r \in hooked \/ add[r] = "hook"
      <4>1. cb'[r] = "write" \/ (live'[r] = "ended" /\ add'[r] = "hook")
        BY <2>4, <3>1 DEF Finish, Fire
      <4>2. EndPending'
        BY <4>1
      <4>3. MemStarted'
        BY <2>4 DEF Finish
      <4> QED
        BY <4>2, <4>3
    <3>2. CASE r \notin hooked /\ add[r] # "hook"
      <4>1. r \notin mem /\ mem' = mem /\ RunningIn(mem)' = RunningIn(mem)
        BY <2>4, <3>2 DEF Finish
      <4> QED
        BY <2>4, <3>2, <4>1 DEF Finish
    <3> QED
      BY <3>1, <3>2
  <2>5. CASE WriteRow(r)
    BY <2>5 DEF WriteRow
  <2>6. CASE Evict(r)
    BY <2>6, EvictBounds
  <2> QED
    BY <1>5, <2>1, <2>2, <2>3, <2>4, <2>5, <2>6 DEF Run
<1>6. CASE UNCHANGED vars
  BY <1>6 DEF vars, runVars
<1> QED
  BY <1>1, <1>2, <1>3, <1>4, <1>5, <1>6 DEF Next, Boot, Rest

\* Once every end has been dealt with, memory holds Cap runs and those in
\* progress at most, also when the disk refuses rows.
THEOREM HistoryMemoryBounded == Spec => []MemoryBounded
<1>1. Init => BoundInv
  BY DEF Init, BoundInv, MemStarted
<1>2. HistoryInv /\ BoundInv => MemoryBounded
  BY DEF HistoryInv, TypeOK, BoundInv, EndPending, RunningIn, MemoryBounded
<1> QED
  BY <1>1, <1>2, BoundStep, HistoryInvariant, PTL DEF Spec

\* The store hears of each end once, keeps every run in progress, and bounds
\* its memory, for every number of runs, restarts and refused rows.
THEOREM HistorySafe == Spec => []HistorySafety
<1>1. RecordedOnce /\ InProgressListed /\ MemoryBounded => HistorySafety
  BY DEF HistorySafety
<1> QED
  BY <1>1, HistoryRecordedOnce, HistoryInProgressListed, HistoryMemoryBounded, PTL

-----------------------------------------------------------------------------
(* Secrets.                                                                *)

SecretsSpec == SecretsInit /\ [][SecretsNext]_secretVars

\* The mutex is one process's; two processes do not share it.
OneProcess == \A p, q \in Holders : p = q

CallRecord == [pc : {"new", "identity", "generate", "fill", "load", "save", "rename", "done"},
               id : Callers \cup {Absent}, map : SUBSET SecretKeys]
Busy(c) == call[c].pc \notin {"new", "done"}

\* The map a call writes back.
Edited(c) == IF Calls[c].op = "put" THEN vault.map \cup {KeyOf(c)} ELSE vault.map \ {KeyOf(c)}

\* What a call in progress has read is still so.
ReadIsCurrent(c) ==
    /\ call[c].pc = "generate" => ageKey = Absent
    /\ call[c].pc = "fill" => ageKey = Torn
    /\ call[c].pc \in {"load", "save", "rename"} => ageKey \in Callers /\ call[c].id = ageKey
    /\ call[c].pc \in {"save", "rename"} => call[c].map = Edited(c)

\* The store on disk is absent or encrypted for the identity on disk.
VaultOpens ==
    /\ vault.by \in {Absent, ageKey} /\ (ageKey \notin Callers => vault.by = Absent)
    /\ stored # {} => vault.by # Absent
    /\ stored \subseteq vault.map

SecretsInv ==
    /\ SecretsTypeOK
    /\ call \in [Callers -> CallRecord] /\ held \in [Holders -> Callers \cup {Nobody}]
    /\ \A c \in Callers : ReadIsCurrent(c)
    /\ VaultOpens

-----------------------------------------------------------------------------
\* Every call is made by a process, and no call is one of the markers.
LEMMA CallsNamed ==
  ASSUME NEW c \in Callers
  PROVE  Calls[c].at \in Holders /\ KeyOf(c) \in SecretKeys /\ c \notin {Absent, Torn, Nobody}
BY SecretsAssumption

\* A fresh directory.
LEMMA SecretsInvInit == SecretsInit => SecretsInv
BY DEF SecretsInit, SecretsInv, SecretsTypeOK, CallRecord, ReadIsCurrent, VaultOpens,
       NoFile, VaultFile, Callers, Absent, Torn, Nobody

\* The mutex lets one call in at a time.
LEMMA OneAtATime ==
  ASSUME SecretsInv, OneProcess
  PROVE  /\ \A c, d \in Callers : Busy(c) /\ Busy(d) => c = d
         /\ \A c, d \in Callers : held[Calls[c].at] = Nobody => ~Busy(d)
<1>1. \A c, d \in Callers : Calls[c].at = Calls[d].at  BY CallsNamed DEF OneProcess
<1>2. \A c \in Callers : Busy(c) => held[Calls[c].at] = c  BY DEF SecretsInv, SecretsTypeOK, Busy
<1> QED  BY <1>1, <1>2, CallsNamed

\* A step that leaves the disk alone and moves one busy call on, or ends it.
LEMMA OneCallMoves ==
  ASSUME SecretsInv, OneProcess, NEW c \in Callers, NEW e \in CallRecord, Busy(c),
         call' = [call EXCEPT ![c] = e],
         IF e.pc = "done" THEN held' = [held EXCEPT ![Calls[c].at] = Nobody] ELSE UNCHANGED held,
         e.pc # "new",
         ageKey' \in Callers \cup {Absent, Torn},
         vault'.by \in Callers \cup {Absent, Torn}, vault'.map \subseteq SecretKeys, stored' \subseteq SecretKeys,
         ReadIsCurrent(c)', VaultOpens'
  PROVE  SecretsInv'
<1>1. call' \in [Callers -> CallRecord] /\ held' \in [Holders -> Callers \cup {Nobody}]
      BY CallsNamed DEF SecretsInv
<1>2. \A d \in Callers : d # c => call'[d] = call[d] /\ ~Busy(d)
      BY OneAtATime DEF SecretsInv
<1>3. call'[c] = e  BY DEF SecretsInv
<1>4. \A d \in Callers : ReadIsCurrent(d)'
      BY <1>2 DEF ReadIsCurrent, Busy
<1>5. held[Calls[c].at] = c /\ Calls[c].at \in Holders
      BY CallsNamed DEF SecretsInv, SecretsTypeOK, Busy
<1>6. \A d \in Callers : call'[d].pc \notin {"new", "done"} => held'[Calls[d].at] = d
      BY <1>2, <1>3, <1>5 DEF Busy, SecretsInv
<1>7. \A p \in Holders : held'[p] # Nobody => call'[held'[p]].pc \notin {"new", "done"}
      BY <1>3, <1>5 DEF OneProcess, SecretsInv
<1> QED  BY <1>1, <1>4, <1>6, <1>7 DEF SecretsInv, SecretsTypeOK

\* So does a call that fails, or returns, without a write.
LEMMA CallReturns ==
  ASSUME SecretsInv, OneProcess, NEW c \in Callers, Busy(c), EndCall(c), UNCHANGED <<ageKey, vault, stored>>
  PROVE  SecretsInv'
<1> DEFINE End == [pc |-> "done", id |-> Absent, map |-> {}]
<1>1. End \in CallRecord /\ End.pc = "done"  BY DEF CallRecord
<1>2. call' = [call EXCEPT ![c] = End] /\ held' = [held EXCEPT ![Calls[c].at] = Nobody]  BY DEF EndCall
<1>3. call'[c] = End  BY <1>2 DEF SecretsInv
<1>4. ReadIsCurrent(c)'  BY <1>1, <1>3 DEF ReadIsCurrent
<1>5. VaultOpens'  BY DEF SecretsInv, VaultOpens
<1>6. /\ ageKey' \in Callers \cup {Absent, Torn} /\ vault'.by \in Callers \cup {Absent, Torn}
      /\ vault'.map \subseteq SecretKeys /\ stored' \subseteq SecretKeys
      BY DEF SecretsInv, SecretsTypeOK
<1> HIDE DEF End
<1> QED  BY <1>1, <1>2, <1>4, <1>5, <1>6, OneCallMoves

\* Every step keeps the invariant.
LEMMA SecretsInvStep ==
  ASSUME SecretsInv, OneProcess, [SecretsNext]_secretVars
  PROVE  SecretsInv'
<1> DEFINE End == [pc |-> "done", id |-> Absent, map |-> {}]
<1>0. End \in CallRecord  BY DEF CallRecord
<1>1. ASSUME NEW c \in Callers, LockFile(c) PROVE SecretsInv'
  <2>1. \A d \in Callers : ~Busy(d)  BY <1>1, OneAtATime DEF LockFile
  <2>2. call' \in [Callers -> CallRecord] /\ held' \in [Holders -> Callers \cup {Nobody}]
        BY <1>1 DEF LockFile, CallAt, SecretsInv, CallRecord
  <2>3. call'[c].pc = "identity" /\ \A d \in Callers : d # c => call'[d] = call[d]
        BY <1>1 DEF LockFile, CallAt, SecretsInv, CallRecord
  <2>4. \A d \in Callers : ReadIsCurrent(d)'
        BY <1>1, <2>1, <2>3 DEF LockFile, ReadIsCurrent, Busy
  <2>5. held'[Calls[c].at] = c /\ \A p \in Holders : p = Calls[c].at
        BY <1>1, CallsNamed DEF LockFile, SecretsInv, OneProcess
  <2>6. \A d \in Callers : call'[d].pc \notin {"new", "done"} => d = c
        BY <2>1, <2>3 DEF Busy
  <2>7. SecretsTypeOK'
        BY <1>1, <2>3, <2>5, <2>6 DEF LockFile, SecretsInv, SecretsTypeOK
  <2>8. VaultOpens'  BY <1>1 DEF LockFile, SecretsInv, VaultOpens
  <2> QED  BY <2>2, <2>4, <2>7, <2>8 DEF SecretsInv
<1>2. ASSUME NEW c \in Callers, ReadIdentity(c) PROVE SecretsInv'
  <2>1. Busy(c) /\ UNCHANGED <<ageKey, vault, stored>>
        BY <1>2 DEF ReadIdentity, Busy
  <2>2. CASE ageKey = Torn
    <3>1. EndCall(c)  BY <1>2, <2>2 DEF ReadIdentity, Torn, Absent
    <3> QED  BY <2>1, <3>1, CallReturns
  <2>3. CASE ageKey = Absent
    <3>1. CallAt(c, "generate") /\ UNCHANGED held  BY <1>2, <2>3 DEF ReadIdentity, Torn, Absent
    <3> DEFINE e == [call[c] EXCEPT !.pc = "generate"]
    <3>2. e \in CallRecord /\ e.pc = "generate" /\ call' = [call EXCEPT ![c] = e] /\ call'[c] = e
          BY <3>1 DEF CallAt, SecretsInv, CallRecord
    <3> HIDE DEF e
    <3> QED  BY <2>1, <2>3, <3>1, <3>2, OneCallMoves DEF ReadIsCurrent, SecretsInv, SecretsTypeOK, VaultOpens
  <2>4. CASE ageKey \notin {Torn, Absent}
    <3>1. call' = [call EXCEPT ![c].pc = "load", ![c].id = ageKey] /\ UNCHANGED held
          BY <1>2, <2>4 DEF ReadIdentity
    <3> DEFINE e == [call[c] EXCEPT !.pc = "load", !.id = ageKey]
    <3>2. ageKey \in Callers  BY <2>4 DEF SecretsInv, SecretsTypeOK
    <3>3. e \in CallRecord /\ e.pc = "load" /\ e.id = ageKey /\ call' = [call EXCEPT ![c] = e] /\ call'[c] = e
          BY <3>1, <3>2 DEF SecretsInv, CallRecord
    <3> HIDE DEF e
    <3> QED  BY <2>1, <3>1, <3>2, <3>3, OneCallMoves DEF ReadIsCurrent, SecretsInv, SecretsTypeOK, VaultOpens
  <2> QED  BY <2>2, <2>3, <2>4
<1>3. ASSUME NEW c \in Callers, TruncateKey(c) PROVE SecretsInv'
  <2>1. Busy(c) /\ ageKey = Absent /\ ageKey' = Torn /\ UNCHANGED <<vault, held, stored>>
        BY <1>3 DEF TruncateKey, Busy, SecretsInv, ReadIsCurrent
  <2> DEFINE e == [call[c] EXCEPT !.pc = "fill"]
  <2>2. e \in CallRecord /\ e.pc = "fill" /\ call' = [call EXCEPT ![c] = e] /\ call'[c] = e
        BY <1>3 DEF TruncateKey, CallAt, SecretsInv, CallRecord
  <2> HIDE DEF e
  <2>3. ReadIsCurrent(c)' /\ VaultOpens'
        BY <2>1, <2>2, SecretsAssumption DEF ReadIsCurrent, SecretsInv, VaultOpens
  <2> QED  BY <2>1, <2>2, <2>3, OneCallMoves DEF SecretsInv, SecretsTypeOK
<1>4. ASSUME NEW c \in Callers, FillKey(c) PROVE SecretsInv'
  <2>1. Busy(c) /\ ageKey = Torn /\ ageKey' = c /\ UNCHANGED <<vault, held, stored>>
        BY <1>4 DEF FillKey, Busy, SecretsInv, ReadIsCurrent
  <2> DEFINE e == [call[c] EXCEPT !.pc = "load", !.id = c]
  <2>2. e \in CallRecord /\ e.pc = "load" /\ e.id = c /\ call' = [call EXCEPT ![c] = e] /\ call'[c] = e
        BY <1>4 DEF FillKey, SecretsInv, CallRecord
  <2> HIDE DEF e
  <2>3. ReadIsCurrent(c)' /\ VaultOpens'
        BY <2>1, <2>2, SecretsAssumption DEF ReadIsCurrent, SecretsInv, VaultOpens
  <2> QED  BY <2>1, <2>2, <2>3, OneCallMoves DEF SecretsInv, SecretsTypeOK
<1>5. ASSUME NEW c \in Callers, LoadVault(c) PROVE SecretsInv'
  <2>1. Busy(c) /\ UNCHANGED <<ageKey, vault, stored>> /\ ageKey \in Callers /\ call[c].id = ageKey
        BY <1>5 DEF LoadVault, Busy, SecretsInv, ReadIsCurrent
  <2>2. CASE vault.by \notin {Absent, call[c].id} \/ Calls[c].op = "get"
    <3>1. EndCall(c)  BY <1>5, <2>2 DEF LoadVault
    <3> QED  BY <2>1, <3>1, CallReturns
  <2>3. CASE ~(vault.by \notin {Absent, call[c].id} \/ Calls[c].op = "get")
    <3> DEFINE e == [call[c] EXCEPT !.pc = "save", !.map = Edited(c)]
    <3>1. call' = [call EXCEPT ![c] = e] /\ UNCHANGED held
          BY <1>5, <2>3 DEF LoadVault, Edited
    <3>2. Edited(c) \subseteq SecretKeys  BY CallsNamed DEF Edited, SecretsInv, SecretsTypeOK
    <3>3. e \in CallRecord /\ e.pc = "save" /\ e.id = ageKey /\ e.map = Edited(c) /\ call'[c] = e
          BY <2>1, <3>1, <3>2 DEF SecretsInv, CallRecord
    <3> HIDE DEF e
    <3>4. ReadIsCurrent(c)' /\ VaultOpens'
          BY <2>1, <3>3 DEF ReadIsCurrent, Edited, SecretsInv, VaultOpens
    <3> QED  BY <2>1, <3>1, <3>3, <3>4, OneCallMoves DEF SecretsInv, SecretsTypeOK
  <2> QED  BY <2>2, <2>3
<1>6. ASSUME NEW c \in Callers, SaveTemp(c) PROVE SecretsInv'
  <2>1. Busy(c) /\ UNCHANGED <<ageKey, vault, held, stored>>
        BY <1>6 DEF SaveTemp, Busy
  <2> DEFINE e == [call[c] EXCEPT !.pc = "rename"]
  <2>2. /\ e \in CallRecord /\ e.pc = "rename" /\ e.id = call[c].id /\ e.map = call[c].map
        /\ call' = [call EXCEPT ![c] = e] /\ call'[c] = e
        BY <1>6 DEF SaveTemp, CallAt, SecretsInv, CallRecord
  <2> HIDE DEF e
  <2>3. ReadIsCurrent(c)' /\ VaultOpens'
        BY <1>6, <2>1, <2>2 DEF SaveTemp, ReadIsCurrent, Edited, SecretsInv, VaultOpens
  <2> QED  BY <2>1, <2>2, <2>3, OneCallMoves DEF SecretsInv, SecretsTypeOK
<1>7. ASSUME NEW c \in Callers, RenameTemp(c) PROVE SecretsInv'
  <2>1. Busy(c) /\ EndCall(c) /\ UNCHANGED ageKey  BY <1>7 DEF RenameTemp, Busy
  <2>2. ageKey \in Callers /\ call[c].id = ageKey /\ call[c].map = Edited(c)
        BY <1>7 DEF RenameTemp, SecretsInv, ReadIsCurrent
  <2>3. vault'.by = ageKey /\ vault'.map = Edited(c)  BY <1>7, <2>2 DEF RenameTemp, VaultFile
  <2>4. stored' \subseteq Edited(c)
        BY <1>7 DEF RenameTemp, Edited, SecretsInv, VaultOpens
  <2>5. Edited(c) \subseteq SecretKeys  BY CallsNamed DEF Edited, SecretsInv, SecretsTypeOK
  <2>6. VaultOpens'  BY <2>1, <2>2, <2>3, <2>4, CallsNamed DEF VaultOpens
  <2>7. call'[c] = End  BY <2>1 DEF EndCall, SecretsInv
  <2>8. ReadIsCurrent(c)'  BY <2>7 DEF ReadIsCurrent
  <2> QED  BY <1>0, <2>1, <2>2, <2>3, <2>4, <2>5, <2>6, <2>8, OneCallMoves DEF EndCall
<1>8. ASSUME NEW p \in Holders, Die(p) PROVE SecretsInv'
  <2>1. \A c \in Callers : Calls[c].at = p /\ \A q \in Holders : q = p  BY CallsNamed DEF OneProcess
  <2>2. \A c \in Callers : call'[c] = IF call[c].pc # "new" THEN End ELSE call[c]
        BY <1>8, <2>1 DEF Die
  <2>3. call' \in [Callers -> CallRecord]  BY <1>0, <1>8 DEF Die, SecretsInv
  <2>4. \A c \in Callers : call'[c].pc \in {"new", "done"}  BY <2>2
  <2>5. held' \in [Holders -> Callers \cup {Nobody}] /\ \A q \in Holders : held'[q] = Nobody
        BY <1>8, <2>1 DEF Die, SecretsInv
  <2>6. \A c \in Callers : ReadIsCurrent(c)'  BY <2>4 DEF ReadIsCurrent
  <2> QED  BY <1>8, <2>3, <2>4, <2>5, <2>6 DEF Die, SecretsInv, SecretsTypeOK, VaultOpens
<1>9. CASE UNCHANGED secretVars
      BY <1>9 DEF secretVars, SecretsInv, SecretsTypeOK, ReadIsCurrent, Edited, VaultOpens
<1> QED  BY <1>1, <1>2, <1>3, <1>4, <1>5, <1>6, <1>7, <1>8, <1>9 DEF SecretsNext

\* file.go keeps what an acknowledged Put stored readable with the identity on
\* disk, wherever the process dies and whichever calls overlap.
THEOREM SecretsReadable == ASSUME OneProcess PROVE SecretsSpec => []WrittenStaysReadable
<1>1. SecretsInv => WrittenStaysReadable  BY DEF SecretsInv, VaultOpens, WrittenStaysReadable
<1>2. SecretsInv /\ [SecretsNext]_secretVars => SecretsInv'  BY SecretsInvStep
<1> QED  BY <1>1, <1>2, SecretsInvInit, PTL DEF SecretsSpec

\* The state of calls and mutexes, whichever processes share the directory:
\* the call that has a process's mutex is one of that process's.
SecretsShaped ==
    /\ SecretsTypeOK
    /\ call \in [Callers -> CallRecord] /\ held \in [Holders -> Callers \cup {Nobody}]
    /\ \A p \in Holders : held[p] # Nobody => Calls[held[p]].at = p

\* Nobody has called.
LEMMA SecretsShapedInit == SecretsInit => SecretsShaped
<1> SUFFICES ASSUME SecretsInit PROVE SecretsShaped
  OBVIOUS
<1>1. SecretsInv  BY SecretsInvInit
<1>2. \A p \in Holders : held[p] = Nobody  BY DEF SecretsInit
<1> QED  BY <1>1, <1>2 DEF SecretsInv, SecretsShaped

\* One busy call moves on, or ends and gives the mutex back.
LEMMA BusyCallMoves ==
  ASSUME SecretsShaped, NEW c \in Callers, NEW e \in CallRecord, Busy(c), e.pc # "new",
         call' = [call EXCEPT ![c] = e],
         IF e.pc = "done" THEN held' = [held EXCEPT ![Calls[c].at] = Nobody] ELSE UNCHANGED held,
         ageKey' \in Callers \cup {Absent, Torn},
         vault'.by \in Callers \cup {Absent, Torn}, vault'.map \subseteq SecretKeys, stored' \subseteq SecretKeys
  PROVE  SecretsShaped'
<1>1. call' \in [Callers -> CallRecord] /\ held' \in [Holders -> Callers \cup {Nobody}]
      BY CallsNamed DEF SecretsShaped
<1>2. call'[c] = e /\ \A d \in Callers : d # c => call'[d] = call[d]  BY DEF SecretsShaped
<1>3. held[Calls[c].at] = c /\ Calls[c].at \in Holders
      BY CallsNamed DEF SecretsShaped, SecretsTypeOK, Busy
<1>4. \A d \in Callers : d # c /\ Busy(d) => Calls[d].at # Calls[c].at
      BY <1>3 DEF SecretsShaped, SecretsTypeOK, Busy
<1>5. \A d \in Callers : call'[d].pc \notin {"new", "done"} => held'[Calls[d].at] = d
  <2> TAKE d \in Callers
  <2> HAVE call'[d].pc \notin {"new", "done"}
  <2>1. CASE d = c  BY <1>2, <1>3, <2>1
  <2>2. CASE d # c
    <3>1. Busy(d) /\ Calls[d].at # Calls[c].at /\ held[Calls[d].at] = d
          BY <1>2, <1>4, <2>2 DEF Busy, SecretsShaped, SecretsTypeOK
    <3>2. Calls[d].at \in Holders  BY CallsNamed
    <3> QED  BY <3>1, <3>2, <1>3 DEF SecretsShaped
  <2> QED  BY <2>1, <2>2
<1>6. \A p \in Holders : held'[p] # Nobody =>
          call'[held'[p]].pc \notin {"new", "done"} /\ Calls[held'[p]].at = p
  <2> TAKE p \in Holders
  <2> HAVE held'[p] # Nobody
  <2>1. CASE p = Calls[c].at  BY <1>2, <1>3, <2>1 DEF SecretsShaped, Busy
  <2>2. CASE p # Calls[c].at
    <3>1. held'[p] = held[p] /\ held[p] \in Callers  BY <1>3, <2>2 DEF SecretsShaped
    <3>2. Calls[held[p]].at = p /\ call[held[p]].pc \notin {"new", "done"}
          BY <3>1 DEF SecretsShaped, SecretsTypeOK
    <3> QED  BY <1>2, <2>2, <3>1, <3>2
  <2> QED  BY <2>1, <2>2
<1> QED  BY <1>1, <1>5, <1>6 DEF SecretsShaped, SecretsTypeOK

\* Each step of a call, and a death, keeps the shapes.
LEMMA SecretsShapedStep ==
  ASSUME SecretsShaped, [SecretsNext]_secretVars
  PROVE  SecretsShaped'
<1> DEFINE End == [pc |-> "done", id |-> Absent, map |-> {}]
<1>0. End \in CallRecord /\ End.pc = "done"  BY DEF CallRecord
<1>k. /\ ageKey \in Callers \cup {Absent, Torn} /\ vault.by \in Callers \cup {Absent, Torn}
      /\ vault.map \subseteq SecretKeys /\ stored \subseteq SecretKeys
      BY DEF SecretsShaped, SecretsTypeOK
<1>e. ASSUME NEW c \in Callers, Busy(c), EndCall(c), UNCHANGED ageKey,
             vault'.by \in Callers \cup {Absent, Torn}, vault'.map \subseteq SecretKeys, stored' \subseteq SecretKeys
      PROVE  SecretsShaped'
  <2>1. call' = [call EXCEPT ![c] = End] /\ held' = [held EXCEPT ![Calls[c].at] = Nobody]
        BY <1>e DEF EndCall
  <2> HIDE DEF End
  <2> QED  BY <1>0, <1>k, <1>e, <2>1, BusyCallMoves
<1>1. ASSUME NEW c \in Callers, LockFile(c) PROVE SecretsShaped'
  <2>1. Calls[c].at \in Holders /\ c # Nobody  BY CallsNamed
  <2>2. call' \in [Callers -> CallRecord] /\ held' \in [Holders -> Callers \cup {Nobody}]
        BY <1>1, <2>1 DEF LockFile, CallAt, SecretsShaped, CallRecord
  <2>3. call'[c].pc = "identity" /\ \A d \in Callers : d # c => call'[d] = call[d]
        BY <1>1 DEF LockFile, CallAt, SecretsShaped, CallRecord
  <2>4. held'[Calls[c].at] = c /\ \A p \in Holders : p # Calls[c].at => held'[p] = held[p]
        BY <1>1, <2>1 DEF LockFile, SecretsShaped
  <2>5. \A d \in Callers : Calls[d].at = Calls[c].at => ~Busy(d)
        BY <1>1, CallsNamed DEF LockFile, SecretsShaped, SecretsTypeOK, Busy
  <2>6. \A d \in Callers : call'[d].pc \notin {"new", "done"} => held'[Calls[d].at] = d
    <3> TAKE d \in Callers
    <3> HAVE call'[d].pc \notin {"new", "done"}
    <3>1. CASE d = c  BY <2>4, <3>1
    <3>2. CASE d # c
      <4>1. Busy(d) /\ Calls[d].at \in Holders  BY <2>3, <3>2, CallsNamed DEF Busy
      <4> QED  BY <4>1, <2>4, <2>5 DEF SecretsShaped, SecretsTypeOK, Busy
    <3> QED  BY <3>1, <3>2
  <2>7. \A p \in Holders : held'[p] # Nobody =>
            call'[held'[p]].pc \notin {"new", "done"} /\ Calls[held'[p]].at = p
    <3> TAKE p \in Holders
    <3> HAVE held'[p] # Nobody
    <3>1. CASE p = Calls[c].at  BY <2>3, <2>4, <3>1
    <3>2. CASE p # Calls[c].at
      <4>1. held'[p] = held[p] /\ held[p] \in Callers  BY <2>4, <3>2 DEF SecretsShaped
      <4>2. Calls[held[p]].at = p /\ call[held[p]].pc \notin {"new", "done"}
            BY <4>1 DEF SecretsShaped, SecretsTypeOK
      <4> QED  BY <2>3, <3>2, <4>1, <4>2
    <3> QED  BY <3>1, <3>2
  <2>8. UNCHANGED <<ageKey, vault, stored>>  BY <1>1 DEF LockFile
  <2> QED  BY <1>k, <2>2, <2>6, <2>7, <2>8 DEF SecretsShaped, SecretsTypeOK
<1>2. ASSUME NEW c \in Callers, ReadIdentity(c) PROVE SecretsShaped'
  <2>1. Busy(c) /\ UNCHANGED <<ageKey, vault, stored>>
        BY <1>2 DEF ReadIdentity, Busy
  <2>2. CASE ageKey = Torn
    <3>1. EndCall(c)  BY <1>2, <2>2 DEF ReadIdentity, Torn, Absent
    <3> QED  BY <1>k, <2>1, <3>1, <1>e
  <2>3. CASE ageKey = Absent
    <3>1. CallAt(c, "generate") /\ UNCHANGED held  BY <1>2, <2>3 DEF ReadIdentity, Torn, Absent
    <3> DEFINE e == [call[c] EXCEPT !.pc = "generate"]
    <3>2. e \in CallRecord /\ e.pc = "generate" /\ call' = [call EXCEPT ![c] = e]
          BY <3>1 DEF CallAt, SecretsShaped, CallRecord
    <3> HIDE DEF e
    <3> QED  BY <1>k, <2>1, <3>1, <3>2, BusyCallMoves
  <2>4. CASE ageKey \notin {Torn, Absent}
    <3>1. call' = [call EXCEPT ![c].pc = "load", ![c].id = ageKey] /\ UNCHANGED held
          BY <1>2, <2>4 DEF ReadIdentity
    <3> DEFINE e == [call[c] EXCEPT !.pc = "load", !.id = ageKey]
    <3>2. e \in CallRecord /\ e.pc = "load" /\ call' = [call EXCEPT ![c] = e]
          BY <1>k, <2>4, <3>1 DEF SecretsShaped, CallRecord
    <3> HIDE DEF e
    <3> QED  BY <1>k, <2>1, <3>1, <3>2, BusyCallMoves
  <2> QED  BY <2>2, <2>3, <2>4
<1>3. ASSUME NEW c \in Callers, TruncateKey(c) PROVE SecretsShaped'
  <2> DEFINE e == [call[c] EXCEPT !.pc = "fill"]
  <2>1. e \in CallRecord /\ e.pc = "fill" /\ call' = [call EXCEPT ![c] = e] /\ Busy(c)
        BY <1>3 DEF TruncateKey, CallAt, SecretsShaped, CallRecord, Busy
  <2> HIDE DEF e
  <2> QED  BY <1>k, <1>3, <2>1, BusyCallMoves DEF TruncateKey
<1>4. ASSUME NEW c \in Callers, FillKey(c) PROVE SecretsShaped'
  <2> DEFINE e == [call[c] EXCEPT !.pc = "load", !.id = c]
  <2>1. e \in CallRecord /\ e.pc = "load" /\ call' = [call EXCEPT ![c] = e] /\ Busy(c)
        BY <1>4 DEF FillKey, SecretsShaped, CallRecord, Busy
  <2> HIDE DEF e
  <2> QED  BY <1>k, <1>4, <2>1, BusyCallMoves DEF FillKey
<1>5. ASSUME NEW c \in Callers, LoadVault(c) PROVE SecretsShaped'
  <2>1. Busy(c) /\ UNCHANGED <<ageKey, vault, stored>>  BY <1>5 DEF LoadVault, Busy
  <2>2. CASE vault.by \notin {Absent, call[c].id} \/ Calls[c].op = "get"
    <3>1. EndCall(c)  BY <1>5, <2>2 DEF LoadVault
    <3> QED  BY <1>k, <2>1, <3>1, <1>e
  <2>3. CASE ~(vault.by \notin {Absent, call[c].id} \/ Calls[c].op = "get")
    <3> DEFINE e == [call[c] EXCEPT !.pc = "save", !.map = Edited(c)]
    <3>1. call' = [call EXCEPT ![c] = e] /\ UNCHANGED held
          BY <1>5, <2>3 DEF LoadVault, Edited
    <3>2. Edited(c) \subseteq SecretKeys  BY <1>k, CallsNamed DEF Edited
    <3>3. e \in CallRecord /\ e.pc = "save"  BY <3>2 DEF SecretsShaped, CallRecord
    <3> HIDE DEF e
    <3> QED  BY <1>k, <2>1, <3>1, <3>3, BusyCallMoves
  <2> QED  BY <2>2, <2>3
<1>6. ASSUME NEW c \in Callers, SaveTemp(c) PROVE SecretsShaped'
  <2> DEFINE e == [call[c] EXCEPT !.pc = "rename"]
  <2>1. e \in CallRecord /\ e.pc = "rename" /\ call' = [call EXCEPT ![c] = e] /\ Busy(c)
        BY <1>6 DEF SaveTemp, CallAt, SecretsShaped, CallRecord, Busy
  <2> HIDE DEF e
  <2> QED  BY <1>k, <1>6, <2>1, BusyCallMoves DEF SaveTemp
<1>7. ASSUME NEW c \in Callers, RenameTemp(c) PROVE SecretsShaped'
  <2>1. Busy(c) /\ EndCall(c) /\ UNCHANGED ageKey  BY <1>7 DEF RenameTemp, Busy
  <2>2. call[c].id \in Callers \cup {Absent} /\ call[c].map \subseteq SecretKeys
        BY DEF SecretsShaped, CallRecord
  <2>3. vault'.by = call[c].id /\ vault'.map = call[c].map  BY <1>7 DEF RenameTemp, VaultFile
  <2>4. stored' \subseteq SecretKeys  BY <1>7, <1>k, CallsNamed DEF RenameTemp
  <2> QED  BY <2>1, <2>2, <2>3, <2>4, <1>e
<1>8. ASSUME NEW p \in Holders, Die(p) PROVE SecretsShaped'
  <2>1. \A c \in Callers : call'[c] = IF Calls[c].at = p /\ call[c].pc # "new" THEN End ELSE call[c]
        BY <1>8 DEF Die
  <2>2. call' \in [Callers -> CallRecord]  BY <1>0, <1>8 DEF Die, SecretsShaped
  <2>3. held' \in [Holders -> Callers \cup {Nobody}] /\ held'[p] = Nobody
        /\ \A q \in Holders : q # p => held'[q] = held[q]
        BY <1>8 DEF Die, SecretsShaped
  <2>4. \A c \in Callers : call'[c].pc \notin {"new", "done"} => Calls[c].at # p /\ call'[c] = call[c]
    <3> TAKE c \in Callers
    <3>1. CASE Calls[c].at = p /\ call[c].pc # "new"  BY <2>1, <3>1, <1>0
    <3>2. CASE ~(Calls[c].at = p /\ call[c].pc # "new")  BY <2>1, <3>2
    <3> QED  BY <3>1, <3>2
  <2>5. \A c \in Callers : call'[c].pc \notin {"new", "done"} => held'[Calls[c].at] = c
        BY <2>3, <2>4, CallsNamed DEF SecretsShaped, SecretsTypeOK
  <2>6. \A q \in Holders : held'[q] # Nobody =>
            call'[held'[q]].pc \notin {"new", "done"} /\ Calls[held'[q]].at = q
    <3> TAKE q \in Holders
    <3> HAVE held'[q] # Nobody
    <3>1. q # p /\ held'[q] = held[q] /\ held[q] \in Callers  BY <2>3 DEF SecretsShaped
    <3>2. Calls[held[q]].at = q /\ call[held[q]].pc \notin {"new", "done"}
          BY <3>1 DEF SecretsShaped, SecretsTypeOK
    <3> QED  BY <2>1, <3>1, <3>2
  <2>7. UNCHANGED <<ageKey, vault, stored>>  BY <1>8 DEF Die
  <2> QED  BY <1>k, <2>2, <2>3, <2>5, <2>6, <2>7 DEF SecretsShaped, SecretsTypeOK
<1>9. CASE UNCHANGED secretVars
      BY <1>9 DEF secretVars, SecretsShaped, SecretsTypeOK
<1> QED  BY <1>1, <1>2, <1>3, <1>4, <1>5, <1>6, <1>7, <1>8, <1>9 DEF SecretsNext

\* Whichever processes use the directory, one call at a time has a process's
\* mutex, every call between its start and its end has its process's, and what
\* lies on the disk is absent, torn or a call's.
THEOREM SecretsTypes == SecretsSpec => []SecretsTypeOK
<1>1. SecretsShaped => SecretsTypeOK  BY DEF SecretsShaped
<1>2. SecretsShaped /\ [SecretsNext]_secretVars => SecretsShaped'  BY SecretsShapedStep
<1> QED  BY <1>1, <1>2, SecretsShapedInit, PTL DEF SecretsSpec

-----------------------------------------------------------------------------
(* RunEvents: the runs list and the log's tails.                           *)

EventsSpec == EventsInit /\ [][EventsNext]_eventVars

Row == [seen : Nat, ended : BOOLEAN]
ClientRecord == [at : {"away", "subscribed", "reading", "live"}, toRead : SUBSET Listed,
                 chan : Seq(Listed), shows : [Listed -> Nat \cup {Unseen}]]
Holds(q, r) == \E i \in 1..Len(q) : q[i] = r

\* The client shows run r as it is, or will, or was not told.
Told(r) ==
    \/ client.shows[r] = row[r].seen
    \/ Holds(client.chan, r)
    \/ r \in due \/ adding[r] \in {"no", "mapped", "hooked"}
    \/ r \in hushed /\ ~row[r].ended
    \/ r \in passed
    \/ client.shows[r] = Unseen /\ "memory" \notin kept[r]

ListTypes ==
    /\ row \in [Listed -> Row] /\ adding \in [Listed -> {"no", "mapped", "hooked", "told"}]
    /\ due \subseteq Listed /\ hushed \subseteq Listed /\ passed \subseteq Listed
    /\ kept \in [Listed -> SUBSET {"memory", "table"}]
    /\ client \in ClientRecord

\* While the snapshot is read, the runs it has read are told; before, nothing
\* is shown.
SnapshotSoFar ==
    /\ client.at \in {"away", "subscribed"} => \A r \in Listed : client.shows[r] = Unseen
    /\ client.at \in {"reading", "live"} => \A r \in Listed \ client.toRead : Told(r)
    /\ client.at = "live" => client.toRead = {}

ListInv == ListTypes /\ SnapshotSoFar

\* A new daemon.
LEMMA ListInvInit == EventsInit => ListInv
BY EmptySeq DEF EventsInit, ListInv, ListTypes, SnapshotSoFar, Row, ClientRecord, Unseen

\* A broadcast reaches a client that has subscribed, or finds its channel full.
LEMMA BroadcastArrives ==
  ASSUME ListTypes, NEW r \in Listed, Broadcast(r)
  PROVE  /\ client' \in ClientRecord
         /\ client'.at = client.at /\ client'.toRead = client.toRead /\ client'.shows = client.shows
         /\ \A q \in Listed : Holds(client.chan, q) => Holds(client'.chan, q)
         /\ passed' \subseteq Listed /\ passed \subseteq passed'
         /\ client.at # "away" => Holds(client'.chan, r) \/ r \in passed'
<1> USE DEF ListTypes
<1>1. CASE client.at = "away" \/ ~(Len(client.chan) < Buffer)
      BY <1>1 DEF Broadcast, ClientRecord
<1>2. CASE client.at # "away" /\ Len(client.chan) < Buffer
  <2>1. client.chan \in Seq(Listed)  BY DEF ClientRecord
  <2> DEFINE c == Append(client.chan, r)
  <2>2. /\ c \in Seq(Listed) /\ Len(c) = Len(client.chan) + 1 /\ Len(client.chan) \in Nat
        /\ \A i \in 1..Len(client.chan) : c[i] = client.chan[i]
        /\ c[Len(client.chan) + 1] = r
        BY <2>1, AppendProperties, LenProperties
  <2>3. client' = [client EXCEPT !.chan = c] /\ UNCHANGED passed
        BY <1>2 DEF Broadcast
  <2> HIDE DEF c
  <2>4. client' \in ClientRecord /\ client'.chan = c
        /\ client'.at = client.at /\ client'.toRead = client.toRead /\ client'.shows = client.shows
        BY <2>2, <2>3 DEF ClientRecord
  <2>5. Holds(c, r)  BY <2>2 DEF Holds
  <2>6. \A q \in Listed : Holds(client.chan, q) => Holds(c, q)  BY <2>2 DEF Holds
  <2> QED  BY <2>3, <2>4, <2>5, <2>6
<1> QED  BY <1>1, <1>2 DEF Broadcast

\* A step that only adds to what the client is told.
LEMMA ToldKeeps ==
  ASSUME ListInv, ListTypes',
         client'.at = client.at, client'.toRead = client.toRead, client'.shows = client.shows,
         \A r \in Listed : client.at \in {"reading", "live"} /\ Told(r) => Told(r)'
  PROVE  ListInv'
BY DEF ListInv, SnapshotSoFar

\* Every step of the runs, of the store and of the list's stream keeps it.
LEMMA ListInvStep ==
  ASSUME ListInv, ListNext \/ UNCHANGED listVars
  PROVE  ListInv'
<1> USE DEF ListInv
<1>1. ASSUME NEW r \in Listed, AddToMap(r) PROVE ListInv'
  <2>1. ListTypes'  BY <1>1 DEF AddToMap, ListTypes
  <2>2. \A q \in Listed : Told(q) => Told(q)'
        BY <1>1 DEF AddToMap, Told, ListTypes
  <2> QED  BY <1>1, <2>1, <2>2, ToldKeeps DEF AddToMap
<1>2. ASSUME NEW r \in Listed, OnChange(r) PROVE ListInv'
  <2>1. ListTypes'  BY <1>2 DEF OnChange, ListTypes
  <2>2. \A q \in Listed : Told(q) => Told(q)'
        BY <1>2 DEF OnChange, Told, ListTypes
  <2> QED  BY <1>2, <2>1, <2>2, ToldKeeps DEF OnChange
<1>3. ASSUME NEW r \in Listed, AddTells(r) PROVE ListInv'
  <2>1. /\ client' \in ClientRecord
        /\ client'.at = client.at /\ client'.toRead = client.toRead /\ client'.shows = client.shows
        /\ \A q \in Listed : Holds(client.chan, q) => Holds(client'.chan, q)
        /\ passed' \subseteq Listed /\ passed \subseteq passed'
        /\ client.at # "away" => Holds(client'.chan, r) \/ r \in passed'
        BY <1>3, BroadcastArrives DEF AddTells
  <2>2. ListTypes'  BY <1>3, <2>1 DEF AddTells, ListTypes
  <2>3. \A q \in Listed : client.at \in {"reading", "live"} /\ Told(q) => Told(q)'
        BY <1>3, <2>1 DEF AddTells, Told, ListTypes
  <2> QED  BY <2>1, <2>2, <2>3, ToldKeeps
<1>4. ASSUME NEW r \in Listed, NEW ends \in BOOLEAN, NEW tells \in BOOLEAN, ends => tells, Touch(r, ends, tells)
      PROVE  ListInv'
  <2> DEFINE e == [row[r] EXCEPT !.seen = @ + 1, !.ended = ends]
  <2>0. row[r] \in Row /\ row' = [row EXCEPT ![r] = e]
        BY <1>4 DEF Touch, ListTypes
  <2>5. e \in Row /\ e.ended = ends
    <3> DEFINE counted == [row[r] EXCEPT !.seen = @ + 1]
    <3>1. counted \in Row  BY <2>0 DEF Row
    <3>2. e = [counted EXCEPT !.ended = ends]  OBVIOUS
    <3> HIDE DEF counted, e
    <3> QED  BY <3>1, <3>2 DEF Row
  <2> HIDE DEF e
  <2>1. /\ row' \in [Listed -> Row] /\ row'[r].ended = ends
        /\ \A q \in Listed : q # r => row'[q] = row[q]
        BY <2>0, <2>5 DEF ListTypes
  <2>2. ListTypes'  BY <1>4, <2>1 DEF Touch, ListTypes
  <2>3. r \in due' \/ (r \in hushed' /\ ~row'[r].ended)
        BY <1>4, <2>1 DEF Touch
  <2>4. \A q \in Listed : Told(q) => Told(q)'
        BY <1>4, <2>1, <2>3 DEF Touch, Told
  <2> QED  BY <1>4, <2>2, <2>4, ToldKeeps DEF Touch
<1>5. ASSUME NEW r \in Listed, Notify(r) PROVE ListInv'
  <2>1. CASE adding[r] \in {"no", "mapped"}
    <3>1. ListTypes'  BY <1>5, <2>1 DEF Notify, ListTypes
    <3>2. \A q \in Listed : Told(q) => Told(q)'  BY <1>5, <2>1 DEF Notify, Told
    <3> QED  BY <1>5, <2>1, <3>1, <3>2, ToldKeeps DEF Notify
  <2>2. CASE adding[r] \notin {"no", "mapped"}
    <3>1. /\ client' \in ClientRecord
          /\ client'.at = client.at /\ client'.toRead = client.toRead /\ client'.shows = client.shows
          /\ \A q \in Listed : Holds(client.chan, q) => Holds(client'.chan, q)
          /\ passed' \subseteq Listed /\ passed \subseteq passed'
          /\ client.at # "away" => Holds(client'.chan, r) \/ r \in passed'
          BY <1>5, <2>2, BroadcastArrives DEF Notify
    <3>2. ListTypes'  BY <1>5, <3>1 DEF Notify, ListTypes
    <3>3. \A q \in Listed : client.at \in {"reading", "live"} /\ Told(q) => Told(q)'
          BY <1>5, <3>1 DEF Notify, Told
    <3> QED  BY <3>1, <3>2, <3>3, ToldKeeps
  <2> QED  BY <2>1, <2>2
<1>6. ASSUME NEW r \in Listed, RowWritten(r) \/ EvictEnded(r) PROVE ListInv'
  <2>1. ListTypes'  BY <1>6 DEF RowWritten, EvictEnded, ListTypes
  <2>2. \A q \in Listed : "memory" \notin kept[q] => "memory" \notin kept'[q]
        BY <1>6 DEF RowWritten, EvictEnded, ListTypes
  <2>3. UNCHANGED <<row, adding, due, hushed, client, passed>>  BY <1>6 DEF RowWritten, EvictEnded
  <2>4. \A q \in Listed : Told(q) => Told(q)'  BY <2>2, <2>3 DEF Told
  <2> QED  BY <2>1, <2>3, <2>4, ToldKeeps
<1>7. ASSUME NEW r \in Listed, Summarise(r) PROVE ListInv'
  <2>1. /\ client' \in ClientRecord
        /\ client'.at = "reading" /\ client'.toRead = client.toRead \ {r} /\ client'.chan = client.chan
        /\ client'.shows[r] = row[r].seen
        /\ \A q \in Listed : q # r => client'.shows[q] = client.shows[q]
        BY <1>7 DEF Summarise, ListTypes, ClientRecord, Row
  <2>2. ListTypes'  BY <1>7, <2>1 DEF Summarise, ListTypes
  <2>3. Told(r)'  BY <1>7, <2>1 DEF Summarise, Told
  <2>4. \A q \in Listed \ client.toRead : q # r => Told(q)'
        BY <1>7, <2>1 DEF Summarise, Told, SnapshotSoFar
  <2> QED  BY <2>1, <2>2, <2>3, <2>4 DEF SnapshotSoFar
<1>8. CASE SubscribeChanges
      BY <1>8 DEF SubscribeChanges, ListTypes, ClientRecord, SnapshotSoFar
<1>9. CASE ListRuns
  <2>1. /\ client' \in ClientRecord
        /\ client'.at = "reading" /\ client'.toRead = {r \in Listed : "memory" \in kept[r]}
        /\ \A r \in Listed : client'.shows[r] = Unseen
        BY <1>9 DEF ListRuns, ListTypes, ClientRecord, SnapshotSoFar
  <2>2. ListTypes'  BY <1>9, <2>1 DEF ListRuns, ListTypes
  <2>3. \A r \in Listed \ client'.toRead : Told(r)'
        BY <1>9, <2>1 DEF ListRuns, Told
  <2> QED  BY <2>1, <2>2, <2>3 DEF SnapshotSoFar
<1>10. CASE SnapshotSent
  <2>1. /\ client' \in ClientRecord /\ client'.at = "live" /\ client'.toRead = {} /\ client.toRead = {}
        /\ client'.chan = client.chan /\ client'.shows = client.shows
        BY <1>10 DEF SnapshotSent, ListTypes, ClientRecord
  <2>2. ListTypes'  BY <1>10, <2>1 DEF SnapshotSent, ListTypes
  <2>3. \A r \in Listed : Told(r)'
        BY <1>10, <2>1 DEF SnapshotSent, SnapshotSoFar, Told
  <2> QED  BY <2>1, <2>2, <2>3 DEF SnapshotSoFar
<1>11. CASE Delta
  <2>1. client.chan \in Seq(Listed) /\ client.chan # <<>>  BY <1>11 DEF Delta, ListTypes, ClientRecord
  <2> PICK r \in Listed : r = Head(client.chan)  BY <2>1, HeadTailProperties
  <2> DEFINE c == Tail(client.chan)
             seen == IF kept[r] # {} THEN row[r].seen ELSE client.shows[r]
  <2>2. /\ c \in Seq(Listed) /\ Len(client.chan) \in Nat /\ Len(c) = Len(client.chan) - 1
        /\ \A i \in 1..Len(c) : c[i] = client.chan[i + 1]
        BY <2>1, HeadTailProperties, LenProperties
  <2>3. r = client.chan[1]  BY <2>1
  <2>4. seen \in Nat \cup {Unseen}  BY <2>2 DEF ListTypes, ClientRecord, Row
  <2>5. /\ client' = [client EXCEPT !.chan = c, !.shows[r] = seen]
        /\ passed' = IF kept[r] # {} THEN passed \ {r} ELSE passed \cup {r}
        /\ UNCHANGED <<row, adding, due, hushed, kept>>
        BY <1>11 DEF Delta
  <2>6. \A q \in Listed : q # r /\ Holds(client.chan, q) => Holds(c, q)
    <3> SUFFICES ASSUME NEW i \in 1..Len(client.chan), client.chan[i] # r
                 PROVE  Holds(c, client.chan[i])
        BY DEF Holds
    <3>1. i - 1 \in 1..Len(c) /\ c[i - 1] = client.chan[i]  BY <2>2, <2>3
    <3> QED  BY <3>1 DEF Holds
  <2>7. seen = row[r].seen \/ r \in passed'  BY <2>5
  <2> HIDE DEF c, seen
  <2>8. /\ client' \in ClientRecord /\ client'.at = client.at /\ client'.toRead = client.toRead
        /\ client'.chan = c /\ client'.shows[r] = seen
        /\ \A q \in Listed : q # r => client'.shows[q] = client.shows[q]
        BY <2>2, <2>4, <2>5 DEF ListTypes, ClientRecord
  <2>9. ListTypes'  BY <2>2, <2>5, <2>8 DEF ListTypes
  <2>10. client.at = "live"  BY <1>11 DEF Delta
  <2>11. \A q \in Listed : Told(q)'
    <3>1. Told(r)'  BY <2>5, <2>7, <2>8 DEF Told
    <3>2. ASSUME NEW q \in Listed, q # r PROVE Told(q)'
      <4>1. Told(q)  BY <2>10 DEF SnapshotSoFar
      <4> QED  BY <3>2, <4>1, <2>5, <2>6, <2>8 DEF Told
    <3> QED  BY <3>1, <3>2
  <2> QED  BY <2>8, <2>9, <2>10, <2>11 DEF SnapshotSoFar
<1>12. CASE UNCHANGED listVars
      BY <1>12 DEF listVars, ListTypes, SnapshotSoFar, Told, Holds
<1> QED  BY <1>1, <1>2, <1>3, <1>4, <1>5, <1>6, <1>7, <1>8, <1>9, <1>10, <1>11, <1>12 DEF ListNext

\* The log's clients.
TailRecord == [at : {"away", "replayed", "live", "gone"},
               shows : Seq(Nat), chan : Seq(Nat), skipped : SUBSET Nat]

\* s is the first n entries in order, but for those in miss.
InOrder(s, n, miss) ==
    /\ \A i \in 1..(Len(s) - 1) : s[i] < s[i + 1]
    /\ {s[i] : i \in 1..Len(s)} = (1..n) \ miss

\* What a client shows, and a replay that has not subscribed yet.
TailSound(c) ==
    /\ tail[c].at \in {"away", "replayed"} => tail[c].chan = <<>>
    /\ tail[c].at = "replayed" =>
          /\ tail[c].shows = [i \in 1..Len(tail[c].shows) |-> i] /\ Len(tail[c].shows) <= log
    /\ tail[c].skipped \subseteq 1..log
    /\ tail[c].at = "live" => InOrder(tail[c].shows \o tail[c].chan, log, tail[c].skipped)

TailInv ==
    /\ log \in Nat /\ tail \in [Tails -> TailRecord]
    /\ \A c \in Tails : TailSound(c)

\* No client, no entry.
LEMMA TailInvInit == EventsInit => TailInv
BY EmptySeq DEF EventsInit, TailInv, TailRecord, TailSound

\* The next entry after those in order is in order.
LEMMA OneMore ==
  ASSUME NEW s \in Seq(Nat), NEW n \in Nat, NEW miss, miss \subseteq 1..n, InOrder(s, n, miss)
  PROVE  InOrder(Append(s, n + 1), n + 1, miss)
<1> DEFINE t == Append(s, n + 1)
<1>1. /\ t \in Seq(Nat) /\ Len(t) = Len(s) + 1 /\ Len(s) \in Nat
      /\ \A i \in 1..Len(s) : t[i] = s[i] /\ s[i] \in Nat
      /\ t[Len(s) + 1] = n + 1
      BY AppendProperties, LenProperties, ElementOfSeq
<1> HIDE DEF t
<1>2. \A i \in 1..Len(s) : s[i] \in (1..n) \ miss  BY DEF InOrder
<1>3. \A i \in 1..(Len(t) - 1) : t[i] < t[i + 1]
  <2> SUFFICES ASSUME NEW i \in 1..Len(s) PROVE t[i] < t[i + 1]  BY <1>1
  <2>1. CASE i = Len(s)  BY <1>1, <1>2, <2>1
  <2>2. CASE i # Len(s)
    <3>1. i \in 1..(Len(s) - 1) /\ i + 1 \in 1..Len(s)  BY <1>1, <2>2
    <3> QED  BY <1>1, <3>1 DEF InOrder
  <2> QED  BY <2>1, <2>2
<1>4. {t[i] : i \in 1..Len(t)} = (1..(n + 1)) \ miss
  <2>1. ASSUME NEW i \in 1..Len(t) PROVE t[i] \in (1..(n + 1)) \ miss
    <3>1. CASE i = Len(s) + 1  BY <1>1, <3>1
    <3>2. CASE i # Len(s) + 1
      <4>1. i \in 1..Len(s)  BY <1>1, <3>2
      <4> QED  BY <1>1, <1>2, <4>1
    <3> QED  BY <3>1, <3>2
  <2>2. ASSUME NEW m \in (1..(n + 1)) \ miss PROVE \E i \in 1..Len(t) : t[i] = m
    <3>1. CASE m = n + 1
      <4>1. Len(s) + 1 \in 1..Len(t)  BY <1>1
      <4> QED  BY <1>1, <3>1, <4>1
    <3>2. CASE m # n + 1
      <4>1. m \in {s[i] : i \in 1..Len(s)}  BY <3>2, <2>2 DEF InOrder
      <4>2. PICK i \in 1..Len(s) : s[i] = m  BY <4>1
      <4>3. i \in 1..Len(t)  BY <1>1
      <4> QED  BY <1>1, <4>2, <4>3
    <3> QED  BY <3>1, <3>2
  <2> QED  BY <2>1, <2>2
<1> QED  BY <1>3, <1>4 DEF t, InOrder

\* An entry a client has no room for is one it misses.
LEMMA OneMissed ==
  ASSUME NEW s, NEW n \in Nat, NEW miss, InOrder(s, n, miss)
  PROVE  InOrder(s, n + 1, miss \cup {n + 1})
BY DEF InOrder

\* Appending to a channel, and receiving from it, as seen by the client.
LEMMA ChannelIsPipe ==
  ASSUME NEW a \in Seq(Nat), NEW b \in Seq(Nat)
  PROVE  /\ \A e \in Nat : a \o Append(b, e) = Append(a \o b, e)
         /\ b # <<>> => Append(a, Head(b)) \o Tail(b) = a \o b
<1>1. ASSUME NEW e \in Nat PROVE a \o Append(b, e) = Append(a \o b, e)
  <2>1. <<e>> \in Seq(Nat) /\ a \o b \in Seq(Nat)  BY ConcatProperties
  <2>2. (a \o b) \o <<e>> = a \o (b \o <<e>>)  BY <2>1, ConcatAssociative
  <2>3. Append(b, e) = b \o <<e>> /\ Append(a \o b, e) = (a \o b) \o <<e>>  BY <2>1, AppendIsConcat
  <2> QED  BY <2>2, <2>3
<1>2. ASSUME b # <<>> PROVE Append(a, Head(b)) \o Tail(b) = a \o b
  <2> DEFINE h == Head(b)
  <2>1. h \in Nat /\ Tail(b) \in Seq(Nat) /\ <<h>> \in Seq(Nat)  BY <1>2, HeadTailProperties
  <2>2. b = <<h>> \o Tail(b)
    <3> DEFINE c == <<h>> \o Tail(b)
    <3>1. /\ c \in Seq(Nat) /\ Len(c) = Len(b) /\ Len(b) \in Nat /\ Len(Tail(b)) = Len(b) - 1
          /\ \A i \in 1..Len(b) : c[i] = IF i <= 1 THEN <<h>>[i] ELSE Tail(b)[i - 1]
          BY <1>2, <2>1, ConcatProperties, HeadTailProperties, LenProperties
    <3>2. \A i \in 1..Len(Tail(b)) : Tail(b)[i] = b[i + 1]  BY <1>2, HeadTailProperties
    <3>3. h = b[1]  BY <1>2
    <3> HIDE DEF c, h
    <3>4. \A i \in 1..Len(b) : c[i] = b[i]
      <4> SUFFICES ASSUME NEW i \in 1..Len(b) PROVE c[i] = b[i]  OBVIOUS
      <4>1. CASE i = 1  BY <3>1, <3>3, <4>1
      <4>2. CASE i # 1
        <5>1. i - 1 \in 1..Len(Tail(b)) /\ ~(i <= 1)  BY <3>1, <4>2
        <5>2. Tail(b)[i - 1] = b[i]  BY <3>2, <5>1, <3>1
        <5> QED  BY <3>1, <5>1, <5>2
      <4> QED  BY <4>1, <4>2
    <3>5. c = b  BY <3>1, <3>4, SeqEqual
    <3> QED  BY <3>5 DEF c
  <2>3. Append(a, h) = a \o <<h>>  BY <2>1, AppendIsConcat
  <2>4. (a \o <<h>>) \o Tail(b) = a \o (<<h>> \o Tail(b))  BY <2>1, ConcatAssociative
  <2> QED  BY <2>2, <2>3, <2>4
<1> QED  BY <1>1, <1>2

\* The entries a replay has taken are the first ones, in order.
LEMMA ReplayInOrder ==
  ASSUME NEW s \in Seq(Nat), s = [i \in 1..Len(s) |-> i], NEW n \in Nat, Len(s) <= n
  PROVE  InOrder(s, n, (Len(s) + 1)..n)
<1>1. Len(s) \in Nat  BY LenProperties
<1>2. \A i \in 1..Len(s) : s[i] = i  OBVIOUS
<1>3. \A i \in 1..(Len(s) - 1) : s[i] < s[i + 1]  BY <1>1, <1>2
<1>4. {s[i] : i \in 1..Len(s)} = 1..Len(s)  BY <1>2
<1>5. 1..Len(s) = (1..n) \ ((Len(s) + 1)..n)  BY <1>1
<1> QED  BY <1>3, <1>4, <1>5 DEF InOrder

\* Every step of the log and of its clients keeps it.
LEMMA TailInvStep ==
  ASSUME TailInv, TailNext \/ UNCHANGED tailVars
  PROVE  TailInv'
<1> USE DEF TailInv
<1>0. \A c \in Tails : tail[c] \in TailRecord /\ tail[c].shows \in Seq(Nat) /\ tail[c].chan \in Seq(Nat)
      BY DEF TailRecord
<1>1. CASE AppendEntry
  <2>1. log' = log + 1 /\ log' \in Nat  BY <1>1 DEF AppendEntry
  <2>2. ASSUME NEW c \in Tails PROVE tail'[c] \in TailRecord /\ TailSound(c)'
    <3>1. TailSound(c) /\ tail[c] \in TailRecord  BY <1>0
    <3>2. CASE tail[c].at # "live"
      <4>1. tail'[c] = tail[c]  BY <1>1, <3>2 DEF AppendEntry
      <4> QED  BY <2>1, <3>1, <3>2, <4>1 DEF TailSound, TailRecord
    <3>3. CASE tail[c].at = "live" /\ Len(tail[c].chan) < Buffer
      <4> DEFINE q == Append(tail[c].chan, log')
      <4>1. tail'[c] = [tail[c] EXCEPT !.chan = q]  BY <1>1, <3>3 DEF AppendEntry
      <4>2. q \in Seq(Nat)  BY <1>0, <2>1, AppendProperties
      <4>3. tail[c].shows \o q = Append(tail[c].shows \o tail[c].chan, log + 1)
            BY <1>0, <2>1, ChannelIsPipe
      <4>4. InOrder(tail[c].shows \o q, log', tail[c].skipped)
        <5>1. tail[c].shows \o tail[c].chan \in Seq(Nat)  BY <1>0, ConcatProperties
        <5>2. InOrder(tail[c].shows \o tail[c].chan, log, tail[c].skipped) /\ tail[c].skipped \subseteq 1..log
              BY <3>1, <3>3 DEF TailSound
        <5> QED  BY <2>1, <4>3, <5>1, <5>2, OneMore
      <4> HIDE DEF q
      <4>5. /\ tail'[c] \in TailRecord /\ tail'[c].chan = q /\ tail'[c].at = "live"
            /\ tail'[c].shows = tail[c].shows /\ tail'[c].skipped = tail[c].skipped
            BY <3>1, <3>3, <4>1, <4>2 DEF TailRecord
      <4>6. tail[c].skipped \subseteq 1..log'  BY <2>1, <3>1 DEF TailSound
      <4> QED  BY <4>4, <4>5, <4>6 DEF TailSound
    <3>4. CASE tail[c].at = "live" /\ ~(Len(tail[c].chan) < Buffer)
      <4> DEFINE miss == tail[c].skipped \cup {log + 1}
      <4>1. tail'[c] = [tail[c] EXCEPT !.skipped = miss]  BY <1>1, <2>1, <3>4 DEF AppendEntry
      <4>5. miss \subseteq Nat  BY <3>1 DEF TailRecord
      <4> HIDE DEF miss
      <4>6. /\ tail'[c] \in TailRecord /\ tail'[c].chan = tail[c].chan /\ tail'[c].at = "live"
            /\ tail'[c].shows = tail[c].shows /\ tail'[c].skipped = miss
            BY <3>1, <3>4, <4>1, <4>5 DEF TailRecord
      <4>2. tail'[c].skipped = tail[c].skipped \cup {log + 1}  BY <4>6 DEF miss
      <4>3. InOrder(tail[c].shows \o tail[c].chan, log + 1, tail[c].skipped \cup {log + 1})
            BY <3>1, <3>4, OneMissed DEF TailSound
      <4>4. tail'[c].skipped \subseteq 1..log'  BY <2>1, <3>1, <4>2 DEF TailSound
      <4> QED  BY <2>1, <4>2, <4>3, <4>4, <4>6 DEF TailSound
    <3> QED  BY <3>2, <3>3, <3>4
  <2>3. tail' = [c \in Tails |-> tail'[c]]  BY <1>1 DEF AppendEntry
  <2> QED  BY <2>1, <2>2, <2>3
<1>2. ASSUME NEW c \in Tails, NEW e \in TailRecord, tail' = [tail EXCEPT ![c] = e], UNCHANGED log, TailSound(c)'
      PROVE  TailInv'
  <2>1. tail' \in [Tails -> TailRecord]  BY <1>2
  <2>2. \A d \in Tails : d # c => TailSound(d)'  BY <1>2 DEF TailSound
  <2> QED  BY <1>2, <2>1, <2>2
<1>3. ASSUME NEW c \in Tails, Replay(c) PROVE TailInv'
  <2> DEFINE s == [i \in 1..log |-> i]
             e == [tail[c] EXCEPT !.at = "replayed", !.shows = s]
  <2>1. s \in Seq(Nat) /\ Len(s) = log  OBVIOUS
  <2>2. s = [i \in 1..Len(s) |-> i]  BY <2>1
  <2>3. tail' = [tail EXCEPT ![c] = e] /\ tail[c].at = "away" /\ UNCHANGED log  BY <1>3 DEF Replay
  <2> HIDE DEF s
  <2>4. e \in TailRecord /\ e.at = "replayed" /\ e.shows = s /\ e.chan = tail[c].chan /\ e.skipped = tail[c].skipped
        BY <1>0, <2>1 DEF TailRecord
  <2> HIDE DEF e
  <2>5. tail'[c] = e  BY <2>3
  <2>6. tail[c].chan = <<>> /\ tail[c].skipped \subseteq 1..log  BY <2>3 DEF TailSound
  <2>7. Len(s) <= log  BY <2>1
  <2>8. TailSound(c)'  BY <2>2, <2>3, <2>4, <2>5, <2>6, <2>7 DEF TailSound
  <2> QED  BY <1>2, <2>3, <2>4, <2>8
<1>4. ASSUME NEW c \in Tails, Subscribe(c) PROVE TailInv'
  <2> DEFINE miss == (Len(tail[c].shows) + 1)..log
             e == [tail[c] EXCEPT !.at = "live", !.skipped = miss]
  <2>1. tail' = [tail EXCEPT ![c] = e] /\ tail[c].at = "replayed" /\ UNCHANGED log  BY <1>4 DEF Subscribe
  <2>2. Len(tail[c].shows) \in Nat  BY <1>0, LenProperties
  <2>3. miss \subseteq 1..log /\ miss \subseteq Nat  BY <2>2
  <2>4. InOrder(tail[c].shows, log, miss)  BY <1>0, <2>1, ReplayInOrder DEF TailSound
  <2>5. tail[c].chan = <<>> /\ tail[c].shows \o <<>> = tail[c].shows
        BY <1>0, <2>1, ConcatEmptySeq DEF TailSound
  <2> HIDE DEF miss
  <2>6. e \in TailRecord /\ e.at = "live" /\ e.shows = tail[c].shows /\ e.chan = tail[c].chan /\ e.skipped = miss
        BY <1>0, <2>3 DEF TailRecord
  <2> HIDE DEF e
  <2>7. tail'[c] = e  BY <2>1
  <2>8. e.shows \o e.chan = tail[c].shows  BY <2>5, <2>6
  <2>9. TailSound(c)'  BY <2>1, <2>3, <2>4, <2>6, <2>7, <2>8 DEF TailSound
  <2> QED  BY <1>2, <2>1, <2>6, <2>9
<1>5. ASSUME NEW c \in Tails, Receive(c) PROVE TailInv'
  <2> DEFINE s == Append(tail[c].shows, Head(tail[c].chan))
             q == Tail(tail[c].chan)
             e == [tail[c] EXCEPT !.shows = s, !.chan = q]
  <2>1. tail' = [tail EXCEPT ![c] = e] /\ tail[c].at = "live" /\ tail[c].chan # <<>> /\ UNCHANGED log
        BY <1>5 DEF Receive
  <2>2. s \in Seq(Nat) /\ q \in Seq(Nat)  BY <1>0, <2>1, HeadTailProperties, AppendProperties
  <2>3. s \o q = tail[c].shows \o tail[c].chan  BY <1>0, <2>1, ChannelIsPipe
  <2> HIDE DEF s, q
  <2>4. e \in TailRecord /\ e.at = tail[c].at /\ e.shows = s /\ e.chan = q /\ e.skipped = tail[c].skipped
        BY <1>0, <2>2 DEF TailRecord
  <2> HIDE DEF e
  <2>5. tail'[c] = e  BY <2>1
  <2>6. TailSound(c)'  BY <2>1, <2>3, <2>4, <2>5 DEF TailSound
  <2> QED  BY <1>2, <2>1, <2>4, <2>6
<1>6. ASSUME NEW c \in Tails, HangUp(c) PROVE TailInv'
  <2> DEFINE e == [tail[c] EXCEPT !.at = "gone", !.chan = <<>>]
  <2>1. tail' = [tail EXCEPT ![c] = e] /\ UNCHANGED log  BY <1>6 DEF HangUp
  <2>2. <<>> \in Seq(Nat)  BY EmptySeq
  <2>3. e \in TailRecord /\ e.at = "gone" /\ e.skipped = tail[c].skipped  BY <1>0, <2>2 DEF TailRecord
  <2> HIDE DEF e
  <2>4. tail'[c] = e  BY <2>1
  <2>5. TailSound(c)'  BY <2>1, <2>3, <2>4 DEF TailSound
  <2> QED  BY <1>2, <2>1, <2>3, <2>5
<1>7. CASE UNCHANGED tailVars  BY <1>7 DEF tailVars, TailSound
<1> QED  BY <1>1, <1>3, <1>4, <1>5, <1>6, <1>7 DEF TailNext

\* Neither stream of sse.go loses what the code could have told its client:
\* for any runs, clients, channel sizes and logs, a shown row is current, on
\* its way or was passed over, and a tail shows the log in order, without the
\* entries skipped before it subscribed and while its channel was full.
THEOREM EventsFaithful == EventsSpec => []StreamsFaithful
<1>1. ListInv => ListCatchesUp
  <2>1. ASSUME ListInv, client.at = "live", NEW r \in Listed PROVE Told(r)
        BY <2>1 DEF ListInv, SnapshotSoFar
  <2> QED  BY <2>1 DEF ListCatchesUp, Told, Holds
<1>2. TailInv => TailFaithful  BY DEF TailInv, TailSound, InOrder, TailFaithful
<1>3. EventsInit => ListInv /\ TailInv  BY ListInvInit, TailInvInit
<1>4. ListInv /\ TailInv /\ [EventsNext]_eventVars => ListInv' /\ TailInv'
  <2> SUFFICES ASSUME ListInv, TailInv, [EventsNext]_eventVars PROVE ListInv' /\ TailInv'
      OBVIOUS
  <2>1. ListNext \/ UNCHANGED listVars  BY DEF EventsNext, TailNext, eventVars
  <2>2. TailNext \/ UNCHANGED tailVars  BY DEF EventsNext, ListNext, eventVars
  <2> QED  BY <2>1, <2>2, ListInvStep, TailInvStep
<1>5. ListInv /\ TailInv => StreamsFaithful  BY <1>1, <1>2 DEF StreamsFaithful
<1> QED  BY <1>3, <1>4, <1>5, PTL DEF EventsSpec

\* No channel holds more than it has room for, and the log is as long as its
\* bound allows.
ChannelsHold ==
    /\ Len(client.chan) <= Buffer /\ log <= Entries
    /\ \A c \in Tails : Len(tail[c].chan) <= Buffer

\* A sender looks whether there is room, and a receiver only makes some.
LEMMA ChannelsHoldStep ==
  ASSUME ListInv, TailInv, ChannelsHold, [EventsNext]_eventVars
  PROVE  ChannelsHold'
<1>1. Buffer \in Nat \ {0} /\ Entries \in Nat /\ log \in Nat  BY EventsAssumption DEF TailInv
<1>2. client.chan \in Seq(Listed) /\ Len(client.chan) \in Nat
      BY LenProperties DEF ListInv, ListTypes, ClientRecord
<1>3. ASSUME NEW c \in Tails PROVE tail[c] \in TailRecord /\ tail[c].chan \in Seq(Nat) /\ Len(tail[c].chan) \in Nat
      BY LenProperties DEF TailInv, TailRecord
<1>4. ListNext \/ UNCHANGED listVars => Len(client'.chan) <= Buffer
  <2>1. ASSUME NEW r \in Listed, Broadcast(r) PROVE Len(client'.chan) <= Buffer
    <3>1. CASE client' = client  BY <3>1 DEF ChannelsHold
    <3>2. CASE Len(client.chan) < Buffer /\ client' = [client EXCEPT !.chan = Append(@, r)]
      <4> DEFINE q == Append(client.chan, r)
      <4>1. Len(q) = Len(client.chan) + 1  BY <1>2, AppendProperties
      <4> HIDE DEF q
      <4>2. client'.chan = q
        <5>1. client' = [client EXCEPT !.chan = q]  BY <3>2 DEF q
        <5>2. client \in ClientRecord  BY DEF ListInv, ListTypes
        <5> QED  BY <5>1, <5>2 DEF ClientRecord
      <4> QED  BY <1>1, <1>2, <3>2, <4>1, <4>2
    <3> QED  BY <2>1, <3>1, <3>2 DEF Broadcast
  <2>2. CASE client' = client  BY <2>2 DEF ChannelsHold
  <2>3. CASE client'.chan = client.chan  BY <2>3 DEF ChannelsHold
  <2>4. ASSUME NEW r \in Listed, Summarise(r) PROVE client'.chan = client.chan
        BY <2>4 DEF Summarise, ListInv, ListTypes, ClientRecord
  <2>5. SubscribeChanges \/ ListRuns \/ SnapshotSent => client'.chan = client.chan
        BY DEF SubscribeChanges, ListRuns, SnapshotSent, ListInv, ListTypes, ClientRecord
  <2>6. CASE Delta
    <3> DEFINE q == Tail(client.chan)
    <3>1. client.chan # <<>>  BY <2>6 DEF Delta
    <3>2. Len(q) = Len(client.chan) - 1  BY <1>2, <3>1, HeadTailProperties
    <3> HIDE DEF q
    <3>3. client'.chan = q
      <4>1. client \in ClientRecord  BY DEF ListInv, ListTypes
      <4> QED  BY <2>6, <4>1 DEF Delta, ClientRecord, q
    <3> QED  BY <1>1, <1>2, <3>2, <3>3 DEF ChannelsHold
  <2>7. ASSUME NEW r \in Listed,
               AddToMap(r) \/ OnChange(r) \/ RowWritten(r) \/ EvictEnded(r)
                 \/ \E ends, tells \in BOOLEAN : Touch(r, ends, tells)
        PROVE  client' = client
        BY <2>7 DEF AddToMap, OnChange, RowWritten, EvictEnded, Touch
  <2>8. ASSUME NEW r \in Listed, AddTells(r) \/ Notify(r) PROVE client' = client \/ Broadcast(r)
        BY <2>8 DEF AddTells, Notify
  <2>9. UNCHANGED listVars => client' = client  BY DEF listVars
  <2> QED  BY <2>1, <2>2, <2>3, <2>4, <2>5, <2>6, <2>7, <2>8, <2>9 DEF ListNext
<1>5. TailNext \/ UNCHANGED tailVars => log' <= Entries /\ \A c \in Tails : Len(tail'[c].chan) <= Buffer
  <2>1. ASSUME NEW c \in Tails, NEW e, tail' = [tail EXCEPT ![c] = e], Len(e.chan) <= Buffer, log' = log
        PROVE  log' <= Entries /\ \A d \in Tails : Len(tail'[d].chan) <= Buffer
        BY <2>1 DEF ChannelsHold, TailInv
  <2>2. CASE AppendEntry
    <3>1. log' <= Entries  BY <1>1, <2>2 DEF AppendEntry
    <3>2. ASSUME NEW c \in Tails PROVE Len(tail'[c].chan) <= Buffer
      <4> DEFINE q == Append(tail[c].chan, log')
      <4>1. log' \in Nat  BY <1>1, <2>2 DEF AppendEntry
      <4>2. Len(q) = Len(tail[c].chan) + 1  BY <1>3, <4>1, AppendProperties
      <4> HIDE DEF q
      <4>3. tail'[c].chan = tail[c].chan \/ (Len(tail[c].chan) < Buffer /\ tail'[c].chan = q)
            BY <1>3, <2>2 DEF AppendEntry, TailRecord, q
      <4> QED  BY <1>1, <1>3, <4>2, <4>3 DEF ChannelsHold
    <3> QED  BY <3>1, <3>2
  <2>3. ASSUME NEW c \in Tails, Replay(c) \/ Subscribe(c)
        PROVE  log' <= Entries /\ \A d \in Tails : Len(tail'[d].chan) <= Buffer
    <3>1. \E e : tail' = [tail EXCEPT ![c] = e] /\ e.chan = tail[c].chan
      <4>1. CASE Replay(c)
        <5> DEFINE e == [tail[c] EXCEPT !.at = "replayed", !.shows = [i \in 1..log |-> i]]
        <5>1. tail' = [tail EXCEPT ![c] = e]  BY <4>1 DEF Replay
        <5>2. e.chan = tail[c].chan  BY <1>3 DEF TailRecord
        <5> QED  BY <5>1, <5>2
      <4>2. CASE Subscribe(c)
        <5> DEFINE e == [tail[c] EXCEPT !.at = "live", !.skipped = (Len(tail[c].shows) + 1)..log]
        <5>1. tail' = [tail EXCEPT ![c] = e]  BY <4>2 DEF Subscribe
        <5>2. e.chan = tail[c].chan  BY <1>3 DEF TailRecord
        <5> QED  BY <5>1, <5>2
      <4> QED  BY <2>3, <4>1, <4>2
    <3>2. log' = log  BY <2>3 DEF Replay, Subscribe
    <3> QED  BY <2>1, <3>1, <3>2 DEF ChannelsHold
  <2>4. ASSUME NEW c \in Tails, Receive(c)
        PROVE  log' <= Entries /\ \A d \in Tails : Len(tail'[d].chan) <= Buffer
    <3> DEFINE q == Tail(tail[c].chan)
               e == [tail[c] EXCEPT !.shows = Append(@, Head(tail[c].chan)), !.chan = q]
    <3>1. tail[c].chan # <<>>  BY <2>4 DEF Receive
    <3>2. Len(q) = Len(tail[c].chan) - 1  BY <1>3, <3>1, HeadTailProperties
    <3>3. tail' = [tail EXCEPT ![c] = e] /\ log' = log  BY <2>4 DEF Receive
    <3> HIDE DEF q
    <3>4. e.chan = q  BY <1>3 DEF TailRecord
    <3>5. Len(e.chan) <= Buffer  BY <1>1, <1>3, <3>2, <3>4 DEF ChannelsHold
    <3> HIDE DEF e
    <3> QED  BY <2>1, <3>3, <3>5
  <2>5. ASSUME NEW c \in Tails, HangUp(c)
        PROVE  log' <= Entries /\ \A d \in Tails : Len(tail'[d].chan) <= Buffer
    <3> DEFINE e == [tail[c] EXCEPT !.at = "gone", !.chan = <<>>]
    <3>1. tail' = [tail EXCEPT ![c] = e] /\ log' = log  BY <2>5 DEF HangUp
    <3>2. e.chan = <<>>  BY <1>3 DEF TailRecord
    <3>3. Len(e.chan) <= Buffer  BY <1>1, <3>2, EmptySeq
    <3> HIDE DEF e
    <3> QED  BY <2>1, <3>1, <3>3
  <2>6. CASE UNCHANGED tailVars  BY <2>6 DEF tailVars, ChannelsHold
  <2> QED  BY <2>2, <2>3, <2>4, <2>5, <2>6 DEF TailNext
<1>6. (ListNext \/ UNCHANGED listVars) /\ (TailNext \/ UNCHANGED tailVars)
      BY DEF EventsNext, ListNext, TailNext, eventVars
<1> QED  BY <1>4, <1>5, <1>6 DEF ChannelsHold

\* Both streams are well typed, and their channels within bounds.
THEOREM EventsTypes == EventsSpec => []EventsTypeOK
<1>1. EventsInit => ListInv /\ TailInv /\ ChannelsHold
  <2>1. ASSUME EventsInit PROVE ChannelsHold
        BY <2>1, EmptySeq, EventsAssumption DEF EventsInit, ChannelsHold
  <2> QED  BY <2>1, ListInvInit, TailInvInit
<1>2. ListInv /\ TailInv /\ ChannelsHold /\ [EventsNext]_eventVars => (ListInv /\ TailInv /\ ChannelsHold)'
  <2> SUFFICES ASSUME ListInv, TailInv, ChannelsHold, [EventsNext]_eventVars
               PROVE  ListInv' /\ TailInv' /\ ChannelsHold'
      OBVIOUS
  <2>1. ListNext \/ UNCHANGED listVars  BY DEF EventsNext, TailNext, eventVars
  <2>2. TailNext \/ UNCHANGED tailVars  BY DEF EventsNext, ListNext, eventVars
  <2> QED  BY <2>1, <2>2, ListInvStep, TailInvStep, ChannelsHoldStep
<1>3. ListInv /\ TailInv /\ ChannelsHold => EventsTypeOK
      BY EventsAssumption DEF ListInv, ListTypes, TailInv, ChannelsHold, EventsTypeOK, ClientRecord, Row
<1> QED  BY <1>1, <1>2, <1>3, PTL DEF EventsSpec

-----------------------------------------------------------------------------
(* StateDir.                                                               *)

StateSpec == StateInit /\ [][StateNext]_stateVars

\* Run r still has its workspace and every file it refers to.
StillWhole(r) ==
    /\ r \in worked => r \in dirs
    /\ \A h \in holds[r] : h[1] \in files

\* A run is whole from its start until its row goes, but for those a start-up
\* swept past: that is what its end hands on to the row. A run refers to
\* nothing before it starts.
StateInv ==
    /\ StateTypeOK
    /\ begun \in Nat /\ Running \cup table \subseteq 1..begun
    /\ \A p \in Processes : stage[p] # "up" => \A r \in Running : owner[r] # p
    /\ holds \in [Sessions -> SUBSET (Digests \X {"output", "capture"})]
    /\ \A r \in Sessions \ (1..begun) : holds[r] = {}
    /\ \A r \in (Running \cup table) \ exposed : StillWhole(r)

\* A fresh directory.
LEMMA StateInvInit == StateInit => StateInv
BY DEF StateInit, StateInv, StateTypeOK, Stages, Running, StillWhole

\* Starting a process and reading or pruning rows touches no run's files.
LEMMA RowsKeep ==
  ASSUME StateInv, NEW p \in Processes, StartProcess(p) \/ LoadRows(p) \/ PruneRows(p)
  PROVE  StateInv'
<1>1. Newest(table) \subseteq table  BY DEF Newest
<1>2. /\ owner' = owner /\ holds' = holds /\ begun' = begun /\ worked' = worked
      /\ dirs' = dirs /\ files' = files /\ exposed' = exposed /\ table' \subseteq table
      BY <1>1 DEF StartProcess, LoadRows, PruneRows, runsVars, diskVars
<1>3. /\ stage' \in [Processes -> Stages] /\ known' \in [Processes -> SUBSET Sessions]
      /\ \A q \in Processes : q # p => stage'[q] = stage[q] /\ known'[q] = known[q]
      /\ stage[p] # "up"
      BY <1>1 DEF StateInv, StateTypeOK, Stages, StartProcess, LoadRows, PruneRows
<1>4. \A r \in Running : owner[r] \in Processes /\ owner[r] # p
      BY <1>3, StateDirAssumption DEF StateInv, StateTypeOK, Running
<1>5. Running' = Running  BY <1>2 DEF Running
<1>6. StateTypeOK'
      BY <1>2, <1>3, <1>4, <1>5 DEF StateInv, StateTypeOK
<1>7. \A q \in Processes : stage'[q] # "up" => \A r \in Running' : owner'[r] # q
      BY <1>2, <1>3, <1>4, <1>5 DEF StateInv
<1>8. \A r \in (Running' \cup table') \ exposed' : StillWhole(r)'
      BY <1>2, <1>5 DEF StateInv, StillWhole
<1> QED  BY <1>2, <1>5, <1>6, <1>7, <1>8 DEF StateInv

\* The two clean-ups keep what the runs they know of refer to; the others are
\* swept past.
LEMMA CleanUpsKeep ==
  ASSUME StateInv, NEW p \in Processes, PruneWorkDirs(p) \/ PruneBlobs(p)
  PROVE  StateInv'
<1>1. /\ owner' = owner /\ holds' = holds /\ begun' = begun /\ worked' = worked /\ table' = table
      /\ known' = known /\ exposed' = exposed \cup SweptPast(p) /\ dirs' \subseteq dirs /\ files' \subseteq files
      BY DEF PruneWorkDirs, PruneBlobs, runsVars
<1>2. /\ stage' \in [Processes -> Stages] /\ stage[p] # "up"
      /\ \A q \in Processes : q # p => stage'[q] = stage[q]
      BY DEF StateInv, StateTypeOK, Stages, PruneWorkDirs, PruneBlobs
<1>3. Running' = Running  BY <1>1 DEF Running
<1>4. StateTypeOK'  BY <1>1, <1>2, <1>3 DEF StateInv, StateTypeOK
<1>5. \A q \in Processes : stage'[q] # "up" => \A r \in Running' : owner'[r] # q
      BY <1>1, <1>2, <1>3 DEF StateInv
<1>6. ASSUME NEW r \in (Running' \cup table') \ exposed' PROVE StillWhole(r)'
  <2>1. r \in known[p] /\ StillWhole(r) /\ r \in Sessions
        BY <1>1, <1>3 DEF StateInv, StateTypeOK, SweptPast, Running
  <2>2. r \in dirs => r \in dirs'  BY <2>1 DEF PruneWorkDirs, PruneBlobs
  <2>3. \A h \in holds[r] : h[1] \in files => h[1] \in files'
        BY <2>1 DEF PruneWorkDirs, PruneBlobs, BlobRefs
  <2> QED  BY <1>1, <2>1, <2>2, <2>3 DEF StillWhole
<1> QED  BY <1>1, <1>3, <1>4, <1>5, <1>6 DEF StateInv

\* A bot that starts makes its run's workspace.
LEMMA BotsKeep ==
  ASSUME StateInv, NEW r \in Sessions, StartBot(r)
  PROVE  StateInv'
<1>1. /\ UNCHANGED <<stage, known, owner, table, files, holds, begun, exposed>> /\ r \in Running
      /\ worked' = worked \cup {r} /\ dirs' = dirs \cup {r}
      BY DEF StartBot
<1>2. Running' = Running  BY <1>1 DEF Running
<1> QED  BY <1>1, <1>2 DEF StateInv, StateTypeOK, StillWhole

\* A file stored is there before the run refers to it.
LEMMA StoreKeeps ==
  ASSUME StateInv, NEW r \in Sessions, NEW d \in Digests, NEW from \in {"output", "capture"}, Store(r, d, from)
  PROVE  StateInv'
<1>1. /\ UNCHANGED <<stage, known, owner, table, dirs, begun, worked, exposed>> /\ r \in Running
      /\ files' = files \cup {d} /\ holds' = [holds EXCEPT ![r] = @ \cup {<<d, from>>}]
      BY DEF Store
<1>2. Running' = Running  BY <1>1 DEF Running
<1>3. StateTypeOK'  BY <1>1, <1>2 DEF StateInv, StateTypeOK
<1>4. /\ holds' \in [Sessions -> SUBSET (Digests \X {"output", "capture"})]
      /\ holds'[r] = holds[r] \cup {<<d, from>>} /\ \A q \in Sessions : q # r => holds'[q] = holds[q]
      BY <1>1 DEF StateInv
<1>5. ASSUME NEW q \in (Running \cup table) \ exposed PROVE StillWhole(q)'
  <2>1. q \in Sessions /\ StillWhole(q)  BY DEF StateInv, StateTypeOK, Running
  <2>2. \A h \in holds'[q] : h[1] \in files'  BY <1>1, <1>4, <2>1 DEF StillWhole
  <2> QED  BY <1>1, <2>1, <2>2 DEF StillWhole
<1>6. r \in 1..begun  BY <1>1 DEF StateInv
<1>7. \A q \in Sessions \ (1..begun') : holds'[q] = {}
      BY <1>1, <1>4, <1>6 DEF StateInv
<1> QED  BY <1>1, <1>2, <1>3, <1>4, <1>5, <1>7 DEF StateInv

\* A run starts with nothing, ends into its row, or dies with its process.
LEMMA SessionsKeep ==
  ASSUME StateInv,
         (\E p \in Processes : StartSession(p) \/ Exit(p)) \/ (\E r \in Sessions : EndSession(r))
  PROVE  StateInv'
<1> USE DEF StateInv
<1>1. ASSUME NEW p \in Processes, StartSession(p) PROVE StateInv'
  <2> DEFINE r == begun + 1
  <2>1. /\ r \in Sessions /\ r \in Nat /\ begun' = r /\ r \notin 1..begun /\ 1..begun \subseteq 1..r /\ r \in 1..r
        BY <1>1 DEF StartSession
  <2>2. UNCHANGED <<stage, table, dirs, files, holds, worked, exposed>> /\ stage[p] = "up"
        BY <1>1 DEF StartSession, diskVars
  <2>3. /\ owner' = [owner EXCEPT ![r] = p] /\ known' = [known EXCEPT ![p] = @ \cup {r}]
        BY <1>1 DEF StartSession
  <2> HIDE DEF r
  <2>4. owner' \in [Sessions -> Processes \cup {"none"}] /\ known' \in [Processes -> SUBSET Sessions]
        BY <2>1, <2>3 DEF StateTypeOK
  <2>5. owner'[r] = p /\ \A q \in Sessions : q # r => owner'[q] = owner[q]
        BY <2>1, <2>3 DEF StateTypeOK
  <2>6. Running' = Running \cup {r}
        BY <2>1, <2>5, StateDirAssumption DEF Running
  <2>7. r \in known'[p] /\ \A q \in Processes : known[q] \subseteq known'[q]
        BY <2>3 DEF StateTypeOK
  <2>8. \A q \in Running' : q \in known'[owner'[q]] /\ q \notin table'
    <3>1. r \in known'[owner'[r]] /\ r \notin table  BY <2>1, <2>5, <2>7
    <3>2. ASSUME NEW q \in Running, q # r PROVE q \in known'[owner'[q]] /\ q \notin table
      <4>1. owner'[q] = owner[q] /\ owner[q] \in Processes  BY <2>5, <3>2 DEF Running, StateTypeOK
      <4> QED  BY <2>7, <3>2, <4>1 DEF StateTypeOK
    <3> QED  BY <2>2, <2>6, <3>1, <3>2
  <2>9. StateTypeOK'  BY <2>1, <2>2, <2>4, <2>8 DEF StateTypeOK
  <2>10. \A q \in Processes : stage'[q] # "up" => \A s \in Running' : owner'[s] # q
         BY <2>2, <2>5, <2>6 DEF Running
  <2>11. \A q \in Sessions \ (1..begun') : holds'[q] = {}
         BY <2>1, <2>2
  <2>12. holds[r] = {} /\ r \notin worked
         BY <2>1 DEF r, StateTypeOK
  <2>13. \A q \in (Running' \cup table') \ exposed' : StillWhole(q)'
         BY <2>2, <2>6, <2>12 DEF StillWhole
  <2> QED  BY <2>1, <2>2, <2>6, <2>9, <2>10, <2>11, <2>13
<1>2. ASSUME NEW p \in Processes, Exit(p) PROVE StateInv'
  <2>1. UNCHANGED <<table, dirs, files, holds, begun, worked, exposed>>  BY <1>2 DEF Exit, diskVars
  <2>2. /\ stage' \in [Processes -> Stages] /\ known' \in [Processes -> SUBSET Sessions]
        /\ \A q \in Processes : q # p => stage'[q] = stage[q] /\ known'[q] = known[q]
        BY <1>2 DEF Exit, StateTypeOK, Stages
  <2>3. /\ owner' \in [Sessions -> Processes \cup {"none"}]
        /\ \A r \in Sessions : owner'[r] = IF owner[r] = p THEN "none" ELSE owner[r]
        BY <1>2 DEF Exit, StateTypeOK
  <2>4. Running' \subseteq Running /\ \A r \in Running' : owner'[r] = owner[r] /\ owner'[r] # p
        BY <2>3, StateDirAssumption DEF Running
  <2>5. \A r \in Running' : owner'[r] \in Processes  BY <2>3 DEF Running
  <2>6. StateTypeOK'  BY <2>1, <2>2, <2>3, <2>4, <2>5 DEF StateTypeOK
  <2>7. \A q \in Processes : stage'[q] # "up" => \A r \in Running' : owner'[r] # q
        BY <2>2, <2>4
  <2>8. \A r \in (Running' \cup table') \ exposed' : StillWhole(r)'
        BY <2>1, <2>4 DEF StillWhole
  <2> QED  BY <2>1, <2>4, <2>6, <2>7, <2>8
<1>3. ASSUME NEW r \in Sessions, EndSession(r) PROVE StateInv'
  <2>1. /\ UNCHANGED <<stage, known, dirs, files, holds, begun, worked, exposed>>
        /\ r \in Running /\ table' = table \cup {r} /\ owner' = [owner EXCEPT ![r] = "none"]
        BY <1>3 DEF EndSession
  <2>2. /\ owner' \in [Sessions -> Processes \cup {"none"}] /\ owner'[r] = "none"
        /\ \A q \in Sessions : q # r => owner'[q] = owner[q]
        BY <2>1 DEF StateTypeOK
  <2>3. Running' = Running \ {r}  BY <2>1, <2>2 DEF Running
  <2>4. \A q \in Running' : q \in Running /\ q # r /\ owner'[q] = owner[q]
        BY <2>2, <2>3 DEF Running
  <2>5. StateTypeOK'  BY <2>1, <2>2, <2>4 DEF StateTypeOK
  <2>6. \A q \in Processes : stage'[q] # "up" => \A s \in Running' : owner'[s] # q
        BY <2>1, <2>4
  <2>7. \A q \in (Running' \cup table') \ exposed' : StillWhole(q)'
        BY <2>1, <2>3 DEF StillWhole
  <2> QED  BY <2>1, <2>3, <2>5, <2>6, <2>7
<1> QED  BY <1>1, <1>2, <1>3

\* No step of a process or of a run takes away what is kept.
LEMMA StateInvStep == StateInv /\ [StateNext]_stateVars => StateInv'
<1> SUFFICES ASSUME StateInv, [StateNext]_stateVars PROVE StateInv'  OBVIOUS
<1>1. CASE UNCHANGED stateVars
      BY <1>1 DEF stateVars, runsVars, diskVars, StateInv, StateTypeOK, Running, StillWhole
<1> QED  BY <1>1, RowsKeep, CleanUpsKeep, BotsKeep, StoreKeeps, SessionsKeep DEF StateNext

\* A run whose row is kept has its workspace and its files, whichever processes
\* start, clean up and exit in between: persist.go's promise, of every number
\* of processes, runs and rows kept, but for runs some start-up swept past.
THEOREM StateKeepsRuns == StateSpec => []KeptRunsWhole
<1>1. StateInv => KeptRunsWhole  BY DEF StateInv, StillWhole, KeptRunsWhole
<1> QED  BY <1>1, StateInvInit, StateInvStep, PTL DEF StateSpec

\* The types of StateDir: a run that is going on is owned by a process, and
\* only by one that is up.
THEOREM StateTypes == StateSpec => []StateTypeOK
<1>1. StateInv => StateTypeOK  BY DEF StateInv
<1> QED  BY <1>1, StateInvInit, StateInvStep, PTL DEF StateSpec

-----------------------------------------------------------------------------
(* Watch, with the steps of bots/drive-watch.                              *)

WatchSpec == WatchInit /\ [][WatchNext]_watchVars

Found == Ids \cup {Nothing}
PollRecord == [of : Watchers \cup {"none"}, pc : (-1)..7, left : Nat, listed : Found, seen : Found]
Runs1 == 1..Polls
Mine(r, w) == Polling(r) /\ poll[r].of = w

\* A run in progress is some swarm's, and has listed a file of that swarm.
PollSound(p) ==
    p.pc > 0 =>
        /\ p.of \in Watchers
        /\ p.pc >= 2 => p.listed[1] = p.of /\ p.listed[2] \in 1..landed[p.of]

WatchTypes ==
    /\ landed \in [Watchers -> 1..Arrivals] /\ mark \in Found
    /\ poll \in [Runs1 -> PollRecord] /\ \A r \in Runs1 : PollSound(poll[r])
    /\ handed \in [Ids -> Nat] /\ upset \in [Watchers -> SUBSET {"memory", "overlap", "shared"}]

\* How a run at step p.pc stands to what is remembered: what it has listed is
\* no older; past stop.if it is newer; past memory.put it is what is
\* remembered, and not handed on yet.
Abreast(p) ==
    /\ p.pc >= 2 => mark[2] <= p.listed[2]
    /\ p.pc = 3 => p.seen = mark
    /\ p.pc = 4 => mark[2] < p.listed[2]
    /\ p.pc >= 5 => mark = p.listed /\ handed[p.listed] = 0

\* While nothing has disturbed swarm w's remembering, its runs come one at a
\* time, the mark is its own, and nothing newer than the mark was handed on.
Undisturbed(w) ==
    /\ \A q, r \in Runs1 : Mine(q, w) /\ Mine(r, w) => q = r
    /\ mark # Nothing => mark[1] = w /\ mark[2] <= landed[w]
    /\ \A n \in 1..Arrivals :
          handed[<<w, n>>] <= 1 /\ (handed[<<w, n>>] # 0 => n <= mark[2])
    /\ \A r \in Runs1 : Mine(r, w) => Abreast(poll[r])

WatchInv == WatchTypes /\ \A w \in Watchers : upset[w] = {} => Undisturbed(w)

\* The number of a file, and of what is remembered.
LEMMA FileNumbers ==
  /\ Arrivals \in Nat \ {0}
  /\ \A f \in Found : f[2] \in Nat
  /\ Nothing[2] = 0 /\ Nothing \in Found
  /\ \A f \in Ids : f = <<f[1], f[2]>> /\ f[1] \in Watchers /\ f[2] \in 0..Arrivals /\ f # Nothing
  /\ \A w \in Watchers, n \in 0..Arrivals : <<w, n>> \in Ids
BY WatchAssumption DEF Found, Ids, Nothing

\* Which step a run is at.
LEMMA StepsOfDriveWatch ==
  ASSUME Program = DriveWatch, WatchTypes, NEW r \in Runs1
  PROVE  /\ IsAt(r, "list") => poll[r].pc = 1
         /\ IsAt(r, "get") => poll[r].pc = 2
         /\ IsAt(r, "stop") => poll[r].pc = 3
         /\ IsAt(r, "put") => poll[r].pc = 4
         /\ IsAt(r, "pick") => poll[r].pc = 5
         /\ IsAt(r, "fetch") => poll[r].pc = 6
         /\ Len(Program) = 6
<1>1. poll[r].pc \in (-1)..7  BY DEF WatchTypes, PollRecord
<1>2. Program = <<"list", "get", "stop", "put", "pick", "fetch">>  BY DEF DriveWatch
<1>3. Len(Program) = 6  BY <1>2
<1>4. /\ Program[1] = "list" /\ Program[2] = "get" /\ Program[3] = "stop" /\ Program[4] = "put"
      /\ Program[5] = "pick" /\ Program[6] = "fetch"
      BY <1>2
<1>5. poll[r].pc > 0 /\ poll[r].pc <= 6 => poll[r].pc \in {1, 2, 3, 4, 5, 6}  BY <1>1
<1> QED  BY <1>1, <1>3, <1>4, <1>5 DEF IsAt, Polling

\* One file in each folder, and nothing remembered.
LEMMA WatchInvInit == WatchInit => WatchInv
<1> SUFFICES ASSUME WatchInit PROVE WatchInv  OBVIOUS
<1>1. Unfired \in PollRecord /\ Unfired.pc = 0
      BY FileNumbers DEF Unfired, PollRecord
<1>2. \A r \in Runs1 : poll[r] = Unfired  BY DEF WatchInit, Runs1
<1>3. poll \in [Runs1 -> PollRecord]  BY <1>1 DEF WatchInit, Runs1
<1>4. WatchTypes
  <2>1. landed \in [Watchers -> 1..Arrivals]
    <3>1. 1 \in 1..Arrivals  BY FileNumbers
    <3> QED  BY <3>1 DEF WatchInit
  <2>2. \A r \in Runs1 : PollSound(poll[r])  BY <1>1, <1>2 DEF PollSound
  <2>3. mark \in Found /\ handed \in [Ids -> Nat]  BY FileNumbers DEF WatchInit
  <2>4. upset \in [Watchers -> SUBSET {"memory", "overlap", "shared"}]  BY DEF WatchInit
  <2> QED  BY <1>3, <2>1, <2>2, <2>3, <2>4 DEF WatchTypes
<1>5. \A r \in Runs1 : ~Polling(r)  BY <1>1, <1>2 DEF Polling
<1>6. \A w \in Watchers : Undisturbed(w)
      BY <1>5, FileNumbers DEF WatchInit, Undisturbed, Mine
<1> QED  BY <1>4, <1>6 DEF WatchInv

\* A step that leaves alone what swarm w knows.
LEMMA OthersUndisturbed ==
  ASSUME WatchTypes, WatchTypes', NEW w \in Watchers, Undisturbed(w),
         mark' = mark, landed[w] <= landed'[w],
         \A n \in 0..Arrivals : handed'[<<w, n>>] = handed[<<w, n>>],
         \A r \in Runs1 : Mine(r, w)' => Mine(r, w) /\ poll'[r] = poll[r]
  PROVE  Undisturbed(w)'
<1>1. \A r \in Runs1 : Mine(r, w)' => Abreast(poll[r])'
  <2> SUFFICES ASSUME NEW r \in Runs1, Mine(r, w)' PROVE Abreast(poll[r])'  OBVIOUS
  <2>1. Mine(r, w) /\ poll'[r] = poll[r] /\ Abreast(poll[r])  BY DEF Undisturbed
  <2>2. poll[r].pc >= 5 => handed'[poll[r].listed] = handed[poll[r].listed]
    <3> SUFFICES ASSUME poll[r].pc >= 5 PROVE handed'[poll[r].listed] = handed[poll[r].listed]
        OBVIOUS
    <3>1. poll[r] \in PollRecord /\ PollSound(poll[r]) /\ poll[r].pc > 0 /\ poll[r].pc >= 2
          BY <2>1 DEF WatchTypes, PollRecord
    <3>2. poll[r].listed[1] = w /\ poll[r].listed[2] # 0
          BY <2>1, <3>1 DEF PollSound, Mine
    <3>3. poll[r].listed \in Ids  BY <3>1, <3>2, FileNumbers DEF PollRecord, Found
    <3> QED  BY <3>2, <3>3, FileNumbers
  <2> QED  BY <2>1, <2>2 DEF Abreast
<1>2. landed[w] \in Nat /\ landed'[w] \in Nat /\ mark[2] \in Nat
      BY FileNumbers DEF WatchTypes
<1> QED  BY <1>1, <1>2 DEF Undisturbed

\* A step of run r that leaves the folders, the mark and what was handed on
\* alone: it is enough to look at where it takes r.
LEMMA RunMoves ==
  ASSUME WatchInv, NEW r \in Runs1, Polling(r), NEW e \in PollRecord, PollSound(e),
         poll' = [poll EXCEPT ![r] = e], UNCHANGED <<landed, mark, handed>>,
         e.pc > 0 => e.of = poll[r].of,
         upset' \in [Watchers -> SUBSET {"memory", "overlap", "shared"}],
         \A w \in Watchers : upset[w] \subseteq upset'[w],
         e.pc > 0 /\ upset'[poll[r].of] = {} /\ Undisturbed(poll[r].of) => Abreast(e)
  PROVE  WatchInv'
<1> USE DEF WatchInv
<1>1. poll'[r] = e /\ \A q \in Runs1 : q # r => poll'[q] = poll[q]  BY DEF WatchTypes
<1>2. \A q \in Runs1 : PollSound(poll[q])'
  <2>1. PollSound(e)'  BY DEF PollSound
  <2>2. \A q \in Runs1 : q # r => PollSound(poll[q])'  BY <1>1 DEF WatchTypes, PollSound
  <2> QED  BY <1>1, <2>1, <2>2 DEF PollSound
<1>3. WatchTypes'  BY <1>2 DEF WatchTypes
<1>4. ASSUME NEW w \in Watchers, upset'[w] = {} PROVE Undisturbed(w)'
  <2>1. Undisturbed(w)  BY <1>4
  <2>2. \A q \in Runs1 : Mine(q, w)' => Mine(q, w)
        BY <1>1 DEF Mine, Polling
  <2>3. CASE poll[r].of # w
    <3>1. \A q \in Runs1 : Mine(q, w)' => poll'[q] = poll[q]
          BY <1>1, <2>3 DEF Mine, Polling
    <3>2. landed[w] <= landed'[w]  BY DEF WatchTypes
    <3> QED  BY <1>3, <2>1, <2>2, <3>1, <3>2, OthersUndisturbed
  <2>4. CASE poll[r].of = w
    <3>1. e.pc > 0 => Abreast(e)  BY <1>4, <2>1, <2>4
    <3>2. ASSUME NEW q \in Runs1, Mine(q, w)' PROVE Abreast(poll[q])'
      <4>1. CASE q = r
        <5>1. Abreast(e)  BY <1>1, <3>1, <3>2, <4>1 DEF Mine, Polling
        <5> QED  BY <1>1, <4>1, <5>1 DEF Abreast
      <4>2. CASE q # r
        <5>1. Abreast(poll[q])  BY <2>1, <2>2, <3>2 DEF Undisturbed
        <5> QED  BY <1>1, <4>2, <5>1 DEF Abreast
      <4> QED  BY <4>1, <4>2
    <3> QED  BY <2>1, <2>2, <3>2 DEF Undisturbed
  <2> QED  BY <2>3, <2>4
<1> QED  BY <1>3, <1>4

\* A run that is over has nothing more to keep to.
LEMMA RunEnds ==
  ASSUME WatchInv, NEW r \in Runs1, Polling(r), Over(r), UNCHANGED <<landed, mark, handed, upset>>
  PROVE  WatchInv'
<1>1. Ended \in PollRecord /\ Ended.pc = -1  BY FileNumbers DEF Ended, Unfired, PollRecord
<1>2. PollSound(Ended)  BY <1>1 DEF PollSound
<1>3. upset' \in [Watchers -> SUBSET {"memory", "overlap", "shared"}]  BY DEF WatchInv, WatchTypes
<1>4. poll' = [poll EXCEPT ![r] = Ended] /\ ~(Ended.pc > 0) /\ upset' = upset  BY <1>1 DEF Over
<1> QED  BY <1>1, <1>2, <1>3, <1>4, RunMoves

\* What a run at a step has listed and seen.
LEMMA Listing ==
  ASSUME WatchTypes, NEW r \in Runs1, Polling(r)
  PROVE  /\ poll[r] \in PollRecord /\ PollSound(poll[r]) /\ poll[r].of \in Watchers
         /\ poll[r].pc >= 2 => /\ poll[r].listed \in Ids /\ poll[r].listed[1] = poll[r].of
                               /\ poll[r].listed[2] \in 1..landed[poll[r].of]
<1>1. poll[r] \in PollRecord /\ PollSound(poll[r]) /\ poll[r].pc > 0  BY DEF WatchTypes, Polling
<1>2. poll[r].of \in Watchers  BY <1>1 DEF PollSound
<1>3. ASSUME poll[r].pc >= 2
      PROVE  /\ poll[r].listed \in Ids /\ poll[r].listed[1] = poll[r].of
             /\ poll[r].listed[2] \in 1..landed[poll[r].of]
  <2>1. poll[r].listed[1] = poll[r].of /\ poll[r].listed[2] \in 1..landed[poll[r].of]
        BY <1>1, <1>3 DEF PollSound
  <2>2. poll[r].listed # Nothing  BY <2>1, FileNumbers
  <2> QED  BY <1>1, <2>1, <2>2 DEF PollRecord, Found
<1> QED  BY <1>1, <1>2, <1>3

\* An attempt begins at the first step, with nothing listed.
LEMMA FirstStep ==
  ASSUME NEW w \in Watchers, NEW n \in Nat
  PROVE  LET e == [Unfired EXCEPT !.of = w, !.pc = 1, !.left = n]
         IN e \in PollRecord /\ e.pc = 1 /\ e.of = w
<1> DEFINE a == [Unfired EXCEPT !.of = w]
           b == [a EXCEPT !.pc = 1]
           e == [b EXCEPT !.left = n]
<1>1. Unfired \in PollRecord  BY FileNumbers DEF Unfired, PollRecord
<1>2. a \in PollRecord /\ a.of = w  BY <1>1 DEF PollRecord
<1> HIDE DEF a
<1>3. b \in PollRecord /\ b.of = w /\ b.pc = 1  BY <1>2 DEF PollRecord
<1> HIDE DEF b
<1>4. e \in PollRecord /\ e.of = w /\ e.pc = 1  BY <1>3 DEF PollRecord
<1>5. [Unfired EXCEPT !.of = w, !.pc = 1, !.left = n] = e  BY DEF a, b
<1> QED  BY <1>4, <1>5

\* The steps that read: list, memory.get, stop.if, pick and fetch, and a call
\* that fails, after which the attempt starts again.
LEMMA ReadingKeeps ==
  ASSUME Program = DriveWatch, WatchInv, NEW r \in Runs1,
         ListNewest(r) \/ MemoryGet(r) \/ StopIf(r) \/ PickOrFetch(r) \/ CallFails(r)
  PROVE  WatchInv'
<1> USE DEF WatchInv
<1>0. /\ Polling(r) /\ poll[r] \in PollRecord /\ PollSound(poll[r]) /\ poll[r].of \in Watchers
      /\ upset' \in [Watchers -> SUBSET {"memory", "overlap", "shared"}]
      /\ \A w \in Watchers : upset[w] \subseteq upset'[w]
      /\ UNCHANGED <<landed, mark, handed>>
  <2>1. Polling(r) /\ UNCHANGED <<landed, mark, handed>>
        BY DEF ListNewest, MemoryGet, StopIf, PickOrFetch, CallFails, IsAt
  <2>2. UNCHANGED upset \/ Upset({poll[r].of}, "memory")
        BY DEF ListNewest, MemoryGet, StopIf, PickOrFetch, CallFails
  <2> QED  BY <2>1, <2>2, Listing DEF Upset, WatchTypes
<1> DEFINE w == poll[r].of
<1>1. CASE ListNewest(r)
  <2> DEFINE f == <<poll[r].of, landed[poll[r].of]>>
             p == [poll[r] EXCEPT !.listed = f]
             e == [p EXCEPT !.pc = @ + 1]
  <2>1. poll[r].pc = 1 /\ poll' = [poll EXCEPT ![r] = e]
        BY <1>1, StepsOfDriveWatch DEF ListNewest, Advance
  <2>2. landed[w] \in 1..Arrivals  BY <1>0 DEF WatchTypes
  <2>3. f \in Found /\ f[1] = w /\ f[2] = landed[w] /\ f[2] \in 1..landed[w]
        BY <1>0, <2>2, FileNumbers DEF Found
  <2> HIDE DEF f
  <2>7. p \in PollRecord /\ p.pc = 1 /\ p.of = w /\ p.listed = f
        BY <1>0, <2>1, <2>3 DEF PollRecord
  <2> HIDE DEF p
  <2>4. e \in PollRecord /\ e.pc = 2 /\ e.of = w /\ e.listed = f
        BY <2>7 DEF PollRecord
  <2> HIDE DEF e
  <2>5. PollSound(e)  BY <1>0, <2>3, <2>4 DEF PollSound
  <2>6. Undisturbed(w) => Abreast(e)
    <3>1. Undisturbed(w) => mark[2] <= landed[w]
          BY <2>2, FileNumbers DEF Undisturbed
    <3> QED  BY <2>3, <2>4, <3>1 DEF Abreast
  <2> QED  BY <1>0, <2>1, <2>4, <2>5, <2>6, RunMoves
<1>2. CASE MemoryGet(r)
  <2>0. poll[r].pc = 2  BY <1>2, StepsOfDriveWatch DEF MemoryGet
  <2>1. ASSUME NEW m \in Found, Advance(r, [poll[r] EXCEPT !.seen = m]), m = mark \/ upset'[w] # {}
        PROVE  WatchInv'
    <3> DEFINE p == [poll[r] EXCEPT !.seen = m]
               e == [p EXCEPT !.pc = @ + 1]
    <3>1. poll' = [poll EXCEPT ![r] = e]  BY <2>1 DEF Advance
    <3>5. p \in PollRecord /\ p.pc = 2 /\ p.of = w /\ p.listed = poll[r].listed /\ p.seen = m
          BY <1>0, <2>0, <2>1 DEF PollRecord
    <3> HIDE DEF p
    <3>2. e \in PollRecord /\ e.pc = 3 /\ e.of = w /\ e.listed = poll[r].listed /\ e.seen = m
          BY <3>5 DEF PollRecord
    <3> HIDE DEF e
    <3>3. PollSound(e)  BY <1>0, <2>0, <3>2 DEF PollSound
    <3>4. upset'[w] = {} /\ Undisturbed(w) => Abreast(e)
          BY <1>0, <2>0, <2>1, <3>2 DEF Undisturbed, Abreast, Mine
    <3> QED  BY <1>0, <3>1, <3>2, <3>3, <3>4, RunMoves
  <2>2. CASE Advance(r, [poll[r] EXCEPT !.seen = mark])
        BY <2>1, <2>2 DEF WatchTypes
  <2>3. CASE Advance(r, [poll[r] EXCEPT !.seen = Nothing]) /\ Upset({poll[r].of}, "memory")
    <3>1. upset'[w] # {}  BY <1>0, <2>3 DEF Upset
    <3> QED  BY <2>1, <2>3, <3>1, FileNumbers
  <2> QED  BY <1>2, <2>2, <2>3 DEF MemoryGet
<1>3. CASE StopIf(r)
  <2>0. poll[r].pc = 3 /\ UNCHANGED upset  BY <1>3, StepsOfDriveWatch DEF StopIf
  <2>1. CASE poll[r].listed = poll[r].seen
        BY <1>0, <1>3, <2>0, <2>1, RunEnds DEF StopIf
  <2>2. CASE poll[r].listed # poll[r].seen
    <3> DEFINE e == [poll[r] EXCEPT !.pc = @ + 1]
    <3>1. poll' = [poll EXCEPT ![r] = e]  BY <1>3, <2>2 DEF StopIf, Advance
    <3>2. e \in PollRecord /\ e.pc = 4 /\ e.of = w /\ e.listed = poll[r].listed
          BY <1>0, <2>0 DEF PollRecord
    <3> HIDE DEF e
    <3>3. PollSound(e)  BY <1>0, <2>0, <3>2 DEF PollSound
    <3>4. ASSUME Undisturbed(w) PROVE Abreast(e)
      <4>1. mark[2] <= poll[r].listed[2] /\ mark # poll[r].listed
            BY <1>0, <2>0, <2>2, <3>4 DEF Undisturbed, Abreast, Mine
      <4>2. /\ poll[r].listed \in Ids /\ poll[r].listed[1] = w /\ poll[r].listed[2] \in 1..landed[w]
            BY <1>0, <2>0, Listing
      <4>3. mark \in Found /\ (mark # Nothing => mark[1] = w)  BY <3>4 DEF WatchTypes, Undisturbed
      <4>4. mark[2] # poll[r].listed[2]
        <5>1. CASE mark = Nothing  BY <4>2, <5>1, FileNumbers
        <5>2. CASE mark # Nothing
              BY <4>1, <4>2, <4>3, <5>2, FileNumbers DEF Found
        <5> QED  BY <5>1, <5>2
      <4>5. mark[2] < poll[r].listed[2]  BY <4>1, <4>2, <4>3, <4>4, FileNumbers
      <4> QED  BY <3>2, <4>1, <4>5 DEF Abreast
    <3> QED  BY <1>0, <3>1, <3>2, <3>3, <3>4, RunMoves
  <2> QED  BY <2>1, <2>2
<1>4. CASE PickOrFetch(r)
  <2>0. poll[r].pc \in {5, 6}  BY <1>4, StepsOfDriveWatch DEF PickOrFetch
  <2> DEFINE e == [poll[r] EXCEPT !.pc = @ + 1]
  <2>1. poll' = [poll EXCEPT ![r] = e]  BY <1>4 DEF PickOrFetch, Advance
  <2>2. e \in PollRecord /\ e.pc \in {6, 7} /\ e.of = w /\ e.listed = poll[r].listed
        BY <1>0, <2>0 DEF PollRecord
  <2> HIDE DEF e
  <2>3. PollSound(e)  BY <1>0, <2>0, <2>2 DEF PollSound
  <2>4. Undisturbed(w) => Abreast(e)
        BY <1>0, <2>0, <2>2 DEF Undisturbed, Abreast, Mine
  <2> QED  BY <1>0, <2>1, <2>2, <2>3, <2>4, RunMoves
<1>5. CASE CallFails(r)
  <2>0. UNCHANGED upset  BY <1>5 DEF CallFails
  <2>1. CASE poll[r].left = 0  BY <1>0, <1>5, <2>0, <2>1, RunEnds DEF CallFails
  <2>2. CASE poll[r].left # 0
    <3> DEFINE e == [Unfired EXCEPT !.of = poll[r].of, !.pc = 1, !.left = poll[r].left - 1]
    <3>1. poll' = [poll EXCEPT ![r] = e]  BY <1>5, <2>2 DEF CallFails
    <3>2. poll[r].left - 1 \in Nat  BY <1>0, <2>2 DEF PollRecord
    <3>3. e \in PollRecord /\ e.pc = 1 /\ e.of = w
          BY <1>0, <3>2, FirstStep
    <3> HIDE DEF e
    <3>4. PollSound(e) /\ Abreast(e)  BY <1>0, <3>3 DEF PollSound, Abreast
    <3> QED  BY <1>0, <3>1, <3>3, <3>4, RunMoves
  <2> QED  BY <2>1, <2>2
<1> QED  BY <1>1, <1>2, <1>3, <1>4, <1>5

\* memory.put moves the mark up to what the run has listed, which is then no
\* other swarm's any more; or it fails, which disturbs the swarm's own.
LEMMA PutKeeps ==
  ASSUME Program = DriveWatch, WatchInv, NEW r \in Runs1, MemoryPut(r)
  PROVE  WatchInv'
<1> USE DEF WatchInv
<1> DEFINE e == [poll[r] EXCEPT !.pc = @ + 1]
<1>0. Polling(r) /\ poll[r].pc = 4 /\ UNCHANGED <<landed, handed>> /\ poll' = [poll EXCEPT ![r] = e]
      BY StepsOfDriveWatch DEF MemoryPut, IsAt, Advance
<1> PICK w \in Watchers : w = poll[r].of  BY <1>0, Listing
<1>1. /\ poll[r] \in PollRecord /\ PollSound(poll[r]) /\ w = poll[r].of
      /\ poll[r].listed \in Ids /\ poll[r].listed[1] = w /\ poll[r].listed[2] \in 1..landed[w]
      BY <1>0, Listing
<1>2. e \in PollRecord /\ e.pc = 5 /\ e.of = w /\ e.listed = poll[r].listed
      BY <1>0, <1>1 DEF PollRecord
<1>3. PollSound(e)  BY <1>0, <1>1, <1>2 DEF PollSound
<1>4. CASE UNCHANGED mark /\ Upset({w}, "memory")
  <2>1. /\ upset' \in [Watchers -> SUBSET {"memory", "overlap", "shared"}]
        /\ \A v \in Watchers : upset[v] \subseteq upset'[v]
        /\ upset'[w] # {}
        BY <1>1, <1>4 DEF Upset, WatchTypes
  <2> HIDE DEF e
  <2> QED  BY <1>0, <1>2, <1>3, <1>4, <2>1, RunMoves
<1>5. CASE mark' = poll[r].listed /\ Upset(Watchers \ {w}, "shared")
  <2>1. /\ upset' \in [Watchers -> SUBSET {"memory", "overlap", "shared"}]
        /\ upset'[w] = upset[w] /\ \A v \in Watchers : v # w => upset'[v] # {}
        BY <1>1, <1>5 DEF Upset, WatchTypes
  <2> HIDE DEF e
  <2>2. poll'[r] = e /\ \A q \in Runs1 : q # r => poll'[q] = poll[q]  BY <1>0 DEF WatchTypes
  <2>3. \A q \in Runs1 : PollSound(poll[q])'
        BY <1>0, <1>3, <2>2 DEF WatchTypes, PollSound
  <2>4. WatchTypes'  BY <1>0, <1>1, <1>2, <1>5, <2>1, <2>3 DEF WatchTypes, Found
  <2>5. ASSUME upset'[w] = {} PROVE Undisturbed(w)'
    <3>1. Undisturbed(w) /\ Mine(r, w)  BY <1>0, <1>1, <2>1, <2>5 DEF Mine
    <3>2. mark[2] < poll[r].listed[2] /\ mark[2] \in Nat
          BY <1>0, <3>1, FileNumbers DEF Undisturbed, Abreast, WatchTypes
    <3>3. \A q \in Runs1 : Mine(q, w)' => q = r
          BY <2>2, <3>1 DEF Undisturbed, Mine, Polling
    <3>4. handed[poll[r].listed] = 0
      <4> DEFINE n == poll[r].listed[2]
      <4>1. n \in 1..Arrivals /\ poll[r].listed = <<w, n>>
            BY <1>1, FileNumbers DEF WatchTypes
      <4>2. handed[<<w, n>>] # 0 => n <= mark[2]  BY <3>1, <4>1 DEF Undisturbed
      <4> QED  BY <3>2, <4>1, <4>2
    <3>5. Abreast(poll[r])'
          BY <1>0, <1>1, <1>2, <1>5, <2>2, <3>4, FileNumbers DEF Abreast
    <3>6. \A n \in 1..Arrivals : handed'[<<w, n>>] <= 1 /\ (handed'[<<w, n>>] # 0 => n <= mark'[2])
          BY <1>0, <1>1, <1>5, <3>1, <3>2, FileNumbers DEF Undisturbed
    <3>7. mark'[1] = w /\ mark'[2] <= landed'[w]
          BY <1>0, <1>1, <1>5
    <3> QED  BY <3>3, <3>5, <3>6, <3>7 DEF Undisturbed
  <2> QED  BY <1>1, <2>1, <2>4, <2>5
<1> QED  BY <1>0, <1>4, <1>5 DEF MemoryPut

\* A run at its end hands on what the mark holds, for the first time.
LEMMA HandOnKeeps ==
  ASSUME Program = DriveWatch, WatchInv, NEW r \in Runs1, HandOn(r)
  PROVE  WatchInv'
<1> USE DEF WatchInv
<1> DEFINE f == poll[r].listed
<1>8. poll[r].pc = 7
  <2>1. Len(Program) = 6 /\ poll[r].pc = Len(Program) + 1  BY StepsOfDriveWatch DEF HandOn
  <2> QED  BY <2>1
<1>0. Polling(r) /\ poll[r].pc = 7 /\ UNCHANGED <<landed, mark, upset>> /\ poll' = [poll EXCEPT ![r] = Ended]
      BY <1>8 DEF HandOn, Polling, Over
<1> PICK w \in Watchers : w = poll[r].of  BY <1>0, Listing
<1>1. /\ poll[r] \in PollRecord /\ PollSound(poll[r]) /\ w = poll[r].of
      /\ f \in Ids /\ f[1] = w /\ f[2] \in 1..landed[w]
      BY <1>0, Listing
<1>2. Ended \in PollRecord /\ Ended.pc = -1  BY FileNumbers DEF Ended, Unfired, PollRecord
<1>3. handed' = [handed EXCEPT ![f] = @ + 1]  BY DEF HandOn
<1>4. poll'[r].pc = -1 /\ \A q \in Runs1 : q # r => poll'[q] = poll[q]  BY <1>0, <1>2 DEF WatchTypes
<1>5. WatchTypes'
  <2>1. \A q \in Runs1 : PollSound(poll[q])'  BY <1>0, <1>4 DEF WatchTypes, PollSound
  <2>2. poll' \in [Runs1 -> PollRecord]  BY <1>0, <1>2 DEF WatchTypes
  <2>3. handed' \in [Ids -> Nat]  BY <1>1, <1>3 DEF WatchTypes
  <2> QED  BY <1>0, <2>1, <2>2, <2>3 DEF WatchTypes
<1>6. \A q \in Runs1, v \in Watchers : Mine(q, v)' => Mine(q, v) /\ q # r /\ poll'[q] = poll[q]
      BY <1>4 DEF Mine, Polling
<1>7. ASSUME NEW v \in Watchers, upset'[v] = {} PROVE Undisturbed(v)'
  <2>1. Undisturbed(v)  BY <1>0, <1>7
  <2>2. CASE v # w
    <3>1. \A n \in 0..Arrivals : handed'[<<v, n>>] = handed[<<v, n>>]
          BY <1>1, <1>3, <2>2, FileNumbers DEF WatchTypes
    <3>2. landed[v] <= landed'[v]  BY <1>0 DEF WatchTypes
    <3> QED  BY <1>0, <1>5, <1>6, <2>1, <3>1, <3>2, OthersUndisturbed
  <2>3. CASE v = w
    <3>1. Mine(r, w) /\ Abreast(poll[r])  BY <1>0, <2>1, <2>3 DEF Mine, Undisturbed
    <3>2. mark = f /\ handed[f] = 0  BY <1>0, <3>1 DEF Abreast
    <3>3. \A q \in Runs1 : ~Mine(q, w)'  BY <1>6, <2>1, <2>3, <3>1 DEF Undisturbed
    <3>4. ASSUME NEW n \in 1..Arrivals
          PROVE  handed'[<<w, n>>] <= 1 /\ (handed'[<<w, n>>] # 0 => n <= mark[2])
      <4>1. CASE <<w, n>> = f  BY <1>1, <1>3, <3>2, <4>1 DEF WatchTypes
      <4>2. CASE <<w, n>> # f
        <5>1. <<w, n>> \in Ids  BY <1>1, FileNumbers
        <5>2. handed'[<<w, n>>] = handed[<<w, n>>]  BY <1>3, <4>2, <5>1 DEF WatchTypes
        <5> QED  BY <2>1, <2>3, <5>2 DEF Undisturbed
      <4> QED  BY <4>1, <4>2
    <3> QED  BY <1>0, <2>1, <2>3, <3>3, <3>4 DEF Undisturbed
  <2> QED  BY <2>2, <2>3
<1> QED  BY <1>5, <1>7

\* A poll starts undisturbed only where no run of the swarm is in progress.
LEMMA PollKeeps ==
  ASSUME WatchInv, NEW r \in Runs1, NEW w \in Watchers, Poll(r, w)
  PROVE  WatchInv'
<1> USE DEF WatchInv
<1> DEFINE e == [Unfired EXCEPT !.of = w, !.pc = 1, !.left = Retried]
<1>1. /\ poll' = [poll EXCEPT ![r] = e] /\ UNCHANGED <<landed, mark, handed>> /\ ~Polling(r)
      BY DEF Poll, Polling, Unfired
<1>2. e \in PollRecord /\ e.pc = 1 /\ e.of = w  BY WatchAssumption, FirstStep
<1> HIDE DEF e
<1>3. poll'[r] = e /\ \A q \in Runs1 : q # r => poll'[q] = poll[q]  BY <1>1 DEF WatchTypes
<1>4. /\ upset' \in [Watchers -> SUBSET {"memory", "overlap", "shared"}]
      /\ \A v \in Watchers : upset[v] \subseteq upset'[v]
      /\ upset'[w] = {} => \A q \in Runs1 : ~Mine(q, w)
      BY DEF Poll, Upset, WatchTypes, Runs1, Mine
<1>5. WatchTypes'
  <2>1. \A q \in Runs1 : PollSound(poll[q])'  BY <1>1, <1>2, <1>3 DEF WatchTypes, PollSound
  <2> QED  BY <1>1, <1>2, <1>4, <2>1 DEF WatchTypes
<1>6. ASSUME NEW v \in Watchers, upset'[v] = {} PROVE Undisturbed(v)'
  <2>1. Undisturbed(v)  BY <1>4, <1>6
  <2>2. CASE v # w
    <3>1. \A q \in Runs1 : Mine(q, v)' => Mine(q, v) /\ poll'[q] = poll[q]
          BY <1>2, <1>3, <2>2 DEF Mine, Polling
    <3>2. landed[v] <= landed'[v]  BY <1>1 DEF WatchTypes
    <3> QED  BY <1>1, <1>5, <2>1, <3>1, <3>2, OthersUndisturbed
  <2>3. CASE v = w
    <3>1. \A q \in Runs1 : Mine(q, w)' => q = r
          BY <1>3, <1>4, <1>6, <2>3 DEF Mine, Polling
    <3>2. Abreast(poll[r])'  BY <1>2, <1>3 DEF Abreast
    <3> QED  BY <1>1, <2>1, <2>3, <3>1, <3>2 DEF Undisturbed
  <2> QED  BY <2>2, <2>3
<1> QED  BY <1>5, <1>6

\* A file that lands, and a daemon that dies, disturb nothing.
LEMMA ArrivalsKeep ==
  ASSUME WatchInv, DaemonDies \/ \E w \in Watchers : Land(w)
  PROVE  WatchInv'
<1> USE DEF WatchInv
<1>1. ASSUME NEW w \in Watchers, Land(w) PROVE WatchInv'
  <2>1. UNCHANGED <<mark, poll, handed, upset>>  BY <1>1 DEF Land
  <2>2. landed' \in [Watchers -> 1..Arrivals] /\ \A v \in Watchers : landed[v] <= landed'[v]
        BY <1>1, FileNumbers DEF Land, WatchTypes
  <2>3. \A v \in Watchers : landed[v] \in Nat /\ landed'[v] \in Nat
        BY <2>2, FileNumbers DEF WatchTypes
  <2>4. ASSUME NEW r \in Runs1 PROVE PollSound(poll[r])'
    <3>1. PollSound(poll[r])  BY DEF WatchTypes
    <3> QED  BY <2>1, <2>2, <2>3, <3>1 DEF PollSound
  <2>5. WatchTypes'  BY <2>1, <2>2, <2>4 DEF WatchTypes
  <2>6. \A v \in Watchers : Undisturbed(v) => Undisturbed(v)'
        BY <2>1, <2>2, <2>5, OthersUndisturbed DEF Mine, Polling
  <2> QED  BY <2>1, <2>5, <2>6
<1>2. CASE DaemonDies
  <2>1. UNCHANGED <<landed, mark, handed, upset>>  BY <1>2 DEF DaemonDies
  <2>2. Ended \in PollRecord /\ Ended.pc = -1  BY FileNumbers DEF Ended, Unfired, PollRecord
  <2>3. \A r \in Runs1 : poll'[r] = IF Polling(r) THEN Ended ELSE poll[r]
        BY <1>2 DEF DaemonDies, Runs1
  <2>4. poll' \in [Runs1 -> PollRecord]
        BY <1>2, <2>2 DEF DaemonDies, WatchTypes, Runs1
  <2>5. \A r \in Runs1 : ~(poll'[r].pc > 0)  BY <2>2, <2>3 DEF Polling
  <2>6. WatchTypes'  BY <2>1, <2>4, <2>5 DEF WatchTypes, PollSound
  <2>7. \A w \in Watchers : landed[w] <= landed'[w]  BY <2>1 DEF WatchTypes
  <2>8. \A w \in Watchers : Undisturbed(w) => Undisturbed(w)'
        BY <2>1, <2>5, <2>6, <2>7, OthersUndisturbed DEF Mine, Polling
  <2> QED  BY <2>1, <2>6, <2>8
<1> QED  BY <1>1, <1>2

\* With the steps of bots/drive-watch, a file is handed on at most once, for
\* any number of swarms, files, retries and runs, whatever fails at whatever
\* step, as long as the swarm's runs do not overlap, the store answers and no
\* other swarm writes its mark.
THEOREM WatchHandsOnOnce == ASSUME Program = DriveWatch PROVE WatchSpec => []HandedOnOnce
<1>1. WatchInv => HandedOnOnce
  <2> SUFFICES ASSUME WatchInv, NEW f \in Ids, f[2] > 0, upset[f[1]] = {} PROVE handed[f] <= 1
      BY DEF HandedOnOnce
  <2>1. f[1] \in Watchers /\ f = <<f[1], f[2]>> /\ f[2] \in 1..Arrivals  BY FileNumbers
  <2>2. Undisturbed(f[1])  BY <2>1 DEF WatchInv
  <2> QED  BY <2>1, <2>2 DEF Undisturbed
<1>2. WatchInv /\ [WatchNext]_watchVars => WatchInv'
  <2> SUFFICES ASSUME WatchInv, [WatchNext]_watchVars PROVE WatchInv'  OBVIOUS
  <2>1. CASE UNCHANGED watchVars
        BY <2>1 DEF watchVars, WatchInv, WatchTypes, PollSound, Undisturbed, Abreast, Mine, Polling
  <2> QED  BY <2>1, ArrivalsKeep, PollKeeps, ReadingKeeps, PutKeeps, HandOnKeeps DEF WatchNext, Runs1
<1> QED  BY <1>1, <1>2, WatchInvInit, PTL DEF WatchSpec

\* Any program: a run is at one of its steps or past the last, and has listed
\* nothing but a file of its own swarm.
PollShape == [of : Watchers \cup {"none"}, pc : (-1)..(Len(Program) + 1), left : Nat, listed : Found, seen : Found]
PollsShaped ==
    /\ poll \in [Runs1 -> PollShape]
    /\ \A r \in Runs1 : /\ poll[r].pc > 0 => poll[r].of \in Watchers
                        /\ poll[r].listed # Nothing => poll[r].listed[1] = poll[r].of

\* A file is handed on by runs that are over then.
RunsOver == {r \in Runs1 : poll[r].pc = -1}
WatchShaped ==
    /\ landed \in [Watchers -> 1..Arrivals] /\ mark \in Found
    /\ PollsShaped
    /\ handed \in [Ids -> Nat] /\ \A f \in Ids : handed[f] <= Cardinality(RunsOver)
    /\ upset \in [Watchers -> SUBSET {"memory", "overlap", "shared"}]

\* There are no more of them than runs.
LEMMA RunsOverBound ==
  ASSUME PollsShaped
  PROVE  IsFiniteSet(RunsOver) /\ Cardinality(RunsOver) \in 0..Polls
<1>1. Polls \in Nat  BY WatchAssumption
<1>2. IsFiniteSet(Runs1) /\ Cardinality(Runs1) = Polls
  <2>1. IsFiniteSet(1..Polls) /\ Cardinality(1..Polls) = IF 1 > Polls THEN 0 ELSE Polls - 1 + 1
        BY <1>1, FS_Interval
  <2> QED  BY <1>1, <2>1 DEF Runs1
<1>3. RunsOver \subseteq Runs1  BY DEF RunsOver
<1>4. IsFiniteSet(RunsOver) /\ Cardinality(RunsOver) <= Cardinality(Runs1)  BY <1>2, <1>3, FS_Subset
<1>5. Cardinality(RunsOver) \in Nat  BY <1>4, FS_CardinalityType
<1> QED  BY <1>1, <1>2, <1>4, <1>5

\* One run moves, and the ones that are over stay so.
LEMMA OnePollShaped ==
  ASSUME PollsShaped, NEW r \in Runs1, NEW p \in PollShape, poll' = [poll EXCEPT ![r] = p],
         p.pc > 0 => p.of \in Watchers, p.listed # Nothing => p.listed[1] = p.of,
         poll[r].pc # -1
  PROVE  /\ PollsShaped' /\ Cardinality(RunsOver) <= Cardinality(RunsOver')
         /\ p.pc = -1 => Cardinality(RunsOver') = Cardinality(RunsOver) + 1
<1>1. PollsShaped'  BY DEF PollsShaped
<1>2. RunsOver' = RunsOver \cup (IF p.pc = -1 THEN {r} ELSE {}) /\ r \notin RunsOver
  <2>1. \A q \in Runs1 : poll'[q] = IF q = r THEN p ELSE poll[q]  BY DEF PollsShaped
  <2> QED  BY <2>1 DEF RunsOver
<1>3. IsFiniteSet(RunsOver) /\ Cardinality(RunsOver) \in Nat  BY RunsOverBound
<1>4. Cardinality(RunsOver \cup {r}) = Cardinality(RunsOver) + 1  BY <1>2, <1>3, FS_AddElement
<1>5. p.pc = -1 => Cardinality(RunsOver') = Cardinality(RunsOver) + 1
  <2>1. p.pc = -1 => RunsOver' = RunsOver \cup {r}  BY <1>2
  <2> QED  BY <1>4, <2>1
<1>6. p.pc # -1 => RunsOver' = RunsOver  BY <1>2
<1>7. Cardinality(RunsOver) <= Cardinality(RunsOver')
  <2>1. CASE p.pc = -1  BY <1>3, <1>5, <2>1
  <2>2. CASE p.pc # -1
    <3>1. Cardinality(RunsOver') = Cardinality(RunsOver)  BY <1>6, <2>2
    <3> QED  BY <1>3, <3>1
  <2> QED  BY <2>1, <2>2
<1> QED  BY <1>1, <1>5, <1>7

\* A run goes on: with the same swarm, and what it has listed or its own
\* newest file.
LEMMA ShapedAdvance ==
  ASSUME WatchShaped, NEW r \in Runs1, NEW p, Advance(r, p), p \in PollShape, p.of = poll[r].of, p.pc = poll[r].pc,
         p.listed # Nothing => p.listed[1] = p.of, p.pc > 0, p.pc <= Len(Program)
  PROVE  PollsShaped' /\ Cardinality(RunsOver) <= Cardinality(RunsOver')
<1> DEFINE e == [p EXCEPT !.pc = @ + 1]
<1>1. Len(Program) \in Nat  BY WatchAssumption, LenProperties
<1>2. poll' = [poll EXCEPT ![r] = e]  BY DEF Advance
<1>3. p.pc + 1 \in (-1)..(Len(Program) + 1)
  <2>1. p.pc \in (-1)..(Len(Program) + 1)  BY DEF PollShape
  <2> QED  BY <1>1, <2>1
<1>4. e \in PollShape /\ e.of = p.of /\ e.listed = p.listed  BY <1>3 DEF PollShape
<1>5. p.of \in Watchers /\ poll[r].pc # -1  BY DEF WatchShaped, PollsShaped
<1> HIDE DEF e
<1> QED  BY <1>2, <1>4, <1>5, OnePollShaped DEF WatchShaped

\* A run that begins.
LEMMA BeginsShaped ==
  ASSUME NEW w \in Watchers, NEW n \in Nat
  PROVE  LET p == [Unfired EXCEPT !.of = w, !.pc = 1, !.left = n]
         IN p \in PollShape /\ p.of = w /\ p.listed = Nothing
<1> DEFINE p == [Unfired EXCEPT !.of = w, !.pc = 1, !.left = n]
           p1 == [Unfired EXCEPT !.of = w]
           p2 == [p1 EXCEPT !.pc = 1]
<1>1. Unfired = [of |-> "none", pc |-> 0, left |-> 0, listed |-> Nothing, seen |-> Nothing]
      BY DEF Unfired
<1>2. p1 = [of |-> w, pc |-> 0, left |-> 0, listed |-> Nothing, seen |-> Nothing]  BY <1>1
<1>3. p = [p2 EXCEPT !.left = n]  OBVIOUS
<1> HIDE DEF p, p1
<1>4. p2 = [of |-> w, pc |-> 1, left |-> 0, listed |-> Nothing, seen |-> Nothing]  BY <1>2
<1> HIDE DEF p2
<1>5. p = [of |-> w, pc |-> 1, left |-> n, listed |-> Nothing, seen |-> Nothing]  BY <1>3, <1>4
<1>6. 1 \in (-1)..(Len(Program) + 1)
  <2>1. Len(Program) \in Nat  BY WatchAssumption, LenProperties
  <2> QED  BY <2>1
<1>7. p \in PollShape  BY <1>5, <1>6 DEF PollShape, Found
<1>8. p.of = w /\ p.listed = Nothing  BY <1>5
<1> QED  BY <1>7, <1>8 DEF p

\* One that is over.
LEMMA EndedShaped ==
  Ended \in PollShape /\ Ended.pc = -1 /\ ~(Ended.pc > 0) /\ Ended.listed = Nothing
<1>1. Ended = [of |-> "none", pc |-> -1, left |-> 0, listed |-> Nothing, seen |-> Nothing]
      BY DEF Ended, Unfired
<1>2. Len(Program) \in Nat  BY WatchAssumption, LenProperties
<1> QED  BY <1>1, <1>2 DEF PollShape, Found

\* No run has polled.
LEMMA ShapedInit == WatchInit => WatchShaped
<1> SUFFICES ASSUME WatchInit PROVE WatchShaped
    OBVIOUS
<1>1. Len(Program) \in Nat /\ 1 \in 1..Arrivals /\ Polls \in Nat
      BY WatchAssumption, LenProperties
<1>2. Unfired \in PollShape /\ Unfired.pc = 0 /\ Unfired.listed = Nothing
      BY <1>1 DEF Unfired, PollShape, Found
<1>3. \A r \in Runs1 : poll[r] = Unfired  BY DEF WatchInit, Runs1
<1>4. PollsShaped  BY <1>2, <1>3 DEF WatchInit, Runs1, PollsShaped
<1>5. Cardinality(RunsOver) >= 0  BY <1>4, RunsOverBound
<1> QED  BY <1>1, <1>4, <1>5 DEF WatchInit, WatchShaped, Found

\* Each step of a run, an arrival and a new run keep the shapes.
LEMMA ShapedStep ==
  ASSUME WatchShaped, [WatchNext]_watchVars
  PROVE  WatchShaped'
<1>1. PollsShaped /\ Cardinality(RunsOver) \in Nat /\ Len(Program) \in Nat
      BY RunsOverBound, WatchAssumption, LenProperties DEF WatchShaped
<1>2. ASSUME NEW ws, NEW why \in {"memory", "overlap", "shared"}, Upset(ws, why)
      PROVE  upset' \in [Watchers -> SUBSET {"memory", "overlap", "shared"}]
      BY <1>2 DEF Upset, WatchShaped
<1>3. ASSUME PollsShaped', Cardinality(RunsOver) <= Cardinality(RunsOver'), UNCHANGED handed
      PROVE  handed' \in [Ids -> Nat] /\ \A f \in Ids : handed'[f] <= Cardinality(RunsOver')
  <2>1. Cardinality(RunsOver') \in Nat
    <3>1. IsFiniteSet(RunsOver)' /\ (Cardinality(RunsOver) \in 0..Polls)'  BY <1>3, RunsOverBound, PTL
    <3> QED  BY <3>1
  <2> QED  BY <1>1, <1>3, <2>1 DEF WatchShaped
<1>4. ASSUME NEW r \in Runs1 PROVE poll[r] \in PollShape /\ (poll[r].pc > 0 => poll[r].of \in Watchers)
      BY <1>1 DEF PollsShaped
<1>5. ASSUME NEW w \in Watchers, Land(w) PROVE WatchShaped'
  <2>1. landed' \in [Watchers -> 1..Arrivals]
        BY <1>5, WatchAssumption DEF Land, WatchShaped
  <2>2. UNCHANGED <<mark, poll, handed, upset>>  BY <1>5 DEF Land
  <2>3. RunsOver' = RunsOver  BY <2>2 DEF RunsOver
  <2> QED  BY <2>1, <2>2, <2>3 DEF WatchShaped, PollsShaped
<1>6. ASSUME NEW w \in Watchers, NEW r \in Runs1, Poll(r, w) PROVE WatchShaped'
  <2> DEFINE p == [Unfired EXCEPT !.of = w, !.pc = 1, !.left = Retried]
  <2>1. poll' = [poll EXCEPT ![r] = p] /\ poll[r] = Unfired  BY <1>6 DEF Poll
  <2>2. p \in PollShape /\ p.of = w /\ p.listed = Nothing
        BY WatchAssumption, BeginsShaped
  <2>3. poll[r].pc # -1  BY <2>1 DEF Unfired
  <2> HIDE DEF p
  <2>4. PollsShaped' /\ Cardinality(RunsOver) <= Cardinality(RunsOver')
        BY <1>1, <2>1, <2>2, <2>3, OnePollShaped
  <2>5. upset' \in [Watchers -> SUBSET {"memory", "overlap", "shared"}]  BY <1>2, <1>6 DEF Poll
  <2>6. UNCHANGED <<landed, mark, handed>>  BY <1>6 DEF Poll
  <2> QED  BY <1>3, <2>4, <2>5, <2>6 DEF WatchShaped
<1>7. ASSUME NEW r \in Runs1, NEW p, Advance(r, p), p \in PollShape, p.of = poll[r].of, p.pc = poll[r].pc,
             p.listed # Nothing => p.listed[1] = p.of, p.pc > 0, p.pc <= Len(Program),
             mark' \in Found, UNCHANGED <<landed, handed>>,
             upset' \in [Watchers -> SUBSET {"memory", "overlap", "shared"}]
      PROVE  WatchShaped'
  <2>1. PollsShaped' /\ Cardinality(RunsOver) <= Cardinality(RunsOver')  BY <1>7, ShapedAdvance
  <2> QED  BY <1>3, <1>7, <2>1 DEF WatchShaped
<1>8. ASSUME NEW r \in Runs1, NEW s, IsAt(r, s)
      PROVE  /\ poll[r].pc > 0 /\ poll[r].pc <= Len(Program) /\ poll[r].of \in Watchers /\ poll[r].pc # -1
             /\ poll[r] \in PollShape /\ (poll[r].listed # Nothing => poll[r].listed[1] = poll[r].of)
      BY <1>1, <1>8 DEF IsAt, Polling, PollsShaped
<1>9. ASSUME NEW r \in Runs1, Over(r), poll[r].pc # -1, UNCHANGED <<landed, mark, handed, upset>> PROVE WatchShaped'
  <2>1. Ended \in PollShape /\ Ended.pc = -1 /\ ~(Ended.pc > 0) /\ Ended.listed = Nothing
        BY EndedShaped
  <2>2. PollsShaped' /\ Cardinality(RunsOver) <= Cardinality(RunsOver')
        BY <1>1, <1>9, <2>1, OnePollShaped DEF Over
  <2> QED  BY <1>3, <1>9, <2>2 DEF WatchShaped
<1>10. ASSUME NEW r \in Runs1, ListNewest(r) PROVE WatchShaped'
  <2> DEFINE n == <<poll[r].of, landed[poll[r].of]>>
             p == [poll[r] EXCEPT !.listed = n]
  <2>1. IsAt(r, "list")  BY <1>10 DEF ListNewest
  <2>2. n \in Found /\ n[1] = poll[r].of
    <3>1. landed[poll[r].of] \in 0..Arrivals  BY <1>8, <2>1, WatchAssumption DEF WatchShaped
    <3> QED  BY <1>8, <2>1, <3>1 DEF Found, Ids
  <2> HIDE DEF n
  <2>3. p \in PollShape /\ p.of = poll[r].of /\ p.pc = poll[r].pc /\ p.listed = n
        BY <1>4, <2>2 DEF PollShape
  <2>4. Advance(r, p) /\ UNCHANGED <<landed, mark, handed, upset>>  BY <1>10 DEF ListNewest, n
  <2> HIDE DEF p
  <2>5. mark' \in Found /\ upset' \in [Watchers -> SUBSET {"memory", "overlap", "shared"}]
        BY <2>4 DEF WatchShaped
  <2> QED  BY <1>7, <1>8, <2>1, <2>2, <2>3, <2>4, <2>5
<1>11. ASSUME NEW r \in Runs1, MemoryGet(r) PROVE WatchShaped'
  <2>1. IsAt(r, "get") /\ UNCHANGED <<landed, mark, handed>>  BY <1>11 DEF MemoryGet
  <2>2. PICK m \in {mark, Nothing} : Advance(r, [poll[r] EXCEPT !.seen = m])  BY <1>11 DEF MemoryGet
  <2>3. m \in Found /\ mark' \in Found  BY <2>1 DEF WatchShaped, Found
  <2>4. upset' \in [Watchers -> SUBSET {"memory", "overlap", "shared"}]
        BY <1>2, <1>11 DEF MemoryGet, WatchShaped
  <2> DEFINE p == [poll[r] EXCEPT !.seen = m]
  <2>5. p \in PollShape /\ p.of = poll[r].of /\ p.pc = poll[r].pc /\ p.listed = poll[r].listed
        BY <1>4, <2>3 DEF PollShape
  <2>6. Advance(r, p)  BY <2>2
  <2> HIDE DEF p
  <2> QED  BY <1>7, <1>8, <2>1, <2>3, <2>4, <2>5, <2>6
<1>12. ASSUME NEW r \in Runs1, NEW s, IsAt(r, s), Advance(r, poll[r]), mark' \in Found, UNCHANGED <<landed, handed>>,
              upset' \in [Watchers -> SUBSET {"memory", "overlap", "shared"}]
       PROVE  WatchShaped'
       BY <1>7, <1>8, <1>12
<1>13. mark \in Found /\ upset \in [Watchers -> SUBSET {"memory", "overlap", "shared"}]  BY DEF WatchShaped
<1>14. ASSUME NEW r \in Runs1, StopIf(r) PROVE WatchShaped'
       BY <1>8, <1>9, <1>12, <1>13, <1>14 DEF StopIf
<1>15. ASSUME NEW r \in Runs1, PickOrFetch(r) PROVE WatchShaped'
       BY <1>12, <1>13, <1>15 DEF PickOrFetch
<1>16. ASSUME NEW r \in Runs1, MemoryPut(r) PROVE WatchShaped'
  <2>1. poll[r].listed \in Found  BY <1>4 DEF PollShape
  <2>2. upset' \in [Watchers -> SUBSET {"memory", "overlap", "shared"}]  BY <1>2, <1>16 DEF MemoryPut
  <2> QED  BY <1>12, <1>13, <1>16, <2>1, <2>2 DEF MemoryPut
<1>17. ASSUME NEW r \in Runs1, HandOn(r) PROVE WatchShaped'
  <2>1. poll[r].pc # -1 /\ Over(r)  BY <1>1, <1>17 DEF HandOn
  <2>2. Ended \in PollShape /\ Ended.pc = -1 /\ ~(Ended.pc > 0) /\ Ended.listed = Nothing
        BY EndedShaped
  <2>3. PollsShaped' /\ Cardinality(RunsOver') = Cardinality(RunsOver) + 1
        BY <1>1, <2>1, <2>2, OnePollShaped DEF Over
  <2>4. handed' \in [Ids -> Nat] /\ \A f \in Ids : handed'[f] <= handed[f] + 1
    <3>1. handed \in [Ids -> Nat] /\ handed' = [handed EXCEPT ![poll[r].listed] = @ + 1]
          BY <1>17 DEF HandOn, WatchShaped
    <3>2. \A f \in Ids : handed[f] \in Nat /\ handed[f] + 1 \in Nat /\ handed[f] <= handed[f] + 1
          BY <3>1
    <3>3. \A f \in Ids : handed'[f] = handed[f] \/ handed'[f] = handed[f] + 1  BY <3>1
    <3>4. handed' = [f \in Ids |-> handed'[f]]  BY <3>1
    <3> QED  BY <3>2, <3>3, <3>4
  <2>5. \A f \in Ids : handed'[f] <= Cardinality(RunsOver')
    <3> SUFFICES ASSUME NEW f \in Ids PROVE handed'[f] <= Cardinality(RunsOver')
        OBVIOUS
    <3>1. handed[f] \in Nat /\ handed'[f] \in Nat /\ handed[f] <= Cardinality(RunsOver)
          BY <2>4 DEF WatchShaped
    <3> QED  BY <1>1, <2>3, <2>4, <3>1
  <2> QED  BY <1>17, <2>3, <2>4, <2>5 DEF HandOn, WatchShaped
<1>18. ASSUME NEW r \in Runs1, CallFails(r) PROVE WatchShaped'
  <2>1. IsAt(r, "list") \/ IsAt(r, "fetch")  BY <1>18 DEF CallFails
  <2>2. CASE poll[r].left = 0  BY <1>8, <1>9, <1>18, <2>1, <2>2 DEF CallFails
  <2>3. CASE poll[r].left # 0
    <3> DEFINE p == [Unfired EXCEPT !.of = poll[r].of, !.pc = 1, !.left = poll[r].left - 1]
    <3>1. poll' = [poll EXCEPT ![r] = p] /\ UNCHANGED <<landed, mark, handed, upset>>
          BY <1>18, <2>3 DEF CallFails
    <3>2. poll[r].left - 1 \in Nat /\ poll[r].of \in Watchers
          BY <1>4, <1>8, <2>1, <2>3 DEF PollShape
    <3>3. p \in PollShape /\ p.of \in Watchers /\ p.listed = Nothing
          BY <3>2, BeginsShaped
    <3> HIDE DEF p
    <3>4. PollsShaped' /\ Cardinality(RunsOver) <= Cardinality(RunsOver')
          BY <1>1, <1>8, <2>1, <3>1, <3>3, OnePollShaped
    <3> QED  BY <1>3, <1>13, <3>1, <3>4 DEF WatchShaped
  <2> QED  BY <2>2, <2>3
<1>19. CASE DaemonDies
  <2>1. poll' = [r \in Runs1 |-> IF Polling(r) THEN Ended ELSE poll[r]]  BY <1>19 DEF DaemonDies, Runs1
  <2>2. Ended \in PollShape /\ Ended.pc = -1 /\ ~(Ended.pc > 0) /\ Ended.listed = Nothing
        BY EndedShaped
  <2>3. PollsShaped'
        BY <1>1, <2>1, <2>2 DEF PollsShaped
  <2>4. RunsOver \subseteq RunsOver'
        BY <1>1, <2>1, <2>2 DEF RunsOver
  <2>5. IsFiniteSet(RunsOver)' /\ (Cardinality(RunsOver) \in 0..Polls)'  BY <2>3, RunsOverBound, PTL
  <2>6. Cardinality(RunsOver) <= Cardinality(RunsOver')  BY <2>4, <2>5, FS_Subset
  <2> QED  BY <1>3, <1>13, <1>19, <2>3, <2>6 DEF DaemonDies, WatchShaped
<1>20. CASE UNCHANGED watchVars
  <2>1. RunsOver' = RunsOver  BY <1>20 DEF watchVars, RunsOver
  <2> QED  BY <1>20, <2>1 DEF watchVars, WatchShaped, PollsShaped
<1> QED  BY <1>5, <1>6, <1>10, <1>11, <1>14, <1>15, <1>16, <1>17, <1>18, <1>19, <1>20 DEF WatchNext, Runs1

\* For every program a watch bot may have, no run is at a step it does not
\* have or holds another swarm's file, and no file is handed on more often than
\* there are runs that are over.
THEOREM WatchTyped == WatchSpec => []WatchTypeOK
<1>1. WatchShaped => WatchTypeOK
  <2> SUFFICES ASSUME WatchShaped PROVE WatchTypeOK
      OBVIOUS
  <2>1. Cardinality(RunsOver) \in 0..Polls /\ Polls \in Nat  BY RunsOverBound, WatchAssumption DEF WatchShaped
  <2>2. handed \in [Ids -> 0..Polls]  BY <2>1 DEF WatchShaped
  <2> QED  BY <2>2 DEF WatchShaped, PollsShaped, PollShape, WatchTypeOK, Found, Runs1
<1> QED  BY <1>1, ShapedInit, ShapedStep, PTL DEF WatchSpec

-----------------------------------------------------------------------------
(* Foundry.                                                                *)

FoundrySpec == FoundryInit /\ [][FoundryNext]_foundryVars

Promoting == {"copy", "recheck", "clean"}
Accepted == Promoting \cup {"stat"}

\* What a job is past says what it has: ids that are taken, one bot it
\* touched that is none of them, conformance, a person's yes, and its files.
JobSound(x) ==
    /\ x.iterations + x.queue <= x.tries
    /\ x.pc \in {"work", "verify"} => Shipped \subseteq x.listed
    /\ x.pc \in Accepted \cup {"conform", "review"} \/ x.status = "succeeded" =>
          x.bot \in Bots /\ x.touched = {x.bot} /\ x.bot \notin Shipped
    /\ x.pc \in Accepted \cup {"review"} => x.conformOK
    /\ x.pc \in Accepted => x.approved
    /\ x.pc \notin Promoting \cup {"done"} => x.left = Files
    /\ x.pc \in {"recheck", "clean"} \/ x.status = "succeeded" => x.left = {}
    /\ x.status = "succeeded" => x.pc = "done"

\* What job j has put into the catalog it was allowed to put there.
Placed(j) ==
    \A b \in Bots, f \in Files :
        catalog[b].by[f] = j =>
            /\ job[j].pc \in Promoting \cup {"done"}
            /\ job[j].approved /\ job[j].conformOK /\ job[j].touched = {b} /\ b \notin Shipped

\* A job that copies, or has, alone under its id: nobody else is copying that
\* id, what it has copied is there, and the directory keeps others out.
Stands(j) ==
    j \notin overlapped /\ (job[j].pc \in Promoting \/ job[j].status = "succeeded") =>
        /\ \A k \in Jobs : k # j => k \notin Copying(job[j].bot)
        /\ \A f \in Files : f \notin job[j].left => catalog[job[j].bot].by[f] = j
        /\ job[j].pc # "copy" => catalog[job[j].bot].dir

FoundryInv ==
    /\ FoundryTypeOK
    /\ \A b \in Shipped : catalog[b].dir
    /\ \A j \in Jobs : JobSound(job[j]) /\ Placed(j) /\ Stands(j)

\* No job has begun.
LEMMA FoundryInvInit == FoundryInit => FoundryInv
<1> SUFFICES ASSUME FoundryInit PROVE FoundryInv  OBVIOUS
<1> DEFINE x == [pc |-> "off", status |-> "pending", outcome |-> "none", listed |-> {}, worktree |-> FALSE,
                 touched |-> {}, tries |-> 0, queue |-> 0, iterations |-> 0, over |-> FALSE,
                 agent |-> "working", bot |-> NoBot, conformOK |-> FALSE, approved |-> FALSE,
                 left |-> Files]
<1>1. x \in JobRecord  BY FoundryAssumption DEF JobRecord
<1>2. JobSound(x) /\ x.pc = "off" /\ x.status = "pending"  BY DEF JobSound, Promoting, Accepted
<1>3. job = [j \in Jobs |-> x]  BY DEF FoundryInit
<1> HIDE DEF x
<1>4. \A j \in Jobs : job[j] = x  BY <1>3
<1>5. \A b \in Bots, f \in Files : catalog[b].by[f] \in {"nobody", "us"}
      BY DEF FoundryInit, NoDir
<1>6. FoundryTypeOK
      BY <1>1, <1>3 DEF FoundryInit, FoundryTypeOK, NoDir, Owners
<1>7. \A j \in Jobs : Placed(j)  BY <1>5, FoundryAssumption DEF Placed
<1>8. \A j \in Jobs : Stands(j)  BY <1>2, <1>4 DEF Stands, Promoting
<1>9. \A b \in Shipped : catalog[b].dir  BY FoundryAssumption DEF FoundryInit, NoDir
<1> QED  BY <1>2, <1>4, <1>6, <1>7, <1>8, <1>9 DEF FoundryInv

\* A job that stays clear of the catalog: one not yet copying moves on, or any
\* gives up.
LEMMA JobMoves ==
  ASSUME FoundryInv, NEW j \in Jobs, NEW e \in JobRecord, JobSound(e), Becomes(j, e), SameCatalog,
         e.pc \notin Promoting, e.status # "succeeded",
         job[j].pc \in Promoting \cup {"done"} =>
             /\ e.pc = "done"
             /\ e.approved = job[j].approved /\ e.conformOK = job[j].conformOK /\ e.touched = job[j].touched
  PROVE  FoundryInv'
<1>1. job'[j] = e /\ \A k \in Jobs : k # j => job'[k] = job[k]
      BY DEF Becomes, FoundryInv, FoundryTypeOK
<1>2. catalog' = catalog /\ overlapped' = overlapped  BY DEF SameCatalog
<1>3. FoundryTypeOK'  BY <1>2 DEF Becomes, FoundryInv, FoundryTypeOK
<1>4. \A k \in Jobs : JobSound(job[k])'  BY <1>1 DEF FoundryInv, JobSound
<1>5. \A k \in Jobs : Placed(k)'
  <2>1. Placed(j)'  BY <1>1, <1>2 DEF FoundryInv, Placed
  <2> QED  BY <1>1, <1>2, <2>1 DEF FoundryInv, Placed
<1>6. \A k \in Jobs : Stands(k)'
  <2>1. \A b : Copying(b)' \subseteq Copying(b)  BY <1>1 DEF Copying, Promoting
  <2>2. Stands(j)'  BY <1>1 DEF Stands
  <2>3. ASSUME NEW k \in Jobs, k # j PROVE Stands(k)'
    <3>1. Stands(k) /\ job'[k] = job[k]  BY <1>1, <2>3 DEF FoundryInv
    <3> QED  BY <1>2, <2>1, <3>1 DEF Stands
  <2> QED  BY <2>2, <2>3
<1>7. \A b \in Shipped : catalog'[b].dir  BY <1>2 DEF FoundryInv
<1> QED  BY <1>3, <1>4, <1>5, <1>6, <1>7 DEF FoundryInv

\* A job whose copy is complete goes on without touching the catalog.
LEMMA JobSettles ==
  ASSUME FoundryInv, NEW j \in Jobs, NEW e \in JobRecord, JobSound(e), Becomes(j, e), SameCatalog,
         job[j].pc \in {"recheck", "clean"}, e.pc \in {"clean", "done"},
         e.approved = job[j].approved, e.conformOK = job[j].conformOK, e.touched = job[j].touched,
         e.bot = job[j].bot, e.left = job[j].left
  PROVE  FoundryInv'
<1>1. job'[j] = e /\ \A k \in Jobs : k # j => job'[k] = job[k]
      BY DEF Becomes, FoundryInv, FoundryTypeOK
<1>2. catalog' = catalog /\ overlapped' = overlapped  BY DEF SameCatalog
<1>3. FoundryTypeOK'  BY <1>2 DEF Becomes, FoundryInv, FoundryTypeOK
<1>4. \A k \in Jobs : JobSound(job[k])'  BY <1>1 DEF FoundryInv, JobSound
<1>5. \A k \in Jobs : Placed(k)'
  <2>1. Placed(j)'  BY <1>1, <1>2 DEF FoundryInv, Placed, Promoting
  <2> QED  BY <1>1, <1>2, <2>1 DEF FoundryInv, Placed
<1>6. \A k \in Jobs : Stands(k)'
  <2>1. \A b : Copying(b)' \subseteq Copying(b)  BY <1>1 DEF Copying, Promoting
  <2>2. Stands(j)'
    <3>1. Stands(j) /\ job[j].pc \in Promoting /\ job[j].pc # "copy"  BY DEF FoundryInv, Promoting
    <3> QED  BY <1>1, <1>2, <2>1, <3>1 DEF Stands
  <2>3. ASSUME NEW k \in Jobs, k # j PROVE Stands(k)'
    <3>1. Stands(k) /\ job'[k] = job[k]  BY <1>1, <2>3 DEF FoundryInv
    <3> QED  BY <1>2, <2>1, <3>1 DEF Stands
  <2> QED  BY <2>2, <2>3
<1>7. \A b \in Shipped : catalog'[b].dir  BY <1>2 DEF FoundryInv
<1> QED  BY <1>3, <1>4, <1>5, <1>6, <1>7 DEF FoundryInv

\* A job that gives up, with what outcome ever.
LEMMA JobFails ==
  ASSUME FoundryInv, NEW j \in Jobs, NEW x \in JobRecord, Fails(j, x), SameCatalog,
         x.iterations + x.queue <= x.tries,
         x.approved = job[j].approved, x.conformOK = job[j].conformOK, x.touched = job[j].touched
  PROVE  FoundryInv'
<1> DEFINE e == [x EXCEPT !.pc = "done", !.status = "failed"]
<1>1. /\ e \in JobRecord /\ e.pc = "done" /\ e.status = "failed"
      /\ e.iterations = x.iterations /\ e.queue = x.queue /\ e.tries = x.tries
      /\ e.approved = x.approved /\ e.conformOK = x.conformOK /\ e.touched = x.touched
      BY DEF JobRecord
<1>2. Becomes(j, e)  BY DEF Fails
<1> HIDE DEF e
<1>3. JobSound(e) /\ e.pc \notin Promoting /\ e.status # "succeeded"
      BY <1>1 DEF JobSound, Promoting, Accepted
<1> QED  BY <1>1, <1>2, <1>3, JobMoves

\* The same, keeping what the job has.
LEMMA JobEnds ==
  ASSUME FoundryInv, NEW j \in Jobs, SameCatalog,
         NEW o \in {"none", "promoted", "rejected", "conform_failed", "sandbox_violation", "timeout"},
         Ends(j, o)
  PROVE  FoundryInv'
<1> DEFINE x == [job[j] EXCEPT !.outcome = o]
<1>1. job[j] \in JobRecord /\ JobSound(job[j])  BY DEF FoundryInv, FoundryTypeOK
<1>2. /\ x \in JobRecord /\ x.iterations = job[j].iterations /\ x.queue = job[j].queue /\ x.tries = job[j].tries
      /\ x.approved = job[j].approved /\ x.conformOK = job[j].conformOK /\ x.touched = job[j].touched
      BY <1>1 DEF JobRecord
<1>3. Fails(j, x)  BY DEF Ends
<1> HIDE DEF x
<1>4. x.iterations + x.queue <= x.tries  BY <1>1, <1>2 DEF JobSound
<1> QED  BY <1>2, <1>3, <1>4, JobFails

\* The sandbox and the agent.
LEMMA AgentKeeps ==
  ASSUME FoundryInv, NEW j \in Jobs,
         \/ StartJob(j) \/ Setup(j) \/ AgentTouches(j) \/ AgentConforms(j) \/ AgentEnds(j)
         \/ DrainEvent(j) \/ DrainDone(j)
  PROVE  FoundryInv'
<1> DEFINE x == job[j]
<1>0. x \in JobRecord /\ JobSound(x) /\ MaxTries \in Nat /\ SameCatalog
      BY FoundryAssumption DEF FoundryInv, FoundryTypeOK, StartJob, Setup, AgentTouches, AgentConforms,
         AgentEnds, DrainEvent, DrainDone
<1>1. ASSUME NEW e \in JobRecord, Becomes(j, e), JobSound(e), x.pc \in {"off", "setup", "work"},
             e.pc \in {"setup", "work", "verify"}, e.status # "succeeded"
      PROVE  FoundryInv'
      BY <1>0, <1>1, JobMoves DEF Promoting
<1>2. CASE StartJob(j)
  <2> DEFINE e == [x EXCEPT !.pc = "setup", !.status = "running"]
  <2>1. x.pc = "off" /\ Becomes(j, e)  BY <1>2 DEF StartJob, At
  <2>2. /\ e \in JobRecord /\ e.pc = "setup" /\ e.status = "running" /\ e.left = x.left
        /\ e.iterations = x.iterations /\ e.queue = x.queue /\ e.tries = x.tries
        BY <1>0 DEF JobRecord
  <2> HIDE DEF e
  <2>3. JobSound(e)  BY <1>0, <2>1, <2>2 DEF JobSound, Promoting, Accepted
  <2> QED  BY <1>1, <2>1, <2>2, <2>3
<1>3. CASE Setup(j)
  <2>1. CASE Ends(j, "none")  BY <1>0, <2>1, JobEnds
  <2>2. CASE ~Ends(j, "none")
    <3> DEFINE ids == {b \in Bots : catalog[b].dir}
               e == [x EXCEPT !.pc = "work", !.worktree = TRUE, !.listed = ids]
    <3>1. x.pc = "setup" /\ Becomes(j, e)  BY <1>3, <2>2 DEF Setup, At
    <3>2. ids \in SUBSET Bots /\ Shipped \subseteq ids  BY FoundryAssumption DEF FoundryInv
    <3> HIDE DEF ids
    <3>3. /\ e \in JobRecord /\ e.pc = "work" /\ e.listed = ids /\ e.status = x.status /\ e.left = x.left
          /\ e.iterations = x.iterations /\ e.queue = x.queue /\ e.tries = x.tries
          BY <1>0, <3>2 DEF JobRecord
    <3> HIDE DEF e
    <3>4. x.status # "succeeded"  BY <1>0, <3>1 DEF JobSound
    <3>5. JobSound(e)  BY <1>0, <3>1, <3>2, <3>3, <3>4 DEF JobSound, Promoting, Accepted
    <3> QED  BY <1>1, <3>1, <3>3, <3>4, <3>5
  <2> QED  BY <2>1, <2>2
<1>4. ASSUME NEW e \in JobRecord, Becomes(j, e), x.pc = "work", e.pc = x.pc, e.status = x.status,
             e.listed = x.listed, e.left = x.left, e.iterations + e.queue <= e.tries
      PROVE  FoundryInv'
  <2>1. x.status # "succeeded"  BY <1>0, <1>4 DEF JobSound
  <2>2. JobSound(e)  BY <1>0, <1>4, <2>1 DEF JobSound, Promoting, Accepted
  <2> QED  BY <1>1, <1>4, <2>1, <2>2
<1>5. x.iterations \in Nat /\ x.queue \in Nat /\ x.tries \in Nat /\ x.iterations + x.queue <= x.tries /\ x.tries <= MaxTries
      BY <1>0 DEF JobRecord, JobSound
<1>6. CASE AgentTouches(j)
  <2>1. PICK p \in Bots \cup {Outside} : Becomes(j, [x EXCEPT !.touched = @ \cup {p}])
        BY <1>6 DEF AgentTouches
  <2> DEFINE t == x.touched \cup {p}
             e == [x EXCEPT !.touched = t]
  <2>2. t \in SUBSET (Bots \cup {Outside}) /\ x.pc = "work"  BY <1>0, <1>6 DEF JobRecord, AgentTouches, At
  <2>3. Becomes(j, e)  BY <2>1
  <2> HIDE DEF t
  <2>4. /\ e \in JobRecord /\ e.pc = x.pc /\ e.status = x.status /\ e.listed = x.listed /\ e.left = x.left
        /\ e.iterations = x.iterations /\ e.queue = x.queue /\ e.tries = x.tries
        BY <1>0, <2>2 DEF JobRecord
  <2> HIDE DEF e
  <2> QED  BY <1>4, <1>5, <2>2, <2>3, <2>4
<1>7. CASE AgentConforms(j)
  <2> DEFINE e == [x EXCEPT !.tries = @ + 1, !.queue = @ + 1]
  <2>1. x.pc = "work" /\ x.tries < MaxTries /\ Becomes(j, e)  BY <1>7 DEF AgentConforms, At
  <2>2. x.tries + 1 \in 0..MaxTries /\ x.queue + 1 \in 0..MaxTries  BY <1>0, <1>5, <2>1
  <2>3. /\ e \in JobRecord /\ e.pc = x.pc /\ e.status = x.status /\ e.listed = x.listed /\ e.left = x.left
        /\ e.iterations = x.iterations /\ e.queue = x.queue + 1 /\ e.tries = x.tries + 1
        BY <1>0, <2>2 DEF JobRecord
  <2> HIDE DEF e
  <2>4. e.iterations + e.queue <= e.tries  BY <1>5, <2>3
  <2> QED  BY <1>4, <2>1, <2>3, <2>4
<1>8. CASE AgentEnds(j)
  <2>1. PICK how \in {"ok", "error"} : Becomes(j, [x EXCEPT !.agent = how])  BY <1>8 DEF AgentEnds
  <2> DEFINE e == [x EXCEPT !.agent = how]
  <2>2. x.pc = "work" /\ Becomes(j, e)  BY <1>8, <2>1 DEF AgentEnds, At
  <2>3. /\ e \in JobRecord /\ e.pc = x.pc /\ e.status = x.status /\ e.listed = x.listed /\ e.left = x.left
        /\ e.iterations = x.iterations /\ e.queue = x.queue /\ e.tries = x.tries
        BY <1>0 DEF JobRecord
  <2> HIDE DEF e
  <2> QED  BY <1>4, <1>5, <2>2, <2>3
<1>9. CASE DrainEvent(j)
  <2> DEFINE o == x.over \/ x.iterations + 1 > MaxIter
             q == x.queue - 1
             e == [x EXCEPT !.queue = q, !.iterations = @ + 1, !.over = o]
  <2>1. x.pc = "work" /\ x.queue > 0 /\ Becomes(j, e)  BY <1>9 DEF DrainEvent, At
  <2>2. o \in BOOLEAN /\ q \in 0..MaxTries /\ x.iterations + 1 \in 0..MaxTries  BY <1>0, <1>5, <2>1
  <2> HIDE DEF o
  <2>3. /\ e \in JobRecord /\ e.pc = x.pc /\ e.status = x.status /\ e.listed = x.listed /\ e.left = x.left
        /\ e.iterations = x.iterations + 1 /\ e.queue = q /\ e.tries = x.tries
        BY <1>0, <2>2 DEF JobRecord
  <2> HIDE DEF e
  <2>4. e.iterations + e.queue <= e.tries  BY <1>5, <2>1, <2>3
  <2> QED  BY <1>4, <2>1, <2>3, <2>4
<1>10. CASE DrainDone(j)
  <2> DEFINE n == [x EXCEPT !.queue = 0]
  <2>1. x.pc = "work"  BY <1>10 DEF DrainDone, At
  <2>2. /\ n \in JobRecord /\ n.pc = x.pc /\ n.status = x.status /\ n.listed = x.listed /\ n.left = x.left
        /\ n.iterations = x.iterations /\ n.queue = 0 /\ n.tries = x.tries
        /\ n.approved = x.approved /\ n.conformOK = x.conformOK /\ n.touched = x.touched
        BY <1>0 DEF JobRecord
  <2>3. n.iterations + n.queue <= n.tries  BY <1>5, <2>2
  <2>4. CASE x.agent = "ok"
    <3> DEFINE e == [n EXCEPT !.pc = "verify"]
    <3>1. Becomes(j, e)  BY <1>10, <2>4 DEF DrainDone
    <3> HIDE DEF n
    <3>2. /\ e \in JobRecord /\ e.pc = "verify" /\ e.status = x.status /\ e.listed = x.listed /\ e.left = x.left
          /\ e.iterations = n.iterations /\ e.queue = n.queue /\ e.tries = n.tries
          BY <2>2 DEF JobRecord
    <3> HIDE DEF e
    <3>3. x.status # "succeeded"  BY <1>0, <2>1 DEF JobSound
    <3>4. JobSound(e)  BY <1>0, <2>1, <2>3, <3>2, <3>3 DEF JobSound, Promoting, Accepted
    <3> QED  BY <1>1, <2>1, <3>1, <3>2, <3>3, <3>4
  <2>5. CASE x.agent # "ok"
    <3>1. PICK late \in BOOLEAN : Fails(j, [n EXCEPT !.outcome = IF x.over \/ late THEN "timeout" ELSE "none"])
          BY <1>10, <2>5 DEF DrainDone
    <3> DEFINE o == IF x.over \/ late THEN "timeout" ELSE "none"
               m == [n EXCEPT !.outcome = o]
    <3>2. o \in {"timeout", "none"} /\ Fails(j, m)  BY <3>1
    <3> HIDE DEF n, o
    <3>3. /\ m \in JobRecord /\ m.iterations = n.iterations /\ m.queue = n.queue /\ m.tries = n.tries
          /\ m.approved = n.approved /\ m.conformOK = n.conformOK /\ m.touched = n.touched
          BY <2>2, <3>2 DEF JobRecord
    <3> HIDE DEF m
    <3> QED  BY <1>0, <2>2, <2>3, <3>2, <3>3, JobFails
  <2> QED  BY <2>4, <2>5
<1> QED  BY <1>2, <1>3, <1>6, <1>7, <1>8, <1>9, <1>10

\* The checks and the review.
LEMMA ChecksKeep ==
  ASSUME FoundryInv, NEW j \in Jobs, Verify(j) \/ Conform(j) \/ Review(j) \/ CopyFails(j)
  PROVE  FoundryInv'
<1> DEFINE x == job[j]
<1>0. x \in JobRecord /\ JobSound(x) /\ SameCatalog
      BY DEF FoundryInv, FoundryTypeOK, Verify, Conform, Review, CopyFails
<1>1. CASE CopyFails(j)  BY <1>0, <1>1, JobEnds DEF CopyFails
<1>2. CASE Verify(j)
  <2>1. CASE Ends(j, "sandbox_violation")  BY <1>0, <2>1, JobEnds
  <2>2. ASSUME NEW b \in x.touched, InSandbox(j, b), Becomes(j, [x EXCEPT !.pc = "conform", !.bot = b])
        PROVE  FoundryInv'
    <3> DEFINE e == [x EXCEPT !.pc = "conform", !.bot = b]
    <3>1. x.pc = "verify" /\ b \in Bots /\ x.touched = {b} /\ b \notin x.listed
          BY <1>2, <2>2 DEF Verify, At, InSandbox
    <3>2. /\ e \in JobRecord /\ e.pc = "conform" /\ e.bot = b /\ e.touched = x.touched
          /\ e.status = x.status /\ e.left = x.left
          /\ e.iterations = x.iterations /\ e.queue = x.queue /\ e.tries = x.tries
          BY <1>0, <3>1 DEF JobRecord
    <3>3. Becomes(j, e)  BY <2>2
    <3> HIDE DEF e
    <3>4. x.status # "succeeded"  BY <1>0, <3>1 DEF JobSound
    <3>5. JobSound(e)  BY <1>0, <3>1, <3>2, <3>4 DEF JobSound, Promoting, Accepted
    <3> QED  BY <1>0, <3>1, <3>2, <3>3, <3>4, <3>5, JobMoves DEF Promoting
  <2> QED  BY <1>2, <2>1, <2>2 DEF Verify
<1>3. CASE Conform(j)
  <2>0. x.pc = "conform"  BY <1>3 DEF Conform, At
  <2>1. CASE Ends(j, "conform_failed")  BY <1>0, <2>1, JobEnds
  <2>2. CASE Fails(j, [x EXCEPT !.conformOK = TRUE])
    <3> DEFINE m == [x EXCEPT !.conformOK = TRUE]
               e == [m EXCEPT !.pc = "done", !.status = "failed"]
    <3>1. m \in JobRecord /\ m.iterations = x.iterations /\ m.queue = x.queue /\ m.tries = x.tries
          BY <1>0 DEF JobRecord
    <3>2. Becomes(j, e)  BY <2>2 DEF Fails
    <3> HIDE DEF m
    <3>3. /\ e \in JobRecord /\ e.pc = "done" /\ e.status = "failed"
          /\ e.iterations = m.iterations /\ e.queue = m.queue /\ e.tries = m.tries
          BY <3>1 DEF JobRecord
    <3> HIDE DEF e
    <3>4. JobSound(e)  BY <1>0, <3>1, <3>3 DEF JobSound, Promoting, Accepted
    <3> QED  BY <1>0, <2>0, <3>2, <3>3, <3>4, JobMoves DEF Promoting
  <2>3. CASE Becomes(j, [x EXCEPT !.conformOK = TRUE, !.pc = "review", !.status = "awaiting_approval"])
    <3> DEFINE e == [x EXCEPT !.conformOK = TRUE, !.pc = "review", !.status = "awaiting_approval"]
    <3>1. Becomes(j, e)  BY <2>3
    <3>2. /\ e \in JobRecord /\ e.pc = "review" /\ e.status = "awaiting_approval" /\ e.conformOK = TRUE
          /\ e.bot = x.bot /\ e.touched = x.touched /\ e.left = x.left
          /\ e.iterations = x.iterations /\ e.queue = x.queue /\ e.tries = x.tries
          BY <1>0 DEF JobRecord
    <3> HIDE DEF e
    <3>3. JobSound(e)  BY <1>0, <2>0, <3>2 DEF JobSound, Promoting, Accepted
    <3> QED  BY <1>0, <2>0, <3>1, <3>2, <3>3, JobMoves DEF Promoting
  <2> QED  BY <1>3, <2>1, <2>2, <2>3 DEF Conform
<1>4. CASE Review(j)
  <2>1. CASE Approved(j)
    <3> DEFINE e == [x EXCEPT !.approved = TRUE, !.pc = "stat", !.status = "running"]
    <3>1. x.pc = "review" /\ Becomes(j, e)  BY <1>4, <2>1 DEF Review, Approved, At
    <3>2. /\ e \in JobRecord /\ e.pc = "stat" /\ e.status = "running" /\ e.approved = TRUE
          /\ e.conformOK = x.conformOK /\ e.bot = x.bot /\ e.touched = x.touched /\ e.left = x.left
          /\ e.iterations = x.iterations /\ e.queue = x.queue /\ e.tries = x.tries
          BY <1>0 DEF JobRecord
    <3> HIDE DEF e
    <3>3. JobSound(e)  BY <1>0, <3>1, <3>2 DEF JobSound, Promoting, Accepted
    <3> QED  BY <1>0, <3>1, <3>2, <3>3, JobMoves DEF Promoting
  <2>2. CASE Rejected(j) \/ Ends(j, "none")  BY <1>0, <2>2, JobEnds DEF Rejected
  <2> QED  BY <1>4, <2>1, <2>2 DEF Review
<1> QED  BY <1>1, <1>2, <1>3, <1>4

\* os.Stat lets a job copy an id that is not in the catalog; whoever is
\* copying it already makes them overlap.
LEMMA StatKeeps ==
  ASSUME FoundryInv, NEW j \in Jobs, Stat(j)
  PROVE  FoundryInv'
<1> DEFINE x == job[j]
<1>0. x \in JobRecord /\ JobSound(x) /\ x.pc = "stat" /\ catalog' = catalog
      BY DEF FoundryInv, FoundryTypeOK, Stat, At
<1>1. CASE Ends(j, "none") /\ UNCHANGED overlapped
      BY <1>0, <1>1, JobEnds DEF SameCatalog
<1>2. CASE ~catalog[x.bot].dir /\ GoesAhead(j)
  <2> DEFINE copying == [x EXCEPT !.pc = "copy"]
  <2>1. /\ copying \in JobRecord /\ copying.pc = "copy" /\ copying.status = x.status
        /\ copying.approved = x.approved /\ copying.conformOK = x.conformOK
        /\ copying.bot = x.bot /\ copying.touched = x.touched /\ copying.left = x.left
        /\ copying.iterations = x.iterations /\ copying.queue = x.queue /\ copying.tries = x.tries
        BY <1>0 DEF JobRecord
  <2>12. job' = [job EXCEPT ![j] = copying]  BY <1>2 DEF GoesAhead, Becomes
  <2> HIDE DEF copying
  <2>2. PICK e \in JobRecord, b \in Bots \cup {NoBot} :
            /\ job' = [job EXCEPT ![j] = e] /\ e.pc = "copy" /\ e.status = x.status /\ e.approved = x.approved
            /\ e.conformOK = x.conformOK /\ e.bot = b /\ x.bot = b /\ e.touched = x.touched /\ e.left = x.left
            /\ e.iterations = x.iterations /\ e.queue = x.queue /\ e.tries = x.tries
        BY <2>1, <2>12, <1>0 DEF JobRecord
  <2>3. x.status # "succeeded"  BY <1>0 DEF JobSound
  <2>4. JobSound(e)  BY <1>0, <2>2, <2>3 DEF JobSound, Promoting, Accepted
  <2>5. job'[j] = e /\ \A k \in Jobs : k # j => job'[k] = job[k]
        BY <2>2 DEF FoundryInv, FoundryTypeOK
  <2>6. /\ overlapped \subseteq overlapped' /\ overlapped' \subseteq Jobs
        /\ \A k \in Jobs : k \in Copying(b) => k \in overlapped' /\ j \in overlapped'
        BY <1>2, <2>2 DEF GoesAhead, Copying, FoundryInv, FoundryTypeOK
  <2>7. FoundryTypeOK'  BY <1>0, <2>2, <2>6 DEF FoundryInv, FoundryTypeOK
  <2>8. \A k \in Jobs : JobSound(job[k])'  BY <2>4, <2>5 DEF FoundryInv, JobSound
  <2>9. \A k \in Jobs : Placed(k)'
    <3>1. Placed(j)'  BY <1>0, <2>2, <2>5 DEF FoundryInv, Placed, Promoting
    <3> QED  BY <1>0, <2>5, <3>1 DEF FoundryInv, Placed
  <2>10. Stands(j)'
    <3> SUFFICES ASSUME j \notin overlapped'
                 PROVE  /\ \A k \in Jobs : k # j => k \notin Copying(b)'
                        /\ \A f \in Files : f \in e.left
        BY <2>2, <2>5 DEF Stands
    <3>1. \A k \in Jobs : k \notin Copying(b)  BY <2>6
    <3>2. \A k \in Jobs : k # j => k \notin Copying(b)'
          BY <2>2, <2>5, <3>1 DEF Copying
    <3>3. x.left = Files  BY <1>0 DEF JobSound, Promoting
    <3> QED  BY <2>2, <3>2, <3>3
  <2>11. ASSUME NEW k \in Jobs, k # j PROVE Stands(k)'
    <3> SUFFICES ASSUME k \notin overlapped', job[k].pc \in Promoting \/ job[k].status = "succeeded"
                 PROVE  /\ \A i \in Jobs : i # k => i \notin Copying(job[k].bot)'
                        /\ \A f \in Files : f \notin job[k].left => catalog[job[k].bot].by[f] = k
                        /\ job[k].pc # "copy" => catalog[job[k].bot].dir
        BY <1>0, <2>5, <2>11 DEF Stands
    <3>1. /\ \A i \in Jobs : i # k => i \notin Copying(job[k].bot)
          /\ \A f \in Files : f \notin job[k].left => catalog[job[k].bot].by[f] = k
          /\ job[k].pc # "copy" => catalog[job[k].bot].dir
          BY <2>6 DEF FoundryInv, Stands
    <3>2. job[k].bot # b
      <4>1. CASE job[k].pc = "copy"
        <5>1. k \in Copying(job[k].bot)  BY <4>1 DEF Copying
        <5> QED  BY <2>6, <5>1
      <4>2. CASE job[k].pc # "copy"  BY <1>2, <2>2, <3>1, <4>2
      <4> QED  BY <4>1, <4>2
    <3>3. \A i \in Jobs : i \in Copying(job[k].bot)' => i \in Copying(job[k].bot)
          BY <2>2, <2>5, <2>11, <3>2 DEF Copying
    <3> QED  BY <3>1, <3>3
  <2> QED  BY <1>0, <2>7, <2>8, <2>9, <2>10, <2>11 DEF FoundryInv
<1> QED  BY <1>1, <1>2 DEF Stat

\* One file is copied under an id nobody else is copying, or they overlap.
LEMMA CopyKeeps ==
  ASSUME FoundryInv, NEW j \in Jobs, CopyFile(j)
  PROVE  FoundryInv'
<1> DEFINE x == job[j]
<1>0. x \in JobRecord /\ JobSound(x) /\ x.pc = "copy" /\ overlapped' = overlapped
      BY DEF FoundryInv, FoundryTypeOK, CopyFile, At
<1>1. PICK f \in x.left :
          /\ catalog' = [catalog EXCEPT ![x.bot].dir = TRUE, ![x.bot].by[f] = j]
          /\ Becomes(j, [x EXCEPT !.left = @ \ {f}, !.pc = IF x.left = {f} THEN "recheck" ELSE "copy"])
      BY DEF CopyFile
<1>2. PICK b \in Bots : b = x.bot  BY <1>0 DEF JobSound, Accepted, Promoting
<1>3. x.left \subseteq Files /\ f \in Files /\ b \notin Shipped /\ x.touched = {b} /\ x.approved /\ x.conformOK
      BY <1>0, <1>2 DEF JobRecord, JobSound, Accepted, Promoting
<1> DEFINE rest == x.left \ {f}
           step == IF x.left = {f} THEN "recheck" ELSE "copy"
           copied == [x EXCEPT !.left = rest, !.pc = step]
<1>4. rest \in SUBSET Files /\ step \in {"copy", "recheck"} /\ (step = "recheck" => rest = {})
      BY <1>3
<1>5. job' = [job EXCEPT ![j] = copied]  BY <1>1 DEF Becomes
<1> HIDE DEF rest, step
<1>6. /\ copied \in JobRecord /\ copied.pc = step /\ copied.left = rest /\ copied.status = x.status
      /\ copied.approved = x.approved /\ copied.conformOK = x.conformOK
      /\ copied.bot = x.bot /\ copied.touched = x.touched
      /\ copied.iterations = x.iterations /\ copied.queue = x.queue /\ copied.tries = x.tries
      BY <1>0, <1>4 DEF JobRecord
<1> HIDE DEF copied
<1>7. PICK e \in JobRecord :
          /\ job' = [job EXCEPT ![j] = e] /\ e.pc \in {"copy", "recheck"} /\ (e.pc = "recheck" => e.left = {})
          /\ e.left = x.left \ {f} /\ e.status = x.status /\ e.approved = x.approved
          /\ e.conformOK = x.conformOK /\ e.bot = b /\ e.touched = x.touched
          /\ e.iterations = x.iterations /\ e.queue = x.queue /\ e.tries = x.tries
      BY <1>2, <1>4, <1>5, <1>6 DEF rest
<1>8. job'[j] = e /\ \A k \in Jobs : k # j => job'[k] = job[k]
      BY <1>7 DEF FoundryInv, FoundryTypeOK
<1>9. /\ catalog' \in [Bots -> [dir : BOOLEAN, by : [Files -> Owners]]]
      /\ catalog'[b].dir /\ catalog'[b].by = [catalog[b].by EXCEPT ![f] = j]
      /\ \A c \in Bots : c # b => catalog'[c] = catalog[c]
  <2> DEFINE Entry == [dir : BOOLEAN, by : [Files -> Owners]]
             there == [catalog[b] EXCEPT !.dir = TRUE]
             by == [catalog[b].by EXCEPT ![f] = j]
             entry == [there EXCEPT !.by = by]
  <2>1. catalog \in [Bots -> Entry] /\ catalog[b] \in Entry  BY DEF FoundryInv, FoundryTypeOK
  <2>2. there \in Entry /\ there.dir /\ there.by = catalog[b].by  BY <2>1
  <2>3. by \in [Files -> Owners]  BY <1>3, <2>1 DEF Owners
  <2>4. catalog' = [catalog EXCEPT ![b] = [there EXCEPT !.by[f] = j]]  BY <1>1, <1>2, <2>1
  <2> HIDE DEF there
  <2>5. catalog' = [catalog EXCEPT ![b] = entry]  BY <2>2, <2>4
  <2> HIDE DEF by
  <2>6. entry \in Entry /\ entry.dir /\ entry.by = by  BY <2>2, <2>3
  <2> HIDE DEF entry, Entry
  <2>7. catalog' \in [Bots -> Entry] /\ catalog'[b] = entry /\ \A c \in Bots : c # b => catalog'[c] = catalog[c]
        BY <2>1, <2>5, <2>6
  <2> QED  BY <2>6, <2>7 DEF by, Entry
<1>10. \A g \in Files : catalog'[b].by[g] = IF g = f THEN j ELSE catalog[b].by[g]
       BY <1>3, <1>9 DEF FoundryInv, FoundryTypeOK
<1>11. JobSound(e)  BY <1>0, <1>2, <1>7 DEF JobSound, Promoting, Accepted
<1>12. FoundryTypeOK'  BY <1>0, <1>7, <1>9 DEF FoundryInv, FoundryTypeOK
<1>13. \A k \in Jobs : JobSound(job[k])'  BY <1>8, <1>11 DEF FoundryInv, JobSound
<1>14. ASSUME NEW k \in Jobs PROVE Placed(k)'
  <2> SUFFICES ASSUME NEW c \in Bots, NEW g \in Files, catalog'[c].by[g] = k
               PROVE  /\ job'[k].pc \in Promoting \cup {"done"}
                      /\ job'[k].approved /\ job'[k].conformOK /\ job'[k].touched = {c} /\ c \notin Shipped
      BY DEF Placed
  <2>1. CASE c = b /\ g = f
    <3>1. k = j  BY <1>10, <2>1
    <3> QED  BY <1>3, <1>7, <1>8, <2>1, <3>1 DEF Promoting
  <2>2. CASE ~(c = b /\ g = f)
    <3>1. catalog[c].by[g] = k  BY <1>9, <1>10, <2>2
    <3>2. /\ job[k].pc \in Promoting \cup {"done"}
          /\ job[k].approved /\ job[k].conformOK /\ job[k].touched = {c} /\ c \notin Shipped
          BY <3>1 DEF FoundryInv, Placed
    <3> QED  BY <1>7, <1>8, <3>2 DEF Promoting
  <2> QED  BY <2>1, <2>2
<1>15. ASSUME NEW k \in Jobs, NEW c \in Bots \cup {NoBot} PROVE k \in Copying(c)' => k \in Copying(c)
       BY <1>0, <1>2, <1>7, <1>8 DEF Copying
<1>16. Stands(j)'
  <2> SUFFICES ASSUME j \notin overlapped'
               PROVE  /\ \A k \in Jobs : k # j => k \notin Copying(b)'
                      /\ \A g \in Files : g \notin e.left => catalog'[b].by[g] = j
                      /\ catalog'[b].dir
      BY <1>7, <1>8 DEF Stands
  <2>1. /\ \A k \in Jobs : k # j => k \notin Copying(b)
        /\ \A g \in Files : g \notin x.left => catalog[b].by[g] = j
        BY <1>0, <1>2 DEF FoundryInv, Stands, Promoting
  <2> QED  BY <1>7, <1>9, <1>10, <1>15, <2>1
<1>17. ASSUME NEW k \in Jobs, k # j PROVE Stands(k)'
  <2> SUFFICES ASSUME k \notin overlapped, job[k].pc \in Promoting \/ job[k].status = "succeeded"
               PROVE  /\ \A i \in Jobs : i # k => i \notin Copying(job[k].bot)'
                      /\ \A g \in Files : g \notin job[k].left => catalog'[job[k].bot].by[g] = k
                      /\ job[k].pc # "copy" => catalog'[job[k].bot].dir
      BY <1>0, <1>8, <1>17 DEF Stands
  <2>1. /\ \A i \in Jobs : i # k => i \notin Copying(job[k].bot)
        /\ \A g \in Files : g \notin job[k].left => catalog[job[k].bot].by[g] = k
        /\ job[k].pc # "copy" => catalog[job[k].bot].dir
        BY DEF FoundryInv, Stands
  <2>2. j \in Copying(b)  BY <1>0, <1>2 DEF Copying
  <2>3. PICK c \in Bots : c = job[k].bot
        BY DEF FoundryInv, JobSound, Accepted
  <2>4. c # b  BY <1>17, <2>1, <2>2, <2>3
  <2>5. catalog'[c] = catalog[c]  BY <1>9, <2>4
  <2>6. \A i \in Jobs : i # k => i \notin Copying(c)'  BY <1>15, <2>1, <2>3
  <2>7. job'[k].bot = c  BY <1>8, <1>17, <2>3
  <2>8. \A i \in Jobs : i # k => i \notin Copying(job[k].bot)'  BY <2>6, <2>7, <1>8, <1>17
  <2> QED  BY <2>1, <2>3, <2>5, <2>8
<1>18. \A c \in Shipped : catalog'[c].dir
       BY <1>3, <1>9, FoundryAssumption DEF FoundryInv
<1> QED  BY <1>12, <1>13, <1>14, <1>16, <1>17, <1>18 DEF FoundryInv

\* A bot that fails its second check is rolled back, under an id nobody else
\* has copied meanwhile, or they overlap.
LEMMA RollBackKeeps ==
  ASSUME FoundryInv, NEW j \in Jobs, job[j].pc = "recheck",
         catalog' = [catalog EXCEPT ![job[j].bot] = NoDir], Ends(j, "none"), UNCHANGED overlapped
  PROVE  FoundryInv'
<1> DEFINE x == job[j]
<1>0. x \in JobRecord /\ JobSound(x)  BY DEF FoundryInv, FoundryTypeOK
<1>1. PICK b \in Bots : b = x.bot /\ b \notin Shipped  BY <1>0 DEF JobSound, Accepted, Promoting
<1> DEFINE m == [x EXCEPT !.outcome = "none"]
           over == [m EXCEPT !.pc = "done", !.status = "failed"]
<1>2. /\ m \in JobRecord /\ m.iterations = x.iterations /\ m.queue = x.queue /\ m.tries = x.tries
      /\ m.approved = x.approved /\ m.conformOK = x.conformOK /\ m.touched = x.touched
      BY <1>0 DEF JobRecord
<1>3. job' = [job EXCEPT ![j] = over]  BY DEF Ends, Fails, Becomes
<1> HIDE DEF m
<1>4. /\ over \in JobRecord /\ over.pc = "done" /\ over.status = "failed"
      /\ over.iterations = m.iterations /\ over.queue = m.queue /\ over.tries = m.tries
      /\ over.approved = m.approved /\ over.conformOK = m.conformOK /\ over.touched = m.touched
      BY <1>2 DEF JobRecord
<1> HIDE DEF over
<1>5. PICK e \in JobRecord :
          /\ job' = [job EXCEPT ![j] = e] /\ e.pc = "done" /\ e.status = "failed"
          /\ e.iterations = x.iterations /\ e.queue = x.queue /\ e.tries = x.tries
          /\ e.approved = x.approved /\ e.conformOK = x.conformOK /\ e.touched = x.touched
      BY <1>2, <1>3, <1>4
<1>6. job'[j] = e /\ \A k \in Jobs : k # j => job'[k] = job[k]
      BY <1>5 DEF FoundryInv, FoundryTypeOK
<1>7. /\ catalog' \in [Bots -> [dir : BOOLEAN, by : [Files -> Owners]]]
      /\ \A f \in Files : catalog'[b].by[f] = "nobody"
      /\ \A c \in Bots : c # b => catalog'[c] = catalog[c]
  <2>1. NoDir \in [dir : BOOLEAN, by : [Files -> Owners]] /\ \A f \in Files : NoDir.by[f] = "nobody"
        BY DEF NoDir, Owners
  <2> QED  BY <1>1, <2>1 DEF FoundryInv, FoundryTypeOK
<1>8. JobSound(e)  BY <1>0, <1>5 DEF JobSound, Promoting, Accepted
<1>9. FoundryTypeOK'  BY <1>5, <1>7 DEF FoundryInv, FoundryTypeOK
<1>10. \A k \in Jobs : JobSound(job[k])'  BY <1>6, <1>8 DEF FoundryInv, JobSound
<1>11. ASSUME NEW k \in Jobs PROVE Placed(k)'
  <2> SUFFICES ASSUME NEW c \in Bots, NEW f \in Files, catalog'[c].by[f] = k
               PROVE  /\ job'[k].pc \in Promoting \cup {"done"}
                      /\ job'[k].approved /\ job'[k].conformOK /\ job'[k].touched = {c} /\ c \notin Shipped
      BY DEF Placed
  <2>1. c # b  BY <1>7, FoundryAssumption
  <2>2. catalog[c].by[f] = k  BY <1>7, <2>1
  <2>3. /\ job[k].pc \in Promoting \cup {"done"}
        /\ job[k].approved /\ job[k].conformOK /\ job[k].touched = {c} /\ c \notin Shipped
        BY <2>2 DEF FoundryInv, Placed
  <2> QED  BY <1>5, <1>6, <2>3
<1>12. ASSUME NEW k \in Jobs, NEW c \in Bots PROVE k \in Copying(c)' => k \in Copying(c)
       BY <1>5, <1>6 DEF Copying
<1>13. Stands(j)'  BY <1>5, <1>6 DEF Stands, Promoting
<1>14. ASSUME NEW k \in Jobs, k # j PROVE Stands(k)'
  <2> SUFFICES ASSUME k \notin overlapped, job[k].pc \in Promoting \/ job[k].status = "succeeded"
               PROVE  /\ \A i \in Jobs : i # k => i \notin Copying(job[k].bot)'
                      /\ \A g \in Files : g \notin job[k].left => catalog'[job[k].bot].by[g] = k
                      /\ job[k].pc # "copy" => catalog'[job[k].bot].dir
      BY <1>6, <1>14 DEF Stands
  <2>1. /\ \A i \in Jobs : i # k => i \notin Copying(job[k].bot)
        /\ \A g \in Files : g \notin job[k].left => catalog[job[k].bot].by[g] = k
        /\ job[k].pc # "copy" => catalog[job[k].bot].dir
        BY DEF FoundryInv, Stands
  <2>2. j \in Copying(b)  BY <1>1 DEF Copying
  <2>3. PICK c \in Bots : c = job[k].bot
        BY DEF FoundryInv, JobSound, Accepted
  <2>4. c # b  BY <1>14, <2>1, <2>2, <2>3
  <2>5. catalog'[c] = catalog[c]  BY <1>7, <2>4
  <2>6. \A i \in Jobs : i # k => i \notin Copying(c)'  BY <1>12, <2>1, <2>3
  <2>7. job'[k].bot = c  BY <1>6, <1>14, <2>3
  <2>8. \A i \in Jobs : i # k => i \notin Copying(job[k].bot)'  BY <2>6, <2>7, <1>6, <1>14
  <2> QED  BY <2>1, <2>3, <2>5, <2>8
<1>15. \A c \in Shipped : catalog'[c].dir
       BY <1>1, <1>7, FoundryAssumption DEF FoundryInv
<1> QED  BY <1>9, <1>10, <1>11, <1>13, <1>14, <1>15 DEF FoundryInv

\* The second check, and the end of a job that promoted its bot.
LEMMA PromoteKeeps ==
  ASSUME FoundryInv, NEW j \in Jobs, Recheck(j) \/ FinishJob(j)
  PROVE  FoundryInv'
<1> DEFINE x == job[j]
<1>0. x \in JobRecord /\ JobSound(x)  BY DEF FoundryInv, FoundryTypeOK
<1>1. CASE Recheck(j) /\ Becomes(j, [x EXCEPT !.pc = "clean"]) /\ UNCHANGED catalog
  <2> DEFINE e == [x EXCEPT !.pc = "clean"]
  <2>1. x.pc = "recheck" /\ Becomes(j, e) /\ SameCatalog  BY <1>1 DEF Recheck, At, SameCatalog
  <2>2. /\ e \in JobRecord /\ e.pc = "clean" /\ e.status = x.status /\ e.approved = x.approved
        /\ e.conformOK = x.conformOK /\ e.bot = x.bot /\ e.touched = x.touched /\ e.left = x.left
        /\ e.iterations = x.iterations /\ e.queue = x.queue /\ e.tries = x.tries
        BY <1>0 DEF JobRecord
  <2> HIDE DEF e
  <2>3. JobSound(e)  BY <1>0, <2>1, <2>2 DEF JobSound, Promoting, Accepted
  <2> QED  BY <2>1, <2>2, <2>3, JobSettles
<1>2. CASE Recheck(j) /\ catalog' = [catalog EXCEPT ![x.bot] = NoDir] /\ Ends(j, "none")
      BY <1>2, RollBackKeeps DEF Recheck, At
<1>3. CASE FinishJob(j)
  <2>1. PICK stays \in BOOLEAN :
            Becomes(j, [x EXCEPT !.pc = "done", !.worktree = stays, !.outcome = "promoted", !.status = "succeeded"])
        BY <1>3 DEF FinishJob
  <2> DEFINE m == [x EXCEPT !.pc = "done", !.worktree = stays]
             e == [m EXCEPT !.outcome = "promoted", !.status = "succeeded"]
  <2>2. x.pc = "clean" /\ Becomes(j, e) /\ SameCatalog  BY <1>3, <2>1 DEF FinishJob, At
  <2>3. /\ m \in JobRecord /\ m.pc = "done" /\ m.approved = x.approved
        /\ m.conformOK = x.conformOK /\ m.bot = x.bot /\ m.touched = x.touched /\ m.left = x.left
        /\ m.iterations = x.iterations /\ m.queue = x.queue /\ m.tries = x.tries
        BY <1>0 DEF JobRecord
  <2> HIDE DEF m
  <2>4. /\ e \in JobRecord /\ e.pc = "done" /\ e.status = "succeeded" /\ e.approved = m.approved
        /\ e.conformOK = m.conformOK /\ e.bot = m.bot /\ e.touched = m.touched /\ e.left = m.left
        /\ e.iterations = m.iterations /\ e.queue = m.queue /\ e.tries = m.tries
        BY <2>3 DEF JobRecord
  <2> HIDE DEF e
  <2>5. JobSound(e)  BY <1>0, <2>2, <2>3, <2>4 DEF JobSound, Promoting, Accepted
  <2> QED  BY <2>2, <2>3, <2>4, <2>5, JobSettles
<1> QED  BY <1>1, <1>2, <1>3 DEF Recheck

\* The catalog holds what a person approved, as it was approved: promote.go and
\* orchestrate.go, for any jobs, bots, iterations and interleavings of copies.
THEOREM FoundrySafe == FoundrySpec => []CatalogSafety
<1>1. FoundryInv => CatalogSafety
  <2>1. FoundryInv => NothingUnreviewed  BY DEF FoundryInv, Placed, NothingUnreviewed
  <2>2. FoundryInv => PromotedStands  BY DEF FoundryInv, Stands, JobSound, PromotedStands
  <2> QED  BY <2>1, <2>2 DEF CatalogSafety
<1>2. FoundryInv /\ [FoundryNext]_foundryVars => FoundryInv'
  <2> SUFFICES ASSUME FoundryInv, [FoundryNext]_foundryVars PROVE FoundryInv'  OBVIOUS
  <2>1. CASE UNCHANGED foundryVars
        BY <2>1 DEF foundryVars, FoundryInv, FoundryTypeOK, JobSound, Placed, Stands, Copying
  <2> QED  BY <2>1, AgentKeeps, ChecksKeep, StatKeeps, CopyKeeps, PromoteKeeps DEF FoundryNext, FoundryStep
<1> QED  BY <1>1, <1>2, FoundryInvInit, PTL DEF FoundrySpec

\* A job's record is well formed, and it never counts more iterations than its
\* agent has tried (orchestrate.go drainEvents).
THEOREM FoundryTypes == FoundrySpec => [](FoundryTypeOK /\ \A j \in Jobs : job[j].iterations <= job[j].tries)
<1>1. FoundryInv => FoundryTypeOK /\ \A j \in Jobs : job[j].iterations <= job[j].tries
  <2> SUFFICES ASSUME FoundryInv, NEW j \in Jobs PROVE job[j].iterations <= job[j].tries
      BY DEF FoundryInv
  <2>1. job[j] \in JobRecord /\ JobSound(job[j])  BY DEF FoundryInv, FoundryTypeOK
  <2>2. /\ job[j].iterations \in Nat /\ job[j].queue \in Nat /\ job[j].tries \in Nat
        /\ job[j].iterations + job[j].queue <= job[j].tries
        BY <2>1, FoundryAssumption DEF JobRecord, JobSound
  <2> QED  BY <2>2
<1>2. FoundryInv /\ [FoundryNext]_foundryVars => FoundryInv'
  <2> SUFFICES ASSUME FoundryInv, [FoundryNext]_foundryVars PROVE FoundryInv'  OBVIOUS
  <2>1. CASE UNCHANGED foundryVars
        BY <2>1 DEF foundryVars, FoundryInv, FoundryTypeOK, JobSound, Placed, Stands, Copying
  <2> QED  BY <2>1, AgentKeeps, ChecksKeep, StatKeeps, CopyKeeps, PromoteKeeps DEF FoundryNext, FoundryStep
<1> QED  BY <1>1, <1>2, FoundryInvInit, PTL DEF FoundrySpec

-----------------------------------------------------------------------------
(* The parts side by side.                                                 *)

\* The parts begin as each would alone; the one that does not run is among
\* what it could be.
LEMMA EachBegins ==
  RecordsInit => /\ Init /\ EventsInit /\ FoundryInit /\ StateInit /\ WatchInit
                 /\ SecretsInit /\ SchedInit /\ PlanInit /\ NestInit
<1> SUFFICES ASSUME RecordsInit
             PROVE  /\ Init /\ EventsInit /\ FoundryInit /\ StateInit /\ WatchInit
                    /\ SecretsInit /\ SchedInit /\ PlanInit /\ NestInit
    OBVIOUS
<1>1. PlanInitOf(IF subject = "plan" THEN Docs ELSE {Graph({})})  BY DEF RecordsInit
<1>2. PlanInit
  <2> HIDE DEF Graph
  <2> QED  BY <1>1, IdleAssumption DEF PlanInit, PlanInitOf
<1>3. NestInit
  <2>1. CASE subject = "nest"  BY <2>1 DEF RecordsInit
  <2>2. CASE subject # "nest"
    <3>1. NestInitOf({Unnested}) /\ outer = "c"  BY <2>2 DEF RecordsInit
    <3> HIDE DEF Unnested
    <3> QED  BY <3>1, IdleAssumption DEF NestInit, NestInitOf
  <2> QED  BY <2>1, <2>2
<1> QED  BY <1>2, <1>3 DEF RecordsInit

\* A step is one of one part, and stutters in the others.
LEMMA EachSteps ==
  [RecordsNext]_recordVars =>
      /\ [Next]_vars /\ [EventsNext]_eventVars /\ [FoundryNext]_foundryVars
      /\ [StateNext]_stateVars /\ [WatchNext]_watchVars /\ [SecretsNext]_secretVars
      /\ [SchedNext]_schedVars /\ [PlanNext]_planVars /\ [NestNext]_nestVars
<1>1. RecordsNext \/ UNCHANGED recordVars
      => /\ Next \/ UNCHANGED vars
         /\ EventsNext \/ UNCHANGED eventVars
         /\ FoundryNext \/ UNCHANGED foundryVars
         /\ StateNext \/ UNCHANGED stateVars
         /\ WatchNext \/ UNCHANGED watchVars
         /\ SecretsNext \/ UNCHANGED secretVars
         /\ SchedNext \/ UNCHANGED schedVars
         /\ PlanNext \/ UNCHANGED planVars
         /\ NestNext \/ UNCHANGED nestVars
      BY DEF RecordsNext, recordVars, EventsNext
<1> QED  BY <1>1

\* A behaviour of all parts is a behaviour of each.
LEMMA EachIsKept ==
  RecordsSpec => /\ Spec /\ EventsSpec /\ FoundrySpec /\ StateSpec /\ WatchSpec
                 /\ SecretsSpec /\ SchedSpec /\ PlanSpec /\ NestSpec
<1> QED  BY EachBegins, EachSteps, PTL
         DEF RecordsSpec, Spec, EventsSpec, FoundrySpec, StateSpec, WatchSpec, SecretsSpec,
             SchedSpec, PlanSpec, NestSpec

\* The parts that keep records keep their types side by side.
THEOREM RecordsTyped == RecordsSpec => []RecordsTypes
<1>1. /\ TypeOK /\ EventsTypeOK /\ FoundryTypeOK /\ PlanTypeOK
      /\ StateTypeOK /\ WatchTypeOK /\ SecretsTypeOK /\ SchedTypeOK /\ NestTypeOK
      => RecordsTypes
      BY DEF RecordsTypes
<1> QED  BY <1>1, EachIsKept, HistoryTypeOK, EventsTypes, FoundryTypes, PlanTypes, StateTypes,
            WatchTyped, SecretsTypes, SchedTypes, NestTypes, PTL

\* What each promises of the records holds of them side by side: history,
\* streams, catalog, plans, directory, and, with one process and with the
\* steps of drive-watch, secrets and marks.
THEOREM RecordsSafe ==
  ASSUME OneProcess, Program = DriveWatch
  PROVE  RecordsSpec => [](/\ HistorySafety /\ StreamsFaithful /\ CatalogSafety /\ PlanKeepsTypes
                           /\ FlattensFaithfully /\ KeptRunsWhole /\ HandedOnOnce
                           /\ WrittenStaysReadable)
<1>1. SecretsSpec => []WrittenStaysReadable  BY SecretsReadable
<1>2. WatchSpec => []HandedOnOnce  BY WatchHandsOnOnce
<1> QED  BY <1>1, <1>2, EachIsKept, HistorySafe, EventsFaithful, FoundrySafe, PlansKeepTypes,
            FlatteningFaithful, StateKeepsRuns, PTL
=============================================================================
