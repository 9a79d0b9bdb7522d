# nanobots, in TLA+

Specifications of nanobots: how a swarm's bots are scheduled, retried, asked
about and stopped; how ended runs are kept; what a plan promises a run; what a
bot in its container may still do; and how the daemon's many handlers edit
files that people, other requests and crashes edit too. TLC checks them on
small instances; TLAPS proves all of the safety properties for every instance.
Paths below are relative to `src/internal/` unless they begin with `docs/`.

## The system

nanobotd (and `nanobots run`) executes *swarms*: YAML documents that wire bot
instances together with snaps. The parts, with what each keeps and what is hard
about it:

| part | state | what is hard | module |
|---|---|---|---|
| Run `runner/run.go` | status, error, stop and decline flags, gates and their channels | every bot's goroutine, callback handlers, HTTP handlers and a poller touch it; timeouts race answers, answers race the end | `Run`, `RunEvents` |
| Attempts `runner/execute.go`, `inprocess.go`, `docker.go` | attempt, retries, vault wait | an abandoned attempt lives on; a retry runs the bot again | `Run`, `Workspace` |
| DAG scheduler `runner/execute.go` | done channels, `gone`, `fatal`, slots | any finishing order, skips, tolerated failures, few slots | `SwarmDag`, `SwarmOutcome` |
| Fan-out, loop, batch approval, 1Claw mirror `runner/execute.go`, `approver.go` | slots, outputs by item, one shared answer, a remote copy | items in any order under one question that two places may answer | `FanOut` |
| Run store `runner/store.go`, `sqlpersist.go`, `persist.go` | runs in memory, a SQLite table, workspaces, blobs | runs that end early, crashes, refused rows, two processes | `RunHistory`, `StateDir` |
| Container, callbacks, log tail `runner/docker.go`, `callback.go`, `execute.go` | tokens, log offset, outputs of earlier rounds | a request in flight when its token dies; log and files reused by a retry | `Workspace`, `Steps` |
| Step interpreter `step/` | step, tool rounds, values of one attempt | what a *no* does, what a repeated attempt may do again | `Steps`, `Watch` |
| Planner `planner/`, run wiring `runner/wiring.go` | none | two pieces of code that must agree about types, lists and names | `SwarmPlan`, `Nesting` |
| Scheduler and breaker `scheduler/` | next fire times, pauses | overlap, edits, restarts, streaks over evicted history | `Scheduler` |
| API `api/` | caches, streams, probes | single flight against invalidation, replay against subscription | `TtlCache`, `RunEvents`, `Probes`, `Front` |
| Builder, cards, team `api/` | swarm files, bot manifests, `team.json` | read-modify-write of whole files without a lock | `SwarmFiles`, `BotTuning` |
| Foundry `foundry/` | jobs, worktrees, catalog | what is reviewed must be what is copied | `Foundry` |
| Lab, Team, roles `lab/`, `team/`, `roles/` | conversation, engines, worktrees, `roles.json` | messages side by side, edits between edits | `Lab`, `Roster` |
| 1Claw agents `oneclaw/` | remote agents, cached listing, credential files | a listing shared by all names; a key shown once | `Agents` |
| Secrets, connections `secrets/`, `oauth2pkce/`, `api/connections.go` | encrypted file, vault, env file | death between two writes; two lookups that must agree | `Secrets`, `Setup` |
| Egress proxy, web interface, LLM and provider HTTP, CLI front ends | | stateless I/O or front ends | not modelled |

How they meet: `executeSwarm` plans a swarm (`SwarmPlan`, after `Nesting`),
creates a Run and starts `runDAG` in a goroutine (`SwarmDag`); the handler or the
scheduler that asked for it (`Front`, `Scheduler`) `Add`s the Run to the store.
`runDAG` runs each bot, item by item if it is fanned out (`FanOut`), through the
attempt loop (`Run`), an attempt being a container (`Workspace`) or a goroutine
that interprets steps (`Steps`). An approve step calls `Run.requestApproval`;
people answer with `Decide` and end runs with `Stop`. When `runDAG` returns,
`SetStatus` closes the gates still open and calls the store, which writes the
row and evicts (`RunHistory`); the breaker reads what the store holds.
`PROJECT.json` lists every component, and every hazard with the line where it
bites.

## Modules

Each part is a module of its own with constants and named assumptions, a type
invariant, its actions and its properties. Three modules put parts side by side
for TLC: `MCProgress` (what has to go on), `MCRecords` (what is kept and shown)
and `MCDesk` (what people do at the desk and bots in their box). The parts they
hold share no state, so a behaviour of a composite is a behaviour of the one part
that `part` or `subject` names; the others keep their initial value. That is
why `DeskView` may drop them. `MCRun` and `MCSchedule` give values to constants.

### Run

A *worker* is one attempt of one bot, and names its gate too. `pc[w]` says
where `step.Interpret` is: working, having listed a gate (`announce`), waiting
at it (`await`), holding an answer (`resume`), past the gate (`act`), past the
write (`acted`), done. `approvals`, `closed`, `buf` and `decided` are the map of
pending approvals, the closing of their channels, the one-slot buffers and
`PendingApproval.decided`. Actions follow critical sections of `Run.mu`, so
what the code does in two is two actions: `OpenGate`/`Announce` (list, then set
the status), `Receive`/`Resume` (read `alive`, then set running),
`RestoreRead`/`RestoreSet` (the same after a vault wait), `PressStop`/
`CancelContext`/`ReleaseApprovals`, `RecordError`/`EndRun`/`Persist`. `select`
chooses freely between what is ready: `GateTimeout` and `Receive` may both be
enabled, and so may `AttemptReturns`, `MaxRuntime` and `CtxDone`.

An attempt that timed out or was cancelled is `abandoned`. In-process, its
goroutine goes on (`RunsSteps`); a container has been killed, so nothing of it
runs further but the callback handler that may be blocked at a gate.

`SetStatus(StatusRunning)` in `executeSwarm` precedes the goroutine, so Init is
a running run. `TriesFor` is 0 for a bot that writes because the planner
refuses the combination. A container finds the vault locked only while it
works (`pc = "work"`). Several approve steps in one bot and an approve step that
binds an output are in `Steps`; dependencies between bots are in `SwarmDag`.

### SwarmDag and SwarmOutcome

`pc[b]` follows the goroutine of bot `b` through `runDAG`; `gone` keeps the
reason as one of the ways a bot can fail to produce outputs. The two critical
sections around `upstreamMissing` and the separate locks of `AddTolerated` and
`gone` are separate steps. An attempt ends in one of the ways `Run` lets it end
(`Errors`), `stopped` and `ended` only after `Cancel`.

`SwarmOutcome` is the abstract specification: each bot gets one verdict after
its sources have theirs, exactly the bots behind a source that did not run are
skipped, and the outcome is a function of the verdicts. `SwarmDag` implements
it under the mapping `verdict[b] = Verdict(b)` (nothing until `done[b]` is
closed, then what `gone` says) and `outcome = result`.

### FanOut

`loop` is `runItems` (width, slots, item to start next), `item` the goroutine of
each item from work over the gate to its write, `batch` the `BatchApprover` with
its mutex, `question` the approval in the run's queue, and `copy` the approval
`RunQueueApprover.mirror` keeps in 1Claw's queue with the goroutine that polls
it. The remote copy may be approved, rejected, expire or be cancelled; the
poller and the local answer race. An item abandoned at `max_runtime` goes on.

### RunHistory

Per run: the Run object (`live`), its starter (`add`: insert into the map, then
register the callback), and RunStore's callback (`cb`: write the row, then
evict). `Crash` loses everything but the table. `CheckEmpty`, `Import` and
`Load` are `NewPersistentRunStore`. Start times are given as seconds and
fraction digits so that both orders the code uses exist: `Before` (Go's
`time.Time`, used for eviction) and `TextBefore` (SQLite's order of RFC 3339
text, used for pruning and loading), which differ within a second.

### RunEvents

The two event streams. The list: `row` counts the changes a run has seen, `due`
holds those not yet told, `client` is the browser's view; a subscription comes
before the snapshot, `Add` tells after it registers, and a full channel passes a
delta over. The log: a tail replays, then subscribes; `skipped` keeps what was
appended in between or met a full buffer.

### TtlCache, Probes, Front

`TtlCache` is `ttlCache` with its generation, its flight and the background
refresh; what the answer describes is a count of changes. `Probes` is
`/api/status`, whose two probes hold a mutex over a check that may take longer
than the answer is used. `Front` is the swarm page: `GET /api/swarms` reads a
cache, the runs and the files one after another, and a run is started by page or
webhook, labelled and added by a handler while its goroutine already runs.

### Scheduler

`Field`, `Matches` and `NextFire` are `cron.go` (lists, ranges, steps, the rule for
day of month and day of week); `Wake`, `TickSwarm` and `EndTick` the loop and one
pass over the swarm files; `Paused`, `Evidence`, `Resume` the breaker over the
runs `RunStore` holds. Files are edited, become unreadable and come back, runs
overlap and end in any order, the daemon restarts and loses its fire times.

### SwarmPlan and Nesting

`SwarmPlan` translates both sides of one promise: `Plan` is `planSwarm` (order,
type of a snap along its path, join, fan-out, required inputs, collisions,
fallback, loop), `RunBot` is the runner (resolve the values along the same paths,
width, per-item call, loop, fallback) on the values bots may produce. `Nesting`
flattens swarms that nest swarms and compares the result with what the files mean
when each port is followed inward (`Behind`). A fallback is a bot with ports of its
own; `inputs`, and `stoodIn` with it, say what was handed to whom. A condition
(`when:`, `until:`) holds, does not hold, or orders a value, which may fail.

### StateDir, Watch, Secrets

`StateDir`: the daemon and a command-line run each load the table, prune rows,
workspaces and blobs at start, then run; files are shared by digest. `Watch`:
drive-watch's six steps over one remembered id, with retries, overlaps, a store
that may not answer, and death. `Secrets`: Get, Put and Delete of the encrypted
file, the identity made on first use in two steps, the save by rename.

### Workspace and Steps

`Workspace` is the directory that the tries of a retry, turns of a loop and the
fallback use one after another: the container's log, outputs and marker, the
follower and the last drain that share a tail, a kill that may fail. `Steps` is
an attempt's interpreter in a container or in process, its calls to the daemon
(`sent`, `admitted`, `asking`, `answered`), the token that dies with the
attempt, gates inside and outside, and the tool rounds of `agent.loop`.

### BotTuning, SwarmFiles, Roster

Three read-modify-write stores. `BotTuning` edits one part of a manifest and
then corrects the record of what the bot shipped with. `SwarmFiles` saves,
automates, imports and composes swarm documents into slots without a lock.
`Roster` edits the role overrides, up to three edits a request, while pulls
change the catalog and people change the file.

### Foundry, Lab, Agents, Setup

`Foundry` is a job from its worktree to the catalog, file by file. `Lab` is a
message from its log entry over routing to a delegation, and the engine
preferences with their file. `Agents` is `EnsureAgent` over a shared cached
listing and credential files. `Setup` follows a credential from the env file and
the Connect screen through two stores to the token a run is given.

## What the runs check

| run | instance | properties |
|---|---|---|
| `run_safety` | an in-process bot that writes behind its gate, a tolerated container without one; one vault lock each, one stopper; 380 thousand states | `TypeOK`, `ChannelSafe`, `NoWriteWithoutYes`, `WritesOnce`, `AnsweredOnce`, `OnlyAbandonedRevive`, `HistoryAgrees` |
| `run_ends` | one gated bot, one retry, one stopper | `StopEndsRun`, `EveryRunEnds` |
| `progress` | a diamond of four bots with one slot; up to three items, two at a time; a cache with two readers; a schedule over three minutes | `ProgressTypes`, `DagSafety`, `CacheSafety`, `FanOutSafety`, `KeepsPromise`, `SwarmReturns`, `CacheAnswers`, `BatchReturns`, `DueIsServed` |
| `records` | ten parts, see the bounds; 1 million states | `RecordsTypes`, `HistorySafety`, `StreamsFaithful`, `CatalogSafety`, `PlanKeepsTypes`, `FlattensFaithfully`, `KeptRunsWhole`, `HandedOnOnce`, `WrittenStaysReadable`, `NotTwiceAMinute`, `PauseAsMeant` |
| `desk` | eleven parts, see the bounds; 1.3 million states | `DeskTypes`, `LogAndFilesWhole`, `TunedIsOnRecord`, `HandWrittenSurvives`, `ActsAsAsked`, `OneAgentAndItsKey`, `LabFaithful`, `ConnectionsAgree`, `BoardSeesEveryEdit`, `StatusHonest`, `PageHonest` |
| `find_final` | one in-process gated bot | an abandoned attempt revives an ended run |
| `find_stopped` | one tolerated bot, one stopper | a stopped run may end succeeded |
| `find_retry` | one bot with a retry, one stopper | a stopped attempt is retried |
| `find_migration` | three runs, one crash | an interrupted import is never finished |
| `find_watch` | two swarms with drive-watch | a file is handed on again |
| `find_prune` | two processes | a run in progress loses its files |
| `find_lab` | Lab with each set of keys | a 1Claw key is not enough |

Each property is stated in words beside its definition. What they come to:

- **Approvals.** Nothing is written without a yes to that very attempt, batch or
  tool call; an answer is final; channels are never misused. (`Run`, `FanOut`,
  `Steps`)
- **Ends.** Stop ends the run though nobody answers; every run, every swarm and
  every batch returns; the outcome is a function of the verdicts. (`Run`,
  `SwarmDag`, `FanOut`)
- **Records.** Each end is recorded once, runs in progress stay in memory,
  memory is bounded, a kept run keeps its files, a stored secret decrypts, what
  is shown catches up. (`RunHistory`, `StateDir`, `Secrets`, `RunEvents`,
  `TtlCache`, `Probes`, `Front`)
- **Documents.** A run of an accepted plan meets no value of the wrong kind; a
  flattened plan has the meant wires; what a person wrote by hand and what a bot
  shipped with survive; the catalog holds what was reviewed. (`SwarmPlan`,
  `Nesting`, `SwarmFiles`, `BotTuning`, `Foundry`, `Roster`)
- **Schedules.** No second run in a minute, nothing due is forgotten, a pause has
  its failures behind it and holds. (`Scheduler`, `Watch`)

`PlanKeepsTypes` excuses what `Unchecked` names, which the planner does not look at:
a path into the output of a fanned-out bot, `when:` on a fanned-out bot, a loop's feed
of another type, and three things of a fallback: another schema, a port of the same
name and another type, a required port that the document has for the bot at most by
the bot's own default (inputs.go:360 asks only that the name exists). TLC violates the
property when any one of the six is dropped. A run may also stop over a condition that
orders what is no number. `ConnectionsAgree` speaks of services whose client id the
start has read, which the restart of docs/connections.md:25 sees to: `Setup!ConnectedRuns`
below is what happens without it.
`TunedIsOnRecord` and `OneAgentAndItsKey` speak of histories their `crossed` and
`disturbed` do not exclude. `crossed` excludes edits that overlap, a death in one and a
failed save, so that what is claimed is about edits one after another, of two halves,
with an old `fleet.json`; `disturbed` excludes a name that two calls ask for at once
or whose agent or key was lost on the way, so that what is claimed is about what
calls for other names do to the listing. What happens in the others is told below.

### What the code does not keep

Each of the seven `find_` runs states a sentence of the repository and TLC's
trace shows how it fails; `PROJECT.json` quotes them.

1. **An ended run may change.** A bot abandoned at `max_runtime` goes on
   in-process; its approve step sets `awaiting_approval` on the ended run.
   `OnlyAbandonedRevive` is the part that does hold.
2. **A stopped run may succeed.** `executeSwarm` looks at the stop flag only
   when `runDAG` fails.
3. **A stopped run may start another attempt.** `worthRetrying` does not know
   `ErrStopped`; the attempt is cut short again.
4. **An interrupted import is not resumed.** A crash between two rows leaves a
   non-empty table, which the next start takes for a finished import.
5. **A watch repeats itself** when two swarms use the same bot: one mark for both.
6. **A second process prunes a run in progress**, which is not in the table yet.
7. **Lab needs a direct key.** With a 1Claw key alone its client is a stand-in
   that nothing replaces.

Other sentences the code does not keep are stated as definitions that no run
lists; TLC violates them when they are added to the part's cfg:

| definition | the sentence, and what happens |
|---|---|
| `Run!OpenGateShows` | docs/approvals.md:7: the status is `awaiting_approval` until a decision arrives; with two gates open the first answer sets `running` |
| `Scheduler!TickLeavesNothingDue` | scheduler.go:83: a due swarm whose expression is edited into one that does not parse keeps its old fire time and wakes the loop at once, again and again |
| `Workspace!NoLineTwice` | logtail_test.go:29: a retry's tail starts at the top and logs the earlier lines again |
| `Workspace!NothingIsMeant` | wiring.go: a marker left by an earlier round ends a later one with nothing to do |
| `BotTuning!ShippedIsOriginal` | team.go:101: of two first edits at once, one may take the other's text for what was shipped |
| `SwarmFiles!NoneClobbered`, `NeverWorse` | builder.go:465, compose.go:139: two new saves of one name may take the same file; a correction that does not resolve counts as one bad snap and replaces a draft with two |
| `Agents!OneAgentPerName` | agents.go:148: two bots of a profile that start at once make two agents |
| `Lab!OneAgentPerWorktree` | workspace.go:4: two delegations to one role share its worktree |
| `Setup!TokenFollows`, `ReconnectTakes`, `NeverFalselyUnconnected` | wiring.go:175, connections.go:279 and 57: a new backend has none of the old one's tokens; a stored refresh token outlives a reconnect without one; a locked vault reads as not connected |
| `Setup!ConnectedRuns` | docs/connections.md:25 and 44: write the client id, restart, then connect. Connect does not wait for the restart: it reads the env file when the request comes (connections.go:215, 255, 296), a run what was read at the start (daemon.go:112), so that in between the screen says connected and the next run fails as not configured |
| `Nesting!LikeASingleBot`, `PathsStayPut` | docs/nested-swarms.md, resolve.go:33: a port that maps to a nested swarm's port is refused; a nested file's relative path is resolved against the outer directory |
| `Roster!CorruptFileStays` | roles.go:118: the next edit of any role writes over a corrupt file |
| `Probes!CheckShared` | server.go:314: the vault's check may outlast its TTL, and each of those who wait then checks again |
| `Front!SavedCountsRight`, `OnlyWebhookSwarms` | builder.go:417, webhooks.go:79: a listing that joins a flight from before the save shows old counts; the trigger is checked before the file is read again |

Met while reading, and not stated as formulas: `when:` together with fan-out
always fails; a `when:` or `until:` that orders a value that is no number fails the run
(condition.go:107); a loop without `feed:` runs once, where docs/loop.md:43 has it run
`max` times (execute.go:910); a fallback's required port that the bot has as optional
and unfed passes the plan and fails the run (inputs.go:360, wiring.go:76);
one quiet item of a fan-out makes the whole bot "nothing to do"
(execute.go:307-333 against run.go:142); a 1Claw copy that expires marks the run
as declined by a person (approver.go:169 against run.go:116); drive-watch
remembers before it downloads, so a failed download loses the file
(docs/memory.md:76); two processes that create the secrets identity at once lose
what the first stored (file.go:60); a copy that fails in `promote` leaves a
partial bot (docs/foundry.md:11); a torn `team.json` is replaced by the next edit
(team.go:78), and `handleTeam` reads it without the mutex; a vault locked inside
a container's tool call becomes a tool result and fails the run
(docs/connections.md:69); a blob whose write is cut short stays under its digest
(step/deps.go:40); `buildPlanResponse` lists what is invalid or unfed twice;
an error of the approvals agent is kept until the daemon restarts; prompts of Lab
go unguarded with a direct key; a delegation's answer clears the busy sign of
another message (docs/lab.md:190); writers of the env file overwrite each other;
X's rotated refresh token is not stored.

### Bounds

Every bound is a constant with "bound:" beside it.

- `Run`: `Tries` and `Relocks` bound the attempts of a bot, `Stoppers` the presses
  of Stop. Pressing twice differs from once only in sweeping twice, and a gate
  listed between the sweeps behaves like one listed after the first. Two bots
  suffice for races on the shared status. Relocks = 1 lets an attempt find the
  vault locked before and after its write.
- `SwarmDag`: one slot for four bots makes every bot compete, with a retry, two
  fallbacks, two `when:` and one tolerated bot.
- `FanOut`: three items and two slots: one item must wait for another's slot, and
  two meet at the gate.
- `TtlCache`: two requests, the refresh and one changer with one change: a flight
  from before a change, a joiner and a later caller.
- `Scheduler`: three minutes around midnight between a Saturday and the first of
  a month, so that day of month and day of week both decide; two failures pause,
  two runs are kept, so a third evicts evidence; one edit, one restart.
- `RunHistory`: cap two with five runs evicts and prunes in memory and in the
  table; two refusable rows, two crashes, two legacy files. `StateDir`: two
  processes, three starts, two runs that share one digest, one kept.
- `RunEvents`: a buffer of one is full after one delta; four log entries.
- `Foundry`: two jobs and two bot ids, one of them shipped. `Secrets`: five
  calls over two keys in one process, two deaths. `Watch`: two files in a folder,
  two runs, a retry.
- `SwarmPlan`: three bots; every chain over the listed port types, paths and
  joins; every middle bot with its `when:`, loop and `until:`, or with a fallback whose
  ports agree with its own or differ in type, schema or need; every graph of at most
  three snaps; lists up to two long. `Nesting`: three files two deep.
- `MCDesk`: two of everything that can meet (requests, messages, tabs, starters,
  rounds, roles, bots of one profile), one fault of each kind. In `Probes` a tick
  stands for seconds: only the order of TTL and timeout matters, and one probe has
  it each way. `Setup` has one env-file write at a time.

The composites say `CHECK_DEADLOCK FALSE`, because the requests, runs and calls
of their bounds are used up and nothing is left to do; the two runs of `Run` and
their three violations check deadlock, with the rest state spelled out (`Idle`).

### Fairness

Goroutines that can run do (`WF` per worker, bot, executor, item, reader; the Go
scheduler is fair in this sense). Operations that are bounded by a deadline end:
an attempt's steps carry timeouts, and a fetch returns or fails. Nothing is
assumed of people, of `max_runtime`, of the vault or of 1Claw, so `StopEndsRun`
holds though nobody answers and no timer fires. `EveryRunEnds` assumes in its own
statement that approval timers fire, and `FanOut` that the gate's does.
`SwarmDag` needs `SF` for taking a slot: Go serves the senders blocked on a
channel in order, so nobody is passed over for ever. The scheduler's loop is one
fair goroutine; runs need not end and files need not be repaired.

## What is proved

Every safety invariant a run checks, and every action property, is a theorem for
all values of the constants: any bots, graph, retries, runs, requests, crashes,
lists. So are the type invariants of all parts. The assumptions are the ASSUMEs
beside the constants, and the runs evaluate all of them: natural numbers, subsets
of each other, finite `Bots` and `Runs` where a count is taken, a calendar that
has a minute, a probe's TTL that is positive, a swarm file with a slot, and names
that are no markers (no viewer is called "nobody", no agent "none", no instruction
text is "never recorded"). Four theorems say more of when they hold:

- `SecretsReadable` has `OneProcess`: the store's mutex is a process's, and two
  processes that write one file overwrite each other;
- `WatchHandsOnOnce` has `Program = DriveWatch`, the steps of
  `bots/drive-watch` as `Watch` writes them down (`RecordsSafe`, which has both
  of them among its parts, takes both conditions over);
- `DagNeverStuck` has `Acyclic`: in every set of bots one reads from none of them.
  The planner's topological sort refuses other swarms, so no run has another;
- properties that excuse a history name it themselves (`crossed`, `disturbed`,
  `upset`, `overlapped`, `exposed`, `killFaults`): the theorem is about the rest.

Liveness itself is out of the prover's reach, and so is ENABLED. What is proved
of it is the half that needs no fairness, in two theorems per part:
- *counted*: each worker, bot, item, loop or call has a number of steps left that
  each of its own steps lowers and that nobody else raises (`RunCounted`,
  `DagStepsCounted`, `BatchCounted`, the second half of `CacheNeverStuck`). Retries and
  fallbacks cannot go round for ever;
- *never stuck*: until the end is reached somebody can take a step, or what is
  waited for is named (`RunHeldByGatesOnly`, `DagNeverStuck`, `BatchNeverStuck`,
  `CacheNeverStuck`). That a step can be taken is said by predicates (`BotCan`,
  `CanGo`, `ItemCan`, ...) that repeat the guards of the actions.

Together they leave the goroutines' fairness, the approval timers and the answers
of the outside as the only reasons why a run could fail to end; TLC checks, with
fairness, that it does end.

No property is inductive as it stands. Each proof is an inductive invariant, one
lemma for each action or group of actions, and a last step that concludes the
property. The invariants, and why they are needed:

**RunProofs** - `RunTypeOK`, `RunChannelSafe`, `RunNoWriteWithoutYes`,
`RunAnsweredOnce`, `RunOnlyAbandonedRevive`, `RunWritesOnce`, `RunHistoryAgrees`,
`RunHeldByGatesOnly`, `RunCounted`.
The invariant `IInv` adds
- `LocksBounded`: a bot about to wait for the vault has a wait left, which keeps
  the attempt number within `Attempts`;
- `AnswersTraced`: a yes is followed from the person to the channel, to the
  waiter's local, to the step behind the gate; a worker that has not reached its
  gate has no gate state. Without it, an answer in a buffer would be anybody's;
- `AttemptsLeft`: attempts not yet reached are unused, attempts left behind have
  returned or are abandoned;
- `EndOrder`: the executor moves only when every bot is done and is the only one
  to end the run.

From the last two it follows that whoever changes the status of an ended run is
an abandoned worker, which is `RunOnlyAbandonedRevive`. `RunWritesOnce` and
`RunHistoryAgrees` carry, beside `IInv`, that a bot that writes has one
attempt (`OneWriter`), and that a failure has its reason before it shows
(`FailureExplained`). `RunHeldByGatesOnly` is about lost wake-ups: `WaitInv` says that
a waiter is on the approvals list or its channel is closed, that a decided one has
its answer in the channel, and that the attempt a bot waits for is running. So no
sweep, timeout or answer leaves a waiter behind, and what holds up a run that has
not ended is an open gate of a current attempt; after Stop, nothing does.

**SwarmDagProofs** - `DagTypeOK`, `DagSlotsBalanced`, `DagInputsReady`,
`DagFailuresRecorded`, `DagDecisionsFinal`, their conjunction `DagSafe`, and the
refinement `DagKeepsPromise`. `DagInv` says of each bot what its place implies:
which outputs, verdict, error and books it has (`BotInv`), and of the run what
`didWork`, `quiet` and `fatal` say about the bots (`Flags`), and counts the
slots (`Counts`). Every action touches one bot, so a step is proved once for the
bot that moves and once for all the others (`OwnBot`, `OtherBots`). The
refinement maps `CloseDone` to `Decide`, `Return` to `Conclude` and every other
action to a stutter. `DagStepsCounted` counts a bot's places and its retries
(at most `2 * Retry + 12` steps). `DagNeverStuck` picks, among the bots not yet done,
one that reads from none of the others: it is not waiting for an upstream bot, and
if it waits for a slot and all are taken, `DagInv`'s count of the slots gives a bot
that holds one and can go on.

**ProgressProofs** - of `TtlCache`: `CacheInvariant`, `CacheSafe`, `CacheTypes`.
The heart is `GenerationTells`: while the generation a fetch began under is the
cache's, the fetch has seen every change announced, so the one comparison in
`finish` decides rightly. Of `FanOut`: `FanOutInvariant`, `FanOutSafe`,
`SlotsBalance`, `FanOutTypes`. `LoopInOrder` and `ItemsInPlace` say what the loop's
and each item's place imply, `GateInv` that whoever is asking holds the batch's
mutex and that a yes or no, local or remote, came from the one question. The
slots are counted by cardinality: one for each running item and one for the item
about to start. `CacheNeverStuck` rests on `FlightInv` (a flight is up while its owner
fetches, and whoever joined waits for an owner on its way to land it),
`BatchNeverStuck` on `MutexInv` (the batch's mutex is held by the item that asks, and
while it asks there is a question) and on `SlotsBalance`. `ProgressTyped` and
`ProgressSafe` are about the composite `MCProgress`. Composites are proved by one
lemma each, here `EachProgresses`: a step is one of one part and leaves the others
alone, so a behaviour of the composite is a behaviour of each part, and the parts'
theorems hold of it.

**SchedulerProofs** - `SchedInvariant`, `FiresOnce`, `BreakerHolds`,
`SchedTypes`, over any calendar, swarm files, edits and restarts. `FiredBefore`: a
swarm that has fired is next due later than the minute it fired in. That the
breaker remembers the Resume it answered (`resumed = saved`) is what makes a
pause mean what it says.

**RecordsProofs** -
- `HistoryTypeOK`, `HistoryRecordedOnce`, `HistoryInProgressListed`,
  `HistoryMemoryBounded` and their conjunction `HistorySafe`. `HistoryInv` relates
  the Run object, its starter, its callback and its row (`RunStands`): a run has
  been reported exactly if it has ended and its starter has registered. `BoundInv`
  strengthens the bound: an end yet to be dealt with is the only excuse for memory
  over the cap, since every eviction leaves `Cap` runs or only those in progress;
- `SecretsReadable` (`ReadIsCurrent`: what a call has read is still so, by the
  mutex; `VaultOpens`: the file is absent or encrypted for the identity on disk,
  by the order of the two writes);
- `EventsFaithful` (`SnapshotSoFar`: each run the snapshot has read is told or is
  still to be; for the log, what a tail shows is in order and what it lacks was
  skipped);
- `StateKeepsRuns` (`StateInv`: a run is whole from its start, unless a start-up
  swept past it, so its row is);
- `WatchHandsOnOnce` (`Undisturbed`, `Abreast`: how a run at each step stands to
  the one id that is remembered);
- `FoundrySafe`, `FoundryTypes` (`JobSound`: what a job is past says what it has;
  `Placed`, `Stands`: whose files are in the catalog, and who is kept out);
- `SecretsTypes`, `EventsTypes`, `StateTypes`, `WatchTyped`, and `RecordsTyped`,
  `RecordsSafe` of the composite `MCRecords` (`EachIsKept`), with plans, nesting and
  the scheduler from their own proofs. A part that does not run stands in one of
  its own initial states (`IdleAssumption`, which TLC evaluates).

**PlanProofs** - `PlansKeepTypes`, for any bots and documents, ports and paths of
any depth and lists of any length. `PlanInv` says that the outputs of a checked
run are of the types of their ports (`OutValues`: one level more for a bot that is
fanned out) and that all that was handed on was good. What carries it from the
planner to the runner is said by lemmas about the operators the two are written
with: `PathSound` (where the type checker follows a path, the runner meets a
value of the type the checker finds, or a list that is too short), `JoinSound`,
`AlongSound` (what a bot is fanned out over is a list), `RunnerFits` (whoever runs, bot
or fallback, is handed what its port takes and gives what the bot's gives). They go
through the levels of list by induction, as the least counterexample of a
well-founded order; that each recursive function of the module is one is proved the
same way.

`FlatteningFaithful` is about `Nesting`, for any files that name each other. The
code flattens from the inside out; `Faithful` says what the files mean, level by
level from the outside in. Downwards, `AllFit`: if the outer file flattens, so does
the file at each level, its wires end at its bots, and no two levels are the same
file, so that there are fewer levels than files (the pigeonhole principle). Upwards,
`AllFaithful`: the last level is what it means (`LastFaithful`), and a level is if
the next one is (`InlinedFaithful`), because what a name means does not change when
one node moves from the place it is looked up at to the name (`InsideNext`), and a
boundary port is looked up one level further down (`BoundaryMeans`). `MaxNest` may be
any number: what it stops is refused. `PlanTypes` and `NestTypes` type the two.

**DeskProofs** -
- `RosterShowsEdits` (`ReadUnderLock`: a request that edits holds the mutex and
  what it read is what the file says);
- `ProbesHonest` (`AsOldAsSaid`, `StagesAgree`, and `FreeIsFresh`: whoever finds a
  short probe's mutex free finds a fresh answer, or has only just asked);
- `FrontHonest` (`CacheKnows`: cache and flight know the files whose last save
  has returned; `StartSound`: a run is labelled before it is listed);
- `LabKeepsFaith` (`TalkSound`: the last turn a message's goroutine has seen is
  its own; `EngineInv`: the engines in memory are what the file gives);
- `TuningRecorded` (`Alone`: while edits did not cross, each stage of the one
  edit says how the record stands to the manifest, also between its two writes);
- `HandWrittenKept` (`Faithful`, of what is on disk and of what any save is about
  to put there, so that a save may die or be overtaken in between);
- `ConnectionsHold` (`PressSound`, `LinkSound`: a login under way is for a provider, and
  what this start called connected is in the store it reads from);
- `RosterTypes`, `ProbesTypes`, `FrontTypes`, `LabTypes`, `TuningTypes`,
  `FilesTypes`, `SetupTypes`, and `DeskTyped`, `DeskSafe` of the composite `MCDesk`
  (`EachPartBehaves`).

**BotProofs** -
- `StepsAsAsked`: `Asked` counts the yes answers of an attempt against the gates
  behind it and keeps one for whoever is about to write; `LateOnce`: an attempt
  in a container that is over has no token, so at most the call that was already
  admitted still acts; `Conversation`: each request of a model is followed by as
  many results as it has calls, or is the last and the rest is still to come;
- `WorkReachesRun`: a tail has logged, in order, exactly what it has consumed
  (`ReadOn`, `OnTheLog`), which its mutex keeps true for the follower and the
  last drain together; the last drain has read all its round wrote (`Drained`);
  while no kill failed one container is alive (`OneAlive`), so an output that is
  no longer to be written is this round's (`FilesHold`);
- `AgentsKeyed`: for each name that is undisturbed, one call at a time asks for it
  (`OneCall`), the listing it decides by has its agent though calls for other
  names fill and drop the listing (`ListingKnows`), and the key on disk is the
  agent's once nobody is storing it (`AgentAndKey`);
- `StepsTypes`, `WorkTypes`, `AgentsTypes`.

Only model-checked:
- liveness (`StopEndsRun`, `EveryRunEnds`, `SwarmReturns`, `CacheAnswers`,
  `BatchReturns`, `DueIsServed`): that under fairness the steps that can be taken
  are taken;
- that the `...Can` predicates above are what ENABLED is: they were compared with it
  on the instances of the runs, and no run repeats that;
- the violations.

## Not modelled

- The egress proxy and the container network: a stateless filter and command
  lines. What of them can fail is the failing `Prepare` of `Workspace`.
- HTTP to providers, 1Claw and models: a call answers or fails.
- A call from a container that fails on the way, or after the client's 35 minutes
  (remote.go:46), while the daemon's handler goes on: `Steps` ends a call when its
  handler has answered. That a tool's operation does what its `writes:` declares is
  not enforced by the code, and `Steps` takes the declaration for it.
- Memory back ends and recall beyond the one value `Watch` keeps.
- Parsing, packaging and sharing of YAML documents, the wording of remedies, roles
  and descriptions, time zones of the scheduler, installation as a service.
- The web interface and the command line's own screens.
- A second overlapping write of the env file, and a second process in `Secrets`
  and `Agents`; their effects are told above.

## Left to do

1. `Memory`: the stores behind `memory.*`, the import of local files, and the
   choice between them.
2. `Run` composed with `SwarmDag`, so that a fallback after an abandoned write is
   one behaviour.
