------------------------------ MODULE Foundry ------------------------------
(***************************************************************************)
(* The foundry of internal/foundry: a job lets a coding agent author one   *)
(* bot in a git worktree, checks what the agent touched, asks a person,    *)
(* and copies the bot into the catalog, file by file, where it is checked  *)
(* again. Jobs run side by side and share nothing but the catalog, which   *)
(* each reads once at its start and once more before it copies.            *)
(*                                                                         *)
(* A bot is two files. What conformance says of a whole bot is open; a bot *)
(* that lacks a file does not conform.                                     *)
(***************************************************************************)
EXTENDS Integers, FiniteSets

CONSTANTS
    Jobs,     \* foundry jobs
    Bots,     \* bot ids an agent may pick
    Shipped,  \* the ids the catalog starts with
    MaxIter,  \* Config.MaxIterations
    MaxTries  \* bound: conform attempts an agent makes

ASSUME FoundryAssumption ==
    /\ Shipped \subseteq Bots
    /\ MaxIter \in Nat /\ MaxTries \in Nat
    /\ "nobody" \notin Jobs /\ "us" \notin Jobs

Files == {"definition", "rest"}
Outside == "outside"   \* a path that is not below bots/<id>
NoBot == "none"
Owners == Jobs \cup {"nobody", "us"}

VARIABLES
    job,        \* each Job, and where its goroutine is
    catalog,    \* each directory of BotsDir: is it there, who wrote each file
    overlapped  \* history: jobs that copied one id during the same time

foundryVars == <<job, catalog, overlapped>>

JobRecord == [
    pc : {"off", "setup", "work", "verify", "conform", "review", "stat", "copy",
          "recheck", "clean", "done"},
    status : {"pending", "running", "awaiting_approval", "succeeded", "failed"},
    outcome : {"none", "promoted", "rejected", "conform_failed", "sandbox_violation", "timeout"},
    listed : SUBSET Bots, worktree : BOOLEAN, touched : SUBSET (Bots \cup {Outside}),
    tries : 0..MaxTries, queue : 0..MaxTries, iterations : 0..MaxTries, over : BOOLEAN,
    agent : {"working", "ok", "error"}, bot : Bots \cup {NoBot}, conformOK : BOOLEAN,
    approved : BOOLEAN, left : SUBSET Files]

FoundryTypeOK ==
    /\ job \in [Jobs -> JobRecord]
    /\ catalog \in [Bots -> [dir : BOOLEAN, by : [Files -> Owners]]]
    /\ overlapped \subseteq Jobs

NoDir == [dir |-> FALSE, by |-> [f \in Files |-> "nobody"]]

FoundryInit ==
    /\ job = [j \in Jobs |-> [
           pc |-> "off", status |-> "pending", outcome |-> "none", listed |-> {}, worktree |-> FALSE,
           touched |-> {}, tries |-> 0, queue |-> 0, iterations |-> 0, over |-> FALSE,
           agent |-> "working", bot |-> NoBot, conformOK |-> FALSE, approved |-> FALSE,
           left |-> Files]]
    /\ catalog = [b \in Bots |-> IF b \in Shipped
                                   THEN [dir |-> TRUE, by |-> [f \in Files |-> "us"]] ELSE NoDir]
    /\ overlapped = {}

At(j, pc) == job[j].pc = pc
Becomes(j, now) == job' = [job EXCEPT ![j] = now]
Fails(j, now) == Becomes(j, [now EXCEPT !.pc = "done", !.status = "failed"])
Ends(j, outcome) == Fails(j, [job[j] EXCEPT !.outcome = outcome])
SameCatalog == UNCHANGED <<catalog, overlapped>>

-----------------------------------------------------------------------------
(* The sandbox and the agent.                                              *)

StartJob(j) ==
    /\ At(j, "off")
    /\ Becomes(j, [job[j] EXCEPT !.pc = "setup", !.status = "running"])
    /\ SameCatalog

\* existingBotIDs, createWorktree and the registration with 1Claw, whose
\* failure is only logged.
Setup(j) ==
    /\ At(j, "setup")
    /\ \/ Ends(j, "none")
       \/ Becomes(j, [job[j] EXCEPT !.pc = "work", !.worktree = TRUE,
                                    !.listed = {b \in Bots : catalog[b].dir}])
    /\ SameCatalog

\* The agent writes somewhere in the worktree, tries conform, and ends: on its
\* own, or because its context was cancelled or ran out of time.
AgentTouches(j) ==
    /\ At(j, "work") /\ job[j].agent = "working" /\ Cardinality(job[j].touched) < 2
    /\ \E p \in Bots \cup {Outside} : Becomes(j, [job[j] EXCEPT !.touched = @ \cup {p}])
    /\ SameCatalog

AgentConforms(j) ==
    /\ At(j, "work") /\ job[j].agent = "working" /\ job[j].tries < MaxTries
    /\ Becomes(j, [job[j] EXCEPT !.tries = @ + 1, !.queue = @ + 1])
    /\ SameCatalog

AgentEnds(j) ==
    /\ At(j, "work") /\ job[j].agent = "working"
    /\ \E how \in {"ok", "error"} : Becomes(j, [job[j] EXCEPT !.agent = how])
    /\ SameCatalog

\* drainEvents counts an event; the select may still prefer one after the
\* agent has ended.
DrainEvent(j) ==
    /\ At(j, "work") /\ job[j].queue > 0
    /\ Becomes(j, [job[j] EXCEPT !.queue = @ - 1, !.iterations = @ + 1,
                                 !.over = @ \/ job[j].iterations + 1 > MaxIter])
    /\ SameCatalog

\* What is still buffered is logged and not counted. Whether the wall clock
\* had run out is open.
DrainDone(j) ==
    /\ At(j, "work") /\ job[j].agent # "working"
    /\ LET now == [job[j] EXCEPT !.queue = 0]
       IN IF job[j].agent = "ok" THEN Becomes(j, [now EXCEPT !.pc = "verify"])
          ELSE \E late \in BOOLEAN :
                  Fails(j, [now EXCEPT !.outcome = IF job[j].over \/ late THEN "timeout" ELSE "none"])
    /\ SameCatalog

-----------------------------------------------------------------------------
(* The checks and the review.                                              *)

\* verifySandbox: one bot, that the catalog did not have when the job began.
OneBot(j, b) == b \in Bots /\ b \in job[j].touched
InSandbox(j, b) == job[j].touched = {b} /\ b \in Bots /\ b \notin job[j].listed

Verify(j) ==
    /\ At(j, "verify")
    /\ \/ \E b \in job[j].touched :
             InSandbox(j, b) /\ Becomes(j, [job[j] EXCEPT !.pc = "conform", !.bot = b])
       \/ (\A b \in job[j].touched : ~InSandbox(j, b)) /\ Ends(j, "sandbox_violation")
    /\ SameCatalog

\* RunConformance in the worktree, then loadPreview, then the question.
Conform(j) ==
    /\ At(j, "conform")
    /\ \/ Ends(j, "conform_failed")
       \/ Fails(j, [job[j] EXCEPT !.conformOK = TRUE])
       \/ Becomes(j, [job[j] EXCEPT !.conformOK = TRUE, !.pc = "review",
                                    !.status = "awaiting_approval"])
    /\ SameCatalog

\* Approved, declined, or nobody answered for a day.
Approved(j) ==
    Becomes(j, [job[j] EXCEPT !.approved = TRUE, !.pc = "stat", !.status = "running"])
Rejected(j) == Ends(j, "rejected")
Review(j) ==
    /\ At(j, "review")
    /\ \/ Approved(j)
       \/ Rejected(j)
       \/ Ends(j, "none")
    /\ SameCatalog

-----------------------------------------------------------------------------
(* promote.                                                                *)

Copying(b) == {k \in Jobs : job[k].pc \in {"copy", "recheck"} /\ job[k].bot = b}

GoesAhead(j) ==
    LET others == Copying(job[j].bot)
    IN /\ Becomes(j, [job[j] EXCEPT !.pc = "copy"])
       /\ overlapped' = overlapped \cup (IF others = {} THEN {} ELSE others \cup {j})

\* os.Stat, which may itself fail.
Stat(j) ==
    /\ At(j, "stat")
    /\ \/ Ends(j, "none") /\ UNCHANGED overlapped
       \/ ~catalog[job[j].bot].dir /\ GoesAhead(j)
    /\ UNCHANGED catalog

\* copyDir creates the directory again should it have gone. An error leaves
\* what was copied.
CopyFile(j) ==
    /\ At(j, "copy")
    /\ \E f \in job[j].left :
          /\ catalog' = [catalog EXCEPT ![job[j].bot].dir = TRUE, ![job[j].bot].by[f] = j]
          /\ Becomes(j, [job[j] EXCEPT !.left = @ \ {f},
                                       !.pc = IF job[j].left = {f} THEN "recheck" ELSE "copy"])
    /\ UNCHANGED overlapped

CopyFails(j) == At(j, "copy") /\ Ends(j, "none") /\ SameCatalog

Whole(b) == \A f \in Files : catalog[b].by[f] # "nobody"

Recheck(j) ==
    /\ At(j, "recheck")
    /\ \/ /\ Whole(job[j].bot)
          /\ Becomes(j, [job[j] EXCEPT !.pc = "clean"])
          /\ UNCHANGED catalog
       \/ /\ catalog' = [catalog EXCEPT ![job[j].bot] = NoDir]
          /\ Ends(j, "none")
    /\ UNCHANGED overlapped

\* removeWorktree may fail, which is only logged.
FinishJob(j) ==
    /\ At(j, "clean")
    /\ \E stays \in BOOLEAN :
          Becomes(j, [job[j] EXCEPT !.pc = "done", !.worktree = stays, !.outcome = "promoted",
                                    !.status = "succeeded"])
    /\ SameCatalog

FoundryStep(j) ==
    \/ StartJob(j) \/ Setup(j) \/ AgentTouches(j) \/ AgentConforms(j) \/ AgentEnds(j)
    \/ DrainEvent(j) \/ DrainDone(j) \/ Verify(j) \/ Conform(j) \/ Review(j)
    \/ Stat(j) \/ CopyFile(j) \/ CopyFails(j) \/ Recheck(j) \/ FinishJob(j)
FoundryNext == \E j \in Jobs : FoundryStep(j)

-----------------------------------------------------------------------------
(* Properties.                                                             *)

\* Whatever a job has put into the catalog is the one bot that job authored,
\* under an id the catalog did not ship, conformed, and was approved by a
\* person: a catalog bot nobody looked at would run with real credentials.
NothingUnreviewed ==
    \A b \in Bots, f \in Files, j \in Jobs :
        catalog[b].by[f] = j =>
            /\ job[j].approved /\ job[j].conformOK
            /\ job[j].touched = {b} /\ b \notin Shipped

\* A promoted bot stays as it was reviewed: no other job replaces or rolls
\* back what a job that succeeded has copied, unless both copied that id
\* during the same time.
PromotedStands ==
    \A j \in Jobs \ overlapped :
        job[j].status = "succeeded" => \A f \in Files : catalog[job[j].bot].by[f] = j

\* The catalog holds what a person approved, as it was approved
\* (promote.go, orchestrate.go).
CatalogSafety == NothingUnreviewed /\ PromotedStands
=============================================================================
