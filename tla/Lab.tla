-------------------------------- MODULE Lab --------------------------------
(***************************************************************************)
(* The Lab chat and the Team work it delegates (lab/, team/, api/lab.go,   *)
(* api/labengines.go).  Every message is a goroutine of its own over one   *)
(* conversation; a delegation runs a coding agent in its role's persistent *)
(* git worktree and folds what it streamed into one answer.                *)
(***************************************************************************)
EXTENDS Integers, Sequences, FiniteSets

CONSTANTS
    Messages,   \* what the human ever posts
    Staff,      \* roles the model may delegate to
    Chunks,     \* bound: text events one agent streams
    Choices,    \* bound: how often Settings changes an engine
    Boots       \* bound: how often the daemon restarts

Engines == {"claude", "gemini"}
NoEngine == "no engine"
AllKeys == {"1claw"} \cup Engines

ASSUME LabAssumption == {Chunks, Choices, Boots} \subseteq Nat /\ "none" \notin Staff

VARIABLES
    keys,       \* the keys the running daemon was started with
    said,       \* Session.history, restated in every prompt
    talk,       \* each message's goroutine
    worktree,   \* each role's
    engine,     \* team.Preferences in memory
    saved,      \* and its file
    changes, boots

labVars == <<keys, said, talk, worktree, engine, saved, changes, boots>>

\* A bare "lab" entry is the answer, one with a step is on the way to it.
Unsaid == [at |-> "new", seen |-> <<>>, role |-> "none", with |-> NoEngine, offer |-> FALSE,
           sent |-> 0, text |-> 0, end |-> "none", bare |-> 0]

\* daemon build: the engine used when nobody chose one.
Fallback(k) == IF "claude" \in k THEN "claude" ELSE IF "gemini" \in k THEN "gemini" ELSE NoEngine
Unchosen == [is |-> "absent"]
Torn == [is |-> "torn"]  \* a save that failed midway
NoOverrides == [r \in Staff |-> NoEngine]

\* NewPreferences: a file that is missing or unreadable means the fallback.
PrefsFrom(file, k) ==
    IF file.is # "whole" THEN [def |-> Fallback(k), roles |-> NoOverrides]
    ELSE [def |-> IF file.pref.def = NoEngine THEN Fallback(k) ELSE file.pref.def,
          roles |-> file.pref.roles]

LabInit ==
    /\ keys \in SUBSET AllKeys
    /\ said = <<>> /\ talk = [m \in Messages |-> Unsaid]
    /\ worktree = [r \in Staff |-> "absent"]
    /\ engine = PrefsFrom(Unchosen, keys) /\ saved = Unchosen
    /\ changes = 0 /\ boots = 0

Moves(m, at) == talk' = [talk EXCEPT ![m].at = at]

-----------------------------------------------------------------------------
(* One message.                                                            *)

\* handleLabMessage answers 202 and HandleMessage goes on in the background:
\* it logs the message, and takes it into the history later.
PostMessage(m) ==
    /\ talk[m].at = "new" /\ Moves(m, "logged")
    /\ UNCHANGED <<keys, said, worktree, engine, saved, changes, boots>>

\* The turn and the copy of the history the prompt restates are one step
\* under the session's lock.
SeenFirst(before, after) == before
Seen(before, after) == after
Hear(m) ==
    /\ talk[m].at = "logged"
    /\ said' = Append(said, [who |-> "human", of |-> m])
    /\ talk' = [talk EXCEPT ![m].at = "routing", ![m].seen = Seen(said, said')]
    /\ UNCHANGED <<keys, worktree, engine, saved, changes, boots>>

\* BuildLLM: with a 1Claw key the generator is a DeferredShroud whose
\* fallback is the first direct key; only a bot's run and the composer put
\* the real Shroud client in its place.
Generates(k) == k \cap Engines # {}
HasGenerator(k) == k # {}

\* appendLab: the answer's log entry; the history learns of it afterwards.
Answer(m, how) == talk' = [talk EXCEPT ![m].at = "answered", ![m].end = how, ![m].bare = @ + 1]

\* EngineFor: a role's own engine, else the default.
OverrideOnly(r) == engine.roles[r]
EngineFor(r) == IF engine.roles[r] # NoEngine THEN engine.roles[r] ELSE engine.def

Route(m) ==
    /\ talk[m].at = "routing"
    /\ \/ ~HasGenerator(keys) /\ Answer(m, "no model")
       \/ HasGenerator(keys) /\ ~Generates(keys) /\ Answer(m, "no model")
       \/ HasGenerator(keys) /\ Generates(keys)
             /\ \/ Answer(m, "undecided")      \* the call failed, or it was no decision
                \/ Answer(m, "chat")           \* answer, status
                \/ Moves(m, "composing")
                \/ engine.def = NoEngine /\ Answer(m, "no engine")
                \/ \E r \in Staff :
                      /\ engine.def # NoEngine
                      /\ talk' = [talk EXCEPT ![m].at = "preparing", ![m].role = r,
                                                 ![m].with = EngineFor(r)]
    /\ UNCHANGED <<keys, said, worktree, engine, saved, changes, boots>>

\* automate: ComposeAndSaveAutomation's result, gap or error.
Composed(m) ==
    /\ talk[m].at = "composing" /\ Answer(m, "composed")
    /\ UNCHANGED <<keys, said, worktree, engine, saved, changes, boots>>

Remember(m) ==
    /\ talk[m].at = "answered"
    /\ said' = Append(said, [who |-> "lab", of |-> m]) /\ Moves(m, "over")
    /\ UNCHANGED <<keys, worktree, engine, saved, changes, boots>>

-----------------------------------------------------------------------------
(* A delegation.                                                           *)

\* team.Run: without the engine's key nothing is prepared.  EnsureWorkspace
\* takes a worktree that is there as it is; else it has git make one, which
\* fails when another delegation's did meanwhile.
PrepareWork(m) ==
    LET r == talk[m].role
    IN /\ talk[m].at = "preparing"
       /\ \/ talk[m].with \notin keys /\ Answer(m, "problem") /\ UNCHANGED worktree
          \/ talk[m].with \in keys /\ worktree[r] = "absent" /\ Moves(m, "adding") /\ UNCHANGED worktree
          \/ talk[m].with \in keys /\ worktree[r] = "there" /\ UNCHANGED worktree
                /\ (Moves(m, "working") \/ Answer(m, "problem"))  \* the build or the image
    /\ UNCHANGED <<keys, said, engine, saved, changes, boots>>
AddWorktree(m) ==
    LET r == talk[m].role
    IN /\ talk[m].at = "adding"
       /\ \/ worktree[r] = "absent" /\ worktree' = [worktree EXCEPT ![r] = "there"]
             /\ (Moves(m, "working") \/ Answer(m, "problem"))
          \/ Answer(m, "problem") /\ UNCHANGED worktree
    /\ UNCHANGED <<keys, said, engine, saved, changes, boots>>

\* The container's next line of text, offered on an unbuffered channel:
\* RunDockerAgent reads nothing further until it is taken.
Blocked(m) == talk[m].offer
Offer(m) ==
    /\ talk[m].at = "working" /\ ~talk[m].offer /\ talk[m].sent < Chunks
    /\ talk' = [talk EXCEPT ![m].offer = TRUE, ![m].sent = @ + 1]
    /\ UNCHANGED <<keys, said, worktree, engine, saved, changes, boots>>
\* consumeDelegation logs and accumulates what it takes.
Take(m) ==
    /\ talk[m].at = "working" /\ talk[m].offer
    /\ talk' = [talk EXCEPT ![m].offer = FALSE, ![m].text = @ + 1]
    /\ UNCHANGED <<keys, said, worktree, engine, saved, changes, boots>>
\* The container has exited and team.Run's error, or nil, is received.
Finish(m) ==
    /\ talk[m].at = "working" /\ ~Blocked(m)
    /\ (Answer(m, "reported") \/ Answer(m, "problem"))
    /\ UNCHANGED <<keys, said, worktree, engine, saved, changes, boots>>

-----------------------------------------------------------------------------
(* Settings, and the daemon's restart.                                     *)

\* A choice is written through, and put back when the file could not be.
PutBack(old, new) == old
Choose(new) ==
    /\ changes < Choices /\ changes' = changes + 1
    /\ \/ engine' = new /\ saved' = [is |-> "whole", pref |-> new]
       \/ engine' = PutBack(engine, new) /\ saved' \in {saved, Torn}
    /\ UNCHANGED <<keys, said, talk, worktree, boots>>
\* Only an engine with a key; a role's override may also be cleared.
ChooseDefault == \E e \in Engines \cap keys : Choose([engine EXCEPT !.def = e])
ChooseRole(r) == \E e \in (Engines \cap keys) \cup {NoEngine} : Choose([engine EXCEPT !.roles[r] = e])

\* The conversation lives in memory only; keys are read again.
Restart ==
    /\ boots < Boots /\ boots' = boots + 1
    /\ keys' \in SUBSET AllKeys
    /\ engine' = PrefsFrom(saved, keys') /\ said' = <<>>
    /\ talk' = [m \in Messages |-> IF talk[m].at = "new" THEN Unsaid
                                   ELSE [Unsaid EXCEPT !.at = "gone"]]
    /\ UNCHANGED <<worktree, saved, changes>>

LabNext ==
    \/ \E m \in Messages :
          \/ PostMessage(m) \/ Hear(m) \/ Route(m) \/ Composed(m) \/ Remember(m)
          \/ PrepareWork(m) \/ AddWorktree(m) \/ Offer(m) \/ Take(m) \/ Finish(m)
    \/ ChooseDefault \/ Restart
    \/ \E r \in Staff : ChooseRole(r)

LabSpec == LabInit /\ [][LabNext]_labVars

-----------------------------------------------------------------------------
LabTypeOK ==
    /\ keys \subseteq AllKeys
    /\ said \in Seq([who : {"human", "lab"}, of : Messages])
    /\ \A m \in Messages :
          /\ talk[m].at \in {"new", "logged", "routing", "composing", "preparing", "adding", "working",
                            "answered", "over", "gone"}
          /\ talk[m].seen \in Seq([who : {"human", "lab"}, of : Messages])
          /\ talk[m].role \in Staff \cup {"none"}
          /\ talk[m].with \in IF talk[m].role = "none" THEN {NoEngine} ELSE Engines
          /\ talk[m].sent \in 0..Chunks /\ talk[m].text \in 0..Chunks
    /\ worktree \in [Staff -> {"absent", "there"}]
    /\ engine \in [def : Engines \cup {NoEngine}, roles : [Staff -> Engines \cup {NoEngine}]]
    /\ saved.is \in {"absent", "torn", "whole"}
    /\ changes \in 0..Choices /\ boots \in 0..Boots

\* The prompt's "the human just said" is the message it decides about,
\* whatever else was said meanwhile; a history copied apart from its append
\* would route one message twice and another never (lab.go:146-149).
RoutesItsOwn ==
    \A m \in Messages : talk[m].at = "routing" =>
        talk[m].seen # <<>> /\ talk[m].seen[Len(talk[m].seen)] = [who |-> "human", of |-> m]

\* The answer to a delegation holds everything its agent said: the agent's
\* end can not overtake its last words (lab.go consumeDelegation).
SummaryWhole ==
    \A m \in Messages : talk[m].end = "reported" => talk[m].text = talk[m].sent

\* What Settings shows in force is what the next start would load, unless a
\* save was torn: a refused change may not stay in memory
\* (preferences.go:118-125, 141-153).
EngineSurvivesRestart == saved # Torn => engine = PrefsFrom(saved, keys)

\* Lab decides about the message it was sent, tells all its agent said, and
\* keeps the engines it shows (lab.go, preferences.go).
LabFaithful == RoutesItsOwn /\ SummaryWhole /\ EngineSurvivesRestart

\* lab.go:157: "set ONECLAW_API_KEY, or one of ANTHROPIC_API_KEY /
\* OPENAI_API_KEY / GEMINI_API_KEY (see docs/llm.md), then talk to me again".
AnyKeyWillDo == \A m \in Messages : talk[m].end = "no model" => keys = {}

\* workspace.go:4-6: "exactly one Team harness (Claude Code) against exactly
\* one role at a time".
OneAgentPerWorktree ==
    \A m, n \in Messages : talk[m].at = "working" /\ talk[n].at = "working" /\ talk[m].role = talk[n].role
                            => m = n
=============================================================================
