------------------------------- MODULE MCDesk -------------------------------
(* What people do at the desk and what bots do in their box: containers and *)
(* their files, step calls, 1Claw agents, edits of bots and swarms, the    *)
(* role library, connections, Lab, the status bar and the swarm page.  The *)
(* parts share no state, so each behaviour is one of the part that Init    *)
(* picks.                                                                  *)
EXTENDS Workspace, BotTuning, SwarmFiles, Steps, Agents, Lab, Setup, Roster, Probes, Front, TLC

CONSTANT Subjects  \* parts that are run

VARIABLE subject

deskVars == <<subject, workVars, tuningVars, fileVars, stepVars, agentVars, labVars, setupVars,
              rosterVars, probeVars, frontVars>>

-----------------------------------------------------------------------------
MCOriginal == [p \in Parts |-> "v0"]

\* A schedule someone wrote by hand.
MCByHand == 1 :> [type |-> "cron", expr |-> "7 am", zone |-> "America/Chicago"]

\* A gated send after a read, a tool loop, and the steps that stop, ask and
\* bound one.
MCPrograms == {<<"read", "gate", "send">>, <<"loop">>, <<"stop", "ask", "bound", "soft", "local">>}
MCTurns == {<<>>, <<"reads", "writes", "undeclared">>}

\* Two bots of one guardrail profile share an agent.
MCProfile == "triage" :> "redact" @@ "digest" :> "redact"

\* `docker version` is given up within its probe's TTL, a request to 1Claw
\* after it.
MCTtl == "docker" :> 2 @@ "vault" :> 2
MCCheck == "docker" :> 1 @@ "vault" :> 3

-----------------------------------------------------------------------------
\* A part that does not run has one initial state.
DeskInit ==
    /\ subject \in Subjects
    /\ TuningInit /\ (subject = "tuning" \/ (manifest = MCOriginal /\ team.is = "map"))
    /\ StepsInit /\ (subject = "steps" \/ (program = <<"loop">> /\ mode = "container"))
    /\ LabInit /\ (subject = "lab" \/ keys = {})
    /\ SetupInit /\ (subject = "setup" \/ env = {})
    /\ RosterInit /\ (subject = "roster" \/ \A r \in Roles : catalog.of[r] = Initially)
    /\ FrontInit /\ (subject \in {"cards", "starts"} \/ yaml = NoYaml)
    /\ WorkInit /\ FilesInit /\ AgentsInit /\ ProbesInit

DeskNext ==
    \/ subject = "work" /\ WorkNext
         /\ UNCHANGED <<subject, tuningVars, fileVars, stepVars, agentVars, labVars, setupVars,
                         rosterVars, probeVars, frontVars>>
    \/ subject = "tuning" /\ TuningNext
         /\ UNCHANGED <<subject, workVars, fileVars, stepVars, agentVars, labVars, setupVars,
                         rosterVars, probeVars, frontVars>>
    \/ subject = "files" /\ FilesNext
         /\ UNCHANGED <<subject, workVars, tuningVars, stepVars, agentVars, labVars, setupVars,
                         rosterVars, probeVars, frontVars>>
    \/ subject = "steps" /\ StepsNext
         /\ UNCHANGED <<subject, workVars, tuningVars, fileVars, agentVars, labVars, setupVars,
                         rosterVars, probeVars, frontVars>>
    \/ subject = "agents" /\ AgentsNext
         /\ UNCHANGED <<subject, workVars, tuningVars, fileVars, stepVars, labVars, setupVars,
                         rosterVars, probeVars, frontVars>>
    \/ subject = "lab" /\ LabNext
         /\ UNCHANGED <<subject, workVars, tuningVars, fileVars, stepVars, agentVars, setupVars,
                         rosterVars, probeVars, frontVars>>
    \/ subject = "setup" /\ SetupNext
         /\ UNCHANGED <<subject, workVars, tuningVars, fileVars, stepVars, agentVars, labVars,
                         rosterVars, probeVars, frontVars>>
    \/ subject = "roster" /\ RosterNext
         /\ UNCHANGED <<subject, workVars, tuningVars, fileVars, stepVars, agentVars, labVars,
                         setupVars, probeVars, frontVars>>
    \/ subject = "probes" /\ ProbesNext
         /\ UNCHANGED <<subject, workVars, tuningVars, fileVars, stepVars, agentVars, labVars,
                         setupVars, rosterVars, frontVars>>
    \/ subject = "cards" /\ CardsNext
         /\ UNCHANGED <<subject, workVars, tuningVars, fileVars, stepVars, agentVars, labVars,
                         setupVars, rosterVars, probeVars>>
    \/ subject = "starts" /\ StartsNext
         /\ UNCHANGED <<subject, workVars, tuningVars, fileVars, stepVars, agentVars, labVars,
                         setupVars, rosterVars, probeVars>>

DeskSpec == DeskInit /\ [][DeskNext]_deskVars

\* The types of the part that runs; the others keep their initial values.
DeskTypes ==
    /\ subject = "work"   => WorkTypeOK
    /\ subject = "tuning" => TuningTypeOK
    /\ subject = "files"  => FilesTypeOK
    /\ subject = "steps"  => StepsTypeOK
    /\ subject = "agents" => AgentsTypeOK
    /\ subject = "lab"    => LabTypeOK
    /\ subject = "setup"  => SetupTypeOK
    /\ subject = "roster" => RosterTypeOK
    /\ subject = "probes" => ProbesTypeOK
    /\ subject \in {"cards", "starts"} => FrontTypeOK

\* What tells two states apart: the variables of the part that runs.
DeskView ==
    CASE subject = "work"   -> <<subject, workVars>>
      [] subject = "tuning" -> <<subject, tuningVars>>
      [] subject = "files"  -> <<subject, fileVars>>
      [] subject = "steps"  -> <<subject, stepVars>>
      [] subject = "agents" -> <<subject, agentVars>>
      [] subject = "lab"    -> <<subject, labVars>>
      [] subject = "setup"  -> <<subject, setupVars>>
      [] subject = "roster" -> <<subject, rosterVars>>
      [] subject = "probes" -> <<subject, probeVars>>
      [] subject \in {"cards", "starts"} -> <<subject, frontVars>>
=============================================================================
