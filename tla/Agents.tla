------------------------------- MODULE Agents -------------------------------
(***************************************************************************)
(* The 1Claw agents bots run as: oneclaw/agents.go (EnsureAgent and its    *)
(* cached listing), oneclaw/state.go (the credential files), the callers   *)
(* runner/execute.go agentFor and runner/approvalagent.go, and `nanobots   *)
(* agents --prune`.  An agent's key is shown once, when it is created.     *)
(***************************************************************************)
EXTENDS Integers, FiniteSets

CONSTANTS
    Bots,        \* bots of the catalog
    Profile,     \* the agent name of each: bots of one guardrail profile share it
    Approvals,   \* the name of the one agent that asks for approvals
    EnsureCalls, \* bound: how often an agent is asked for
    MaxAgents,   \* the plan's cap
    Prunes,      \* bound: agents deleted, by `--prune` or in the 1Claw app
    NetFaults,   \* bound: requests that fail
    Stops        \* bound: how often the daemon dies

Names == {Profile[b] : b \in Bots} \cup {Approvals}

ASSUME AgentsAssumption ==
    /\ DOMAIN Profile = Bots /\ Approvals \notin {Profile[b] : b \in Bots}
    /\ {EnsureCalls, MaxAgents, Prunes, NetFaults, Stops} \subseteq Nat

Ensure == 1..EnsureCalls
Ids == 1..EnsureCalls
None == 0
CutOff == EnsureCalls + 1  \* a credential file that holds no credential
Listings == SUBSET (Ids \X Names)

VARIABLES
    remote,      \* 1Claw: the agents there are, <<id, name>>
    fresh,       \* the next id
    listing,     \* Client.agents, when `listed`
    listed,
    credential,  \* the id each name's credential file is for
    ensure,      \* each call
    gateAgent,   \* Orchestrator: whether it has the approvals agent, or an error
    disturbed,   \* history: names asked for twice at once, or whose agent or
                 \* key was lost on the way
    prunes, netFaults, stops

agentVars == <<remote, fresh, listing, listed, credential, ensure, gateAgent, disturbed,
               prunes, netFaults, stops>>

Unstarted == [at |-> "new", name |-> Approvals, seen |-> {}, id |-> None]
Pending(e) == ensure[e].at \notin {"new", "over"}

AgentsInit ==
    /\ remote = {} /\ fresh = 1 /\ listing = {} /\ listed = FALSE
    /\ credential = [n \in Names |-> None] /\ ensure = [e \in Ensure |-> Unstarted]
    /\ gateAgent = "unknown" /\ disturbed = {}
    /\ prunes = 0 /\ netFaults = 0 /\ stops = 0

EnsureOver(e) == [ensure EXCEPT ![e].at = "over", ![e].seen = {}]
Disturb(n) == disturbed' = disturbed \cup {n}

-----------------------------------------------------------------------------
(* Who asks.                                                               *)

\* agentFor: a bot that uses a model, memory or a binding.
\* approvalAgent: the first gate that opens, under a mutex, and never again;
\* an error is remembered like an agent.
Asking(e, n) ==
    /\ ensure[e].at = "new" /\ (\A f \in 1..(e - 1) : ensure[f].at # "new")
    /\ ensure' = [ensure EXCEPT ![e].at = "list", ![e].name = n]
    /\ IF \E f \in Ensure : Pending(f) /\ ensure[f].name = n THEN Disturb(n) ELSE UNCHANGED disturbed
    /\ UNCHANGED <<remote, fresh, listing, listed, credential, gateAgent, prunes, netFaults, stops>>
AgentFor(e) == \E b \in Bots : Asking(e, Profile[b])
ApprovalAgent(e) ==
    /\ gateAgent = "unknown" /\ \A f \in Ensure : ~(Pending(f) /\ ensure[f].name = Approvals)
    /\ Asking(e, Approvals)

\* A call returns; a gate's outcome is kept.
Returns(e, how) ==
    /\ ensure' = EnsureOver(e)
    /\ gateAgent' = IF ensure[e].name = Approvals THEN how ELSE gateAgent

-----------------------------------------------------------------------------
(* EnsureAgent.                                                            *)

\* listAgentsCached holds agentsMu over the request, so what it stores is
\* never older than an invalidation that has returned.
ListAgents(e) ==
    /\ ensure[e].at = "list"
    /\ \/ /\ listed /\ ensure' = [ensure EXCEPT ![e].at = "load", ![e].seen = listing]
          /\ UNCHANGED <<listing, listed, gateAgent, netFaults>>
       \/ /\ ~listed /\ listing' = remote /\ listed' = TRUE
          /\ ensure' = [ensure EXCEPT ![e].at = "load", ![e].seen = remote]
          /\ UNCHANGED <<gateAgent, netFaults>>
       \/ /\ ~listed /\ netFaults < NetFaults /\ netFaults' = netFaults + 1
          /\ Returns(e, "error") /\ UNCHANGED <<listing, listed>>
    /\ UNCHANGED <<remote, fresh, credential, disturbed, prunes, stops>>
\* agentListTTL has passed.
Forget ==
    /\ listed /\ listed' = FALSE /\ listing' = {}
    /\ UNCHANGED <<remote, fresh, credential, ensure, gateAgent, disturbed, prunes, netFaults, stops>>

\* credentialPath: a file for each name.
OneFile(n) == Approvals
CredentialPath(n) == n

\* A saved credential is used while its agent is listed; an agent of this
\* name without its key cannot be, and is not made twice.
Found(e) == credential[CredentialPath(ensure[e].name)] \in {a[1] : a \in ensure[e].seen}
Taken(e) == ensure[e].name \in {a[2] : a \in ensure[e].seen}
LoadCredential(e) ==
    /\ ensure[e].at = "load"
    /\ IF credential[CredentialPath(ensure[e].name)] = CutOff THEN Returns(e, "error")
       ELSE CASE Found(e) -> Returns(e, "known")
              [] ~Found(e) /\ Taken(e) -> Returns(e, "error")
              [] ~Found(e) /\ ~Taken(e) -> ensure' = [ensure EXCEPT ![e].at = "create"] /\ UNCHANGED gateAgent
    /\ UNCHANGED <<remote, fresh, listing, listed, credential, disturbed, prunes, netFaults, stops>>

\* AsAgentLimit: the plan's cap.
AtCap == Cardinality(remote) >= MaxAgents
\* A request that fails may have made the agent, whose key is then lost, while
\* the listing stays as it was.
CreateAgent(e) ==
    /\ ensure[e].at = "create"
    /\ LET made == remote \cup {<<fresh, ensure[e].name>>}
       IN \/ /\ ~AtCap /\ remote' = made /\ fresh' = fresh + 1
             /\ ensure' = [ensure EXCEPT ![e].at = "invalidate", ![e].id = fresh, ![e].seen = {}]
             /\ UNCHANGED <<gateAgent, disturbed, netFaults>>
          \/ /\ AtCap /\ Returns(e, "error")
             /\ UNCHANGED <<remote, fresh, disturbed, netFaults>>
          \/ /\ netFaults < NetFaults /\ netFaults' = netFaults + 1 /\ Returns(e, "error")
             /\ \/ UNCHANGED <<remote, fresh, disturbed>>
                \/ /\ ~AtCap /\ remote' = made /\ fresh' = fresh + 1
                   /\ Disturb(ensure[e].name)
    /\ UNCHANGED <<listing, listed, credential, prunes, stops>>

\* invalidateAgentCache.
Invalidated == listed' = FALSE /\ listing' = {}
Invalidate(e) ==
    /\ ensure[e].at = "invalidate" /\ Invalidated
    /\ ensure' = [ensure EXCEPT ![e].at = "save"]
    /\ UNCHANGED <<remote, fresh, credential, gateAgent, disturbed, prunes, netFaults, stops>>

\* saveAgentCredential empties the file and fills it, or fails.
SaveCredential(e) ==
    /\ LET n == ensure[e].name
       IN \/ /\ ensure[e].at = "save" /\ credential' = [credential EXCEPT ![CredentialPath(n)] = CutOff]
             /\ ensure' = [ensure EXCEPT ![e].at = "fill"] /\ UNCHANGED <<gateAgent, disturbed>>
          \/ /\ ensure[e].at = "fill" /\ credential' = [credential EXCEPT ![CredentialPath(n)] = ensure[e].id]
             /\ Returns(e, "known") /\ UNCHANGED disturbed
          \/ /\ ensure[e].at = "save" /\ Returns(e, "error") /\ Disturb(n) /\ UNCHANGED credential
    /\ UNCHANGED <<remote, fresh, listing, listed, prunes, netFaults, stops>>

-----------------------------------------------------------------------------
(* What else happens to agents.                                            *)

\* `--prune` deletes an agent and then its credential file; the app deletes
\* the agent alone.  Neither tells the daemon.
Prune ==
    /\ prunes < Prunes /\ prunes' = prunes + 1
    /\ \E a \in remote :
          /\ remote' = remote \ {a} /\ Disturb(a[2])
          /\ \/ credential' = [credential EXCEPT ![a[2]] = None]
             \/ UNCHANGED credential
    /\ UNCHANGED <<fresh, listing, listed, ensure, gateAgent, netFaults, stops>>

DaemonStops ==
    /\ stops < Stops /\ stops' = stops + 1
    /\ disturbed' = disturbed \cup {ensure[e].name : e \in {f \in Ensure : Pending(f)}}
    /\ ensure' = [e \in Ensure |-> IF Pending(e) THEN EnsureOver(e)[e] ELSE ensure[e]]
    /\ listing' = {} /\ listed' = FALSE /\ gateAgent' = "unknown"
    /\ UNCHANGED <<remote, fresh, credential, prunes, netFaults>>

AgentsNext ==
    \/ \E e \in Ensure :
          \/ AgentFor(e) \/ ApprovalAgent(e) \/ ListAgents(e) \/ LoadCredential(e)
          \/ CreateAgent(e) \/ Invalidate(e) \/ SaveCredential(e)
    \/ Forget \/ Prune \/ DaemonStops

AgentsSpec == AgentsInit /\ [][AgentsNext]_agentVars

-----------------------------------------------------------------------------
AgentsTypeOK ==
    /\ remote \in Listings /\ listing \in Listings /\ listed \in BOOLEAN
    /\ credential \in [Names -> Ids \cup {None, CutOff}]
    /\ gateAgent \in {"unknown", "known", "error"} /\ disturbed \subseteq Names
    /\ \A e \in Ensure :
          /\ ensure[e].at \in {"new", "list", "load", "create", "invalidate", "save", "fill", "over"}
          /\ ensure[e].name \in Names /\ ensure[e].seen \in Listings

\* agents.go: EnsureAgent "finds an agent by name, or creates one if none
\* exists".  A name nobody asked for twice at once, and whose agent and key
\* arrived, has one agent and its key, in whatever order the calls for other
\* names filled and dropped the shared listing.
OneAgentAndItsKey ==
    \A n \in Names \ disturbed :
        LET made == {a[1] : a \in {b \in remote : b[2] = n}}
        IN (\A e \in Ensure : ~(Pending(e) /\ ensure[e].name = n))
              => Cardinality(made) <= 1 /\ (made # {} => credential[n] \in made)

\* The same whenever nothing failed: two bots of a profile that start at once.
OneAgentPerName ==
    netFaults = 0 /\ prunes = 0 /\ stops = 0 =>
        \A a, b \in remote : a[2] = b[2] => a = b
=============================================================================
