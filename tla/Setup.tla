------------------------------- MODULE Setup -------------------------------
(***************************************************************************)
(* Credentials from set-up to a bot's call: the env file that `nanobots    *)
(* init` and Settings write (oneclaw/client.go, cmd init.go, api/setup.go),*)
(* the daemon's start that reads it and picks a backend (daemon.go,        *)
(* wiring.go), the Connect screens that store a token (api/connections.go, *)
(* oauth2pkce) and the token sources a run reads it with (step/*_live.go). *)
(***************************************************************************)
EXTENDS Integers, FiniteSets

CONSTANTS
    Connects,   \* bound: how often somebody presses Connect
    Starts,     \* bound: how often the daemon is started again
    Saves,      \* bound: writes of the env file
    Sessions    \* bots whose run asks for a token

Pasted == {"slack"}              \* staticTokenServices
OAuth  == {"google", "linkedin"} \* and x, which is as google
Services == Pasted \cup OAuth
EnvKeys == {"ONECLAW_API_KEY"} \cup OAuth   \* a provider's client id and secret
Paths == Services \cup {"linkedin_access"}  \* where a secret is kept
NoToken == 0
Tokens == NoToken..Connects
Press == 1..Connects

ASSUME SetupAssumption == {Connects, Starts, Saves} \subseteq Nat

VARIABLES
    env,        \* the keys in the env file
    writer,     \* a WriteEnvValue of `nanobots init`, of Settings
    boot,       \* what the running daemon read: its keys; and how many starts
    local, vault,\* the encrypted local file, the 1Claw vault
    locked,     \* the vault wants a passkey
    connect,    \* each press of Connect
    linked,     \* the last token each service was told it is connected with, and at which start
    session,    \* a bot's token source
    status,     \* the list the Connect screen was last given
    saves

setupVars == <<env, writer, boot, local, vault, locked, connect, linked, session, status, saves>>

Writers == {"init", "settings"}
NotWriting == [at |-> "idle", key |-> "ONECLAW_API_KEY", lines |-> {}]
Unpressed == [at |-> "new", service |-> "slack"]
FreshSource == [service |-> "slack", token |-> NoToken, said |-> "nothing"]
Unread == [s \in Services |-> "unread"]

SetupInit ==
    /\ env \in SUBSET EnvKeys
    /\ writer = [w \in Writers |-> NotWriting]
    /\ boot = [keys |-> env, n |-> 0]
    /\ local = [p \in Paths |-> NoToken] /\ vault = [p \in Paths |-> NoToken]
    /\ locked = FALSE /\ connect = [c \in Press |-> Unpressed]
    /\ linked = [s \in Services |-> [token |-> NoToken, n |-> 0]]
    /\ session = [b \in Sessions |-> FreshSource] /\ status = Unread
    /\ saves = 0

\* oc.Configured().
OneClaw == "ONECLAW_API_KEY" \in boot.keys

-----------------------------------------------------------------------------
(* The env file.                                                           *)

\* WriteEnvValue, after the key was tried against 1Claw: read every line,
\* change one, write the whole file.
ReadLines(w) ==
    /\ writer[w].at = "idle" /\ saves < Saves /\ saves' = saves + 1
    /\ \E k \in EnvKeys : /\ w = "settings" => k = "ONECLAW_API_KEY"
                          \* init leaves a 1Claw key that is there alone.
                          /\ w = "init" => k \notin env
                          /\ writer' = [writer EXCEPT ![w] = [at |-> "read", key |-> k, lines |-> env]]
    /\ UNCHANGED <<env, boot, local, vault, locked, connect, linked, session, status>>
WriteLines(w) ==
    /\ writer[w].at = "read"
    /\ writer' = [writer EXCEPT ![w] = NotWriting]
    /\ \/ env' = writer[w].lines \cup {writer[w].key}
       \/ env' = env     \* could not be opened
       \/ env' = {}      \* truncated, and not written
    /\ UNCHANGED <<boot, local, vault, locked, connect, linked, session, status, saves>>

\* daemon build: everything is read once.  With a key, a vault that can not
\* be reached ends the start.
Start ==
    /\ boot.n < Starts
    /\ boot' = [keys |-> env, n |-> boot.n + 1]
    /\ connect' = [c \in Press |-> IF connect[c].at \in {"waiting", "exchanging"} THEN [connect[c] EXCEPT !.at = "over"]
                                     ELSE connect[c]]
    /\ session' = [b \in Sessions |-> FreshSource] /\ status' = Unread
    /\ UNCHANGED <<env, writer, local, vault, locked, linked, saves>>

-----------------------------------------------------------------------------
(* Connect.                                                                *)

\* BuildSecretsStore, NANOBOTS_SECRETS unset.
Backend == IF OneClaw THEN "vault" ELSE "file"
Kept(p) == IF p \in Pasted /\ Backend = "file" THEN local[p] ELSE vault[p]
Readable(p) == (p \in Pasted /\ Backend = "file") \/ ~locked

Store(p, token) ==
    IF p \in Pasted /\ Backend = "file"
    THEN local' = [local EXCEPT ![p] = token] /\ UNCHANGED vault
    ELSE ~locked /\ vault' = [vault EXCEPT ![p] = token] /\ UNCHANGED local

Linked(c, s) == linked' = [linked EXCEPT ![s] = [token |-> c, n |-> boot.n]]

\* handleConnectToken: stored, the status list's cache dropped, and answered.
Paste(c) ==
    /\ connect[c].at = "new" /\ (\A d \in 1..(c - 1) : connect[d].at # "new")
    /\ \E s \in Pasted : /\ Store(s, c) /\ Linked(c, s)
                         /\ connect' = [connect EXCEPT ![c] = [at |-> "over", service |-> s]]
    /\ status' = Unread
    /\ UNCHANGED <<env, writer, boot, locked, session, saves>>

\* handleConnect*Start: refused without the 1Claw key of the start, or without
\* a client id in the env file as it is now; else the request waits for the
\* browser, up to five minutes.
BeginOAuth(c) ==
    /\ connect[c].at = "new" /\ (\A d \in 1..(c - 1) : connect[d].at # "new")
    /\ \E s \in OAuth : /\ OneClaw /\ s \in env
                        /\ connect' = [connect EXCEPT ![c] = [at |-> "waiting", service |-> s]]
    /\ UNCHANGED <<env, writer, boot, local, vault, locked, linked, session, status, saves>>
\* The browser comes back with a code, for the first request the loopback
\* server is sent.
Redirected(c) ==
    /\ connect[c].at = "waiting" /\ connect' = [connect EXCEPT ![c].at = "exchanging"]
    /\ UNCHANGED <<env, writer, boot, local, vault, locked, linked, session, status, saves>>
\* LinkedIn may answer without a refresh token, and its access token is kept.
Approved(c) ==
    /\ connect[c].at = "exchanging"
    /\ LET s == connect[c].service
       IN /\ \/ Store(s, c)
             \/ s = "linkedin" /\ Store("linkedin_access", c)
          /\ Linked(c, s)
    /\ connect' = [connect EXCEPT ![c].at = "over"] /\ status' = Unread
    /\ UNCHANGED <<env, writer, boot, locked, session, saves>>
\* Denied, timed out, a redirect that is not this attempt's, no token, or a
\* vault that is locked.
NotApproved(c) ==
    /\ connect[c].at \in {"waiting", "exchanging"} /\ connect' = [connect EXCEPT ![c].at = "over"]
    /\ UNCHANGED <<env, writer, boot, local, vault, locked, linked, session, status, saves>>

\* Somebody's passkey policy, in 1Claw.
Lock == locked' = ~locked /\ UNCHANGED <<env, writer, boot, local, vault, connect, linked, session, status, saves>>

-----------------------------------------------------------------------------
(* Reading it back.                                                        *)

\* serviceConnected: whatever goes wrong is "not connected".
WithoutFallback(s) == Readable(s) /\ Kept(s) # NoToken
ServiceConnected(s) ==
    /\ s \in Pasted \/ OneClaw
    /\ \/ Readable(s) /\ Kept(s) # NoToken
       \/ s = "linkedin" /\ Readable(s) /\ Kept("linkedin_access") # NoToken
ReadStatus ==
    /\ status' = [s \in Services |-> IF ServiceConnected(s) THEN "connected" ELSE "not connected"]
    /\ UNCHANGED <<env, writer, boot, local, vault, locked, connect, linked, session, saves>>

\* Token(): the secret is read once per run, its access token minted from it
\* again and again; LinkedIn's own access token is read when there is no
\* refresh token.  The client id is the one of the start (ServiceConfigs).
Configured(s) == s \in OAuth => OneClaw /\ s \in boot.keys
Says(b, s, said, token) == session' = [session EXCEPT ![b] = [service |-> s, said |-> said, token |-> token]]
NeedsToken(b, s) ==
    /\ session[b].token = NoToken /\ (session[b].said = "nothing" \/ s = session[b].service)
    /\ UNCHANGED <<env, writer, boot, local, vault, locked, connect, linked, status, saves>>
ReadToken(b, s) ==
    \/ Readable(s) /\ Kept(s) # NoToken /\ Says(b, s, "token", Kept(s))
    \/ ~Readable(s) /\ Says(b, s, "locked", NoToken)
    \/ Readable(s) /\ Kept(s) = NoToken /\ Says(b, s, "no account", NoToken)
PastedToken(b, s) == s \in Pasted /\ NeedsToken(b, s) /\ ReadToken(b, s)
GoogleToken(b) ==
    /\ NeedsToken(b, "google")
    /\ IF Configured("google") THEN ReadToken(b, "google") ELSE Says(b, "google", "not configured", NoToken)
LinkedInToken(b) ==
    /\ NeedsToken(b, "linkedin") /\ session[b].said # "second read"
    /\ \/ ~Configured("linkedin") /\ Says(b, "linkedin", "not configured", NoToken)
       \/ Configured("linkedin")
             /\ IF Readable("linkedin") /\ Kept("linkedin") # NoToken
                THEN Says(b, "linkedin", "token", Kept("linkedin"))
                ELSE Says(b, "linkedin", "second read", NoToken)
SecondRead(b) ==
    /\ session[b].said = "second read"
    /\ IF Readable("linkedin") /\ Kept("linkedin_access") # NoToken
       THEN Says(b, "linkedin", "token", Kept("linkedin_access"))
       ELSE \E said \in {"locked", "no account"} : Says(b, "linkedin", said, NoToken)  \* by the first read
    /\ UNCHANGED <<env, writer, boot, local, vault, locked, connect, linked, status, saves>>

SetupNext ==
    \/ \E w \in Writers : ReadLines(w) \/ WriteLines(w)
    \/ Start \/ Lock \/ ReadStatus
    \/ \E c \in Press : Paste(c) \/ BeginOAuth(c) \/ Redirected(c) \/ Approved(c) \/ NotApproved(c)
    \/ \E b \in Sessions : GoogleToken(b) \/ LinkedInToken(b) \/ SecondRead(b)
                          \/ \E s \in Services : PastedToken(b, s)

SetupSpec == SetupInit /\ [][SetupNext]_setupVars

-----------------------------------------------------------------------------
SetupTypeOK ==
    /\ env \subseteq EnvKeys /\ boot.keys \subseteq EnvKeys /\ boot.n \in 0..Starts
    /\ \A w \in Writers : writer[w].at \in {"idle", "read"} /\ writer[w].lines \subseteq EnvKeys
    /\ local \in [Paths -> Tokens] /\ vault \in [Paths -> Tokens] /\ locked \in BOOLEAN
    /\ connect \in [Press -> [at : {"new", "waiting", "exchanging", "over"}, service : Services]]
    /\ linked \in [Services -> [token : Tokens, n : 0..Starts]]
    /\ session \in [Sessions -> [service : Services, token : Tokens,
                       said : {"nothing", "not configured", "second read", "locked", "no account", "token"}]]
    /\ status \in [Services -> {"unread", "connected", "not connected"}] /\ saves \in 0..Saves

\* What a run that starts now is given, with the vault open.
Given(s) ==
    IF ~Configured(s) THEN NoToken
    ELSE IF Kept(s) # NoToken THEN Kept(s)
    ELSE IF s = "linkedin" THEN Kept("linkedin_access") ELSE NoToken

\* The Connect screen and the bots read credentials in code of their own, and
\* agree about which services have one (connections.go serviceConnected,
\* step/*_live.go Token).
StatusMatchesBots ==
    ~locked => \A s \in Services : Configured(s) => (ServiceConnected(s) <=> Given(s) # NoToken)

\* A service this start has said is connected is what the next run reads,
\* whatever has become of the env file since, provided the start has the
\* service's client id: one written later is enough for Connect, not for a run,
\* and docs/connections.md:25 has people restart before they connect
\* (connections.go, wiring.go BuildSecretsStore, BuildServiceConfigs).
ConnectedIsGiven ==
    \A s \in Services \ {"linkedin"} :
        linked[s].token # NoToken /\ linked[s].n = boot.n /\ Configured(s) => Given(s) = linked[s].token

\* What the Connect screen says of a service is what a run will find
\* (connections.go, wiring.go, step/*_live.go).
ConnectionsAgree == StatusMatchesBots /\ ConnectedIsGiven

\* A service connected in this start has a token for its runs. Not so when the
\* client id was written since the start: Connect reads the env file as it is,
\* a run what was read once (connections.go:215, 255, 296; daemon.go:112).
ConnectedRuns == \A s \in Services : linked[s].token # NoToken /\ linked[s].n = boot.n => Given(s) # NoToken

\* wiring.go:175-177: the default is chosen "rather than silently splitting
\* one install's credentials across two places".
TokenFollows == \A s \in Pasted : linked[s].token # NoToken => Given(s) # NoToken

\* connections.go:279-281: without a refresh token "the access token itself
\* is stored instead, used as-is until it expires".
ReconnectTakes ==
    linked["linkedin"].token # NoToken /\ linked["linkedin"].n = boot.n
        => Given("linkedin") = linked["linkedin"].token

\* connections.go:57-59: claiming "not connected" about something that is "is the
\* failure mode this codebase cares most about".
NeverFalselyUnconnected ==
    \A s \in Services : status[s] = "not connected" /\ Configured(s) => Given(s) = NoToken
=============================================================================
