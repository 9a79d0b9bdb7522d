------------------------------ MODULE Secrets ------------------------------
(***************************************************************************)
(* internal/secrets/file.go: credentials encrypted with an age identity    *)
(* that lies beside them. A call reads the identity, makes one if there is *)
(* none, reads the store, and for Put and Delete writes it back, all under *)
(* the process's own mutex. The process may die at any step; what reached  *)
(* the disk stays.                                                         *)
(***************************************************************************)
EXTENDS Integers, FiniteSets

CONSTANTS
    Holders,    \* processes that use the directory
    Calls,      \* Calls[c] is [at : Holders, key : ..., op : "put" | "delete" | "get"]
    SecretKeys, \* e.g. slack/bot_token
    Deaths      \* bound: how often a process dies

VARIABLES
    ageKey,   \* secrets.age-key: absent, torn, or the call that generated it
    vault,    \* secrets.age: absent, torn, or what was encrypted for which identity
    held,     \* held[p]: the call that has p's mutex, or nobody
    call,     \* call[c]: how far c has come, the identity and the map it has read
    stored,   \* history: keys whose last acknowledged change was a Put
    deaths

secretVars == <<ageKey, vault, held, call, stored, deaths>>

Absent == "absent"
Torn == "torn"
Nobody == "nobody"
Callers == DOMAIN Calls
VaultFile(k, m) == [by |-> k, map |-> m]
NoFile == VaultFile(Absent, {})
Garbled == VaultFile(Torn, {})
KeyOf(c) == Calls[c].key

ASSUME SecretsAssumption ==
    /\ \A c \in Callers : Calls[c].at \in Holders /\ KeyOf(c) \in SecretKeys
    /\ {Absent, Torn, Nobody} \cap Callers = {}
    /\ Deaths \in Nat

SecretsInit ==
    /\ ageKey = Absent /\ vault = NoFile
    /\ held = [p \in Holders |-> Nobody]
    /\ call = [c \in Callers |-> [pc |-> "new", id |-> Absent, map |-> {}]]
    /\ stored = {} /\ deaths = 0

SecretsTypeOK ==
    /\ ageKey \in Callers \cup {Absent, Torn} /\ vault.by \in Callers \cup {Absent, Torn}
    /\ vault.map \subseteq SecretKeys /\ stored \subseteq SecretKeys
    /\ \A p \in Holders : held[p] # Nobody => call[held[p]].pc \notin {"new", "done"}
    /\ \A c \in Callers : call[c].pc \notin {"new", "done"} => held[Calls[c].at] = c

CallAt(c, pc) == call' = [call EXCEPT ![c].pc = pc]
EndCall(c) ==
    /\ call' = [call EXCEPT ![c] = [pc |-> "done", id |-> Absent, map |-> {}]]
    /\ held' = [held EXCEPT ![Calls[c].at] = Nobody]

\* f.mu, and identity() reading the key file.
LockFile(c) ==
    /\ call[c].pc = "new" /\ held[Calls[c].at] = Nobody
    /\ held' = [held EXCEPT ![Calls[c].at] = c] /\ CallAt(c, "identity")
    /\ UNCHANGED <<ageKey, vault, stored, deaths>>

ReadIdentity(c) ==
    /\ call[c].pc = "identity"
    /\ CASE ageKey = Torn -> EndCall(c)
         [] ageKey = Absent -> CallAt(c, "generate") /\ UNCHANGED held
         [] OTHER -> call' = [call EXCEPT ![c].pc = "load", ![c].id = ageKey] /\ UNCHANGED held
    /\ UNCHANGED <<ageKey, vault, stored, deaths>>

\* os.WriteFile truncates the file and then fills it.
TruncateKey(c) ==
    /\ call[c].pc = "generate"
    /\ ageKey' = Torn /\ CallAt(c, "fill")
    /\ UNCHANGED <<vault, held, stored, deaths>>

FillKey(c) ==
    /\ call[c].pc = "fill"
    /\ ageKey' = c /\ call' = [call EXCEPT ![c].pc = "load", ![c].id = c]
    /\ UNCHANGED <<vault, held, stored, deaths>>

\* load: no store is an empty one; one that does not decrypt is an error.
LoadVault(c) ==
    /\ call[c].pc = "load"
    /\ IF vault.by \notin {Absent, call[c].id} \/ Calls[c].op = "get"
         THEN EndCall(c)
         ELSE /\ call' = [call EXCEPT ![c].pc = "save", ![c].map =
                             IF Calls[c].op = "put" THEN vault.map \cup {KeyOf(c)} ELSE vault.map \ {KeyOf(c)}]
              /\ UNCHANGED held
    /\ UNCHANGED <<ageKey, vault, stored, deaths>>

SaveInPlace(c) ==
    /\ call[c].pc = "save" /\ vault' = Garbled /\ CallAt(c, "rename")
    /\ UNCHANGED <<ageKey, held, stored, deaths>>

\* save writes the temporary file, which nobody reads.
SaveTemp(c) ==
    /\ call[c].pc = "save" /\ CallAt(c, "rename")
    /\ UNCHANGED <<ageKey, vault, held, stored, deaths>>

\* os.Rename, and the call returns.
RenameTemp(c) ==
    /\ call[c].pc = "rename"
    /\ vault' = VaultFile(call[c].id, call[c].map)
    /\ stored' = IF Calls[c].op = "put" THEN stored \cup {KeyOf(c)} ELSE stored \ {KeyOf(c)}
    /\ EndCall(c)
    /\ UNCHANGED <<ageKey, deaths>>

Die(p) ==
    /\ deaths < Deaths /\ deaths' = deaths + 1
    /\ call' = [c \in Callers |-> IF Calls[c].at = p /\ call[c].pc # "new"
                                  THEN [pc |-> "done", id |-> Absent, map |-> {}] ELSE call[c]]
    /\ held' = [held EXCEPT ![p] = Nobody]
    /\ UNCHANGED <<ageKey, vault, stored>>

SecretsNext ==
    \/ \E c \in Callers :
          \/ LockFile(c) \/ ReadIdentity(c) \/ TruncateKey(c) \/ FillKey(c)
          \/ LoadVault(c) \/ SaveTemp(c) \/ RenameTemp(c)
    \/ \E p \in Holders : Die(p)

-----------------------------------------------------------------------------
(* Properties.                                                             *)

\* file.go:60: every later call "reads the same file, so a secret written once
\* stays readable": what an acknowledged Put stored decrypts with the identity
\* on disk and is still in the map, wherever a process dies and whichever
\* calls overlap. Of one process: the mutex is not shared between two.
WrittenStaysReadable ==
    stored # {} => vault.by = ageKey /\ stored \subseteq vault.map
=============================================================================
