------------------------------ MODULE AppKeys -------------------------------
(***************************************************************************)
(* The macOS application's API key: the Keychain item, the plain-text      *)
(* preference of earlier versions and the key in memory                    *)
(* (Services/APIKeyStore.swift, ServerManager.persistAnthropicKey).        *)
(***************************************************************************)
EXTENDS Absent

CONSTANT Keys     \* the keys a user may type

ASSUME KeysAssumption == None \notin Keys

VARIABLES keychain,    \* the Keychain item, or None
          legacy,      \* the preference symeraseme_anthropic_key, or None
          key,         \* anthropicKey of the running application, or None
          warned,      \* apiKeyStorageError is set
          launched,    \* the application runs
          stored       \* history: the key the user may rely on, or None

keys_vars == <<keychain, legacy, key, warned, launched, stored>>

KeysInit ==
    /\ keychain \in Keys \cup {None}
    /\ legacy \in Keys \cup {None}
    /\ key = None
    /\ warned = FALSE
    /\ launched = FALSE
    /\ stored = IF keychain # None THEN keychain ELSE legacy

-----------------------------------------------------------------------------
\* The outcomes of KeychainAPIKeyStore.save: nothing written, written but not
\* read back, or verified.
save(v) == {[item |-> keychain, ok |-> FALSE], [item |-> v, ok |-> FALSE],
            [item |-> v, ok |-> TRUE]}

\* The legacy preference goes only when the Keychain holds a key.
load_read_error ==
    /\ ~launched
    /\ launched' = TRUE
    /\ key' = legacy
    /\ warned' = TRUE
    /\ UNCHANGED <<keychain, legacy, stored>>

load_stored ==
    /\ ~launched
    /\ keychain # None
    /\ launched' = TRUE
    /\ key' = keychain
    /\ legacy' = None
    /\ warned' = FALSE
    /\ UNCHANGED <<keychain, stored>>

load_none ==
    /\ ~launched
    /\ keychain = None
    /\ legacy = None
    /\ launched' = TRUE
    /\ key' = None
    /\ warned' = FALSE
    /\ UNCHANGED <<keychain, legacy, stored>>

\* Faulty variant: the old copy is dropped before the new one is stored.
load_migrate_DropFirst ==
    /\ ~launched
    /\ keychain = None
    /\ legacy # None
    /\ launched' = TRUE
    /\ key' = legacy
    /\ \E r \in save(legacy) : keychain' = r.item /\ warned' = ~r.ok
    /\ legacy' = None
    /\ UNCHANGED stored

load_migrate ==
    /\ ~launched
    /\ keychain = None
    /\ legacy # None
    /\ launched' = TRUE
    /\ key' = legacy
    /\ \E r \in save(legacy) :
          /\ keychain' = r.item
          /\ warned' = ~r.ok
          /\ legacy' = IF r.ok THEN None ELSE legacy
    /\ UNCHANGED stored

\* The user edits the key: saved or, when it is empty, deleted; a failure
\* keeps it for this session and leaves the preference alone.
persistAnthropicKey_KeepLegacy(k) ==
    /\ launched
    /\ key' = k
    /\ \E r \in IF k = None THEN {[item |-> None, ok |-> TRUE], [item |-> keychain, ok |-> FALSE]}
                            ELSE save(k) :
          /\ keychain' = r.item
          /\ warned' = ~r.ok
          /\ stored' = IF r.ok THEN k ELSE IF r.item = keychain THEN stored ELSE None
    /\ UNCHANGED <<legacy, launched>>

persistAnthropicKey(k) ==
    /\ launched
    /\ key' = k
    /\ \E r \in IF k = None THEN {[item |-> None, ok |-> TRUE], [item |-> keychain, ok |-> FALSE]}
                            ELSE save(k) :
          /\ keychain' = r.item
          /\ warned' = ~r.ok
          /\ legacy' = IF r.ok THEN None ELSE legacy
          /\ stored' = IF r.ok THEN k ELSE IF r.item = keychain THEN stored ELSE None
    /\ UNCHANGED launched

app_ends ==
    /\ launched
    /\ launched' = FALSE
    /\ key' = None
    /\ UNCHANGED <<keychain, legacy, warned, stored>>

KeysNext ==
    \/ load_read_error \/ load_stored \/ load_none \/ load_migrate
    \/ \E k \in Keys \cup {None} : persistAnthropicKey(k)
    \/ app_ends

KeysSpec == KeysInit /\ [][KeysNext]_keys_vars

-----------------------------------------------------------------------------
\* The type invariant.
KeysTypeOK ==
    /\ {keychain, legacy, key, stored} \subseteq Keys \cup {None}
    /\ warned \in BOOLEAN /\ launched \in BOOLEAN

\* "A failed migration never loses the user's key": a key that was stored, or
\* was in the preferences, is still in one of the two places.
KeyNeverLost == stored # None => stored \in {keychain, legacy}

\* What the application uses without a warning is what the next launch finds
\* (unless the Keychain cannot be read then): a cleared key does not return
\* from the old preferences and a replaced one is not undone.
NextLaunchAgrees ==
    launched /\ ~warned => key = IF keychain # None THEN keychain ELSE legacy

\* Once the Keychain copy is verified the plain-text copy is gone.
NoPlainTextCopy == launched /\ ~warned => legacy = None

\* Whatever the Keychain refuses and whenever the application quits, the key
\* survives, the next launch uses the same one, and no plain-text copy stays.
KeysCorrect == KeysTypeOK /\ KeyNeverLost /\ NextLaunchAgrees /\ NoPlainTextCopy

=============================================================================
