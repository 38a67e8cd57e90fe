------------------------------ MODULE Identity ------------------------------
(***************************************************************************)
(* The master key and the encrypted identity profile:                      *)
(* crates/symeraseme-core/src/identity/secrets.rs, keyring.rs and          *)
(* profile.rs.  Every command is a process of its own: it snapshots the    *)
(* environment, resolves the key once and keeps it, and works on the       *)
(* keyring and on the profile files that all commands share.               *)
(*                                                                         *)
(* A profile file is [key, by], the key it is encrypted under and the      *)
(* command that wrote it; AES-GCM opens it under that key only.            *)
(***************************************************************************)
EXTENDS Absent, Naturals, FiniteSets

CONSTANTS Initialisers,        \* runs of `init-profile`
          Loaders,             \* runs of a command that loads the profile
          KeyringReads         \* what the keyring does on a read: "ok", "fails"

ASSUME IdentityAssumption ==
    /\ None \notin Initialisers \cup Loaders \cup {"env", "first", "bad"}
    /\ Initialisers \cap Loaders = {}
    /\ "ok" \in KeyringReads /\ KeyringReads \subseteq {"ok", "fails"}

\* The keys: one in the environment, one there before, one each run may mint.
MasterKeys == Initialisers \cup {"env", "first"}
ProfileNames == {"identity.encrypted", "identity.enc"}
Envelopes == [key : MasterKeys, by : Initialisers \cup {"before"}]

\* A file whose text was cut off: no key opens it.
Partial == [key |-> None, by |-> None]

ASSUME EnvelopesAssumption == None \notin Envelopes

VARIABLES keyring,       \* the entry: None, a key, or "bad" text
          profiles,      \* the profile file under each name
          temporary,     \* the temporary file of each writer
          run            \* each command

identity_vars == <<keyring, profiles, temporary, run>>

Unstarted == [pc |-> "idle", environment |-> None, cached |-> None, key_existed |-> FALSE,
              path |-> "identity.encrypted", file |-> None, result |-> None]

IdentityInit ==
    /\ keyring \in {None, "first", "bad"}
    /\ profiles \in [ProfileNames -> {None} \cup
                       (IF keyring = "first" THEN {[key |-> "first", by |-> "before"]} ELSE {})]
    /\ temporary = [w \in Initialisers |-> None]
    /\ run = [c \in Initialisers \cup Loaders |-> Unstarted]

-----------------------------------------------------------------------------
(* MasterKeyResolver *)

\* OsKeyring::get: an entry that cannot be read is no entry.
keyring_get(read) == IF read = "ok" THEN keyring ELSE None

\* resolve_existing: the cached key, the environment's, the keyring's.
resolve_existing(c, read) ==
    IF run[c].cached # None THEN run[c].cached
    ELSE IF run[c].environment # None THEN run[c].environment
    ELSE keyring_get(read)

resolved(key) == key \notin {None, "bad"}

-----------------------------------------------------------------------------
(* init_profile *)

\* The command's environment and its --profile flag; did a key exist?
begin_init(w) ==
    /\ run[w].pc = "idle"
    /\ \E e \in {None, "env", "bad"}, p \in ProfileNames, read \in KeyringReads :
          LET key == IF e # None THEN e ELSE keyring_get(read) IN
          run' = [run EXCEPT ![w] =
                    [@ EXCEPT !.pc = "init", !.environment = e, !.path = p,
                              !.key_existed = resolved(key),
                              !.cached = IF resolved(key) THEN key ELSE None]]
    /\ UNCHANGED <<keyring, profiles, temporary>>

\* init: the existing key, or a new one that must be stored; a key that does
\* not decode fails.
init_key(w) ==
    /\ run[w].pc = "init"
    /\ \E read \in KeyringReads, stored \in BOOLEAN :
          LET key == resolve_existing(w, read) IN
          IF key # None
          THEN /\ run' = [run EXCEPT ![w] = IF key = "bad"
                            THEN [@ EXCEPT !.pc = "done", !.result = "key"]
                            ELSE [@ EXCEPT !.pc = "write", !.cached = key]]
               /\ UNCHANGED keyring
          ELSE IF stored
          THEN /\ keyring' = w
               /\ run' = [run EXCEPT ![w] = [@ EXCEPT !.pc = "write", !.cached = w]]
          ELSE /\ run' = [run EXCEPT ![w] = [@ EXCEPT !.pc = "done", !.result = "key"]]
               /\ UNCHANGED keyring
    /\ UNCHANGED <<profiles, temporary>>

\* Faulty variant: the profile is written in place.
write_temporary_InPlace(w) ==
    /\ run[w].pc = "write"
    /\ profiles' = [profiles EXCEPT ![run[w].path] = [key |-> "env", by |-> None]]
    /\ run' = [run EXCEPT ![w].pc = "sync"]
    /\ UNCHANGED <<keyring, temporary>>

\* save_profile: mkdir, encryption and the temporary file, ...
write_temporary(w) ==
    /\ run[w].pc = "write"
    /\ \/ temporary' = [temporary EXCEPT ![w] = Partial] /\ run' = [run EXCEPT ![w].pc = "sync"]
       \/ UNCHANGED temporary /\ run' = [run EXCEPT ![w].pc = "rollback"]
    /\ UNCHANGED <<keyring, profiles>>

\* ... written whole and synced, or removed, ...
sync_temporary(w) ==
    /\ run[w].pc = "sync"
    /\ \/ /\ temporary' = [temporary EXCEPT ![w] = [key |-> run[w].cached, by |-> w]]
          /\ run' = [run EXCEPT ![w].pc = "rename"]
       \/ /\ temporary' = [temporary EXCEPT ![w] = None]
          /\ run' = [run EXCEPT ![w].pc = "rollback"]
    /\ UNCHANGED <<keyring, profiles>>

\* ... and renamed onto the profile.
rename_temporary(w) ==
    /\ run[w].pc = "rename"
    /\ temporary' = [temporary EXCEPT ![w] = None]
    /\ \/ /\ profiles' = [profiles EXCEPT ![run[w].path] = temporary[w]]
          /\ run' = [run EXCEPT ![w] = [@ EXCEPT !.pc = "done", !.result = "saved"]]
       \/ /\ UNCHANGED profiles
          /\ run' = [run EXCEPT ![w].pc = "rollback"]
    /\ UNCHANGED keyring

\* The save failed: a key minted by this call is deleted, if the keyring lets.
rollback_key(w) ==
    /\ run[w].pc = "rollback"
    /\ run' = [run EXCEPT ![w] = [@ EXCEPT !.pc = "done", !.result = "write", !.cached = None]]
    /\ \E removed \in BOOLEAN :
          keyring' = IF ~run[w].key_existed /\ removed THEN None ELSE keyring
    /\ UNCHANGED <<profiles, temporary>>

\* The process is killed; its temporary file stays.
kill_init(w) ==
    /\ run[w].pc \notin {"idle", "done"}
    /\ run' = [run EXCEPT ![w] = [@ EXCEPT !.pc = "done", !.result = "killed"]]
    /\ UNCHANGED <<keyring, profiles, temporary>>

-----------------------------------------------------------------------------
(* load_profile *)

other_name(name) == CHOOSE n \in ProfileNames : n # name

\* Faulty variant: the historical name is looked at first.
resolve_path_Legacy(name) ==
    IF profiles["identity.enc"] # None THEN "identity.enc" ELSE name

\* ProfilePaths::resolve: the other historical name, where the file asked for
\* is not there and that one is.
resolve_path(name) ==
    IF profiles[name] = None /\ profiles[other_name(name)] # None
    THEN other_name(name) ELSE name

\* ProfilePaths::resolve, stat and open; the key is resolved after the file was
\* read.
open_profile(c) ==
    /\ run[c].pc = "idle"
    /\ \E e \in {None, "env"}, p \in ProfileNames :
          LET file == profiles[resolve_path(p)] IN
          run' = [run EXCEPT ![c] =
                    [@ EXCEPT !.environment = e, !.path = p,
                              !.file = file,
                              !.pc = IF file = None THEN "done" ELSE "key",
                              !.result = IF file = None THEN "not_found" ELSE None]]
    /\ UNCHANGED <<keyring, profiles, temporary>>

\* Decryption authenticates: the right key, or an error.
decrypt_profile(c) ==
    /\ run[c].pc = "key"
    /\ \E read \in KeyringReads :
          LET key == resolve_existing(c, read) IN
          run' = [run EXCEPT ![c] =
                    [@ EXCEPT !.pc = "done",
                              !.result = IF ~resolved(key) THEN "key"
                                         ELSE IF run[c].file.key = key
                                         THEN "loaded" ELSE "authentication"]]
    /\ UNCHANGED <<keyring, profiles, temporary>>

IdentityNext ==
    \/ \E w \in Initialisers :
          \/ begin_init(w) \/ init_key(w) \/ write_temporary(w) \/ sync_temporary(w)
          \/ rename_temporary(w) \/ rollback_key(w) \/ kill_init(w)
    \/ \E c \in Loaders : open_profile(c) \/ decrypt_profile(c)

IdentitySpec == IdentityInit /\ [][IdentityNext]_identity_vars

-----------------------------------------------------------------------------
(* Properties *)

\* The type invariant: a key that is cached or kept is a key.
IdentityTypeOK ==
    /\ keyring \in MasterKeys \cup {None, "bad"}
    /\ \A c \in DOMAIN run : /\ run[c].cached \in MasterKeys \cup {None, "bad"}
                            /\ run[c].environment \in {None, "env", "bad"}
                            /\ run[c].path \in ProfileNames

\* "a crash never truncates an existing profile" (save_profile): whatever
\* commands overlap or are killed, a profile file is a whole envelope, and one
\* that was there is replaced, never lost.
ProfilesAreWhole ==
    [][\A n \in ProfileNames :
          /\ profiles'[n] \in Envelopes \cup {None}
          /\ profiles[n] # None => profiles'[n] # None]_identity_vars

\* A profile under a keyring key can be read: the keyring has its key.
NeverStranded ==
    \A n \in ProfileNames :
        profiles[n] \in Envelopes /\ profiles[n].key # "env"
            => keyring = profiles[n].key


\* A load that finds the file and has the key it was written under returns
\* what the last completed save to that name wrote: the fallback to the other
\* historical name never hides a saved profile.
SavedIsFound ==
    [][\A c \in Loaders : run[c].pc = "idle" /\ run'[c].pc # "idle" =>
          \/ run'[c].file = profiles[run'[c].path]
          \/ profiles[run'[c].path] = None]_identity_vars

\* Initialisations and loads that overlap, fail or are killed, with a keyring
\* that may fail too, leave profile files that are whole and found under the
\* name they were saved under (save_profile, ProfilePaths::resolve).
IdentityCorrect == []IdentityTypeOK /\ ProfilesAreWhole /\ SavedIsFound

=============================================================================
