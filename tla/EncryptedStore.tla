---------------------------- MODULE EncryptedStore ----------------------------
(***************************************************************************)
(* The life of the database file: crates/symeraseme-core/src/storage/      *)
(* encrypted_store.rs and locking.rs.  Processes open the canonical file   *)
(* in plain or encrypted mode under an advisory lock.  In encrypted mode   *)
(* they work on a private decrypted copy, which close_store re-encrypts    *)
(* and renames over the canonical file.  A close that fails leaves the     *)
(* copy registered in the process, with the lock, for finalise_all.        *)
(*                                                                         *)
(* The contents of a database are represented by the number of commits in  *)
(* them.  A ciphertext under a recovery name is never read by any code     *)
(* and is not part of the state.                                           *)
(***************************************************************************)
EXTENDS Absent, Naturals

CONSTANTS Procs,       \* processes
          TempIds,     \* names of decrypted copies
          MaxCommits,  \* bound on the commits
          MayCrash,    \* processes may die at any point
          IoMayFail    \* I/O, SQLite and encryption calls may fail

ASSUME EncryptedAssumption ==
    /\ None \notin Procs /\ None \notin TempIds /\ None \notin Nat
    /\ None \notin [tmp : TempIds, active : BOOLEAN]
    /\ MaxCommits \in Nat
    /\ MayCrash \in BOOLEAN /\ IoMayFail \in BOOLEAN

\* "legacy" is an older envelope (V1, V2 or the accidental Go format).
Format == {"absent", "plain", "legacy", "v3"}

VARIABLES canonical,  \* the file at the database path: format and contents
          temps,      \* contents of the decrypted copies on disk
          lock,       \* holder of the lock beside the canonical file
          store,      \* what each process is doing with its store
          reg,        \* ENCRYPTED_TEMPS of each process
          latest,     \* commits, less those lost with a dead process
          committed   \* commits ever made

store_vars == <<canonical, temps, lock, store, reg, latest, committed>>

StoreInit ==
    /\ canonical \in {[format |-> f, ver |-> 0] : f \in Format}
    /\ temps = [t \in TempIds |-> None]
    /\ lock = None
    /\ store = [p \in Procs |-> "closed"]
    /\ reg = [p \in Procs |-> None]
    /\ latest = 0
    /\ committed = 0

\* The database p has open.
Content(p) == IF store[p] = "plain" THEN canonical.ver ELSE temps[reg[p].tmp]

\* A registered copy: its lock file is held, too.
InUse(t) == \E p \in Procs : reg[p] # None /\ reg[p].tmp = t

-----------------------------------------------------------------------------
(***************************************************************************)
(* Opening.  DbLock::lock fails at once when the lock is taken, also by a  *)
(* failed close of the same process.                                       *)
(***************************************************************************)

\* open_configured(encrypt = false): an encrypted file is decrypted in place.
open_plain(p) ==
    /\ store[p] = "closed"
    /\ lock = None
    /\ lock' = p
    /\ store' = [store EXCEPT ![p] = "plain"]
    /\ canonical' = [canonical EXCEPT !.format = "plain"]
    /\ UNCHANGED <<temps, reg, latest, committed>>

\* open_encrypted up to the last replacement of the canonical file: created,
\* converted from plaintext or migrated, it is now a V3 envelope.
open_encrypted(p) ==
    /\ store[p] = "closed"
    /\ lock = None
    /\ lock' = p
    /\ store' = [store EXCEPT ![p] = "opening"]
    /\ canonical' = [canonical EXCEPT !.format = "v3"]
    /\ UNCHANGED <<temps, reg, latest, committed>>

\* ... decrypting it into a fresh private copy, which is locked and registered.
open_temp(p, t) ==
    /\ store[p] = "opening"
    /\ temps[t] = None
    /\ temps' = [temps EXCEPT ![t] = canonical.ver]
    /\ reg' = [reg EXCEPT ![p] = [tmp |-> t, active |-> TRUE]]
    /\ store' = [store EXCEPT ![p] = "encrypted"]
    /\ UNCHANGED <<canonical, lock, latest, committed>>

\* Opening fails; the copy may be left behind when its cleanup fails, too.
open_error(p) ==
    /\ IoMayFail
    /\ store[p] = "opening"
    /\ store' = [store EXCEPT ![p] = "closed"]
    /\ lock' = None
    /\ \/ UNCHANGED temps
       \/ \E t \in TempIds : /\ temps[t] = None
                             /\ temps' = [temps EXCEPT ![t] = canonical.ver]
    /\ UNCHANGED <<canonical, reg, latest, committed>>

\* A transaction of the open store.
commit(p) ==
    /\ store[p] \in {"plain", "encrypted"}
    /\ committed < MaxCommits
    /\ IF store[p] = "plain"
       THEN canonical' = [canonical EXCEPT !.ver = @ + 1] /\ UNCHANGED temps
       ELSE temps' = [temps EXCEPT ![reg[p].tmp] = @ + 1] /\ UNCHANGED canonical
    /\ latest' = latest + 1
    /\ committed' = committed + 1
    /\ UNCHANGED <<lock, store, reg>>

-----------------------------------------------------------------------------
(***************************************************************************)
(* Closing.                                                                *)
(***************************************************************************)

\* A plain store: the handle and the lock are dropped, whatever the
\* checkpoint says.
close_plain(p) ==
    /\ store[p] = "plain"
    /\ store' = [store EXCEPT ![p] = "closed"]
    /\ lock' = None
    /\ UNCHANGED <<canonical, temps, reg, latest, committed>>

\* atomic_transition_with_recovery of p's copy.
publish(p) == canonical' = [format |-> "v3", ver |-> temps[reg[p].tmp]]

\* Checkpoint, encryption and replacement succeed; clean-up is next.
close_publish(p) ==
    /\ store[p] = "encrypted"
    /\ publish(p)
    /\ store' = [store EXCEPT ![p] = "published"]
    /\ UNCHANGED <<temps, lock, reg, latest, committed>>

\* Faulty variant: the lock goes with the store although the close failed.
retain_failed_close_Unlock(p) ==
    /\ store' = [store EXCEPT ![p] = "closed"]
    /\ reg' = [reg EXCEPT ![p] = [tmp |-> reg[p].tmp, active |-> FALSE]]
    /\ lock' = None

\* The store is gone; registration and lock stay with the process.
retain_failed_close(p) ==
    /\ store' = [store EXCEPT ![p] = "closed"]
    /\ reg' = [reg EXCEPT ![p] = [tmp |-> reg[p].tmp, active |-> FALSE]]
    /\ UNCHANGED lock

\* An error before the rename, or after it from the directory sync.
close_error(p) ==
    /\ IoMayFail
    /\ store[p] = "encrypted"
    /\ publish(p) \/ UNCHANGED canonical
    /\ retain_failed_close(p)
    /\ UNCHANGED <<temps, latest, committed>>

\* cleanup_plain_temp and unregister_temp.
forget(p) ==
    /\ temps' = [temps EXCEPT ![reg[p].tmp] = None]
    /\ reg' = [reg EXCEPT ![p] = None]
    /\ lock' = None

close_cleanup(p) ==
    /\ store[p] = "published"
    /\ store' = [store EXCEPT ![p] = "closed"]
    /\ forget(p)
    /\ UNCHANGED <<canonical, latest, committed>>

\* cleanup_plain_temp fails: it tries to remove the copy also when its
\* -wal or -shm file could not be removed.
cleanup_cut(p) == temps' \in {temps, [temps EXCEPT ![reg[p].tmp] = None]}

close_cleanup_error(p) ==
    /\ IoMayFail
    /\ store[p] = "published"
    /\ retain_failed_close(p)
    /\ cleanup_cut(p)
    /\ UNCHANGED <<canonical, latest, committed>>

\* Faulty variant: the copy is not checked to be there.
Finalisable_Missing(p) == reg[p] # None /\ ~reg[p].active

\* finalise_all skips stores in use and copies that are missing.
Finalisable(p) ==
    reg[p] # None /\ ~reg[p].active /\ temps[reg[p].tmp] # None

finalise_all(p) ==
    /\ Finalisable(p)
    /\ publish(p)
    /\ forget(p)
    /\ UNCHANGED <<store, latest, committed>>

finalise_error(p) ==
    /\ IoMayFail
    /\ Finalisable(p)
    /\ \/ UNCHANGED <<canonical, temps>>
       \/ publish(p) /\ cleanup_cut(p)
    /\ UNCHANGED <<lock, store, reg, latest, committed>>

-----------------------------------------------------------------------------

\* The process ends and with it its lock, its locks on copies and its
\* registry.  What it had not published is lost.
die(p) ==
    /\ store' = [store EXCEPT ![p] = "closed"]
    /\ reg' = [reg EXCEPT ![p] = None]
    /\ lock' = IF lock = p THEN None ELSE lock
    /\ latest' = IF lock = p THEN canonical.ver ELSE latest
    /\ UNCHANGED <<canonical, temps, committed>>

crash(p) ==
    /\ MayCrash
    /\ store[p] # "closed" \/ reg[p] # None
    /\ die(p)

\* A command that could not close its store reports the error and exits.
exit(p) ==
    /\ store[p] = "closed"
    /\ reg[p] # None
    /\ die(p)

\* p deletes an orphaned copy; the age a copy must have is abstracted.
scavenge_stale_temps(p, t) ==
    /\ temps[t] # None
    /\ ~InUse(t)
    /\ temps' = [temps EXCEPT ![t] = None]
    /\ UNCHANGED <<canonical, lock, store, reg, latest, committed>>

StoreNext ==
    \E p \in Procs :
      \/ open_plain(p) \/ open_encrypted(p) \/ open_error(p)
      \/ \E t \in TempIds : open_temp(p, t) \/ scavenge_stale_temps(p, t)
      \/ commit(p)
      \/ close_plain(p) \/ close_publish(p) \/ close_error(p)
      \/ close_cleanup(p) \/ close_cleanup_error(p)
      \/ finalise_all(p) \/ finalise_error(p)
      \/ crash(p) \/ exit(p)

StoreSpec == StoreInit /\ [][StoreNext]_store_vars

-----------------------------------------------------------------------------

\* Files, locks and registries have their types.
StoreTypeOK ==
    /\ canonical \in [format : Format, ver : Nat]
    /\ temps \in [TempIds -> Nat \cup {None}]
    /\ lock \in Procs \cup {None}
    /\ store \in [Procs -> {"closed", "plain", "opening", "encrypted", "published"}]
    /\ reg \in [Procs -> [tmp : TempIds, active : BOOLEAN] \cup {None}]
    /\ latest \in Nat /\ committed \in Nat

\* Whoever has the database open sees every commit that no dead process took
\* with it: no open comes between a failed close and its recovery, no
\* decrypted copy is stale or deleted while in use.
OpenSeesLatest ==
    \A p \in Procs :
      store[p] \in {"plain", "encrypted", "published"} => Content(p) = latest

\* A published version is never replaced by an older one, neither by a late
\* finalise_all nor by a second opener.
NeverRolledBack == [][canonical'.ver >= canonical.ver]_store_vars

\* Nobody waits for a database that is not open and has nothing to recover:
\* the lock is held only by an open store or by a failed close.
LockIsOwned ==
    \A p \in Procs : lock = p <=> (store[p] # "closed" \/ reg[p] # None)

\* The lock, the registry of failed closes and the temporary copies stay in
\* step: each has its type and the lock is held by exactly the process that
\* has the database open or a close to recover.
StoreInv == StoreTypeOK /\ LockIsOwned

-----------------------------------------------------------------------------

Durable == INSTANCE DurableStore WITH
    Holders <- Procs, owner <- lock, db <- latest, safe <- canonical.ver

\* Opens, commits, publications, failed closes and their recovery amount to
\* a database that has one owner at a time and is given back only with every
\* commit on disk: the lock is never free while a copy holds more than the
\* canonical file, whatever close_store and finalise_all ran into.
ImplementsDurable == Durable!DurableSpec

=============================================================================
