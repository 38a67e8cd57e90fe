--------------------------- MODULE StorageProofs ----------------------------
(***************************************************************************)
(* What is kept on disk: the encrypted store, for any number of processes, *)
(* copies and commits; the broker registry, for any number of syncs and    *)
(* readers; the identity profiles and their master key; and the commands   *)
(* and tools that share the database.                                      *)
(***************************************************************************)
EXTENDS EncryptedStore, Registry, Commands, Identity, FiniteSetTheorems,
        WellFoundedInduction, TLAPS

-----------------------------------------------------------------------------
(***************************************************************************)
(* Safety of the encrypted store for any number of processes, copies and   *)
(* commits.  OpenSeesLatest is not inductive: it does not say what the     *)
(* next opener finds.  IInv adds that the holder of the lock, and nobody   *)
(* else, has a registered copy, that this copy is the latest version       *)
(* unless the latest version has been published, and that the canonical    *)
(* file is the latest version whenever somebody is going to read it.       *)
(***************************************************************************)

\* A store is registered exactly while its decrypted copy is needed.
Registered ==
    \A p \in Procs :
      /\ store[p] \in {"plain", "opening"} => reg[p] = None
      /\ store[p] \in {"encrypted", "published"} => reg[p] # None /\ reg[p].active
      /\ store[p] = "closed" /\ reg[p] # None => ~reg[p].active

\* A registered copy is the latest version, or was lost after its
\* publication by a failed clean-up.
CopyIsLatest ==
    \A p \in Procs :
      reg[p] # None =>
        \/ temps[reg[p].tmp] = latest
        \/ /\ temps[reg[p].tmp] = None
           /\ ~reg[p].active
           /\ canonical.ver = latest

\* The canonical file is the latest version for everyone who reads it.
CanonicalIsLatest ==
    /\ canonical.ver <= latest
    /\ lock = None => canonical.ver = latest
    /\ \A p \in Procs :
         store[p] \in {"plain", "opening", "published"} => canonical.ver = latest

IInv == StoreTypeOK /\ LockIsOwned /\ Registered /\ CopyIsLatest /\ CanonicalIsLatest

\* The initial files satisfy the inductive invariant.
LEMMA InitIInv == StoreInit => IInv
BY EncryptedAssumption
DEF StoreInit, IInv, StoreTypeOK, LockIsOwned, Registered, CopyIsLatest,
    CanonicalIsLatest, Format

\* The registration of an open store, and that of a failed close.
LEMMA Registration ==
    ASSUME NEW t \in TempIds, NEW r
    PROVE  /\ r = [tmp |-> t, active |-> TRUE] => r # None /\ r.tmp = t /\ r.active
           /\ r = [tmp |-> t, active |-> FALSE] => r # None /\ r.tmp = t /\ ~r.active
<1>1. ASSUME r = [tmp |-> t, active |-> TRUE]
      PROVE  r # None /\ r.tmp = t /\ r.active
  <2>1. r \in [tmp : TempIds, active : BOOLEAN]
    BY <1>1
  <2> QED BY <1>1, <2>1, EncryptedAssumption
<1>2. ASSUME r = [tmp |-> t, active |-> FALSE]
      PROVE  r # None /\ r.tmp = t /\ ~r.active
  <2>1. r \in [tmp : TempIds, active : BOOLEAN]
    BY <1>2
  <2> QED BY <1>2, <2>1, EncryptedAssumption
<1> QED BY <1>1, <1>2

\* At most one process has the lock, an open store or a registered copy.
LEMMA OneOwner ==
    ASSUME IInv, NEW p \in Procs, store[p] # "closed" \/ reg[p] # None
    PROVE  /\ lock = p
           /\ \A q \in Procs \ {p} : store[q] = "closed" /\ reg[q] = None
BY EncryptedAssumption DEF IInv, LockIsOwned

\* Opening, committing and closing a plain store keep the invariant.
LEMMA PlainSteps ==
    ASSUME IInv, NEW p \in Procs,
           \/ open_plain(p) \/ open_encrypted(p) \/ open_error(p)
           \/ close_plain(p)
    PROVE  IInv'
<1> USE EncryptedAssumption
<1>1. CASE open_plain(p)
  BY <1>1 DEF IInv, StoreTypeOK, LockIsOwned, Registered, CopyIsLatest,
              CanonicalIsLatest, Format, open_plain
<1>2. CASE open_encrypted(p)
  BY <1>2 DEF IInv, StoreTypeOK, LockIsOwned, Registered, CopyIsLatest,
              CanonicalIsLatest, Format, open_encrypted
<1>3. CASE open_error(p)
  BY <1>3, OneOwner DEF IInv, StoreTypeOK, LockIsOwned, Registered, CopyIsLatest,
              CanonicalIsLatest, Format, open_error
<1>4. CASE close_plain(p)
  BY <1>4, OneOwner DEF IInv, StoreTypeOK, LockIsOwned, Registered, CopyIsLatest,
              CanonicalIsLatest, Format, close_plain
<1> QED BY <1>1, <1>2, <1>3, <1>4

\* So do the decryption of a copy and the commits.
LEMMA CopySteps ==
    ASSUME IInv, NEW p \in Procs,
           (\E t \in TempIds : open_temp(p, t) \/ scavenge_stale_temps(p, t))
             \/ commit(p)
    PROVE  IInv'
<1> USE EncryptedAssumption
<1>1. ASSUME NEW t \in TempIds, open_temp(p, t) PROVE IInv'
  <2>1. /\ store[p] = "opening" /\ lock = p /\ reg[p] = None
        /\ \A q \in Procs \ {p} : store[q] = "closed" /\ reg[q] = None
    BY <1>1, OneOwner DEF IInv, Registered, open_temp
  <2>2. StoreTypeOK'
    BY <1>1 DEF IInv, StoreTypeOK, open_temp
  <2>3. /\ reg'[p] = [tmp |-> t, active |-> TRUE]
        /\ reg'[p] # None /\ reg'[p].tmp = t /\ reg'[p].active
        /\ store'[p] = "encrypted" /\ temps'[t] = latest
        /\ \A q \in Procs \ {p} : store'[q] = "closed" /\ reg'[q] = None
    <3>1. reg'[p] = [tmp |-> t, active |-> TRUE]
      BY <1>1 DEF IInv, StoreTypeOK, open_temp
    <3>2. reg'[p] # None /\ reg'[p].tmp = t /\ reg'[p].active
      BY <3>1, Registration
    <3>3. store'[p] = "encrypted" /\ temps'[t] = latest
      BY <1>1, <2>1 DEF IInv, StoreTypeOK, CanonicalIsLatest, open_temp
    <3>4. \A q \in Procs \ {p} : store'[q] = "closed" /\ reg'[q] = None
      BY <1>1, <2>1 DEF IInv, StoreTypeOK, open_temp
    <3> QED BY <3>1, <3>2, <3>3, <3>4
  <2> QED
    BY <1>1, <2>1, <2>2, <2>3
    DEF IInv, LockIsOwned, Registered, CopyIsLatest, CanonicalIsLatest,
        open_temp
<1>2. ASSUME NEW t \in TempIds, scavenge_stale_temps(p, t) PROVE IInv'
  <2>1. \A q \in Procs : reg[q] # None => temps'[reg[q].tmp] = temps[reg[q].tmp]
    <3> SUFFICES ASSUME NEW q \in Procs, reg[q] # None
                 PROVE  temps'[reg[q].tmp] = temps[reg[q].tmp]
      OBVIOUS
    <3>1. reg[q].tmp \in TempIds
      BY DEF IInv, StoreTypeOK
    <3>2. reg[q].tmp # t
      BY <1>2 DEF scavenge_stale_temps, InUse
    <3> QED BY <1>2, <3>1, <3>2 DEF IInv, StoreTypeOK, scavenge_stale_temps
  <2>2. StoreTypeOK'
    BY <1>2 DEF IInv, StoreTypeOK, scavenge_stale_temps
  <2> QED
    BY <1>2, <2>1, <2>2 DEF IInv, LockIsOwned, Registered, CopyIsLatest,
       CanonicalIsLatest, scavenge_stale_temps
<1>3. CASE commit(p)
  <2>1. CASE store[p] = "plain"
    BY <1>3, <2>1, OneOwner DEF IInv, StoreTypeOK, LockIsOwned, Registered,
       CopyIsLatest, CanonicalIsLatest, Format, commit
  <2>2. CASE store[p] = "encrypted"
    BY <1>3, <2>2, OneOwner DEF IInv, StoreTypeOK, LockIsOwned, Registered,
       CopyIsLatest, CanonicalIsLatest, Format, commit
  <2> QED BY <1>3, <2>1, <2>2 DEF commit
<1> QED BY <1>1, <1>2, <1>3

\* After a failed close the lock and the name of the copy stay with the
\* process, and no other process has either.
LEMMA RetainFailedClose ==
    ASSUME IInv, NEW p \in Procs, store[p] \in {"encrypted", "published"},
           retain_failed_close(p)
    PROVE  /\ lock = p /\ lock' = p
           /\ reg[p].tmp \in TempIds /\ temps[reg[p].tmp] = latest
           /\ reg' \in [Procs -> [tmp : TempIds, active : BOOLEAN] \cup {None}]
           /\ reg'[p] # None /\ reg'[p].tmp = reg[p].tmp /\ ~reg'[p].active
           /\ store' = [store EXCEPT ![p] = "closed"]
           /\ \A q \in Procs \ {p} : store'[q] = "closed" /\ reg'[q] = None
<1>1. /\ lock = p
      /\ \A q \in Procs \ {p} : store[q] = "closed" /\ reg[q] = None
  BY OneOwner
<1>2. reg[p].tmp \in TempIds /\ temps[reg[p].tmp] = latest
  BY DEF IInv, StoreTypeOK, Registered, CopyIsLatest
<1>3. reg'[p] = [tmp |-> reg[p].tmp, active |-> FALSE]
  BY DEF IInv, StoreTypeOK, retain_failed_close
<1>4. reg'[p] # None /\ reg'[p].tmp = reg[p].tmp /\ ~reg'[p].active
  BY <1>2, <1>3, Registration
<1>5. reg' \in [Procs -> [tmp : TempIds, active : BOOLEAN] \cup {None}]
  BY <1>2 DEF IInv, StoreTypeOK, retain_failed_close
<1>6. \A q \in Procs \ {p} : store'[q] = "closed" /\ reg'[q] = None
  BY <1>1 DEF IInv, StoreTypeOK, retain_failed_close
<1> QED BY <1>1, <1>2, <1>4, <1>5, <1>6 DEF retain_failed_close

\* So do the steps of closing an encrypted store, failures included.
LEMMA CloseSteps ==
    ASSUME IInv, NEW p \in Procs,
           \/ close_publish(p) \/ close_error(p)
           \/ close_cleanup(p) \/ close_cleanup_error(p)
    PROVE  IInv'
<1> USE EncryptedAssumption
<1>1. CASE close_publish(p)
  BY <1>1, OneOwner DEF IInv, StoreTypeOK, LockIsOwned, Registered, CopyIsLatest,
              CanonicalIsLatest, Format, close_publish, publish
<1>2. CASE close_error(p)
  <2> USE RetainFailedClose, <1>2 DEF close_error
  <2>1. StoreTypeOK'
    BY DEF IInv, StoreTypeOK, Format, publish
  <2>2. canonical'.ver <= latest
    BY DEF IInv, StoreTypeOK, CanonicalIsLatest, publish
  <2>3. store'[p] = "closed"
    BY DEF IInv, StoreTypeOK
  <2> QED
    BY <2>1, <2>2, <2>3
    DEF IInv, LockIsOwned, Registered, CopyIsLatest, CanonicalIsLatest
<1>3. CASE close_cleanup(p)
  BY <1>3, OneOwner DEF IInv, StoreTypeOK, LockIsOwned, Registered, CopyIsLatest,
              CanonicalIsLatest, Format, close_cleanup, forget
<1>4. CASE close_cleanup_error(p)
  <2> USE RetainFailedClose, <1>4 DEF close_cleanup_error
  <2>1. StoreTypeOK'
    BY DEF IInv, StoreTypeOK, Format, cleanup_cut
  <2>2. canonical'.ver = latest'
    BY DEF IInv, CanonicalIsLatest
  <2>3. store'[p] = "closed"
    BY DEF IInv, StoreTypeOK
  <2>4. temps'[reg[p].tmp] \in {latest, None}
    BY DEF IInv, StoreTypeOK, cleanup_cut
  <2> QED
    BY <2>1, <2>2, <2>3, <2>4
    DEF IInv, StoreTypeOK, LockIsOwned, Registered, CopyIsLatest, CanonicalIsLatest
<1> QED BY <1>1, <1>2, <1>3, <1>4

\* So do recovery and the end of a process.
LEMMA RecoverySteps ==
    ASSUME IInv, NEW p \in Procs,
           finalise_all(p) \/ finalise_error(p) \/ crash(p) \/ exit(p)
    PROVE  IInv'
<1> USE EncryptedAssumption
<1>1. CASE finalise_all(p)
  BY <1>1, OneOwner DEF IInv, StoreTypeOK, LockIsOwned, Registered, CopyIsLatest,
              CanonicalIsLatest, Format, finalise_all, Finalisable, publish,
              forget
<1>2. CASE finalise_error(p)
  BY <1>2, OneOwner DEF IInv, StoreTypeOK, LockIsOwned, Registered, CopyIsLatest,
              CanonicalIsLatest, Format, finalise_error, Finalisable, publish,
              cleanup_cut
<1>3. CASE crash(p) \/ exit(p)
  BY <1>3, OneOwner DEF IInv, StoreTypeOK, LockIsOwned, Registered, CopyIsLatest,
              CanonicalIsLatest, Format, crash, exit, die
<1> QED BY <1>1, <1>2, <1>3

\* The invariant is inductive.
LEMMA NextIInv == IInv /\ [StoreNext]_store_vars => IInv'
<1> SUFFICES ASSUME IInv, [StoreNext]_store_vars PROVE IInv'
  OBVIOUS
<1>1. CASE StoreNext
  <2>1. PICK p \in Procs :
          \/ open_plain(p) \/ open_encrypted(p) \/ open_error(p)
          \/ \E t \in TempIds : open_temp(p, t) \/ scavenge_stale_temps(p, t)
          \/ commit(p)
          \/ close_plain(p) \/ close_publish(p) \/ close_error(p)
          \/ close_cleanup(p) \/ close_cleanup_error(p)
          \/ finalise_all(p) \/ finalise_error(p)
          \/ crash(p) \/ exit(p)
    BY <1>1 DEF StoreNext
  <2> QED BY <2>1, PlainSteps, CopySteps, CloseSteps, RecoverySteps
<1>2. CASE UNCHANGED store_vars
  BY <1>2 DEF store_vars, IInv, StoreTypeOK, LockIsOwned, Registered, CopyIsLatest,
              CanonicalIsLatest
<1> QED BY <1>1, <1>2

\* IInv holds in every reachable state.
THEOREM Inductive == StoreSpec => []IInv
BY InitIInv, NextIInv, PTL DEF StoreSpec

\* Whoever has the store open, in plain or in encrypted mode, works on a
\* database with every commit that no dead process took with it.
THEOREM OpenStoreIsCurrent == StoreSpec => []OpenSeesLatest
<1>1. IInv => OpenSeesLatest
  BY EncryptedAssumption
  DEF IInv, StoreTypeOK, Registered, CopyIsLatest, CanonicalIsLatest,
      OpenSeesLatest, Content
<1> QED BY <1>1, Inductive, PTL

\* Files, locks and registries keep their types, and the lock is held exactly
\* by the process that has the database open or a failed close to recover.
THEOREM LockOwnership == StoreSpec => []StoreInv
<1>1. IInv => StoreInv
  BY DEF IInv, StoreInv
<1> QED BY <1>1, Inductive, PTL

\* No publication, be it of a close, of a failed close or of finalise_all,
\* replaces the canonical file by an older version.
THEOREM PublishesForward == StoreSpec => NeverRolledBack
<1>1. ASSUME IInv, StoreNext PROVE canonical'.ver >= canonical.ver
  <2>1. PICK p \in Procs :
          \/ open_plain(p) \/ open_encrypted(p) \/ open_error(p)
          \/ \E t \in TempIds : open_temp(p, t) \/ scavenge_stale_temps(p, t)
          \/ commit(p)
          \/ close_plain(p) \/ close_publish(p) \/ close_error(p)
          \/ close_cleanup(p) \/ close_cleanup_error(p)
          \/ finalise_all(p) \/ finalise_error(p)
          \/ crash(p) \/ exit(p)
    BY <1>1 DEF StoreNext
  <2>2. canonical.ver \in Nat
    BY <1>1 DEF IInv, StoreTypeOK
  <2>3. CASE \/ close_plain(p) \/ close_cleanup(p) \/ close_cleanup_error(p)
             \/ crash(p) \/ exit(p) \/ open_error(p)
             \/ \E t \in TempIds : open_temp(p, t) \/ scavenge_stale_temps(p, t)
    BY <2>2, <2>3 DEF close_plain, close_cleanup, close_cleanup_error, crash,
       exit, die, open_error, open_temp, scavenge_stale_temps
  <2>4. CASE open_plain(p) \/ open_encrypted(p) \/ commit(p)
    BY <1>1, <2>2, <2>4 DEF IInv, StoreTypeOK, open_plain, open_encrypted, commit
  <2>5. CASE close_publish(p) \/ close_error(p)
    BY <1>1, <2>2, <2>5, EncryptedAssumption
    DEF IInv, StoreTypeOK, Registered, CopyIsLatest, CanonicalIsLatest,
        close_publish, close_error, publish
  <2>6. CASE finalise_all(p) \/ finalise_error(p)
    BY <1>1, <2>2, <2>6, EncryptedAssumption
    DEF IInv, StoreTypeOK, Registered, CopyIsLatest, CanonicalIsLatest,
        finalise_all, finalise_error, Finalisable, publish
  <2> QED BY <2>1, <2>3, <2>4, <2>5, <2>6
<1>2. ASSUME IInv, UNCHANGED store_vars PROVE canonical'.ver >= canonical.ver
  BY <1>2 DEF IInv, StoreTypeOK, store_vars
<1>3. IInv /\ [StoreNext]_store_vars => [canonical'.ver >= canonical.ver]_store_vars
  BY <1>1, <1>2
<1> QED BY <1>3, Inductive, PTL DEF StoreSpec, NeverRolledBack

-----------------------------------------------------------------------------

\* Every step of the store is a step of the durable database or leaves it
\* alone.  A close, a failed open or finalise_all gives the lock back only
\* when the canonical file is the latest version; a death falls back to it.
LEMMA StepDurable ==
    ASSUME IInv, StoreNext
    PROVE  Durable!DurableNext \/ UNCHANGED <<lock, latest, canonical.ver>>
<1>1. PICK p \in Procs :
        \/ open_plain(p) \/ open_encrypted(p) \/ open_error(p)
        \/ \E t \in TempIds : open_temp(p, t) \/ scavenge_stale_temps(p, t)
        \/ commit(p)
        \/ close_plain(p) \/ close_publish(p) \/ close_error(p)
        \/ close_cleanup(p) \/ close_cleanup_error(p)
        \/ finalise_all(p) \/ finalise_error(p)
        \/ crash(p) \/ exit(p)
  BY DEF StoreNext
<1> USE EncryptedAssumption
<1>2. canonical.ver \in Nat /\ latest \in Nat
  BY DEF IInv, StoreTypeOK
<1>3. CASE open_plain(p) \/ open_encrypted(p)
  <2>1. Durable!acquire(p)
    BY <1>3 DEF IInv, StoreTypeOK, open_plain, open_encrypted, Durable!acquire
  <2> QED BY <2>1 DEF Durable!DurableNext
<1>4. CASE open_error(p) \/ close_plain(p) \/ close_cleanup(p)
  <2>1. store[p] \in {"opening", "plain", "published"}
    BY <1>4 DEF open_error, close_plain, close_cleanup
  <2>2. lock = p /\ canonical.ver = latest
    BY <2>1, OneOwner DEF IInv, CanonicalIsLatest
  <2>3. Durable!release(p)
    BY <1>4, <2>2 DEF open_error, close_plain, close_cleanup, forget, Durable!release
  <2> QED BY <2>3 DEF Durable!DurableNext
<1>5. CASE commit(p)
  <2>1. lock = p
    BY <1>5, OneOwner DEF commit
  <2>2. canonical'.ver \in {canonical.ver, latest + 1}
    <3>1. CASE store[p] = "plain"
      BY <1>2, <1>5, <3>1 DEF IInv, StoreTypeOK, CanonicalIsLatest, commit
    <3>2. CASE store[p] # "plain"
      BY <1>5, <3>2 DEF commit
    <3> QED BY <3>1, <3>2
  <2>3. Durable!add(p)
    BY <1>5, <2>1, <2>2 DEF commit, Durable!add
  <2> QED BY <2>3 DEF Durable!DurableNext
<1>6. CASE close_publish(p) \/ close_error(p)
  <2>1. lock = p /\ temps[reg[p].tmp] = latest
    BY <1>6, OneOwner DEF IInv, Registered, CopyIsLatest, close_publish, close_error
  <2>2. /\ lock' = lock /\ latest' = latest
        /\ canonical'.ver = latest \/ canonical'.ver = canonical.ver
    BY <1>6, <2>1 DEF close_publish, close_error, publish, retain_failed_close
  <2>3. Durable!flush(p) \/ UNCHANGED <<lock, latest, canonical.ver>>
    BY <2>1, <2>2 DEF Durable!flush
  <2> QED BY <2>3 DEF Durable!DurableNext
<1>7. CASE finalise_all(p) \/ finalise_error(p)
  <2>1. lock = p /\ temps[reg[p].tmp] = latest
    BY <1>7, OneOwner
    DEF IInv, CopyIsLatest, finalise_all, finalise_error, Finalisable
  <2>2. CASE finalise_all(p)
    <3>1. Durable!release(p)
      BY <2>1, <2>2 DEF finalise_all, publish, forget, Durable!release
    <3> QED BY <3>1 DEF Durable!DurableNext
  <2>3. CASE finalise_error(p)
    <3>1. /\ lock' = lock /\ latest' = latest
          /\ canonical'.ver = latest \/ canonical'.ver = canonical.ver
      BY <2>1, <2>3 DEF finalise_error, publish
    <3>2. Durable!flush(p) \/ UNCHANGED <<lock, latest, canonical.ver>>
      BY <2>1, <3>1 DEF Durable!flush
    <3> QED BY <3>2 DEF Durable!DurableNext
  <2> QED BY <1>7, <2>2, <2>3
<1>8. CASE crash(p) \/ exit(p)
  <2>1. lock = p
    BY <1>8, OneOwner DEF crash, exit
  <2>2. Durable!lose(p)
    BY <1>8, <2>1 DEF crash, exit, die, Durable!lose
  <2> QED BY <2>2 DEF Durable!DurableNext
<1>9. CASE \/ close_cleanup_error(p)
           \/ \E t \in TempIds : open_temp(p, t) \/ scavenge_stale_temps(p, t)
  BY <1>9 DEF close_cleanup_error, retain_failed_close, open_temp, scavenge_stale_temps
<1> QED BY <1>1, <1>3, <1>4, <1>5, <1>6, <1>7, <1>8, <1>9

\* The encrypted store implements the durable database: one owner at a time,
\* and everything committed is on disk whenever nobody has it.
THEOREM StoreIsDurable == StoreSpec => ImplementsDurable
<1>1. StoreInit => Durable!DurableInit
  BY DEF StoreInit, Durable!DurableInit
<1>2. IInv /\ [StoreNext]_store_vars => [Durable!DurableNext]_(Durable!durable_vars)
  <2>1. ASSUME UNCHANGED store_vars PROVE UNCHANGED Durable!durable_vars
    BY <2>1 DEF store_vars, Durable!durable_vars
  <2> QED BY <2>1, StepDurable DEF Durable!durable_vars
<1> QED BY <1>1, <1>2, Inductive, PTL DEF StoreSpec, ImplementsDurable, Durable!DurableSpec

-----------------------------------------------------------------------------
(***************************************************************************)
(* The registry.  RegistryCorrect is not inductive: RInv adds who owns     *)
(* which directory, that what is staged or taken away is whole, and that   *)
(* somebody has the last directory where none is in place.                 *)
(***************************************************************************)

\* The directory d is a registry that was validated, whole.
Valid(d) ==
    \/ d = "first" /\ files[d] = FirstRegistry
    \/ /\ d # "first"
       /\ \E a \in Archives : /\ files[d] = unpacked(a)
                              /\ extract_archive(a) /\ load_from_dir_ok(unpacked(a))

Docs == FirstRegistry \cup UNION {unpacked(a) : a \in Archives}
SyncSteps == {"idle", "staged", "retire", "install", "clean", "rollback", "done", "failed"}

RegistryTypes ==
    /\ files \in [Dirs -> SUBSET Docs]
    /\ \A d \in Dirs : IsFiniteSet(files[d])
    /\ place \in Dirs \cup {None}
    /\ syncer \in [Syncs -> [step : SyncSteps, old : Dirs \cup {None}]]
    /\ reader \in [Readers -> [step : {"idle", "reading", "loaded", "error"},
                               dir : Dirs \cup {None}, brokers : SUBSET Docs]]
    /\ \A r \in Readers : reader[r].step = "reading" => reader[r].dir \in Dirs

\* Who has taken a directory away, and has not failed, has it alone.
Owns(p) == syncer[p].step \in {"install", "rollback", "clean"} /\ syncer[p].old # None

TakenByOne ==
    \A p \in Syncs : Owns(p) =>
      /\ place # syncer[p].old
      /\ \A q \in Syncs : Owns(q) /\ syncer[q].old = syncer[p].old => q = p

\* What is staged has never been elsewhere; what was taken away is whole until
\* its successor is in place.
Staged ==
    \A p \in Syncs :
      /\ syncer[p].old # p
      /\ syncer[p].step \in {"idle", "staged", "retire"} => syncer[p].old = None
      /\ syncer[p].step = "rollback" => syncer[p].old # None
      /\ syncer[p].step \in {"staged", "retire", "install", "rollback"} => Valid(p)
      /\ syncer[p].step \in {"idle", "staged", "retire", "install", "rollback"} =>
           place # p /\ \A q \in Syncs : syncer[q].old # p
      /\ syncer[p].step \in {"install", "rollback"} /\ syncer[p].old # None =>
           Valid(syncer[p].old)

\* Where nothing is at the destination, somebody has what was there last, and
\* nobody is removing it.
Retained(p) ==
    /\ syncer[p].old # None /\ Valid(syncer[p].old)
    /\ \A q \in Syncs : syncer[q].step = "clean" => syncer[q].old # syncer[p].old

RInv ==
    /\ RegistryTypes /\ TakenByOne /\ Staged
    /\ place # None => Valid(place)
    /\ place = None /\ (\E p \in Syncs : syncer[p].old # None) => \E p \in Syncs : Retained(p)
    /\ files["first"] # FirstRegistry => \E p \in Syncs : syncer[p].old # None

\* What a sync leaves of the other syncs, and of itself.
LEMMA Moved ==
    ASSUME RegistryTypes, NEW p \in Syncs, NEW s \in SyncSteps, move(p, s)
    PROVE  /\ syncer' \in [Syncs -> [step : SyncSteps, old : Dirs \cup {None}]]
           /\ syncer'[p].step = s /\ syncer'[p].old = syncer[p].old
           /\ \A q \in Syncs : syncer'[q].old = syncer[q].old
           /\ \A q \in Syncs \ {p} : syncer'[q].step = syncer[q].step
BY DEF RegistryTypes, move

\* Archives leave finitely many documents.
LEMMA UnpackedFinite ==
    ASSUME NEW a \in Archives
    PROVE  unpacked(a) \in SUBSET Docs /\ IsFiniteSet(unpacked(a))
<1>1. PICK n \in Nat : DOMAIN a.entries = 1..n
  BY RegistryAssumption
<1>2. IsFiniteSet(1..n)
  BY FS_Interval
<1> DEFINE J == {j \in DOMAIN a.entries : a.entries[j].kind = "file"}
<1>3. IsFiniteSet(J)
  BY <1>1, <1>2, FS_Subset
<1>4. IsFiniteSet({a.entries[i].doc : i \in J})
  <2> DEFINE T == {a.entries[i].doc : i \in J}
             f == [i \in J |-> a.entries[i].doc]
  <2>1. f \in Surjection(J, T)
    BY DEF Surjection
  <2> HIDE DEF J, T, f
  <2>3. IsFiniteSet(T)
    BY <1>3, <2>1, FS_Surjection
  <2> QED
    BY <2>3 DEF T
<1> QED
  BY <1>4 DEF unpacked, Docs

\* The registry there before loads.
LEMMA FirstLoads == load_from_dir_ok(FirstRegistry) /\ IsFiniteSet(FirstRegistry)
<1> DEFINE other == [stem |-> "a", id |-> "a", ok |-> TRUE]
<1>1. FirstRegistry = {manifest, other} /\ manifest # other
  BY DEF FirstRegistry, manifest
<1>2. {d \in FirstRegistry : ~(d.ok /\ d.id = d.stem)} = {}
  BY <1>1 DEF manifest
<1>3. {d.stem : d \in FirstRegistry} = {"manifest", "a"}
  BY <1>1 DEF manifest
<1>4. /\ Cardinality({}) = 0
      /\ IsFiniteSet(FirstRegistry) /\ Cardinality(FirstRegistry) = 2
      /\ Cardinality({"manifest", "a"}) = 2
  <2>1. IsFiniteSet({}) /\ Cardinality({}) = 0
    BY FS_EmptySet
  <2>2. ASSUME NEW x, NEW y, x # y PROVE IsFiniteSet({x, y}) /\ Cardinality({x, y}) = 2
    <3>1. IsFiniteSet({x}) /\ Cardinality({x}) = 1
      BY FS_Singleton
    <3>2. IsFiniteSet({x} \cup {y}) /\ Cardinality({x} \cup {y}) = Cardinality({x}) + 1
      BY <3>1, <2>2, FS_AddElement
    <3>3. {x} \cup {y} = {x, y}
      OBVIOUS
    <3> QED BY <3>1, <3>2, <3>3
  <2> QED BY <2>1, <2>2, <1>1
<1>5. load_reporting_from_dir(FirstRegistry).errors = 0
  BY <1>2, <1>3, <1>4 DEF load_reporting_from_dir
<1> QED
  BY <1>1, <1>4, <1>5 DEF load_from_dir_ok

\* The registry there before any sync, or none, satisfies the invariant.
LEMMA RegistryEstablished == RegistryInit => RInv
<1> SUFFICES ASSUME RegistryInit PROVE RInv
  OBVIOUS
<1>1. files["first"] = FirstRegistry
  BY DEF RegistryInit, Dirs
<1>2. \A p \in Syncs : syncer[p] = NotStarted /\ syncer[p].step = "idle" /\ syncer[p].old = None
  BY DEF RegistryInit, NotStarted
<1>3. RegistryTypes
  <2>1. files \in [Dirs -> SUBSET Docs]
    BY DEF RegistryInit, Docs
  <2>2. \A d \in Dirs : IsFiniteSet(files[d])
    BY FirstLoads, FS_EmptySet DEF RegistryInit
  <2>3. place \in Dirs \cup {None}
    BY DEF RegistryInit, Dirs
  <2>4. syncer \in [Syncs -> [step : SyncSteps, old : Dirs \cup {None}]]
    BY DEF RegistryInit, NotStarted, SyncSteps
  <2>5. reader \in [Readers -> [step : {"idle", "reading", "loaded", "error"},
                                dir : Dirs \cup {None}, brokers : SUBSET Docs]]
    BY DEF RegistryInit, NotReading
  <2>6. \A r \in Readers : reader[r].step # "reading"
    BY DEF RegistryInit, NotReading
  <2> QED BY <2>1, <2>2, <2>3, <2>4, <2>5, <2>6 DEF RegistryTypes
<1>4. TakenByOne
  BY <1>2 DEF TakenByOne, Owns
<1>5. Staged
  BY <1>2, RegistryAssumption DEF Staged, RegistryInit
<1>6. place # None => Valid(place)
  BY <1>1 DEF RegistryInit, Valid
<1> QED
  BY <1>1, <1>2, <1>3, <1>4, <1>5, <1>6 DEF RInv

\* Every step of a sync, a rollback or a reader keeps it.
LEMMA RegistryPreserved ==
    ASSUME RInv, [RegistryNext]_registry_vars
    PROVE  RInv'
<1> USE DEF RInv
<1>0. \A d : files'[d] = files[d] => (Valid(d)' <=> Valid(d))
  BY DEF Valid
<1>1. CASE UNCHANGED registry_vars
  BY <1>1 DEF registry_vars, RegistryTypes, TakenByOne, Staged, Retained, Valid, Owns
<1>2. ASSUME NEW p \in Syncs, download(p) PROVE RInv'
  <2> USE <1>2
  <2>1. PICK a \in Archives :
          IF a.status = 200 /\ extract_archive(a) /\ validated(unpacked(a))
          THEN files' = [files EXCEPT ![p] = unpacked(a)] /\ move(p, "staged")
          ELSE UNCHANGED files /\ move(p, "failed")
    BY DEF download
  <2>2. /\ syncer[p].step = "idle" /\ syncer[p].old = None /\ place # p
        /\ \A q \in Syncs : syncer[q].old # p
        /\ p # "first" /\ p \in Dirs /\ place' = place /\ reader' = reader
    BY RegistryAssumption DEF download, Staged, Dirs
  <2>3. PICK s \in {"staged", "failed"} : move(p, s)
    BY <2>1
  <2>4. /\ syncer' \in [Syncs -> [step : SyncSteps, old : Dirs \cup {None}]]
        /\ syncer'[p].step = s /\ syncer'[p].old = None
        /\ \A q \in Syncs : syncer'[q].old = syncer[q].old
        /\ \A q \in Syncs \ {p} : syncer'[q].step = syncer[q].step
    BY <2>2, <2>3, Moved DEF SyncSteps
  <2>5. /\ files' \in [Dirs -> SUBSET Docs] /\ \A d \in Dirs : IsFiniteSet(files'[d])
        /\ \A d \in Dirs \ {p} : files'[d] = files[d]
        /\ s = "staged" => Valid(p)'
    <3>1. CASE a.status = 200 /\ extract_archive(a) /\ validated(unpacked(a))
      BY <3>1, <2>1, <2>2, UnpackedFinite DEF RegistryTypes, Valid, validated
    <3>2. CASE ~(a.status = 200 /\ extract_archive(a) /\ validated(unpacked(a)))
      <4>1. s # "staged"
        BY <3>2, <2>1, <2>3, <2>4, Moved DEF SyncSteps
      <4> QED BY <4>1, <3>2, <2>1 DEF RegistryTypes
    <3> QED BY <3>1, <3>2
  <2>6. RegistryTypes'
    BY <2>2, <2>4, <2>5 DEF RegistryTypes
  <2>7. \A d \in Dirs \ {p} : Valid(d)' <=> Valid(d)
    BY <1>0, <2>5
  <2>8. \A q \in Syncs : Owns(q)' <=> Owns(q)
    BY <2>4, <2>2 DEF Owns
  <2>9. TakenByOne'
    BY <2>8, <2>4, <2>2 DEF TakenByOne
  <2>10. \A q \in Syncs : q \in Dirs /\ (syncer[q].old # None => syncer[q].old \in Dirs \ {p})
    BY <2>2 DEF RegistryTypes, Dirs
  <2>11. Staged'
    BY <2>2, <2>4, <2>5, <2>7, <2>10 DEF Staged
  <2>12. ASSUME NEW q \in Syncs, Retained(q) PROVE Retained(q)'
    BY <2>12, <2>4, <2>7, <2>10 DEF Retained
  <2>13. place' # None => Valid(place)'
    BY <2>2, <2>7 DEF RegistryTypes
  <2>14. files'["first"] = files["first"]
    BY <2>2, <2>5 DEF Dirs
  <2> QED
    BY <2>2, <2>4, <2>6, <2>9, <2>11, <2>12, <2>13, <2>14
<1>3. ASSUME NEW p \in Syncs, NEW s \in {"install", "retire", "failed"},
             \/ look(p) /\ move(p, s)
             \/ kill_sync(p) /\ s = "failed"
             \/ retire(p) /\ place = None /\ s = "failed"
      PROVE  RInv'
  <2> USE <1>3
  <2>1. /\ move(p, s) /\ files' = files /\ place' = place /\ reader' = reader
        /\ \/ s = "failed"
           \/ syncer[p].step = "staged"
    BY DEF look, kill_sync, retire
  <2>2. /\ syncer' \in [Syncs -> [step : SyncSteps, old : Dirs \cup {None}]]
        /\ syncer'[p].step = s
        /\ \A q \in Syncs : syncer'[q].old = syncer[q].old
        /\ \A q \in Syncs \ {p} : syncer'[q].step = syncer[q].step
    BY <2>1, Moved DEF SyncSteps
  <2>3. \A d : Valid(d)' <=> Valid(d)
    BY <1>0, <2>1
  <2>4. s # "failed" => syncer[p].old = None
    BY <2>1 DEF Staged
  <2>5. RegistryTypes'
    BY <2>1, <2>2 DEF RegistryTypes
  <2>6. \A q \in Syncs : Owns(q)' => Owns(q)
    BY <2>2, <2>4 DEF Owns
  <2>7. TakenByOne'
    BY <2>1, <2>2, <2>6 DEF TakenByOne
  <2>8. s = "install" => syncer'[p].old = None
    BY <2>2, <2>4
  <2>9. Staged'
    BY <2>1, <2>2, <2>3, <2>8 DEF Staged
  <2>10. ASSUME NEW q \in Syncs, Retained(q) PROVE Retained(q)'
    BY <2>10, <2>2, <2>3 DEF Retained
  <2> QED
    BY <2>1, <2>2, <2>3, <2>5, <2>7, <2>9, <2>10
<1>4. ASSUME NEW p \in Syncs, retire(p), place # None PROVE RInv'
  <2> USE <1>4
  <2>1. /\ syncer[p].step = "retire" /\ files' = files /\ reader' = reader /\ place' = None
        /\ syncer' = [syncer EXCEPT ![p] = [step |-> "install", old |-> place]]
        /\ place \in Dirs /\ syncer[p].old = None /\ place # p
    BY DEF retire, RegistryTypes, Staged
  <2>2. /\ syncer' \in [Syncs -> [step : SyncSteps, old : Dirs \cup {None}]]
        /\ syncer'[p].step = "install" /\ syncer'[p].old = place
        /\ \A q \in Syncs \ {p} : syncer'[q] = syncer[q]
    BY <2>1 DEF RegistryTypes, SyncSteps
  <2>3. \A d : Valid(d)' <=> Valid(d)
    BY <1>0, <2>1
  <2>4. RegistryTypes'
    BY <2>1, <2>2 DEF RegistryTypes
  <2>5. TakenByOne'
    BY <2>1, <2>2 DEF TakenByOne, Owns
  <2>6. Valid(place)
    OBVIOUS
  <2>7. Staged'
    BY <2>1, <2>2, <2>3, <2>6 DEF Staged
  <2>8. Retained(p)'
    BY <2>1, <2>2, <2>3, <2>6 DEF Retained, TakenByOne, Owns
  <2> QED
    BY <2>1, <2>2, <2>4, <2>5, <2>7, <2>8
<1>5. ASSUME NEW p \in Syncs, install(p) PROVE RInv'
  <2> USE <1>5
  <2>1. PICK s \in {"clean", "failed", "rollback"} :
          /\ move(p, s)
          /\ s = "clean" => place = None /\ place' = p
          /\ s # "clean" => place' = place
          /\ s = "rollback" => syncer[p].old # None
    BY DEF install
  <2>2. syncer[p].step = "install" /\ files' = files /\ reader' = reader
    BY DEF install
  <2>3. /\ syncer' \in [Syncs -> [step : SyncSteps, old : Dirs \cup {None}]]
        /\ syncer'[p].step = s
        /\ \A q \in Syncs : syncer'[q].old = syncer[q].old
        /\ \A q \in Syncs \ {p} : syncer'[q].step = syncer[q].step
    BY <2>1, Moved DEF SyncSteps
  <2>4. \A d : Valid(d)' <=> Valid(d)
    BY <1>0, <2>2
  <2>5. RegistryTypes'
    BY <2>1, <2>2, <2>3 DEF RegistryTypes, Dirs
  <2>6. \A q \in Syncs : syncer[q].old # p
    BY <2>2 DEF Staged
  <2>7. \A q \in Syncs : Owns(q)' => Owns(q)
    BY <2>2, <2>3 DEF Owns
  <2>8. TakenByOne'
    BY <2>1, <2>3, <2>6, <2>7 DEF TakenByOne
  <2>9. Staged'
    BY <2>1, <2>2, <2>3, <2>4 DEF Staged
  <2>10. place' # None => Valid(place)'
    BY <2>1, <2>2, <2>4 DEF Staged
  <2>11. ASSUME NEW q \in Syncs, Retained(q), s # "clean" PROVE Retained(q)'
    BY <2>11, <2>3, <2>4 DEF Retained
  <2>12. s = "clean" => place' # None
    BY <2>1, RegistryAssumption
  <2> QED
    BY <2>1, <2>2, <2>3, <2>5, <2>8, <2>9, <2>10, <2>11, <2>12
<1>6. ASSUME NEW p \in Syncs, rollback(p) PROVE RInv'
  <2> USE <1>6
  <2>1. /\ syncer[p].step = "rollback" /\ syncer[p].old # None
        /\ files' = files /\ reader' = reader
        /\ \/ place = None /\ place' = syncer[p].old
           \/ place' = place
        /\ move(p, "failed")
    BY DEF rollback, Staged
  <2>2. /\ syncer' \in [Syncs -> [step : SyncSteps, old : Dirs \cup {None}]]
        /\ syncer'[p].step = "failed"
        /\ \A q \in Syncs : syncer'[q].old = syncer[q].old
        /\ \A q \in Syncs \ {p} : syncer'[q].step = syncer[q].step
    BY <2>1, Moved DEF SyncSteps
  <2>3. \A d : Valid(d)' <=> Valid(d)
    BY <1>0, <2>1
  <2>4. RegistryTypes'
    BY <2>1, <2>2 DEF RegistryTypes
  <2>5. /\ \A q \in Syncs : Owns(q)' => Owns(q) /\ q # p
        /\ Owns(p)
    BY <2>1, <2>2 DEF Owns
  <2>6. TakenByOne'
    BY <2>1, <2>2, <2>5 DEF TakenByOne
  <2>7. Staged'
    BY <2>1, <2>2, <2>3 DEF Staged
  <2>8. place' # None => Valid(place)'
    BY <2>1, <2>3 DEF Staged
  <2>9. ASSUME NEW q \in Syncs, Retained(q) PROVE Retained(q)'
    BY <2>9, <2>2, <2>3 DEF Retained
  <2> QED
    BY <2>1, <2>2, <2>4, <2>6, <2>7, <2>8, <2>9
<1>7. ASSUME NEW p \in Syncs, remove_old(p) PROVE RInv'
  <2> USE <1>7
  <2>1. CASE syncer[p].old = None \/ files[syncer[p].old] = {}
    <3>1. /\ move(p, "done") /\ files' = files /\ place' = place /\ reader' = reader
      BY <2>1 DEF remove_old
    <3>2. /\ syncer' \in [Syncs -> [step : SyncSteps, old : Dirs \cup {None}]]
          /\ syncer'[p].step = "done"
          /\ \A q \in Syncs : syncer'[q].old = syncer[q].old
          /\ \A q \in Syncs \ {p} : syncer'[q].step = syncer[q].step
      BY <3>1, Moved DEF SyncSteps
    <3>3. \A d : Valid(d)' <=> Valid(d)
      BY <1>0, <3>1
    <3>4. RegistryTypes'
      BY <3>1, <3>2 DEF RegistryTypes
    <3>5. TakenByOne'
      BY <3>1, <3>2 DEF TakenByOne, Owns
    <3>6. Staged'
      BY <3>1, <3>2, <3>3 DEF Staged
    <3>7. ASSUME NEW q \in Syncs, Retained(q) PROVE Retained(q)'
      BY <3>7, <3>2, <3>3 DEF Retained
    <3> QED
      BY <3>1, <3>2, <3>3, <3>4, <3>5, <3>6, <3>7
  <2>2. CASE syncer[p].old # None /\ files[syncer[p].old] # {}
    <3>1. PICK d \in files[syncer[p].old] :
            files' = [files EXCEPT ![syncer[p].old] = @ \ {d}]
      BY <2>2 DEF remove_old
    <3>2. /\ syncer' = syncer /\ place' = place /\ reader' = reader
          /\ syncer[p].old \in Dirs /\ syncer[p].step = "clean"
      BY <2>2 DEF remove_old, RegistryTypes
    <3>3. /\ files' \in [Dirs -> SUBSET Docs] /\ \A c \in Dirs : IsFiniteSet(files'[c])
          /\ \A c \in Dirs \ {syncer[p].old} : files'[c] = files[c]
      BY <3>1, <3>2, FS_RemoveElement DEF RegistryTypes
    <3>4. RegistryTypes'
      BY <3>2, <3>3 DEF RegistryTypes
    <3>5. \A c \in Dirs \ {syncer[p].old} : Valid(c)' <=> Valid(c)
      BY <1>0, <3>3
    <3>6. Owns(p) /\ place # syncer[p].old
      BY <2>2, <3>2 DEF Owns, TakenByOne
    <3>7. TakenByOne'
      BY <3>2 DEF TakenByOne, Owns
    <3>8. /\ \A q \in Syncs : q \in Dirs /\ (syncer[q].old # None => syncer[q].old \in Dirs)
          /\ \A q \in Syncs : syncer[q].step \in {"install", "rollback"} =>
               syncer[q].old # syncer[p].old
      BY <3>2, <3>6 DEF RegistryTypes, Dirs, TakenByOne, Owns
    <3>9. Staged'
      BY <3>2, <3>5, <3>8 DEF Staged
    <3>10. place' # None => Valid(place)'
      BY <3>2, <3>5, <3>6 DEF RegistryTypes
    <3>11. ASSUME NEW q \in Syncs, Retained(q) PROVE Retained(q)'
      BY <3>11, <3>2, <3>5, <3>8 DEF Retained
    <3> QED
      BY <2>2, <3>2, <3>4, <3>7, <3>9, <3>10, <3>11
  <2> QED BY <2>1, <2>2
<1>8. ASSUME NEW r \in Readers, open_registry(r) \/ read_registry(r) PROVE RInv'
  <2> USE <1>8
  <2>1. files' = files /\ place' = place /\ syncer' = syncer
    BY DEF open_registry, read_registry
  <2>2. /\ reader' \in [Readers -> [step : {"idle", "reading", "loaded", "error"},
                                    dir : Dirs \cup {None}, brokers : SUBSET Docs]]
        /\ \A q \in Readers : reader'[q].step = "reading" => reader'[q].dir \in Dirs
    <3>1. CASE open_registry(r)
      BY <3>1 DEF open_registry, RegistryTypes
    <3>2. CASE read_registry(r)
      <4>1. reader[r].step = "reading"
        BY <3>2 DEF read_registry
      <4> DEFINE docs == files[reader[r].dir] \cup {manifest}
      <4>2. load_reporting_from_dir(docs).brokers \in SUBSET Docs
        <5>1. files[reader[r].dir] \in SUBSET Docs /\ manifest \in Docs
          BY <4>1 DEF RegistryTypes, Docs, FirstRegistry
        <5>2. load_reporting_from_dir(docs).brokers
                = {d \in docs : d # manifest /\ d.ok /\ d.id = d.stem}
          BY DEF load_reporting_from_dir
        <5> QED BY <5>1, <5>2
      <4>3. reader' = [reader EXCEPT ![r] =
                    IF load_from_dir_ok(docs)
                    THEN [@ EXCEPT !.step = "loaded",
                                   !.brokers = load_reporting_from_dir(docs).brokers]
                    ELSE [@ EXCEPT !.step = "error"]]
        BY <3>2 DEF read_registry
      <4> HIDE DEF docs
      <4>4. /\ reader'[r].step \in {"loaded", "error"} /\ reader'[r].dir = reader[r].dir
            /\ \A q \in Readers \ {r} : reader'[q] = reader[q]
        BY <4>3 DEF RegistryTypes
      <4>5. reader' \in [Readers -> [step : {"idle", "reading", "loaded", "error"},
                                      dir : Dirs \cup {None}, brokers : SUBSET Docs]]
        BY <4>2, <4>3, ZenonT(60) DEF RegistryTypes
      <4> QED BY <4>4, <4>5 DEF RegistryTypes
    <3> QED BY <3>1, <3>2
  <2>3. \A d : Valid(d)' <=> Valid(d)
    BY <1>0, <2>1
  <2>4. RegistryTypes' /\ TakenByOne' /\ Staged'
    BY <2>1, <2>2, <2>3 DEF RegistryTypes, TakenByOne, Owns, Staged
  <2> QED
    BY <2>1, <2>3, <2>4 DEF Retained
<1>9. ASSUME NEW p \in Syncs, look(p) \/ kill_sync(p) \/ (retire(p) /\ place = None)
      PROVE  RInv'
  <2>1. CASE look(p)
    <3>1. PICK s \in {"install", "retire"} : move(p, s)
      BY <2>1 DEF look
    <3> QED BY <2>1, <3>1, <1>3
  <2> QED BY <2>1, <1>3, <1>9
<1> QED
  BY <1>1, <1>2, <1>4, <1>5, <1>6, <1>7, <1>8, <1>9 DEF RegistryNext

\* Syncs that run at once, are refused, fail or die between their renames leave
\* a registry that was validated at the destination, or the last one in a
\* backup; directories keep their types.
THEOREM RegistryKept == RegistrySpec => []RegistryCorrect
<1>1. ASSUME RInv PROVE RegistryCorrect
  <2> USE <1>1 DEF RInv
  <2>1. RegistryTypeOK
    BY RegistryAssumption DEF RegistryTypeOK, RegistryTypes, SyncSteps, Staged
  <2>2. \A d : Valid(d) => Whole(d) /\ load_from_dir_ok(files[d])
    BY FirstLoads DEF Valid, Whole
  <2>3. ASSUME NEW a \in Archives, extract_archive(a)
        PROVE  /\ SumSizes(files_of(a)) <= MAX_EXPANDED_BYTES
               /\ \A i \in DOMAIN a.entries : ".." \notin ToSet(a.entries[i].path)
    BY <2>3 DEF extract_archive, safe_archive_path, ToSet
  <2>4. InstalledIsValid
    BY <2>2, <2>3 DEF InstalledIsValid, Valid
  <2>5. RegistryNotLost
    BY <2>2 DEF RegistryNotLost, Retained
  <2> QED BY <2>1, <2>4, <2>5 DEF RegistryCorrect
<1> QED
  BY <1>1, RegistryEstablished, RegistryPreserved, PTL DEF RegistrySpec

-----------------------------------------------------------------------------
(***************************************************************************)
(* Commands and tools on one database.  What the programs of the two       *)
(* tables have in common comes first: all that needs the store is between  *)
(* its opening and its closing, a dry run has no effect, an execution asks *)
(* before it writes.                                                       *)
(***************************************************************************)

StageNames == {"args", "load", "open", "query", "consent", "write", "task", "empty", "note",
               "grant", "side", "close", "format", "report"}
Writes == {"write", "task", "note"}
InStore == {"write", "task", "note", "consent"}
StoreStages == {"open", "close"}

\* The stage k is between the opening and the closing of the store.
Within(P, k) == \E i, j \in DOMAIN P : i < k /\ k < j /\ P[i] = "open" /\ P[j] = "close"

\* A program opens and closes the store once at most, in this order, and all
\* that needs it is between; a negative answer is found there too, or by a
\* program without the store.
Sound(P) ==
    /\ P \in Seq(StageNames)
    /\ \A i, j \in DOMAIN P : P[i] = "open" /\ P[j] = "open" => i = j
    /\ \A i, j \in DOMAIN P : P[i] = "close" /\ P[j] = "close" => i = j
    /\ \A i, j \in DOMAIN P : P[i] = "open" /\ P[j] = "close" => i < j
    /\ (\E i \in DOMAIN P : P[i] = "open") <=> (\E j \in DOMAIN P : P[j] = "close")
    /\ \A k \in DOMAIN P : P[k] \in InStore => Within(P, k)
    /\ \A k \in DOMAIN P : P[k] = "empty" =>
         Within(P, k) \/ \A j \in DOMAIN P : P[j] \notin StoreStages

\* A program without the stages X.
Avoids(P, X) == P \in Seq(StageNames) /\ \A k \in DOMAIN P : P[k] \notin X

\* Consent comes before every write.
ConsentFirst(P) ==
    \A k \in DOMAIN P : P[k] \in Writes => \E j \in DOMAIN P : j < k /\ P[j] = "consent"

\* What is in two programs joined, and at which place.
LEMMA Joined ==
    ASSUME NEW a \in Seq(StageNames), NEW b \in Seq(StageNames)
    PROVE  /\ a \o b \in Seq(StageNames)
           /\ Len(a) \in Nat /\ Len(b) \in Nat
           /\ DOMAIN a = 1..Len(a) /\ DOMAIN b = 1..Len(b)
           /\ DOMAIN (a \o b) = 1..(Len(a) + Len(b))
           /\ \A k \in DOMAIN a : (a \o b)[k] = a[k] /\ k \in DOMAIN (a \o b)
           /\ \A k \in DOMAIN b : /\ (a \o b)[k + Len(a)] = b[k]
                                  /\ k + Len(a) \in DOMAIN (a \o b)
           /\ \A k \in DOMAIN (a \o b) :
                \/ k \in DOMAIN a
                \/ k > Len(a) /\ k - Len(a) \in DOMAIN b /\ (a \o b)[k] = b[k - Len(a)]
OBVIOUS

\* Joining programs brings in no stage that neither had.
LEMMA AvoidsJoined ==
    ASSUME NEW X, NEW a, NEW b, Avoids(a, X), Avoids(b, X)
    PROVE  Avoids(a \o b, X)
<1>1. a \in Seq(StageNames) /\ b \in Seq(StageNames)
  BY DEF Avoids
<1>2. \A k \in DOMAIN (a \o b) : (a \o b)[k] \notin X
  <2> TAKE k \in DOMAIN (a \o b)
  <2>1. CASE k \in DOMAIN a
    BY <1>1, <2>1, Joined DEF Avoids
  <2>2. CASE k > Len(a) /\ k - Len(a) \in DOMAIN b /\ (a \o b)[k] = b[k - Len(a)]
    BY <2>2 DEF Avoids
  <2> QED BY <1>1, <2>1, <2>2, Joined
<1> QED
  BY <1>1, <1>2, Joined DEF Avoids

Outer == {"open", "close", "write", "task", "note", "consent", "empty"}

\* A program that never touches the store opens and closes it correctly.
LEMMA PlainSound ==
    ASSUME NEW P, Avoids(P, StoreStages \cup InStore)
    PROVE  Sound(P)
BY DEF Avoids, Sound, StoreStages

\* A sound program is sound after and before others that have nothing to do
\* with the store.
LEMMA PrefixSound ==
    ASSUME NEW a, NEW P, Avoids(a, Outer), Sound(P)
    PROVE  Sound(a \o P)
<1> DEFINE Q == a \o P
           n == Len(a)
<1>1. a \in Seq(StageNames) /\ P \in Seq(StageNames)
  BY DEF Avoids, Sound
<1>2. /\ Q \in Seq(StageNames) /\ n \in Nat /\ DOMAIN Q \subseteq Nat /\ DOMAIN P \subseteq Nat
      /\ \A k \in DOMAIN P : Q[k + n] = P[k] /\ k + n \in DOMAIN Q
      /\ \A k \in DOMAIN Q : k \in DOMAIN a \/ (k > n /\ k - n \in DOMAIN P /\ Q[k] = P[k - n])
      /\ \A k \in DOMAIN a : Q[k] = a[k]
  BY <1>1, Joined
<1>3. \A k \in DOMAIN Q : Q[k] \in Outer => k > n /\ k - n \in DOMAIN P /\ Q[k] = P[k - n]
  BY <1>2 DEF Avoids
<1> HIDE DEF Q, n
<1>4. \A k \in DOMAIN P : Within(P, k) => Within(Q, k + n)
  BY <1>2, SMTT(60) DEF Within
<1>5. \A k \in DOMAIN Q : k > n => (k - n) + n = k
  BY <1>2
<1>6. ASSUME NEW i \in DOMAIN Q, NEW j \in DOMAIN Q, Q[i] = "open", Q[j] = "open" PROVE i = j
  BY <1>2, <1>3, <1>6 DEF Sound, Outer
<1>7. ASSUME NEW i \in DOMAIN Q, NEW j \in DOMAIN Q, Q[i] = "close", Q[j] = "close" PROVE i = j
  BY <1>2, <1>3, <1>7 DEF Sound, Outer
<1>8. ASSUME NEW i \in DOMAIN Q, NEW j \in DOMAIN Q, Q[i] = "open", Q[j] = "close" PROVE i < j
  BY <1>2, <1>3, <1>8 DEF Sound, Outer
<1>9. (\E i \in DOMAIN Q : Q[i] = "open") <=> (\E j \in DOMAIN Q : Q[j] = "close")
  <2>1. (\E i \in DOMAIN Q : Q[i] = "open") <=> (\E i \in DOMAIN P : P[i] = "open")
    BY <1>2, <1>3 DEF Outer
  <2>2. (\E i \in DOMAIN Q : Q[i] = "close") <=> (\E i \in DOMAIN P : P[i] = "close")
    BY <1>2, <1>3 DEF Outer
  <2> QED BY <2>1, <2>2 DEF Sound
<1>10. ASSUME NEW k \in DOMAIN Q, Q[k] \in InStore PROVE Within(Q, k)
  <2>1. k > n /\ k - n \in DOMAIN P /\ Q[k] = P[k - n]
    BY <1>3, <1>10 DEF Outer, InStore
  <2>2. Within(P, k - n)
    BY <1>10, <2>1 DEF Sound
  <2> QED BY <1>4, <1>5, <2>1, <2>2
<1>11. ASSUME NEW k \in DOMAIN Q, Q[k] = "empty"
       PROVE  Within(Q, k) \/ \A j \in DOMAIN Q : Q[j] \notin StoreStages
  <2>1. k > n /\ k - n \in DOMAIN P /\ P[k - n] = "empty"
    BY <1>3, <1>11 DEF Outer
  <2>2. Within(P, k - n) \/ \A j \in DOMAIN P : P[j] \notin StoreStages
    BY <2>1 DEF Sound
  <2>3. CASE Within(P, k - n)
    BY <1>4, <1>5, <2>1, <2>3
  <2>4. CASE \A j \in DOMAIN P : P[j] \notin StoreStages
    BY <1>3, <2>4 DEF Outer, StoreStages
  <2> QED BY <2>2, <2>3, <2>4
<1> QED
  BY <1>2, <1>6, <1>7, <1>8, <1>9, <1>10, <1>11 DEF Sound, Q

\* Stages after a sound program leave it sound when none needs the store.
LEMMA SuffixSound ==
    ASSUME NEW P, NEW b, Sound(P), Avoids(b, Outer)
    PROVE  Sound(P \o b)
<1> DEFINE Q == P \o b
<1>1. P \in Seq(StageNames) /\ b \in Seq(StageNames)
  BY DEF Avoids, Sound
<1>2. /\ Q \in Seq(StageNames) /\ DOMAIN Q \subseteq Nat /\ DOMAIN P \subseteq DOMAIN Q
      /\ \A k \in DOMAIN P : Q[k] = P[k]
      /\ \A k \in DOMAIN Q : k \in DOMAIN P \/ (k - Len(P) \in DOMAIN b /\ Q[k] = b[k - Len(P)])
  BY <1>1, Joined
<1>3. \A k \in DOMAIN Q : Q[k] \in Outer => k \in DOMAIN P /\ Q[k] = P[k]
  BY <1>2 DEF Avoids
<1> HIDE DEF Q
<1>4. \A k \in DOMAIN P : Within(P, k) => Within(Q, k)
  BY <1>2 DEF Within
<1>5. ASSUME NEW i \in DOMAIN Q, NEW j \in DOMAIN Q, Q[i] = "open", Q[j] = "open" PROVE i = j
  BY <1>3, <1>5 DEF Sound, Outer
<1>6. ASSUME NEW i \in DOMAIN Q, NEW j \in DOMAIN Q, Q[i] = "close", Q[j] = "close" PROVE i = j
  BY <1>3, <1>6 DEF Sound, Outer
<1>7. ASSUME NEW i \in DOMAIN Q, NEW j \in DOMAIN Q, Q[i] = "open", Q[j] = "close" PROVE i < j
  BY <1>3, <1>7 DEF Sound, Outer
<1>8. (\E i \in DOMAIN Q : Q[i] = "open") <=> (\E j \in DOMAIN Q : Q[j] = "close")
  BY <1>2, <1>3 DEF Sound, Outer
<1>9. ASSUME NEW k \in DOMAIN Q, Q[k] \in InStore PROVE Within(Q, k)
  BY <1>3, <1>4, <1>9 DEF Sound, Outer, InStore
<1>10. ASSUME NEW k \in DOMAIN Q, Q[k] = "empty"
       PROVE  Within(Q, k) \/ \A j \in DOMAIN Q : Q[j] \notin StoreStages
  BY <1>3, <1>4, <1>10 DEF Sound, Outer, StoreStages
<1> QED
  BY <1>2, <1>5, <1>6, <1>7, <1>8, <1>9, <1>10 DEF Sound, Q

\* What runs with the store open.
LEMMA OpenedSound ==
    ASSUME NEW body, Avoids(body, StoreStages), NEW tail \in {<<"close">>, <<"format", "close">>}
    PROVE  Sound(<<"open">> \o body \o tail)
<1> DEFINE a == <<"open">> \o body
           Q == a \o tail
           n == Len(body)
           m == Len(tail)
<1>0. /\ tail \in Seq(StageNames) /\ m \in 1..2 /\ DOMAIN tail = 1..m /\ tail[m] = "close"
      /\ \A k \in 1..m : k # m => tail[k] = "format"
  <2>1. CASE tail = <<"close">>
    BY <2>1 DEF StageNames
  <2>2. CASE tail = <<"format", "close">>
    BY <2>2 DEF StageNames
  <2> QED BY <2>1, <2>2
<1>1. /\ body \in Seq(StageNames) /\ n \in Nat /\ DOMAIN body = 1..n
      /\ \A k \in 1..n : body[k] \notin StoreStages
  BY DEF Avoids
<1>a. /\ a \in Seq(StageNames) /\ Len(a) = n + 1 /\ a[1] = "open"
      /\ \A k \in 1..(n + 1) : k # 1 => a[k] = body[k - 1]
  <2>1. <<"open">> \in Seq(StageNames) /\ Len(<<"open">>) = 1 /\ <<"open">>[1] = "open"
    BY DEF StageNames
  <2> QED BY <1>1, <2>1
<1>b. \A k \in 1..(n + 1) : (a[k] = "open" => k = 1) /\ a[k] # "close"
  BY <1>1, <1>a DEF StoreStages
<1> HIDE DEF a, n, m
<1>2. /\ Q \in Seq(StageNames) /\ DOMAIN Q = 1..(1 + n + m)
      /\ \A k \in 1..(n + 1) : Q[k] = a[k]
      /\ \A k \in 1..m : Q[k + n + 1] = tail[k]
      /\ \A k \in DOMAIN Q : \/ k \in 1..(n + 1)
                             \/ k - (n + 1) \in 1..m /\ Q[k] = tail[k - (n + 1)]
  BY <1>0, <1>1, <1>a
<1>3. Q[1] = "open" /\ Q[1 + n + m] = "close" /\ 1 \in DOMAIN Q /\ 1 + n + m \in DOMAIN Q
  BY <1>0, <1>1, <1>a, <1>2
<1>4. \A k \in DOMAIN Q : /\ Q[k] = "open" => k = 1
                          /\ Q[k] = "close" => k = 1 + n + m
  <2> TAKE k \in DOMAIN Q
  <2>1. CASE k \in 1..(n + 1)
    BY <1>b, <1>2, <2>1
  <2>2. CASE k - (n + 1) \in 1..m /\ Q[k] = tail[k - (n + 1)]
    <3>1. Q[k] \in {"format", "close"} /\ (Q[k] = "close" => k - (n + 1) = m)
      BY <1>0, <2>2
    <3> QED BY <1>0, <1>1, <1>2, <3>1
  <2> QED BY <1>2, <2>1, <2>2
<1> HIDE DEF Q
<1>5. \A k \in DOMAIN Q : k # 1 /\ k # 1 + n + m => Within(Q, k)
  BY <1>0, <1>1, <1>2, <1>3, SMTT(60) DEF Within
<1>6. \A k \in DOMAIN Q : Q[k] \in InStore \cup {"empty"} => Within(Q, k)
  BY <1>2, <1>3, <1>5 DEF InStore
<1>7. 1 < 1 + n + m
  BY <1>0, <1>1
<1> QED
  BY <1>2, <1>3, <1>4, <1>6, <1>7 DEF Sound, Q, a

\* What changes something that a dry run must leave alone; a dry execution
\* records events, and leaves alone the rest.
Effects == {"write", "task", "note", "consent", "side"}
Charged == {"consent", "side"}
DrySafe(P, executes) == Avoids(P, Charged) /\ (executes # TRUE => Avoids(P, Effects))

\* with_open_store and with_store_outcome bracket what they run.
LEMMA StoreSound ==
    ASSUME NEW body, Avoids(body, StoreStages)
    PROVE  Sound(with_open_store(body)) /\ Sound(with_store_outcome(body))
BY OpenedSound DEF with_open_store, with_store_outcome

\* The contract and web-action wrappers keep a tool sound.
LEMMA ContractSound ==
    ASSUME NEW tool, Sound(tool)
    PROVE  Sound(contract_command(tool)) /\ Sound(web_action_command(tool))
<1>1. /\ Avoids(<<"load">>, Outer) /\ Avoids(<<"format">>, Outer) /\ Avoids(<<"report">>, Outer)
  BY DEF Avoids, StageNames, Outer
<1>2. Sound(<<"load">> \o tool)
  BY <1>1, PrefixSound
<1>3. Sound(contract_command(tool))
  BY <1>1, <1>2, SuffixSound DEF contract_command, contract_handler
<1> QED
  BY <1>1, <1>3, SuffixSound DEF web_action_command

\* The tools.
LEMMA ToolsSound ==
    ASSUME NEW dry \in BOOLEAN
    PROVE  /\ Sound(redact_file) /\ Sound(validate) /\ Sound(manual_tasks_list)
           /\ Sound(manual_tasks_show) /\ Sound(manual_tasks_complete)
           /\ Sound(manual_tasks_cleanup(dry)) /\ Sound(grant(dry))
           /\ Sound(generate_scheduler(dry)) /\ Sound(generate_dashboard)
           /\ Sound(generate_report) /\ Sound(plan_create_tool) /\ Sound(execute_campaign(dry))
           /\ Sound(plan_show_tool) /\ Sound(list_requests) /\ Sound(dashboard_data)
           /\ Sound(calendar) /\ Sound(get_events) /\ Sound(list_brokers)
           /\ Sound(schedule_install_tool(dry)) /\ Sound(schedule_uninstall_tool)
           /\ Sound(schedule_status_tool) /\ Sound(poll_inbox) /\ Sound(run_web_form(dry))
           /\ Sound(auto_confirm(dry)) /\ Sound(classify_reply) /\ Sound(generate_rebuttal)
           /\ Sound(<<"args">>)
<1>1. /\ Avoids(<<"query">>, StoreStages) /\ Avoids(<<"write">>, StoreStages)
      /\ Avoids(<<"query", "load", "side">>, StoreStages)
      /\ Avoids(<<"load", "load", "write">>, StoreStages)
      /\ Avoids(<<"load", "write">>, StoreStages)
      /\ Avoids(<<"query", "load">>, StoreStages)
      /\ Avoids(<<"args", "query">>, StoreStages)
  BY DEF Avoids, StageNames, StoreStages
<1>2. /\ Avoids(<<"consent", "load", "write">>, StoreStages)
      /\ Avoids(<<"load", "query", "write">>, StoreStages)
      /\ Avoids(<<"query", "empty", "empty">>, StoreStages)
      /\ Avoids(<<"query", "empty", "note", "query", "write">>, StoreStages)
      /\ Avoids(<<"empty", "empty", "task">>, StoreStages)
  BY DEF Avoids, StageNames, StoreStages
<1>3. /\ Sound(<<>>) /\ Sound(<<"args">>) /\ Sound(<<"load">>) /\ Sound(<<"side">>)
      /\ Sound(<<"load", "grant">>) /\ Sound(<<"empty", "empty">>)
  <2>1. /\ Avoids(<<>>, StoreStages \cup InStore) /\ Avoids(<<"args">>, StoreStages \cup InStore)
        /\ Avoids(<<"load">>, StoreStages \cup InStore)
        /\ Avoids(<<"side">>, StoreStages \cup InStore)
        /\ Avoids(<<"load", "grant">>, StoreStages \cup InStore)
        /\ Avoids(<<"empty", "empty">>, StoreStages \cup InStore)
    BY DEF Avoids, StageNames, StoreStages, InStore
  <2> QED BY <2>1, PlainSound
<1>4. /\ Avoids(<<"load">>, Outer) /\ Avoids(<<"args", "load">>, Outer)
      /\ Avoids(<<"load", "load">>, Outer)
  BY DEF Avoids, StageNames, Outer
<1>5. /\ Sound(redact_file) /\ Sound(validate) /\ Sound(list_brokers)
      /\ Sound(schedule_uninstall_tool) /\ Sound(schedule_status_tool)
  BY <1>3 DEF redact_file, validate, list_brokers, schedule_uninstall_tool, schedule_status_tool
<1>6. Sound(grant(dry)) /\ Sound(schedule_install_tool(dry))
  BY <1>3 DEF grant, schedule_install_tool
<1>7. Sound(manual_tasks_cleanup(dry)) /\ Sound(generate_scheduler(dry))
  BY <1>3, <1>4, PrefixSound DEF manual_tasks_cleanup, generate_scheduler
<1>8. /\ Sound(manual_tasks_list) /\ Sound(manual_tasks_show) /\ Sound(manual_tasks_complete)
      /\ Sound(plan_show_tool) /\ Sound(dashboard_data) /\ Sound(calendar) /\ Sound(get_events)
      /\ Sound(list_requests)
  BY <1>1, StoreSound DEF manual_tasks_list, manual_tasks_show, manual_tasks_complete,
     plan_show_tool, dashboard_data, calendar, get_events, list_requests
<1>9. /\ Sound(generate_dashboard) /\ Sound(generate_report) /\ Sound(plan_create_tool)
      /\ Sound(classify_reply) /\ Sound(generate_rebuttal)
  BY <1>1, <1>2, StoreSound DEF generate_dashboard, generate_report, plan_create_tool,
     classify_reply, generate_rebuttal
<1>10. Sound(execute_campaign(dry)) /\ Sound(auto_confirm(dry))
  BY <1>1, <1>2, StoreSound DEF execute_campaign, auto_confirm
<1>11. Sound(poll_inbox)
  BY <1>1, <1>4, StoreSound, PrefixSound DEF poll_inbox
<1>12. Sound(run_web_form(dry))
  BY <1>2, <1>3, <1>4, StoreSound, PrefixSound DEF run_web_form
<1> QED
  BY <1>3, <1>5, <1>6, <1>7, <1>8, <1>9, <1>10, <1>11, <1>12

\* Every tool the Go surface dispatches to is sound.
LEMMA CallGoMapSound ==
    ASSUME NEW dry \in BOOLEAN, NEW name \in DOMAIN call_go_map(dry)
    PROVE  Sound(call_go_map(dry)[name])
BY ToolsSound DEF call_go_map

\* The commands.
LEMMA CommandsSound ==
    ASSUME NEW dry \in BOOLEAN, NEW name \in DOMAIN dispatch(dry)
    PROVE  Sound(dispatch(dry)[name])
<1> DEFINE Plain == StoreStages \cup InStore
<1>1. /\ Avoids(<<"query">>, StoreStages) /\ Avoids(<<"write">>, StoreStages)
      /\ Avoids(<<"load", "write">>, StoreStages)
      /\ Avoids(<<"consent", "load", "write">>, StoreStages)
      /\ Avoids(<<"load", "query", "write">>, StoreStages)
  BY DEF Avoids, StageNames, StoreStages
<1>2. /\ Sound(<<>>) /\ Sound(<<"args">>) /\ Sound(<<"load">>) /\ Sound(<<"side">>)
      /\ Sound(<<"load", "format">>) /\ Sound(<<"side", "format">>)
  <2>1. /\ Avoids(<<>>, Plain) /\ Avoids(<<"args">>, Plain) /\ Avoids(<<"load">>, Plain)
        /\ Avoids(<<"side">>, Plain) /\ Avoids(<<"load", "format">>, Plain)
        /\ Avoids(<<"side", "format">>, Plain)
    BY DEF Avoids, StageNames, StoreStages, InStore
  <2> QED BY <2>1, PlainSound
<1>3. /\ Sound(<<"args", "load", "format">>) /\ Sound(<<"args", "load", "args", "format">>)
      /\ Sound(<<"args", "load", "args">>) /\ Sound(<<"args", "side", "format">>)
  <2>1. /\ Avoids(<<"args", "load", "format">>, Plain)
        /\ Avoids(<<"args", "load", "args", "format">>, Plain)
        /\ Avoids(<<"args", "load", "args">>, Plain)
        /\ Avoids(<<"args", "side", "format">>, Plain)
    BY DEF Avoids, StageNames, StoreStages, InStore
  <2> QED BY <2>1, PlainSound
<1>4. Avoids(<<"args">>, Outer) /\ Avoids(<<"args", "load", "load">>, Outer)
  BY DEF Avoids, StageNames, Outer
<1>5. /\ Sound(config_show) /\ Sound(brokers_list) /\ Sound(brokers_show)
      /\ Sound(registry_list) /\ Sound(registry_validate) /\ Sound(render_template)
      /\ Sound(init_profile_command) /\ Sound(show_profile_command)
      /\ Sound(schedule_uninstall) /\ Sound(schedule_status)
  BY <1>2, <1>3 DEF config_show, brokers_list, brokers_show, registry_list, registry_validate,
     render_template, init_profile_command, show_profile_command, schedule_uninstall,
     schedule_status
<1>6. Sound(schedule_install(dry))
  BY <1>2, <1>3 DEF schedule_install
<1>7. Sound(migrate_command(dry))
  BY <1>2, <1>4, PrefixSound DEF migrate_command
<1>8. Sound(plan_show) /\ Sound(campaign_status) /\ Sound(plan_tick)
  BY <1>1, StoreSound DEF plan_show, campaign_status, plan_tick
<1>9. Sound(plan_create) /\ Sound(classify_reply_command) /\ Sound(generate_rebuttal_command)
  BY <1>1, <1>4, StoreSound, PrefixSound
  DEF plan_create, classify_reply_command, generate_rebuttal_command
<1>10. Sound(plan_execute(dry))
  BY <1>1, <1>4, StoreSound, PrefixSound DEF plan_execute
<1>11. \A tool : Sound(tool) => /\ Sound(contract_command(tool)) /\ Sound(web_action_command(tool))
                                /\ Sound(<<"args">> \o contract_command(tool))
                                /\ Sound(<<"args">> \o web_action_command(tool))
  BY <1>4, ContractSound, PrefixSound
<1>12. /\ Sound(poll_inbox_command) /\ Sound(review_command)
       /\ Sound(generate_dashboard_command) /\ Sound(generate_report_command)
       /\ Sound(generate_scheduler_command(dry))
       /\ Sound(run_web_form_command(dry)) /\ Sound(auto_confirm_command(dry))
  BY <1>11, ToolsSound DEF poll_inbox_command, review_command, generate_dashboard_command,
     generate_report_command, generate_scheduler_command, run_web_form_command,
     auto_confirm_command
<1>13. /\ Sound(contract_command(dashboard_data)) /\ Sound(contract_command(calendar))
       /\ Sound(contract_command(list_requests)) /\ Sound(contract_command(manual_tasks_list))
       /\ Sound(<<"args">> \o contract_command(manual_tasks_show))
       /\ Sound(<<"args">> \o contract_command(manual_tasks_complete))
       /\ Sound(contract_command(manual_tasks_cleanup(dry)))
       /\ Sound(<<"args">> \o contract_command(get_events))
       /\ Sound(contract_command(grant(dry)))
  BY <1>11, ToolsSound
<1>14. name \in {"version", "completion", "config_show", "brokers_list", "brokers_show",
                       "registry_list", "registry_validate", "render_template",
                       "init_profile", "show_profile", "status", "plan_create", "plan_show",
                       "execute", "plan_status", "tick", "dashboard", "calendar",
                       "requests_list", "manual_tasks_list", "manual_tasks_show",
                       "manual_tasks_complete", "manual_tasks_cleanup", "events_show",
                       "grant", "poll_inbox", "classify_reply", "generate_rebuttal",
                       "generate_dashboard", "generate_report", "generate_scheduler",
                       "schedule_install", "schedule_uninstall", "schedule_status", "review",
                       "run_web_form", "auto_confirm", "migrate", "deferred"}
  BY DEF dispatch
<1>15. /\ dispatch(dry)["version"] = <<>>
       /\ dispatch(dry)["completion"] = <<"args">>
       /\ dispatch(dry)["config_show"] = config_show
       /\ dispatch(dry)["brokers_list"] = brokers_list
       /\ dispatch(dry)["brokers_show"] = brokers_show
       /\ dispatch(dry)["registry_list"] = registry_list
       /\ dispatch(dry)["registry_validate"] = registry_validate
       /\ dispatch(dry)["render_template"] = render_template
       /\ dispatch(dry)["init_profile"] = init_profile_command
       /\ dispatch(dry)["show_profile"] = show_profile_command
  BY DEF dispatch
<1>16. /\ dispatch(dry)["status"] = campaign_status
       /\ dispatch(dry)["plan_create"] = plan_create
       /\ dispatch(dry)["plan_show"] = plan_show
       /\ dispatch(dry)["execute"] = plan_execute(dry)
       /\ dispatch(dry)["plan_status"] = campaign_status
       /\ dispatch(dry)["tick"] = plan_tick
       /\ dispatch(dry)["dashboard"] = contract_command(dashboard_data)
       /\ dispatch(dry)["calendar"] = contract_command(calendar)
       /\ dispatch(dry)["requests_list"] = contract_command(list_requests)
       /\ dispatch(dry)["manual_tasks_list"] = contract_command(manual_tasks_list)
  BY DEF dispatch
<1>17. /\ dispatch(dry)["manual_tasks_show"] = <<"args">> \o contract_command(manual_tasks_show)
       /\ dispatch(dry)["manual_tasks_complete"] = <<"args">> \o contract_command(manual_tasks_complete)
       /\ dispatch(dry)["manual_tasks_cleanup"] = contract_command(manual_tasks_cleanup(dry))
       /\ dispatch(dry)["events_show"] = <<"args">> \o contract_command(get_events)
       /\ dispatch(dry)["grant"] = contract_command(grant(dry))
       /\ dispatch(dry)["poll_inbox"] = poll_inbox_command
       /\ dispatch(dry)["classify_reply"] = classify_reply_command
       /\ dispatch(dry)["generate_rebuttal"] = generate_rebuttal_command
       /\ dispatch(dry)["generate_dashboard"] = generate_dashboard_command
       /\ dispatch(dry)["generate_report"] = generate_report_command
  BY DEF dispatch
<1>18. /\ dispatch(dry)["generate_scheduler"] = generate_scheduler_command(dry)
       /\ dispatch(dry)["schedule_install"] = schedule_install(dry)
       /\ dispatch(dry)["schedule_uninstall"] = schedule_uninstall
       /\ dispatch(dry)["schedule_status"] = schedule_status
       /\ dispatch(dry)["review"] = review_command
       /\ dispatch(dry)["run_web_form"] = run_web_form_command(dry)
       /\ dispatch(dry)["auto_confirm"] = auto_confirm_command(dry)
       /\ dispatch(dry)["migrate"] = migrate_command(dry)
       /\ dispatch(dry)["deferred"] = <<"args">>
  BY DEF dispatch
<1>19. /\ Sound(dispatch(dry)["version"])
       /\ Sound(dispatch(dry)["completion"])
       /\ Sound(dispatch(dry)["config_show"])
       /\ Sound(dispatch(dry)["brokers_list"])
       /\ Sound(dispatch(dry)["brokers_show"])
       /\ Sound(dispatch(dry)["registry_list"])
       /\ Sound(dispatch(dry)["registry_validate"])
       /\ Sound(dispatch(dry)["render_template"])
       /\ Sound(dispatch(dry)["init_profile"])
       /\ Sound(dispatch(dry)["show_profile"])
  BY <1>2, <1>5, <1>6, <1>7, <1>8, <1>9, <1>10, <1>12, <1>13, <1>15, Zenon
<1>20. /\ Sound(dispatch(dry)["status"])
       /\ Sound(dispatch(dry)["plan_create"])
       /\ Sound(dispatch(dry)["plan_show"])
       /\ Sound(dispatch(dry)["execute"])
       /\ Sound(dispatch(dry)["plan_status"])
       /\ Sound(dispatch(dry)["tick"])
       /\ Sound(dispatch(dry)["dashboard"])
       /\ Sound(dispatch(dry)["calendar"])
       /\ Sound(dispatch(dry)["requests_list"])
       /\ Sound(dispatch(dry)["manual_tasks_list"])
  BY <1>2, <1>5, <1>6, <1>7, <1>8, <1>9, <1>10, <1>12, <1>13, <1>16, Zenon
<1>21. /\ Sound(dispatch(dry)["manual_tasks_show"])
       /\ Sound(dispatch(dry)["manual_tasks_complete"])
       /\ Sound(dispatch(dry)["manual_tasks_cleanup"])
       /\ Sound(dispatch(dry)["events_show"])
       /\ Sound(dispatch(dry)["grant"])
       /\ Sound(dispatch(dry)["poll_inbox"])
       /\ Sound(dispatch(dry)["classify_reply"])
       /\ Sound(dispatch(dry)["generate_rebuttal"])
       /\ Sound(dispatch(dry)["generate_dashboard"])
       /\ Sound(dispatch(dry)["generate_report"])
  BY <1>2, <1>5, <1>6, <1>7, <1>8, <1>9, <1>10, <1>12, <1>13, <1>17, Zenon
<1>22. /\ Sound(dispatch(dry)["generate_scheduler"])
       /\ Sound(dispatch(dry)["schedule_install"])
       /\ Sound(dispatch(dry)["schedule_uninstall"])
       /\ Sound(dispatch(dry)["schedule_status"])
       /\ Sound(dispatch(dry)["review"])
       /\ Sound(dispatch(dry)["run_web_form"])
       /\ Sound(dispatch(dry)["auto_confirm"])
       /\ Sound(dispatch(dry)["migrate"])
       /\ Sound(dispatch(dry)["deferred"])
  BY <1>2, <1>5, <1>6, <1>7, <1>8, <1>9, <1>10, <1>12, <1>13, <1>18, Zenon
<1> QED
  BY <1>14, <1>19, <1>20, <1>21, <1>22, Zenon

\* A dry run has no stage with an effect, that of an execution none but writes.
LEMMA DrySound ==
    ASSUME NEW name \in HasDryRun, NEW executes, executes = (name = "execute")
    PROVE  /\ name \in DOMAIN call_go_map(TRUE) => DrySafe(call_go_map(TRUE)[name], executes)
           /\ name \in DOMAIN dispatch(TRUE) => DrySafe(dispatch(TRUE)[name], executes)
<1>1. /\ Avoids(<<>>, Effects) /\ Avoids(<<"args">>, Effects) /\ Avoids(<<"load">>, Effects)
      /\ Avoids(<<"args", "load">>, Effects) /\ Avoids(<<"open">>, Effects)
      /\ Avoids(<<"close">>, Effects) /\ Avoids(<<"format", "close">>, Effects)
      /\ Avoids(<<"format">>, Effects) /\ Avoids(<<"report">>, Effects)
  BY DEF Avoids, StageNames, Effects
<1>2. /\ Avoids(<<"query">>, Effects)
      /\ Avoids(<<"query", "empty", "empty">>, Effects) /\ Avoids(<<"empty", "empty">>, Effects)
      /\ Avoids(<<"args", "load", "format">>, Effects)
  BY DEF Avoids, StageNames, Effects
<1>3. \A body : Avoids(body, Effects) => /\ Avoids(with_open_store(body), Effects)
                                          /\ Avoids(with_store_outcome(body), Effects)
  BY <1>1, AvoidsJoined DEF with_open_store, with_store_outcome
<1>4. /\ Avoids(manual_tasks_cleanup(TRUE), Effects) /\ Avoids(grant(TRUE), Effects)
      /\ Avoids(generate_scheduler(TRUE), Effects)
      /\ Avoids(schedule_install_tool(TRUE), Effects)
  BY <1>1, AvoidsJoined DEF manual_tasks_cleanup, grant, generate_scheduler, schedule_install_tool
<1>5. Avoids(auto_confirm(TRUE), Effects)
  BY <1>2, <1>3 DEF auto_confirm
<1>6. Avoids(run_web_form(TRUE), Effects)
  BY <1>1, <1>2, AvoidsJoined DEF run_web_form
<1>7. \A tool : Avoids(tool, Effects) => /\ Avoids(contract_command(tool), Effects)
                                          /\ Avoids(web_action_command(tool), Effects)
  BY <1>1, AvoidsJoined DEF contract_command, contract_handler, web_action_command
<1>8. /\ Avoids(generate_scheduler_command(TRUE), Effects)
      /\ Avoids(contract_command(manual_tasks_cleanup(TRUE)), Effects)
      /\ Avoids(contract_command(grant(TRUE)), Effects)
      /\ Avoids(run_web_form_command(TRUE), Effects)
  BY <1>4, <1>6, <1>7 DEF generate_scheduler_command, run_web_form_command
<1>9. /\ Avoids(auto_confirm_command(TRUE), Effects) /\ Avoids(migrate_command(TRUE), Effects)
  BY <1>1, <1>5, <1>7, AvoidsJoined DEF auto_confirm_command, migrate_command
<1>10. Avoids(plan_tick, Effects) /\ Avoids(schedule_install(TRUE), Effects)
  BY <1>1, <1>2, <1>3, AvoidsJoined DEF plan_tick, schedule_install
<1>13. Avoids(execute_campaign(TRUE), Charged) /\ Avoids(plan_execute(TRUE), Charged)
  <2>1. /\ Avoids(<<"args">>, Charged) /\ Avoids(<<"open">>, Charged)
        /\ Avoids(<<"close">>, Charged) /\ Avoids(<<"format", "close">>, Charged)
        /\ Avoids(<<"load", "write">>, Charged)
    BY DEF Avoids, StageNames, Charged
  <2>2. /\ execute_campaign(TRUE) = with_open_store(<<"load", "write">>)
        /\ plan_execute(TRUE) = <<"args">> \o with_store_outcome(<<"load", "write">>)
    BY DEF execute_campaign, plan_execute
  <2>3. /\ Avoids(with_open_store(<<"load", "write">>), Charged)
        /\ Avoids(with_store_outcome(<<"load", "write">>), Charged)
    BY <2>1, AvoidsJoined DEF with_open_store, with_store_outcome
  <2>4. Avoids(<<"args">> \o with_store_outcome(<<"load", "write">>), Charged)
    BY <2>1, <2>3, AvoidsJoined
  <2> QED BY <2>2, <2>3, <2>4
<1>14. ASSUME NEW P, Avoids(P, Effects) PROVE DrySafe(P, executes)
  BY <1>14 DEF DrySafe, Avoids, Effects, Charged
<1>15. ASSUME NEW P, Avoids(P, Charged), name = "execute" PROVE DrySafe(P, executes)
  BY <1>15 DEF DrySafe
<1>11. name \in DOMAIN call_go_map(TRUE) => DrySafe(call_go_map(TRUE)[name], executes)
  <2>1. name \in DOMAIN call_go_map(TRUE) => name \notin {"tick", "migrate"}
    BY DEF call_go_map
  <2>2. /\ call_go_map(TRUE)["manual_tasks_cleanup"] = manual_tasks_cleanup(TRUE)
        /\ call_go_map(TRUE)["grant"] = grant(TRUE)
        /\ call_go_map(TRUE)["generate_scheduler"] = generate_scheduler(TRUE)
        /\ call_go_map(TRUE)["execute"] = execute_campaign(TRUE)
        /\ call_go_map(TRUE)["schedule_install"] = schedule_install_tool(TRUE)
        /\ call_go_map(TRUE)["run_web_form"] = run_web_form(TRUE)
        /\ call_go_map(TRUE)["auto_confirm"] = auto_confirm(TRUE)
    BY DEF call_go_map
  <2>3. CASE name = "execute"
    BY <1>13, <1>15, <2>2, <2>3
  <2>4. name \in DOMAIN call_go_map(TRUE) /\ name # "execute" => Avoids(call_go_map(TRUE)[name], Effects)
    BY <1>4, <1>5, <1>6, <2>1, <2>2, Zenon DEF HasDryRun
  <2> QED BY <1>14, <2>3, <2>4
<1>12. name \in DOMAIN dispatch(TRUE) => DrySafe(dispatch(TRUE)[name], executes)
  <2>1. /\ dispatch(TRUE)["manual_tasks_cleanup"] = contract_command(manual_tasks_cleanup(TRUE))
        /\ dispatch(TRUE)["grant"] = contract_command(grant(TRUE))
        /\ dispatch(TRUE)["generate_scheduler"] = generate_scheduler_command(TRUE)
        /\ dispatch(TRUE)["execute"] = plan_execute(TRUE)
        /\ dispatch(TRUE)["tick"] = plan_tick
    BY DEF dispatch
  <2>2. /\ dispatch(TRUE)["schedule_install"] = schedule_install(TRUE)
        /\ dispatch(TRUE)["run_web_form"] = run_web_form_command(TRUE)
        /\ dispatch(TRUE)["auto_confirm"] = auto_confirm_command(TRUE)
        /\ dispatch(TRUE)["migrate"] = migrate_command(TRUE)
    BY DEF dispatch
  <2>3. CASE name = "execute"
    BY <1>13, <1>15, <2>1, <2>3
  <2>4. name # "execute" => Avoids(dispatch(TRUE)[name], Effects)
    BY <1>8, <1>9, <1>10, <2>1, <2>2, Zenon DEF HasDryRun
  <2> QED BY <1>14, <2>3, <2>4
<1> QED
  BY <1>11, <1>12

\* Consent still comes before writing when nothing around it writes.
LEMMA ConsentJoined ==
    ASSUME NEW a, NEW P \in Seq(StageNames), NEW b, Avoids(a, Writes), ConsentFirst(P), Avoids(b, Writes)
    PROVE  ConsentFirst(a \o P \o b)
<1> DEFINE Q == a \o P
           n == Len(a)
<1>1. a \in Seq(StageNames) /\ b \in Seq(StageNames)
  BY DEF Avoids
<1>2. /\ Q \in Seq(StageNames) /\ n \in Nat /\ DOMAIN P \subseteq Nat
      /\ \A k \in DOMAIN P : Q[k + n] = P[k] /\ k + n \in DOMAIN Q
      /\ \A k \in DOMAIN Q : k \in DOMAIN a \/ (k > n /\ k - n \in DOMAIN P /\ Q[k] = P[k - n])
      /\ \A k \in DOMAIN a : Q[k] = a[k]
      /\ DOMAIN Q \subseteq Nat
  BY <1>1, Joined
<1> HIDE DEF Q, n
<1>3. ConsentFirst(Q)
  <2> SUFFICES ASSUME NEW k \in DOMAIN Q, Q[k] \in Writes
               PROVE  \E j \in DOMAIN Q : j < k /\ Q[j] = "consent"
    BY DEF ConsentFirst
  <2>1. k > n /\ k - n \in DOMAIN P /\ P[k - n] \in Writes
    BY <1>2 DEF Avoids
  <2>2. PICK j \in DOMAIN P : j < k - n /\ P[j] = "consent"
    BY <2>1 DEF ConsentFirst
  <2>3. j + n \in DOMAIN Q /\ j + n < k /\ Q[j + n] = "consent"
    BY <1>2, <2>1, <2>2
  <2> QED BY <2>3
<1>4. \A k \in DOMAIN (Q \o b) : (Q \o b)[k] \in Writes => k \in DOMAIN Q /\ (Q \o b)[k] = Q[k]
  <2>1. \A k \in DOMAIN (Q \o b) : k \in DOMAIN Q \/ (k - Len(Q) \in DOMAIN b /\ (Q \o b)[k] = b[k - Len(Q)])
    BY <1>1, <1>2, Joined
  <2>2. \A k \in DOMAIN Q : (Q \o b)[k] = Q[k]
    BY <1>1, <1>2, Joined
  <2> QED BY <2>1, <2>2 DEF Avoids
<1>5. \A k \in DOMAIN Q : k \in DOMAIN (Q \o b) /\ (Q \o b)[k] = Q[k]
  BY <1>1, <1>2, Joined
<1>6. ConsentFirst(Q \o b)
  BY <1>3, <1>4, <1>5 DEF ConsentFirst
<1> QED
  BY <1>6 DEF Q

\* A live execution asks for consent before it writes.
LEMMA ExecuteConsents == ConsentFirst(execute_campaign(FALSE)) /\ ConsentFirst(plan_execute(FALSE))
<1> DEFINE body == <<"consent", "load", "write">>
<1>1. ConsentFirst(body) /\ body \in Seq(StageNames)
  BY DEF ConsentFirst, Writes, StageNames
<1>2. /\ Avoids(<<"open">>, Writes) /\ Avoids(<<"close">>, Writes) /\ Avoids(<<>>, Writes)
      /\ Avoids(<<"format", "close">>, Writes) /\ Avoids(<<"args">>, Writes)
  BY DEF Avoids, StageNames, Writes
<1> HIDE DEF body
<1>3. ConsentFirst(with_open_store(body)) /\ ConsentFirst(with_store_outcome(body))
  BY <1>1, <1>2, ConsentJoined DEF with_open_store, with_store_outcome
<1>4. execute_campaign(FALSE) = with_open_store(body)
  BY DEF execute_campaign, body
<1>5. plan_execute(FALSE) = <<"args">> \o with_store_outcome(body)
  BY DEF plan_execute, body
<1>6. with_store_outcome(body) \in Seq(StageNames)
  BY <1>1, <1>2 DEF with_store_outcome, Avoids
<1>7. ConsentFirst(<<"args">> \o with_store_outcome(body) \o <<>>)
  BY <1>2, <1>3, <1>6, ConsentJoined
<1>8. <<"args">> \o with_store_outcome(body) \o <<>> = <<"args">> \o with_store_outcome(body)
  <2>1. <<"args">> \o with_store_outcome(body) \in Seq(StageNames)
    BY <1>2, <1>6 DEF Avoids
  <2> QED BY <2>1
<1> QED
  BY <1>3, <1>4, <1>5, <1>7, <1>8

\* Every program a process can start.
LEMMA Programs ==
    ASSUME NEW p \in CommandProcs, NEW dry \in BOOLEAN,
           NEW name \in DOMAIN (IF p \in ServerProcs THEN call_go_map(dry) ELSE dispatch(dry)),
           dry => name \in HasDryRun
    PROVE  LET P == (IF p \in ServerProcs THEN call_go_map(dry) ELSE dispatch(dry))[name]
           IN  /\ Sound(P)
               /\ dry => DrySafe(P, name = "execute")
               /\ name = "execute" /\ ~dry => ConsentFirst(P)
<1>1. CASE p \in ServerProcs
  <2>1. name = "execute" => call_go_map(dry)[name] = execute_campaign(dry)
    BY DEF call_go_map
  <2>2. dry => DrySafe(call_go_map(dry)[name], name = "execute")
    BY <1>1, DrySound
  <2> QED BY <1>1, <2>1, <2>2, CallGoMapSound, ExecuteConsents
<1>2. CASE p \notin ServerProcs
  <2>1. name = "execute" => dispatch(dry)[name] = plan_execute(dry)
    BY DEF dispatch
  <2>2. dry => DrySafe(dispatch(dry)[name], name = "execute")
    BY <1>2, DrySound
  <2> QED BY <1>2, <2>1, <2>2, CommandsSound, ExecuteConsents
<1> QED
  BY <1>1, <1>2

-----------------------------------------------------------------------------
EventRec == [n : Nat, executes : BOOLEAN, dry : BOOLEAN]
Answers == {"ok", "negative", "error"}
CallRec == [n : Nat, executes : BOOLEAN, prog : Seq(StageNames), pc : Nat, dry : BOOLEAN,
            answer : Answers, open : BOOLEAN, wrote : SUBSET EventRec, exit : {0, 1, None}]

\* The store has been opened and not closed before the stage k.
Opened(P, k) ==
    /\ \E i \in DOMAIN P : i < k /\ P[i] = "open"
    /\ \A j \in DOMAIN P : j < k => P[j] # "close"

\* A call that goes on has the store open where its program says so; one whose
\* answer is another is at the closing stage, or past all that needs the store.
InProgram(c) ==
    /\ c.pc \in 1..(Len(c.prog) + 1)
    /\ Sound(c.prog)
    /\ c.answer = "ok" => ((c.open = TRUE) <=> Opened(c.prog, c.pc))
    /\ c.answer # "ok" /\ c.open = TRUE => c.pc \in DOMAIN c.prog /\ c.prog[c.pc] = "close"
    /\ c.answer # "ok" /\ c.open # TRUE =>
         \A k \in DOMAIN c.prog : k >= c.pc => c.prog[k] \notin StoreStages

\* The call p after a stage with the answer a that left the events w.
LEMMA StepIs ==
    ASSUME NEW p \in CommandProcs, call \in [CommandProcs -> CallRec], NEW a, NEW w
    PROVE  Step(p, a, [call[p] EXCEPT !.wrote = w])
             = [n |-> call[p].n, executes |-> call[p].executes, prog |-> call[p].prog,
                pc |-> IF a = "ok" THEN call[p].pc + 1 ELSE Resume(p, a), dry |-> call[p].dry,
                answer |-> IF call[p].answer = "error" THEN "error"
                           ELSE IF a = "ok" THEN call[p].answer ELSE a,
                open |-> call[p].open, wrote |-> w, exit |-> call[p].exit]
<1> DEFINE r == [call[p] EXCEPT !.wrote = w]
           e == IF call[p].answer = "error" THEN "error"
                ELSE IF a = "ok" THEN call[p].answer ELSE a
           k == IF a = "ok" THEN call[p].pc + 1 ELSE Resume(p, a)
<1>1. r = [n |-> call[p].n, executes |-> call[p].executes, prog |-> call[p].prog,
           pc |-> call[p].pc, dry |-> call[p].dry, answer |-> call[p].answer,
           open |-> call[p].open, wrote |-> w, exit |-> call[p].exit]
  BY SMTT(60) DEF CallRec
<1>2. r.answer = call[p].answer /\ r.pc = call[p].pc
  BY <1>1
<1>3. Step(p, a, r) = [r EXCEPT !.answer = e, !.pc = k]
  <2>1. Step(p, a, r) = [r EXCEPT !.answer = IF call[p].answer = "error" THEN "error"
                                             ELSE IF a = "ok" THEN r.answer ELSE a,
                                  !.pc = IF a = "ok" THEN r.pc + 1 ELSE Resume(p, a)]
    BY DEF Step
  <2> QED BY <1>2, <2>1
<1> HIDE DEF r, e, k
<1>4. Step(p, a, r) = [n |-> call[p].n, executes |-> call[p].executes, prog |-> call[p].prog,
                       pc |-> k, dry |-> call[p].dry, answer |-> e,
                       open |-> call[p].open, wrote |-> w, exit |-> call[p].exit]
  BY <1>1, <1>3
<1> QED
  BY <1>4 DEF r, e, k

\* Writing back what a call wrote already changes nothing.
LEMMA Unwritten ==
    ASSUME NEW p \in CommandProcs, call \in [CommandProcs -> CallRec]
    PROVE  [call[p] EXCEPT !.wrote = call[p].wrote] = call[p]
BY DEF CallRec

\* A set of stages has a first one.
LEMMA FirstOf ==
    ASSUME NEW S \in SUBSET Nat, S # {}
    PROVE  LET m == CHOOSE k \in S : \A j \in S : k <= j IN m \in S
<1>1. IsWellFoundedOn(OpToRel(<, Nat), Nat)
  BY NatLessThanWellFounded
<1>2. PICK x \in S : \A y \in S : ~(<<y, x>> \in OpToRel(<, Nat))
  BY <1>1, WFMin, Zenon
<1>3. \A y \in S : ~(y < x)
  BY <1>2 DEF OpToRel
<1>4. \A y \in S : x <= y
  BY <1>3
<1> QED
  BY <1>4

\* Where a call goes on: further down, at the closing stage if it is open.
LEMMA Resumes ==
    ASSUME NEW p \in CommandProcs, call \in [CommandProcs -> CallRec], call[p].pc \in DOMAIN call[p].prog,
           NEW a
    PROVE  /\ Resume(p, a) \in (call[p].pc + 1)..(Len(call[p].prog) + 1)
           /\ (call[p].open /\ \E k \in DOMAIN call[p].prog :
                  k > call[p].pc /\ call[p].prog[k] = "close") =>
                Resume(p, a) \in DOMAIN call[p].prog /\ call[p].prog[Resume(p, a)] = "close"
           /\ ~call[p].open /\ a = "error" => Resume(p, a) = Len(call[p].prog) + 1
<1> DEFINE c == call[p]
           stages == IF c.open THEN {"close"} ELSE IF a = "error" THEN {} ELSE {"format"}
           later == {k \in (c.pc + 1)..Len(c.prog) : c.prog[k] \in stages}
<1>1. c.pc \in Nat /\ c.prog \in Seq(StageNames) /\ Len(c.prog) \in Nat /\ DOMAIN c.prog = 1..Len(c.prog)
  BY DEF CallRec
<1>2. Resume(p, a) = IF later = {} THEN Len(c.prog) + 1
                     ELSE CHOOSE k \in later : \A j \in later : k <= j
  BY DEF Resume
<1>3. later \in SUBSET Nat
  BY <1>1
<1>4. later # {} => Resume(p, a) \in later
  <2> HIDE DEF later
  <2> QED BY <1>2, <1>3, FirstOf
<1>5. later = {} => Resume(p, a) = Len(c.prog) + 1
  BY <1>2
<1>6. \A k \in later : k \in (c.pc + 1)..Len(c.prog) /\ k \in DOMAIN c.prog /\ c.prog[k] \in stages
  BY <1>1
<1>7. Resume(p, a) \in (c.pc + 1)..(Len(c.prog) + 1)
  <2> HIDE DEF later
  <2> QED BY <1>1, <1>4, <1>5, <1>6
<1>8. ASSUME c.open, NEW k \in DOMAIN c.prog, k > c.pc, c.prog[k] = "close"
      PROVE  Resume(p, a) \in DOMAIN c.prog /\ c.prog[Resume(p, a)] = "close"
  <2>1. k \in later /\ stages = {"close"}
    BY <1>1, <1>8
  <2> HIDE DEF later, stages
  <2> QED BY <1>4, <1>6, <2>1
<1>9. ASSUME ~c.open, a = "error" PROVE Resume(p, a) = Len(c.prog) + 1
  BY <1>5, <1>9
<1> QED
  BY <1>7, <1>8, <1>9

\* A stage between opening and closing has the store open, as long as the
\* answer is good.
LEMMA WithinOpened ==
    ASSUME NEW P, Sound(P), NEW k \in Nat, Within(P, k)
    PROVE  Opened(P, k)
<1>1. DOMAIN P \subseteq Nat
  BY DEF Sound
<1> QED
  BY <1>1 DEF Sound, Within, Opened

\* A stage that works on the store finds it open and no refusal before it.
LEMMA InStoreIsOpen ==
    ASSUME NEW c \in CallRec, InProgram(c), c.pc \in DOMAIN c.prog, c.prog[c.pc] \in InStore
    PROVE  c.open = TRUE /\ c.answer = "ok"
<1>1. c.pc \in Nat /\ Sound(c.prog) /\ Within(c.prog, c.pc) /\ DOMAIN c.prog \subseteq Nat
  BY DEF CallRec, InProgram, Sound
<1>2. Opened(c.prog, c.pc)
  BY <1>1, WithinOpened
<1>3. c.answer = "ok"
  <2> SUFFICES ASSUME c.answer # "ok" PROVE FALSE
    OBVIOUS
  <2>1. CASE c.open = TRUE
    BY <2>1 DEF InProgram, InStore
  <2>2. CASE c.open # TRUE
    <3>1. PICK j \in DOMAIN c.prog : c.pc < j /\ c.prog[j] = "close"
      BY <1>1 DEF Within
    <3>2. \A k \in DOMAIN c.prog : k >= c.pc => c.prog[k] \notin StoreStages
      BY <2>2 DEF InProgram
    <3>3. j >= c.pc
      BY <1>1, <3>1
    <3> QED BY <3>1, <3>2, <3>3 DEF StoreStages
  <2> QED BY <2>1, <2>2
<1> QED
  BY <1>2, <1>3 DEF InProgram

\* The closing stage finds the store open.
LEMMA CloseIsOpen ==
    ASSUME NEW c \in CallRec, InProgram(c), c.pc \in DOMAIN c.prog, c.prog[c.pc] = "close"
    PROVE  c.open = TRUE
<1>1. c.pc \in Nat /\ Sound(c.prog) /\ DOMAIN c.prog \subseteq Nat
  BY DEF CallRec, InProgram, Sound
<1>2. CASE c.answer = "ok"
  <2>1. Opened(c.prog, c.pc)
    <3>1. PICK i \in DOMAIN c.prog : c.prog[i] = "open"
      BY <1>1 DEF Sound
    <3>2. i < c.pc
      BY <1>1, <3>1 DEF Sound
    <3>3. \A j \in DOMAIN c.prog : j < c.pc => c.prog[j] # "close"
      BY <1>1 DEF Sound
    <3> QED BY <3>1, <3>2, <3>3 DEF Opened
  <2> QED BY <1>2, <2>1 DEF InProgram
<1>3. CASE c.answer # "ok"
  <2> SUFFICES ASSUME c.open # TRUE PROVE FALSE
    OBVIOUS
  <2>1. \A k \in DOMAIN c.prog : k >= c.pc => c.prog[k] \notin StoreStages
    BY <1>3 DEF InProgram
  <2>2. c.pc >= c.pc
    BY <1>1
  <2> QED BY <2>1, <2>2 DEF StoreStages
<1> QED
  BY <1>2, <1>3

\* A call at the end of its program has closed the store.
LEMMA EndIsClosed ==
    ASSUME NEW c \in CallRec, InProgram(c), c.pc > Len(c.prog)
    PROVE  c.open = FALSE
<1>1. /\ c.pc \in Nat /\ Sound(c.prog) /\ DOMAIN c.prog = 1..Len(c.prog) /\ Len(c.prog) \in Nat
      /\ c.open \in BOOLEAN
  BY DEF CallRec, InProgram, Sound
<1>2. CASE c.answer = "ok"
  <2>1. ~Opened(c.prog, c.pc)
    <3> SUFFICES ASSUME Opened(c.prog, c.pc) PROVE FALSE
      OBVIOUS
    <3>1. PICK j \in DOMAIN c.prog : c.prog[j] = "close"
      BY <1>1 DEF Sound, Opened
    <3>2. j < c.pc
      BY <1>1
    <3> QED BY <3>1, <3>2 DEF Opened
  <2> QED BY <1>1, <1>2, <2>1 DEF InProgram
<1>3. CASE c.answer # "ok"
  BY <1>1, <1>3 DEF InProgram
<1> QED
  BY <1>2, <1>3

\* A stage other than opening and closing leaves the call at its place in the program.
LEMMA Advances ==
    ASSUME NEW p \in CommandProcs, call \in [CommandProcs -> CallRec], InProgram(call[p]),
           call[p].pc \in DOMAIN call[p].prog, call[p].prog[call[p].pc] \notin StoreStages,
           NEW a \in Answers, NEW w,
           a = "negative" => call[p].prog[call[p].pc] \in {"empty", "task", "note"}
    PROVE  InProgram(Step(p, a, [call[p] EXCEPT !.wrote = w]))
<1> DEFINE c == call[p]
           P == c.prog
           d == Step(p, a, [call[p] EXCEPT !.wrote = w])
           to == IF a = "ok" THEN c.pc + 1 ELSE Resume(p, a)
           ans == IF c.answer = "error" THEN "error" ELSE IF a = "ok" THEN c.answer ELSE a
<1>0. d = [n |-> c.n, executes |-> c.executes, prog |-> P, pc |-> to, dry |-> c.dry, answer |-> ans,
           open |-> c.open, wrote |-> w, exit |-> c.exit]
  BY StepIs, Zenon
<1>1. /\ d.prog = P /\ d.open = c.open
      /\ d.pc = IF a = "ok" THEN c.pc + 1 ELSE Resume(p, a)
      /\ d.answer = IF c.answer = "error" THEN "error" ELSE IF a = "ok" THEN c.answer ELSE a
  <2> HIDE DEF c, P, d, to, ans
  <2>1. d.prog = P /\ d.open = c.open /\ d.pc = to /\ d.answer = ans
    BY <1>0
  <2> QED BY <2>1 DEF to, ans
<1>2. /\ c \in CallRec /\ c.pc \in Nat /\ Len(P) \in Nat /\ DOMAIN P = 1..Len(P) /\ Sound(P)
      /\ c.answer \in Answers
  BY DEF CallRec, InProgram
<1>3. /\ Resume(p, a) \in (c.pc + 1)..(Len(P) + 1)
      /\ (c.open = TRUE /\ \E k \in DOMAIN P : k > c.pc /\ P[k] = "close") =>
           Resume(p, a) \in DOMAIN P /\ P[Resume(p, a)] = "close"
      /\ c.open # TRUE /\ a = "error" => Resume(p, a) = Len(P) + 1
  <2>1. c.open \in BOOLEAN
    BY DEF CallRec
  <2> QED BY <2>1, Resumes
<1>4. /\ c.answer = "ok" => ((c.open = TRUE) <=> Opened(P, c.pc))
      /\ c.answer # "ok" => c.open # TRUE
      /\ c.answer # "ok" => \A k \in DOMAIN P : k >= c.pc => P[k] \notin StoreStages
  BY DEF InProgram, StoreStages
<1>5. P[c.pc] # "open" /\ P[c.pc] # "close"
  BY DEF StoreStages
<1>6. /\ c.pc \in DOMAIN P
      /\ a = "negative" => P[c.pc] \in {"empty", "task", "note"}
  OBVIOUS
<1> SUFFICES InProgram(d)
  OBVIOUS
<1> HIDE DEF c, P, d
<1>7. d.pc \in 1..(Len(d.prog) + 1)
  BY <1>1, <1>2, <1>3, <1>6
<1>8. CASE a = "ok" /\ c.answer = "ok"
  <2>1. Opened(P, c.pc + 1) <=> Opened(P, c.pc)
    BY <1>2, <1>5, <1>6 DEF Opened
  <2>2. d.answer = "ok" /\ d.pc = c.pc + 1
    BY <1>1, <1>8
  <2> QED BY <1>1, <1>2, <1>4, <1>7, <1>8, <2>1, <2>2 DEF InProgram
<1>9. CASE c.answer # "ok"
  <2>1. d.answer # "ok" /\ d.pc >= c.pc /\ d.pc \in Nat
    BY <1>1, <1>2, <1>3, <1>9 DEF Answers
  <2>2. \A k \in DOMAIN P : k >= d.pc => P[k] \notin StoreStages
    BY <1>2, <1>4, <1>9, <2>1
  <2> QED BY <1>1, <1>2, <1>4, <1>7, <1>9, <2>1, <2>2 DEF InProgram
<1>10. CASE a # "ok" /\ c.answer = "ok" /\ c.open = TRUE
  <2>1. d.answer # "ok" /\ d.pc = Resume(p, a)
    BY <1>1, <1>10
  <2>2. PICK j \in DOMAIN P : P[j] = "close"
    BY <1>2, <1>4, <1>10 DEF Opened, Sound
  <2>3. j > c.pc
    BY <1>2, <1>4, <1>5, <1>10, <2>2 DEF Opened
  <2>4. d.pc \in DOMAIN P /\ P[d.pc] = "close"
    BY <1>3, <1>10, <2>1, <2>2, <2>3
  <2> QED BY <1>1, <1>2, <1>7, <1>10, <2>1, <2>4 DEF InProgram
<1>11. CASE a # "ok" /\ c.answer = "ok" /\ c.open # TRUE
  <2>1. d.answer # "ok" /\ d.pc = Resume(p, a)
    BY <1>1, <1>11
  <2>2. CASE a = "error"
    <3>1. d.pc = Len(P) + 1
      BY <1>3, <1>11, <2>1, <2>2
    <3>2. \A k \in DOMAIN P : ~(k >= d.pc)
      BY <1>2, <3>1
    <3> QED BY <1>1, <1>2, <1>7, <1>11, <2>1, <3>2 DEF InProgram
  <2>3. CASE a = "negative"
    <3>1. ~Within(P, c.pc)
      BY <1>2, <1>4, <1>11, WithinOpened
    <3>2. \A j \in DOMAIN P : P[j] \notin StoreStages
      BY <1>2, <1>6, <2>3, <3>1 DEF Sound, InStore
    <3> QED BY <1>1, <1>2, <1>7, <1>11, <2>1, <3>2 DEF InProgram
  <2> QED BY <1>11, <2>2, <2>3 DEF Answers
<1> QED
  BY <1>8, <1>9, <1>10, <1>11 DEF d

-----------------------------------------------------------------------------
CommandTypes ==
    /\ calls \in 0..MaxCommands /\ holder \in CommandProcs \cup {None} /\ spent \subseteq 1..calls
    /\ serving \subseteq ServerProcs /\ retained \subseteq CommandProcs
    /\ call \in [CommandProcs -> CallRec] /\ db \subseteq EventRec

\* Calls have numbers of their own; one that is over or never was has no store.
Numbered ==
    \A p \in CommandProcs :
        /\ call[p].n <= calls
        /\ \A q \in CommandProcs : q # p /\ call[q].n = call[p].n => call[p].n = 0
        /\ call[p].n = 0 => call[p] = Idle
        /\ call[p].exit # None => call[p].open = FALSE /\ call[p].answer = "ok"

\* A call is in its program, has spent what it asked for, and wrote what is
\* published, or will be when it closes, or is not reported as a success.
Programmed ==
    \A p \in CommandProcs :
        /\ InProgram(call[p])
        /\ call[p].dry = TRUE => DrySafe(call[p].prog, call[p].executes) /\ call[p].n \notin spent
        /\ call[p].executes = TRUE /\ call[p].dry = FALSE => ConsentFirst(call[p].prog)
        /\ call[p].answer = "ok" =>
             \A j \in DOMAIN call[p].prog :
               j < call[p].pc /\ call[p].prog[j] = "consent" => call[p].n \in spent
        /\ \/ call[p].wrote \subseteq db \/ call[p].open = TRUE
           \/ call[p].answer = "error" \/ call[p].exit = 1

\* An event of a dry run is that of an execution, a live execution has spent.
Allowed(e, paid) ==
    /\ e.dry = TRUE => e.executes = TRUE
    /\ e.executes = TRUE /\ e.dry = FALSE => e.n \in paid

\* No other event and no effect of a dry run, no live execution without consent.
Clean ==
    /\ \A e \in db : Allowed(e, spent)
    /\ \A p \in CommandProcs : \A e \in call[p].wrote : Allowed(e, spent)
    /\ \A o \in outside : o.dry = FALSE

\* The lock follows the store.
Locked ==
    \A p \in CommandProcs :
        /\ call[p].open = TRUE => holder = p
        /\ holder = p => call[p].open = TRUE \/ p \in retained
        /\ holder = p => Running(p) \/ p \in serving \cap retained
        /\ p \in ServerProcs /\ Running(p) => p \in serving

CommandInv == CommandTypes /\ Numbered /\ Programmed /\ Clean /\ Locked

\* A step changes where a call is, its answer and what it wrote, nothing else.
LEMMA StepFields ==
    ASSUME NEW p \in CommandProcs, call \in [CommandProcs -> CallRec], call[p].pc \in DOMAIN call[p].prog,
           NEW a \in Answers, NEW w \in SUBSET EventRec, NEW d,
           d = Step(p, a, [call[p] EXCEPT !.wrote = w])
    PROVE  /\ d \in CallRec
           /\ d.n = call[p].n /\ d.executes = call[p].executes /\ d.prog = call[p].prog
           /\ d.dry = call[p].dry /\ d.open = call[p].open /\ d.wrote = w
           /\ d.exit = call[p].exit
           /\ call[p].answer = "error" => d.answer = "error"
           /\ d.answer = "ok" => a = "ok" /\ call[p].answer = "ok" /\ d.pc = call[p].pc + 1
           /\ a = "error" => d.answer = "error"
<1> DEFINE c == call[p]
           to == IF a = "ok" THEN c.pc + 1 ELSE Resume(p, a)
           ans == IF c.answer = "error" THEN "error" ELSE IF a = "ok" THEN c.answer ELSE a
<1>0. d = [n |-> c.n, executes |-> c.executes, prog |-> c.prog, pc |-> to, dry |-> c.dry,
           answer |-> ans, open |-> c.open, wrote |-> w, exit |-> c.exit]
  BY StepIs, Zenon
<1>1. to \in Nat
  <2>1. Resume(p, a) \in (c.pc + 1)..(Len(c.prog) + 1) /\ c.pc \in Nat
    BY Resumes DEF CallRec
  <2> QED BY <2>1
<1>2. c \in CallRec
  OBVIOUS
<1>3. ans \in Answers
  BY <1>2 DEF Answers, CallRec
<1>4. d \in CallRec
  <2>1. /\ c.n \in Nat /\ c.executes \in BOOLEAN /\ c.prog \in Seq(StageNames)
        /\ c.dry \in BOOLEAN /\ c.open \in BOOLEAN /\ c.exit \in {0, 1, None}
    BY <1>2 DEF CallRec
  <2>2. w \in SUBSET EventRec
    OBVIOUS
  <2> HIDE DEF c, to, ans
  <2> QED BY ONLY <1>0, <1>1, <1>3, <2>1, <2>2 DEF CallRec
<1>5. /\ d.n = c.n /\ d.executes = c.executes /\ d.prog = c.prog
      /\ d.dry = c.dry /\ d.open = c.open /\ d.wrote = w /\ d.exit = c.exit
      /\ d.answer = ans /\ d.pc = to
  <2> HIDE DEF c, to, ans
  <2> QED BY <1>0
<1>6. /\ c.answer = "error" => ans = "error"
      /\ ans = "ok" => a = "ok" /\ c.answer = "ok" /\ to = c.pc + 1
      /\ a = "error" => ans = "error"
  OBVIOUS
<1> HIDE DEF to, ans
<1> QED
  BY <1>4, <1>5, <1>6

\* A stage other than opening and closing keeps the invariant: it may write
\* with the store open, spend a token and leave an effect, not in a dry run.
LEMMA WorkStep ==
    ASSUME CommandInv, NEW p \in CommandProcs, Running(p), call[p].pc \in DOMAIN call[p].prog,
           Stage(p) \notin StoreStages, NEW a \in Answers,
           a = "negative" => Stage(p) \in {"empty", "task", "note"},
           NEW w, w = call[p].wrote \/ (Stage(p) \in Writes /\ w \subseteq call[p].wrote \cup {Event(p)}),
           call' = [call EXCEPT ![p] = Step(p, a, [call[p] EXCEPT !.wrote = w])],
           UNCHANGED <<holder, db, serving, retained, calls>>,
           spent' \in {spent, spent \cup {call[p].n}},
           spent' = spent \/ Stage(p) = "consent",
           Stage(p) = "consent" /\ a = "ok" => call[p].n \in spent',
           \A o \in outside' : o.dry = FALSE
    PROVE  CommandInv'
<1> DEFINE c == call[p]
           d == Step(p, a, [call[p] EXCEPT !.wrote = w])
<1>t. /\ call \in [CommandProcs -> CallRec] /\ c \in CallRec /\ InProgram(c) /\ db \subseteq EventRec
      /\ calls \in 0..MaxCommands /\ c.n \in Nat /\ c.pc \in Nat /\ c.n <= calls /\ c.n # 0
      /\ c.exit = None /\ spent \subseteq 1..calls /\ MaxCommands \in Nat
  BY CommandsAssumption DEF CommandInv, CommandTypes, Programmed, Numbered, CallRec, Running
<1>e. Event(p) = [n |-> c.n, executes |-> c.executes, dry |-> c.dry] /\ Event(p) \in EventRec
  BY <1>t DEF Event, EventRec, CallRec
<1>0. w \in SUBSET EventRec
  BY <1>t, <1>e DEF CallRec
<1>1. /\ d \in CallRec
      /\ d.n = c.n /\ d.executes = c.executes /\ d.prog = c.prog
      /\ d.dry = c.dry /\ d.open = c.open /\ d.wrote = w /\ d.exit = c.exit
      /\ c.answer = "error" => d.answer = "error"
      /\ d.answer = "ok" => a = "ok" /\ c.answer = "ok" /\ d.pc = c.pc + 1
  BY <1>0, <1>t, StepFields, SMTT(60)
<1>2. InProgram(d)
  BY <1>t, Advances DEF Stage
<1>3. /\ call' \in [CommandProcs -> CallRec] /\ call'[p] = d
      /\ \A q \in CommandProcs \ {p} : call'[q] = call[q]
  BY <1>t, <1>1
<1>4. Stage(p) \in InStore => c.open = TRUE /\ c.answer = "ok"
  BY <1>t, InStoreIsOpen DEF Stage
<1>5. /\ c.dry = TRUE => /\ Stage(p) \notin Charged /\ DrySafe(c.prog, c.executes)
                          /\ c.n \notin spent
      /\ c.dry = TRUE /\ c.executes # TRUE => Stage(p) \notin Effects
  BY DEF CommandInv, Programmed, Stage, Avoids, DrySafe
<1>6. spent' \subseteq 1..calls /\ spent \subseteq spent' /\ (c.dry = TRUE => spent' = spent)
  BY <1>t, <1>5 DEF Charged
<1>7. Stage(p) = c.prog[c.pc] /\ c.dry \in BOOLEAN /\ c.executes \in BOOLEAN
  BY <1>t DEF Stage, CallRec
<1> HIDE DEF c, d
<1>10. CommandTypes'
  BY <1>t, <1>3, <1>6 DEF CommandInv, CommandTypes
<1>11. Numbered'
  <2>1. \A q \in CommandProcs : call'[q].n = call[q].n
    BY <1>1, <1>3 DEF c
  <2>2. \A q \in CommandProcs : call'[q].n = 0 => call'[q] = call[q]
    BY <1>1, <1>3, <1>t
  <2>3. d.exit = None
    BY <1>1, <1>t
  <2> QED BY <1>3, <2>1, <2>2, <2>3 DEF CommandInv, Numbered
<1>12. Programmed'
  <2>1. ASSUME NEW q \in CommandProcs \ {p}
        PROVE  /\ InProgram(call[q])
               /\ call[q].dry = TRUE => DrySafe(call[q].prog, call[q].executes) /\ call[q].n \notin spent'
               /\ call[q].executes = TRUE /\ call[q].dry = FALSE => ConsentFirst(call[q].prog)
               /\ call[q].answer = "ok" =>
                    \A j \in DOMAIN call[q].prog :
                      j < call[q].pc /\ call[q].prog[j] = "consent" => call[q].n \in spent'
               /\ \/ call[q].wrote \subseteq db \/ call[q].open = TRUE
                  \/ call[q].answer = "error" \/ call[q].exit = 1
    <3>1. call[q].n # c.n
      <4>1. call[q].n = c.n => c.n = 0
        BY <2>1 DEF CommandInv, Numbered, c
      <4> QED BY <4>1, <1>t
    <3>2. call[q].n \notin spent => call[q].n \notin spent'
      BY <3>1 DEF c
    <3> QED BY <1>6, <3>2 DEF CommandInv, Programmed
  <2>2. d.dry = TRUE => DrySafe(d.prog, d.executes) /\ d.n \notin spent'
    BY <1>1, <1>5, <1>6
  <2>3. d.executes = TRUE /\ d.dry = FALSE => ConsentFirst(d.prog)
    BY <1>1 DEF CommandInv, Programmed, c
  <2>4. ASSUME d.answer = "ok", NEW j \in DOMAIN d.prog, j < d.pc, d.prog[j] = "consent"
        PROVE  d.n \in spent'
    <3>1. a = "ok" /\ c.answer = "ok" /\ d.pc = c.pc + 1 /\ j \in DOMAIN c.prog
      BY <1>1, <2>4
    <3>2. j < c.pc \/ j = c.pc
      <4>1. j \in Nat
        BY <1>t, <3>1 DEF CallRec
      <4> QED BY <1>t, <2>4, <3>1, <4>1
    <3>3. CASE j < c.pc
      BY <1>1, <1>6, <2>4, <3>1, <3>3 DEF CommandInv, Programmed, c
    <3>4. CASE j = c.pc
      BY <1>1, <1>7, <2>4, <3>1, <3>4 DEF c
    <3> QED BY <3>2, <3>3, <3>4
  <2>5. d.wrote \subseteq db \/ d.open = TRUE \/ d.answer = "error" \/ d.exit = 1
    <3>1. CASE w = c.wrote
      <4>1. c.wrote \subseteq db \/ c.open = TRUE \/ c.answer = "error" \/ c.exit = 1
        BY DEF CommandInv, Programmed, c
      <4> QED BY <3>1, <4>1, <1>1
    <3>2. CASE Stage(p) \in Writes
      BY <3>2, <1>1, <1>4 DEF Writes, InStore
    <3> QED BY <3>1, <3>2 DEF c
  <2> QED BY <1>2, <1>3, <2>1, <2>2, <2>3, <2>4, <2>5 DEF Programmed
<1>13. Clean'
  <2>1. \A e \in db : Allowed(e, spent')
    BY <1>6 DEF CommandInv, Clean, Allowed
  <2>2. \A q \in CommandProcs : \A e \in call[q].wrote : Allowed(e, spent')
    BY <1>6 DEF CommandInv, Clean, Allowed
  <2>3. ASSUME Stage(p) \in Writes
        PROVE  Allowed(Event(p), spent')
    <3>1. Event(p).dry = c.dry /\ Event(p).executes = c.executes /\ Event(p).n = c.n
      BY <1>e
    <3>2. c.dry = TRUE => c.executes = TRUE
      BY <2>3, <1>5, <1>7 DEF Writes, Effects
    <3>3. ASSUME c.executes = TRUE, c.dry = FALSE PROVE c.n \in spent
      <4>1. c.answer = "ok" /\ ConsentFirst(c.prog)
        BY <2>3, <1>4, <3>3 DEF Writes, InStore, CommandInv, Programmed, c
      <4>2. PICK j \in DOMAIN c.prog : j < c.pc /\ c.prog[j] = "consent"
        BY <2>3, <4>1, <1>7 DEF ConsentFirst, c
      <4> QED BY <4>1, <4>2 DEF CommandInv, Programmed, c
    <3> QED BY <1>6, <3>1, <3>2, <3>3 DEF Allowed
  <2>4. \A e \in w : Allowed(e, spent')
    BY <2>2, <2>3
  <2> QED BY <1>1, <1>3, <2>1, <2>2, <2>4 DEF Clean
<1>14. Locked'
  <2>1. \A q \in CommandProcs : call'[q].open = call[q].open
    BY <1>1, <1>3 DEF c
  <2>2. \A q \in CommandProcs : Running(q)' <=> Running(q)
    <3>1. \A q \in CommandProcs : call'[q].n = call[q].n /\ call'[q].exit = call[q].exit
      BY <1>1, <1>3 DEF c
    <3> QED BY <3>1 DEF Running
  <2> QED BY <2>1, <2>2 DEF CommandInv, Locked
<1> QED
  BY <1>10, <1>11, <1>12, <1>13, <1>14 DEF CommandInv

\* The stages that write nothing into the store.
LEMMA QuietStep ==
    ASSUME CommandInv, NEW p \in CommandProcs, NEW stage, At(p, stage), stage \notin StoreStages,
           NEW a \in Answers, a = "negative" => stage \in {"empty", "task", "note"},
           Continue(p, a), UNCHANGED <<holder, db, serving, retained, calls>>,
           spent' \in {spent, spent \cup {call[p].n}}, spent' = spent \/ stage = "consent",
           stage = "consent" /\ a = "ok" => call[p].n \in spent',
           \A o \in outside' : o.dry = FALSE
    PROVE  CommandInv'
<1>1. call \in [CommandProcs -> CallRec] /\ InProgram(call[p])
  BY DEF CommandInv, CommandTypes, Programmed
<1>2. /\ Running(p) /\ Stage(p) = stage /\ call[p].pc \in DOMAIN call[p].prog
  <2>1. /\ Running(p) /\ Stage(p) = stage /\ call[p].pc <= Len(call[p].prog)
    BY DEF At
  <2>2. call[p].pc \in 1..(Len(call[p].prog) + 1) /\ call[p].prog \in Seq(StageNames)
    BY <1>1 DEF InProgram, Sound
  <2> QED BY <2>1, <2>2
<1>3. call' = [call EXCEPT ![p] = Step(p, a, call[p])]
  BY DEF Continue
<1>4. call' = [call EXCEPT ![p] = Step(p, a, [call[p] EXCEPT !.wrote = call[p].wrote])]
  BY <1>1, <1>3, Unwritten
<1> QED
  BY <1>2, <1>4, WorkStep

\* Checks, empty results, output formats and web actions keep the invariant.
LEMMA CheckStep ==
    ASSUME CommandInv, NEW p \in CommandProcs, check(p) \/ empty(p) \/ output_format(p) \/ web_action(p)
    PROVE  CommandInv'
<1>1. \A o \in outside : o.dry = FALSE
  BY DEF CommandInv, Clean
<1>2. PICK stage \in {"args", "load", "query", "empty", "format", "report"}, a \in Answers :
        /\ At(p, stage) /\ Continue(p, a) /\ (a = "negative" => stage = "empty")
        /\ UNCHANGED <<holder, db, tokens, spent, outside, serving, retained, calls>>
  <2>1. CASE check(p)
    BY <2>1 DEF check, Answers
  <2>2. CASE empty(p)
    BY <2>2 DEF empty, Answers
  <2>3. CASE output_format(p)
    BY <2>3 DEF output_format, Answers
  <2>4. CASE web_action(p)
    BY <2>4 DEF web_action, Answers
  <2> QED BY <2>1, <2>2, <2>3, <2>4
<1>3. stage \notin StoreStages /\ stage # "consent"
  BY DEF StoreStages
<1>4. spent' = spent /\ outside' = outside
  BY <1>2
<1> QED
  BY <1>1, <1>2, <1>3, <1>4, QuietStep

\* Consulting the consent gate and granting a token keep it.
LEMMA GateStep ==
    ASSUME CommandInv, NEW p \in CommandProcs, consent_gate(p) \/ ConsentStore_grant(p)
    PROVE  CommandInv'
<1>1. \A o \in outside : o.dry = FALSE
  BY DEF CommandInv, Clean
<1>2. CASE consent_gate(p)
  <2>1. At(p, "consent") /\ UNCHANGED <<holder, db, outside, serving, retained, calls>>
    BY <1>2 DEF consent_gate
  <2>2. CASE spent' = spent \cup {call[p].n} /\ Continue(p, "ok")
    BY <1>1, <2>1, <2>2, QuietStep DEF StoreStages, Answers
  <2>3. CASE Continue(p, "error") /\ UNCHANGED <<tokens, spent>>
    BY <1>1, <2>1, <2>3, QuietStep DEF StoreStages, Answers
  <2> QED BY <1>2, <2>2, <2>3 DEF consent_gate
<1>3. CASE ConsentStore_grant(p)
  <2>1. PICK a \in {"ok", "error"} : Continue(p, a)
    BY <1>3 DEF ConsentStore_grant
  <2>2. At(p, "grant") /\ UNCHANGED <<holder, db, spent, outside, serving, retained, calls>>
    BY <1>3 DEF ConsentStore_grant
  <2>3. a \in Answers /\ a # "negative" /\ "grant" \notin StoreStages /\ "grant" # "consent"
    BY DEF StoreStages, Answers
  <2> QED BY <1>1, <2>1, <2>2, <2>3, QuietStep
<1> QED
  BY <1>2, <1>3

\* An effect outside the database keeps it.
LEMMA SideStep ==
    ASSUME CommandInv, NEW p \in CommandProcs, side(p)
    PROVE  CommandInv'
<1>1. \A o \in outside : o.dry = FALSE
  BY DEF CommandInv, Clean
<1>2. PICK a \in {"ok", "error"} : Continue(p, a)
  BY DEF side
<1>3. /\ At(p, "side") /\ UNCHANGED <<holder, db, tokens, spent, serving, retained, calls>>
      /\ outside' \in {outside, outside \cup {[n |-> call[p].n, dry |-> call[p].dry]}}
  BY DEF side
<1>4. call[p].dry = FALSE
  <2>1. call[p].dry \in BOOLEAN
    BY DEF CommandInv, CommandTypes, CallRec
  <2>2. Stage(p) = "side" /\ call[p].pc <= Len(call[p].prog)
    BY <1>3 DEF At
  <2>3. call[p].pc \in 1..(Len(call[p].prog) + 1) /\ call[p].prog \in Seq(StageNames)
    BY DEF CommandInv, Programmed, InProgram, Sound
  <2>4. call[p].pc \in DOMAIN call[p].prog
    BY <2>2, <2>3
  <2>5. call[p].dry # TRUE
    BY <2>2, <2>4 DEF CommandInv, Programmed, DrySafe, Avoids, Charged, Stage
  <2> QED BY <2>1, <2>5
<1>5. \A o \in outside' : o.dry = FALSE
  <2> DEFINE o == [n |-> call[p].n, dry |-> call[p].dry]
  <2>1. o.dry = FALSE
    BY <1>4
  <2>2. outside' \subseteq outside \cup {o}
    BY <1>3
  <2> HIDE DEF o
  <2> QED BY <1>1, <2>1, <2>2
<1>6. a \in Answers /\ a # "negative" /\ "side" \notin StoreStages /\ "side" # "consent"
  BY DEF StoreStages, Answers
<1> QED
  BY <1>2, <1>3, <1>5, <1>6, QuietStep

\* Writing in memory keeps it.
LEMMA WriteStep ==
    ASSUME CommandInv, NEW p \in CommandProcs, write(p)
    PROVE  CommandInv'
<1>1. PICK stage \in {"write", "task", "note"} :
        /\ At(p, stage)
        /\ \E new \in {{}, {Event(p)}},
              answer \in CASE stage = "task" -> {"ok", "negative"}
                           [] stage = "note" -> {"ok", "negative", "error"}
                           [] OTHER -> {"ok", "error"} :
              call' = [call EXCEPT ![p] = Step(p, answer,
                         [call[p] EXCEPT !.wrote = call[p].wrote \cup new])]
  BY DEF write
<1>2. PICK new \in {{}, {Event(p)}},
           a \in CASE stage = "task" -> {"ok", "negative"}
                           [] stage = "note" -> {"ok", "negative", "error"}
                           [] OTHER -> {"ok", "error"} :
              call' = [call EXCEPT ![p] = Step(p, a,
                         [call[p] EXCEPT !.wrote = call[p].wrote \cup new])]
  BY <1>1
<1>3. a \in Answers /\ (a = "negative" => stage \in {"empty", "task", "note"})
  BY DEF Answers
<1>4. call \in [CommandProcs -> CallRec] /\ call[p] \in CallRec
  BY DEF CommandInv, CommandTypes
<1>5. /\ Running(p) /\ Stage(p) = stage /\ call[p].pc \in DOMAIN call[p].prog
  <2>1. /\ Running(p) /\ Stage(p) = stage /\ call[p].pc <= Len(call[p].prog)
    BY <1>1 DEF At
  <2>2. call[p].pc \in 1..(Len(call[p].prog) + 1) /\ call[p].prog \in Seq(StageNames)
    BY DEF CommandInv, Programmed, InProgram, Sound
  <2> QED BY <2>1, <2>2
<1>6. stage \notin StoreStages /\ stage \in Writes /\ stage # "consent"
  BY DEF StoreStages, Writes
<1> DEFINE w == call[p].wrote \cup new
<1>7. call' = [call EXCEPT ![p] = Step(p, a, [call[p] EXCEPT !.wrote = w])]
  BY <1>2
<1>8. w \subseteq call[p].wrote \cup {Event(p)}
  OBVIOUS
<1>9. /\ UNCHANGED <<holder, db, serving, retained, calls>> /\ spent' = spent
      /\ \A o \in outside' : o.dry = FALSE
  BY DEF write, CommandInv, Clean
<1> HIDE DEF w
<1> QED
  BY <1>3, <1>5, <1>6, <1>7, <1>8, <1>9, WorkStep

\* What the invariant says of one call.
Fits(d, published) ==
    /\ InProgram(d)
    /\ d.n = 0 => d = Idle
    /\ d.exit # None => d.open = FALSE /\ d.answer = "ok"
    /\ d.dry = TRUE => DrySafe(d.prog, d.executes) /\ d.n \notin spent
    /\ d.executes = TRUE /\ d.dry = FALSE => ConsentFirst(d.prog)
    /\ d.answer = "ok" =>
         \A j \in DOMAIN d.prog : j < d.pc /\ d.prog[j] = "consent" => d.n \in spent
    /\ \/ d.wrote \subseteq published \/ d.open = TRUE
       \/ d.answer = "error" \/ d.exit = 1

\* What the invariant says of one call.
LEMMA CallFits ==
    ASSUME CommandInv, NEW p \in CommandProcs
    PROVE  /\ call[p] \in CallRec /\ Fits(call[p], db)
           /\ call[p].n \in 0..calls
<1>1. call[p] \in CallRec /\ call[p].n \in Nat /\ calls \in Nat /\ call[p].n <= calls
  BY DEF CommandInv, CommandTypes, Numbered, CallRec
<1> QED
  BY <1>1 DEF CommandInv, Numbered, Programmed, Fits

\* A step of one process that writes nothing new keeps the invariant when its
\* next call fits and the lock follows.
LEMMA OneCall ==
    ASSUME CommandInv, NEW p \in CommandProcs, NEW d \in CallRec, call' = [call EXCEPT ![p] = d],
           UNCHANGED <<spent, outside>>, calls' \in {calls, calls + 1}, calls' <= MaxCommands,
           d.n \in {0, call[p].n} \/ (calls' = calls + 1 /\ d.n = calls + 1),
           db \subseteq db', db' \subseteq db \cup call[p].wrote, d.wrote \subseteq call[p].wrote,
           Fits(d, db'), Locked',
           holder' \in CommandProcs \cup {None}, serving' \subseteq ServerProcs, retained' \subseteq CommandProcs
    PROVE  CommandInv'
<1>1. /\ call \in [CommandProcs -> CallRec] /\ calls \in Nat /\ db \subseteq EventRec
      /\ spent \subseteq 1..calls /\ call[p].wrote \subseteq EventRec
      /\ MaxCommands \in Nat
  BY CommandsAssumption DEF CommandInv, CommandTypes, CallRec
<1>2. /\ call' \in [CommandProcs -> CallRec] /\ call'[p] = d
      /\ \A q \in CommandProcs \ {p} : call'[q] = call[q]
  BY <1>1
<1>3. CommandTypes'
  <2>1. calls' \in 0..MaxCommands /\ spent' \subseteq 1..calls'
    BY <1>1
  <2>2. db' \subseteq EventRec
    BY <1>1
  <2> QED BY <1>2, <2>1, <2>2 DEF CommandTypes
<1>4. \A q \in CommandProcs : /\ call[q].n \in Nat /\ call[q].n <= calls
                       /\ \A r \in CommandProcs : r # q /\ call[r].n = call[q].n => call[q].n = 0
  BY <1>1 DEF CommandInv, Numbered, CallRec
<1>5. Numbered'
  <2>1. ASSUME NEW q \in CommandProcs \ {p}
        PROVE  /\ call'[q].n <= calls'
               /\ \A r \in CommandProcs : r # q /\ call'[r].n = call'[q].n => call'[q].n = 0
               /\ call'[q].n = 0 => call'[q] = Idle
               /\ call'[q].exit # None => call'[q].open = FALSE /\ call'[q].answer = "ok"
    <3>1. call'[q].n <= calls'
      BY <1>1, <1>2, <1>4
    <3>2. ASSUME NEW r \in CommandProcs, r # q, call'[r].n = call'[q].n PROVE call'[q].n = 0
      <4>1. CASE r # p
        BY <1>2, <1>4, <3>2, <4>1
      <4>2. CASE r = p
        <5>1. d.n = call[q].n
          BY <1>2, <3>2, <4>2
        <5>2. d.n # calls + 1
          BY <1>1, <1>4, <5>1
        <5> QED BY <1>2, <1>4, <3>2, <4>2, <5>1, <5>2
      <4> QED BY <4>1, <4>2
    <3> QED BY <1>2, <3>1, <3>2 DEF CommandInv, Numbered
  <2>2. /\ d.n <= calls'
        /\ \A r \in CommandProcs : r # p /\ call'[r].n = d.n => d.n = 0
    <3>1. d.n <= calls'
      BY <1>1, <1>4
    <3>2. ASSUME NEW r \in CommandProcs, r # p, call'[r].n = d.n PROVE d.n = 0
      BY <1>2, <2>1, <3>2
    <3> QED BY <3>1, <3>2
  <2> QED BY <1>2, <2>1, <2>2 DEF Numbered, Fits
<1>6. Programmed'
  BY <1>2 DEF CommandInv, Programmed, Fits
<1>7. Clean'
  <2>1. \A q \in CommandProcs : call'[q].wrote \subseteq call[q].wrote
    BY <1>2
  <2> QED BY <2>1 DEF CommandInv, Clean
<1> QED
  BY <1>3, <1>5, <1>6, <1>7 DEF CommandInv

\* A process without a call fits every database.
LEMMA IdleFits ==
    ASSUME CommandInv, NEW published
    PROVE  Idle \in CallRec /\ Fits(Idle, published)
<1>1. /\ Idle.n = 0 /\ Idle.executes = FALSE /\ Idle.prog = <<>> /\ Idle.pc = 1 /\ Idle.dry = FALSE
      /\ Idle.answer = "ok" /\ Idle.open = FALSE /\ Idle.wrote = {} /\ Idle.exit = None
  BY DEF Idle
<1>2. <<>> \in Seq(StageNames) /\ Len(<<>>) = 0 /\ DOMAIN <<>> = {}
  OBVIOUS
<1>3. Sound(<<>>) /\ ~Opened(<<>>, 1)
  BY <1>2 DEF Sound, Opened
<1>4. Idle \in CallRec
  BY <1>2 DEF Idle, CallRec, Answers
<1>5. InProgram(Idle)
  BY <1>1, <1>2, <1>3 DEF InProgram
<1> QED
  BY <1>1, <1>2, <1>4, <1>5 DEF Fits

\* A process that is killed keeps the invariant.
LEMMA StopStep ==
    ASSUME CommandInv, NEW p \in CommandProcs, stop(p)
    PROVE  CommandInv'
<1>1. /\ call' = [call EXCEPT ![p] = Idle] /\ serving' = serving \ {p} /\ retained' = retained \ {p}
      /\ holder' = IF holder = p THEN None ELSE holder
      /\ UNCHANGED <<db, spent, outside, calls>>
  BY DEF stop
<1>2. /\ call \in [CommandProcs -> CallRec] /\ holder \in CommandProcs \cup {None}
      /\ serving \subseteq ServerProcs /\ retained \subseteq CommandProcs
      /\ calls \in Nat /\ calls <= MaxCommands /\ None \notin CommandProcs
  BY CommandsAssumption DEF CommandInv, CommandTypes
<1>3. Idle.n = 0 /\ Idle.open = FALSE /\ Idle.wrote = {}
  BY DEF Idle
<1>4. Idle \in CallRec /\ Fits(Idle, db')
  BY IdleFits
<1>5. Locked'
  <2>1. call'[p] = Idle /\ \A q \in CommandProcs \ {p} : call'[q] = call[q]
    BY <1>1, <1>2
  <2>2. ~(Running(p)') /\ \A q \in CommandProcs \ {p} : Running(q)' <=> Running(q)
    BY <1>3, <2>1 DEF Running
  <2>3. holder' # p
    BY <1>1, <1>2
  <2>4. \A q \in CommandProcs \ {p} : holder' = q <=> holder = q
    BY <1>1, <1>2
  <2> QED BY <1>1, <1>3, <2>1, <2>2, <2>3, <2>4 DEF CommandInv, Locked
<1> QED
  BY <1>1, <1>2, <1>3, <1>4, <1>5, OneCall

\* A process that begins to serve keeps it.
LEMMA ServeStep ==
    ASSUME CommandInv, NEW p \in CommandProcs, begin_serving(p)
    PROVE  CommandInv'
<1>1. /\ p \in ServerProcs /\ serving' = serving \cup {p}
      /\ UNCHANGED <<holder, db, spent, outside, retained, calls, call>>
  BY DEF begin_serving
<1>2. CommandTypes'
  BY <1>1 DEF CommandInv, CommandTypes
<1>3. Numbered' /\ Programmed' /\ Clean'
  BY <1>1 DEF CommandInv, Numbered, Programmed, Clean
<1>4. Locked'
  BY <1>1 DEF CommandInv, Locked, Running
<1> QED
  BY <1>2, <1>3, <1>4 DEF CommandInv

\* The record of a process without a call.
LEMMA IdleRec ==
    /\ Idle \in CallRec
    /\ Idle = [n |-> 0, executes |-> FALSE, prog |-> <<>>, pc |-> 1, dry |-> FALSE,
               answer |-> "ok", open |-> FALSE, wrote |-> {}, exit |-> None]
BY DEF Idle, CallRec, Answers
\* Starting a command or a tool keeps the invariant.
LEMMA StartStep ==
    ASSUME CommandInv, NEW p \in CommandProcs, start(p)
    PROVE  CommandInv'
<1>1. /\ ~Running(p) /\ calls < MaxCommands /\ (p \in ServerProcs => p \in serving)
      /\ calls' = calls + 1
      /\ UNCHANGED <<holder, db, spent, outside, serving, retained>>
  BY DEF start
<1>0. PICK dry \in BOOLEAN :
        \E name \in DOMAIN (IF p \in ServerProcs THEN call_go_map(dry) ELSE dispatch(dry)) :
          /\ dry => name \in HasDryRun
          /\ call' = [call EXCEPT ![p] =
               [Idle EXCEPT !.n = calls + 1, !.executes = (name = "execute"),
                  !.prog = (IF p \in ServerProcs THEN call_go_map(dry) ELSE dispatch(dry))[name],
                  !.dry = dry]]
  BY ZenonT(60) DEF start
<1>2. PICK name \in DOMAIN (IF p \in ServerProcs THEN call_go_map(dry) ELSE dispatch(dry)) :
        /\ dry => name \in HasDryRun
        /\ call' = [call EXCEPT ![p] =
             [Idle EXCEPT !.n = calls + 1, !.executes = (name = "execute"),
                !.prog = (IF p \in ServerProcs THEN call_go_map(dry) ELSE dispatch(dry))[name],
                !.dry = dry]]
  BY <1>0
<1> DEFINE P == (IF p \in ServerProcs THEN call_go_map(dry) ELSE dispatch(dry))[name]
           d == [Idle EXCEPT !.n = calls + 1, !.executes = (name = "execute"), !.prog = P,
                             !.dry = dry]
<1>3. /\ Sound(P) /\ (dry => DrySafe(P, name = "execute"))
      /\ name = "execute" /\ ~dry => ConsentFirst(P)
  BY <1>2, Programs
<1>4. call' = [call EXCEPT ![p] = d]
  BY <1>2
<1> HIDE DEF P
<1>5. P \in Seq(StageNames) /\ calls + 1 \in Nat /\ (name = "execute") \in BOOLEAN
  BY <1>3 DEF Sound, CommandInv, CommandTypes
<1>6. /\ d \in CallRec
      /\ d.n = calls + 1 /\ d.executes = (name = "execute") /\ d.prog = P /\ d.pc = 1
      /\ d.dry = dry /\ d.answer = "ok" /\ d.open = FALSE /\ d.wrote = {} /\ d.exit = None
  <2>1. d \in CallRec
    BY <1>2, <1>5, IdleRec DEF CallRec
  <2>2. /\ d.n = calls + 1 /\ d.executes = (name = "execute") /\ d.prog = P /\ d.pc = 1
        /\ d.dry = dry /\ d.answer = "ok" /\ d.open = FALSE /\ d.wrote = {} /\ d.exit = None
    BY IdleRec
  <2> QED BY <2>1, <2>2
<1> HIDE DEF d
<1>7. /\ call \in [CommandProcs -> CallRec] /\ holder \in CommandProcs \cup {None} /\ calls \in Nat
      /\ serving \subseteq ServerProcs /\ retained \subseteq CommandProcs /\ spent \subseteq 1..calls
      /\ MaxCommands \in Nat
  BY CommandsAssumption DEF CommandInv, CommandTypes
<1>8. P \in Seq(StageNames) /\ Len(P) \in Nat /\ DOMAIN P = 1..Len(P)
  BY <1>3 DEF Sound
<1>10. Fits(d, db')
  <2>1. InProgram(d)
    <3>1. ~Opened(P, 1)
      BY <1>8 DEF Opened
    <3>2. 1 \in 1..(Len(P) + 1)
      BY <1>8
    <3> QED BY <1>3, <1>6, <3>1, <3>2 DEF InProgram
  <2>2. calls + 1 \notin spent /\ calls + 1 # 0
    BY <1>7
  <2>3. d.dry = TRUE => DrySafe(d.prog, d.executes) /\ d.n \notin spent
    BY <1>3, <1>6, <2>2
  <2>4. d.executes = TRUE /\ d.dry = FALSE => ConsentFirst(d.prog)
    BY <1>3, <1>6
  <2>5. \A j \in DOMAIN d.prog : ~(j < d.pc)
    BY <1>6, <1>8
  <2> QED BY <1>6, <2>1, <2>2, <2>3, <2>4, <2>5 DEF Fits
<1>11. Locked'
  <2>1. call'[p] = d /\ \A q \in CommandProcs \ {p} : call'[q] = call[q]
    BY <1>4, <1>7
  <2>2. /\ Running(p)'
        /\ \A q \in CommandProcs \ {p} : Running(q)' <=> Running(q)
    BY <1>6, <1>7, <2>1 DEF Running
  <2>3. holder = p => p \in serving \cap retained
    BY <1>1 DEF CommandInv, Locked
  <2> QED BY <1>1, <1>6, <2>1, <2>2, <2>3 DEF CommandInv, Locked
<1>12. calls' <= MaxCommands
  BY <1>1, <1>7
<1> QED
  BY <1>1, <1>4, <1>6, <1>7, <1>10, <1>11, <1>12, OneCall

\* Ending a command with its exit code keeps it.
LEMMA MainStep ==
    ASSUME CommandInv, NEW p \in CommandProcs, main(p)
    PROVE  CommandInv'
<1> DEFINE c == call[p]
           d == [Idle EXCEPT !.n = call[p].n, !.dry = call[p].dry,
                             !.wrote = call[p].wrote, !.exit = exit_status(p)]
<1>1. /\ Running(p) /\ c.pc > Len(c.prog) /\ call' = [call EXCEPT ![p] = d]
      /\ holder' = IF holder = p /\ p \notin ServerProcs THEN None ELSE holder
      /\ retained' = IF p \in ServerProcs THEN retained ELSE retained \ {p}
      /\ UNCHANGED <<db, spent, outside, serving, calls>>
  BY DEF main
<1>2. c \in CallRec /\ Fits(c, db) /\ c.n \in 0..calls
  BY CallFits
<1>3. c.open = FALSE
  BY <1>1, <1>2, EndIsClosed DEF Fits
<1>4. exit_status(p) \in {0, 1} /\ (exit_status(p) # 1 => c.answer # "error")
  BY DEF exit_status
<1>5. c.n \in Nat /\ c.dry \in BOOLEAN /\ c.wrote \in SUBSET EventRec
  BY <1>2 DEF CallRec
<1>6. /\ d \in CallRec
      /\ d.n = c.n /\ d.executes = FALSE /\ d.prog = <<>> /\ d.pc = 1
      /\ d.dry = c.dry /\ d.answer = "ok" /\ d.open = FALSE /\ d.wrote = c.wrote
      /\ d.exit = exit_status(p)
  <2> HIDE DEF c
  <2>1. d \in CallRec
    BY <1>4, <1>5, IdleRec DEF CallRec, c
  <2>2. /\ d.n = c.n /\ d.executes = FALSE /\ d.prog = <<>> /\ d.pc = 1
        /\ d.dry = c.dry /\ d.answer = "ok" /\ d.open = FALSE /\ d.wrote = c.wrote
        /\ d.exit = exit_status(p)
    BY IdleRec DEF c
  <2> QED BY <2>1, <2>2
<1> HIDE DEF c, d
<1>7. /\ call \in [CommandProcs -> CallRec] /\ holder \in CommandProcs \cup {None} /\ calls \in Nat
      /\ serving \subseteq ServerProcs /\ retained \subseteq CommandProcs
      /\ calls <= MaxCommands /\ None \notin CommandProcs /\ None \notin {0, 1}
  BY CommandsAssumption DEF CommandInv, CommandTypes
<1>8. <<>> \in Seq(StageNames) /\ Len(<<>>) = 0 /\ DOMAIN <<>> = {}
  OBVIOUS
<1>10. Fits(d, db')
  <2>1. InProgram(d)
    <3>1. Sound(<<>>) /\ ~Opened(<<>>, 1)
      BY <1>8 DEF Sound, Opened
    <3> QED BY <1>6, <1>8, <3>1 DEF InProgram
  <2>2. c.n # 0 /\ c.exit = None
    BY <1>1 DEF Running, c
  <2>3. d.dry = TRUE => DrySafe(d.prog, d.executes) /\ d.n \notin spent
    BY <1>2, <1>6, <1>8 DEF Fits, DrySafe, Avoids
  <2>4. d.wrote \subseteq db' \/ d.exit = 1
    BY <1>1, <1>2, <1>3, <1>4, <1>6, <1>7, <2>2 DEF Fits
  <2> QED BY <1>6, <1>8, <2>1, <2>2, <2>3, <2>4 DEF Fits
<1>11. Locked'
  <2>1. call'[p] = d /\ \A q \in CommandProcs \ {p} : call'[q] = call[q]
    BY <1>1, <1>7
  <2>2. ~(Running(p)') /\ \A q \in CommandProcs \ {p} : Running(q)' <=> Running(q)
    BY <1>4, <1>6, <1>7, <2>1 DEF Running
  <2>3. ASSUME holder' = p PROVE p \in serving' \cap retained'
    <3>1. holder = p /\ p \in ServerProcs
      BY <1>1, <1>7, <2>3
    <3>2. p \in retained /\ p \in serving
      BY <1>1, <1>3, <3>1 DEF CommandInv, Locked, c
    <3> QED BY <1>1, <3>1, <3>2
  <2>4. \A q \in CommandProcs \ {p} : (holder' = q <=> holder = q) /\ (q \in retained' <=> q \in retained)
    BY <1>1, <1>7
  <2>5. ASSUME NEW q \in CommandProcs \ {p}
        PROVE  /\ call'[q].open = TRUE => holder' = q
               /\ holder' = q => call'[q].open = TRUE \/ q \in retained'
               /\ holder' = q => Running(q)' \/ q \in serving' \cap retained'
               /\ q \in ServerProcs /\ Running(q)' => q \in serving'
    BY <1>1, <2>1, <2>2, <2>4 DEF CommandInv, Locked
  <2>6. /\ call'[p].open # TRUE
        /\ ~(p \in ServerProcs /\ Running(p)')
    BY <1>6, <2>1, <2>2
  <2> QED BY <2>3, <2>5, <2>6 DEF Locked
<1>12. holder' \in CommandProcs \cup {None} /\ retained' \subseteq CommandProcs
  BY <1>1, <1>7
<1> QED
  BY <1>1, <1>6, <1>7, <1>10, <1>11, <1>12, OneCall DEF c

\* The opening stage finds the store closed and no refusal before it.
LEMMA OpenIsClosed ==
    ASSUME NEW c \in CallRec, InProgram(c), c.pc \in DOMAIN c.prog, c.prog[c.pc] = "open"
    PROVE  c.open = FALSE /\ c.answer = "ok"
<1>1. c.pc \in Nat /\ Sound(c.prog) /\ DOMAIN c.prog \subseteq Nat /\ c.open \in BOOLEAN
  BY DEF CallRec, InProgram, Sound
<1>2. c.answer = "ok"
  <2>1. c.pc >= c.pc
    BY <1>1
  <2> QED BY <2>1 DEF InProgram, StoreStages
<1>3. ~Opened(c.prog, c.pc)
  <2> SUFFICES ASSUME NEW i \in DOMAIN c.prog, i < c.pc, c.prog[i] = "open" PROVE FALSE
    BY DEF Opened
  <2>1. i = c.pc
    BY <1>1 DEF Sound
  <2> QED BY <1>1, <2>1
<1> QED
  BY <1>1, <1>2, <1>3 DEF InProgram

\* A process at a stage runs a program that has this stage at its place.
LEMMA AtStage ==
    ASSUME CommandInv, NEW p \in CommandProcs, NEW stage, At(p, stage)
    PROVE  /\ Running(p) /\ call[p].pc \in DOMAIN call[p].prog
           /\ call[p].prog[call[p].pc] = stage
<1>1. /\ Running(p) /\ Stage(p) = stage /\ call[p].pc <= Len(call[p].prog)
  BY DEF At
<1>2. call[p].pc \in 1..(Len(call[p].prog) + 1) /\ call[p].prog \in Seq(StageNames)
  BY DEF CommandInv, Programmed, InProgram, Sound
<1> QED
  BY <1>1, <1>2 DEF Stage

\* The call p after a stage that wrote nothing, with the answer a.
LEMMA QuietFields ==
    ASSUME CommandInv, NEW p \in CommandProcs, call[p].pc \in DOMAIN call[p].prog, NEW a \in Answers
    PROVE  LET d == Step(p, a, call[p]) IN
           /\ d \in CallRec
           /\ d.n = call[p].n /\ d.executes = call[p].executes /\ d.prog = call[p].prog
           /\ d.dry = call[p].dry /\ d.open = call[p].open /\ d.wrote = call[p].wrote
           /\ d.exit = call[p].exit
           /\ a = "ok" => d.answer = call[p].answer /\ d.pc = call[p].pc + 1
           /\ a = "error" => d.answer = "error" /\ d.pc = Resume(p, a)
<1>1. call \in [CommandProcs -> CallRec] /\ call[p] \in CallRec /\ call[p].wrote \in SUBSET EventRec
  BY DEF CommandInv, CommandTypes, CallRec
<1>2. [call[p] EXCEPT !.wrote = call[p].wrote] = call[p]
  BY <1>1, Unwritten
<1> DEFINE d == Step(p, a, call[p])
<1>3. /\ d \in CallRec
      /\ d.n = call[p].n /\ d.executes = call[p].executes /\ d.prog = call[p].prog
      /\ d.dry = call[p].dry /\ d.open = call[p].open /\ d.wrote = call[p].wrote
      /\ d.exit = call[p].exit
  <2>1. PICK w \in SUBSET EventRec : w = call[p].wrote
    BY <1>1
  <2>0. PICK f : f = Step(p, a, [call[p] EXCEPT !.wrote = w])
    OBVIOUS
  <2>2. /\ f \in CallRec
        /\ f.n = call[p].n /\ f.executes = call[p].executes /\ f.prog = call[p].prog
        /\ f.dry = call[p].dry /\ f.open = call[p].open /\ f.wrote = w
        /\ f.exit = call[p].exit
    BY <1>1, <2>0, StepFields
  <2>3. f = d
    BY <1>2, <2>0, <2>1
  <2> HIDE DEF d
  <2> QED BY <2>1, <2>2, <2>3
<1>4. Step(p, a, call[p])
        = [n |-> call[p].n, executes |-> call[p].executes, prog |-> call[p].prog,
           pc |-> IF a = "ok" THEN call[p].pc + 1 ELSE Resume(p, a), dry |-> call[p].dry,
           answer |-> IF call[p].answer = "error" THEN "error"
                      ELSE IF a = "ok" THEN call[p].answer ELSE a,
           open |-> call[p].open, wrote |-> call[p].wrote, exit |-> call[p].exit]
  BY <1>1, <1>2, StepIs, Zenon
<1>5. /\ d.pc = IF a = "ok" THEN call[p].pc + 1 ELSE Resume(p, a)
      /\ d.answer = IF call[p].answer = "error" THEN "error"
                    ELSE IF a = "ok" THEN call[p].answer ELSE a
  BY <1>4
<1> HIDE DEF d
<1>6. /\ a = "ok" => d.answer = call[p].answer /\ d.pc = call[p].pc + 1
      /\ a = "error" => d.answer = "error" /\ d.pc = Resume(p, a)
  BY <1>5
<1> QED
  BY <1>3, <1>6 DEF d

\* Opening the store, under the lock or in vain, keeps the invariant.
LEMMA OpenStep ==
    ASSUME CommandInv, NEW p \in CommandProcs, open_store(p)
    PROVE  CommandInv'
<1> DEFINE c == call[p]
           P == call[p].prog
<1>1. /\ Running(p) /\ c.pc \in DOMAIN P /\ P[c.pc] = "open"
      /\ UNCHANGED <<db, spent, outside, serving, retained, calls>>
  BY AtStage DEF open_store
<1>2. c \in CallRec /\ Fits(c, db) /\ c.n \in 0..calls /\ c.n # 0 /\ c.exit = None
  BY <1>1, CallFits DEF Running
<1>3. c.open = FALSE /\ c.answer = "ok"
  BY <1>1, <1>2, OpenIsClosed DEF Fits
<1>4. /\ call \in [CommandProcs -> CallRec] /\ holder \in CommandProcs \cup {None} /\ calls \in Nat
      /\ serving \subseteq ServerProcs /\ retained \subseteq CommandProcs
      /\ calls <= MaxCommands /\ None \notin CommandProcs
  BY CommandsAssumption DEF CommandInv, CommandTypes
<1>5. Sound(P) /\ P \in Seq(StageNames) /\ DOMAIN P = 1..Len(P) /\ Len(P) \in Nat /\ c.pc \in Nat
  BY <1>2 DEF Fits, InProgram, Sound, CallRec
<1>6. CASE holder = None /\ holder' = p /\ call' = [call EXCEPT ![p] = [Step(p, "ok", @) EXCEPT !.open = TRUE]]
  <2> DEFINE e == Step(p, "ok", call[p])
             d == [e EXCEPT !.open = TRUE]
  <2>1. call' = [call EXCEPT ![p] = d]
    BY <1>6
  <2>2. /\ e \in CallRec
        /\ e.n = c.n /\ e.executes = c.executes /\ e.prog = P /\ e.dry = c.dry
        /\ e.wrote = c.wrote /\ e.exit = c.exit /\ e.answer = "ok" /\ e.pc = c.pc + 1
    BY <1>1, <1>3, QuietFields DEF Answers
  <2> HIDE DEF e
  <2>3. /\ d \in CallRec
        /\ d.n = e.n /\ d.executes = e.executes /\ d.prog = e.prog /\ d.dry = e.dry
        /\ d.wrote = e.wrote /\ d.exit = e.exit /\ d.answer = e.answer /\ d.pc = e.pc
        /\ d.open = TRUE
    BY <2>2 DEF CallRec
  <2> HIDE DEF c, P, d
  <2>4. /\ d.n = c.n /\ d.executes = c.executes /\ d.prog = P /\ d.dry = c.dry
        /\ d.wrote = c.wrote /\ d.exit = c.exit /\ d.answer = "ok" /\ d.pc = c.pc + 1
    BY <2>2, <2>3
  <2>5. Opened(P, c.pc + 1)
    <3>1. \A j \in DOMAIN P : P[j] = "close" => c.pc < j
      BY <1>1, <1>5 DEF Sound
    <3> QED BY <1>1, <1>5, <3>1 DEF Opened
  <2>6. InProgram(d)
    <3>1. c.pc + 1 \in 1..(Len(P) + 1)
      BY <1>1, <1>5
    <3> QED BY <1>5, <2>3, <2>4, <2>5, <3>1 DEF InProgram
  <2>7. \A j \in DOMAIN P : j < c.pc + 1 /\ P[j] = "consent" => c.n \in spent
    <3> SUFFICES ASSUME NEW j \in DOMAIN P, j < c.pc + 1, P[j] = "consent" PROVE c.n \in spent
      OBVIOUS
    <3>1. j < c.pc
      BY <1>1, <1>5
    <3> QED BY <1>2, <1>3, <3>1 DEF Fits, P, c
  <2>8. Fits(d, db')
    <3>1. d.dry = TRUE => DrySafe(d.prog, d.executes) /\ d.n \notin spent
      BY <1>2, <2>4 DEF Fits, P, c
    <3>2. d.executes = TRUE /\ d.dry = FALSE => ConsentFirst(d.prog)
      BY <1>2, <2>4 DEF Fits, P, c
    <3> QED BY <1>2, <2>3, <2>4, <2>6, <2>7, <3>1, <3>2 DEF Fits
  <2>9. Locked'
    <3>1. call'[p] = d /\ \A q \in CommandProcs \ {p} : call'[q] = call[q]
      BY <1>4, <2>1
    <3>2. Running(p)' /\ \A q \in CommandProcs \ {p} : Running(q)' <=> Running(q)
      BY <1>2, <2>4, <3>1 DEF Running
    <3>3. \A q \in CommandProcs \ {p} : call[q].open # TRUE
      BY <1>4, <1>6 DEF CommandInv, Locked
    <3>4. p \in ServerProcs => p \in serving
      BY <1>1 DEF CommandInv, Locked
    <3>5. \A q \in CommandProcs \ {p} : q \in ServerProcs /\ Running(q) => q \in serving
      BY DEF CommandInv, Locked
    <3> QED BY <1>1, <1>6, <2>3, <3>1, <3>2, <3>3, <3>4, <3>5 DEF Locked
  <2> QED BY <1>1, <1>4, <1>6, <2>1, <2>3, <2>4, <2>8, <2>9, OneCall DEF c
<1>7. CASE Continue(p, "error") /\ UNCHANGED holder
  <2> DEFINE d == Step(p, "error", call[p])
  <2>1. call' = [call EXCEPT ![p] = d]
    BY <1>7 DEF Continue
  <2>2. /\ d \in CallRec
        /\ d.n = c.n /\ d.executes = c.executes /\ d.prog = P /\ d.dry = c.dry
        /\ d.wrote = c.wrote /\ d.exit = c.exit /\ d.answer = "error" /\ d.open = FALSE
        /\ d.pc = Resume(p, "error")
    BY <1>1, <1>3, QuietFields DEF Answers
  <2>3. Resume(p, "error") = Len(P) + 1
    BY <1>1, <1>3, <1>4, Resumes
  <2> HIDE DEF c, P, d
  <2>4. InProgram(d)
    <3>1. Len(P) + 1 \in 1..(Len(P) + 1) /\ \A k \in DOMAIN P : ~(k >= Len(P) + 1)
      BY <1>5
    <3> QED BY <1>5, <2>2, <2>3, <3>1 DEF InProgram
  <2>5. Fits(d, db')
    <3>1. d.dry = TRUE => DrySafe(d.prog, d.executes) /\ d.n \notin spent
      BY <1>2, <2>2 DEF Fits, P, c
    <3>2. d.executes = TRUE /\ d.dry = FALSE => ConsentFirst(d.prog)
      BY <1>2, <2>2 DEF Fits, P, c
    <3> QED BY <1>2, <2>2, <2>4, <3>1, <3>2 DEF Fits
  <2>6. Locked'
    <3>1. call'[p] = d /\ \A q \in CommandProcs \ {p} : call'[q] = call[q]
      BY <1>4, <2>1
    <3>2. \A q \in CommandProcs : Running(q)' <=> Running(q)
      BY <2>2, <3>1 DEF Running, c
    <3>3. \A q \in CommandProcs : call'[q].open = call[q].open
      BY <1>3, <2>2, <3>1 DEF c
    <3> QED BY <1>1, <1>7, <3>2, <3>3 DEF CommandInv, Locked
  <2> QED BY <1>1, <1>4, <1>7, <2>1, <2>2, <2>5, <2>6, OneCall DEF c
<1> QED
  BY <1>6, <1>7 DEF open_store

\* The call p after the closing stage.
LEMMA ClosedFields ==
    ASSUME CommandInv, NEW p \in CommandProcs, call[p].pc \in DOMAIN call[p].prog, NEW a \in {"ok", "error"}
    PROVE  LET d == AfterClose(p, a) IN
           /\ d \in CallRec
           /\ d.n = call[p].n /\ d.executes = call[p].executes /\ d.prog = call[p].prog
           /\ d.dry = call[p].dry /\ d.open = FALSE /\ d.wrote = call[p].wrote
           /\ d.exit = call[p].exit
           /\ d.answer = IF a = "error" THEN "error" ELSE call[p].answer
           /\ d.pc = IF d.answer = "error" THEN Len(call[p].prog) + 1 ELSE call[p].pc + 1
<1> DEFINE s == Step(p, a, call[p])
           c == [s EXCEPT !.open = FALSE]
           to == IF c.answer = "error" THEN Len(c.prog) + 1 ELSE c.pc
           d == [c EXCEPT !.pc = to]
<1>1. a \in Answers
  BY DEF Answers
<1>2. /\ s \in CallRec
      /\ s.n = call[p].n /\ s.executes = call[p].executes /\ s.prog = call[p].prog
      /\ s.dry = call[p].dry /\ s.open = call[p].open /\ s.wrote = call[p].wrote
      /\ s.exit = call[p].exit
      /\ a = "ok" => s.answer = call[p].answer /\ s.pc = call[p].pc + 1
      /\ a = "error" => s.answer = "error" /\ s.pc = Resume(p, a)
  BY <1>1, QuietFields
<1>3. AfterClose(p, a) = d
  BY DEF AfterClose
<1>4. call[p].prog \in Seq(StageNames) /\ Len(call[p].prog) \in Nat
  BY DEF CommandInv, CommandTypes, CallRec
<1> SUFFICES
        /\ d \in CallRec
        /\ d.n = call[p].n /\ d.executes = call[p].executes /\ d.prog = call[p].prog
        /\ d.dry = call[p].dry /\ d.open = FALSE /\ d.wrote = call[p].wrote
        /\ d.exit = call[p].exit
        /\ d.answer = IF a = "error" THEN "error" ELSE call[p].answer
        /\ d.pc = IF d.answer = "error" THEN Len(call[p].prog) + 1 ELSE call[p].pc + 1
  BY <1>3
<1> HIDE DEF s
<1>5. /\ c \in CallRec
      /\ c.n = s.n /\ c.executes = s.executes /\ c.prog = s.prog /\ c.dry = s.dry
      /\ c.open = FALSE /\ c.wrote = s.wrote /\ c.exit = s.exit /\ c.answer = s.answer
      /\ c.pc = s.pc
  BY <1>2 DEF CallRec
<1> HIDE DEF c
<1>6. to \in Nat
  BY <1>2, <1>4, <1>5 DEF CallRec
<1> HIDE DEF to
<1>7. /\ d \in CallRec
      /\ d.n = c.n /\ d.executes = c.executes /\ d.prog = c.prog /\ d.dry = c.dry
      /\ d.open = c.open /\ d.wrote = c.wrote /\ d.exit = c.exit /\ d.answer = c.answer
      /\ d.pc = to
  BY <1>5, <1>6 DEF CallRec
<1> HIDE DEF d
<1>8. d.answer = IF a = "error" THEN "error" ELSE call[p].answer
  BY <1>2, <1>5, <1>7
<1>9. d.pc = IF d.answer = "error" THEN Len(call[p].prog) + 1 ELSE call[p].pc + 1
  BY <1>2, <1>5, <1>7 DEF to
<1> QED
  BY <1>2, <1>5, <1>7, <1>8, <1>9

\* Closing the store, which publishes what was written, keeps it.
LEMMA CloseStep ==
    ASSUME CommandInv, NEW p \in CommandProcs, close_store(p)
    PROVE  CommandInv'
<1> DEFINE c == call[p]
           P == call[p].prog
<1>1. /\ Running(p) /\ c.pc \in DOMAIN P /\ P[c.pc] = "close"
      /\ UNCHANGED <<spent, outside, serving, calls>>
  BY AtStage DEF close_store, with_store
<1>2. c \in CallRec /\ Fits(c, db) /\ c.n \in 0..calls /\ c.n # 0 /\ c.exit = None
  BY <1>1, CallFits DEF Running
<1>3. c.open = TRUE
  BY <1>1, <1>2, CloseIsOpen DEF Fits
<1>4. /\ call \in [CommandProcs -> CallRec] /\ holder \in CommandProcs \cup {None} /\ calls \in Nat
      /\ serving \subseteq ServerProcs /\ retained \subseteq CommandProcs
      /\ calls <= MaxCommands /\ None \notin CommandProcs
  BY CommandsAssumption DEF CommandInv, CommandTypes
<1>5. Sound(P) /\ P \in Seq(StageNames) /\ DOMAIN P = 1..Len(P) /\ Len(P) \in Nat /\ c.pc \in Nat
  BY <1>2 DEF Fits, InProgram, Sound, CallRec
<1>6. holder = p /\ \A q \in CommandProcs \ {p} : call[q].open # TRUE
  BY <1>3 DEF CommandInv, Locked
<1>7. PICK a \in {"ok", "error"} :
        /\ call' = [call EXCEPT ![p] = AfterClose(p, a)]
        /\ a = "ok" => holder' = None /\ db' = db \cup c.wrote /\ UNCHANGED retained
        /\ a = "error" => UNCHANGED <<holder, db>> /\ retained' = retained \cup {p}
  BY DEF close_store, with_store
<1> DEFINE d == AfterClose(p, a)
<1>8. /\ d \in CallRec
      /\ d.n = c.n /\ d.executes = c.executes /\ d.prog = P
      /\ d.dry = c.dry /\ d.open = FALSE /\ d.wrote = c.wrote /\ d.exit = c.exit
      /\ d.answer = IF a = "error" THEN "error" ELSE c.answer
      /\ d.pc = IF d.answer = "error" THEN Len(P) + 1 ELSE c.pc + 1
  BY <1>1, ClosedFields
<1>9. call' = [call EXCEPT ![p] = d]
  BY <1>7
<1> HIDE DEF c, P, d
<1>10. InProgram(d)
  <2>1. d.pc \in 1..(Len(P) + 1)
    BY <1>1, <1>5, <1>8
  <2>2. \A k \in DOMAIN P : k >= c.pc + 1 => P[k] \notin StoreStages
    <3> SUFFICES ASSUME NEW k \in DOMAIN P, k >= c.pc + 1, P[k] \in StoreStages PROVE FALSE
      OBVIOUS
    <3>1. P[k] = "close" => k = c.pc
      BY <1>1, <1>5 DEF Sound
    <3>2. P[k] = "open" => k < c.pc
      BY <1>1, <1>5 DEF Sound
    <3>3. k # c.pc /\ ~(k < c.pc)
      BY <1>5
    <3> QED BY <3>1, <3>2, <3>3 DEF StoreStages
  <2>3. \A k \in DOMAIN P : k >= d.pc => P[k] \notin StoreStages
    BY <1>5, <1>8, <2>2
  <2>4. ~Opened(P, c.pc + 1)
    BY <1>1, <1>5 DEF Opened
  <2>5. d.answer = "ok" => d.pc = c.pc + 1
    BY <1>8
  <2> QED BY <1>5, <1>8, <2>1, <2>3, <2>4, <2>5 DEF InProgram
<1>11. \A j \in DOMAIN P : d.answer = "ok" /\ j < d.pc /\ P[j] = "consent" => c.n \in spent
  <2> SUFFICES ASSUME NEW j \in DOMAIN P, d.answer = "ok", j < d.pc, P[j] = "consent"
               PROVE  c.n \in spent
    OBVIOUS
  <2>1. c.answer = "ok" /\ d.pc = c.pc + 1
    BY <1>8
  <2>2. j < c.pc
    BY <1>1, <1>5, <2>1
  <2> QED BY <1>2, <2>1, <2>2 DEF Fits, P, c
<1>12. Fits(d, db')
  <2>1. d.dry = TRUE => DrySafe(d.prog, d.executes) /\ d.n \notin spent
    BY <1>2, <1>8 DEF Fits, P, c
  <2>2. d.executes = TRUE /\ d.dry = FALSE => ConsentFirst(d.prog)
    BY <1>2, <1>8 DEF Fits, P, c
  <2>3. d.wrote \subseteq db' \/ d.answer = "error"
    BY <1>7, <1>8
  <2>4. d.answer = "ok" => \A j \in DOMAIN d.prog : j < d.pc /\ d.prog[j] = "consent" => d.n \in spent
    BY <1>8, <1>11
  <2> QED BY <1>2, <1>8, <1>10, <2>1, <2>2, <2>3, <2>4 DEF Fits
<1>13. Locked'
  <2>1. call'[p] = d /\ \A q \in CommandProcs \ {p} : call'[q] = call[q]
    BY <1>4, <1>9
  <2>2. \A q \in CommandProcs : Running(q)' <=> Running(q)
    BY <1>8, <2>1 DEF Running, c
  <2>3. \A q \in CommandProcs : call'[q].open # TRUE
    BY <1>6, <1>8, <2>1
  <2>4. \A q \in CommandProcs : holder' = q => q = p /\ p \in retained'
    BY <1>4, <1>6, <1>7
  <2>5. \A q \in CommandProcs : q \in ServerProcs /\ Running(q) => q \in serving
    BY DEF CommandInv, Locked
  <2>6. Running(p)' /\ serving' = serving
    BY <1>1, <2>2
  <2> QED BY <2>2, <2>3, <2>4, <2>5, <2>6 DEF Locked
<1>14. /\ db \subseteq db' /\ db' \subseteq db \cup c.wrote
       /\ holder' \in CommandProcs \cup {None} /\ retained' \subseteq CommandProcs
  BY <1>4, <1>7
<1> QED
  BY <1>1, <1>4, <1>8, <1>9, <1>12, <1>13, <1>14, OneCall DEF c

\* The invariant holds before any command.
LEMMA CommandsStart == CommandsInit => CommandInv
<1> SUFFICES ASSUME CommandsInit PROVE CommandInv
  OBVIOUS
<1>1. /\ holder = None /\ db = {} /\ spent = {} /\ outside = {} /\ serving = {} /\ retained = {}
      /\ calls = 0 /\ call = [p \in CommandProcs |-> Idle] /\ None \notin CommandProcs /\ MaxCommands \in Nat
  BY CommandsAssumption DEF CommandsInit
<1>2. /\ Idle \in CallRec /\ Idle.n = 0 /\ Idle.open = FALSE /\ Idle.wrote = {} /\ Idle.exit = None
      /\ Idle.answer = "ok" /\ Idle.dry = FALSE /\ Idle.executes = FALSE /\ Idle.prog = <<>>
      /\ Idle.pc = 1
  BY IdleRec
<1>3. \A p \in CommandProcs : call[p] = Idle
  BY <1>1
<1>4. InProgram(Idle) /\ DOMAIN <<>> = {}
  <2>1. <<>> \in Seq(StageNames) /\ Len(<<>>) = 0 /\ DOMAIN <<>> = {}
    OBVIOUS
  <2>2. Sound(<<>>) /\ ~Opened(<<>>, 1)
    BY <2>1 DEF Sound, Opened
  <2> QED BY <1>2, <2>1, <2>2 DEF InProgram
<1>5. CommandTypes
  BY <1>1, <1>2 DEF CommandTypes
<1>6. Numbered
  BY <1>1, <1>2, <1>3 DEF Numbered
<1>7. Programmed
  BY <1>2, <1>3, <1>4 DEF Programmed
<1>8. Clean
  BY <1>1, <1>2, <1>3 DEF Clean
<1>9. Locked
  BY <1>1, <1>2, <1>3 DEF Locked, Running
<1> QED
  BY <1>5, <1>6, <1>7, <1>8, <1>9 DEF CommandInv

\* Every step of every process keeps it.
LEMMA CommandsStep == CommandInv /\ [CommandsNext]_command_vars => CommandInv'
<1> SUFFICES ASSUME CommandInv, [CommandsNext]_command_vars PROVE CommandInv'
  OBVIOUS
<1>1. CASE UNCHANGED command_vars
  BY <1>1 DEF command_vars, CommandInv, CommandTypes, Numbered, Programmed, Clean, Locked, Running
<1>2. ASSUME NEW p \in CommandProcs, start(p) \/ begin_serving(p) \/ stop(p) \/ Work(p)
      PROVE  CommandInv'
  <2>1. CASE start(p)
    BY <2>1, StartStep
  <2>2. CASE begin_serving(p)
    BY <2>2, ServeStep
  <2>3. CASE stop(p)
    BY <2>3, StopStep
  <2>4. CASE check(p) \/ empty(p) \/ output_format(p) \/ web_action(p)
    BY <2>4, CheckStep
  <2>5. CASE consent_gate(p) \/ ConsentStore_grant(p)
    BY <2>5, GateStep
  <2>6. CASE side(p)
    BY <2>6, SideStep
  <2>7. CASE write(p)
    BY <2>7, WriteStep
  <2>8. CASE open_store(p)
    BY <2>8, OpenStep
  <2>9. CASE close_store(p)
    BY <2>9, CloseStep
  <2>10. CASE main(p)
    BY <2>10, MainStep
  <2> QED BY <1>2, <2>1, <2>2, <2>3, <2>4, <2>5, <2>6, <2>7, <2>8, <2>9, <2>10 DEF Work
<1> QED
  BY <1>1, <1>2 DEF CommandsNext

\* It implies what the run checks.
LEMMA CommandsMeet == CommandInv => CommandsSafe
<1> SUFFICES ASSUME CommandInv PROVE CommandsSafe
  OBVIOUS
<1>1. CommandsTypeOK
  BY DEF CommandInv, CommandTypes, Programmed, InProgram, CommandsTypeOK, CallRec, Answers
<1>2. SuccessIsDurable
  <2> SUFFICES ASSUME NEW p \in CommandProcs, call[p].exit = 0 PROVE call[p].wrote \subseteq db
    BY DEF SuccessIsDurable
  <2>1. call[p].open = FALSE /\ call[p].answer = "ok"
    BY CommandsAssumption DEF CommandInv, Numbered
  <2> QED BY <2>1 DEF CommandInv, Programmed
<1>0. ASSUME NEW e \in Events PROVE e \in db \/ \E p \in CommandProcs : e \in call[p].wrote
  BY <1>0, Zenon DEF Events
<1>3. \A e \in Events : Allowed(e, spent) /\ e.dry \in BOOLEAN /\ e.executes \in BOOLEAN
  <2>1. \A e \in db : Allowed(e, spent)
    BY DEF CommandInv, Clean
  <2>2. \A p \in CommandProcs : \A e \in call[p].wrote : Allowed(e, spent)
    BY DEF CommandInv, Clean
  <2>3. db \subseteq EventRec /\ \A p \in CommandProcs : call[p].wrote \subseteq EventRec
    BY DEF CommandInv, CommandTypes, CallRec
  <2>4. \A e \in Events : e \in EventRec /\ Allowed(e, spent)
    BY <1>0, <2>1, <2>2, <2>3
  <2> QED BY <2>4 DEF EventRec
<1>4. DryRunsChangeNothing
  <2>1. \A o \in outside : o.dry = FALSE
    BY DEF CommandInv, Clean
  <2>2. \A p \in CommandProcs : call[p].dry = TRUE => call[p].n \notin spent
    BY DEF CommandInv, Programmed
  <2>3. \A p \in CommandProcs : call[p].dry \in BOOLEAN
    BY DEF CommandInv, CommandTypes, CallRec
  <2> QED BY <1>3, <2>1, <2>2, <2>3 DEF DryRunsChangeNothing, Allowed
<1>5. ExecutionHasConsent
  BY <1>3 DEF ExecutionHasConsent, Allowed
<1>6. LockFollowsCall
  <2>1. \A p \in CommandProcs : call[p].open \in BOOLEAN
    BY DEF CommandInv, CommandTypes, CallRec
  <2>2. \A p \in CommandProcs : call[p].open = TRUE => Running(p) /\ holder = p
    <3> SUFFICES ASSUME NEW p \in CommandProcs, call[p].open = TRUE PROVE Running(p) /\ holder = p
      OBVIOUS
    <3>1. holder = p
      BY DEF CommandInv, Locked
    <3>2. call[p].exit = None
      BY DEF CommandInv, Numbered
    <3>3. call[p].n # 0
      <4>1. call[p].n = 0 => call[p] = Idle
        BY DEF CommandInv, Numbered
      <4>2. Idle.open = FALSE
        BY IdleRec
      <4> QED BY <4>1, <4>2
    <3> QED BY <3>1, <3>2, <3>3 DEF Running
  <2>3. holder # None => Running(holder) \/ holder \in serving \cap retained
    BY DEF CommandInv, CommandTypes, Locked
  <2> QED BY <2>1, <2>2, <2>3 DEF LockFollowsCall
<1> QED
  BY <1>1, <1>2, <1>4, <1>5, <1>6 DEF CommandsSafe

\* Commands and tool calls of any number of processes, whichever of their
\* stages fail: success is durable, a dry run of anything but execute leaves no
\* trace, a live execution has spent a token of its own, and the lock of the
\* database goes with the call.
THEOREM CommandsKept == CommandsSpec => []CommandsSafe
<1>1. CommandsSpec => []CommandInv
  BY CommandsStart, CommandsStep, PTL DEF CommandsSpec
<1> QED
  BY <1>1, CommandsMeet, PTL

-----------------------------------------------------------------------------
(***************************************************************************)
(* The profiles and the master key.  That a profile is whole and that a    *)
(* saved one is found hold for any number of initialisations; that every   *)
(* profile stays readable needs Keyed, and that no second initialisation   *)
(* mints a key of its own meanwhile.                                       *)
(***************************************************************************)

RunRec == [pc : {"idle", "init", "write", "sync", "rename", "rollback", "key", "done"},
           environment : {None, "env", "bad"}, cached : MasterKeys \cup {None, "bad"},
           key_existed : BOOLEAN, path : ProfileNames,
           file : Envelopes \cup {None},
           result : {None, "key", "saved", "write", "killed", "not_found", "loaded",
                     "authentication"}]

\* What is about to be renamed onto the profile is whole.
IdentityTypes ==
    /\ keyring \in MasterKeys \cup {None, "bad"}
    /\ profiles \in [ProfileNames -> Envelopes \cup {None}]
    /\ temporary \in [Initialisers -> Envelopes \cup {None, Partial}]
    /\ run \in [Initialisers \cup Loaders -> RunRec]
    /\ \A w \in Initialisers :
         /\ run[w].pc \in {"write", "sync", "rename"} => run[w].cached \in MasterKeys
         /\ run[w].pc = "rename" => temporary[w] = [key |-> run[w].cached, by |-> w]

\* A profile sealed under a key is an envelope.
LEMMA WholeEnvelope ==
    ASSUME NEW k \in MasterKeys, NEW w \in Initialisers
    PROVE  [key |-> k, by |-> w] \in Envelopes /\ [key |-> k, by |-> w] # None
BY EnvelopesAssumption DEF Envelopes

\* The initial states have the types.
LEMMA IdentityTyped == IdentityInit => IdentityTypes
<1> SUFFICES ASSUME IdentityInit PROVE IdentityTypes
  OBVIOUS
<1>1. Unstarted \in RunRec /\ Unstarted.pc = "idle"
  BY DEF Unstarted, RunRec, ProfileNames
<1>2. [key |-> "first", by |-> "before"] \in Envelopes
  BY DEF Envelopes, MasterKeys
<1>3. profiles \in [ProfileNames -> Envelopes \cup {None}]
  BY <1>2 DEF IdentityInit
<1> QED
  BY <1>1, <1>3 DEF IdentityInit, IdentityTypes, MasterKeys

\* The run of a command changes, and no other.
LEMMA RunMoves ==
    ASSUME IdentityTypes, NEW c \in Initialisers \cup Loaders, NEW r \in RunRec,
           run' = [run EXCEPT ![c] = r]
    PROVE  /\ run' \in [Initialisers \cup Loaders -> RunRec] /\ run'[c] = r
           /\ \A d \in (Initialisers \cup Loaders) \ {c} : run'[d] = run[d]
BY DEF IdentityTypes

\* What each step of an initialisation makes of it.
LEMMA InitMoves ==
    ASSUME IdentityTypes, NEW w \in Initialisers
    PROVE  /\ \A pc \in {"sync", "rename", "rollback"} : run' = [run EXCEPT ![w].pc = pc] =>
                /\ run' \in [Initialisers \cup Loaders -> RunRec]
                /\ \A d \in (Initialisers \cup Loaders) \ {w} : run'[d] = run[d]
                /\ run'[w].pc = pc /\ run'[w].cached = run[w].cached
                /\ run'[w].environment = run[w].environment
                /\ run'[w].key_existed = run[w].key_existed /\ run'[w].path = run[w].path
           /\ \A key \in MasterKeys :
                run' = [run EXCEPT ![w] = [run[w] EXCEPT !.pc = "write", !.cached = key]] =>
                /\ run' \in [Initialisers \cup Loaders -> RunRec]
                /\ \A d \in (Initialisers \cup Loaders) \ {w} : run'[d] = run[d]
                /\ run'[w].pc = "write" /\ run'[w].cached = key
                /\ run'[w].environment = run[w].environment
                /\ run'[w].key_existed = run[w].key_existed /\ run'[w].path = run[w].path
           /\ \A res \in {"key", "saved", "killed"} :
                run' = [run EXCEPT ![w] = [run[w] EXCEPT !.pc = "done", !.result = res]] =>
                /\ run' \in [Initialisers \cup Loaders -> RunRec]
                /\ \A d \in (Initialisers \cup Loaders) \ {w} : run'[d] = run[d]
                /\ run'[w].pc = "done"
           /\ run' = [run EXCEPT ![w] = [run[w] EXCEPT !.pc = "done", !.result = "write",
                                                       !.cached = None]] =>
                /\ run' \in [Initialisers \cup Loaders -> RunRec]
                /\ \A d \in (Initialisers \cup Loaders) \ {w} : run'[d] = run[d]
                /\ run'[w].pc = "done"
<1>1. run[w] \in RunRec
  BY DEF IdentityTypes
<1>2. \A pc \in {"sync", "rename", "rollback"} : run' = [run EXCEPT ![w].pc = pc] =>
                /\ run' \in [Initialisers \cup Loaders -> RunRec]
                /\ \A d \in (Initialisers \cup Loaders) \ {w} : run'[d] = run[d]
                /\ run'[w].pc = pc /\ run'[w].cached = run[w].cached
                /\ run'[w].environment = run[w].environment
                /\ run'[w].key_existed = run[w].key_existed /\ run'[w].path = run[w].path
  <2> TAKE pc \in {"sync", "rename", "rollback"}
  <2> HAVE run' = [run EXCEPT ![w].pc = pc]
  <2> DEFINE r == [run[w] EXCEPT !.pc = pc]
  <2>1. r \in RunRec
    BY <1>1 DEF RunRec
  <2>2. /\ r.pc = pc /\ r.cached = run[w].cached /\ r.environment = run[w].environment
        /\ r.key_existed = run[w].key_existed /\ r.path = run[w].path
    BY <1>1 DEF RunRec
  <2>3. run' = [run EXCEPT ![w] = r]
    OBVIOUS
  <2> HIDE DEF r
  <2> QED BY <2>1, <2>2, <2>3, RunMoves, ZenonT(60)
<1>3. \A key \in MasterKeys :
        run' = [run EXCEPT ![w] = [run[w] EXCEPT !.pc = "write", !.cached = key]] =>
                /\ run' \in [Initialisers \cup Loaders -> RunRec]
                /\ \A d \in (Initialisers \cup Loaders) \ {w} : run'[d] = run[d]
                /\ run'[w].pc = "write" /\ run'[w].cached = key
                /\ run'[w].environment = run[w].environment
                /\ run'[w].key_existed = run[w].key_existed /\ run'[w].path = run[w].path
  <2> TAKE key \in MasterKeys
  <2> DEFINE r == [run[w] EXCEPT !.pc = "write", !.cached = key]
  <2> HAVE run' = [run EXCEPT ![w] = r]
  <2>1. r \in RunRec
    BY <1>1 DEF RunRec
  <2>2. /\ r.pc = "write" /\ r.cached = key /\ r.environment = run[w].environment
        /\ r.key_existed = run[w].key_existed /\ r.path = run[w].path
    BY <1>1 DEF RunRec
  <2> HIDE DEF r
  <2> QED BY <2>1, <2>2, RunMoves
<1>4. \A res \in {"key", "saved", "killed"} :
        run' = [run EXCEPT ![w] = [run[w] EXCEPT !.pc = "done", !.result = res]] =>
                /\ run' \in [Initialisers \cup Loaders -> RunRec]
                /\ \A d \in (Initialisers \cup Loaders) \ {w} : run'[d] = run[d]
                /\ run'[w].pc = "done"
  <2> TAKE res \in {"key", "saved", "killed"}
  <2> DEFINE r == [run[w] EXCEPT !.pc = "done", !.result = res]
  <2> HAVE run' = [run EXCEPT ![w] = r]
  <2>1. r \in RunRec /\ r.pc = "done"
    BY <1>1 DEF RunRec
  <2> HIDE DEF r
  <2> QED BY <2>1, RunMoves
<1>5. run' = [run EXCEPT ![w] = [run[w] EXCEPT !.pc = "done", !.result = "write",
                                               !.cached = None]] =>
                /\ run' \in [Initialisers \cup Loaders -> RunRec]
                /\ \A d \in (Initialisers \cup Loaders) \ {w} : run'[d] = run[d]
                /\ run'[w].pc = "done"
  <2> DEFINE r == [run[w] EXCEPT !.pc = "done", !.result = "write", !.cached = None]
  <2> HAVE run' = [run EXCEPT ![w] = r]
  <2>1. r \in RunRec /\ r.pc = "done"
    BY <1>1 DEF RunRec
  <2> HIDE DEF r
  <2> QED BY <2>1, RunMoves
<1> QED
  BY <1>2, <1>3, <1>4, <1>5

\* What every command does to the profiles and to its own run.
Sane ==
    /\ IdentityTypes'
    /\ \A n \in ProfileNames : /\ profiles'[n] \in Envelopes \cup {None}
                               /\ profiles[n] # None => profiles'[n] # None
    /\ \A c \in Loaders : run[c].pc = "idle" /\ run'[c].pc # "idle" =>
         run'[c].file = profiles[run'[c].path] \/ profiles[run'[c].path] = None

\* Looking for the master key finds a key, none, or bad text.
LEMMA ResolveTyped ==
    ASSUME IdentityTypes, NEW c \in Initialisers \cup Loaders, NEW read
    PROVE  /\ resolve_existing(c, read) \in MasterKeys \cup {None, "bad"}
           /\ keyring_get(read) \in MasterKeys \cup {None, "bad"}
<1>1. run[c].cached \in MasterKeys \cup {None, "bad"} /\ run[c].environment \in {None, "env", "bad"}
  BY DEF IdentityTypes, RunRec
<1>2. keyring_get(read) \in MasterKeys \cup {None, "bad"}
  BY DEF IdentityTypes, keyring_get
<1> QED
  BY <1>1, <1>2 DEF resolve_existing, MasterKeys

\* An initialisation.
LEMMA InitSane ==
    ASSUME IdentityTypes, NEW w \in Initialisers,
           \/ begin_init(w) \/ init_key(w) \/ write_temporary(w) \/ sync_temporary(w)
           \/ rename_temporary(w) \/ rollback_key(w) \/ kill_init(w)
    PROVE  Sane
<1> DEFINE C == Initialisers \cup Loaders
           Others == \A d \in C \ {w} : run'[d] = run[d]
           Fine == \A n \in ProfileNames : profiles[n] \in Envelopes \cup {None}
<1>0. /\ keyring \in MasterKeys \cup {None, "bad"} /\ run \in [C -> RunRec]
      /\ profiles \in [ProfileNames -> Envelopes \cup {None}]
      /\ temporary \in [Initialisers -> Envelopes \cup {None, Partial}] /\ w \in C
      /\ run[w].path \in ProfileNames /\ \A c \in Loaders : c \in C \ {w}
  BY IdentityAssumption DEF IdentityTypes, RunRec
<1>m. w \in MasterKeys /\ None \notin MasterKeys
  BY IdentityAssumption DEF MasterKeys
\* What remains to be shown of each step.
<1>s. ASSUME run' \in [C -> RunRec], Others,
             keyring' \in MasterKeys \cup {None, "bad"},
             temporary' \in [Initialisers -> Envelopes \cup {None, Partial}],
             \A v \in Initialisers \ {w} : temporary'[v] = temporary[v],
             run'[w].pc \in {"write", "sync", "rename"} => run'[w].cached \in MasterKeys,
             run'[w].pc = "rename" => temporary'[w] = [key |-> run'[w].cached, by |-> w],
             \/ profiles' = profiles
             \/ \E f \in Envelopes : profiles' = [profiles EXCEPT ![run[w].path] = f]
      PROVE  Sane
  <2>1. profiles' \in [ProfileNames -> Envelopes \cup {None}]
    BY <1>0, <1>s
  <2>2. \A n \in ProfileNames : profiles[n] # None => profiles'[n] # None
    BY <1>0, <1>s, EnvelopesAssumption
  <2>3. \A c \in Loaders : run'[c] = run[c]
    BY <1>0, <1>s
  <2>4. ASSUME NEW v \in Initialisers
        PROVE  /\ run'[v].pc \in {"write", "sync", "rename"} => run'[v].cached \in MasterKeys
               /\ run'[v].pc = "rename" => temporary'[v] = [key |-> run'[v].cached, by |-> v]
    <3>1. CASE v = w
      BY <1>s, <3>1
    <3>2. CASE v # w
      BY <1>s, <3>2 DEF IdentityTypes
    <3> QED BY <3>1, <3>2
  <2>5. IdentityTypes'
    BY <1>s, <2>1, <2>4 DEF IdentityTypes
  <2> QED BY <2>1, <2>2, <2>3, <2>5 DEF Sane
<1> HIDE DEF Others, C
<1>1. CASE begin_init(w)
  <2>1. PICK e \in {None, "env", "bad"}, p \in ProfileNames, read \in KeyringReads :
          LET key == IF e # None THEN e ELSE keyring_get(read) IN
          run' = [run EXCEPT ![w] =
                    [run[w] EXCEPT !.pc = "init", !.environment = e, !.path = p,
                              !.key_existed = resolved(key),
                              !.cached = IF resolved(key) THEN key ELSE None]]
    BY <1>1 DEF begin_init
  <2> DEFINE key == IF e # None THEN e ELSE keyring_get(read)
             ex == resolved(key)
             ca == IF resolved(key) THEN key ELSE None
             r == [run[w] EXCEPT !.pc = "init", !.environment = e, !.path = p,
                              !.key_existed = ex, !.cached = ca]
  <2>2. run' = [run EXCEPT ![w] = r]
    BY <2>1
  <2>3. keyring_get(read) \in MasterKeys \cup {None, "bad"}
    BY <1>0, ResolveTyped DEF C
  <2>4. ex \in BOOLEAN /\ ca \in MasterKeys \cup {None, "bad"}
    BY <2>3 DEF resolved, MasterKeys
  <2>5. run[w] \in RunRec
    BY <1>0
  <2> HIDE DEF ex, ca, key
  <2>6. r \in RunRec /\ r.pc = "init"
    BY <2>4, <2>5 DEF RunRec
  <2> HIDE DEF r
  <2>7. run' \in [C -> RunRec] /\ run'[w].pc = "init" /\ Others
    BY <2>2, <2>6, <1>0, RunMoves DEF C, Others
  <2>8. UNCHANGED <<keyring, profiles, temporary>>
    BY <1>1 DEF begin_init
  <2> QED BY <1>s, <1>0, <2>7, <2>8
<1>2. CASE init_key(w)
  <2>1. UNCHANGED <<profiles, temporary>>
    BY <1>2 DEF init_key
  <2>2. \/ /\ run' = [run EXCEPT ![w] = [run[w] EXCEPT !.pc = "done", !.result = "key"]]
           /\ UNCHANGED keyring
        \/ \E key \in MasterKeys :
             /\ run' = [run EXCEPT ![w] = [run[w] EXCEPT !.pc = "write", !.cached = key]]
             /\ keyring' \in {keyring, w}
    <3>1. PICK read \in KeyringReads, stored \in BOOLEAN :
            LET key == resolve_existing(w, read) IN
            IF key # None
            THEN /\ run' = [run EXCEPT ![w] = IF key = "bad"
                              THEN [run[w] EXCEPT !.pc = "done", !.result = "key"]
                              ELSE [run[w] EXCEPT !.pc = "write", !.cached = key]]
                 /\ UNCHANGED keyring
            ELSE IF stored
            THEN /\ keyring' = w
                 /\ run' = [run EXCEPT ![w] = [run[w] EXCEPT !.pc = "write", !.cached = w]]
            ELSE /\ run' = [run EXCEPT ![w] = [run[w] EXCEPT !.pc = "done", !.result = "key"]]
                 /\ UNCHANGED keyring
      BY <1>2 DEF init_key
    <3>2. resolve_existing(w, read) \in MasterKeys \cup {None, "bad"}
      BY <1>0, ResolveTyped DEF C
    <3> QED BY <1>m, <3>1, <3>2
  <2>3. run' \in [C -> RunRec] /\ Others
    BY <2>2, InitMoves DEF C, Others
  <2>4. /\ run'[w].pc \in {"write", "sync", "rename"} => run'[w].cached \in MasterKeys
        /\ run'[w].pc # "rename" /\ keyring' \in MasterKeys \cup {None, "bad"}
    BY <1>0, <1>m, <2>2, InitMoves
  <2> QED BY <1>s, <1>0, <2>1, <2>3, <2>4
<1>3. CASE write_temporary(w)
  <2>1. /\ UNCHANGED <<keyring, profiles>> /\ run[w].cached \in MasterKeys
        /\ temporary' \in [Initialisers -> Envelopes \cup {None, Partial}]
        /\ \A v \in Initialisers \ {w} : temporary'[v] = temporary[v]
    BY <1>0, <1>3 DEF write_temporary, IdentityTypes
  <2>2. run' = [run EXCEPT ![w].pc = "sync"] \/ run' = [run EXCEPT ![w].pc = "rollback"]
    BY <1>3 DEF write_temporary
  <2>3. run' \in [C -> RunRec] /\ Others
    BY <2>2, InitMoves DEF C, Others
  <2>4. run'[w].pc \in {"sync", "rollback"} /\ run'[w].cached = run[w].cached
    BY <2>2, InitMoves
  <2> QED BY <1>s, <1>0, <2>1, <2>3, <2>4
<1>4. CASE sync_temporary(w)
  <2>0. run[w].cached \in MasterKeys
    BY <1>4 DEF sync_temporary, IdentityTypes
  <2>5. [key |-> run[w].cached, by |-> w] \in Envelopes
    BY <2>0, WholeEnvelope
  <2>1. /\ UNCHANGED <<keyring, profiles>>
        /\ temporary' \in [Initialisers -> Envelopes \cup {None, Partial}]
        /\ \A v \in Initialisers \ {w} : temporary'[v] = temporary[v]
    BY <1>0, <1>4, <2>5 DEF sync_temporary
  <2>2. \/ /\ run' = [run EXCEPT ![w].pc = "rename"]
           /\ temporary'[w] = [key |-> run[w].cached, by |-> w]
        \/ run' = [run EXCEPT ![w].pc = "rollback"]
    BY <1>0, <1>4 DEF sync_temporary
  <2>3. run' \in [C -> RunRec] /\ Others /\ run'[w].cached = run[w].cached
    BY <2>2, InitMoves DEF C, Others
  <2>4. run'[w].pc = "rename" => temporary'[w] = [key |-> run'[w].cached, by |-> w]
    <3>1. CASE run' = [run EXCEPT ![w].pc = "rollback"]
      <4>1. run'[w].pc = "rollback"
        BY <3>1, InitMoves
      <4> QED BY <4>1
    <3> QED BY <2>2, <2>3, <3>1
  <2> QED BY <1>s, <1>0, <2>0, <2>1, <2>3, <2>4
<1>5. CASE rename_temporary(w)
  <2>1. /\ UNCHANGED keyring /\ run[w].cached \in MasterKeys
        /\ temporary[w] = [key |-> run[w].cached, by |-> w]
        /\ temporary' \in [Initialisers -> Envelopes \cup {None, Partial}]
        /\ \A v \in Initialisers \ {w} : temporary'[v] = temporary[v]
    BY <1>0, <1>5 DEF rename_temporary, IdentityTypes
  <2>2. \/ /\ run' = [run EXCEPT ![w] = [run[w] EXCEPT !.pc = "done", !.result = "saved"]]
           /\ profiles' = [profiles EXCEPT ![run[w].path] = temporary[w]]
        \/ run' = [run EXCEPT ![w].pc = "rollback"] /\ profiles' = profiles
    BY <1>5 DEF rename_temporary
  <2>3. run' \in [C -> RunRec] /\ Others /\ run'[w].pc \in {"done", "rollback"}
    BY <2>2, InitMoves DEF C, Others
  <2>4. temporary[w] \in Envelopes
    BY <2>1, WholeEnvelope
  <2> QED BY <1>s, <1>0, <2>1, <2>2, <2>3, <2>4
<1>6. CASE rollback_key(w)
  <2>1. /\ UNCHANGED <<profiles, temporary>> /\ keyring' \in {keyring, None}
        /\ run' = [run EXCEPT ![w] = [run[w] EXCEPT !.pc = "done", !.result = "write",
                                                    !.cached = None]]
    BY <1>6 DEF rollback_key
  <2>2. run' \in [C -> RunRec] /\ Others /\ run'[w].pc = "done"
    BY <2>1, InitMoves DEF C, Others
  <2> QED BY <1>s, <1>0, <2>1, <2>2
<1>7. CASE kill_init(w)
  <2>1. /\ UNCHANGED <<keyring, profiles, temporary>>
        /\ run' = [run EXCEPT ![w] = [run[w] EXCEPT !.pc = "done", !.result = "killed"]]
    BY <1>7 DEF kill_init
  <2>2. run' \in [C -> RunRec] /\ Others /\ run'[w].pc = "done"
    BY <2>1, InitMoves DEF C, Others
  <2> QED BY <1>s, <1>0, <2>1, <2>2
<1> QED
  BY <1>1, <1>2, <1>3, <1>4, <1>5, <1>6, <1>7

\* A load.
LEMMA LoadSane ==
    ASSUME IdentityTypes, NEW c \in Loaders, open_profile(c) \/ decrypt_profile(c)
    PROVE  /\ Sane
           /\ \A w \in Initialisers : run'[w] = run[w]
           /\ UNCHANGED <<keyring, profiles, temporary>>
<1> DEFINE C == Initialisers \cup Loaders
<1>0. /\ run \in [C -> RunRec] /\ c \in C /\ run[c] \in RunRec
      /\ profiles \in [ProfileNames -> Envelopes \cup {None}]
      /\ \A w \in Initialisers : w \in C \ {c}
  BY IdentityAssumption DEF IdentityTypes
<1>1. UNCHANGED <<keyring, profiles, temporary>>
  BY DEF open_profile, decrypt_profile
<1>s. ASSUME NEW r \in RunRec, run' = [run EXCEPT ![c] = r],
             run[c].pc = "idle" => r.file = profiles[r.path] \/ profiles[r.path] = None
      PROVE  Sane /\ \A w \in Initialisers : run'[w] = run[w]
  <2>1. run' \in [C -> RunRec] /\ run'[c] = r /\ \A d \in C \ {c} : run'[d] = run[d]
    BY <1>0, <1>s, RunMoves
  <2>2. \A w \in Initialisers : run'[w] = run[w]
    BY <1>0, <2>1
  <2>3. IdentityTypes'
    BY <1>1, <2>1, <2>2 DEF IdentityTypes
  <2>4. ASSUME NEW d \in Loaders, run[d].pc = "idle", run'[d].pc # "idle"
        PROVE  run'[d].file = profiles[run'[d].path] \/ profiles[run'[d].path] = None
    <3>1. d = c
      BY <2>1, <2>4
    <3> QED BY <1>s, <2>1, <2>4, <3>1
  <2> QED BY <1>0, <1>1, <2>2, <2>3, <2>4 DEF Sane
<1>2. CASE open_profile(c)
  <2>1. PICK e \in {None, "env"}, p \in ProfileNames :
          LET file == profiles[resolve_path(p)] IN
          run' = [run EXCEPT ![c] =
                    [run[c] EXCEPT !.environment = e, !.path = p,
                              !.file = file,
                              !.pc = IF file = None THEN "done" ELSE "key",
                              !.result = IF file = None THEN "not_found" ELSE None]]
    BY <1>2 DEF open_profile
  <2> DEFINE file == profiles[resolve_path(p)]
             to == IF file = None THEN "done" ELSE "key"
             res == IF file = None THEN "not_found" ELSE None
             r == [run[c] EXCEPT !.environment = e, !.path = p, !.file = file, !.pc = to,
                                 !.result = res]
  <2>2. run' = [run EXCEPT ![c] = r]
    BY <2>1
  <2>3. resolve_path(p) \in ProfileNames /\ (profiles[p] # None => resolve_path(p) = p)
    <3>1. other_name(p) \in ProfileNames
      BY DEF other_name, ProfileNames
    <3> QED BY <3>1 DEF resolve_path
  <2>4. file \in Envelopes \cup {None}
    BY <1>0, <2>3
  <2>5. res \in {None, "not_found"} /\ (profiles[p] # None => file = profiles[p])
    BY <2>3, <2>4
  <2>6. to \in {"done", "key"}
    OBVIOUS
  <2> HIDE DEF file, to, res
  <2>7. r \in RunRec /\ r.path = p /\ r.file = file
    BY <1>0, <2>4, <2>5, <2>6 DEF RunRec
  <2> HIDE DEF r
  <2> QED BY <1>1, <1>s, <2>2, <2>5, <2>7
<1>3. CASE decrypt_profile(c)
  <2>1. run[c].pc = "key"
    BY <1>3 DEF decrypt_profile
  <2>2. PICK read \in KeyringReads :
          LET key == resolve_existing(c, read) IN
          run' = [run EXCEPT ![c] =
                    [run[c] EXCEPT !.pc = "done",
                              !.result = IF ~resolved(key) THEN "key"
                                         ELSE IF run[c].file.key = key
                                         THEN "loaded" ELSE "authentication"]]
    BY <1>3 DEF decrypt_profile
  <2> DEFINE key == resolve_existing(c, read)
             res == IF ~resolved(key) THEN "key"
                    ELSE IF run[c].file.key = key THEN "loaded" ELSE "authentication"
             r == [run[c] EXCEPT !.pc = "done", !.result = res]
  <2>3. run' = [run EXCEPT ![c] = r]
    BY <2>2
  <2>4. res \in {"key", "loaded", "authentication"}
    OBVIOUS
  <2> HIDE DEF key, res
  <2>5. r \in RunRec
    BY <1>0, <2>4 DEF RunRec
  <2> HIDE DEF r
  <2> QED BY <1>1, <1>s, <2>1, <2>3, <2>5
<1> QED
  BY <1>2, <1>3

\* Every step keeps the types and the files whole.
LEMMA IdentitySteps ==
    ASSUME IdentityTypes, [IdentityNext]_identity_vars
    PROVE  Sane
<1>1. CASE UNCHANGED identity_vars
  BY <1>1 DEF identity_vars, IdentityTypes, Sane
<1>2. CASE IdentityNext
  BY <1>2, InitSane, LoadSane DEF IdentityNext
<1> QED
  BY <1>1, <1>2

\* Any number of initialisations and loads, overlapping, failing or killed: a
\* profile is a whole envelope, it is never lost once it is there, and a load
\* finds the one that was saved under the name it asks for.
THEOREM ProfilesStayWhole == IdentitySpec => IdentityCorrect
<1>1. IdentityTypes /\ [IdentityNext]_identity_vars => IdentityTypes'
  BY IdentitySteps DEF Sane
<1>2. IdentityTypes => IdentityTypeOK
  BY DEF IdentityTypes, IdentityTypeOK, RunRec
<1>3. IdentityTypes /\ [IdentityNext]_identity_vars =>
        [\A n \in ProfileNames :
          /\ profiles'[n] \in Envelopes \cup {None}
          /\ profiles[n] # None => profiles'[n] # None]_identity_vars
  BY IdentitySteps DEF Sane
<1>4. IdentityTypes /\ [IdentityNext]_identity_vars =>
        [\A c \in Loaders : run[c].pc = "idle" /\ run'[c].pc # "idle" =>
          \/ run'[c].file = profiles[run'[c].path]
          \/ profiles[run'[c].path] = None]_identity_vars
  BY IdentitySteps DEF Sane
<1> QED
  BY IdentityTyped, <1>1, <1>2, <1>3, <1>4, PTL
     DEF IdentitySpec, IdentityCorrect, ProfilesAreWhole, SavedIsFound

\* The key an initialisation works with is the environment's or the keyring's;
\* one it minted is in the keyring, and no profile depends on another.
Keyed ==
    /\ NeverStranded
    /\ \A w \in Initialisers :
         /\ run[w].pc \in {"init", "write", "sync", "rename"} /\ run[w].cached # None =>
              run[w].cached \in {"env", keyring}
         /\ run[w].pc = "init" /\ run[w].key_existed = TRUE => run[w].cached # None
         /\ run[w].pc = "init" /\ run[w].key_existed = FALSE =>
              /\ run[w].cached = None /\ run[w].environment # "env"
              /\ run[w].environment = None => keyring \in {None, "bad"}
         /\ run[w].pc \in {"write", "sync", "rename", "rollback"} /\ run[w].key_existed = FALSE =>
              /\ keyring = w
              /\ \A n \in ProfileNames : profiles[n] \in Envelopes => profiles[n].key = "env"

\* The assumption under which initialisations do not get in each other's way.
Alone == KeyringReads = {"ok"} /\ \A v, w \in Initialisers : v = w

\* With one initialisation and a keyring that answers, every step keeps profiles readable.
LEMMA KeyedStep ==
    ASSUME Alone, IdentityTypes, Keyed, [IdentityNext]_identity_vars
    PROVE  Keyed'
<1>1. CASE UNCHANGED identity_vars
  BY <1>1 DEF identity_vars, Keyed, NeverStranded
<1>2. ASSUME NEW c \in Loaders, open_profile(c) \/ decrypt_profile(c) PROVE Keyed'
  <2>1. UNCHANGED <<keyring, profiles>> /\ \A w \in Initialisers : run'[w] = run[w]
    BY <1>2, LoadSane
  <2> QED BY <2>1 DEF Keyed, NeverStranded
<1>3. ASSUME NEW w \in Initialisers,
             \/ begin_init(w) \/ init_key(w) \/ write_temporary(w) \/ sync_temporary(w)
             \/ rename_temporary(w) \/ rollback_key(w) \/ kill_init(w)
      PROVE  Keyed'
  <2>0. /\ \A v \in Initialisers : v = w
        /\ run \in [Initialisers \cup Loaders -> RunRec] /\ run[w] \in RunRec
        /\ profiles \in [ProfileNames -> Envelopes \cup {None}] /\ run[w].path \in ProfileNames
        /\ keyring \in MasterKeys \cup {None, "bad"} /\ KeyringReads = {"ok"}
        /\ None \notin MasterKeys \cup {"env", "bad"} /\ run[w].key_existed \in BOOLEAN
    BY IdentityAssumption DEF Alone, IdentityTypes, RunRec, MasterKeys
  <2>e. \A f \in Envelopes : f.key \in MasterKeys
    BY DEF Envelopes
  <2>1. CASE begin_init(w)
    <3>1. PICK e \in {None, "env", "bad"}, p \in ProfileNames :
            LET key == IF e # None THEN e ELSE keyring_get("ok") IN
            run' = [run EXCEPT ![w] =
                      [run[w] EXCEPT !.pc = "init", !.environment = e, !.path = p,
                                !.key_existed = resolved(key),
                                !.cached = IF resolved(key) THEN key ELSE None]]
      BY <2>0, <2>1, ZenonT(60) DEF begin_init
    <3> DEFINE key == IF e # None THEN e ELSE keyring
               ex == resolved(key)
               ca == IF resolved(key) THEN key ELSE None
               r == [run[w] EXCEPT !.pc = "init", !.environment = e, !.path = p,
                                !.key_existed = ex, !.cached = ca]
    <3>2. run' = [run EXCEPT ![w] = r]
      BY <3>1 DEF keyring_get
    <3>3. /\ r.pc = "init" /\ r.environment = e /\ r.key_existed = ex /\ r.cached = ca
      <4> HIDE DEF ex, ca
      <4> QED BY <2>0 DEF RunRec
    <3>4. /\ ex \in BOOLEAN /\ (ex = TRUE => ca = key /\ ca # None) /\ (ex = FALSE => ca = None)
          /\ ex = FALSE => e # "env" /\ (e = None => keyring \in {None, "bad"})
          /\ ca # None => ca \in {"env", keyring}
      BY <2>0 DEF resolved
    <3>5. run'[w] = r
      BY <2>0, <3>2
    <3>6. UNCHANGED <<keyring, profiles>>
      BY <2>1 DEF begin_init
    <3> HIDE DEF key, ex, ca, r
    <3> QED BY <2>0, <3>3, <3>4, <3>5, <3>6 DEF Keyed, NeverStranded
  <2>2. CASE init_key(w)
    <3>1. PICK stored \in BOOLEAN :
            LET key == resolve_existing(w, "ok") IN
            IF key # None
            THEN /\ run' = [run EXCEPT ![w] = IF key = "bad"
                              THEN [run[w] EXCEPT !.pc = "done", !.result = "key"]
                              ELSE [run[w] EXCEPT !.pc = "write", !.cached = key]]
                 /\ UNCHANGED keyring
            ELSE IF stored
            THEN /\ keyring' = w
                 /\ run' = [run EXCEPT ![w] = [run[w] EXCEPT !.pc = "write", !.cached = w]]
            ELSE /\ run' = [run EXCEPT ![w] = [run[w] EXCEPT !.pc = "done", !.result = "key"]]
                 /\ UNCHANGED keyring
      BY <2>0, <2>2 DEF init_key
    <3>2. run[w].pc = "init" /\ UNCHANGED profiles
      BY <2>2 DEF init_key
    <3> DEFINE key == resolve_existing(w, "ok")
    <3>3. /\ key \in MasterKeys \cup {None, "bad"}
          /\ key = IF run[w].cached # None THEN run[w].cached
                   ELSE IF run[w].environment # None THEN run[w].environment ELSE keyring
          /\ run[w].environment \in {None, "env", "bad"}
      <4>1. key \in MasterKeys \cup {None, "bad"}
        BY ResolveTyped
      <4> QED BY <2>0, <4>1 DEF resolve_existing, keyring_get, RunRec
    <3> HIDE DEF key
    <3>4. CASE run' = [run EXCEPT ![w] = [run[w] EXCEPT !.pc = "done", !.result = "key"]]
               /\ UNCHANGED keyring
      <4>1. run'[w].pc = "done"
        BY <3>4, InitMoves
      <4> QED BY <2>0, <3>2, <3>4, <4>1 DEF Keyed, NeverStranded
    <3>5. CASE /\ key \in MasterKeys /\ key # "bad" /\ UNCHANGED keyring
               /\ run' = [run EXCEPT ![w] = [run[w] EXCEPT !.pc = "write", !.cached = key]]
      <4>1. run'[w].pc = "write" /\ run'[w].cached = key /\ run'[w].key_existed = run[w].key_existed
        BY <3>5, InitMoves
      <4>2. key \in {"env", keyring}
        BY <2>0, <3>2, <3>3, <3>5 DEF Keyed
      <4>3. run[w].key_existed = TRUE
        BY <2>0, <3>2, <3>3, <3>5 DEF Keyed
      <4> QED BY <2>0, <3>2, <3>5, <4>1, <4>2, <4>3 DEF Keyed, NeverStranded
    <3>6. CASE /\ key = None /\ keyring' = w
               /\ run' = [run EXCEPT ![w] = [run[w] EXCEPT !.pc = "write", !.cached = w]]
      <4>0. w \in MasterKeys
        BY DEF MasterKeys
      <4>1. run'[w].pc = "write" /\ run'[w].cached = w
        BY <3>6, <4>0, InitMoves
      <4>2. keyring = None
        BY <2>0, <3>3, <3>6
      <4>3. \A n \in ProfileNames : profiles[n] \in Envelopes => profiles[n].key = "env"
        BY <2>0, <2>e, <4>2 DEF Keyed, NeverStranded
      <4> QED BY <2>0, <3>2, <3>6, <4>1, <4>3 DEF Keyed, NeverStranded
    <3> QED BY <3>1, <3>3, <3>4, <3>5, <3>6 DEF key
  <2>3. CASE write_temporary(w) \/ sync_temporary(w)
    <3>1. /\ UNCHANGED <<keyring, profiles>> /\ run[w].pc \in {"write", "sync"}
          /\ \E pc \in {"sync", "rename", "rollback"} : run' = [run EXCEPT ![w].pc = pc]
      BY <2>3 DEF write_temporary, sync_temporary
    <3>2. /\ run'[w].pc \in {"sync", "rename", "rollback"} /\ run'[w].cached = run[w].cached
          /\ run'[w].key_existed = run[w].key_existed
      BY <3>1, InitMoves
    <3> QED BY <2>0, <3>1, <3>2 DEF Keyed, NeverStranded
  <2>4. CASE rename_temporary(w)
    <3>1. /\ run[w].pc = "rename" /\ UNCHANGED keyring /\ run[w].cached \in MasterKeys
          /\ temporary[w] = [key |-> run[w].cached, by |-> w]
      BY <2>4 DEF rename_temporary, IdentityTypes
    <3>2. CASE run' = [run EXCEPT ![w].pc = "rollback"] /\ profiles' = profiles
      <4>1. /\ run'[w].pc = "rollback" /\ run'[w].key_existed = run[w].key_existed
        BY <3>2, InitMoves
      <4> QED BY <2>0, <3>1, <3>2, <4>1 DEF Keyed, NeverStranded
    <3>3. CASE /\ run' = [run EXCEPT ![w] = [run[w] EXCEPT !.pc = "done", !.result = "saved"]]
               /\ profiles' = [profiles EXCEPT ![run[w].path] = temporary[w]]
      <4>1. run'[w].pc = "done"
        BY <3>3, InitMoves
      <4>2. temporary[w].key = run[w].cached
        BY <3>1
      <4>3. run[w].cached \in {"env", keyring}
        BY <2>0, <3>1 DEF Keyed
      <4>4. \A n \in ProfileNames : profiles'[n] = profiles[n] \/ profiles'[n] = temporary[w]
        BY <2>0, <3>3
      <4>5. NeverStranded'
        BY <3>1, <4>2, <4>3, <4>4 DEF Keyed, NeverStranded
      <4> QED BY <2>0, <4>1, <4>5 DEF Keyed
    <3> QED BY <2>4, <3>2, <3>3 DEF rename_temporary
  <2>5. CASE rollback_key(w)
    <3>1. /\ run[w].pc = "rollback" /\ UNCHANGED profiles
          /\ run' = [run EXCEPT ![w] = [run[w] EXCEPT !.pc = "done", !.result = "write",
                                                      !.cached = None]]
          /\ keyring' = keyring \/ run[w].key_existed = FALSE
      BY <2>0, <2>5 DEF rollback_key
    <3>2. run'[w].pc = "done"
      BY <3>1, InitMoves
    <3>3. NeverStranded'
      BY <3>1 DEF Keyed, NeverStranded
    <3> QED BY <2>0, <3>2, <3>3 DEF Keyed
  <2>6. CASE kill_init(w)
    <3>1. /\ UNCHANGED <<keyring, profiles>>
          /\ run' = [run EXCEPT ![w] = [run[w] EXCEPT !.pc = "done", !.result = "killed"]]
      BY <2>6 DEF kill_init
    <3>2. run'[w].pc = "done"
      BY <3>1, InitMoves
    <3> QED BY <2>0, <3>1, <3>2 DEF Keyed, NeverStranded
  <2> QED BY <1>3, <2>1, <2>2, <2>3, <2>4, <2>5, <2>6
<1> QED
  BY <1>1, <1>2, <1>3 DEF IdentityNext

\* The initial profile is readable with its key.
LEMMA KeyedInit == IdentityInit => Keyed
<1> SUFFICES ASSUME IdentityInit PROVE Keyed
  OBVIOUS
<1>1. \A w \in Initialisers : run[w].pc = "idle"
  BY DEF IdentityInit, Unstarted
<1>2. NeverStranded
  <2>1. [key |-> "first", by |-> "before"].key = "first"
    OBVIOUS
  <2>2. \A n \in ProfileNames : profiles[n] \in Envelopes =>
          keyring = "first" /\ profiles[n] = [key |-> "first", by |-> "before"]
    BY EnvelopesAssumption DEF IdentityInit
  <2> QED BY <2>1, <2>2 DEF NeverStranded
<1> QED
  BY <1>1, <1>2 DEF Keyed

\* What it takes for "a failed initialization never strands an existing
\* profile": with a keyring that answers and one initialisation at a time every
\* profile can be read after any failure or kill.  Without it the run
\* identity_stranded shows that it is not so.
THEOREM ProfilesStayReadable == Alone => (IdentitySpec => []NeverStranded)
<1> SUFFICES ASSUME Alone PROVE IdentitySpec => []NeverStranded
  OBVIOUS
<1>1. IdentityTypes /\ [IdentityNext]_identity_vars => IdentityTypes'
  BY IdentitySteps DEF Sane
<1>2. IdentityTypes /\ Keyed /\ [IdentityNext]_identity_vars => Keyed'
  BY KeyedStep
<1>3. Keyed => NeverStranded
  BY DEF Keyed
<1> QED
  BY IdentityTyped, KeyedInit, <1>1, <1>2, <1>3, PTL DEF IdentitySpec

=============================================================================
