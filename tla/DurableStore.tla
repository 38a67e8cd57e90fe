---------------------------- MODULE DurableStore ----------------------------
(***************************************************************************)
(* What the encrypted database file promises to the commands that use it,  *)
(* without files, copies and formats: one process at a time has the        *)
(* database, it reads and extends what the last one left, and when it      *)
(* gives the database back everything it committed is on disk.  Only the   *)
(* death of the holder loses commits, and only those made since the last   *)
(* publication.                                                            *)
(***************************************************************************)
EXTENDS Absent, Naturals

CONSTANT Holders    \* the processes that may open the database

VARIABLES owner,    \* who has the database, or None
          db,       \* commits the owner or the next opener sees
          safe      \* commits that survive the death of the owner

durable_vars == <<owner, db, safe>>

DurableInit == owner = None /\ db = 0 /\ safe = 0

acquire(p) == owner = None /\ owner' = p /\ UNCHANGED <<db, safe>>

\* A commit to a plain database is durable at once, one to a private copy
\* is not.
add(p) ==
    /\ owner = p
    /\ db' = db + 1
    /\ safe' \in {safe, db + 1}
    /\ UNCHANGED owner

flush(p) == owner = p /\ safe' = db /\ UNCHANGED <<owner, db>>

\* The database is given back with all that was committed on disk.
release(p) == owner = p /\ owner' = None /\ safe' = db /\ UNCHANGED db

lose(p) == owner = p /\ owner' = None /\ db' = safe /\ UNCHANGED safe

DurableNext ==
    \E p \in Holders : acquire(p) \/ add(p) \/ flush(p) \/ release(p) \/ lose(p)

DurableSpec == DurableInit /\ [][DurableNext]_durable_vars

=============================================================================
