------------------------------ MODULE Migration ------------------------------
(***************************************************************************)
(* Taking over the data of the earlier Python program: crates/symeraseme-  *)
(* engine/src/migration.rs.  A run detects what there is, backs it up,     *)
(* writes a state file, and then copies one artifact after the other,      *)
(* marking each in the state file.  It may be cut off at any point; the    *)
(* next run goes on from the state file.                                   *)
(*                                                                         *)
(* A directory is the sequence of the names of its path.  An artifact is   *)
(* represented by who wrote it last.                                       *)
(***************************************************************************)
EXTENDS Absent, Naturals, FiniteSets, SequencesExt

CONSTANTS Roots,        \* the directories to try: of the data, the configuration,
                        \* the backup and the scheduler units
          Sources,      \* what the source directory may hold: sets of Copied
          UnitInputs,   \* the scheduler units in place at the start
          MaxMigrations \* bound on the runs

\* Artifacts in the order of their ids: files copied from the source, units
\* generated anew, and the secrets, which nothing can copy.
Copied == {"config", "event-db", "profile"}
Native == {"native:poll", "native:tick"}
ArtifactIds == <<"config", "event-db", "profile", "schedules", "native:poll", "native:tick",
                 "secret-store">>
Written == Copied \cup {"schedules"}

ItemStatus == {"", "done", "manual"}

ASSUME MigrationAssumption ==
    /\ \A s \in Sources : s \subseteq Written
    /\ UnitInputs \subseteq [Native -> {"none", "python", "other", "own"}]
    /\ MaxMigrations \in Nat
    /\ None \notin [ToSet(ArtifactIds) -> ItemStatus]

VARIABLES roots,      \* the directories the user names
          source,     \* artifacts of the source directory
          native,     \* the scheduler units of the user
          destination, \* contents of the destination directory
          backup,     \* the backup directory
          statefile,  \* .migration-state.json
          migration,  \* the run under way
          report,     \* what the last run reported
          history     \* the units as they were, whether a run has completed, runs

migration_vars ==
    <<roots, source, native, destination, backup, statefile, migration, report, history>>

NoBackup == [status |-> "none", source |-> {}, external |-> [n \in Native |-> "none"]]
NoMigration == [step |-> "idle", items |-> {}, todo |-> {}]

MigrationInit ==
    /\ roots \in Roots
    /\ source \in Sources
    /\ native \in UnitInputs
    /\ destination = [i \in Written |-> "none"]
    /\ backup = NoBackup
    /\ statefile = None
    /\ migration = NoMigration
    /\ report = "none"
    /\ history = [units |-> native, complete |-> FALSE, runs |-> 0]

-----------------------------------------------------------------------------
(* Paths *)

\* Faulty variant: a parent component is kept.
clean_absolute_Literal(path) == SelectSeq(path, LAMBDA c : c # ".")

clean_absolute(path) ==
    FoldLeft(LAMBDA clean, c : CASE c = ".." -> IF clean = <<>> THEN <<>> ELSE Front(clean)
                                 [] c = "." -> clean
                                 [] OTHER -> Append(clean, c),
             <<>>, path)

path_within(root, candidate) == IsPrefix(clean_absolute(root), clean_absolute(candidate))
overlap(a, b) == path_within(a, b) \/ path_within(b, a)

validate_roots == roots.source # <<>> /\ roots.destination # <<>>
                  /\ ~overlap(roots.source, roots.destination)

\* The configuration is beside the data unless it has a directory of its own.
source_config == IF roots.source_config = <<>> THEN roots.source ELSE roots.source_config
destination_config ==
    IF roots.destination_config = <<>> THEN roots.destination ELSE roots.destination_config

same(a, b) == clean_absolute(a) = clean_absolute(b)

\* Faulty variant: the two configuration directories are only compared with
\* each other.
config_roots_Pair == ~overlap(source_config, destination_config)

config_roots ==
    /\ ~overlap(source_config, destination_config)
    /\ same(source_config, roots.source) \/ ~overlap(source_config, roots.destination)
    /\ same(destination_config, roots.destination) \/ ~overlap(destination_config, roots.source)

\* The backup directory lies outside every other one that is named.
backup_apart ==
    \A root \in {roots.source, roots.destination, source_config, destination_config}
                  \cup roots.schedulers :
        root = <<>> \/ ~overlap(root, roots.backup)

-----------------------------------------------------------------------------
(* Detection *)

\* MetadataOnlySecretStore: an encrypted profile means there are secrets.
secrets_detected == "profile" \in source

\* One unit of the Python program brings in all of them.
legacy_units == \E n \in Native : native[n] = "python"

detect == source \cup (IF legacy_units THEN Native ELSE {})
                 \cup (IF secrets_detected THEN {"secret-store"} ELSE {})

-----------------------------------------------------------------------------
(* A run *)

leave(r) == migration' = NoMigration /\ report' = r
proceed(step, todo) ==
    migration' = [migration EXCEPT !.step = step, !.todo = todo] /\ UNCHANGED report

begin_migration(dry, copy_secrets) ==
    /\ migration.step = "idle"
    /\ history.runs < MaxMigrations
    /\ history' = [history EXCEPT !.runs = @ + 1]
    /\ IF ~validate_roots \/ ~config_roots \/ (detect # {} /\ ~dry /\ copy_secrets /\ secrets_detected)
       THEN leave("failed")
       ELSE IF dry \/ detect = {}
            THEN leave(IF detect = {} THEN "nothing" ELSE "planned")
            ELSE IF ~backup_apart THEN leave("failed")
            ELSE migration' = [step |-> "backup", items |-> detect, todo |-> detect]
                 /\ report' = "running"
    /\ UNCHANGED <<roots, source, native, destination, backup, statefile>>

\* ensure_backup: a marked backup is the one of an earlier run; one without a
\* marker is never touched again.
ensure_backup ==
    /\ migration.step = "backup"
    /\ CASE backup.status = "complete" -> proceed("state", migration.todo) /\ UNCHANGED backup
         [] backup.status = "partial" -> leave("failed") /\ UNCHANGED backup
         [] OTHER -> /\ backup' = [backup EXCEPT !.status = "partial"]
                     /\ proceed("copy", migration.todo)
    /\ UNCHANGED <<roots, source, native, destination, statefile, history>>

\* Faulty variant: only the source directory is copied.
copy_tree_SourceOnly ==
    /\ migration.step = "copy"
    /\ backup' = [backup EXCEPT !.source = source]
    /\ proceed("mark", migration.todo)
    /\ UNCHANGED <<roots, source, native, destination, statefile, history>>

\* copy_tree of the source, and the artifacts outside of it.
copy_tree ==
    /\ migration.step = "copy"
    /\ backup' = [backup EXCEPT
                    !.source = source,
                    !.external = [n \in Native |-> IF n \in migration.todo
                                                   THEN native[n] ELSE "none"]]
    /\ proceed("mark", migration.todo)
    /\ UNCHANGED <<roots, source, native, destination, statefile, history>>

\* The marker makes the backup complete.
mark_backup ==
    /\ migration.step = "mark"
    /\ backup' = [backup EXCEPT !.status = "complete"]
    /\ proceed("state", migration.todo)
    /\ UNCHANGED <<roots, source, native, destination, statefile, history>>

\* A new state file has no items; "" is an item it does not mention.
write_state ==
    /\ migration.step = "state"
    /\ statefile' = IF statefile = None THEN [i \in ToSet(ArtifactIds) |-> ""] ELSE statefile
    /\ proceed("items", migration.todo)
    /\ UNCHANGED <<roots, source, native, destination, backup, history>>

\* The items are taken in the order of their ids.
next_item == ArtifactIds[Min({k \in DOMAIN ArtifactIds : ArtifactIds[k] \in migration.todo})]

\* Faulty variant: an item is migrated whatever the state file says of it.
skip_item_Never == FALSE
skip_item == statefile[next_item] = "done"

\* One artifact: skipped, left to the user, or written; the state file follows.
migrate_item ==
    /\ migration.step = "items"
    /\ migration.todo # {}
    /\ CASE skip_item ->
              proceed("items", migration.todo \ {next_item}) /\ UNCHANGED <<native, destination, statefile>>
         [] ~skip_item /\ next_item = "secret-store" ->
              /\ statefile' = [statefile EXCEPT ![next_item] = "manual"]
              /\ proceed("items", migration.todo \ {next_item})
              /\ UNCHANGED <<native, destination>>
         [] OTHER ->
              /\ native' = [n \in Native |-> IF n = next_item THEN "own" ELSE native[n]]
              /\ destination' = [i \in Written |-> IF i = next_item THEN "migrated" ELSE destination[i]]
              /\ proceed("done", migration.todo)
              /\ UNCHANGED statefile
    /\ UNCHANGED <<roots, source, backup, history>>

mark_item ==
    /\ migration.step = "done"
    /\ statefile' = [statefile EXCEPT ![next_item] = "done"]
    /\ proceed("items", migration.todo \ {next_item})
    /\ UNCHANGED <<roots, source, native, destination, backup, history>>

\* Faulty variant: an item left to the user counts as migrated.
is_complete_Manual(items) == \A i \in items : statefile[i] # ""

is_complete(items) == \A i \in items : statefile[i] = "done"

end_migration ==
    /\ migration.step = "items"
    /\ migration.todo = {}
    /\ LET complete == is_complete(migration.items) IN
       /\ leave(IF complete THEN "complete" ELSE "incomplete")
       /\ history' = [history EXCEPT !.complete = @ \/ complete]
    /\ UNCHANGED <<roots, source, native, destination, backup, statefile>>

\* A write fails or the process dies.
break_off_migration ==
    /\ migration.step # "idle"
    /\ leave("failed")
    /\ UNCHANGED <<roots, source, native, destination, backup, statefile, history>>

-----------------------------------------------------------------------------
(* The user *)

\* The new program works on what it took over.
edit(i) ==
    /\ migration.step = "idle"
    /\ destination[i] = "migrated"
    /\ destination' = [destination EXCEPT ![i] = "edited"]
    /\ UNCHANGED <<roots, source, native, backup, statefile, migration, report, history>>

\* A backup that was cut off is removed by hand.
clear_backup ==
    /\ migration.step = "idle"
    /\ backup.status = "partial"
    /\ backup' = NoBackup
    /\ UNCHANGED <<roots, source, native, destination, statefile, migration, report, history>>

MigrationNext ==
    \/ \E dry, copy_secrets \in BOOLEAN : begin_migration(dry, copy_secrets)
    \/ ensure_backup \/ copy_tree \/ mark_backup \/ write_state
    \/ migrate_item \/ mark_item \/ end_migration \/ break_off_migration
    \/ \E i \in Written : edit(i)
    \/ clear_backup

MigrationSpec == MigrationInit /\ [][MigrationNext]_migration_vars

-----------------------------------------------------------------------------
(* Properties *)

\* The type invariant.
MigrationTypeOK ==
    /\ roots \in Roots /\ source \in Sources
    /\ native \in [Native -> {"none", "python", "other", "own"}]
    /\ destination \in [Written -> {"none", "migrated", "edited"}]
    /\ backup \in [status : {"none", "partial", "complete"}, source : SUBSET Written,
                   external : [Native -> {"none", "python", "other", "own"}]]
    /\ statefile \in [ToSet(ArtifactIds) -> ItemStatus] \cup {None}
    /\ migration.step \in {"idle", "backup", "copy", "mark", "state", "items", "done"}
    /\ migration.todo \subseteq migration.items
    /\ report \in {"none", "running", "nothing", "planned", "failed", "incomplete", "complete"}
    /\ history.runs \in 0..MaxMigrations

\* "creates a backup before writing": whatever run replaced a unit, and
\* however often runs were cut off, the unit as it was is still in place or in
\* the completed backup; nothing is written before the backup is complete.
OriginalsKept ==
    /\ \A n \in Native :
          \/ native[n] = history.units[n]
          \/ backup.status = "complete" /\ backup.external[n] = history.units[n]
    /\ (\E i \in Written : destination[i] # "none") =>
          backup.status = "complete" /\ backup.source = source

\* A path seen from the root of the file system, walked component by component.
Reached[path \in Seq(STRING)] ==
    IF path = <<>> THEN <<>>
    ELSE LET before == Reached[Front(path)] IN
         CASE Last(path) = "." -> before
           [] Last(path) = ".." -> IF before = <<>> THEN <<>> ELSE Front(before)
           [] OTHER -> Append(before, Last(path))

Apart(a, b) == ~IsPrefix(Reached[a], Reached[b]) /\ ~IsPrefix(Reached[b], Reached[a])

\* The source is never written: where a run writes, the destination, its
\* configuration and the backup, is neither inside a directory it reads nor
\* around one, and the backup is apart from everything that is replaced.
SourceUntouched ==
    statefile # None \/ backup # NoBackup =>
        /\ \A written \in {roots.destination, destination_config, roots.backup},
              read \in {roots.source, source_config} : Apart(written, read)
        /\ \A replaced \in {roots.destination, destination_config}
                              \cup (roots.schedulers \ {<<>>}) :
              Apart(replaced, roots.backup)

\* A run that reports completion has taken over every artifact of the source
\* and left no unit of the Python program, whichever runs were cut off before.
CompleteMeansMigrated ==
    report = "complete" =>
        /\ \A i \in source : destination[i] # "none"
        /\ ~secrets_detected
        /\ \A n \in Native : native[n] # "python"

\* Once a run has reported completion, no later run writes anything: what the
\* new program has done with its data since is safe.
CompleteIsFinal ==
    [][history.complete /\ migration.step # "idle"
        => UNCHANGED <<native, destination>>]_migration_vars

\* However often a migration is cut off and started again, and whatever the
\* directories are called: originals are kept, the source is not written, a
\* reported completion is true and ends the matter (migration.rs, run).
MigrationCorrect ==
    /\ [](MigrationTypeOK /\ OriginalsKept /\ SourceUntouched /\ CompleteMeansMigrated)
    /\ CompleteIsFinal

=============================================================================
