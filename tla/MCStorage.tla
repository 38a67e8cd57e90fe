----------------------------- MODULE MCStorage -----------------------------
(***************************************************************************)
(* The parts of the program that keep their state in files, and the        *)
(* commands that work on the database, each on its own: one part is picked *)
(* at the start and only it moves.                                         *)
(***************************************************************************)
EXTENDS EventStore, EncryptedStore, Migration, Registry, Scheduler, Commands,
        TLC

VARIABLE part    \* the part that runs

storage_vars == <<vars, store_vars, migration_vars, registry_vars, sched_vars,
                  command_vars>>

-----------------------------------------------------------------------------
(* Inputs *)

\* Directories: plain ones; configurations of their own; a destination, a
\* configuration and a backup that lie, by way of "..", inside another one.
PlainRoots ==
    [source |-> <<"old">>, destination |-> <<"new">>, backup |-> <<"save">>,
     source_config |-> <<>>, destination_config |-> <<>>, schedulers |-> {<<"units">>, <<>>}]
MCRoots ==
    {PlainRoots,
     [PlainRoots EXCEPT !.source_config = <<"conf", "old">>, !.destination_config = <<"conf", "new">>],
     [PlainRoots EXCEPT !.destination = <<"new", "..", "old", "data">>],
     [PlainRoots EXCEPT !.destination_config = <<"new", "..", "old", "conf">>,
                        !.source_config = <<"conf">>],
     [PlainRoots EXCEPT !.source_config = <<"new">>, !.destination_config = <<"conf">>],
     [PlainRoots EXCEPT !.backup = <<"new", ".", "b">>],
     [PlainRoots EXCEPT !.backup = <<"units", "b">>]}
MCSources == {{}, {"config"}, {"profile"}, {"event-db", "schedules"}}
NoUnits == [n \in Native |-> "none"]
MCUnits == {NoUnits, [n \in Native |-> "python"],
            [n \in Native |-> IF n = "native:tick" THEN "python" ELSE "other"],
            [n \in Native |-> IF n = "native:poll" THEN "python" ELSE "none"]}

\* Archives: two brokers; one whose file is named differently; an invalid
\* one; one over each limit; a path that leaves the directory, a link, an
\* error status and bytes after the end.
BrokerFile(stem, id, ok, size) ==
    [kind |-> "file", path |-> <<"brokers", stem>>, size |-> size,
     doc |-> [stem |-> stem, id |-> id, ok |-> ok]]
Archive(entries) ==
    [status |-> 200, trailing |-> FALSE,
     entries |-> <<[kind |-> "dir", path |-> <<"brokers">>, size |-> 0, doc |-> manifest],
                   [kind |-> "file", path |-> <<"manifest">>, size |-> 1, doc |-> manifest]>>
                 \o entries]
Broker == BrokerFile("b", "b", TRUE, 1)
MCArchives ==
    {Archive(<<Broker, BrokerFile("c", "c", TRUE, 1)>>),
     Archive(<<BrokerFile("b", "c", TRUE, 1)>>),
     Archive(<<BrokerFile("b", "b", FALSE, 1)>>),
     Archive(<<BrokerFile("b", "b", TRUE, 2), BrokerFile("c", "c", TRUE, 2)>>),
     Archive(<<[Broker EXCEPT !.path = <<"..", "b">>]>>),
     Archive(<<[Broker EXCEPT !.kind = "link"]>>),
     [Archive(<<Broker>>) EXCEPT !.status = 404],
     [Archive(<<Broker>>) EXCEPT !.trailing = TRUE]}

MCShortNames == <<"tick", "poll">>
MCCrontabs == {<<>>, <<"user">>, <<"python", "start", "job", "end", "user">>, <<"start", "user">>,
               <<"user", "end", "start", "job", "end", "start", "job", "end">>}

-----------------------------------------------------------------------------
(* The parts that do not run stay in one of their initial states. *)

StoreRest == canonical = [format |-> "absent", ver |-> 0] /\ StoreInit
MigrationRest ==
    /\ roots = CHOOSE r \in MCRoots : TRUE
    /\ source = {} /\ native = NoUnits
    /\ MigrationInit
RegistryRest == place = None /\ RegistryInit
SchedRest ==
    /\ platform = "cron" /\ units = [f \in Unit |-> "none"] /\ crontab = <<>>
    /\ SchedInit

StorageInit ==
    \/ /\ part = "events" /\ Init
       /\ StoreRest /\ MigrationRest /\ RegistryRest /\ SchedRest /\ CommandsInit
    \/ /\ part = "store" /\ StoreInit
       /\ Init /\ MigrationRest /\ RegistryRest /\ SchedRest /\ CommandsInit
    \/ /\ part = "migration" /\ MigrationInit
       /\ Init /\ StoreRest /\ RegistryRest /\ SchedRest /\ CommandsInit
    \/ /\ part = "registry" /\ RegistryInit
       /\ Init /\ StoreRest /\ MigrationRest /\ SchedRest /\ CommandsInit
    \/ /\ part = "scheduler" /\ SchedInit
       /\ Init /\ StoreRest /\ MigrationRest /\ RegistryRest /\ CommandsInit
    \/ /\ part = "commands" /\ CommandsInit
       /\ Init /\ StoreRest /\ MigrationRest /\ RegistryRest /\ SchedRest

\* The commands of these parts come to their end; the event log and the
\* database can always go on.
Quiet == part \in {"migration", "registry", "scheduler", "commands"} /\ UNCHANGED storage_vars

StorageNext ==
    /\ UNCHANGED part
    /\ \/ /\ part = "events" /\ Next
          /\ UNCHANGED <<store_vars, migration_vars, registry_vars, sched_vars, command_vars>>
       \/ /\ part = "store" /\ StoreNext
          /\ UNCHANGED <<vars, migration_vars, registry_vars, sched_vars, command_vars>>
       \/ /\ part = "migration" /\ MigrationNext
          /\ UNCHANGED <<vars, store_vars, registry_vars, sched_vars, command_vars>>
       \/ /\ part = "registry" /\ RegistryNext
          /\ UNCHANGED <<vars, store_vars, migration_vars, sched_vars, command_vars>>
       \/ /\ part = "scheduler" /\ SchedNext
          /\ UNCHANGED <<vars, store_vars, migration_vars, registry_vars, command_vars>>
       \/ /\ part = "commands" /\ CommandsNext
          /\ UNCHANGED <<vars, store_vars, migration_vars, registry_vars, sched_vars>>
       \/ Quiet

StorageSpec == StorageInit /\ [][StorageNext]_<<part, storage_vars>>

Symmetry ==
    Permutations(Requests) \cup Permutations(Procs) \cup Permutations(TempIds)

=============================================================================
