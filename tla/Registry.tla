------------------------------ MODULE Registry ------------------------------
(***************************************************************************)
(* The broker registry on disk: crates/symeraseme-core/src/registry/       *)
(* sync.rs, loader.rs and the loading half of validate.rs.  A sync         *)
(* downloads an archive, unpacks it into a staging directory, loads it to  *)
(* validate it and puts it in the place of the old directory with two      *)
(* renames; the old one is then removed file by file.  Readers load the    *)
(* registry meanwhile.                                                     *)
(*                                                                         *)
(* A directory is the set of the documents in it, one of which is the      *)
(* manifest.                                                               *)
(***************************************************************************)
EXTENDS Absent, Naturals, FiniteSets, SequencesExt

CONSTANTS Syncs, Readers,
          Archives,            \* what the server may answer
          MAX_ARCHIVE_ENTRIES, MAX_FILES, MAX_FILE_BYTES, MAX_EXPANDED_BYTES

ASSUME RegistryAssumption ==
    /\ None \notin Syncs /\ "first" \notin Syncs /\ None # "first"
    /\ \A a \in Archives : a.entries \in Seq(ToSet(a.entries))
    /\ {MAX_ARCHIVE_ENTRIES, MAX_FILES, MAX_FILE_BYTES, MAX_EXPANDED_BYTES} \subseteq Nat

\* Each sync stages one directory; "first" is the registry there before.
Dirs == Syncs \cup {"first"}

VARIABLES files,     \* documents in each directory
          place,     \* the directory at the destination
          syncer,    \* each sync
          reader     \* each load of the registry at the destination

registry_vars == <<files, place, syncer, reader>>

manifest == [stem |-> "manifest", id |-> "manifest", ok |-> TRUE]
FirstRegistry == {manifest, [stem |-> "a", id |-> "a", ok |-> TRUE]}

NotStarted == [step |-> "idle", old |-> None]
NotReading == [step |-> "idle", dir |-> None, brokers |-> {}]

RegistryInit ==
    /\ files = [d \in Dirs |-> IF d = "first" THEN FirstRegistry ELSE {}]
    /\ place \in {"first", None}
    /\ syncer = [p \in Syncs |-> NotStarted]
    /\ reader = [r \in Readers |-> NotReading]

-----------------------------------------------------------------------------
(* Unpacking and loading *)

\* safe_archive_path: a relative path without "." and "..".
safe_archive_path(path) == path # <<>> /\ \A i \in DOMAIN path : path[i] \notin {".", "..", "/"}

SumSizes(entries) == FoldLeft(LAMBDA sum, e : sum + e.size, 0, entries)

\* The entries that leave a file; directories carry no data.
files_of(archive) == SelectSeq(archive.entries, LAMBDA e : e.kind = "file")

\* extract_archive accepts the archive: every entry is a directory without
\* data or a file, at a safe path of its own, within the limits, and nothing
\* follows the archive.
extract_archive(archive) ==
    LET fs == files_of(archive) IN
    /\ Len(archive.entries) <= MAX_ARCHIVE_ENTRIES
    /\ \A i \in DOMAIN archive.entries :
          LET e == archive.entries[i] IN
          /\ safe_archive_path(e.path)
          /\ e.kind \in {"dir", "file"}
          /\ e.kind = "dir" => e.size = 0
    /\ Len(fs) <= MAX_FILES
    /\ \A i \in DOMAIN fs : fs[i].size <= MAX_FILE_BYTES
    /\ SumSizes(fs) <= MAX_EXPANDED_BYTES
    /\ \A i, j \in DOMAIN fs : fs[i].path = fs[j].path => i = j
    /\ ~archive.trailing

unpacked(archive) ==
    {archive.entries[i].doc : i \in {j \in DOMAIN archive.entries :
                                        archive.entries[j].kind = "file"}}

\* load_reporting_from_dir: the documents by path; one with a stem seen before,
\* or that does not decode, is an error.
load_reporting_from_dir(docs) ==
    [brokers |-> {d \in docs : d # manifest /\ d.ok /\ d.id = d.stem},
     errors |-> Cardinality({d \in docs : ~(d.ok /\ d.id = d.stem)})
                + Cardinality(docs) - Cardinality({d.stem : d \in docs})]

\* load_from_dir: any error fails the load; without a manifest it is not tried.
load_from_dir_ok(docs) == manifest \in docs /\ load_reporting_from_dir(docs).errors = 0

-----------------------------------------------------------------------------
(* sync *)

move(p, step) == syncer' = [syncer EXCEPT ![p].step = step]

\* Faulty variant: what was unpacked is installed unseen.
validated_Unseen(docs) == TRUE
validated(docs) == load_from_dir_ok(docs)

\* validate_url, the request and its status, unpacking and loading: a failure
\* leaves nothing but a staging directory that is dropped.
download(p) ==
    /\ syncer[p].step = "idle"
    /\ \E archive \in Archives :
          IF archive.status = 200 /\ extract_archive(archive) /\ validated(unpacked(archive))
          THEN files' = [files EXCEPT ![p] = unpacked(archive)] /\ move(p, "staged")
          ELSE UNCHANGED files /\ move(p, "failed")
    /\ UNCHANGED <<place, reader>>

\* replace_directory: is there an old registry, ...
look(p) ==
    /\ syncer[p].step = "staged"
    /\ move(p, IF place = None THEN "install" ELSE "retire")
    /\ UNCHANGED <<files, place, reader>>

\* Faulty variant: the staged directory is taken for the old one.
retire_Staged(p) ==
    /\ syncer[p].step = "retire"
    /\ syncer' = [syncer EXCEPT ![p] = [step |-> "install", old |-> p]]
    /\ place' = None
    /\ UNCHANGED <<files, reader>>

\* ... which moves to the backup; another sync may have taken it meanwhile.
retire(p) ==
    /\ syncer[p].step = "retire"
    /\ IF place = None
       THEN move(p, "failed") /\ UNCHANGED place
       ELSE /\ syncer' = [syncer EXCEPT ![p] = [step |-> "install", old |-> place]]
            /\ place' = None
    /\ UNCHANGED <<files, reader>>

\* The staged directory moves in, unless another one is there or the rename
\* fails.
install(p) ==
    /\ syncer[p].step = "install"
    /\ \/ place = None /\ place' = p /\ move(p, "clean")
       \/ UNCHANGED place /\ move(p, IF syncer[p].old = None THEN "failed" ELSE "rollback")
    /\ UNCHANGED <<files, reader>>

\* Faulty variant: the backup goes with its container when it cannot move back.
rollback_Drop(p) ==
    /\ syncer[p].step = "rollback"
    /\ \/ place = None /\ place' = syncer[p].old /\ move(p, "failed") /\ UNCHANGED files
       \/ /\ UNCHANGED place
          /\ files' = [files EXCEPT ![syncer[p].old] = {}]
          /\ move(p, "failed")
    /\ UNCHANGED reader

\* The old directory moves back; if it cannot, it is retained.
rollback(p) ==
    /\ syncer[p].step = "rollback"
    /\ \/ place = None /\ place' = syncer[p].old
       \/ UNCHANGED place
    /\ move(p, "failed")
    /\ UNCHANGED <<files, reader>>

\* remove_all of the old directory, one file after the other.
remove_old(p) ==
    /\ syncer[p].step = "clean"
    /\ IF syncer[p].old = None \/ files[syncer[p].old] = {}
       THEN move(p, "done") /\ UNCHANGED files
       ELSE /\ \E d \in files[syncer[p].old] :
                  files' = [files EXCEPT ![syncer[p].old] = @ \ {d}]
            /\ UNCHANGED syncer
    /\ UNCHANGED <<place, reader>>

\* The process dies; directories stay where they are.
kill_sync(p) ==
    /\ syncer[p].step \notin {"idle", "done", "failed"}
    /\ move(p, "failed")
    /\ UNCHANGED <<files, place, reader>>

-----------------------------------------------------------------------------
(* A command that loads the registry from the directory. *)

\* load_reporting_from_dir opens the directory and reads the manifest, ...
open_registry(r) ==
    /\ reader[r].step = "idle"
    /\ reader' = [reader EXCEPT ![r] =
                    IF place = None THEN [@ EXCEPT !.step = "error"]
                    ELSE IF manifest \in files[place]
                         THEN [step |-> "reading", dir |-> place, brokers |-> {}]
                         ELSE [@ EXCEPT !.step = "error"]]
    /\ UNCHANGED <<files, place, syncer>>

\* ... then lists and decodes what the open directory holds by then.
read_registry(r) ==
    /\ reader[r].step = "reading"
    /\ LET docs == files[reader[r].dir] \cup {manifest} IN
       reader' = [reader EXCEPT ![r] =
                    IF load_from_dir_ok(docs)
                    THEN [@ EXCEPT !.step = "loaded",
                                   !.brokers = load_reporting_from_dir(docs).brokers]
                    ELSE [@ EXCEPT !.step = "error"]]
    /\ UNCHANGED <<files, place, syncer>>

RegistryNext ==
    \/ \E p \in Syncs : \/ download(p) \/ look(p) \/ retire(p) \/ install(p) \/ rollback(p)
                        \/ remove_old(p) \/ kill_sync(p)
    \/ \E r \in Readers : open_registry(r) \/ read_registry(r)

RegistrySpec == RegistryInit /\ [][RegistryNext]_registry_vars

-----------------------------------------------------------------------------
(* Properties *)

\* The type invariant.
RegistryTypeOK ==
    /\ \A d \in Dirs : IsFiniteSet(files[d])
    /\ place \in Dirs \cup {None}
    /\ \A p \in Syncs :
          /\ syncer[p].step \in {"idle", "staged", "retire", "install", "clean", "rollback",
                                 "done", "failed"}
          /\ syncer[p].old \in Dirs \cup {None}
          /\ syncer[p].old # p
    /\ \A r \in Readers : reader[r].step \in {"idle", "reading", "loaded", "error"}

\* A directory as it was when it was staged.
Whole(d) == \/ d = "first" /\ files[d] = FirstRegistry
            \/ \E a \in Archives : d # "first" /\ files[d] = unpacked(a)

\* What stands at the destination is a registry that loads, with every limit
\* observed, whichever syncs run at the same time or were cut off: no archive
\* that was refused, and none that a clean-up has begun to take apart.
InstalledIsValid ==
    place # None =>
        /\ Whole(place)
        /\ load_from_dir_ok(files[place])
        /\ place # "first" =>
              \E a \in Archives :
                  /\ files[place] = unpacked(a)
                  /\ SumSizes(files_of(a)) <= MAX_EXPANDED_BYTES
                  /\ \A i \in DOMAIN a.entries : ".." \notin ToSet(a.entries[i].path)

\* Once there was a registry, there is one: at the destination, or complete in
\* the backup of a sync that failed or died between its renames.
RegistryNotLost ==
    files["first"] # FirstRegistry \/ (\E p \in Syncs : syncer[p].old # None) =>
        \/ place # None
        \/ \E p \in Syncs : syncer[p].old # None /\ Whole(syncer[p].old)

\* Two syncs at once, each of which may be refused, fail or die between its
\* renames, neither lose the registry nor put an invalid one in its place
\* (replace_directory_with_ops, sync_with_transport).
RegistryCorrect == RegistryTypeOK /\ InstalledIsValid /\ RegistryNotLost

=============================================================================
