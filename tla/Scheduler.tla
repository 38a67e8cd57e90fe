------------------------------ MODULE Scheduler ------------------------------
(***************************************************************************)
(* Installing and removing the scheduled jobs: crates/symeraseme-engine/   *)
(* src/scheduler/.  An install refuses foreign units unless it was asked   *)
(* to replace them, writes the wrappers, removes the foreign units, writes *)
(* its own and hands them to the job manager, one file and one command at  *)
(* a time; any of these may fail, or the process may die.  Under cron it   *)
(* rewrites the user's table instead.                                      *)
(*                                                                         *)
(* A unit is represented by who wrote it, a line of the table by its part  *)
(* in the marked block; "python" is a line of the user with a word that    *)
(* the Python program's files are told by.                                 *)
(***************************************************************************)
EXTENDS Naturals, FiniteSets, SequencesExt

CONSTANTS ShortNames,   \* unit_short_names, in order
          Crontabs,     \* the tables the user may start with
          MaxInstalls   \* bound on the commands given

ASSUME SchedulerAssumption ==
    /\ ShortNames \in Seq(STRING)
    /\ \A t \in Crontabs : t \in Seq({"start", "end", "job", "user", "python"})
    /\ MaxInstalls \in Nat

Platforms == {"cron", "launchd", "systemd"}

\* The files each generator makes for the job manager, in the order written.
launchd_generate == [i \in DOMAIN ShortNames |-> <<ShortNames[i], ".plist">>]
systemd_generate ==
    [i \in 1..(2 * Len(ShortNames)) |-> <<ShortNames[(i + 1) \div 2],
                                         IF i % 2 = 1 THEN ".service" ELSE ".timer">>]
cron_tab == <<"start", "job", "end">>

native_files(platform) ==
    CASE platform = "launchd" -> launchd_generate
      [] platform = "systemd" -> systemd_generate
      [] OTHER -> <<>>

Unit == ToSet(launchd_generate) \cup ToSet(systemd_generate)
Writer == {"none", "own", "python", "other"}

VARIABLES platform,   \* of this machine
          xdg,        \* are systemd units under XDG_CONFIG_HOME, not ~/.config?
          units,      \* who wrote each file of the unit directory
          loaded,     \* jobs the job manager runs
          crontab,    \* the user's table, <<>> for none
          wrappers,   \* the wrapper scripts are in place
          installer,  \* the command under way
          verdict,    \* what the last command reported
          installs,   \* commands given so far
          ignored     \* history: what failed in the last command without ending
                      \* it, the unloading of jobs and `crontab -l'

sched_vars == <<platform, xdg, units, loaded, crontab, wrappers, installer, verdict, installs,
                ignored>>

NoCommand == [step |-> "idle", replace |-> FALSE, legacy |-> {}, todo |-> <<>>]

\* Units of an earlier installation run; files of other platforms never exist.
SchedInit ==
    /\ platform \in Platforms
    /\ xdg \in (IF platform = "systemd" THEN BOOLEAN ELSE {FALSE})
    /\ units \in {u \in [Unit -> Writer] :
                    \A f \in Unit : f \in ToSet(native_files(platform)) \/ u[f] = "none"}
    /\ loaded = {s \in ToSet(ShortNames) :
                   \A f \in ToSet(native_files(platform)) : f[1] = s => units[f] # "none"}
                \cap (IF platform = "cron" THEN {} ELSE ToSet(ShortNames))
    /\ crontab \in (IF platform = "cron" THEN Crontabs ELSE {<<>>})
    /\ wrappers = FALSE
    /\ installer = NoCommand
    /\ verdict = "none"
    /\ installs = 0
    /\ ignored = {}

-----------------------------------------------------------------------------
(* Helpers *)

\* is_python_scheduler_content and is_own_generated_unit read the marker.
is_own_generated_unit(writer) == writer = "own"

\* Faulty variant: only units with a marker of the Python program count.
scan_legacy_python_units_Python ==
    {f \in ToSet(native_files(platform)) : units[f] = "python"}

\* scan_legacy_python_units looks under ~/.config; install_root honours
\* XDG_CONFIG_HOME when no home directory is given, and none is.
scan_legacy_python_units ==
    {f \in ToSet(native_files(platform)) :
        /\ ~xdg
        /\ units[f] # "none"
        /\ ~is_own_generated_unit(units[f])}

\* Faulty variant: the end marker does not end the block.
remove_cron_block_Unclosed(content) ==
    FoldLeft(LAMBDA acc, line :
               CASE line = "start" -> [acc EXCEPT !.skip = TRUE]
                 [] line = "end" -> acc
                 [] OTHER -> IF acc.skip THEN acc ELSE [acc EXCEPT !.kept = Append(@, line)],
             [kept |-> <<>>, skip |-> FALSE], content).kept

remove_cron_block(content) ==
    FoldLeft(LAMBDA acc, line :
               CASE line = "start" -> [acc EXCEPT !.skip = TRUE]
                 [] line = "end" -> [acc EXCEPT !.skip = FALSE]
                 [] OTHER -> IF acc.skip THEN acc ELSE [acc EXCEPT !.kept = Append(@, line)],
             [kept |-> <<>>, skip |-> FALSE], content).kept

go_on(step, todo) == installer' = [installer EXCEPT !.step = step, !.todo = todo]
finish(v) == installer' = NoCommand /\ verdict' = v

-----------------------------------------------------------------------------
(* install *)

begin_install(replace) ==
    /\ installer.step = "idle"
    /\ installs < MaxInstalls
    /\ installs' = installs + 1 /\ ignored' = {}
    /\ IF scan_legacy_python_units # {} /\ ~replace
       THEN /\ verdict' = "refused"
            /\ UNCHANGED installer
       ELSE /\ installer' = [step |-> "write", replace |-> replace,
                             legacy |-> scan_legacy_python_units,
                             todo |-> <<>>]
            /\ verdict' = "running"
    /\ UNCHANGED <<platform, xdg, units, loaded, crontab, wrappers>>

\* write_files: the wrappers, each replaced atomically.
write_wrappers ==
    /\ installer.step = "write"
    /\ wrappers' = TRUE
    /\ go_on(IF platform = "cron" THEN "cron" ELSE "remove", SetToSeq(installer.legacy))
    /\ UNCHANGED <<platform, xdg, units, loaded, crontab, verdict, installs, ignored>>

remove_legacy ==
    /\ installer.step = "remove"
    /\ IF installer.todo = <<>>
       THEN go_on("units", native_files(platform)) /\ UNCHANGED units
       ELSE /\ units' = [units EXCEPT ![Head(installer.todo)] = "none"]
            /\ go_on("remove", Tail(installer.todo))
    /\ UNCHANGED <<platform, xdg, loaded, crontab, wrappers, verdict, installs, ignored>>

install_native_units ==
    /\ installer.step = "units"
    /\ IF installer.todo = <<>>
       THEN go_on("load", ShortNames) /\ UNCHANGED units
       ELSE /\ units' = [units EXCEPT ![Head(installer.todo)] = "own"]
            /\ go_on("units", Tail(installer.todo))
    /\ UNCHANGED <<platform, xdg, loaded, crontab, wrappers, verdict, installs, ignored>>

\* launchctl load, or systemctl daemon-reload and enable --now.
load_units ==
    /\ installer.step = "load"
    /\ IF installer.todo = <<>>
       THEN finish("installed") /\ UNCHANGED loaded
       ELSE /\ loaded' = loaded \cup {Head(installer.todo)}
            /\ go_on("load", Tail(installer.todo))
            /\ UNCHANGED verdict
    /\ UNCHANGED <<platform, xdg, units, crontab, wrappers, installs, ignored>>

\* Faulty variant: the own block is appended to the table as it is.
install_cron_Append ==
    /\ installer.step = "cron"
    /\ crontab' = crontab \o cron_tab
    /\ finish("installed")
    /\ UNCHANGED <<platform, xdg, units, loaded, wrappers, installs, ignored>>

\* crontab -l, whose error counts as an empty table, and crontab with the
\* staged table.
install_cron ==
    /\ installer.step = "cron"
    /\ \/ crontab' = remove_cron_block(crontab) \o cron_tab /\ UNCHANGED ignored
       \/ crontab' = cron_tab /\ ignored' = {"crontab"}
    /\ finish("installed")
    /\ UNCHANGED <<platform, xdg, units, loaded, wrappers, installs>>

-----------------------------------------------------------------------------
(* uninstall *)

begin_uninstall ==
    /\ installer.step = "idle"
    /\ installs < MaxInstalls
    /\ installs' = installs + 1 /\ ignored' = {}
    /\ installer' = [NoCommand EXCEPT !.step = IF platform = "cron" THEN "uncron" ELSE "unload",
                                      !.todo = ShortNames]
    /\ verdict' = "running"
    /\ UNCHANGED <<platform, xdg, units, loaded, crontab, wrappers>>

\* Each job is unloaded, its files removed. An unload that fails is ignored,
\* and the command reports the same success.
unload_unit ==
    /\ installer.step = "unload"
    /\ IF installer.todo = <<>>
       THEN finish("removed") /\ UNCHANGED <<units, loaded, ignored>>
       ELSE LET s == Head(installer.todo) IN
            /\ units' = [f \in Unit |-> IF f[1] = s THEN "none" ELSE units[f]]
            /\ \/ loaded' = loaded \ {s} /\ UNCHANGED ignored
               \/ ignored' = ignored \cup {s} /\ UNCHANGED loaded
            /\ go_on("unload", Tail(installer.todo))
            /\ UNCHANGED verdict
    /\ UNCHANGED <<platform, xdg, crontab, wrappers, installs>>

\* A table that cannot be read is left as it is, which is a success too.
uninstall_cron ==
    /\ installer.step = "uncron"
    /\ \/ crontab' = remove_cron_block(crontab) /\ UNCHANGED ignored
       \/ UNCHANGED crontab /\ ignored' = {"crontab"}
    /\ finish("removed")
    /\ UNCHANGED <<platform, xdg, units, loaded, wrappers, installs>>

\* An I/O error, a command of the job manager that fails, or a crash: what
\* was done stays done.
break_off ==
    /\ installer.step # "idle"
    /\ finish("failed")
    /\ UNCHANGED <<platform, xdg, units, loaded, crontab, wrappers, installs, ignored>>

\* status, where the job manager and crontab answer: what it says of each job;
\* the table is all there is of cron.
status_unit_name(s) == <<s, IF platform = "launchd" THEN ".plist" ELSE ".timer">>
status ==
    IF platform = "cron"
    THEN [s \in {"cron"} |-> [installed |-> "start" \in ToSet(crontab), active |-> FALSE,
                              legacy |-> "python" \in ToSet(crontab)]]
    ELSE [s \in ToSet(ShortNames) |->
            LET f == status_unit_name(s) IN
            [installed |-> units[f] # "none",
             active |-> s \in loaded,
             legacy |-> f \in scan_legacy_python_units /\ units[f] = "python"]]

SchedStep == \/ write_wrappers \/ remove_legacy \/ install_native_units \/ load_units
             \/ install_cron \/ unload_unit \/ uninstall_cron

SchedNext == \/ \E replace \in BOOLEAN : begin_install(replace)
             \/ begin_uninstall
             \/ SchedStep
             \/ break_off

SchedSpec == SchedInit /\ [][SchedNext]_sched_vars

-----------------------------------------------------------------------------
(* Properties *)

\* The type invariant.
SchedTypeOK ==
    /\ platform \in Platforms /\ xdg \in BOOLEAN
    /\ units \in [Unit -> Writer]
    /\ loaded \subseteq ToSet(ShortNames)
    /\ crontab \in Seq({"start", "end", "job", "user", "python"})
    /\ wrappers \in BOOLEAN
    /\ installer \in [step : {"idle", "write", "remove", "units", "load", "cron", "unload",
                              "uncron"},
                      replace : BOOLEAN, legacy : SUBSET Unit, todo : {installer.todo}]
    /\ installer.step \in {"remove", "units"} => installer.todo \in Seq(Unit)
    /\ installer.step \in {"load", "unload"} => IsSuffix(installer.todo, ShortNames)
    /\ verdict \in {"none", "running", "refused", "installed", "removed", "failed"}
    /\ installs \in 0..MaxInstalls
    /\ ignored \subseteq ToSet(ShortNames) \cup {"crontab"}

\* What the success of install and uninstall is worth, whatever state an
\* earlier command left when it broke off. After an install every unit is the
\* program's own, its wrapper is there and status shows its job active and not
\* as a legacy one, or the table holds the block once. After an uninstall no unit is left, and
\* of the jobs only those still run whose unloading failed: that failure is not
\* reported, and neither is a table that could not be read, in which the block
\* stays.
SuccessIsReal ==
    /\ verdict = "installed" =>
        /\ wrappers
        /\ \A s \in DOMAIN status : /\ status[s].installed
                                    /\ status[s].active = (platform # "cron")
                                    /\ platform # "cron" => ~status[s].legacy
        /\ \A f \in ToSet(native_files(platform)) : units[f] = "own"
        /\ platform = "cron" =>
             /\ IsSuffix(cron_tab, crontab)
             /\ \A i \in 1..(Len(crontab) - 3) : crontab[i] \notin {"start", "end", "job"}
    /\ verdict = "removed" =>
        /\ \A f \in Unit : units[f] = "none"
        /\ \A s \in DOMAIN status :
              /\ status[s].active => s \in ignored
              /\ status[s].installed => platform = "cron" /\ "crontab" \in ignored
        /\ "crontab" \notin ignored =>
             \A i \in DOMAIN crontab : crontab[i] \notin {"start", "end", "job"}

\* Line i of the table lies between the markers.
InBlock(table, i) ==
    \E j \in 1..i : table[j] = "start" /\ \A k \in j..i : table[k] # "end"

OutsideBlock(table) ==
    LET kept == SetToSortSeq({i \in DOMAIN table : /\ table[i] \in {"user", "python"}
                                                  /\ ~InBlock(table, i)}, <)
    IN  [n \in DOMAIN kept |-> table[kept[n]]]

\* remove_cron_block and install_cron keep every line the user wrote outside
\* the markers, however often the jobs are installed and removed, unless
\* `crontab -l' failed: then install_cron replaces the table by its own block.
UserLinesKept ==
    [][OutsideBlock(crontab') = OutsideBlock(crontab) \/ "crontab" \in ignored']_sched_vars

\* A unit of the Python program or of the user is removed or overwritten only
\* by an install that was asked to replace it, or by an uninstall. Where
\* XDG_CONFIG_HOME moves the systemd units the scan does not see them, and an
\* install overwrites them unasked.
ReplacesOnlyWhenAsked ==
    [][\A f \in Unit : ~xdg /\ units[f] \in {"python", "other"} /\ units'[f] # units[f] =>
          installer.replace \/ installer.step = "unload"]_sched_vars

\* Installations and removals, each of which may break off anywhere and meet
\* commands that fail: what a success means, which lines of the user's crontab
\* stay and which units are replaced (install.rs).
SchedulerCorrect == [](SchedTypeOK /\ SuccessIsReal) /\ UserLinesKept /\ ReplacesOnlyWhenAsked

=============================================================================
