------------------------------ MODULE Commands ------------------------------
(***************************************************************************)
(* The commands of the command line (crates/symeraseme-cli/src/cli.rs) and *)
(* the tools of the MCP server (mcp/handler.rs) as programs over a shared  *)
(* encrypted database: the order in which each of them checks arguments,   *)
(* loads what it needs, opens the store, asks for consent, writes, checks  *)
(* the output format and closes, and how a failure of any stage leaves.    *)
(*                                                                         *)
(* Stages: args, load (profile, registry, configuration, model access),    *)
(* open, query, consent, write, task (a write whose failure is part of the *)
(* answer), empty (the answer may be negative), note (negative, after a    *)
(* write), grant, side (files, units, profile), close, format, report (a   *)
(* negative answer is exit 1).  The instants events are stamped with are   *)
(* not part of this model.                                                 *)
(***************************************************************************)
EXTENDS Absent, Naturals, Sequences, FiniteSets

CONSTANTS CommandProcs, \* processes
          ServerProcs,  \* those that are MCP servers
          MaxCommands,  \* bound: commands and tool calls
          Later         \* bound: what is called after the first one

ASSUME CommandsAssumption ==
    /\ ServerProcs \subseteq CommandProcs /\ MaxCommands \in Nat
    /\ None \notin CommandProcs /\ None \notin {0, 1}

VARIABLES holder,    \* who holds the lock of the database
          db,        \* published events
          tokens,    \* consent tokens that can be used
          spent,     \* calls that consumed one
          outside,   \* calls that changed something outside the database
          serving,   \* the servers that have been started
          retained,  \* processes with a store whose close failed
          calls,     \* number of calls so far
          call       \* what each process runs

command_vars == <<holder, db, tokens, spent, outside, serving, retained, calls, call>>

-----------------------------------------------------------------------------
(* Tools *)

with_open_store(body) == <<"open">> \o body \o <<"close">>

manual_tasks_list == with_open_store(<<"query">>)
manual_tasks_show == with_open_store(<<"query">>)
manual_tasks_complete == with_open_store(<<"write">>)
manual_tasks_cleanup(dry) == <<"load">> \o IF dry THEN <<>> ELSE <<"side">>
grant(dry) == IF dry THEN <<>> ELSE <<"load", "grant">>
generate_scheduler(dry) == <<"args", "load">> \o IF dry THEN <<>> ELSE <<"side">>
generate_dashboard == with_open_store(<<"query", "load", "side">>)
generate_report == with_open_store(<<"query", "load", "side">>)
plan_create_tool == with_open_store(<<"load", "load", "write">>)

\* Faulty variant: consent is asked for when the work is done.
execute_campaign_Late(dry) ==
    with_open_store(<<"load", "write">> \o IF dry THEN <<>> ELSE <<"consent">>)

\* A dry run asks for no consent, and yet it writes: the preview of a web form
\* is recorded as SENT, one the registry does not list as a task and SEND_FAILED
\* (form_preview and form_task of Campaign).
execute_campaign(dry) ==
    with_open_store(IF dry THEN <<"load", "write">> ELSE <<"consent", "load", "write">>)

classify_reply == with_open_store(<<"load", "query", "write">>)
generate_rebuttal == with_open_store(<<"load", "query", "write">>)
list_brokers == <<"load">>
schedule_install_tool(dry) == IF dry THEN <<"load">> ELSE <<"side">>
schedule_uninstall_tool == <<"side">>
schedule_status_tool == <<"load">>

\* Faulty variant: a dry run that finds no link leaves a note.
auto_confirm_Notes(dry) ==
    with_open_store(<<"query", "empty", "note">> \o IF dry THEN <<>> ELSE <<"query", "write">>)

auto_confirm(dry) ==
    with_open_store(IF dry THEN <<"query", "empty", "empty">>
                    ELSE <<"query", "empty", "note", "query", "write">>)

run_web_form(dry) ==
    <<"load">> \o IF dry THEN <<"empty", "empty">>
                  ELSE with_open_store(<<"empty", "empty", "task">>)

plan_show_tool == with_open_store(<<"query">>)
dashboard_data == with_open_store(<<"query">>)
calendar == with_open_store(<<"query">>)
list_requests == with_open_store(<<"args", "query">>)
get_events == with_open_store(<<"query">>)
poll_inbox == <<"load", "load">> \o with_open_store(<<"query", "load">>)
redact_file == <<"load">>
validate == <<"load">>

\* call_go_map: what the server runs for each tool; every other name is refused.
call_go_map(dry) ==
    [redact_file |-> redact_file, validate |-> validate, manual_tasks_list |-> manual_tasks_list,
     manual_tasks_show |-> manual_tasks_show,
     manual_tasks_complete |-> manual_tasks_complete,
     manual_tasks_cleanup |-> manual_tasks_cleanup(dry), grant |-> grant(dry),
     generate_scheduler |-> generate_scheduler(dry),
     generate_dashboard |-> generate_dashboard, generate_report |-> generate_report,
     plan_create |-> plan_create_tool, execute |-> execute_campaign(dry),
     plan_show |-> plan_show_tool, list_requests |-> list_requests,
     get_dashboard_data |-> dashboard_data, get_calendar |-> calendar,
     get_events |-> get_events, list_brokers |-> list_brokers,
     schedule_install |-> schedule_install_tool(dry),
     schedule_uninstall |-> schedule_uninstall_tool,
     schedule_status |-> schedule_status_tool, poll_inbox |-> poll_inbox,
     run_web_form |-> run_web_form(dry), auto_confirm |-> auto_confirm(dry),
     classify_reply |-> classify_reply, generate_rebuttal |-> generate_rebuttal,
     unknown |-> <<"args">>]

-----------------------------------------------------------------------------
(* Commands *)

\* The tool runs, its store is closed, and only then the format is checked.
contract_handler == <<"load">>

contract_command(tool) == contract_handler \o tool \o <<"format">>
web_action_command(tool) == contract_command(tool) \o <<"report">>

with_store_outcome(body) == <<"open">> \o body \o <<"format", "close">>

plan_create == <<"args", "load", "load">> \o with_store_outcome(<<"write">>)
plan_show == with_store_outcome(<<"query">>)
plan_execute(dry) ==
    <<"args">> \o with_store_outcome(
        IF dry THEN <<"load", "write">> ELSE <<"consent", "load", "write">>)
campaign_status == with_store_outcome(<<"query">>)
plan_tick == with_store_outcome(<<"query">>)
classify_reply_command == <<"args">> \o with_store_outcome(<<"load", "query", "write">>)
generate_rebuttal_command == <<"args">> \o with_store_outcome(<<"load", "query", "write">>)
schedule_install(dry) == IF dry THEN <<"args", "load", "format">> ELSE <<"side", "format">>
schedule_uninstall == <<"side", "format">>
schedule_status == <<"load", "format">>
poll_inbox_command == <<"args">> \o contract_command(poll_inbox)
review_command == <<"args">> \o contract_command(redact_file)
generate_dashboard_command == contract_command(generate_dashboard)
generate_report_command == contract_command(generate_report)
generate_scheduler_command(dry) == contract_command(generate_scheduler(dry))
run_web_form_command(dry) == web_action_command(run_web_form(dry))
auto_confirm_command(dry) == <<"args">> \o web_action_command(auto_confirm(dry))
migrate_command(dry) == <<"args">> \o IF dry THEN <<"load">> ELSE <<"side">>
config_show == <<"load">>
brokers_list == <<"load", "format">>
brokers_show == <<"args", "load", "args", "format">>
registry_list == <<"load", "format">>
registry_validate == <<"load", "format">>
render_template == <<"args", "load", "args">>
init_profile_command == <<"args", "side", "format">>
show_profile_command == <<"load", "format">>

dispatch(dry) ==
    [version |-> <<>>, completion |-> <<"args">>, config_show |-> config_show,
     brokers_list |-> brokers_list, brokers_show |-> brokers_show,
     registry_list |-> registry_list, registry_validate |-> registry_validate,
     render_template |-> render_template, init_profile |-> init_profile_command,
     show_profile |-> show_profile_command, status |-> campaign_status,
     plan_create |-> plan_create, plan_show |-> plan_show,
     execute |-> plan_execute(dry), plan_status |-> campaign_status,
     tick |-> plan_tick, dashboard |-> contract_command(dashboard_data),
     calendar |-> contract_command(calendar),
     requests_list |-> contract_command(list_requests),
     manual_tasks_list |-> contract_command(manual_tasks_list),
     manual_tasks_show |-> <<"args">> \o contract_command(manual_tasks_show),
     manual_tasks_complete |-> <<"args">> \o contract_command(manual_tasks_complete),
     manual_tasks_cleanup |-> contract_command(manual_tasks_cleanup(dry)),
     events_show |-> <<"args">> \o contract_command(get_events),
     grant |-> contract_command(grant(dry)), poll_inbox |-> poll_inbox_command,
     classify_reply |-> classify_reply_command,
     generate_rebuttal |-> generate_rebuttal_command,
     generate_dashboard |-> generate_dashboard_command,
     generate_report |-> generate_report_command,
     generate_scheduler |-> generate_scheduler_command(dry),
     schedule_install |-> schedule_install(dry),
     schedule_uninstall |-> schedule_uninstall, schedule_status |-> schedule_status,
     review |-> review_command, run_web_form |-> run_web_form_command(dry),
     auto_confirm |-> auto_confirm_command(dry), migrate |-> migrate_command(dry),
     deferred |-> <<"args">>]

-----------------------------------------------------------------------------
(* Running a program.  A call is a record: its number and program, the     *)
(* next stage, whether it executes a campaign, is dry, its answer so far   *)
(* (ok, negative, error), whether the store is open, the events it wrote   *)
(* into its private copy, and its exit status: 0, 1, or None while it      *)
(* runs.                                                                   *)

\* The commands and tools with a --dry-run flag or a dry_run argument.
HasDryRun == {"manual_tasks_cleanup", "grant", "generate_scheduler", "execute", "tick",
              "schedule_install", "run_web_form", "auto_confirm", "migrate"}

Idle == [n |-> 0, executes |-> FALSE, prog |-> <<>>, pc |-> 1, dry |-> FALSE,
         answer |-> "ok", open |-> FALSE, wrote |-> {}, exit |-> None]

CommandsInit ==
    /\ holder = None
    /\ db = {} /\ tokens = 1 /\ spent = {} /\ outside = {}
    /\ serving = {} /\ retained = {}
    /\ calls = 0
    /\ call = [p \in CommandProcs |-> Idle]

Running(p) == call[p].n # 0 /\ call[p].exit = None
Stage(p) == call[p].prog[call[p].pc]
At(p, stage) == Running(p) /\ call[p].pc <= Len(call[p].prog) /\ Stage(p) = stage

\* Where the call goes on after an error or a negative answer: closing the store
\* it opened; then an error is at its end, an answer is still printed.
Resume(p, answer) ==
    LET c == call[p]
        later == {k \in (c.pc + 1)..Len(c.prog) :
                    c.prog[k] \in (IF c.open THEN {"close"}
                                   ELSE IF answer = "error" THEN {} ELSE {"format"})}
    IN  IF later = {} THEN Len(c.prog) + 1
        ELSE CHOOSE k \in later : \A j \in later : k <= j

Step(p, answer, rest) ==
    [rest EXCEPT !.answer = IF call[p].answer = "error" THEN "error"
                            ELSE IF answer = "ok" THEN @ ELSE answer,
                 !.pc = IF answer = "ok" THEN @ + 1 ELSE Resume(p, answer)]
Continue(p, answer) == call' = [call EXCEPT ![p] = Step(p, answer, @)]

\* A process takes a command line, or its server a tool call.
start(p) ==
    /\ ~Running(p)
    /\ calls < MaxCommands
    /\ p \in ServerProcs => p \in serving
    /\ \E dry \in BOOLEAN :
          LET programs == IF p \in ServerProcs THEN call_go_map(dry) ELSE dispatch(dry)
          IN  \E name \in DOMAIN programs :
                /\ calls > 0 => name \in Later
                /\ dry => name \in HasDryRun
                /\ call' = [call EXCEPT ![p] =
                    [Idle EXCEPT !.n = calls + 1, !.executes = (name = "execute"),
                                 !.prog = programs[name], !.dry = dry]]
    /\ calls' = calls + 1
    /\ UNCHANGED <<holder, db, tokens, spent, outside, serving, retained>>

\* serve_stdio and serve_http build the handler once, for as long as they serve.
begin_serving(p) ==
    /\ p \in ServerProcs \ serving
    /\ serving' = serving \cup {p}
    /\ UNCHANGED <<holder, db, tokens, spent, outside, retained, calls, call>>

\* Checks, loads and reads that may fail, and the output format.
check(p) ==
    /\ At(p, "args") \/ At(p, "load") \/ At(p, "query")
    /\ Continue(p, "ok") \/ Continue(p, "error")
    /\ UNCHANGED <<holder, db, tokens, spent, outside, serving, retained, calls>>

empty(p) ==
    /\ At(p, "empty")
    /\ Continue(p, "ok") \/ Continue(p, "negative")
    /\ UNCHANGED <<holder, db, tokens, spent, outside, serving, retained, calls>>

output_format(p) ==
    /\ At(p, "format")
    /\ Continue(p, "ok") \/ Continue(p, "error")
    /\ UNCHANGED <<holder, db, tokens, spent, outside, serving, retained, calls>>

\* The lock of the database is tried once; the copy is what is published now.
open_store(p) ==
    /\ At(p, "open")
    /\ \/ /\ holder = None
          /\ holder' = p
          /\ call' = [call EXCEPT ![p] = [Step(p, "ok", @) EXCEPT !.open = TRUE]]
       \/ Continue(p, "error") /\ UNCHANGED holder
    /\ UNCHANGED <<db, tokens, spent, outside, serving, retained, calls>>

consent_gate(p) ==
    /\ At(p, "consent")
    /\ \/ /\ tokens > 0
          /\ tokens' = tokens - 1
          /\ spent' = spent \cup {call[p].n}
          /\ Continue(p, "ok")
       \/ Continue(p, "error") /\ UNCHANGED <<tokens, spent>>
    /\ UNCHANGED <<holder, db, outside, serving, retained, calls>>

Event(p) == [n |-> call[p].n, executes |-> call[p].executes, dry |-> call[p].dry]

\* A write may find nothing to do; a failing one may have written before.
write(p) ==
    /\ \E stage \in {"write", "task", "note"} :
          /\ At(p, stage)
          /\ \E new \in {{}, {Event(p)}},
                answer \in CASE stage = "task" -> {"ok", "negative"}
                             [] stage = "note" -> {"ok", "negative", "error"}
                             [] OTHER -> {"ok", "error"} :
                /\ (stage = "note") => (answer = "negative") = (new # {})
                /\ call' = [call EXCEPT ![p] =
                               Step(p, answer, [call[p] EXCEPT !.wrote = call[p].wrote \cup new])]
    /\ UNCHANGED <<holder, db, tokens, spent, outside, serving, retained, calls>>

ConsentStore_grant(p) ==
    /\ At(p, "grant")
    /\ \/ Continue(p, "ok") /\ tokens' \in {tokens + 1, tokens, 0}
       \/ Continue(p, "error") /\ UNCHANGED tokens
    /\ UNCHANGED <<holder, db, spent, outside, serving, retained, calls>>

side(p) ==
    /\ At(p, "side")
    /\ Continue(p, "ok") \/ Continue(p, "error")
    /\ outside' \in {outside, outside \cup {[n |-> call[p].n, dry |-> call[p].dry]}}
    /\ UNCHANGED <<holder, db, tokens, spent, serving, retained, calls>>

\* The store is gone: an error is now at its end.
AfterClose(p, answer) ==
    LET c == [Step(p, answer, call[p]) EXCEPT !.open = FALSE]
    IN  [c EXCEPT !.pc = IF c.answer = "error" THEN Len(c.prog) + 1 ELSE @]

\* Faulty variant: an error leaves before the store is closed.
with_store_Early(p) ==
    /\ At(p, "close")
    /\ call' = [call EXCEPT ![p] = AfterClose(p, "ok")]
    /\ IF call[p].answer = "error" /\ p \in ServerProcs THEN UNCHANGED <<holder, db>>
       ELSE holder' = None /\ db' = db \cup call[p].wrote
    /\ UNCHANGED retained

\* with_store closes whatever the answer was; a failed close is an error, and
\* the lock stays with the process.
with_store(p) ==
    /\ At(p, "close")
    /\ \/ /\ holder' = None
          /\ db' = db \cup call[p].wrote
          /\ call' = [call EXCEPT ![p] = AfterClose(p, "ok")]
          /\ UNCHANGED retained
       \/ /\ UNCHANGED <<holder, db>>
          /\ retained' = retained \cup {p}
          /\ call' = [call EXCEPT ![p] = AfterClose(p, "error")]

close_store(p) ==
    /\ with_store(p)
    /\ UNCHANGED <<tokens, spent, outside, serving, calls>>

\* web_action_error_message: a live web action is never finished by the program.
web_action(p) ==
    /\ At(p, "report")
    /\ Continue(p, IF call[p].dry /\ call[p].answer = "ok" THEN "ok" ELSE "error")
    /\ UNCHANGED <<holder, db, tokens, spent, outside, serving, retained, calls>>

\* Faulty variant: the answer decides, the close does not.
exit_status_Printed(p) == IF call[p].answer = "error" /\ call[p].wrote = {} THEN 1 ELSE 0

exit_status(p) == IF call[p].answer = "error" THEN 1 ELSE 0

\* The process of a command ends and its lock with it; a server goes on.
main(p) ==
    /\ Running(p)
    /\ call[p].pc > Len(call[p].prog)
    /\ call' = [call EXCEPT ![p] = [Idle EXCEPT !.n = call[p].n, !.dry = call[p].dry,
                                     !.wrote = call[p].wrote, !.exit = exit_status(p)]]
    /\ holder' = IF holder = p /\ p \notin ServerProcs THEN None ELSE holder
    /\ retained' = IF p \in ServerProcs THEN retained ELSE retained \ {p}
    /\ UNCHANGED <<db, tokens, spent, outside, serving, calls>>

\* The server process is ended; its calls and its lock go with it.
stop(p) ==
    /\ p \in serving
    /\ serving' = serving \ {p}
    /\ retained' = retained \ {p}
    /\ holder' = IF holder = p THEN None ELSE holder
    /\ call' = [call EXCEPT ![p] = Idle]
    /\ UNCHANGED <<db, tokens, spent, outside, calls>>

Work(p) ==
    \/ check(p) \/ empty(p) \/ output_format(p) \/ open_store(p)
    \/ consent_gate(p) \/ write(p) \/ ConsentStore_grant(p) \/ side(p) \/ close_store(p)
    \/ web_action(p) \/ main(p)

CommandsNext ==
    \E p \in CommandProcs : start(p) \/ begin_serving(p) \/ stop(p) \/ Work(p)

CommandsSpec == CommandsInit /\ [][CommandsNext]_command_vars

-----------------------------------------------------------------------------
Events == db \cup UNION {call[p].wrote : p \in CommandProcs}

\* The type invariant.
CommandsTypeOK ==
    /\ calls \in 0..MaxCommands
    /\ holder \in CommandProcs \cup {None}
    /\ spent \subseteq 1..calls
    /\ serving \subseteq ServerProcs /\ retained \subseteq CommandProcs
    /\ \A p \in CommandProcs : /\ call[p].answer \in {"ok", "negative", "error"}
                        /\ call[p].exit \in {0, 1, None}
                        /\ call[p].pc \in 1..(Len(call[p].prog) + 1)

\* Success is only reported for what is published: a call that ended with exit
\* status 0 has all its events in the database, although the store is closed
\* after the answer has been put together.
SuccessIsDurable ==
    \A p \in CommandProcs : call[p].exit = 0 => call[p].wrote \subseteq db

\* A dry run, of a command or of a tool, leaves neither event, nor file, nor
\* unit, and consumes no consent, whatever fails on its way.  The exception is
\* execute, whose dry run records events.
DryRunsChangeNothing ==
    /\ \A e \in Events : e.dry => e.executes
    /\ \A o \in outside : ~o.dry
    /\ \A p \in CommandProcs : call[p].dry => call[p].n \notin spent

\* Every event of a live execution belongs to a call that consumed a token of
\* its own, from the command line and from the server alike.
ExecutionHasConsent == \A e \in Events : e.executes /\ ~e.dry => e.n \in spent

\* Nobody is locked out by a call that is over: the lock is held by a running
\* call, or by a server that keeps a store whose close failed, for as long as
\* it lives (nothing calls finalise_all before it ends).
LockFollowsCall ==
    /\ \A p \in CommandProcs : call[p].open => Running(p) /\ holder = p
    /\ holder # None =>
         \/ Running(holder)
         \/ holder \in serving \cap retained

\* Commands and tool calls that share the database, any of whose stages may
\* fail (dispatch, call_go_map, with_store): success is durable, a dry run of
\* anything but execute leaves no trace, a live execution has spent its consent,
\* and the lock goes with the call.
CommandsSafe ==
    /\ CommandsTypeOK /\ SuccessIsDurable /\ DryRunsChangeNothing
    /\ ExecutionHasConsent /\ LockFollowsCall

=============================================================================
