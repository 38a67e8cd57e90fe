------------------------------- MODULE Campaign -------------------------------
(***************************************************************************)
(* Planning and executing a removal campaign, and the manual-task queue:   *)
(* crates/symeraseme-core/src/campaign.rs and manualtasks.rs, driven by    *)
(* the CLI and MCP handlers, on top of the event store.                    *)
(*                                                                         *)
(* Every command opens the store, which takes the lock file beside the     *)
(* database, and closes it when done.  plan_campaign and execute_campaign  *)
(* commit several transactions under one lock, so a process that dies, or  *)
(* a transaction that fails, leaves what was committed before.  The        *)
(* broker's mail server and its replies are external.                      *)
(*                                                                         *)
(* One campaign, whose requests are numbered in the order of creation.     *)
(***************************************************************************)
EXTENDS EventStore, FiniteSets, Sequences

CONSTANTS Procs,        \* processes running symeraseme commands
          Sizes,        \* --batch-size values callers pass
          BATCH_LIMIT,  \* 10 in the code
          DefaultBatch, \* 5 in the code
          Channels,     \* subset of {"email", "web_form"}
          Options,      \* how execute_campaign may be called
          Commands,     \* which one-transaction commands users issue
          MayFail,      \* processes may die and transactions may fail
          ExpectedDays, \* expected_response_days of a SENT event
          MaxMails,     \* bound on the mails sent for one request
          MaxTasks      \* bound on the manual tasks

\* --dry-run, whether an email sender is injected, and whether the identity
\* profile could be loaded, is absent (or lacks fields), or is unreadable.
ExecuteOpts == [dry : BOOLEAN, sender : BOOLEAN,
                profile : {"ok", "missing", "broken"}]

ASSUME CampaignAssumption ==
    /\ IsFiniteSet(Requests) /\ Requests = 1..Cardinality(Requests)
    /\ None \notin Procs
    /\ BATCH_LIMIT \in Nat /\ DefaultBatch \in Nat /\ Sizes \subseteq Int
    /\ Channels \subseteq {"email", "web_form"}
    /\ Options \subseteq ExecuteOpts
    /\ Commands \subseteq {"run_web_form", "auto_confirm", "complete"}
    /\ MayFail \in BOOLEAN
    /\ ExpectedDays \in Nat /\ MaxMails \in Nat /\ MaxTasks \in Nat
    /\ 0 \notin Times   \* Utc::now() is never Go's zero time

VARIABLES clock,         \* the wall clock commands read
          campaign,      \* the campaigns row exists
          channel,       \* removal_requests.channel, None before creation
          created_at,    \* removal_requests.created_at
          manual_tasks,  \* the manual_tasks table, in order of id
          mails,         \* mails the sender has accepted per request
          lock,          \* holder of the database lock
          op             \* what each process is doing

campaign_vars == <<clock, campaign, channel, created_at, manual_tasks, mails>>
allvars == <<vars, campaign_vars, lock, op>>

Idle == [kind |-> "idle"]

CampaignInit ==
    /\ Init
    /\ clock \in Times /\ \A t \in Times : clock <= t
    /\ campaign = FALSE
    /\ channel = [r \in Requests |-> None]
    /\ created_at = [r \in Requests |-> 0]
    /\ manual_tasks = <<>>
    /\ mails = [r \in Requests |-> 0]
    /\ lock = None
    /\ op = [p \in Procs |-> Idle]

-----------------------------------------------------------------------------
(***************************************************************************)
(* Opening and closing the store.                                          *)
(***************************************************************************)

\* Faulty variant: the store is opened without waiting for the lock.
open_Unlocked(p, o) ==
    /\ op[p] = Idle
    /\ lock' = p
    /\ op' = [op EXCEPT ![p] = o]

open(p, o) ==
    /\ op[p] = Idle
    /\ lock = None
    /\ lock' = p
    /\ op' = [op EXCEPT ![p] = o]

close(p) ==
    /\ lock' = IF lock = p THEN None ELSE lock
    /\ op' = [op EXCEPT ![p] = Idle]

\* The process dies; the kernel drops its lock.
crash(p) ==
    /\ MayFail
    /\ op[p] # Idle
    /\ close(p)
    /\ UNCHANGED <<vars, campaign_vars>>

-----------------------------------------------------------------------------
(***************************************************************************)
(* plan_campaign: one transaction for the campaign row (an existing id is  *)
(* appended to), then two per selected broker.                             *)
(***************************************************************************)

\* n is the number of selected brokers, bounded by the ids of the model.
plan_begin(p) ==
    /\ \E n \in 0..Cardinality(Requests \ requests) :
         open(p, [kind |-> "plan", now |-> clock, left |-> n, cur |-> None])
    /\ campaign' = TRUE
    /\ UNCHANGED <<vars, clock, channel, created_at, manual_tasks, mails>>

plan_request(p) ==
    /\ op[p].kind = "plan"
    /\ op[p].cur = None
    /\ op[p].left > 0
    /\ LET r == Cardinality(requests) + 1 IN
         /\ create_removal_request(r)
         /\ \E c \in Channels : channel' = [channel EXCEPT ![r] = c]
         /\ created_at' = [created_at EXCEPT ![r] = clock]
         /\ op' = [op EXCEPT ![p].cur = r]
    /\ UNCHANGED <<clock, campaign, manual_tasks, mails, lock>>

\* Faulty variant: the event is appended without its projection.
plan_event_LogOnly(p) ==
    /\ op[p].kind = "plan"
    /\ op[p].cur # None
    /\ append_event(op[p].cur, "PLANNED", None, op[p].now)
    /\ op' = [op EXCEPT ![p].cur = None, ![p].left = @ - 1]
    /\ UNCHANGED <<campaign_vars, lock>>

plan_event(p) ==
    /\ op[p].kind = "plan"
    /\ op[p].cur # None
    /\ append_and_project(op[p].cur, "PLANNED", None, op[p].now)
    /\ op' = [op EXCEPT ![p] = [op[p] EXCEPT !.cur = None, !.left = @ - 1]]
    /\ UNCHANGED <<campaign_vars, lock>>

plan_done(p) ==
    /\ op[p].kind = "plan"
    /\ op[p].cur = None
    /\ op[p].left = 0
    /\ close(p)
    /\ UNCHANGED <<vars, campaign_vars>>

\* A transaction fails and `?' ends the planning.
plan_error(p) ==
    /\ MayFail
    /\ op[p].kind = "plan"
    /\ close(p)
    /\ UNCHANGED <<vars, campaign_vars>>

-----------------------------------------------------------------------------
(***************************************************************************)
(* manualtasks::create in the transaction of its caller: a pending task    *)
(* for the same form and reason is reused and nothing is written; a new    *)
(* task and its HUMAN_ACTION_REQUIRED event commit together.  `why' stands *)
(* for form_url and reason: "form" (dynamic_form at the broker's form),    *)
(* "invalid" (generic_error without URL), "link" (a confirmation link).    *)
(* A task of no request (None) has no log to write its event into.         *)
(***************************************************************************)

Pending(r, why) ==
    \E i \in DOMAIN manual_tasks :
      manual_tasks[i] = [request_id |-> r, why |-> why, status |-> "pending"]

NewTask(r, why) ==
    /\ Len(manual_tasks) < MaxTasks
    /\ manual_tasks' = Append(manual_tasks,
         [request_id |-> r, why |-> why, status |-> "pending"])

TaskEvent(r, t, at) ==
    IF r = None THEN UNCHANGED vars ELSE append_and_project(r, t, None, at)

\* Faulty variant: pending tasks are not looked up.
create_NoReuse(r, why, at) ==
    /\ NewTask(r, why)
    /\ TaskEvent(r, "HUMAN_ACTION_REQUIRED", at)

\* Faulty variant: the event is appended although the task is reused.
create_EventAlways(r, why, at) ==
    /\ IF Pending(r, why) THEN UNCHANGED manual_tasks ELSE NewTask(r, why)
    /\ TaskEvent(r, "HUMAN_ACTION_REQUIRED", at)

create(r, why, at) ==
    \/ /\ Pending(r, why)
       /\ UNCHANGED <<vars, manual_tasks>>
    \/ /\ ~Pending(r, why)
       /\ NewTask(r, why)
       /\ TaskEvent(r, "HUMAN_ACTION_REQUIRED", at)

-----------------------------------------------------------------------------
(***************************************************************************)
(* execute_campaign: a snapshot of the oldest PLANNED requests, then each  *)
(* of them in turn, without looking at its status again.                   *)
(***************************************************************************)

clamp(size) ==
    IF size > BATCH_LIMIT THEN BATCH_LIMIT
    ELSE IF size <= 0 THEN DefaultBatch ELSE size

Planned == {r \in requests : /\ request_state[r] # None
                             /\ request_state[r].current_status = "PLANNED"}

\* list_removal_requests ... ORDER BY created_at LIMIT n; ties in any order.
Batches(n) ==
    {b \in SUBSET Planned :
       /\ Cardinality(b) = IF Cardinality(Planned) < n
                           THEN Cardinality(Planned) ELSE n
       /\ \A r \in b, s \in Planned \ b : created_at[r] <= created_at[s]}

execute_begin(p) ==
    /\ \E size \in Sizes, opts \in Options :
         \E b \in Batches(clamp(size)) :
           open(p, [kind |-> "execute", now |-> clock, opts |-> opts,
                    batch |-> b, cur |-> None])
    /\ UNCHANGED <<vars, campaign_vars>>

Executing(p) == op[p].kind = "execute"

\* r is the next request of the batch and nothing of it has been done.
Turn(p, r) ==
    /\ Executing(p)
    /\ op[p].cur = None
    /\ r \in op[p].batch
    /\ \A s \in op[p].batch : created_at[r] <= created_at[s]

\* The request's last write, or its error, is captured as a result.
advance(p, r) ==
    op' = [op EXCEPT ![p] = [op[p] EXCEPT !.batch = @ \ {r}, !.cur = None]]

\* execute_request returns without writing anything: an email without a
\* usable profile, in a dry run or without a sender; a form with a profile
\* that cannot be read.
skip(p, r) ==
    /\ Turn(p, r)
    /\ IF channel[r] = "email"
       THEN op[p].opts.profile # "ok" \/ op[p].opts.dry \/ ~op[p].opts.sender
       ELSE op[p].opts.profile = "broken"
    /\ advance(p, r)
    /\ UNCHANGED <<vars, campaign_vars, lock>>

Sendable(p, r) ==
    /\ Turn(p, r)
    /\ channel[r] = "email"
    /\ op[p].opts.profile = "ok" /\ ~op[p].opts.dry /\ op[p].opts.sender

\* The sender accepts the mail; the SENT event is still to be written.
send_accepted(p, r) ==
    /\ Sendable(p, r)
    /\ mails[r] < MaxMails
    /\ mails' = [mails EXCEPT ![r] = @ + 1]
    /\ op' = [op EXCEPT ![p].cur = r]
    /\ UNCHANGED <<vars, clock, campaign, channel, created_at, manual_tasks, lock>>

\* The sender reports an error: SEND_FAILED.
send_refused(p, r) ==
    /\ Sendable(p, r)
    /\ append_and_project(r, "SEND_FAILED", None, op[p].now)
    /\ advance(p, r)
    /\ UNCHANGED <<campaign_vars, lock>>

record_sent(p) ==
    /\ Executing(p)
    /\ op[p].cur # None
    /\ channel[op[p].cur] = "email"
    /\ append_and_project(op[p].cur, "SENT", ExpectedDays, op[p].now)
    /\ advance(p, op[p].cur)
    /\ UNCHANGED <<campaign_vars, lock>>

\* A dry run of a form the registry still lists is a success, and recorded.
form_preview(p, r) ==
    /\ Turn(p, r)
    /\ channel[r] = "web_form"
    /\ op[p].opts.profile # "broken" /\ op[p].opts.dry
    /\ append_and_project(r, "SENT", ExpectedDays, op[p].now)
    /\ advance(p, r)
    /\ UNCHANGED <<campaign_vars, lock>>

\* Faulty variant: SEND_FAILED is recorded before the task.
form_task_EventFirst(p, r) ==
    /\ Turn(p, r)
    /\ channel[r] = "web_form"
    /\ op[p].opts.profile # "broken"
    /\ append_and_project(r, "SEND_FAILED", None, op[p].now)
    /\ op' = [op EXCEPT ![p].cur = r]
    /\ UNCHANGED <<campaign_vars, lock>>

\* Any other run of a form fails: task first, SEND_FAILED after it.
form_task(p, r) ==
    /\ Turn(p, r)
    /\ channel[r] = "web_form"
    /\ op[p].opts.profile # "broken"
    /\ \/ create(r, "invalid", op[p].now)
       \/ ~op[p].opts.dry /\ create(r, "form", op[p].now)
    /\ op' = [op EXCEPT ![p].cur = r]
    /\ UNCHANGED <<clock, campaign, channel, created_at, mails, lock>>

record_form_failed(p) ==
    /\ Executing(p)
    /\ op[p].cur # None
    /\ channel[op[p].cur] = "web_form"
    /\ append_and_project(op[p].cur, "SEND_FAILED", None, op[p].now)
    /\ advance(p, op[p].cur)
    /\ UNCHANGED <<campaign_vars, lock>>

\* A transaction fails: the error is captured and the batch goes on.
execute_error(p, r) ==
    /\ MayFail
    /\ Executing(p)
    /\ op[p].cur = r \/ (op[p].cur = None /\ Turn(p, r))
    /\ advance(p, r)
    /\ UNCHANGED <<vars, campaign_vars, lock>>

execute_done(p) ==
    /\ Executing(p)
    /\ op[p].batch = {}
    /\ close(p)
    /\ UNCHANGED <<vars, campaign_vars>>

-----------------------------------------------------------------------------
(***************************************************************************)
(* Commands of one transaction: open, write and close are one step.        *)
(***************************************************************************)

\* run_web_form without dry_run, for a form the registry lists, with or
\* without a request_id.
run_web_form(r) ==
    /\ "run_web_form" \in Commands
    /\ lock = None
    /\ r \in requests \cup {None}
    /\ create(r, "form", clock)
    /\ UNCHANGED <<clock, campaign, channel, created_at, mails, lock, op>>

\* A broker answers what it was sent (external).
HasReply(r) ==
    \/ mails[r] > 0
    \/ \E i \in DOMAIN manual_tasks : /\ manual_tasks[i].request_id = r
                                      /\ manual_tasks[i].status = "completed"

\* auto_confirm without dry_run: a note when the reply holds no trusted
\* link, otherwise a manual task for the first one.
auto_confirm(r) ==
    /\ "auto_confirm" \in Commands
    /\ lock = None
    /\ HasReply(r)
    /\ \/ append_and_project(r, "NOTE_ADDED", None, clock) /\ UNCHANGED manual_tasks
       \/ create(r, "link", clock)
    /\ UNCHANGED <<clock, campaign, channel, created_at, mails, lock, op>>

\* complete: any task, whatever its status, with a note in the log of its
\* request.
complete(i) ==
    /\ "complete" \in Commands
    /\ lock = None
    /\ i \in DOMAIN manual_tasks
    /\ \E s \in {"completed", "cancelled"} :
         manual_tasks' = [manual_tasks EXCEPT ![i].status = s]
    /\ TaskEvent(manual_tasks[i].request_id, "NOTE_ADDED", clock)
    /\ UNCHANGED <<clock, campaign, channel, created_at, mails, lock, op>>

Advance ==
    /\ clock' \in {t \in Times : t > clock}
    /\ UNCHANGED <<vars, campaign, channel, created_at, manual_tasks, mails,
                   lock, op>>

-----------------------------------------------------------------------------

PlanStep(p) == plan_request(p) \/ plan_event(p) \/ plan_done(p)

ExecuteStep(p) ==
    \/ \E r \in Requests : \/ skip(p, r)
                           \/ send_accepted(p, r) \/ send_refused(p, r)
                           \/ form_preview(p, r) \/ form_task(p, r)
    \/ record_sent(p) \/ record_form_failed(p) \/ execute_done(p)

Fault(p) == crash(p) \/ plan_error(p) \/ \E r \in Requests : execute_error(p, r)

CampaignNext ==
    \/ \E p \in Procs : \/ plan_begin(p) \/ PlanStep(p)
                        \/ execute_begin(p) \/ ExecuteStep(p)
                        \/ Fault(p)
    \/ \E r \in Requests \cup {None} : run_web_form(r)
    \/ \E r \in Requests : auto_confirm(r)
    \/ \E i \in 1..MaxTasks : complete(i)
    \/ Advance

CampaignSpec == CampaignInit /\ [][CampaignNext]_allvars

\* The user keeps executing the campaign and commands run to their end.
FairSpec ==
    /\ CampaignSpec
    /\ \A p \in Procs : /\ WF_allvars(PlanStep(p))
                        /\ WF_allvars(ExecuteStep(p))
                        /\ SF_allvars(execute_begin(p))

-----------------------------------------------------------------------------

\* Every table and every command in progress has its type.
CampaignTypeOK ==
    /\ TypeOK
    /\ clock \in Times /\ campaign \in BOOLEAN
    /\ channel \in [Requests -> Channels \cup {None}]
    /\ created_at \in [Requests -> Times \cup {0}]
    /\ manual_tasks \in Seq([request_id : Requests \cup {None},
                             why : {"form", "invalid", "link"},
                             status : {"pending", "completed", "cancelled"}])
    /\ mails \in [Requests -> 0..MaxMails]
    /\ lock \in Procs \cup {None}
    /\ \A p \in Procs :
         \/ op[p] = Idle
         \/ op[p] \in [kind : {"plan"}, now : Times, left : Nat,
                       cur : Requests \cup {None}]
         \/ op[p] \in [kind : {"execute"}, now : Times, opts : Options,
                       batch : SUBSET Requests, cur : Requests \cup {None}]

\* execute_campaign picks its batch once and execute_request never looks at
\* the status again, yet a mail only leaves for a request that is PLANNED at
\* that moment and has no SENT event: neither a second executor nor any
\* other command can make the snapshot stale.
SendsOnlyUnsent ==
    [][\A r \in Requests :
         mails'[r] > mails[r] =>
           /\ r \in Planned
           /\ \A e \in RowsOf(r) : e.event_type # "SENT"]_allvars

\* Every command writes its events together with their projection, so a
\* process that dies anywhere leaves no projection behind its log.
ProjectionNeverBehind ==
    \A r \in requests : RowsOf(r) # {} => Fresh(r)

\* A form whose execution is recorded as failed is in the user's task queue,
\* wherever execute_web_form_request was cut off.
FailedFormHasTask ==
    \A e \in request_events :
      (e.event_type = "SEND_FAILED" /\ channel[e.request_id] = "web_form") =>
        \E i \in DOMAIN manual_tasks : manual_tasks[i].request_id = e.request_id

\* "repeated pending fallbacks reuse one task" (docs/web-form-runtime.md).
OnePendingTask ==
    \A i, j \in DOMAIN manual_tasks :
      (manual_tasks[i] = manual_tasks[j] /\ manual_tasks[i].status = "pending")
        => i = j

\* "Manual-task rows and their HUMAN_ACTION_REQUIRED events commit
\* atomically" (docs/web-form-runtime.md): one event per task of a request.
OneEventPerTask ==
    \A r \in Requests :
      Cardinality({e \in RowsOf(r) : e.event_type = "HUMAN_ACTION_REQUIRED"})
        = Cardinality({i \in DOMAIN manual_tasks :
                         manual_tasks[i].request_id = r})

\* The task table stays well formed and in step with the log, whatever two
\* processes run and wherever one is cut off: every table and command has its
\* type, a fallback that repeats reuses its pending task, and every task of a
\* request has the event it was stored with.
TasksInv == CampaignTypeOK /\ OnePendingTask /\ OneEventPerTask

\* "web forms become manual tasks" (skills/SKILL.md on plan execute): as long
\* as the campaign is executed again and again, every planned web-form
\* request reaches the user's task queue.
WebFormReachesUser ==
    \A r \in Requests :
      (r \in Planned /\ channel[r] = "web_form") ~>
        (\E i \in DOMAIN manual_tasks : manual_tasks[i].request_id = r)

\* "This simulates sending without actually dispatching emails or submitting
\* forms" (skills/send-removal-batch.md on --dry-run): a dry run of
\* execute_campaign records nothing as sent.
DryRunSendsNothing ==
    [][\A p \in Procs :
         Executing(p) /\ op[p].opts.dry /\ op'[p] # op[p] =>
           \A e \in request_events' \ request_events : e.event_type # "SENT"]_allvars

=============================================================================
