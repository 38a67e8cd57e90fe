---------------------------- MODULE CampaignProofs ----------------------------
(***************************************************************************)
(* Campaigns, for any number of processes, requests, tasks and mails.      *)
(*                                                                         *)
(* The argument has three parts.  The lock of the database leaves one      *)
(* command active at a time, so its batch and the request it is working on *)
(* stay as it found them.  Commands read the clock once, so every row they *)
(* append sorts after the whole log, and the replay of the longer log is   *)
(* one apply_event on top of the stored projection.  PLANNED is the first  *)
(* row of its request, so a request that is PLANNED again was never sent.  *)
(***************************************************************************)
EXTENDS Campaign, EventStoreProofs, FiniteSetTheorems

PlanOp == [kind : {"plan"}, now : Times, left : Nat, cur : Requests \cup {None}]
ExecuteOp == [kind : {"execute"}, now : Times, opts : Options,
              batch : SUBSET Requests, cur : Requests \cup {None}]
Ops == {Idle} \cup PlanOp \cup ExecuteOp

Task == [request_id : Requests \cup {None}, why : {"form", "invalid", "link"},
         status : {"pending", "completed", "cancelled"}]

HasTask(r) == \E i \in DOMAIN manual_tasks : manual_tasks[i].request_id = r

HumanRows(r) == {e \in RowsOf(r) : e.event_type = "HUMAN_ACTION_REQUIRED"}
TasksOf(r) == {i \in DOMAIN manual_tasks : manual_tasks[i].request_id = r}

\* The task queue.
TaskInv == /\ manual_tasks \in Seq(Task)
           /\ FailedFormHasTask /\ OnePendingTask /\ OneEventPerTask

\* A request that is PLANNED has not been sent.
PlannedUnsent ==
    \A r \in Requests :
      request_state[r] # None /\ request_state[r].current_status = "PLANNED"
        => \A e \in RowsOf(r) : e.event_type # "SENT"

\* The columns that commands write directly.
Columns == /\ campaign \in BOOLEAN
           /\ channel \in [Requests -> Channels \cup {None}]
           /\ created_at \in [Requests -> Times \cup {0}]
           /\ mails \in [Requests -> 0..MaxMails]

\* The tables, between two commands.
StoreInv ==
    /\ IInv /\ ~rebuilding
    /\ IsFiniteSet(request_events)
    /\ \A e \in request_events : e.request_id \in requests
    /\ ProjectionNeverBehind
    /\ PlannedUnsent

\* Whoever runs a command holds the lock, and no row is later than the
\* instant the command began or the clock.
Past ==
    /\ \A e \in request_events : e.occurred_at <= clock
    /\ \A p \in Procs : op[p] # Idle =>
         /\ lock = p /\ op[p].now <= clock
         /\ \A e \in request_events : e.occurred_at <= op[p].now

\* What a command relies on between two of its transactions: the request
\* it planned has no row yet; what is left of its batch is PLANNED; the form
\* it is about to record as failed has its task.
InOrder(o) ==
    /\ o.kind = "plan" /\ o.cur # None =>
         o.left > 0 /\ o.cur \in requests /\ RowsOf(o.cur) = {}
    /\ o.kind = "execute" =>
         /\ \A r \in o.batch : r \in requests /\ (r # o.cur => r \in Planned)
         /\ o.cur # None => o.cur \in o.batch
         /\ o.cur # None /\ channel[o.cur] = "web_form" => HasTask(o.cur)

CInv ==
    /\ CampaignTypeOK /\ op \in [Procs -> Ops]
    /\ StoreInv
    /\ Past
    /\ \A p \in Procs : InOrder(op[p])
    /\ TaskInv

-----------------------------------------------------------------------------
(***************************************************************************)
(* The store.                                                              *)
(***************************************************************************)

\* The status a replayed row leaves: its own, or the one before.
LEMMA StatusAfter ==
  ASSUME NEW E \in SUBSET EventRecord(Requests), NEW e \in EventRecord(Requests),
         \A f \in E : Before(f, e), Replayable(e)
  PROVE  RowOf(fold_events(E \cup {e})).current_status =
           IF e.event_type \in Statusless
           THEN RowOf(fold_events(E)).current_status ELSE status_for(e.event_type)
<1> DEFINE s == fold_events(E)
<1>1. fold_events(E \cup {e}) = apply_event(s, e)
  BY FoldOneMore
<1>2. apply_event(s, e).current_status =
        IF e.event_type \in Statusless THEN s.current_status ELSE status_for(e.event_type)
  BY DEF apply_event, fold_events
<1>3. /\ RowOf(s).current_status = s.current_status
      /\ RowOf(apply_event(s, e)).current_status = apply_event(s, e).current_status
  BY DEF RowOf, apply_event, fold_events
<1> QED BY <1>1, <1>2, <1>3

\* One transaction of a command: its row is the last of the log, and PLANNED
\* the first of its request.
Appends(r, t, at) ==
    /\ \E n \in Int \cup {None} : append_and_project(r, t, n, at)
    /\ t \in EventType /\ at \in Times
    /\ \A f \in request_events : f.occurred_at <= at
    /\ t = "PLANNED" => RowsOf(r) = {}

\* What such a transaction changes, and what it leaves alone.
LEMMA AppendEffect ==
  ASSUME StoreInv, NEW r \in Requests, NEW t, NEW at, Appends(r, t, at)
  PROVE  /\ IInv' /\ Fresh(r)' /\ ~rebuilding' /\ requests' = requests
         /\ \E e \in EventRecord(Requests) :
              /\ e \notin request_events /\ Replayable(e)
              /\ e.request_id = r /\ e.event_type = t /\ e.occurred_at = at
              /\ \A f \in request_events : Before(f, e)
              /\ request_events' = request_events \cup {e}
              /\ RowsOf(r)' = RowsOf(r) \cup {e}
         /\ r \in requests
         /\ \A q \in Requests \ {r} : /\ RowsOf(q)' = RowsOf(q)
                                      /\ request_state'[q] = request_state[q]
<1>1. PICK n \in Int \cup {None} : append_and_project(r, t, n, at)
  BY DEF Appends
<1>2. at \in Nat /\ at # 0 /\ t \in EventType
  BY StoreAssumption, CampaignAssumption DEF Appends
<1> DEFINE e == NewRow(r, t, n, at, TRUE)
<1>3. /\ IInv' /\ Fresh(r)' /\ e \in EventRecord(Requests)
      /\ RowsOf(r)' = RowsOf(r) \cup {e}
      /\ \A q \in Requests \ {r} : /\ RowsOf(q)' = RowsOf(q)
                                   /\ request_state'[q] = request_state[q]
  BY <1>1, <1>2, AppendAndProject DEF StoreInv
<1>4. /\ ~rebuilding' /\ requests' = requests /\ r \in requests
      /\ request_events' = request_events \cup {e}
  BY <1>1 DEF append_and_project, append_event_tx
<1>5. /\ e.id = next_event_id /\ e.request_id = r /\ e.event_type = t
      /\ e.occurred_at = at /\ e.decodes = TRUE
  BY DEF NewRow
<1>6. Replayable(e)
  BY <1>2, <1>5 DEF Replayable, EventType
<1> HIDE DEF e
<1>7. \A f \in request_events : Before(f, e)
  <2> SUFFICES ASSUME NEW f \in request_events PROVE Before(f, e)
    OBVIOUS
  <2>1. /\ f.id < next_event_id /\ f.occurred_at <= at
        /\ f.id \in Nat /\ f.occurred_at \in Nat /\ next_event_id \in Nat
    BY DEF StoreInv, IInv, IdsBelow, TypeOK, EventRecord, Appends
  <2> QED BY <1>2, <1>5, <2>1 DEF Before
<1>8. e \notin request_events
  BY <1>3, <1>5, <1>7 DEF Before, EventRecord
<1> QED BY <1>3, <1>4, <1>5, <1>6, <1>7, <1>8

\* A transaction of a command keeps the store in order.
LEMMA AppendKeepsStore ==
  ASSUME StoreInv, NEW r \in Requests, NEW t, NEW at, Appends(r, t, at)
  PROVE  StoreInv'
<1>1. PICK e \in EventRecord(Requests) :
              /\ e \notin request_events /\ Replayable(e)
              /\ e.request_id = r /\ e.event_type = t /\ e.occurred_at = at
              /\ \A f \in request_events : Before(f, e)
              /\ request_events' = request_events \cup {e}
              /\ RowsOf(r)' = RowsOf(r) \cup {e}
  BY AppendEffect
<1>2. /\ IInv' /\ Fresh(r)' /\ ~rebuilding' /\ requests' = requests /\ r \in requests
      /\ \A q \in Requests \ {r} : /\ RowsOf(q)' = RowsOf(q)
                                   /\ request_state'[q] = request_state[q]
  BY AppendEffect
<1>3. IsFiniteSet(request_events')
  BY <1>1, FS_AddElement DEF StoreInv
<1>4. \A f \in request_events' : f.request_id \in requests'
  BY <1>1, <1>2 DEF StoreInv
<1>5. ProjectionNeverBehind'
  <2> SUFFICES ASSUME NEW q \in requests', RowsOf(q)' # {} PROVE Fresh(q)'
    BY DEF ProjectionNeverBehind
  <2>1. q \in requests /\ q \in Requests
    BY <1>2 DEF StoreInv, IInv, TypeOK
  <2>2. CASE q # r
    BY <1>2, <2>1, <2>2 DEF StoreInv, ProjectionNeverBehind, Fresh
  <2> QED BY <1>2, <2>2
<1>6. PlannedUnsent'
  <2> SUFFICES ASSUME NEW q \in Requests, request_state'[q] # None,
                      request_state'[q].current_status = "PLANNED",
                      NEW f \in RowsOf(q)'
               PROVE  f.event_type # "SENT"
    BY DEF PlannedUnsent
  <2>1. CASE q # r
    BY <1>2, <2>1 DEF StoreInv, PlannedUnsent
  <2>2. CASE q = r
    <3>1. RowsOf(r) \in SUBSET EventRecord(Requests) /\ \A g \in RowsOf(r) : Before(g, e)
      BY <1>1 DEF RowsOf, StoreInv, IInv, TypeOK
    <3>2. request_state'[r] = RowOf(fold_events(RowsOf(r) \cup {e}))
      BY <1>1, <1>2 DEF Fresh
    <3>3. request_state'[r].current_status =
            IF t \in Statusless THEN RowOf(fold_events(RowsOf(r))).current_status
            ELSE status_for(t)
      BY <1>1, <3>1, <3>2, StatusAfter
    <3>4. CASE RowsOf(r) = {}
      <4>1. f = e
        BY <1>1, <2>2, <3>4
      <4>2. t # "SENT"
        BY <2>2, <3>3 DEF Statusless, UnknownType, status_for
      <4> QED BY <1>1, <4>1, <4>2
    <3>5. CASE RowsOf(r) # {}
      <4>1. t # "PLANNED" /\ t \in EventType
        BY <3>5 DEF Appends
      <4>2. t \in Statusless
        BY <2>2, <3>3, <4>1 DEF EventType, Statusless, UnknownType, status_for
      <4>3. request_state[r] = RowOf(fold_events(RowsOf(r)))
        BY <1>2, <3>5 DEF StoreInv, ProjectionNeverBehind, Fresh
      <4>4. request_state[r].current_status = "PLANNED" /\ request_state[r] # None
        <5>1. request_state[r] # None
          BY <4>3, RowType DEF StoreInv, IInv, TypeOK, RowsOf
        <5> QED BY <2>2, <3>3, <4>2, <4>3, <5>1
      <4>5. t # "SENT"
        BY <4>2 DEF Statusless, UnknownType
      <4> QED BY <1>1, <2>2, <4>4, <4>5 DEF StoreInv, PlannedUnsent
    <3> QED BY <3>4, <3>5
  <2> QED BY <2>1, <2>2
<1> QED BY <1>2, <1>3, <1>4, <1>5, <1>6 DEF StoreInv

\* A step that writes nothing keeps the store in order.
LEMMA SameStore ==
  ASSUME StoreInv, UNCHANGED vars
  PROVE  /\ StoreInv' /\ Planned' = Planned
         /\ \A r \in Requests : RowsOf(r)' = RowsOf(r)
<1>1. IInv'
  BY Preserved DEF StoreInv
<1> QED BY <1>1 DEF vars, StoreInv, ProjectionNeverBehind, PlannedUnsent, Fresh, RowsOf,
           Planned

\* A new request has no rows.
LEMMA NewRequest ==
  ASSUME StoreInv, NEW r \in Requests, create_removal_request(r)
  PROVE  /\ StoreInv' /\ r \notin requests /\ r \in requests'
         /\ RowsOf(r) = {}
         /\ \A q \in Requests : /\ RowsOf(q)' = RowsOf(q)
                                /\ request_state'[q] = request_state[q]
<1>1. IInv'
  BY Preserved DEF StoreInv, Next
<1>2. RowsOf(r) = {} /\ \A q \in Requests : RowsOf(q)' = RowsOf(q)
  BY DEF StoreInv, RowsOf, create_removal_request
<1>3. ProjectionNeverBehind' /\ PlannedUnsent'
  BY <1>2 DEF StoreInv, ProjectionNeverBehind, PlannedUnsent, Fresh,
              create_removal_request, IInv, TypeOK
<1> QED BY <1>1, <1>2, <1>3 DEF StoreInv, create_removal_request

-----------------------------------------------------------------------------
(***************************************************************************)
(* The task queue.                                                         *)
(***************************************************************************)

\* An absent value is no request id.
LEMMA NoneIsNoRequest == None \notin Requests
<1>1. Cardinality(Requests) \in Nat
  BY CampaignAssumption, FS_CardinalityType
<1> QED BY <1>1, CampaignAssumption, ProjectionAssumption

\* One event per task, in terms of the rows and the tasks of a request.
LEMMA EventsAndTasks ==
  OneEventPerTask <=> \A r \in Requests : Cardinality(HumanRows(r)) = Cardinality(TasksOf(r))
BY DEF OneEventPerTask, HumanRows, TasksOf

\* A step that writes no task and leaves the HUMAN_ACTION_REQUIRED events
\* alone keeps the queue in order, if a failed form it records has its task.
LEMMA SameTasks ==
  ASSUME TaskInv, UNCHANGED manual_tasks,
         \A r \in Requests : HumanRows(r)' = HumanRows(r),
         FailedFormHasTask'
  PROVE  TaskInv'
<1>1. \A r \in Requests : TasksOf(r)' = TasksOf(r)
  BY DEF TasksOf
<1>2. OneEventPerTask'
  <2>1. \A r \in Requests : Cardinality(HumanRows(r)') = Cardinality(TasksOf(r)')
    BY <1>1, EventsAndTasks DEF TaskInv
  <2> QED BY <2>1 DEF OneEventPerTask, HumanRows, TasksOf
<1> QED BY <1>2 DEF TaskInv, OnePendingTask

\* The same for a step that only appends a row of another type.
LEMMA AppendKeepsTasks ==
  ASSUME StoreInv, TaskInv, NEW r \in Requests, NEW t, NEW at, Appends(r, t, at),
         UNCHANGED <<manual_tasks, channel>>, t # "HUMAN_ACTION_REQUIRED",
         t = "SEND_FAILED" /\ channel[r] = "web_form" => HasTask(r)
  PROVE  TaskInv'
<1>1. PICK e \in EventRecord(Requests) :
              /\ e.request_id = r /\ e.event_type = t
              /\ request_events' = request_events \cup {e}
              /\ RowsOf(r)' = RowsOf(r) \cup {e}
  BY AppendEffect
<1>2. \A q \in Requests \ {r} : RowsOf(q)' = RowsOf(q)
  BY AppendEffect
<1>3. \A q \in Requests : HumanRows(q)' = HumanRows(q)
  BY <1>1, <1>2 DEF HumanRows
<1>4. FailedFormHasTask'
  BY <1>1 DEF TaskInv, FailedFormHasTask, HasTask
<1> QED BY <1>3, <1>4, SameTasks

\* A step that writes no row and no task.
LEMMA NothingKeepsTasks ==
  ASSUME TaskInv, UNCHANGED <<vars, manual_tasks, channel>>
  PROVE  TaskInv'
<1>1. \A q \in Requests : HumanRows(q)' = HumanRows(q)
  BY DEF HumanRows, RowsOf, vars
<1>2. FailedFormHasTask'
  BY DEF TaskInv, FailedFormHasTask, vars
<1> QED BY <1>1, <1>2, SameTasks

\* A new request, whatever its channel, has no failed form.
LEMMA NewRequestKeepsTasks ==
  ASSUME StoreInv, TaskInv, NEW r \in Requests, create_removal_request(r),
         channel \in [Requests -> Channels \cup {None}],
         NEW c, channel' = [channel EXCEPT ![r] = c], UNCHANGED manual_tasks
  PROVE  TaskInv'
<1>1. \A q \in Requests : HumanRows(q)' = HumanRows(q)
  BY NewRequest DEF HumanRows
<1>2. \A e \in request_events' :
        e \in request_events /\ channel'[e.request_id] = channel[e.request_id]
  BY NewRequest DEF StoreInv, IInv, TypeOK, EventRecord, create_removal_request
<1>3. FailedFormHasTask'
  BY <1>2 DEF TaskInv, FailedFormHasTask
<1> QED BY <1>1, <1>3, SameTasks

\* manualtasks::create: the request has its task afterwards, a pending task
\* is not doubled, and a task and its event come together.
LEMMA CreateKeepsTasks ==
  ASSUME StoreInv, TaskInv, NEW r \in Requests, NEW why \in {"form", "invalid", "link"},
         NEW at \in Times, \A f \in request_events : f.occurred_at <= at,
         create(r, why, at), UNCHANGED channel
  PROVE  /\ TaskInv' /\ StoreInv' /\ requests' = requests
         /\ HasTask(r)' /\ \A q \in Requests : HasTask(q) => HasTask(q)'
         /\ \A q \in Requests \ {r} : /\ RowsOf(q)' = RowsOf(q)
                                      /\ request_state'[q] = request_state[q]
         /\ \A e \in request_events' : e \in request_events \/ e.occurred_at = at
<1>1. CASE Pending(r, why) /\ UNCHANGED <<vars, manual_tasks>>
  <2>1. HasTask(r)
    BY <1>1 DEF Pending, HasTask
  <2>2. TaskInv' /\ StoreInv' /\ \A q \in Requests : RowsOf(q)' = RowsOf(q)
    BY <1>1, NothingKeepsTasks, SameStore
  <2> QED BY <1>1, <2>1, <2>2 DEF HasTask, vars
<1>2. CASE /\ ~Pending(r, why) /\ NewTask(r, why)
           /\ TaskEvent(r, "HUMAN_ACTION_REQUIRED", at)
  <2> DEFINE k == [request_id |-> r, why |-> why, status |-> "pending"]
             n == Len(manual_tasks) + 1
  <2>1. k \in Task /\ manual_tasks \in Seq(Task) /\ manual_tasks' = Append(manual_tasks, k)
    BY <1>2 DEF NewTask, TaskInv, Task
  <2>2. /\ manual_tasks' \in Seq(Task)
        /\ DOMAIN manual_tasks' = DOMAIN manual_tasks \cup {n}
        /\ n \notin DOMAIN manual_tasks
        /\ manual_tasks'[n] = k
        /\ \A i \in DOMAIN manual_tasks : manual_tasks'[i] = manual_tasks[i]
    <3> HIDE DEF k
    <3> QED BY <2>1
  <2>3. k.request_id = r /\ k.why = why /\ k.status = "pending"
    OBVIOUS
  <2>4. ~\E i \in DOMAIN manual_tasks : manual_tasks[i] = k
    BY <1>2 DEF Pending
  <2> HIDE DEF k, n
  <2>5. OnePendingTask'
    BY <2>2, <2>4 DEF TaskInv, OnePendingTask
  <2>6. HasTask(r)' /\ \A q \in Requests : HasTask(q) => HasTask(q)'
    BY <2>2, <2>3 DEF HasTask
  <2>7. Appends(r, "HUMAN_ACTION_REQUIRED", at)
    BY <1>2, NoneIsNoRequest DEF Appends, EventType, TaskEvent
  <2>8. PICK e \in EventRecord(Requests) :
              /\ e \notin request_events /\ e.request_id = r
              /\ e.event_type = "HUMAN_ACTION_REQUIRED" /\ e.occurred_at = at
              /\ request_events' = request_events \cup {e}
              /\ RowsOf(r)' = RowsOf(r) \cup {e}
    BY <2>7, AppendEffect
  <2>9. requests' = requests
        /\ \A q \in Requests \ {r} : /\ RowsOf(q)' = RowsOf(q)
                                     /\ request_state'[q] = request_state[q]
    BY <2>7, AppendEffect
  <2>10. FailedFormHasTask'
    <3> SUFFICES ASSUME NEW f \in request_events', f.event_type = "SEND_FAILED",
                        channel'[f.request_id] = "web_form"
                 PROVE  HasTask(f.request_id)'
      BY DEF FailedFormHasTask, HasTask
    <3>1. f \in request_events /\ f.request_id \in Requests
      BY <2>8 DEF StoreInv, IInv, TypeOK, EventRecord
    <3>2. HasTask(f.request_id)
      BY <3>1 DEF TaskInv, FailedFormHasTask, HasTask
    <3> QED BY <2>6, <3>1, <3>2
  <2>11. OneEventPerTask'
    <3>0. ASSUME NEW q \in Requests PROVE IsFiniteSet(HumanRows(q)) /\ IsFiniteSet(TasksOf(q))
      <4>1. DOMAIN manual_tasks = 1..Len(manual_tasks) /\ Len(manual_tasks) \in Nat
        BY <2>1
      <4>2. IsFiniteSet(DOMAIN manual_tasks)
        BY <4>1, FS_Interval
      <4>3. HumanRows(q) \subseteq request_events /\ TasksOf(q) \subseteq DOMAIN manual_tasks
        BY DEF HumanRows, RowsOf, TasksOf
      <4> QED BY <4>2, <4>3, FS_Subset DEF StoreInv
    <3>1. ASSUME NEW q \in Requests PROVE Cardinality(HumanRows(q)') = Cardinality(TasksOf(q)')
      <4>1. Cardinality(HumanRows(q)) = Cardinality(TasksOf(q))
        BY EventsAndTasks DEF TaskInv
      <4>2. CASE q # r
        <5>1. HumanRows(q)' = HumanRows(q)
          BY <2>9, <4>2 DEF HumanRows
        <5>2. TasksOf(q)' = TasksOf(q)
          BY <2>2, <2>3, <4>2 DEF TasksOf
        <5> QED BY <4>1, <5>1, <5>2
      <4>3. CASE q = r
        <5>1. HumanRows(q)' = HumanRows(q) \cup {e} /\ e \notin HumanRows(q)
          BY <2>8, <4>3 DEF HumanRows, RowsOf
        <5>2. TasksOf(q)' = TasksOf(q) \cup {n} /\ n \notin TasksOf(q)
          BY <2>2, <2>3, <4>3 DEF TasksOf
        <5>3. Cardinality(HumanRows(q)') = Cardinality(HumanRows(q)) + 1
          BY <3>0, <5>1, FS_AddElement
        <5>4. Cardinality(TasksOf(q)') = Cardinality(TasksOf(q)) + 1
          BY <3>0, <5>2, FS_AddElement
        <5> QED BY <4>1, <5>3, <5>4
      <4> QED BY <4>2, <4>3
    <3> QED BY <3>1 DEF OneEventPerTask, HumanRows, TasksOf
  <2>12. StoreInv'
    BY <2>7, AppendKeepsStore
  <2> QED BY <2>2, <2>5, <2>6, <2>8, <2>9, <2>10, <2>11, <2>12 DEF TaskInv
<1> QED BY <1>1, <1>2 DEF create

\* The same for a task of no request: it is no request's task, and has no event.
LEMMA UnfiledKeepsTasks ==
  ASSUME TaskInv, NEW why \in {"form", "invalid", "link"}, NEW at,
         create(None, why, at), UNCHANGED channel
  PROVE  TaskInv' /\ UNCHANGED vars
<1>1. CASE Pending(None, why) /\ UNCHANGED <<vars, manual_tasks>>
  BY <1>1, NothingKeepsTasks
<1>2. CASE ~Pending(None, why) /\ NewTask(None, why) /\ UNCHANGED vars
  <2> DEFINE k == [request_id |-> None, why |-> why, status |-> "pending"]
             n == Len(manual_tasks) + 1
  <2>1. k \in Task /\ manual_tasks \in Seq(Task) /\ manual_tasks' = Append(manual_tasks, k)
    BY <1>2 DEF NewTask, TaskInv, Task
  <2>2. k.request_id = None /\ ~\E i \in DOMAIN manual_tasks : manual_tasks[i] = k
    BY <1>2 DEF Pending
  <2> HIDE DEF k
  <2>3. /\ manual_tasks' \in Seq(Task)
        /\ DOMAIN manual_tasks' = DOMAIN manual_tasks \cup {n}
        /\ n \notin DOMAIN manual_tasks
        /\ manual_tasks'[n] = k
        /\ \A i \in DOMAIN manual_tasks : manual_tasks'[i] = manual_tasks[i]
    BY <2>1
  <2> HIDE DEF n
  <2>4. OnePendingTask'
    BY <2>2, <2>3 DEF TaskInv, OnePendingTask
  <2>5. FailedFormHasTask'
    BY <1>2, <2>3 DEF TaskInv, FailedFormHasTask, vars
  <2>6. OneEventPerTask'
    <3>1. ASSUME NEW q \in Requests PROVE Cardinality(HumanRows(q)') = Cardinality(TasksOf(q)')
      <4>1. HumanRows(q)' = HumanRows(q)
        BY <1>2 DEF HumanRows, RowsOf, vars
      <4>2. TasksOf(q)' = TasksOf(q)
        BY <2>2, <2>3, NoneIsNoRequest DEF TasksOf
      <4> QED BY <4>1, <4>2, EventsAndTasks DEF TaskInv
    <3> QED BY <3>1 DEF OneEventPerTask, HumanRows, TasksOf
  <2> QED BY <1>2, <2>3, <2>4, <2>5, <2>6 DEF TaskInv
<1> QED BY <1>1, <1>2 DEF create, TaskEvent, vars

\* complete: the task keeps its request, and the note is no task's event.
LEMMA CompleteKeepsTasks ==
  ASSUME StoreInv, TaskInv, NEW i, complete(i),
         clock \in Times, \A f \in request_events : f.occurred_at <= clock
  PROVE  /\ TaskInv'
         /\ \/ UNCHANGED vars
            \/ \E r \in Requests : Appends(r, "NOTE_ADDED", clock)
         /\ \A q \in Requests : HasTask(q) => HasTask(q)'
<1>0. manual_tasks \in Seq(Task) /\ i \in DOMAIN manual_tasks /\ manual_tasks[i] \in Task
  BY DEF TaskInv, complete
<1>1. PICK r \in Requests \cup {None} : r = manual_tasks[i].request_id
  BY <1>0 DEF Task
<1>2. (r = None /\ UNCHANGED vars) \/ (r \in Requests /\ Appends(r, "NOTE_ADDED", clock))
  BY <1>1 DEF complete, Appends, EventType, TaskEvent
<1>3. PICK s \in {"completed", "cancelled"} :
        manual_tasks' = [manual_tasks EXCEPT ![i] = [manual_tasks[i] EXCEPT !.status = s]]
  BY DEF complete
<1> DEFINE k == [manual_tasks[i] EXCEPT !.status = s]
<1>4. k \in Task /\ k.request_id = r /\ k.status = s
  BY <1>0, <1>1 DEF Task
<1> HIDE DEF k
<1>5. /\ manual_tasks' \in Seq(Task)
      /\ DOMAIN manual_tasks' = DOMAIN manual_tasks
      /\ manual_tasks'[i] = k
      /\ \A j \in DOMAIN manual_tasks \ {i} : manual_tasks'[j] = manual_tasks[j]
  BY <1>0, <1>3, <1>4 DEF k
<1>6. \A q \in Requests : TasksOf(q)' = TasksOf(q) /\ (HasTask(q) => HasTask(q)')
  BY <1>1, <1>4, <1>5 DEF TasksOf, HasTask
<1>7. /\ \A f \in request_events' : f \in request_events \/ f.event_type = "NOTE_ADDED"
      /\ \A q \in Requests : HumanRows(q)' = HumanRows(q)
  <2>1. CASE r = None /\ UNCHANGED vars
    BY <2>1 DEF HumanRows, RowsOf, vars
  <2>2. CASE r \in Requests /\ Appends(r, "NOTE_ADDED", clock)
    <3>1. PICK e \in EventRecord(Requests) :
              /\ e.request_id = r /\ e.event_type = "NOTE_ADDED"
              /\ request_events' = request_events \cup {e}
              /\ RowsOf(r)' = RowsOf(r) \cup {e}
      BY <2>2, AppendEffect
    <3>2. \A q \in Requests \ {r} : RowsOf(q)' = RowsOf(q)
      BY <2>2, AppendEffect
    <3> QED BY <3>1, <3>2 DEF HumanRows
  <2> QED BY <1>2, <2>1, <2>2
<1>9. OneEventPerTask'
  <2>1. \A q \in Requests : Cardinality(HumanRows(q)') = Cardinality(TasksOf(q)')
    BY <1>6, <1>7, EventsAndTasks DEF TaskInv
  <2> QED BY <2>1 DEF OneEventPerTask, HumanRows, TasksOf
<1>10. OnePendingTask'
  <2>1. manual_tasks'[i].status # "pending"
    BY <1>4, <1>5
  <2> QED BY <1>5, <2>1 DEF TaskInv, OnePendingTask
<1>11. FailedFormHasTask'
  <2> SUFFICES ASSUME NEW f \in request_events', f.event_type = "SEND_FAILED",
                      channel'[f.request_id] = "web_form"
               PROVE  HasTask(f.request_id)'
    BY DEF FailedFormHasTask, HasTask
  <2>1. f \in request_events /\ f.request_id \in Requests
    BY <1>7 DEF StoreInv, IInv, TypeOK, EventRecord
  <2>2. HasTask(f.request_id)
    BY <2>1 DEF TaskInv, FailedFormHasTask, HasTask, complete
  <2> QED BY <1>6, <2>1, <2>2
<1> QED BY <1>2, <1>5, <1>6, <1>9, <1>10, <1>11 DEF TaskInv

-----------------------------------------------------------------------------
(***************************************************************************)
(* The commands.                                                           *)
(***************************************************************************)

\* The facts a step of a running command starts from.
LEMMA Running ==
  ASSUME CInv, NEW p \in Procs, op[p] # Idle
  PROVE  /\ op[p] \in PlanOp \/ op[p] \in ExecuteOp
         /\ op[p].kind = "plan" => op[p] \in PlanOp
         /\ op[p].kind = "execute" => op[p] \in ExecuteOp
         /\ op[p].now \in Times /\ op[p].now \in Nat /\ op[p].now <= clock
         /\ \A e \in request_events : e.occurred_at <= op[p].now
         /\ lock = p /\ InOrder(op[p])
<1>1. op[p] \in Ops
  BY DEF CInv
<1> QED BY <1>1, StoreAssumption DEF CInv, Past, Ops, PlanOp, ExecuteOp

\* The columns stay typed when nobody writes them.
LEMMA SameColumns ==
  ASSUME Columns, UNCHANGED <<campaign, channel, created_at, mails>>
  PROVE  Columns'
BY DEF Columns

\* The columns are typed.
LEMMA ColumnsTyped == CInv => Columns /\ clock \in Times /\ clock \in Nat
BY StoreAssumption DEF CInv, CampaignTypeOK, Columns

\* A step of p, which runs a command or begins one while nobody else does,
\* keeps the invariant if it leaves the tables and its own command in order.
LEMMA CommandStep ==
  ASSUME CInv, NEW p \in Procs, op[p] # Idle \/ lock = None,
         NEW v \in Ops, op' = [op EXCEPT ![p] = v],
         lock' \in Procs \cup {None}, v # Idle => lock' = p,
         StoreInv', TaskInv', Columns', clock' = clock,
         \A e \in request_events' : e.occurred_at <= clock,
         v # Idle => /\ v.now <= clock
                     /\ \A e \in request_events' : e.occurred_at <= v.now,
         InOrder(v)'
  PROVE  CInv'
<1>1. op' \in [Procs -> Ops] /\ op'[p] = v /\ \A q \in Procs \ {p} : op'[q] = op[q]
  BY DEF CInv
<1>2. \A q \in Procs \ {p} : op'[q] = Idle
  <2> SUFFICES ASSUME NEW q \in Procs \ {p}, op[q] # Idle PROVE FALSE
    BY <1>1
  <2>1. lock = q
    BY Running
  <2>2. lock = p \/ lock = None
    BY Running
  <2> QED BY <2>1, <2>2, CampaignAssumption
<1>3. Past'
  BY <1>1, <1>2 DEF Past
<1>4. \A q \in Procs : InOrder(op[q])'
  <2>1. InOrder(op[p])'
    BY <1>1 DEF InOrder
  <2>2. ASSUME NEW q \in Procs \ {p} PROVE InOrder(op[q])'
    BY <1>2 DEF InOrder, Idle
  <2> QED BY <2>1, <2>2
<1>5. CampaignTypeOK'
  <2>1. TypeOK' /\ clock' \in Times /\ manual_tasks' \in Seq(Task)
    BY DEF StoreInv, IInv, TaskInv, CInv, CampaignTypeOK
  <2>2. \A q \in Procs : op'[q] = Idle \/ op'[q] \in PlanOp \/ op'[q] \in ExecuteOp
    BY <1>1 DEF Ops
  <2> QED BY <2>1, <2>2 DEF CampaignTypeOK, Columns, Task, PlanOp, ExecuteOp
<1> QED BY <1>1, <1>3, <1>4, <1>5 DEF CInv

\* A running command appends a row at the instant it began and goes on.
LEMMA AppendStep ==
  ASSUME CInv, NEW p \in Procs, op[p] # Idle, NEW r \in Requests, NEW t,
         NEW at \in Times, at = op[p].now, Appends(r, t, at),
         t # "HUMAN_ACTION_REQUIRED",
         t = "SEND_FAILED" /\ channel[r] = "web_form" => HasTask(r),
         UNCHANGED <<campaign_vars, lock>>,
         NEW v \in Ops, op' = [op EXCEPT ![p] = v], v # Idle, v.now = at, InOrder(v)'
  PROVE  CInv'
<1>1. StoreInv /\ TaskInv /\ Columns /\ clock \in Nat
      /\ \A e \in request_events : e.occurred_at <= clock
  BY ColumnsTyped DEF CInv, Past
<1>2. op[p].now <= clock /\ lock = p /\ \A e \in request_events : e.occurred_at <= at
  BY Running
<1>3. StoreInv' /\ TaskInv' /\ Columns'
  BY <1>1, AppendKeepsStore, AppendKeepsTasks, SameColumns DEF campaign_vars
<1>4. at \in Nat /\ at <= clock
  BY <1>2, StoreAssumption
<1>5. \A e \in request_events' : e.occurred_at <= at
  BY <1>1, <1>2, <1>4, AppendEffect
<1>6. \A e \in request_events' : e.occurred_at \in Nat
  BY <1>3 DEF StoreInv, IInv, TypeOK, EventRecord
<1>7. \A e \in request_events' : e.occurred_at <= clock
  BY <1>1, <1>4, <1>5, <1>6
<1>8. lock' = p /\ clock' = clock
  BY <1>2 DEF campaign_vars
<1> QED BY <1>3, <1>4, <1>5, <1>7, <1>8, CommandStep

\* A command ends, by itself, by an error or with its process.
LEMMA CloseStep ==
  ASSUME CInv, NEW p \in Procs, op[p] # Idle, close(p), UNCHANGED <<vars, campaign_vars>>
  PROVE  CInv'
<1>1. StoreInv' /\ TaskInv' /\ Columns'
  BY SameStore, NothingKeepsTasks, SameColumns, ColumnsTyped DEF CInv, campaign_vars
<1>2. InOrder(Idle)'
  BY DEF InOrder, Idle
<1>3. Idle \in Ops /\ op' = [op EXCEPT ![p] = Idle] /\ lock' \in Procs \cup {None}
  BY DEF Ops, close, CInv, CampaignTypeOK
<1>4. clock' = clock /\ request_events' = request_events
      /\ \A e \in request_events : e.occurred_at <= clock
  BY DEF vars, campaign_vars, CInv, Past
<1> QED BY <1>1, <1>2, <1>3, <1>4, CommandStep

\* What is left of a batch stays in order when at most the request just dealt
\* with has changed.
LEMMA AdvanceInOrder ==
  ASSUME CInv, NEW p \in Procs, op[p].kind = "execute", NEW r \in Requests,
         op[p].cur = None \/ op[p].cur = r,
         NEW v, v = [op[p] EXCEPT !.batch = @ \ {r}, !.cur = None],
         requests' = requests,
         \A q \in Requests \ {r} : request_state'[q] = request_state[q]
  PROVE  v \in Ops /\ v # Idle /\ v.now = op[p].now /\ InOrder(v)'
<1>0. op[p] # Idle
  BY DEF Idle
<1>1. op[p] \in ExecuteOp /\ InOrder(op[p])
  BY <1>0, Running
<1>2. /\ v \in ExecuteOp /\ v.now = op[p].now /\ v.kind = "execute"
      /\ v.batch = op[p].batch \ {r} /\ v.cur = None
  BY <1>1 DEF ExecuteOp
<1>3. v # Idle
  BY <1>2 DEF Idle
<1>4. ASSUME NEW q \in v.batch PROVE q \in requests /\ q \in Planned'
  <2>1. q \in op[p].batch /\ q # r /\ q \in Requests
    BY <1>1, <1>2, <1>4 DEF ExecuteOp
  <2>2. q # op[p].cur
    BY <2>1, NoneIsNoRequest
  <2>3. q \in Planned
    BY <1>1, <2>1, <2>2 DEF InOrder
  <2> QED BY <2>1, <2>3 DEF Planned
<1>5. InOrder(v)'
  BY <1>2, <1>4 DEF InOrder
<1> QED BY <1>2, <1>3, <1>5 DEF Ops

\* The same when the request is only begun.
LEMMA BeginsInOrder ==
  ASSUME CInv, NEW p \in Procs, NEW r \in Requests, Turn(p, r),
         NEW v, v = [op[p] EXCEPT !.cur = r],
         requests' = requests,
         \A q \in Requests \ {r} : request_state'[q] = request_state[q],
         channel'[r] = "web_form" => HasTask(r)'
  PROVE  v \in Ops /\ v # Idle /\ v.now = op[p].now /\ InOrder(v)'
<1>0. op[p] # Idle
  BY DEF Idle, Turn, Executing
<1>1. /\ op[p] \in ExecuteOp /\ InOrder(op[p]) /\ op[p].kind = "execute"
      /\ op[p].cur = None /\ r \in op[p].batch
  BY <1>0, Running DEF Turn, Executing
<1>2. /\ v \in ExecuteOp /\ v.now = op[p].now /\ v.kind = "execute"
      /\ v.batch = op[p].batch /\ v.cur = r
  BY <1>1 DEF ExecuteOp
<1>3. v # Idle
  BY <1>2 DEF Idle
<1>4. ASSUME NEW q \in v.batch PROVE q \in requests /\ (q # r => q \in Planned')
  <2>1. q \in op[p].batch /\ q \in Requests
    BY <1>1, <1>2, <1>4 DEF ExecuteOp
  <2>2. q # op[p].cur
    BY <1>1, <2>1, NoneIsNoRequest
  <2>3. q \in Planned
    BY <1>1, <2>1, <2>2 DEF InOrder
  <2> QED BY <2>1, <2>3 DEF Planned
<1>5. InOrder(v)'
  BY <1>1, <1>2, <1>4 DEF InOrder
<1> QED BY <1>2, <1>3, <1>5 DEF Ops


\* An executor is through with a request and has written nothing.
LEMMA QuietStep ==
  ASSUME CInv, NEW p \in Procs, op[p].kind = "execute", NEW r \in Requests,
         op[p].cur = None \/ op[p].cur = r,
         NEW v, v = [op[p] EXCEPT !.batch = @ \ {r}, !.cur = None],
         op' = [op EXCEPT ![p] = v], UNCHANGED <<vars, campaign_vars, lock>>
  PROVE  CInv'
<1>1. StoreInv /\ TaskInv /\ Columns /\ \A e \in request_events : e.occurred_at <= clock
  BY ColumnsTyped DEF CInv, Past
<1>2. StoreInv' /\ TaskInv' /\ Columns'
  BY <1>1, SameStore, NothingKeepsTasks, SameColumns DEF campaign_vars
<1>3. /\ requests' = requests /\ request_state' = request_state
      /\ request_events' = request_events /\ clock' = clock /\ lock' = lock
  BY DEF vars, campaign_vars
<1>4. v \in Ops /\ v # Idle /\ v.now = op[p].now /\ InOrder(v)'
  BY <1>3, AdvanceInOrder
<1>5. op[p] # Idle
  BY DEF Idle
<1>6. lock = p /\ op[p].now <= clock /\ \A e \in request_events : e.occurred_at <= op[p].now
  BY <1>5, Running
<1> QED BY <1>1, <1>2, <1>3, <1>4, <1>5, <1>6, CommandStep

\* An executor is through with a request and has recorded how it went.
LEMMA RecordStep ==
  ASSUME CInv, NEW p \in Procs, op[p].kind = "execute", NEW r \in Requests,
         op[p].cur = None \/ op[p].cur = r,
         NEW t \in {"SEND_FAILED", "SENT"}, NEW at \in Times, at = op[p].now,
         Appends(r, t, at),
         t = "SEND_FAILED" /\ channel[r] = "web_form" => HasTask(r),
         NEW v, v = [op[p] EXCEPT !.batch = @ \ {r}, !.cur = None],
         op' = [op EXCEPT ![p] = v], UNCHANGED <<campaign_vars, lock>>
  PROVE  CInv'
<1>1. /\ requests' = requests
      /\ \A q \in Requests \ {r} : request_state'[q] = request_state[q]
  BY AppendEffect DEF CInv
<1>2. v \in Ops /\ v # Idle /\ v.now = op[p].now /\ InOrder(v)'
  BY <1>1, AdvanceInOrder
<1>3. op[p] # Idle
  BY DEF Idle
<1> QED BY <1>2, <1>3, AppendStep

\* plan_campaign.
LEMMA PlanSteps ==
  ASSUME CInv, NEW p \in Procs, plan_begin(p) \/ PlanStep(p)
  PROVE  CInv'
<1> USE DEF campaign_vars
<1>0. StoreInv /\ TaskInv /\ Columns /\ clock \in Nat
      /\ \A e \in request_events : e.occurred_at <= clock
  BY ColumnsTyped DEF CInv, Past
<1>1. CASE plan_begin(p)
  <2>1. PICK n \in 0..Cardinality(Requests \ requests) :
          open(p, [kind |-> "plan", now |-> clock, left |-> n, cur |-> None])
    BY <1>1 DEF plan_begin
  <2>2. n \in Nat
    <3>1. IsFiniteSet(Requests \ requests)
      BY CampaignAssumption, FS_Difference
    <3> QED BY <3>1, FS_CardinalityType
  <2>3. PICK v : v = [kind |-> "plan", now |-> clock, left |-> n, cur |-> None]
    OBVIOUS
  <2>4. v \in PlanOp /\ v.kind = "plan" /\ v.cur = None /\ v.now = clock
    BY <2>2, <2>3, ColumnsTyped DEF PlanOp
  <2>5. v \in Ops /\ v # Idle /\ InOrder(v)'
    BY <2>4 DEF Ops, InOrder, Idle
  <2>6. op' = [op EXCEPT ![p] = v] /\ lock = None /\ lock' = p
    BY <2>1, <2>3 DEF open
  <2>7. StoreInv' /\ TaskInv' /\ Columns'
    BY <1>0, <1>1, SameStore, NothingKeepsTasks DEF plan_begin, Columns
  <2>8. clock' = clock /\ request_events' = request_events
    BY <1>1 DEF plan_begin, vars
  <2>9. v.now <= clock /\ \A e \in request_events' : e.occurred_at <= clock /\ e.occurred_at <= v.now
    BY <1>0, <2>4, <2>8
  <2> QED BY <2>5, <2>6, <2>7, <2>8, <2>9, CommandStep
<1>2. CASE plan_request(p)
  <2>1. PICK r : /\ create_removal_request(r)
                 /\ \E c \in Channels : channel' = [channel EXCEPT ![r] = c]
                 /\ created_at' = [created_at EXCEPT ![r] = clock]
                 /\ op' = [op EXCEPT ![p] = [op[p] EXCEPT !.cur = r]]
    BY <1>2 DEF plan_request
  <2>2. r \in Requests /\ request_events' = request_events
    BY <2>1 DEF create_removal_request
  <2>3. /\ op[p] # Idle /\ op[p] \in PlanOp /\ op[p].left > 0
        /\ op[p].now <= clock /\ lock = p
        /\ \A e \in request_events : e.occurred_at <= op[p].now
    <3>1. op[p] # Idle
      BY <1>2 DEF plan_request, Idle
    <3> QED BY <1>2, <3>1, Running DEF plan_request
  <2>4. PICK v : v = [op[p] EXCEPT !.cur = r]
    OBVIOUS
  <2>5. v \in PlanOp /\ v.kind = "plan" /\ v.cur = r /\ v.now = op[p].now /\ v.left = op[p].left
    BY <2>2, <2>3, <2>4 DEF PlanOp
  <2>6. StoreInv' /\ r \in requests' /\ RowsOf(r)' = {}
    BY <1>0, <2>1, <2>2, NewRequest
  <2>7. v \in Ops /\ v # Idle /\ InOrder(v)'
    BY <2>3, <2>5, <2>6 DEF Ops, InOrder, Idle
  <2>8. TaskInv'
    BY <1>0, <1>2, <2>1, <2>2, NewRequestKeepsTasks DEF plan_request, Columns
  <2>9. Columns'
    <3>1. campaign' \in BOOLEAN /\ mails' \in [Requests -> 0..MaxMails]
      BY <1>0, <1>2 DEF plan_request, Columns
    <3>2. channel' \in [Requests -> Channels \cup {None}]
      BY <1>0, <2>1, <2>2 DEF Columns
    <3>3. created_at' \in [Requests -> Times \cup {0}]
      BY <1>0, <2>1, <2>2, ColumnsTyped DEF Columns
    <3> QED BY <3>1, <3>2, <3>3 DEF Columns
  <2>10. op' = [op EXCEPT ![p] = v] /\ lock' = p /\ clock' = clock
    BY <1>2, <2>1, <2>3, <2>4 DEF plan_request
  <2> QED BY <1>0, <2>2, <2>3, <2>5, <2>6, <2>7, <2>8, <2>9, <2>10, CommandStep
<1>3. CASE plan_event(p)
  <2>1. /\ op[p] # Idle /\ op[p] \in PlanOp /\ op[p].kind = "plan" /\ op[p].cur # None
        /\ op[p].now \in Times /\ op[p].now <= clock /\ lock = p
        /\ \A e \in request_events : e.occurred_at <= op[p].now
        /\ InOrder(op[p])
    <3>1. op[p] # Idle
      BY <1>3 DEF plan_event, Idle
    <3> QED BY <1>3, <3>1, Running DEF plan_event
  <2>2. PICK r \in Requests : r = op[p].cur
    BY <2>1 DEF PlanOp
  <2>3. PICK at \in Times : at = op[p].now
    BY <2>1
  <2>4. RowsOf(r) = {} /\ op[p].left > 0
    BY <2>1, <2>2 DEF InOrder
  <2>5. Appends(r, "PLANNED", at)
    BY <1>3, <2>1, <2>2, <2>3, <2>4 DEF plan_event, Appends, EventType
  <2>6. PICK v : v = [op[p] EXCEPT !.cur = None, !.left = @ - 1]
    OBVIOUS
  <2>7. v \in PlanOp /\ v.kind = "plan" /\ v.cur = None /\ v.now = at
    <3>1. op[p].left \in Nat /\ op[p].left - 1 \in Nat
      BY <2>1, <2>4 DEF PlanOp
    <3> QED BY <2>1, <2>3, <2>6, <3>1 DEF PlanOp
  <2>8. v \in Ops /\ v # Idle /\ InOrder(v)'
    BY <2>7 DEF Ops, InOrder, Idle
  <2>9. UNCHANGED <<campaign_vars, lock>> /\ op' = [op EXCEPT ![p] = v]
    BY <1>3, <2>6 DEF plan_event
  <2> QED BY <2>1, <2>3, <2>5, <2>7, <2>8, <2>9, AppendStep
<1>4. CASE plan_done(p)
  <2>1. op[p] # Idle
    BY <1>4 DEF plan_done, Idle
  <2> QED BY <1>4, <2>1, CloseStep DEF plan_done
<1> QED BY <1>1, <1>2, <1>3, <1>4 DEF PlanStep


\* execute_campaign.
LEMMA ExecuteSteps ==
  ASSUME CInv, NEW p \in Procs, execute_begin(p) \/ ExecuteStep(p)
  PROVE  CInv'
<1>0. StoreInv /\ TaskInv /\ Columns /\ clock \in Nat
      /\ \A e \in request_events : e.occurred_at <= clock
  BY ColumnsTyped DEF CInv, Past
<1>1. CASE execute_begin(p)
  <2>1. PICK opts \in Options, b \in SUBSET Planned :
          open(p, [kind |-> "execute", now |-> clock, opts |-> opts,
                   batch |-> b, cur |-> None])
    BY <1>1 DEF execute_begin, Batches
  <2>2. PICK v : v = [kind |-> "execute", now |-> clock, opts |-> opts,
                      batch |-> b, cur |-> None]
    OBVIOUS
  <2>3. b \in SUBSET Requests /\ b \subseteq requests
    BY DEF Planned, CInv, StoreInv, IInv, TypeOK
  <2>4. v \in ExecuteOp /\ v.kind = "execute" /\ v.cur = None /\ v.now = clock /\ v.batch = b
    BY <2>2, <2>3, ColumnsTyped DEF ExecuteOp
  <2>5. StoreInv' /\ TaskInv' /\ Columns' /\ Planned' = Planned
    BY <1>0, <1>1, SameStore, NothingKeepsTasks, SameColumns DEF execute_begin, campaign_vars
  <2>6. v \in Ops /\ v # Idle
    BY <2>4 DEF Ops, Idle
  <2>7. clock' = clock /\ request_events' = request_events /\ requests' = requests
    BY <1>1 DEF execute_begin, vars, campaign_vars
  <2>8. InOrder(v)'
    BY <2>3, <2>4, <2>5, <2>7 DEF InOrder
  <2>9. op' = [op EXCEPT ![p] = v] /\ lock = None /\ lock' = p
    BY <2>1, <2>2 DEF open
  <2>10. v.now <= clock
         /\ \A e \in request_events' : e.occurred_at <= clock /\ e.occurred_at <= v.now
    BY <1>0, <2>4, <2>7
  <2> QED BY <2>5, <2>6, <2>7, <2>8, <2>9, <2>10, CommandStep
<1>2. ASSUME NEW r \in Requests, skip(p, r) PROVE CInv'
  <2>1. op[p].kind = "execute" /\ op[p] # Idle /\ op[p].cur = None
    BY <1>2 DEF skip, Turn, Executing, Idle
  <2>2. PICK v : v = [op[p] EXCEPT !.batch = @ \ {r}, !.cur = None]
    OBVIOUS
  <2>3. UNCHANGED <<vars, campaign_vars, lock>> /\ op' = [op EXCEPT ![p] = v]
    BY <1>2, <2>2 DEF skip, advance
  <2> QED BY <2>1, <2>2, <2>3, QuietStep
<1>3. ASSUME NEW r \in Requests, send_accepted(p, r) PROVE CInv'
  <2>1. Turn(p, r) /\ channel[r] = "email" /\ op[p] # Idle
    BY <1>3 DEF send_accepted, Sendable, Turn, Executing, Idle
  <2>2. PICK v : v = [op[p] EXCEPT !.cur = r]
    OBVIOUS
  <2>3. /\ UNCHANGED <<vars, clock, campaign, channel, created_at, manual_tasks, lock>>
        /\ op' = [op EXCEPT ![p] = v]
    BY <1>3, <2>2 DEF send_accepted
  <2>4. Columns'
    <3>1. mails' \in [Requests -> 0..MaxMails]
      BY <1>0, <1>3, CampaignAssumption DEF send_accepted, Columns
    <3> QED BY <1>0, <2>3, <3>1 DEF Columns
  <2>5. StoreInv' /\ TaskInv'
    BY <1>0, <2>3, SameStore, NothingKeepsTasks
  <2>6. requests' = requests /\ request_state' = request_state
        /\ request_events' = request_events /\ clock' = clock /\ lock' = lock
    BY <2>3 DEF vars
  <2>7. v \in Ops /\ v # Idle /\ v.now = op[p].now /\ InOrder(v)'
    BY <2>1, <2>2, <2>3, <2>6, BeginsInOrder
  <2>8. lock = p /\ op[p].now <= clock /\ \A e \in request_events : e.occurred_at <= op[p].now
    BY <2>1, Running
  <2> QED BY <1>0, <2>1, <2>3, <2>4, <2>5, <2>6, <2>7, <2>8, CommandStep
<1>4. ASSUME NEW r \in Requests, send_refused(p, r) \/ form_preview(p, r) PROVE CInv'
  <2>1. Turn(p, r) /\ op[p] # Idle /\ op[p].kind = "execute" /\ op[p].cur = None
    BY <1>4 DEF send_refused, form_preview, Sendable, Turn, Executing, Idle
  <2>2. PICK at \in Times : at = op[p].now
    BY <2>1, Running
  <2>3. PICK t \in {"SEND_FAILED", "SENT"}, n \in Int \cup {None} :
          /\ append_and_project(r, t, n, at)
          /\ t = "SEND_FAILED" => channel[r] = "email"
    BY <1>4, <2>2, CampaignAssumption DEF send_refused, form_preview, Sendable
  <2>4. Appends(r, t, at)
    BY <2>1, <2>2, <2>3, Running DEF Appends, EventType
  <2>5. PICK v : v = [op[p] EXCEPT !.batch = @ \ {r}, !.cur = None]
    OBVIOUS
  <2>6. UNCHANGED <<campaign_vars, lock>> /\ op' = [op EXCEPT ![p] = v]
    BY <1>4, <2>5 DEF send_refused, form_preview, advance
  <2> QED BY <2>1, <2>2, <2>3, <2>4, <2>5, <2>6, RecordStep
<1>5. ASSUME NEW r \in Requests, form_task(p, r) PROVE CInv'
  <2>1. Turn(p, r) /\ op[p] # Idle
    BY <1>5 DEF form_task, Turn, Executing, Idle
  <2>2. PICK at \in Times : at = op[p].now
    BY <2>1, Running
  <2>3. PICK why \in {"form", "invalid", "link"} : create(r, why, at)
    BY <1>5, <2>2 DEF form_task
  <2>4. /\ at \in Nat /\ at <= clock /\ lock = p
        /\ \A e \in request_events : e.occurred_at <= at
    BY <2>1, <2>2, Running, StoreAssumption
  <2>5. /\ UNCHANGED <<clock, campaign, channel, created_at, mails, lock>>
        /\ op' = [op EXCEPT ![p] = [op[p] EXCEPT !.cur = r]]
    BY <1>5 DEF form_task
  <2>6. /\ TaskInv' /\ StoreInv' /\ requests' = requests /\ HasTask(r)'
        /\ \A q \in Requests \ {r} : request_state'[q] = request_state[q]
        /\ \A e \in request_events' : e \in request_events \/ e.occurred_at = at
    BY <1>0, <2>3, <2>4, <2>5, CreateKeepsTasks
  <2>7. PICK v : v = [op[p] EXCEPT !.cur = r]
    OBVIOUS
  <2>8. v \in Ops /\ v # Idle /\ v.now = op[p].now /\ InOrder(v)'
    BY <2>1, <2>6, <2>7, BeginsInOrder
  <2>9. \A e \in request_events' : e.occurred_at <= clock /\ e.occurred_at <= at
    BY <1>0, <2>4, <2>6
  <2>10. Columns' /\ op' = [op EXCEPT ![p] = v] /\ clock' = clock /\ lock' = p
    BY <1>0, <2>4, <2>5, <2>7, SameColumns
  <2> QED BY <2>1, <2>2, <2>4, <2>6, <2>8, <2>9, <2>10, CommandStep
<1>6. CASE record_sent(p) \/ record_form_failed(p)
  <2>1. op[p].kind = "execute" /\ op[p] # Idle /\ op[p].cur # None
    BY <1>6 DEF record_sent, record_form_failed, Executing, Idle
  <2>2. PICK at \in Times : at = op[p].now
    BY <2>1, Running
  <2>3. PICK r \in Requests : r = op[p].cur
    BY <2>1, Running DEF ExecuteOp
  <2>4. PICK t \in {"SEND_FAILED", "SENT"}, n \in Int \cup {None} :
          /\ append_and_project(r, t, n, at)
          /\ t = "SEND_FAILED" => channel[r] = "web_form"
    <3>1. CASE record_sent(p)
      <4>1. append_and_project(r, "SENT", ExpectedDays, at) /\ ExpectedDays \in Int
        BY <2>2, <2>3, <3>1, CampaignAssumption DEF record_sent
      <4> QED BY <4>1
    <3>2. CASE record_form_failed(p)
      <4>1. append_and_project(r, "SEND_FAILED", None, at) /\ channel[r] = "web_form"
        BY <2>2, <2>3, <3>2 DEF record_form_failed
      <4> QED BY <4>1
    <3> QED BY <1>6, <3>1, <3>2
  <2>5. channel[r] = "web_form" => HasTask(r)
    BY <2>1, <2>3, Running DEF InOrder
  <2>6. Appends(r, t, at)
    BY <2>1, <2>2, <2>4, Running DEF Appends, EventType
  <2>7. PICK v : v = [op[p] EXCEPT !.batch = @ \ {r}, !.cur = None]
    OBVIOUS
  <2>8. UNCHANGED <<campaign_vars, lock>> /\ op' = [op EXCEPT ![p] = v]
    BY <1>6, <2>3, <2>7 DEF record_sent, record_form_failed, advance
  <2> QED BY <2>1, <2>2, <2>3, <2>4, <2>5, <2>6, <2>7, <2>8, RecordStep
<1>7. CASE execute_done(p)
  <2>1. op[p] # Idle
    BY <1>7 DEF execute_done, Executing, Idle
  <2> QED BY <1>7, <2>1, CloseStep DEF execute_done
<1> QED BY <1>1, <1>2, <1>3, <1>4, <1>5, <1>6, <1>7 DEF ExecuteStep

\* Errors and crashes.
LEMMA FaultSteps ==
  ASSUME CInv, NEW p \in Procs, Fault(p)
  PROVE  CInv'
<1>1. CASE crash(p) \/ plan_error(p)
  <2>1. op[p] # Idle
    BY <1>1 DEF crash, plan_error, Idle
  <2> QED BY <1>1, <2>1, CloseStep DEF crash, plan_error
<1>2. ASSUME NEW r \in Requests, execute_error(p, r) PROVE CInv'
  <2>1. /\ op[p].kind = "execute" /\ op[p] # Idle
        /\ op[p].cur = None \/ op[p].cur = r
    BY <1>2 DEF execute_error, Executing, Idle
  <2>2. PICK v : v = [op[p] EXCEPT !.batch = @ \ {r}, !.cur = None]
    OBVIOUS
  <2>3. UNCHANGED <<vars, campaign_vars, lock>> /\ op' = [op EXCEPT ![p] = v]
    BY <1>2, <2>2 DEF execute_error, advance
  <2> QED BY <2>1, <2>2, <2>3, QuietStep
<1> QED BY <1>1, <1>2 DEF Fault


\* A step that is no part of a running command: a command of one transaction
\* while nobody holds the lock, or the clock.
LEMMA OtherStep ==
  ASSUME CInv, UNCHANGED <<lock, op>>, StoreInv', TaskInv', Columns', clock' \in Times,
         \A e \in request_events' : e.occurred_at <= clock',
         \/ lock = None
         \/ /\ clock' >= clock /\ UNCHANGED <<vars, channel, manual_tasks>>
  PROVE  CInv'
<1>1. op' = op /\ lock' = lock /\ op \in [Procs -> Ops]
  BY DEF CInv
<1>2. ASSUME NEW p \in Procs
      PROVE  /\ op[p] # Idle => /\ lock = p /\ op[p].now <= clock'
                                /\ \A e \in request_events' : e.occurred_at <= op[p].now
             /\ InOrder(op[p])'
  <2>1. CASE op[p] = Idle
    <3>1. op'[p] = Idle
      BY <1>1, <2>1
    <3> QED BY <2>1, <3>1 DEF InOrder, Idle
  <2>2. CASE op[p] # Idle
    <3>1. /\ lock = p /\ op[p].now <= clock /\ op[p].now \in Nat /\ InOrder(op[p])
          /\ \A e \in request_events : e.occurred_at <= op[p].now
      BY <2>2, Running
    <3>2. /\ clock' >= clock /\ UNCHANGED <<vars, channel, manual_tasks>>
      BY <3>1, CampaignAssumption
    <3>3. op[p].now <= clock'
      BY <3>1, <3>2, ColumnsTyped, StoreAssumption
    <3>4. InOrder(op[p])'
      BY <1>1, <3>1, <3>2 DEF InOrder, HasTask, RowsOf, Planned, vars
    <3> QED BY <3>1, <3>2, <3>3, <3>4 DEF vars
  <2> QED BY <2>1, <2>2
<1>3. Past' /\ \A p \in Procs : InOrder(op[p])'
  BY <1>1, <1>2 DEF Past
<1>4. CampaignTypeOK'
  <2>1. TypeOK' /\ manual_tasks' \in Seq(Task) /\ lock' \in Procs \cup {None}
    BY <1>1 DEF StoreInv, IInv, TaskInv, CInv, CampaignTypeOK
  <2>2. \A q \in Procs : op'[q] = Idle \/ op'[q] \in PlanOp \/ op'[q] \in ExecuteOp
    BY <1>1 DEF Ops
  <2> QED BY <2>1, <2>2 DEF CampaignTypeOK, Columns, Task, PlanOp, ExecuteOp
<1> QED BY <1>1, <1>3, <1>4 DEF CInv

\* run_web_form, auto_confirm, complete and the clock.
LEMMA OtherSteps ==
  ASSUME CInv, \/ \E r \in Requests \cup {None} : run_web_form(r)
               \/ \E r \in Requests : auto_confirm(r)
               \/ \E i \in 1..MaxTasks : complete(i)
               \/ Advance
  PROVE  CInv'
<1>0. StoreInv /\ TaskInv /\ Columns /\ clock \in Nat /\ clock \in Times
      /\ \A e \in request_events : e.occurred_at <= clock
  BY ColumnsTyped DEF CInv, Past
<1>1. ASSUME NEW r \in Requests, NEW why \in {"form", "invalid", "link"},
             create(r, why, clock), lock = None,
             UNCHANGED <<clock, campaign, channel, created_at, mails, lock, op>>
      PROVE  CInv'
  <2>1. PICK at \in Times : at = clock
    BY <1>0
  <2>2. /\ TaskInv' /\ StoreInv'
        /\ \A e \in request_events' : e \in request_events \/ e.occurred_at = at
    BY <1>0, <1>1, <2>1, CreateKeepsTasks
  <2>3. \A e \in request_events' : e.occurred_at <= clock'
    BY <1>0, <1>1, <2>1, <2>2
  <2>4. Columns' /\ clock' \in Times
    BY <1>0, <1>1, SameColumns
  <2> QED BY <1>1, <2>2, <2>3, <2>4, OtherStep
<1>2. ASSUME NEW r \in Requests, Appends(r, "NOTE_ADDED", clock), lock = None, TaskInv',
             UNCHANGED <<clock, campaign, channel, created_at, mails, lock, op>>
      PROVE  CInv'
  <2>1. PICK at \in Times : at = clock
    BY <1>0
  <2>2. StoreInv' /\ \E e : e.occurred_at = at /\ request_events' = request_events \cup {e}
    BY <1>0, <1>2, <2>1, AppendKeepsStore, AppendEffect
  <2>3. \A e \in request_events' : e.occurred_at <= clock'
    BY <1>0, <1>2, <2>1, <2>2
  <2>4. Columns' /\ clock' \in Times
    BY <1>0, <1>2, SameColumns
  <2> QED BY <1>2, <2>2, <2>3, <2>4, OtherStep
<1>7. ASSUME TaskInv', UNCHANGED vars, lock = None,
             UNCHANGED <<clock, campaign, channel, created_at, mails, lock, op>>
      PROVE  CInv'
  <2>1. StoreInv' /\ Columns' /\ clock' \in Times
    BY <1>0, <1>7, SameStore, SameColumns
  <2>2. \A e \in request_events' : e.occurred_at <= clock'
    BY <1>0, <1>7 DEF vars
  <2> QED BY <1>7, <2>1, <2>2, OtherStep
<1>3. ASSUME NEW r \in Requests \cup {None}, run_web_form(r) PROVE CInv'
  <2>1. CASE r \in Requests
    BY <1>1, <1>3, <2>1 DEF run_web_form
  <2>2. CASE r = None
    <3>1. create(None, "form", clock) /\ lock = None
          /\ UNCHANGED <<clock, campaign, channel, created_at, mails, lock, op>>
      BY <1>3, <2>2 DEF run_web_form
    <3>2. TaskInv' /\ UNCHANGED vars
      BY <1>0, <3>1, UnfiledKeepsTasks
    <3> QED BY <1>7, <3>1, <3>2
  <2> QED BY <2>1, <2>2
<1>4. ASSUME NEW r \in Requests, auto_confirm(r) PROVE CInv'
  <2>1. CASE create(r, "link", clock)
    BY <1>1, <1>4, <2>1 DEF auto_confirm
  <2>2. CASE append_and_project(r, "NOTE_ADDED", None, clock) /\ UNCHANGED manual_tasks
    <3>1. PICK at \in Times : at = clock
      BY <1>0
    <3>2. Appends(r, "NOTE_ADDED", at)
      BY <1>0, <2>2, <3>1 DEF Appends, EventType
    <3>3. TaskInv'
      BY <1>0, <1>4, <2>2, <3>2, AppendKeepsTasks DEF auto_confirm
    <3> QED BY <1>2, <1>4, <3>1, <3>2, <3>3 DEF auto_confirm
  <2> QED BY <1>4, <2>1, <2>2 DEF auto_confirm
<1>5. ASSUME NEW i \in 1..MaxTasks, complete(i) PROVE CInv'
  <2>1. /\ TaskInv'
        /\ UNCHANGED vars \/ \E r \in Requests : Appends(r, "NOTE_ADDED", clock)
    BY <1>0, <1>5, CompleteKeepsTasks
  <2>2. lock = None /\ UNCHANGED <<clock, campaign, channel, created_at, mails, lock, op>>
    BY <1>5 DEF complete
  <2> QED BY <1>2, <1>7, <2>1, <2>2
<1>6. CASE Advance
  <2>1. /\ clock' \in Times /\ clock' > clock
        /\ UNCHANGED <<vars, campaign, channel, created_at, manual_tasks, mails, lock, op>>
    BY <1>6 DEF Advance
  <2>2. StoreInv' /\ TaskInv' /\ Columns'
    BY <1>0, <2>1, SameStore, NothingKeepsTasks, SameColumns
  <2>3. clock' \in Nat /\ clock' >= clock
    BY <1>0, <2>1, StoreAssumption
  <2>4. \A e \in request_events' : e.occurred_at <= clock'
    <3>1. request_events' = request_events
      BY <2>1 DEF vars
    <3>2. \A e \in request_events : e.occurred_at \in Nat
      BY <1>0 DEF StoreInv, IInv, TypeOK, EventRecord
    <3> QED BY <1>0, <2>3, <3>1, <3>2
  <2> QED BY <2>1, <2>2, <2>3, <2>4, OtherStep
<1> QED BY <1>3, <1>4, <1>5, <1>6

\* The invariant holds of an empty database that nobody uses.
LEMMA CampaignEstablished == CampaignInit => CInv
<1> SUFFICES ASSUME CampaignInit PROVE CInv
  OBVIOUS
<1>0. Init /\ clock \in Times
  BY DEF CampaignInit
<1>1. request_events = {} /\ requests = {} /\ request_state = [r \in Requests |-> None]
  BY <1>0 DEF Init
<1>2. StoreInv
  <2>1. IInv
    BY <1>0, Established
  <2>2. ~rebuilding
    BY <1>0 DEF Init
  <2>3. IsFiniteSet(request_events)
    BY <1>1, FS_EmptySet
  <2> QED BY <1>1, <2>1, <2>2, <2>3 DEF StoreInv, ProjectionNeverBehind, PlannedUnsent, RowsOf
<1>3. manual_tasks = <<>> /\ manual_tasks \in Seq(Task) /\ DOMAIN manual_tasks = {}
  BY DEF CampaignInit
<1>4. TaskInv
  <2>1. \A r \in Requests : HumanRows(r) = {} /\ TasksOf(r) = {}
    BY <1>1, <1>3 DEF HumanRows, RowsOf, TasksOf
  <2>2. OneEventPerTask
    BY <2>1, EventsAndTasks
  <2> QED BY <1>1, <1>3, <2>2 DEF TaskInv, FailedFormHasTask, OnePendingTask
<1>5. Columns
  <2>1. campaign \in BOOLEAN
    BY DEF CampaignInit
  <2>2. mails \in [Requests -> 0..MaxMails]
    BY CampaignAssumption DEF CampaignInit
  <2> QED BY <2>1, <2>2 DEF CampaignInit, Columns
<1>6. op \in [Procs -> Ops] /\ \A p \in Procs : op[p] = Idle
  BY DEF CampaignInit, Ops
<1>7. lock \in Procs \cup {None}
  BY DEF CampaignInit
<1>8. CampaignTypeOK
  BY <1>0, <1>2, <1>3, <1>5, <1>6, <1>7
     DEF CampaignTypeOK, StoreInv, IInv, Columns, Task, PlanOp, ExecuteOp
<1>9. Past /\ \A p \in Procs : InOrder(op[p])
  BY <1>1, <1>6 DEF Past, InOrder, Idle
<1> QED BY <1>2, <1>4, <1>6, <1>8, <1>9 DEF CInv

\* Every step of every command keeps the invariant.
LEMMA CampaignPreserved == CInv /\ [CampaignNext]_allvars => CInv'
<1> SUFFICES ASSUME CInv, [CampaignNext]_allvars PROVE CInv'
  OBVIOUS
<1>1. CASE UNCHANGED allvars
  <2>1. UNCHANGED <<vars, campaign, channel, created_at, manual_tasks, mails, lock, op>>
        /\ clock' = clock
    BY <1>1 DEF allvars, campaign_vars
  <2>2. StoreInv' /\ TaskInv' /\ Columns'
    BY <2>1, SameStore, NothingKeepsTasks, SameColumns, ColumnsTyped DEF CInv
  <2>3. clock' \in Times /\ clock' >= clock
    BY <2>1, ColumnsTyped
  <2>4. \A e \in request_events' : e.occurred_at <= clock'
    BY <2>1 DEF vars, CInv, Past
  <2> QED BY <2>1, <2>2, <2>3, <2>4, OtherStep
<1>2. CASE CampaignNext
  BY <1>2, PlanSteps, ExecuteSteps, FaultSteps, OtherSteps DEF CampaignNext
<1> QED BY <1>1, <1>2

\* CInv is an invariant of campaigns.
LEMMA CampaignInductive == CampaignSpec => []CInv
BY CampaignEstablished, CampaignPreserved, PTL DEF CampaignSpec

\* The task table stays well formed and in step with the log: one pending task
\* per form and reason, one HUMAN_ACTION_REQUIRED event per task, wherever a
\* command is cut off.
THEOREM TasksCorrect == CampaignSpec => []TasksInv
<1>1. CInv => TasksInv
  BY DEF CInv, TaskInv, TasksInv
<1> QED BY <1>1, CampaignInductive, PTL

\* No command, and no crash between two transactions of one, leaves a
\* projection behind its log.
THEOREM ProjectionKeepsUp == CampaignSpec => []ProjectionNeverBehind
<1>1. CInv => ProjectionNeverBehind
  BY DEF CInv, StoreInv
<1> QED BY <1>1, CampaignInductive, PTL

\* A form that execute_campaign recorded as failed is in the task queue.
THEOREM FailedFormReachesUser == CampaignSpec => []FailedFormHasTask
<1>1. CInv => FailedFormHasTask
  BY DEF CInv, TaskInv
<1> QED BY <1>1, CampaignInductive, PTL

\* execute_campaign mails no request that was sent before, although it looks
\* at the status only when it picks its batch.
THEOREM NeverResends == CampaignSpec => SendsOnlyUnsent
<1>1. ASSUME CInv, [CampaignNext]_allvars, NEW r \in Requests, mails'[r] > mails[r]
      PROVE  r \in Planned /\ \A e \in RowsOf(r) : e.event_type # "SENT"
  <2>1. PICK p \in Procs, q \in Requests : send_accepted(p, q)
    <3>1. mails' # mails
      <4>1. mails[r] \in Nat
        BY <1>1, ColumnsTyped, CampaignAssumption DEF Columns
      <4> QED BY <1>1, <4>1
    <3> QED BY <1>1, <3>1
            DEF CampaignNext, PlanStep, ExecuteStep, Fault, allvars, campaign_vars,
                plan_begin, plan_request, plan_event, plan_done, plan_error, crash,
                execute_begin, skip, send_refused, form_preview, form_task,
                record_sent, record_form_failed, execute_error, execute_done,
                run_web_form, auto_confirm, complete, Advance
  <2>2. q = r
    <3>1. mails[r] \in Nat /\ mails \in [Requests -> 0..MaxMails]
      BY <1>1, ColumnsTyped, CampaignAssumption DEF Columns
    <3> QED BY <1>1, <2>1, <3>1 DEF send_accepted
  <2>3. op[p] # Idle /\ op[p].kind = "execute" /\ op[p].cur = None /\ r \in op[p].batch
    BY <2>1, <2>2 DEF send_accepted, Sendable, Turn, Executing, Idle
  <2>4. r \in Planned
    BY <1>1, <2>3, Running, NoneIsNoRequest DEF InOrder
  <2> QED BY <1>1, <2>4 DEF CInv, StoreInv, PlannedUnsent, Planned
<1>2. CInv /\ [CampaignNext]_allvars =>
        [\A r \in Requests :
           mails'[r] > mails[r] =>
             /\ r \in Planned
             /\ \A e \in RowsOf(r) : e.event_type # "SENT"]_allvars
  BY <1>1
<1> QED BY <1>2, CampaignInductive, PTL DEF CampaignSpec, SendsOnlyUnsent
=============================================================================
