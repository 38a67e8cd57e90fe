----------------------------- MODULE Reporting -----------------------------
(***************************************************************************)
(* The views a user reads the campaigns through: status, calendar, report, *)
(* dashboard and their CSV export (crates/symeraseme-core/src/             *)
(* reporting.rs).  Every view loads its rows anew and counts them in its   *)
(* own way, so two views of one database may contradict each other, and    *)
(* rows of one instant come out of SQLite in any order.                    *)
(*                                                                         *)
(* A database is a record of campaigns, requests and events.  Times are    *)
(* half hours, with None for an empty column and Garbled for a text that   *)
(* does not parse; broker ids are numbers in the order of their texts.     *)
(* Rates are in tenths of a percent, response times in tenths of a day     *)
(* where the view rounds them, and in half half-hours for the median.      *)
(***************************************************************************)
EXTENDS Absent, Integers, FiniteSets, SequencesExt, FiniteSetsExt, TLC

CONSTANTS
    Databases,   \* databases a view is computed from
    Garbled,     \* a stored time that does not parse
    Now,         \* the instant of the view
    DayHours,    \* hours of a day
    WeekDays,    \* days of a week
    RECENT,      \* events on the dashboard
    CellTexts        \* texts of CSV cells, as sequences of characters

VARIABLES
    db,     \* the database
    view    \* the view that was read, None before

report_vars == <<db, view>>

Day == 2 * DayHours

-----------------------------------------------------------------------------
(* Loading *)

\* Rows of set S in an order of the keys that ORDER BY names; rows of equal
\* keys come in any order.
Ordered(S, Earlier(_, _)) ==
    {q \in SetToSeqs(S) : \A i, j \in DOMAIN q : Earlier(q[i], q[j]) => i < j}

\* One campaign by its id; without an id the newest one, or all of them,
\* newest first.
load_campaigns(id, all) ==
    IF id # None /\ ~all THEN {<<c>> : c \in {c \in db.campaigns : c.id = id}} \cup
                              (IF id \in {c.id : c \in db.campaigns} THEN {} ELSE {<<>>})
    ELSE LET newest == Ordered(db.campaigns, LAMBDA a, b : a.created_at > b.created_at)
         IN  IF all THEN newest ELSE {SubSeq(q, 1, Min({1, Len(q)})) : q \in newest}

load_requests(ids) ==
    Ordered({r \in db.requests : r.campaign_id \in ids},
            LAMBDA a, b : a.created_at < b.created_at)

load_events(rows) == {e \in db.events : e.request_id \in {rows[i].id : i \in DOMAIN rows}}

parse_time(t) == IF t \in {None, Garbled} THEN None ELSE t

\* str::to_uppercase on the texts that occur.
Upper(s) == IF s = "eu" THEN "EU" ELSE s

-----------------------------------------------------------------------------
(* Counting *)

Having(rows, P(_)) == Cardinality({i \in DOMAIN rows : P(rows[i])})

\* An empty status is PLANNED.
ShownStatus(r) == IF r.current_status = "" THEN "PLANNED" ELSE Upper(r.current_status)
CountOf(rows, s) == Having(rows, LAMBDA r : ShownStatus(r) = s)

\* The count of every status that occurs.
count_statuses(rows) ==
    [s \in {ShownStatus(rows[i]) : i \in DOMAIN rows} |->
       Having(rows, LAMBDA r : ShownStatus(r) = s)]

\* round1 of n / d in tenths, half away from zero.
round1(n, d) ==
    IF n >= 0 THEN (20 * n + d) \div (2 * d) ELSE -((d - 20 * n) \div (2 * d))

Rate(n, total) == round1(100 * n, IF total = 0 THEN 1 ELSE total)

\* How long the requests took that have both instants, in the rows' order.
response_times(rows) ==
    LET timed == SelectSeq(rows, LAMBDA r : parse_time(r.sent_at) # None
                                          /\ parse_time(r.resolved_at) # None)
    IN  [i \in DOMAIN timed |-> timed[i].resolved_at - timed[i].sent_at]

Total(f) == MapThenSumSet(LAMBDA i : f[i], DOMAIN f)
Average(times) == IF times = <<>> THEN None ELSE round1(Total(times), Len(times) * Day)

Outcome(rows) ==
    [total |-> Len(rows), confirmed |-> CountOf(rows, "CONFIRMED"),
     rejected |-> CountOf(rows, "REJECTED_FINAL"), overdue |-> CountOf(rows, "OVERDUE")]

\* The groups of the rows by a key, first seen first, sorted by their size
\* and then by their key: the sort alone decides, however the rows came.
FirstSeen(rows, Key(_)) ==
    FoldLeft(LAMBDA seen, r : IF Contains(seen, Key(r)) THEN seen ELSE Append(seen, Key(r)),
             <<>>, rows)
Grouped(rows, Key(_), Less(_, _)) ==
    LET of(k) == SelectSeq(rows, LAMBDA r : Key(r) = k)
        keys == FirstSeen(rows, Key)
    IN  SortSeq([i \in DOMAIN keys |-> [key |-> keys[i]] @@ Outcome(of(keys[i]))],
                LAMBDA a, b : \/ a.total > b.total
                              \/ a.total = b.total /\ Less(a.key, b.key))

broker_leaderboard(rows) == Grouped(rows, LAMBDA r : r.broker_id, LAMBDA a, b : a < b)

JurisdictionKey(r) == IF r.jurisdiction = "" THEN "UNKNOWN" ELSE Upper(r.jurisdiction)
jurisdiction_breakdown(rows) ==
    Grouped(rows, JurisdictionKey, LAMBDA a, b : a = "EU" /\ b = "UNKNOWN")

\* Events by day and type.
build_timeline(events) ==
    [d \in {e.occurred_at \div Day : e \in events} |->
       [t \in {e.event_type : e \in {x \in events : x.occurred_at \div Day = d}} |->
          Cardinality({e \in events : e.occurred_at \div Day = d /\ e.event_type = t})]]

\* The median is the middle time, doubled here; of two middle ones the mean.
success_metrics(rows) ==
    LET times == SortSeq(response_times(rows), LAMBDA a, b : a < b)
        n == Len(times)
    IN  IF rows = <<>> THEN None
        ELSE [confirmation |-> Rate(CountOf(rows, "CONFIRMED"), Len(rows)),
              rejection |-> Rate(CountOf(rows, "REJECTED_FINAL"), Len(rows)),
              average |-> Average(times),
              median |-> IF n = 0 THEN None
                         ELSE IF n % 2 = 1 THEN 2 * times[n \div 2 + 1]
                         ELSE times[n \div 2] + times[n \div 2 + 1]]

aggregate_campaign(c, rows) ==
    [campaign_id |-> c.id, created_at |-> c.created_at, rows |-> rows,
     statuses |-> count_statuses(rows),
     confirmation |-> Rate(CountOf(rows, "CONFIRMED"), Len(rows)),
     average |-> Average(response_times(rows)),
     reminders |-> Total([i \in DOMAIN rows |-> rows[i].reminders_sent])]

\* The two newest campaigns.
historical_comparison(aggregates) ==
    IF Len(aggregates) < 2 THEN None
    ELSE LET a == aggregates[1]
             b == aggregates[2]
         IN  [latest |-> a.campaign_id, previous |-> b.campaign_id,
              requests |-> Len(a.rows) - Len(b.rows),
              confirmation |-> a.confirmation - b.confirmation,
              average |-> IF None \in {a.average, b.average} THEN None
                          ELSE a.average - b.average]

-----------------------------------------------------------------------------
(* Views *)

ScopeIds(campaigns) == {campaigns[i].id : i \in DOMAIN campaigns}
PerCampaign(campaigns, rows) ==
    [i \in DOMAIN campaigns |->
       aggregate_campaign(campaigns[i],
                          SelectSeq(rows, LAMBDA r : r.campaign_id = campaigns[i].id))]

\* A resolved request is neither due nor overdue; a deadline that is just
\* reached is both.
get_campaign_status(id) ==
    \E campaigns \in load_campaigns(id, id = None) :
    \E rows \in load_requests(ScopeIds(campaigns)) :
      LET open == SelectSeq(rows, LAMBDA r : r.resolved_at = None)
          dueWithin(days) ==
            Having(open, LAMBDA r : LET at == parse_time(r.deadline_at)
                                    IN  at # None /\ at \in Now..Now + days * Day)
      IN  view' = [kind |-> "status", id |-> id, requests |-> Len(rows), open |-> Len(open),
                   by_status |-> count_statuses(rows),
                   overdue |-> Having(open, LAMBDA r : parse_time(r.deadline_at) # None
                                                    /\ r.deadline_at <= Now),
                   due7 |-> dueWithin(7), due30 |-> dueWithin(30),
                   tick |-> Having(open, LAMBDA r : parse_time(r.next_action_at) # None
                                                 /\ r.next_action_at <= Now)]

\* num_hours and / cut towards zero.
Cut(n, d) == IF n >= 0 THEN n \div d ELSE -((-n) \div d)

\* Faulty variant: an hour ago is today.
DaysFromNow_Cut(at) == Cut(Cut(at - Now, 2), DayHours)

\* Whole days between now and the marker.
DaysFromNow(at) ==
    LET days == Cut(Cut(at - Now, 2), DayHours)
    IN  IF at < Now /\ days * Day # at - Now THEN days - 1 ELSE days

Marker(r) == IF r.next_action_at = None THEN r.deadline_at ELSE r.next_action_at

get_calendar(id, weeks) ==
    \E campaigns \in load_campaigns(id, id = None) :
    \E rows \in load_requests(ScopeIds(campaigns)) :
      LET marked == SelectSeq(rows, LAMBDA r : LET at == parse_time(Marker(r)) IN
                       r.resolved_at = None /\ at # None /\ at <= Now + weeks * WeekDays * Day)
          entry(r) == [request_id |-> r.id, at |-> Marker(r), days |-> DaysFromNow(Marker(r))]
          week(r) == Marker(r) \div (WeekDays * Day)
      IN  view' = [kind |-> "calendar", id |-> id, horizon |-> Now + weeks * WeekDays * Day,
                   entries |-> Len(marked),
                   overdue |-> Having(marked, LAMBDA r : DaysFromNow(Marker(r)) < 0),
                   weeks |-> [w \in {week(marked[i]) : i \in DOMAIN marked} |->
                                {entry(marked[i]) : i \in {j \in DOMAIN marked : week(marked[j]) = w}}]]

get_report_data(id, all) ==
    \E campaigns \in load_campaigns(id, all) :
      IF campaigns = <<>> THEN view' = [kind |-> "empty"]
      ELSE \E rows \in load_requests(ScopeIds(campaigns)) :
        LET aggregates == PerCampaign(campaigns, rows) IN
        view' = [kind |-> "report", ids |-> ScopeIds(campaigns), campaigns |-> aggregates,
                 total_requests |-> Len(rows), status_breakdown |-> count_statuses(rows),
                 leaderboard |-> broker_leaderboard(rows),
                 jurisdictions |-> jurisdiction_breakdown(rows),
                 timeline |-> build_timeline(load_events(rows)),
                 comparison |-> historical_comparison(aggregates),
                 metrics |-> success_metrics(rows)]

\* The newest events of the whole database, whichever campaign is shown.
recent_events ==
    {SubSeq(q, 1, Min({RECENT, Len(q)})) :
       q \in Ordered(db.events, LAMBDA a, b : \/ a.occurred_at > b.occurred_at
                                              \/ a.occurred_at = b.occurred_at /\ a.id > b.id)}

\* The dashboard counts seven statuses; a request in any other one is only in
\* the total.
DashboardStatuses == {"PLANNED", "SENT", "AWAITING_ACK", "AWAITING_RESPONSE", "CONFIRMED",
                      "REJECTED_FINAL", "OVERDUE"}
DashboardCounts(rows) == [s \in DashboardStatuses |-> CountOf(rows, s)]

get_dashboard_data(id) ==
    \E campaigns \in load_campaigns(id, id = None), events \in recent_events :
      \E rows \in load_requests(ScopeIds(campaigns)) :
        LET of(c) == SelectSeq(rows, LAMBDA r : r.campaign_id = c.id) IN
        view' = [kind |-> "dashboard", ids |-> ScopeIds(campaigns),
                 campaigns |-> [i \in DOMAIN campaigns |->
                                  [total |-> Len(of(campaigns[i])),
                                   counts |-> DashboardCounts(of(campaigns[i]))]],
                 total_requests |-> Len(rows), counts |-> DashboardCounts(rows),
                 broker_status |-> broker_leaderboard(rows), recent |-> events]

-----------------------------------------------------------------------------
(* CSV *)

\* A cell is quoted when it needs it, its quotes doubled.
csv_field(cell) ==
    IF \A i \in DOMAIN cell : cell[i] \notin {",", "q", "CR", "LF"} THEN cell
    ELSE <<"q">> \o FlattenSeq([i \in DOMAIN cell |->
                                  IF cell[i] = "q" THEN <<"q", "q">> ELSE <<cell[i]>>]) \o <<"q">>

CsvRow(cells) ==
    FlattenSeq([i \in DOMAIN cells |-> (IF i > 1 THEN <<",">> ELSE <<>>) \o csv_field(cells[i])])
      \o <<"CR", "LF">>

export_csv(rows) ==
    view' = [kind |-> "csv", rows |-> rows,
             csv |-> FlattenSeq([i \in DOMAIN rows |-> CsvRow(rows[i])])]

\* Two requests with two of their columns.
ExportSome == \E a, b \in CellTexts : export_csv(<<<<a, b>>, <<b, a>>>>)

-----------------------------------------------------------------------------

ReportInit == db \in Databases /\ view = None

ReportNext ==
    /\ view = None /\ UNCHANGED db
    /\ \/ \E c \in db.campaigns \cup {[id |-> None]} :
            \/ get_campaign_status(c.id)
            \/ get_dashboard_data(c.id)
            \/ \E weeks \in 0..1 : get_calendar(c.id, weeks)
            \/ \E all \in BOOLEAN : get_report_data(c.id, all)
       \/ /\ db.requests = {} /\ ExportSome

ReportSpec == ReportInit /\ [][ReportNext]_report_vars

-----------------------------------------------------------------------------
(* What a reader of the views relies on. *)

SumOf(q, Get(_)) == Total([i \in DOMAIN q |-> Get(q[i])])

\* Campaigns, brokers, jurisdictions and statuses each divide the same
\* requests: a report's parts add up, whatever status or jurisdiction is
\* empty or spelled differently.
PartsAddUp ==
    view # None /\ view.kind = "report" =>
      LET n == view.total_requests IN
      /\ SumOf(view.campaigns, LAMBDA c : Len(c.rows)) = n
      /\ SumOf(view.leaderboard, LAMBDA b : b.total) = n
      /\ SumOf(view.jurisdictions, LAMBDA j : j.total) = n
      /\ Total(view.status_breakdown) = n
      /\ SumOf(view.leaderboard, LAMBDA b : b.confirmed)
           = SumOf(view.jurisdictions, LAMBDA j : j.confirmed)
      /\ Total([d \in DOMAIN view.timeline |-> Total(view.timeline[d])])
           = Cardinality({e \in db.events : \E r \in db.requests :
                            e.request_id = r.id /\ r.campaign_id \in view.ids})

\* "the result is a function of the data alone" (broker_leaderboard on #963):
\* equal totals are ordered by the key, not by how SQLite returned the rows.
OrderIsData ==
    view # None /\ view.kind = "report" =>
      /\ \A i, j \in DOMAIN view.leaderboard :
           LET a == view.leaderboard[i]
               b == view.leaderboard[j]
           IN  i < j => a.total > b.total \/ (a.total = b.total /\ a.key < b.key)
      /\ view.comparison # None =>
           \A c \in db.campaigns \ {x \in db.campaigns : x.id = view.comparison.latest} :
             \A x \in db.campaigns :
               x.id = view.comparison.latest => x.created_at >= c.created_at

\* The calendar rounds days down: an entry is overdue exactly when its marker
\* has passed, even by half an hour but not at the very instant, and no open request within the horizon
\* is missing.
CalendarIsExact ==
    view # None /\ view.kind = "calendar" =>
      /\ view.overdue = Cardinality({e \in UNION Range(view.weeks) : e.at < Now})
      /\ \A e \in UNION Range(view.weeks) :
           e.days * Day <= e.at - Now /\ e.at - Now < (e.days + 1) * Day
      /\ {e.request_id : e \in UNION Range(view.weeks)}
           = {r.id : r \in {r \in db.requests :
                /\ view.id \in {None, r.campaign_id}
                /\ r.resolved_at = None
                /\ Marker(r) \notin {None, Garbled} /\ Marker(r) <= view.horizon}}

\* Half of the answered requests took at most the median, half at least it.
MedianIsMiddle ==
    view # None /\ view.kind = "report" /\ view.metrics # None /\ view.metrics.median # None =>
      LET took == {r \in db.requests : /\ r.campaign_id \in view.ids
                                       /\ parse_time(r.sent_at) # None
                                       /\ parse_time(r.resolved_at) # None}
          m == view.metrics.median
          time(r) == 2 * (r.resolved_at - r.sent_at)
      IN  /\ 2 * Cardinality({r \in took : time(r) <= m}) >= Cardinality(took)
          /\ 2 * Cardinality({r \in took : time(r) >= m}) >= Cardinality(took)

\* The status view counts every request of its scope once by its status, and
\* every open one with a deadline once as overdue or as due within the horizon,
\* but for a deadline of this very instant, which is both (the calendar does
\* not call it overdue). The campaigns of a dashboard add up to its totals, and
\* its seven counts miss just the requests in other statuses.
ViewsAgree ==
    /\ view # None /\ view.kind = "status" =>
         LET mine == {r \in db.requests : view.id \in {None, r.campaign_id}}
             dated == {r \in mine : r.resolved_at = None /\ parse_time(r.deadline_at) # None}
         IN  /\ \A s \in DOMAIN view.by_status :
                  view.by_status[s] = Cardinality({r \in mine : ShownStatus(r) = s})
             /\ Total(view.by_status) = Cardinality(mine)
             /\ view.overdue + view.due30 - Cardinality({r \in dated : r.deadline_at = Now})
                  = Cardinality({r \in dated : r.deadline_at <= Now + 30 * Day})
    /\ view # None /\ view.kind = "dashboard" =>
         LET mine == {r \in db.requests : r.campaign_id \in view.ids} IN
         /\ SumOf(view.campaigns, LAMBDA c : c.total) = Cardinality(mine)
         /\ SumOf(view.broker_status, LAMBDA b : b.total) = Cardinality(mine)
         /\ \A s \in DashboardStatuses :
              SumOf(view.campaigns, LAMBDA c : c.counts[s]) = view.counts[s]
         /\ view.total_requests - Total(view.counts)
              = Cardinality({r \in mine : ShownStatus(r) \notin DashboardStatuses})

\* Reading a CSV text the way RFC 4180 says.
CsvStep(st, ch) ==
    CASE st.quoted /\ ch = "q" -> [st EXCEPT !.quoted = FALSE, !.closed = TRUE]
      [] st.quoted -> [st EXCEPT !.cell = Append(@, ch)]
      [] st.closed /\ ch = "q" ->
           [st EXCEPT !.quoted = TRUE, !.closed = FALSE, !.cell = Append(@, "q")]
      [] ~st.closed /\ st.cell = <<>> /\ ch = "q" -> [st EXCEPT !.quoted = TRUE]
      [] ch = "," -> [st EXCEPT !.row = Append(@, st.cell), !.cell = <<>>, !.closed = FALSE]
      [] ch = "LF" -> [st EXCEPT !.rows = Append(@, Append(st.row, st.cell)), !.row = <<>>,
                                 !.cell = <<>>, !.closed = FALSE]
      [] ch = "CR" -> st
      [] OTHER -> [st EXCEPT !.cell = Append(@, ch)]
CsvRead(csv) ==
    FoldLeft(CsvStep, [rows |-> <<>>, row |-> <<>>, cell |-> <<>>, quoted |-> FALSE,
                       closed |-> FALSE], csv).rows

\* A reader of the exported file gets back every cell, line breaks and quotes
\* included.
CsvReadsBack == view # None /\ view.kind = "csv" => CsvRead(view.csv) = view.rows

\* The parts of each view add up, to the same requests in every view, and the
\* order in which SQLite returns rows of one instant shows in none of them
\* (get_campaign_status, get_calendar, get_report_data, get_dashboard_data).
ReportingCorrect ==
    PartsAddUp /\ OrderIsData /\ CalendarIsExact /\ MedianIsMiddle /\ ViewsAgree /\ CsvReadsBack

=============================================================================
