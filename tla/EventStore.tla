------------------------------ MODULE EventStore ------------------------------
(***************************************************************************)
(* The event store of crates/symeraseme-core/src/storage: the requests,    *)
(* the append-only log request_events and the derived table request_state, *)
(* with every operation of projection.rs and repository.rs that writes     *)
(* them.  One SQLite transaction is one step; rebuild_all_states, which    *)
(* commits one transaction per request, is a step to read the dirty list   *)
(* and one step per request, and may be cut short by an error or a crash.  *)
(***************************************************************************)
EXTENDS Projection

CONSTANTS Requests,   \* request ids that may be created
          Times,      \* instants events may carry
          Types,      \* event types callers pass, valid or not
          Numbers,    \* payload numbers, or None
          MaxEvents   \* bound on the length of the log

ASSUME StoreAssumption ==
    /\ Times \subseteq Nat
    /\ Types \subseteq EventType \cup UnknownType
    /\ Numbers \subseteq Int \cup {None}
    /\ MaxEvents \in Nat
    /\ None \notin ProjectionState

VARIABLES requests,        \* removal_requests
          request_events,  \* the log, a set of rows
          next_event_id,   \* AUTOINCREMENT of request_events
          request_state,   \* the projection of each request, None if no row
          rebuilding,      \* rebuild_all_states is between two transactions
          dirty            \* the requests its list still holds

vars == <<requests, request_events, next_event_id, request_state,
          rebuilding, dirty>>

RowsOf(r) == {e \in request_events : e.request_id = r}

Init ==
    /\ requests = {}
    /\ request_events = {}
    /\ next_event_id = 1
    /\ request_state = [r \in Requests |-> None]
    /\ rebuilding = FALSE
    /\ dirty = {}

-----------------------------------------------------------------------------
(***************************************************************************)
(* Writes of one transaction, shared by the operations.                    *)
(***************************************************************************)

validate_append(t) == t \in EventType

NewRow(r, t, n, at, readable) ==
    [id |-> next_event_id, request_id |-> r, occurred_at |-> at,
     event_type |-> t, number |-> n, decodes |-> readable]

append_event_tx(e) ==
    /\ next_event_id <= MaxEvents
    /\ request_events' = request_events \cup {e}
    /\ next_event_id' = next_event_id + 1

\* load_events, fold_events and INSERT OR REPLACE, over the log E.
upsert_state_tx(r, E) ==
    request_state' =
      [request_state EXCEPT
         ![r] = RowOf(fold_events({e \in E : e.request_id = r}))]

\* Faulty variant: only the newest event in business time is compared.
dirty_requests_Newest ==
    {r \in requests : /\ RowsOf(r) # {}
                      /\ \/ request_state[r] = None
                         \/ Latest(RowsOf(r)).id > request_state[r].last_event_id}

\* SELECT DISTINCT of rebuild_all_states: requests with an event and either
\* no row or an event whose id is above the row's last_event_id.
dirty_requests ==
    {r \in requests :
       \E e \in RowsOf(r) : \/ request_state[r] = None
                            \/ e.id > request_state[r].last_event_id}

-----------------------------------------------------------------------------
(***************************************************************************)
(* Operations.  The connection is not shared between threads, so none of   *)
(* them starts between two transactions of a rebuild.                      *)
(***************************************************************************)

create_removal_request(r) ==
    /\ ~rebuilding
    /\ r \in Requests \ requests
    /\ requests' = requests \cup {r}
    /\ UNCHANGED <<request_events, next_event_id, request_state,
                   rebuilding, dirty>>

\* Store::append_event: the log only, the projection is left behind.
append_event(r, t, n, at) ==
    /\ ~rebuilding
    /\ r \in requests
    /\ validate_append(t)
    /\ append_event_tx(NewRow(r, t, n, at, TRUE))
    /\ UNCHANGED <<requests, request_state, rebuilding, dirty>>

\* Store::append_and_project: log and projection in one transaction.
append_and_project(r, t, n, at) ==
    /\ ~rebuilding
    /\ r \in requests
    /\ validate_append(t)
    /\ append_event_tx(NewRow(r, t, n, at, TRUE))
    /\ upsert_state_tx(r, request_events')
    /\ UNCHANGED <<requests, rebuilding, dirty>>

\* A row of the same database file written by an earlier implementation
\* (Python, Go): any type, possibly unreadable, no projection.
foreign_row(r, t, n, at, readable) ==
    /\ ~rebuilding
    /\ r \in requests
    /\ append_event_tx(NewRow(r, t, n, at, readable))
    /\ UNCHANGED <<requests, request_state, rebuilding, dirty>>

upsert_state(r) ==
    /\ ~rebuilding
    /\ r \in requests
    /\ upsert_state_tx(r, request_events)
    /\ UNCHANGED <<requests, request_events, next_event_id, rebuilding, dirty>>

\* Faulty variant: only requests that were never projected are rebuilt.
rebuild_all_states_Missing ==
    /\ ~rebuilding
    /\ rebuilding' = TRUE
    /\ dirty' = {r \in dirty_requests : request_state[r] = None}
    /\ UNCHANGED <<requests, request_events, next_event_id, request_state>>

rebuild_all_states ==
    /\ ~rebuilding
    /\ rebuilding' = TRUE
    /\ dirty' = dirty_requests
    /\ UNCHANGED <<requests, request_events, next_event_id, request_state>>

rebuild_one(r) ==
    /\ rebuilding
    /\ r \in dirty
    /\ upsert_state_tx(r, request_events)
    /\ dirty' = dirty \ {r}
    /\ UNCHANGED <<requests, request_events, next_event_id, rebuilding>>

rebuild_done ==
    /\ rebuilding
    /\ dirty = {}
    /\ rebuilding' = FALSE
    /\ UNCHANGED <<requests, request_events, next_event_id, request_state, dirty>>

\* An SQLite error ends the loop with `?', a crash ends the process.
rebuild_cut ==
    /\ rebuilding
    /\ dirty # {}
    /\ rebuilding' = FALSE
    /\ dirty' = {}
    /\ UNCHANGED <<requests, request_events, next_event_id, request_state>>

WriteRow ==
    \E r \in Requests, t \in Types, n \in Numbers, at \in Times :
      \/ append_event(r, t, n, at)
      \/ append_and_project(r, t, n, at)
      \/ \E readable \in BOOLEAN : foreign_row(r, t, n, at, readable)

Rebuild == rebuild_all_states \/ (\E r \in Requests : rebuild_one(r))
           \/ rebuild_done \/ rebuild_cut

Next ==
    \/ \E r \in Requests : create_removal_request(r) \/ upsert_state(r)
    \/ WriteRow
    \/ Rebuild

Spec == Init /\ [][Next]_vars

-----------------------------------------------------------------------------

\* Each table has the columns the schema declares.
TypeOK ==
    /\ requests \subseteq Requests
    /\ request_events \subseteq EventRecord(Requests)
    /\ next_event_id \in Nat \ {0}
    /\ request_state \in [Requests -> ProjectionState \cup {None}]
    /\ rebuilding \in BOOLEAN
    /\ dirty \subseteq Requests

\* The projection of r is what replaying its log gives now.
Fresh(r) == request_state[r] = RowOf(fold_events(RowsOf(r)))

\* A request whose stored projection differs from the replay of its log is
\* always found by the query of rebuild_all_states, although that query only
\* compares event ids with last_event_id, which is the id of the last event
\* in business time and not the largest: no append, however backdated or
\* unreadable, can hide a stale projection.
StaleIsDirty ==
    \A r \in requests : (RowsOf(r) # {} /\ ~Fresh(r)) => r \in dirty_requests

\* Once rebuild_all_states has worked off its list, every request with
\* events has a fresh projection; while it runs, all but those on the list.
RebuildHeals ==
    rebuilding =>
      \A r \in requests \ dirty : RowsOf(r) # {} => Fresh(r)

=============================================================================
