--------------------------- MODULE EventStoreProofs ---------------------------
(***************************************************************************)
(* Type correctness of the event store, and that rebuild_all_states finds  *)
(* and repairs every stale projection, for any number of requests, events, *)
(* instants and event types.                                               *)
(***************************************************************************)
EXTENDS EventStore, TLAPS

(***************************************************************************)
(* Facts about the replay order and the columns it determines; the proof   *)
(* about the replay loop uses them too.                                    *)
(***************************************************************************)

\* Rows as the order sees them: an instant and a primary key.
Rows(E) == \A e \in E : e.id \in Nat /\ e.occurred_at \in Nat

\* A set has one latest row, so Latest picks it (ORDER BY is a total order
\* on the primary key).
LEMMA LatestUnique ==
  ASSUME NEW E, Rows(E), NEW m, IsLatest(m, E)
  PROVE  Latest(E) = m
<1>1. \A x : IsLatest(x, E) => x = m
  BY DEF IsLatest, Before, Rows
<1>2. Latest(E) \in E /\ IsLatest(Latest(E), E)
  BY DEF Latest, IsLatest
<1> QED BY <1>1, <1>2

\* A row that sorts after all of E and writes a column is its last writer.
LEMMA WritersExtend ==
  ASSUME NEW E, NEW e, NEW T, Rows(E \cup {e}), \A f \in E : Before(f, e),
         Replayable(e), e.event_type \in T
  PROVE  /\ Writers(E \cup {e}, T) # {}
         /\ Latest(Writers(E \cup {e}, T)) = e
<1> DEFINE W == Writers(E \cup {e}, T)
<1>1. e \in W
  BY DEF Writers
<1>2. IsLatest(e, W)
  BY <1>1 DEF IsLatest, Writers
<1>3. Rows(W)
  BY DEF Rows, Writers
<1> HIDE DEF W
<1>4. Latest(W) = e
  BY <1>2, <1>3, LatestUnique
<1> QED BY <1>1, <1>4 DEF W

\* A row that does not write a column leaves its writers as they were.
LEMMA WritersSame ==
  ASSUME NEW E, NEW e, NEW T, ~Replayable(e) \/ e.event_type \notin T
  PROVE  Writers(E \cup {e}, T) = Writers(E, T)
BY DEF Writers

\* apply_event on a state given by its columns.
LEMMA ApplyColumns ==
  ASSUME NEW e, Replayable(e), NEW cs, NEW li, NEW la, NEW sa, NEW aa, NEW ra,
         NEW da, NEW na, NEW rs, NEW el
  PROVE  LET t == e.event_type IN
         apply_event([current_status |-> cs, last_event_id |-> li,
                      last_event_at |-> la, sent_at |-> sa,
                      acknowledged_at |-> aa, resolved_at |-> ra,
                      deadline_at |-> da, next_action_at |-> na,
                      reminders_sent |-> rs, escalation_level |-> el], e)
           = [current_status |-> IF t \in Statusless THEN cs ELSE status_for(t),
              last_event_id |-> e.id, last_event_at |-> e.occurred_at,
              sent_at |-> IF t = "SENT" THEN e.occurred_at ELSE sa,
              acknowledged_at |-> IF t = "ACK" THEN e.occurred_at ELSE aa,
              resolved_at |-> IF t \in {"CONFIRMED", "REJECTED_FINAL"}
                              THEN e.occurred_at ELSE ra,
              deadline_at |-> IF t = "SENT" THEN Deadline(e) ELSE da,
              next_action_at |-> na,
              reminders_sent |-> IF t = "REMINDER_SENT" THEN Reminders(e) ELSE rs,
              escalation_level |->
                IF t \in {"DEADLINE_REACHED", "DPA_COMPLAINT_DRAFTED"}
                THEN Escalation(e) ELSE el]
BY ZenonT(60) DEF apply_event

\* One step of the fold: applying a row that sorts after every row folded so
\* far to their projection gives the projection of them all (apply_event
\* against fold_events).
LEMMA FoldOneMore ==
  ASSUME NEW R, NEW E \in SUBSET EventRecord(R), NEW e \in EventRecord(R),
         \A f \in E : Before(f, e)
  PROVE  apply_event(fold_events(E), e) = fold_events(E \cup {e})
<1> DEFINE F == E \cup {e}
           t == e.event_type
<1>0. Rows(F)
  BY DEF Rows, EventRecord
<1>1. CASE ~Replayable(e)
  <2>1. \A T : Writers(F, T) = Writers(E, T)
    BY <1>1, WritersSame
  <2>2. /\ Writers(F, AnyType \ Statusless) = Writers(E, AnyType \ Statusless)
        /\ Writers(F, AnyType) = Writers(E, AnyType)
        /\ Writers(F, {"SENT"}) = Writers(E, {"SENT"})
        /\ Writers(F, {"ACK"}) = Writers(E, {"ACK"})
        /\ Writers(F, {"REMINDER_SENT"}) = Writers(E, {"REMINDER_SENT"})
        /\ Writers(F, {"CONFIRMED", "REJECTED_FINAL"})
             = Writers(E, {"CONFIRMED", "REJECTED_FINAL"})
        /\ Writers(F, {"DEADLINE_REACHED", "DPA_COMPLAINT_DRAFTED"})
             = Writers(E, {"DEADLINE_REACHED", "DPA_COMPLAINT_DRAFTED"})
    BY <2>1
  <2>3. fold_events(F) = fold_events(E)
    BY <2>2, Zenon DEF fold_events, LastWrite
  <2> QED BY <1>1, <2>3 DEF apply_event
<1>2. CASE Replayable(e)
  <2>1. \A T : t \in T => Writers(F, T) # {} /\ Latest(Writers(F, T)) = e
    BY <1>0, <1>2, WritersExtend
  <2>2. \A T : t \notin T => Writers(F, T) = Writers(E, T)
    BY WritersSame
  <2>3. t \in AnyType
    BY <1>2 DEF EventRecord, AnyType, UnknownType, Replayable
  <2> DEFINE s == fold_events(E)
             u == fold_events(F)
  <2>4. u.current_status = IF t \in Statusless THEN s.current_status ELSE status_for(t)
    BY <2>1, <2>2, <2>3 DEF fold_events, LastWrite, StatusOf
  <2>5. u.last_event_id = e.id /\ u.last_event_at = e.occurred_at
    BY <2>1, <2>3 DEF fold_events, LastWrite, IdOf, OccurredAt
  <2>6. /\ u.sent_at = IF t = "SENT" THEN e.occurred_at ELSE s.sent_at
        /\ u.deadline_at = IF t = "SENT" THEN Deadline(e) ELSE s.deadline_at
    BY <2>1, <2>2 DEF fold_events, LastWrite, OccurredAt
  <2>7. u.acknowledged_at = IF t = "ACK" THEN e.occurred_at ELSE s.acknowledged_at
    BY <2>1, <2>2 DEF fold_events, LastWrite, OccurredAt
  <2>8. u.resolved_at = IF t \in {"CONFIRMED", "REJECTED_FINAL"}
                        THEN e.occurred_at ELSE s.resolved_at
    BY <2>1, <2>2 DEF fold_events, LastWrite, OccurredAt
  <2>9. u.reminders_sent = IF t = "REMINDER_SENT" THEN Reminders(e) ELSE s.reminders_sent
    BY <2>1, <2>2 DEF fold_events, LastWrite
  <2>10. u.escalation_level = IF t \in {"DEADLINE_REACHED", "DPA_COMPLAINT_DRAFTED"}
                              THEN Escalation(e) ELSE s.escalation_level
    BY <2>1, <2>2 DEF fold_events, LastWrite
  <2>11. u.next_action_at = s.next_action_at
    BY DEF fold_events
  <2>12. u = [current_status |-> u.current_status, last_event_id |-> u.last_event_id,
              last_event_at |-> u.last_event_at, sent_at |-> u.sent_at,
              acknowledged_at |-> u.acknowledged_at, resolved_at |-> u.resolved_at,
              deadline_at |-> u.deadline_at, next_action_at |-> u.next_action_at,
              reminders_sent |-> u.reminders_sent,
              escalation_level |-> u.escalation_level]
    BY DEF fold_events
  <2>13. s = [current_status |-> s.current_status, last_event_id |-> s.last_event_id,
              last_event_at |-> s.last_event_at, sent_at |-> s.sent_at,
              acknowledged_at |-> s.acknowledged_at, resolved_at |-> s.resolved_at,
              deadline_at |-> s.deadline_at, next_action_at |-> s.next_action_at,
              reminders_sent |-> s.reminders_sent,
              escalation_level |-> s.escalation_level]
    BY DEF fold_events
  <2> HIDE DEF s, u
  <2>14. apply_event(s, e) = u
    BY <1>2, <2>4, <2>5, <2>6, <2>7, <2>8, <2>9, <2>10, <2>11, <2>12, <2>13,
       ApplyColumns
  <2> QED BY <2>14 DEF s, u
<1> QED BY <1>1, <1>2

\* The numbers and names that events write have the columns' types.
LEMMA ColumnTypes ==
  ASSUME NEW R, NEW e \in EventRecord(R)
  PROVE  /\ Deadline(e) \in Int
         /\ Reminders(e) \in Int
         /\ Escalation(e) \in 0..2
         /\ e.event_type \notin Statusless => status_for(e.event_type) \in Status
<1>1. \A d \in Int : wrapping(d) \in Int
  BY ProjectionAssumption DEF wrapping
<1>2. Deadline(e) \in Int
  BY <1>1 DEF Deadline, EventRecord
<1>3. Reminders(e) \in Int /\ Escalation(e) \in 0..2
  BY DEF Reminders, Escalation, EventRecord
<1>4. ASSUME e.event_type \notin Statusless
      PROVE  status_for(e.event_type) \in Status
  <2>1. e.event_type \in EventType \ {"REPLY_DRAFTED", "NOTE_ADDED"}
    BY <1>4 DEF Statusless, UnknownType, EventRecord
  <2> QED BY <2>1 DEF EventType, status_for, Status
<1> QED BY <1>2, <1>3, <1>4

\* Every non-empty set of rows of E has a last one.
WellOrdered(E) == \A S \in SUBSET E : S # {} => \E m \in S : IsLatest(m, S)

\* One row more keeps a log well ordered: rows are told apart by id.
LEMMA WellOrderedExtend ==
  ASSUME NEW E, NEW e, Rows(E \cup {e}), WellOrdered(E),
         \A f \in E : f.id # e.id
  PROVE  WellOrdered(E \cup {e})
<1> SUFFICES ASSUME NEW S \in SUBSET (E \cup {e}), S # {}
             PROVE  \E m \in S : IsLatest(m, S)
  BY DEF WellOrdered
<1>1. CASE S \ {e} = {}
  BY <1>1 DEF IsLatest
<1>2. CASE S \ {e} # {}
  <2>1. PICK m \in S \ {e} : IsLatest(m, S \ {e})
    BY <1>2 DEF WellOrdered
  <2>2. CASE e \notin S \/ Before(e, m)
    BY <2>1, <2>2 DEF IsLatest
  <2>3. CASE e \in S /\ ~Before(e, m)
    <3>1. Before(m, e)
      BY <2>3 DEF Before, Rows
    <3>2. \A f \in S \ {e} : Before(f, e)
      BY <2>1, <3>1 DEF IsLatest, Before, Rows
    <3> QED BY <2>3, <3>2 DEF IsLatest
  <2> QED BY <2>2, <2>3
<1> QED BY <1>1, <1>2

\* In a well-ordered log every written column was written by one of its rows.
LEMMA LatestWriter ==
  ASSUME NEW E, WellOrdered(E), NEW T, Writers(E, T) # {}
  PROVE  /\ Latest(Writers(E, T)) \in E
         /\ Latest(Writers(E, T)).event_type \in T
<1> DEFINE W == Writers(E, T)
<1>1. W \in SUBSET E
  BY DEF Writers
<1>2. \E m \in W : IsLatest(m, W)
  BY <1>1 DEF WellOrdered
<1>3. Latest(W) \in W
  BY <1>2 DEF Latest
<1> QED BY <1>3 DEF Writers

\* The projection of a log has the columns' types, and its last_event_id is
\* 0 or the id of one of its rows.
LEMMA FoldType ==
  ASSUME NEW R, NEW E \in SUBSET EventRecord(R), WellOrdered(E)
  PROVE  /\ fold_events(E) \in ProjectionState
         /\ \/ fold_events(E).last_event_id = 0
            \/ \E e \in E : fold_events(E).last_event_id = e.id
<1> DEFINE s == fold_events(E)
           L(T) == Latest(Writers(E, T))
<1>1. \A T : Writers(E, T) # {} => L(T) \in EventRecord(R) /\ L(T).event_type \in T
  BY LatestWriter
<1>2. s.current_status \in Status
  <2> DEFINE T == AnyType \ Statusless
  <2>1. ASSUME Writers(E, T) # {}
        PROVE  StatusOf(L(T)) \in Status
    <3>1. L(T) \in EventRecord(R) /\ L(T).event_type \in T
      BY <1>1, <2>1
    <3> QED BY <3>1, ColumnTypes DEF StatusOf
  <2>2. "PLANNED" \in Status
    BY DEF Status
  <2> QED BY <2>1, <2>2 DEF fold_events, LastWrite
<1>3. /\ s.last_event_id \in Nat /\ s.last_event_at \in Nat \cup {None}
      /\ s.sent_at \in Nat \cup {None} /\ s.acknowledged_at \in Nat \cup {None}
      /\ s.resolved_at \in Nat \cup {None}
  BY <1>1 DEF fold_events, LastWrite, IdOf, OccurredAt, EventRecord
<1>4. s.deadline_at \in Int \cup {None} /\ s.reminders_sent \in Int
  BY <1>1, ColumnTypes DEF fold_events, LastWrite
<1>5. s.escalation_level \in 0..2
  BY <1>1, ColumnTypes DEF fold_events, LastWrite
<1>6. s.next_action_at = None
  BY DEF fold_events
<1>7. s = [current_status |-> s.current_status, last_event_id |-> s.last_event_id,
           last_event_at |-> s.last_event_at, sent_at |-> s.sent_at,
           acknowledged_at |-> s.acknowledged_at, resolved_at |-> s.resolved_at,
           deadline_at |-> s.deadline_at, next_action_at |-> s.next_action_at,
           reminders_sent |-> s.reminders_sent,
           escalation_level |-> s.escalation_level]
  BY DEF fold_events
<1>8. s \in ProjectionState
  <2> HIDE DEF s
  <2> QED BY <1>2, <1>3, <1>4, <1>5, <1>6, <1>7 DEF ProjectionState
<1>9. s.last_event_id = 0 \/ \E e \in E : s.last_event_id = e.id
  BY LatestWriter DEF fold_events, LastWrite, IdOf
<1> QED BY <1>8, <1>9

\* The replay of no row is the blank state.
LEMMA FoldBlank == fold_events({}) = Blank
<1>1. \A T : Writers({}, T) = {}
  BY DEF Writers
<1> QED BY <1>1 DEF fold_events, LastWrite, Blank

-----------------------------------------------------------------------------
(***************************************************************************)
(* The event store.                                                        *)
(***************************************************************************)

\* AUTOINCREMENT hands out ids above every id in the log and above every
\* last_event_id in request_state.
IdsBelow ==
    /\ \A e \in request_events : e.id < next_event_id
    /\ \A r \in Requests :
         request_state[r] # None => request_state[r].last_event_id < next_event_id

\* A stored projection is fresh, or the log holds an id it has not seen.
FreshOrBehind ==
    \A r \in Requests :
      request_state[r] # None =>
        \/ Fresh(r)
        \/ \E e \in RowsOf(r) : e.id > request_state[r].last_event_id

\* StaleIsDirty is not inductive: it says nothing of the ids still to come
\* (IdsBelow), nor that CHOOSE finds the last writer of a column
\* (WellOrdered).
IInv == /\ TypeOK
        /\ IdsBelow
        /\ WellOrdered(request_events)
        /\ FreshOrBehind
        /\ RebuildHeals

\* The row upsert_state_tx stores has the column types and an id of the log.
LEMMA RowType ==
  ASSUME NEW E \in SUBSET EventRecord(Requests), WellOrdered(E), NEW r \in Requests
  PROVE  LET row == RowOf(fold_events({e \in E : e.request_id = r})) IN
         /\ row \in ProjectionState
         /\ row # None
         /\ row.last_event_id = 0 \/ \E e \in E : row.last_event_id = e.id
<1> DEFINE S == {e \in E : e.request_id = r}
           f == fold_events(S)
<1>1. S \in SUBSET EventRecord(Requests) /\ WellOrdered(S)
  BY DEF WellOrdered
<1>2. f \in ProjectionState /\ (f.last_event_id = 0 \/ \E e \in S : f.last_event_id = e.id)
  <2> HIDE DEF S
  <2> QED BY <1>1, FoldType
<1> HIDE DEF f
<1>3. RowOf(f) \in ProjectionState /\ RowOf(f).last_event_id = f.last_event_id
  BY <1>2 DEF RowOf, ProjectionState
<1>4. RowOf(f) # None
  BY <1>3, StoreAssumption
<1> QED BY <1>2, <1>3, <1>4 DEF f

\* A row added to the log by append_event_tx keeps the log typed, ordered
\* and below the next id.
LEMMA AppendKeepsLog ==
  ASSUME IInv, NEW e, e \in EventRecord(Requests), e.id = next_event_id,
         append_event_tx(e)
  PROVE  /\ request_events' \in SUBSET EventRecord(Requests)
         /\ next_event_id' \in Nat \ {0}
         /\ next_event_id' = next_event_id + 1
         /\ \A f \in request_events' : f.id < next_event_id'
         /\ WellOrdered(request_events)'
         /\ \A r \in Requests \ {e.request_id} : RowsOf(r)' = RowsOf(r)
         /\ e \in RowsOf(e.request_id)'
<1> USE DEF append_event_tx, IInv, TypeOK
<1>1. Rows(request_events \cup {e})
  BY DEF Rows, EventRecord
<1>2. \A f \in request_events : f.id # e.id
  BY DEF IdsBelow, EventRecord
<1>3. WellOrdered(request_events \cup {e})
  BY <1>1, <1>2, WellOrderedExtend
<1>4. WellOrdered(request_events)'
  BY <1>3 DEF WellOrdered
<1>5. \A f \in request_events' : f.id < next_event_id'
  BY DEF IdsBelow, EventRecord
<1>6. \A r \in Requests \ {e.request_id} : RowsOf(r)' = RowsOf(r)
  BY DEF RowsOf
<1>7. e \in RowsOf(e.request_id)'
  BY DEF RowsOf
<1> QED BY <1>4, <1>5, <1>6, <1>7

\* append_event and foreign rows: the projection stays, and the new id is
\* one it has not seen.
LEMMA AppendOnly ==
  ASSUME IInv, NEW e, e \in EventRecord(Requests), e.id = next_event_id,
         append_event_tx(e), ~rebuilding,
         UNCHANGED <<requests, request_state, rebuilding, dirty>>
  PROVE  IInv'
<1>0. /\ request_events' \in SUBSET EventRecord(Requests)
      /\ next_event_id' \in Nat \ {0}
      /\ next_event_id' = next_event_id + 1
      /\ \A f \in request_events' : f.id < next_event_id'
      /\ WellOrdered(request_events)'
      /\ \A r \in Requests \ {e.request_id} : RowsOf(r)' = RowsOf(r)
      /\ e \in RowsOf(e.request_id)'
  BY AppendKeepsLog
<1>1. TypeOK'
  BY <1>0 DEF IInv, TypeOK
<1>2. IdsBelow'
  BY <1>0 DEF IInv, IdsBelow, TypeOK, ProjectionState
<1>3. FreshOrBehind'
  <2> SUFFICES ASSUME NEW r \in Requests, request_state'[r] # None
               PROVE  \/ Fresh(r)'
                      \/ \E f \in RowsOf(r)' : f.id > request_state'[r].last_event_id
    BY DEF FreshOrBehind
  <2>1. CASE r = e.request_id
    BY <1>0, <2>1 DEF IInv, IdsBelow, TypeOK, ProjectionState
  <2>2. CASE r # e.request_id
    BY <1>0, <2>2 DEF IInv, FreshOrBehind, Fresh
  <2> QED BY <2>1, <2>2
<1>4. RebuildHeals'
  BY DEF RebuildHeals
<1> QED BY <1>0, <1>1, <1>2, <1>3, <1>4 DEF IInv

\* upsert_state_tx stores a typed row whose last_event_id is below the next id.
LEMMA UpsertType ==
  ASSUME IInv, NEW r \in Requests, upsert_state_tx(r, request_events'),
         request_events' \in SUBSET EventRecord(Requests),
         WellOrdered(request_events'),
         next_event_id' \in Nat, next_event_id' >= next_event_id,
         \A f \in request_events' : f.id < next_event_id'
  PROVE  /\ request_state' \in [Requests -> ProjectionState \cup {None}]
         /\ IdsBelow'
<1> DEFINE row == RowOf(fold_events({f \in request_events' : f.request_id = r}))
<1>1. /\ row \in ProjectionState
      /\ row # None
      /\ row.last_event_id = 0 \/ \E f \in request_events' : row.last_event_id = f.id
  BY RowType
<1>2. request_state' = [request_state EXCEPT ![r] = row]
  BY DEF upsert_state_tx
<1> HIDE DEF row
<1>3. request_state' \in [Requests -> ProjectionState \cup {None}]
  BY <1>1, <1>2 DEF IInv, TypeOK
<1>4. next_event_id' > 0
  BY DEF IInv, TypeOK
<1>5. row.last_event_id < next_event_id'
  BY <1>1, <1>4
<1>6. \A q \in Requests : request_state[q] # None =>
        request_state[q].last_event_id < next_event_id'
  <2> SUFFICES ASSUME NEW q \in Requests, request_state[q] # None
               PROVE  request_state[q].last_event_id < next_event_id'
    OBVIOUS
  <2>1. request_state[q] \in ProjectionState /\ next_event_id \in Nat
    BY DEF IInv, TypeOK
  <2>2. request_state[q].last_event_id \in Nat
    BY <2>1 DEF ProjectionState
  <2> QED BY <2>1, <2>2 DEF IInv, IdsBelow
<1>7. \A q \in Requests : request_state'[q] # None =>
        request_state'[q].last_event_id < next_event_id'
  BY <1>2, <1>5, <1>6 DEF IInv, TypeOK
<1> QED BY <1>3, <1>7 DEF IdsBelow

\* upsert_state_tx over the log of this step (grown or not) leaves r fresh
\* and the other requests as they were.
LEMMA UpsertFresh ==
  ASSUME IInv, TypeOK', WellOrdered(request_events)', IdsBelow',
         NEW r \in Requests, upsert_state_tx(r, request_events'),
         \A q \in Requests \ {r} : RowsOf(q)' = RowsOf(q)
  PROVE  Fresh(r)' /\ FreshOrBehind'
<1>1. Fresh(r)'
  BY DEF upsert_state_tx, Fresh, RowsOf, IInv, TypeOK
<1>2. \A q \in Requests \ {r} : request_state'[q] = request_state[q]
  BY DEF upsert_state_tx, IInv, TypeOK
<1>3. FreshOrBehind'
  BY <1>1, <1>2 DEF FreshOrBehind, Fresh, IInv
<1> QED BY <1>1, <1>3

\* Store::append_and_project, whatever its caller passes: the log gains one
\* row, the request's projection is fresh and the other requests' rows and
\* projections stay.
LEMMA AppendAndProject ==
  ASSUME IInv, NEW r \in Requests, NEW t \in EventType \cup UnknownType,
         NEW n \in Int \cup {None}, NEW at \in Nat, append_and_project(r, t, n, at)
  PROVE  /\ IInv'
         /\ Fresh(r)'
         /\ NewRow(r, t, n, at, TRUE) \in EventRecord(Requests)
         /\ RowsOf(r)' = RowsOf(r) \cup {NewRow(r, t, n, at, TRUE)}
         /\ \A q \in Requests \ {r} : /\ RowsOf(q)' = RowsOf(q)
                                       /\ request_state'[q] = request_state[q]
<1> DEFINE e == NewRow(r, t, n, at, TRUE)
<1>1. e \in EventRecord(Requests) /\ e.id = next_event_id /\ e.request_id = r
  BY DEF NewRow, EventRecord, IInv, TypeOK
<1>2. /\ append_event_tx(e) /\ ~rebuilding
      /\ upsert_state_tx(r, request_events')
      /\ UNCHANGED <<requests, rebuilding, dirty>>
  BY DEF append_and_project
<1> HIDE DEF e
<1>3. /\ request_events' \in SUBSET EventRecord(Requests)
      /\ next_event_id' \in Nat \ {0}
      /\ next_event_id' = next_event_id + 1
      /\ \A f \in request_events' : f.id < next_event_id'
      /\ WellOrdered(request_events')
      /\ \A q \in Requests \ {r} : RowsOf(q)' = RowsOf(q)
  <2>1. WellOrdered(request_events)' => WellOrdered(request_events')
    BY DEF WellOrdered
  <2> QED BY <1>1, <1>2, <2>1, AppendKeepsLog
<1>4. request_state' \in [Requests -> ProjectionState \cup {None}] /\ IdsBelow'
  <2>1. next_event_id' >= next_event_id
    BY <1>3 DEF IInv, TypeOK
  <2> QED BY <1>2, <1>3, <2>1, UpsertType
<1>5. TypeOK'
  BY <1>2, <1>3, <1>4 DEF IInv, TypeOK
<1>6. WellOrdered(request_events)'
  BY <1>3 DEF WellOrdered
<1>7. Fresh(r)' /\ FreshOrBehind'
  BY <1>2, <1>3, <1>4, <1>5, <1>6, UpsertFresh
<1>8. RebuildHeals'
  BY <1>2 DEF RebuildHeals
<1>9. IInv'
  BY <1>4, <1>5, <1>6, <1>7, <1>8 DEF IInv
<1>10. RowsOf(r)' = RowsOf(r) \cup {e}
  BY <1>1, <1>2 DEF append_event_tx, RowsOf
<1>11. \A q \in Requests \ {r} : request_state'[q] = request_state[q]
  BY <1>2 DEF upsert_state_tx, IInv, TypeOK
<1> QED BY <1>1, <1>3, <1>7, <1>9, <1>10, <1>11 DEF e

\* The query of rebuild_all_states lists every request that is not fresh.
LEMMA QueryFindsStale ==
  ASSUME IInv, NEW r \in requests, r \notin dirty_requests, RowsOf(r) # {}
  PROVE  Fresh(r)
BY DEF IInv, TypeOK, FreshOrBehind, dirty_requests

\* The invariant holds after every operation.
LEMMA Preserved == IInv /\ [Next]_vars => IInv'
<1> SUFFICES ASSUME IInv, [Next]_vars PROVE IInv'
  OBVIOUS
<1>1. ASSUME NEW r \in Requests, create_removal_request(r)
      PROVE  IInv'
  BY <1>1 DEF create_removal_request, IInv, TypeOK, IdsBelow, WellOrdered,
              FreshOrBehind, Fresh, RowsOf, RebuildHeals
<1>2. ASSUME NEW r \in Requests, upsert_state(r)
      PROVE  IInv'
  <2>0. RowsOf(r)' = RowsOf(r) /\ \A q \in Requests : RowsOf(q)' = RowsOf(q)
    BY <1>2 DEF upsert_state, RowsOf
  <2>1. upsert_state_tx(r, request_events')
    BY <1>2 DEF upsert_state
  <2>2. TypeOK' /\ IdsBelow' /\ WellOrdered(request_events)'
    <3>1. /\ request_events' = request_events /\ next_event_id' = next_event_id
          /\ WellOrdered(request_events') /\ WellOrdered(request_events)'
      BY <1>2 DEF upsert_state, IInv, WellOrdered
    <3>2. request_state' \in [Requests -> ProjectionState \cup {None}] /\ IdsBelow'
      BY <2>1, <3>1, UpsertType DEF IInv, TypeOK, IdsBelow
    <3> QED BY <1>2, <3>1, <3>2 DEF upsert_state, IInv, TypeOK
  <2>3. FreshOrBehind'
    BY <2>0, <2>1, <2>2, UpsertFresh
  <2>4. RebuildHeals'
    BY <1>2 DEF upsert_state, RebuildHeals
  <2> QED BY <2>2, <2>3, <2>4 DEF IInv
<1>3. ASSUME NEW r \in Requests, NEW t \in Types, NEW n \in Numbers,
             NEW at \in Times, append_event(r, t, n, at)
      PROVE  IInv'
  <2> DEFINE e == NewRow(r, t, n, at, TRUE)
  <2>1. e \in EventRecord(Requests) /\ e.id = next_event_id
    BY StoreAssumption DEF NewRow, EventRecord, IInv, TypeOK
  <2>2. append_event_tx(e) /\ ~rebuilding
        /\ UNCHANGED <<requests, request_state, rebuilding, dirty>>
    BY <1>3 DEF append_event
  <2> HIDE DEF e
  <2> QED BY <2>1, <2>2, AppendOnly
<1>4. ASSUME NEW r \in Requests, NEW t \in Types, NEW n \in Numbers,
             NEW at \in Times, NEW d \in BOOLEAN, foreign_row(r, t, n, at, d)
      PROVE  IInv'
  <2> DEFINE e == NewRow(r, t, n, at, d)
  <2>1. e \in EventRecord(Requests) /\ e.id = next_event_id
    BY StoreAssumption DEF NewRow, EventRecord, IInv, TypeOK
  <2>2. append_event_tx(e) /\ ~rebuilding
        /\ UNCHANGED <<requests, request_state, rebuilding, dirty>>
    BY <1>4 DEF foreign_row
  <2> HIDE DEF e
  <2> QED BY <2>1, <2>2, AppendOnly
<1>5. ASSUME NEW r \in Requests, NEW t \in Types, NEW n \in Numbers,
             NEW at \in Times, append_and_project(r, t, n, at)
      PROVE  IInv'
  BY <1>5, AppendAndProject, StoreAssumption
<1>6. ASSUME rebuild_all_states
      PROVE  IInv'
  <2>1. \A r \in requests \ dirty_requests : RowsOf(r) # {} => Fresh(r)
    BY QueryFindsStale
  <2>2. RebuildHeals'
    BY <1>6, <2>1 DEF rebuild_all_states, RebuildHeals, Fresh, RowsOf
  <2> QED BY <1>6, <2>2
          DEF rebuild_all_states, dirty_requests, IInv, TypeOK, IdsBelow,
              WellOrdered, FreshOrBehind, Fresh, RowsOf
<1>7. ASSUME NEW r \in Requests, rebuild_one(r)
      PROVE  IInv'
  <2>0. \A q \in Requests : RowsOf(q)' = RowsOf(q)
    BY <1>7 DEF rebuild_one, RowsOf
  <2>1. upsert_state_tx(r, request_events')
    BY <1>7 DEF rebuild_one
  <2>2. TypeOK' /\ IdsBelow' /\ WellOrdered(request_events)'
    <3>1. /\ request_events' = request_events /\ next_event_id' = next_event_id
          /\ WellOrdered(request_events') /\ WellOrdered(request_events)'
      BY <1>7 DEF rebuild_one, IInv, WellOrdered
    <3>2. request_state' \in [Requests -> ProjectionState \cup {None}] /\ IdsBelow'
      BY <2>1, <3>1, UpsertType DEF IInv, TypeOK, IdsBelow
    <3> QED BY <1>7, <3>1, <3>2 DEF rebuild_one, IInv, TypeOK
  <2>3. Fresh(r)' /\ FreshOrBehind'
    BY <2>0, <2>1, <2>2, UpsertFresh
  <2>4. RebuildHeals'
    BY <1>7, <2>0, <2>3
       DEF rebuild_one, upsert_state_tx, RebuildHeals, Fresh, IInv, TypeOK
  <2> QED BY <2>2, <2>3, <2>4 DEF IInv
<1>8. ASSUME rebuild_done \/ rebuild_cut
      PROVE  IInv'
  <2>1. /\ UNCHANGED <<requests, request_events, next_event_id, request_state>>
        /\ rebuilding' = FALSE /\ dirty' = {}
    BY <1>8 DEF rebuild_done, rebuild_cut
  <2>2. TypeOK' /\ IdsBelow' /\ WellOrdered(request_events)'
    BY <2>1 DEF IInv, TypeOK, IdsBelow, WellOrdered
  <2>3. FreshOrBehind'
    BY <2>1 DEF IInv, FreshOrBehind, Fresh, RowsOf
  <2>4. RebuildHeals'
    BY <2>1 DEF RebuildHeals
  <2> QED BY <2>2, <2>3, <2>4 DEF IInv
<1>9. CASE UNCHANGED vars
  BY <1>9 DEF vars, IInv, TypeOK, IdsBelow, WellOrdered, FreshOrBehind, Fresh,
              RowsOf, RebuildHeals
<1> QED
  BY <1>1, <1>2, <1>3, <1>4, <1>5, <1>6, <1>7, <1>8, <1>9
     DEF Next, WriteRow, Rebuild

\* The invariant holds of an empty database.
LEMMA Established == Init => IInv
<1> SUFFICES ASSUME Init PROVE IInv
  OBVIOUS
<1>1. TypeOK
  <2>1. rebuilding \in BOOLEAN /\ requests \subseteq Requests /\ dirty \subseteq Requests
        /\ request_events \subseteq EventRecord(Requests)
    BY Zenon DEF Init
  <2>2. next_event_id \in Nat \ {0}
    BY DEF Init
  <2>3. request_state \in [Requests -> ProjectionState \cup {None}]
    BY Zenon DEF Init
  <2> QED BY <2>1, <2>2, <2>3 DEF TypeOK
<1>2. IdsBelow /\ FreshOrBehind
  BY DEF Init, IdsBelow, FreshOrBehind
<1>3. WellOrdered(request_events)
  BY DEF Init, WellOrdered
<1>4. RebuildHeals
  BY DEF Init, RebuildHeals
<1> QED BY <1>1, <1>2, <1>3, <1>4 DEF IInv

\* The tables keep their column types.
THEOREM TypeCorrect == Spec => []TypeOK
<1>1. IInv => TypeOK
  BY DEF IInv
<1> QED BY Established, Preserved, <1>1, PTL DEF Spec

\* The query of rebuild_all_states never misses a stale projection.
THEOREM StaleAlwaysFound == Spec => []StaleIsDirty
<1>1. IInv => StaleIsDirty
  BY QueryFindsStale DEF StaleIsDirty
<1> QED BY Established, Preserved, <1>1, PTL DEF Spec

\* rebuild_all_states leaves no stale projection behind.
THEOREM RebuildRepairs == Spec => []RebuildHeals
<1>1. IInv => RebuildHeals
  BY DEF IInv
<1> QED BY Established, Preserved, <1>1, PTL DEF Spec

=============================================================================
