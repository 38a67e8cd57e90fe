--------------------------- MODULE DeadlinesProofs ---------------------------
(***************************************************************************)
(* Replies and ticks on one log, for any number of requests, replies and   *)
(* days: no reply is recorded twice, a tick never applies a decision that  *)
(* has become stale, and reminders back off.                               *)
(***************************************************************************)
EXTENDS Deadlines, EventStoreProofs, FiniteSetTheorems

Reply == [request_id : Requests, class : Classes, received_at : Times,
          classified : BOOLEAN]

\* The tables, between two transactions.
StoreInv == IInv /\ ~rebuilding /\ IsFiniteSet(request_events)

\* Reply j is not newer than reply i.
NotNewer(j, i) ==
    \/ inbox_replies[j].received_at < inbox_replies[i].received_at
    \/ inbox_replies[j].received_at = inbox_replies[i].received_at /\ j <= i

\* Replies can be sorted: CHOOSE finds the newest of them.
Sortable ==
    \A S \in SUBSET DOMAIN inbox_replies :
      S # {} => \E i \in S : \A j \in S : NotNewer(j, i)

\* The tables of triage.
TriageInv ==
    /\ today \in Times
    /\ inbox_replies \in Seq(Reply)
    /\ classifying \in DOMAIN inbox_replies \cup {None}
    /\ Sortable

\* The reply that is marked and whose event is still to be appended.
Marked(r, t) ==
    /\ classifying # None
    /\ inbox_replies[classifying].request_id = r
    /\ classification_event(inbox_replies[classifying].class) = t

\* OneEventPerReply is not inductive: the reply that is marked leaves room
\* for the event that is still to come.
RoomForEvent ==
    \A r \in Requests, c \in Classes :
      LET t == classification_event(c) IN
        Cardinality(EventsFor(r, t)) + (IF Marked(r, t) THEN 1 ELSE 0)
          <= Cardinality(ClassifiedAs(r, t))

\* The actions of a running tick.
TickTypes == {"REMINDER_SENT", "DEADLINE_REACHED", "DPA_COMPLAINT_DRAFTED",
              "RE_SCAN_TRIGGERED"}
Decision == [request_id : Requests,
             action : [event_type : TickTypes, number : Int \cup {None}]]

\* The status an action was decided on.
DecidedOn(t) ==
    CASE t = "REMINDER_SENT" -> "AWAITING_ACK"
      [] t = "DEADLINE_REACHED" -> "AWAITING_RESPONSE"
      [] t = "DPA_COMPLAINT_DRAFTED" -> "OVERDUE"
      [] t = "RE_SCAN_TRIGGERED" -> "CONFIRMED"

\* What is still to be applied is one action per request, and right.
DueInv ==
    due # None =>
      /\ due \in SUBSET Decision
      /\ \A d \in due :
           /\ d.request_id \in requests
           /\ request_state[d.request_id].current_status = DecidedOn(d.action.event_type)
      /\ \A d, e \in due : d.request_id = e.request_id => d = e

DInv == StoreInv /\ TriageInv /\ RoomForEvent /\ DueInv

\* run_tick would decide this now.
Decided(d) ==
    /\ request_state[d.request_id] # None
    /\ d.action \in actions_for_candidate(request_state[d.request_id])

\* Every row can be replayed, is not later than today and is projected at
\* once, and what is due is still what run_tick would decide.
UpToDate ==
    /\ \A e \in request_events :
         Replayable(e) /\ e.occurred_at \in Times /\ e.occurred_at <= today
    /\ \A r \in Requests : RowsOf(r) # {} \/ request_state[r] # None => Fresh(r)
    /\ due # None => \A d \in due : Decided(d)

\* There are at most K reminders of r, the last of them carries their number
\* and left in its time after the request was sent.
BackedOff(r, K) ==
    LET reminders == EventsFor(r, "REMINDER_SENT")
        m == Cardinality(reminders)
    IN  /\ m <= K
        /\ m > 0 =>
             /\ EventsFor(r, "SENT") # {}
             /\ Reminders(Latest(reminders)) = m
             /\ Latest(reminders).occurred_at
                  >= Latest(EventsFor(r, "SENT")).occurred_at + REMINDER_DAYS * 2^(m - 1)

BackoffInv(K) == DInv /\ UpToDate /\ \A r \in Requests : BackedOff(r, K)

\* The waiting time before the (K+1)-st reminder is longer than all of the
\* days, and none up to it overflows.
LongEnough(K) ==
    /\ K \in Nat /\ K < Bits /\ K < Half
    /\ \A k \in 0..K : 2^k \in Nat /\ 2^k < Half /\ REMINDER_DAYS * 2^k < Half
    /\ \A t, u \in Times : t - u < REMINDER_DAYS * 2^K

-----------------------------------------------------------------------------
(***************************************************************************)
(* Decisions.                                                              *)
(***************************************************************************)

\* Counting wraps around and stays in the integers.
LEMMA WrapType ==
    ASSUME NEW x \in Int
    PROVE  wrap(x) \in Int
<1>1. Half \in Nat /\ Half > 0
  BY DeadlinesAssumption
<1>2. (x + Half) % (2 * Half) \in Int
  BY <1>1
<1> QED
  BY <1>1, <1>2 DEF wrap

\* actions_for_candidate decides on at most one action, from the closed
\* catalogue, and each kind on one status.
LEMMA OneAction ==
    ASSUME NEW s \in ProjectionState
    PROVE  /\ \A a \in actions_for_candidate(s) :
                /\ a \in [event_type : TickTypes, number : Int \cup {None}]
                /\ s.current_status = DecidedOn(a.event_type)
           /\ \A a, b \in actions_for_candidate(s) : a = b
<1>1. wrap(s.reminders_sent + 1) \in Int
  BY WrapType DEF ProjectionState
<1>2. CASE s.current_status = "AWAITING_ACK"
  <2>1. actions_for_candidate(s) = reminder(s)
    BY <1>2 DEF actions_for_candidate
  <2> QED
    BY <1>1, <1>2, <2>1 DEF reminder, Act, DecidedOn, TickTypes
<1>3. CASE s.current_status = "AWAITING_RESPONSE"
  <2>1. actions_for_candidate(s) = deadline(s)
    BY <1>3 DEF actions_for_candidate
  <2> QED
    BY <1>3, <2>1 DEF deadline, Act, DecidedOn, TickTypes
<1>4. CASE s.current_status = "OVERDUE"
  <2>1. actions_for_candidate(s) = dpa(s)
    BY <1>4 DEF actions_for_candidate
  <2> QED
    BY <1>4, <2>1 DEF dpa, Act, DecidedOn, TickTypes
<1>5. CASE s.current_status = "CONFIRMED"
  <2>1. actions_for_candidate(s) = rescan(s)
    BY <1>5 DEF actions_for_candidate
  <2> QED
    BY <1>5, <2>1 DEF rescan, Act, DecidedOn, TickTypes
<1>6. CASE s.current_status \notin {"AWAITING_ACK", "AWAITING_RESPONSE", "OVERDUE", "CONFIRMED"}
  <2>1. actions_for_candidate(s) = {}
    BY <1>6 DEF actions_for_candidate
  <2> QED
    BY <2>1
<1> QED
  BY <1>2, <1>3, <1>4, <1>5, <1>6

\* What run_tick returns is right at that moment.
LEMMA TickDecides ==
    ASSUME StoreInv
    PROVE  /\ run_tick \in SUBSET Decision
           /\ \A d \in run_tick :
                /\ d.request_id \in requests
                /\ request_state[d.request_id].current_status
                     = DecidedOn(d.action.event_type)
           /\ \A d, e \in run_tick : d.request_id = e.request_id => d = e
<1>1. \A r \in Tickable : /\ r \in requests /\ r \in Requests
                          /\ request_state[r] \in ProjectionState
  BY DEF Tickable, StoreInv, IInv, TypeOK
<1>2. ASSUME NEW d \in run_tick
      PROVE  \E r \in Tickable : \E a \in actions_for_candidate(request_state[r]) :
               d = [request_id |-> r, action |-> a]
  BY <1>2 DEF run_tick
<1>3. ASSUME NEW d \in run_tick
      PROVE  /\ d \in Decision
             /\ d.request_id \in requests
             /\ request_state[d.request_id].current_status = DecidedOn(d.action.event_type)
  <2>1a. PICK r \in Tickable : \E a \in actions_for_candidate(request_state[r]) :
               d = [request_id |-> r, action |-> a]
    BY <1>2
  <2>1. PICK a \in actions_for_candidate(request_state[r]) :
               d = [request_id |-> r, action |-> a]
    BY <2>1a, <1>3
  <2>2. /\ a \in [event_type : TickTypes, number : Int \cup {None}]
        /\ request_state[r].current_status = DecidedOn(a.event_type)
    BY <1>1, OneAction
  <2> QED
    BY <1>1, <2>1, <2>2 DEF Decision
<1>4. ASSUME NEW d \in run_tick, NEW e \in run_tick, d.request_id = e.request_id
      PROVE  d = e
  <2>1a. PICK r \in Tickable : \E a \in actions_for_candidate(request_state[r]) :
               d = [request_id |-> r, action |-> a]
    BY <1>2
  <2>1. PICK a \in actions_for_candidate(request_state[r]) :
               d = [request_id |-> r, action |-> a]
    BY <2>1a, <1>4
  <2>2a. PICK q \in Tickable : \E b \in actions_for_candidate(request_state[q]) :
               e = [request_id |-> q, action |-> b]
    BY <1>2
  <2>2. PICK b \in actions_for_candidate(request_state[q]) :
               e = [request_id |-> q, action |-> b]
    BY <2>2a, <1>4
  <2>3. r = q
    BY <1>4, <2>1, <2>2
  <2>4. a = b
    BY <1>1, <2>3, OneAction
  <2> QED
    BY <2>1, <2>2, <2>3, <2>4
<1> QED
  BY <1>3, <1>4

-----------------------------------------------------------------------------
(***************************************************************************)
(* The log.                                                                *)
(***************************************************************************)

\* One transaction of a command: one row more, in one request.
LEMMA AppendOne ==
    ASSUME StoreInv, NEW r \in Requests, NEW t \in EventType, NEW n \in Int \cup {None},
           NEW at \in Times, append_and_project(r, t, n, at)
    PROVE  /\ StoreInv' /\ requests' = requests /\ r \in requests
           /\ \E e \in EventRecord(Requests) :
                /\ e.request_id = r /\ e.event_type = t /\ e \notin request_events
                /\ request_events' = request_events \cup {e}
           /\ \A q \in Requests \ {r} : request_state'[q] = request_state[q]
<1>1. PICK e : e = NewRow(r, t, n, at, TRUE)
  OBVIOUS
<1>2. at \in Nat /\ t \in EventType \cup UnknownType
  BY StoreAssumption
<1>3. /\ IInv' /\ e \in EventRecord(Requests)
      /\ \A q \in Requests \ {r} : request_state'[q] = request_state[q]
  BY <1>1, <1>2, AppendAndProject DEF StoreInv
<1>4. /\ ~rebuilding /\ r \in requests /\ append_event_tx(e)
      /\ UNCHANGED <<requests, rebuilding, dirty>>
  BY <1>1 DEF append_and_project
<1>5. request_events' = request_events \cup {e}
  BY <1>4 DEF append_event_tx
<1>6. e.request_id = r /\ e.event_type = t /\ e.id = next_event_id
  BY <1>1 DEF NewRow
<1>7. e \notin request_events
  <2>1. next_event_id \in Nat /\ \A f \in request_events : f.id < next_event_id
    BY DEF StoreInv, IInv, TypeOK, IdsBelow
  <2> QED
    BY <1>6, <2>1
<1>8. IsFiniteSet(request_events')
  BY <1>5, FS_AddElement DEF StoreInv
<1> QED
  BY <1>3, <1>4, <1>5, <1>6, <1>7, <1>8 DEF StoreInv

\* The events of a classification, one more or the same.
LEMMA EventsAfter ==
    ASSUME NEW e, request_events' = request_events \cup {e}, NEW r, NEW t
    PROVE  EventsFor(r, t)' = EventsFor(r, t)
             \cup (IF e.request_id = r /\ e.event_type = t THEN {e} ELSE {})
BY DEF EventsFor, RowsOf

\* Events and replies can be counted.
LEMMA Countable ==
    ASSUME StoreInv, TriageInv, NEW r, NEW t
    PROVE  /\ IsFiniteSet(EventsFor(r, t)) /\ Cardinality(EventsFor(r, t)) \in Nat
           /\ IsFiniteSet(ClassifiedAs(r, t)) /\ Cardinality(ClassifiedAs(r, t)) \in Nat
<1>1. EventsFor(r, t) \in SUBSET request_events
  BY DEF EventsFor, RowsOf
<1>2. PICK n \in Nat : DOMAIN inbox_replies = 1..n
  BY DEF TriageInv
<1>3. IsFiniteSet(DOMAIN inbox_replies)
  BY <1>2, FS_Interval
<1>4. ClassifiedAs(r, t) \in SUBSET DOMAIN inbox_replies
  BY DEF ClassifiedAs, RepliesOf
<1>5. IsFiniteSet(EventsFor(r, t)) /\ IsFiniteSet(ClassifiedAs(r, t))
  BY <1>1, <1>3, <1>4, FS_Subset DEF StoreInv
<1> QED
  BY <1>5, FS_CardinalityType

\* Only classifications write the events of classifications.
LEMMA ClassificationTypes ==
    ASSUME NEW c \in Classes
    PROVE  /\ classification_event(c) \in EventType
           /\ classification_event(c) \notin TickTypes \cup {"SENT", "REBUTTAL_SENT"}
<1>1. c \in Classification
  BY TriageAssumption
<1> QED
  BY <1>1 DEF Classification, classification_event, EventType, TickTypes

-----------------------------------------------------------------------------
(***************************************************************************)
(* Replies.                                                                *)
(***************************************************************************)

\* A step that neither classifies a reply nor records a classification.
LEMMA SameReplies ==
    ASSUME StoreInv, TriageInv, RoomForEvent, UNCHANGED inbox_replies,
           classifying' = classifying \/ classifying' = None,
           \A r \in Requests, c \in Classes :
             EventsFor(r, classification_event(c))' = EventsFor(r, classification_event(c))
    PROVE  RoomForEvent'
<1> SUFFICES ASSUME NEW r \in Requests, NEW c \in Classes, NEW t, t = classification_event(c)
             PROVE  Cardinality(EventsFor(r, t)') + (IF Marked(r, t)' THEN 1 ELSE 0)
                      <= Cardinality(ClassifiedAs(r, t)')
  BY DEF RoomForEvent
<1>1. ClassifiedAs(r, t)' = ClassifiedAs(r, t)
  BY DEF ClassifiedAs, RepliesOf
<1>2. EventsFor(r, t)' = EventsFor(r, t)
  OBVIOUS
<1>3. Cardinality(EventsFor(r, t)) \in Nat /\ Cardinality(ClassifiedAs(r, t)) \in Nat
  BY Countable
<1>4. Cardinality(EventsFor(r, t)) + (IF Marked(r, t) THEN 1 ELSE 0)
        <= Cardinality(ClassifiedAs(r, t))
  BY DEF RoomForEvent
<1>5. Marked(r, t)' => Marked(r, t)
  BY DEF Marked
<1> QED
  BY <1>1, <1>2, <1>3, <1>4, <1>5

\* A row of any other type is none of them.
LEMMA OtherEvent ==
    ASSUME NEW e, request_events' = request_events \cup {e},
           e.event_type \in TickTypes \cup {"SENT", "REBUTTAL_SENT"},
           NEW r \in Requests, NEW c \in Classes
    PROVE  EventsFor(r, classification_event(c))' = EventsFor(r, classification_event(c))
<1>1. PICK t : t = classification_event(c)
  OBVIOUS
<1>2. e.event_type # t
  BY <1>1, ClassificationTypes
<1>3. EventsFor(r, t)' = EventsFor(r, t)
  <2>1. EventsFor(r, t)' = EventsFor(r, t)
             \cup (IF e.request_id = r /\ e.event_type = t THEN {e} ELSE {})
    BY EventsAfter
  <2> QED
    BY <1>2, <2>1
<1> QED
  BY <1>1, <1>3

\* The newest of the replies of a request that are not classified is one.
LEMMA NewestIsOne ==
    ASSUME TriageInv, NEW r, Unclassified(r) # {}
    PROVE  Newest(Unclassified(r)) \in Unclassified(r)
<1>1. Unclassified(r) \in SUBSET DOMAIN inbox_replies
  BY DEF Unclassified, RepliesOf
<1>2. \E i \in Unclassified(r) : \A j \in Unclassified(r) : NotNewer(j, i)
  BY <1>1 DEF TriageInv, Sortable
<1> QED
  BY <1>2 DEF Newest, NotNewer

\* A reply that arrives finds its place, and is not classified.
LEMMA ArrivalSorts ==
    ASSUME TriageInv, NEW m \in Reply, ~m.classified,
           inbox_replies' = Append(inbox_replies, m), UNCHANGED <<today, classifying>>
    PROVE  /\ TriageInv'
           /\ \A r, t : ClassifiedAs(r, t)' = ClassifiedAs(r, t)
           /\ \A r, t : Marked(r, t)' = Marked(r, t)
<1>1. PICK n \in Nat : DOMAIN inbox_replies = 1..n /\ n = Len(inbox_replies)
  BY DEF TriageInv
<1>2. /\ inbox_replies' \in Seq(Reply) /\ DOMAIN inbox_replies' = 1..(n + 1)
      /\ inbox_replies'[n + 1] = m
      /\ \A i \in 1..n : inbox_replies'[i] = inbox_replies[i] /\ i # n + 1
      /\ \A i \in 1..(n + 1) : i \in 1..n \/ i = n + 1
  BY <1>1 DEF TriageInv
<1>3. \A i \in DOMAIN inbox_replies' : inbox_replies'[i].received_at \in Nat
  <2>1. \A i \in DOMAIN inbox_replies' : inbox_replies'[i] \in Reply
    BY <1>2
  <2> QED
    BY <2>1, StoreAssumption DEF Reply
<1>4. Sortable'
  <2>1. PICK at \in [1..(n + 1) -> Nat] :
          \A j \in 1..(n + 1) : at[j] = inbox_replies'[j].received_at
    <3>1. [j \in 1..(n + 1) |-> inbox_replies'[j].received_at] \in [1..(n + 1) -> Nat]
      BY <1>2, <1>3
    <3> QED
      BY <3>1
  <2>2. \A j, k \in 1..(n + 1) :
          NotNewer(j, k)' <=> at[j] < at[k] \/ (at[j] = at[k] /\ j <= k)
    BY <2>1 DEF NotNewer
  <2>3. \A j, k \in 1..n : NotNewer(j, k) <=> at[j] < at[k] \/ (at[j] = at[k] /\ j <= k)
    BY <1>2, <2>1 DEF NotNewer
  <2>4. ASSUME NEW S \in SUBSET (1..(n + 1)), S # {}
        PROVE  \E i \in S : \A j \in S : at[j] < at[i] \/ (at[j] = at[i] /\ j <= i)
    <3>1. CASE S \ {n + 1} = {}
      <4>1. S = {n + 1}
        BY <2>4, <3>1
      <4> QED
        BY <1>1, <2>1, <4>1
    <3>2. CASE S \ {n + 1} # {}
      <4>1. S \ {n + 1} \in SUBSET (1..n)
        BY <1>2
      <4>2. PICK i \in S \ {n + 1} :
              \A j \in S \ {n + 1} : at[j] < at[i] \/ (at[j] = at[i] /\ j <= i)
        <5>1. PICK i \in S \ {n + 1} : \A j \in S \ {n + 1} : NotNewer(j, i)
          BY <1>1, <3>2, <4>1 DEF TriageInv, Sortable
        <5> QED
          BY <2>3, <4>1, <5>1
      <4>3. CASE n + 1 \notin S \/ at[n + 1] < at[i]
        BY <4>2, <4>3
      <4>4. CASE n + 1 \in S /\ ~(at[n + 1] < at[i])
        <5>1. \A j \in S : at[j] \in Nat /\ j \in Int /\ j <= n + 1
          BY <1>1, <2>1, <2>4
        <5>2. \A j \in S \ {n + 1} : at[j] <= at[i] /\ at[i] \in Nat
          BY <4>2, <5>1
        <5>3. at[i] <= at[n + 1]
          BY <4>2, <4>4, <5>1
        <5>4. ASSUME NEW j \in S PROVE at[j] <= at[n + 1]
          <6>1. at[n + 1] \in Nat /\ at[j] \in Nat
            BY <4>4, <5>1
          <6>2. CASE j = n + 1
            BY <6>1, <6>2
          <6>3. CASE j # n + 1
            <7>1. at[j] <= at[i] /\ at[i] \in Nat
              BY <5>2, <6>3
            <7> QED
              BY <5>3, <6>1, <7>1
          <6> QED
            BY <6>2, <6>3
        <5>5. \A j \in S : at[j] < at[n + 1] \/ (at[j] = at[n + 1] /\ j <= n + 1)
          BY <4>4, <5>1, <5>4
        <5> QED
          BY <4>4, <5>5
      <4> QED
        BY <4>3, <4>4
    <3> QED
      BY <3>1, <3>2
  <2>5. ASSUME NEW S \in SUBSET (1..(n + 1)), S # {}
        PROVE  \E i \in S : \A j \in S : NotNewer(j, i)'
    BY <2>2, <2>4, <2>5
  <2> QED
    BY <1>2, <2>5 DEF Sortable
<1>5. TriageInv'
  BY <1>1, <1>2, <1>4 DEF TriageInv
<1>6. \A r, t : ClassifiedAs(r, t)' = ClassifiedAs(r, t)
  BY <1>1, <1>2 DEF ClassifiedAs, RepliesOf
<1>7. None \notin DOMAIN inbox_replies
  BY <1>1, ProjectionAssumption
<1>8. \A r, t : Marked(r, t)' = Marked(r, t)
  BY <1>1, <1>2 DEF Marked, TriageInv
<1> QED
  BY <1>5, <1>6, <1>8

\* classify_reply marks one reply, which leaves room for its event.
LEMMA MarkMakesRoom ==
    ASSUME StoreInv, TriageInv, RoomForEvent, NEW r \in Requests, classify_reply(r)
    PROVE  TriageInv' /\ RoomForEvent'
<1>1. PICK i : i = Newest(Unclassified(r))
  OBVIOUS
<1>2. /\ classifying = None /\ Unclassified(r) # {} /\ classifying' = i
      /\ inbox_replies' = [inbox_replies EXCEPT ![i].classified = TRUE]
      /\ UNCHANGED <<vars, today>>
  BY <1>1 DEF classify_reply
<1>3. i \in Unclassified(r)
  BY <1>1, <1>2, NewestIsOne
<1>4. i \in DOMAIN inbox_replies /\ inbox_replies[i].request_id = r /\ ~inbox_replies[i].classified
  BY <1>3 DEF Unclassified, RepliesOf
<1>5. inbox_replies \in Seq(Reply) /\ inbox_replies[i] \in Reply
  BY <1>4 DEF TriageInv
<1>6. PICK m : m = [inbox_replies[i] EXCEPT !.classified = TRUE]
  OBVIOUS
<1>7. /\ m \in Reply /\ m.classified /\ m.request_id = r
      /\ m.class = inbox_replies[i].class /\ m.received_at = inbox_replies[i].received_at
  BY <1>4, <1>5, <1>6 DEF Reply
<1>8. inbox_replies' = [inbox_replies EXCEPT ![i] = m]
  BY <1>2, <1>6
<1>9. /\ inbox_replies' \in Seq(Reply) /\ DOMAIN inbox_replies' = DOMAIN inbox_replies
      /\ inbox_replies'[i] = m
      /\ \A j \in DOMAIN inbox_replies : j # i => inbox_replies'[j] = inbox_replies[j]
  BY <1>4, <1>5, <1>7, <1>8
<1>10. \A j \in DOMAIN inbox_replies :
         inbox_replies'[j].received_at = inbox_replies[j].received_at
  BY <1>7, <1>9
<1>11. Sortable'
  <2>1. \A j, k \in DOMAIN inbox_replies : NotNewer(j, k)' <=> NotNewer(j, k)
    BY <1>10 DEF NotNewer
  <2> QED
    BY <1>9, <2>1 DEF TriageInv, Sortable
<1>12. TriageInv'
  BY <1>2, <1>4, <1>9, <1>11 DEF TriageInv
<1>13. ASSUME NEW q \in Requests, NEW c \in Classes, NEW t, t = classification_event(c)
       PROVE  Cardinality(EventsFor(q, t)') + (IF Marked(q, t)' THEN 1 ELSE 0)
                <= Cardinality(ClassifiedAs(q, t)')
  <2>1. EventsFor(q, t)' = EventsFor(q, t)
    BY <1>2 DEF EventsFor, RowsOf, vars
  <2>2. Cardinality(EventsFor(q, t)) <= Cardinality(ClassifiedAs(q, t))
    <3>1. ~Marked(q, t)
      BY <1>2 DEF Marked
    <3>2. Cardinality(EventsFor(q, t)) + 0 <= Cardinality(ClassifiedAs(q, t))
      BY <1>13, <3>1 DEF RoomForEvent
    <3> QED
      BY <3>2, Countable
  <2>3. /\ Cardinality(EventsFor(q, t)) \in Nat
        /\ IsFiniteSet(ClassifiedAs(q, t)) /\ Cardinality(ClassifiedAs(q, t)) \in Nat
    BY Countable
  <2>4. CASE q = r /\ classification_event(m.class) = t
    <3>1. i \notin ClassifiedAs(q, t)
      BY <1>4 DEF ClassifiedAs
    <3>2. ClassifiedAs(q, t)' = ClassifiedAs(q, t) \cup {i}
      BY <1>4, <1>7, <1>9, <2>4 DEF ClassifiedAs, RepliesOf
    <3>3. Cardinality(ClassifiedAs(q, t) \cup {i}) = Cardinality(ClassifiedAs(q, t)) + 1
      BY <2>3, <3>1, FS_AddElement
    <3> QED
      BY <2>1, <2>2, <2>3, <3>2, <3>3
  <2>5. CASE ~(q = r /\ classification_event(m.class) = t)
    <3>1. ClassifiedAs(q, t)' = ClassifiedAs(q, t)
      BY <1>4, <1>7, <1>9, <2>5 DEF ClassifiedAs, RepliesOf
    <3>2. ~Marked(q, t)'
      BY <1>2, <1>7, <1>9, <2>5 DEF Marked
    <3> QED
      BY <2>1, <2>2, <2>3, <3>1, <3>2
  <2> QED
    BY <2>4, <2>5
<1>14. RoomForEvent'
  BY <1>13 DEF RoomForEvent
<1> QED
  BY <1>12, <1>14

\* classify_event takes the room of the reply that was marked.
LEMMA EventTakesRoom ==
    ASSUME StoreInv, TriageInv, RoomForEvent, classify_event
    PROVE  StoreInv' /\ TriageInv' /\ RoomForEvent' /\ requests' = requests
<1>1. /\ classifying # None /\ classifying' = None /\ UNCHANGED <<today, inbox_replies>>
  BY DEF classify_event
<1>2. classifying \in DOMAIN inbox_replies /\ inbox_replies[classifying] \in Reply
  BY <1>1 DEF TriageInv
<1>3. PICK r \in Requests, c \in Classes :
        r = inbox_replies[classifying].request_id /\ c = inbox_replies[classifying].class
  BY <1>2 DEF Reply
<1>4. PICK u \in EventType : u = classification_event(c)
  BY ClassificationTypes
<1>5. append_and_project(r, u, None, today) /\ today \in Times
  BY <1>3, <1>4 DEF classify_event, TriageInv
<1>6. /\ StoreInv' /\ requests' = requests
      /\ \E e \in EventRecord(Requests) :
           /\ e.request_id = r /\ e.event_type = u /\ e \notin request_events
           /\ request_events' = request_events \cup {e}
  BY <1>5, AppendOne
<1>7. PICK e : /\ e.request_id = r /\ e.event_type = u /\ e \notin request_events
               /\ request_events' = request_events \cup {e}
  BY <1>6
<1>8. TriageInv'
  BY <1>1 DEF TriageInv, Sortable, NotNewer
<1>9. ASSUME NEW q \in Requests, NEW d \in Classes, NEW t, t = classification_event(d)
      PROVE  Cardinality(EventsFor(q, t)') + (IF Marked(q, t)' THEN 1 ELSE 0)
               <= Cardinality(ClassifiedAs(q, t)')
  <2>1. ClassifiedAs(q, t)' = ClassifiedAs(q, t) /\ ~Marked(q, t)'
    BY <1>1 DEF ClassifiedAs, RepliesOf, Marked
  <2>2. /\ IsFiniteSet(EventsFor(q, t)) /\ Cardinality(EventsFor(q, t)) \in Nat
        /\ Cardinality(ClassifiedAs(q, t)) \in Nat
    BY Countable
  <2>3. Cardinality(EventsFor(q, t)) + (IF Marked(q, t) THEN 1 ELSE 0)
          <= Cardinality(ClassifiedAs(q, t))
    BY <1>9 DEF RoomForEvent
  <2>4. EventsFor(q, t)' = EventsFor(q, t)
             \cup (IF e.request_id = q /\ e.event_type = t THEN {e} ELSE {})
    BY <1>7, EventsAfter
  <2>5. CASE q = r /\ u = t
    <3>1. Marked(q, t)
      BY <1>1, <1>3, <1>4, <2>5 DEF Marked
    <3>2. EventsFor(q, t)' = EventsFor(q, t) \cup {e} /\ e \notin EventsFor(q, t)
      BY <1>7, <2>4, <2>5 DEF EventsFor, RowsOf
    <3>3. Cardinality(EventsFor(q, t) \cup {e}) = Cardinality(EventsFor(q, t)) + 1
      BY <2>2, <3>2, FS_AddElement
    <3> QED
      BY <2>1, <2>2, <2>3, <3>1, <3>2, <3>3
  <2>6. CASE ~(q = r /\ u = t)
    <3>1. EventsFor(q, t)' = EventsFor(q, t)
      BY <1>7, <2>4, <2>6
    <3> QED
      BY <2>1, <2>2, <2>3, <3>1
  <2> QED
    BY <2>5, <2>6
<1>10. RoomForEvent'
  BY <1>9 DEF RoomForEvent
<1> QED
  BY <1>6, <1>8, <1>10

-----------------------------------------------------------------------------
(***************************************************************************)
(* Steps.                                                                  *)
(***************************************************************************)

\* Nothing happens to the store.
LEMMA SameStore ==
    ASSUME StoreInv, UNCHANGED vars
    PROVE  /\ StoreInv'
           /\ \A r, t : EventsFor(r, t)' = EventsFor(r, t)
<1>1. IInv'
  BY Preserved DEF StoreInv
<1> QED
  BY <1>1 DEF StoreInv, vars, EventsFor, RowsOf

\* A command other than a tick.
LEMMA TriageStep ==
    ASSUME StoreInv, TriageInv, RoomForEvent, TriageNext
    PROVE  StoreInv' /\ TriageInv' /\ RoomForEvent'
<1>1. ASSUME NEW r \in Requests, NewRequest(r)
      PROVE  StoreInv' /\ TriageInv' /\ RoomForEvent'
  <2>1. /\ create_removal_request(r) /\ UNCHANGED triage_vars
    BY <1>1 DEF NewRequest
  <2>2. IInv' /\ UNCHANGED <<request_events, rebuilding>>
    BY <2>1, Preserved DEF Next, StoreInv, create_removal_request
  <2>3. RoomForEvent'
    BY <2>1, <2>2, SameReplies DEF triage_vars, EventsFor, RowsOf
  <2> QED
    BY <2>1, <2>2, <2>3 DEF StoreInv, TriageInv, triage_vars, Sortable, NotNewer
<1>2. ASSUME NEW r \in Requests, NEW t \in {"SENT", "REBUTTAL_SENT"}, NEW n \in Int \cup {None},
             append_and_project(r, t, n, today), UNCHANGED triage_vars
      PROVE  StoreInv' /\ TriageInv' /\ RoomForEvent'
  <2>1. t \in EventType /\ today \in Times
    BY DEF EventType, TriageInv
  <2>2. /\ StoreInv'
        /\ \E e \in EventRecord(Requests) :
             /\ e.event_type = t /\ request_events' = request_events \cup {e}
    BY <1>2, <2>1, AppendOne
  <2>3. RoomForEvent'
    BY <1>2, <2>2, OtherEvent, SameReplies DEF triage_vars
  <2> QED
    BY <1>2, <2>2, <2>3 DEF TriageInv, triage_vars, Sortable, NotNewer
<1>3. ASSUME NEW r \in Requests, request_sent(r)
      PROVE  StoreInv' /\ TriageInv' /\ RoomForEvent'
  BY <1>2, <1>3, TriageAssumption DEF request_sent
<1>4. ASSUME NEW r \in Requests, generate_rebuttal(r)
      PROVE  StoreInv' /\ TriageInv' /\ RoomForEvent'
  BY <1>2, <1>4 DEF generate_rebuttal
<1>5. ASSUME NEW r \in Requests, classify_reply(r)
      PROVE  StoreInv' /\ TriageInv' /\ RoomForEvent'
  <2>1. UNCHANGED vars
    BY <1>5 DEF classify_reply
  <2> QED
    BY <1>5, <2>1, MarkMakesRoom, SameStore
<1>6. ASSUME NEW r \in Requests, NEW c \in Classes, NEW at \in Times, reply_arrives(r, c, at)
      PROVE  StoreInv' /\ TriageInv' /\ RoomForEvent'
  <2>1. PICK m : m = [request_id |-> r, class |-> c, received_at |-> at, classified |-> FALSE]
    OBVIOUS
  <2>2. m \in Reply /\ ~m.classified
    BY <2>1 DEF Reply
  <2>3. inbox_replies' = Append(inbox_replies, m) /\ UNCHANGED <<vars, today, classifying>>
    BY <1>6, <2>1 DEF reply_arrives
  <2>4. /\ TriageInv'
        /\ \A q, t : ClassifiedAs(q, t)' = ClassifiedAs(q, t)
        /\ \A q, t : Marked(q, t)' = Marked(q, t)
    BY <2>2, <2>3, ArrivalSorts
  <2>5. StoreInv' /\ \A q, t : EventsFor(q, t)' = EventsFor(q, t)
    BY <2>3, SameStore
  <2>6. RoomForEvent'
    BY <2>4, <2>5 DEF RoomForEvent
  <2> QED
    BY <2>4, <2>5, <2>6
<1>7. CASE classify_event
  BY <1>7, EventTakesRoom
<1>8. CASE classify_cut \/ NewDay
  <2>1. /\ UNCHANGED <<vars, inbox_replies>> /\ today' \in Times
        /\ classifying' = classifying \/ classifying' = None
    BY <1>8 DEF classify_cut, NewDay, TriageInv
  <2>2. StoreInv' /\ RoomForEvent'
    BY <2>1, SameStore, SameReplies
  <2> QED
    BY <2>1, <2>2 DEF TriageInv, Sortable, NotNewer
<1> QED
  BY <1>1, <1>3, <1>4, <1>5, <1>6, <1>7, <1>8 DEF TriageNext

\* rebuild_all_states at the end of a tick, in one step.
LEMMA RebuildAtEnd ==
    ASSUME StoreInv, apply_tick_done
    PROVE  StoreInv' /\ UNCHANGED <<requests, request_events>>
<1>1. /\ UNCHANGED <<requests, request_events, next_event_id, rebuilding, dirty>>
      /\ request_state' = [r \in Requests |->
           IF r \in dirty_requests THEN RowOf(fold_events(RowsOf(r))) ELSE request_state[r]]
  BY DEF apply_tick_done
<1>2. /\ request_events \in SUBSET EventRecord(Requests) /\ WellOrdered(request_events)
      /\ next_event_id \in Nat \ {0}
      /\ request_state \in [Requests -> ProjectionState \cup {None}]
  BY DEF StoreInv, IInv, TypeOK
<1>3. ASSUME NEW r \in Requests
      PROVE  /\ RowOf(fold_events(RowsOf(r))) \in ProjectionState
             /\ RowOf(fold_events(RowsOf(r))).last_event_id < next_event_id
  <2>1. PICK row : row = RowOf(fold_events({e \in request_events : e.request_id = r}))
    OBVIOUS
  <2>2. /\ row \in ProjectionState
        /\ row.last_event_id = 0 \/ \E e \in request_events : row.last_event_id = e.id
    BY <1>2, <2>1, RowType
  <2>3. row.last_event_id < next_event_id
    BY <1>2, <2>2 DEF StoreInv, IInv, IdsBelow
  <2> QED
    BY <2>1, <2>2, <2>3 DEF RowsOf
<1>4. TypeOK'
  BY <1>1, <1>2, <1>3 DEF StoreInv, IInv, TypeOK
<1>5. IdsBelow'
  <2>1. \A e \in request_events' : e.id < next_event_id'
    BY <1>1 DEF StoreInv, IInv, IdsBelow
  <2>2. \A r \in Requests : request_state[r] # None =>
          request_state[r].last_event_id < next_event_id
    BY DEF StoreInv, IInv, IdsBelow
  <2>3. \A r \in Requests : request_state'[r] # None =>
          request_state'[r].last_event_id < next_event_id'
    BY <1>1, <1>3, <2>2
  <2> QED
    BY <2>1, <2>3 DEF IdsBelow
<1>6. FreshOrBehind'
  <2> SUFFICES ASSUME NEW r \in Requests, request_state'[r] # None
               PROVE  \/ Fresh(r)'
                      \/ \E e \in RowsOf(r)' : e.id > request_state'[r].last_event_id
    BY DEF FreshOrBehind
  <2>1. RowsOf(r)' = RowsOf(r)
    BY <1>1 DEF RowsOf
  <2>2. CASE r \in dirty_requests
    BY <1>1, <2>1, <2>2 DEF Fresh
  <2>3. CASE r \notin dirty_requests
    <3>1. request_state'[r] = request_state[r]
      BY <1>1, <2>3
    <3> QED
      BY <2>1, <3>1 DEF StoreInv, IInv, FreshOrBehind, Fresh
  <2> QED
    BY <2>2, <2>3
<1>7. WellOrdered(request_events)' /\ RebuildHeals'
  BY <1>1, <1>2 DEF WellOrdered, RebuildHeals, StoreInv
<1> QED
  BY <1>1, <1>4, <1>5, <1>6, <1>7 DEF StoreInv, IInv

\* An action is applied: its row is the one decided on, and the other
\* decisions stay right.
LEMMA ApplyStepKeeps ==
    ASSUME DInv, due # None, NEW d \in due, apply_tick_action(d)
    PROVE  /\ DInv'
           /\ \E e : /\ request_events' = request_events \cup {e}
                     /\ e.request_id = d.request_id
                     /\ e.event_type = d.action.event_type
<1>1. /\ due \in SUBSET Decision /\ d \in Decision
      /\ \A x \in due : x.request_id \in requests
      /\ \A x \in due : request_state[x.request_id].current_status
                          = DecidedOn(x.action.event_type)
      /\ \A x, y \in due : x.request_id = y.request_id => x = y
  BY DEF DInv, DueInv
<1>2. PICK r \in Requests, t \in TickTypes, n \in Int \cup {None} :
        r = d.request_id /\ t = d.action.event_type /\ n = d.action.number
  BY <1>1 DEF Decision
<1>3. /\ append_and_project(r, t, n, today) /\ due' = due \ {d}
      /\ UNCHANGED <<triage_vars, printed>>
  BY <1>2 DEF apply_tick_action
<1>4. t \in EventType /\ today \in Times
  BY DEF TickTypes, EventType, DInv, TriageInv
<1>5. /\ StoreInv' /\ requests' = requests
      /\ \E e \in EventRecord(Requests) :
           /\ e.request_id = r /\ e.event_type = t
           /\ request_events' = request_events \cup {e}
      /\ \A q \in Requests \ {r} : request_state'[q] = request_state[q]
  BY <1>3, <1>4, AppendOne DEF DInv
<1>6. PICK e : e.request_id = r /\ e.event_type = t /\ request_events' = request_events \cup {e}
  BY <1>5
<1>7. RoomForEvent'
  BY <1>3, <1>6, OtherEvent, SameReplies DEF DInv, triage_vars
<1>8. TriageInv'
  BY <1>3 DEF DInv, TriageInv, triage_vars, Sortable, NotNewer
<1>9. DueInv'
  <2>1. \A x \in due' : x \in due /\ x.request_id \in Requests \ {r}
    BY <1>1, <1>2, <1>3 DEF Decision
  <2> QED
    BY <1>1, <1>3, <1>5, <2>1 DEF DueInv
<1> QED
  BY <1>2, <1>5, <1>6, <1>7, <1>8, <1>9 DEF DInv

\* The invariant holds after every step.
LEMMA DeadlinesPreserved ==
    ASSUME DInv, [DeadlinesNext]_allvars
    PROVE  DInv'
<1> USE DEF DInv
<1>1. ASSUME UNCHANGED <<vars, triage_vars>>
      PROVE  StoreInv' /\ TriageInv' /\ RoomForEvent' /\ UNCHANGED <<requests, request_state>>
  <2>1. StoreInv' /\ \A r, t : EventsFor(r, t)' = EventsFor(r, t)
    BY <1>1, SameStore
  <2>2. RoomForEvent'
    BY <1>1, <2>1, SameReplies DEF triage_vars
  <2> QED
    BY <1>1, <2>1, <2>2 DEF TriageInv, triage_vars, vars, Sortable, NotNewer
<1>2. CASE UNCHANGED allvars
  BY <1>1, <1>2 DEF allvars, deadlines_vars, DueInv
<1>3. CASE OtherCommand
  <2>1. due = None /\ TriageNext /\ UNCHANGED deadlines_vars
    BY <1>3 DEF OtherCommand
  <2>2. StoreInv' /\ TriageInv' /\ RoomForEvent'
    BY <2>1, TriageStep
  <2> QED
    BY <2>1, <2>2 DEF DueInv, deadlines_vars
<1>4. CASE plan_tick
  BY <1>1, <1>4 DEF plan_tick, DueInv
<1>5. CASE tick
  <2>1. due' = run_tick /\ UNCHANGED <<vars, triage_vars, printed>>
    BY <1>5 DEF tick
  <2>2. DueInv'
    BY <1>1, <2>1, TickDecides DEF DueInv
  <2> QED
    BY <1>1, <2>1, <2>2
<1>6. ASSUME due # None, NEW d \in due, apply_tick_action(d)
      PROVE  DInv'
  BY <1>6, ApplyStepKeeps
<1>7. CASE apply_tick_done
  <2>1. /\ due' = None /\ UNCHANGED <<triage_vars, printed>>
    BY <1>7 DEF apply_tick_done
  <2>2. StoreInv' /\ UNCHANGED request_events
    BY <1>7, RebuildAtEnd
  <2>3. RoomForEvent'
    BY <2>1, <2>2, SameReplies DEF triage_vars, EventsFor, RowsOf
  <2> QED
    BY <2>1, <2>2, <2>3 DEF DueInv, TriageInv, triage_vars, Sortable, NotNewer
<1>8. ASSUME due # None, NEW d \in due, apply_tick_error(d)
      PROVE  DInv'
  <2>1. due' = due \ {d} /\ UNCHANGED <<vars, triage_vars, printed>>
    BY <1>8 DEF apply_tick_error
  <2>2. DueInv'
    BY <1>1, <1>8, <2>1 DEF DueInv
  <2> QED
    BY <1>1, <2>1, <2>2
<1>9. CASE tick_cut
  BY <1>1, <1>9 DEF tick_cut, DueInv
<1> QED
  BY <1>2, <1>3, <1>4, <1>5, <1>6, <1>7, <1>8, <1>9
     DEF DeadlinesNext, ApplyStep, ApplyFault

\* The invariant holds at the start.
LEMMA DeadlinesEstablished ==
    DeadlinesInit => DInv
<1> SUFFICES ASSUME DeadlinesInit PROVE DInv
  OBVIOUS
<1>1. Init /\ today \in Times /\ inbox_replies = <<>> /\ classifying = None /\ due = None
  BY DEF DeadlinesInit, TriageInit
<1>2. StoreInv
  <2>1. IInv
    BY <1>1, Established
  <2>2. ~rebuilding /\ request_events = {}
    BY <1>1 DEF Init
  <2> QED
    BY <2>1, <2>2, FS_EmptySet DEF StoreInv
<1>3. TriageInv
  BY <1>1 DEF TriageInv, Sortable
<1>4. RoomForEvent
  <2>1. \A r, t : EventsFor(r, t) = {} /\ ~Marked(r, t)
    BY <1>1 DEF Init, EventsFor, RowsOf, Marked
  <2>2. \A r, t : Cardinality(EventsFor(r, t)) = 0
    BY <2>1, FS_EmptySet
  <2>3. \A r, t : Cardinality(ClassifiedAs(r, t)) \in Nat
    BY <1>2, <1>3, Countable
  <2> QED
    BY <2>1, <2>2, <2>3 DEF RoomForEvent
<1> QED
  BY <1>1, <1>2, <1>3, <1>4 DEF DInv, DueInv

\* What the invariant gives.
LEMMA DeadlinesInductive ==
    DeadlinesSpec => []DInv
BY DeadlinesEstablished, DeadlinesPreserved, PTL DEF DeadlinesSpec

\* Replies and ticks share one log: the tables keep their types, and no reply
\* is recorded twice however often classify_reply is cut off between its mark
\* and its event and run again among ticks.
THEOREM RepliesRecordedOnce ==
    DeadlinesSpec => []RepliesInv
<1>1. ASSUME DInv PROVE RepliesInv
  <2>1. TriageTypeOK
    BY <1>1 DEF DInv, StoreInv, IInv, TriageInv, TriageTypeOK, Reply
  <2>2. DeadlinesTypeOK
    BY <1>1, <2>1 DEF DInv, DueInv, DeadlinesTypeOK, Decision, TickTypes
  <2>3. ASSUME NEW r \in Requests, NEW c \in Classes, NEW t, t = classification_event(c)
        PROVE  Cardinality(EventsFor(r, t)) <= Cardinality(ClassifiedAs(r, t))
    <3>1. Cardinality(EventsFor(r, t)) + (IF Marked(r, t) THEN 1 ELSE 0)
            <= Cardinality(ClassifiedAs(r, t))
      BY <1>1, <2>3 DEF DInv, RoomForEvent
    <3>2. Cardinality(EventsFor(r, t)) \in Nat /\ Cardinality(ClassifiedAs(r, t)) \in Nat
      BY <1>1, Countable DEF DInv
    <3> QED
      BY <3>1, <3>2
  <2> QED
    BY <2>2, <2>3 DEF RepliesInv, OneEventPerReply
<1> QED
  BY <1>1, DeadlinesInductive, PTL

\* A decision of a tick is still right when apply_tick_actions writes it: no
\* reply or rebuttal comes between run_tick and the event, and an action that
\* was applied or failed before it is one of another request.
THEOREM TicksActOnCurrentStatus ==
    DeadlinesSpec => ActionsNotStale
<1>1. ASSUME DInv, [DeadlinesNext]_allvars, NEW e \in request_events' \ request_events,
             e.event_type \in TickTypes
      PROVE  request_state[e.request_id].current_status = DecidedOn(e.event_type)
  <2>1. request_events' # request_events
    BY <1>1
  <2>2. CASE \E d \in due : due # None /\ apply_tick_action(d)
    <3>1. PICK d \in due : due # None /\ apply_tick_action(d)
      BY <2>2
    <3>2. e.request_id = d.request_id /\ e.event_type = d.action.event_type
      BY <1>1, <3>1, ApplyStepKeeps
    <3> QED
      BY <1>1, <3>1, <3>2 DEF DInv, DueInv
  <2>3. ASSUME NEW r \in Requests, NEW t \in EventType \ TickTypes, NEW n \in Int \cup {None},
               append_and_project(r, t, n, today)
        PROVE  FALSE
    <3>1. today \in Times
      BY <1>1 DEF DInv, TriageInv
    <3>2. PICK f : f.event_type = t /\ request_events' = request_events \cup {f}
      BY <1>1, <2>3, <3>1, AppendOne DEF DInv
    <3> QED
      BY <1>1, <2>3, <3>2
  <2>4. CASE TriageNext
    <3>1. {"SENT", "REBUTTAL_SENT"} \subseteq EventType \ TickTypes /\ ExpectedDays \in Int
      BY TriageAssumption DEF EventType, TickTypes
    <3>2. ASSUME NEW r \in Requests, request_sent(r) \/ generate_rebuttal(r)
          PROVE  FALSE
      BY <2>3, <3>1, <3>2 DEF request_sent, generate_rebuttal
    <3>3. ASSUME classify_event PROVE FALSE
      <4>1. classifying \in DOMAIN inbox_replies /\ inbox_replies[classifying] \in Reply
        BY <1>1, <3>3 DEF DInv, TriageInv, classify_event
      <4>2. PICK r \in Requests, c \in Classes :
              r = inbox_replies[classifying].request_id /\ c = inbox_replies[classifying].class
        BY <4>1 DEF Reply
      <4>3. classification_event(c) \in EventType \ TickTypes
        BY ClassificationTypes
      <4>4. append_and_project(r, classification_event(c), None, today)
        BY <3>3, <4>2 DEF classify_event
      <4> QED
        BY <2>3, <4>3, <4>4
    <3> QED
      BY <2>1, <2>4, <3>2, <3>3 DEF TriageNext, NewRequest, create_removal_request,
         classify_reply, reply_arrives, classify_cut, NewDay, vars
  <2> QED
    BY <1>1, <2>1, <2>2, <2>4 DEF DeadlinesNext, OtherCommand, plan_tick, tick, ApplyStep,
       ApplyFault, apply_tick_done, apply_tick_error, tick_cut, allvars, vars
<1>2. DInv /\ [DeadlinesNext]_allvars =>
        [\A e \in request_events' \ request_events :
           LET s == request_state[e.request_id].current_status IN
           /\ e.event_type = "REMINDER_SENT" => s = "AWAITING_ACK"
           /\ e.event_type = "DEADLINE_REACHED" => s = "AWAITING_RESPONSE"
           /\ e.event_type = "DPA_COMPLAINT_DRAFTED" => s = "OVERDUE"
           /\ e.event_type = "RE_SCAN_TRIGGERED" => s = "CONFIRMED"]_allvars
  BY <1>1 DEF TickTypes, DecidedOn
<1> QED
  BY <1>2, DeadlinesInductive, PTL DEF DeadlinesSpec, ActionsNotStale

-----------------------------------------------------------------------------
(***************************************************************************)
(* Reminders.                                                              *)
(***************************************************************************)

\* Small numbers do not wrap around.
LEMMA WrapSame ==
    ASSUME NEW x \in Nat, x < Half
    PROVE  wrap(x) = x
<1>1. Half \in Nat /\ Half > 0
  BY DeadlinesAssumption
<1>2. (x + Half) % (2 * Half) = x + Half
  BY <1>1
<1> QED
  BY <1>1, <1>2 DEF wrap

\* A reminder that is decided on after k others is the (k+1)-st, at most the
\* K-th, and its time has come.
LEMMA NextReminder ==
    ASSUME NEW K, LongEnough(K), today \in Times, NEW s, NEW k \in 0..K, NEW at \in Times,
           s.reminders_sent = k, s.sent_at = at, NEW a \in reminder(s)
    PROVE  a.number = k + 1 /\ k + 1 <= K /\ today >= at + REMINDER_DAYS * 2^k
<1>1. PICK w, h : w = REMINDER_DAYS * 2^k /\ h = 2^k
  OBVIOUS
<1>2. /\ h \in Nat /\ h < Half /\ w < Half /\ w = REMINDER_DAYS * h
      /\ k \in Nat /\ k <= K /\ K \in Nat /\ k < Bits /\ K < Half
  BY <1>1, DeadlinesAssumption DEF LongEnough
<1>3. w \in Nat
  BY <1>2, DeadlinesAssumption
<1>4. threshold(k) = w
  <2>1. threshold(k) = wrap(REMINDER_DAYS * wrap(h))
    BY <1>1, <1>2, DeadlinesAssumption DEF threshold
  <2>2. wrap(h) = h /\ wrap(w) = w
    BY <1>2, <1>3, WrapSame
  <2> QED
    BY <1>2, <2>1, <2>2
<1>5. today \in Nat /\ at \in Nat
  BY StoreAssumption
<1>6. /\ today - at >= threshold(k)
      /\ a = [event_type |-> "REMINDER_SENT", number |-> wrap(k + 1)]
  BY DEF reminder, Act
<1>7. k # K
  <2>1. ASSUME k = K PROVE today - at < w
    BY <1>1, <2>1 DEF LongEnough
  <2> QED
    BY <1>3, <1>4, <1>5, <1>6, <2>1
<1>8. k + 1 <= K /\ k + 1 \in Nat /\ k + 1 < Half
  BY <1>2, <1>7, DeadlinesAssumption
<1>9. wrap(k + 1) = k + 1
  BY <1>8, WrapSame
<1>10. today >= at + w
  BY <1>3, <1>4, <1>5, <1>6
<1> QED
  BY <1>1, <1>6, <1>8, <1>9, <1>10

\* The columns of a projection that is up to date, in terms of the log.
LEMMA Columns ==
    ASSUME StoreInv, UpToDate, NEW r \in Requests, RowsOf(r) # {} \/ request_state[r] # None
    PROVE  /\ request_state[r].sent_at =
                IF EventsFor(r, "SENT") = {} THEN None
                ELSE Latest(EventsFor(r, "SENT")).occurred_at
           /\ request_state[r].reminders_sent =
                IF EventsFor(r, "REMINDER_SENT") = {} THEN 0
                ELSE Reminders(Latest(EventsFor(r, "REMINDER_SENT")))
<1>1. request_state[r] = RowOf(fold_events(RowsOf(r)))
  BY DEF UpToDate, Fresh
<1>2. /\ Writers(RowsOf(r), {"SENT"}) = EventsFor(r, "SENT")
      /\ Writers(RowsOf(r), {"REMINDER_SENT"}) = EventsFor(r, "REMINDER_SENT")
  BY DEF UpToDate, Writers, EventsFor, RowsOf
<1>3. /\ RowOf(fold_events(RowsOf(r))).sent_at
           = LastWrite(RowsOf(r), {"SENT"}, None, OccurredAt)
      /\ RowOf(fold_events(RowsOf(r))).reminders_sent
           = LastWrite(RowsOf(r), {"REMINDER_SENT"}, 0, Reminders)
  BY DEF RowOf, fold_events
<1> QED
  BY <1>1, <1>2, <1>3 DEF LastWrite, OccurredAt

\* The last of some rows is one of them.
LEMMA LatestRow ==
    ASSUME StoreInv, NEW r, NEW t, EventsFor(r, t) # {}
    PROVE  Latest(EventsFor(r, t)) \in EventsFor(r, t)
<1>1. EventsFor(r, t) \in SUBSET request_events
  BY DEF EventsFor, RowsOf
<1>2. \E m \in EventsFor(r, t) : IsLatest(m, EventsFor(r, t))
  BY <1>1 DEF StoreInv, IInv, WellOrdered
<1> QED
  BY <1>2 DEF Latest

\* e, a new row of request r, is the last of the log.
LastRow(e, r, t, n) ==
    /\ e \in EventRecord(Requests) /\ Replayable(e) /\ e \notin request_events
    /\ e.request_id = r /\ e.event_type = t /\ e.number = n /\ e.occurred_at = today
    /\ \A f \in request_events : Before(f, e)

\* A row that is appended today is the last one, and it is projected.
LEMMA AppendedToday ==
    ASSUME StoreInv, today \in Times, UpToDate, NEW r \in Requests, NEW t \in EventType,
           NEW n \in Int \cup {None}, append_and_project(r, t, n, today), UNCHANGED today
    PROVE  /\ \E e : LastRow(e, r, t, n) /\ request_events' = request_events \cup {e}
           /\ \A e \in request_events' :
                Replayable(e) /\ e.occurred_at \in Times /\ e.occurred_at <= today'
           /\ \A q \in Requests : RowsOf(q)' # {} \/ request_state'[q] # None => Fresh(q)'
           /\ \A q \in Requests \ {r} : request_state'[q] = request_state[q]
<1>1. PICK e : e = NewRow(r, t, n, today, TRUE)
  OBVIOUS
<1>2. today \in Nat /\ today # 0 /\ t # "" /\ t \in EventType \cup UnknownType
  BY StoreAssumption, TriageAssumption DEF EventType
<1>3. /\ IInv' /\ Fresh(r)' /\ e \in EventRecord(Requests)
      /\ \A q \in Requests \ {r} : /\ RowsOf(q)' = RowsOf(q)
                                   /\ request_state'[q] = request_state[q]
  BY <1>1, <1>2, AppendAndProject DEF StoreInv
<1>4. request_events' = request_events \cup {e}
  BY <1>1 DEF append_and_project, append_event_tx
<1>5. /\ e.id = next_event_id /\ e.request_id = r /\ e.event_type = t /\ e.number = n
      /\ e.occurred_at = today /\ e.decodes = TRUE
  BY <1>1 DEF NewRow
<1>6. Replayable(e)
  BY <1>2, <1>5 DEF Replayable
<1>7. ASSUME NEW f \in request_events PROVE Before(f, e)
  <2>1. /\ f.id < next_event_id /\ f.occurred_at <= today
        /\ f.id \in Nat /\ f.occurred_at \in Nat /\ next_event_id \in Nat
    BY DEF StoreInv, IInv, IdsBelow, TypeOK, EventRecord, UpToDate
  <2>2. e.id = next_event_id /\ e.occurred_at = today /\ today \in Nat
    BY <1>2, <1>5
  <2> QED
    BY <2>1, <2>2 DEF Before
<1>8. e \notin request_events
  <2>1. e.id \in Nat /\ e.occurred_at \in Nat
    BY <1>3 DEF EventRecord
  <2> QED
    BY <1>7, <2>1 DEF Before
<1>9. LastRow(e, r, t, n)
  BY <1>3, <1>5, <1>6, <1>7, <1>8 DEF LastRow
<1>10. \A f \in request_events' :
         Replayable(f) /\ f.occurred_at \in Times /\ f.occurred_at <= today'
  <2>1. \A f \in request_events :
          Replayable(f) /\ f.occurred_at \in Times /\ f.occurred_at <= today
    BY DEF UpToDate
  <2>2. today <= today /\ today' = today
    <3>1. \A x \in Nat : x <= x
      BY SMT
    <3> QED
      BY <1>2, <3>1, Zenon
  <2>3. Replayable(e) /\ e.occurred_at \in Times /\ e.occurred_at <= today
    BY <1>5, <1>6, <2>2
  <2>4. \A f \in request_events \cup {e} :
          Replayable(f) /\ f.occurred_at \in Times /\ f.occurred_at <= today
    BY <2>1, <2>3, Zenon
  <2> QED
    BY <1>4, <2>2, <2>4, Zenon
<1>11. ASSUME NEW q \in Requests, RowsOf(q)' # {} \/ request_state'[q] # None
       PROVE  Fresh(q)'
  <2>1. CASE q = r
    BY <1>3, <2>1
  <2>2. CASE q # r
    <3>1. RowsOf(q)' = RowsOf(q) /\ request_state'[q] = request_state[q]
      BY <1>3, <2>2
    <3>2. Fresh(q)
      BY <1>11, <3>1 DEF UpToDate
    <3> QED
      BY <3>1, <3>2 DEF Fresh
  <2> QED
    BY <2>1, <2>2
<1> QED
  BY <1>3, <1>4, <1>9, <1>10, <1>11

\* Reminders stay backed off when a request is sent, once, when a reminder is
\* applied as it was decided, and when any other event is recorded.
LEMMA RowBacksOff ==
    ASSUME NEW K, LongEnough(K), StoreInv, TriageInv, UpToDate,
           \A r \in Requests : BackedOff(r, K),
           NEW r \in Requests, NEW t, NEW n, NEW e, LastRow(e, r, t, n),
           request_events' = request_events \cup {e},
           t = "SENT" => RowsOf(r) = {},
           t = "REMINDER_SENT" =>
             /\ request_state[r] # None
             /\ [event_type |-> t, number |-> n] \in reminder(request_state[r])
    PROVE  \A q \in Requests : BackedOff(q, K)'
<1> SUFFICES ASSUME NEW q \in Requests PROVE BackedOff(q, K)'
  OBVIOUS
<1>1. PICK R, S : R = EventsFor(q, "REMINDER_SENT") /\ S = EventsFor(q, "SENT")
  OBVIOUS
<1>2. /\ EventsFor(q, "REMINDER_SENT")' =
           R \cup (IF r = q /\ t = "REMINDER_SENT" THEN {e} ELSE {})
      /\ EventsFor(q, "SENT")' = S \cup (IF r = q /\ t = "SENT" THEN {e} ELSE {})
  BY <1>1, EventsAfter DEF LastRow
<1>3. IsFiniteSet(R) /\ Cardinality(R) \in Nat /\ R \in SUBSET request_events
  <2>1. EventsFor(q, "REMINDER_SENT") \in SUBSET request_events
    BY DEF EventsFor, RowsOf
  <2> QED
    BY <1>1, <2>1, Countable
<1>4. /\ Cardinality(R) <= K
      /\ Cardinality(R) > 0 =>
           /\ S # {} /\ Reminders(Latest(R)) = Cardinality(R)
           /\ Latest(R).occurred_at
                >= Latest(S).occurred_at + REMINDER_DAYS * 2^(Cardinality(R) - 1)
  BY <1>1 DEF BackedOff
<1>5. CASE r # q \/ t \notin {"SENT", "REMINDER_SENT"}
  <2>1. EventsFor(q, "REMINDER_SENT")' = R /\ EventsFor(q, "SENT")' = S
    BY <1>2, <1>5
  <2> QED
    BY <1>4, <2>1 DEF BackedOff
<1>6. CASE r = q /\ t = "SENT"
  <2>1. EventsFor(q, "REMINDER_SENT")' = {}
    BY <1>1, <1>2, <1>6 DEF EventsFor
  <2>2. Cardinality({}) = 0 /\ K \in Nat
    BY FS_EmptySet DEF LongEnough
  <2>3. Cardinality(EventsFor(q, "REMINDER_SENT")') = 0
    BY <2>1, <2>2
  <2>4. 0 <= K /\ ~(0 > 0)
    BY <2>2
  <2> QED
    BY <2>3, <2>4 DEF BackedOff
<1>7. CASE r = q /\ t = "REMINDER_SENT"
  <2>1. EventsFor(q, "REMINDER_SENT")' = R \cup {e} /\ EventsFor(q, "SENT")' = S
    BY <1>2, <1>7
  <2>2. PICK m \in Nat : m = Cardinality(R) /\ m <= K
    BY <1>3, <1>4
  <2>3. e \notin R /\ Cardinality(R \cup {e}) = m + 1
    BY <1>3, <2>2, FS_AddElement DEF LastRow
  <2>4. PICK s : s = request_state[q]
    OBVIOUS
  <2>5. /\ s.sent_at = IF S = {} THEN None ELSE Latest(S).occurred_at
        /\ s.reminders_sent = IF R = {} THEN 0 ELSE Reminders(Latest(R))
    BY <1>1, <1>7, <2>4, Columns
  <2>6. s.reminders_sent = m
    <3>1. R = {} => m = 0
      BY <2>2, FS_EmptySet
    <3>2. R # {} => m > 0
      BY <1>3, <2>2, FS_EmptySet
    <3> QED
      BY <1>4, <2>2, <2>5, <3>1, <3>2
  <2>7. S # {}
    BY <1>7, <2>4, <2>5 DEF reminder
  <2>8. PICK at \in Times : at = Latest(S).occurred_at
    <3>1. Latest(S) \in S
      BY <1>1, <2>7, LatestRow
    <3>2. S \in SUBSET request_events
      BY <1>1 DEF EventsFor, RowsOf
    <3> QED
      BY <3>1, <3>2 DEF UpToDate
  <2>9. n = m + 1 /\ m + 1 <= K /\ today >= at + REMINDER_DAYS * 2^m
    <3>1. [event_type |-> t, number |-> n] \in reminder(s)
      BY <1>7, <2>4
    <3>2. m \in 0..K /\ today \in Times /\ s.sent_at = at
      BY <2>2, <2>5, <2>7, <2>8 DEF TriageInv, LongEnough
    <3>3. [event_type |-> t, number |-> n].number = n
      OBVIOUS
    <3> QED
      BY <2>6, <3>1, <3>2, <3>3, NextReminder
  <2>10. Latest(R \cup {e}) = e
    <3>1. IsLatest(e, R \cup {e})
      BY <1>3 DEF IsLatest, LastRow
    <3>2. Rows(R \cup {e})
      BY <1>3 DEF Rows, LastRow, StoreInv, IInv, TypeOK, EventRecord
    <3> QED
      BY <3>1, <3>2, LatestUnique
  <2>11. Reminders(e) = m + 1 /\ e.occurred_at = today
    <3>1. e.number = m + 1 /\ m + 1 # 0 /\ m + 1 # None /\ e.occurred_at = today
      BY <2>2, <2>9, ProjectionAssumption DEF LastRow
    <3> QED
      BY <3>1 DEF Reminders
  <2>12. (m + 1) - 1 = m
    BY <2>2
  <2>13. /\ Cardinality(EventsFor(q, "REMINDER_SENT")') = m + 1
         /\ Latest(EventsFor(q, "REMINDER_SENT")') = e
         /\ EventsFor(q, "SENT")' = S
    BY <2>1, <2>3, <2>10
  <2> QED
    BY <2>7, <2>8, <2>9, <2>11, <2>12, <2>13 DEF BackedOff
<1> QED
  BY <1>5, <1>6, <1>7

\* A decision about a request that is not written stays right that day.
LEMMA SameDay ==
    ASSUME UNCHANGED today, NEW d, request_state'[d.request_id] = request_state[d.request_id],
           Decided(d)
    PROVE  Decided(d)'
<1>1. ASSUME NEW s PROVE actions_for_candidate(s)' = actions_for_candidate(s)
  BY DEF actions_for_candidate, reminder, deadline, dpa, rescan
<1>2. PICK s : s = request_state[d.request_id]
  OBVIOUS
<1>3. actions_for_candidate(request_state[d.request_id])' = actions_for_candidate(s)'
  BY <1>2
<1> QED
  BY <1>1, <1>2, <1>3 DEF Decided

\* A step that writes no row.
LEMMA QuietStep ==
    ASSUME NEW K, StoreInv, TriageInv, UpToDate, \A r \in Requests : BackedOff(r, K),
           UNCHANGED <<request_events, request_state>>,
           UNCHANGED today \/ NewDay,
           due' # None => UNCHANGED today /\ \A d \in due' : Decided(d)
    PROVE  UpToDate' /\ \A r \in Requests : BackedOff(r, K)'
<1>1. \A r, t : EventsFor(r, t)' = EventsFor(r, t) /\ RowsOf(r)' = RowsOf(r)
  BY DEF EventsFor, RowsOf
<1>2. \A r \in Requests : BackedOff(r, K)'
  BY <1>1 DEF BackedOff
<1>3. \A r \in Requests : RowsOf(r)' # {} \/ request_state'[r] # None => Fresh(r)'
  BY <1>1 DEF UpToDate, Fresh
<1>4. ASSUME NEW e \in request_events
      PROVE  Replayable(e) /\ e.occurred_at \in Times /\ e.occurred_at <= today'
  <2>1. Replayable(e) /\ e.occurred_at \in Times /\ e.occurred_at <= today
    BY <1>4 DEF UpToDate
  <2>2. e.occurred_at \in Nat /\ today \in Nat
    BY <2>1, StoreAssumption DEF TriageInv
  <2>3. today' = today \/ today' = today + 1
    BY DEF NewDay
  <2>4. e.occurred_at <= today'
    BY <2>1, <2>2, <2>3
  <2> QED
    BY <2>1, <2>4
<1>5. due' # None => \A d \in due' : Decided(d)'
  BY SameDay
<1> QED
  BY <1>2, <1>3, <1>4, <1>5 DEF UpToDate, Decided

\* A step that writes a row.
LEMMA WritingStep ==
    ASSUME NEW K, LongEnough(K), StoreInv, TriageInv, UpToDate,
           \A r \in Requests : BackedOff(r, K),
           NEW r \in Requests, NEW t \in EventType, NEW n \in Int \cup {None},
           append_and_project(r, t, n, today), UNCHANGED today,
           t = "SENT" => RowsOf(r) = {},
           t = "REMINDER_SENT" =>
             /\ request_state[r] # None
             /\ [event_type |-> t, number |-> n] \in reminder(request_state[r]),
           due' # None => \A d \in due' : Decided(d) /\ d.request_id \in Requests \ {r}
    PROVE  UpToDate' /\ \A q \in Requests : BackedOff(q, K)'
<1>1. today \in Times
  BY DEF TriageInv
<1>2. /\ \E e : LastRow(e, r, t, n) /\ request_events' = request_events \cup {e}
      /\ \A e \in request_events' :
           Replayable(e) /\ e.occurred_at \in Times /\ e.occurred_at <= today'
      /\ \A q \in Requests : RowsOf(q)' # {} \/ request_state'[q] # None => Fresh(q)'
      /\ \A q \in Requests \ {r} : request_state'[q] = request_state[q]
  BY <1>1, AppendedToday
<1>3. PICK e : LastRow(e, r, t, n) /\ request_events' = request_events \cup {e}
  BY <1>2
<1>4. \A q \in Requests : BackedOff(q, K)'
  BY <1>3, RowBacksOff
<1>5. due' # None => \A d \in due' : Decided(d)'
  BY <1>2, SameDay
<1> QED
  BY <1>2, <1>4, <1>5 DEF UpToDate, Decided

\* A command other than a tick.
LEMMA CommandBacksOff ==
    ASSUME NEW K, LongEnough(K), BackoffInv(K), OtherCommand
    PROVE  UpToDate' /\ \A r \in Requests : BackedOff(r, K)'
<1> USE DEF BackoffInv, DInv
<1>1. due' = None /\ TriageNext
  BY DEF OtherCommand, deadlines_vars
<1>2. ASSUME NEW r \in Requests, NEW t \in EventType, NEW n \in Int \cup {None},
             append_and_project(r, t, n, today), UNCHANGED today,
             t # "REMINDER_SENT", t = "SENT" => RowsOf(r) = {}
      PROVE  UpToDate' /\ \A q \in Requests : BackedOff(q, K)'
  BY <1>1, <1>2, WritingStep
<1>3. ASSUME NEW r \in Requests, request_sent(r)
      PROVE  UpToDate' /\ \A q \in Requests : BackedOff(q, K)'
  <2>1. /\ append_and_project(r, "SENT", ExpectedDays, today) /\ UNCHANGED today
        /\ RowsOf(r) = {} /\ "SENT" \in EventType /\ ExpectedDays \in Int
    BY <1>3, TriageAssumption DEF request_sent, triage_vars, EventType
  <2> QED
    BY <1>2, <2>1
<1>4. ASSUME NEW r \in Requests, generate_rebuttal(r)
      PROVE  UpToDate' /\ \A q \in Requests : BackedOff(q, K)'
  <2>1. /\ append_and_project(r, "REBUTTAL_SENT", None, today) /\ UNCHANGED today
        /\ "REBUTTAL_SENT" \in EventType
    BY <1>4 DEF generate_rebuttal, triage_vars, EventType
  <2> QED
    BY <1>2, <2>1
<1>5. CASE classify_event
  <2>1. classifying \in DOMAIN inbox_replies /\ inbox_replies[classifying] \in Reply
    BY <1>5 DEF TriageInv, classify_event
  <2>2. PICK r \in Requests, c \in Classes :
          r = inbox_replies[classifying].request_id /\ c = inbox_replies[classifying].class
    BY <2>1 DEF Reply
  <2>3. PICK t \in EventType : t = classification_event(c) /\ t \notin TickTypes \cup {"SENT"}
    BY ClassificationTypes
  <2>4. append_and_project(r, t, None, today) /\ UNCHANGED today
    BY <1>5, <2>2, <2>3 DEF classify_event
  <2> QED
    BY <1>2, <2>3, <2>4 DEF TickTypes
<1>6. ASSUME UNCHANGED <<request_events, request_state>>, UNCHANGED today \/ NewDay
      PROVE  UpToDate' /\ \A q \in Requests : BackedOff(q, K)'
  BY <1>1, <1>6, QuietStep
<1> QED
  BY <1>1, <1>3, <1>4, <1>5, <1>6 DEF TriageNext, NewRequest, create_removal_request,
     classify_reply, reply_arrives, classify_cut, NewDay, triage_vars, vars

\* An action of a tick is applied.
LEMMA ActionBacksOff ==
    ASSUME NEW K, LongEnough(K), BackoffInv(K), due # None, NEW d \in due, apply_tick_action(d)
    PROVE  UpToDate' /\ \A r \in Requests : BackedOff(r, K)'
<1> USE DEF BackoffInv, DInv
<1>1. /\ d \in Decision /\ Decided(d) /\ d.request_id \in requests
      /\ \A x \in due : x \in Decision /\ Decided(x)
      /\ \A x \in due : x.request_id = d.request_id => x = d
  BY DEF DueInv, UpToDate, Decided
<1>2. PICK r \in Requests, t \in TickTypes, n \in Int \cup {None} :
        r = d.request_id /\ t = d.action.event_type /\ n = d.action.number
  BY <1>1 DEF Decision
<1>3. d.action = [event_type |-> t, number |-> n]
  BY <1>1, <1>2 DEF Decision
<1>4. /\ append_and_project(r, t, n, today) /\ due' = due \ {d} /\ UNCHANGED today
  BY <1>2 DEF apply_tick_action, triage_vars
<1>5. t \in EventType /\ t # "SENT"
  BY DEF TickTypes, EventType
<1>6. ASSUME t = "REMINDER_SENT"
      PROVE  /\ request_state[r] # None
             /\ [event_type |-> t, number |-> n] \in reminder(request_state[r])
  <2>1. /\ request_state[r] # None
        /\ [event_type |-> t, number |-> n] \in actions_for_candidate(request_state[r])
    BY <1>1, <1>2, <1>3 DEF Decided
  <2>2. request_state[r].current_status = "AWAITING_ACK"
    BY <1>2, <1>6 DEF DueInv, DecidedOn
  <2> QED
    BY <2>1, <2>2 DEF actions_for_candidate
<1>7. \A x \in due' : Decided(x) /\ x.request_id \in Requests \ {r}
  BY <1>1, <1>2, <1>4 DEF Decision
<1> QED
  BY <1>4, <1>5, <1>6, <1>7, WritingStep

\* Reminders are backed off after every step.
LEMMA BackoffPreserved ==
    ASSUME NEW K, LongEnough(K), BackoffInv(K), [DeadlinesNext]_allvars
    PROVE  BackoffInv(K)'
<1>1. DInv'
  BY DeadlinesPreserved DEF BackoffInv
<1> SUFFICES UpToDate' /\ \A r \in Requests : BackedOff(r, K)'
  BY <1>1 DEF BackoffInv
<1> USE DEF BackoffInv, DInv
<1>2. due # None => \A d \in due : Decided(d)
  BY DEF UpToDate, Decided
<1>3. ASSUME UNCHANGED <<vars, triage_vars>>, due' # None => \A d \in due' : Decided(d)
      PROVE  UpToDate' /\ \A r \in Requests : BackedOff(r, K)'
  BY <1>3, QuietStep DEF vars, triage_vars
<1>4. CASE UNCHANGED allvars
  BY <1>2, <1>3, <1>4 DEF allvars, deadlines_vars
<1>5. CASE OtherCommand
  BY <1>5, CommandBacksOff
<1>6. CASE tick
  <2>1. \A d \in run_tick : Decided(d)
    BY DEF run_tick, Tickable, Decided
  <2> QED
    BY <1>3, <1>6, <2>1 DEF tick
<1>7. ASSUME due # None, NEW d \in due, apply_tick_action(d)
      PROVE  UpToDate' /\ \A r \in Requests : BackedOff(r, K)'
  BY <1>7, ActionBacksOff
<1>8. CASE apply_tick_done
  <2>1. /\ due' = None /\ UNCHANGED <<request_events, today>>
        /\ request_state' = [r \in Requests |->
             IF r \in dirty_requests THEN RowOf(fold_events(RowsOf(r))) ELSE request_state[r]]
    BY <1>8 DEF apply_tick_done, triage_vars
  <2>2. \A r, t : EventsFor(r, t)' = EventsFor(r, t) /\ RowsOf(r)' = RowsOf(r)
    BY <2>1 DEF EventsFor, RowsOf
  <2>3. \A r \in Requests : BackedOff(r, K)'
    BY <2>2 DEF BackedOff
  <2>4. \A r \in Requests : RowsOf(r)' # {} \/ request_state'[r] # None => Fresh(r)'
    BY <2>1, <2>2 DEF UpToDate, Fresh
  <2> QED
    BY <2>1, <2>3, <2>4 DEF UpToDate
<1>9. CASE plan_tick \/ tick_cut \/ \E d \in due : due # None /\ apply_tick_error(d)
  <2>1. /\ UNCHANGED <<vars, triage_vars>>
        /\ due' # None => due # None /\ \A d \in due' : d \in due
    BY <1>9 DEF plan_tick, tick_cut, apply_tick_error
  <2> QED
    BY <1>2, <1>3, <2>1
<1> QED
  BY <1>4, <1>5, <1>6, <1>7, <1>8, <1>9 DEF DeadlinesNext, ApplyStep, ApplyFault

\* Reminders back off exponentially: the m-th reminder of a request leaves
\* REMINDER_DAYS * 2^(m-1) days after it was sent or later, whatever ticks
\* were cut off and repeated, as long as the shift that computes the waiting
\* time does not overflow within the days of the run.
THEOREM RemindersBackOff ==
    ASSUME NEW CONSTANT K, LongEnough(K)
    PROVE  DeadlinesSpec => []ReminderBackoff
<1>1. DeadlinesInit => BackoffInv(K)
  <2> SUFFICES ASSUME DeadlinesInit PROVE BackoffInv(K)
    OBVIOUS
  <2>1. DInv
    BY DeadlinesEstablished
  <2>2. request_events = {} /\ request_state = [r \in Requests |-> None] /\ due = None
    BY DEF DeadlinesInit, TriageInit, Init
  <2>3. \A r, t : EventsFor(r, t) = {} /\ RowsOf(r) = {}
    BY <2>2 DEF EventsFor, RowsOf
  <2>4. Cardinality({}) = 0 /\ 0 <= K /\ ~(0 > 0)
    BY FS_EmptySet DEF LongEnough
  <2>5. \A r \in Requests : BackedOff(r, K)
    BY <2>3, <2>4 DEF BackedOff
  <2> QED
    BY <2>1, <2>2, <2>3, <2>5 DEF BackoffInv, UpToDate
<1>2. BackoffInv(K) /\ [DeadlinesNext]_allvars => BackoffInv(K)'
  BY BackoffPreserved
<1>3. BackoffInv(K) => ReminderBackoff
  <2> SUFFICES ASSUME BackoffInv(K), NEW r \in requests, NEW R, NEW m,
                      R = EventsFor(r, "REMINDER_SENT"), m = Cardinality(R), m > 0
               PROVE  /\ request_state[r].reminders_sent = m
                      /\ Latest(R).occurred_at
                           >= Latest(EventsFor(r, "SENT")).occurred_at
                                + REMINDER_DAYS * 2^(m - 1)
    BY DEF ReminderBackoff
  <2>1. r \in Requests /\ StoreInv /\ UpToDate /\ BackedOff(r, K)
    BY DEF BackoffInv, DInv, StoreInv, IInv, TypeOK
  <2>2. R # {}
    BY FS_EmptySet
  <2>3. RowsOf(r) # {}
    BY <2>2 DEF EventsFor
  <2>4. request_state[r].reminders_sent = Reminders(Latest(R))
    BY <2>1, <2>2, <2>3, Columns
  <2> QED
    BY <2>1, <2>4 DEF BackedOff
<1> QED
  BY <1>1, <1>2, <1>3, PTL DEF DeadlinesSpec

=============================================================================
