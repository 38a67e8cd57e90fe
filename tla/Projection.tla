------------------------------ MODULE Projection ------------------------------
(***************************************************************************)
(* The event-sourced projection of crates/symeraseme-core/src/storage/     *)
(* projection.rs: the rows of request_events, their replay order, and the  *)
(* request_state row that replaying them produces.                         *)
(*                                                                         *)
(* apply_event is the code's fold step, assignment by assignment.          *)
(* fold_events is what the whole fold amounts to: every column holds what  *)
(* the last event that writes it (in replay order) wrote.  That the loop   *)
(* computes exactly this is the subject of module ReplayFold.              *)
(*                                                                         *)
(* Instants are naturals counted in days; 0 is Go's zero time.  A payload  *)
(* is the one number the fold reads from it (expected_response_days of     *)
(* SENT, count of REMINDER_SENT), or None when the key is absent or not a  *)
(* number.                                                                 *)
(***************************************************************************)
EXTENDS Absent, Integers

CONSTANTS DefaultNow,   \* datetime('now'), the column default of last_event_at
          DurationWord  \* number of values of the i64 duration, in days

ASSUME ProjectionAssumption ==
    /\ None \notin Int /\ DefaultNow \notin Int /\ None # DefaultNow
    /\ DurationWord \in Nat \ {0}

(***************************************************************************)
(* The closed catalogue of EventType, and what from_wire makes of a row    *)
(* whose event_type is not in it: a non-empty unknown name, or "".         *)
(***************************************************************************)
EventType == {"PLANNED", "SENT", "SEND_FAILED", "BOUNCE", "AUTORESPONDER",
              "ACK", "VERIFICATION_REQUESTED", "VERIFICATION_PROVIDED",
              "HUMAN_ACTION_REQUIRED", "CONFIRMATION_LINK_CLICKED",
              "REPLY_DRAFTED", "REBUTTAL_SENT", "REMINDER_SENT",
              "DEADLINE_REACHED", "DPA_COMPLAINT_DRAFTED",
              "DPA_COMPLAINT_FILED", "CONFIRMED", "REJECTED_FINAL",
              "RE_SCAN_TRIGGERED", "NOTE_ADDED"}
UnknownType == {"UNKNOWN", ""}

(***************************************************************************)
(* Event types that leave current_status alone (status_for returns None).  *)
(***************************************************************************)
Statusless == {"REPLY_DRAFTED", "NOTE_ADDED"} \cup UnknownType

\* Faulty variant: event types of triage and of the tick engine are forgotten.
status_for_Incomplete(t) ==
    CASE t = "PLANNED" -> "PLANNED"
      [] t = "SENT" -> "AWAITING_ACK"
      [] OTHER -> None

status_for(t) ==
    CASE t = "PLANNED" -> "PLANNED"
      [] t \in {"SENT", "AUTORESPONDER", "REMINDER_SENT"} -> "AWAITING_ACK"
      [] t = "SEND_FAILED" -> "SEND_FAILED"
      [] t = "BOUNCE" -> "BOUNCE"
      [] t = "ACK" -> "ACK"
      [] t \in {"VERIFICATION_REQUESTED", "HUMAN_ACTION_REQUIRED"}
           -> "AWAITING_USER_ACTION"
      [] t \in {"VERIFICATION_PROVIDED", "REBUTTAL_SENT"} -> "AWAITING_RESPONSE"
      [] t \in {"CONFIRMED", "CONFIRMATION_LINK_CLICKED"} -> "CONFIRMED"
      [] t = "REJECTED_FINAL" -> "REJECTED_FINAL"
      [] t = "DEADLINE_REACHED" -> "OVERDUE"
      [] t = "DPA_COMPLAINT_DRAFTED" -> "ESCALATED"
      [] t = "DPA_COMPLAINT_FILED" -> "DPA_FILED"
      [] t = "RE_SCAN_TRIGGERED" -> "RE_SCAN_DUE"
      [] OTHER -> None

Status == {"PLANNED", "AWAITING_ACK", "SEND_FAILED", "BOUNCE", "ACK",
           "AWAITING_USER_ACTION", "AWAITING_RESPONSE", "CONFIRMED",
           "REJECTED_FINAL", "OVERDUE", "ESCALATED", "DPA_FILED",
           "RE_SCAN_DUE"}

(***************************************************************************)
(* A row of request_events and a projection.  `decodes' is FALSE for a     *)
(* historical row whose timestamp or payload the loader cannot read.       *)
(***************************************************************************)
EventRecord(R) ==
    [id : Nat \ {0}, request_id : R, occurred_at : Nat,
     event_type : EventType \cup UnknownType,
     number : Int \cup {None}, decodes : BOOLEAN]

ProjectionState ==
    [current_status : Status,
     last_event_id : Nat, last_event_at : Nat \cup {None, DefaultNow},
     sent_at : Nat \cup {None}, acknowledged_at : Nat \cup {None},
     resolved_at : Nat \cup {None}, deadline_at : Int \cup {None},
     next_action_at : {None},
     reminders_sent : Int, escalation_level : 0..2]

\* ProjectionState::new, the state before any replayable event.
Blank ==
    [current_status |-> "PLANNED", last_event_id |-> 0, last_event_at |-> None,
     sent_at |-> None, acknowledged_at |-> None, resolved_at |-> None,
     deadline_at |-> None, next_action_at |-> None,
     reminders_sent |-> 0, escalation_level |-> 0]

(***************************************************************************)
(* deadline_at of a SENT event: max(days, 0) days later, 30 when the       *)
(* payload has no number, in two's-complement arithmetic (wrapping_mul).   *)
(* reminders_sent of a REMINDER_SENT event: count, or 1 for 0 or none.     *)
(***************************************************************************)
wrapping(d) ==
    ((d + DurationWord \div 2) % DurationWord) - DurationWord \div 2

Deadline(e) ==
    e.occurred_at +
      wrapping(IF e.number = None THEN 30
               ELSE IF e.number < 0 THEN 0 ELSE e.number)

Reminders(e) == IF e.number \in {None, 0} THEN 1 ELSE e.number

Escalation(e) == IF e.event_type = "DEADLINE_REACHED" THEN 1 ELSE 2

\* Rows that decode_replay_event yields and apply_event does not reject.
Replayable(e) == e.decodes /\ e.event_type # "" /\ e.occurred_at # 0

\* Faulty variant: a type without a status still overwrites the status.
apply_event_StatusAlways(s, e) ==
    IF ~Replayable(e) THEN s ELSE
    [s EXCEPT !.current_status = status_for(e.event_type),
              !.last_event_id = e.id, !.last_event_at = e.occurred_at]

\* Faulty variant: the first resolution of a request is kept.
apply_event_FirstResolution(s, e) ==
    IF ~Replayable(e) THEN s ELSE
    LET t == e.event_type IN
    [s EXCEPT
      !.current_status = IF t \in Statusless THEN @ ELSE status_for(t),
      !.last_event_id = e.id,
      !.last_event_at = e.occurred_at,
      !.resolved_at = IF t \in {"CONFIRMED", "REJECTED_FINAL"} /\ @ = None
                      THEN e.occurred_at ELSE @]

apply_event(s, e) ==
    IF ~Replayable(e) THEN s ELSE
    LET t == e.event_type IN
    [s EXCEPT
      !.current_status = IF t \in Statusless THEN @ ELSE status_for(t),
      !.last_event_id = e.id,
      !.last_event_at = e.occurred_at,
      !.sent_at = IF t = "SENT" THEN e.occurred_at ELSE @,
      !.deadline_at = IF t = "SENT" THEN Deadline(e) ELSE @,
      !.acknowledged_at = IF t = "ACK" THEN e.occurred_at ELSE @,
      !.resolved_at = IF t \in {"CONFIRMED", "REJECTED_FINAL"}
                      THEN e.occurred_at ELSE @,
      !.reminders_sent = IF t = "REMINDER_SENT" THEN Reminders(e) ELSE @,
      !.escalation_level =
          IF t \in {"DEADLINE_REACHED", "DPA_COMPLAINT_DRAFTED"}
          THEN Escalation(e) ELSE @]

(***************************************************************************)
(* Replay order: ORDER BY occurred_at ASC, id ASC.                         *)
(***************************************************************************)
Before(e, f) ==
    \/ e.occurred_at < f.occurred_at
    \/ e.occurred_at = f.occurred_at /\ e.id < f.id

IsLatest(m, E) == m \in E /\ \A e \in E : e = m \/ Before(e, m)

Latest(E) == CHOOSE m \in E : IsLatest(m, E)

(***************************************************************************)
(* The column that Value computes from the last event of E for which       *)
(* Writes holds, or the blank value when E has none.                       *)
(***************************************************************************)
Writers(E, T) == {e \in E : Replayable(e) /\ e.event_type \in T}

LastWrite(E, T, blank, Value(_)) ==
    IF Writers(E, T) = {} THEN blank ELSE Value(Latest(Writers(E, T)))

OccurredAt(e) == e.occurred_at
IdOf(e) == e.id
StatusOf(e) == status_for(e.event_type)

AnyType == EventType \cup {"UNKNOWN"}

\* Faulty variant: the last event decides the status, whatever its type.
fold_events_LastStatus(E) ==
    [Blank EXCEPT !.current_status = LastWrite(E, AnyType, "PLANNED", StatusOf),
                  !.last_event_id = LastWrite(E, AnyType, 0, IdOf),
                  !.last_event_at = LastWrite(E, AnyType, None, OccurredAt)]

fold_events(E) ==
    [current_status   |-> LastWrite(E, AnyType \ Statusless, "PLANNED", StatusOf),
     last_event_id    |-> LastWrite(E, AnyType, 0, IdOf),
     last_event_at    |-> LastWrite(E, AnyType, None, OccurredAt),
     sent_at          |-> LastWrite(E, {"SENT"}, None, OccurredAt),
     acknowledged_at  |-> LastWrite(E, {"ACK"}, None, OccurredAt),
     resolved_at      |-> LastWrite(E, {"CONFIRMED", "REJECTED_FINAL"},
                                    None, OccurredAt),
     deadline_at      |-> LastWrite(E, {"SENT"}, None, Deadline),
     next_action_at   |-> None,
     reminders_sent   |-> LastWrite(E, {"REMINDER_SENT"}, 0, Reminders),
     escalation_level |-> LastWrite(E, {"DEADLINE_REACHED",
                                        "DPA_COMPLAINT_DRAFTED"}, 0, Escalation)]

(***************************************************************************)
(* What upsert_state_tx stores: last_event_at is NOT NULL DEFAULT          *)
(* (datetime('now')), and INSERT OR REPLACE turns a NULL into the default. *)
(***************************************************************************)
RowOf(s) == [s EXCEPT !.last_event_at = IF @ = None THEN DefaultNow ELSE @]

=============================================================================
