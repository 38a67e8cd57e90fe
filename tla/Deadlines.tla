------------------------------ MODULE Deadlines ------------------------------
(***************************************************************************)
(* The tick engine, crates/symeraseme-core/src/deadlines.rs: run_tick      *)
(* decides for every projected request what is due, apply_tick_actions     *)
(* appends one event per decision, each in its own transaction, and then   *)
(* rebuilds the projections.  The requests it looks at are the ones that   *)
(* sending, triage and rebuttals (module Triage) produce.                  *)
(*                                                                         *)
(* A tick holds the database lock from run_tick to the end of the apply.   *)
(* The `tick' command of the CLI is plan_tick: it prints what run_tick     *)
(* returns and applies nothing.                                            *)
(***************************************************************************)
EXTENDS Triage

CONSTANTS REMINDER_DAYS, DPA_ESCALATION_DAYS, RESCAN_DAYS,  \* 7, 14, 90
          JurisdictionDays,  \* 30 or 45
          Bits,              \* 64: width of the integers reminders are counted in
          Half,              \* 2^63: minus the smallest of these integers
          Callers            \* who runs ticks: "cli" prints, "library" applies

ASSUME DeadlinesAssumption ==
    /\ REMINDER_DAYS \in Nat \ {0} /\ DPA_ESCALATION_DAYS \in Nat
    /\ RESCAN_DAYS \in Nat /\ JurisdictionDays \in Nat
    /\ Bits \in Nat \ {0} /\ Half \in Nat \ {0} /\ Half = 2^(Bits - 1)
    /\ Callers \subseteq {"cli", "library"}

VARIABLES due,      \* actions of the running tick not applied yet, or None
          printed   \* what the last `tick' command printed

deadlines_vars == <<due, printed>>

DeadlinesInit == TriageInit /\ due = None /\ printed = {}

-----------------------------------------------------------------------------
(***************************************************************************)
(* actions_for_candidate.  s is the projection of a request; the result    *)
(* is the event to append, with its payload number.                        *)
(***************************************************************************)

\* x as a signed integer of Bits bits.
wrap(x) == ((x + Half) % (2 * Half)) - Half

\* Faulty variant: the waiting time grows by a constant.
threshold_Linear(k) == REMINDER_DAYS * (k + 1)

\* REMINDER_DAYS << reminders_sent; a shift of Bits or more, which a
\* negative count also is after the cast to u64, leaves 0.
threshold(k) ==
    wrap(REMINDER_DAYS * (IF k < 0 \/ k >= Bits THEN 0 ELSE wrap(2^k)))

Act(t, n) == {[event_type |-> t, number |-> n]}

reminder(s) ==
    IF /\ s.sent_at # None
       /\ today - s.sent_at >= REMINDER_DAYS
       /\ today - s.sent_at >= threshold(s.reminders_sent)
    THEN Act("REMINDER_SENT", wrap(s.reminders_sent + 1)) ELSE {}

\* deadline_at, or failing it sent_at and the days of the jurisdiction.
deadline(s) ==
    IF \/ s.deadline_at # None /\ today >= s.deadline_at
       \/ /\ s.deadline_at = None /\ s.sent_at # None
          /\ today >= s.sent_at + JurisdictionDays
    THEN Act("DEADLINE_REACHED", None) ELSE {}

dpa(s) ==
    IF /\ s.deadline_at # None
       /\ s.escalation_level < 2
       /\ today - s.deadline_at >= DPA_ESCALATION_DAYS
    THEN Act("DPA_COMPLAINT_DRAFTED", None) ELSE {}

rescan(s) ==
    IF s.resolved_at # None /\ today - s.resolved_at >= RESCAN_DAYS
    THEN Act("RE_SCAN_TRIGGERED", None) ELSE {}

actions_for_candidate(s) ==
    CASE s.current_status = "AWAITING_ACK" -> reminder(s)
      [] s.current_status = "AWAITING_RESPONSE" -> deadline(s)
      [] s.current_status = "OVERDUE" -> dpa(s)
      [] s.current_status = "CONFIRMED" -> rescan(s)
      [] OTHER -> {}

-----------------------------------------------------------------------------
(***************************************************************************)
(* run_tick over fetch_tick_candidates: every request with a projection    *)
(* (next_action_at is never set), without a batch limit as in plan_tick.   *)
(***************************************************************************)

Tickable == {r \in requests : request_state[r] # None}

run_tick ==
    UNION {{[request_id |-> r, action |-> a] : a \in actions_for_candidate(request_state[r])} :
             r \in Tickable}

\* No command is between two transactions: the lock is free.
StoreFree == classifying = None /\ due = None

\* `symeraseme tick': the actions are printed, dry run or not.
plan_tick ==
    /\ "cli" \in Callers
    /\ StoreFree
    /\ printed' = run_tick
    /\ UNCHANGED <<vars, triage_vars, due>>

\* A caller that applies them; an empty list returns at once.
tick ==
    /\ "library" \in Callers
    /\ StoreFree
    /\ run_tick # {}
    /\ due' = run_tick
    /\ UNCHANGED <<vars, triage_vars, printed>>

apply_tick_action(d) ==
    /\ due # None
    /\ d \in due
    /\ append_and_project(d.request_id, d.action.event_type, d.action.number, today)
    /\ due' = due \ {d}
    /\ UNCHANGED <<triage_vars, printed>>

\* A failed append is kept as a result and the next action is applied.
apply_tick_error(d) ==
    /\ MayFail
    /\ due # None
    /\ d \in due
    /\ due' = due \ {d}
    /\ UNCHANGED <<vars, triage_vars, printed>>

\* rebuild_all_states, whose outcome is ignored.
apply_tick_done ==
    /\ due = {}
    /\ due' = None
    /\ request_state' = [r \in Requests |->
         IF r \in dirty_requests THEN RowOf(fold_events(RowsOf(r)))
         ELSE request_state[r]]
    /\ UNCHANGED <<requests, request_events, next_event_id, rebuilding, dirty,
                   triage_vars, printed>>

\* The process dies during the apply.
tick_cut ==
    /\ MayFail
    /\ due # None
    /\ due' = None
    /\ UNCHANGED <<vars, triage_vars, printed>>

-----------------------------------------------------------------------------

ApplyStep ==
    \/ due # None /\ \E d \in due : apply_tick_action(d)
    \/ apply_tick_done

ApplyFault ==
    \/ due # None /\ \E d \in due : apply_tick_error(d)
    \/ tick_cut

\* Faulty variant: the lock is given up between run_tick and the apply.
OtherCommand_Unlocked == TriageNext /\ UNCHANGED deadlines_vars

\* Any other command finds the database locked while a tick is applied.
OtherCommand == due = None /\ TriageNext /\ UNCHANGED deadlines_vars

DeadlinesNext ==
    \/ OtherCommand \/ plan_tick \/ tick \/ ApplyStep \/ ApplyFault

allvars == <<vars, triage_vars, deadlines_vars>>

DeadlinesSpec == DeadlinesInit /\ [][DeadlinesNext]_allvars

-----------------------------------------------------------------------------

\* Pending actions are those of the closed catalogue, for stored requests.
DeadlinesTypeOK ==
    /\ TriageTypeOK
    /\ due # None =>
         due \subseteq
           [request_id : requests,
            action : [event_type : {"REMINDER_SENT", "DEADLINE_REACHED",
                                    "DPA_COMPLAINT_DRAFTED", "RE_SCAN_TRIGGERED"},
                      number : Int \cup {None}]]

\* Replies and ticks share one log: actions and tables have their types, and
\* no reply is recorded twice however often classify_reply is cut off between
\* its mark and its event and run again among ticks.
RepliesInv == DeadlinesTypeOK /\ OneEventPerReply

\* Reminders back off exponentially: the m-th reminder of a request leaves
\* REMINDER_DAYS * 2^(m-1) days after it was sent or later, whatever ticks
\* were cut off and repeated on the same day.
ReminderBackoff ==
    \A r \in requests :
      LET reminders == EventsFor(r, "REMINDER_SENT")
          m == Cardinality(reminders)
      IN  m > 0 =>
            /\ request_state[r].reminders_sent = m
            /\ Latest(reminders).occurred_at
                 >= Latest(EventsFor(r, "SENT")).occurred_at
                      + REMINDER_DAYS * 2^(m - 1)

\* A decision is still right when it is applied: no reply or rebuttal that
\* changes the request's status comes between run_tick and the event.
ActionsNotStale ==
    [][\A e \in request_events' \ request_events :
         LET s == request_state[e.request_id].current_status IN
         /\ e.event_type = "REMINDER_SENT" => s = "AWAITING_ACK"
         /\ e.event_type = "DEADLINE_REACHED" => s = "AWAITING_RESPONSE"
         /\ e.event_type = "DPA_COMPLAINT_DRAFTED" => s = "OVERDUE"
         /\ e.event_type = "RE_SCAN_TRIGGERED" => s = "CONFIRMED"]_allvars

=============================================================================
