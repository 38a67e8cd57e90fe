-------------------------------- MODULE Triage --------------------------------
(***************************************************************************)
(* Reply triage: crates/symeraseme-core/src/triage_service.rs and          *)
(* triage_contract.rs on top of the event store.  Replies arrive from      *)
(* outside; classify_reply takes the newest reply that is not classified,  *)
(* marks it in one statement that commits by itself, and then appends the  *)
(* event of its classification in a second transaction.                    *)
(*                                                                         *)
(* `class' is the answer the language model gives for a reply.  Commands   *)
(* hold the database lock, so none runs between the two transactions.      *)
(***************************************************************************)
EXTENDS EventStore, FiniteSets, Sequences

CONSTANTS Classes,       \* classifications the model may return
          ExpectedDays,  \* expected_response_days of SENT
          MaxReplies,    \* bound on the replies
          MaxRebuttals,  \* bound on the rebuttals of one request
          MayFail        \* processes may die and transactions may fail

\* classification_event: the event a classification is recorded as.
classification_event(c) ==
    CASE c = "ack" -> "ACK"
      [] c = "confirmed" -> "CONFIRMED"
      [] c = "rejected" -> "REJECTED_FINAL"
      [] c = "verification" -> "VERIFICATION_REQUESTED"
      [] c \in {"human_required", "unclear"} -> "HUMAN_ACTION_REQUIRED"
      [] c = "autoresponder" -> "AUTORESPONDER"
      [] c = "bounce" -> "BOUNCE"

Classification == {"ack", "confirmed", "rejected", "verification",
                   "human_required", "unclear", "autoresponder", "bounce"}

ASSUME TriageAssumption ==
    /\ Classes \subseteq Classification
    /\ ExpectedDays \in Nat
    /\ MaxReplies \in Nat /\ MaxRebuttals \in Nat
    /\ MayFail \in BOOLEAN
    /\ 0 \notin Times  \* Utc::now() is never Go's zero time

VARIABLES today,          \* the clock, in days
          inbox_replies,  \* the inbox_replies table, in order of id
          classifying     \* the reply whose event is still to be appended

triage_vars == <<today, inbox_replies, classifying>>

TriageInit ==
    /\ Init
    /\ today \in Times /\ \A t \in Times : today <= t
    /\ inbox_replies = <<>>
    /\ classifying = None

NewDay ==
    /\ today' = today + 1
    /\ today' \in Times
    /\ UNCHANGED <<vars, inbox_replies, classifying>>

RepliesOf(r) == {i \in DOMAIN inbox_replies : inbox_replies[i].request_id = r}

-----------------------------------------------------------------------------
(***************************************************************************)
(* Where requests and replies come from: a campaign creates a request and  *)
(* records it as sent once; the broker answers, and its mails may be       *)
(* fetched in another order than they were received.                       *)
(***************************************************************************)

request_sent(r) ==
    /\ classifying = None
    /\ r \in requests
    /\ RowsOf(r) = {}
    /\ append_and_project(r, "SENT", ExpectedDays, today)
    /\ UNCHANGED triage_vars

reply_arrives(r, c, at) ==
    /\ classifying = None
    /\ RowsOf(r) # {}
    /\ at <= today
    /\ Len(inbox_replies) < MaxReplies
    /\ inbox_replies' = Append(inbox_replies,
         [request_id |-> r, class |-> c, received_at |-> at, classified |-> FALSE])
    /\ UNCHANGED <<vars, today, classifying>>

-----------------------------------------------------------------------------

\* latest_reply: ORDER BY received_at DESC, id DESC LIMIT 1.
Newest(S) ==
    CHOOSE i \in S : \A j \in S :
      \/ inbox_replies[j].received_at < inbox_replies[i].received_at
      \/ inbox_replies[j].received_at = inbox_replies[i].received_at /\ j <= i

Unclassified(r) == {i \in RepliesOf(r) : ~inbox_replies[i].classified}

\* Faulty variant: the reply is left as it is until its event is appended.
classify_reply_MarkLater(r) ==
    /\ classifying = None
    /\ Unclassified(r) # {}
    /\ classifying' = Newest(Unclassified(r))
    /\ UNCHANGED <<vars, today, inbox_replies>>

\* classify_reply with save, up to the UPDATE of the reply.
classify_reply(r) ==
    /\ classifying = None
    /\ Unclassified(r) # {}
    /\ LET i == Newest(Unclassified(r)) IN
         /\ inbox_replies' = [inbox_replies EXCEPT ![i].classified = TRUE]
         /\ classifying' = i
    /\ UNCHANGED <<vars, today>>

\* ... and its event, stamped with the time of the classification.
classify_event ==
    /\ classifying # None
    /\ LET reply == inbox_replies[classifying] IN
         append_and_project(reply.request_id, classification_event(reply.class),
                            None, today)
    /\ classifying' = None
    /\ UNCHANGED <<today, inbox_replies>>

\* The process dies, or the second transaction fails.
classify_cut ==
    /\ MayFail
    /\ classifying # None
    /\ classifying' = None
    /\ UNCHANGED <<vars, today, inbox_replies>>

\* generate_rebuttal with save; it needs no reply.
generate_rebuttal(r) ==
    /\ classifying = None
    /\ Cardinality({e \in RowsOf(r) : e.event_type = "REBUTTAL_SENT"}) < MaxRebuttals
    /\ append_and_project(r, "REBUTTAL_SENT", None, today)
    /\ UNCHANGED triage_vars

-----------------------------------------------------------------------------

NewRequest(r) ==
    /\ classifying = None
    /\ create_removal_request(r)
    /\ UNCHANGED triage_vars

TriageNext ==
    \/ \E r \in Requests : \/ NewRequest(r) \/ request_sent(r)
                           \/ classify_reply(r) \/ generate_rebuttal(r)
                           \/ \E c \in Classes, at \in Times : reply_arrives(r, c, at)
    \/ classify_event
    \/ classify_cut
    \/ classifying = None /\ NewDay

TriageSpec == TriageInit /\ [][TriageNext]_<<vars, triage_vars>>

-----------------------------------------------------------------------------

\* The reply table has its columns' types and the log those of the store.
TriageTypeOK ==
    /\ TypeOK
    /\ today \in Times
    /\ inbox_replies \in Seq([request_id : Requests, class : Classes,
                              received_at : Times, classified : BOOLEAN])
    /\ classifying \in DOMAIN inbox_replies \cup {None}

\* The events of type t that classification wrote for r, and the replies
\* they come from.
EventsFor(r, t) == {e \in RowsOf(r) : e.event_type = t}
ClassifiedAs(r, t) ==
    {i \in RepliesOf(r) : /\ inbox_replies[i].classified
                          /\ classification_event(inbox_replies[i].class) = t}

\* However often classify_reply is cut off and repeated, a reply is recorded
\* at most once: every classification event has its own classified reply.
OneEventPerReply ==
    \A r \in Requests, c \in Classes :
      Cardinality(EventsFor(r, classification_event(c)))
        <= Cardinality(ClassifiedAs(r, classification_event(c)))

\* "All replies already classified | Check `events show <id>` for existing
\* classifications" (skills/triage-broker-replies.md): a classified reply has
\* its event.
ClassifiedHasEvent ==
    classifying = None =>
      \A r \in Requests, c \in Classes :
        Cardinality(EventsFor(r, classification_event(c)))
          = Cardinality(ClassifiedAs(r, classification_event(c)))

=============================================================================
