------------------------------ MODULE PartProofs ------------------------------
(***************************************************************************)
(* Parts of the program that run on their own: the replay loop computes    *)
(* the declarative projection, for every log; the application does not     *)
(* lose its key; an authorization state is accepted once; a mail reported  *)
(* as sent has been taken for every recipient; the mail client does not    *)
(* expose credentials; an answer of a child process is whole; the protocol *)
(* answers what it ran; the MCP server accounts for its connections; and   *)
(* migrations and installations that break off leave nothing half done     *)
(* unnoticed.                                                              *)
(***************************************************************************)
EXTENDS ReplayFold, EventStoreProofs, AppKeys, OAuthStates, SmtpSender, ImapClient,
        Subprocess, McpProtocol, McpServer, Migration, Scheduler, FiniteSetTheorems,
        SequenceTheorems, WellFoundedInduction

-----------------------------------------------------------------------------
(***************************************************************************)
(* The replay loop.                                                        *)
(***************************************************************************)

\* apply_event keeps the column types.
LEMMA ApplyType ==
  ASSUME NEW R, NEW s \in ProjectionState, NEW e \in EventRecord(R)
  PROVE  apply_event(s, e) \in ProjectionState
<1>1. /\ Deadline(e) \in Int /\ Reminders(e) \in Int /\ Escalation(e) \in 0..2
      /\ e.event_type \notin Statusless => status_for(e.event_type) \in Status
  BY ColumnTypes
<1>2. e.id \in Nat /\ e.occurred_at \in Nat
  BY DEF EventRecord
<1>3. CASE ~Replayable(e)
  BY <1>3 DEF apply_event
<1>4. CASE Replayable(e)
  <2> DEFINE t == e.event_type
             u == apply_event(s, e)
             c == [current_status |-> s.current_status, last_event_id |-> s.last_event_id,
                  last_event_at |-> s.last_event_at, sent_at |-> s.sent_at,
                  acknowledged_at |-> s.acknowledged_at, resolved_at |-> s.resolved_at,
                  deadline_at |-> s.deadline_at, next_action_at |-> s.next_action_at,
                  reminders_sent |-> s.reminders_sent,
                  escalation_level |-> s.escalation_level]
  <2>1. s = c
    BY DEF ProjectionState
  <2>2. apply_event(c, e) = [current_status |->
               IF t \in Statusless THEN s.current_status ELSE status_for(t),
             last_event_id |-> e.id, last_event_at |-> e.occurred_at,
             sent_at |-> IF t = "SENT" THEN e.occurred_at ELSE s.sent_at,
             acknowledged_at |-> IF t = "ACK" THEN e.occurred_at ELSE s.acknowledged_at,
             resolved_at |-> IF t \in {"CONFIRMED", "REJECTED_FINAL"}
                             THEN e.occurred_at ELSE s.resolved_at,
             deadline_at |-> IF t = "SENT" THEN Deadline(e) ELSE s.deadline_at,
             next_action_at |-> s.next_action_at,
             reminders_sent |->
               IF t = "REMINDER_SENT" THEN Reminders(e) ELSE s.reminders_sent,
             escalation_level |->
               IF t \in {"DEADLINE_REACHED", "DPA_COMPLAINT_DRAFTED"}
               THEN Escalation(e) ELSE s.escalation_level]
    BY <1>4, ApplyColumns
  <2>3. /\ s.current_status \in Status /\ s.sent_at \in Nat \cup {None}
        /\ s.acknowledged_at \in Nat \cup {None}
        /\ s.resolved_at \in Nat \cup {None} /\ s.deadline_at \in Int \cup {None}
        /\ s.next_action_at \in {None} /\ s.reminders_sent \in Int
        /\ s.escalation_level \in 0..2
    BY DEF ProjectionState
  <2>4. u = apply_event(c, e)
    BY <2>1
  <2> HIDE DEF u
  <2>5. u \in ProjectionState
    BY <1>1, <1>2, <2>4, <2>2, <2>3 DEF ProjectionState
  <2> QED BY <2>5 DEF u
<1> QED BY <1>3, <1>4

\* The blank state has the column types.
LEMMA BlankType == Blank \in ProjectionState
BY DEF Blank, ProjectionState, Status

\* What every iteration keeps: types, the order of the cursor, and the
\* accumulated state as the projection of the rows folded so far.
FoldInv == FoldTypeOK /\ ReplayOrder /\ ReplayComputesProjection

\* Type correctness and the computed projection, for every log replayed by
\* rebuild_state and upsert_state_tx.
THEOREM ReplayCorrect == FoldSpec => [](FoldTypeOK /\ ReplayComputesProjection)
<1>1. FoldInit => FoldInv
  <2> SUFFICES ASSUME FoldInit PROVE FoldInv
    OBVIOUS
  <2>1. FoldTypeOK
    BY LogsAssumption, BlankType DEF FoldInit, FoldTypeOK
  <2>2. ReplayOrder
    BY DEF FoldInit, ReplayOrder
  <2>3. ReplayComputesProjection
    BY FoldBlank DEF FoldInit, ReplayComputesProjection
  <2> QED BY <2>1, <2>2, <2>3 DEF FoldInv
<1>2. FoldInv /\ [FoldNext]_fold_vars => FoldInv'
  <2> SUFFICES ASSUME FoldInv, [FoldNext]_fold_vars PROVE FoldInv'
    OBVIOUS
  <2> USE DEF FoldInv
  <2>1. CASE FoldStep
    <3>1. PICK e \in pending :
            /\ \A f \in pending : f = e \/ Before(e, f)
            /\ state' = apply_event(state, e)
            /\ applied' = applied \cup {e}
            /\ pending' = pending \ {e}
      BY <2>1 DEF FoldStep, IsNext
    <3>2. e \in EventRecord({Request}) /\ applied \in SUBSET EventRecord({Request})
      BY DEF FoldTypeOK
    <3>3. FoldTypeOK'
      BY <3>1, <3>2, ApplyType DEF FoldTypeOK
    <3>4. ReplayOrder'
      BY <3>1 DEF ReplayOrder
    <3>5. \A f \in applied : Before(f, e)
      BY <3>1 DEF ReplayOrder
    <3>6. ReplayComputesProjection'
      BY <3>1, <3>2, <3>5, FoldOneMore DEF ReplayComputesProjection
    <3> QED BY <3>3, <3>4, <3>6
  <2>2. CASE UNCHANGED fold_vars
    BY <2>2 DEF fold_vars, FoldTypeOK, ReplayOrder, ReplayComputesProjection
  <2> QED BY <2>1, <2>2 DEF FoldNext, Done
<1>3. FoldInv => FoldTypeOK /\ ReplayComputesProjection
  BY DEF FoldInv
<1> QED BY <1>1, <1>2, <1>3, PTL DEF FoldSpec

-----------------------------------------------------------------------------
(***************************************************************************)
(* The application's key.                                                  *)
(***************************************************************************)

\* KeyNeverLost is not inductive: the key the user relies on is the one the
\* next launch would read, not just either of the two copies.
KInv ==
    /\ KeysTypeOK
    /\ stored # None => stored = IF keychain # None THEN keychain ELSE legacy
    /\ launched /\ ~warned => key = keychain /\ legacy = None

\* Whatever the Keychain refuses and whenever the application ends, the key
\* survives, the next launch uses the same one, and no plain-text copy stays.
THEOREM KeySurvives == KeysSpec => []KeysCorrect
<1>1. KeysInit => KInv
  BY KeysAssumption DEF KeysInit, KInv, KeysTypeOK
<1>2. ASSUME KInv, [KeysNext]_keys_vars PROVE KInv'
  <2> USE <1>2 DEF KInv, KeysTypeOK
  <2>1. CASE load_read_error \/ load_stored \/ load_none
    BY <2>1 DEF load_read_error, load_stored, load_none
  <2>2. CASE load_migrate
    <3>1. /\ keychain = None /\ legacy # None /\ key' = legacy /\ launched' = TRUE
          /\ UNCHANGED stored
          /\ \/ keychain' = keychain /\ warned' = TRUE /\ legacy' = legacy
             \/ keychain' = legacy /\ warned' = TRUE /\ legacy' = legacy
             \/ keychain' = legacy /\ warned' = FALSE /\ legacy' = None
      <4>1. PICK r \in save(legacy) :
              keychain' = r.item /\ warned' = ~r.ok /\ legacy' = IF r.ok THEN None ELSE legacy
        BY <2>2 DEF load_migrate
      <4>2. \/ r.item = keychain /\ r.ok = FALSE
            \/ r.item = legacy /\ r.ok = FALSE
            \/ r.item = legacy /\ r.ok = TRUE
        BY DEF save
      <4> QED
        BY <2>2, <4>1, <4>2, Zenon DEF load_migrate
    <3> QED
      BY <3>1
  <2>3. ASSUME NEW k \in Keys \cup {None}, persistAnthropicKey(k) PROVE KInv'
    <3>1. /\ launched' = launched /\ key' = k
          /\ \/ keychain' = k /\ warned' = FALSE /\ legacy' = None /\ stored' = k
             \/ keychain' = keychain /\ warned' = TRUE /\ legacy' = legacy /\ stored' = stored
             \/ keychain' = k /\ warned' = TRUE /\ legacy' = legacy /\ stored' = None
      <4>1. PICK r : /\ \/ r.item = k /\ r.ok = TRUE
                        \/ r.item = k /\ r.ok = FALSE
                        \/ r.item = keychain /\ r.ok = FALSE
                     /\ keychain' = r.item /\ warned' = ~r.ok
                     /\ legacy' = IF r.ok THEN None ELSE legacy
                     /\ stored' = IF r.ok THEN k ELSE IF r.item = keychain THEN stored ELSE None
        BY <2>3 DEF persistAnthropicKey, save
      <4>2. CASE r.ok
        BY <2>3, <4>1, <4>2, Zenon DEF persistAnthropicKey
      <4>3. CASE ~r.ok
        BY <2>3, <4>1, <4>3, Zenon DEF persistAnthropicKey
      <4> QED
        BY <4>2, <4>3
    <3> QED
      BY <3>1
  <2>4. CASE app_ends
    BY <2>4 DEF app_ends
  <2>5. CASE UNCHANGED keys_vars
    BY <2>5 DEF keys_vars
  <2> QED
    BY <2>1, <2>2, <2>3, <2>4, <2>5 DEF KeysNext
<1>3. KInv => KeysCorrect
  BY DEF KInv, KeysCorrect, KeyNeverLost, NextLaunchAgrees, NoPlainTextCopy
<1> QED
  BY <1>1, <1>2, <1>3, PTL DEF KeysSpec

-----------------------------------------------------------------------------
(***************************************************************************)
(* Authorization states.                                                   *)
(***************************************************************************)

Call == [step : {"none", "waiting", "writing"}, op : {"store", "validate"},
         state : States \cup {"absent"}, now : Nat, records : [States -> Nat]]

OAuthTypes ==
    /\ unix_now \in Nat /\ state_file \in [States -> Nat] /\ accepted \in [States -> Nat]
    /\ updating \in [Threads -> Call]
    /\ \A t \in Threads : updating[t].step # "none" => updating[t].state \in States

Writing(t) == updating[t].step = "writing"
Storing(t, s) == updating[t].step # "none" /\ updating[t].op = "store" /\ updating[t].state = s

\* Thread t writes nothing about s, and is not about to accept it.
LeavesOut(t, s) ==
    Writing(t) => /\ updating[t].records[s] = 0
                  /\ ~(updating[t].op = "validate" /\ updating[t].state = s)

\* A state that was never drawn is nowhere.
Undrawn(s) ==
    /\ state_file[s] = 0
    /\ \A t \in Threads : ~Storing(t, s) /\ LeavesOut(t, s)

\* A state that was accepted is gone from the file and from what a call is about
\* to write, and no call is about to accept or to store it again.
Spent(s) ==
    /\ s \in drawn
    /\ state_file[s] = 0
    /\ \A t \in Threads : ~Storing(t, s) /\ LeavesOut(t, s)

\* While a state is being stored nobody else has it.
Pending(t, s) ==
    /\ s \in drawn
    /\ state_file[s] = 0
    /\ \A u \in Threads \ {t} : ~Storing(u, s) /\ LeavesOut(u, s)

OInv ==
    /\ OAuthTypes
    /\ \A t, u \in Threads : Writing(t) /\ Writing(u) => t = u
    /\ \A t \in Threads : Writing(t) /\ updating[t].op = "validate" =>
         updating[t].records[updating[t].state] = 0
    /\ \A s \in States : s \notin drawn => Undrawn(s)
    /\ \A t \in Threads, s \in States : Storing(t, s) => Pending(t, s)
    /\ \A s \in States : accepted[s] # 0 => Spent(s)
    /\ StatesAreSingleUse

\* What a call looks like before, when it begins and once it has read the file.
LEMMA CallShapes ==
    /\ NoCall \in Call /\ NoCall.step = "none"
    /\ \A op \in {"store", "validate"}, s \in States : unix_now \in Nat =>
         /\ Calling(op, s) \in Call /\ Calling(op, s).step = "waiting"
         /\ Calling(op, s).op = op /\ Calling(op, s).state = s
    /\ \A d \in Call, r \in [States -> Nat] :
         /\ Holding(d, r) \in Call /\ Holding(d, r).step = "writing"
         /\ Holding(d, r).records = r
         /\ Holding(d, r).op = d.op /\ Holding(d, r).state = d.state
<1>1. NoCall \in Call /\ NoCall.step = "none"
  BY DEF NoCall, Call
<1>2. ASSUME NEW op \in {"store", "validate"}, NEW s \in States, unix_now \in Nat
      PROVE  /\ Calling(op, s) \in Call /\ Calling(op, s).step = "waiting"
             /\ Calling(op, s).op = op /\ Calling(op, s).state = s
  <2>1. PICK c : c = Calling(op, s)
    OBVIOUS
  <2>2. c = [step |-> "waiting", op |-> op, state |-> s, now |-> unix_now,
             records |-> [x \in States |-> 0]]
    BY <2>1 DEF Calling
  <2>3. c \in Call /\ c.step = "waiting" /\ c.op = op /\ c.state = s
    BY <1>2, <2>2 DEF Call
  <2> QED
    BY <2>1, <2>3
<1>3. ASSUME NEW d \in Call, NEW r \in [States -> Nat]
      PROVE  /\ Holding(d, r) \in Call /\ Holding(d, r).step = "writing"
             /\ Holding(d, r).records = r
             /\ Holding(d, r).op = d.op /\ Holding(d, r).state = d.state
  BY DEF Call, Holding
<1> QED
  BY <1>1, <1>2, <1>3

\* A call that begins or ends changes nothing for the others.
LEMMA CallMoves ==
    ASSUME OInv, NEW t \in Threads, NEW c \in Call,
           c.step # "writing", c.step # "none" => c.state \in States,
           updating' = [updating EXCEPT ![t] = c],
           UNCHANGED <<state_file, accepted>>, unix_now' \in Nat,
           \/ UNCHANGED drawn /\ (c.step = "none" \/ c.op # "store")
           \/ /\ c.step # "none" /\ c.op = "store" /\ c.state \notin drawn
              /\ drawn' = drawn \cup {c.state}
    PROVE  OInv'
<1>1. updating' \in [Threads -> Call] /\ updating'[t] = c
      /\ \A u \in Threads : u # t => updating'[u] = updating[u]
  BY DEF OInv, OAuthTypes
<1>2. OAuthTypes'
  BY <1>1 DEF OInv, OAuthTypes
<1>3. /\ \A u \in Threads, s \in States : LeavesOut(u, s) => LeavesOut(u, s)'
      /\ \A u \in Threads, s \in States : u # t => Storing(u, s)' = Storing(u, s)
      /\ \A u \in Threads : Writing(u)' => Writing(u) /\ updating'[u] = updating[u]
  BY <1>1 DEF LeavesOut, Storing, Writing
<1>4. \A s \in States : Storing(t, s)' => s \notin drawn /\ s \in drawn'
  BY <1>1 DEF Storing
<1>5. drawn \subseteq drawn'
  OBVIOUS
<1>6. ASSUME NEW s \in States, s \notin drawn' PROVE Undrawn(s)'
  <2>1. Undrawn(s)
    BY <1>5, <1>6 DEF OInv
  <2>2. ~Storing(t, s)'
    BY <1>4, <1>6
  <2> QED
    BY <1>3, <2>1, <2>2 DEF Undrawn
<1>7. ASSUME NEW u \in Threads, NEW s \in States, Storing(u, s)' PROVE Pending(u, s)'
  <2>1. CASE u = t
    <3>1. Undrawn(s) /\ s \in drawn'
      BY <1>4, <1>7, <2>1 DEF OInv
    <3> QED
      BY <1>3, <2>1, <3>1 DEF Undrawn, Pending
  <2>2. CASE u # t
    <3>1. Pending(u, s)
      BY <1>3, <1>7, <2>2 DEF OInv
    <3>2. ~Storing(t, s)'
      BY <1>4, <3>1 DEF Pending
    <3> QED
      BY <1>3, <1>5, <3>1, <3>2 DEF Pending
  <2> QED
    BY <2>1, <2>2
<1>8. ASSUME NEW s \in States, accepted'[s] # 0 PROVE Spent(s)'
  <2>1. Spent(s)
    BY <1>8 DEF OInv
  <2>2. ~Storing(t, s)'
    BY <1>4, <2>1 DEF Spent
  <2> QED
    BY <1>3, <1>5, <2>1, <2>2 DEF Spent
<1>9. StatesAreSingleUse'
  BY DEF OInv, StatesAreSingleUse
<1> QED
  BY <1>2, <1>3, <1>6, <1>7, <1>8, <1>9 DEF OInv

\* A call that has the mutex takes the records of the file with it, but for
\* its own state.
LEMMA CallReads ==
    ASSUME OInv, NEW t \in Threads, NEW c \in Call, NEW s \in States,
           \A u \in Threads : ~Writing(u),
           c.step = "writing", c.state = s, s \in drawn,
           \A q \in States : q # s => c.records[q] = state_file[q],
           \/ c.op = "store" /\ Storing(t, s)
           \/ c.op = "validate" /\ c.records[s] = 0 /\ state_file[s] # 0,
           updating' = [updating EXCEPT ![t] = c],
           UNCHANGED <<unix_now, state_file, drawn, accepted>>
    PROVE  OInv'
<1>1. updating' \in [Threads -> Call] /\ updating'[t] = c
      /\ \A u \in Threads : u # t => updating'[u] = updating[u]
  BY DEF OInv, OAuthTypes
<1>2. OAuthTypes'
  BY <1>1 DEF OInv, OAuthTypes
<1>3. \A u \in Threads : Writing(u)' => u = t
  BY <1>1 DEF Writing
<1>4. \A u \in Threads, q \in States : Storing(u, q)' => Storing(u, q)
  BY <1>1 DEF Storing
<1>5. ASSUME NEW q \in States, NEW u \in Threads, q # s, state_file[q] = 0 PROVE LeavesOut(u, q)'
  BY <1>1, <1>3, <1>5 DEF LeavesOut
<1>6. ASSUME NEW q \in States, q \notin drawn' PROVE Undrawn(q)'
  BY <1>4, <1>5, <1>6 DEF OInv, Undrawn
<1>7. ASSUME NEW u \in Threads, NEW q \in States, Storing(u, q)' PROVE Pending(u, q)'
  <2>1. Pending(u, q)
    BY <1>4, <1>7 DEF OInv
  <2>2. CASE q # s
    BY <1>4, <1>5, <2>1, <2>2 DEF Pending
  <2>3. CASE q = s
    <3>1. u = t
      BY <2>1, <2>3 DEF Pending
    <3>2. \A v \in Threads \ {u} : LeavesOut(v, q)'
      BY <1>3, <3>1 DEF LeavesOut
    <3> QED
      BY <1>4, <2>1, <3>2 DEF Pending
  <2> QED
    BY <2>2, <2>3
<1>8. ASSUME NEW q \in States, accepted'[q] # 0 PROVE Spent(q)'
  <2>1. Spent(q)
    BY <1>8 DEF OInv
  <2>2. q # s
    BY <2>1 DEF Spent
  <2> QED
    BY <1>4, <1>5, <2>1, <2>2 DEF Spent
<1>9. \A u \in Threads : Writing(u)' /\ updating'[u].op = "validate" =>
        updating'[u].records[updating'[u].state] = 0
  BY <1>1, <1>3
<1>10. StatesAreSingleUse'
  BY DEF OInv, StatesAreSingleUse
<1> QED
  BY <1>2, <1>3, <1>6, <1>7, <1>8, <1>9, <1>10 DEF OInv

\* The call with the mutex replaces the file.
LEMMA CallCommits ==
    ASSUME OInv, NEW t \in Threads, update_commit(t)
    PROVE  OInv'
<1>1. PICK c \in Call : c = updating[t]
  BY DEF OInv, OAuthTypes
<1>2. PICK s \in States : s = c.state
  BY <1>1 DEF update_commit, OInv, OAuthTypes
<1>3. /\ Writing(t) /\ c.step = "writing" /\ c.records \in [States -> Nat]
      /\ state_file' = c.records /\ UNCHANGED <<unix_now, drawn>>
      /\ updating' = [updating EXCEPT ![t] = NoCall]
      /\ c.op = "validate" => accepted' = [accepted EXCEPT ![s] = accepted[s] + 1]
      /\ c.op # "validate" => accepted' = accepted
  <2>1. /\ updating[t].step = "writing" /\ state_file' = updating[t].records
        /\ UNCHANGED <<unix_now, drawn>> /\ updating' = [updating EXCEPT ![t] = NoCall]
    BY DEF update_commit
  <2>2. c.records \in [States -> Nat]
    BY DEF Call
  <2>3. accepted' = IF c.op = "validate" THEN [accepted EXCEPT ![s] = accepted[s] + 1]
                    ELSE accepted
    BY <1>1, <1>2 DEF update_commit
  <2> QED
    BY <1>1, <2>1, <2>2, <2>3 DEF Writing
<1>4. NoCall \in Call /\ NoCall.step = "none"
  BY CallShapes
<1>5. updating' \in [Threads -> Call] /\ updating'[t] = NoCall
      /\ \A u \in Threads : u # t => updating'[u] = updating[u]
  BY <1>3, <1>4 DEF OInv, OAuthTypes
<1>6. \A u \in Threads : ~Writing(u)'
  BY <1>3, <1>4, <1>5 DEF OInv, Writing
<1>7. \A u \in Threads, q \in States : Storing(u, q)' => u # t /\ Storing(u, q)
  BY <1>4, <1>5 DEF Storing
<1>8. \A u \in Threads, q \in States : LeavesOut(u, q)'
  BY <1>6 DEF LeavesOut
<1>9. \A q \in States : LeavesOut(t, q) => c.records[q] = 0
  BY <1>1, <1>3 DEF LeavesOut
<1>10. ASSUME NEW q \in States, q \notin drawn' PROVE Undrawn(q)'
  BY <1>3, <1>7, <1>8, <1>9, <1>10 DEF OInv, Undrawn
<1>11. ASSUME NEW u \in Threads, NEW q \in States, Storing(u, q)' PROVE Pending(u, q)'
  BY <1>3, <1>7, <1>8, <1>9, <1>11 DEF OInv, Pending
<1>12. ASSUME NEW q \in States, Spent(q) PROVE Spent(q)'
  BY <1>3, <1>7, <1>8, <1>9, <1>12 DEF Spent
<1>13. CASE c.op # "validate"
  <2>1. OAuthTypes'
    BY <1>3, <1>4, <1>5, <1>13 DEF OInv, OAuthTypes
  <2>2. \A q \in States : accepted'[q] # 0 => Spent(q)'
    BY <1>3, <1>12, <1>13 DEF OInv
  <2>3. StatesAreSingleUse'
    BY <1>3, <1>13 DEF OInv, StatesAreSingleUse
  <2> QED
    BY <1>6, <1>10, <1>11, <2>1, <2>2, <2>3 DEF OInv
<1>14. CASE c.op = "validate"
  <2>1. ~LeavesOut(t, s) /\ c.records[s] = 0
    BY <1>1, <1>2, <1>3, <1>14 DEF OInv, LeavesOut
  <2>2. accepted[s] = 0 /\ s \in drawn /\ \A u \in Threads : u # t => ~Storing(u, s)
    BY <2>1 DEF OInv, Spent, Undrawn, Pending
  <2>3. accepted' \in [States -> Nat] /\ accepted'[s] = 1
        /\ \A q \in States : q # s => accepted'[q] = accepted[q]
    BY <1>3, <1>14, <2>2 DEF OInv, OAuthTypes
  <2>4. OAuthTypes'
    BY <1>3, <1>4, <1>5, <2>3 DEF OInv, OAuthTypes
  <2>5. Spent(s)'
    BY <1>3, <1>7, <1>8, <2>1, <2>2 DEF Spent
  <2>6. \A q \in States : accepted'[q] # 0 => Spent(q)'
    BY <1>12, <2>3, <2>5 DEF OInv
  <2>7. StatesAreSingleUse'
    BY <2>3 DEF OInv, StatesAreSingleUse
  <2> QED
    BY <1>6, <1>10, <1>11, <2>4, <2>6, <2>7 DEF OInv
<1> QED
  BY <1>13, <1>14

\* Threads that share an OAuthStateStore, any number of them: an authorization
\* state is accepted at most once, whichever stores and validations of it and of
\* other states overlap, wait for the mutex with an old clock, or fail.
THEOREM StateAcceptedOnce ==
    ASSUME Shared
    PROVE  OAuthSpec => []StatesAreSingleUse
<1>1. OAuthInit => OInv
  <2> SUFFICES ASSUME OAuthInit PROVE OInv
    OBVIOUS
  <2>1. NoCall \in Call /\ NoCall.step = "none"
    BY DEF NoCall, Call
  <2>2. /\ OAuthTypes /\ StatesAreSingleUse
        /\ \A t \in Threads : updating[t].step = "none"
        /\ \A s \in States : state_file[s] = 0 /\ accepted[s] = 0
    BY <2>1 DEF OAuthInit, OAuthTypes, StatesAreSingleUse
  <2>3. \A t \in Threads, s \in States : ~Storing(t, s) /\ LeavesOut(t, s) /\ ~Writing(t)
    BY <2>2 DEF Storing, LeavesOut, Writing
  <2> QED
    BY <2>2, <2>3 DEF OInv, Undrawn, Writing
<1>2. ASSUME OInv, [OAuthNext]_oauth_vars PROVE OInv'
  <2> USE <1>2
  <2>0. NoCall \in Call /\ NoCall.step = "none"
    BY CallShapes
  <2>1. CASE UNCHANGED <<state_file, updating, drawn, accepted>> /\ unix_now' \in Nat
    BY <2>1 DEF OInv, OAuthTypes, Undrawn, Spent, Pending, Storing, Writing, LeavesOut,
                StatesAreSingleUse
  <2>2. CASE oauth_tick \/ UNCHANGED oauth_vars
    BY <2>1, <2>2 DEF oauth_tick, oauth_vars, OInv, OAuthTypes
  <2>3. ASSUME NEW op \in {"store", "validate"}, NEW s \in States
        PROVE  /\ Calling(op, s) \in Call /\ Calling(op, s).step = "waiting"
               /\ Calling(op, s).op = op /\ Calling(op, s).state = s
    BY CallShapes DEF OInv, OAuthTypes
  <2>4. ASSUME NEW t \in Threads, NEW s \in States, store_state(t, s)
        PROVE  OInv'
    <3>1. PICK c : c = Calling("store", s)
      OBVIOUS
    <3>2. c \in Call /\ c.step = "waiting" /\ c.op = "store" /\ c.state = s
      BY <2>3, <3>1
    <3>3. /\ c.state \notin drawn /\ drawn' = drawn \cup {c.state}
          /\ updating' = [updating EXCEPT ![t] = c] /\ UNCHANGED <<state_file, accepted>>
          /\ unix_now' \in Nat
      BY <2>4, <3>1, <3>2 DEF store_state, OInv, OAuthTypes
    <3> QED
      BY <3>2, <3>3, CallMoves
  <2>5. ASSUME NEW t \in Threads, NEW s \in States, validate_state(t, s)
        PROVE  OInv'
    <3>1. PICK c : c = Calling("validate", s)
      OBVIOUS
    <3>2. c \in Call /\ c.step = "waiting" /\ c.op = "validate" /\ c.state = s
      BY <2>3, <3>1
    <3>3. /\ UNCHANGED drawn /\ updating' = [updating EXCEPT ![t] = c]
          /\ UNCHANGED <<state_file, accepted>> /\ unix_now' \in Nat
      BY <2>5, <3>1 DEF validate_state, OInv, OAuthTypes
    <3> QED
      BY <3>2, <3>3, CallMoves
  <2>6. ASSUME NEW t \in Threads, updating' = [updating EXCEPT ![t] = NoCall],
               UNCHANGED <<unix_now, state_file, drawn, accepted>>
        PROVE  OInv'
    <3>1. unix_now' \in Nat
      BY <2>6 DEF OInv, OAuthTypes
    <3>2. PICK c : c = NoCall
      OBVIOUS
    <3> QED
      BY <2>0, <2>6, <3>1, <3>2, CallMoves
  <2>7. ASSUME NEW t \in Threads, update_fail(t)
        PROVE  OInv'
    BY <2>6, <2>7 DEF update_fail
  <2>8. ASSUME NEW t \in Threads, update_read(t)
        PROVE  OInv'
    <3>1. PICK d \in Call : d = updating[t]
      BY DEF OInv, OAuthTypes
    <3>2. PICK s \in States : s = d.state
      BY <2>8, <3>1 DEF update_read, OInv, OAuthTypes
    <3>3. /\ d.step = "waiting" /\ UNCHANGED <<unix_now, state_file, drawn, accepted>>
          /\ \A u \in Threads : ~Writing(u)
      BY <2>8, <3>1 DEF update_read, unlocked, Writing
    <3>4. CASE updating' = [updating EXCEPT ![t] = NoCall]
      BY <2>6, <3>3, <3>4
    <3>5. CASE /\ d.op = "store"
               /\ updating' = [updating EXCEPT
                     ![t] = Holding(d, [state_file EXCEPT ![s] = d.now + TTL])]
      <4>1. PICK c : c = Holding(d, [state_file EXCEPT ![s] = d.now + TTL])
        OBVIOUS
      <4>2. d.now + TTL \in Nat
        <5>1. d.now \in Nat
          BY DEF Call
        <5>2. TTL \in Nat
          BY OAuthAssumption
        <5> QED
          BY <5>1, <5>2
      <4>3. [state_file EXCEPT ![s] = d.now + TTL] \in [States -> Nat]
        BY <4>2 DEF OInv, OAuthTypes
      <4>4. /\ c \in Call /\ c.step = "writing" /\ c.state = s /\ c.op = "store"
            /\ c.records = [state_file EXCEPT ![s] = d.now + TTL]
        <5>1. PICK f \in [States -> Nat] : f = [state_file EXCEPT ![s] = d.now + TTL]
          BY <4>3
        <5>2. c = Holding(d, f)
          BY <4>1, <5>1
        <5>3. /\ Holding(d, f) \in Call /\ Holding(d, f).step = "writing"
              /\ Holding(d, f).records = f
              /\ Holding(d, f).op = d.op /\ Holding(d, f).state = d.state
          BY CallShapes
        <5> QED
          BY <3>2, <3>5, <5>1, <5>2, <5>3
      <4>5. \A q \in States : q # s => c.records[q] = state_file[q]
        BY <4>4 DEF OInv, OAuthTypes
      <4>6. Storing(t, s)
        BY <3>1, <3>2, <3>3, <3>5 DEF Storing
      <4>7. s \in drawn
        BY <4>6 DEF OInv, Pending
      <4>8. updating' = [updating EXCEPT ![t] = c]
        BY <3>5, <4>1
      <4>9. UNCHANGED <<unix_now, state_file, drawn, accepted>>
        BY <3>3
      <4>10. c \in Call /\ c.step = "writing" /\ c.state = s
             /\ ((c.op = "store" /\ Storing(t, s)) \/
                 (c.op = "validate" /\ c.records[s] = 0 /\ state_file[s] # 0))
        BY <4>4, <4>6
      <4> QED
        BY ONLY OInv, <3>3, <4>5, <4>7, <4>8, <4>9, <4>10, CallReads
    <3>6. CASE /\ d.op = "validate" /\ state_file[s] # 0
               /\ updating' = [updating EXCEPT ![t] = Holding(d, taken(state_file, s))]
      <4>1. PICK c : c = Holding(d, taken(state_file, s))
        OBVIOUS
      <4>2. /\ taken(state_file, s) \in [States -> Nat] /\ taken(state_file, s)[s] = 0
            /\ \A q \in States : q # s => taken(state_file, s)[q] = state_file[q]
        BY DEF OInv, OAuthTypes, taken
      <4>3. /\ c \in Call /\ c.step = "writing" /\ c.state = s /\ c.op = "validate"
            /\ c.records = taken(state_file, s)
        BY <3>2, <3>6, <4>1, <4>2, CallShapes
      <4>4. s \in drawn
        BY <3>6 DEF OInv, Undrawn
      <4>5. updating' = [updating EXCEPT ![t] = c]
        BY <3>6, <4>1
      <4>6. c.records[s] = 0 /\ \A q \in States : q # s => c.records[q] = state_file[q]
        BY <4>2, <4>3
      <4>7. UNCHANGED <<unix_now, state_file, drawn, accepted>>
        BY <3>3
      <4>8. c \in Call /\ c.step = "writing" /\ c.state = s
            /\ ((c.op = "store" /\ Storing(t, s)) \/
                (c.op = "validate" /\ c.records[s] = 0 /\ state_file[s] # 0))
        BY <3>6, <4>3, <4>6
      <4> QED
        BY ONLY OInv, <3>3, <4>4, <4>5, <4>6, <4>7, <4>8, CallReads
    <3> QED
      BY <2>8, <3>1, <3>2, <3>4, <3>5, <3>6 DEF update_read
  <2>9. ASSUME NEW t \in Threads, update_commit(t)
        PROVE  OInv'
    BY <2>9, CallCommits
  <2> QED
    BY <2>2, <2>4, <2>5, <2>7, <2>8, <2>9 DEF OAuthNext
<1>3. OInv => StatesAreSingleUse
  BY DEF OInv
<1> QED
  BY <1>1, <1>2, <1>3, PTL DEF OAuthSpec

-----------------------------------------------------------------------------
(***************************************************************************)
(* Sending a mail.                                                         *)
(***************************************************************************)

BeforeMail == {"connect", "greeting", "ehlo", "helo", "starttls", "auth", "mail"}
AfterHello == {"auth", "mail", "rcpt", "data", "final", "quit"}

Session == [use_tls : BOOLEAN, local : BOOLEAN, auth : {"none", "plain", "xoauth2"},
            step : BeforeMail \cup AfterHello \cup {"end"}, tls : BOOLEAN,
            extensions : BOOLEAN, next : Nat]

SmtpTypes ==
    /\ smtp \in Session
    /\ mailbox = [rcpt |-> mailbox.rcpt, taken |-> mailbox.taken]

\* What the server knows at each step of the transaction.
InStep ==
    /\ smtp.step \in BeforeMail => smtp.next = 1 /\ mailbox.rcpt = {}
    /\ smtp.step = "rcpt" =>
         /\ smtp.next \in 1..Len(Recipients)
         /\ mailbox.rcpt = {Recipients[i] : i \in 1..(smtp.next - 1)}
    /\ smtp.step \in {"data", "final", "quit"} => mailbox.rcpt = ToSet(Recipients)
    /\ smtp.step \notin {"quit", "end"} => mailbox.taken = <<>>
    /\ smtp.step = "quit" => Len(mailbox.taken) = 1

\* The credentials and the mail go out after the encryption asked for.
Encrypted == smtp.step \in AfterHello /\ smtp.use_tls => smtp.tls

SInv ==
    /\ SmtpTypes /\ InStep /\ Encrypted
    /\ smtp.step # "end" => result = "none"
    /\ SuccessIsDelivery

\* The recipients named so far, one more and all of them.
LEMMA OneMoreRecipient ==
    ASSUME NEW n \in 1..Len(Recipients)
    PROVE  /\ {Recipients[i] : i \in 1..(n - 1)} \cup {Recipients[n]}
                = {Recipients[i] : i \in 1..((n + 1) - 1)}
           /\ n = Len(Recipients) =>
                {Recipients[i] : i \in 1..((n + 1) - 1)} = ToSet(Recipients)
           /\ n # Len(Recipients) => n + 1 \in 1..Len(Recipients)
<1>1. PICK l \in Nat : l = Len(Recipients) /\ DOMAIN Recipients = 1..l
  BY SmtpAssumption
<1>2. n \in Nat /\ n >= 1 /\ n <= l
  BY <1>1
<1>3. (n + 1) - 1 = n /\ 1..n = 1..(n - 1) \cup {n}
  BY <1>2
<1>4. n = l => {Recipients[i] : i \in 1..n} = ToSet(Recipients)
  BY <1>1 DEF ToSet
<1>5. n # l => n + 1 \in 1..l
  BY <1>2
<1> QED
  BY <1>1, <1>3, <1>4, <1>5

\* A step that fails ends the transaction.
LEMMA FailedStep ==
    ASSUME SInv, fail, mailbox' = [rcpt |-> mailbox'.rcpt, taken |-> mailbox'.taken]
    PROVE  SInv'
<1>1. smtp' = [smtp EXCEPT !.step = "end"] /\ result' = "error"
  BY DEF fail, smtp_go
<1>2. smtp' \in Session /\ smtp'.step = "end"
  BY <1>1 DEF SInv, SmtpTypes, Session
<1>3. SuccessIsDelivery'
  BY <1>1 DEF SuccessIsDelivery
<1> QED
  BY <1>2, <1>3 DEF SInv, SmtpTypes, InStep, Encrypted, BeforeMail, AfterHello

\* A step before the recipients leaves the server as it is.
LEMMA EarlyStep ==
    ASSUME SInv, smtp.step \in BeforeMail, smtp' \in Session, smtp'.step \in BeforeMail,
           smtp'.next = smtp.next, smtp'.step \in AfterHello /\ smtp'.use_tls => smtp'.tls,
           UNCHANGED <<mailbox, result>>
    PROVE  SInv'
<1>1. result' = "none" /\ smtp'.next = 1 /\ mailbox'.rcpt = {} /\ mailbox'.taken = <<>>
  BY DEF SInv, InStep, BeforeMail
<1>2. SmtpTypes' /\ Encrypted'
  BY DEF SInv, SmtpTypes, Encrypted
<1>3. InStep'
  BY <1>1 DEF InStep, BeforeMail
<1>4. SuccessIsDelivery'
  BY <1>1 DEF SuccessIsDelivery
<1> QED
  BY <1>1, <1>2, <1>3, <1>4 DEF SInv

\* A step from the recipients on.
LEMMA LateStep ==
    ASSUME SInv, smtp.step \in AfterHello, smtp' \in Session, smtp'.step \in AfterHello,
           smtp'.tls = smtp.tls, smtp'.use_tls = smtp.use_tls, UNCHANGED result,
           mailbox' = [rcpt |-> mailbox'.rcpt, taken |-> mailbox'.taken], InStep'
    PROVE  SInv'
<1>1. result' = "none"
  BY DEF SInv, AfterHello
<1>2. SmtpTypes' /\ SuccessIsDelivery'
  BY <1>1 DEF SmtpTypes, SuccessIsDelivery
<1>3. Encrypted'
  BY DEF SInv, Encrypted
<1> QED
  BY <1>1, <1>2, <1>3 DEF SInv

\* The next step, everything else as it is.
LEMMA GoesOn ==
    ASSUME SInv, NEW st \in BeforeMail \cup AfterHello, smtp_go(st)
    PROVE  /\ smtp' \in Session /\ smtp'.step = st /\ smtp'.next = smtp.next
           /\ smtp'.tls = smtp.tls /\ smtp'.use_tls = smtp.use_tls
BY DEF SInv, SmtpTypes, Session, smtp_go

\* What follows EHLO or HELO.
LEMMA HelloStep ==
    ASSUME SInv, smtp.step \in {"ehlo", "helo"}, NEW e \in BOOLEAN, after_hello(e),
           UNCHANGED mailbox
    PROVE  SInv'
<1>1. smtp \in Session /\ smtp.step \in BeforeMail
  BY DEF SInv, SmtpTypes, BeforeMail
<1>2. CASE fail
  BY <1>2, FailedStep DEF SInv, SmtpTypes
<1>3. CASE /\ smtp' = [smtp EXCEPT !.step = "starttls", !.extensions = e] /\ UNCHANGED result
  <2>1. /\ smtp' \in Session /\ smtp'.step = "starttls" /\ smtp'.next = smtp.next
    BY <1>1, <1>3 DEF Session, BeforeMail
  <2> QED
    BY <1>1, <1>3, <2>1, EarlyStep DEF BeforeMail, AfterHello
<1>4. CASE /\ ~(smtp.use_tls /\ ~smtp.tls)
           /\ smtp' = [smtp EXCEPT !.step = IF smtp.auth = "none" THEN "mail" ELSE "auth",
                                   !.extensions = e]
           /\ UNCHANGED result
  <2>1. PICK st \in {"mail", "auth"} : smtp' = [smtp EXCEPT !.step = st, !.extensions = e]
    BY <1>4
  <2>2. /\ smtp' \in Session /\ smtp'.step = st /\ smtp'.next = smtp.next
    BY <1>1, <2>1 DEF Session, BeforeMail
  <2>3. smtp'.use_tls = smtp.use_tls /\ smtp'.tls = smtp.tls
    BY <1>1, <2>1 DEF Session
  <2>4. smtp'.use_tls => smtp'.tls
    BY <1>4, <2>3
  <2> QED
    BY <1>1, <1>4, <2>2, <2>4, EarlyStep DEF BeforeMail
<1> QED
  BY <1>2, <1>3, <1>4 DEF after_hello

\* Whatever the server answers at each step, a send that returns success has
\* delivered one mail for every recipient, over TLS where it was asked for.
THEOREM SuccessDelivers == SmtpSpec => []SuccessIsDelivery
<1>1. SmtpInit => SInv
  <2> SUFFICES ASSUME SmtpInit PROVE SInv
    OBVIOUS
  <2>1. /\ smtp \in SmtpStarts /\ mailbox = [rcpt |-> {}, taken |-> <<>>] /\ result = "none"
    BY DEF SmtpInit
  <2>2. SmtpTypes /\ smtp.step = "connect" /\ smtp.next = 1
    <3>1. smtp \in Session /\ smtp.step = "connect" /\ smtp.next = 1
      <4>1. PICK u \in BOOLEAN, l \in BOOLEAN, a \in {"none", "plain", "xoauth2"} :
              smtp = [use_tls |-> u, local |-> l, auth |-> a, step |-> "connect",
                      tls |-> FALSE, extensions |-> FALSE, next |-> 1]
        BY <2>1 DEF SmtpStarts
      <4>2. "connect" \in BeforeMail
        BY DEF BeforeMail
      <4> QED
        BY <4>1, <4>2 DEF Session
    <3>2. mailbox = [rcpt |-> mailbox.rcpt, taken |-> mailbox.taken]
      BY <2>1
    <3> QED
      BY <3>1, <3>2 DEF SmtpTypes
  <2> QED
    BY <2>1, <2>2 DEF SInv, InStep, Encrypted, SuccessIsDelivery, BeforeMail, AfterHello
<1>2. ASSUME SInv, [SmtpNext]_smtp_vars PROVE SInv'
  <2> USE <1>2
  <2>1. CASE UNCHANGED smtp_vars
    BY <2>1 DEF smtp_vars, SInv, SmtpTypes, InStep, Encrypted, SuccessIsDelivery
  <2>2. ASSUME fail, UNCHANGED mailbox PROVE SInv'
    BY <2>2, FailedStep DEF SInv, SmtpTypes
  <2>3. ASSUME smtp.step \in BeforeMail \ AfterHello,
               NEW st \in BeforeMail \ AfterHello, smtp_go(st), UNCHANGED <<mailbox, result>>
        PROVE  SInv'
    BY <2>3, GoesOn, EarlyStep
  <2>4. ASSUME NEW ok \in BOOLEAN, connect(ok) \/ expect_greeting(ok) PROVE SInv'
    BY <2>2, <2>3, <2>4 DEF connect, expect_greeting, BeforeMail, AfterHello
  <2>5. ASSUME NEW ok \in BOOLEAN, hello(ok) \/ helo(ok) PROVE SInv'
    BY <2>2, <2>3, <2>5, HelloStep DEF hello, helo, BeforeMail, AfterHello
  <2>6. ASSUME NEW ok \in BOOLEAN, starttls(ok) PROVE SInv'
    <3>1. CASE smtp' = [smtp EXCEPT !.step = "ehlo", !.tls = TRUE] /\ UNCHANGED <<mailbox, result>>
      <4>1. /\ smtp' \in Session /\ smtp'.step = "ehlo" /\ smtp'.next = smtp.next
        BY <3>1 DEF SInv, SmtpTypes, Session, BeforeMail
      <4>2. smtp.step \in BeforeMail
        BY <2>6 DEF starttls, BeforeMail
      <4> QED
        BY <3>1, <4>1, <4>2, EarlyStep DEF BeforeMail, AfterHello
    <3> QED
      BY <2>2, <2>6, <3>1 DEF starttls
  <2>7. ASSUME NEW ok \in BOOLEAN, smtp_authenticate(ok) PROVE SInv'
    <3>1. CASE smtp_go("mail") /\ UNCHANGED <<mailbox, result>>
      <4>1. smtp.step = "auth" /\ (smtp.use_tls => smtp.tls)
        BY <2>7 DEF smtp_authenticate, SInv, Encrypted, AfterHello
      <4>2. /\ smtp' \in Session /\ smtp'.step = "mail" /\ smtp'.next = smtp.next
            /\ smtp'.tls = smtp.tls /\ smtp'.use_tls = smtp.use_tls
        BY <3>1, GoesOn DEF BeforeMail
      <4> QED
        BY <3>1, <4>1, <4>2, EarlyStep DEF BeforeMail
    <3> QED
      BY <2>2, <2>7, <3>1 DEF smtp_authenticate
  <2>8. ASSUME NEW ok \in BOOLEAN, mail_from(ok) PROVE SInv'
    <3>1. CASE smtp_go("rcpt") /\ UNCHANGED <<mailbox, result>>
      <4>1. /\ smtp.step = "mail" /\ smtp.next = 1 /\ mailbox.rcpt = {} /\ mailbox.taken = <<>>
            /\ mailbox = [rcpt |-> mailbox.rcpt, taken |-> mailbox.taken]
        BY <2>8 DEF mail_from, SInv, InStep, BeforeMail, SmtpTypes
      <4>2. /\ smtp' \in Session /\ smtp'.step = "rcpt" /\ smtp'.next = smtp.next
            /\ smtp'.tls = smtp.tls /\ smtp'.use_tls = smtp.use_tls
        BY <3>1, GoesOn DEF AfterHello
      <4>3. 1 \in 1..Len(Recipients) /\ 1..(1 - 1) = {}
        BY SmtpAssumption
      <4>4. {Recipients[i] : i \in 1..(1 - 1)} = {}
        BY <4>3
      <4>5. InStep'
        BY <3>1, <4>1, <4>2, <4>3, <4>4 DEF InStep, BeforeMail
      <4> QED
        BY <3>1, <4>1, <4>2, <4>5, LateStep DEF AfterHello
    <3> QED
      BY <2>2, <2>8, <3>1 DEF mail_from
  <2>9. ASSUME NEW ok \in BOOLEAN, rcpt_to(ok) PROVE SInv'
    <3>1. PICK n \in 1..Len(Recipients) : n = smtp.next
      BY <2>9 DEF rcpt_to, SInv, InStep
    <3>2. /\ smtp.step = "rcpt" /\ smtp \in Session /\ mailbox.taken = <<>>
          /\ mailbox.rcpt = {Recipients[i] : i \in 1..(n - 1)}
      BY <2>9, <3>1 DEF rcpt_to, SInv, InStep, SmtpTypes
    <3>3. CASE ok
      <4>1. PICK st \in {"data", "rcpt"} :
              st = (IF n = Len(Recipients) THEN "data" ELSE "rcpt")
        OBVIOUS
      <4>2. smtp' = [smtp EXCEPT !.next = n + 1, !.step = st] /\ UNCHANGED result
        BY <2>9, <3>1, <3>3, <4>1 DEF rcpt_to
      <4>3. mailbox' = [mailbox EXCEPT !.rcpt = mailbox.rcpt \cup {Recipients[n]}]
        BY <2>9, <3>1, <3>3 DEF rcpt_to, SInv, SmtpTypes
      <4>4. mailbox' = [rcpt |-> mailbox.rcpt \cup {Recipients[n]}, taken |-> <<>>]
        BY <3>2, <4>3 DEF SInv, SmtpTypes
      <4>5. n + 1 \in Nat
        BY SmtpAssumption
      <4>6. /\ smtp' \in Session /\ smtp'.step = st /\ smtp'.next = n + 1
        BY <3>2, <4>2, <4>5 DEF Session, AfterHello
      <4>7. smtp'.tls = smtp.tls /\ smtp'.use_tls = smtp.use_tls
        BY <3>2, <4>2 DEF Session
      <4>8. InStep'
        BY <3>2, <4>1, <4>4, <4>6, OneMoreRecipient DEF InStep, BeforeMail
      <4> QED
        BY <3>2, <4>2, <4>4, <4>6, <4>7, <4>8, LateStep DEF AfterHello
    <3>4. CASE ~ok
      BY <2>2, <2>9, <3>4 DEF rcpt_to
    <3> QED
      BY <3>3, <3>4
  <2>10. ASSUME NEW ok \in BOOLEAN, data(ok) PROVE SInv'
    <3>1. CASE smtp_go("final") /\ UNCHANGED <<mailbox, result>>
      <4>1. /\ smtp.step = "data" /\ mailbox.rcpt = ToSet(Recipients) /\ mailbox.taken = <<>>
            /\ mailbox = [rcpt |-> mailbox.rcpt, taken |-> mailbox.taken]
        BY <2>10 DEF data, SInv, InStep, SmtpTypes
      <4>2. /\ smtp' \in Session /\ smtp'.step = "final"
            /\ smtp'.tls = smtp.tls /\ smtp'.use_tls = smtp.use_tls
        BY <3>1, GoesOn DEF AfterHello
      <4>3. InStep'
        BY <3>1, <4>1, <4>2 DEF InStep, BeforeMail
      <4> QED
        BY <3>1, <4>1, <4>2, <4>3, LateStep DEF AfterHello
    <3> QED
      BY <2>2, <2>10, <3>1 DEF data
  <2>11. ASSUME NEW ok \in BOOLEAN, expect_final(ok) PROVE SInv'
    <3>1. /\ smtp.step = "final" /\ mailbox.rcpt = ToSet(Recipients) /\ mailbox.taken = <<>>
          /\ mailbox = [rcpt |-> mailbox.rcpt, taken |-> mailbox.taken]
      BY <2>11 DEF expect_final, SInv, InStep, SmtpTypes
    <3>2. PICK w : w = Received(wire)
      OBVIOUS
    <3>3. PICK took \in BOOLEAN :
            /\ ok => took
            /\ mailbox' = IF took THEN [mailbox EXCEPT !.taken = Append(@, w)] ELSE mailbox
      BY <2>11, <3>2 DEF expect_final
    <3>4. Append(<<>>, w) = <<w>> /\ Len(<<w>>) = 1
      OBVIOUS
    <3>5. took => mailbox' = [rcpt |-> ToSet(Recipients), taken |-> <<w>>]
      BY <3>1, <3>3, <3>4
    <3>6. CASE ok
      <4>1. mailbox' = [rcpt |-> ToSet(Recipients), taken |-> <<w>>]
        BY <3>3, <3>5, <3>6
      <4>2. smtp_go("quit") /\ UNCHANGED result
        BY <2>11, <3>6 DEF expect_final
      <4>3. /\ smtp' \in Session /\ smtp'.step = "quit"
            /\ smtp'.tls = smtp.tls /\ smtp'.use_tls = smtp.use_tls
        BY <4>2, GoesOn DEF AfterHello
      <4>4. InStep'
        BY <3>4, <4>1, <4>3 DEF InStep, BeforeMail
      <4> QED
        BY <3>1, <4>1, <4>2, <4>3, <4>4, LateStep DEF AfterHello
    <3>7. CASE ~ok
      <4>1. fail
        BY <2>11, <3>7 DEF expect_final
      <4>2. mailbox' = [rcpt |-> mailbox'.rcpt, taken |-> mailbox'.taken]
        BY <3>1, <3>3, <3>5
      <4> QED
        BY <4>1, <4>2, FailedStep
    <3> QED
      BY <3>6, <3>7
  <2>12. ASSUME NEW ok \in BOOLEAN, quit(ok) PROVE SInv'
    <3>1. /\ smtp.step = "quit" /\ mailbox.rcpt = ToSet(Recipients) /\ Len(mailbox.taken) = 1
          /\ UNCHANGED mailbox /\ smtp' = [smtp EXCEPT !.step = "end"]
      BY <2>12 DEF quit, SInv, InStep, smtp_go
    <3>2. smtp.use_tls => smtp.tls
      BY <3>1 DEF SInv, Encrypted, AfterHello
    <3>3. smtp' \in Session /\ smtp'.step = "end"
      BY <3>1 DEF SInv, SmtpTypes, Session
    <3>4. smtp'.tls = smtp.tls /\ smtp'.use_tls = smtp.use_tls
      BY <3>1 DEF SInv, SmtpTypes, Session
    <3>5. SuccessIsDelivery'
      BY <3>1, <3>2, <3>4 DEF SuccessIsDelivery
    <3> QED
      BY <3>1, <3>3, <3>5 DEF SInv, SmtpTypes, InStep, Encrypted, BeforeMail, AfterHello
  <2> QED
    BY <2>1, <2>4, <2>5, <2>6, <2>7, <2>8, <2>9, <2>10, <2>11, <2>12 DEF SmtpNext
<1>3. SInv => SuccessIsDelivery
  BY DEF SInv
<1> QED
  BY <1>1, <1>2, <1>3, PTL DEF SmtpSpec

-----------------------------------------------------------------------------
(***************************************************************************)
(* The mail client.                                                        *)
(***************************************************************************)

\* Credentials are sent by authenticate, which sees a connection that is
\* encrypted or a configuration that allows the other one.
ImapInv ==
    /\ {"config", "step", "tls"} \subseteq DOMAIN imap
    /\ CredentialsEncrypted

\* No step changes the configuration.
LEMMA ConfigKept ==
    ASSUME {"config", "step", "tls"} \subseteq DOMAIN imap, ImapNext
    PROVE  imap'.config = imap.config /\ DOMAIN imap' = DOMAIN imap
<1>1. ASSUME NEW e PROVE authenticate(e) => imap'.config = imap.config /\ DOMAIN imap' = DOMAIN imap
  BY DEF authenticate
<1>2. ASSUME NEW s PROVE go(s) => imap'.config = imap.config /\ DOMAIN imap' = DOMAIN imap
  BY DEF go
<1>3. CASE dial \/ read_greeting \/ read_capability
  BY <1>2, <1>3 DEF dial, read_greeting, read_capability
<1>4. CASE capability_done \/ read_starttls
  BY <1>1, <1>2, <1>4 DEF capability_done, read_starttls
<1>5. CASE read_xoauth2 \/ read_login \/ read_logout
  BY <1>2, <1>5 DEF read_xoauth2, read_login, read_logout
<1>6. CASE \E f \in Folders : examine(f)
  BY <1>2, <1>6 DEF examine
<1>7. CASE read_examine
  BY <1>7 DEF read_examine
<1>8. CASE read_search
  BY <1>8 DEF read_search
<1>9. CASE read_fetch
  BY <1>9 DEF read_fetch
<1>10. CASE read_eof \/ time_out \/ server_close
  BY <1>2, <1>10 DEF read_eof, time_out, server_close
<1> QED
  BY <1>3, <1>4, <1>5, <1>6, <1>7, <1>8, <1>9, <1>10 DEF ImapNext, ImapClientStep

\* Credentials go out unencrypted only where the configuration allows it.
THEOREM CredentialsKept == ImapSpec => []CredentialsEncrypted
<1>1. ImapInit => ImapInv
  BY DEF ImapInit, ImapInv, ImapStarts, CredentialsEncrypted
<1>2. ASSUME ImapInv, [ImapNext]_imap_vars PROVE ImapInv'
  <2> USE <1>2 DEF ImapInv
  <2>1. CASE UNCHANGED imap_vars
    BY <2>1 DEF imap_vars, CredentialsEncrypted
  <2>2. CASE ImapNext
    <3>1. imap'.config = imap.config /\ DOMAIN imap' = DOMAIN imap
      BY <2>2, ConfigKept
    <3>2. exposed' => exposed \/ imap.config.allow_insecure_cleartext_auth
      <4>1. CASE capability_done
        BY <4>1 DEF capability_done, authenticate
      <4>2. CASE read_starttls
        BY <4>2 DEF read_starttls, authenticate
      <4>3. CASE ~capability_done /\ ~read_starttls
        <5>1. UNCHANGED exposed
          BY <2>2, <4>3 DEF ImapNext, ImapClientStep, dial, read_greeting, read_capability,
             read_xoauth2, read_login, read_logout, examine, read_examine, read_search,
             read_fetch, read_eof, time_out, server_close
        <5> QED BY <5>1
      <4> QED BY <4>1, <4>2, <4>3
    <3> QED BY <3>1, <3>2 DEF CredentialsEncrypted
  <2> QED BY <2>1, <2>2
<1>3. ImapInv => CredentialsEncrypted
  BY DEF ImapInv
<1> QED
  BY <1>1, <1>2, <1>3, PTL DEF ImapSpec

-----------------------------------------------------------------------------
(***************************************************************************)
(* The child processes.                                                    *)
(***************************************************************************)

CallerSteps == {"call", "backoff", "fallback", "wait", "join", "returned"}
Results == {"none", "context", "provider", "env", "keyring", "exhausted", "text"}
Callers == [kind : {"agent", "provider", "secret"}, step : CallerSteps, attempt : Nat,
            result : Results]

\* What was written is in the pipe or captured, and a pipe whose child is gone
\* has been emptied and has no other writer: join waits for both.
SubInv ==
    /\ caller \in Callers
    /\ pipe \in Nat /\ captured \in Nat /\ produced \in Nat
    /\ captured + pipe = produced
    /\ child = "none" => pipe = 0 /\ ~grandchild
    /\ caller.result = "text" => caller.step = "returned"
    /\ NoOrphan

\* How a call goes on without a child: it returns, or takes another step.
LEMMA Returns ==
    ASSUME caller \in Callers, NEW r \in Results, return(r)
    PROVE  caller' \in Callers /\ caller'.step = "returned"
BY DEF return, Callers, CallerSteps

\* Moving the caller to another step keeps its type and invents no text.
LEMMA CallerGoesOn ==
    ASSUME caller \in Callers, NEW s \in CallerSteps, caller.result # "text",
           caller' = [caller EXCEPT !.step = s]
    PROVE  caller' \in Callers /\ caller'.step = s /\ caller'.result # "text"
BY DEF Callers, CallerSteps

\* After a failed attempt the caller gives up or waits, and text means it returned.
LEMMA AfterError ==
    ASSUME caller \in Callers, caller.result # "text", after_error
    PROVE  /\ caller' \in Callers /\ caller'.step \in {"returned", "backoff"}
           /\ caller'.result = "text" => caller'.step = "returned"
<1>1. \/ \E r \in Results : return(r)
      \/ caller' = [caller EXCEPT !.step = "backoff"]
  BY DEF after_error, Results
<1> QED
  BY <1>1, Returns, CallerGoesOn DEF CallerSteps

\* A step of the caller that leaves the pipe as it is and no child.
LEMMA Childless ==
    ASSUME SubInv, UNCHANGED <<pipe, captured, produced, grandchild>>, pipe = 0, ~grandchild, child' = "none",
           caller' \in Callers, caller'.result = "text" => caller'.step = "returned"
    PROVE  SubInv'
BY DEF SubInv, NoOrphan

\* An answer is the whole output of its child, and no child outlives its call.
THEOREM SubprocessKept == SubSpec => []SubprocessSafe
<1>1. SubInit => SubInv
  BY DEF SubInit, SubInv, CallerStarts, Callers, CallerSteps, Results, NoOrphan
<1>2. ASSUME SubInv, [SubNext]_sub_vars PROVE SubInv'
  <2> USE <1>2
  <2>0. caller \in Callers /\ caller.step \in CallerSteps /\ caller.result \in Results
    BY DEF SubInv, Callers
  <2>1. CASE spawn
    <3>1. /\ caller.step = "call" /\ caller.result # "text" /\ child = "none" /\ pipe = 0 /\ ~grandchild
      BY <2>1 DEF spawn, SubInv, NoOrphan
    <3>2. CASE /\ child' = "running" /\ captured' = 0 /\ produced' = 0 /\ pipe' = 0
               /\ caller' = [caller EXCEPT !.step = "wait"]
      <4>1. caller' \in Callers /\ caller'.step = "wait" /\ caller'.result # "text"
        BY <2>0, <3>1, <3>2, CallerGoesOn DEF CallerSteps
      <4>2. grandchild' = grandchild
        BY <2>1 DEF spawn
      <4> QED BY <3>1, <3>2, <4>1, <4>2 DEF SubInv, NoOrphan
    <3>3. CASE /\ IF caller.kind = "secret" THEN caller' = [caller EXCEPT !.step = "fallback"]
                  ELSE after_error
               /\ UNCHANGED <<child, pipe, captured, produced, grandchild>>
      <4>1. caller' \in Callers /\ (caller'.result = "text" => caller'.step = "returned")
        BY <2>0, <3>1, <3>3, CallerGoesOn, AfterError DEF CallerSteps
      <4>2. UNCHANGED grandchild
        BY <2>1 DEF spawn
      <4> QED BY <3>1, <3>3, <4>1, <4>2, Childless
    <3> QED BY <2>1, <3>2, <3>3 DEF spawn
  <2>2. CASE ask_provider
    <3>1. /\ caller.step = "call" /\ caller.result # "text" /\ child = "none" /\ pipe = 0 /\ ~grandchild
          /\ UNCHANGED <<child, pipe, captured, produced, grandchild>>
      BY <2>2 DEF ask_provider, SubInv, NoOrphan
    <3>2. (\E r \in Results : return(r)) \/ after_error
      BY <2>2 DEF ask_provider, Results
    <3>3. caller' \in Callers /\ (caller'.result = "text" => caller'.step = "returned")
      BY <2>0, <3>1, <3>2, Returns, AfterError
    <3> QED BY <3>1, <3>3, Childless
  <2>3. CASE observe_exit \/ give_up
    <3>1. /\ caller.step = "wait" /\ caller.result # "text" /\ child # "none" /\ child' # "none"
          /\ UNCHANGED <<pipe, captured, produced, grandchild>>
          /\ caller' = [caller EXCEPT !.step = "join"]
      BY <2>3 DEF observe_exit, give_up, SubInv
    <3>2. caller' \in Callers /\ caller'.step = "join" /\ caller'.result # "text"
      BY <2>0, <3>1, CallerGoesOn DEF CallerSteps
    <3> QED BY <3>1, <3>2 DEF SubInv, NoOrphan
  <2>4. CASE join
    <3>1. /\ caller.step = "join" /\ caller.result # "text" /\ child' = "none" /\ pipe = 0 /\ ~grandchild
          /\ UNCHANGED <<pipe, captured, produced, grandchild>>
      BY <2>4 DEF join, SubInv
    <3>2. \/ \E r \in Results : return(r)
          \/ caller' = [caller EXCEPT !.step = "fallback"]
          \/ after_error
      BY <2>4 DEF join, Results
    <3>3. caller' \in Callers /\ (caller'.result = "text" => caller'.step = "returned")
      BY <2>0, <3>1, <3>2, Returns, CallerGoesOn, AfterError DEF CallerSteps
    <3> QED BY <3>1, <3>3, Childless
  <2>5. CASE backoff
    <3>1. /\ caller.step = "backoff" /\ caller.result # "text" /\ child = "none" /\ pipe = 0 /\ ~grandchild
          /\ UNCHANGED <<child, pipe, captured, produced, grandchild>>
      BY <2>5 DEF backoff, SubInv, NoOrphan
    <3>2. CASE caller' = [caller EXCEPT !.step = "call", !.attempt = @ + 1]
      <4>0. caller' = [kind |-> caller.kind, step |-> "call", attempt |-> caller.attempt + 1,
                       result |-> caller.result]
        BY <2>0, <3>2 DEF Callers
      <4>1. caller' \in Callers /\ caller'.result = caller.result
        BY <2>0, <4>0 DEF Callers, CallerSteps
      <4> QED BY <3>1, <4>1, Childless
    <3>3. CASE return("context")
      <4>1. caller' \in Callers /\ caller'.step = "returned"
        BY <2>0, <3>3, Returns DEF Results
      <4> QED BY <3>1, <4>1, Childless
    <3> QED BY <2>5, <3>2, <3>3 DEF backoff
  <2>6. CASE fallback
    <3>1. /\ child = "none" /\ pipe = 0 /\ ~grandchild /\ UNCHANGED <<child, pipe, captured, produced, grandchild>>
      BY <2>6 DEF fallback, SubInv, NoOrphan
    <3>2. \E r \in Results : return(r)
      BY <2>6 DEF fallback, Results
    <3>3. caller' \in Callers /\ caller'.step = "returned"
      BY <2>0, <3>2, Returns
    <3> QED BY <3>1, <3>3, Childless
  <2>7. CASE child_write
    BY <2>7 DEF child_write, SubInv, NoOrphan
  <2>8. CASE child_exit \/ child_fork \/ grandchild_ends
    BY <2>8 DEF child_exit, child_fork, grandchild_ends, SubInv, NoOrphan
  <2>9. CASE reader_read
    BY <2>9 DEF reader_read, SubInv, NoOrphan
  <2>10. CASE cancel \/ UNCHANGED sub_vars
    BY <2>10 DEF cancel, sub_vars, SubInv, NoOrphan
  <2> QED
    BY <2>1, <2>2, <2>3, <2>4, <2>5, <2>6, <2>7, <2>8, <2>9, <2>10
    DEF SubNext, CallerStep
<1>3. SubInv => SubprocessSafe
  BY DEF SubInv, SubprocessSafe, AnswerIsWhole, NoOrphan
<1> QED
  BY <1>1, <1>2, <1>3, PTL DEF SubSpec

-----------------------------------------------------------------------------
(***************************************************************************)
(* Requests and their answers.                                             *)
(***************************************************************************)

\* What an outcome may be for the request q.
Honest(o, q) ==
    /\ o \in RpcOutcome
    /\ o.kind = "response" => Echoes(o, q)
    /\ o.ran => /\ o.kind = "response" /\ q.id \in {"null", "int", "big", "vast"}
                /\ q.params \in {"call", "status", "path", "array path"}

\* An id that an answer to q may carry when no tool ran.
OwnId(id, q) ==
    \/ id = "null" /\ NoUsableId(q)
    \/ id = q.id /\ q.id \in {"int", "big"}
    \/ id = "rounded" /\ q.id \in {"big", "vast"}

\* A request the first parser found an id in, or none at all.
HasIdOrNone(q) == q.id \in {"absent", "null", "int", "big", "vast"}

\* The JSON-RPC codes, the negative ones too, are integers.
LEMMA CodesAreIntegers ==
    {ParseFailed, InvalidRequest, MethodNotFound, InvalidParams, InternalError, OK} \subseteq Int
BY DEF ParseFailed, InvalidRequest, MethodNotFound, InvalidParams, InternalError, OK

\* An answer that ran nothing, with an id of the request's own, is honest.
LEMMA ResponseHonest ==
    ASSUME NEW q \in RpcRequest, NEW c \in Int, NEW id, OwnId(id, q)
    PROVE  Honest(Response(c, id), q) /\ Response(c, id) # None
<1>1. id \in AnswerIds
  BY DEF OwnId, AnswerIds, Ids
<1>2. Response(c, id) \in RpcOutcome
  BY <1>1 DEF Response, RpcOutcome
<1>3. Response(c, id).id = id /\ Response(c, id).ran = FALSE
  BY DEF Response
<1>4. Echoes(Response(c, id), q)
  BY <1>3 DEF Echoes, OwnId
<1> QED
  BY <1>2, <1>3, <1>4, ProtocolAssumption DEF Honest

\* What serde_json prints for an id is one of the request's own.
LEMMA IdValueIsOwn ==
    ASSUME NEW q, q.id \in {"null", "int", "big", "vast"}
    PROVE  OwnId(id_value(q), q)
BY DEF OwnId, id_value, NoUsableId

\* So is the answer of a tool that ran for a request that may run one.
LEMMA RanHonest ==
    ASSUME NEW q \in RpcRequest, NEW c \in Int, q.id \in {"null", "int", "big", "vast"},
           q.params \in {"call", "status", "path", "array path"}
    PROVE  Honest(Ran(c, id_value(q)), q)
<1>1. id_value(q) \in AnswerIds
  BY DEF id_value, AnswerIds, Ids
<1>3. Ran(c, id_value(q)) \in RpcOutcome
  BY <1>1 DEF Ran, RpcOutcome
<1>4. Ran(c, id_value(q)).id = id_value(q) /\ Ran(c, id_value(q)).kind = "response"
  BY DEF Ran
<1>5. Echoes(Ran(c, id_value(q)), q)
  BY <1>4 DEF Echoes, id_value, NoUsableId
<1> QED
  BY <1>3, <1>4, <1>5 DEF Honest

\* A notification and a parse error claim nothing about a tool.
LEMMA SilentHonest ==
    ASSUME NEW q
    PROVE  /\ Honest(Notification, q) /\ Notification # None
           /\ Honest(ParseError, q) /\ ParseError # None
<1>1. Notification \in RpcOutcome /\ ParseError \in RpcOutcome
  BY DEF Notification, ParseError, RpcOutcome, AnswerIds, Ids
<1>2. Notification.kind = "notification" /\ Notification.ran = FALSE
  BY DEF Notification
<1>3. ParseError.kind = "parse_error" /\ ParseError.ran = FALSE
  BY DEF ParseError
<1> QED
  BY <1>1, <1>2, <1>3, ProtocolAssumption DEF Honest

\* envelope_error answers, or lets a request through that has an id of its own.
LEMMA EnvelopeHonest ==
    ASSUME NEW q \in RpcRequest, HasIdOrNone(q)
    PROVE  \/ Honest(envelope_error(q), q) /\ envelope_error(q) # None
           \/ /\ envelope_error(q) = None
              /\ q.id \in {"null", "int", "big", "vast"} /\ q.params # "huge"
<1>0. get(q, "id") \in {"absent", q.id} /\ (get(q, "id") = "absent" => NoUsableId(q))
  BY DEF get, NoUsableId
<1> DEFINE id == IF get(q, "id") = "absent" THEN "null" ELSE id_value(q)
<1>1. OwnId(id, q)
  <2>1. CASE get(q, "id") = "absent"
    BY <1>0, <2>1 DEF OwnId
  <2>2. CASE get(q, "id") # "absent"
    BY <1>0, <2>2, IdValueIsOwn DEF HasIdOrNone
  <2> QED BY <2>1, <2>2
<1>2. Honest(Response(InvalidRequest, id), q) /\ Response(InvalidRequest, id) # None
  <2> HIDE DEF id
  <2> QED BY <1>1, ResponseHonest, CodesAreIntegers
<1>4. CASE from_slice_fails(q)
  BY <1>4, SilentHonest DEF envelope_error
<1>5. CASE ~from_slice_fails(q)
  <2>0. q.id # "array"
    BY DEF HasIdOrNone
  <2>1. \/ envelope_error(q) = Response(InvalidRequest, id)
        \/ envelope_error(q) = Notification
        \/ envelope_error(q) = None /\ get(q, "id") # "absent"
    <3>1. CASE get(q, "jsonrpc") # "2.0" \/ get(q, "method") \in {"absent", "", "number"}
      BY <1>5, <3>1, Zenon DEF envelope_error
    <3>2. CASE ~(get(q, "jsonrpc") # "2.0" \/ get(q, "method") \in {"absent", "", "number"})
      <4>1. envelope_error(q) = IF get(q, "id") = "absent" THEN Notification
                                ELSE IF q.id = "array" THEN Response(InvalidRequest, id_value(q))
                                ELSE None
        BY <1>5, <3>2, Zenon DEF envelope_error
      <4> QED BY <2>0, <4>1, Zenon
    <3> QED BY <3>1, <3>2
  <2>2. q.params # "huge"
    BY <1>5 DEF from_slice_fails
  <2>3. ASSUME get(q, "id") # "absent" PROVE q.id \in {"null", "int", "big", "vast"}
    BY <2>3, <1>0 DEF HasIdOrNone
  <2> HIDE DEF id
  <2> QED
    BY <1>2, <2>1, <2>2, <2>3, SilentHonest
<1> QED
  BY <1>4, <1>5

\* tools/list runs no tool and answers the request's own id.
LEMMA ToolsListHonest ==
    ASSUME NEW q \in RpcRequest, HasIdOrNone(q)
    PROVE  Honest(tools_list(q), q)
<1>1. CASE envelope_error(q) # None
  BY <1>1, EnvelopeHonest DEF tools_list
<1>2. CASE envelope_error(q) = None
  <2>1. OwnId(id_value(q), q)
    BY <1>2, EnvelopeHonest, IdValueIsOwn
  <2>2. /\ Honest(Response(InvalidParams, id_value(q)), q)
        /\ Honest(Response(OK, id_value(q)), q)
    BY <2>1, ResponseHonest, CodesAreIntegers
  <2> QED BY <1>2, <2>2 DEF tools_list
<1> QED
  BY <1>1, <1>2

\* dispatch_tool, for what passed the checks.
LEMMA DispatchHonest ==
    ASSUME NEW q \in RpcRequest, NEW c \in Int, q.id \in {"null", "int", "big", "vast"},
           q.params \in {"call", "status", "path", "array path"},
           NEW o \in dispatch_tool(q, c)
    PROVE  Honest(o, q)
<1>1. o = Ran(OK, id_value(q)) \/ o = Ran(c, id_value(q))
  BY DEF dispatch_tool
<1> QED
  BY <1>1, RanHonest, CodesAreIntegers

\* Every outcome of tools/call is honest: a refusal ran nothing.
LEMMA ToolsCallHonest ==
    ASSUME NEW q \in RpcRequest, HasIdOrNone(q), NEW o \in tools_call(q)
    PROVE  Honest(o, q)
<1> DEFINE p == get(q, "params")
<1>1. p \in {"absent", q.params} /\ q.params \in Params
  BY DEF get, RpcRequest
<1>2. envelope_error(q) = None => /\ Honest(Response(InvalidParams, id_value(q)), q)
                                  /\ Honest(Response(MethodNotFound, id_value(q)), q)
  <2>1. envelope_error(q) = None => OwnId(id_value(q), q)
    BY EnvelopeHonest, IdValueIsOwn
  <2> QED BY <2>1, ResponseHonest, CodesAreIntegers
<1>3. CASE envelope_error(q) # None
  BY <1>3, EnvelopeHonest DEF tools_call
<1>4. CASE envelope_error(q) = None
  <2>1. \/ o \in {Response(InvalidParams, id_value(q)), Response(MethodNotFound, id_value(q))}
        \/ /\ o \in dispatch_tool(q, InternalError)
           /\ p \notin {"array", "array path", "absent", "null", "no name", "path",
                        "bad arguments", "unknown tool", "missing argument", "wrong type"}
    <3>1. tools_call(q) =
            IF p \in {"array", "array path", "absent", "null", "no name", "path", "bad arguments"}
            THEN {Response(InvalidParams, id_value(q))}
            ELSE IF p = "unknown tool" THEN {Response(MethodNotFound, id_value(q))}
            ELSE IF ~validate_arguments(p) THEN {Response(InvalidParams, id_value(q))}
            ELSE dispatch_tool(q, InternalError)
      BY <1>4, Zenon DEF tools_call
    <3> HIDE DEF p
    <3>2. validate_arguments(p) => p \notin {"missing argument", "wrong type"}
      BY DEF validate_arguments
    <3> DEFINE a == Response(InvalidParams, id_value(q))
               b == Response(MethodNotFound, id_value(q))
               d == dispatch_tool(q, InternalError)
    <3>3. tools_call(q) =
            IF p \in {"array", "array path", "absent", "null", "no name", "path", "bad arguments"}
            THEN {a}
            ELSE IF p = "unknown tool" THEN {b}
            ELSE IF ~validate_arguments(p) THEN {a}
            ELSE d
      BY <3>1
    <3> HIDE DEF a, b, d
    <3> DEFINE Refused == {"array", "array path", "absent", "null", "no name", "path", "bad arguments"}
    <3>4. CASE p \in Refused \/ p = "unknown tool" \/ ~validate_arguments(p)
      <4>1. tools_call(q) = {a} \/ tools_call(q) = {b}
        BY <3>3, <3>4
      <4> QED BY <4>1 DEF a, b
    <3>5. CASE ~(p \in Refused \/ p = "unknown tool" \/ ~validate_arguments(p))
      <4>1. tools_call(q) = d
        BY <3>3, <3>5
      <4>2. p \notin Refused \cup {"unknown tool", "missing argument", "wrong type"}
        BY <3>2, <3>5
      <4> QED BY <4>1, <4>2 DEF d
    <3> QED BY <3>4, <3>5
  <2>2. ASSUME p \notin {"array", "array path", "absent", "null", "no name", "path",
                         "bad arguments", "unknown tool", "missing argument", "wrong type"}
        PROVE  q.params \in {"call", "status"}
    <3>1. q.params # "huge"
      BY <1>4, EnvelopeHonest
    <3> QED BY <2>2, <3>1, <1>1 DEF Params, Objects
  <2>3. q.id \in {"null", "int", "big", "vast"}
    BY <1>4, EnvelopeHonest
  <2> HIDE DEF p
  <2>4. InvalidParams \in Int /\ InternalError \in Int
    BY CodesAreIntegers
  <2> QED BY <1>2, <1>4, <2>1, <2>2, <2>3, <2>4, DispatchHonest, Zenon
<1> QED
  BY <1>3, <1>4

\* Every outcome of the old redact_file method is honest.
LEMMA LegacyHonest ==
    ASSUME NEW q \in RpcRequest, HasIdOrNone(q), NEW o \in legacy_redact_file(q)
    PROVE  Honest(o, q)
<1> DEFINE p == get(q, "params")
<1>1. p \in {"absent", q.params}
  BY DEF get
<1>2. envelope_error(q) = None => Honest(Response(InvalidParams, id_value(q)), q)
  <2>1. envelope_error(q) = None => OwnId(id_value(q), q)
    BY EnvelopeHonest, IdValueIsOwn
  <2> QED BY <2>1, ResponseHonest, CodesAreIntegers
<1>3. CASE envelope_error(q) # None
  BY <1>3, EnvelopeHonest DEF legacy_redact_file
<1>4. CASE envelope_error(q) = None
  <2>1. \/ o = Response(InvalidParams, id_value(q))
        \/ o \in dispatch_tool(q, InvalidParams) /\ p \in {"array path", "path"}
    <3>1. legacy_redact_file(q) = IF ~legacy_path(p) THEN {Response(InvalidParams, id_value(q))}
                                  ELSE dispatch_tool(q, InvalidParams)
      BY <1>4, Zenon DEF legacy_redact_file
    <3>2. legacy_path(p) => p \in {"array path", "path"}
      BY DEF legacy_path
    <3> HIDE DEF p
    <3> QED BY <3>1, <3>2, Zenon
  <2>2. q.id \in {"null", "int", "big", "vast"}
    BY <1>4, EnvelopeHonest
  <2>3. p \in {"array path", "path"} => q.params \in {"call", "status", "path", "array path"}
    BY <1>1
  <2> HIDE DEF p
  <2>4. InvalidParams \in Int /\ InternalError \in Int
    BY CodesAreIntegers
  <2> QED BY <1>2, <1>4, <2>1, <2>2, <2>3, <2>4, DispatchHonest, Zenon
<1> QED
  BY <1>3, <1>4

\* Every outcome of a request is honest.
LEMMA InitializeHonest ==
    ASSUME NEW q \in RpcRequest, NEW o \in initialize(q)
    PROVE  Honest(o, q)
<1> DEFINE s == parse_request(q)
<1>1. /\ s.id_present <=> q.object /\ q.id # "absent"
      /\ s.id = IF q.object THEN classify_raw_id(q.id) ELSE "null"
      /\ s.valid_request <=> valid_request(q)
      /\ s.request_error <=> q.object /\ request_error(q)
  BY DEF parse_request
<1>2. q.id \in Ids
  BY DEF RpcRequest
<1>3. ASSUME NEW c \in {InvalidRequest, MethodNotFound, InvalidParams, OK}, NEW i, OwnId(i, q)
      PROVE  Honest(Response(c, i), q)
  BY <1>3, ResponseHonest, CodesAreIntegers
<1>4. CASE s.id = "invalid" \/ s.request_error
  <2>1. NoUsableId(q)
    <3>1. CASE s.id = "invalid"
      BY <3>1, <1>1, <1>2 DEF classify_raw_id, NoUsableId, Ids
    <3>2. CASE s.request_error
      BY <3>2, <1>1 DEF NoUsableId
    <3> QED BY <1>4, <3>1, <3>2
  <2>2. OwnId("null", q)
    BY <2>1 DEF OwnId
  <2>3. o = Response(InvalidRequest, "null")
    BY <1>4 DEF initialize
  <2> QED BY <2>2, <2>3, <1>3
<1>5. ASSUME ~(s.id = "invalid" \/ s.request_error), s.id_present
      PROVE  OwnId(s.id, q)
  BY <1>5, <1>1, <1>2 DEF classify_raw_id, OwnId, Ids, NoUsableId
<1>6. CASE ~(s.id = "invalid" \/ s.request_error) /\ ~s.valid_request
  <2>1. o = Response(InvalidRequest, IF s.id_present THEN s.id ELSE "null")
    BY <1>6 DEF initialize
  <2>2. ~s.id_present => OwnId("null", q)
    BY <1>1 DEF OwnId, NoUsableId
  <2> HIDE DEF s
  <2> QED BY <1>5, <1>6, <1>3, <2>1, <2>2
<1>7. CASE ~(s.id = "invalid" \/ s.request_error) /\ s.valid_request
  <2>1. \/ o = Notification
        \/ /\ s.id_present
           /\ o \in {Response(InvalidParams, s.id), Response(OK, s.id),
                     Response(MethodNotFound, s.id)}
        \/ o = tools_list(q) \/ o \in tools_call(q) \/ o \in legacy_redact_file(q)
    BY <1>7 DEF initialize
  <2>2. HasIdOrNone(q)
    <3>1. q.object
      BY <1>1, <1>7 DEF valid_request
    <3> QED BY <3>1, <1>1, <1>2, <1>7 DEF classify_raw_id, HasIdOrNone, Ids
  <2> HIDE DEF s
  <2>3. CASE s.id_present /\ o \in {Response(InvalidParams, s.id), Response(OK, s.id),
                                    Response(MethodNotFound, s.id)}
    BY <1>3, <1>5, <1>7, <2>3
  <2> QED
    BY <2>1, <2>2, <2>3, SilentHonest, ToolsListHonest, ToolsCallHonest, LegacyHonest
<1> QED
  BY <1>4, <1>6, <1>7

\* Each outcome so far is one of its request.
PInv ==
    /\ body \in Seq(RpcRequest)
    /\ item \in 1..(Len(body) + 1)
    /\ outcomes \in Seq(RpcOutcome) /\ Len(outcomes) = item - 1
    /\ \A n \in 1..Len(outcomes) : Honest(outcomes[n], body[n])
    /\ reply = None \/ reply.status \in {200, 204}

\* No side effect is silent, and answers carry the id of their request, for
\* every body that a client can send.
THEOREM ProtocolKept == ProtocolSpec => []ProtocolCorrect
<1>1. ProtocolInit => PInv
  BY ProtocolAssumption DEF ProtocolInit, PInv
<1>2. ASSUME PInv, [ProtocolNext]_protocol_vars PROVE PInv'
  <2> USE <1>2 DEF PInv
  <2>1. CASE batch_item
    <3>1. PICK o \in initialize(body[item]) : outcomes' = Append(outcomes, o)
      BY <2>1 DEF batch_item
    <3>2. item \in 1..Len(body) /\ body[item] \in RpcRequest
      BY <2>1 DEF batch_item
    <3>3. Honest(o, body[item]) /\ o \in RpcOutcome
      BY <3>2, InitializeHonest DEF Honest
    <3>4. body' = body /\ item' = item + 1 /\ reply' = reply /\ Len(body) # 1
      BY <2>1 DEF batch_item
    <3>5. /\ outcomes' \in Seq(RpcOutcome) /\ Len(outcomes') = item
          /\ \A n \in 1..Len(outcomes) : outcomes'[n] = outcomes[n]
          /\ outcomes'[item] = o
      BY <3>1, <3>2, <3>3
    <3>6. ASSUME NEW n \in 1..Len(outcomes') PROVE Honest(outcomes'[n], body[n])
      <4>1. n \in 1..Len(outcomes) \/ n = item
        BY <3>2, <3>5
      <4> QED BY <4>1, <3>3, <3>5
    <3>7. item' \in 1..(Len(body) + 1) /\ Len(outcomes') = item' - 1
      BY <3>2, <3>4, <3>5
    <3> QED BY <3>4, <3>5, <3>6, <3>7
  <2>2. CASE batch_done
    <3>1. /\ body' = body /\ item' = item /\ outcomes' = outcomes /\ Len(body) # 1
          /\ reply'.status \in {200, 204}
      BY <2>2 DEF batch_done
    <3> QED BY <3>1
  <2>3. CASE single
    <3>1. PICK o \in initialize(body[1]) :
            /\ outcomes' = <<o>>
            /\ reply' = CASE o.kind = "response"     -> [status |-> 200, code |-> o.code]
                          [] o.kind = "notification" -> [status |-> 204, code |-> OK]
                          [] OTHER                   -> [status |-> 200, code |-> ParseFailed]
      BY <2>3 DEF single
    <3>2. Len(body) = 1 /\ body[1] \in RpcRequest /\ item' = 2 /\ body' = body
      <4>1. Len(body) = 1 /\ item' = 2 /\ body' = body
        BY ONLY <2>3 DEF single
      <4>2. body \in Seq(RpcRequest)
        BY ONLY <1>2 DEF PInv
      <4>3. body[1] \in RpcRequest
        BY ONLY <4>1, <4>2
      <4> QED BY ONLY <4>1, <4>3
    <3>3. Honest(o, body[1]) /\ o \in RpcOutcome
      BY <3>2, InitializeHonest DEF Honest
    <3>4. reply'.status \in {200, 204}
      BY <3>1
    <3>5. ASSUME NEW n \in 1..Len(outcomes') PROVE Honest(outcomes'[n], body[n])
      BY <3>1, <3>3
    <3>6. outcomes' \in Seq(RpcOutcome) /\ Len(outcomes') = 1
      BY <3>1, <3>3
    <3>7. item' \in 1..(Len(body') + 1) /\ Len(outcomes') = item' - 1
      <4>1. Len(body') = 1 /\ item' = 2 /\ Len(outcomes') = 1
        BY <3>2, <3>6
      <4>2. 2 \in 1..(1 + 1) /\ 1 = 2 - 1
        OBVIOUS
      <4> QED BY ONLY <4>1, <4>2
    <3>8. body' \in Seq(RpcRequest)
      BY <3>2
    <3>9. \A n \in 1..Len(outcomes') : Honest(outcomes'[n], body'[n])
      BY <3>2, <3>5
    <3> QED BY <3>4, <3>6, <3>7, <3>8, <3>9
  <2>4. CASE UNCHANGED protocol_vars
    BY <2>4 DEF protocol_vars
  <2> QED
    BY <2>1, <2>2, <2>3, <2>4 DEF ProtocolNext
<1>3. PInv => ProtocolCorrect
  BY DEF PInv, ProtocolCorrect, ProtocolTypeOK, ToolRunsAreReported, AnswersEchoId, Honest
<1> QED
  BY <1>1, <1>2, <1>3, PTL DEF ProtocolSpec

-----------------------------------------------------------------------------
(***************************************************************************)
(* The server, its connections and its slots.                              *)
(***************************************************************************)

ConnRec == [state : {"idle", "read", "sent", "open", "call", "dropped"},
            server : Servers \cup {None}, token : Servers \cup {None},
            status : {None, "connected", "unauthorized", "unreachable"}]

\* A connection with a slot.
Busy == {"sent", "open", "call"}

\* Connections with a slot belong to a server that listens or drains, calls
\* that were dropped to one that has not ended; only an open connection has a
\* status to show.
Attached ==
    \A c \in Conns :
        /\ conn[c].state \in Busy =>
             conn[c].server \in Servers /\ server[conn[c].server] \in {"listening", "draining"}
        /\ conn[c].state = "dropped" =>
             /\ conn[c].server \in Servers
             /\ server[conn[c].server] \in {"listening", "draining", "joining"}

ServerInv ==
    /\ ServerTypeOK /\ Attached /\ CallsAreAuthorized
    /\ \A c \in Conns : conn[c].status # None => conn[c].state = "open"
    /\ \A s, t \in Listening : s = t
    /\ PermitsAccounted

\* One connection moves and no other.
OnlyMoves(c) ==
    /\ conn' \in [Conns -> ConnRec]
    /\ \A d \in Conns \ {c} : conn'[d] = conn[d]

\* What each step makes of the connection c.
LEMMA Moves ==
    ASSUME ServerTypeOK, NEW c \in Conns
    PROVE  /\ readAuthToken(c) =>
                /\ OnlyMoves(c)
                /\ conn'[c].state = (IF conn[c].state = "idle" THEN "read" ELSE "sent")
                /\ conn'[c].server = conn[c].server /\ conn'[c].status = None
           /\ \A s \in Servers : conn' = [conn EXCEPT ![c].state = "sent", ![c].server = s] =>
                /\ OnlyMoves(c)
                /\ conn'[c].state = "sent" /\ conn'[c].server = s
                /\ conn'[c].status = conn[c].status
           /\ \A t \in {"connected", "unauthorized", "unreachable"} :
                conn' = [conn EXCEPT ![c].state = "open", ![c].status = t] =>
                  /\ OnlyMoves(c)
                  /\ conn'[c].state = "open" /\ conn'[c].server = conn[c].server
                  /\ conn'[c].token = conn[c].token /\ conn'[c].status = t
           /\ conn' = [conn EXCEPT ![c].state = "call"] =>
                /\ OnlyMoves(c)
                /\ conn'[c].state = "call" /\ conn'[c].server = conn[c].server
                /\ conn'[c].token = conn[c].token /\ conn'[c].status = conn[c].status
<1> USE DEF ServerTypeOK, OnlyMoves, ConnRec
<1>1. ASSUME readAuthToken(c)
      PROVE  /\ \A d \in Conns \ {c} : conn'[d] = conn[d]
             /\ DOMAIN conn' = Conns
             /\ conn'[c] = [state |-> IF conn[c].state = "idle" THEN "read" ELSE "sent",
                            server |-> conn[c].server, token |-> token_file, status |-> None]
             /\ conn' = [d \in Conns |-> conn'[d]]
  BY <1>1 DEF readAuthToken
<1>2. ASSUME NEW s \in Servers, conn' = [conn EXCEPT ![c].state = "sent", ![c].server = s]
      PROVE  /\ \A d \in Conns \ {c} : conn'[d] = conn[d]
             /\ DOMAIN conn' = Conns
             /\ conn'[c] = [state |-> "sent", server |-> s, token |-> conn[c].token,
                            status |-> conn[c].status]
             /\ conn' = [d \in Conns |-> conn'[d]]
  BY <1>2
<1>3. ASSUME NEW t \in {"connected", "unauthorized", "unreachable"},
             conn' = [conn EXCEPT ![c].state = "open", ![c].status = t]
      PROVE  /\ \A d \in Conns \ {c} : conn'[d] = conn[d]
             /\ DOMAIN conn' = Conns
             /\ conn'[c] = [state |-> "open", server |-> conn[c].server, token |-> conn[c].token,
                            status |-> t]
             /\ conn' = [d \in Conns |-> conn'[d]]
  BY <1>3
<1>4. ASSUME conn' = [conn EXCEPT ![c].state = "call"]
      PROVE  /\ \A d \in Conns \ {c} : conn'[d] = conn[d]
             /\ DOMAIN conn' = Conns
             /\ conn'[c] = [state |-> "call", server |-> conn[c].server, token |-> conn[c].token,
                            status |-> conn[c].status]
             /\ conn' = [d \in Conns |-> conn'[d]]
  BY <1>4
<1>5. ASSUME NEW r \in ConnRec, \A d \in Conns \ {c} : conn'[d] = conn[d], conn'[c] = r,
             conn' = [d \in Conns |-> conn'[d]]
      PROVE  conn' \in [Conns -> ConnRec]
  <2>1. \A d \in Conns : conn'[d] \in ConnRec
    BY <1>5
  <2> QED BY <2>1, <1>5
<1>6. readAuthToken(c) => conn' \in [Conns -> ConnRec]
  BY <1>1, <1>5
<1>7. \A s \in Servers : conn' = [conn EXCEPT ![c].state = "sent", ![c].server = s]
        => conn' \in [Conns -> ConnRec]
  <2> TAKE s \in Servers
  <2> HAVE conn' = [conn EXCEPT ![c].state = "sent", ![c].server = s]
  <2>1. [state |-> "sent", server |-> s, token |-> conn[c].token, status |-> conn[c].status]
          \in ConnRec
    OBVIOUS
  <2> QED BY <2>1, <1>2, <1>5
<1>8. \A t \in {"connected", "unauthorized", "unreachable"} :
        conn' = [conn EXCEPT ![c].state = "open", ![c].status = t] => conn' \in [Conns -> ConnRec]
  BY <1>3, <1>5
<1>9. conn' = [conn EXCEPT ![c].state = "call"] => conn' \in [Conns -> ConnRec]
  BY <1>4, <1>5
<1> HIDE DEF ServerTypeOK, ConnRec
<1>10. ASSUME readAuthToken(c)
       PROVE  /\ OnlyMoves(c)
              /\ conn'[c].state = (IF conn[c].state = "idle" THEN "read" ELSE "sent")
              /\ conn'[c].server = conn[c].server /\ conn'[c].status = None
  BY <1>1, <1>6, <1>10
<1>11. ASSUME NEW s \in Servers, conn' = [conn EXCEPT ![c].state = "sent", ![c].server = s]
       PROVE  /\ OnlyMoves(c)
              /\ conn'[c].state = "sent" /\ conn'[c].server = s
              /\ conn'[c].status = conn[c].status
  <2>1. conn'[c] = [state |-> "sent", server |-> s, token |-> conn[c].token,
                    status |-> conn[c].status]
    BY <1>2, <1>11
  <2>2. OnlyMoves(c)
    BY <1>2, <1>7, <1>11
  <2> QED BY <2>1, <2>2
<1>12. ASSUME NEW t \in {"connected", "unauthorized", "unreachable"},
              conn' = [conn EXCEPT ![c].state = "open", ![c].status = t]
       PROVE  /\ OnlyMoves(c)
              /\ conn'[c].state = "open" /\ conn'[c].server = conn[c].server
              /\ conn'[c].token = conn[c].token /\ conn'[c].status = t
  <2>1. conn'[c] = [state |-> "open", server |-> conn[c].server, token |-> conn[c].token,
                    status |-> t]
    BY <1>3, <1>12
  <2>2. OnlyMoves(c)
    BY <1>3, <1>8, <1>12
  <2> QED BY <2>1, <2>2
<1>13. ASSUME conn' = [conn EXCEPT ![c].state = "call"]
       PROVE  /\ OnlyMoves(c)
              /\ conn'[c].state = "call" /\ conn'[c].server = conn[c].server
              /\ conn'[c].token = conn[c].token /\ conn'[c].status = conn[c].status
  BY <1>4, <1>9, <1>13
<1> QED
  BY <1>10, <1>11, <1>12, <1>13, Zenon

\* The end of a connection.
\* What is left of the connection c when it ends: nothing, or a dropped call.
Left(c, d) ==
    \/ d = Closed
    \/ /\ conn[c].state = "call" /\ d.state = "dropped" /\ d.server = conn[c].server
       /\ d.token = conn[c].token /\ d.status = conn[c].status

\* A connection that ends is closed, or left behind with its tool still running.
LEMMA EndedMoves ==
    ASSUME ServerTypeOK, NEW c \in Conns
    PROVE  /\ conn' = [conn EXCEPT ![c] = Closed] => OnlyMoves(c) /\ conn'[c] = Closed
           /\ conn' = [conn EXCEPT ![c] = Ended(c)] => OnlyMoves(c) /\ conn'[c] = Ended(c)
           /\ Closed \in ConnRec /\ Ended(c) \in ConnRec
           /\ Left(c, Ended(c))
           /\ Closed.state = "idle" /\ Closed.status = None
<1> USE DEF ServerTypeOK, OnlyMoves, ConnRec, Left
<1>1. Closed \in ConnRec /\ Closed.state = "idle" /\ Closed.status = None
  BY DEF Closed
<1>2. CASE conn[c].state = "call"
  BY <1>1, <1>2 DEF Ended
<1>3. CASE conn[c].state # "call"
  BY <1>1, <1>3 DEF Ended
<1> QED
  BY <1>1, <1>2, <1>3

\* The connections that hold a slot can be counted.
LEMMA LiveFinite ==
    ASSUME NEW s
    PROVE  IsFiniteSet(Of(s, Busy)) /\ Cardinality(Of(s, Busy)) \in Nat
<1>1. Of(s, Busy) \subseteq Conns
  BY DEF Of
<1> QED
  BY <1>1, ServerAssumption, FS_Subset, FS_CardinalityType

\* How the connections with a slot change when c moves.
LEMMA LiveMoves ==
    ASSUME NEW c \in Conns, OnlyMoves(c), NEW s \in Servers
    PROVE  /\ conn'[c].server = s /\ conn'[c].state \in Busy => Of(s, Busy)' = Of(s, Busy) \cup {c}
           /\ ~(conn'[c].server = s /\ conn'[c].state \in Busy) => Of(s, Busy)' = Of(s, Busy) \ {c}
BY DEF Of, OnlyMoves, Busy

\* The slots are accounted for when c moves: it has one before or after, both
\* or neither, and the server's count follows.
LEMMA SlotsMove ==
    ASSUME ServerInv, NEW c \in Conns, OnlyMoves(c), NEW s \in Servers,
           permits'[s] = permits[s]
             - (IF conn'[c].server = s /\ conn'[c].state \in Busy THEN 1 ELSE 0)
             + (IF conn[c].server = s /\ conn[c].state \in Busy THEN 1 ELSE 0)
    PROVE  permits'[s] + Cardinality(Of(s, Busy)') = MaxConnections
<1>1. permits[s] + Cardinality(Of(s, Busy)) = MaxConnections
  BY DEF ServerInv, PermitsAccounted, Busy
<1>2. /\ IsFiniteSet(Of(s, Busy)) /\ Cardinality(Of(s, Busy)) \in Nat /\ permits[s] \in Nat
      /\ MaxConnections \in Nat
  BY LiveFinite, ServerAssumption DEF ServerInv, ServerTypeOK
<1>3. c \in Of(s, Busy) <=> conn[c].server = s /\ conn[c].state \in Busy
  BY DEF Of
<1>4. CASE conn'[c].server = s /\ conn'[c].state \in Busy
  <2>1. Of(s, Busy)' = Of(s, Busy) \cup {c}
    BY <1>4, LiveMoves
  <2>2. Cardinality(Of(s, Busy) \cup {c})
          = IF c \in Of(s, Busy) THEN Cardinality(Of(s, Busy)) ELSE Cardinality(Of(s, Busy)) + 1
    BY <1>2, FS_AddElement
  <2> QED BY <1>1, <1>2, <1>3, <1>4, <2>1, <2>2
<1>5. CASE ~(conn'[c].server = s /\ conn'[c].state \in Busy)
  <2>1. Of(s, Busy)' = Of(s, Busy) \ {c}
    BY <1>5, LiveMoves
  <2>2. Cardinality(Of(s, Busy) \ {c})
          = IF c \in Of(s, Busy) THEN Cardinality(Of(s, Busy)) - 1 ELSE Cardinality(Of(s, Busy))
    BY <1>2, FS_RemoveElement
  <2> QED BY <1>1, <1>2, <1>3, <1>5, <2>1, <2>2
<1> QED
  BY <1>4, <1>5

\* A step of a connection keeps the invariant when its new record is attached
\* and authorized, and the slots follow.
LEMMA ConnectionStep ==
    ASSUME ServerInv, NEW c \in Conns, OnlyMoves(c), UNCHANGED <<token_file, server, stopping>>,
           permits' \in [Servers -> Nat],
           \A s \in Servers : permits'[s] = permits[s]
             - (IF conn'[c].server = s /\ conn'[c].state \in Busy THEN 1 ELSE 0)
             + (IF conn[c].server = s /\ conn[c].state \in Busy THEN 1 ELSE 0),
           conn'[c].state \in Busy =>
             conn'[c].server \in Servers /\ server[conn'[c].server] \in {"listening", "draining"},
           conn'[c].state = "dropped" =>
             /\ conn'[c].server \in Servers
             /\ server[conn'[c].server] \in {"listening", "draining", "joining"},
           conn'[c].state \in {"call", "dropped"} \/ conn'[c].status = "connected" =>
             conn'[c].token = conn'[c].server,
           conn'[c].status # None => conn'[c].state = "open"
    PROVE  ServerInv'
<1>1. PermitsAccounted'
  BY SlotsMove DEF PermitsAccounted, Busy
<1>2. ServerTypeOK'
  <2>1. \A s \in Servers : permits'[s] \in 0..MaxConnections
    <3> TAKE s \in Servers
    <3>1. Cardinality(Of(s, Busy)') \in Nat
      <4>1. Of(s, Busy)' \subseteq Conns
        BY DEF Of
      <4> QED BY <4>1, ServerAssumption, FS_Subset, FS_CardinalityType
    <3>2. permits'[s] + Cardinality(Of(s, Busy)') = MaxConnections /\ permits'[s] \in Nat
      BY <1>1 DEF PermitsAccounted, Busy
    <3> QED BY <3>1, <3>2, ServerAssumption
  <2>2. permits' \in [Servers -> 0..MaxConnections]
    BY <2>1
  <2> QED BY <2>2 DEF ServerInv, ServerTypeOK, OnlyMoves, ConnRec
<1>3. Attached'
  BY DEF ServerInv, Attached, OnlyMoves
<1>4. CallsAreAuthorized'
  BY DEF ServerInv, CallsAreAuthorized, OnlyMoves
<1>5. \A d \in Conns : conn'[d].status # None => conn'[d].state = "open"
  BY DEF ServerInv, OnlyMoves
<1>6. \A s, t \in Listening' : s = t
  BY DEF ServerInv, Listening
<1> QED
  BY <1>1, <1>2, <1>3, <1>4, <1>5, <1>6 DEF ServerInv

\* A step of a server that leaves the connections alone: it has none with a
\* slot when it no longer listens or drains, and no call when it has ended.
LEMMA PhaseStep ==
    ASSUME ServerInv, NEW s \in Servers, NEW phase \in Phase, Go(s, phase),
           UNCHANGED <<conn, permits>>, stopping' \in [Servers -> BOOLEAN],
           token_file' \in Servers \cup {None},
           phase = "listening" => Listening = {},
           phase \in {"listening", "draining"} \/ Of(s, Busy) = {},
           phase \in {"listening", "draining", "joining"} \/ Of(s, {"dropped"}) = {}
    PROVE  ServerInv'
<1>1. server' \in [Servers -> Phase] /\ server'[s] = phase
      /\ \A t \in Servers \ {s} : server'[t] = server[t]
  BY DEF ServerInv, ServerTypeOK, Go
<1>2. ServerTypeOK'
  BY <1>1 DEF ServerInv, ServerTypeOK
<1>3. Attached'
  <2>1. ASSUME NEW c \in Conns, conn[c].state \in Busy
        PROVE  conn[c].server \in Servers /\ server'[conn[c].server] \in {"listening", "draining"}
    <3>1. conn[c].server \in Servers /\ server[conn[c].server] \in {"listening", "draining"}
      BY <2>1 DEF ServerInv, Attached
    <3>2. CASE conn[c].server = s
      BY <2>1, <3>2, <1>1 DEF Of
    <3>3. CASE conn[c].server # s
      BY <3>1, <3>3, <1>1
    <3> QED BY <3>1, <3>2, <3>3
  <2>2. ASSUME NEW c \in Conns, conn[c].state = "dropped"
        PROVE  /\ conn[c].server \in Servers
               /\ server'[conn[c].server] \in {"listening", "draining", "joining"}
    <3>1. /\ conn[c].server \in Servers
          /\ server[conn[c].server] \in {"listening", "draining", "joining"}
      BY <2>2 DEF ServerInv, Attached
    <3>2. CASE conn[c].server = s
      BY <2>2, <3>2, <1>1 DEF Of
    <3>3. CASE conn[c].server # s
      BY <3>1, <3>3, <1>1
    <3> QED BY <3>1, <3>2, <3>3
  <2> QED BY <2>1, <2>2 DEF Attached
<1>4. CallsAreAuthorized'
  BY DEF ServerInv, CallsAreAuthorized
<1>5. \A d \in Conns : conn'[d].status # None => conn'[d].state = "open"
  BY DEF ServerInv
<1>6. \A t, u \in Listening' : t = u
  <2>1. \A t \in Listening' : t = s \/ t \in Listening
    BY <1>1 DEF Listening
  <2>2. s \in Listening' => Listening = {}
    BY <1>1 DEF Listening
  <2>3. \A t, u \in Listening : t = u
    BY DEF ServerInv
  <2> QED BY <2>1, <2>2, <2>3
<1>7. PermitsAccounted'
  BY DEF ServerInv, PermitsAccounted, Of
<1> QED
  BY <1>2, <1>3, <1>4, <1>5, <1>6, <1>7 DEF ServerInv

\* The end of all connections of a server: each of its calls is dropped or
\* closed with its task, and every slot is free.
LEMMA ClearingStep ==
    ASSUME ServerInv, NEW s \in Servers, NEW phase \in {"joining", "killed"}, Go(s, phase),
           conn' \in [Conns -> ConnRec], UNCHANGED <<token_file, stopping>>,
           permits' = [permits EXCEPT ![s] = MaxConnections],
           \A d \in Conns : \/ conn'[d] = conn[d] /\ (conn[d].server # s \/ conn[d].state \notin Busy)
                            \/ conn[d].server = s /\ conn'[d] = Closed
                            \/ /\ conn[d].server = s /\ conn[d].state = "call"
                               /\ conn'[d].state = "dropped" /\ conn'[d].server = s
                               /\ conn'[d].token = conn[d].token
                               /\ conn'[d].status = conn[d].status,
           phase = "killed" => \A d \in Conns : conn'[d].state = "dropped" => conn'[d].server # s
    PROVE  ServerInv'
<1>0. /\ server' \in [Servers -> Phase] /\ server'[s] = phase
      /\ \A t \in Servers \ {s} : server'[t] = server[t]
  BY DEF ServerInv, ServerTypeOK, Go, Phase
<1>1. /\ permits' \in [Servers -> 0..MaxConnections] /\ permits'[s] = MaxConnections
      /\ \A t \in Servers \ {s} : permits'[t] = permits[t]
  BY ServerAssumption DEF ServerInv, ServerTypeOK
<1>c. Closed.state = "idle" /\ Closed.status = None
  BY DEF Closed
<1>2. ServerTypeOK'
  BY <1>0, <1>1 DEF ServerInv, ServerTypeOK, ConnRec
<1>3. Attached'
  <2>1. ASSUME NEW c \in Conns, conn'[c].state \in Busy
        PROVE  conn'[c].server \in Servers /\ server'[conn'[c].server] \in {"listening", "draining"}
    <3>1. conn'[c] = conn[c] /\ conn[c].server # s
      BY <2>1, <1>c DEF Busy
    <3>2. conn[c].server \in Servers /\ server[conn[c].server] \in {"listening", "draining"}
      BY <2>1, <3>1 DEF ServerInv, Attached
    <3> QED BY <3>1, <3>2, <1>0
  <2>2. ASSUME NEW c \in Conns, conn'[c].state = "dropped"
        PROVE  /\ conn'[c].server \in Servers
               /\ server'[conn'[c].server] \in {"listening", "draining", "joining"}
    <3>1. CASE conn'[c] = conn[c]
      <4>1. /\ conn[c].server \in Servers
            /\ server[conn[c].server] \in {"listening", "draining", "joining"}
        BY <2>2, <3>1 DEF ServerInv, Attached
      <4> QED BY <3>1, <4>1, <1>0, <2>2
    <3>2. CASE conn'[c].server = s
      BY <2>2, <3>2, <1>0
    <3> QED BY <2>2, <3>1, <3>2, <1>c
  <2> QED BY <2>1, <2>2 DEF Attached
<1>4. CallsAreAuthorized'
  <2>1. \A c \in Conns : conn[c].state \in {"call", "dropped"} \/ conn[c].status = "connected"
                         => conn[c].token = conn[c].server
    BY DEF ServerInv, CallsAreAuthorized
  <2>2. None # "connected"
    BY ServerAssumption
  <2> QED BY <2>1, <2>2, <1>c DEF CallsAreAuthorized
<1>5. \A d \in Conns : conn'[d].status # None => conn'[d].state = "open"
  <2>1. \A d \in Conns : conn[d].status # None => conn[d].state = "open"
    BY DEF ServerInv
  <2> QED BY <2>1, <1>c
<1>6. \A t, u \in Listening' : t = u
  <2>1. Listening' \subseteq Listening
    BY <1>0 DEF Listening
  <2> QED BY <2>1 DEF ServerInv
<1>7. PermitsAccounted'
  <2>1. ASSUME NEW t \in Servers \ {s} PROVE Of(t, Busy)' = Of(t, Busy)
    BY <2>1, <1>c DEF Of, Busy
  <2>2. Of(s, Busy)' = {}
    BY <1>c DEF Of, Busy
  <2>3. permits'[s] + Cardinality(Of(s, Busy)') = MaxConnections
    BY <2>2, <1>1, FS_EmptySet, ServerAssumption
  <2>4. \A t \in Servers : permits[t] + Cardinality(Of(t, Busy)) = MaxConnections
    BY DEF ServerInv, PermitsAccounted, Busy
  <2>5. \A t \in Servers \ {s} : permits'[t] + Cardinality(Of(t, Busy)') = MaxConnections
    BY <2>1, <2>4, <1>1
  <2> QED BY <2>3, <2>5 DEF PermitsAccounted, Busy
<1> QED
  BY <1>2, <1>3, <1>4, <1>5, <1>6, <1>7 DEF ServerInv

\* A server that does not listen, drain or join has no connection.
LEMMA Unattached ==
    ASSUME ServerInv, NEW s \in Servers
    PROVE  /\ server[s] \notin {"listening", "draining"} => Of(s, Busy) = {}
           /\ server[s] \notin {"listening", "draining", "joining"} => Of(s, {"dropped"}) = {}
BY DEF ServerInv, Attached, Of

\* Before any server starts the invariant holds.
LEMMA ServerInitial == ServerInit => ServerInv
<1> SUFFICES ASSUME ServerInit PROVE ServerInv
  OBVIOUS
<1>1. Closed \in ConnRec /\ Closed.state = "idle" /\ Closed.status = None
  BY DEF Closed, ConnRec
<1>2. \A c \in Conns : conn[c] = Closed
  BY DEF ServerInit
<1>3. ServerTypeOK
  BY <1>1, ServerAssumption DEF ServerInit, ServerTypeOK, Phase, ConnRec
<1>4. Attached
  BY <1>1, <1>2 DEF Attached, Busy
<1>5. CallsAreAuthorized
  BY <1>1, <1>2, ServerAssumption DEF CallsAreAuthorized
<1>6. \A c \in Conns : conn[c].status # None => conn[c].state = "open"
  BY <1>1, <1>2
<1>7. Listening = {}
  BY DEF Listening, ServerInit
<1>8. PermitsAccounted
  <2>1. \A s \in Servers : Of(s, Busy) = {}
    BY <1>1, <1>2 DEF Of, Busy
  <2>2. \A s \in Servers : permits[s] = MaxConnections
    BY DEF ServerInit
  <2> QED BY <2>1, <2>2, FS_EmptySet, ServerAssumption DEF PermitsAccounted, Busy
<1> QED
  BY <1>3, <1>4, <1>5, <1>6, <1>7, <1>8 DEF ServerInv

\* The steps of a server.
LEMMA ServerSteps ==
    ASSUME ServerInv, NEW s \in Servers, Start(s) \/ signal(s) \/ accept_fails(s) \/ Shutdown(s) \/ kill(s)
    PROVE  ServerInv'
<1>0. /\ stopping \in [Servers -> BOOLEAN] /\ token_file \in Servers \cup {None}
      /\ conn \in [Conns -> ConnRec]
  BY DEF ServerInv, ServerTypeOK, ConnRec
<1>1. CASE Start(s)
  <2>1. /\ server[s] \in {"off", "truncated", "written", "built"}
        /\ UNCHANGED <<stopping, permits, conn>> /\ token_file' \in Servers \cup {None}
        /\ \E phase \in Phase : Go(s, phase) /\ (phase = "listening" => Listening = {})
    BY <1>0, <1>1 DEF Start, serve_refused, serve, write_token, build_handler, bind, Phase
  <2>2. PICK phase \in Phase : Go(s, phase) /\ (phase = "listening" => Listening = {})
    BY <2>1
  <2> QED BY <1>0, <2>1, <2>2, Unattached, PhaseStep
<1>2. CASE signal(s)
  <2>1. /\ stopping' \in [Servers -> BOOLEAN]
        /\ UNCHANGED <<token_file, server, permits, conn>>
    BY <1>0, <1>2 DEF signal
  <2> QED
    BY <2>1 DEF ServerInv, ServerTypeOK, Attached, CallsAreAuthorized, Listening,
       PermitsAccounted, Of
<1>3. CASE stop_accepting(s)
  <2>1. Go(s, "draining") /\ UNCHANGED <<token_file, stopping, permits, conn>>
    BY <1>3 DEF stop_accepting
  <2> QED BY <1>0, <2>1, PhaseStep DEF Phase
<1>4. CASE drained(s)
  <2>1. /\ Go(s, "joining") /\ UNCHANGED <<token_file, stopping, permits, conn>>
        /\ Of(s, Busy) = {}
    BY <1>4 DEF drained, Busy
  <2> QED BY <1>0, <2>1, PhaseStep DEF Phase
<1>5. CASE runtime_drop(s)
  <2>1. /\ Go(s, "ended") /\ UNCHANGED <<token_file, stopping, permits, conn>>
        /\ Of(s, {"dropped"}) = {} /\ server[s] = "joining"
    BY <1>5 DEF runtime_drop
  <2>2. Of(s, Busy) = {}
    BY <2>1, Unattached
  <2> QED BY <1>0, <2>1, <2>2, PhaseStep DEF Phase
<1>6. CASE drain_timeout(s) \/ accept_fails(s)
  <2>1. /\ Go(s, "joining") /\ UNCHANGED <<token_file, stopping>>
        /\ permits' = [permits EXCEPT ![s] = MaxConnections]
        /\ conn' = [c \in Conns |-> IF c \in Of(s, Busy) THEN Ended(c) ELSE conn[c]]
    BY <1>6 DEF drain_timeout, accept_fails, abort_all, Busy
  <2>2. ServerTypeOK
    BY DEF ServerInv
  <2>3. ASSUME NEW c \in Conns
        PROVE  /\ conn'[c] \in ConnRec
               /\ \/ conn'[c] = conn[c] /\ (conn[c].server # s \/ conn[c].state \notin Busy)
                  \/ conn[c].server = s /\ conn'[c] = Closed
                  \/ /\ conn[c].server = s /\ conn[c].state = "call"
                     /\ conn'[c].state = "dropped" /\ conn'[c].server = s
                     /\ conn'[c].token = conn[c].token
                     /\ conn'[c].status = conn[c].status
    <3>1. Ended(c) \in ConnRec /\ Left(c, Ended(c))
      BY <2>2, EndedMoves
    <3>2. CASE c \in Of(s, Busy)
      <4>1. conn'[c] = Ended(c) /\ conn[c].server = s
        BY <2>1, <3>2 DEF Of
      <4> QED BY <3>1, <4>1 DEF Left
    <3>3. CASE c \notin Of(s, Busy)
      <4>1. conn'[c] = conn[c] /\ (conn[c].server # s \/ conn[c].state \notin Busy)
        BY <2>1, <3>3 DEF Of
      <4> QED BY <1>0, <4>1
    <3> QED BY <3>2, <3>3
  <2>4. conn' \in [Conns -> ConnRec]
    BY <2>1, <2>3
  <2> QED BY <2>1, <2>3, <2>4, ClearingStep
<1>7. CASE kill(s)
  <2>1. /\ Go(s, "killed") /\ UNCHANGED <<token_file, stopping>>
        /\ permits' = [permits EXCEPT ![s] = MaxConnections]
        /\ conn' = [c \in Conns |-> IF conn[c].server = s THEN Closed ELSE conn[c]]
    BY <1>7 DEF kill
  <2>2. Closed \in ConnRec /\ Closed.state = "idle"
    BY DEF Closed, ConnRec
  <2>3. conn' \in [Conns -> ConnRec]
    BY <1>0, <2>1, <2>2
  <2>4. \A c \in Conns : \/ conn'[c] = conn[c] /\ conn[c].server # s
                         \/ conn[c].server = s /\ conn'[c] = Closed
    BY <2>1
  <2>5. \A c \in Conns : conn'[c].state = "dropped" => conn'[c].server # s
    BY <2>2, <2>4
  <2> QED BY <2>1, <2>3, <2>4, <2>5, ClearingStep
<1> QED
  BY <1>1, <1>2, <1>3, <1>4, <1>5, <1>6, <1>7 DEF Shutdown

\* The steps of a connection.
LEMMA ConnectionSteps ==
    ASSUME ServerInv, NEW c \in Conns, Serve(c) \/ Client(c) \/ tool_ends(c)
    PROVE  ServerInv'
<1>0. /\ ServerTypeOK /\ permits \in [Servers -> 0..MaxConnections]
      /\ conn[c] \in ConnRec /\ MaxConnections \in Nat
  BY ServerAssumption DEF ServerInv, ServerTypeOK, ConnRec
<1>1. /\ conn[c].state \in Busy =>
           conn[c].server \in Servers /\ server[conn[c].server] \in {"listening", "draining"}
      /\ conn[c].status # None => conn[c].state = "open"
      /\ conn[c].state \in {"call", "dropped"} \/ conn[c].status = "connected"
           => conn[c].token = conn[c].server
  BY DEF ServerInv, Attached, CallsAreAuthorized
<1>2. None # "connected" /\ None # "unauthorized" /\ None # "unreachable"
  BY ServerAssumption
<1>3. permits \in [Servers -> Nat]
  BY <1>0
<1>c. Closed.state = "idle" /\ Closed.status = None
  BY DEF Closed
<1>4. CASE readAuthToken(c)
  <2>1. /\ OnlyMoves(c) /\ conn'[c].server = conn[c].server /\ conn'[c].status = None
        /\ conn'[c].state = (IF conn[c].state = "idle" THEN "read" ELSE "sent")
    BY <1>0, <1>4, Moves
  <2>2. conn[c].state \in {"idle", "open"} /\ UNCHANGED <<token_file, server, stopping, permits>>
    BY <1>4 DEF readAuthToken
  <2>3. conn'[c].state \in Busy <=> conn[c].state \in Busy
    BY <2>1, <2>2 DEF Busy
  <2>4. conn'[c].state \in {"read", "sent"}
    BY <2>1
  <2>5. \A s \in Servers : permits'[s] = permits[s]
             - (IF conn'[c].server = s /\ conn'[c].state \in Busy THEN 1 ELSE 0)
             + (IF conn[c].server = s /\ conn[c].state \in Busy THEN 1 ELSE 0)
    BY <1>3, <2>1, <2>2, <2>3
  <2> QED BY <1>1, <1>2, <1>3, <2>1, <2>2, <2>3, <2>4, <2>5, ConnectionStep
<1>5. CASE accept(c)
  <2>1. PICK s \in Listening : /\ permits[s] > 0 /\ permits' = [permits EXCEPT ![s] = @ - 1]
                               /\ conn' = [conn EXCEPT ![c].state = "sent", ![c].server = s]
    BY <1>5 DEF accept
  <2>2. s \in Servers /\ server[s] = "listening"
    BY <2>1 DEF Listening
  <2>3. conn[c].state = "read" /\ UNCHANGED <<token_file, server, stopping>>
    BY <1>5 DEF accept
  <2>4. /\ OnlyMoves(c) /\ conn'[c].state = "sent" /\ conn'[c].server = s
        /\ conn'[c].status = conn[c].status
    BY <1>0, <2>1, <2>2, Moves
  <2>5. conn[c].state \notin Busy /\ conn'[c].state \in Busy
    BY <2>3, <2>4 DEF Busy
  <2>6. /\ permits' \in [Servers -> Nat]
        /\ \A t \in Servers : permits'[t] = permits[t]
             - (IF conn'[c].server = t /\ conn'[c].state \in Busy THEN 1 ELSE 0)
             + (IF conn[c].server = t /\ conn[c].state \in Busy THEN 1 ELSE 0)
    BY <1>3, <2>1, <2>2, <2>4, <2>5
  <2> QED BY <1>1, <1>2, <2>2, <2>3, <2>4, <2>6, ConnectionStep
<1>6. CASE handle_request_refused(c) \/ respond(c)
  <2>1. PICK t \in {"connected", "unauthorized", "unreachable"} :
          /\ conn' = [conn EXCEPT ![c].state = "open", ![c].status = t]
          /\ t = "connected" => conn[c].token = conn[c].server
    <3>1. CASE respond(c)
      <4>1. ping(200) = "connected"
        BY DEF ping
      <4> QED BY <3>1, <4>1, <1>1 DEF respond
    <3>2. CASE handle_request_refused(c)
      <4>1. PICK code \in {405, 403, 401, 413, 200} :
              /\ (code = 401) => conn[c].token # conn[c].server
              /\ (code \in {413, 200}) => conn[c].token = conn[c].server
              /\ conn' = [conn EXCEPT ![c].state = "open", ![c].status = ping(code)]
        BY <3>2 DEF handle_request_refused
      <4>2. /\ ping(code) \in {"connected", "unauthorized", "unreachable"}
            /\ ping(code) = "connected" => code = 200
        BY <4>1 DEF ping
      <4>3. PICK u : u = ping(code)
        OBVIOUS
      <4>4. /\ u \in {"connected", "unauthorized", "unreachable"}
            /\ u = "connected" => conn[c].token = conn[c].server
        BY <4>1, <4>2, <4>3
      <4>5. conn' = [conn EXCEPT ![c].state = "open", ![c].status = u]
        BY <4>1, <4>3
      <4> QED BY <4>4, <4>5
    <3> QED BY <1>6, <3>1, <3>2
  <2>2. conn[c].state \in {"sent", "call"} /\ UNCHANGED <<token_file, server, stopping, permits>>
    BY <1>6 DEF handle_request_refused, respond
  <2>3. /\ OnlyMoves(c) /\ conn'[c].state = "open" /\ conn'[c].server = conn[c].server
        /\ conn'[c].token = conn[c].token /\ conn'[c].status = t
    BY <1>0, <2>1, Moves
  <2>4. conn[c].state \in Busy /\ conn'[c].state \in Busy
    BY <2>2, <2>3 DEF Busy
  <2>5. \A s \in Servers : permits'[s] = permits[s]
             - (IF conn'[c].server = s /\ conn'[c].state \in Busy THEN 1 ELSE 0)
             + (IF conn[c].server = s /\ conn[c].state \in Busy THEN 1 ELSE 0)
    BY <1>3, <2>2, <2>3, <2>4
  <2> QED BY <1>1, <1>3, <2>1, <2>2, <2>3, <2>4, <2>5, ConnectionStep
<1>7. CASE handle_request(c)
  <2>1. /\ conn' = [conn EXCEPT ![c].state = "call"] /\ conn[c].token = conn[c].server
        /\ conn[c].state = "sent" /\ UNCHANGED <<token_file, server, stopping, permits>>
    BY <1>7 DEF handle_request
  <2>2. /\ OnlyMoves(c) /\ conn'[c].state = "call" /\ conn'[c].server = conn[c].server
        /\ conn'[c].token = conn[c].token /\ conn'[c].status = conn[c].status
    BY <1>0, <2>1, Moves
  <2>3. conn[c].state \in Busy /\ conn'[c].state \in Busy
    BY <2>1, <2>2 DEF Busy
  <2>4. \A s \in Servers : permits'[s] = permits[s]
             - (IF conn'[c].server = s /\ conn'[c].state \in Busy THEN 1 ELSE 0)
             + (IF conn[c].server = s /\ conn[c].state \in Busy THEN 1 ELSE 0)
    BY <1>3, <2>1, <2>2, <2>3
  <2>5. conn[c].status = None
    BY <1>1, <2>1
  <2> QED BY <1>1, <1>3, <2>1, <2>2, <2>3, <2>4, <2>5, ConnectionStep
<1>8. CASE hang_up(c) \/ close_idle(c)
  <2>1. /\ conn' = [conn EXCEPT ![c] = Ended(c)] \/ conn' = [conn EXCEPT ![c] = Closed]
        /\ conn[c].state \in Busy /\ UNCHANGED <<token_file, server, stopping>>
        /\ permits' = [permits EXCEPT ![conn[c].server] = @ + 1]
    BY <1>8 DEF hang_up, close_idle, release, Busy
  <2>2. OnlyMoves(c) /\ Left(c, conn'[c])
    BY <1>0, <2>1, EndedMoves DEF Left
  <2>3. conn'[c].state \notin Busy /\ conn'[c].status = None /\ conn'[c].state \in {"idle", "dropped"}
    BY <1>1, <1>c, <2>2 DEF Busy, Left
  <2>4. /\ permits' \in [Servers -> Nat]
        /\ \A t \in Servers : permits'[t] = permits[t]
             - (IF conn'[c].server = t /\ conn'[c].state \in Busy THEN 1 ELSE 0)
             + (IF conn[c].server = t /\ conn[c].state \in Busy THEN 1 ELSE 0)
    BY <1>1, <1>3, <2>1, <2>3
  <2>5. conn'[c].state = "dropped" =>
             /\ conn'[c].server \in Servers
             /\ server[conn'[c].server] \in {"listening", "draining", "joining"}
             /\ conn'[c].token = conn'[c].server
    BY <1>1, <1>c, <2>1, <2>2 DEF Left
  <2>6. conn'[c].state \notin {"call"} /\ conn'[c].status # "connected"
    BY <1>2, <2>3
  <2> QED BY <2>1, <2>2, <2>3, <2>4, <2>5, <2>6, ConnectionStep
<1>9. CASE unreachable(c) \/ tool_ends(c)
  <2>1. /\ conn' = [conn EXCEPT ![c] = Closed] /\ conn[c].state \notin Busy
        /\ UNCHANGED <<token_file, server, stopping, permits>>
    BY <1>9 DEF unreachable, tool_ends, Busy
  <2>2. OnlyMoves(c) /\ conn'[c] = Closed
    BY <1>0, <2>1, EndedMoves
  <2>3. conn'[c].state = "idle" /\ conn'[c].state \notin Busy /\ conn'[c].status = None
    BY <1>c, <2>2 DEF Busy
  <2>4. \A s \in Servers : permits'[s] = permits[s]
             - (IF conn'[c].server = s /\ conn'[c].state \in Busy THEN 1 ELSE 0)
             + (IF conn[c].server = s /\ conn[c].state \in Busy THEN 1 ELSE 0)
    BY <1>3, <2>1, <2>3
  <2> QED BY <1>2, <1>3, <2>1, <2>2, <2>3, <2>4, ConnectionStep
<1> QED
  BY <1>4, <1>5, <1>6, <1>7, <1>8, <1>9 DEF Serve, Client

\* Whatever servers are started, signalled and killed and whatever clients do,
\* the HTTP endpoint (serve, serve_async, handle_request) runs calls for the
\* holder of its token alone, gives every slot back, never listens twice, and
\* does no more work once it has stopped: for any servers, clients and slots.
THEOREM ServerKept == ServerSpec => []ServerSafe
<1>1. ServerInit => ServerInv
  BY ServerInitial
<1>2. ASSUME ServerInv, [ServerNext]_server_vars PROVE ServerInv'
  <2>1. CASE UNCHANGED server_vars
    BY <1>2, <2>1 DEF server_vars, ServerInv, ServerTypeOK, Attached, CallsAreAuthorized,
       Listening, PermitsAccounted, Of
  <2>2. CASE ServerNext
    BY <1>2, <2>2, ServerSteps, ConnectionSteps DEF ServerNext
  <2> QED BY <1>2, <2>1, <2>2
<1>3. ServerInv => ServerSafe
  <2> SUFFICES ASSUME ServerInv PROVE ServerSafe
    OBVIOUS
  <2>1. EndedIsQuiet
    <3>1. \A s \in Servers : server[s] = "ended" => Of(s, Busy) = {} /\ Of(s, {"dropped"}) = {}
      BY Unattached
    <3> QED BY <3>1 DEF EndedIsQuiet, Of, Busy
  <2>2. OneListener
    <3>1. Cardinality(Listening) <= 1
      <4>1. CASE Listening = {}
        BY <4>1, FS_EmptySet
      <4>2. CASE Listening # {}
        <5>1. PICK s : s \in Listening
          BY <4>2
        <5>2. Listening = {s}
          BY <5>1 DEF ServerInv
        <5> QED BY <5>2, FS_Singleton
      <4> QED BY <4>1, <4>2
    <3> QED BY <3>1 DEF ServerInv, Attached, OneListener, Busy
  <2> QED BY <2>1, <2>2 DEF ServerInv, ServerSafe
<1> QED
  BY <1>1, <1>2, <1>3, PTL DEF ServerSpec

-----------------------------------------------------------------------------
(***************************************************************************)
(* Migrations.  What a run found, what it has backed up and what the state *)
(* file says of it are enough to go on from wherever the run before broke  *)
(* off.                                                                    *)
(***************************************************************************)

\* A set of numbers has a least one.
LEMMA FirstOf ==
    ASSUME NEW S \in SUBSET Nat, S # {}
    PROVE  LET m == CHOOSE k \in S : \A j \in S : k <= j IN m \in S
<1>1. IsWellFoundedOn(OpToRel(<, Nat), Nat)
  BY NatLessThanWellFounded
<1>2. PICK x \in S : \A y \in S : ~(<<y, x>> \in OpToRel(<, Nat))
  BY <1>1, WFMin, Zenon
<1>3. \A y \in S : ~(y < x)
  BY <1>2 DEF OpToRel
<1>4. \A y \in S : x <= y
  BY <1>3
<1> QED
  BY <1>4

UnitStates == {"none", "python", "other", "own"}
Items == Written \cup Native \cup {"secret-store"}
StateFiles == [Items -> ItemStatus]

\* ARTIFACT_IDS lists every artifact once.
LEMMA IdsAreItems ==
    /\ ToSet(ArtifactIds) = Items /\ DOMAIN ArtifactIds = 1..7
    /\ \A i \in Items : \E k \in 1..7 : ArtifactIds[k] = i
BY DEF ToSet, ArtifactIds, Items, Written, Copied, Native

\* An artifact is the secret store, a written file or a native unit, never two of them.
LEMMA Kinds ==
    /\ Written \subseteq Items /\ Native \subseteq Items /\ "secret-store" \in Items
    /\ \A n \in Native : n \notin Written
    /\ "secret-store" \notin Written /\ "secret-store" \notin Native
    /\ \A i \in Items : i = "secret-store" \/ i \in Written \/ i \in Native
    /\ "profile" \in Written
BY DEF Items, Written, Copied, Native

\* While there is something to do, there is a first item.
LEMMA ItemToDo ==
    ASSUME migration.todo \subseteq Items, migration.todo # {}
    PROVE  next_item \in migration.todo
<1> DEFINE S == {k \in DOMAIN ArtifactIds : ArtifactIds[k] \in migration.todo}
<1>1. S \in SUBSET Nat /\ S # {}
  BY IdsAreItems
<1> HIDE DEF S
<1>2. Min(S) \in S
  BY <1>1, FirstOf DEF Min
<1> QED
  BY <1>2 DEF next_item, S

MigrationRec == [step : {"idle", "backup", "copy", "mark", "state", "items", "done"},
                 items : SUBSET Items, todo : SUBSET Items]

MigrationTypes ==
    /\ roots \in Roots
    /\ source \in Sources /\ source \subseteq Written
    /\ native \in [Native -> UnitStates]
    /\ destination \in [Written -> {"none", "migrated", "edited"}]
    /\ backup \in [status : {"none", "partial", "complete"}, source : SUBSET Written,
                   external : [Native -> UnitStates]]
    /\ statefile \in StateFiles \cup {None}
    /\ migration \in MigrationRec
    /\ migration.todo \subseteq migration.items
    /\ report \in {"none", "running", "nothing", "planned", "failed", "incomplete", "complete"}
    /\ history \in [units : [Native -> UnitStates], complete : BOOLEAN,
                    runs : 0..MaxMigrations]

WasLegacy == \E n \in Native : history.units[n] = "python"

\* A unit is as it was, or replaced after a complete backup of it.
UnitsBackedUp ==
    /\ \A n \in Native :
         \/ native[n] = history.units[n]
         \/ native[n] = "own" /\ WasLegacy /\ backup.status = "complete"
    /\ backup.status = "complete" \/ migration.step = "mark" =>
         /\ backup.source = source
         /\ WasLegacy => \A n \in Native : backup.external[n] = history.units[n]
    /\ \A i \in Written : destination[i] # "none" => backup.status = "complete"

\* What a run knows of what it found.
RunKnows ==
    /\ migration.step # "idle" =>
         /\ source \subseteq migration.items
         /\ secrets_detected => "secret-store" \in migration.items
         /\ legacy_units => Native \subseteq migration.items
         /\ \A n \in Native : n \in migration.items => WasLegacy
    /\ migration.step \in {"backup", "copy"} => migration.todo = migration.items
    /\ migration.step \in {"copy", "mark"} => backup.status = "partial"
    /\ migration.step \in {"state", "items", "done"} => backup.status = "complete"
    /\ migration.step \in {"items", "done"} => statefile \in StateFiles
    /\ migration.step = "done" =>
         /\ migration.todo # {} /\ next_item # "secret-store"
         /\ next_item \in Written => destination[next_item] # "none"
         /\ next_item \in Native => native[next_item] = "own"

\* What the state file calls done is done; and once a run was complete, all is.
DoneIsDone ==
    /\ statefile \in StateFiles =>
         /\ \A i \in Written : statefile[i] = "done" => destination[i] # "none"
         /\ \A n \in Native : statefile[n] = "done" => native[n] = "own"
         /\ statefile["secret-store"] # "done"
    /\ history.complete = TRUE =>
         /\ statefile \in StateFiles
         /\ ~secrets_detected /\ ~legacy_units
         /\ \A i \in source : statefile[i] = "done"
         /\ \A i \in migration.items : statefile[i] = "done"
    /\ report = "complete" => history.complete = TRUE

MigInv == MigrationTypes /\ UnitsBackedUp /\ RunKnows /\ DoneIsDone

\* An installation that was never migrated satisfies the invariant.
LEMMA MigInitInv == MigrationInit => MigInv
<1> SUFFICES ASSUME MigrationInit PROVE MigInv
  OBVIOUS
<1>1. /\ migration = [step |-> "idle", items |-> {}, todo |-> {}]
      /\ history = [units |-> native, complete |-> FALSE, runs |-> 0]
      /\ backup = [status |-> "none", source |-> {}, external |-> [n \in Native |-> "none"]]
      /\ report = "none" /\ statefile = None /\ source \in Sources /\ roots \in Roots
      /\ destination = [i \in Written |-> "none"]
      /\ native \in [Native -> UnitStates] /\ source \subseteq Written
  BY MigrationAssumption DEF MigrationInit, NoMigration, NoBackup, UnitStates
<1>2. MigrationTypes
  BY <1>1, MigrationAssumption DEF MigrationTypes, MigrationRec, UnitStates
<1>3. UnitsBackedUp
  BY <1>1 DEF UnitsBackedUp
<1>4. RunKnows
  BY <1>1 DEF RunKnows
<1>5. DoneIsDone
  <2>1. statefile \in StateFiles =>
         /\ \A i \in Written : statefile[i] = "done" => destination[i] # "none"
         /\ \A n \in Native : statefile[n] = "done" => native[n] = "own"
         /\ statefile["secret-store"] # "done"
    BY <1>1, MigrationAssumption, IdsAreItems DEF StateFiles
  <2> QED BY <1>1, <2>1 DEF DoneIsDone
<1> QED
  BY <1>2, <1>3, <1>4, <1>5 DEF MigInv

\* Where a run goes, and where it ends.
LEMMA Goes ==
    ASSUME MigrationTypes
    PROVE  /\ \A step \in {"copy", "mark", "state", "items", "done"}, todo \in SUBSET migration.items :
                proceed(step, todo) =>
                  /\ migration' \in MigrationRec /\ migration'.step = step
                  /\ migration'.todo = todo /\ migration'.items = migration.items
                  /\ report' = report
           /\ \A r : leave(r) =>
                /\ migration' \in MigrationRec /\ migration'.step = "idle"
                /\ migration'.todo = {} /\ migration'.items = {} /\ report' = r
<1>1. ASSUME NEW step \in {"copy", "mark", "state", "items", "done"},
             NEW todo \in SUBSET migration.items, proceed(step, todo)
      PROVE  /\ migration' \in MigrationRec /\ migration'.step = step
             /\ migration'.todo = todo /\ migration'.items = migration.items
             /\ report' = report
  BY <1>1 DEF proceed, MigrationTypes, MigrationRec
<1>2. ASSUME NEW r, leave(r)
      PROVE  /\ migration' \in MigrationRec /\ migration'.step = "idle"
             /\ migration'.todo = {} /\ migration'.items = {} /\ report' = r
  BY <1>2 DEF leave, NoMigration, MigrationRec
<1> QED
  BY <1>1, <1>2

\* A run that ends without having completed anything changes nothing.
LEMMA EndsOpen ==
    ASSUME MigInv, migration' \in MigrationRec, migration'.step = "idle",
           migration'.todo = {}, migration'.items = {}, UNCHANGED backup,
           UNCHANGED <<roots, source, native, destination, statefile>>,
           history' \in [units : [Native -> UnitStates], complete : BOOLEAN,
                         runs : 0..MaxMigrations],
           history'.units = history.units, history'.complete = history.complete,
           report' \in {"nothing", "planned", "failed", "incomplete"}
    PROVE  MigInv'
<1> USE DEF MigInv
<1>1. MigrationTypes'
  BY DEF MigrationTypes
<1>2. WasLegacy' = WasLegacy /\ secrets_detected' = secrets_detected /\ legacy_units' = legacy_units
  BY DEF WasLegacy, secrets_detected, legacy_units
<1>3. UnitsBackedUp'
  BY <1>2 DEF UnitsBackedUp
<1>4. RunKnows'
  BY DEF RunKnows
<1>5. DoneIsDone'
  BY <1>2 DEF DoneIsDone
<1> QED
  BY <1>1, <1>3, <1>4, <1>5

\* Starting a migration, dry or not, keeps the invariant.
LEMMA BeginKept ==
    ASSUME MigInv, NEW dry \in BOOLEAN, NEW copy_secrets \in BOOLEAN,
           begin_migration(dry, copy_secrets)
    PROVE  MigInv'
<1>0. /\ migration.step = "idle" /\ UNCHANGED <<roots, source, native, destination, backup, statefile>>
      /\ history.runs < MaxMigrations /\ history' = [history EXCEPT !.runs = @ + 1]
  BY DEF begin_migration
<1>1. /\ history' \in [units : [Native -> UnitStates], complete : BOOLEAN,
                       runs : 0..MaxMigrations]
      /\ history'.units = history.units /\ history'.complete = history.complete
  BY <1>0, MigrationAssumption DEF MigInv, MigrationTypes
<1>2. \/ \E r \in {"failed", "nothing", "planned"} : leave(r)
      \/ migration' = [step |-> "backup", items |-> detect, todo |-> detect] /\ report' = "running"
  BY DEF begin_migration
<1>3. CASE \E r \in {"failed", "nothing", "planned"} : leave(r)
  <2>1. PICK r \in {"failed", "nothing", "planned"} : leave(r)
    BY <1>3
  <2>2. /\ migration' \in MigrationRec /\ migration'.step = "idle"
        /\ migration'.todo = {} /\ migration'.items = {} /\ report' = r
    BY <2>1, Goes DEF MigInv
  <2> QED BY <1>0, <1>1, <2>2, EndsOpen
<1>4. CASE migration' = [step |-> "backup", items |-> detect, todo |-> detect] /\ report' = "running"
  <2>1. detect \subseteq Items
    BY Kinds DEF detect, MigInv, MigrationTypes
  <2>2. /\ migration' \in MigrationRec /\ migration'.step = "backup"
        /\ migration'.todo = detect /\ migration'.items = detect
    BY <1>4, <2>1 DEF MigrationRec
  <2>3. /\ WasLegacy' = WasLegacy /\ secrets_detected' = secrets_detected
        /\ legacy_units' = legacy_units
    BY <1>0, <1>1 DEF WasLegacy, secrets_detected, legacy_units
  <2>4. MigrationTypes'
    BY <1>0, <1>1, <1>4, <2>2 DEF MigInv, MigrationTypes
  <2>5. UnitsBackedUp'
    BY <1>0, <1>1, <2>2, <2>3 DEF MigInv, UnitsBackedUp
  <2>6. legacy_units => WasLegacy
    BY DEF legacy_units, WasLegacy, MigInv, UnitsBackedUp
  <2>7. /\ source \subseteq detect /\ (secrets_detected => "secret-store" \in detect)
        /\ (legacy_units => Native \subseteq detect)
        /\ \A n \in Native : n \in detect => legacy_units
    BY Kinds DEF detect, MigInv, MigrationTypes
  <2>8. RunKnows'
    BY <1>0, <2>2, <2>3, <2>6, <2>7 DEF RunKnows
  <2>9. ~secrets_detected /\ ~legacy_units => detect = source
    BY DEF detect
  <2>10. DoneIsDone'
    BY <1>0, <1>1, <1>4, <2>2, <2>3, <2>9 DEF DoneIsDone, MigInv
  <2> QED BY <2>4, <2>5, <2>8, <2>10 DEF MigInv
<1> QED
  BY <1>2, <1>3, <1>4

\* The steps of the backup.
LEMMA BackupKept ==
    ASSUME MigInv, ensure_backup \/ copy_tree \/ mark_backup \/ clear_backup
    PROVE  MigInv'
<1>0. /\ UNCHANGED <<roots, source, native, destination, statefile, history>>
      /\ WasLegacy' = WasLegacy /\ secrets_detected' = secrets_detected
      /\ legacy_units' = legacy_units
  BY DEF ensure_backup, copy_tree, mark_backup, clear_backup, WasLegacy, secrets_detected,
         legacy_units
<1>a. migration.todo \in SUBSET migration.items
  BY DEF MigInv, MigrationTypes
<1>1. CASE ensure_backup
  <2>1. migration.step = "backup"
    BY <1>1 DEF ensure_backup
  <2>2. CASE backup.status = "complete"
    <3>1. proceed("state", migration.todo) /\ UNCHANGED backup
      BY <1>1, <2>2 DEF ensure_backup
    <3>2. /\ migration' \in MigrationRec /\ migration'.step = "state"
          /\ migration'.todo = migration.todo /\ migration'.items = migration.items
          /\ report' = report
      BY <3>1, <1>a, Goes DEF MigInv
    <3>3. MigrationTypes'
      BY <1>0, <3>1, <3>2 DEF MigInv, MigrationTypes
    <3>4. UnitsBackedUp'
      BY <1>0, <3>1, <3>2 DEF MigInv, UnitsBackedUp
    <3>5. RunKnows'
      BY <1>0, <2>1, <2>2, <3>1, <3>2 DEF MigInv, RunKnows
    <3>6. DoneIsDone'
      BY <1>0, <3>2 DEF MigInv, DoneIsDone
    <3> QED BY <3>3, <3>4, <3>5, <3>6 DEF MigInv
  <2>3. CASE backup.status = "partial"
    <3>1. leave("failed") /\ UNCHANGED backup
      BY <1>1, <2>3 DEF ensure_backup
    <3>2. /\ migration' \in MigrationRec /\ migration'.step = "idle"
          /\ migration'.todo = {} /\ migration'.items = {} /\ report' = "failed"
      BY <3>1, Goes DEF MigInv
    <3>3. history' \in [units : [Native -> UnitStates], complete : BOOLEAN,
                        runs : 0..MaxMigrations]
      BY <1>0 DEF MigInv, MigrationTypes
    <3> QED BY <1>0, <3>1, <3>2, <3>3, EndsOpen
  <2>4. CASE backup.status = "none"
    <3>1. backup' = [backup EXCEPT !.status = "partial"] /\ proceed("copy", migration.todo)
      BY <1>1, <2>4 DEF ensure_backup
    <3>2. /\ migration' \in MigrationRec /\ migration'.step = "copy"
          /\ migration'.todo = migration.todo /\ migration'.items = migration.items
          /\ report' = report
      BY <3>1, <1>a, Goes DEF MigInv
    <3>3. /\ backup' \in [status : {"none", "partial", "complete"}, source : SUBSET Written,
                          external : [Native -> UnitStates]]
          /\ backup'.status = "partial"
      BY <3>1 DEF MigInv, MigrationTypes
    <3>4. MigrationTypes'
      BY <1>0, <3>2, <3>3 DEF MigInv, MigrationTypes
    <3>5. UnitsBackedUp'
      BY <1>0, <2>4, <3>2, <3>3 DEF MigInv, UnitsBackedUp
    <3>6. RunKnows'
      BY <1>0, <2>1, <3>2, <3>3 DEF MigInv, RunKnows
    <3>7. DoneIsDone'
      BY <1>0, <3>2 DEF MigInv, DoneIsDone
    <3> QED BY <3>4, <3>5, <3>6, <3>7 DEF MigInv
  <2> QED
    BY <2>2, <2>3, <2>4 DEF MigInv, MigrationTypes
<1>2. CASE copy_tree
  <2>1. /\ migration.step = "copy" /\ proceed("mark", migration.todo)
        /\ backup' = [backup EXCEPT
                    !.source = source,
                    !.external = [n \in Native |-> IF n \in migration.todo
                                                   THEN native[n] ELSE "none"]]
    BY <1>2 DEF copy_tree
  <2>2. /\ migration' \in MigrationRec /\ migration'.step = "mark"
        /\ migration'.todo = migration.todo /\ migration'.items = migration.items
        /\ report' = report
    BY <2>1, <1>a, Goes DEF MigInv
  <2>3. backup.status = "partial" /\ migration.todo = migration.items
    BY <2>1 DEF MigInv, RunKnows
  <2>4. PICK e : e = [n \in Native |-> IF n \in migration.todo THEN native[n] ELSE "none"]
    OBVIOUS
  <2>5. e \in [Native -> UnitStates]
    BY <2>4 DEF MigInv, MigrationTypes, UnitStates
  <2>6. /\ backup' \in [status : {"none", "partial", "complete"}, source : SUBSET Written,
                        external : [Native -> UnitStates]]
        /\ backup'.status = "partial" /\ backup'.source = source /\ backup'.external = e
    BY <2>1, <2>3, <2>4, <2>5 DEF MigInv, MigrationTypes
  <2>7. MigrationTypes'
    BY <1>0, <2>2, <2>6 DEF MigInv, MigrationTypes
  <2>8. \A n \in Native : native[n] = history.units[n]
    BY <2>3 DEF MigInv, UnitsBackedUp
  <2>9. WasLegacy => \A n \in Native : e[n] = history.units[n]
    <3>1. WasLegacy => legacy_units
      BY <2>8 DEF WasLegacy, legacy_units
    <3>2. legacy_units => Native \subseteq migration.todo
      BY <2>1, <2>3 DEF MigInv, RunKnows
    <3> QED BY <3>1, <3>2, <2>4, <2>8
  <2>10. UnitsBackedUp'
    BY <1>0, <2>3, <2>6, <2>8, <2>9 DEF MigInv, UnitsBackedUp
  <2>11. RunKnows'
    BY <1>0, <2>1, <2>2, <2>6 DEF MigInv, RunKnows
  <2>12. DoneIsDone'
    BY <1>0, <2>2 DEF MigInv, DoneIsDone
  <2> QED BY <2>7, <2>10, <2>11, <2>12 DEF MigInv
<1>3. CASE mark_backup
  <2>1. /\ migration.step = "mark" /\ proceed("state", migration.todo)
        /\ backup' = [backup EXCEPT !.status = "complete"]
    BY <1>3 DEF mark_backup
  <2>2. /\ migration' \in MigrationRec /\ migration'.step = "state"
        /\ migration'.todo = migration.todo /\ migration'.items = migration.items
        /\ report' = report
    BY <2>1, <1>a, Goes DEF MigInv
  <2>3. /\ backup' \in [status : {"none", "partial", "complete"}, source : SUBSET Written,
                        external : [Native -> UnitStates]]
        /\ backup'.status = "complete" /\ backup'.source = backup.source
        /\ backup'.external = backup.external
    BY <2>1 DEF MigInv, MigrationTypes
  <2>4. MigrationTypes'
    BY <1>0, <2>2, <2>3 DEF MigInv, MigrationTypes
  <2>5. UnitsBackedUp'
    BY <1>0, <2>1, <2>3 DEF MigInv, UnitsBackedUp
  <2>6. RunKnows'
    BY <1>0, <2>1, <2>2, <2>3 DEF MigInv, RunKnows
  <2>7. DoneIsDone'
    BY <1>0, <2>2 DEF MigInv, DoneIsDone
  <2> QED BY <2>4, <2>5, <2>6, <2>7 DEF MigInv
<1>4. CASE clear_backup
  <2>1. /\ migration.step = "idle" /\ backup.status = "partial" /\ backup' = NoBackup
        /\ UNCHANGED <<migration, report>>
    BY <1>4 DEF clear_backup
  <2>2. /\ backup' \in [status : {"none", "partial", "complete"}, source : SUBSET Written,
                        external : [Native -> UnitStates]]
        /\ backup'.status = "none"
    BY <2>1 DEF NoBackup, UnitStates
  <2>3. MigrationTypes'
    BY <1>0, <2>1, <2>2 DEF MigInv, MigrationTypes
  <2>4. UnitsBackedUp'
    BY <1>0, <2>1, <2>2 DEF MigInv, UnitsBackedUp
  <2>5. RunKnows'
    BY <1>0, <2>1, <2>2 DEF MigInv, RunKnows
  <2>6. DoneIsDone'
    BY <1>0, <2>1 DEF MigInv, DoneIsDone
  <2> QED BY <2>3, <2>4, <2>5, <2>6 DEF MigInv
<1> QED
  BY <1>1, <1>2, <1>3, <1>4

\* The state file begins, and an item is skipped or left to the user.
LEMMA StateKept ==
    ASSUME MigInv, write_state
    PROVE  MigInv'
<1>0. /\ UNCHANGED <<roots, source, native, destination, backup, history>>
      /\ WasLegacy' = WasLegacy /\ secrets_detected' = secrets_detected
      /\ legacy_units' = legacy_units
  BY DEF write_state, WasLegacy, secrets_detected, legacy_units
<1>1. /\ migration.step = "state" /\ proceed("items", migration.todo)
      /\ statefile' = IF statefile = None THEN [i \in Items |-> ""] ELSE statefile
  BY IdsAreItems DEF write_state
<1>2. /\ migration' \in MigrationRec /\ migration'.step = "items"
      /\ migration'.todo = migration.todo /\ migration'.items = migration.items
      /\ report' = report
  BY <1>1, Goes DEF MigInv, MigrationTypes
<1>3. statefile' \in StateFiles
  BY <1>1 DEF MigInv, MigrationTypes, StateFiles, ItemStatus
<1>4. MigrationTypes'
  BY <1>0, <1>2, <1>3 DEF MigInv, MigrationTypes
<1>5. UnitsBackedUp'
  BY <1>0, <1>1, <1>2 DEF MigInv, UnitsBackedUp
<1>6. RunKnows'
  BY <1>0, <1>1, <1>2, <1>3 DEF MigInv, RunKnows
<1>7. DoneIsDone'
  <2>1. None \notin StateFiles
    BY MigrationAssumption, IdsAreItems DEF StateFiles
  <2>2. CASE statefile = None
    <3>1. statefile' = [i \in Items |-> ""] /\ history.complete # TRUE
      BY <1>1, <2>1, <2>2 DEF MigInv, DoneIsDone
    <3>2. \A i \in Items : statefile'[i] = ""
      BY <3>1
    <3>3. report # "complete"
      BY <3>1 DEF MigInv, DoneIsDone
    <3> QED BY <3>1, <3>2, <3>3, <1>0, <1>2, Kinds DEF DoneIsDone
  <2>3. CASE statefile # None
    BY <1>0, <1>1, <1>2, <2>3 DEF MigInv, DoneIsDone
  <2> QED BY <2>2, <2>3
<1> QED
  BY <1>4, <1>5, <1>6, <1>7 DEF MigInv

\* Skipping an artifact, or leaving the secret store to the user, keeps it.
LEMMA SkipKept ==
    ASSUME MigInv, migration.step = "items", migration.todo # {},
           UNCHANGED <<roots, source, native, destination, backup, history>>,
           proceed("items", migration.todo \ {next_item}),
           \/ UNCHANGED statefile
           \/ /\ next_item = "secret-store" /\ ~skip_item
              /\ statefile' = [statefile EXCEPT ![next_item] = "manual"]
    PROVE  MigInv'
<1>0. /\ WasLegacy' = WasLegacy /\ secrets_detected' = secrets_detected
      /\ legacy_units' = legacy_units
  BY DEF WasLegacy, secrets_detected, legacy_units
<1>1. next_item \in migration.todo /\ next_item \in migration.items /\ next_item \in Items
  BY ItemToDo DEF MigInv, MigrationTypes, MigrationRec
<1>2. /\ migration' \in MigrationRec /\ migration'.step = "items"
      /\ migration'.todo = migration.todo \ {next_item} /\ migration'.items = migration.items
      /\ report' = report
  BY Goes DEF MigInv, MigrationTypes
<1>3. statefile \in StateFiles
  BY DEF MigInv, RunKnows
<1>4. /\ statefile' \in StateFiles
      /\ \A i \in Items : statefile'[i] = "done" <=> statefile[i] = "done"
  BY <1>1, <1>3 DEF StateFiles, ItemStatus, skip_item
<1>5. MigrationTypes'
  BY <1>2, <1>4 DEF MigInv, MigrationTypes
<1>6. UnitsBackedUp'
  BY <1>0, <1>2 DEF MigInv, UnitsBackedUp
<1>7. RunKnows'
  BY <1>0, <1>2, <1>4 DEF MigInv, RunKnows
<1>8. DoneIsDone'
  <2>1. migration.items \subseteq Items /\ source \subseteq Items
    BY Kinds DEF MigInv, MigrationTypes, MigrationRec
  <2> QED BY <1>0, <1>2, <1>3, <1>4, <2>1, Kinds DEF MigInv, DoneIsDone
<1> QED
  BY <1>5, <1>6, <1>7, <1>8 DEF MigInv

\* An item is written; no run that follows a complete one comes here.
LEMMA WriteKept ==
    ASSUME MigInv, migration.step = "items", migration.todo # {}, ~skip_item,
           next_item # "secret-store",
           native' = [n \in Native |-> IF n = next_item THEN "own" ELSE native[n]],
           destination' = [i \in Written |-> IF i = next_item THEN "migrated" ELSE destination[i]],
           proceed("done", migration.todo),
           UNCHANGED <<roots, source, backup, statefile, history>>
    PROVE  MigInv' /\ history.complete = FALSE
<1>1. next_item \in migration.todo /\ next_item \in migration.items /\ next_item \in Items
  BY ItemToDo DEF MigInv, MigrationTypes, MigrationRec
<1>2. /\ migration' \in MigrationRec /\ migration'.step = "done"
      /\ migration'.todo = migration.todo /\ migration'.items = migration.items
      /\ report' = report
  BY Goes DEF MigInv, MigrationTypes
<1>3. statefile \in StateFiles /\ backup.status = "complete"
  BY DEF MigInv, RunKnows
<1>4. history.complete = FALSE
  BY <1>1 DEF MigInv, DoneIsDone, skip_item, MigrationTypes
<1>5. /\ native' \in [Native -> UnitStates]
      /\ destination' \in [Written -> {"none", "migrated", "edited"}]
  BY DEF MigInv, MigrationTypes, UnitStates
<1>6. MigrationTypes'
  BY <1>2, <1>5 DEF MigInv, MigrationTypes
<1>7. WasLegacy' = WasLegacy /\ secrets_detected' = secrets_detected
  BY DEF WasLegacy, secrets_detected
<1>8. legacy_units' => legacy_units
  BY DEF legacy_units
<1>9. \A n \in Native : n = next_item => WasLegacy
  BY <1>1 DEF MigInv, RunKnows
<1>10. UnitsBackedUp'
  BY <1>2, <1>3, <1>7, <1>9 DEF MigInv, UnitsBackedUp
<1>11. next_item' = next_item
  BY <1>2 DEF next_item
<1>12. RunKnows'
  BY <1>1, <1>2, <1>3, <1>7, <1>8, <1>11 DEF MigInv, RunKnows
<1>13. DoneIsDone'
  <2>1. report # "complete"
    BY <1>4 DEF MigInv, DoneIsDone
  <2>2. /\ \A i \in Written : destination[i] # "none" => destination'[i] # "none"
        /\ \A n \in Native : native[n] = "own" => native'[n] = "own"
    OBVIOUS
  <2> QED BY <1>2, <1>3, <1>4, <2>1, <2>2 DEF MigInv, DoneIsDone
<1> QED
  BY <1>4, <1>6, <1>10, <1>12, <1>13 DEF MigInv

\* Migrating an artifact keeps it, and changes nothing after a complete run.
LEMMA ItemKept ==
    ASSUME MigInv, migrate_item
    PROVE  MigInv' /\ (history.complete = TRUE => UNCHANGED <<native, destination>>)
<1>0. /\ migration.step = "items" /\ migration.todo # {}
      /\ UNCHANGED <<roots, source, backup, history>>
  BY DEF migrate_item
<1>1. CASE skip_item
  <2>1. proceed("items", migration.todo \ {next_item}) /\ UNCHANGED <<native, destination, statefile>>
    BY <1>1 DEF migrate_item
  <2> QED BY <1>0, <2>1, SkipKept
<1>2. CASE ~skip_item /\ next_item = "secret-store"
  <2>1. /\ statefile' = [statefile EXCEPT ![next_item] = "manual"]
        /\ proceed("items", migration.todo \ {next_item}) /\ UNCHANGED <<native, destination>>
    BY <1>2 DEF migrate_item
  <2> QED BY <1>0, <1>2, <2>1, SkipKept
<1>3. CASE ~skip_item /\ next_item # "secret-store"
  <2>1. /\ native' = [n \in Native |-> IF n = next_item THEN "own" ELSE native[n]]
        /\ destination' = [i \in Written |-> IF i = next_item THEN "migrated" ELSE destination[i]]
        /\ proceed("done", migration.todo) /\ UNCHANGED statefile
    BY <1>3 DEF migrate_item
  <2>2. MigInv' /\ history.complete = FALSE
    BY <1>0, <1>3, <2>1, WriteKept
  <2> QED BY <2>2
<1> QED
  BY <1>1, <1>2, <1>3

\* Marking an artifact in the state file keeps it.
LEMMA MarkKept ==
    ASSUME MigInv, mark_item
    PROVE  MigInv'
<1>0. /\ UNCHANGED <<roots, source, native, destination, backup, history>>
      /\ WasLegacy' = WasLegacy /\ secrets_detected' = secrets_detected
      /\ legacy_units' = legacy_units
  BY DEF mark_item, WasLegacy, secrets_detected, legacy_units
<1>1. /\ migration.step = "done" /\ proceed("items", migration.todo \ {next_item})
      /\ statefile' = [statefile EXCEPT ![next_item] = "done"]
  BY DEF mark_item
<1>2. next_item \in migration.todo /\ next_item \in Items
  BY <1>1, ItemToDo DEF MigInv, RunKnows, MigrationTypes, MigrationRec
<1>3. /\ migration' \in MigrationRec /\ migration'.step = "items"
      /\ migration'.todo = migration.todo \ {next_item} /\ migration'.items = migration.items
      /\ report' = report
  BY <1>1, Goes DEF MigInv, MigrationTypes
<1>4. /\ statefile \in StateFiles /\ next_item # "secret-store"
      /\ (next_item \in Written => destination[next_item] # "none")
      /\ (next_item \in Native => native[next_item] = "own")
  BY <1>1 DEF MigInv, RunKnows
<1>5. /\ statefile' \in StateFiles
      /\ \A i \in Items : statefile'[i] = "done" <=> (statefile[i] = "done" \/ i = next_item)
  BY <1>1, <1>2, <1>4 DEF StateFiles, ItemStatus
<1>6. MigrationTypes'
  BY <1>0, <1>3, <1>5 DEF MigInv, MigrationTypes
<1>7. UnitsBackedUp'
  BY <1>0, <1>3 DEF MigInv, UnitsBackedUp
<1>8. RunKnows'
  BY <1>0, <1>1, <1>3, <1>5 DEF MigInv, RunKnows
<1>9. DoneIsDone'
  <2>1. migration.items \subseteq Items /\ source \subseteq Items
    BY Kinds DEF MigInv, MigrationTypes, MigrationRec
  <2> QED BY <1>0, <1>3, <1>4, <1>5, <2>1, Kinds DEF MigInv, DoneIsDone
<1> QED
  BY <1>6, <1>7, <1>8, <1>9 DEF MigInv

\* The end of a run: only what is taken over counts as complete.
LEMMA EndKept ==
    ASSUME MigInv, end_migration
    PROVE  MigInv'
<1>0. /\ UNCHANGED <<roots, source, native, destination, backup, statefile>>
      /\ migration.step = "items"
      /\ leave(IF is_complete(migration.items) THEN "complete" ELSE "incomplete")
      /\ history' = [history EXCEPT !.complete = @ \/ is_complete(migration.items)]
  BY DEF end_migration
<1>1. /\ history' \in [units : [Native -> UnitStates], complete : BOOLEAN,
                       runs : 0..MaxMigrations]
      /\ history'.units = history.units
      /\ history'.complete = (history.complete \/ is_complete(migration.items))
  BY <1>0 DEF MigInv, MigrationTypes, is_complete
<1>2. CASE ~is_complete(migration.items)
  <2>1. leave("incomplete") /\ history'.complete = history.complete
    BY <1>0, <1>1, <1>2 DEF MigInv, MigrationTypes
  <2>2. /\ migration' \in MigrationRec /\ migration'.step = "idle"
        /\ migration'.todo = {} /\ migration'.items = {} /\ report' = "incomplete"
    BY <2>1, Goes DEF MigInv
  <2> QED BY <1>0, <1>1, <2>1, <2>2, EndsOpen
<1>3. CASE is_complete(migration.items)
  <2>1. leave("complete") /\ history'.complete = TRUE
    BY <1>0, <1>1, <1>3 DEF MigInv, MigrationTypes
  <2>2. /\ migration' \in MigrationRec /\ migration'.step = "idle"
        /\ migration'.todo = {} /\ migration'.items = {} /\ report' = "complete"
    BY <2>1, Goes DEF MigInv
  <2>3. /\ WasLegacy' = WasLegacy /\ secrets_detected' = secrets_detected
        /\ legacy_units' = legacy_units
    BY <1>0, <1>1 DEF WasLegacy, secrets_detected, legacy_units
  <2>4. MigrationTypes'
    BY <1>0, <1>1, <2>2 DEF MigInv, MigrationTypes
  <2>5. UnitsBackedUp'
    BY <1>0, <1>1, <2>2, <2>3 DEF MigInv, UnitsBackedUp
  <2>6. RunKnows'
    BY <1>0, <2>2 DEF RunKnows
  <2>7. /\ statefile \in StateFiles /\ source \subseteq migration.items
        /\ (secrets_detected => "secret-store" \in migration.items)
        /\ (legacy_units => Native \subseteq migration.items)
    BY <1>0 DEF MigInv, RunKnows
  <2>8. /\ \A i \in migration.items : statefile[i] = "done"
        /\ \A n \in Native : statefile[n] = "done" => native[n] = "own"
        /\ statefile["secret-store"] # "done"
    BY <1>3, <2>7 DEF is_complete, MigInv, DoneIsDone
  <2>9. ~secrets_detected /\ ~legacy_units /\ \A i \in source : statefile[i] = "done"
    BY <2>7, <2>8 DEF legacy_units
  <2>10. DoneIsDone'
    BY <1>0, <2>1, <2>2, <2>3, <2>7, <2>9 DEF MigInv, DoneIsDone
  <2> QED BY <2>4, <2>5, <2>6, <2>10 DEF MigInv
<1> QED
  BY <1>2, <1>3

\* A failure or a crash in the middle keeps it.
LEMMA BreakKept ==
    ASSUME MigInv, break_off_migration
    PROVE  MigInv'
<1>1. /\ UNCHANGED <<roots, source, native, destination, backup, statefile, history>>
      /\ leave("failed")
  BY DEF break_off_migration
<1>2. /\ migration' \in MigrationRec /\ migration'.step = "idle"
      /\ migration'.todo = {} /\ migration'.items = {} /\ report' = "failed"
  BY <1>1, Goes DEF MigInv
<1>3. history' \in [units : [Native -> UnitStates], complete : BOOLEAN,
                    runs : 0..MaxMigrations]
  BY <1>1 DEF MigInv, MigrationTypes
<1> QED
  BY <1>1, <1>2, <1>3, EndsOpen

\* So does the user's own edit of a migrated file.
LEMMA EditKept ==
    ASSUME MigInv, NEW i \in Written, edit(i)
    PROVE  MigInv'
<1>0. /\ UNCHANGED <<roots, source, native, backup, statefile, migration, report, history>>
      /\ migration.step = "idle" /\ destination[i] = "migrated"
      /\ destination' = [destination EXCEPT ![i] = "edited"]
  BY DEF edit
<1>1. /\ WasLegacy' = WasLegacy /\ secrets_detected' = secrets_detected
      /\ legacy_units' = legacy_units
  BY <1>0 DEF WasLegacy, secrets_detected, legacy_units
<1>2. /\ destination' \in [Written -> {"none", "migrated", "edited"}]
      /\ \A j \in Written : destination'[j] = "none" <=> destination[j] = "none"
  BY <1>0 DEF MigInv, MigrationTypes
<1>3. MigrationTypes'
  BY <1>0, <1>2 DEF MigInv, MigrationTypes
<1>4. UnitsBackedUp'
  BY <1>0, <1>1, <1>2 DEF MigInv, UnitsBackedUp
<1>5. RunKnows'
  BY <1>0 DEF MigInv, RunKnows
<1>6. DoneIsDone'
  BY <1>0, <1>1, <1>2 DEF MigInv, DoneIsDone
<1> QED
  BY <1>3, <1>4, <1>5, <1>6 DEF MigInv

\* Every step keeps the invariant, and a run after a complete one writes nothing.
LEMMA MigrationSteps ==
    ASSUME MigInv, [MigrationNext]_migration_vars
    PROVE  /\ MigInv'
           /\ history.complete /\ migration.step # "idle" => UNCHANGED <<native, destination>>
<1>1. ASSUME NEW dry \in BOOLEAN, NEW copy_secrets \in BOOLEAN,
             begin_migration(dry, copy_secrets)
      PROVE  MigInv' /\ UNCHANGED <<native, destination>>
  BY <1>1, BeginKept DEF begin_migration
<1>2. ensure_backup \/ copy_tree \/ mark_backup \/ clear_backup =>
        MigInv' /\ UNCHANGED <<native, destination>>
  BY BackupKept DEF ensure_backup, copy_tree, mark_backup, clear_backup
<1>3. write_state => MigInv' /\ UNCHANGED <<native, destination>>
  BY StateKept DEF write_state
<1>4. migrate_item => MigInv' /\ (history.complete = TRUE => UNCHANGED <<native, destination>>)
  BY ItemKept
<1>5. mark_item => MigInv' /\ UNCHANGED <<native, destination>>
  BY MarkKept DEF mark_item
<1>6. end_migration => MigInv' /\ UNCHANGED <<native, destination>>
  BY EndKept DEF end_migration
<1>7. break_off_migration => MigInv' /\ UNCHANGED <<native, destination>>
  BY BreakKept DEF break_off_migration
<1>8. ASSUME NEW i \in Written, edit(i)
      PROVE  MigInv' /\ migration.step = "idle"
  BY <1>8, EditKept DEF edit
<1>9. UNCHANGED migration_vars => MigInv' /\ UNCHANGED <<native, destination>>
  BY DEF migration_vars, MigInv, MigrationTypes, UnitsBackedUp, RunKnows, DoneIsDone,
         WasLegacy, secrets_detected, legacy_units, next_item
<1>10. history.complete \in BOOLEAN
  BY DEF MigInv, MigrationTypes
<1> QED
  BY <1>1, <1>2, <1>3, <1>4, <1>5, <1>6, <1>7, <1>8, <1>9, <1>10 DEF MigrationNext

\* The originals are kept, a reported completion is true.
LEMMA MigrationMeans == MigInv => MigrationTypeOK /\ OriginalsKept /\ CompleteMeansMigrated
<1> SUFFICES ASSUME MigInv PROVE MigrationTypeOK /\ OriginalsKept /\ CompleteMeansMigrated
  OBVIOUS
<1>1. MigrationTypeOK
  BY IdsAreItems DEF MigInv, MigrationTypes, MigrationTypeOK, MigrationRec, UnitStates, StateFiles
<1>2. OriginalsKept
  BY DEF MigInv, UnitsBackedUp, OriginalsKept
<1>3. CompleteMeansMigrated
  <2> SUFFICES ASSUME report = "complete" PROVE CompleteMeansMigrated
    BY DEF CompleteMeansMigrated
  <2>1. /\ statefile \in StateFiles /\ ~secrets_detected /\ ~legacy_units
        /\ \A i \in source : statefile[i] = "done"
    BY DEF MigInv, DoneIsDone
  <2>2. \A i \in source : i \in Written
    BY DEF MigInv, MigrationTypes
  <2>3. \A i \in Written : statefile[i] = "done" => destination[i] # "none"
    BY <2>1 DEF MigInv, DoneIsDone
  <2> QED BY <2>1, <2>2, <2>3 DEF CompleteMeansMigrated, legacy_units
<1> QED
  BY <1>1, <1>2, <1>3

\* However often a migration is cut off and started again, from whatever the
\* source and the units are: the originals are kept, a completion that is
\* reported is true, and no run after it writes anything (migration.rs, run).
THEOREM MigrationKept ==
    MigrationSpec => /\ [](MigrationTypeOK /\ OriginalsKept /\ CompleteMeansMigrated)
                     /\ CompleteIsFinal
<1>1. MigrationInit => MigInv
  BY MigInitInv
<1>2. MigInv /\ [MigrationNext]_migration_vars => MigInv'
  BY MigrationSteps
<1>3. MigInv /\ [MigrationNext]_migration_vars =>
        [history.complete /\ migration.step # "idle"
           => UNCHANGED <<native, destination>>]_migration_vars
  BY MigrationSteps
<1>4. MigInv => MigrationTypeOK /\ OriginalsKept /\ CompleteMeansMigrated
  BY MigrationMeans
<1> QED
  BY <1>1, <1>2, <1>3, <1>4, PTL DEF MigrationSpec, CompleteIsFinal

-----------------------------------------------------------------------------
(***************************************************************************)
(* Installations of the scheduled jobs under a job manager.                *)
(***************************************************************************)

Names == ToSet(ShortNames)
NativeFiles == ToSet(native_files(platform))

\* The files of the generators are those of the jobs, and there are the files
\* by which status knows each job.
LEMMA LaunchdFiles ==
    /\ launchd_generate \in Seq(ToSet(launchd_generate))
    /\ \A f \in ToSet(launchd_generate) : f[1] \in Names
    /\ \A s \in Names : <<s, ".plist">> \in ToSet(launchd_generate)
<1>1. ShortNames \in Seq(STRING)
  BY SchedulerAssumption
<1>2. launchd_generate = [i \in 1..Len(ShortNames) |-> <<ShortNames[i], ".plist">>]
  BY <1>1 DEF launchd_generate
<1>3. launchd_generate \in Seq(ToSet(launchd_generate))
  BY <1>1, <1>2 DEF ToSet
<1>4. \A f \in ToSet(launchd_generate) : f[1] \in Names
  BY <1>1, <1>2 DEF ToSet, Names
<1>5. \A s \in Names : <<s, ".plist">> \in ToSet(launchd_generate)
  BY <1>1, <1>2 DEF ToSet, Names
<1> QED
  BY <1>3, <1>4, <1>5

\* systemd gets a timer for every name, and files for these names only.
LEMMA SystemdFiles ==
    /\ systemd_generate \in Seq(ToSet(systemd_generate))
    /\ \A f \in ToSet(systemd_generate) : f[1] \in Names
    /\ \A s \in Names : <<s, ".timer">> \in ToSet(systemd_generate)
<1> DEFINE n == Len(ShortNames)
<1>1. ShortNames \in Seq(STRING) /\ n \in Nat /\ DOMAIN ShortNames = 1..n
  BY SchedulerAssumption
<1>2. \A i \in 1..(2 * n) : (i + 1) \div 2 \in 1..n
  BY <1>1
<1>3. \A k \in 1..n : 2 * k \in 1..(2 * n) /\ (2 * k + 1) \div 2 = k /\ (2 * k) % 2 # 1
  BY <1>1
<1>4. systemd_generate \in Seq(ToSet(systemd_generate))
  <2>1. DOMAIN systemd_generate = 1..(2 * n) /\ 2 * n \in Nat
    BY <1>1 DEF systemd_generate
  <2>2. systemd_generate = [i \in 1..(2 * n) |-> systemd_generate[i]]
    BY DEF systemd_generate
  <2>3. \A i \in 1..(2 * n) : systemd_generate[i] \in ToSet(systemd_generate)
    BY <2>1 DEF ToSet
  <2> QED BY <2>1, <2>2, <2>3
<1>5. \A f \in ToSet(systemd_generate) : f[1] \in Names
  <2> SUFFICES ASSUME NEW i \in 1..(2 * n)
               PROVE  systemd_generate[i][1] \in Names
    BY DEF ToSet, systemd_generate
  <2>1. systemd_generate[i][1] = ShortNames[(i + 1) \div 2]
    BY DEF systemd_generate
  <2> QED BY <1>1, <1>2, <2>1 DEF Names, ToSet
<1>6. \A s \in Names : <<s, ".timer">> \in ToSet(systemd_generate)
  <2> SUFFICES ASSUME NEW k \in 1..n
               PROVE  <<ShortNames[k], ".timer">> \in ToSet(systemd_generate)
    BY <1>1 DEF Names, ToSet
  <2>1. systemd_generate[2 * k] = <<ShortNames[k], ".timer">>
    BY <1>3 DEF systemd_generate
  <2>2. 2 * k \in DOMAIN systemd_generate
    BY <1>3 DEF systemd_generate
  <2> QED BY <2>1, <2>2 DEF ToSet
<1> QED
  BY <1>4, <1>5, <1>6

\* Every native file belongs to a scheduled name, and each name has its status unit.
LEMMA Files ==
    ASSUME platform \in Platforms
    PROVE  /\ native_files(platform) \in Seq(NativeFiles) /\ NativeFiles \subseteq Unit
           /\ \A f \in Unit : f[1] \in Names
           /\ platform # "cron" => \A s \in Names : status_unit_name(s) \in NativeFiles
<1>1. /\ ToSet(launchd_generate) \subseteq Unit /\ ToSet(systemd_generate) \subseteq Unit
      /\ \A f \in Unit : f[1] \in Names
  BY LaunchdFiles, SystemdFiles DEF Unit
<1>2. CASE platform = "launchd"
  <2>1. native_files(platform) = launchd_generate
    BY <1>2 DEF native_files
  <2>2. \A s : status_unit_name(s) = <<s, ".plist">>
    BY <1>2 DEF status_unit_name
  <2> QED BY <1>1, <2>1, <2>2, LaunchdFiles DEF NativeFiles
<1>3. CASE platform = "systemd"
  <2>1. native_files(platform) = systemd_generate
    BY <1>3 DEF native_files
  <2>2. \A s : status_unit_name(s) = <<s, ".timer">>
    BY <1>3 DEF status_unit_name
  <2> QED BY <1>1, <2>1, <2>2, SystemdFiles DEF NativeFiles
<1>4. CASE platform = "cron"
  <2>1. native_files(platform) = <<>>
    BY <1>4 DEF native_files
  <2>2. NativeFiles = {}
    BY <2>1 DEF NativeFiles, ToSet
  <2>3. \A S : <<>> \in Seq(S)
    OBVIOUS
  <2>4. native_files(platform) \in Seq(NativeFiles) /\ NativeFiles \subseteq Unit
    BY <2>1, <2>2, <2>3
  <2> QED BY <1>1, <1>4, <2>4
<1> QED
  BY <1>2, <1>3, <1>4 DEF Platforms

\* A sequence's elements are its head and those of its tail.
LEMMA HeadAndTail ==
    ASSUME NEW S, NEW s \in Seq(S), s # <<>>
    PROVE  /\ Tail(s) \in Seq(S) /\ Head(s) \in S
           /\ ToSet(s) = {Head(s)} \cup ToSet(Tail(s))
<1>1. Tail(s) \in Seq(S) /\ Head(s) \in S /\ Head(s) = s[1] /\ Len(s) > 0
  OBVIOUS
<1>2. /\ DOMAIN s = 1..Len(s) /\ DOMAIN Tail(s) = 1..(Len(s) - 1)
      /\ \A i \in 1..(Len(s) - 1) : Tail(s)[i] = s[i + 1]
  BY <1>1
<1>3. ToSet(s) \subseteq {Head(s)} \cup ToSet(Tail(s))
  <2> SUFFICES ASSUME NEW i \in 1..Len(s) PROVE s[i] \in {Head(s)} \cup ToSet(Tail(s))
    BY <1>2 DEF ToSet
  <2>1. CASE i = 1
    BY <1>1, <2>1
  <2>2. CASE i # 1
    <3>1. i - 1 \in 1..(Len(s) - 1) /\ s[i] = Tail(s)[i - 1]
      BY <1>1, <1>2, <2>2
    <3> QED BY <1>2, <3>1 DEF ToSet
  <2> QED BY <2>1, <2>2
<1>4. {Head(s)} \cup ToSet(Tail(s)) \subseteq ToSet(s)
  BY <1>1, <1>2 DEF ToSet
<1> QED
  BY <1>1, <1>3, <1>4

\* The empty sequence and the empty set of units correspond.
LEMMA NothingInEmpty == ToSet(<<>>) = {} /\ SetToSeq({}) = <<>>
<1>1. Cardinality({}) = 0
  BY FS_EmptySet
<1>2. SetToSeq({}) = CHOOSE f \in [1..0 -> {}] : IsInjective(f)
  BY <1>1 DEF SetToSeq
<1>3. \A f \in [1..0 -> {}] : f = <<>>
  OBVIOUS
<1>4. <<>> \in [1..0 -> {}] /\ IsInjective(<<>>)
  BY DEF IsInjective
<1>5. SetToSeq({}) = <<>>
  BY <1>2, <1>3, <1>4
<1> QED
  BY <1>5 DEF ToSet

CommandRec(t) ==
    [step : {"idle", "write", "remove", "units", "load", "cron", "unload", "uncron"},
     replace : BOOLEAN, legacy : SUBSET Unit, todo : {t}]

Foreign(f) == units[f] \in {"python", "other"}
Installed == /\ wrappers = TRUE
             /\ \A f \in NativeFiles : units[f] = "own"

SchedTypes ==
    /\ platform \in Platforms
    /\ units \in [Unit -> Writer]
    /\ installer \in CommandRec(installer.todo)
    /\ platform # "cron" => /\ crontab = <<>>
                            /\ installer.step \notin {"cron", "uncron"}
    /\ installer.step \in {"remove", "units", "load", "unload"} => platform # "cron"
    /\ installer.step # "idle" => verdict = "running"

\* How far the command under way has come.
Progress ==
    /\ installer.step \in {"remove", "units", "load"} => wrappers = TRUE
    /\ installer.step = "units" =>
         /\ installer.todo \in Seq(NativeFiles)
         /\ \A f \in NativeFiles : units[f] = "own" \/ f \in ToSet(installer.todo)
    /\ installer.step = "load" =>
         /\ installer.todo \in Seq(Names) /\ Installed
         /\ \A s \in Names : s \in loaded \/ s \in ToSet(installer.todo)
    /\ installer.step = "unload" =>
         /\ installer.todo \in Seq(Names)
         /\ \A f \in Unit : units[f] = "none" \/ f[1] \in ToSet(installer.todo)
         /\ \A s \in Names : s \notin loaded \/ s \in ToSet(installer.todo) \cup ignored

\* A command that was not asked to replace anything has found nothing foreign.
NothingForeign ==
    ~xdg /\ installer.replace = FALSE =>
      /\ installer.step \in {"write", "remove", "units"} =>
           \A f \in NativeFiles : ~Foreign(f)
      /\ installer.step = "write" => installer.legacy = {}
      /\ installer.step = "remove" => installer.todo = <<>>

\* What the last command reported.
Reported ==
    platform # "cron" =>
      /\ verdict = "installed" => Installed /\ Names \subseteq loaded
      /\ verdict = "removed" => /\ \A f \in Unit : units[f] = "none"
                                /\ \A s \in Names : s \notin loaded \/ s \in ignored

SchedInv == SchedTypes /\ Progress /\ NothingForeign /\ Reported

\* The invariant holds before the first installation.
LEMMA SchedInitInv == SchedInit => SchedInv
<1> SUFFICES ASSUME SchedInit PROVE SchedInv
  OBVIOUS
<1>1. /\ platform \in Platforms /\ units \in [Unit -> Writer] /\ verdict = "none"
      /\ installer = [step |-> "idle", replace |-> FALSE, legacy |-> {}, todo |-> <<>>]
      /\ (platform # "cron" => crontab = <<>>)
  BY DEF SchedInit, NoCommand
<1>2. installer \in CommandRec(installer.todo) /\ installer.step = "idle"
  BY <1>1 DEF CommandRec
<1>3. SchedTypes
  BY <1>1, <1>2 DEF SchedTypes
<1>4. Progress /\ NothingForeign /\ Reported
  BY <1>1, <1>2 DEF Progress, NothingForeign, Reported
<1> QED
  BY <1>3, <1>4 DEF SchedInv

\* Where a command goes, and where it ends.
LEMMA SchedGoes ==
    ASSUME SchedTypes
    PROVE  /\ \A step \in {"remove", "units", "load", "cron", "unload"} : \A todo :
                go_on(step, todo) =>
                  /\ installer' \in CommandRec(installer'.todo) /\ installer'.step = step
                  /\ installer'.todo = todo /\ installer'.replace = installer.replace
                  /\ installer'.legacy = installer.legacy
           /\ \A v : finish(v) =>
                  /\ installer' \in CommandRec(installer'.todo) /\ installer'.step = "idle"
                  /\ verdict' = v
<1>1. ASSUME NEW step \in {"remove", "units", "load", "cron", "unload"}, NEW todo,
             go_on(step, todo)
      PROVE  /\ installer' \in CommandRec(installer'.todo) /\ installer'.step = step
             /\ installer'.todo = todo /\ installer'.replace = installer.replace
             /\ installer'.legacy = installer.legacy
  <2>1. PICK r : r = [installer EXCEPT !.step = step, !.todo = todo]
    OBVIOUS
  <2>2. r \in CommandRec(todo) /\ r.step = step /\ r.todo = todo /\ r.replace = installer.replace
        /\ r.legacy = installer.legacy
    BY <2>1 DEF SchedTypes, CommandRec
  <2> QED BY <1>1, <2>1, <2>2 DEF go_on
<1>2. ASSUME NEW v, finish(v)
      PROVE  /\ installer' \in CommandRec(installer'.todo) /\ installer'.step = "idle"
             /\ verdict' = v
  BY <1>2 DEF finish, NoCommand, CommandRec
<1> QED
  BY <1>1, <1>2

\* The generated files depend on the platform alone.
LEMMA SameFiles ==
    ASSUME platform' = platform
    PROVE  NativeFiles' = NativeFiles
BY DEF NativeFiles, native_files

\* A command that ends, or fails, leaves the invariant to what it reports.
LEMMA SchedEnds ==
    ASSUME SchedInv, UNCHANGED platform, units' \in [Unit -> Writer],
           platform # "cron" => crontab' = <<>>,
           installer' \in CommandRec(installer'.todo), installer'.step = "idle", Reported'
    PROVE  SchedInv'
BY DEF SchedInv, SchedTypes, Progress, NothingForeign

\* Starting an installation keeps the invariant.
LEMMA BeginInstallKept ==
    ASSUME SchedInv, NEW replace \in BOOLEAN, begin_install(replace)
    PROVE  SchedInv'
<1>0. /\ installer.step = "idle" /\ UNCHANGED <<platform, xdg, units, loaded, crontab, wrappers>>
      /\ NativeFiles' = NativeFiles
  BY SameFiles DEF begin_install
<1>1. CASE scan_legacy_python_units # {} /\ ~replace
  <2>1. verdict' = "refused" /\ UNCHANGED installer
    BY <1>1 DEF begin_install
  <2>2. SchedTypes'
    BY <1>0, <2>1 DEF SchedInv, SchedTypes
  <2>3. Progress' /\ NothingForeign' /\ Reported'
    BY <1>0, <2>1 DEF Progress, NothingForeign, Reported
  <2> QED BY <2>2, <2>3 DEF SchedInv
<1>2. CASE ~(scan_legacy_python_units # {} /\ ~replace)
  <2>1. /\ installer' = [step |-> "write", replace |-> replace,
                         legacy |-> scan_legacy_python_units,
                         todo |-> <<>>]
        /\ verdict' = "running"
    BY <1>2 DEF begin_install
  <2>2. scan_legacy_python_units \subseteq Unit
    BY Files DEF scan_legacy_python_units, NativeFiles, SchedInv, SchedTypes
  <2>3. /\ installer' \in CommandRec(installer'.todo) /\ installer'.step = "write"
        /\ installer'.replace = replace /\ installer'.legacy = scan_legacy_python_units
    BY <2>1, <2>2 DEF CommandRec
  <2>4. SchedTypes'
    BY <1>0, <2>1, <2>3 DEF SchedInv, SchedTypes
  <2>5. Progress' /\ Reported'
    BY <2>1, <2>3 DEF Progress, Reported
  <2>6. NothingForeign'
    <3> SUFFICES ASSUME ~xdg, replace = FALSE
                 PROVE  scan_legacy_python_units = {} /\ \A f \in NativeFiles : ~Foreign(f)
      BY <1>0, <2>3 DEF NothingForeign, Foreign
    <3>1. scan_legacy_python_units = {}
      BY <1>2
    <3> QED BY <3>1 DEF scan_legacy_python_units, NativeFiles, Foreign, is_own_generated_unit
  <2> QED BY <2>4, <2>5, <2>6 DEF SchedInv
<1> QED
  BY <1>1, <1>2

\* Writing the wrapper scripts keeps it.
LEMMA WrappersKept ==
    ASSUME SchedInv, write_wrappers
    PROVE  SchedInv'
<1>0. /\ installer.step = "write" /\ UNCHANGED <<platform, xdg, units, loaded, crontab, verdict>>
      /\ NativeFiles' = NativeFiles /\ wrappers' = TRUE
      /\ go_on(IF platform = "cron" THEN "cron" ELSE "remove", SetToSeq(installer.legacy))
  BY SameFiles DEF write_wrappers
<1>1. PICK t : t = SetToSeq(installer.legacy)
  OBVIOUS
<1>2. PICK step : step = IF platform = "cron" THEN "cron" ELSE "remove"
  OBVIOUS
<1>3. /\ installer' \in CommandRec(installer'.todo) /\ installer'.step = step
      /\ installer'.todo = t /\ installer'.replace = installer.replace
  BY <1>0, <1>1, <1>2, SchedGoes DEF SchedInv
<1>4. verdict = "running"
  BY <1>0 DEF SchedInv, SchedTypes
<1>5. SchedTypes'
  BY <1>0, <1>2, <1>3, <1>4 DEF SchedInv, SchedTypes
<1>6. Progress' /\ Reported'
  BY <1>0, <1>2, <1>3, <1>4 DEF Progress, Reported
<1>7. NothingForeign'
  BY <1>0, <1>1, <1>2, <1>3, NothingInEmpty DEF SchedInv, NothingForeign, Foreign
<1> QED
  BY <1>5, <1>6, <1>7 DEF SchedInv

\* Removing old units keeps it, and removes none unless --replace was given.
LEMMA RemoveKept ==
    ASSUME SchedInv, remove_legacy
    PROVE  /\ SchedInv'
           /\ ~xdg /\ installer.replace = FALSE => UNCHANGED units
<1>0. /\ installer.step = "remove"
      /\ UNCHANGED <<platform, xdg, loaded, crontab, wrappers, verdict>>
      /\ NativeFiles' = NativeFiles /\ verdict = "running" /\ wrappers = TRUE
      /\ platform # "cron"
  BY SameFiles DEF remove_legacy, SchedInv, SchedTypes, Progress
<1>1. CASE installer.todo = <<>>
  <2>1. go_on("units", native_files(platform)) /\ UNCHANGED units
    BY <1>1 DEF remove_legacy
  <2>2. /\ installer' \in CommandRec(installer'.todo) /\ installer'.step = "units"
        /\ installer'.todo = native_files(platform) /\ installer'.replace = installer.replace
    BY <2>1, SchedGoes DEF SchedInv
  <2>3. /\ native_files(platform) \in Seq(NativeFiles)
        /\ NativeFiles = ToSet(native_files(platform))
    BY Files DEF NativeFiles, SchedInv, SchedTypes
  <2>4. SchedTypes'
    BY <1>0, <2>1, <2>2 DEF SchedInv, SchedTypes
  <2>5. Progress' /\ Reported'
    BY <1>0, <2>1, <2>2, <2>3 DEF Progress, Reported
  <2>6. NothingForeign'
    BY <1>0, <2>1, <2>2 DEF SchedInv, NothingForeign, Foreign
  <2> QED BY <2>1, <2>4, <2>5, <2>6 DEF SchedInv
<1>2. CASE installer.todo # <<>>
  <2>1. /\ units' = [units EXCEPT ![Head(installer.todo)] = "none"]
        /\ go_on("remove", Tail(installer.todo))
    BY <1>2 DEF remove_legacy
  <2>2. /\ installer' \in CommandRec(installer'.todo) /\ installer'.step = "remove"
        /\ installer'.replace = installer.replace
    BY <2>1, SchedGoes DEF SchedInv
  <2>3. xdg \/ installer.replace # FALSE
    BY <1>0, <1>2 DEF SchedInv, NothingForeign
  <2>4. units' \in [Unit -> Writer]
    BY <2>1 DEF SchedInv, SchedTypes, Writer
  <2>5. SchedTypes'
    BY <1>0, <2>2, <2>4 DEF SchedInv, SchedTypes
  <2>6. Progress' /\ Reported'
    BY <1>0, <2>2 DEF Progress, Reported
  <2>7. NothingForeign'
    BY <1>0, <2>2, <2>3 DEF NothingForeign
  <2> QED BY <2>3, <2>5, <2>6, <2>7 DEF SchedInv
<1> QED
  BY <1>1, <1>2

\* Writing units keeps it, and spares foreign ones unless --replace was given.
LEMMA UnitsKept ==
    ASSUME SchedInv, install_native_units
    PROVE  /\ SchedInv'
           /\ ~xdg /\ installer.replace = FALSE =>
                \A f \in Unit : Foreign(f) => units'[f] = units[f]
<1>0. /\ installer.step = "units"
      /\ UNCHANGED <<platform, xdg, loaded, crontab, wrappers, verdict>>
      /\ NativeFiles' = NativeFiles /\ verdict = "running" /\ wrappers = TRUE
      /\ platform # "cron" /\ installer.todo \in Seq(NativeFiles)
      /\ \A f \in NativeFiles : units[f] = "own" \/ f \in ToSet(installer.todo)
  BY SameFiles DEF install_native_units, SchedInv, SchedTypes, Progress
<1>1. CASE installer.todo = <<>>
  <2>1. go_on("load", ShortNames) /\ UNCHANGED units
    BY <1>1 DEF install_native_units
  <2>2. /\ installer' \in CommandRec(installer'.todo) /\ installer'.step = "load"
        /\ installer'.todo = ShortNames
    BY <2>1, SchedGoes DEF SchedInv
  <2>3. /\ ShortNames \in Seq(Names) /\ Names = ToSet(ShortNames)
    BY SchedulerAssumption DEF Names, ToSet
  <2>4. SchedTypes'
    BY <1>0, <2>1, <2>2 DEF SchedInv, SchedTypes
  <2>5. Installed'
    BY <1>0, <1>1, <2>1, NothingInEmpty DEF Installed
  <2>6. Progress' /\ Reported' /\ NothingForeign'
    BY <1>0, <2>2, <2>3, <2>5 DEF Progress, Reported, NothingForeign
  <2> QED BY <2>1, <2>4, <2>6 DEF SchedInv
<1>2. CASE installer.todo # <<>>
  <2>1. PICK f0 : f0 = Head(installer.todo)
    OBVIOUS
  <2>2. PICK t : t = Tail(installer.todo)
    OBVIOUS
  <2>3. /\ units' = [units EXCEPT ![f0] = "own"] /\ go_on("units", t)
    BY <1>2, <2>1, <2>2 DEF install_native_units
  <2>4. /\ installer' \in CommandRec(installer'.todo) /\ installer'.step = "units"
        /\ installer'.todo = t /\ installer'.replace = installer.replace
    BY <2>3, SchedGoes DEF SchedInv
  <2>5. /\ t \in Seq(NativeFiles) /\ f0 \in NativeFiles
        /\ ToSet(installer.todo) = {f0} \cup ToSet(t)
    BY <1>0, <1>2, <2>1, <2>2, HeadAndTail
  <2>6. NativeFiles \subseteq Unit
    BY Files DEF SchedInv, SchedTypes
  <2>7. /\ units' \in [Unit -> Writer] /\ units'[f0] = "own"
        /\ \A f \in Unit \ {f0} : units'[f] = units[f]
    BY <2>3, <2>5, <2>6 DEF SchedInv, SchedTypes, Writer
  <2>8. SchedTypes'
    BY <1>0, <2>4, <2>7 DEF SchedInv, SchedTypes
  <2>9. Progress' /\ Reported'
    BY <1>0, <2>4, <2>5, <2>6, <2>7 DEF Progress, Reported
  <2>10. ~xdg /\ installer.replace = FALSE => \A f \in NativeFiles : ~Foreign(f)
    BY <1>0 DEF SchedInv, NothingForeign
  <2>11. NothingForeign'
    BY <1>0, <2>4, <2>6, <2>7, <2>10 DEF NothingForeign, Foreign
  <2> QED BY <2>5, <2>7, <2>8, <2>9, <2>10, <2>11 DEF SchedInv
<1> QED
  BY <1>1, <1>2

\* Loading the units keeps it.
LEMMA LoadKept ==
    ASSUME SchedInv, load_units
    PROVE  SchedInv'
<1>0. /\ installer.step = "load" /\ UNCHANGED <<platform, xdg, units, crontab, wrappers>>
      /\ NativeFiles' = NativeFiles /\ verdict = "running" /\ platform # "cron"
      /\ installer.todo \in Seq(Names) /\ Installed
      /\ \A s \in Names : s \in loaded \/ s \in ToSet(installer.todo)
  BY SameFiles DEF load_units, SchedInv, SchedTypes, Progress
<1>a. Installed'
  BY <1>0 DEF Installed
<1>1. CASE installer.todo = <<>>
  <2>1. finish("installed") /\ UNCHANGED loaded
    BY <1>1 DEF load_units
  <2>2. installer' \in CommandRec(installer'.todo) /\ installer'.step = "idle"
        /\ verdict' = "installed"
    BY <2>1, SchedGoes DEF SchedInv
  <2>3. Reported'
    BY <1>0, <1>a, <1>1, <2>1, <2>2, NothingInEmpty DEF Reported
  <2>4. units' \in [Unit -> Writer] /\ crontab' = <<>>
    BY <1>0 DEF SchedInv, SchedTypes
  <2> QED BY <1>0, <2>2, <2>3, <2>4, SchedEnds
<1>2. CASE installer.todo # <<>>
  <2>1. PICK s0 : s0 = Head(installer.todo)
    OBVIOUS
  <2>2. PICK t : t = Tail(installer.todo)
    OBVIOUS
  <2>3. loaded' = loaded \cup {s0} /\ go_on("load", t) /\ UNCHANGED verdict
    BY <1>2, <2>1, <2>2 DEF load_units
  <2>4. /\ installer' \in CommandRec(installer'.todo) /\ installer'.step = "load"
        /\ installer'.todo = t
    BY <2>3, SchedGoes DEF SchedInv
  <2>5. /\ t \in Seq(Names) /\ ToSet(installer.todo) = {s0} \cup ToSet(t)
    BY <1>0, <1>2, <2>1, <2>2, HeadAndTail
  <2>6. SchedTypes'
    BY <1>0, <2>3, <2>4 DEF SchedInv, SchedTypes
  <2>7. Progress' /\ Reported' /\ NothingForeign'
    BY <1>0, <1>a, <2>3, <2>4, <2>5 DEF Progress, Reported, NothingForeign, Installed
  <2> QED BY <2>6, <2>7 DEF SchedInv
<1> QED
  BY <1>1, <1>2

\* Starting an uninstallation keeps it.
LEMMA BeginUninstallKept ==
    ASSUME SchedInv, begin_uninstall
    PROVE  SchedInv'
<1>0. /\ installer.step = "idle" /\ UNCHANGED <<platform, xdg, units, loaded, crontab, wrappers>>
      /\ NativeFiles' = NativeFiles /\ verdict' = "running"
      /\ installer' = [NoCommand EXCEPT !.step = IF platform = "cron" THEN "uncron" ELSE "unload",
                                        !.todo = ShortNames]
  BY SameFiles DEF begin_uninstall
<1>1. /\ installer' \in CommandRec(installer'.todo) /\ installer'.todo = ShortNames
      /\ installer'.step = IF platform = "cron" THEN "uncron" ELSE "unload"
  BY <1>0 DEF NoCommand, CommandRec
<1>2. /\ ShortNames \in Seq(Names) /\ Names = ToSet(ShortNames)
  BY SchedulerAssumption DEF Names, ToSet
<1>3. \A f \in Unit : f[1] \in Names
  BY Files DEF SchedInv, SchedTypes
<1>4. SchedTypes'
  BY <1>0, <1>1 DEF SchedInv, SchedTypes
<1>5. Progress' /\ Reported' /\ NothingForeign'
  BY <1>0, <1>1, <1>2, <1>3 DEF Progress, Reported, NothingForeign
<1> QED
  BY <1>4, <1>5 DEF SchedInv

\* Unloading and deleting a unit keeps it.
LEMMA UnloadKept ==
    ASSUME SchedInv, unload_unit
    PROVE  SchedInv'
<1>0. /\ installer.step = "unload" /\ UNCHANGED <<platform, xdg, crontab, wrappers>>
      /\ NativeFiles' = NativeFiles /\ verdict = "running" /\ platform # "cron"
      /\ installer.todo \in Seq(Names)
      /\ \A f \in Unit : units[f] = "none" \/ f[1] \in ToSet(installer.todo)
      /\ \A s \in Names : s \notin loaded \/ s \in ToSet(installer.todo) \cup ignored
      /\ crontab = <<>>
  BY SameFiles DEF unload_unit, SchedInv, SchedTypes, Progress, CommandRec
<1>1. CASE installer.todo = <<>>
  <2>1. finish("removed") /\ UNCHANGED <<units, loaded, ignored>>
    BY <1>1 DEF unload_unit
  <2>2. /\ installer' \in CommandRec(installer'.todo) /\ installer'.step = "idle"
        /\ verdict' = "removed"
    BY <2>1, SchedGoes DEF SchedInv
  <2>4. Reported'
    BY <1>0, <1>1, <2>1, <2>2, NothingInEmpty DEF Reported
  <2>5. units' \in [Unit -> Writer]
    BY <2>1 DEF SchedInv, SchedTypes
  <2> QED BY <1>0, <2>2, <2>4, <2>5, SchedEnds
<1>2. CASE installer.todo # <<>>
  <2>1. PICK s0 : s0 = Head(installer.todo)
    OBVIOUS
  <2>2. PICK t : t = Tail(installer.todo)
    OBVIOUS
  <2>3. /\ units' = [f \in Unit |-> IF f[1] = s0 THEN "none" ELSE units[f]]
        /\ \/ loaded' = loaded \ {s0} /\ UNCHANGED ignored
           \/ ignored' = ignored \cup {s0} /\ UNCHANGED loaded
        /\ go_on("unload", t)
        /\ UNCHANGED verdict
    BY <1>2, <2>1, <2>2 DEF unload_unit
  <2>4. /\ installer' \in CommandRec(installer'.todo) /\ installer'.step = "unload"
        /\ installer'.todo = t
    BY <2>3, SchedGoes DEF SchedInv
  <2>5. /\ t \in Seq(Names) /\ ToSet(installer.todo) = {s0} \cup ToSet(t)
    BY <1>0, <1>2, <2>1, <2>2, HeadAndTail
  <2>6. /\ units' \in [Unit -> Writer]
        /\ \A f \in Unit : units'[f] = "none" \/ f[1] \in ToSet(t)
    BY <1>0, <2>3, <2>5 DEF SchedInv, SchedTypes, Writer
  <2>a. \A s \in Names : s \notin loaded' \/ s \in ToSet(t) \cup ignored'
    BY <1>0, <2>3, <2>5
  <2>7. SchedTypes'
    BY <1>0, <2>3, <2>4, <2>6 DEF SchedInv, SchedTypes
  <2>8. Progress' /\ Reported' /\ NothingForeign'
    BY <1>0, <2>3, <2>4, <2>5, <2>6, <2>a DEF Progress, Reported, NothingForeign
  <2> QED BY <2>7, <2>8 DEF SchedInv
<1> QED
  BY <1>1, <1>2

\* Rewriting the crontab keeps it and touches no unit file.
LEMMA CronKept ==
    ASSUME SchedInv, install_cron \/ uninstall_cron
    PROVE  SchedInv' /\ UNCHANGED units
<1>1. /\ installer.step \in {"cron", "uncron"} /\ UNCHANGED <<platform, xdg, units>>
      /\ \E v : finish(v)
  BY DEF install_cron, uninstall_cron
<1>2. platform = "cron" /\ units \in [Unit -> Writer]
  BY <1>1 DEF SchedInv, SchedTypes
<1>3. installer' \in CommandRec(installer'.todo) /\ installer'.step = "idle"
  BY <1>1, SchedGoes DEF SchedInv
<1>4. Reported'
  BY <1>1, <1>2 DEF Reported
<1> QED
  BY <1>1, <1>2, <1>3, <1>4, SchedEnds

\* So does an installation that breaks off.
LEMMA SchedBreakKept ==
    ASSUME SchedInv, break_off
    PROVE  SchedInv' /\ UNCHANGED units
<1>1. UNCHANGED <<platform, xdg, units, crontab>> /\ finish("failed")
  BY DEF break_off
<1>2. installer' \in CommandRec(installer'.todo) /\ installer'.step = "idle"
      /\ verdict' = "failed"
  BY <1>1, SchedGoes DEF SchedInv
<1>3. Reported'
  BY <1>2 DEF Reported
<1>4. units' \in [Unit -> Writer] /\ (platform # "cron" => crontab' = <<>>)
  BY <1>1 DEF SchedInv, SchedTypes
<1> QED
  BY <1>1, <1>2, <1>3, <1>4, SchedEnds

\* Every step keeps the invariant and touches nothing foreign unasked.
LEMMA SchedSteps ==
    ASSUME SchedInv, [SchedNext]_sched_vars
    PROVE  /\ SchedInv'
           /\ ~xdg => \A f \in Unit : Foreign(f) /\ units'[f] # units[f] =>
                           installer.replace \/ installer.step = "unload"
<1>1. ASSUME NEW replace \in BOOLEAN, begin_install(replace)
      PROVE  SchedInv' /\ UNCHANGED units
  BY <1>1, BeginInstallKept DEF begin_install
<1>2. begin_uninstall => SchedInv' /\ UNCHANGED units
  BY BeginUninstallKept DEF begin_uninstall
<1>3. write_wrappers => SchedInv' /\ UNCHANGED units
  BY WrappersKept DEF write_wrappers
<1>4. load_units => SchedInv' /\ UNCHANGED units
  BY LoadKept DEF load_units
<1>5. unload_unit => SchedInv' /\ installer.step = "unload"
  BY UnloadKept DEF unload_unit
<1>6. UNCHANGED sched_vars => SchedInv' /\ UNCHANGED units
  <2> SUFFICES ASSUME UNCHANGED sched_vars PROVE SchedInv' /\ UNCHANGED units
    OBVIOUS
  <2>1. /\ UNCHANGED <<platform, xdg, units, loaded, crontab, wrappers, installer, verdict,
                     ignored>>
        /\ NativeFiles' = NativeFiles
    BY SameFiles DEF sched_vars
  <2>2. SchedTypes' /\ Progress'
    BY <2>1 DEF SchedInv, SchedTypes, Progress, Installed
  <2>3. NothingForeign' /\ Reported'
    BY <2>1 DEF SchedInv, NothingForeign, Reported, Installed, Foreign
  <2> QED BY <2>1, <2>2, <2>3 DEF SchedInv
<1>7. installer.replace \in BOOLEAN
  BY DEF SchedInv, SchedTypes, CommandRec
<1>8. SchedInv'
  BY <1>1, <1>2, <1>3, <1>4, <1>5, <1>6, RemoveKept, UnitsKept, CronKept, SchedBreakKept
  DEF SchedNext, SchedStep
<1>9. ~xdg => \A f \in Unit : Foreign(f) /\ units'[f] # units[f] =>
                           installer.replace \/ installer.step = "unload"
  <2>1. ASSUME ~xdg, installer.replace = FALSE, NEW f \in Unit, Foreign(f),
               installer.step # "unload"
        PROVE  units'[f] = units[f]
    BY <1>1, <1>2, <1>3, <1>4, <1>5, <1>6, <2>1, RemoveKept, UnitsKept, CronKept, SchedBreakKept
    DEF SchedNext, SchedStep
  <2> QED BY <1>7, <2>1
<1> QED
  BY <1>8, <1>9

\* What is reported is there, and status shows it.
LEMMA ReportedIsReal == SchedInv /\ platform # "cron" => SuccessIsReal
<1> SUFFICES ASSUME SchedInv, platform # "cron" PROVE SuccessIsReal
  OBVIOUS
<1>1. /\ \A s \in Names : status_unit_name(s) \in NativeFiles
      /\ NativeFiles = ToSet(native_files(platform)) /\ NativeFiles \subseteq Unit
      /\ crontab = <<>>
  BY Files DEF NativeFiles, SchedInv, SchedTypes
<1>2. /\ DOMAIN status = Names
      /\ \A s \in Names :
           /\ status[s].installed = (units[status_unit_name(s)] # "none")
           /\ status[s].active = (s \in loaded)
           /\ status[s].legacy => status_unit_name(s) \in scan_legacy_python_units
  BY DEF status, Names
<1>3. ASSUME verdict = "installed"
      PROVE  /\ wrappers
             /\ \A s \in DOMAIN status : /\ status[s].installed
                                         /\ status[s].active = (platform # "cron")
                                         /\ ~status[s].legacy
             /\ \A f \in ToSet(native_files(platform)) : units[f] = "own"
  <2>1. Installed /\ Names \subseteq loaded
    BY <1>3 DEF SchedInv, Reported
  <2>2. \A f \in NativeFiles : units[f] = "own" /\ f \notin scan_legacy_python_units
    BY <2>1 DEF Installed, scan_legacy_python_units, is_own_generated_unit
  <2>3. ASSUME NEW s \in Names
        PROVE  /\ status[s].installed /\ ~status[s].legacy
               /\ status[s].active = (platform # "cron")
    <3>1. /\ (units[status_unit_name(s)] # "none") = TRUE
          /\ (s \in loaded) = (platform # "cron")
          /\ status_unit_name(s) \notin scan_legacy_python_units
      BY <1>1, <2>1, <2>2
    <3> QED BY <1>2, <3>1, Zenon
  <2> QED BY <1>1, <1>2, <2>1, <2>2, <2>3 DEF Installed
<1>4. ASSUME verdict = "removed"
      PROVE  /\ \A f \in Unit : units[f] = "none"
             /\ \A s \in DOMAIN status : ~status[s].installed /\ (status[s].active => s \in ignored)
             /\ \A i \in DOMAIN crontab : crontab[i] \notin {"start", "end", "job"}
  <2>1. (\A f \in Unit : units[f] = "none") /\ \A s \in Names : s \notin loaded \/ s \in ignored
    BY <1>4 DEF SchedInv, Reported
  <2>2. ASSUME NEW s \in Names
        PROVE  ~status[s].installed /\ (status[s].active => s \in ignored)
    <3>1. (units[status_unit_name(s)] # "none") = FALSE
      BY <1>1, <2>1
    <3> QED BY <1>2, <2>1, <3>1, Zenon
  <2>3. DOMAIN crontab = {}
    BY <1>1
  <2> QED BY <1>2, <2>1, <2>2, <2>3
<1> QED
  BY <1>3, <1>4 DEF SuccessIsReal

\* Under a job manager, for any number of jobs and of commands that broke off
\* anywhere: a success that is reported is worth what SuccessIsReal says, and
\* units of others are replaced only when asked where they are looked for
\* (install.rs).
THEOREM SchedulerKept ==
    SchedSpec => [](platform # "cron" => SuccessIsReal) /\ ReplacesOnlyWhenAsked
<1>1. SchedInit => SchedInv
  BY SchedInitInv
<1>2. SchedInv /\ [SchedNext]_sched_vars => SchedInv'
  BY SchedSteps
<1>3. SchedInv => (platform # "cron" => SuccessIsReal)
  BY ReportedIsReal
<1>4. SchedInv /\ [SchedNext]_sched_vars =>
        [\A f \in Unit : ~xdg /\ units[f] \in {"python", "other"} /\ units'[f] # units[f] =>
           installer.replace \/ installer.step = "unload"]_sched_vars
  BY SchedSteps DEF Foreign
<1>5. SchedSpec => [](platform # "cron" => SuccessIsReal)
  BY <1>1, <1>2, <1>3, PTL DEF SchedSpec
<1>6. SchedSpec => ReplacesOnlyWhenAsked
  BY <1>1, <1>2, <1>4, PTL DEF SchedSpec, ReplacesOnlyWhenAsked
<1> QED
  BY <1>5, <1>6


=============================================================================
