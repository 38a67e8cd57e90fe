---------------------------- MODULE OAuthStates ----------------------------
(***************************************************************************)
(* Authorization states: crates/symeraseme-core/src/email/oauth2.rs.  A    *)
(* state is a one-time value kept in a file; store and validate read the   *)
(* clock, wait for the mutex of their OAuthStateStore, read the file,      *)
(* change the list and replace the file.  The mutex belongs to the store   *)
(* object: threads that share one exclude each other, two processes, or    *)
(* two objects on the same path, do not.                                   *)
(***************************************************************************)
EXTENDS Naturals

CONSTANTS States,            \* the values authorise_url draws
          Threads,           \* those that call store and validate
          Shared,            \* they share one OAuthStateStore, or have one each
          TTL, MaxNow        \* lifetime of a state; the clock's bound

ASSUME OAuthAssumption ==
    /\ TTL \in Nat \ {0} /\ MaxNow \in Nat
    /\ Shared \in BOOLEAN

VARIABLES unix_now,     \* seconds
          state_file,   \* the file: state -> expiry, 0 where there is none
          updating,     \* the store or validate call each thread is in
          drawn,        \* states handed out
          accepted      \* per state, its validations that succeeded

oauth_vars == <<unix_now, state_file, updating, drawn, accepted>>

NoCall == [step |-> "none", op |-> "store", state |-> "absent", now |-> 0,
           records |-> [s \in States |-> 0]]

OAuthInit ==
    /\ unix_now = 1
    /\ state_file = [s \in States |-> 0]
    /\ updating = [t \in Threads |-> NoCall]
    /\ drawn = {}
    /\ accepted = [s \in States |-> 0]

oauth_tick == /\ unix_now < MaxNow /\ unix_now' = unix_now + 1
              /\ UNCHANGED <<state_file, updating, drawn, accepted>>

\* A call reads the clock before it waits for the mutex.
Calling(op, s) == [step |-> "waiting", op |-> op, state |-> s, now |-> unix_now,
                   records |-> [q \in States |-> 0]]

\* authorise_url draws a fresh state and stores it.
store_state(t, s) ==
    /\ updating[t].step = "none"
    /\ s \notin drawn
    /\ drawn' = drawn \cup {s}
    /\ updating' = [updating EXCEPT ![t] = Calling("store", s)]
    /\ UNCHANGED <<unix_now, state_file, accepted>>

validate_state(t, s) ==
    /\ updating[t].step = "none"
    /\ updating' = [updating EXCEPT ![t] = Calling("validate", s)]
    /\ UNCHANGED <<unix_now, state_file, drawn, accepted>>

\* Faulty variant: the file is read before the mutex is taken.
unlocked_Unguarded(t) == TRUE

\* Nobody else is between reading and replacing the file under this mutex.
unlocked(t) == Shared => \A u \in Threads : updating[u].step # "writing"

\* Faulty variant: the record is looked up and left where it is.
taken_Kept(records, s) == records

\* records.remove(state).
taken(records, s) == [records EXCEPT ![s] = 0]

\* A call with the list it is about to write.
Holding(c, records) ==
    [step |-> "writing", op |-> c.op, state |-> c.state, now |-> c.now, records |-> records]

\* update with the mutex: the file is read and the list changed.  A missing or
\* an expired record is an error, with which update returns before it writes.
update_read(t) ==
    /\ updating[t].step = "waiting"
    /\ unlocked(t)
    /\ LET s == updating[t].state IN
       \/ /\ updating[t].op = "store"
          /\ updating' = [updating EXCEPT
                ![t] = Holding(@, [state_file EXCEPT ![s] = updating[t].now + TTL])]
       \/ /\ updating[t].op = "validate"
          /\ state_file[s] # 0 /\ state_file[s] >= updating[t].now
          /\ updating' = [updating EXCEPT ![t] = Holding(@, taken(state_file, s))]
       \/ /\ updating[t].op = "validate"
          /\ state_file[s] = 0 \/ state_file[s] < updating[t].now
          /\ updating' = [updating EXCEPT ![t] = NoCall]
    /\ UNCHANGED <<unix_now, state_file, drawn, accepted>>

\* The temporary file replaces the state file, or the update fails.
update_commit(t) ==
    /\ updating[t].step = "writing"
    /\ state_file' = updating[t].records
    /\ accepted' = IF updating[t].op = "validate"
                   THEN [accepted EXCEPT ![updating[t].state] = @ + 1] ELSE accepted
    /\ updating' = [updating EXCEPT ![t] = NoCall]
    /\ UNCHANGED <<unix_now, drawn>>

update_fail(t) ==
    /\ updating[t].step # "none"
    /\ updating' = [updating EXCEPT ![t] = NoCall]
    /\ UNCHANGED <<unix_now, state_file, drawn, accepted>>

OAuthNext ==
    \/ oauth_tick
    \/ \E t \in Threads :
          \/ \E s \in States : store_state(t, s) \/ validate_state(t, s)
          \/ update_read(t) \/ update_commit(t) \/ update_fail(t)

OAuthSpec == OAuthInit /\ [][OAuthNext]_oauth_vars

-----------------------------------------------------------------------------
(* Properties *)

\* "Authorization states are one-time values on disk" (oauth2.rs:6): no state is
\* accepted twice, whatever calls wait for one another, fail, or were made
\* before the clock moved on.  It takes one OAuthStateStore that all callers
\* share; with two on the same path the mutex does not help.
StatesAreSingleUse == \A s \in States : accepted[s] <= 1

=============================================================================
