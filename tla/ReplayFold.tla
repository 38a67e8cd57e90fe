------------------------------ MODULE ReplayFold ------------------------------
(***************************************************************************)
(* The replay loop of projection.rs, one iteration per step: load_events   *)
(* hands the rows of one request to fold_events in the order of the query, *)
(* and each iteration applies the next row to the accumulated state.       *)
(* The declarative Projection!fold_events that the other modules use is    *)
(* shown here to be what this loop computes.                               *)
(***************************************************************************)
EXTENDS Projection

CONSTANTS Logs, \* the event logs of one request that are replayed
          Request

\* The rows of a log are rows of request_events: typed, and told apart by
\* their primary key.
ASSUME LogsAssumption ==
    \A log \in Logs :
      /\ log \subseteq EventRecord({Request})
      /\ \A e, f \in log : e.id = f.id => e = f

VARIABLES pending,  \* rows the cursor has not produced yet
          applied,  \* rows already folded
          state     \* the ProjectionState being built

fold_vars == <<pending, applied, state>>

FoldInit ==
    /\ pending \in Logs
    /\ applied = {}
    /\ state = Blank

\* The next row of the query: no pending row sorts before it.
IsNext(e) == e \in pending /\ \A f \in pending : f = e \/ Before(e, f)

FoldStep ==
    \E e \in pending :
      /\ IsNext(e)
      /\ state' = apply_event(state, e)
      /\ applied' = applied \cup {e}
      /\ pending' = pending \ {e}

Done == pending = {} /\ UNCHANGED fold_vars

FoldNext == FoldStep \/ Done

FoldSpec == FoldInit /\ [][FoldNext]_fold_vars

-----------------------------------------------------------------------------

\* Each variable has the type the code gives it.
FoldTypeOK ==
    /\ pending \subseteq EventRecord({Request})
    /\ applied \subseteq EventRecord({Request})
    /\ state \in ProjectionState

\* Rows are folded strictly in replay order: whatever is still pending sorts
\* after everything folded (the ORDER BY of load_events).
ReplayOrder == \A e \in applied, f \in pending : Before(e, f)

\* After every iteration each column of the state is what the last event
\* that writes it wrote, for backdated, same-instant, unknown and unreadable
\* rows alike (apply_event's conditional assignments against fold_events).
ReplayComputesProjection == state = fold_events(applied)

=============================================================================
