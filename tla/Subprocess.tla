----------------------------- MODULE Subprocess -----------------------------
(***************************************************************************)
(* The programs EraseMe runs and the retries around them.                  *)
(*   "agent"     a language-model question answered by a host agent's CLI  *)
(*               (crates/symeraseme-core/src/llm/mod.rs)                   *)
(*   "provider"  the same over HTTP (llm/transport.rs)                     *)
(*   "secret"    a vault reference resolved by `symvault`, with its        *)
(*               fallbacks (identity/resolve.rs)                           *)
(* A child writes to a pipe of bounded capacity that a reader thread       *)
(* drains; the caller polls the child for its exit, for the deadline and,  *)
(* where there is one, for the cancellation token, and joins the reader,   *)
(* which reads on while a program the child started holds the pipe open.   *)
(***************************************************************************)
EXTENDS Naturals, FiniteSets

CONSTANTS PipeCapacity,      \* what the pipe holds, in writes
          MaxOutput,         \* writes of the child
          MaxRetries         \* max_retries of BaseClient

ASSUME SubprocessAssumption ==
    {PipeCapacity, MaxOutput, MaxRetries} \subseteq Nat \ {0}

VARIABLES caller,       \* kind, step, attempt, result
          child,        \* the running program
          grandchild,   \* does a program it started hold the pipe?
          pipe,         \* writes not yet read
          captured,     \* writes the reader has read
          produced,     \* writes of the child
          cancelled     \* the cancellation token

sub_vars == <<caller, child, grandchild, pipe, captured, produced, cancelled>>

CallerStarts ==
    [kind : {"agent", "provider", "secret"}, step : {"call"}, attempt : {1},
     result : {"none"}]

SubInit ==
    /\ caller \in CallerStarts
    /\ child = "none" /\ grandchild = FALSE
    /\ pipe = 0 /\ captured = 0 /\ produced = 0
    /\ cancelled = FALSE

-----------------------------------------------------------------------------
(* The child and the reader *)

child_write ==
    /\ child = "running" \/ grandchild
    /\ pipe < PipeCapacity /\ produced < MaxOutput
    /\ pipe' = pipe + 1 /\ produced' = produced + 1
    /\ UNCHANGED <<caller, child, captured, cancelled, grandchild>>

child_exit ==
    /\ child = "running"
    /\ child' \in {"success", "failure"}
    /\ UNCHANGED <<caller, pipe, captured, produced, cancelled, grandchild>>

\* The child starts a program that inherits its output, and that one ends.
child_fork ==
    /\ child = "running" /\ ~grandchild
    /\ grandchild' = TRUE
    /\ UNCHANGED <<caller, child, pipe, captured, produced, cancelled>>

grandchild_ends ==
    /\ grandchild
    /\ grandchild' = FALSE
    /\ UNCHANGED <<caller, child, pipe, captured, produced, cancelled>>

reader_read ==
    /\ pipe > 0
    /\ pipe' = pipe - 1 /\ captured' = captured + 1
    /\ UNCHANGED <<caller, child, produced, cancelled, grandchild>>

\* The request that asked is gone (CancelOnDrop); a secret has no token.
cancel ==
    /\ caller.kind # "secret" /\ caller.step # "returned"
    /\ ~cancelled
    /\ cancelled' = TRUE
    /\ UNCHANGED <<caller, child, pipe, captured, produced, grandchild>>

-----------------------------------------------------------------------------
(* The caller *)

return(result) == caller' = [caller EXCEPT !.step = "returned", !.result = result]

\* The retry loop of BaseClient::classify after a failure: a cancelled context
\* wins, a rate limit or a provider failure is retried but on the last attempt.
after_error ==
    IF cancelled THEN return("context")
    ELSE IF caller.attempt < MaxRetries
    THEN caller' = [caller EXCEPT !.step = "backoff"]
    ELSE return("provider")

\* wait_cancellable.
backoff ==
    /\ caller.step = "backoff"
    /\ \/ cancelled /\ return("context")
       \/ ~cancelled /\ caller' = [caller EXCEPT !.step = "call", !.attempt = @ + 1]
    /\ UNCHANGED <<child, pipe, captured, produced, cancelled, grandchild>>

\* SecretResolver::resolve after the vault: the environment's fallback unless
\* it is a reference itself, the keyring's, or an error.
fallback ==
    /\ caller.step = "fallback"
    /\ \E source \in {"env", "keyring", "exhausted"} : return(source)
    /\ UNCHANGED <<child, pipe, captured, produced, cancelled, grandchild>>

\* detect_backend finds a program, or the path is invalid, or it cannot be
\* started.
spawn ==
    /\ caller.step = "call" /\ caller.kind # "provider"
    /\ \/ /\ child' = "running" /\ captured' = 0 /\ produced' = 0 /\ pipe' = 0
          /\ caller' = [caller EXCEPT !.step = "wait"]
       \/ /\ IF caller.kind = "secret" THEN caller' = [caller EXCEPT !.step = "fallback"]
             ELSE after_error
          /\ UNCHANGED <<child, pipe, captured, produced>>
    /\ UNCHANGED <<grandchild, cancelled>>

\* call_api_cancellable, whose success counts only without a cancellation.
ask_provider ==
    /\ caller.step = "call" /\ caller.kind = "provider"
    /\ \/ IF cancelled THEN return("context") ELSE return("text")
       \/ after_error
    /\ UNCHANGED <<child, pipe, captured, produced, cancelled, grandchild>>

\* Faulty variant: the exit of the child is enough.
observe_exit_NoJoin ==
    /\ caller.step = "wait" /\ child \in {"success", "failure"}
    /\ IF child = "success" /\ captured > 0 THEN return("text") ELSE return("provider")
    /\ child' = "none"
    /\ UNCHANGED <<pipe, captured, produced, cancelled, grandchild>>

\* try_wait finds the exit status.
observe_exit ==
    /\ caller.step = "wait" /\ child \in {"success", "failure"}
    /\ caller' = [caller EXCEPT !.step = "join"]
    /\ UNCHANGED <<child, pipe, captured, produced, cancelled, grandchild>>

\* Faulty variant: the deadline is reported and the child left alone.
give_up_Alive ==
    /\ caller.step = "wait" /\ child = "running"
    /\ return("timeout")
    /\ UNCHANGED <<child, pipe, captured, produced, cancelled, grandchild>>

\* Faulty variant: only a cancellation ends the wait.
give_up_Cancelled ==
    /\ caller.step = "wait" /\ child = "running" /\ cancelled
    /\ child' = "killed"
    /\ caller' = [caller EXCEPT !.step = "join"]
    /\ UNCHANGED <<pipe, captured, produced, cancelled, grandchild>>

\* try_wait finds it running at the deadline, or after a cancellation: kill.
give_up ==
    /\ caller.step = "wait" /\ child = "running"
    /\ child' = "killed"
    /\ caller' = [caller EXCEPT !.step = "join"]
    /\ UNCHANGED <<pipe, captured, produced, cancelled, grandchild>>

\* Joining the reader: it ends when the pipe is empty and no writer is left.
join ==
    /\ caller.step = "join" /\ pipe = 0 /\ ~grandchild
    /\ IF child = "success" /\ captured > 0 THEN return("text")
       ELSE IF caller.kind = "secret" THEN caller' = [caller EXCEPT !.step = "fallback"]
       ELSE after_error
    /\ child' = "none"
    /\ UNCHANGED <<pipe, captured, produced, cancelled, grandchild>>

CallerStep ==
    spawn \/ ask_provider \/ observe_exit \/ join \/ backoff \/ fallback

SubNext == \/ CallerStep \/ give_up \/ child_write \/ child_exit \/ child_fork
          \/ grandchild_ends \/ reader_read \/ cancel

\* The deadline passes, the reader thread runs; the child may do as it likes.
SubSpec == /\ SubInit /\ [][SubNext]_sub_vars
           /\ WF_sub_vars(CallerStep \/ give_up) /\ WF_sub_vars(reader_read)

-----------------------------------------------------------------------------
(* Properties *)

\* An answer is the whole output of a child that has exited, not what the
\* reader had seen when the exit was noticed (call_api_with,
\* run_secret_command).
AnswerIsWhole ==
    caller.result = "text" /\ caller.kind # "provider" => captured = produced /\ pipe = 0

\* No child outlives the call that started it, however the call ends, and no
\* program it started is left writing into its output.
NoOrphan == caller.step \in {"call", "backoff", "fallback", "returned"} => child = "none" /\ ~grandchild

\* A call that got going returns: the child may block on a full pipe or never
\* exit, the deadline ends it, and the attempts run out. The deadline does not
\* reach a program the child started: joining the readers waits as long as it
\* holds the pipe (call_api_with, run_secret_command).
CallReturns ==
    caller.step # "call" ~> (caller.step = "returned" \/ (caller.step = "join" /\ grandchild))

\* A call of a program or of a provider answers with the whole output or not
\* at all, and leaves no child behind.
SubprocessSafe == AnswerIsWhole /\ NoOrphan

=============================================================================
