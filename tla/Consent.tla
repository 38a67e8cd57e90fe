-------------------------------- MODULE Consent --------------------------------
(***************************************************************************)
(* Consent tokens for destructive commands: crates/symeraseme-core/src/    *)
(* identity/consent.rs and gate.rs.  Every token is a file; `execute'      *)
(* verifies a token and owns the authorization when it removes the file.   *)
(* Any number of processes authorize, revoke and list at the same time:    *)
(* nothing but the file system and a lock on the token's inode orders      *)
(* them.                                                                   *)
(*                                                                         *)
(* find_token_file looks for the hashed name first and for the legacy name *)
(* after it, which it renames; another process may rename in between.      *)
(* "Some filesystems can report success for overlapping unlink calls"      *)
(* (gate.rs): Overlap says whether this one does.                          *)
(***************************************************************************)
EXTENDS Integers, Absent

CONSTANTS Tokens, Callers, Commands,
          MaxTTL,             \* lifetimes asked for go from its negative up
          DEFAULT_TOKEN_TTL,  \* 86400 in the code
          I64Max,             \* the largest time
          Seconds,            \* seconds of the clock
          Legacy,             \* tokens an older version may have issued
          Overlap

ASSUME ConsentAssumption ==
    /\ None \notin Callers
    /\ MaxTTL \in Nat /\ DEFAULT_TOKEN_TTL \in Nat \ {0}
    /\ I64Max \in Nat /\ Seconds \subseteq 0..I64Max
    /\ Legacy \subseteq Tokens
    /\ Overlap \in BOOLEAN

Name == {"absent", "hashed", "legacy"}

VARIABLES name,        \* under which name the token's file exists
          command,     \* command in the token's file
          expires_at,  \* its last second
          issued,      \* tokens that have been handed out
          now,         \* the clock
          calling,     \* what each process is doing
          inode,       \* holder of the lock on the token's file
          granted,     \* authorizations by means of each token
          revoked      \* tokens whose revocation was reported as done

consent_vars == <<name, command, expires_at, issued, now, calling, inode, granted, revoked>>
file == <<name, command, expires_at, issued>>

\* `left' are the tokens a revoke_all has still to revoke, `done' the ones
\* it was to revoke in all.
IdleCall == [kind |-> "idle", token |-> None, cmd |-> None, step |-> "none",
             look |-> "none", left |-> {}, done |-> {}]

ConsentInit ==
    /\ name \in [Tokens -> {"absent", "legacy"}]
    /\ \A t \in Tokens : name[t] = "legacy" => t \in Legacy
    /\ command \in [Tokens -> Commands]
    /\ now \in Seconds /\ \A i \in Seconds : now <= i
    /\ expires_at = [t \in Tokens |-> now]
    /\ issued = {t \in Tokens : name[t] = "legacy"}
    /\ calling = [p \in Callers |-> IdleCall]
    /\ inode = [t \in Tokens |-> None]
    /\ granted = [t \in Tokens |-> 0]
    /\ revoked = {}

Tick ==
    /\ now' \in {i \in Seconds : i > now}
    /\ UNCHANGED <<file, calling, inode, granted, revoked>>

-----------------------------------------------------------------------------

saturating_add(i, j) == IF i + j > I64Max THEN I64Max ELSE i + j

\* A lifetime is an i64 of the caller's, 0 for none.
TTLs == (0 - MaxTTL)..MaxTTL

\* Faulty variant: a lifetime is added as it was asked for.
lifetime_Raw(ttl) == ttl

lifetime(ttl) == IF ttl <= 0 THEN DEFAULT_TOKEN_TTL ELSE ttl

\* issue_token: the random source repeats no token; the file appears by one
\* rename.
issue_token(t, c, ttl) ==
    /\ t \notin issued
    /\ name' = [name EXCEPT ![t] = "hashed"]
    /\ command' = [command EXCEPT ![t] = c]
    /\ expires_at' = [expires_at EXCEPT ![t] = saturating_add(now, lifetime(ttl))]
    /\ issued' = issued \cup {t}
    /\ UNCHANGED <<now, calling, inode, granted, revoked>>

\* The answer of list_tokens, which removes the files of expired tokens.  The
\* directory is read at one instant.
listed == {t \in Tokens : name[t] # "absent" /\ now <= expires_at[t]}

prune ==
    /\ name' = [t \in Tokens |-> IF now > expires_at[t] THEN "absent" ELSE name[t]]
    /\ UNCHANGED <<command, expires_at, issued>>

list_tokens ==
    /\ prune
    /\ UNCHANGED <<now, calling, inode, granted, revoked>>

-----------------------------------------------------------------------------
(***************************************************************************)
(* find_token_file, as part of the steps below.                            *)
(***************************************************************************)

Working(p, step) == calling[p].step = step

\* The call goes on with its next step.
advance(p, step, look) ==
    calling' = [calling EXCEPT ![p] = [calling[p] EXCEPT !.step = step, !.look = look]]

\* The hashed name is not there.
look_hashed(p) ==
    /\ calling[p].step \in {"verify", "lock", "remove"}
    /\ calling[p].look = "hashed"
    /\ name[calling[p].token] # "hashed"
    /\ advance(p, calling[p].step, "legacy")
    /\ UNCHANGED <<file, now, inode, granted, revoked>>

\* A file is found, under its hashed name in the end.
FileFound(p) ==
    IF calling[p].look = "hashed" THEN name[calling[p].token] = "hashed"
    ELSE name[calling[p].token] # "absent"

Missing(p) == calling[p].look = "legacy" /\ name[calling[p].token] # "legacy"

\* Faulty variant: the lock stays with the process, as that of a leaked file
\* handle would.
unlock_Leaked(t, p) == UNCHANGED inode

unlock(t, p) == inode' = IF inode[t] = p THEN [inode EXCEPT ![t] = None] ELSE inode

\* The call, or a revoke_all's turn for one token, ends.
call_returns(p) ==
    /\ calling' = [calling EXCEPT ![p] =
         IF calling[p].kind = "revoke_all"
         THEN [calling[p] EXCEPT !.step = "next", !.look = "none"] ELSE IdleCall]
    /\ unlock(calling[p].token, p)

-----------------------------------------------------------------------------
(***************************************************************************)
(* authorize: verify_and_consume, with the token from an argument, a file  *)
(* or the environment.                                                     *)
(***************************************************************************)

authorize(p, t, c) ==
    /\ calling[p] = IdleCall
    /\ t \in issued
    /\ calling' = [calling EXCEPT ![p] = [IdleCall EXCEPT !.kind = "authorize", !.token = t,
                  !.cmd = c, !.step = "verify", !.look = "hashed"]]
    /\ UNCHANGED <<file, now, inode, granted, revoked>>

verify_token(p) ==
    /\ Working(p, "verify")
    /\ FileFound(p)
    /\ LET t == calling[p].token IN
         \/ /\ command[t] # calling[p].cmd
            /\ name' = [name EXCEPT ![t] = "hashed"]
            /\ call_returns(p)
         \/ /\ command[t] = calling[p].cmd
            /\ now > expires_at[t]
            /\ name' = [name EXCEPT ![t] = "absent"]
            /\ call_returns(p)
         \/ /\ command[t] = calling[p].cmd
            /\ now <= expires_at[t]
            /\ name' = [name EXCEPT ![t] = "hashed"]
            /\ advance(p, "lock", "hashed")
            /\ UNCHANGED inode
    /\ UNCHANGED <<command, expires_at, issued, now, granted, revoked>>

\* lock_token opens the file and waits for the lock on what it opened.
lock_token(p) ==
    /\ Working(p, "lock")
    /\ FileFound(p)
    /\ name' = [name EXCEPT ![calling[p].token] = "hashed"]
    /\ advance(p, "wait", "none")
    /\ UNCHANGED <<command, expires_at, issued, now, inode, granted, revoked>>

\* Faulty variant: the lock is not waited for.
locked_Shared(p) ==
    /\ Working(p, "wait")
    /\ advance(p, "remove", "hashed")
    /\ UNCHANGED <<file, now, inode, granted, revoked>>

locked(p) ==
    /\ Working(p, "wait")
    /\ inode[calling[p].token] = None
    /\ inode' = [inode EXCEPT ![calling[p].token] = p]
    /\ advance(p, "remove", "hashed")
    /\ UNCHANGED <<file, now, granted, revoked>>

-----------------------------------------------------------------------------
(***************************************************************************)
(* revoke_token, on behalf of authorize or of the user.                    *)
(***************************************************************************)

revoke(p, t) ==
    /\ calling[p] = IdleCall
    /\ t \in issued
    /\ calling' = [calling EXCEPT ![p] = [IdleCall EXCEPT !.kind = "revoke", !.token = t,
                  !.step = "remove", !.look = "hashed"]]
    /\ UNCHANGED <<file, now, inode, granted, revoked>>

\* grant with revoke_all: the tokens listed at the beginning, one by one.
revoke_all(p) ==
    /\ calling[p] = IdleCall
    /\ prune
    /\ calling' = [calling EXCEPT ![p] = [IdleCall EXCEPT !.kind = "revoke_all",
                  !.step = "next", !.left = listed, !.done = listed]]
    /\ UNCHANGED <<now, inode, granted, revoked>>

\* Faulty variant: a token that is being used is left to its user.
revoke_next_SkipBusy(p, t) ==
    /\ Working(p, "next")
    /\ t \in calling[p].left
    /\ calling' = IF inode[t] # None
               THEN [calling EXCEPT ![p] = [@ EXCEPT !.left = @ \ {t}]]
               ELSE [calling EXCEPT ![p] = [@ EXCEPT !.left = @ \ {t}, !.token = t,
                                           !.step = "remove", !.look = "hashed"]]
    /\ UNCHANGED <<file, now, inode, granted, revoked>>

revoke_next(p, t) ==
    /\ Working(p, "next")
    /\ t \in calling[p].left
    /\ calling' = [calling EXCEPT ![p] = [calling[p] EXCEPT !.left = @ \ {t}, !.token = t,
                                     !.step = "remove", !.look = "hashed"]]
    /\ UNCHANGED <<file, now, inode, granted, revoked>>

revoke_all_done(p) ==
    /\ Working(p, "next")
    /\ calling[p].left = {}
    /\ calling' = [calling EXCEPT ![p] = IdleCall]
    /\ UNCHANGED <<file, now, inode, granted, revoked>>

\* What the caller that removed the file makes of it.
removed(p) ==
    LET t == calling[p].token IN
      /\ name' = [name EXCEPT ![t] = "absent"]
      /\ IF calling[p].kind = "authorize"
         THEN granted' = [granted EXCEPT ![t] = @ + 1] /\ UNCHANGED revoked
         ELSE revoked' = revoked \cup {t} /\ UNCHANGED granted
      /\ call_returns(p)
      /\ UNCHANGED <<command, expires_at, issued, now>>

\* The file is there; remove_file is atomic.
remove_file(p) ==
    /\ ~Overlap
    /\ Working(p, "remove")
    /\ FileFound(p)
    /\ removed(p)

\* The file is there; remove_file takes time and succeeds in any case.
remove_file_begin(p) ==
    /\ Overlap
    /\ Working(p, "remove")
    /\ FileFound(p)
    /\ name' = [name EXCEPT ![calling[p].token] = "hashed"]
    /\ advance(p, "unlink", "none")
    /\ UNCHANGED <<command, expires_at, issued, now, inode, granted, revoked>>

remove_file_end(p) ==
    /\ Working(p, "unlink")
    /\ removed(p)

\* Faulty variant: a token that is gone has been used by this caller.
not_found_Consume(p) ==
    /\ calling[p].step \in {"verify", "lock", "remove"}
    /\ Missing(p)
    /\ removed(p)

\* NotFound, or `false' from revoke_token: the call fails.
not_found(p) ==
    /\ calling[p].step \in {"verify", "lock", "remove"}
    /\ Missing(p)
    /\ call_returns(p)
    /\ UNCHANGED <<file, now, granted, revoked>>

\* The process dies; the kernel drops its lock.
caller_dies(p) ==
    /\ calling[p] # IdleCall
    /\ calling' = [calling EXCEPT ![p] = IdleCall]
    /\ inode' = [t \in Tokens |-> IF inode[t] = p THEN None ELSE inode[t]]
    /\ UNCHANGED <<file, now, granted, revoked>>

-----------------------------------------------------------------------------

CallStep(p) ==
    \/ look_hashed(p) \/ not_found(p)
    \/ verify_token(p) \/ lock_token(p) \/ locked(p)
    \/ remove_file(p) \/ remove_file_begin(p) \/ remove_file_end(p)
    \/ \E t \in Tokens : revoke_next(p, t)
    \/ revoke_all_done(p)

ConsentNext ==
    \/ \E t \in Tokens :
         \E c \in Commands, ttl \in TTLs : issue_token(t, c, ttl)
    \/ list_tokens
    \/ \E p \in Callers :
         \/ \E t \in Tokens : \/ \E c \in Commands : authorize(p, t, c)
                              \/ revoke(p, t)
         \/ revoke_all(p)
         \/ CallStep(p)
         \/ caller_dies(p)
    \/ Tick

ConsentSpec == ConsentInit /\ [][ConsentNext]_consent_vars

-----------------------------------------------------------------------------

\* The consent directory, the locks and the calls have their types.
ConsentTypeOK ==
    /\ name \in [Tokens -> Name]
    /\ command \in [Tokens -> Commands]
    /\ expires_at \in [Tokens -> 0..I64Max]
    /\ issued \subseteq Tokens
    /\ now \in Seconds
    /\ calling \in [Callers ->
         [kind : {"idle", "authorize", "revoke", "revoke_all"},
          token : Tokens \cup {None}, cmd : Commands \cup {None},
          step : {"none", "verify", "lock", "wait", "remove", "unlink", "next"},
          look : {"none", "hashed", "legacy"},
          left : SUBSET Tokens, done : SUBSET Tokens]]
    /\ inode \in [Tokens -> Callers \cup {None}]
    /\ granted \in [Tokens -> Nat]
    /\ revoked \subseteq Tokens

\* "Only the caller that removes the token owns this authorization" (gate.rs):
\* one token authorizes one destructive command, however many processes
\* present it at the same time and whatever the file system reports.
SingleUse == \A t \in Tokens : granted[t] <= 1

\* A token whose revocation was reported has authorized nothing and never
\* will (with a remove_file that is atomic).
RevokedIsUnused == \A t \in revoked : granted[t] = 0

\* "Revoke all active tokens" (docs/mcp-contract.md): when revoke_all
\* returns, none of the tokens it found in the directory is left.  (A token
\* that a verification renames from its legacy name between the two lookups
\* of find_token_file escapes: the property holds where Legacy is empty.)
RevokesAll ==
    [][\A p \in Callers :
         revoke_all_done(p) => \A t \in calling[p].done : name[t] = "absent"]_consent_vars

\* Nobody waits for the lock of a token forever, also when its holder dies.
CallsReturn == \A p \in Callers : calling[p] # IdleCall ~> calling[p] = IdleCall

=============================================================================
