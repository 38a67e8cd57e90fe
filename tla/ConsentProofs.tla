---------------------------- MODULE ConsentProofs ----------------------------
(***************************************************************************)
(* One token authorizes one command, for any number of processes, tokens,  *)
(* commands and times, whether or not the file system lets two removals of *)
(* one file succeed.  SingleUse is not inductive: nothing in it keeps the  *)
(* file of a used token from coming back, or a second caller from being    *)
(* halfway through its removal.  IInv adds that whoever is removing a file *)
(* to authorize a command holds the lock of its inode and finds the token  *)
(* unused, and that the file of a used token is gone.                      *)
(***************************************************************************)
EXTENDS Consent, TLAPS

Steps == {"none", "verify", "lock", "wait", "remove", "unlink", "next"}
Looks == {"none", "hashed", "legacy"}
Calls == [kind : {"idle", "authorize", "revoke", "revoke_all"},
          token : Tokens \cup {None}, cmd : Commands \cup {None},
          step : Steps, look : Looks, left : SUBSET Tokens, done : SUBSET Tokens]

Busy == {"verify", "lock", "wait", "remove", "unlink"}

\* Calls work on tokens that were handed out; only revoke_all takes turns.
HasToken ==
    \A p \in Callers : /\ calling[p].step \in Busy => calling[p].token \in issued
                       /\ calling[p].left \subseteq issued
                       /\ calling[p].step = "next" => calling[p].kind = "revoke_all"

\* Authorizing callers remove the file under the lock of its inode.
RemoverHoldsLock ==
    \A p \in Callers :
      calling[p].kind = "authorize" /\ calling[p].step \in {"remove", "unlink"}
        => inode[calling[p].token] = p

\* A removal that is under way will be the token's only authorization.
RemoverIsFirst ==
    \A p \in Callers :
      calling[p].kind = "authorize" /\ calling[p].step = "unlink"
        => granted[calling[p].token] = 0

\* The file of a used token is gone, and a token that was never handed out
\* has no file and is unused.
UsedIsGone ==
    \A t \in Tokens :
      /\ granted[t] # 0 => name[t] = "absent"
      /\ t \notin issued => granted[t] = 0 /\ name[t] = "absent" /\ t \notin revoked

IInv == ConsentTypeOK /\ HasToken /\ RemoverHoldsLock /\ RemoverIsFirst /\ UsedIsGone /\ SingleUse

\* An empty or inherited consent directory satisfies the invariant.
LEMMA InitIInv == ConsentInit => IInv
<1> SUFFICES ASSUME ConsentInit PROVE IInv
  OBVIOUS
<1> USE ConsentAssumption DEF ConsentInit
<1>1. ConsentTypeOK
  BY DEF ConsentTypeOK, Name, IdleCall
<1>2. HasToken /\ RemoverHoldsLock /\ RemoverIsFirst /\ UsedIsGone /\ SingleUse
  BY DEF HasToken, RemoverHoldsLock, RemoverIsFirst, UsedIsGone, SingleUse, IdleCall, Busy
<1> QED BY <1>1, <1>2 DEF IInv

\* An expiry is a representable time: lifetimes are positive and the sum is
\* saturated.
LEMMA ExpiryIsTime ==
    ASSUME NEW i \in Seconds, NEW ttl \in TTLs
    PROVE  saturating_add(i, lifetime(ttl)) \in 0..I64Max
BY ConsentAssumption DEF saturating_add, lifetime, TTLs

\* Steps outside of any call.
LEMMA DirectorySteps ==
    ASSUME IInv, \/ \E t \in Tokens, c \in Commands, ttl \in TTLs : issue_token(t, c, ttl)
                 \/ list_tokens \/ Tick
    PROVE  IInv'
<1> USE DEF IInv
<1>1. ASSUME NEW t \in Tokens, NEW c \in Commands, NEW ttl \in TTLs, issue_token(t, c, ttl)
      PROVE  IInv'
  <2>1. saturating_add(now, lifetime(ttl)) \in 0..I64Max
    BY ExpiryIsTime DEF ConsentTypeOK
  <2>2. ConsentTypeOK'
    BY <1>1, <2>1 DEF ConsentTypeOK, issue_token, Name
  <2>3. (HasToken /\ RemoverHoldsLock /\ RemoverIsFirst)'
    BY <1>1 DEF HasToken, RemoverHoldsLock, RemoverIsFirst, issue_token
  <2>4. (UsedIsGone /\ SingleUse)'
    BY <1>1 DEF ConsentTypeOK, UsedIsGone, SingleUse, issue_token
  <2> QED BY <2>2, <2>3, <2>4
<1>2. CASE list_tokens
  <2>1. ConsentTypeOK'
    BY <1>2 DEF ConsentTypeOK, list_tokens, prune, Name
  <2> QED BY <1>2, <2>1 DEF ConsentTypeOK, list_tokens, prune, HasToken, RemoverHoldsLock,
             RemoverIsFirst, UsedIsGone, SingleUse
<1>3. CASE Tick
  BY <1>3 DEF ConsentTypeOK, Tick, file, HasToken, RemoverHoldsLock, RemoverIsFirst,
              UsedIsGone, SingleUse
<1> QED BY <1>1, <1>2, <1>3

\* What a step does to the record of its own call leaves the other calls be.
LEMMA OwnCall ==
    ASSUME ConsentTypeOK, NEW p \in Callers, NEW v \in Calls, calling' = [calling EXCEPT ![p] = v]
    PROVE  /\ calling' \in [Callers -> Calls]
           /\ calling'[p] = v
           /\ \A q \in Callers \ {p} : calling'[q] = calling[q]
BY DEF ConsentTypeOK, Calls, Steps, Looks

\* The facts about a call that its steps start from.
LEMMA CallTyped ==
    ASSUME IInv, NEW p \in Callers
    PROVE  /\ calling[p] \in Calls /\ IdleCall \in Calls
           /\ name \in [Tokens -> Name]
           /\ inode \in [Tokens -> Callers \cup {None}]
           /\ revoked \subseteq issued
           /\ issued \subseteq Tokens /\ calling[p].left \subseteq issued
           /\ calling[p].step \in Busy => calling[p].token \in issued
BY DEF IInv, ConsentTypeOK, HasToken, UsedIsGone, Calls, Steps, Looks, IdleCall

\* A step of p that authorizes nothing, brings no file back and leaves the
\* locks of the others alone keeps the invariant if p's call is in order.
LEMMA OrderlyStep ==
    ASSUME IInv, NEW p \in Callers, NEW v \in Calls, calling' = [calling EXCEPT ![p] = v],
           v.step \in Busy => v.token \in issued, v.left \subseteq issued,
           v.step = "next" => v.kind = "revoke_all",
           v.kind = "authorize" /\ v.step \in {"remove", "unlink"}
             => inode'[v.token] = p,
           v.kind = "authorize" /\ v.step = "unlink" => granted[v.token] = 0,
           name' \in [Tokens -> Name],
           \A t \in Tokens : name[t] = "absent" => name'[t] = "absent",
           inode' \in [Tokens -> Callers \cup {None}],
           \A t \in Tokens, q \in Callers \ {p} : inode[t] = q => inode'[t] = q,
           UNCHANGED <<command, expires_at, issued, now, granted>>,
           revoked' \subseteq issued
    PROVE  IInv'
<1> USE DEF IInv
<1>1. /\ calling' \in [Callers -> Calls] /\ calling'[p] = v
      /\ \A q \in Callers \ {p} : calling'[q] = calling[q]
  BY OwnCall
<1>2. ConsentTypeOK'
  BY <1>1 DEF ConsentTypeOK, Calls, Steps, Looks
<1>3. HasToken'
  BY <1>1 DEF HasToken
<1>4. RemoverHoldsLock'
  BY <1>1, CallTyped DEF RemoverHoldsLock, HasToken, Busy
<1>5. RemoverIsFirst'
  BY <1>1 DEF RemoverIsFirst
<1>6. (UsedIsGone /\ SingleUse)'
  BY DEF UsedIsGone, SingleUse
<1> QED BY <1>2, <1>3, <1>4, <1>5, <1>6

\* Beginnings of calls and the turns of revoke_all.
LEMMA BeginSteps ==
    ASSUME IInv, NEW p \in Callers,
           \/ \E t \in Tokens : \/ \E c \in Commands : authorize(p, t, c)
                                \/ revoke(p, t) \/ revoke_next(p, t)
           \/ revoke_all(p) \/ revoke_all_done(p)
    PROVE  IInv'
<1> USE CallTyped DEF file
<1>1. ASSUME NEW t \in Tokens, NEW c \in Commands, authorize(p, t, c) PROVE IInv'
  <2> DEFINE v == [IdleCall EXCEPT !.kind = "authorize", !.token = t, !.cmd = c,
                               !.step = "verify", !.look = "hashed"]
  <2>1. v \in Calls /\ v.step = "verify" /\ v.token = t /\ v.left = {}
    BY DEF IdleCall, Calls, Steps, Looks
  <2>2. calling' = [calling EXCEPT ![p] = v]
    BY <1>1 DEF authorize
  <2> QED BY <1>1, <2>1, <2>2, OrderlyStep DEF authorize
<1>2. ASSUME NEW t \in Tokens, revoke(p, t) PROVE IInv'
  <2> DEFINE v == [IdleCall EXCEPT !.kind = "revoke", !.token = t,
                               !.step = "remove", !.look = "hashed"]
  <2>1. v \in Calls /\ v.step = "remove" /\ v.token = t /\ v.kind = "revoke" /\ v.left = {}
    BY DEF IdleCall, Calls, Steps, Looks
  <2>2. calling' = [calling EXCEPT ![p] = v]
    BY <1>2 DEF revoke
  <2> QED BY <1>2, <2>1, <2>2, OrderlyStep DEF revoke
<1>3. ASSUME NEW t \in Tokens, revoke_next(p, t) PROVE IInv'
  <2> DEFINE v == [calling[p] EXCEPT !.left = @ \ {t}, !.token = t,
                                  !.step = "remove", !.look = "hashed"]
  <2>1. v \in Calls /\ v.step = "remove" /\ v.token = t /\ v.kind = calling[p].kind
        /\ v.left = calling[p].left \ {t}
    BY DEF Calls, Steps, Looks
  <2>2. calling[p].kind = "revoke_all" /\ t \in issued
    BY <1>3 DEF IInv, HasToken, revoke_next, Working
  <2>3. calling' = [calling EXCEPT ![p] = v]
    BY <1>3 DEF revoke_next
  <2> QED BY <1>3, <2>1, <2>2, <2>3, OrderlyStep DEF revoke_next
<1>4. CASE revoke_all(p)
  <2> DEFINE v == [IdleCall EXCEPT !.kind = "revoke_all", !.step = "next",
                               !.left = listed, !.done = listed]
  <2>1. v \in Calls /\ v.step = "next" /\ v.kind = "revoke_all" /\ v.left \subseteq issued
    <3>1. listed \subseteq issued
      BY DEF listed, IInv, UsedIsGone
    <3> QED BY <3>1 DEF IdleCall, Calls, Steps, Looks
  <2>2. calling' = [calling EXCEPT ![p] = v]
    BY <1>4 DEF revoke_all
  <2>3. /\ name' \in [Tokens -> Name]
        /\ \A t \in Tokens : name[t] = "absent" => name'[t] = "absent"
    BY <1>4 DEF revoke_all, prune, Name
  <2> QED BY <1>4, <2>1, <2>2, <2>3, OrderlyStep DEF revoke_all, prune, Busy
<1>5. CASE revoke_all_done(p)
  <2>1. IdleCall.step = "none" /\ IdleCall.left = {}
    BY DEF IdleCall
  <2> QED BY <1>5, <2>1, OrderlyStep DEF revoke_all_done, Busy
<1> QED BY <1>1, <1>2, <1>3, <1>4, <1>5

\* A call that returns gives up its own lock and is done with its token.
LEMMA Return ==
    ASSUME IInv, NEW p \in Callers, calling[p].token \in Tokens, call_returns(p)
    PROVE  \E v \in Calls :
             /\ calling' = [calling EXCEPT ![p] = v]
             /\ v.step \notin Busy /\ v.left \subseteq issued
             /\ v.step = "next" => v.kind = "revoke_all"
             /\ inode' \in [Tokens -> Callers \cup {None}]
             /\ \A t \in Tokens, q \in Callers \ {p} : inode[t] = q => inode'[t] = q
<1>1. /\ inode' \in [Tokens -> Callers \cup {None}]
      /\ \A t \in Tokens, q \in Callers \ {p} : inode[t] = q => inode'[t] = q
  BY CallTyped DEF call_returns, unlock
<1>2. CASE calling[p].kind = "revoke_all"
  <2> DEFINE v == [calling[p] EXCEPT !.step = "next", !.look = "none"]
  <2>1. v \in Calls /\ v.step = "next" /\ v.kind = "revoke_all" /\ v.left = calling[p].left
    BY <1>2, CallTyped DEF Calls, Steps, Looks
  <2>2. calling' = [calling EXCEPT ![p] = v]
    BY <1>2 DEF call_returns
  <2> QED BY <1>1, <2>1, <2>2, CallTyped DEF Busy
<1>3. CASE calling[p].kind # "revoke_all"
  <2>1. IdleCall \in Calls /\ IdleCall.step = "none" /\ IdleCall.left = {}
    BY CallTyped DEF IdleCall
  <2>2. calling' = [calling EXCEPT ![p] = IdleCall]
    BY <1>3 DEF call_returns
  <2> QED BY <1>1, <2>1, <2>2 DEF Busy
<1> QED BY <1>2, <1>3

\* Looking the file up, verifying, locking and giving up.
LEMMA LookSteps ==
    ASSUME IInv, NEW p \in Callers,
           \/ look_hashed(p) \/ not_found(p) \/ verify_token(p) \/ lock_token(p)
           \/ locked(p) \/ caller_dies(p)
    PROVE  IInv'
<1> USE CallTyped DEF file
<1>1. CASE look_hashed(p)
  <2> DEFINE v == [calling[p] EXCEPT !.step = calling[p].step, !.look = "legacy"]
  <2>1. calling[p].step \in Steps
    BY DEF Calls
  <2>2. v \in Calls /\ v.step = calling[p].step /\ v.kind = calling[p].kind /\ v.token = calling[p].token
        /\ v.left = calling[p].left
    BY <2>1 DEF Calls, Steps, Looks
  <2>3. calling' = [calling EXCEPT ![p] = v]
    BY <1>1 DEF look_hashed, advance
  <2> QED BY <1>1, <2>2, <2>3, OrderlyStep, ZenonT(60)
          DEF look_hashed, IInv, RemoverHoldsLock, RemoverIsFirst, HasToken
<1>2. CASE not_found(p)
  <2>1. calling[p].token \in Tokens
    BY <1>2 DEF not_found, Busy
  <2> QED BY <1>2, <2>1, Return, OrderlyStep DEF not_found, Busy
<1>3. CASE verify_token(p)
  <2>1. calling[p].token \in issued /\ name[calling[p].token] # "absent"
    BY <1>3 DEF verify_token, Working, Busy, FileFound
  <2>2. /\ name' \in [Tokens -> Name]
        /\ \A t \in Tokens : name[t] = "absent" => name'[t] = "absent"
    BY <1>3, <2>1 DEF verify_token, Name
  <2>3. CASE call_returns(p)
    BY <1>3, <2>1, <2>2, <2>3, Return, OrderlyStep DEF verify_token, Busy
  <2>4. CASE advance(p, "lock", "hashed") /\ UNCHANGED inode
    <3> DEFINE v == [calling[p] EXCEPT !.step = "lock", !.look = "hashed"]
    <3>1. v \in Calls /\ v.step = "lock" /\ v.token = calling[p].token
        /\ v.left = calling[p].left
      BY DEF Calls, Steps, Looks
    <3>2. calling' = [calling EXCEPT ![p] = v]
      BY <2>4 DEF advance
    <3> QED BY <1>3, <2>1, <2>2, <2>4, <3>1, <3>2, OrderlyStep DEF verify_token
  <2> QED BY <1>3, <2>3, <2>4 DEF verify_token
<1>4. CASE lock_token(p)
  <2> DEFINE v == [calling[p] EXCEPT !.step = "wait", !.look = "none"]
  <2>1. calling[p].token \in issued /\ name[calling[p].token] # "absent"
    BY <1>4 DEF lock_token, Working, Busy, FileFound
  <2>2. /\ name' \in [Tokens -> Name]
        /\ \A t \in Tokens : name[t] = "absent" => name'[t] = "absent"
    BY <1>4, <2>1 DEF lock_token, Name
  <2>3. v \in Calls /\ v.step = "wait" /\ v.token = calling[p].token
        /\ v.left = calling[p].left
    BY DEF Calls, Steps, Looks
  <2>4. calling' = [calling EXCEPT ![p] = v]
    BY <1>4 DEF lock_token, advance
  <2> QED BY <1>4, <2>1, <2>2, <2>3, <2>4, OrderlyStep DEF lock_token
<1>5. CASE locked(p)
  <2> DEFINE v == [calling[p] EXCEPT !.step = "remove", !.look = "hashed"]
  <2>1. calling[p].token \in issued
    BY <1>5 DEF locked, Working, Busy
  <2>2. v \in Calls /\ v.step = "remove" /\ v.token = calling[p].token
        /\ v.left = calling[p].left
    BY DEF Calls, Steps, Looks
  <2>3. calling' = [calling EXCEPT ![p] = v]
    BY <1>5 DEF locked, advance
  <2>4. /\ inode' \in [Tokens -> Callers \cup {None}] /\ inode'[calling[p].token] = p
        /\ \A t \in Tokens, q \in Callers \ {p} : inode[t] = q => inode'[t] = q
    BY <1>5, <2>1, ConsentAssumption DEF locked
  <2>5. /\ UNCHANGED <<command, expires_at, issued, now, granted>>
        /\ name' = name /\ revoked' = revoked
    BY <1>5 DEF locked
  <2>6. /\ v.step \notin {"next", "unlink"} /\ inode'[v.token] = p
        /\ v.token \in issued /\ v.left \subseteq issued
    BY <2>1, <2>2, <2>4
  <2> HIDE DEF v
  <2> QED BY <2>2, <2>3, <2>4, <2>5, <2>6, OrderlyStep
<1>6. CASE caller_dies(p)
  <2>1. IdleCall.step = "none" /\ IdleCall.left = {}
    BY DEF IdleCall
  <2>2. /\ inode' \in [Tokens -> Callers \cup {None}]
        /\ \A t \in Tokens, q \in Callers \ {p} : inode[t] = q => inode'[t] = q
    BY <1>6 DEF caller_dies
  <2> QED BY <1>6, <2>1, <2>2, OrderlyStep DEF caller_dies, Busy
<1> QED BY <1>1, <1>2, <1>3, <1>4, <1>5, <1>6

\* Removing the file of an unused token.
LEMMA Removed ==
    ASSUME IInv, NEW p \in Callers, calling[p].token \in issued, removed(p),
           calling[p].kind = "authorize" =>
             granted[calling[p].token] = 0 /\ inode[calling[p].token] = p
    PROVE  IInv'
<1> DEFINE t == calling[p].token
<1>0. t \in Tokens
  BY CallTyped
<1>1. /\ name' \in [Tokens -> Name] /\ name'[t] = "absent"
      /\ \A u \in Tokens : name[u] = "absent" => name'[u] = "absent"
  BY <1>0, CallTyped DEF removed, Name
<1>2. CASE calling[p].kind # "authorize"
  <2>1. call_returns(p) /\ revoked' \subseteq issued
        /\ UNCHANGED <<command, expires_at, issued, now, granted>>
    BY <1>2, CallTyped DEF removed
  <2> QED BY <1>0, <1>1, <2>1, Return, OrderlyStep DEF Busy
<1>3. CASE calling[p].kind = "authorize"
  <2>1. PICK v \in Calls :
             /\ calling' = [calling EXCEPT ![p] = v]
             /\ v.step \notin Busy /\ v.left \subseteq issued
             /\ v.step = "next" => v.kind = "revoke_all"
             /\ inode' \in [Tokens -> Callers \cup {None}]
             /\ \A u \in Tokens, q \in Callers \ {p} : inode[u] = q => inode'[u] = q
    BY <1>0, Return DEF removed
  <2>2. /\ calling' \in [Callers -> Calls] /\ calling'[p] = v
        /\ \A q \in Callers \ {p} : calling'[q] = calling[q]
    BY <2>1, OwnCall DEF IInv
  <2>3. /\ granted' = [granted EXCEPT ![t] = 1]
        /\ UNCHANGED <<revoked, command, expires_at, issued, now>>
    BY <1>0, <1>3 DEF removed, IInv, ConsentTypeOK
  <2>4. ConsentTypeOK'
    BY <1>1, <2>1, <2>2, <2>3 DEF IInv, ConsentTypeOK, Calls, Steps, Looks
  <2>5. HasToken'
    BY <2>1, <2>2, <2>3 DEF IInv, HasToken
  <2>6. RemoverHoldsLock'
    BY <2>1, <2>2, <2>3 DEF IInv, ConsentTypeOK, HasToken, RemoverHoldsLock, Busy
  <2>7. RemoverIsFirst'
    <3> SUFFICES ASSUME NEW q \in Callers, calling'[q].kind = "authorize", calling'[q].step = "unlink"
                 PROVE  granted'[calling'[q].token] = 0
      BY DEF RemoverIsFirst
    <3>1. q # p
      BY <2>1, <2>2 DEF Busy
    <3>2. /\ granted[calling[q].token] = 0 /\ inode[calling[q].token] = q
          /\ calling[q].token \in Tokens /\ calling'[q].token = calling[q].token
      BY CallTyped, <2>2, <3>1 DEF IInv, RemoverIsFirst, RemoverHoldsLock, HasToken, Busy
    <3>3. calling[q].token # t
      BY <1>3, <3>1, <3>2
    <3> QED BY <2>3, <3>2, <3>3 DEF IInv, ConsentTypeOK
  <2>8. UsedIsGone'
    BY <1>0, <1>1, <2>3 DEF IInv, ConsentTypeOK, UsedIsGone
  <2>9. SingleUse'
    BY <2>3 DEF IInv, ConsentTypeOK, SingleUse
  <2> QED BY <2>4, <2>5, <2>6, <2>7, <2>8, <2>9 DEF IInv
<1> QED BY <1>2, <1>3

\* Every way of removing the file.
LEMMA RemoveSteps ==
    ASSUME IInv, NEW p \in Callers,
           remove_file(p) \/ remove_file_begin(p) \/ remove_file_end(p)
    PROVE  IInv'
<1> USE CallTyped
<1>1. CASE remove_file(p)
  <2>1. calling[p].token \in issued /\ name[calling[p].token] # "absent"
    BY <1>1 DEF remove_file, Working, Busy, FileFound
  <2>2. calling[p].kind = "authorize" =>
          granted[calling[p].token] = 0 /\ inode[calling[p].token] = p
    BY <1>1, <2>1 DEF remove_file, Working, IInv, UsedIsGone, RemoverHoldsLock
  <2> QED BY <1>1, <2>1, <2>2, Removed DEF remove_file
<1>2. CASE remove_file_begin(p)
  <2> DEFINE v == [calling[p] EXCEPT !.step = "unlink", !.look = "none"]
  <2>1. calling[p].token \in issued /\ name[calling[p].token] # "absent"
    BY <1>2 DEF remove_file_begin, Working, Busy, FileFound
  <2>2. calling[p].kind = "authorize" =>
          granted[calling[p].token] = 0 /\ inode[calling[p].token] = p
    BY <1>2, <2>1 DEF remove_file_begin, Working, IInv, UsedIsGone, RemoverHoldsLock
  <2>3. /\ v \in Calls /\ v.step = "unlink" /\ v.token = calling[p].token
        /\ v.kind = calling[p].kind /\ v.left = calling[p].left
    BY DEF Calls, Steps, Looks
  <2>4. calling' = [calling EXCEPT ![p] = v]
    BY <1>2 DEF remove_file_begin, advance
  <2>5. /\ name' \in [Tokens -> Name]
        /\ \A t \in Tokens : name[t] = "absent" => name'[t] = "absent"
    BY <1>2, <2>1 DEF remove_file_begin, Name
  <2>6. /\ UNCHANGED <<command, expires_at, issued, now, granted, inode, revoked>>
        /\ v.kind = "authorize" => inode'[v.token] = p /\ granted[v.token] = 0
    BY <1>2, <2>2, <2>3 DEF remove_file_begin
  <2> HIDE DEF v
  <2> QED BY <2>1, <2>3, <2>4, <2>5, <2>6, OrderlyStep
<1>3. CASE remove_file_end(p)
  <2>1. calling[p].token \in issued
    BY <1>3 DEF remove_file_end, Working, Busy
  <2>2. calling[p].kind = "authorize" =>
          granted[calling[p].token] = 0 /\ inode[calling[p].token] = p
    BY <1>3 DEF remove_file_end, Working, IInv, RemoverIsFirst, RemoverHoldsLock
  <2> QED BY <1>3, <2>1, <2>2, Removed DEF remove_file_end
<1> QED BY <1>1, <1>2, <1>3

\* Every step of the consent directory and its users keeps the invariant.
LEMMA NextIInv == IInv /\ [ConsentNext]_consent_vars => IInv'
<1> SUFFICES ASSUME IInv, [ConsentNext]_consent_vars PROVE IInv'
  OBVIOUS
<1>1. CASE UNCHANGED consent_vars
  BY <1>1 DEF consent_vars, IInv, ConsentTypeOK, HasToken, RemoverHoldsLock, RemoverIsFirst,
              UsedIsGone, SingleUse
<1>2. ASSUME NEW p \in Callers, CallStep(p) \/ caller_dies(p) PROVE IInv'
  BY <1>2, LookSteps, RemoveSteps, BeginSteps DEF CallStep
<1>3. ASSUME NEW p \in Callers,
             \/ \E t \in Tokens : \/ \E c \in Commands : authorize(p, t, c)
                                  \/ revoke(p, t)
             \/ revoke_all(p)
      PROVE  IInv'
  BY <1>3, BeginSteps
<1> QED BY <1>1, <1>2, <1>3, DirectorySteps DEF ConsentNext

\* IInv is an invariant of the consent directory.
LEMMA Inductive == ConsentSpec => []IInv
<1> QED BY InitIInv, NextIInv, PTL DEF ConsentSpec

\* The consent directory, the locks and the calls keep their types: an expiry
\* is never negative or beyond the largest time.
THEOREM TypeCorrect == ConsentSpec => []ConsentTypeOK
<1>1. IInv => ConsentTypeOK
  BY DEF IInv
<1> QED BY <1>1, Inductive, PTL

\* verify_and_consume hands out one authorization per token, for any number of
\* processes and whatever overlapping removals report.
THEOREM TokenUsedOnce == ConsentSpec => []SingleUse
<1>1. IInv => SingleUse
  BY DEF IInv
<1> QED BY <1>1, Inductive, PTL

-----------------------------------------------------------------------------
(***************************************************************************)
(* Revocation.  Both properties rest on one fact about the directory: a    *)
(* token that was handed out and whose file is gone never gets a file      *)
(* again, because the random source repeats no token.                      *)
(***************************************************************************)

\* The file of a token that was handed out never comes back, and no file gets
\* a legacy name.
LEMMA GoneForGood ==
    ASSUME IInv, [ConsentNext]_consent_vars
    PROVE  /\ issued \subseteq issued'
           /\ \A t \in issued : name[t] = "absent" => name'[t] = "absent"
           /\ \A t \in Tokens : name'[t] \in {name[t], "absent", "hashed"}
<1> USE CallTyped DEF Busy
<1>1. CASE UNCHANGED consent_vars
  BY <1>1 DEF consent_vars
<1>2. CASE list_tokens \/ Tick
  BY <1>2 DEF list_tokens, prune, Tick, file, IInv, ConsentTypeOK
<1>3. ASSUME NEW t \in Tokens, NEW c \in Commands, NEW ttl \in TTLs, issue_token(t, c, ttl)
      PROVE  /\ issued \subseteq issued'
             /\ \A u \in issued : name[u] = "absent" => name'[u] = "absent"
             /\ \A u \in Tokens : name'[u] \in {name[u], "absent", "hashed"}
           /\ \A u \in Tokens : name'[u] \in {name[u], "absent", "hashed"}
  BY <1>3 DEF issue_token, IInv, ConsentTypeOK
<1>4. ASSUME NEW p \in Callers, CallStep(p)
      PROVE  /\ issued \subseteq issued'
             /\ \A t \in issued : name[t] = "absent" => name'[t] = "absent"
             /\ \A t \in Tokens : name'[t] \in {name[t], "absent", "hashed"}
           /\ \A t \in Tokens : name'[t] \in {name[t], "absent", "hashed"}
  <2>1. CASE \/ look_hashed(p) \/ not_found(p) \/ locked(p) \/ revoke_all_done(p)
             \/ \E t \in Tokens : revoke_next(p, t)
    BY <2>1 DEF look_hashed, not_found, locked, revoke_all_done, revoke_next, file
  <2>2. CASE verify_token(p) \/ lock_token(p) \/ remove_file_begin(p)
    <3>1. /\ calling[p].token \in Tokens /\ name[calling[p].token] # "absent"
          /\ issued' = issued
          /\ \/ name' = [name EXCEPT ![calling[p].token] = "hashed"]
             \/ name' = [name EXCEPT ![calling[p].token] = "absent"]
      BY <2>2 DEF verify_token, lock_token, remove_file_begin, FileFound, Working
    <3> QED BY <3>1
  <2>3. CASE remove_file(p) \/ remove_file_end(p)
    BY <2>3 DEF remove_file, remove_file_end, removed
  <2> QED BY <1>4, <2>1, <2>2, <2>3 DEF CallStep
<1>5. ASSUME NEW p \in Callers,
             \/ \E t \in Tokens : \/ \E c \in Commands : authorize(p, t, c)
                                  \/ revoke(p, t)
             \/ revoke_all(p) \/ caller_dies(p)
      PROVE  /\ issued \subseteq issued'
             /\ \A t \in issued : name[t] = "absent" => name'[t] = "absent"
             /\ \A t \in Tokens : name'[t] \in {name[t], "absent", "hashed"}
           /\ \A t \in Tokens : name'[t] \in {name[t], "absent", "hashed"}
  BY <1>5 DEF authorize, revoke, revoke_all, caller_dies, prune, file
<1> QED BY <1>1, <1>2, <1>3, <1>4, <1>5 DEF ConsentNext

\* Where remove_file is atomic nobody is halfway through one, and a token
\* that was revoked has no file and no use.
RevokedIsGone ==
    /\ \A p \in Callers : calling[p].step # "unlink"
    /\ \A t \in revoked : name[t] = "absent" /\ granted[t] = 0

\* What a step makes of the tokens' uses and revocations: only a caller that
\* finds the file reports either, and removes it.
LEMMA UsesAndRevocations ==
    ASSUME IInv, ~Overlap, \A p \in Callers : calling[p].step # "unlink", [ConsentNext]_consent_vars
    PROVE  \/ UNCHANGED <<granted, revoked>>
           \/ \E p \in Callers : /\ calling[p].token \in issued
                                 /\ name[calling[p].token] # "absent"
                                 /\ removed(p)
<1>1. ASSUME NEW p \in Callers, CallStep(p)
      PROVE  \/ UNCHANGED <<granted, revoked>>
             \/ /\ calling[p].token \in issued
                /\ name[calling[p].token] # "absent"
                /\ removed(p)
  <2>1. CASE remove_file(p)
    BY <2>1, CallTyped DEF remove_file, FileFound, Working, Busy
  <2>2. ~remove_file_end(p) /\ ~remove_file_begin(p)
    BY DEF remove_file_end, remove_file_begin, Working
  <2> QED BY <1>1, <2>1, <2>2 DEF CallStep, look_hashed, not_found, locked, revoke_all_done,
             revoke_next, verify_token, lock_token
<1> QED BY <1>1 DEF ConsentNext, consent_vars, issue_token, list_tokens, Tick, authorize, revoke,
           revoke_all, caller_dies

\* Where remove_file is atomic no step leaves a removal half done.
LEMMA NoneUnlinks ==
    ASSUME IInv, ~Overlap, \A p \in Callers : calling[p].step # "unlink", [ConsentNext]_consent_vars
    PROVE  \A p \in Callers : calling'[p].step # "unlink"
<1> SUFFICES ASSUME NEW q \in Callers PROVE calling'[q].step # "unlink"
  OBVIOUS
<1> USE CallTyped DEF Calls
<1>0. calling \in [Callers -> Calls]
  BY DEF IInv, ConsentTypeOK, Calls, Steps, Looks
<1>1. CASE calling' = calling
  BY <1>1
<1>2. ASSUME NEW p \in Callers, call_returns(p) PROVE calling'[q].step # "unlink"
  BY <1>0, <1>2 DEF call_returns, IdleCall
<1>3. ASSUME NEW p \in Callers, NEW s \in {"verify", "lock", "wait", "remove"},
             NEW l \in Looks, advance(p, s, l)
      PROVE  calling'[q].step # "unlink"
  BY <1>0, <1>3 DEF advance
<1>4. ASSUME NEW p \in Callers, CallStep(p) PROVE calling'[q].step # "unlink"
  <2>1. ~remove_file_end(p) /\ ~remove_file_begin(p)
    BY DEF remove_file_end, remove_file_begin, Working
  <2>2. CASE not_found(p) \/ remove_file(p)
    BY <1>2, <2>2 DEF not_found, remove_file, removed
  <2>3. CASE look_hashed(p)
    BY <1>3, <2>3 DEF look_hashed, Looks
  <2>4. CASE verify_token(p)
    BY <1>2, <1>3, <2>4 DEF verify_token, Looks
  <2>5. CASE lock_token(p) \/ locked(p)
    BY <1>3, <2>5 DEF lock_token, locked, Looks
  <2>6. CASE (\E t \in Tokens : revoke_next(p, t)) \/ revoke_all_done(p)
    <3>1. ASSUME NEW t \in Tokens, revoke_next(p, t) PROVE calling'[q].step # "unlink"
      <4> DEFINE v == [calling[p] EXCEPT !.left = @ \ {t}, !.token = t,
                                      !.step = "remove", !.look = "hashed"]
      <4>1. v.step = "remove"
        OBVIOUS
      <4>2. calling' = [calling EXCEPT ![p] = v]
        BY <3>1 DEF revoke_next
      <4> HIDE DEF v
      <4> QED BY <1>0, <4>1, <4>2
    <3> QED BY <1>0, <2>6, <3>1 DEF revoke_all_done, IdleCall
  <2> QED BY <1>4, <2>1, <2>2, <2>3, <2>4, <2>5, <2>6 DEF CallStep
<1>5. ASSUME NEW p \in Callers,
             \/ \E t \in Tokens : \/ \E c \in Commands : authorize(p, t, c)
                                  \/ revoke(p, t)
             \/ revoke_all(p) \/ caller_dies(p)
      PROVE  calling'[q].step # "unlink"
  <2>1. ASSUME NEW v, calling' = [calling EXCEPT ![p] = v], v.step # "unlink"
        PROVE  calling'[q].step # "unlink"
    BY <1>0, <2>1
  <2>2. ASSUME NEW t \in Tokens, NEW c \in Commands, authorize(p, t, c)
        PROVE  calling'[q].step # "unlink"
    <3>1. [IdleCall EXCEPT !.kind = "authorize", !.token = t, !.cmd = c,
                       !.step = "verify", !.look = "hashed"].step # "unlink"
      BY DEF IdleCall
    <3> QED BY <2>1, <2>2, <3>1 DEF authorize
  <2>3. ASSUME NEW t \in Tokens, revoke(p, t) PROVE calling'[q].step # "unlink"
    <3>1. [IdleCall EXCEPT !.kind = "revoke", !.token = t,
                       !.step = "remove", !.look = "hashed"].step # "unlink"
      BY DEF IdleCall
    <3> QED BY <2>1, <2>3, <3>1 DEF revoke
  <2>4. CASE revoke_all(p)
    <3>1. [IdleCall EXCEPT !.kind = "revoke_all", !.step = "next",
                       !.left = listed, !.done = listed].step # "unlink"
      BY DEF IdleCall
    <3> QED BY <2>1, <2>4, <3>1 DEF revoke_all
  <2>5. CASE caller_dies(p)
    BY <2>1, <2>5 DEF caller_dies, IdleCall
  <2> QED BY <1>5, <2>2, <2>3, <2>4, <2>5
<1>6. ASSUME NEW t \in Tokens, NEW c \in Commands, NEW ttl \in TTLs, issue_token(t, c, ttl)
      PROVE  calling'[q].step # "unlink"
  BY <1>6 DEF issue_token
<1> QED BY <1>1, <1>4, <1>5, <1>6 DEF ConsentNext, consent_vars, list_tokens, Tick

\* A token whose revocation was reported never authorizes anything, for any
\* number of processes, where remove_file is atomic.
THEOREM RevokedStaysUnused == ASSUME ~Overlap PROVE ConsentSpec => []RevokedIsUnused
<1>1. ConsentInit => RevokedIsGone
  BY DEF ConsentInit, RevokedIsGone, IdleCall
<1>2. IInv /\ RevokedIsGone /\ [ConsentNext]_consent_vars => RevokedIsGone'
  <2> SUFFICES ASSUME IInv, RevokedIsGone, [ConsentNext]_consent_vars PROVE RevokedIsGone'
    OBVIOUS
  <2>1. \A p \in Callers : calling'[p].step # "unlink"
    BY NoneUnlinks DEF RevokedIsGone
  <2>2. \A t \in revoked : name'[t] = "absent"
    BY GoneForGood DEF RevokedIsGone, IInv, ConsentTypeOK, UsedIsGone
  <2>3. CASE UNCHANGED <<granted, revoked>>
    BY <2>1, <2>2, <2>3 DEF RevokedIsGone
  <2>4. ASSUME NEW p \in Callers, calling[p].token \in issued,
               name[calling[p].token] # "absent", removed(p)
        PROVE  RevokedIsGone'
    <3>1. /\ calling[p].token \in Tokens /\ calling[p].token \notin revoked
          /\ granted[calling[p].token] = 0
      BY <2>4, CallTyped DEF RevokedIsGone, IInv, UsedIsGone
    <3>2. name'[calling[p].token] = "absent"
      BY <2>4, <3>1, CallTyped DEF removed
    <3>3. \A t \in revoked' : granted'[t] = 0
      BY <2>4, <3>1 DEF removed, RevokedIsGone, IInv, ConsentTypeOK
    <3>4. \A t \in revoked' : name'[t] = "absent"
      BY <2>2, <2>4, <3>2 DEF removed
    <3> QED BY <2>1, <3>3, <3>4 DEF RevokedIsGone
  <2> QED BY <2>3, <2>4, UsesAndRevocations DEF RevokedIsGone
<1>3. RevokedIsGone => RevokedIsUnused
  BY DEF RevokedIsGone, RevokedIsUnused
<1> QED BY <1>1, <1>2, <1>3, Inductive, PTL DEF ConsentSpec

\* How far the calls are, where no token has a legacy name: a caller that is
\* looking for the legacy name found the file gone, and a revoke_all has got
\* rid of the tokens it is through with.
InTurn(p) ==
    /\ calling[p].done \subseteq issued
    /\ calling[p].step \in {"verify", "lock", "remove"} /\ calling[p].look = "legacy"
         => name[calling[p].token] = "absent"
    /\ \A t \in calling[p].done \ calling[p].left :
         \/ name[t] = "absent"
         \/ t = calling[p].token /\ calling[p].step \in {"remove", "unlink"}

AllInTurn ==
    /\ \A t \in Tokens : name[t] # "legacy"
    /\ \A p \in Callers : InTurn(p)

\* The step of one caller leaves the others in turn, and itself if the record
\* of its call says so.
LEMMA OthersInTurn ==
    ASSUME IInv, [ConsentNext]_consent_vars, AllInTurn, NEW p \in Callers,
           NEW v \in Calls, calling' = [calling EXCEPT ![p] = v],
           v.done \subseteq issued,
           v.step \in {"verify", "lock", "remove"} /\ v.look = "legacy"
             => name'[v.token] = "absent",
           \A t \in v.done \ v.left :
             name'[t] = "absent" \/ (t = v.token /\ v.step \in {"remove", "unlink"})
    PROVE  AllInTurn'
<1>1. /\ calling'[p] = v /\ \A q \in Callers \ {p} : calling'[q] = calling[q]
  BY DEF IInv, ConsentTypeOK
<1>2. InTurn(p)'
  BY <1>1, GoneForGood DEF InTurn
<1>3. ASSUME NEW q \in Callers \ {p} PROVE InTurn(q)'
  <2>1. InTurn(q) /\ calling'[q] = calling[q] /\ (calling[q].step \in Busy => calling[q].token \in issued)
    BY <1>1, CallTyped DEF AllInTurn
  <2> QED BY <2>1, GoneForGood DEF InTurn, Busy
<1> QED BY <1>2, <1>3, GoneForGood DEF AllInTurn

\* A call that returns, or a revoke_all that ends its turn for a token whose
\* file is gone.
LEMMA ReturnsInTurn ==
    ASSUME IInv, [ConsentNext]_consent_vars, AllInTurn, NEW p \in Callers, call_returns(p),
           calling[p].kind = "revoke_all" => name'[calling[p].token] = "absent"
    PROVE  AllInTurn'
<1>1. InTurn(p) /\ calling[p] \in Calls
  BY CallTyped DEF AllInTurn
<1>2. CASE calling[p].kind = "revoke_all"
  <2> DEFINE v == [calling[p] EXCEPT !.step = "next", !.look = "none"]
  <2>1. v \in Calls /\ v.step = "next" /\ v.done = calling[p].done /\ v.left = calling[p].left
    BY <1>1 DEF Calls, Steps, Looks
  <2>2. calling' = [calling EXCEPT ![p] = v]
    BY <1>2 DEF call_returns
  <2> HIDE DEF v
  <2>3. v.done \subseteq issued /\ \A t \in v.done \ v.left : name'[t] = "absent"
    BY <1>1, <1>2, <2>1, GoneForGood DEF InTurn
  <2> QED BY <2>1, <2>2, <2>3, OthersInTurn
<1>3. CASE calling[p].kind # "revoke_all"
  <2>1. IdleCall \in Calls /\ IdleCall.step = "none" /\ IdleCall.done = {}
    BY CallTyped DEF IdleCall
  <2>2. calling' = [calling EXCEPT ![p] = IdleCall]
    BY <1>3 DEF call_returns
  <2> QED BY <2>1, <2>2, OthersInTurn
<1> QED BY <1>2, <1>3

\* A call that goes on with its token keeps to its turn.
LEMMA AdvancesInTurn ==
    ASSUME IInv, [ConsentNext]_consent_vars, AllInTurn, NEW p \in Callers,
           NEW s \in Steps, NEW l \in Looks, advance(p, s, l),
           s \in {"verify", "lock", "remove"} /\ l = "legacy"
             => name'[calling[p].token] = "absent",
           calling[p].step \in {"remove", "unlink"} => s \in {"remove", "unlink"}
    PROVE  AllInTurn'
<1> DEFINE v == [calling[p] EXCEPT !.step = s, !.look = l]
<1>1. /\ v \in Calls /\ v.step = s /\ v.look = l /\ v.token = calling[p].token
      /\ v.done = calling[p].done /\ v.left = calling[p].left
  BY CallTyped DEF Calls
<1>2. calling' = [calling EXCEPT ![p] = v]
  BY DEF advance
<1>3. InTurn(p)
  BY DEF AllInTurn
<1> HIDE DEF v
<1>4. /\ v.done \subseteq issued
      /\ \A t \in v.done \ v.left :
           name'[t] = "absent" \/ (t = v.token /\ v.step \in {"remove", "unlink"})
  <2>1. v.done \subseteq issued
    BY <1>1, <1>3 DEF InTurn
  <2>2. ASSUME NEW t \in calling[p].done \ calling[p].left
        PROVE  name'[t] = "absent" \/ (t = calling[p].token /\ s \in {"remove", "unlink"})
    BY <1>3, GoneForGood DEF InTurn
  <2> QED BY <1>1, <2>1, <2>2
<1> QED BY <1>1, <1>2, <1>4, OthersInTurn

\* A step that leaves the calls alone keeps them in turn.
LEMMA SameCallsInTurn ==
    ASSUME IInv, [ConsentNext]_consent_vars, AllInTurn, UNCHANGED calling
    PROVE  AllInTurn'
<1>1. ASSUME NEW q \in Callers PROVE InTurn(q)'
  <2>1. InTurn(q) /\ calling'[q] = calling[q] /\ (calling[q].step \in Busy => calling[q].token \in issued)
    BY CallTyped DEF AllInTurn
  <2> QED BY <2>1, GoneForGood DEF InTurn, Busy
<1> QED BY <1>1, GoneForGood DEF AllInTurn

\* Every step keeps the calls in turn.
LEMMA NextInTurn ==
    ASSUME IInv, [ConsentNext]_consent_vars, AllInTurn
    PROVE  AllInTurn'
<1>1. CASE UNCHANGED calling
  BY <1>1, SameCallsInTurn
<1>2. ASSUME NEW p \in Callers, CallStep(p) PROVE AllInTurn'
  <2>0. InTurn(p) /\ \A t \in Tokens : name[t] # "legacy"
    BY DEF AllInTurn
  <2>1. CASE look_hashed(p)
    <3>1. name'[calling[p].token] = "absent"
      <4>1. calling[p].token \in Tokens /\ name[calling[p].token] # "hashed" /\ name' = name
        BY <2>1, CallTyped DEF look_hashed, file, Busy
      <4> QED BY <2>0, <4>1, CallTyped DEF Name
    <3> QED BY <2>1, <3>1, AdvancesInTurn DEF look_hashed, Steps, Looks
  <2>2. CASE not_found(p)
    <3>1. name'[calling[p].token] = "absent"
      BY <2>0, <2>2 DEF not_found, Missing, InTurn, file
    <3> QED BY <2>2, <3>1, ReturnsInTurn DEF not_found
  <2>3. CASE verify_token(p)
    <3>1. CASE call_returns(p)
      <4>1. calling[p].token \in Tokens /\ calling[p].step = "verify"
        BY <2>3, CallTyped DEF verify_token, Working, Busy
      <4>2. CASE calling[p].kind = "revoke_all"
        <5> DEFINE v == [calling[p] EXCEPT !.step = "next", !.look = "none"]
        <5>1. v \in Calls /\ v.step = "next" /\ v.done = calling[p].done
              /\ v.left = calling[p].left
          BY CallTyped DEF Calls, Steps, Looks
        <5>2. calling' = [calling EXCEPT ![p] = v]
          BY <3>1, <4>2 DEF call_returns
        <5> HIDE DEF v
        <5>3. v.done \subseteq issued /\ \A t \in v.done \ v.left : name'[t] = "absent"
          BY <2>0, <4>1, <5>1, GoneForGood DEF InTurn
        <5> QED BY <5>1, <5>2, <5>3, OthersInTurn
      <4> QED BY <3>1, <4>2, ReturnsInTurn
    <3>2. CASE advance(p, "lock", "hashed")
      BY <2>3, <3>2, AdvancesInTurn DEF verify_token, Working, Steps, Looks
    <3> QED BY <2>3, <3>1, <3>2 DEF verify_token
  <2>4. CASE lock_token(p) \/ locked(p) \/ remove_file_begin(p)
    BY <2>4, AdvancesInTurn
       DEF lock_token, locked, remove_file_begin, Working, Steps, Looks
  <2>5. CASE remove_file(p) \/ remove_file_end(p)
    <3>1. calling[p].token \in Tokens /\ removed(p)
      BY <2>5, CallTyped DEF remove_file, remove_file_end, Working, Busy
    <3>2. call_returns(p) /\ name'[calling[p].token] = "absent"
      BY <3>1, CallTyped DEF removed
    <3> QED BY <3>2, ReturnsInTurn
  <2>6. ASSUME NEW t \in Tokens, revoke_next(p, t) PROVE AllInTurn'
    <3> DEFINE v == [calling[p] EXCEPT !.left = @ \ {t}, !.token = t,
                                    !.step = "remove", !.look = "hashed"]
    <3>1. /\ v \in Calls /\ v.step = "remove" /\ v.look = "hashed" /\ v.token = t
          /\ v.done = calling[p].done /\ v.left = calling[p].left \ {t}
      BY CallTyped DEF Calls, Steps, Looks
    <3>2. calling' = [calling EXCEPT ![p] = v] /\ calling[p].step = "next"
      BY <2>6 DEF revoke_next, Working
    <3> HIDE DEF v
    <3> QED BY <2>0, <3>1, <3>2, GoneForGood, OthersInTurn DEF InTurn
  <2>7. CASE revoke_all_done(p)
    <3>1. IdleCall \in Calls /\ IdleCall.step = "none" /\ IdleCall.done = {}
      BY CallTyped DEF IdleCall
    <3> QED BY <2>7, <3>1, OthersInTurn DEF revoke_all_done
  <2> QED BY <1>2, <2>1, <2>2, <2>3, <2>4, <2>5, <2>6, <2>7 DEF CallStep
<1>3. ASSUME NEW p \in Callers,
             \/ \E t \in Tokens : \/ \E c \in Commands : authorize(p, t, c)
                                  \/ revoke(p, t)
             \/ caller_dies(p)
      PROVE  AllInTurn'
  <2>1. ASSUME NEW v \in Calls, calling' = [calling EXCEPT ![p] = v], v.done = {},
               v.look # "legacy"
        PROVE  AllInTurn'
    BY <2>1, OthersInTurn
  <2>2. ASSUME NEW t \in Tokens, NEW c \in Commands, authorize(p, t, c) PROVE AllInTurn'
    <3> DEFINE v == [IdleCall EXCEPT !.kind = "authorize", !.token = t, !.cmd = c,
                                 !.step = "verify", !.look = "hashed"]
    <3>1. v \in Calls /\ v.done = {} /\ v.look # "legacy"
      BY DEF IdleCall, Calls, Steps, Looks
    <3> QED BY <2>1, <2>2, <3>1 DEF authorize
  <2>3. ASSUME NEW t \in Tokens, revoke(p, t) PROVE AllInTurn'
    <3> DEFINE v == [IdleCall EXCEPT !.kind = "revoke", !.token = t,
                                 !.step = "remove", !.look = "hashed"]
    <3>1. v \in Calls /\ v.done = {} /\ v.look # "legacy"
      BY DEF IdleCall, Calls, Steps, Looks
    <3> QED BY <2>1, <2>3, <3>1 DEF revoke
  <2>4. CASE caller_dies(p)
    <3>1. IdleCall \in Calls /\ IdleCall.done = {} /\ IdleCall.look # "legacy"
      BY CallTyped DEF IdleCall
    <3> QED BY <2>1, <2>4, <3>1 DEF caller_dies
  <2> QED BY <1>3, <2>2, <2>3, <2>4
<1>4. ASSUME NEW p \in Callers, revoke_all(p) PROVE AllInTurn'
  <2> DEFINE v == [IdleCall EXCEPT !.kind = "revoke_all", !.step = "next",
                               !.left = listed, !.done = listed]
  <2>1. v \in Calls /\ v.step = "next" /\ v.done = listed /\ v.left = listed
    BY DEF IdleCall, Calls, Steps, Looks, listed
  <2>2. listed \subseteq issued
    BY DEF listed, IInv, UsedIsGone
  <2>3. calling' = [calling EXCEPT ![p] = v]
    BY <1>4 DEF revoke_all
  <2> HIDE DEF v
  <2> QED BY <2>1, <2>2, <2>3, OthersInTurn
<1>5. ASSUME NEW t \in Tokens, NEW c \in Commands, NEW ttl \in TTLs, issue_token(t, c, ttl)
      PROVE  AllInTurn'
  BY <1>1, <1>5 DEF issue_token
<1> QED BY <1>1, <1>2, <1>3, <1>4, <1>5 DEF ConsentNext, consent_vars, list_tokens, Tick

\* When revoke_all returns, none of the tokens it listed has a file: for any
\* number of processes that use, revoke and list at the same time, and also
\* where removals overlap, as long as no token has a legacy name.
THEOREM RevokeAllIsComplete == ASSUME Legacy = {} PROVE ConsentSpec => RevokesAll
<1>1. ConsentInit => AllInTurn
  BY DEF ConsentInit, AllInTurn, InTurn, IdleCall
<1>2. IInv /\ AllInTurn /\ [ConsentNext]_consent_vars => AllInTurn'
  BY NextInTurn
<1>3. IInv /\ AllInTurn =>
        [\A p \in Callers :
           revoke_all_done(p) => \A t \in calling[p].done : name[t] = "absent"]_consent_vars
  BY DEF AllInTurn, InTurn, revoke_all_done, Working
<1> QED BY <1>1, <1>2, <1>3, Inductive, PTL DEF ConsentSpec, RevokesAll
=============================================================================
