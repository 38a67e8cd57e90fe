-------------------------------- MODULE Inbox --------------------------------
(***************************************************************************)
(* Polling the mailbox for replies: crates/symeraseme-core/src/email/      *)
(* policy.rs, service.rs and hwm.rs, as called by poll_inbox of the MCP    *)
(* handler.  A poll goes through a list of folders; in each it asks for    *)
(* the messages above the folder's high-water mark, fetches the oldest of  *)
(* them and stages a new mark.  When all folders are done it hands the     *)
(* replies to a reply store, then commits the staged marks, and then       *)
(* returns the replies.  Any error ends the poll and drops what is staged. *)
(*                                                                         *)
(* The mailbox changes while a poll is under way.  A mail is represented   *)
(* by its Message-ID.                                                      *)
(***************************************************************************)
EXTENDS Integers, FiniteSets, FiniteSetsExt, Functions, Sequences

CONSTANTS Folders, Mails, None,
          Delivered,     \* the mails that arrive in each folder
          FolderLists,   \* the `folders' argument of callers
          max_messages,  \* 50 in the code
          U32MAX,        \* the largest UID
          MaxUid,        \* bound on the UIDs in use
          MaxValidity,   \* bound on the UIDVALIDITY changes
          Old,           \* mails the since_days filter drops
          Unparsable,    \* mails that are not RFC 5322
          Persistent,    \* a HwmStore was injected
          Storing,       \* a ReplyStore was passed
          Expunged,      \* folders that mails disappear from
          Rebuilt,       \* folders whose UIDVALIDITY changes
          MayFail        \* polls may fail at any step

ASSUME InboxAssumption ==
    /\ Delivered \in [Folders -> SUBSET Mails]
    /\ FolderLists \subseteq Seq(Folders)
    /\ max_messages \in Nat \ {0}
    /\ U32MAX \in Nat /\ MaxUid \in 0..U32MAX /\ MaxValidity \in Nat \ {0}
    /\ Old \subseteq Mails /\ Unparsable \subseteq Mails
    /\ Persistent \in BOOLEAN /\ Storing \in BOOLEAN
    /\ Expunged \subseteq Folders /\ Rebuilt \subseteq Folders
    /\ MayFail \in BOOLEAN
    /\ None \notin Mails /\ None \notin [validity : Nat, last : Nat]

UIDs == 1..MaxUid

VARIABLES box,       \* the folders on the server
          hwm,       \* the injected HwmStore
          poll,      \* the poll under way
          kept,      \* mails the ReplyStore has inserted
          returned,  \* mails the callers of poll_inbox got
          flaky      \* connections and stores still fail

vars == <<box, hwm, poll, kept, returned, flaky>>

\* `mail' tells the mail of each UID, `next' is UIDNEXT.
Empty(v) == [validity |-> v, next |-> 1, mail |-> [u \in UIDs |-> None]]

Idle == [step |-> "idle", todo |-> <<>>, want |-> {}, validity |-> 0,
         staged |-> <<>>, got |-> {}, left |-> {}]

Init ==
    /\ box = [f \in Folders |-> Empty(1)]
    /\ hwm = [f \in Folders |-> None]
    /\ poll = Idle
    /\ kept = {}
    /\ returned = {}
    /\ flaky = MayFail

Present(f) == {u \in UIDs : box[f].mail[u] # None}

-----------------------------------------------------------------------------
(***************************************************************************)
(* The server (external).                                                  *)
(***************************************************************************)

arrive(f, m) ==
    /\ m \in Delivered[f]
    /\ box[f].next <= MaxUid
    /\ \A u \in UIDs : box[f].mail[u] # m
    /\ box' = [box EXCEPT ![f] =
         [validity |-> box[f].validity, next |-> box[f].next + 1,
          mail |-> [box[f].mail EXCEPT ![box[f].next] = m]]]
    /\ UNCHANGED <<hwm, poll, kept, returned, flaky>>

expunge(f, u) ==
    /\ f \in Expunged
    /\ u \in Present(f)
    /\ box' = [box EXCEPT ![f] = [@ EXCEPT !.mail[u] = None]]
    /\ UNCHANGED <<hwm, poll, kept, returned, flaky>>

\* The folder is rebuilt: its mails are numbered anew, in any order.
reset(f) ==
    /\ f \in Rebuilt
    /\ box[f].validity < MaxValidity
    /\ LET n == Cardinality(Present(f)) IN
         \E old \in Bijection(1..n, Present(f)) :
           box' = [box EXCEPT ![f] =
             [validity |-> box[f].validity + 1, next |-> n + 1,
              mail |-> [u \in UIDs |-> IF u <= n THEN box[f].mail[old[u]] ELSE None]]]
    /\ UNCHANGED <<hwm, poll, kept, returned, flaky>>

\* UID SEARCH UID start:*, which names the last message in any case.  The
\* client leaves the date out of the search.
search_uid(f, start) ==
    {u \in Present(f) : u >= start \/ \A w \in Present(f) : w <= u}

-----------------------------------------------------------------------------
(***************************************************************************)
(* One folder: poll_inbox_with_defaults.                                   *)
(***************************************************************************)

\* StagingHwmStore::get: the last staged record, or the injected store's.
Staged(f) == {i \in DOMAIN poll.staged : poll.staged[i].folder = f}

get(f) ==
    IF Staged(f) # {}
    THEN [validity |-> poll.staged[Max(Staged(f))].validity,
          last |-> poll.staged[Max(Staged(f))].last]
    ELSE IF Persistent THEN hwm[f] ELSE None

\* Faulty variant: the UIDVALIDITY of the folder before is staged.
set_StaleValidity(f, v, uid) ==
    poll' = [poll EXCEPT !.staged = Append(@, [folder |-> f, validity |-> poll.validity,
                                               last |-> uid]),
                         !.todo = Tail(@), !.step = "folder", !.want = {}]

\* StagingHwmStore::set, with which a folder is done.
set(f, v, uid) ==
    poll' = [poll EXCEPT !.staged = Append(@, [folder |-> f, validity |-> v, last |-> uid]),
                         !.todo = Tail(@), !.step = "folder", !.want = {}]

\* Faulty variant: the mark is used whatever UIDVALIDITY it was observed under.
Start_AnyValidity(f) == IF get(f) # None THEN get(f).last + 1 ELSE 1

Start(f) ==
    IF get(f) # None /\ get(f).validity = box[f].validity
    THEN get(f).last + 1 ELSE 1


\* last == u32::MAX: there is no UID to start from.
Exhausted(f) == Start(f) > U32MAX

\* The oldest window of the pending messages.
Window(S) == {u \in S : Cardinality({w \in S : w <= u}) <= max_messages}

poll_begin(fs) ==
    /\ poll = Idle
    /\ poll' = [Idle EXCEPT !.step = "folder", !.todo = fs]
    /\ UNCHANGED <<box, hwm, kept, returned, flaky>>

\* EXAMINE, the mark, and UID SEARCH.  An empty answer keeps the last UID.
poll_search ==
    /\ poll.step = "folder"
    /\ poll.todo # <<>>
    /\ LET f == Head(poll.todo)
           found == search_uid(f, Start(f))
       IN  /\ ~Exhausted(f)
           /\ \/ /\ found = {}
                 /\ set(f, box[f].validity, IF get(f) = None THEN 0 ELSE get(f).last)
              \/ /\ found # {}
                 /\ poll' = [poll EXCEPT !.step = "fetch", !.want = Window(found),
                                         !.validity = box[f].validity]
    /\ UNCHANGED <<box, hwm, kept, returned, flaky>>

\* "UID range exhausted"
poll_exhausted ==
    /\ poll.step = "folder"
    /\ poll.todo # <<>>
    /\ Exhausted(Head(poll.todo))
    /\ poll' = Idle
    /\ UNCHANGED <<box, hwm, kept, returned, flaky>>

\* parse_fetched_message fails on one of the requested messages.
Malformed(f) == \E u \in poll.want : box[f].mail[u] \in Unparsable

\* UID FETCH answers with every requested message and all of them can be
\* parsed; the filter drops some, the mark counts them all.
poll_fetch ==
    /\ poll.step = "fetch"
    /\ LET f == Head(poll.todo) IN
         /\ box[f].validity = poll.validity
         /\ poll.want \subseteq Present(f)
         /\ ~Malformed(f)
         /\ poll' = [poll EXCEPT
              !.staged = Append(@, [folder |-> f, validity |-> poll.validity,
                                    last |-> Max(poll.want)]),
              !.got = @ \cup ({box[f].mail[u] : u \in poll.want} \ Old),
              !.todo = Tail(@), !.step = "folder", !.want = {}]
    /\ UNCHANGED <<box, hwm, kept, returned, flaky>>

\* The answer omits a message that is gone, or the folder is not the same.
poll_omitted ==
    /\ poll.step = "fetch"
    /\ LET f == Head(poll.todo) IN
         box[f].validity # poll.validity \/ ~(poll.want \subseteq Present(f))
    /\ poll' = Idle
    /\ UNCHANGED <<box, hwm, kept, returned, flaky>>

\* "parse fetched message failed": the mark stays below the message, so the
\* next poll fetches it again.
poll_malformed ==
    /\ poll.step = "fetch"
    /\ LET f == Head(poll.todo) IN
         box[f].validity = poll.validity /\ poll.want \subseteq Present(f) /\ Malformed(f)
    /\ poll' = Idle
    /\ UNCHANGED <<box, hwm, kept, returned, flaky>>

-----------------------------------------------------------------------------
(***************************************************************************)
(* After the folders: poll_and_match.                                      *)
(***************************************************************************)

\* Faulty variant: the marks are committed and the replies not yet stored.
match_reply_to_request_Unstored ==
    /\ poll.step = "folder"
    /\ poll.todo = <<>>
    /\ poll' = [poll EXCEPT !.step = "commit", !.left = {}]
    /\ UNCHANGED <<box, hwm, kept, returned, flaky>>

\* Each mail gets a request or stays unmatched, and goes to the store as well.
match_reply_to_request ==
    /\ poll.step = "folder"
    /\ poll.todo = <<>>
    /\ poll' = [poll EXCEPT !.step = "insert",
                            !.left = IF Storing THEN poll.got ELSE {}]
    /\ UNCHANGED <<box, hwm, kept, returned, flaky>>

insert(m) ==
    /\ poll.step = "insert"
    /\ m \in poll.left
    /\ kept' = kept \cup {m}
    /\ poll' = [poll EXCEPT !.left = @ \ {m}]
    /\ UNCHANGED <<box, hwm, returned, flaky>>

insert_done ==
    /\ poll.step = "insert"
    /\ poll.left = {}
    /\ poll' = [poll EXCEPT !.step = "commit"]
    /\ UNCHANGED <<box, hwm, kept, returned, flaky>>

\* StagingHwmStore::commit, one record after the other.
commit ==
    /\ poll.step = "commit"
    /\ poll.staged # <<>>
    /\ LET s == Head(poll.staged) IN
         hwm' = IF Persistent
                THEN [hwm EXCEPT ![s.folder] = [validity |-> s.validity, last |-> s.last]]
                ELSE hwm
    /\ poll' = [poll EXCEPT !.staged = Tail(@)]
    /\ UNCHANGED <<box, kept, returned, flaky>>

poll_return ==
    /\ poll.step = "commit"
    /\ poll.staged = <<>>
    /\ returned' = returned \cup poll.got
    /\ poll' = Idle
    /\ UNCHANGED <<box, hwm, kept, flaky>>

\* A connection, a store or the process fails: nothing staged survives.
poll_error ==
    /\ flaky
    /\ poll # Idle
    /\ poll' = Idle
    /\ UNCHANGED <<box, hwm, kept, returned, flaky>>

\* The last of these failures is over.
recover ==
    /\ flaky
    /\ flaky' = FALSE
    /\ UNCHANGED <<box, hwm, poll, kept, returned>>

-----------------------------------------------------------------------------

PollStep ==
    \/ poll_search \/ poll_exhausted \/ poll_fetch \/ poll_omitted \/ poll_malformed
    \/ match_reply_to_request \/ \E m \in Mails : insert(m)
    \/ insert_done \/ commit \/ poll_return

Next ==
    \/ \E f \in Folders : \/ \E m \in Mails : arrive(f, m)
                          \/ \E u \in UIDs : expunge(f, u)
                          \/ reset(f)
    \/ \E fs \in FolderLists : poll_begin(fs)
    \/ PollStep
    \/ poll_error
    \/ recover

Spec == Init /\ [][Next]_vars

\* Polls run to their end, every list of folders is polled again, and in the
\* end the connection stops failing.
FairSpec ==
    /\ Spec
    /\ WF_vars(recover)
    /\ WF_vars(PollStep)
    /\ \A fs \in FolderLists : SF_vars(poll_begin(fs))

-----------------------------------------------------------------------------

Marks == [validity : 1..MaxValidity, last : 0..MaxUid]

\* The folders, the marks and the poll have their types.
TypeOK ==
    /\ box \in [Folders -> [validity : 1..MaxValidity, next : 1..MaxUid + 1,
                            mail : [UIDs -> Mails \cup {None}]]]
    /\ hwm \in [Folders -> Marks \cup {None}]
    /\ poll.step \in {"idle", "folder", "fetch", "insert", "commit"}
    /\ poll.todo \in Seq(Folders)
    /\ poll.want \subseteq UIDs /\ poll.validity \in 0..MaxValidity
    /\ \A i \in DOMAIN poll.staged :
         /\ poll.staged[i].folder \in Folders
         /\ poll.staged[i].validity \in 1..MaxValidity
         /\ poll.staged[i].last \in 0..MaxUid
    /\ poll.got \subseteq Mails /\ poll.left \subseteq poll.got
    /\ kept \subseteq Mails /\ returned \subseteq Mails
    /\ flaky \in BOOLEAN

\* "no-skip retry behavior" (docs/rust-port/packets/issue-799-0a0134a.md):
\* a mail at or below the mark of its folder has been stored, or the date
\* filter dropped it, wherever polls failed and whatever changed meanwhile.
NoSkip ==
    \A f \in Folders : \A u \in Present(f) :
      (hwm[f] # None /\ hwm[f].validity = box[f].validity /\ u <= hwm[f].last)
        => box[f].mail[u] \in kept \cup Old

\* "Discovered broker replies are ... persisted to inbox_replies"
\* (docs/mcp-contract.md on poll_inbox): a reply that was returned is stored.
\* The tool passes no ReplyStore, and so it is not.
ReturnedIsKept == returned \subseteq kept

\* "poll, correlate, persist, and only then commit the high-water mark"
\* (service.rs): when poll_and_match was given a ReplyStore, every reply is in
\* it before the first mark of any folder moves and before the caller gets it.
PersistBeforeCommit ==
    Storing => /\ poll.step = "commit" => poll.got \subseteq kept
               /\ ReturnedIsKept

\* The tables stay well formed and the service keeps its order, wherever a
\* poll of several folders stops.
InboxInv == TypeOK /\ PersistBeforeCommit


=============================================================================
