----------------------------- MODULE InboxProofs -----------------------------
(***************************************************************************)
(* Polling the mailbox, for any number of folders, mails, UIDs and window  *)
(* sizes.  NoSkip is not inductive: it does not speak of the marks that    *)
(* are staged and of the window a poll has chosen, nor of the UIDs that    *)
(* later mails will get.  A mark covers the mails of its folder up to its  *)
(* last UID; a staged mark may rely on what the poll has got and not yet   *)
(* stored, a committed one only on what is stored.                         *)
(*                                                                         *)
(* Where mails disappear from a folder that is also rebuilt, an empty      *)
(* answer keeps a last UID of the numbering before, and a mark covers      *)
(* mails that nobody has seen: NoSkip is proved where no folder is both.   *)
(***************************************************************************)
EXTENDS Inbox, FiniteSetTheorems, WellFoundedInduction, TLAPS

Mark == [folder : Folders, validity : 1..MaxValidity, last : 0..MaxUid]
PollType == [step : {"idle", "folder", "fetch", "insert", "commit"},
             todo : Seq(Folders), want : SUBSET UIDs, validity : 0..MaxValidity,
             staged : Seq(Mark), got : SUBSET Mails, left : SUBSET Mails]

BoxType == [validity : 1..MaxValidity, next : 1..MaxUid + 1,
            mail : [UIDs -> Mails \cup {None}]]

\* The types, and what a poll has between search and fetch: a folder, the
\* UIDVALIDITY it examined and a window.
StateOk ==
    /\ box \in [Folders -> BoxType]
    /\ hwm \in [Folders -> Marks \cup {None}]
    /\ poll \in PollType
    /\ poll.left \subseteq poll.got
    /\ kept \subseteq Mails
    /\ returned \subseteq Mails
    /\ flaky \in BOOLEAN
    /\ poll.step = "fetch" =>
         poll.todo # <<>> /\ poll.want # {} /\ poll.validity \in 1..MaxValidity

\* With a reply store, replies are stored before the marks are committed and
\* before they are returned.
StoredFirst ==
    Storing => /\ poll.step = "insert" => poll.got \subseteq kept \cup poll.left
               /\ poll.step = "commit" => poll.got \subseteq kept
               /\ ReturnedIsKept

\* UIDs below UIDNEXT are in use, all of them where nothing disappears.
Numbered ==
    \A f \in Folders :
      /\ \A u \in Present(f) : u < box[f].next
      /\ f \notin Expunged => \A u \in UIDs : u < box[f].next => u \in Present(f)

\* The mark m of folder f covers mails of M only.
Covers(f, m, M) ==
    /\ m.validity <= box[f].validity
    /\ m.last < box[f].next
    /\ m.validity = box[f].validity =>
         \A u \in Present(f) : u <= m.last => box[f].mail[u] \in M

Dealt == kept \cup Old

CommittedOk == \A f \in Folders : hwm[f] # None => Covers(f, hwm[f], Dealt)

StagedOk ==
    \A i \in DOMAIN poll.staged :
      Covers(poll.staged[i].folder, poll.staged[i], Dealt \cup poll.got)

\* The window leaves out nothing below its end.
WindowOk ==
    poll.step = "fetch" =>
      /\ poll.validity <= box[Head(poll.todo)].validity
      /\ \A w \in poll.want : w < box[Head(poll.todo)].next
      /\ poll.validity = box[Head(poll.todo)].validity =>
           \A u \in Present(Head(poll.todo)), w \in poll.want :
             u <= w => \/ u \in poll.want
                       \/ box[Head(poll.todo)].mail[u] \in Dealt \cup poll.got

MarksInv == Numbered /\ CommittedOk /\ StagedOk /\ WindowOk

-----------------------------------------------------------------------------
(***************************************************************************)
(* Sets of UIDs.                                                           *)
(***************************************************************************)

\* A set of naturals has a least element.
LEMMA LeastOf ==
    ASSUME NEW S \in SUBSET Nat, S # {}
    PROVE  \E x \in S : \A y \in S : x <= y
<1>1. IsWellFoundedOn(OpToRel(<, Nat), Nat)
  BY NatLessThanWellFounded
<1>2. PICK x \in S : \A y \in S : ~(<<y, x>> \in OpToRel(<, Nat))
  BY <1>1, WFMin, Zenon
<1>3. \A y \in S : ~(y < x)
  BY <1>2 DEF OpToRel
<1> QED
  BY <1>3

\* A set of bounded naturals has a greatest element, and Max names it.
LEMMA MaxOf ==
    ASSUME NEW n \in Nat, NEW S \in SUBSET (0..n), S # {}
    PROVE  /\ Max(S) \in S
           /\ \A y \in S : y <= Max(S)
<1> DEFINE T == {n - y : y \in S}
<1>1. T \in SUBSET Nat /\ T # {}
  <2>1. \A y \in S : n - y \in Nat
    OBVIOUS
  <2>2. PICK y \in S : TRUE
    OBVIOUS
  <2>3. n - y \in T
    BY <2>2
  <2> QED
    BY <2>1, <2>3
<1>2. PICK t \in T : \A u \in T : t <= u
  BY <1>1, LeastOf
<1>3. PICK x \in S : t = n - x
  BY <1>2
<1>4. \A y \in S : n - y \in T
  OBVIOUS
<1>5. \A y \in S : x >= y
  BY <1>2, <1>3, <1>4
<1>6. Max(S) \in S /\ \A y \in S : Max(S) >= y
  BY <1>5 DEF Max
<1> QED
  BY <1>6

\* The window holds the oldest messages: nothing of S below its end is left out.
LEMMA WindowIsOldest ==
    ASSUME NEW S \in SUBSET UIDs, NEW u \in S, NEW w \in Window(S), u <= w
    PROVE  u \in Window(S)
<1> DEFINE A == {x \in S : x <= u}
           B == {x \in S : x <= w}
<1>1. w \in S /\ u \in Nat /\ w \in Nat /\ Cardinality(B) <= max_messages
  BY InboxAssumption DEF Window, UIDs
<1>2. A \in SUBSET B
  <2>1. \A x \in S : x \in Nat
    BY InboxAssumption DEF UIDs
  <2>2. \A x \in A : x \in B
    BY <2>1, <1>1
  <2> QED
    BY <2>2
<1>3. IsFiniteSet(UIDs)
  BY FS_Interval, InboxAssumption DEF UIDs
<1>4. IsFiniteSet(B)
  <2>1. B \in SUBSET UIDs
    OBVIOUS
  <2> HIDE DEF B
  <2> QED
    BY <2>1, <1>3, FS_Subset
<1>5. /\ Cardinality(A) <= Cardinality(B)
      /\ Cardinality(A) \in Nat /\ Cardinality(B) \in Nat
  <2> HIDE DEF A, B
  <2>1. IsFiniteSet(A) /\ Cardinality(A) <= Cardinality(B)
    BY <1>2, <1>4, FS_Subset
  <2> QED
    BY <2>1, <1>4, FS_CardinalityType
<1>6. Cardinality(A) <= max_messages
  BY <1>1, <1>5, InboxAssumption
<1> QED
  BY <1>6 DEF Window

\* A window of pending messages is never empty.
LEMMA WindowNonempty ==
    ASSUME NEW S \in SUBSET UIDs, S # {}
    PROVE  Window(S) # {} /\ Window(S) \in SUBSET S
<1>1. S \in SUBSET Nat
  BY InboxAssumption DEF UIDs
<1>2. PICK x \in S : \A y \in S : x <= y
  BY <1>1, LeastOf
<1>3. {w \in S : w <= x} = {x}
  <2>1. \A w \in S : w <= x <=> w = x
    BY <1>1, <1>2
  <2> QED
    BY <2>1, <1>2
<1>4. Cardinality({x}) = 1
  BY FS_Singleton
<1>5. Cardinality({w \in S : w <= x}) <= max_messages
  <2>1. Cardinality({w \in S : w <= x}) = 1
    BY <1>3, <1>4, Zenon
  <2>2. max_messages \in Nat /\ max_messages # 0
    BY InboxAssumption
  <2> QED
    BY <2>1, <2>2
<1>6. x \in Window(S)
  BY <1>5 DEF Window
<1> QED
  BY <1>6 DEF Window

-----------------------------------------------------------------------------
(***************************************************************************)
(* Types, and replies stored first.                                        *)
(***************************************************************************)

\* The types of the proof are those of the model.
LEMMA TypesFollow ==
    StateOk => TypeOK
<1> SUFFICES ASSUME StateOk PROVE TypeOK
  OBVIOUS
<1>1. poll.staged \in Seq(Mark)
  BY DEF StateOk, PollType
<1>2. \A i \in DOMAIN poll.staged : poll.staged[i] \in Mark
  BY <1>1
<1>3. \A i \in DOMAIN poll.staged :
        /\ poll.staged[i].folder \in Folders
        /\ poll.staged[i].validity \in 1..MaxValidity
        /\ poll.staged[i].last \in 0..MaxUid
  BY <1>2 DEF Mark
<1> QED
  BY <1>3 DEF StateOk, TypeOK, PollType, BoxType

\* The mark a poll reads, staged or committed, has its type.
LEMMA GetType ==
    ASSUME StateOk, NEW f \in Folders, get(f) # None
    PROVE  /\ get(f).validity \in 1..MaxValidity
           /\ get(f).last \in 0..MaxUid
<1>1. CASE Staged(f) # {}
  <2>1. poll.staged \in Seq(Mark)
    BY DEF StateOk, PollType
  <2>2. PICK n \in Nat : DOMAIN poll.staged = 1..n
    BY <2>1
  <2>3. Staged(f) \in SUBSET (0..n)
    BY <2>2 DEF Staged
  <2>4. Max(Staged(f)) \in Staged(f)
    BY <2>3, <1>1, MaxOf
  <2>5. Max(Staged(f)) \in DOMAIN poll.staged
    BY <2>4 DEF Staged
  <2>6. \A i \in DOMAIN poll.staged : poll.staged[i] \in Mark
    BY <2>1
  <2>7. poll.staged[Max(Staged(f))] \in Mark
    BY <2>5, <2>6
  <2> QED
    BY <2>7, <1>1 DEF get, Mark
<1>2. CASE Staged(f) = {}
  <2>1. get(f) = hwm[f] /\ hwm[f] \in Marks \cup {None}
    BY <1>2 DEF get, StateOk
  <2> QED
    BY <2>1 DEF Marks
<1> QED
  BY <1>1, <1>2

\* What a folder may be asked for is in the folder.
LEMMA FoundType ==
    ASSUME NEW f \in Folders, NEW start
    PROVE  /\ search_uid(f, start) \in SUBSET Present(f)
           /\ Present(f) \in SUBSET UIDs
BY DEF search_uid, Present

\* A folder staged is a folder done, with a typed mark.
LEMMA SetType ==
    ASSUME StateOk, NEW f \in Folders, NEW v \in 1..MaxValidity, NEW uid \in 0..MaxUid,
           poll.todo # <<>>, set(f, v, uid)
    PROVE  /\ poll' \in PollType
           /\ poll'.step = "folder"
           /\ poll'.staged = Append(poll.staged, [folder |-> f, validity |-> v, last |-> uid])
           /\ poll'.todo = Tail(poll.todo)
           /\ poll'.got = poll.got
           /\ poll'.left = poll.left
<1>1. [folder |-> f, validity |-> v, last |-> uid] \in Mark
  BY DEF Mark
<1>2. poll \in PollType
  BY DEF StateOk
<1>3. Tail(poll.todo) \in Seq(Folders)
  BY <1>2 DEF PollType
<1>4. Append(poll.staged, [folder |-> f, validity |-> v, last |-> uid]) \in Seq(Mark)
  BY <1>1, <1>2 DEF PollType
<1> QED
  BY <1>2, <1>3, <1>4 DEF PollType, set

\* A folder holds at most as many mails as there are UIDs.
LEMMA PresentFits ==
    ASSUME NEW f \in Folders
    PROVE  Cardinality(Present(f)) \in Nat /\ Cardinality(Present(f)) <= MaxUid
<1>1. Present(f) \in SUBSET UIDs
  BY DEF Present
<1>2. MaxUid \in Nat
  BY InboxAssumption
<1>3. IsFiniteSet(UIDs) /\ Cardinality(UIDs) = MaxUid
  BY <1>2, FS_Interval DEF UIDs
<1>4. IsFiniteSet(Present(f)) /\ Cardinality(Present(f)) <= Cardinality(UIDs)
  BY <1>1, <1>3, FS_Subset
<1> QED
  BY <1>3, <1>4, FS_CardinalityType

\* The server's steps keep the folders well formed.
LEMMA ServerTypes ==
    ASSUME StateOk, NEW f \in Folders,
           \/ \E m \in Mails : arrive(f, m)
           \/ \E u \in UIDs : expunge(f, u)
           \/ reset(f)
    PROVE  box' \in [Folders -> BoxType] /\ UNCHANGED <<hwm, poll, kept, returned, flaky>>
<1>1. box \in [Folders -> BoxType] /\ box[f] \in BoxType
  BY DEF StateOk
<1>2. /\ box[f].next \in 1..MaxUid + 1 /\ box[f].validity \in 1..MaxValidity
      /\ box[f].mail \in [UIDs -> Mails \cup {None}]
  BY <1>1 DEF BoxType
<1>3. MaxUid \in Nat /\ MaxValidity \in Nat
  BY InboxAssumption
<1>4. ASSUME NEW m \in Mails, arrive(f, m)
      PROVE  box' \in [Folders -> BoxType]
  <2>1. box[f].next \in UIDs /\ box[f].next + 1 \in 1..MaxUid + 1
    BY <1>2, <1>3, <1>4 DEF arrive, UIDs
  <2> DEFINE b == [validity |-> box[f].validity, next |-> box[f].next + 1,
                   mail |-> [box[f].mail EXCEPT ![box[f].next] = m]]
  <2>2. b \in BoxType
    BY <1>2, <2>1 DEF BoxType
  <2>3. box' = [box EXCEPT ![f] = b]
    BY <1>4 DEF arrive
  <2> QED
    BY <1>1, <2>2, <2>3, Zenon
<1>5. ASSUME NEW u \in UIDs, expunge(f, u)
      PROVE  box' \in [Folders -> BoxType]
  <2> DEFINE b == [validity |-> box[f].validity, next |-> box[f].next,
                   mail |-> [box[f].mail EXCEPT ![u] = None]]
  <2>2. b \in BoxType
    BY <1>2 DEF BoxType
  <2>1. box' = [box EXCEPT ![f] = [box[f] EXCEPT !.mail[u] = None]]
    BY <1>5, Zenon DEF expunge
  <2>3. b = [box[f] EXCEPT !.mail[u] = None]
    BY <1>1 DEF BoxType
  <2> QED
    BY <1>1, <2>1, <2>2, <2>3, Zenon
<1>6. ASSUME reset(f)
      PROVE  box' \in [Folders -> BoxType]
  <2>1. PICK n \in Nat : n = Cardinality(Present(f)) /\ n <= MaxUid
    BY <1>3, PresentFits
  <2>2. PICK old \in Bijection(1..n, Present(f)) :
          box' = [box EXCEPT ![f] =
            [validity |-> box[f].validity + 1, next |-> n + 1,
             mail |-> [u \in UIDs |-> IF u <= n THEN box[f].mail[old[u]] ELSE None]]]
    BY <1>6, <2>1 DEF reset
  <2>3. old \in [1..n -> Present(f)] /\ Present(f) \in SUBSET UIDs
    BY <2>2 DEF Bijection, Injection, Present
  <2>4. \A u \in UIDs : u <= n => box[f].mail[old[u]] \in Mails \cup {None}
    BY <1>2, <1>3, <2>1, <2>3 DEF UIDs
  <2>5. box[f].validity + 1 \in 1..MaxValidity /\ n + 1 \in 1..MaxUid + 1
    BY <1>2, <1>3, <1>6, <2>1 DEF reset
  <2> DEFINE b == [validity |-> box[f].validity + 1, next |-> n + 1,
             mail |-> [u \in UIDs |-> IF u <= n THEN box[f].mail[old[u]] ELSE None]]
  <2>6. b \in BoxType
    BY <2>4, <2>5 DEF BoxType
  <2> QED
    BY <1>1, <2>2, <2>6
<1> QED
  BY <1>4, <1>5, <1>6 DEF arrive, expunge, reset

\* A poll that is not under way has its type.
LEMMA IdleType ==
    /\ Idle \in PollType
    /\ Idle.step = "idle" /\ Idle.staged = <<>> /\ Idle.got = {} /\ Idle.left = {}
<1>1. MaxValidity \in Nat
  BY InboxAssumption
<1>2. <<>> \in Seq(Folders) /\ <<>> \in Seq(Mark)
  OBVIOUS
<1> QED
  BY <1>1, <1>2 DEF Idle, PollType

\* A search that finds something chooses a window of the folder, and one that
\* finds nothing stages the mark it read.
LEMMA SearchStep ==
    ASSUME StateOk, poll_search
    PROVE  \E f \in Folders :
             /\ f = Head(poll.todo) /\ poll.todo # <<>> /\ poll.step = "folder"
             /\ box[f].validity \in 1..MaxValidity
             /\ \/ /\ search_uid(f, Start(f)) = {}
                   /\ \E uid \in 0..MaxUid :
                        /\ uid = IF get(f) = None THEN 0 ELSE get(f).last
                        /\ set(f, box[f].validity, uid)
                \/ /\ search_uid(f, Start(f)) # {}
                   /\ \E W \in SUBSET Present(f) :
                        /\ W = Window(search_uid(f, Start(f)))
                        /\ W # {}
                        /\ poll' = [poll EXCEPT !.step = "fetch", !.want = W,
                                                !.validity = box[f].validity]
<1>1. poll.step = "folder" /\ poll.todo # <<>>
  BY DEF poll_search
<1>2. PICK f \in Folders : f = Head(poll.todo)
  BY <1>1 DEF StateOk, PollType
<1>3. box[f].validity \in 1..MaxValidity
  BY DEF StateOk, BoxType
<1>4. CASE search_uid(f, Start(f)) = {}
  <2>1. set(f, box[f].validity, IF get(f) = None THEN 0 ELSE get(f).last)
    BY <1>2, <1>4 DEF poll_search
  <2>2. (IF get(f) = None THEN 0 ELSE get(f).last) \in 0..MaxUid
    BY GetType, InboxAssumption
  <2> QED
    BY <1>1, <1>2, <1>3, <1>4, <2>1, <2>2, Zenon
<1>5. CASE search_uid(f, Start(f)) # {}
  <2>1. /\ search_uid(f, Start(f)) \in SUBSET UIDs
        /\ search_uid(f, Start(f)) \in SUBSET Present(f)
    BY FoundType
  <2>2. PICK W : W = Window(search_uid(f, Start(f)))
    OBVIOUS
  <2>3. W # {} /\ W \in SUBSET Present(f)
    BY <1>5, <2>1, <2>2, WindowNonempty, Zenon
  <2>4. poll' = [poll EXCEPT !.step = "fetch", !.want = W, !.validity = box[f].validity]
    BY <1>2, <1>5, <2>2 DEF poll_search
  <2> QED
    BY <1>1, <1>2, <1>3, <1>5, <2>2, <2>3, <2>4, Zenon
<1> QED
  BY <1>4, <1>5

\* A fetch stages the end of its window as the mark.
LEMMA FetchStep ==
    ASSUME StateOk, poll_fetch
    PROVE  \E f \in Folders, last \in poll.want, M \in SUBSET Mails :
             /\ f = Head(poll.todo) /\ poll.validity = box[f].validity
             /\ poll.want \in SUBSET Present(f)
             /\ \A w \in poll.want : w <= last
             /\ M = {box[f].mail[u] : u \in poll.want} \ Old
             /\ poll' \in PollType
             /\ poll'.step = "folder"
             /\ poll'.staged = Append(poll.staged, [folder |-> f, validity |-> poll.validity,
                                                    last |-> last])
             /\ poll'.got = poll.got \cup M
             /\ poll'.left = poll.left
<1>1. poll.todo # <<>> /\ poll.want # {} /\ poll.validity \in 1..MaxValidity
  BY DEF poll_fetch, StateOk
<1>2. PICK f \in Folders : f = Head(poll.todo)
  BY <1>1 DEF StateOk, PollType
<1>3. poll \in PollType
  BY DEF StateOk
<1>4. poll.want \in SUBSET UIDs /\ MaxUid \in Nat
  BY <1>3, InboxAssumption DEF PollType
<1>5. PICK last : last = Max(poll.want)
  OBVIOUS
<1>6. last \in poll.want /\ \A w \in poll.want : w <= last
  <2>1. poll.want \in SUBSET (0..MaxUid)
    BY <1>4 DEF UIDs
  <2> QED
    BY <1>1, <1>4, <1>5, <2>1, MaxOf
<1>7. /\ box[f].validity = poll.validity
      /\ poll.want \subseteq Present(f)
  BY <1>2 DEF poll_fetch
<1>8. PICK M : M = {box[f].mail[u] : u \in poll.want} \ Old
  OBVIOUS
<1>9. M \in SUBSET Mails
  <2>1. box[f].mail \in [UIDs -> Mails \cup {None}]
    BY DEF StateOk, BoxType
  <2>2. \A u \in Present(f) : box[f].mail[u] \in Mails
    BY <2>1 DEF Present
  <2> QED
    BY <1>7, <1>8, <2>2
<1>10. poll' = [poll EXCEPT
              !.staged = Append(@, [folder |-> f, validity |-> poll.validity, last |-> last]),
              !.got = @ \cup M,
              !.todo = Tail(@), !.step = "folder", !.want = {}]
  BY <1>2, <1>5, <1>8 DEF poll_fetch
<1>11. [folder |-> f, validity |-> poll.validity, last |-> last] \in Mark
  BY <1>1, <1>4, <1>6 DEF Mark, UIDs
<1>12. Append(poll.staged, [folder |-> f, validity |-> poll.validity, last |-> last]) \in Seq(Mark)
  BY <1>3, <1>11 DEF PollType
<1>13. Tail(poll.todo) \in Seq(Folders)
  BY <1>1, <1>3 DEF PollType
<1>14. /\ poll' \in PollType
       /\ poll'.step = "folder"
       /\ poll'.staged = Append(poll.staged, [folder |-> f, validity |-> poll.validity,
                                              last |-> last])
       /\ poll'.got = poll.got \cup M
       /\ poll'.left = poll.left
  BY <1>3, <1>9, <1>10, <1>12, <1>13 DEF PollType
<1> QED
  BY <1>2, <1>6, <1>7, <1>8, <1>9, <1>14, Zenon

\* Every step keeps the types and, where a reply store is passed, the order in
\* which replies are stored, marks committed and replies returned.
LEMMA StoredStep ==
    ASSUME StateOk, StoredFirst, [Next]_vars
    PROVE  StateOk' /\ StoredFirst'
<1> USE DEF StoredFirst, ReturnedIsKept
<1>1. CASE UNCHANGED vars
  BY <1>1 DEF vars, StateOk
<1>2. ASSUME NEW f \in Folders,
             \/ \E m \in Mails : arrive(f, m)
             \/ \E u \in UIDs : expunge(f, u)
             \/ reset(f)
      PROVE  StateOk' /\ StoredFirst'
  <2>1. box' \in [Folders -> BoxType] /\ UNCHANGED <<hwm, poll, kept, returned, flaky>>
    BY <1>2, ServerTypes
  <2> QED
    BY <2>1 DEF StateOk
<1>3. ASSUME NEW fs \in FolderLists, poll_begin(fs)
      PROVE  StateOk' /\ StoredFirst'
  <2>1. fs \in Seq(Folders)
    BY InboxAssumption
  <2>2. poll' \in PollType /\ poll'.step = "folder" /\ poll'.left = {}
    BY <1>3, <2>1, IdleType DEF poll_begin, PollType
  <2> QED
    BY <1>3, <2>2 DEF poll_begin, StateOk
<1>4. CASE poll_search
  <2>1. PICK f \in Folders :
             /\ f = Head(poll.todo) /\ poll.todo # <<>> /\ poll.step = "folder"
             /\ box[f].validity \in 1..MaxValidity
             /\ \/ /\ search_uid(f, Start(f)) = {}
                   /\ \E uid \in 0..MaxUid :
                        /\ uid = IF get(f) = None THEN 0 ELSE get(f).last
                        /\ set(f, box[f].validity, uid)
                \/ /\ search_uid(f, Start(f)) # {}
                   /\ \E W \in SUBSET Present(f) :
                        /\ W = Window(search_uid(f, Start(f)))
                        /\ W # {}
                        /\ poll' = [poll EXCEPT !.step = "fetch", !.want = W,
                                                !.validity = box[f].validity]
    BY <1>4, SearchStep
  <2>2. UNCHANGED <<box, hwm, kept, returned, flaky>>
    BY <1>4 DEF poll_search
  <2>3. ASSUME NEW uid \in 0..MaxUid, set(f, box[f].validity, uid)
        PROVE  StateOk' /\ StoredFirst'
    <3>1. /\ poll' \in PollType /\ poll'.step = "folder"
          /\ poll'.got = poll.got /\ poll'.left = poll.left
      BY <2>1, <2>3, SetType
    <3> QED
      BY <2>2, <3>1 DEF StateOk
  <2>4. ASSUME NEW W \in SUBSET Present(f), W # {},
               poll' = [poll EXCEPT !.step = "fetch", !.want = W, !.validity = box[f].validity]
        PROVE  StateOk' /\ StoredFirst'
    <3>1. W \in SUBSET UIDs /\ box[f].validity \in 0..MaxValidity
      <4>1. W \in SUBSET UIDs
        BY DEF Present
      <4>2. box[f].validity \in 0..MaxValidity
        <5>1. box[f].validity \in 1..MaxValidity /\ MaxValidity \in Nat
          BY <2>1, InboxAssumption, Zenon
        <5> QED
          BY <5>1
      <4> QED
        BY <4>1, <4>2
    <3>2. poll \in PollType
      BY DEF StateOk
    <3>3. /\ poll' \in PollType /\ poll'.step = "fetch" /\ poll'.todo = poll.todo
          /\ poll'.want = W /\ poll'.validity = box[f].validity
          /\ poll'.got = poll.got /\ poll'.left = poll.left
      BY <2>4, <3>1, <3>2 DEF PollType
    <3> QED
      BY <2>1, <2>2, <2>4, <3>3 DEF StateOk
  <2> QED
    BY <2>1, <2>3, <2>4
<1>5. CASE poll_fetch
  <2>1. PICK M \in SUBSET Mails :
          /\ poll' \in PollType /\ poll'.step = "folder"
          /\ poll'.got = poll.got \cup M /\ poll'.left = poll.left
    BY <1>5, FetchStep
  <2>2. UNCHANGED <<box, hwm, kept, returned, flaky>>
    BY <1>5 DEF poll_fetch
  <2> QED
    BY <2>1, <2>2 DEF StateOk
<1>6. CASE match_reply_to_request
  <2>1. poll \in PollType
    BY DEF StateOk
  <2>2. /\ poll' \in PollType /\ poll'.step = "insert"
        /\ poll'.got = poll.got /\ poll'.left \subseteq poll.got
        /\ Storing => poll'.left = poll.got
    <3>1. PICK l \in SUBSET poll.got : l = (IF Storing THEN poll.got ELSE {})
      OBVIOUS
    <3>2. poll' = [poll EXCEPT !.step = "insert", !.left = l]
      BY <1>6, <3>1 DEF match_reply_to_request
    <3>3. l \subseteq Mails
      BY <2>1 DEF PollType
    <3> QED
      BY <2>1, <3>1, <3>2, <3>3 DEF PollType
  <2> QED
    BY <1>6, <2>2 DEF StateOk, match_reply_to_request
<1>7. ASSUME NEW m \in Mails, insert(m)
      PROVE  StateOk' /\ StoredFirst'
  <2>1. poll \in PollType
    BY DEF StateOk
  <2>2. /\ poll' \in PollType /\ poll'.step = "insert"
        /\ poll'.got = poll.got /\ poll'.left = poll.left \ {m}
    BY <1>7, <2>1 DEF insert, PollType
  <2> QED
    BY <1>7, <2>2 DEF StateOk, insert
<1>8. CASE insert_done
  <2>1. poll \in PollType
    BY DEF StateOk
  <2>2. /\ poll' \in PollType /\ poll'.step = "commit"
        /\ poll'.got = poll.got /\ poll'.left = poll.left
    BY <1>8, <2>1 DEF insert_done, PollType
  <2> QED
    BY <1>8, <2>2 DEF StateOk, insert_done
<1>9. CASE commit
  <2>1. poll \in PollType /\ poll.staged # <<>>
    BY <1>9 DEF StateOk, commit
  <2>2. Tail(poll.staged) \in Seq(Mark) /\ Head(poll.staged) \in Mark
    BY <2>1 DEF PollType
  <2>3. /\ poll' \in PollType /\ poll'.step = "commit"
        /\ poll'.got = poll.got /\ poll'.left = poll.left
    BY <1>9, <2>1, <2>2 DEF commit, PollType
  <2>4. [validity |-> Head(poll.staged).validity, last |-> Head(poll.staged).last] \in Marks
    BY <2>2 DEF Mark, Marks
  <2>5. hwm' \in [Folders -> Marks \cup {None}]
    BY <1>9, <2>4 DEF commit, StateOk
  <2> QED
    BY <1>9, <2>3, <2>5 DEF StateOk, commit
<1>10. CASE poll_return
  BY <1>10, IdleType DEF poll_return, StateOk, PollType
<1>11. CASE poll_exhausted \/ poll_omitted \/ poll_malformed \/ poll_error
  BY <1>11, IdleType DEF poll_exhausted, poll_omitted, poll_malformed, poll_error, StateOk
<1>12. CASE recover
  BY <1>12 DEF recover, StateOk
<1> QED
  BY <1>1, <1>2, <1>3, <1>4, <1>5, <1>6, <1>7, <1>8, <1>9, <1>10, <1>11, <1>12
     DEF Next, PollStep

\* At the start nothing is stored and nothing returned.
LEMMA StoredInit ==
    Init => StateOk /\ StoredFirst
<1> SUFFICES ASSUME Init PROVE StateOk /\ StoredFirst
  OBVIOUS
<1>1. MaxUid \in Nat /\ MaxValidity \in Nat \ {0} /\ MayFail \in BOOLEAN
  BY InboxAssumption
<1>2. Empty(1) \in BoxType
  BY <1>1 DEF Empty, BoxType
<1>3. box \in [Folders -> BoxType] /\ hwm \in [Folders -> Marks \cup {None}]
  BY <1>2 DEF Init
<1> QED
  BY <1>1, <1>3, IdleType DEF Init, StateOk, StoredFirst, ReturnedIsKept

\* "poll, correlate, persist, and only then commit the high-water mark", for
\* every caller of poll_and_match: the tables stay well formed, and what a
\* caller with a reply store is given, or a mark moves past, is stored before,
\* wherever a poll of several folders stops.
THEOREM InboxCorrect == Spec => []InboxInv
<1>1. Init => StateOk /\ StoredFirst
  BY StoredInit
<1>2. StateOk /\ StoredFirst /\ [Next]_vars => (StateOk /\ StoredFirst)'
  BY StoredStep
<1>3. StateOk /\ StoredFirst => InboxInv
  BY TypesFollow DEF InboxInv, PersistBeforeCommit, StoredFirst
<1> QED
  BY <1>1, <1>2, <1>3, PTL DEF Spec

-----------------------------------------------------------------------------
(***************************************************************************)
(* The folders, as far as marks depend on them.                            *)
(***************************************************************************)

\* UIDs only move on.  Under the same UIDVALIDITY a UID below UIDNEXT names
\* the mail it named before, or none.
Grows ==
    \A g \in Folders :
      /\ box[g].validity <= box'[g].validity
      /\ box[g].next <= box'[g].next
      /\ box'[g].validity = box[g].validity =>
           \A u \in Present(g)' : u < box[g].next =>
             u \in Present(g) /\ box'[g].mail[u] = box[g].mail[u]

\* The numbers of a folder are naturals.
LEMMA FolderNumbers ==
    ASSUME StateOk, NEW g \in Folders
    PROVE  /\ box[g].validity \in Nat /\ box[g].next \in Nat
           /\ box[g].validity \in 1..MaxValidity /\ box[g].next \in 1..MaxUid + 1
           /\ box[g].mail \in [UIDs -> Mails \cup {None}]
<1>1. /\ box[g].validity \in 1..MaxValidity /\ box[g].next \in 1..MaxUid + 1
      /\ box[g].mail \in [UIDs -> Mails \cup {None}]
  BY DEF StateOk, BoxType
<1>2. MaxUid \in Nat /\ MaxValidity \in Nat
  BY InboxAssumption
<1> QED
  BY <1>1, <1>2

\* A rebuilt folder from which nothing disappears has as many mails as UIDs.
LEMMA RebuiltIsFull ==
    ASSUME StateOk, Numbered, NEW f \in Folders, f \notin Expunged
    PROVE  Cardinality(Present(f)) = box[f].next - 1
<1>1. MaxUid \in Nat /\ box[f].next \in 1..MaxUid + 1
  BY FolderNumbers, InboxAssumption
<1>2. PICK k \in Nat : k = box[f].next - 1 /\ k <= MaxUid
  BY <1>1
<1>3. Present(f) = 1..k
  <2>1. \A u \in Present(f) : u \in 1..k
    <3>1. \A u \in Present(f) : u \in UIDs /\ u < box[f].next
      BY DEF Numbered, Present
    <3> QED
      BY <1>1, <1>2, <3>1 DEF UIDs
  <2>2. \A u \in 1..k : u \in UIDs /\ u < box[f].next
    BY <1>1, <1>2 DEF UIDs
  <2>3. \A u \in 1..k : u \in Present(f)
    BY <2>2 DEF Numbered
  <2> QED
    BY <2>1, <2>3
<1>4. Cardinality(1..k) = k
  BY FS_Interval
<1> QED
  BY <1>2, <1>3, <1>4

\* The server's steps: a new mail gets UIDNEXT, a mail disappears, and a
\* folder is rebuilt with as many UIDs as it had.
LEMMA ServerGrows ==
    ASSUME Expunged \cap Rebuilt = {}, StateOk, Numbered, NEW f \in Folders,
           \/ \E m \in Mails : arrive(f, m)
           \/ \E u \in UIDs : expunge(f, u)
           \/ reset(f)
    PROVE  Grows /\ Numbered'
<1>1. /\ box[f].validity \in Nat /\ box[f].next \in Nat
      /\ box[f].mail \in [UIDs -> Mails \cup {None}]
      /\ MaxUid \in Nat
  BY FolderNumbers, InboxAssumption
<1>2. box \in [Folders -> BoxType] /\ box[f] \in BoxType
  BY DEF StateOk
<1>3. \A g \in Folders : box[g].validity \in Nat /\ box[g].next \in Nat
  BY FolderNumbers
<1>4. \A u \in UIDs : u \in Nat
  BY <1>1 DEF UIDs
<1>5. None \notin Mails
  BY InboxAssumption
<1>6. ASSUME NEW b,
             box' = [box EXCEPT ![f] = b],
             box[f].validity <= b.validity,
             box[f].next <= b.next,
             b.validity = box[f].validity =>
               \A u \in UIDs : (b.mail[u] # None /\ u < box[f].next) => b.mail[u] = box[f].mail[u],
             \A u \in UIDs : b.mail[u] # None => u < b.next,
             f \notin Expunged => \A u \in UIDs : u < b.next => b.mail[u] # None
      PROVE  Grows /\ Numbered'
  <2>1. box'[f] = b /\ \A g \in Folders : g # f => box'[g] = box[g]
    BY <1>2, <1>6
  <2>2. \A g \in Folders : Present(g)' = {u \in UIDs : box'[g].mail[u] # None}
    BY DEF Present
  <2>3. \A g \in Folders : g # f => Present(g)' = Present(g)
    BY <2>1 DEF Present
  <2>4. Present(f)' = {u \in UIDs : b.mail[u] # None}
    BY <2>1 DEF Present
  <2>5. Grows
    <3> SUFFICES ASSUME NEW g \in Folders
                 PROVE  /\ box[g].validity <= box'[g].validity
                        /\ box[g].next <= box'[g].next
                        /\ box'[g].validity = box[g].validity =>
                             \A u \in Present(g)' : u < box[g].next =>
                               u \in Present(g) /\ box'[g].mail[u] = box[g].mail[u]
      BY DEF Grows
    <3>1. CASE g = f
      BY <1>6, <2>1, <2>4, <3>1 DEF Present
    <3>2. CASE g # f
      BY <1>3, <2>1, <2>3, <3>2
    <3> QED
      BY <3>1, <3>2
  <2>6. Numbered'
    <3> SUFFICES ASSUME NEW g \in Folders
                 PROVE  /\ \A u \in Present(g)' : u < box'[g].next
                        /\ g \notin Expunged =>
                             \A u \in UIDs : u < box'[g].next => u \in Present(g)'
      BY DEF Numbered
    <3>1. CASE g = f
      BY <1>6, <2>1, <2>4, <3>1
    <3>2. CASE g # f
      BY <2>1, <2>3, <3>2 DEF Numbered
    <3> QED
      BY <3>1, <3>2
  <2> QED
    BY <2>5, <2>6
<1>7. /\ \A u \in UIDs : box[f].mail[u] # None => u < box[f].next
      /\ f \notin Expunged => \A u \in UIDs : u < box[f].next => box[f].mail[u] # None
  BY DEF Numbered, Present
<1>8. ASSUME NEW m \in Mails, arrive(f, m)
      PROVE  Grows /\ Numbered'
  <2>1. PICK b : b = [validity |-> box[f].validity, next |-> box[f].next + 1,
                      mail |-> [box[f].mail EXCEPT ![box[f].next] = m]]
    OBVIOUS
  <2>2. box' = [box EXCEPT ![f] = b] /\ box[f].next <= MaxUid
    BY <1>8, <2>1 DEF arrive
  <2>3. \A u \in UIDs : b.mail[u] = IF u = box[f].next THEN m ELSE box[f].mail[u]
    BY <1>1, <2>1
  <2>4. b.validity = box[f].validity /\ b.next = box[f].next + 1
    BY <2>1
  <2>5. \A u \in UIDs : b.mail[u] # None => u < b.next
    BY <1>1, <1>4, <1>7, <2>3, <2>4
  <2>6. f \notin Expunged => \A u \in UIDs : u < b.next => b.mail[u] # None
    BY <1>1, <1>4, <1>5, <1>7, <2>3, <2>4
  <2>7. \A u \in UIDs : u < box[f].next => b.mail[u] = box[f].mail[u]
    BY <1>1, <1>4, <2>3
  <2>8. box[f].validity <= b.validity /\ box[f].next <= b.next
    BY <1>1, <2>4
  <2> QED
    BY <1>6, <2>2, <2>5, <2>6, <2>7, <2>8
<1>9. ASSUME NEW x \in UIDs, expunge(f, x)
      PROVE  Grows /\ Numbered'
  <2>1. PICK b : b = [box[f] EXCEPT !.mail[x] = None]
    OBVIOUS
  <2>2. box' = [box EXCEPT ![f] = b] /\ f \in Expunged
    BY <1>9, <2>1 DEF expunge
  <2>3. \A u \in UIDs : b.mail[u] = IF u = x THEN None ELSE box[f].mail[u]
    BY <1>1, <1>2, <2>1 DEF BoxType
  <2>4. b.validity = box[f].validity /\ b.next = box[f].next
    BY <1>2, <2>1 DEF BoxType
  <2>5. \A u \in UIDs : b.mail[u] # None => u < b.next /\ b.mail[u] = box[f].mail[u]
    BY <1>7, <2>3, <2>4
  <2>6. box[f].validity <= b.validity /\ box[f].next <= b.next
    BY <1>1, <2>4
  <2> QED
    BY <1>6, <2>2, <2>5, <2>6
<1>10. ASSUME reset(f)
       PROVE  Grows /\ Numbered'
  <2>1. f \notin Expunged
    BY <1>10 DEF reset
  <2>0. PICK n \in Nat : n = Cardinality(Present(f))
    BY PresentFits
  <2>2. n = box[f].next - 1
    BY <2>0, <2>1, RebuiltIsFull
  <2>3. PICK old \in Bijection(1..n, Present(f)) :
          box' = [box EXCEPT ![f] =
            [validity |-> box[f].validity + 1, next |-> n + 1,
             mail |-> [u \in UIDs |-> IF u <= n THEN box[f].mail[old[u]] ELSE None]]]
    BY <1>10, <2>0 DEF reset
  <2>4. old \in [1..n -> Present(f)]
    BY <2>3 DEF Bijection, Injection
  <2>5. PICK b : b = [validity |-> box[f].validity + 1, next |-> n + 1,
             mail |-> [u \in UIDs |-> IF u <= n THEN box[f].mail[old[u]] ELSE None]]
    OBVIOUS
  <2>6. b.validity = box[f].validity + 1 /\ b.next = box[f].next
    BY <1>1, <2>2, <2>5
  <2>7. \A u \in UIDs : u <= n => b.mail[u] # None
    <3>1. \A u \in UIDs : u <= n => u \in 1..n
      BY <1>1 DEF UIDs
    <3>2. \A u \in 1..n : box[f].mail[old[u]] # None
      BY <2>4 DEF Present
    <3> QED
      BY <2>5, <3>1, <3>2
  <2>8. \A u \in UIDs : ~(u <= n) => b.mail[u] = None
    BY <2>5
  <2>9. \A u \in UIDs : u <= n <=> u < b.next
    BY <1>1, <1>4, <2>2, <2>6
  <2>10. box[f].validity <= b.validity /\ box[f].next <= b.next /\ b.validity # box[f].validity
    BY <1>1, <2>6
  <2>11. box' = [box EXCEPT ![f] = b]
    BY <2>3, <2>5
  <2> QED
    BY <1>6, <2>7, <2>8, <2>9, <2>10, <2>11
<1> QED
  BY <1>8, <1>9, <1>10

-----------------------------------------------------------------------------
(***************************************************************************)
(* Marks.                                                                  *)
(***************************************************************************)

\* A mark goes on covering what is dealt with, whatever happens to its folder.
LEMMA CoversStay ==
    ASSUME StateOk, StateOk', Grows, NEW f \in Folders, NEW m, NEW M, NEW N, M \subseteq N,
           m.validity \in Nat, m.last \in Nat, Covers(f, m, M)
    PROVE  Covers(f, m, N)'
<1>1. /\ box[f].validity \in Nat /\ box[f].next \in Nat
  BY FolderNumbers
<1>2. box'[f].validity \in Nat /\ box'[f].next \in Nat
  <2>1. MaxUid \in Nat /\ MaxValidity \in Nat
    BY InboxAssumption
  <2>2. box'[f].validity \in 1..MaxValidity /\ box'[f].next \in 1..MaxUid + 1
    BY DEF StateOk, BoxType
  <2> QED
    BY <2>1, <2>2
<1>3. /\ box[f].validity <= box'[f].validity
      /\ box[f].next <= box'[f].next
      /\ box'[f].validity = box[f].validity =>
           \A u \in Present(f)' : u < box[f].next =>
             u \in Present(f) /\ box'[f].mail[u] = box[f].mail[u]
  BY DEF Grows
<1>4. m.validity <= box[f].validity /\ m.last < box[f].next
  BY DEF Covers
<1>5. m.validity <= box'[f].validity /\ m.last < box'[f].next
  BY <1>1, <1>2, <1>3, <1>4
<1>6. ASSUME m.validity = box'[f].validity, NEW u \in Present(f)', u <= m.last
      PROVE  box'[f].mail[u] \in N
  <2>1. box'[f].validity = box[f].validity /\ m.validity = box[f].validity
    BY <1>1, <1>2, <1>3, <1>4, <1>6
  <2>2. u \in Nat
    BY InboxAssumption DEF Present, UIDs
  <2>3. u < box[f].next
    BY <1>1, <1>4, <1>6, <2>2
  <2>4. u \in Present(f) /\ box'[f].mail[u] = box[f].mail[u]
    BY <1>3, <2>1, <2>3
  <2>5. box[f].mail[u] \in M
    BY <1>6, <2>1, <2>4 DEF Covers
  <2> QED
    BY <2>4, <2>5
<1> QED
  BY <1>5, <1>6 DEF Covers

\* Committed marks stay good while none is written.
LEMMA CommittedStay ==
    ASSUME StateOk, StateOk', Grows, CommittedOk, hwm' = hwm, kept \subseteq kept'
    PROVE  CommittedOk'
<1> SUFFICES ASSUME NEW f \in Folders, hwm'[f] # None
             PROVE  Covers(f, hwm[f], Dealt)'
  BY DEF CommittedOk
<1>1. PICK m : m = hwm[f]
  OBVIOUS
<1>2. PICK M : M = Dealt
  OBVIOUS
<1>3. PICK N : N = Dealt'
  OBVIOUS
<1>4. m \in Marks
  BY <1>1 DEF StateOk
<1>5. m.validity \in Nat /\ m.last \in Nat
  BY <1>4, InboxAssumption DEF Marks
<1>6. Covers(f, m, M)
  BY <1>1, <1>2 DEF CommittedOk
<1>7. M \subseteq N
  BY <1>2, <1>3 DEF Dealt
<1>8. Covers(f, m, N)'
  BY <1>5, <1>6, <1>7, CoversStay
<1> QED
  BY <1>1, <1>3, <1>8

\* Staged marks stay good; one that is new has to be shown good.
LEMMA StagedStay ==
    ASSUME StateOk, StateOk', Grows, StagedOk, kept \subseteq kept', poll.got \subseteq poll'.got,
           \A i \in DOMAIN poll'.staged :
             \/ \E j \in DOMAIN poll.staged : poll'.staged[i] = poll.staged[j]
             \/ Covers(poll.staged[i].folder, poll.staged[i], Dealt \cup poll.got)'
    PROVE  StagedOk'
<1> SUFFICES ASSUME NEW i \in DOMAIN poll'.staged
             PROVE  Covers(poll.staged[i].folder, poll.staged[i], Dealt \cup poll.got)'
  BY DEF StagedOk
<1>1. ASSUME NEW j \in DOMAIN poll.staged, poll'.staged[i] = poll.staged[j]
      PROVE  Covers(poll.staged[i].folder, poll.staged[i], Dealt \cup poll.got)'
  <2>1. PICK m : m = poll.staged[j]
    OBVIOUS
  <2>2. PICK M : M = Dealt \cup poll.got
    OBVIOUS
  <2>3. PICK N : N = (Dealt \cup poll.got)'
    OBVIOUS
  <2>4. m \in Mark
    BY <2>1 DEF StateOk, PollType
  <2>5. m.validity \in Nat /\ m.last \in Nat /\ m.folder \in Folders
    BY <2>4, InboxAssumption DEF Mark
  <2>6. Covers(m.folder, m, M)
    BY <2>1, <2>2 DEF StagedOk
  <2>7. M \subseteq N
    BY <2>2, <2>3 DEF Dealt
  <2>8. Covers(m.folder, m, N)'
    BY <2>5, <2>6, <2>7, CoversStay
  <2> QED
    BY <1>1, <2>1, <2>3, <2>8
<1> QED
  BY <1>1

\* The mark a poll reads covers what is stored, old or got by this poll.
LEMMA GetCovers ==
    ASSUME StateOk, CommittedOk, StagedOk, NEW f \in Folders, get(f) # None
    PROVE  Covers(f, get(f), Dealt \cup poll.got)
<1>1. CASE Staged(f) # {}
  <2>1. poll.staged \in Seq(Mark)
    BY DEF StateOk, PollType
  <2>2. PICK n \in Nat : DOMAIN poll.staged = 1..n
    BY <2>1
  <2>3. Staged(f) \in SUBSET (0..n)
    BY <2>2 DEF Staged
  <2>4. PICK i : i = Max(Staged(f))
    OBVIOUS
  <2>5. i \in Staged(f)
    BY <2>3, <2>4, <1>1, MaxOf
  <2>6. i \in DOMAIN poll.staged /\ poll.staged[i].folder = f
    BY <2>5 DEF Staged
  <2>7. Covers(f, poll.staged[i], Dealt \cup poll.got)
    BY <2>6 DEF StagedOk
  <2>8. get(f).validity = poll.staged[i].validity /\ get(f).last = poll.staged[i].last
    BY <1>1, <2>4 DEF get
  <2> QED
    BY <2>7, <2>8 DEF Covers
<1>2. CASE Staged(f) = {}
  <2>1. get(f) = hwm[f]
    BY <1>2 DEF get
  <2>2. Covers(f, hwm[f], Dealt)
    BY <2>1 DEF CommittedOk
  <2> QED
    BY <2>1, <2>2 DEF Covers
<1> QED
  BY <1>1, <1>2

\* The answer to a search is empty only when the folder is.
LEMMA NothingFound ==
    ASSUME NEW f \in Folders, search_uid(f, Start(f)) = {}
    PROVE  Present(f) = {}
<1> SUFFICES ASSUME Present(f) # {} PROVE FALSE
  OBVIOUS
<1>1. MaxUid \in Nat
  BY InboxAssumption
<1>2. Present(f) \in SUBSET (0..MaxUid)
  BY <1>1 DEF Present, UIDs
<1>3. Max(Present(f)) \in Present(f) /\ \A y \in Present(f) : y <= Max(Present(f))
  BY <1>1, <1>2, MaxOf
<1>4. Max(Present(f)) \in search_uid(f, Start(f))
  BY <1>3 DEF search_uid
<1> QED
  BY <1>4

\* A message the search leaves out is at or below the mark.
LEMMA NotSearched ==
    ASSUME StateOk, CommittedOk, StagedOk, NEW f \in Folders,
           NEW u \in Present(f), u \notin search_uid(f, Start(f))
    PROVE  box[f].mail[u] \in Dealt \cup poll.got
<1>1. u \in Nat /\ u >= 1
  BY InboxAssumption DEF Present, UIDs
<1>2. ~(u >= Start(f))
  BY DEF search_uid
<1>3. /\ get(f) # None /\ get(f).validity = box[f].validity
      /\ Start(f) = get(f).last + 1
  BY <1>1, <1>2 DEF Start
<1>4. get(f).last \in Nat
  BY <1>3, GetType, InboxAssumption
<1>5. u <= get(f).last
  BY <1>1, <1>2, <1>3, <1>4
<1>6. Covers(f, get(f), Dealt \cup poll.got)
  BY <1>3, GetCovers
<1> QED
  BY <1>3, <1>5, <1>6 DEF Covers

\* The window of a poll stays good while the server changes the folder.
LEMMA WindowStay ==
    ASSUME StateOk, StateOk', Grows, WindowOk, poll' = poll, kept' = kept
    PROVE  WindowOk'
<1> SUFFICES ASSUME poll.step = "fetch" PROVE WindowOk'
  BY DEF WindowOk
<1>1. poll.todo # <<>> /\ poll.todo \in Seq(Folders)
  BY DEF StateOk, PollType
<1>2. PICK f \in Folders : f = Head(poll.todo)
  BY <1>1
<1>3. /\ box[f].validity \in Nat /\ box[f].next \in Nat
      /\ box'[f].validity \in 1..MaxValidity /\ box'[f].next \in 1..MaxUid + 1
  BY FolderNumbers DEF StateOk, BoxType
<1>4. /\ box'[f].validity \in Nat /\ box'[f].next \in Nat
      /\ MaxUid \in Nat /\ MaxValidity \in Nat
  BY <1>3, InboxAssumption
<1>5. /\ box[f].validity <= box'[f].validity
      /\ box[f].next <= box'[f].next
      /\ box'[f].validity = box[f].validity =>
           \A u \in Present(f)' : u < box[f].next =>
             u \in Present(f) /\ box'[f].mail[u] = box[f].mail[u]
  BY DEF Grows
<1>6. poll.validity \in Nat /\ poll.want \in SUBSET Nat
  <2>1. poll.validity \in 0..MaxValidity /\ poll.want \in SUBSET UIDs
    BY DEF StateOk, PollType
  <2> QED
    BY <1>4, <2>1 DEF UIDs
<1>7. /\ poll.validity <= box[f].validity
      /\ \A w \in poll.want : w < box[f].next
      /\ poll.validity = box[f].validity =>
           \A u \in Present(f), w \in poll.want :
             u <= w => \/ u \in poll.want
                       \/ box[f].mail[u] \in Dealt \cup poll.got
  BY <1>2 DEF WindowOk
<1>8. poll.validity <= box'[f].validity /\ \A w \in poll.want : w < box'[f].next
  BY <1>3, <1>4, <1>5, <1>6, <1>7
<1>9. ASSUME poll.validity = box'[f].validity, NEW u \in Present(f)', NEW w \in poll.want, u <= w
      PROVE  u \in poll.want \/ box'[f].mail[u] \in (Dealt \cup poll.got)'
  <2>1. box'[f].validity = box[f].validity /\ poll.validity = box[f].validity
    BY <1>3, <1>4, <1>5, <1>6, <1>7, <1>9
  <2>2. u \in Nat
    BY <1>4 DEF Present, UIDs
  <2>3. u < box[f].next
    BY <1>3, <1>6, <1>7, <1>9, <2>2
  <2>4. u \in Present(f) /\ box'[f].mail[u] = box[f].mail[u]
    BY <1>5, <2>1, <2>3
  <2>5. u \in poll.want \/ box[f].mail[u] \in Dealt \cup poll.got
    BY <1>7, <1>9, <2>1, <2>4
  <2> QED
    BY <2>4, <2>5 DEF Dealt
<1> QED
  BY <1>2, <1>8, <1>9 DEF WindowOk

\* A search that finds nothing stages a mark that covers an empty folder.
LEMMA EmptySearchMarks ==
    ASSUME StateOk, StateOk', MarksInv, UNCHANGED <<box, hwm, kept>>, Grows,
           NEW f \in Folders, poll.todo # <<>>, search_uid(f, Start(f)) = {},
           NEW uid \in 0..MaxUid, uid = (IF get(f) = None THEN 0 ELSE get(f).last),
           set(f, box[f].validity, uid)
    PROVE  StagedOk' /\ WindowOk'
<1>1. /\ box[f].validity \in 1..MaxValidity /\ box[f].validity \in Nat
      /\ box[f].next \in Nat /\ box[f].next >= 1
  BY FolderNumbers, InboxAssumption
<1>2. PICK m : m = [folder |-> f, validity |-> box[f].validity, last |-> uid]
  OBVIOUS
<1>3. /\ poll'.staged = Append(poll.staged, m) /\ poll'.step = "folder"
      /\ poll'.got = poll.got
  BY <1>1, <1>2, SetType
<1>4. poll.staged \in Seq(Mark) /\ m \in Mark
  BY <1>1, <1>2 DEF StateOk, PollType, Mark
<1>5. uid < box[f].next
  <2>1. CASE get(f) = None
    BY <1>1, <2>1
  <2>2. CASE get(f) # None
    <3>1. Covers(f, get(f), Dealt \cup poll.got)
      BY <2>2, GetCovers DEF MarksInv
    <3> QED
      BY <2>2, <3>1 DEF Covers
  <2> QED
    BY <2>1, <2>2
<1>6. Present(f)' = {}
  BY NothingFound DEF Present
<1>7. Covers(f, m, (Dealt \cup poll.got))'
  <2>1. m.validity = box'[f].validity /\ m.last = uid /\ box'[f] = box[f]
    BY <1>2
  <2> QED
    BY <1>1, <1>5, <1>6, <2>1 DEF Covers
<1>8. \A i \in DOMAIN poll'.staged :
        \/ i \in DOMAIN poll.staged /\ poll'.staged[i] = poll.staged[i]
        \/ poll'.staged[i] = m
  BY <1>3, <1>4
<1>9. m.folder = f
  BY <1>2
<1>10. \A i \in DOMAIN poll'.staged :
        \/ \E j \in DOMAIN poll.staged : poll'.staged[i] = poll.staged[j]
        \/ Covers(poll.staged[i].folder, poll.staged[i], Dealt \cup poll.got)'
  BY <1>7, <1>8, <1>9
<1>11. StagedOk'
  BY <1>3, <1>10, StagedStay DEF MarksInv
<1> QED
  BY <1>3, <1>11 DEF WindowOk

\* A search that finds messages chooses a window that leaves out only mails
\* that are dealt with.
LEMMA SearchWindow ==
    ASSUME StateOk, StateOk', MarksInv, UNCHANGED <<box, hwm, kept>>,
           NEW f \in Folders, f = Head(poll.todo),
           NEW W \in SUBSET Present(f), W = Window(search_uid(f, Start(f))),
           poll' = [poll EXCEPT !.step = "fetch", !.want = W, !.validity = box[f].validity]
    PROVE  /\ WindowOk'
           /\ poll'.staged = poll.staged /\ poll'.got = poll.got
<1>1. /\ poll'.staged = poll.staged /\ poll'.got = poll.got /\ poll'.todo = poll.todo
      /\ poll'.want = W /\ poll'.validity = box[f].validity
  BY DEF StateOk, PollType
<1>2. \A w \in W : w < box[f].next
  BY DEF MarksInv, Numbered
<1>3. ASSUME NEW u \in Present(f), NEW w \in W, u <= w
      PROVE  u \in W \/ box[f].mail[u] \in Dealt \cup poll.got
  <2>1. CASE u \in search_uid(f, Start(f))
    <3>1. PICK S : S = search_uid(f, Start(f))
      OBVIOUS
    <3>2. S \in SUBSET UIDs
      BY <3>1, FoundType
    <3>3. u \in S /\ w \in Window(S)
      BY <2>1, <3>1
    <3>4. u \in Window(S)
      BY <1>3, <3>2, <3>3, WindowIsOldest
    <3> QED
      BY <3>1, <3>4
  <2>2. CASE u \notin search_uid(f, Start(f))
    BY <2>2, NotSearched DEF MarksInv
  <2> QED
    BY <2>1, <2>2
<1>4. box[f].validity <= box[f].validity
  BY FolderNumbers
<1>5. Present(f)' = Present(f) /\ Dealt' = Dealt /\ box' = box
  BY DEF Present, Dealt
<1>6. Head(poll'.todo) = f
  BY <1>1
<1>7. WindowOk'
  BY <1>1, <1>2, <1>3, <1>4, <1>5, <1>6 DEF WindowOk
<1> QED
  BY <1>1, <1>7

\* A fetch stages a mark that covers the mails it got and those dealt with.
LEMMA FetchMarks ==
    ASSUME StateOk, StateOk', MarksInv, Grows, poll_fetch
    PROVE  StagedOk' /\ WindowOk'
<1>1. PICK f \in Folders, last \in poll.want, M \in SUBSET Mails :
             /\ f = Head(poll.todo) /\ poll.validity = box[f].validity
             /\ poll.want \in SUBSET Present(f)
             /\ \A w \in poll.want : w <= last
             /\ M = {box[f].mail[u] : u \in poll.want} \ Old
             /\ poll' \in PollType
             /\ poll'.step = "folder"
             /\ poll'.staged = Append(poll.staged, [folder |-> f, validity |-> poll.validity,
                                                    last |-> last])
             /\ poll'.got = poll.got \cup M
             /\ poll'.left = poll.left
  BY FetchStep
<1>2. UNCHANGED <<box, hwm, kept>> /\ poll.step = "fetch"
  BY DEF poll_fetch
<1>3. PICK m : m = [folder |-> f, validity |-> poll.validity, last |-> last]
  OBVIOUS
<1>4. m.folder = f /\ m.validity = box[f].validity /\ m.last = last
  BY <1>1, <1>3
<1>5. /\ box[f].validity \in 1..MaxValidity /\ box[f].validity \in Nat
      /\ last \in UIDs /\ UIDs \subseteq 0..MaxUid
  BY <1>1, FolderNumbers, InboxAssumption, SMTT(60) DEF StateOk, PollType, UIDs
<1>6. poll.staged \in Seq(Mark) /\ m \in Mark
  BY <1>1, <1>3, <1>5 DEF StateOk, PollType, Mark
<1>7. /\ \A w \in poll.want : w < box[f].next
      /\ \A u \in Present(f), w \in poll.want :
           u <= w => \/ u \in poll.want
                     \/ box[f].mail[u] \in Dealt \cup poll.got
  BY <1>1, <1>2 DEF MarksInv, WindowOk
<1>8. \A u \in poll.want : box[f].mail[u] \in Old \cup M
  BY <1>1
<1>9. \A u \in Present(f) : u <= last => box[f].mail[u] \in Dealt \cup (poll.got \cup M)
  BY <1>1, <1>7, <1>8 DEF Dealt
<1>10. Present(f)' = Present(f) /\ Dealt' = Dealt /\ box' = box /\ poll'.got = poll.got \cup M
  BY <1>1, <1>2 DEF Present, Dealt
<1>11. Covers(f, m, Dealt \cup poll.got)'
  <2>1. m.last < box'[f].next /\ m.validity <= box'[f].validity
    BY <1>1, <1>4, <1>5, <1>7, <1>10
  <2> QED
    BY <1>4, <1>9, <1>10, <2>1 DEF Covers
<1>12. \A i \in DOMAIN poll'.staged :
         \/ i \in DOMAIN poll.staged /\ poll'.staged[i] = poll.staged[i]
         \/ poll'.staged[i] = m
  <2>1. poll'.staged = Append(poll.staged, m)
    BY <1>1, <1>3
  <2> QED
    BY <1>6, <2>1
<1>13. \A i \in DOMAIN poll'.staged :
         \/ \E j \in DOMAIN poll.staged : poll'.staged[i] = poll.staged[j]
         \/ Covers(poll.staged[i].folder, poll.staged[i], Dealt \cup poll.got)'
  BY <1>4, <1>11, <1>12
<1>14. poll.got \subseteq poll'.got /\ kept \subseteq kept'
  BY <1>2, <1>10
<1>15. StagedOk'
  BY <1>13, <1>14, StagedStay DEF MarksInv
<1>16. poll'.step = "folder"
  BY <1>1
<1> QED
  BY <1>15, <1>16 DEF WindowOk

\* Marks are committed when all that the poll got is stored.
LEMMA CommitMarks ==
    ASSUME Storing, StateOk, StateOk', StoredFirst, MarksInv, Grows, commit
    PROVE  CommittedOk' /\ StagedOk' /\ WindowOk'
<1>1. /\ poll.step = "commit" /\ poll.staged # <<>> /\ UNCHANGED <<box, kept>>
      /\ poll' = [poll EXCEPT !.staged = Tail(poll.staged)]
  BY DEF commit
<1>2. poll.staged \in Seq(Mark)
  BY DEF StateOk, PollType
<1>3. PICK m \in Mark : m = Head(poll.staged) /\ m = poll.staged[1] /\ 1 \in DOMAIN poll.staged
  BY <1>1, <1>2
<1>4. /\ poll'.staged = Tail(poll.staged) /\ poll'.got = poll.got /\ poll'.step = "commit"
  BY <1>1 DEF StateOk, PollType
<1>5. m.folder \in Folders /\ m.validity \in Nat /\ m.last \in Nat
  BY InboxAssumption DEF Mark
<1>6. StagedOk'
  <2>1. \A i \in DOMAIN Tail(poll.staged) :
          i + 1 \in DOMAIN poll.staged /\ Tail(poll.staged)[i] = poll.staged[i + 1]
    BY <1>1, <1>2
  <2>2. \A i \in DOMAIN poll'.staged :
          \E j \in DOMAIN poll.staged : poll'.staged[i] = poll.staged[j]
    BY <1>4, <2>1
  <2>3. kept \subseteq kept' /\ poll.got \subseteq poll'.got
    BY <1>1, <1>4
  <2> QED
    BY <2>2, <2>3, StagedStay DEF MarksInv
<1>7. Covers(m.folder, m, Dealt)
  <2>1. Covers(m.folder, m, Dealt \cup poll.got)
    BY <1>3 DEF MarksInv, StagedOk
  <2>2. Dealt \cup poll.got = Dealt
    BY <1>1 DEF StoredFirst, Dealt
  <2> QED
    BY <2>1, <2>2
<1>8. ASSUME NEW f \in Folders, hwm'[f] # None
      PROVE  Covers(f, hwm[f], Dealt)'
  <2>1. PICK M : M = Dealt /\ M = Dealt'
    BY <1>1 DEF Dealt
  <2>2. CASE hwm'[f] = hwm[f]
    <3>1. PICK k : k = hwm[f]
      OBVIOUS
    <3>2. k \in Marks
      BY <1>8, <2>2, <3>1 DEF StateOk
    <3>3. k.validity \in Nat /\ k.last \in Nat
      BY <3>2, InboxAssumption DEF Marks
    <3>4. Covers(f, k, M)
      BY <1>8, <2>1, <2>2, <3>1 DEF MarksInv, CommittedOk
    <3>5. Covers(f, k, M)'
      BY <3>3, <3>4, CoversStay
    <3> QED
      BY <2>1, <2>2, <3>1, <3>5
  <2>3. CASE hwm'[f] # hwm[f]
    <3>1. PICK k : k = [validity |-> m.validity, last |-> m.last]
      OBVIOUS
    <3>2. f = m.folder /\ hwm'[f] = k
      BY <1>3, <2>3, <3>1 DEF commit, StateOk
    <3>3. Covers(f, k, M)
      BY <1>7, <2>1, <3>1, <3>2 DEF Covers
    <3>4. k.validity \in Nat /\ k.last \in Nat
      BY <1>5, <3>1
    <3>5. Covers(f, k, M)'
      BY <3>3, <3>4, CoversStay
    <3> QED
      BY <2>1, <3>2, <3>5
  <2> QED
    BY <2>2, <2>3
<1> QED
  BY <1>4, <1>6, <1>8 DEF CommittedOk, WindowOk

\* Every step keeps the marks good.
LEMMA MarksStep ==
    ASSUME Storing, Expunged \cap Rebuilt = {}, StateOk, StateOk', StoredFirst, MarksInv,
           [Next]_vars
    PROVE  MarksInv'
<1>1. ASSUME UNCHANGED box
      PROVE  Grows /\ Numbered'
  <2>1. \A g \in Folders : box[g].validity <= box[g].validity /\ box[g].next <= box[g].next
    BY FolderNumbers
  <2>2. \A g \in Folders : Present(g)' = Present(g)
    BY <1>1 DEF Present
  <2>3. Grows
    BY <1>1, <2>1, <2>2 DEF Grows
  <2> QED
    BY <1>1, <2>2, <2>3 DEF MarksInv, Numbered
<1>2. ASSUME poll' = Idle, UNCHANGED <<box, hwm, kept>>
      PROVE  MarksInv'
  <2>1. poll'.step = "idle" /\ poll'.staged = <<>>
    BY <1>2, IdleType
  <2>2. CommittedOk'
    BY <1>1, <1>2, CommittedStay DEF MarksInv
  <2> QED
    BY <1>1, <1>2, <2>1, <2>2 DEF MarksInv, StagedOk, WindowOk
<1>3. ASSUME UNCHANGED <<box, hwm>>, kept \subseteq kept',
             poll'.staged = poll.staged, poll'.got = poll.got, poll'.step # "fetch"
      PROVE  MarksInv'
  <2>1. Grows /\ Numbered'
    BY <1>1, <1>3
  <2>2. CommittedOk'
    BY <1>3, <2>1, CommittedStay DEF MarksInv
  <2>3. StagedOk'
    BY <1>3, <2>1, StagedStay DEF MarksInv
  <2> QED
    BY <1>3, <2>1, <2>2, <2>3 DEF MarksInv, WindowOk
<1>4. ASSUME UNCHANGED <<hwm, poll, kept>>, Grows, Numbered'
      PROVE  MarksInv'
  <2>1. CommittedOk'
    BY <1>4, CommittedStay DEF MarksInv
  <2>2. StagedOk'
    BY <1>4, StagedStay DEF MarksInv
  <2>3. WindowOk'
    BY <1>4, WindowStay DEF MarksInv
  <2> QED
    BY <1>4, <2>1, <2>2, <2>3 DEF MarksInv
<1>5. CASE UNCHANGED vars
  BY <1>1, <1>4, <1>5 DEF vars
<1>6. ASSUME NEW f \in Folders,
             \/ \E m \in Mails : arrive(f, m)
             \/ \E u \in UIDs : expunge(f, u)
             \/ reset(f)
      PROVE  MarksInv'
  <2>1. Grows /\ Numbered'
    BY <1>6, ServerGrows DEF MarksInv
  <2>2. UNCHANGED <<hwm, poll, kept>>
    BY <1>6, ServerTypes
  <2> QED
    BY <1>4, <2>1, <2>2
<1>7. ASSUME NEW fs \in FolderLists, poll_begin(fs)
      PROVE  MarksInv'
  <2>1. /\ poll'.step = "folder" /\ poll'.staged = poll.staged /\ poll'.got = poll.got
        /\ UNCHANGED <<box, hwm, kept>>
    BY <1>7, IdleType DEF poll_begin, PollType
  <2> QED
    BY <1>3, <2>1
<1>8. CASE poll_search
  <2>1. PICK f \in Folders :
             /\ f = Head(poll.todo) /\ poll.todo # <<>>
             /\ \/ /\ search_uid(f, Start(f)) = {}
                   /\ \E uid \in 0..MaxUid :
                        /\ uid = IF get(f) = None THEN 0 ELSE get(f).last
                        /\ set(f, box[f].validity, uid)
                \/ /\ search_uid(f, Start(f)) # {}
                   /\ \E W \in SUBSET Present(f) :
                        /\ W = Window(search_uid(f, Start(f)))
                        /\ poll' = [poll EXCEPT !.step = "fetch", !.want = W,
                                                !.validity = box[f].validity]
    BY <1>8, SearchStep, Zenon
  <2>2. UNCHANGED <<box, hwm, kept>>
    BY <1>8 DEF poll_search
  <2>3. Grows /\ Numbered' /\ CommittedOk'
    BY <1>1, <2>2, CommittedStay DEF MarksInv
  <2>4. ASSUME search_uid(f, Start(f)) = {},
               NEW uid \in 0..MaxUid, uid = (IF get(f) = None THEN 0 ELSE get(f).last),
               set(f, box[f].validity, uid)
        PROVE  StagedOk' /\ WindowOk'
    BY <2>1, <2>2, <2>3, <2>4, EmptySearchMarks
  <2>5. ASSUME NEW W \in SUBSET Present(f), W = Window(search_uid(f, Start(f))),
               poll' = [poll EXCEPT !.step = "fetch", !.want = W, !.validity = box[f].validity]
        PROVE  StagedOk' /\ WindowOk'
    <3>1. WindowOk' /\ poll'.staged = poll.staged /\ poll'.got = poll.got
      BY <2>1, <2>2, <2>5, SearchWindow
    <3>2. StagedOk'
      BY <2>2, <2>3, <3>1, StagedStay DEF MarksInv
    <3> QED
      BY <3>1, <3>2
  <2> QED
    BY <2>1, <2>3, <2>4, <2>5 DEF MarksInv
<1>9. CASE poll_fetch
  <2>1. UNCHANGED <<box, hwm, kept>>
    BY <1>9 DEF poll_fetch
  <2>2. Grows /\ Numbered' /\ CommittedOk'
    BY <1>1, <2>1, CommittedStay DEF MarksInv
  <2> QED
    BY <1>9, <2>2, FetchMarks DEF MarksInv
<1>10. CASE match_reply_to_request
  <2>1. /\ poll'.step = "insert" /\ poll'.staged = poll.staged /\ poll'.got = poll.got
        /\ UNCHANGED <<box, hwm, kept>>
    BY <1>10 DEF match_reply_to_request, StateOk, PollType
  <2> QED
    BY <1>3, <2>1
<1>11. ASSUME NEW m \in Mails, insert(m)
       PROVE  MarksInv'
  <2>1. /\ poll'.step = "insert" /\ poll'.staged = poll.staged /\ poll'.got = poll.got
        /\ UNCHANGED <<box, hwm>> /\ kept \subseteq kept'
    BY <1>11 DEF insert, StateOk, PollType
  <2> QED
    BY <1>3, <2>1
<1>12. CASE insert_done
  <2>1. /\ poll'.step = "commit" /\ poll'.staged = poll.staged /\ poll'.got = poll.got
        /\ UNCHANGED <<box, hwm, kept>>
    BY <1>12 DEF insert_done, StateOk, PollType
  <2> QED
    BY <1>3, <2>1
<1>13. CASE commit
  <2>1. UNCHANGED box
    BY <1>13 DEF commit
  <2> QED
    BY <1>1, <1>13, <2>1, CommitMarks DEF MarksInv
<1>14. CASE poll_return \/ poll_exhausted \/ poll_omitted \/ poll_malformed \/ poll_error
  BY <1>2, <1>14 DEF poll_return, poll_exhausted, poll_omitted, poll_malformed, poll_error
<1>15. CASE recover
  BY <1>1, <1>4, <1>15 DEF recover
<1> QED
  BY <1>5, <1>6, <1>7, <1>8, <1>9, <1>10, <1>11, <1>12, <1>13, <1>14, <1>15
     DEF Next, PollStep

\* Empty folders, no marks.
LEMMA MarksInit ==
    Init => MarksInv
<1> SUFFICES ASSUME Init PROVE MarksInv
  OBVIOUS
<1>1. \A f \in Folders : /\ box[f].next = 1
                         /\ box[f].mail = [u \in UIDs |-> None]
                         /\ hwm[f] = None
  BY DEF Init, Empty
<1>2. \A f \in Folders : Present(f) = {}
  BY <1>1 DEF Present
<1>3. \A u \in UIDs : ~(u < 1)
  BY InboxAssumption DEF UIDs
<1>4. Numbered
  BY <1>1, <1>2, <1>3 DEF Numbered
<1>5. poll.step = "idle" /\ poll.staged = <<>>
  BY IdleType DEF Init
<1> QED
  BY <1>1, <1>4, <1>5 DEF MarksInv, CommittedOk, StagedOk, WindowOk

\* "no-skip retry behavior": where a reply store is passed and no folder loses
\* mails and is rebuilt as well, a mail at or below the mark of its folder has
\* been stored or is too old, wherever polls failed and whatever arrived,
\* disappeared or was numbered anew meanwhile.
THEOREM MarksSkipNothing ==
    ASSUME Storing, Expunged \cap Rebuilt = {}
    PROVE  Spec => []NoSkip
<1>1. Init => StateOk /\ StoredFirst /\ MarksInv
  BY StoredInit, MarksInit
<1>2. StateOk /\ StoredFirst /\ MarksInv /\ [Next]_vars => (StateOk /\ StoredFirst /\ MarksInv)'
  <2> SUFFICES ASSUME StateOk, StoredFirst, MarksInv, [Next]_vars
               PROVE  (StateOk /\ StoredFirst /\ MarksInv)'
    OBVIOUS
  <2>1. StateOk' /\ StoredFirst'
    BY StoredStep
  <2> QED
    BY <2>1, MarksStep
<1>3. MarksInv => NoSkip
  BY DEF MarksInv, CommittedOk, Covers, Dealt, NoSkip
<1> QED
  BY <1>1, <1>2, <1>3, PTL DEF Spec

=============================================================================
