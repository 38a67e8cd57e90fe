----------------------------- MODULE ImapClient -----------------------------
(***************************************************************************)
(* One IMAP session: crates/symeraseme-core/src/email/imap/client.rs, from *)
(* dial to the end of the fetch, against a server that answers, refuses,   *)
(* says nothing until the read timeout, or closes the connection.          *)
(*                                                                         *)
(* A command is answered by untagged lines and one tagged line, "OK",      *)
(* "NO" or "BAD"; "+" asks to go on.                                       *)
(***************************************************************************)
EXTENDS Naturals, Sequences, SequencesExt, FiniteSets

CONSTANTS Folders,      \* names of folders, as sequences of characters
          Searches      \* what SEARCH may return: sequences of UIDs

\* The steps that read.
Reads == {"greeting", "capability", "starttls", "login", "xoauth2", "logout",
          "examine", "search", "fetch"}

\* oauth2: "none", "empty" (a token that is empty) or "token".
ImapConfigs == [use_tls : BOOLEAN, oauth2 : {"none", "empty", "token"}, password : BOOLEAN,
                allow_insecure_cleartext_auth : BOOLEAN]

VARIABLES imap,        \* the client: config, step, encryption, what it has read
          closed,      \* has the server closed the connection?
          exposed      \* were credentials sent unencrypted?

imap_vars == <<imap, closed, exposed>>

ImapStarts ==
    [config : ImapConfigs, step : {"dial"}, tls : {FALSE}, starttls : {FALSE},
     validity : {FALSE}, left : {4}, folder : {<<>>}, argument : {<<>>}, uids : {<<>>},
     asked : {<<>>}]

ImapInit ==
    /\ imap \in ImapStarts
    /\ closed = FALSE
    /\ exposed = FALSE

ended(step) == step \in {"error", "done"}
go(step) == imap' = [imap EXCEPT !.step = step]

\* Sending LOGIN or AUTHENTICATE.
authenticate(encrypted) ==
    LET cfg == imap.config
        step == IF cfg.oauth2 = "token" THEN "xoauth2"
                ELSE IF cfg.oauth2 = "none" /\ cfg.password THEN "login" ELSE "examine" IN
    /\ imap' = [imap EXCEPT !.step = step, !.tls = encrypted]
    /\ exposed' = (exposed \/ (step # "examine" /\ ~encrypted))

-----------------------------------------------------------------------------
(* What the commands say. A folder's name is made of printable characters, *)
(* "q" being the quotation mark and "b" the backslash, and of others; "=u" *)
(* stands for the base64 of the other character "u".                       *)

Others == {"u", "v"}
Base64 == [u |-> "=u", v |-> "=v"]

\* Modified UTF-7: runs of other characters stand between "&" and "-".
encoded(folder) ==
    LET flush(s) == IF s.units = <<>> THEN s
                    ELSE [text |-> s.text \o <<"&">> \o s.units \o <<"-">>, units |-> <<>>]
        char(s, c) ==
            IF c \in Others THEN [s EXCEPT !.units = Append(@, Base64[c])]
            ELSE [flush(s) EXCEPT !.text = @ \o IF c = "&" THEN <<"&", "-">> ELSE <<c>>]
    IN  flush(FoldLeft(char, [text |-> <<>>, units |-> <<>>], folder)).text

escape(text, c) ==
    FlattenSeq([i \in DOMAIN text |-> IF text[i] = c THEN <<"b", c>> ELSE <<text[i]>>])

\* Faulty variant: the quotation marks are escaped first, then the backslashes.
quoted_MarksFirst(text) == <<"q">> \o escape(escape(text, "q"), "b") \o <<"q">>
quoted(text) == <<"q">> \o escape(escape(text, "b"), "q") \o <<"q">>

\* INBOX goes out as it is.
mailbox_argument(folder) == IF folder = <<"INBOX">> THEN folder ELSE quoted(encoded(folder))

\* collapse_uids: sorted, then runs of consecutive numbers as ranges.
collapse_uids(uids) ==
    LET order == SortSeq(uids, <)
        step(ranges, uid) ==
            IF ranges # <<>> /\ uid = Last(ranges)[2] + 1
            THEN [ranges EXCEPT ![Len(ranges)] = <<@[1], uid>>]
            ELSE Append(ranges, <<uid, uid>>)
    IN  FoldLeft(step, <<>>, order)

-----------------------------------------------------------------------------
\* connect_addresses, the timeouts and implicit TLS.
dial ==
    /\ imap.step = "dial"
    /\ \/ imap' = [imap EXCEPT !.step = "greeting", !.tls = imap.config.use_tls]
       \/ go("error")
    /\ UNCHANGED <<closed, exposed>>

\* read_greeting, and the CAPABILITY command; another greeting is an error.
read_greeting ==
    /\ imap.step = "greeting" /\ ~closed
    /\ \E step \in {"capability", "error"} : go(step)
    /\ UNCHANGED <<closed, exposed>>

\* capability: the untagged line that names STARTTLS, ...
read_capability ==
    /\ imap.step = "capability" /\ ~closed
    /\ ~imap.starttls
    /\ imap' = [imap EXCEPT !.starttls = TRUE]
    /\ UNCHANGED <<closed, exposed>>

\* Faulty variant: a server without STARTTLS is trusted.
capability_done_Trusting ==
    /\ imap.step = "capability" /\ ~closed
    /\ IF ~imap.tls /\ imap.starttls
       THEN go("starttls") /\ UNCHANGED exposed
       ELSE authenticate(imap.tls)
    /\ UNCHANGED closed

\* ... and the tagged one, whatever it says: on to STARTTLS, to the
\* credentials, or no further.
capability_done ==
    /\ imap.step = "capability" /\ ~closed
    /\ IF ~imap.tls /\ imap.starttls THEN go("starttls") /\ UNCHANGED exposed
       ELSE IF imap.tls \/ imap.config.allow_insecure_cleartext_auth
       THEN authenticate(imap.tls)
       ELSE go("error") /\ UNCHANGED exposed
    /\ UNCHANGED closed

\* The answer to STARTTLS and the handshake.
read_starttls ==
    /\ imap.step = "starttls" /\ ~closed
    /\ \/ authenticate(TRUE)
       \/ go("error") /\ UNCHANGED exposed
    /\ UNCHANGED closed

\* authenticate_xoauth2: "+" is answered with an empty line.
read_xoauth2 ==
    /\ imap.step = "xoauth2" /\ ~closed
    /\ \E line \in {"+", "OK", "NO", "BAD"} :
          go(CASE line = "+" -> "xoauth2" [] line = "OK" -> "examine" [] OTHER -> "error")
    /\ UNCHANGED <<closed, exposed>>

\* login: a refusal is followed by LOGOUT, ...
read_login ==
    /\ imap.step = "login" /\ ~closed
    /\ \E line \in {"OK", "NO", "BAD"} :
          go(CASE line = "OK" -> "examine" [] line = "NO" -> "logout" [] OTHER -> "error")
    /\ UNCHANGED <<closed, exposed>>

\* Faulty variant: LOGOUT waits for its own tag however long it takes.
read_logout_Patient ==
    /\ imap.step = "logout"
    /\ ~closed
    /\ go("error")
    /\ UNCHANGED <<closed, exposed>>

\* ... whose answer is read for at most four lines (logout_after_failure); at
\* the end of the stream a line is empty.
read_logout ==
    /\ imap.step = "logout"
    /\ \/ ~closed /\ go("error")
       \/ imap' = [imap EXCEPT !.left = @ - 1, !.step = IF imap.left = 1 THEN "error" ELSE @]
    /\ UNCHANGED <<closed, exposed>>

\* examine: the command for a folder; writing it to a closed connection may fail.
examine(folder) ==
    /\ imap.step = "examine" /\ imap.argument = <<>>
    /\ \/ closed /\ go("error")
       \/ imap' = [imap EXCEPT !.folder = folder, !.argument = mailbox_argument(folder)]
    /\ UNCHANGED <<closed, exposed>>

\* read_examine_response: NO is an error, and so is no UIDVALIDITY.
read_examine ==
    /\ imap.step = "examine" /\ imap.argument # <<>> /\ ~closed
    /\ \/ ~imap.validity /\ imap' = [imap EXCEPT !.validity = TRUE]
       \/ \E line \in {"OK", "NO", "BAD"} :
             imap' = [imap EXCEPT !.step = IF line # "NO" /\ imap.validity THEN "search"
                                           ELSE "error",
                                  !.folder = <<>>, !.argument = <<>>]
    /\ UNCHANGED <<closed, exposed>>

\* read_search_response: NO is an error; nothing found ends the poll; else the
\* FETCH command for what was found.
read_search ==
    /\ imap.step = "search" /\ ~closed
    /\ \E line \in {"OK", "NO", "BAD"}, uids \in Searches :
          /\ uids # <<>> => line = "OK"
          /\ imap' = [imap EXCEPT !.step = IF line = "NO" THEN "error"
                                           ELSE IF uids # <<>> THEN "fetch" ELSE "done",
                                  !.uids = uids, !.asked = collapse_uids(uids)]
    /\ UNCHANGED <<closed, exposed>>

\* read_fetch_response: one response after the other, literals included; one
\* that lacks a section or is too long is an error, and so is the end of the
\* stream.
read_fetch ==
    /\ imap.step = "fetch"
    /\ \E step \in IF closed THEN {"error"} ELSE {"error", "done"} :
          imap' = [imap EXCEPT !.step = step, !.uids = <<>>, !.asked = <<>>]
    /\ UNCHANGED <<closed, exposed>>

\* The loops that read lines until the one with their tag.
AwaitsTag ==
    \/ imap.step \in {"capability", "login", "xoauth2", "search"}
    \/ imap.step = "examine" /\ imap.argument # <<>>

\* read_line at the end of the stream is an empty line, at once: where one line
\* is read it is an error, in a loop that waits for its tag it is skipped and
\* the next one is read, without end.
read_eof ==
    /\ closed
    /\ \/ imap.step \in {"greeting", "starttls"} /\ go("error")
       \/ AwaitsTag /\ UNCHANGED imap
    /\ UNCHANGED <<closed, exposed>>

\* The read timeout.
time_out ==
    /\ ~closed
    /\ imap.step \in Reads
    /\ go("error")
    /\ UNCHANGED <<closed, exposed>>

\* The server closes the connection.
server_close ==
    /\ imap.step \in Reads
    /\ ~closed
    /\ closed' = TRUE
    /\ UNCHANGED <<imap, exposed>>

ImapClientStep ==
    \/ dial \/ read_greeting \/ read_capability \/ capability_done \/ read_starttls
    \/ read_xoauth2 \/ read_login \/ read_logout \/ (\E f \in Folders : examine(f))
    \/ read_examine \/ read_search \/ read_fetch \/ read_eof

ImapNext == ImapClientStep \/ time_out \/ server_close

\* A read ends with a line or with the timeout of the socket, and a server that
\* answers a command does so after finitely many lines.
ImapFair == WF_imap_vars(ImapClientStep \/ time_out)
ImapSpec == ImapInit /\ [][ImapNext]_imap_vars /\ ImapFair

-----------------------------------------------------------------------------
(* Properties *)

\* Credentials go out unencrypted only where the configuration allows it,
\* whatever the server advertises and however the upgrade goes (dial).
CredentialsEncrypted == exposed => imap.config.allow_insecure_cleartext_auth

\* Every session that has a connection ends, the server answering, refusing or
\* silent ("the transport applies its own 30-second default when the timeout is
\* unset", email/config.rs), and when it closes the connection while the client
\* reads a single line, a literal or the answer to LOGOUT. The one exception is
\* what read_line makes of the end of the stream in a loop that waits for its
\* tag: the client reads empty lines from then on.
SessionEnds == imap.step # "dial" ~> (ended(imap.step) \/ (closed /\ AwaitsTag))

\* What a server makes of a quoted string and of modified UTF-7.
unquote(s) ==
    LET from[i \in Nat] == IF i >= Len(s) THEN <<>>
                           ELSE IF s[i] = "b" THEN <<s[i + 1]>> \o from[i + 2]
                           ELSE <<s[i]>> \o from[i + 1]
    IN  from[2]
decoded(s) ==
    LET Inside(i) == \E j \in 1..i : s[j] = "&" /\ \A k \in j..i : s[k] # "-"
        char(i) == IF s[i] = "&" THEN IF s[i + 1] = "-" THEN <<"&">> ELSE <<>>
                   ELSE IF Inside(i) THEN <<CHOOSE c \in Others : Base64[c] = s[i]>>
                   ELSE IF s[i] = "-" /\ i > 1 /\ Inside(i - 1) THEN <<>>
                   ELSE <<s[i]>>
    IN  FlattenSeq([i \in DOMAIN s |-> char(i)])

\* Whatever the name of the folder and the order of the search's answer: the
\* server reads the name that was meant in EXAMINE, and FETCH asks for exactly
\* the messages that SEARCH returned.
CommandsSayWhatIsMeant ==
    /\ imap.argument # <<>> /\ imap.folder # <<"INBOX">> =>
         decoded(unquote(imap.argument)) = imap.folder
    /\ imap.step = "fetch" =>
         UNION {imap.asked[i][1]..imap.asked[i][2] : i \in DOMAIN imap.asked} = ToSet(imap.uids)

\* Both, for a server that may answer anything, stall, or close the connection
\* in any step.
ImapSafe == CredentialsEncrypted /\ CommandsSayWhatIsMeant

=============================================================================
