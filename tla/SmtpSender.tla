----------------------------- MODULE SmtpSender -----------------------------
(***************************************************************************)
(* Sending one mail: crates/symeraseme-core/src/email/smtp.rs and          *)
(* smtp/network.rs.  The transaction goes EHLO (or HELO), STARTTLS, EHLO   *)
(* again, AUTH, MAIL, one RCPT per recipient, DATA, the text, QUIT; every  *)
(* reply that is not the one expected ends it with an error.  The text is  *)
(* sent with its lines ended by CRLF and its leading dots doubled.         *)
(***************************************************************************)
EXTENDS Naturals, SequencesExt

CONSTANTS Recipients,        \* the recipients, a sequence
          Texts              \* the texts, sequences over Bytes

Bytes == {"CR", "LF", ".", "a"}

ASSUME SmtpAssumption ==
    /\ Recipients \in Seq(ToSet(Recipients)) /\ Len(Recipients) > 0
    /\ \A t \in Texts : t \in Seq(Bytes)

VARIABLES smtp,        \* the client: step, recipient, extensions, encryption
          text,        \* the text sent
          wire,        \* what went out after DATA
          mailbox,     \* the server: accepted recipients and the mails taken
          result       \* what send returns

smtp_vars == <<smtp, text, wire, mailbox, result>>

\* cfg: use_tls, a local host, and "none", "plain" or "xoauth2" credentials.
SmtpStarts ==
    [use_tls : BOOLEAN, local : BOOLEAN, auth : {"none", "plain", "xoauth2"},
     step : {"connect"}, tls : {FALSE}, extensions : {FALSE}, next : {1}]

SmtpInit ==
    /\ smtp \in SmtpStarts
    /\ text = <<>>
    /\ wire = <<>>
    /\ mailbox = [rcpt |-> {}, taken |-> <<>>]
    /\ result = "none"

smtp_go(step) == smtp' = [smtp EXCEPT !.step = step]
fail == smtp_go("end") /\ result' = "error"

-----------------------------------------------------------------------------
(* The text *)

\* Faulty variant: a dot is doubled only at the start of the text.
dot_encode_First(raw) ==
    LET put(s, i) == s \o (IF i = 1 /\ raw[i] = "." THEN <<".">> ELSE <<>>)
                       \o (IF raw[i] = "LF" /\ (i = 1 \/ raw[i - 1] # "CR") THEN <<"CR">>
                           ELSE <<>>) \o <<raw[i]>>
    IN FoldLeft(put, <<>>, [i \in DOMAIN raw |-> i])
         \o (IF raw # <<>> /\ Last(raw) = "LF" THEN <<>>
             ELSE IF raw # <<>> /\ Last(raw) = "CR" THEN <<"LF">> ELSE <<"CR", "LF">>)
         \o <<".", "CR", "LF">>

\* The loop of send_inner after DATA.
dot_encode(raw) ==
    LET starts(i) == i = 1 \/ raw[i - 1] = "LF"
        put(s, i) == s \o (IF starts(i) /\ raw[i] = "." THEN <<".">> ELSE <<>>)
                       \o (IF raw[i] = "LF" /\ (i = 1 \/ raw[i - 1] # "CR") THEN <<"CR">>
                           ELSE <<>>) \o <<raw[i]>>
    IN FoldLeft(put, <<>>, [i \in DOMAIN raw |-> i])
         \o (IF raw # <<>> /\ Last(raw) = "LF" THEN <<>>
             ELSE IF raw # <<>> /\ Last(raw) = "CR" THEN <<"LF">> ELSE <<"CR", "LF">>)
         \o <<".", "CR", "LF">>

\* What a server makes of it (RFC 5321): the mail ends at the first line that
\* is a single dot, a dot that begins any other line is dropped.
LineEnds(w) == {i \in DOMAIN w : i > 1 /\ w[i] = "LF" /\ w[i - 1] = "CR"}
LineStart(w, i) == i = 1 \/ i - 1 \in LineEnds(w)
Ends(w) == {i \in DOMAIN w : /\ LineStart(w, i) /\ w[i] = "."
                             /\ i + 2 <= Len(w)
                             /\ SubSeq(w, i + 1, i + 2) = <<"CR", "LF">>}
Received(w) ==
    LET end == CHOOSE i \in Ends(w) : \A j \in Ends(w) : i <= j
        kept == SelectSeq([i \in 1..(end - 1) |-> i], LAMBDA i : ~(LineStart(w, i) /\ w[i] = "."))
    IN [rest |-> SubSeq(w, end + 3, Len(w)), body |-> [i \in DOMAIN kept |-> w[kept[i]]]]

\* The text with its lines ended by CRLF.
Canonical(raw) ==
    LET put(s, i) == s \o (IF raw[i] = "LF" /\ (i = 1 \/ raw[i - 1] # "CR")
                           THEN <<"CR", "LF">> ELSE <<raw[i]>>)
        lines == FoldLeft(put, <<>>, [i \in DOMAIN raw |-> i])
    IN IF lines # <<>> /\ Last(lines) = "LF" THEN lines
       ELSE IF lines # <<>> /\ Last(lines) = "CR" THEN Append(lines, "LF")
       ELSE lines \o <<"CR", "LF">>

-----------------------------------------------------------------------------
(* The transaction.  ok: the reply is the one expected. *)

connect(ok) ==
    /\ smtp.step = "connect"
    /\ IF ok THEN smtp_go("greeting") /\ UNCHANGED result ELSE fail
    /\ UNCHANGED <<text, wire, mailbox>>

expect_greeting(ok) ==
    /\ smtp.step = "greeting"
    /\ IF ok THEN smtp_go("ehlo") /\ UNCHANGED result ELSE fail
    /\ UNCHANGED <<text, wire, mailbox>>

\* After the greeting, encryption; after that, or without, the credentials,
\* which PLAIN sends unencrypted to a local host only.
after_hello(extensions) ==
    IF smtp.use_tls /\ ~smtp.tls
    THEN IF extensions
         THEN smtp' = [smtp EXCEPT !.step = "starttls", !.extensions = extensions]
              /\ UNCHANGED result
         ELSE fail
    ELSE IF smtp.auth = "plain" /\ ~smtp.use_tls /\ ~smtp.local THEN fail
    ELSE /\ smtp' = [smtp EXCEPT !.step = IF smtp.auth = "none" THEN "mail" ELSE "auth",
                                 !.extensions = extensions]
         /\ UNCHANGED result

\* hello: the extensions of EHLO, or HELO without any.
hello(ok) ==
    /\ smtp.step = "ehlo"
    /\ IF ok THEN \E e \in BOOLEAN : after_hello(e)
       ELSE smtp_go("helo") /\ UNCHANGED result
    /\ UNCHANGED <<text, wire, mailbox>>

helo(ok) ==
    /\ smtp.step = "helo"
    /\ IF ok THEN after_hello(FALSE) ELSE fail
    /\ UNCHANGED <<text, wire, mailbox>>

\* STARTTLS, the handshake, and EHLO again.
starttls(ok) ==
    /\ smtp.step = "starttls"
    /\ IF ok THEN smtp' = [smtp EXCEPT !.step = "ehlo", !.tls = TRUE] /\ UNCHANGED result
       ELSE fail
    /\ UNCHANGED <<text, wire, mailbox>>

\* authenticate: 235, or an error after "*" and QUIT.
smtp_authenticate(ok) ==
    /\ smtp.step = "auth"
    /\ IF ok THEN smtp_go("mail") /\ UNCHANGED result ELSE fail
    /\ UNCHANGED <<text, wire, mailbox>>

mail_from(ok) ==
    /\ smtp.step = "mail"
    /\ IF ok THEN smtp_go("rcpt") /\ UNCHANGED result ELSE fail
    /\ UNCHANGED <<text, wire, mailbox>>

\* Faulty variant: a refused recipient is skipped.
rcpt_to_Skip(ok) ==
    /\ smtp.step = "rcpt"
    /\ smtp' = [smtp EXCEPT !.next = @ + 1,
                            !.step = IF smtp.next = Len(Recipients) THEN "data" ELSE "rcpt"]
    /\ mailbox' = [mailbox EXCEPT !.rcpt = IF ok THEN @ \cup {Recipients[smtp.next]} ELSE @]
    /\ UNCHANGED <<text, wire, result>>

\* RCPT for the next recipient; one that is refused ends the transaction.
rcpt_to(ok) ==
    /\ smtp.step = "rcpt"
    /\ IF ok
       THEN /\ smtp' = [smtp EXCEPT !.next = @ + 1,
                                    !.step = IF smtp.next = Len(Recipients) THEN "data"
                                             ELSE "rcpt"]
            /\ mailbox' = [mailbox EXCEPT !.rcpt = @ \cup {Recipients[smtp.next]}]
            /\ UNCHANGED result
       ELSE fail /\ UNCHANGED mailbox
    /\ UNCHANGED <<text, wire>>

\* DATA, and the text in one write.
data(ok) ==
    /\ smtp.step = "data"
    /\ \E raw \in Texts :
          IF ok
          THEN /\ smtp_go("final") /\ UNCHANGED result
               /\ text' = raw /\ wire' = dot_encode(raw)
          ELSE fail /\ UNCHANGED <<text, wire>>
    /\ UNCHANGED mailbox

\* The server takes the mail, or refuses it; its reply may be lost.
expect_final(ok) ==
    /\ smtp.step = "final"
    /\ \E taken \in BOOLEAN :
          /\ ok => taken
          /\ mailbox' = IF taken THEN [mailbox EXCEPT !.taken = Append(@, Received(wire))]
                        ELSE mailbox
    /\ IF ok THEN smtp_go("quit") /\ UNCHANGED result ELSE fail
    /\ UNCHANGED <<text, wire>>

\* QUIT: the mail has been taken, and any other reply than 221 is an error.
quit(ok) ==
    /\ smtp.step = "quit"
    /\ smtp_go("end")
    /\ result' = IF ok THEN "ok" ELSE "error"
    /\ UNCHANGED <<text, wire, mailbox>>

SmtpNext ==
    \E ok \in BOOLEAN :
        \/ connect(ok) \/ expect_greeting(ok) \/ hello(ok) \/ helo(ok) \/ starttls(ok)
        \/ smtp_authenticate(ok) \/ mail_from(ok) \/ rcpt_to(ok) \/ data(ok)
        \/ expect_final(ok) \/ quit(ok)

SmtpSpec == SmtpInit /\ [][SmtpNext]_smtp_vars

-----------------------------------------------------------------------------
(* Properties *)

\* A send that returns success has delivered: the server took exactly one mail,
\* for every recipient, and over TLS where the configuration asks for it.
SuccessIsDelivery ==
    result = "ok" => /\ Len(mailbox.taken) = 1
                     /\ mailbox.rcpt = ToSet(Recipients)
                     /\ smtp.use_tls => smtp.tls

\* The mail the server takes is the text, whatever dots, CRs and LFs it is made
\* of: the stuffing neither ends the mail early nor leaves a dot in it.
TextArrives ==
    \A i \in DOMAIN mailbox.taken :
        mailbox.taken[i] = [rest |-> <<>>, body |-> Canonical(text)]

=============================================================================
