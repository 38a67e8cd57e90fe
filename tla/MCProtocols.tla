---------------------------- MODULE MCProtocols -----------------------------
(***************************************************************************)
(* The parts of the program that read and write formats (the replay loop,  *)
(* the JSON stream, JSON-RPC requests, a mail transaction, the views of    *)
(* the database, redaction, the registry's documents, the links in a reply *)
(* and the command line) and the files that processes share without a      *)
(* database (the profile and its key, consent tokens), each on its own:    *)
(* one part is picked at the start and only it moves.                      *)
(***************************************************************************)
EXTENDS ReplayFold, JsonStream, McpProtocol, SmtpSender, Reporting,
        Redaction, Brokers, Confirmation, CliParse, Identity, Consent

CONSTANTS MaxRows, Times, Types, Numbers,    \* the replayed logs
          Alphabet, MaxLen                   \* the bytes on the pipe

VARIABLE part    \* the part that runs

protocols_vars == <<fold_vars, stream_vars, protocol_vars, smtp_vars, report_vars,
                    redaction_vars, brokers_vars, confirmation_vars, cli_vars,
                    identity_vars, consent_vars>>

-----------------------------------------------------------------------------
(* Logs: every type at every instant, with a payload number where the fold *)
(* reads one; one row each of an unknown type, an empty type, Go's zero    *)
(* time and an undecodable row.                                            *)

Cell(t, at, n, d) ==
    [occurred_at |-> at, event_type |-> t, number |-> n, decodes |-> d]
Cells ==
    {Cell(t, at, None, TRUE) : t \in Types, at \in Times}
    \cup {Cell(t, at, n, TRUE) : t \in Types \cap {"SENT", "REMINDER_SENT"},
                                at \in Times, n \in Numbers}
    \cup {Cell("UNKNOWN", 2, None, TRUE), Cell("", 2, None, TRUE),
          Cell("SENT", 0, None, TRUE), Cell("CONFIRMED", 2, None, FALSE)}

Row(i, c) == [id |-> i, request_id |-> Request, occurred_at |-> c.occurred_at,
              event_type |-> c.event_type, number |-> c.number,
              decodes |-> c.decodes]

MCLogs == UNION {{{Row(i, f[i]) : i \in 1..n} : f \in [1..n -> Cells]} : n \in 0..MaxRows}

-----------------------------------------------------------------------------
(* Bytes: every input of MaxLen bytes, and longer ones with nested values. *)

MCInputs ==
    UNION {[1..n -> Alphabet] : n \in 0..MaxLen}
    \cup {<<"{", "q", "q", ":", "1", "}">>,
          <<"{", "q", "q", ":", "1", ",", "q", "q", ":", "[", "]", "}", "1">>,
          <<"{", "q", "q", ":", "1", ",", "}">>,
          <<"{", "q", "e", "q", "q", ":", " ", "1", " ", "}", " ">>,
          <<"{", "q", "q", " ", "}">>,
          <<"[", "[", "[", "1", "]", ",", "{", "}", "]", "]">>,
          <<"[", "[", "1", "]", ",", "{", "}", "]", "1", "1", "q", "q">>}

\* Bodies: every single request with at most one name spelled differently,
\* and batches of two.
Plain == [object : {TRUE}, jsonrpc : Versions, method : Methods, id : Ids, params : Params,
          folded : {{}} \cup {{f} : f \in Fields}, deep : BOOLEAN]
Few == {q \in Plain : /\ q.jsonrpc = "2.0" /\ q.folded = {}
                      /\ q.method \in {"ping", "tools/call", "redact_file"}
                      /\ q.id \in {"absent", "int"}
                      /\ q.params \in {"absent", "call", "path"}}
Scalar == [object |-> FALSE, jsonrpc |-> "absent", method |-> "absent", id |-> "absent",
           params |-> "absent", folded |-> {}, deep |-> FALSE]
MCBodies == {<<q>> : q \in Plain \cup {Scalar}} \cup {<<>>} \cup (Few \X (Few \cup {Scalar}))

MCRecipients == <<"to", "cc">>
MCTexts == UNION {[1..n -> {"CR", "LF", ".", "a"}] : n \in 0..4}

-----------------------------------------------------------------------------
(* Databases: requests of equal brokers, campaigns, instants and times, with *)
(* every outcome, an empty status and a garbled time.                        *)

Filed(broker, campaign, created, jurisdiction, status, out, ended, deadline, next) ==
    [broker_id |-> broker, campaign_id |-> campaign, created_at |-> created,
     jurisdiction |-> jurisdiction, current_status |-> status, sent_at |-> out,
     resolved_at |-> ended, deadline_at |-> deadline, next_action_at |-> next,
     reminders_sent |-> broker]
FiledRows ==
    {Filed(1, "a", 1, "eu", "CONFIRMED", 1, 4, 9, None),
     Filed(2, "a", 1, "EU", "CONFIRMED", 2, 10, None, None),
     Filed(2, "b", 2, "", "REJECTED_FINAL", None, Garbled, 5, None),
     Filed(1, "b", 1, "EU", "OVERDUE", 1, None, 9, 3),
     Filed(3, "a", 2, "eu", "BOUNCE", None, None, 10, None),
     Filed(2, "b", 1, "EU", "", None, None, Garbled, None),
     Filed(1, "b", 1, "EU", "AWAITING_ACK", 1, None, None, 9)}
SomeEvents ==
    {[id |-> 1, request_id |-> 1, event_type |-> "SENT", occurred_at |-> 1],
     [id |-> 2, request_id |-> 2, event_type |-> "SENT", occurred_at |-> 1],
     [id |-> 3, request_id |-> 1, event_type |-> "CONFIRMED", occurred_at |-> 5]}
Campaign(id, created) == [id |-> id, created_at |-> created]
MCDatabases ==
    {d \in {[campaigns |-> cs, requests |-> {[id |-> i] @@ f[i] : i \in DOMAIN f},
             events |-> {e \in l : e.request_id \in DOMAIN f}] :
              cs \in {{}, {Campaign("a", 1)}, {Campaign("a", 1), Campaign("b", 1)},
                      {Campaign("a", 1), Campaign("b", 2)}},
              f \in UNION {[1..n -> FiledRows] : n \in 0..3},
              l \in {{}, SomeEvents}} :
       \A r \in d.requests : \E c \in d.campaigns : c.id = r.campaign_id}
MCCellTexts == UNION {[1..n -> {",", "q", "LF", "CR", "a"}] : n \in 0..2}

-----------------------------------------------------------------------------
(* Texts with upper and lower case, profiles of at most two literals, and   *)
(* what the built-in rules may find.                                        *)

Words == UNION {[1..n -> {"a", "b"}] : n \in 1..2}
Span(from, to) == [start |-> from, end |-> to]
MCPapers ==
    {p \in [text : UNION {[1..n -> {"a", "A", "b"}] : n \in {0, 2, 4}},
            literals : {<<>>} \cup {<<w>> : w \in Words} \cup (Words \X Words)
                       \cup {<<<<"a">>, <<"a">>, <<"b">>>>},
            hits : {<<>>, <<Span(0, 2)>>, <<Span(1, 2), Span(2, 4)>>}] :
       \A i \in DOMAIN p.hits : p.hits[i].end <= Len(p.text)}

-----------------------------------------------------------------------------
(* Channels: a good one of each kind, and every way to spoil a field of it. *)

Acts == [text |-> "good"]
Form(steps) == [type |-> "web_form", url |-> "good", form_spec |-> [steps |-> steps]]
Mail == [type |-> "email", endpoint |-> "good"]
Spoilt(c) ==
    {c, [endpoint |-> "good"] @@ c, [url |-> "good"] @@ c, [odd |-> "good"] @@ c,
     [locale |-> "bad"] @@ c}
    \cup {[expected_response_days |-> n] @@ c : n \in {0, 1}}
    \cup {[disabled |-> b] @@ c : b \in BOOLEAN}
FormSteps ==
    {Acts, [text |-> "empty"], [fill |-> "empty"], [fill |-> "bad"], [fill |-> "good"],
     [wait_seconds |-> 0], [wait_seconds |-> -1, fill |-> "good"], [solve_captcha |-> "bad"],
     [odd |-> "good"], [fill |-> "empty", solve_captcha |-> "good"]}
Channels ==
    Spoilt(Mail) \cup Spoilt(Form(<<Acts>>)) \cup {Form(<<s>>) : s \in FormSteps}
    \cup {Form(<<>>), [type |-> "email"], [type |-> "fax"]}
    \cup {[type |-> "web_form", url |-> "good",
           form_spec |-> [steps |-> <<Acts>>, timeout_seconds |-> n]] : n \in {0, 1}}
SecondChannels == {Mail, Form(<<Acts>>), [disabled |-> TRUE] @@ Form(<<Acts>>)}
MCWires ==
    {[flaw |-> f, opt_out |-> <<Mail>>] : f \in {"null", "key", "id", "laws"}}
    \cup {[flaw |-> "none", opt_out |-> o] :
            o \in {<<>>} \cup {<<c>> : c \in Channels} \cup (Channels \X SecondChannels)
                  \cup (SecondChannels \X Channels)}

\* Directories: two jurisdictions with at most two files each, and every kind
\* of entry that does not belong.
Doc(stem, id, ok, bytes, nodes) ==
    [kind |-> "file", ext |-> "yaml", hidden |-> FALSE, stem |-> stem, id |-> id, ok |-> ok,
     bytes |-> bytes, nodes |-> nodes]
Docs == {Doc(1, 1, TRUE, 2, 1), Doc(1, 1, FALSE, 1, 3), Doc(2, 1, TRUE, 0, 1),
         Doc(2, 2, TRUE, 1, 2), Doc(3, 3, TRUE, 3, 2)}
OddDocs == {[Doc(4, 4, TRUE, 1, 1) EXCEPT !.kind = k] : k \in {"dir", "symlink"}}
           \cup {[Doc(4, 4, TRUE, 1, 1) EXCEPT !.ext = "txt"],
                 [Doc(4, 4, FALSE, 9, 1) EXCEPT !.hidden = TRUE]}
InOrder(files) == {fs \in SeqOf(files, 2) : Len(fs) = 2 => fs[1].stem <= fs[2].stem}
Entry(n, kind, fs) == [name |-> n, kind |-> kind, files |-> fs]
MCTrees ==
    {<<>>, <<Entry("fr", "dir", <<>>)>>, <<Entry("eu", "file", <<>>)>>}
    \cup {<<Entry("eu", "dir", fs)>> : fs \in InOrder(Docs \cup OddDocs)}
    \cup {<<Entry("eu", "dir", fs), Entry("us", "dir", gs)>> :
            fs \in InOrder(Docs), gs \in InOrder(Docs)}

Listed(id, off, js, p, st) ==
    [id |-> id, disabled |-> off, jurisdictions |-> js, priority |-> p, status |-> st]
MCCatalogues ==
    {<<Listed("a", FALSE, {"EU"}, "high", "active"),
       Listed("b", TRUE, {"EU", "US"}, "low", "active"),
       Listed("c", FALSE, {"US"}, "high", "merged"),
       Listed("d", FALSE, {"US"}, "low", "active")>>}
MCFilters == [jurisdiction : {"", "EU", "US"}, priority : {"", "high"},
              status : {"", "merged"}, include_disabled : BOOLEAN, include_inactive : BOOLEAN]

-----------------------------------------------------------------------------
(* Replies: short texts, a link with anything in it, and pairs of links. *)

Symbols == {"https", "http", "htt", "acx", "ACX", "evil", "www", "@", "/", "?", "b", ".", ":",
            "8", "%2", "%z", "ctl", " "}
ALink == {<<"https", "acx">>, <<"https", "acx", "/">>, <<"https", "www", "acx", ".">>,
          <<"https", "acx", "/", "%2", "?", "8">>, <<"https", "ACX", ":", "8", "/", ".", "8">>,
          <<"http", "acx">>, <<"htt", "https", "acx">>}
MCReplies ==
    UNION {[1..n -> Symbols] : n \in 0..2} \cup {<<"https">> \o s : s \in [1..3 -> Symbols]}
    \cup {<<"https", "acx">> \o s : s \in [1..3 -> Symbols]}
    \cup {l \o <<c>> \o k : l \in ALink, k \in ALink, c \in {" ", "<", "/"}}

-----------------------------------------------------------------------------
(* A few commands of the surface, and lines with every kind of argument. *)

CommandSpec(flags, n, required) == [flags |-> flags, positionals |-> n, required |-> required]
NoFlags == [n \in {} |-> "bool"]
Bare == CommandSpec(NoFlags, 0, FALSE)
MCSurface ==
    (<<>> :> Bare) @@ (<<"plan">> :> Bare)
    @@ (<<"plan", "execute">> :>
          CommandSpec([consent |-> "string"] @@ ("dry-run" :> "bool"), 0, FALSE))
    @@ (<<"generate-report">> :> CommandSpec([output |-> "string", all |-> "bool"], 0, FALSE))
    @@ (<<"poll-inbox">> :> CommandSpec([since |-> "int"] @@ ("since-days" :> "int"), 0, FALSE))
    @@ (<<"help">> :> CommandSpec(NoFlags, 1, FALSE))
    @@ (<<"brokers">> :> Bare) @@ (<<"brokers", "list">> :> Bare)
    @@ (<<"brokers", "show">> :> CommandSpec(NoFlags, 1, TRUE))
Given(raw, kind, n, value) == [raw |-> raw, kind |-> kind, name |-> n, value |-> value]
Word(w) == Given(w, "word", w, None)
MCArgs ==
    {Word(w) : w \in {"plan", "execute", "brokers", "show", "list", "generate-report", "help",
                      "poll-inbox", "x", "1"}}
    \cup {Given("--dry-run", "flag", "dry-run", None),
          Given("--dry-run=false", "flag", "dry-run", "false"),
          Given("--consent", "flag", "consent", None), Given("--consent=x", "flag", "consent", "x"),
          Given("--output", "flag", "output", None),
          Given("--output=json", "flag", "output", "json"), Given("--all=x", "flag", "all", "x"),
          Given("--since=1", "flag", "since", "1"),
          Given("--since-days", "flag", "since-days", None),
          Given("--help", "help", "help", None), Given("-q", "short", "q", None),
          Given("--version", "version", "version", None)}
MCArgvs ==
    SeqOf(MCArgs, 2)
    \cup {<<a, b>> \o s : a \in {Word("plan"), Word("brokers"),
                                 Given("--output=json", "flag", "output", "json")},
                          b \in {Word("execute"), Word("show"), Word("list"),
                                 Word("generate-report"), Word("poll-inbox")},
                          s \in SeqOf(MCArgs, 2)}

-----------------------------------------------------------------------------
(* The parts that do not run stay in one of their initial states. *)

ReplayRest == pending = {} /\ FoldInit
StreamRest == sent = <<>> /\ StreamInit
ProtocolRest == body = <<>> /\ ProtocolInit
SmtpRest == smtp = (CHOOSE s \in SmtpStarts : TRUE) /\ SmtpInit
ReportRest == db = [campaigns |-> {}, requests |-> {}, events |-> {}] /\ ReportInit
RedactionRest == paper = [text |-> <<>>, literals |-> <<>>, hits |-> <<>>] /\ RedactionInit
BrokersRest == BrokersInit
ConfirmationRest == body_text = <<>> /\ ConfirmationInit
CliRest == argv = <<>> /\ CliInit
IdentityRest ==
    keyring = None /\ profiles = [n \in ProfileNames |-> None] /\ IdentityInit
ConsentRest == command = [t \in Tokens |-> "execute"] /\ ConsentInit

ProtocolsInit ==
    \/ /\ part = "replay"
       /\ StreamRest /\ ProtocolRest /\ SmtpRest /\ ReportRest /\ RedactionRest
       /\ BrokersRest /\ ConfirmationRest /\ CliRest /\ IdentityRest
       /\ ConsentRest
       /\ FoldInit
    \/ /\ part = "stream"
       /\ ReplayRest /\ ProtocolRest /\ SmtpRest /\ ReportRest /\ RedactionRest
       /\ BrokersRest /\ ConfirmationRest /\ CliRest /\ IdentityRest
       /\ ConsentRest
       /\ StreamInit
    \/ /\ part = "protocol"
       /\ ReplayRest /\ StreamRest /\ SmtpRest /\ ReportRest /\ RedactionRest
       /\ BrokersRest /\ ConfirmationRest /\ CliRest /\ IdentityRest
       /\ ConsentRest
       /\ ProtocolInit
    \/ /\ part = "smtp"
       /\ ReplayRest /\ StreamRest /\ ProtocolRest /\ ReportRest
       /\ RedactionRest /\ BrokersRest /\ ConfirmationRest /\ CliRest
       /\ IdentityRest /\ ConsentRest
       /\ SmtpInit
    \/ /\ part = "report"
       /\ ReplayRest /\ StreamRest /\ ProtocolRest /\ SmtpRest /\ RedactionRest
       /\ BrokersRest /\ ConfirmationRest /\ CliRest /\ IdentityRest
       /\ ConsentRest
       /\ ReportInit
    \/ /\ part = "redaction"
       /\ ReplayRest /\ StreamRest /\ ProtocolRest /\ SmtpRest /\ ReportRest
       /\ BrokersRest /\ ConfirmationRest /\ CliRest /\ IdentityRest
       /\ ConsentRest
       /\ RedactionInit
    \/ /\ part = "brokers"
       /\ ReplayRest /\ StreamRest /\ ProtocolRest /\ SmtpRest /\ ReportRest
       /\ RedactionRest /\ ConfirmationRest /\ CliRest /\ IdentityRest
       /\ ConsentRest
       /\ BrokersInit
    \/ /\ part = "confirmation"
       /\ ReplayRest /\ StreamRest /\ ProtocolRest /\ SmtpRest /\ ReportRest
       /\ RedactionRest /\ BrokersRest /\ CliRest /\ IdentityRest /\ ConsentRest
       /\ ConfirmationInit
    \/ /\ part = "cli"
       /\ ReplayRest /\ StreamRest /\ ProtocolRest /\ SmtpRest /\ ReportRest
       /\ RedactionRest /\ BrokersRest /\ ConfirmationRest /\ IdentityRest
       /\ ConsentRest
       /\ CliInit
    \/ /\ part = "identity"
       /\ ReplayRest /\ StreamRest /\ ProtocolRest /\ SmtpRest /\ ReportRest
       /\ RedactionRest /\ BrokersRest /\ ConfirmationRest /\ CliRest
       /\ ConsentRest
       /\ IdentityInit
    \/ /\ part = "consent"
       /\ ReplayRest /\ StreamRest /\ ProtocolRest /\ SmtpRest /\ ReportRest
       /\ RedactionRest /\ BrokersRest /\ ConfirmationRest /\ CliRest
       /\ IdentityRest
       /\ ConsentInit

\* A part whose work is done rests; any other must go on. Whether another
\* process starts a command is up to the users.
Quiet ==
    /\ \/ part = "stream" /\ served # Running
       \/ part = "protocol" /\ reply # None
       \/ part = "smtp" /\ smtp.step = "end"
       \/ part = "report" /\ view # None
       \/ part = "redaction" /\ review.step \notin {"begin", "ask"}
       \/ part = "brokers" /\ (query # Unasked \/ scan.step \notin {"scan", "accepted"})
       \/ part = "confirmation" /\ links # Unread
       \/ part = "cli" /\ parsed # None
       \/ part \in {"identity", "consent"}
    /\ UNCHANGED protocols_vars

ProtocolsNext ==
    /\ UNCHANGED part
    /\ \/ /\ part = "replay" /\ FoldNext
          /\ UNCHANGED <<stream_vars, protocol_vars, smtp_vars, report_vars,
                         redaction_vars, brokers_vars, confirmation_vars, cli_vars,
                         identity_vars, consent_vars>>
       \/ /\ part = "stream" /\ StreamNext
          /\ UNCHANGED <<fold_vars, protocol_vars, smtp_vars, report_vars,
                         redaction_vars, brokers_vars, confirmation_vars, cli_vars,
                         identity_vars, consent_vars>>
       \/ /\ part = "protocol" /\ ProtocolNext
          /\ UNCHANGED <<fold_vars, stream_vars, smtp_vars, report_vars,
                         redaction_vars, brokers_vars, confirmation_vars, cli_vars,
                         identity_vars, consent_vars>>
       \/ /\ part = "smtp" /\ SmtpNext
          /\ UNCHANGED <<fold_vars, stream_vars, protocol_vars, report_vars,
                         redaction_vars, brokers_vars, confirmation_vars, cli_vars,
                         identity_vars, consent_vars>>
       \/ /\ part = "report" /\ ReportNext
          /\ UNCHANGED <<fold_vars, stream_vars, protocol_vars, smtp_vars,
                         redaction_vars, brokers_vars, confirmation_vars, cli_vars,
                         identity_vars, consent_vars>>
       \/ /\ part = "redaction" /\ RedactionNext
          /\ UNCHANGED <<fold_vars, stream_vars, protocol_vars, smtp_vars, report_vars,
                         brokers_vars, confirmation_vars, cli_vars, identity_vars,
                         consent_vars>>
       \/ /\ part = "brokers" /\ BrokersNext
          /\ UNCHANGED <<fold_vars, stream_vars, protocol_vars, smtp_vars, report_vars,
                         redaction_vars, confirmation_vars, cli_vars, identity_vars,
                         consent_vars>>
       \/ /\ part = "confirmation" /\ ConfirmationNext
          /\ UNCHANGED <<fold_vars, stream_vars, protocol_vars, smtp_vars, report_vars,
                         redaction_vars, brokers_vars, cli_vars, identity_vars,
                         consent_vars>>
       \/ /\ part = "cli" /\ CliNext
          /\ UNCHANGED <<fold_vars, stream_vars, protocol_vars, smtp_vars, report_vars,
                         redaction_vars, brokers_vars, confirmation_vars,
                         identity_vars, consent_vars>>
       \/ /\ part = "identity" /\ IdentityNext
          /\ UNCHANGED <<fold_vars, stream_vars, protocol_vars, smtp_vars, report_vars,
                         redaction_vars, brokers_vars, confirmation_vars, cli_vars,
                         consent_vars>>
       \/ /\ part = "consent" /\ ConsentNext
          /\ UNCHANGED <<fold_vars, stream_vars, protocol_vars, smtp_vars, report_vars,
                         redaction_vars, brokers_vars, confirmation_vars, cli_vars,
                         identity_vars>>
       \/ Quiet

ProtocolsSpec == ProtocolsInit /\ [][ProtocolsNext]_<<part, protocols_vars>>

-----------------------------------------------------------------------------
\* The rules on data: what is redacted (collect_matches, review_bytes), what
\* the registry accepts, loads and lists (preflight_source, validate_broker,
\* load_from_dir, filter_brokers) and which links of a reply are the broker's
\* (extract_confirmation_links), what a command line means (parse), and what a
\* server makes of a mail's text (dot_encode).
RulesCorrect ==
    /\ part = "smtp" => TextArrives
    /\ part = "redaction" => RedactionCorrect
    /\ part = "brokers" => BrokersCorrect
    /\ part = "confirmation" => ConfirmationCorrect
    /\ part = "cli" => CliCorrect

=============================================================================
