------------------------------ MODULE Brokers -------------------------------
(***************************************************************************)
(* The broker registry as data (crates/symeraseme-core/src/registry):      *)
(* collect_yaml and load_reporting_from_dir read a directory,              *)
(* preflight_source scans a document's tokens, decode checks keys and      *)
(* values, filter_brokers lists, and campaign.rs picks the channel of a    *)
(* broker twice: when it plans and when it runs a form. Strings are only   *)
(* good or bad, and identifiers numbers in the order of their texts;       *)
(* serde's decoding and the scanner are external.                          *)
(***************************************************************************)
EXTENDS Integers, Sequences, SequencesExt, FiniteSets, FiniteSetsExt

CONSTANTS MaxTokens,              \* bound of the model: tokens in a document
          MAX_YAML_DEPTH, MAX_YAML_NODES,
          MAX_BROKER_FILES, MAX_DOCUMENT_BYTES, MAX_INPUT_BYTES,
          MAX_AGGREGATE_YAML_NODES, MAX_OUTPUT_BROKERS,
          Trees,                  \* directories that are loaded
          Wires,                  \* documents as serde decodes them
          Catalogues, Filters     \* lists of brokers and what is asked of them

ASSUME BrokersAssumption ==
    {MaxTokens, MAX_YAML_DEPTH, MAX_YAML_NODES, MAX_BROKER_FILES, MAX_DOCUMENT_BYTES,
     MAX_INPUT_BYTES, MAX_AGGREGATE_YAML_NODES, MAX_OUTPUT_BROKERS} \subseteq Nat

VARIABLES scan,      \* preflight_source
          query     \* what a decode, a load or a listing was given and returned

brokers_vars == <<scan, query>>

Unasked == [call |-> "none"]
Preflight == [step |-> "scan", seen |-> <<>>, documents |-> 0, nodes |-> 0, depth |-> 0,
              has_content |-> FALSE, after_document_end |-> FALSE]

BrokersInit == scan = Preflight /\ query = Unasked

-----------------------------------------------------------------------------
(* The tokens of one document *)

Refused(s) == [s EXCEPT !.step = "refused"]

note_node(s) ==
    IF s.after_document_end \/ s.nodes >= MAX_YAML_NODES THEN Refused(s)
    ELSE [s EXCEPT !.documents = 1, !.has_content = TRUE, !.nodes = @ + 1]

document_start(s) ==
    IF s.documents > 0 \/ s.has_content THEN Refused(s) ELSE [s EXCEPT !.documents = 1]

document_end(s) ==
    IF ~s.has_content THEN Refused(s)
    ELSE [s EXCEPT !.documents = 1, !.after_document_end = TRUE]

open_node(s) ==
    IF s.depth >= MAX_YAML_DEPTH THEN Refused(s)
    ELSE LET t == note_node(s) IN [t EXCEPT !.depth = @ + 1]

close_node(s) == IF s.depth = 0 THEN Refused(s) ELSE [s EXCEPT !.depth = @ - 1]

\* Keys, entries, tags and directives. Faulty variant: they may follow the end.
mark_Anywhere(s) == s
mark(s) == IF s.after_document_end THEN Refused(s) ELSE s

TokenKinds == {"---", "...", "anchor", "open", "close", "scalar", "mark"}

preflight_token(token) ==
    /\ query = Unasked /\ scan.step = "scan" /\ Len(scan.seen) < MaxTokens
    /\ LET s == [scan EXCEPT !.seen = Append(@, token)] IN
       scan' = CASE token = "---"    -> document_start(s)
                 [] token = "..."    -> document_end(s)
                 [] token = "anchor" -> Refused(s)
                 [] token = "open"   -> open_node(s)
                 [] token = "close"  -> close_node(s)
                 [] token = "scalar" -> note_node(s)
                 [] token = "mark"   -> mark(s)
    /\ UNCHANGED query

\* The tokens are used up, or the scanner stopped with an error.
preflight_done(error) ==
    /\ query = Unasked /\ scan.step = "scan"
    /\ scan' = [scan EXCEPT !.step =
                  IF error THEN "scanner error"
                  ELSE IF scan.depth # 0 \/ scan.documents # 1 \/ ~scan.has_content
                       THEN "incomplete" ELSE "accepted"]
    /\ UNCHANGED query

\* Tokens by their kind, and how deep the document is after n of them.
Where(s, tokens) == {i \in DOMAIN s : s[i] \in tokens}
DepthAt(s, n) == Cardinality({i \in Where(s, {"open"}) : i <= n})
                 - Cardinality({i \in Where(s, {"close"}) : i <= n})

\* The decoded value is counted again. A scalar is one level below what it is
\* in, so a scalar in the deepest nesting that the scan lets pass is refused.
check_value_budget ==
    LET content == Where(scan.seen, {"open", "scalar"}) IN
    /\ Cardinality(content) <= MAX_YAML_NODES
    /\ \A i \in content : DepthAt(scan.seen, i - 1) < MAX_YAML_DEPTH

-----------------------------------------------------------------------------
(* One document: its keys, its channels and their values. A field that is  *)
(* absent has no key.                                                      *)

Common == {"type", "template", "locale", "expected_response_days", "disabled"}
allowed(type) == Common \cup CASE type = "email"    -> {"endpoint"}
                               [] type = "web_form" -> {"url", "form_spec"}
                               [] OTHER             -> {}

validate_object_keys(object, keys) == DOMAIN object \subseteq keys

StepKeys == {"text", "fill", "wait_seconds", "solve_captcha"}
validate_form_spec_keys(spec) ==
    /\ validate_object_keys(spec, {"steps", "timeout_seconds"})
    /\ \A i \in DOMAIN spec.steps : validate_object_keys(spec.steps[i], StepKeys)

validate_channel_keys(c) ==
    /\ validate_object_keys(c, allowed(c.type))
    /\ c.type = "web_form" /\ "form_spec" \in DOMAIN c => validate_form_spec_keys(c.form_spec)

\* into_model: each kind has its own fields and none of the other's.
into_model(c) ==
    /\ c.type \in {"email", "web_form"}
    /\ c.type = "email" => "endpoint" \in DOMAIN c /\ {"url", "form_spec"} \cap DOMAIN c = {}
    /\ c.type = "web_form" => {"url", "form_spec"} \subseteq DOMAIN c /\ "endpoint" \notin DOMAIN c

Present(object, key, values) == key \in DOMAIN object => object[key] \in values

\* At least one action, and every value it has in range; "text" stands for
\* goto, click, wait_for, screenshot and assert_text, "fill" also for select.
validate_form_step(step) ==
    /\ Present(step, "text", {"good"})
    /\ \/ "text" \in DOMAIN step
       \/ "fill" \in DOMAIN step /\ step.fill # "empty"
       \/ {"wait_seconds", "solve_captcha"} \cap DOMAIN step # {}
    /\ Present(step, "wait_seconds", Nat)
    /\ Present(step, "fill", {"empty", "good"})
    /\ Present(step, "solve_captcha", {"good"})

validate_form_spec(spec) ==
    /\ spec.steps # <<>>
    /\ Present(spec, "timeout_seconds", Nat \ {0})
    /\ \A i \in DOMAIN spec.steps : validate_form_step(spec.steps[i])

validate_channel(c) ==
    /\ c.type = "email" => c.endpoint = "good"
    /\ c.type = "web_form" => c.url = "good" /\ validate_form_spec(c.form_spec)
    /\ Present(c, "locale", {"good"})
    /\ Present(c, "expected_response_days", Nat \ {0})

\* wire.flaw names the field of the broker itself that is wrong, if any.
validate_broker(wire) ==
    /\ wire.flaw \notin {"id", "name", "website", "jurisdictions", "laws", "data_sensitivity",
                         "added_date"}
    /\ wire.opt_out # <<>>
    /\ \A i \in DOMAIN wire.opt_out : validate_channel(wire.opt_out[i])

\* A null anywhere, or a key nobody knows, refuses the document.
decode(wire) ==
    /\ wire.flaw \notin {"null", "key"}
    /\ \A i \in DOMAIN wire.opt_out :
         validate_channel_keys(wire.opt_out[i]) /\ into_model(wire.opt_out[i])
    /\ validate_broker(wire)

\* decode_with_metrics: only a document that passed the scan is decoded.
decode_with_metrics(wire) ==
    /\ scan.step = "accepted"
    /\ scan' = [Preflight EXCEPT !.step = "used"]
    /\ query' = [call |-> "decode", wire |-> wire,
                 ok |-> check_value_budget /\ decode(wire)]

-----------------------------------------------------------------------------
(* A directory: its entries in order of their names, the files of each. *)

FilesOf(tree) == FlattenSeq([i \in DOMAIN tree |-> tree[i].files])
Loaded(tree) == SelectSeq(FilesOf(tree), LAMBDA f : ~f.hidden)

\* A file is refused unread once the budget is used up, even an empty one.
read_bounded(used, size) ==
    IF used >= MAX_INPUT_BYTES \/ size > Min({MAX_DOCUMENT_BYTES, MAX_INPUT_BYTES - used})
    THEN MAX_INPUT_BYTES + 1 ELSE used + size

collect_yaml(tree) ==
    /\ \A i \in DOMAIN tree : tree[i].kind = "dir" /\ tree[i].name \in {"eu", "uk", "us"}
    /\ \A i \in DOMAIN FilesOf(tree) :
         FilesOf(tree)[i].kind = "file" /\ FilesOf(tree)[i].ext \in {"yaml", "yml"}
    /\ Len(Loaded(tree)) <= MAX_BROKER_FILES
    /\ FoldLeft(LAMBDA used, f : read_bounded(used, f.bytes), 0, Loaded(tree)) <= MAX_INPUT_BYTES

\* Faulty variant: only a document that decodes takes its stem.
seen_id_Good(seen, f) == IF f.ok THEN seen \cup {f.stem} ELSE seen
\* The stem is taken before the document is decoded.
seen_id(seen, f) == seen \cup {f.stem}

\* Errors of one file are collected; a limit on the whole ends the load.
load_one(report, f) ==
    IF report.fatal THEN report
    ELSE IF f.stem \in report.seen THEN [report EXCEPT !.errors = @ + 1]
    ELSE LET r == [report EXCEPT !.seen = seen_id(@, f)] IN
         IF ~f.ok \/ f.id # f.stem THEN [r EXCEPT !.errors = @ + 1]
         ELSE IF r.nodes + f.nodes > MAX_AGGREGATE_YAML_NODES
                 \/ Len(r.brokers) >= MAX_OUTPUT_BROKERS
         THEN [r EXCEPT !.fatal = TRUE]
         ELSE [r EXCEPT !.brokers = Append(@, f), !.nodes = @ + f.nodes]

\* The files in order of their paths; what is kept is sorted by identifier.
report_of(tree) ==
    LET report == FoldLeft(load_one, [brokers |-> <<>>, errors |-> 0, seen |-> {}, nodes |-> 0,
                                      fatal |-> FALSE], Loaded(tree))
    IN  [report EXCEPT !.brokers = SortSeq(@, LAMBDA a, b : a.id < b.id)]

load_from_dir(tree) ==
    /\ scan = Preflight /\ query = Unasked
    /\ query' = [call |-> "load", tree |-> tree, listed |-> collect_yaml(tree),
                  report |-> report_of(tree)]
    /\ UNCHANGED scan

-----------------------------------------------------------------------------
(* Listing, and the channel of a broker *)

Asked(value) == value # ""

\* The law is a criterion like the jurisdiction, the category one like the
\* priority.
filter_brokers(brokers, f) ==
    SelectSeq(brokers, LAMBDA b :
      /\ f.include_disabled \/ ~b.disabled
      /\ Asked(f.jurisdiction) => f.jurisdiction \in b.jurisdictions
      /\ Asked(f.priority) => b.priority = f.priority
      /\ f.include_inactive \/ b.status = (IF Asked(f.status) THEN f.status ELSE "active"))

list_brokers(brokers, f) ==
    /\ scan = Preflight /\ query = Unasked
    /\ query' = [call |-> "list", brokers |-> brokers, filter |-> f,
                  result |-> filter_brokers(brokers, f)]
    /\ UNCHANGED scan

\* What a campaign plans: the first channel, within 30 days unless it says.
select_channel(wire) ==
    LET c == wire.opt_out[1] IN
    [at |-> 1, type |-> c.type,
     days |-> IF "expected_response_days" \in DOMAIN c /\ c.expected_response_days > 0
              THEN c.expected_response_days ELSE 30]

IsDisabled(c) == "disabled" \in DOMAIN c /\ c.disabled

\* What a form run opens: the first form that is not disabled, 0 for none.
web_form_preview(wire) ==
    LET forms == {i \in DOMAIN wire.opt_out : /\ wire.opt_out[i].type = "web_form"
                                              /\ ~IsDisabled(wire.opt_out[i])}
    IN  IF forms = {} THEN 0 ELSE Min(forms)

BrokersNext ==
    \/ \E t \in TokenKinds : preflight_token(t)
    \/ \E e \in BOOLEAN : preflight_done(e)
    \/ \E w \in Wires : decode_with_metrics(w)
    \/ \E t \in Trees : load_from_dir(t)
    \/ \E bs \in Catalogues, f \in Filters : list_brokers(bs, f)

BrokersSpec == BrokersInit /\ [][BrokersNext]_brokers_vars

-----------------------------------------------------------------------------
(* What the registry promises. *)

\* One document with content, within the limits: at most one "---", before the
\* content; "..." only after it, and nothing but ends and closings from there
\* on; nesting balanced; no anchors and no aliases.
OneDocument(s) ==
    LET content == Where(s, {"open", "scalar"})
        starts == Where(s, {"---"})
        ends == Where(s, {"..."})
    IN  /\ Where(s, {"anchor"}) = {}
        /\ Cardinality(content) \in 1..MAX_YAML_NODES
        /\ Cardinality(starts) <= 1
        /\ \A i \in starts, j \in content \cup ends : i < j
        /\ \A i \in ends : /\ \E j \in content : j < i
                           /\ \A j \in content \cup Where(s, {"mark"}) : j < i
        /\ \A n \in DOMAIN s : DepthAt(s, n) \in 0..MAX_YAML_DEPTH
        /\ DepthAt(s, Len(s)) = 0

\* preflight_source, which decides token by token from five counters, accepts
\* a document of that form and no other; it refuses one before its end only if
\* closing what is open could not complete it.
PreflightIsExact ==
    /\ scan.step = "accepted" => OneDocument(scan.seen)
    /\ scan.step = "incomplete" => ~OneDocument(scan.seen)
    /\ scan.step = "refused" =>
         \A n \in 0..MaxTokens : ~OneDocument(scan.seen \o [i \in 1..n |-> "close"])

\* What validation accepts can be planned and run: the channel a campaign
\* selects has an address and a deadline of at least a day, or is a form with
\* steps that each do something; and if it is a form that is not disabled, the
\* form that a run opens is the one that was planned.
PlannedIsExecutable ==
    query.call = "decode" /\ query.ok =>
      LET w == query.wire planned == select_channel(w) c == w.opt_out[planned.at] IN
      /\ c.type = "email" => c.endpoint = "good" /\ planned.days >= 1
      /\ c.type = "web_form" =>
           /\ c.url = "good" /\ c.form_spec.steps # <<>>
           /\ \A i \in DOMAIN c.form_spec.steps : DOMAIN c.form_spec.steps[i] # {}
           /\ ~IsDisabled(c) => web_form_preview(w) = planned.at

\* A load that is not ended by a limit and reports no error has every file
\* that is not hidden, sorted by identifiers of which each occurs once; with
\* errors, every file is accounted for, and a stem in dispute goes to the first
\* file or to none. A load that is ended was over the limit.
LoadIsComplete ==
    query.call = "load" /\ query.listed =>
      LET r == query.report
          fs == Loaded(query.tree)
          first == {j \in DOMAIN fs : \A k \in 1..(j - 1) : fs[k].stem # fs[j].stem}
          good == {j \in first : fs[j].ok /\ fs[j].id = fs[j].stem}
          nodes == MapThenSumSet(LAMBDA j : fs[j].nodes, good)
      IN  /\ r.fatal <=> nodes > MAX_AGGREGATE_YAML_NODES \/ Cardinality(good) > MAX_OUTPUT_BROKERS
          /\ ~r.fatal =>
               /\ \A i, j \in DOMAIN r.brokers : i < j => r.brokers[i].id < r.brokers[j].id
               /\ r.errors = 0 => ToSet(r.brokers) = ToSet(fs)
               /\ Len(r.brokers) + r.errors = Len(fs)
               /\ ToSet(r.brokers) = {fs[j] : j \in good}

\* Criteria narrow a listing and the include flags widen it, each on its own;
\* the order of the registry is kept.
FilterNarrows ==
    query.call = "list" =>
      LET Without(f) == ToSet(filter_brokers(query.brokers, f)) IN
      /\ \A f \in {[query.filter EXCEPT !.jurisdiction = ""],
                   [query.filter EXCEPT !.priority = ""],
                   [query.filter EXCEPT !.include_disabled = TRUE],
                   [query.filter EXCEPT !.include_inactive = TRUE]} :
           ToSet(query.result) \subseteq Without(f)
      /\ \A i, j \in DOMAIN query.result : i < j =>
           \E k, l \in DOMAIN query.brokers :
             k < l /\ query.brokers[k] = query.result[i] /\ query.brokers[l] = query.result[j]

\* The registry's rules agree with one another and with the campaign.
BrokersCorrect == PreflightIsExact /\ PlannedIsExecutable /\ LoadIsComplete /\ FilterNarrows

=============================================================================
