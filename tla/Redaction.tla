----------------------------- MODULE Redaction ------------------------------
(***************************************************************************)
(* Redaction of personal data (crates/symeraseme-core/src/redaction):      *)
(* pii.rs finds what a profile names and what the built-in rules           *)
(* recognise, keeps matches that do not overlap and replaces them;         *)
(* review.rs asks about each match and replaces the ones it is told to.    *)
(* Characters stand for bytes, "A" for the upper case of "a". What a rule  *)
(* finds is any list of disjoint spans: the regular expressions are not    *)
(* modelled. A rule's replacement masks all but the end of the value.      *)
(***************************************************************************)
EXTENDS Integers, Sequences, SequencesExt, FiniteSets, FiniteSetsExt, TLC

CONSTANTS Papers,         \* what is redacted: [text, literals, hits]
          MaxMatches,     \* MAX_MATCHES
          MaxOutput,      \* MAX_OUTPUT_BYTES
          MaxLiterals, MaxProfileBytes    \* MAX_PROFILE_LITERAL_COUNT, ..._TOTAL_BYTES

ASSUME RedactionAssumption ==
    /\ {MaxMatches, MaxOutput, MaxLiterals, MaxProfileBytes} \subseteq Nat
    /\ \A p \in Papers : Len(p.text) <= MaxOutput

VARIABLES paper,          \* the text, the profile's literals, the rules' hits
          review          \* review_bytes

redaction_vars == <<paper, review>>

-----------------------------------------------------------------------------
(* Finding *)

Fold(s) == [i \in DOMAIN s |-> IF s[i] = "A" THEN "a" ELSE s[i]]
Value(text, m) == SubSeq(text, m.start + 1, m.end)

\* find_iter of a literal: from left to right, case folded, never overlapping
\* itself. Positions count from zero and a match ends before its end.
find_iter(text, literal) ==
    LET n == Len(literal)
        from[i \in Nat] ==
            IF i + n > Len(text) THEN <<>>
            ELSE IF Fold(SubSeq(text, i + 1, i + n)) = Fold(literal)
                 THEN <<[start |-> i, end |-> i + n]>> \o from[i + n]
                 ELSE from[i + 1]
    IN  from[0]

\* The literals that are not empty are few and short enough together.
validate_profile(literals) ==
    LET given == SelectSeq(literals, LAMBDA l : l # <<>>) IN
    /\ Len(given) <= MaxLiterals
    /\ FoldLeft(LAMBDA sum, l : sum + Len(l), 0, given) <= MaxProfileBytes

append_literal(found, text, literal) ==
    IF literal = <<>> THEN found
    ELSE found \o [i \in DOMAIN find_iter(text, literal) |->
                     [mark |-> <<"#">>] @@ find_iter(text, literal)[i]]

\* One mask stands for those of the rules: it keeps the end of the value and may
\* be longer than the value.
replace(value) == <<"*", "*", Last(value)>>

\* Everything found: the profile's literals in their order, then the rules.
Found(p) ==
    FoldLeft(LAMBDA found, l : append_literal(found, p.text, l), <<>>, p.literals)
    \o [i \in DOMAIN p.hits |-> [mark |-> replace(Value(p.text, p.hits[i]))] @@ p.hits[i]]

\* By start, the longer first; equal spans keep the order of finding.
Sorted(found) ==
    LET Before(i, j) ==
            LET a == found[i] b == found[j] IN
            \/ a.start < b.start
            \/ a.start = b.start /\ a.end > b.end
            \/ a.start = b.start /\ a.end = b.end /\ i <= j
        Rank(i) == Quantify(DOMAIN found, LAMBDA j : Before(j, i))
    IN  [k \in DOMAIN found |-> found[CHOOSE i \in DOMAIN found : Rank(i) = k]]

\* Faulty variant: the matches stay in the order in which they were found.
Accepted_Unsorted(found) ==
    FoldLeft(LAMBDA kept, m : IF kept = <<>> \/ m.start >= Last(kept).end
                              THEN Append(kept, m) ELSE kept, <<>>, found)

\* A match that starts before the end of the one accepted last is dropped.
Accepted(found) ==
    FoldLeft(LAMBDA kept, m : IF kept = <<>> \/ m.start >= Last(kept).end
                              THEN Append(kept, m) ELSE kept, <<>>, Sorted(found))

\* push_match refuses one match more than the limit.
collect_matches(p) ==
    CASE ~validate_profile(p.literals) -> [error |-> "invalid literal", matches |-> <<>>]
      [] Len(Found(p)) > MaxMatches    -> [error |-> "match limit", matches |-> <<>>]
      [] OTHER                         -> [error |-> "", matches |-> Accepted(Found(p))]

-----------------------------------------------------------------------------
(* Replacing *)

\* The length of the text once the first k matches are replaced.
Projected(text, ms, k) ==
    FoldLeft(LAMBDA n, m : n - (m.end - m.start) + Len(m.mark), Len(text), SubSeq(ms, 1, k))
TooLarge(text, ms) == \E k \in DOMAIN ms : Projected(text, ms, k) > MaxOutput

Spliced(text, ms) ==
    LET done == FoldLeft(LAMBDA s, m : [out |-> s.out \o SubSeq(text, s.position + 1, m.start)
                                                       \o m.mark,
                                        position |-> m.end],
                         [out |-> <<>>, position |-> 0], ms)
    IN  done.out \o SubSeq(text, done.position + 1, Len(text))

redact_bytes(p) ==
    LET c == collect_matches(p) IN
    CASE c.error # "" -> [error |-> c.error, output |-> <<>>]
      [] TooLarge(p.text, c.matches) -> [error |-> "output too large", output |-> <<>>]
      [] OTHER -> [error |-> "", output |-> Spliced(p.text, c.matches)]

-----------------------------------------------------------------------------
(* Reviewing *)

Matches == collect_matches(paper).matches

RedactionInit ==
    /\ paper \in Papers
    /\ review = [step |-> "begin", index |-> 0, position |-> 0, output |-> <<>>,
                 decided |-> <<>>, text |-> <<>>]

\* validate_matches: in order, disjoint, not empty and inside the text.
invalid_match(text, ms, i) ==
    \/ ms[i].start < (IF i = 1 THEN 0 ELSE ms[i - 1].end)
    \/ ms[i].start >= ms[i].end
    \/ ms[i].end > Len(text)

review_begin ==
    /\ review.step = "begin"
    /\ review' =
         CASE collect_matches(paper).error # "" ->
                [review EXCEPT !.step = collect_matches(paper).error]
           [] \E i \in DOMAIN Matches : invalid_match(paper.text, Matches, i) ->
                [review EXCEPT !.step = "invalid match"]
           [] TooLarge(paper.text, Matches) -> [review EXCEPT !.step = "output too large"]
           [] Matches = <<>> -> [review EXCEPT !.step = "done", !.text = paper.text]
           [] OTHER -> [review EXCEPT !.step = "ask", !.index = 1]
    /\ UNCHANGED paper

\* The loop is over: nothing changed, or the tail is appended and measured.
Ended(r) ==
    LET whole == r.output \o SubSeq(paper.text, r.position + 1, Len(paper.text)) IN
    CASE "redact" \notin ToSet(r.decided) -> [r EXCEPT !.step = "done", !.text = paper.text]
      [] Len(whole) > MaxOutput -> [r EXCEPT !.step = "output too large"]
      [] OTHER -> [r EXCEPT !.step = "done", !.text = whole]

\* One answer of the callback and what the loop does with it.
review_decide(action) ==
    /\ review.step = "ask"
    /\ LET m == Matches[review.index]
           decided == [review EXCEPT !.decided = Append(@, action), !.index = @ + 1]
           replaced == [decided EXCEPT
                          !.output = @ \o SubSeq(paper.text, review.position + 1, m.start)
                                       \o m.mark,
                          !.position = m.end]
           next == IF action = "redact" THEN replaced ELSE decided
       IN  review' =
             CASE action = "redact" /\ Len(replaced.output) > MaxOutput ->
                    [decided EXCEPT !.step = "output too large"]
               [] action = "quit" \/ review.index = Len(Matches) -> Ended(next)
               [] OTHER -> next
    /\ UNCHANGED paper

RedactionNext ==
    review_begin \/ \E a \in {"keep", "redact", "skip", "quit"} : review_decide(a)

RedactionSpec == RedactionInit /\ [][RedactionNext]_redaction_vars

-----------------------------------------------------------------------------
(* What redaction promises. *)

Spans(ms) == {[start |-> ms[i].start, end |-> ms[i].end] : i \in DOMAIN ms}
Overlaps(a, b) == a.start < b.end /\ b.start < a.end

\* Whatever was found is broken up: each match overlaps one that is replaced,
\* so no value the profile or a rule recognised is left whole where it stood.
\* (The tail of a match that begins inside another one does stay.)
NoValueIsLeftWhole ==
    \A f \in Spans(Found(paper)) : \E m \in Spans(Accepted(Found(paper))) : Overlaps(f, m)

\* "Overlap is deterministic": what is replaced does not depend on the order
\* of the profile's entries.
OrderOfProfileIsIrrelevant ==
    Spans(Accepted(Found(paper)))
      = Spans(Accepted(Found([paper EXCEPT !.literals = Reverse(@)])))

\* review_bytes never refuses what collect_matches found as an invalid match,
\* and agreeing to everything gives what redact_bytes gives, errors included.
ReviewAgreesWithRedact ==
    /\ review.step # "invalid match"
    /\ review.step \in {"invalid literal", "match limit", "output too large"} /\ review.decided = <<>> =>
         redact_bytes(paper).error = review.step
    /\ review.step = "done" /\ ToSet(review.decided) \subseteq {"redact"} =>
         redact_bytes(paper) = [error |-> "", output |-> review.text]

\* A review changes exactly what it was told to replace, whatever was kept,
\* skipped or left after quitting, and the limit on the output holds.
OnlyAskedIsReplaced ==
    review.step = "done" =>
      LET told == SelectSeq([i \in DOMAIN Matches |-> i],
                            LAMBDA i : i \in DOMAIN review.decided /\ review.decided[i] = "redact")
      IN  /\ review.text = Spliced(paper.text, [k \in DOMAIN told |-> Matches[told[k]]])
          /\ Len(review.text) <= MaxOutput

\* Redaction replaces matches that do not depend on order, leaves no value
\* whole, and the review does what it is told and nothing else.
RedactionCorrect ==
    /\ review.step = "begin" => NoValueIsLeftWhole /\ OrderOfProfileIsIrrelevant
    /\ ReviewAgreesWithRedact
    /\ OnlyAskedIsReplaced

=============================================================================
