----------------------------- MODULE JsonStream -----------------------------
(***************************************************************************)
(* The byte scanner that finds the end of one JSON value                   *)
(* (crates/symeraseme-cli/src/mcp/protocol.rs, scan_json_value) and the    *)
(* stdio server that frames a live pipe with it (mcp/stream.rs).           *)
(*                                                                         *)
(* Bytes are one-character strings of a reduced alphabet: brackets, ":",   *)
(* ",", " " (white space), "q" (the quote), "e" (the backslash), "1" (a    *)
(* digit), "-" (a number that is not complete yet) and any other byte.     *)
(* The literals null, true and false are cut and end like a number does,   *)
(* and numbers have no fraction and no exponent.                           *)
(***************************************************************************)
EXTENDS Integers, Sequences, SequencesExt

CONSTANTS Inputs,       \* what a client may write to the pipe
          MaxDepth,     \* GO_MAX_JSON_NESTING_DEPTH
          ParseDepth    \* nesting beyond which serde_json refuses the value

ASSUME JsonAssumption == MaxDepth \in Nat \ {0} /\ ParseDepth \in Nat \ {0}

Incomplete == [tag |-> "incomplete", end |-> 0]
Syntax     == [tag |-> "syntax", end |-> 0]
End(i)     == [tag |-> "end", end |-> i]

At(raw, i) == IF i \in 1..Len(raw) THEN raw[i] ELSE "eof"

\* Running out of bytes is incomplete, any other byte is an error.
json_scan_error(raw, i) == IF i > Len(raw) THEN Incomplete ELSE Syntax

\* The first index at or after i that is no white space.
skip_whitespace(raw, i) ==
    IF i > Len(raw) THEN i
    ELSE CHOOSE j \in i..(Len(raw) + 1) :
            /\ At(raw, j) # " "
            /\ \A k \in i..(j - 1) : raw[k] = " "

RECURSIVE scan_json_string(_, _)
scan_json_string(raw, i) ==      \* i is the index after the opening quote
    CASE At(raw, i) = "eof" -> Incomplete
      [] At(raw, i) = "q"   -> End(i + 1)
      [] At(raw, i) = "e"   -> IF At(raw, i + 1) \in {"q", "e"}
                                 THEN scan_json_string(raw, i + 2)
                                 ELSE json_scan_error(raw, i + 1)
      [] OTHER              -> scan_json_string(raw, i + 1)

\* Numbers: an optional minus and at least one digit, as many as there are.
skip_json_primitive(raw, i) ==
    LET d == IF At(raw, i) = "-" THEN i + 1 ELSE i
        n == CHOOSE j \in d..(Len(raw) + 1) :
                At(raw, j) # "1" /\ \A k \in d..(j - 1) : raw[k] = "1"
    IN  IF d > Len(raw) \/ At(raw, d) # "1" THEN json_scan_error(raw, d) ELSE End(n)

(***************************************************************************)
(* The scanner's loop. A frame is an open bracket and what it waits for:   *)
(* "first" (an item or the end), "next" (an item, after a comma) or        *)
(* "after" (a comma or the end).                                           *)
(***************************************************************************)
RECURSIVE Scan(_, _, _, _)
Scan(raw, index, frames, needs_value) ==
    LET i     == skip_whitespace(raw, index)
        c     == At(raw, i)
        top   == Last(frames)
        outer == Front(frames)
        With(state) == Append(outer, [top EXCEPT !.state = state])
        close == IF top.open = "{" THEN "}" ELSE "]"
        After(r) == IF r.tag = "end" THEN Scan(raw, r.end, frames, FALSE) ELSE r
    IN  IF needs_value
        THEN CASE c = "eof" -> Incomplete
               [] c \in {"{", "["} ->
                    IF Len(frames) = MaxDepth
                      THEN Syntax
                      ELSE Scan(raw, i + 1,
                                Append(frames, [open |-> c, state |-> "first"]), FALSE)
               [] c = "q" -> After(scan_json_string(raw, i + 1))
               [] OTHER   -> After(skip_json_primitive(raw, i))
        ELSE CASE frames = <<>> -> End(index)
               [] frames # <<>> /\ c = close /\ top.state \in {"first", "after"} ->
                    Scan(raw, i + 1, outer, FALSE)
               [] frames # <<>> /\ top.state = "after" /\ c # close ->
                    IF c = "," THEN Scan(raw, i + 1, With("next"), FALSE)
                    ELSE json_scan_error(raw, i)
               [] frames # <<>> /\ top.open = "{" /\ top.state # "after"
                    /\ ~(c = close /\ top.state = "first") ->
                    LET key == IF c = "q" THEN scan_json_string(raw, i + 1)
                                          ELSE json_scan_error(raw, i)
                        colon == skip_whitespace(raw, key.end)
                    IN  IF key.tag # "end" THEN key
                        ELSE IF At(raw, colon) # ":" THEN json_scan_error(raw, colon)
                        ELSE Scan(raw, colon + 1, With("after"), TRUE)
               [] OTHER -> Scan(raw, i, With("after"), TRUE)

scan_json_value(raw, i) == Scan(raw, i, <<>>, TRUE)

(***************************************************************************)
(* What the protocol makes of one framed value. The dispatcher is a module *)
(* of its own; here only the three outcomes matter, so the shape of the    *)
(* value decides: a value nested deeper than the second parser allows      *)
(* cannot be parsed, an object stands for a notification, anything else    *)
(* is answered.                                                            *)
(***************************************************************************)
Depth(v) ==
    LET opens(n)  == {k \in 1..n : v[k] \in {"[", "{"}}
        closes(n) == {k \in 1..n : v[k] \in {"]", "}"}}
    IN  Max({Cardinality(opens(n)) - Cardinality(closes(n)) : n \in 0..Len(v)})

outcome(v) ==
    CASE Depth(v) > ParseDepth -> "parse_error"
      [] v[1] = "{"            -> "notification"
      [] OTHER                 -> "response"

Running == "running"

\* serve_stream: every value of a buffered input, and how it ends.
RECURSIVE serve_stream(_, _, _)
serve_stream(input, index, out) ==
    LET i == skip_whitespace(input, index)
        r == scan_json_value(input, i)
        v == SubSeq(input, i, r.end - 1)
    IN  IF i > Len(input) THEN [out |-> out, res |-> "ok"]
        ELSE CASE r.tag = "syntax"     -> [out |-> out, res |-> "syntax"]
               [] r.tag = "incomplete" -> [out |-> out, res |-> "unexpected_eof"]
               [] OTHER ->
                    CASE outcome(v) = "parse_error"  -> [out |-> out, res |-> "unparsable"]
                      [] outcome(v) = "notification" -> serve_stream(input, r.end, out)
                      [] OTHER -> serve_stream(input, r.end, Append(out, v))

-----------------------------------------------------------------------------
VARIABLES pipe,     \* bytes the client has yet to deliver
          buffer,   \* bytes read and not consumed
          eof,      \* fill_buf returned nothing
          output,   \* the responses written
          served,   \* how serve_stdio returned, or Running
          sent      \* history: everything the client writes in this session

stream_vars == <<pipe, buffer, eof, output, served, sent>>

StreamInit ==
    /\ sent \in Inputs
    /\ pipe = sent
    /\ buffer = <<>>
    /\ eof = FALSE
    /\ output = <<>>
    /\ served = Running

Position == skip_whitespace(buffer, 1)

\* A composite value is complete at its bracket; a scalar needs one byte more
\* or the end of the input, because the next byte may still belong to it.
framed_Eager ==     \* faulty variant: a scalar does not wait
    LET r == scan_json_value(buffer, Position)
    IN  IF Position > Len(buffer) THEN Incomplete ELSE r

framed ==
    LET r == scan_json_value(buffer, Position)
    IN  CASE Position > Len(buffer) -> Incomplete
          [] r.tag = "end" -> IF \/ r.end <= Len(buffer)
                                 \/ eof
                                 \/ buffer[Position] \in {"{", "["}
                              THEN r ELSE Incomplete
          [] OTHER -> r

NextValue == SubSeq(buffer, Position, framed.end - 1)

answer ==
    /\ served = Running
    /\ framed.tag = "end"
    /\ \/ /\ outcome(NextValue) = "response"
          /\ \/ /\ output' = Append(output, NextValue)
                /\ served' = served
             \/ /\ served' = "io"              \* writing or flushing failed
                /\ output' \in {output, Append(output, NextValue)}
       \/ /\ outcome(NextValue) = "notification"
          /\ UNCHANGED <<output, served>>
       \/ /\ outcome(NextValue) = "parse_error"
          /\ served' = "unparsable"
          /\ UNCHANGED output
    /\ buffer' = IF served' = Running
                   THEN SubSeq(buffer, framed.end, Len(buffer)) ELSE buffer
    /\ UNCHANGED <<pipe, eof, sent>>

syntax_error ==
    /\ served = Running
    /\ framed.tag = "syntax"
    /\ served' = "syntax"
    /\ UNCHANGED <<pipe, buffer, eof, output, sent>>

\* fill_buf: any non-empty piece of what is left, nothing at the end, or an error.
fill ==
    /\ served = Running
    /\ framed.tag = "incomplete"
    /\ ~eof
    /\ \/ /\ pipe # <<>>
          /\ \E n \in 1..Len(pipe) :
                /\ buffer' = buffer \o SubSeq(pipe, 1, n)
                /\ pipe' = SubSeq(pipe, n + 1, Len(pipe))
          /\ UNCHANGED <<eof, served>>
       \/ /\ pipe = <<>>
          /\ eof' = TRUE
          /\ UNCHANGED <<pipe, buffer, served>>
       \/ /\ served' = "io"
          /\ UNCHANGED <<pipe, buffer, eof>>
    /\ UNCHANGED <<output, sent>>

at_eof ==
    /\ served = Running
    /\ framed.tag = "incomplete"
    /\ eof
    /\ served' = IF Position > Len(buffer) THEN "ok" ELSE "unexpected_eof"
    /\ UNCHANGED <<pipe, buffer, eof, output, sent>>

StreamNext == answer \/ syntax_error \/ fill \/ at_eof

StreamSpec == StreamInit /\ [][StreamNext]_stream_vars

-----------------------------------------------------------------------------
(***************************************************************************)
(* Reference: the JSON grammar, read off a complete string.                *)
(***************************************************************************)
Trimmed(s) ==
    LET solid == {k \in 1..Len(s) : s[k] # " "}
    IN  IF solid = {} THEN <<>> ELSE SubSeq(s, Min(solid), Max(solid))

IsNumber(s) == \E k \in 0..1 : /\ Len(s) > k
                               /\ (k = 1) => s[1] = "-"
                               /\ \A j \in (k + 1)..Len(s) : s[j] = "1"

\* A quote ends the string unless an odd run of backslashes precedes it.
Escaped(s, j) ==
    \E n \in 1..(j - 1) : /\ n % 2 = 1
                          /\ \A k \in (j - n)..(j - 1) : s[k] = "e"
                          /\ s[j - n - 1] # "e"
IsString(s) ==
    /\ Len(s) >= 2 /\ s[1] = "q" /\ Last(s) = "q" /\ ~Escaped(s, Len(s))
    /\ \A j \in 2..(Len(s) - 1) :
          IF s[j] \in {"q", "e"} THEN Escaped(s, j) \/ (s[j] = "e" /\ s[j + 1] \in {"q", "e"})
          ELSE ~Escaped(s, j)

RECURSIVE IsJson(_, _)
IsJson(s, depth) ==
    LET inner == SubSeq(s, 2, Len(s) - 1)
        Pair(t) == \E k \in 1..Len(t) :
                      /\ t[k] = ":"
                      /\ IsString(Trimmed(SubSeq(t, 1, k - 1)))
                      /\ IsJson(Trimmed(SubSeq(t, k + 1, Len(t))), depth - 1)
        Item(t) == IF s[1] = "{" THEN Pair(t) ELSE IsJson(Trimmed(t), depth - 1)
        \* ends of the items of a comma separated list
        List(t) == \E cut \in SUBSET {k \in 1..Len(t) : t[k] = ","} :
                      LET ends == SetToSortSeq(cut \cup {Len(t) + 1}, <)
                          from(n) == IF n = 1 THEN 1 ELSE ends[n - 1] + 1
                      IN  \A n \in 1..Len(ends) : Item(SubSeq(t, from(n), ends[n] - 1))
    IN  /\ s # <<>>
        /\ \/ IsNumber(s)
           \/ IsString(s)
           \/ /\ depth > 0
              /\ Len(s) >= 2
              /\ <<s[1], Last(s)>> \in {<<"[", "]">>, <<"{", "}">>}
              /\ Trimmed(inner) = <<>> \/ List(inner)

-----------------------------------------------------------------------------
\* The type invariant.
StreamTypeOK ==
    /\ eof \in BOOLEAN
    /\ served \in {Running, "ok", "io", "syntax", "unexpected_eof", "unparsable"}
    /\ IsSuffix(pipe, sent)

\* The scanner accepts exactly the grammar: what scan_json_value frames at the
\* start of the buffer is a JSON value, and a buffer that is one value is framed
\* to its end (a scalar may also be followed by more).
ScansOneValue ==
    LET r == scan_json_value(buffer, Position)
    IN  Position <= Len(buffer) =>
            /\ r.tag = "end" => IsJson(SubSeq(buffer, Position, r.end - 1), MaxDepth)
            /\ IsJson(Trimmed(buffer), MaxDepth) =>
                   r.tag = "end" /\ skip_whitespace(buffer, r.end) > Len(buffer)

\* However the pipe cuts the bytes into pieces, the live server answers what
\* serve_stream answers for the whole input, in that order, and returns the
\* same result; until then, and after an I/O error, its output is a prefix.
ChunksDoNotMatter ==
    LET whole == serve_stream(sent, 1, <<>>)
    IN  /\ IsPrefix(output, whole.out)
        /\ served \notin {Running, "io"} =>
              output = whole.out /\ served = whole.res

\* The server never waits for the client while it holds a complete request: a
\* client that writes one object and waits for its answer is not left waiting.
NoAnswerWithheld ==
    [][ pipe' # pipe =>
          ~\E n \in Position..Len(buffer) :
              /\ buffer[Position] \in {"{", "["}
              /\ IsJson(SubSeq(buffer, Position, n), MaxDepth) ]_stream_vars

\* Framing is exact: the scanner accepts the grammar, the cuts of the pipe do
\* not show, and no complete request waits for more input.
StreamCorrect == [](StreamTypeOK /\ ScansOneValue /\ ChunksDoNotMatter) /\ NoAnswerWithheld

=============================================================================
