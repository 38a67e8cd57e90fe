---------------------------- MODULE McpProtocol -----------------------------
(***************************************************************************)
(* One JSON-RPC body, as both transports hand it to the protocol:          *)
(* crates/symeraseme-cli/src/mcp/protocol.rs (initialize_cancellable),     *)
(* tools_list.rs, tools_call.rs, envelope.rs and the batch loop of         *)
(* http.rs (protocol_reply_cancellable).                                   *)
(*                                                                         *)
(* A request is what its bytes say, field by field, and the spelling of    *)
(* its field names, because two parsers read it: the first folds the case  *)
(* of names as Go does, the second (serde_json) takes them as written,     *)
(* nests 128 levels at most and refuses numbers that are not finite.       *)
(***************************************************************************)
EXTENDS Absent, Integers, Sequences, SequencesExt, FiniteSets

CONSTANT Bodies      \* the bodies a client sends: sequences of requests

\* Values of the four fields the protocol reads.
Versions == {"2.0", "1.0", "number", "null", "absent"}
Methods  == {"ping", "initialize", "tools/list", "tools/call", "redact_file",
             "other", "", "number", "absent"}
\* An id may be a number a double holds (int), an integer of 64 bits it does not
\* hold (big), one beyond 64 bits (vast) or one beyond a double's range (huge).
Ids      == {"absent", "null", "int", "big", "vast", "huge", "array"}
\* The id of an answer: as it was sent, or rounded to the nearest double.
AnswerIds == Ids \cup {"rounded"}
\* An object is told apart by what tools/call and redact_file find in it.
Objects  == {"no name", "unknown tool", "missing argument", "wrong type",
             "bad arguments", "call", "status", "path"}
Params   == {"absent", "null", "array", "array path", "huge"} \cup Objects
Fields   == {"jsonrpc", "method", "id", "params"}

\* A request: its fields, the names not spelled in lower case, and whether it
\* nests beyond serde_json's limit. A value that is no object has no fields.
RpcRequest == [object : BOOLEAN, jsonrpc : Versions, method : Methods, id : Ids,
            params : Params, folded : SUBSET Fields, deep : BOOLEAN]

\* JSON-RPC's error codes, and a result instead of one.
ParseFailed    == -32700
InvalidRequest == -32600
MethodNotFound == -32601
InvalidParams  == -32602
InternalError  == -32603
OK             == 0

Response(code, id) == [kind |-> "response", code |-> code, id |-> id, ran |-> FALSE]
Ran(code, id)      == [kind |-> "response", code |-> code, id |-> id, ran |-> TRUE]
Notification       == [kind |-> "notification", code |-> 0, id |-> "absent", ran |-> FALSE]
ParseError         == [kind |-> "parse_error", code |-> 0, id |-> "absent", ran |-> FALSE]

RpcOutcome == [kind : {"response", "notification", "parse_error"}, code : Int, id : AnswerIds,
            ran : BOOLEAN]

ASSUME ProtocolAssumption == Bodies \subseteq Seq(RpcRequest) /\ None \notin RpcOutcome


-----------------------------------------------------------------------------
(* The first parser *)

\* Faulty variant: a number beyond the range counts as the largest one.
classify_raw_id_Saturated(id) ==
    CASE id = "array" -> "invalid"
      [] id = "huge" -> "int"
      [] id \in {"big", "vast"} -> "rounded"
      [] OTHER -> id

\* null and a finite number are ids (as a string is); anything else is not. A
\* number is read as a double and printed again (normalize_finite_number).
classify_raw_id(id) ==
    CASE id \in {"huge", "array"} -> "invalid"
      [] id \in {"big", "vast"}   -> "rounded"
      [] OTHER                    -> id

classify_raw_params(p) ==
    CASE p \in {"absent", "null"} -> p
      [] p \in Objects            -> "object"
      [] OTHER                    -> "other"

\* A jsonrpc or method that is there and neither null nor a string.
request_error(q) == "number" \in {q.jsonrpc, q.method}

valid_request(q) ==
    /\ q.object
    /\ q.jsonrpc = "2.0"
    /\ q.method \notin {"absent", "", "number"}

parse_request(q) ==
    [ id_present    |-> q.object /\ q.id # "absent",
      id            |-> IF q.object THEN classify_raw_id(q.id) ELSE "null",
      request_error |-> q.object /\ request_error(q),
      valid_request |-> valid_request(q),
      params        |-> IF q.object THEN classify_raw_params(q.params) ELSE "absent" ]

-----------------------------------------------------------------------------
(* The second parser and the methods that use it *)

\* serde_json fails as a whole: too deep, or a number out of range anywhere.
from_slice_fails(q) == q.deep \/ q.id = "huge" \/ q.params = "huge"

\* The id as serde_json holds and prints it: integers of 64 bits exactly.
id_value(q) == IF q.id = "vast" THEN "rounded" ELSE q.id

\* A field under the exact name.
get(q, field) == IF field \in q.folded THEN "absent" ELSE q[field]

\* The checks tools_list, tools_call and legacy_redact_file share, in order;
\* None when the request may go on.
envelope_error(q) ==
    LET id == IF get(q, "id") = "absent" THEN "null" ELSE id_value(q)
    IN  IF from_slice_fails(q) THEN ParseError
        ELSE IF \/ get(q, "jsonrpc") # "2.0"
                \/ get(q, "method") \in {"absent", "", "number"} THEN Response(InvalidRequest, id)
        ELSE IF get(q, "id") = "absent" THEN Notification
        ELSE IF q.id = "array" THEN Response(InvalidRequest, id_value(q))
        ELSE None

tools_list(q) ==
    LET e == envelope_error(q) IN
    IF e # None THEN e
    ELSE IF get(q, "params") \notin Objects \cup {"absent", "null"} THEN Response(InvalidParams, id_value(q))
    ELSE Response(OK, id_value(q))

\* validate_arguments: required keys first, then the type of every argument.
validate_arguments(p) == p \notin {"missing argument", "wrong type"}

\* What the handler answers, and the code its error is given: InternalError
\* from tools/call, InvalidParams from the legacy method.
dispatch_tool(q, failure) == {Ran(OK, id_value(q)), Ran(failure, id_value(q))}

\* Faulty variant: the tool runs before its arguments are checked.
tools_call_RunFirst(q) ==
    LET p == get(q, "params") e == envelope_error(q) IN
    IF e # None THEN {e}
    ELSE IF p \in {"array", "array path", "absent", "null", "no name", "path", "bad arguments"}
    THEN {Response(InvalidParams, id_value(q))}
    ELSE IF p = "unknown tool" THEN {Response(MethodNotFound, id_value(q))}
    ELSE dispatch_tool(q, InternalError)

tools_call(q) ==
    LET p == get(q, "params") e == envelope_error(q) IN
    IF e # None THEN {e}
    ELSE IF p \in {"array", "array path", "absent", "null", "no name", "path", "bad arguments"}
    THEN {Response(InvalidParams, id_value(q))}
    ELSE IF p = "unknown tool" THEN {Response(MethodNotFound, id_value(q))}
    ELSE IF ~validate_arguments(p) THEN {Response(InvalidParams, id_value(q))}
    ELSE dispatch_tool(q, InternalError)

legacy_path(p) == p \in {"array path", "path"}

\* Faulty variant: a notification runs the tool and is answered.
legacy_redact_file_Notified(q) ==
    LET e == envelope_error(q) IN
    IF e # None /\ e # Notification THEN {e}
    ELSE IF ~legacy_path(get(q, "params")) THEN {Response(InvalidParams, id_value(q))}
    ELSE IF e = Notification THEN {[e EXCEPT !.ran = TRUE]}
    ELSE dispatch_tool(q, InvalidParams)

legacy_redact_file(q) ==
    LET e == envelope_error(q) IN
    IF e # None THEN {e}
    ELSE IF ~legacy_path(get(q, "params")) THEN {Response(InvalidParams, id_value(q))}
    ELSE dispatch_tool(q, InvalidParams)

-----------------------------------------------------------------------------
\* initialize_cancellable: the outcomes one request may have.
initialize(q) ==
    LET s == parse_request(q)
        notification == ~s.id_present
        Unless(r) == {IF notification THEN Notification ELSE r}
    IN  IF s.id = "invalid" \/ s.request_error THEN {Response(InvalidRequest, "null")}
        ELSE IF ~s.valid_request
        THEN {Response(InvalidRequest, IF s.id_present THEN s.id ELSE "null")}
        ELSE CASE q.method \in {"ping", "initialize"} ->
                Unless(IF s.params = "other" THEN Response(InvalidParams, s.id) ELSE Response(OK, s.id))
          [] q.method = "tools/list"  -> {tools_list(q)}
          [] q.method = "tools/call"  -> IF notification THEN {Notification} ELSE tools_call(q)
          [] q.method = "redact_file" -> legacy_redact_file(q)
          [] OTHER -> Unless(Response(MethodNotFound, s.id))

-----------------------------------------------------------------------------
VARIABLES body,      \* the items of the body
          item,      \* the next item
          replies,   \* the responses collected, in order
          outcomes,  \* history: the outcome of every item so far
          reply      \* the HTTP reply, or None

protocol_vars == <<body, item, replies, outcomes, reply>>

ProtocolInit ==
    /\ body \in Bodies
    /\ item = 1
    /\ replies = <<>>
    /\ outcomes = <<>>
    /\ reply = None

\* A batch: items run one after the other; an outcome without a response
\* leaves nothing in the reply.
batch_item ==
    /\ reply = None
    /\ Len(body) # 1
    /\ item <= Len(body)
    /\ \E o \in initialize(body[item]) :
          /\ outcomes' = Append(outcomes, o)
          /\ replies' = IF o.kind = "response" THEN Append(replies, o) ELSE replies
    /\ item' = item + 1
    /\ UNCHANGED <<body, reply>>

\* An empty batch is an invalid request; a batch without responses is 204.
batch_done ==
    /\ reply = None
    /\ Len(body) # 1
    /\ item > Len(body)
    /\ reply' = IF body = <<>> THEN [status |-> 200, code |-> InvalidRequest]
                ELSE [status |-> IF replies = <<>> THEN 204 ELSE 200, code |-> OK]
    /\ UNCHANGED <<body, item, replies, outcomes>>

\* A single request: protocol_outcome.
single ==
    /\ reply = None
    /\ Len(body) = 1
    /\ \E o \in initialize(body[1]) :
          /\ outcomes' = <<o>>
          /\ replies' = IF o.kind = "response" THEN <<o>> ELSE <<>>
          /\ reply' = CASE o.kind = "response"     -> [status |-> 200, code |-> o.code]
                        [] o.kind = "notification" -> [status |-> 204, code |-> OK]
                        [] OTHER                   -> [status |-> 200, code |-> ParseFailed]
    /\ item' = 2
    /\ UNCHANGED body

ProtocolNext == batch_item \/ batch_done \/ single

ProtocolSpec == ProtocolInit /\ [][ProtocolNext]_protocol_vars

-----------------------------------------------------------------------------
\* The type invariant.
ProtocolTypeOK ==
    /\ item \in 1..(Len(body) + 1)
    /\ Len(outcomes) = item - 1
    /\ reply = None \/ reply.status \in {200, 204}

\* A tool runs only for a request that asks for an answer and whose arguments
\* passed validation, and its result is then reported: no side effect is silent.
ToolRunsAreReported ==
    \A n \in 1..Len(outcomes) : outcomes[n].ran =>
        /\ outcomes[n].kind = "response"
        /\ body[n].id \in {"null", "int", "big", "vast"}
        /\ body[n].params \in {"call", "status", "path", "array path"}

\* A request whose id does not reach its answer: it has none, or one that is no
\* id, or its name, jsonrpc or method is not spelled or typed as expected.
NoUsableId(q) ==
    \/ ~q.object \/ request_error(q)
    \/ q.id \in {"absent", "null", "huge", "array"} \/ "id" \in q.folded

\* A client finds the id it sent in the answer, and null only where the request
\* had no usable one. An id that no double holds comes back rounded from the
\* first parser (ping, initialize, errors: normalize_finite_number); one of 64
\* bits still comes back as it was sent from every tool that ran.
Echoes(o, q) ==
    \/ o.id = "null" /\ NoUsableId(q)
    \/ o.id = q.id /\ q.id \in {"int", "big"}
    \/ o.id = "rounded" /\ (q.id = "vast" \/ (q.id = "big" /\ ~o.ran))

AnswersEchoId ==
    \A n \in 1..Len(outcomes) : outcomes[n].kind = "response" => Echoes(outcomes[n], body[n])

\* For single requests and batches alike, well formed or not.
ProtocolCorrect == ProtocolTypeOK /\ ToolRunsAreReported /\ AnswersEchoId

=============================================================================
