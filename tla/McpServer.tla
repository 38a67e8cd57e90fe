----------------------------- MODULE McpServer ------------------------------
(***************************************************************************)
(* `symeraseme mcp`: the HTTP server of                                    *)
(* crates/symeraseme-cli/src/mcp/http.rs, started by the macOS application *)
(* (Services/ServerManager.swift) or by hand, and the application's client *)
(* (Services/MCPClient.swift). All share one data directory, one token     *)
(* file and one port.                                                      *)
(*                                                                         *)
(* A server is one process: its bearer token is its name. A connection is  *)
(* one client task with one request at a time; the tool call it makes runs *)
(* on a blocking thread, which goes on when the task is dropped.           *)
(***************************************************************************)
EXTENDS Absent, Naturals, FiniteSets

CONSTANTS Servers, Conns,
          MaxConnections     \* MAX_HTTP_CONNECTIONS, 128

ASSUME ServerAssumption ==
    /\ MaxConnections \in Nat \ {0}
    /\ IsFiniteSet(Conns)
    /\ None \notin Servers \cup {"connected", "unauthorized", "unreachable"}

VARIABLES token_file,  \* mcp_token: whose token it holds, or None (no or empty)
          server,      \* where each process is
          stopping,    \* the signal flag of each process
          permits,     \* free connection slots of each process
          conn         \* the connections

server_vars == <<token_file, server, stopping, permits, conn>>

Phase == {"off", "truncated", "written", "built", "listening", "draining",
          "joining", "ended", "failed", "killed"}

\* state: idle, read (the token is read), open (accepted), call (a tool runs),
\* dropped (the tool runs on, its task is gone).
Closed == [state |-> "idle", server |-> None, token |-> None, status |-> None]

ServerInit ==
    /\ token_file = None
    /\ server = [s \in Servers |-> "off"]
    /\ stopping = [s \in Servers |-> FALSE]
    /\ permits = [s \in Servers |-> MaxConnections]
    /\ conn = [c \in Conns |-> Closed]

Listening == {s \in Servers : server[s] = "listening"}
Of(s, states) == {c \in Conns : conn[c].server = s /\ conn[c].state \in states}

Go(s, phase) == server' = [server EXCEPT ![s] = phase]

-----------------------------------------------------------------------------
(* serve: refused arguments touch nothing; the token is replaced before    *)
(* the handler is built and the port is bound.                             *)

serve_refused(s) ==
    /\ server[s] = "off"
    /\ Go(s, "failed")
    /\ UNCHANGED <<token_file, stopping, permits, conn>>

serve(s) ==
    /\ server[s] = "off"
    /\ Go(s, "truncated")
    /\ token_file' = None
    /\ UNCHANGED <<stopping, permits, conn>>

write_token(s) ==
    /\ server[s] = "truncated"
    /\ \/ Go(s, "written") /\ token_file' = s
       \/ Go(s, "failed") /\ UNCHANGED token_file
    /\ UNCHANGED <<stopping, permits, conn>>

build_handler(s) ==
    /\ server[s] = "written"
    /\ Go(s, "built") \/ Go(s, "failed")
    /\ UNCHANGED <<token_file, stopping, permits, conn>>

bind(s) ==
    /\ server[s] = "built"
    /\ Go(s, IF Listening = {} THEN "listening" ELSE "failed")
    /\ UNCHANGED <<token_file, stopping, permits, conn>>

signal(s) ==
    /\ server[s] \in {"listening", "draining", "joining"}
    /\ ~stopping[s]
    /\ stopping' = [stopping EXCEPT ![s] = TRUE]
    /\ UNCHANGED <<token_file, server, permits, conn>>

-----------------------------------------------------------------------------
(* Connections *)

\* The client reads the token file anew for every request.
readAuthToken(c) ==
    /\ conn[c].state \in {"idle", "open"}
    /\ conn' = [conn EXCEPT ![c].token = token_file,
                            ![c].status = None,
                            ![c].state = IF @ = "idle" THEN "read" ELSE "sent"]
    /\ UNCHANGED <<token_file, server, stopping, permits>>

\* A slot first, then a connection.
accept(c) ==
    /\ conn[c].state = "read"
    /\ \E s \in Listening :
          /\ permits[s] > 0
          /\ permits' = [permits EXCEPT ![s] = @ - 1]
          /\ conn' = [conn EXCEPT ![c].state = "sent", ![c].server = s]
    /\ UNCHANGED <<token_file, server, stopping>>

release(s) == [permits EXCEPT ![s] = @ + 1]

\* ConnectionStatus: a rejected token is told from a server that is not there.
ping(status) ==
    CASE status = 200 -> "connected" [] status = 401 -> "unauthorized" [] OTHER -> "unreachable"

\* Method, origin, token, length and body are refused in this order, each
\* with its status, before anything runs.
handle_request_refused(c) ==
    /\ conn[c].state = "sent"
    /\ \E status \in {405, 403, 401, 413, 200} :
          /\ (status = 401) => conn[c].token # conn[c].server
          /\ (status \in {413, 200}) => conn[c].token = conn[c].server
          /\ conn' = [conn EXCEPT ![c].state = "open", ![c].status = ping(status)]
    /\ UNCHANGED <<token_file, server, stopping, permits>>

\* Faulty variant: the bearer token is not compared.
handle_request_NoAuth(c) ==
    /\ conn[c].state = "sent"
    /\ conn' = [conn EXCEPT ![c].state = "call"]
    /\ UNCHANGED <<token_file, server, stopping, permits>>

handle_request(c) ==
    /\ conn[c].state = "sent"
    /\ conn[c].token = conn[c].server
    /\ conn' = [conn EXCEPT ![c].state = "call"]
    /\ UNCHANGED <<token_file, server, stopping, permits>>

respond(c) ==
    /\ conn[c].state = "call"
    /\ conn' = [conn EXCEPT ![c].state = "open", ![c].status = ping(200)]
    /\ UNCHANGED <<token_file, server, stopping, permits>>

\* The connection ends: the client hangs up, or no header came for 5 seconds.
\* CancelOnDrop tells a running tool; the thread ends on its own.
Ended(c) == IF conn[c].state = "call" THEN [conn[c] EXCEPT !.state = "dropped"] ELSE Closed

\* Faulty variant: a hang-up during a call keeps its slot.
hang_up_Leaked(c) ==
    /\ conn[c].state \in {"sent", "open", "call"}
    /\ conn' = [conn EXCEPT ![c] = Ended(c)]
    /\ permits' = IF conn[c].state = "call" THEN permits ELSE release(conn[c].server)
    /\ UNCHANGED <<token_file, server, stopping>>

hang_up(c) ==
    /\ conn[c].state \in {"sent", "open", "call"}
    /\ conn' = [conn EXCEPT ![c] = Ended(c)]
    /\ permits' = release(conn[c].server)
    /\ UNCHANGED <<token_file, server, stopping>>

unreachable(c) ==
    /\ conn[c].state = "read"
    /\ conn' = [conn EXCEPT ![c] = Closed]
    /\ UNCHANGED <<token_file, server, stopping, permits>>

\* A dropped call returns, cancelled or done; nobody waits for it.
tool_ends(c) ==
    /\ conn[c].state = "dropped"
    /\ conn' = [conn EXCEPT ![c] = Closed]
    /\ UNCHANGED <<token_file, server, stopping, permits>>

-----------------------------------------------------------------------------
(* Shutdown *)

\* The accept loop sees the flag: the listener closes first, then every
\* connection is told to finish the request it is on.
stop_accepting(s) ==
    /\ server[s] = "listening"
    /\ stopping[s]
    /\ Go(s, "draining")
    /\ UNCHANGED <<token_file, stopping, permits, conn>>

close_idle(c) ==
    /\ conn[c].state = "open"
    /\ server[conn[c].server] = "draining"
    /\ conn' = [conn EXCEPT ![c] = Closed]
    /\ permits' = release(conn[c].server)
    /\ UNCHANGED <<token_file, server, stopping>>

drained(s) ==
    /\ server[s] = "draining"
    /\ Of(s, {"sent", "open", "call"}) = {}
    /\ Go(s, "joining")
    /\ UNCHANGED <<token_file, stopping, permits, conn>>

\* The tasks are dropped, and with them the calls' futures.
abort_all(s) ==
    /\ Go(s, "joining")
    /\ conn' = [c \in Conns |-> IF c \in Of(s, {"sent", "open", "call"}) THEN Ended(c) ELSE conn[c]]
    /\ permits' = [permits EXCEPT ![s] = MaxConnections]
    /\ UNCHANGED <<token_file, stopping>>

\* Five seconds.
drain_timeout(s) ==
    /\ server[s] = "draining"
    /\ Of(s, {"sent", "open", "call"}) # {}
    /\ abort_all(s)

\* An error of the listener ends serve_async at once: nothing is drained.
accept_fails(s) ==
    /\ server[s] = "listening"
    /\ permits[s] > 0
    /\ abort_all(s)

\* serve returns when the runtime is dropped, and that waits for the threads.
runtime_drop_NoJoin(s) ==
    /\ server[s] = "joining"
    /\ Go(s, "ended")
    /\ UNCHANGED <<token_file, stopping, permits, conn>>

runtime_drop(s) ==
    /\ server[s] = "joining"
    /\ Of(s, {"dropped"}) = {}
    /\ Go(s, "ended")
    /\ UNCHANGED <<token_file, stopping, permits, conn>>

kill(s) ==
    /\ server[s] \notin {"off", "ended", "failed", "killed"}
    /\ Go(s, "killed")
    /\ conn' = [c \in Conns |-> IF conn[c].server = s THEN Closed ELSE conn[c]]
    /\ permits' = [permits EXCEPT ![s] = MaxConnections]
    /\ UNCHANGED <<token_file, stopping>>

-----------------------------------------------------------------------------
Start(s) == serve_refused(s) \/ serve(s) \/ write_token(s) \/ build_handler(s) \/ bind(s)
Serve(c) == accept(c) \/ handle_request_refused(c) \/ handle_request(c) \/ respond(c) \/ close_idle(c)
Client(c) == readAuthToken(c) \/ hang_up(c) \/ unreachable(c)
Shutdown(s) == stop_accepting(s) \/ drained(s) \/ drain_timeout(s) \/ runtime_drop(s)

ServerNext ==
    \/ \E s \in Servers : Start(s) \/ signal(s) \/ accept_fails(s) \/ Shutdown(s) \/ kill(s)
    \/ \E c \in Conns : Serve(c) \/ Client(c) \/ tool_ends(c)

ServerSpec == ServerInit /\ [][ServerNext]_server_vars

-----------------------------------------------------------------------------
\* The type invariant.
ServerTypeOK ==
    /\ token_file \in Servers \cup {None}
    /\ server \in [Servers -> Phase]
    /\ stopping \in [Servers -> BOOLEAN]
    /\ permits \in [Servers -> 0..MaxConnections]
    /\ conn \in [Conns -> [state : {"idle", "read", "sent", "open", "call", "dropped"},
                           server : Servers \cup {None}, token : Servers \cup {None},
                           status : {None, "connected", "unauthorized", "unreachable"}]]

\* A tool runs only in the server whose token the client read, also when the
\* server was replaced between reading the token and the request, and the
\* application shows `connected' only for such a server.
CallsAreAuthorized ==
    \A c \in Conns :
        conn[c].state \in {"call", "dropped"} \/ conn[c].status = "connected"
            => conn[c].token = conn[c].server

\* A server that stopped by itself has no tool call left on any thread: the
\* database is never left in the middle of a call by a shutdown.
EndedIsQuiet ==
    \A s \in Servers : server[s] = "ended" => Of(s, {"sent", "open", "call", "dropped"}) = {}

\* A slot is taken for every open connection and for no other: hung up, timed
\* out and aborted connections give theirs back.
PermitsAccounted ==
    \A s \in Servers : permits[s] + Cardinality(Of(s, {"sent", "open", "call"})) = MaxConnections

\* At most one server accepts connections, and a draining one never does again.
OneListener ==
    /\ Cardinality(Listening) <= 1
    /\ \A c \in Conns : conn[c].state \in {"sent", "open", "call"} =>
          server[conn[c].server] \in {"listening", "draining"}

\* Servers that are started over one another, signalled and killed, with
\* clients that hang up (serve, serve_async, handle_request):
\* calls are authorized, slots come back, one server listens, and one that
\* stopped has stopped working.
ServerSafe ==
    ServerTypeOK /\ CallsAreAuthorized /\ EndedIsQuiet /\ PermitsAccounted /\ OneListener

\* A signalled server ends, whatever its clients do: only the thread of a call
\* whose task was dropped can hold it, and it does as long as the tool runs
\* (serve drops its runtime, which waits for blocking threads).
StopEnds ==
    \A s \in Servers :
        (server[s] = "listening" /\ stopping[s])
            ~> (server[s] \in {"ended", "killed"} \/ (server[s] = "joining" /\ Of(s, {"dropped"}) # {}))

=============================================================================
