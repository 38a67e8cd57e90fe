----------------------------- MODULE MCServices -----------------------------
(***************************************************************************)
(* The parts of the program that run beside others (the MCP server and its *)
(* clients, processes that present one consent token, the application's    *)
(* key) or talk to something that may never answer (mail server, child     *)
(* process), each on its own: one part is picked at the start and only it  *)
(* moves.                                                                  *)
(***************************************************************************)
EXTENDS McpServer, AppKeys, ImapClient, OAuthStates, Subprocess, Consent

VARIABLE part    \* the part that runs

service_vars ==
    <<server_vars, keys_vars, imap_vars, oauth_vars, sub_vars, consent_vars>>

-----------------------------------------------------------------------------
(* Names of folders with everything that is encoded or escaped, and answers *)
(* to SEARCH that are out of order, with gaps or repeated.                  *)
MCFolders ==
    {<<"INBOX">>, <<"a", "u", "v", "a">>, <<"u", "&", "v">>, <<"&", "a", "&">>, <<"q", "b", "u">>,
     <<"b", "q", "a", "q">>, <<"u", "a", "-", "u">>, <<"-", "b", "b">>}
MCSearches == {<<>>, <<1>>, <<3, 1, 2>>, <<4, 1, 2>>, <<5, 3, 1>>, <<2, 2, 3>>, <<4, 5, 1, 2>>}

-----------------------------------------------------------------------------
(* The parts that do not run stay in one of their initial states. *)

KeysRest == keychain = None /\ legacy = None /\ KeysInit
ImapRest == imap = (CHOOSE i \in ImapStarts : TRUE) /\ ImapInit
SubRest == caller = (CHOOSE c \in CallerStarts : TRUE) /\ SubInit
ConsentRest == name = [t \in Tokens |-> "absent"] /\ ConsentInit

ServicesInit ==
    \/ /\ part \in {"server", "oauth"}
       /\ ServerInit /\ KeysRest /\ ImapRest
       /\ OAuthInit /\ SubRest /\ ConsentRest
    \/ /\ part = "keys"
       /\ ServerInit /\ KeysInit /\ ImapRest
       /\ OAuthInit /\ SubRest /\ ConsentRest
    \/ /\ part = "imap"
       /\ ServerInit /\ KeysRest /\ ImapInit
       /\ OAuthInit /\ SubRest /\ ConsentRest
    \/ /\ part = "subprocess"
       /\ ServerInit /\ KeysRest /\ ImapRest
       /\ OAuthInit /\ SubInit /\ ConsentRest
    \/ /\ part = "consent"
       /\ ServerInit /\ KeysRest /\ ImapRest
       /\ OAuthInit /\ SubRest /\ ConsentInit

\* What a part may do without end is up to its users; the application can
\* always go on.
Quiet == part # "keys" /\ UNCHANGED service_vars

ServicesNext ==
    /\ UNCHANGED part
    /\ \/ /\ part = "server" /\ ServerNext
          /\ UNCHANGED <<keys_vars, imap_vars,
                         oauth_vars, sub_vars, consent_vars>>
       \/ /\ part = "keys" /\ KeysNext
          /\ UNCHANGED <<server_vars, imap_vars,
                         oauth_vars, sub_vars, consent_vars>>
       \/ /\ part = "imap" /\ ImapNext
          /\ UNCHANGED <<server_vars, keys_vars,
                         oauth_vars, sub_vars, consent_vars>>
       \/ /\ part = "oauth" /\ OAuthNext
          /\ UNCHANGED <<server_vars, keys_vars, imap_vars,
                         sub_vars, consent_vars>>
       \/ /\ part = "subprocess" /\ SubNext
          /\ UNCHANGED <<server_vars, keys_vars, imap_vars,
                         oauth_vars, consent_vars>>
       \/ /\ part = "consent" /\ ConsentNext
          /\ UNCHANGED <<server_vars, keys_vars, imap_vars,
                         oauth_vars, sub_vars>>
       \/ Quiet

\* The fairness of each part, for the part that runs: a shutdown goes on by
\* itself and its five seconds pass, a read of the mail client returns or times
\* out, a call's deadline passes and its readers read, a process that presents a
\* token goes on and gets the lock it waits for. No tool call and no client
\* need do anything.
ServicesFair ==
    /\ \A s \in Servers : WF_server_vars(part = "server" /\ Shutdown(s))
    /\ WF_imap_vars(part = "imap" /\ (ImapClientStep \/ time_out))
    /\ WF_sub_vars(part = "subprocess" /\ (CallerStep \/ give_up))
    /\ WF_sub_vars(part = "subprocess" /\ reader_read)
    /\ \A p \in Callers : /\ WF_consent_vars(part = "consent" /\ CallStep(p))
                          /\ SF_consent_vars(part = "consent" /\ locked(p))

ServicesSpec == ServicesInit /\ [][ServicesNext]_<<part, service_vars>> /\ ServicesFair

-----------------------------------------------------------------------------
\* What was begun comes to its end, although a client, a child or a mail server
\* may stall: the shutdown of a server (serve) but for a tool that runs on, the
\* call of a program or a provider (call_api_with) but for a program that keeps
\* the pipe, and a mail session (dial to logout) but for a connection closed
\* while the client waits for a tag.
ServicesEnd == StopEnds /\ CallReturns /\ SessionEnds

=============================================================================
