------------------------------- MODULE MCInbox -------------------------------
EXTENDS Inbox

OneFolder == {<<"INBOX">>}

\* Two folders, one of them named twice.
TwoFolders == {<<"INBOX", "Junk", "INBOX">>}

\* One mail is in both folders, the one that cannot be parsed only in the other.
MCDelivered == [f \in Folders |-> Mails \ (IF f = "INBOX" THEN {"bad"} ELSE {"m1"})]
=============================================================================
