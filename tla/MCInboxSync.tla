----------------------------- MODULE MCInboxSync -----------------------------
(* Small instances for model checking the mail synchronisation.             *)
EXTENDS InboxSync

OneWorker      == 1..1
TwoWorkers     == 1..2
ImapOutlook    == {"imap", "outlook"}
JustImap       == {"imap"}
AllButPassword == {"oauth", "outlook", "malformed", "unreadable"}
JustPassword   == {"password"}

=============================================================================
