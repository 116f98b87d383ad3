------------------------------- MODULE MCMail -------------------------------
(* The mirror of a mailbox: what was there is in one folder, what comes in another. *)
EXTENDS MailSync

CONSTANTS e1, inbox, sent

MCHome == [m \in Msgs |-> IF m = e1 THEN sent ELSE inbox]
=============================================================================
