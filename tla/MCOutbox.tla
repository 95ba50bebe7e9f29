------------------------------- MODULE MCOutbox -------------------------------
(* Small instances of Outbox for TLC; the configurations say which.        *)
EXTENDS Outbox
===============================================================================
