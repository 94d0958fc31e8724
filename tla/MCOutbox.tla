------------------------------- MODULE MCOutbox -------------------------------
(* Small instances of Outbox: one message, to the owner's conversation or
   to the system channel. *)
EXTENDS Outbox, TLC

CONSTANTS p1, qq

ShortBackoff == [n \in Attempts |-> 1]
=============================================================================
