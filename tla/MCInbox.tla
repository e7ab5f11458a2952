------------------------------- MODULE MCInbox -------------------------------
(* A small instance of Inbox for TLC. *)
EXTENDS Inbox

CONSTANTS t1, n1, c1, c2, m1, d1, d2, a1

OneNumber == [t \in Threads |-> n1]
OneThread == [m \in Messages |-> t1]
=============================================================================
