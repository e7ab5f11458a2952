----------------------------- MODULE MCJobQueue -----------------------------
(* Small instances of JobQueue for TLC. *)
EXTENDS JobQueue

\* Model values: jobs, drains, a subscriber, an event, a caller's key.
CONSTANTS j1, j2, w1, w2, d1, e1, k1
=============================================================================
