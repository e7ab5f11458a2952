------------------------- MODULE MCVulnerabilityGate -------------------------
(* Small instances of VulnerabilityGate for TLC. *)
EXTENDS VulnerabilityGate, TLC

CONSTANTS c1

Health == [driver |-> "health", flag |-> TRUE]
Plain == [driver |-> "another", flag |-> FALSE]

OfOne == [p \in Proposals |-> c1]

OneHealth == [p \in Proposals |-> Health]
OnePlain == [p \in Proposals |-> Plain]

\* Row identities are interchangeable, and so are people with the same role.
Rows == Permutations(Consents) \cup Permutations(Records)
Symmetry == Rows \cup Permutations(People)
=============================================================================
