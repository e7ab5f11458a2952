---------------------------- MODULE VersionedFile ----------------------------
(***************************************************************************)
(* What a case file promises about the two documents that are replaced and *)
(* never edited, the financial statement and the advice decision: each is  *)
(* a series of versions of which the last one stands, every earlier one    *)
(* names the version that replaced it, and publishing a version is one     *)
(* step.  A decision rests on a statement that is in the file.             *)
(*                                                                         *)
(* CaseFile implements this specification (CaseFile!Implements).           *)
(***************************************************************************)
EXTENDS Naturals, Sequences

CONSTANT Households    \* what a statement may say of the household

VARIABLES
    statement,    \* the versions of the statement
    decision      \* the versions of the advice

\* The versions after one more, which says c, has replaced the last.
Replaced(versions, c) ==
    [i \in 1 .. Len(versions) + 1 |->
        IF i = Len(versions) + 1 THEN [live |-> TRUE, by |-> 0, says |-> c]
        ELSE IF i = Len(versions) THEN [live |-> FALSE, by |-> i + 1, says |-> versions[i].says]
        ELSE versions[i]]

Init == statement = << >> /\ decision = << >>

Publish(h) ==
    /\ statement' = Replaced(statement, h)
    /\ UNCHANGED decision

Advise(s) ==
    /\ decision' = Replaced(decision, s)
    /\ UNCHANGED statement

Next ==
    \/ \E h \in Households : Publish(h)
    \/ \E s \in 1 .. Len(statement) : Advise(s)

Spec == Init /\ [][Next]_<<statement, decision>>
=============================================================================
