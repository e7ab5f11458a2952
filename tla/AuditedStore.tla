---------------------------- MODULE AuditedStore ----------------------------
(***************************************************************************)
(* What packages/audit promises, without transactions, locks or hashes: a  *)
(* store and its logs that change together, in one step.  A step appends   *)
(* rows to the log of one tenant, numbered on from the last, and each cell *)
(* holds afterwards what the last of the new rows about it says.  Nothing  *)
(* else changes a cell, and no row is ever altered or removed.             *)
(*                                                                         *)
(* AuditLedger implements this specification (AuditLedger!Implements).     *)
(***************************************************************************)
EXTENDS Naturals

CONSTANTS
    Tenants,
    Resources,
    Tenant,       \* Resources -> Tenants
    Values

VARIABLES
    value,    \* Resources -> Values
    log       \* per tenant, a set of rows [seq, resource, after]

Init ==
    /\ value \in [Resources -> Values]
    /\ log = [t \in Tenants |-> {}]

New(t) == log'[t] \ log[t]

NewAbout(t, x) == {row \in New(t) : row.resource = x}

\* The rows are numbered on, without a gap and without giving a number twice.
NumberedOn(t) ==
    \A row \in New(t) :
        /\ \A old \in log[t] : old.seq < row.seq
        /\ row.seq # 1 => \E other \in log'[t] : other.seq = row.seq - 1
        /\ \A other \in New(t) : other.seq = row.seq => other = row

\* The cell x holds what the last new row about it says.
Described(t, x) ==
    \A row \in NewAbout(t, x) :
        (\A other \in NewAbout(t, x) : other.seq <= row.seq) => value'[x] = row.after

Record(t) ==
    /\ log[t] \subseteq log'[t]
    /\ \A u \in Tenants \ {t} : log'[u] = log[u]
    /\ NumberedOn(t)
    /\ \A row \in New(t) : Tenant[row.resource] = t
    /\ \A x \in Resources :
          \/ value'[x] = value[x] /\ NewAbout(t, x) = {}
          \/ Described(t, x) /\ NewAbout(t, x) # {}

Next == \E t \in Tenants : Record(t)

Spec == Init /\ [][Next]_<<value, log>>
=============================================================================
