----------------------------- MODULE CaseOpening -----------------------------
(***************************************************************************)
(* Opening a client record and a case: createClient, openCase and the      *)
(* allocation of references in packages/core/src/casework/open-case.ts, as *)
(* called by the console (a case, or a client and a case in one            *)
(* transaction) and by POST /v1/clients and POST /v1/cases.                *)
(*                                                                         *)
(* A reference is the highest number used with its prefix, plus one, read  *)
(* and inserted under an advisory lock on the prefix that the transaction  *)
(* holds to its end, like the audit chain of the firm that each audit row  *)
(* takes.  The console's transaction audits the client before it asks for  *)
(* the prefix of the case, the others the other way round: two can wait    *)
(* for each other, and the database then breaks one of them off.           *)
(***************************************************************************)
EXTENDS Naturals, Sequences, FiniteSets

CONSTANTS
    Callers,      \* transactions at once
    MaxNumber     \* bound: numbers given under one prefix

VARIABLES
    given,      \* per table, the numbers of committed references
    opening,    \* per caller, the transaction under way
    refused     \* history: per caller, whether an insert met a reference that was taken

ovars == <<given, opening, refused>>

Tables == {"clients", "cases"}
Locks == Tables \cup {"chain"}
Numbers == 1 .. MaxNumber

\* todo: the tables still to be inserted into.  at: what is done next for the
\* first of them.  number: 0, or what nextReference returned.
Opening == [todo: {<< >>, <<"clients">>, <<"cases">>, <<"clients", "cases">>},
            at: {"lock", "read", "insert", "audit"},
            number: {0} \cup Numbers, holds: SUBSET Locks,
            inserted: [Tables -> {0} \cup Numbers]]
Idle == [todo |-> << >>, at |-> "lock", number |-> 0, holds |-> {},
         inserted |-> [t \in Tables |-> 0]]

TypeOK ==
    /\ given \in [Tables -> SUBSET Numbers]
    /\ opening \in [Callers -> Opening]
    /\ refused \in [Callers -> BOOLEAN]

Init ==
    /\ given = [t \in Tables |-> {}]
    /\ opening = [c \in Callers |-> Idle]
    /\ refused = [c \in Callers |-> FALSE]

Others(c) == Callers \ {c}
Free(c, lock) == \A d \in Others(c) : lock \notin opening[d].holds
Table(c) == opening[c].todo[1]
Is(c, at) == opening[c].todo # << >> /\ opening[c].at = at
Uncommitted(c, t) == {opening[d].inserted[t] : d \in Others(c)}

\* Bound: what is given and what is being given fits under MaxNumber.
Room(t) ==
    LET busy == {d \in Callers : \E i \in DOMAIN opening[d].todo : opening[d].todo[i] = t} IN
    Cardinality(given[t]) + Cardinality(busy \cup {d \in Callers : opening[d].inserted[t] # 0})
        < MaxNumber

\* The console's open action, POST /v1/clients, POST /v1/cases.
Begin(c, tables) ==
    /\ opening[c].todo = << >>
    /\ \A i \in DOMAIN tables : Room(tables[i])
    /\ opening' = [opening EXCEPT ![c].todo = tables]
    /\ UNCHANGED <<given, refused>>

\* The lock a transaction waits for next: that of the prefix, or the chain.
Wanted(c) == IF opening[c].at = "lock" THEN Table(c) ELSE "chain"

\* nextReference: pg_advisory_xact_lock.
\* Seeded fault: a reference is drawn without the lock on its prefix.
LockPrefix_Not(c) ==
    /\ Is(c, "lock")
    /\ opening' = [opening EXCEPT ![c].at = "read"]
    /\ UNCHANGED <<given, refused>>
LockPrefix(c) ==
    /\ Is(c, "lock") /\ Free(c, Wanted(c))
    /\ opening' = [opening EXCEPT ![c].at = "read", ![c].holds = @ \cup {Wanted(c)}]
    /\ UNCHANGED <<given, refused>>

\* nextReference: the highest number used, plus one.
Highest(numbers) == IF numbers = {} THEN 0 ELSE CHOOSE n \in numbers : \A m \in numbers : m <= n

ReadNumber(c) ==
    /\ Is(c, "read")
    /\ opening' = [opening EXCEPT ![c].at = "insert", ![c].number = Highest(given[Table(c)]) + 1]
    /\ UNCHANGED <<given, refused>>

Undone(c) == opening' = [opening EXCEPT ![c] = Idle]

\* createClient, openCase: the row, which the unique reference refuses if the
\* number is taken, after waiting for whoever is taking it.
Insert(c) ==
    /\ Is(c, "insert")
    /\ opening[c].number \notin Uncommitted(c, Table(c))
    /\ IF opening[c].number \in given[Table(c)]
       THEN Undone(c) /\ refused' = [refused EXCEPT ![c] = TRUE]
       ELSE /\ opening' = [opening EXCEPT ![c].at = "audit",
                                         ![c].inserted[Table(c)] = opening[c].number]
            /\ UNCHANGED refused
    /\ UNCHANGED given

\* openCase turns the case down before it draws a reference: no such client,
\* a remedy of another country, a type without stages.  A client inserted in
\* the same transaction goes with it.
RefuseCase(c) ==
    /\ Is(c, "lock") /\ Table(c) = "cases"
    /\ Undone(c)
    /\ UNCHANGED <<given, refused>>

\* recordAudit: the chain of the firm, to the end of the transaction.
Audit(c) ==
    /\ Is(c, "audit") /\ Free(c, "chain")
    /\ IF Len(opening[c].todo) = 1
       THEN /\ given' = [t \in Tables |-> given[t] \cup ({opening[c].inserted[t]} \ {0})]
            /\ Undone(c)
       ELSE /\ opening' = [opening EXCEPT ![c].todo = Tail(@), ![c].at = "lock", ![c].number = 0,
                                         ![c].holds = @ \cup {"chain"}]
            /\ UNCHANGED given
    /\ UNCHANGED refused

Waits(c) == opening[c].todo # << >> /\ opening[c].at \in {"lock", "audit"} /\ ~Free(c, Wanted(c))

\* Two hold what the other waits for.
Crossed(c) ==
    \E d \in Others(c) : Waits(d) /\ Wanted(c) \in opening[d].holds /\ Wanted(d) \in opening[c].holds

\* The database finds the circle and breaks off one of those in it; the caller
\* is told that nothing was changed.
\* Seeded fault: there is nobody who breaks the circle.
DeadlockBroken_Never(c) == FALSE /\ UNCHANGED ovars
DeadlockBroken(c) ==
    /\ Waits(c) /\ Crossed(c)
    /\ Undone(c)
    /\ UNCHANGED <<given, refused>>

\* What carries a transaction on.
Steps(c) == LockPrefix(c) \/ ReadNumber(c) \/ Insert(c) \/ Audit(c) \/ DeadlockBroken(c)

Next ==
    \E c \in Callers :
        \/ \E tables \in {<<"clients">>, <<"cases">>, <<"clients", "cases">>} : Begin(c, tables)
        \/ Steps(c) \/ RefuseCase(c)

Spec == Init /\ [][Next]_ovars

-----------------------------------------------------------------------------
(* Allocating references at once makes one caller wait, it never makes an  *)
(* insert collide with the unique constraint (open-case.ts:33-41).         *)
NeverCollides == \A c \in Callers : ~refused[c]

\* What the next step of a transaction waits for is to be had, or it is in a
\* circle that is broken off.
MayGo(c) ==
    \/ opening[c].at = "read"
    \/ opening[c].at = "insert" /\ opening[c].number \notin Uncommitted(c, Table(c))
    \/ opening[c].at \in {"lock", "audit"} /\ (Free(c, Wanted(c)) \/ Crossed(c))

(* The openings under way never all wait for each other: the console audits *)
(* the client before it asks for the prefix of the case, others the other  *)
(* way round, and what they run into is a circle of two, which is broken.  *)
UnderWay == {c \in Callers : opening[c].todo # << >>}
SomebodyMayGo == UnderWay # {} => \E c \in UnderWay : MayGo(c)
SomebodyProceeds == SomebodyMayGo /\ \A c \in UnderWay : MayGo(c) => ENABLED Steps(c)
=============================================================================
