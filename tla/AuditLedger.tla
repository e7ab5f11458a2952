----------------------------- MODULE AuditLedger -----------------------------
(***************************************************************************)
(* The audit ledger: recordAudit and auditedMutation of                    *)
(* packages/audit/src/record.ts, inside the transactions withTenant opens, *)
(* and the trigger app.audit_chain_link of migration 0005, which gives     *)
(* every row its place and its hash.                                       *)
(*                                                                         *)
(* Transactions are READ COMMITTED: a statement sees what others have      *)
(* committed when it starts and the transaction's own writes.  A row that  *)
(* was updated stays locked until the end of the transaction, and so does  *)
(* the tenant's chain, by the advisory lock the trigger takes.             *)
(*                                                                         *)
(* The handlers of the application that audit by hand (a SELECT, the       *)
(* UPDATE, recordAudit) have the same three steps as auditedMutation.      *)
(*                                                                         *)
(* SHA-256 is taken to have no collisions: a hash is the pair of what was  *)
(* hashed.  The ledger of platform operators (0021) is one more chain of   *)
(* the same construction and needs no variables of its own.                *)
(***************************************************************************)
EXTENDS Naturals, FiniteSets

CONSTANTS
    Tenants,
    Resources,    \* rows of tenants' tables that audited mutations change
    Tenant,       \* Resources -> Tenants, the tenant_id of a row
    Values,       \* what such a row may hold
    Writers,      \* connections, each in at most one transaction
    MaxRows,      \* bound: rows of one chain
    MaxChanges,   \* bound: audited mutations in one transaction
    Nil

ASSUME LedgerAssumption ==
    /\ Tenant \in [Resources -> Tenants]
    /\ Nil \notin Values \cup Tenants \cup Resources
    /\ MaxRows \in Nat /\ MaxChanges \in Nat

VARIABLES
    value,    \* the committed contents of the audited rows
    ledger,   \* per tenant, the committed audit_events
    head,     \* per tenant, app.audit_chain_heads; before the first row, what
              \* the trigger takes for it
    tx        \* per writer, the transaction under way and what it has written

vars == <<value, ledger, head, tx>>

Genesis == "0"
Hash(prev, payload) == <<prev, payload>>

Entry == [resource: Resources, before: Values, after: Values]

\* A row of audit_events: entry stands for the canonical payload without seq.
Payload(row) == <<row.seq, row.entry>>

NoWrites == [x \in Resources |-> Nil]

Idle == [pc |-> "idle", tenant |-> Nil, resource |-> Nil, before |-> Nil,
         writes |-> NoWrites, rows |-> {}, head |-> [seq |-> 0, hash |-> Genesis]]

\* Hashes are not typed: they grow with the chain.
TypeOK ==
    /\ value \in [Resources -> Values]
    /\ DOMAIN ledger = Tenants /\ DOMAIN head = Tenants /\ DOMAIN tx = Writers
    /\ \A t \in Tenants :
          /\ head[t].seq \in Nat
          /\ \A row \in ledger[t] : row.seq \in Nat /\ row.entry \in Entry
    /\ \A w \in Writers :
          /\ DOMAIN tx[w] = DOMAIN Idle
          /\ tx[w].pc \in {"idle", "open", "mutate", "audit"}
          /\ tx[w].tenant \in Tenants \cup {Nil}
          /\ tx[w].resource \in Resources \cup {Nil}
          /\ tx[w].before \in Values \cup {Nil}
          /\ tx[w].writes \in [Resources -> Values \cup {Nil}]
          /\ tx[w].head.seq \in Nat
          /\ \A row \in tx[w].rows : row.seq \in Nat /\ row.entry \in Entry
          /\ tx[w].pc # "idle" => tx[w].tenant \in Tenants
          /\ tx[w].pc \in {"mutate", "audit"} => tx[w].resource \in Resources
                                                /\ tx[w].before \in Values
          /\ tx[w].pc = "audit" => tx[w].writes[tx[w].resource] \in Values

Init ==
    /\ value \in [Resources -> Values]
    /\ ledger = [t \in Tenants |-> {}]
    /\ head = [t \in Tenants |-> [seq |-> 0, hash |-> Genesis]]
    /\ tx = [w \in Writers |-> Idle]

-----------------------------------------------------------------------------
(* What a transaction sees, and what keeps it waiting. *)

Seen(w, x) == IF tx[w].writes[x] # Nil THEN tx[w].writes[x] ELSE value[x]

HeadSeen(w) == IF tx[w].rows = {} THEN head[tx[w].tenant] ELSE tx[w].head

\* The row is not updated by another transaction under way.
RowFree(w, x) == \A v \in Writers \ {w} : tx[v].writes[x] = Nil

Others(w) == {v \in Writers \ {w} : tx[v].tenant = tx[w].tenant}

\* Seeded fault: no advisory lock.  FOR UPDATE locks the head row, and before
\* the tenant's first audit row there is none.
ChainFree_HeadRow(w) ==
    head[tx[w].tenant].seq = 0 \/ \A v \in Others(w) : tx[v].rows = {}

\* pg_advisory_xact_lock: no other transaction has linked a row to the chain.
ChainFree(w) == \A v \in Others(w) : tx[v].rows = {}

-----------------------------------------------------------------------------
(* withTenant, with any number of audited mutations in its callback. *)

Begin(w, t) ==
    /\ tx[w].pc = "idle"
    /\ tx' = [tx EXCEPT ![w] = [Idle EXCEPT !.pc = "open", !.tenant = t]]
    /\ UNCHANGED <<value, ledger, head>>

\* Seeded fault: the snapshot is taken for null, as it is for a row to be inserted.
ReadBefore_Missing(w, x) ==
    /\ tx[w].pc = "open"
    /\ Tenant[x] = tx[w].tenant
    /\ Cardinality(tx[w].rows) < MaxChanges /\ HeadSeen(w).seq < MaxRows
    /\ tx' = [tx EXCEPT ![w].pc = "mutate", ![w].resource = x]
    /\ UNCHANGED <<value, ledger, head>>

\* auditedMutation: readSnapshot, before.
ReadBefore(w, x) ==
    /\ tx[w].pc = "open"
    /\ Tenant[x] = tx[w].tenant
    /\ Cardinality(tx[w].rows) < MaxChanges /\ HeadSeen(w).seq < MaxRows
    /\ tx' = [tx EXCEPT ![w].pc = "mutate", ![w].resource = x, ![w].before = Seen(w, x)]
    /\ UNCHANGED <<value, ledger, head>>

\* auditedMutation: mutate.  The UPDATE waits for the row.
Mutate(w, v) ==
    LET x == tx[w].resource
    IN  /\ tx[w].pc = "mutate"
        /\ RowFree(w, x)
        /\ tx' = [tx EXCEPT ![w].pc = "audit", ![w].writes[x] = v]
        /\ UNCHANGED <<value, ledger, head>>

\* The row the trigger makes of an entry, linked to the head it has locked.
Linked(last, entry) ==
    [seq |-> last.seq + 1, entry |-> entry, prev |-> last.hash,
     hash |-> Hash(last.hash, <<last.seq + 1, entry>>)]

\* readSnapshot, after, and recordAudit with its trigger.
RecordAudit(w) ==
    LET t == tx[w]
        row == Linked(HeadSeen(w), [resource |-> t.resource, before |-> t.before,
                                    after |-> Seen(w, t.resource)])
    IN  /\ t.pc = "audit"
        /\ ChainFree(w)
        /\ tx' = [tx EXCEPT ![w].pc = "open", ![w].rows = @ \cup {row},
                            ![w].head = [seq |-> row.seq, hash |-> row.hash],
                            ![w].resource = Nil, ![w].before = Nil]
        /\ UNCHANGED <<value, ledger, head>>

\* COMMIT: rows, head and changes become the tables' at once.
Commit(w) ==
    LET t == tx[w]
    IN  /\ t.pc = "open"
        /\ value' = [x \in Resources |-> Seen(w, x)]
        /\ ledger' = [ledger EXCEPT ![t.tenant] = @ \cup t.rows]
        /\ head' = [head EXCEPT ![t.tenant] = HeadSeen(w)]
        /\ tx' = [tx EXCEPT ![w] = Idle]

\* Seeded faults: places are drawn from a sequence, which a rollback does not
\* give back; the audit rows are written in a transaction of their own.
RollBack_Sequence(w) ==
    /\ tx[w].pc # "idle"
    /\ head' = [head EXCEPT ![tx[w].tenant].seq = HeadSeen(w).seq]
    /\ tx' = [tx EXCEPT ![w] = Idle]
    /\ UNCHANGED <<value, ledger>>

RollBack_Rows(w) ==
    /\ tx[w].pc # "idle"
    /\ ledger' = [ledger EXCEPT ![tx[w].tenant] = @ \cup tx[w].rows]
    /\ head' = [head EXCEPT ![tx[w].tenant] = HeadSeen(w)]
    /\ tx' = [tx EXCEPT ![w] = Idle]
    /\ UNCHANGED value

\* The callback throws (a regulated action without a reason, say), a statement
\* times out, Postgres breaks a deadlock, the process dies: ROLLBACK.
RollBack(w) ==
    /\ tx[w].pc # "idle"
    /\ tx' = [tx EXCEPT ![w] = Idle]
    /\ UNCHANGED <<value, ledger, head>>

-----------------------------------------------------------------------------
Proceed(w) ==
    \/ \E x \in Resources : ReadBefore(w, x)
    \/ \E v \in Values : Mutate(w, v)
    \/ RecordAudit(w)
    \/ Commit(w)

Next ==
    \E w \in Writers :
        \/ \E t \in Tenants : Begin(w, t)
        \/ Proceed(w)
        \/ RollBack(w)

Spec == Init /\ [][Next]_vars

\* Seeded fault: neither a statement timeout nor a deadlock check.
Waits_Never(w) == FALSE

\* The statement waits for a lock that another transaction holds.
Waits(w) ==
    \/ tx[w].pc = "mutate" /\ ~RowFree(w, tx[w].resource)
    \/ tx[w].pc = "audit" /\ ~ChainFree(w)

(***************************************************************************)
(* A callback goes on until it is done; locks are granted in the order     *)
(* they are asked for, so nobody who is let through again and again waits  *)
(* for ever; a statement that waits and waits runs into statement_timeout. *)
(***************************************************************************)
Fairness ==
    \A w \in Writers : SF_vars(Proceed(w)) /\ WF_vars(Waits(w) /\ RollBack(w))

FairSpec == Spec /\ Fairness

-----------------------------------------------------------------------------
(* Properties. *)

\* Rows without a gap from the first to the head, each hashed from its contents
\* and the hash before it: what app.verify_audit_chain recomputes.
Chain(rows, last) ==
    /\ last.seq = 0 => last.hash = Genesis
    /\ \A row \in rows :
          /\ row.seq \in 1 .. last.seq
          /\ row.hash = Hash(row.prev, Payload(row))
          /\ row.seq = 1 => row.prev = Genesis
          /\ row.seq = last.seq => row.hash = last.hash
          /\ row.seq > 1 => \E before \in rows :
                               before.seq = row.seq - 1 /\ before.hash = row.prev
    /\ \A i \in 1 .. last.seq : \E row \in rows : row.seq = i
    /\ \A r1, r2 \in rows : r1.seq = r2.seq => r1 = r2

\* Every tenant's ledger verifies, whatever transactions overlap, roll back or
\* write several rows.
ChainIntact == \A t \in Tenants : Chain(ledger[t], head[t])

\* No two transactions, committed or under way, have linked a row to the same
\* predecessor: the UNIQUE constraint never fails an honest writer.
NoFork ==
    \A w \in Writers : \A row \in tx[w].rows :
        /\ \A other \in ledger[tx[w].tenant] : other.seq # row.seq
        /\ \A v \in Others(w) : \A other \in tx[v].rows : other.seq # row.seq

\* A ledger that verifies, and that no transaction under way is about to break.
ChainSound == ChainIntact /\ NoFork

About(t, x) == {row \in ledger[t] : row.entry.resource = x}

\* A committed change has its committed audit row and a change rolled back has
\* none: the last row about a resource says what it holds.
ChangesAudited ==
    \A x \in Resources : \A row \in About(Tenant[x], x) :
        (\A other \in About(Tenant[x], x) : other.seq <= row.seq) => row.entry.after = value[x]

\* The ledger replays: what a row says was there before is what the row before
\* it left.
BeforeIsTrue ==
    \A x \in Resources : \A r1, r2 \in About(Tenant[x], x) :
        r1.seq < r2.seq /\ (\A r3 \in About(Tenant[x], x) : r3.seq <= r1.seq \/ r3.seq >= r2.seq)
            => r2.entry.before = r1.entry.after

\* What is committed of the ledger, without hashes and what was there before.
Log == [t \in Tenants |->
          {[seq |-> row.seq, resource |-> row.entry.resource, after |-> row.entry.after] :
              row \in ledger[t]}]

Store == INSTANCE AuditedStore WITH log <- Log

\* The tables and the ledger change together and in one step, as if there were
\* no transactions that overlap, wait and roll back.
Implements == Store!Spec

\* Every transaction ends, also when two wait for each other: one for a row,
\* the other for the chain.
TransactionEnds == \A w \in Writers : tx[w].pc # "idle" ~> tx[w].pc = "idle"

=============================================================================
