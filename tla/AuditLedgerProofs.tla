-------------------------- MODULE AuditLedgerProofs --------------------------
(***************************************************************************)
(* Theorems about AuditLedger, for any tenants, rows, writers and bounds.  *)
(*                                                                         *)
(* That every ledger verifies is not inductive by itself: what a           *)
(* transaction is about to commit must be carried along.  ChainInv says    *)
(* that a transaction's rows continue the committed chain, and that only   *)
(* one transaction of a tenant has any.                                    *)
(***************************************************************************)
EXTENDS AuditLedger, TLAPS

RowsTyped(rows) == \A row \in rows : row.seq \in Nat

\* What a transaction with audit rows would leave behind is a chain.
Continues(w) ==
    tx[w].rows # {} =>
        /\ Chain(ledger[tx[w].tenant] \cup tx[w].rows, tx[w].head)
        /\ \A row \in tx[w].rows : row.seq > head[tx[w].tenant].seq

\* Only one transaction of a tenant has linked rows.
OneLinks ==
    \A w \in Writers : \A v \in Others(w) : tx[w].rows = {} \/ tx[v].rows = {}

ChainInv ==
    /\ TypeOK
    /\ \A w \in Writers : tx[w].pc = "idle" => tx[w].rows = {}
    /\ ChainIntact
    /\ OneLinks
    /\ \A w \in Writers : Continues(w)

-----------------------------------------------------------------------------
\* A chain with one more row, linked to its last, is a chain.
LEMMA LinkExtends ==
    ASSUME NEW rows, NEW last, NEW entry,
           last.seq \in Nat, RowsTyped(rows), Chain(rows, last)
    PROVE  LET row == Linked(last, entry)
           IN  Chain(rows \cup {row}, [seq |-> row.seq, hash |-> row.hash])
<1> DEFINE row == Linked(last, entry)
           new == [seq |-> row.seq, hash |-> row.hash]
           all == rows \cup {row}
<1>1. /\ row.seq = last.seq + 1 /\ row.entry = entry /\ row.prev = last.hash
      /\ row.hash = Hash(last.hash, <<last.seq + 1, entry>>)
  BY DEF Linked
<1>2. new.seq = last.seq + 1 /\ new.hash = row.hash /\ new.seq \in Nat /\ new.seq # 0
  BY <1>1
<1>3. \A r \in rows : r.seq \in 1 .. last.seq
  BY DEF Chain
<1>4. \A r \in all : r.seq \in 1 .. new.seq
  BY <1>1, <1>2, <1>3, SMT
<1>5. \A r \in all : r.hash = Hash(r.prev, Payload(r))
  BY <1>1 DEF Chain, Payload
<1>6. \A r \in all : r.seq = 1 => r.prev = Genesis
  <2>1. last.seq = 0 => last.hash = Genesis
    BY DEF Chain
  <2>2. row.seq = 1 => row.prev = Genesis
    BY <2>1, <1>1
  <2> QED BY <2>2 DEF Chain
<1>7. \A r \in all : r.seq = new.seq => r.hash = new.hash
  BY <1>1, <1>2, <1>3, SMT
<1>8. \A r \in all : r.seq > 1 => \E b \in all : b.seq = r.seq - 1 /\ b.hash = r.prev
  <2>1. row.seq > 1 => \E b \in rows : b.seq = row.seq - 1 /\ b.hash = row.prev
    <3> SUFFICES ASSUME row.seq > 1
                 PROVE  \E b \in rows : b.seq = row.seq - 1 /\ b.hash = row.prev
      OBVIOUS
    <3>1. last.seq \in 1 .. last.seq
      BY <1>1, SMT
    <3>2. PICK b \in rows : b.seq = last.seq
      BY <3>1 DEF Chain
    <3>3. b.hash = last.hash
      BY <3>2 DEF Chain
    <3> QED BY <3>2, <3>3, <1>1, SMT
  <2>2. \A r \in rows : r.seq > 1 => \E b \in rows : b.seq = r.seq - 1 /\ b.hash = r.prev
    BY DEF Chain
  <2> QED BY <2>1, <2>2
<1>9. \A i \in 1 .. new.seq : \E r \in all : r.seq = i
  <2>1. \A i \in 1 .. last.seq : \E r \in rows : r.seq = i
    BY DEF Chain
  <2>2. \A i \in 1 .. new.seq : i \in 1 .. last.seq \/ i = row.seq
    BY <1>1, <1>2, SMT
  <2> QED BY <2>1, <2>2
<1>10. \A r1, r2 \in all : r1.seq = r2.seq => r1 = r2
  <2>1. \A r \in rows : r.seq # row.seq
    BY <1>1, <1>3, SMT
  <2>2. \A r1, r2 \in rows : r1.seq = r2.seq => r1 = r2
    BY DEF Chain
  <2> QED BY <2>1, <2>2
<1> QED BY <1>2, <1>4, <1>5, <1>6, <1>7, <1>8, <1>9, <1>10 DEF Chain

-----------------------------------------------------------------------------
(* What each step does to the fields of the transaction that takes it. *)

LEMMA OtherTransactions ==
    ASSUME TypeOK, NEW w \in Writers, NEW t, tx' = [tx EXCEPT ![w] = t]
    PROVE  /\ DOMAIN tx' = Writers /\ tx'[w] = t
           /\ \A v \in Writers \ {w} : tx'[v] = tx[v]
BY DEF TypeOK

\* The contents of a row as its transaction sees them.
LEMMA SeenTyped ==
    ASSUME TypeOK, NEW w \in Writers, NEW x \in Resources
    PROVE  Seen(w, x) \in Values
BY LedgerAssumption DEF TypeOK, Seen

LEMMA HeadSeenTyped ==
    ASSUME TypeOK, NEW w \in Writers, tx[w].tenant \in Tenants
    PROVE  HeadSeen(w).seq \in Nat
BY DEF TypeOK, HeadSeen

\* A transaction that is over leaves nothing behind.
LEMMA IdleFields ==
    /\ Idle.pc = "idle" /\ Idle.rows = {} /\ Idle.tenant = Nil /\ Idle.resource = Nil
    /\ Idle.before = Nil /\ Idle.writes = NoWrites /\ Idle.head.seq = 0
    /\ DOMAIN Idle = {"pc", "tenant", "resource", "before", "writes", "rows", "head"}
BY DEF Idle

TypeOfTx(t) ==
    /\ DOMAIN t = DOMAIN Idle
    /\ t.pc \in {"idle", "open", "mutate", "audit"}
    /\ t.tenant \in Tenants \cup {Nil}
    /\ t.resource \in Resources \cup {Nil}
    /\ t.before \in Values \cup {Nil}
    /\ t.writes \in [Resources -> Values \cup {Nil}]
    /\ t.head.seq \in Nat
    /\ \A row \in t.rows : row.seq \in Nat /\ row.entry \in Entry
    /\ t.pc # "idle" => t.tenant \in Tenants
    /\ t.pc \in {"mutate", "audit"} => t.resource \in Resources /\ t.before \in Values
    /\ t.pc = "audit" => t.writes[t.resource] \in Values

LEMMA IdleTyped == TypeOfTx(Idle)
BY IdleFields DEF TypeOfTx, NoWrites

\* A step that changes one transaction and no table keeps the types.
LEMMA OneTransaction ==
    ASSUME TypeOK, NEW w \in Writers, NEW t, TypeOfTx(t),
           tx' = [tx EXCEPT ![w] = t], UNCHANGED <<value, ledger, head>>
    PROVE  TypeOK'
BY OtherTransactions DEF TypeOK, TypeOfTx

LEMMA BeginTyped ==
    ASSUME TypeOK, NEW w \in Writers, NEW t \in Tenants, Begin(w, t)
    PROVE  TypeOK'
<1> DEFINE b == [Idle EXCEPT !.pc = "open", !.tenant = t]
<1>1. TypeOfTx(b)
  BY IdleTyped DEF TypeOfTx, Idle
<1> QED BY <1>1, OneTransaction DEF Begin

LEMMA ReadBeforeTyped ==
    ASSUME TypeOK, NEW w \in Writers, NEW x \in Resources, ReadBefore(w, x)
    PROVE  TypeOK'
<1> DEFINE b == [tx[w] EXCEPT !.pc = "mutate", !.resource = x, !.before = Seen(w, x)]
<1>1. tx' = [tx EXCEPT ![w] = b] /\ UNCHANGED <<value, ledger, head>>
  BY DEF ReadBefore, TypeOK
<1>2. TypeOfTx(b)
  BY SeenTyped, IdleFields DEF TypeOfTx, TypeOK, ReadBefore
<1> QED BY <1>1, <1>2, OneTransaction

LEMMA MutateTyped ==
    ASSUME TypeOK, NEW w \in Writers, NEW v \in Values, Mutate(w, v)
    PROVE  TypeOK'
<1> DEFINE x == tx[w].resource
           b == [tx[w] EXCEPT !.pc = "audit", !.writes = [tx[w].writes EXCEPT ![x] = v]]
<1>1. tx' = [tx EXCEPT ![w] = b] /\ UNCHANGED <<value, ledger, head>>
  BY IdleFields DEF Mutate, TypeOK
<1>2. TypeOfTx(b)
  <2>1. x \in Resources
    BY DEF TypeOK, Mutate
  <2>2. [tx[w].writes EXCEPT ![x] = v] \in [Resources -> Values \cup {Nil}]
        /\ [tx[w].writes EXCEPT ![x] = v][x] = v
    BY <2>1 DEF TypeOK
  <2> QED BY <2>1, <2>2, IdleFields DEF TypeOfTx, TypeOK, Mutate
<1> QED BY <1>1, <1>2, OneTransaction

\* The row RecordAudit adds, and the transaction it leaves.
NewRow(w) ==
    Linked(HeadSeen(w), [resource |-> tx[w].resource, before |-> tx[w].before,
                         after |-> Seen(w, tx[w].resource)])

Recorded(w) ==
    [tx[w] EXCEPT !.pc = "open", !.rows = @ \cup {NewRow(w)},
                  !.head = [seq |-> NewRow(w).seq, hash |-> NewRow(w).hash],
                  !.resource = Nil, !.before = Nil]

LEMMA RecordAuditStep ==
    ASSUME TypeOK, NEW w \in Writers, RecordAudit(w)
    PROVE  /\ tx' = [tx EXCEPT ![w] = Recorded(w)] /\ UNCHANGED <<value, ledger, head>>
           /\ NewRow(w).seq \in Nat /\ NewRow(w).seq = HeadSeen(w).seq + 1
           /\ NewRow(w).entry \in Entry
           /\ Recorded(w).rows = tx[w].rows \cup {NewRow(w)}
           /\ Recorded(w).head = [seq |-> NewRow(w).seq, hash |-> NewRow(w).hash]
           /\ Recorded(w).tenant = tx[w].tenant
           /\ TypeOfTx(Recorded(w))
<1>1. tx' = [tx EXCEPT ![w] = Recorded(w)] /\ UNCHANGED <<value, ledger, head>>
  BY IdleFields DEF RecordAudit, Recorded, NewRow, TypeOK
<1>2. tx[w].tenant \in Tenants /\ tx[w].resource \in Resources /\ tx[w].before \in Values
  BY DEF RecordAudit, TypeOK
<1>3. NewRow(w).seq = HeadSeen(w).seq + 1 /\ NewRow(w).seq \in Nat
  BY <1>2, HeadSeenTyped DEF NewRow, Linked
<1>4. NewRow(w).entry \in Entry
  BY <1>2, SeenTyped DEF NewRow, Linked, Entry
<1>5. /\ Recorded(w).rows = tx[w].rows \cup {NewRow(w)}
      /\ Recorded(w).head = [seq |-> NewRow(w).seq, hash |-> NewRow(w).hash]
      /\ Recorded(w).tenant = tx[w].tenant /\ Recorded(w).pc = "open"
      /\ Recorded(w).resource = Nil /\ Recorded(w).before = Nil
      /\ Recorded(w).writes = tx[w].writes /\ DOMAIN Recorded(w) = DOMAIN Idle
  BY IdleFields DEF Recorded, TypeOK
<1>6. TypeOfTx(Recorded(w))
  BY <1>2, <1>3, <1>4, <1>5 DEF TypeOfTx, TypeOK
<1> QED BY <1>1, <1>3, <1>4, <1>5, <1>6

LEMMA CommitTyped ==
    ASSUME TypeOK, NEW w \in Writers, Commit(w)
    PROVE  TypeOK'
<1>1. tx[w].tenant \in Tenants
  BY DEF TypeOK, Commit
<1>2. value' \in [Resources -> Values]
  BY SeenTyped DEF Commit
<1>3. /\ DOMAIN ledger' = Tenants /\ DOMAIN head' = Tenants
      /\ \A t \in Tenants : head'[t].seq \in Nat
      /\ \A t \in Tenants : \A row \in ledger'[t] : row.seq \in Nat /\ row.entry \in Entry
  <2>1. HeadSeen(w).seq \in Nat
    BY <1>1, HeadSeenTyped
  <2> QED BY <1>1, <2>1 DEF Commit, TypeOK
<1>4. /\ DOMAIN tx' = Writers
      /\ \A v \in Writers : tx'[v] = tx[v] \/ tx'[v] = Idle
  BY OtherTransactions DEF Commit
<1>5. \A v \in Writers : TypeOfTx(tx[v])
  BY DEF TypeOK, TypeOfTx
<1>6. \A v \in Writers : TypeOfTx(tx'[v])
  BY <1>4, <1>5, IdleTyped
<1> QED BY <1>2, <1>3, <1>4, <1>6 DEF TypeOK, TypeOfTx

LEMMA StepTyped ==
    ASSUME TypeOK, [Next]_vars
    PROVE  TypeOK'
<1>1. ASSUME NEW w \in Writers, NEW t \in Tenants, Begin(w, t)
      PROVE  TypeOK'
  BY <1>1, BeginTyped
<1>2. ASSUME NEW w \in Writers, Proceed(w)
      PROVE  TypeOK'
  <2>1. CASE \E x \in Resources : ReadBefore(w, x)
    BY <2>1, ReadBeforeTyped
  <2>2. CASE \E v \in Values : Mutate(w, v)
    BY <2>2, MutateTyped
  <2>3. CASE RecordAudit(w)
    BY <2>3, RecordAuditStep, OneTransaction
  <2>4. CASE Commit(w)
    BY <2>4, CommitTyped
  <2> QED BY <1>2, <2>1, <2>2, <2>3, <2>4 DEF Proceed
<1>3. ASSUME NEW w \in Writers, RollBack(w)
      PROVE  TypeOK'
  BY <1>3, IdleTyped, OneTransaction DEF RollBack
<1>4. CASE UNCHANGED vars
  BY <1>4 DEF vars, TypeOK
<1> QED BY <1>1, <1>2, <1>3, <1>4 DEF Next

\* Every reachable state is well typed.
THEOREM TypeCorrect == Spec => []TypeOK
<1>1. Init => TypeOK
  <2> SUFFICES ASSUME Init
               PROVE  TypeOK
    OBVIOUS
  <2>1. \A w \in Writers : tx[w] = Idle
    BY DEF Init
  <2> QED BY <2>1, IdleTyped DEF Init, TypeOK, TypeOfTx
<1>2. TypeOK /\ [Next]_vars => TypeOK'
  BY StepTyped
<1> QED BY <1>1, <1>2, PTL DEF Spec

-----------------------------------------------------------------------------
(* The chain. *)

\* A step that leaves the tables and every transaction's rows, head and tenant
\* alone, but for one that has no rows before or after it.
LEMMA ChainUntouched ==
    ASSUME ChainInv, TypeOK', NEW w \in Writers, UNCHANGED <<ledger, head>>,
           DOMAIN tx' = Writers, \A v \in Writers \ {w} : tx'[v] = tx[v],
           \/ tx'[w].rows = {}
           \/ /\ tx'[w].rows = tx[w].rows /\ tx'[w].head = tx[w].head
              /\ tx'[w].tenant = tx[w].tenant /\ tx'[w].pc # "idle"
    PROVE  ChainInv'
<1>1. \A v \in Writers : tx'[v].pc = "idle" => tx'[v].rows = {}
  BY DEF ChainInv
<1>2. ChainIntact'
  BY DEF ChainInv, ChainIntact
<1>3. \A v \in Writers : Continues(v)'
  BY ZenonT(60) DEF ChainInv, Continues
<1>4. OneLinks'
  BY DEF ChainInv, OneLinks, Others
<1> QED BY <1>1, <1>2, <1>3, <1>4 DEF ChainInv

LEMMA RecordKeepsChain ==
    ASSUME ChainInv, TypeOK', NEW w \in Writers, RecordAudit(w)
    PROVE  ChainInv'
<1> DEFINE t == tx[w].tenant
           row == NewRow(w)
<1>1. /\ TypeOK /\ t \in Tenants /\ tx[w].pc = "audit" /\ ChainFree(w)
  BY DEF ChainInv, TypeOK, RecordAudit
<1>2. /\ UNCHANGED <<ledger, head>>
      /\ DOMAIN tx' = Writers
      /\ \A v \in Writers \ {w} : tx'[v] = tx[v]
      /\ tx'[w].rows = tx[w].rows \cup {row}
      /\ tx'[w].head = [seq |-> row.seq, hash |-> row.hash]
      /\ tx'[w].tenant = t
      /\ tx'[w].pc = "open"
  <2>1. tx' = [tx EXCEPT ![w] = Recorded(w)]
    BY <1>1, RecordAuditStep
  <2>2. DOMAIN tx' = Writers /\ tx'[w] = Recorded(w) /\ \A v \in Writers \ {w} : tx'[v] = tx[v]
    BY <1>1, <2>1, OtherTransactions
  <2>3. Recorded(w).pc = "open"
    BY <1>1, IdleFields DEF Recorded, TypeOK
  <2> QED BY <1>1, <2>2, <2>3, RecordAuditStep
<1>3. Chain(ledger[t] \cup tx[w].rows, HeadSeen(w))
  <2>1. CASE tx[w].rows = {}
    BY <2>1, <1>1 DEF ChainInv, ChainIntact, HeadSeen
  <2>2. CASE tx[w].rows # {}
    BY <2>2 DEF ChainInv, Continues, HeadSeen
  <2> QED BY <2>1, <2>2
<1>4. HeadSeen(w).seq \in Nat /\ RowsTyped(ledger[t] \cup tx[w].rows)
  BY <1>1, HeadSeenTyped DEF TypeOK, RowsTyped
<1>5. Chain((ledger[t] \cup tx[w].rows) \cup {row}, [seq |-> row.seq, hash |-> row.hash])
  BY <1>3, <1>4, LinkExtends DEF NewRow
<1>6. row.seq > head[t].seq
  <2>1. head[t].seq \in Nat /\ row.seq = HeadSeen(w).seq + 1
    BY <1>1, RecordAuditStep DEF TypeOK
  <2>2. CASE tx[w].rows = {}
    BY <2>1, <2>2 DEF HeadSeen
  <2>3. CASE tx[w].rows # {}
    <3>1. PICK r \in tx[w].rows : TRUE
      BY <2>3
    <3>2. r.seq > head[t].seq
      BY <2>3 DEF ChainInv, Continues
    <3>3. r.seq \in 1 .. HeadSeen(w).seq
      BY <1>3 DEF Chain
    <3> QED BY <2>1, <3>2, <3>3, <1>4, SMT
  <2> QED BY <2>2, <2>3
<1>7. Continues(w)'
  <2>1. ledger'[t] \cup tx'[w].rows = (ledger[t] \cup tx[w].rows) \cup {row}
    BY <1>2
  <2>2. \A r \in tx'[w].rows : r.seq > head'[t].seq
    BY <1>2, <1>6 DEF ChainInv, Continues
  <2> QED BY <1>2, <1>5, <2>1, <2>2 DEF Continues
<1>8. \A v \in Writers : Continues(v)'
  BY ZenonT(60), <1>2, <1>7 DEF ChainInv, Continues
<1>9. OneLinks'
  <2> SUFFICES ASSUME NEW u \in Writers, NEW v \in Writers \ {u},
                      tx'[v].tenant = tx'[u].tenant
               PROVE  tx'[u].rows = {} \/ tx'[v].rows = {}
    BY DEF OneLinks, Others
  <2>1. CASE u = w
    BY <2>1, <1>1, <1>2 DEF ChainFree, Others
  <2>2. CASE v = w
    BY <2>2, <1>1, <1>2 DEF ChainFree, Others
  <2>3. CASE u # w /\ v # w
    BY <2>3, <1>2 DEF ChainInv, OneLinks, Others
  <2> QED BY <2>1, <2>2, <2>3
<1>10. ChainIntact' /\ \A v \in Writers : tx'[v].pc = "idle" => tx'[v].rows = {}
  BY <1>2 DEF ChainInv, ChainIntact
<1> QED BY <1>8, <1>9, <1>10 DEF ChainInv

LEMMA CommitKeepsChain ==
    ASSUME ChainInv, TypeOK', NEW w \in Writers, Commit(w)
    PROVE  ChainInv'
<1> DEFINE t == tx[w].tenant
<1>1. TypeOK /\ t \in Tenants
  BY DEF ChainInv, TypeOK, Commit
<1>2. /\ DOMAIN tx' = Writers /\ tx'[w] = Idle
      /\ \A v \in Writers \ {w} : tx'[v] = tx[v]
      /\ \A s \in Tenants \ {t} : ledger'[s] = ledger[s] /\ head'[s] = head[s]
      /\ ledger'[t] = ledger[t] \cup tx[w].rows /\ head'[t] = HeadSeen(w)
  BY <1>1, OtherTransactions DEF Commit, TypeOK
<1>3. Chain(ledger'[t], head'[t])
  <2>1. CASE tx[w].rows = {}
    BY <2>1, <1>1, <1>2 DEF ChainInv, ChainIntact, HeadSeen
  <2>2. CASE tx[w].rows # {}
    BY <2>2, <1>2 DEF ChainInv, Continues, HeadSeen
  <2> QED BY <2>1, <2>2
<1>4. ChainIntact'
  BY <1>2, <1>3 DEF ChainInv, ChainIntact
<1>5. \A v \in Writers : Continues(v)'
  <2> SUFFICES ASSUME NEW v \in Writers, tx'[v].rows # {}
               PROVE  /\ Chain(ledger'[tx'[v].tenant] \cup tx'[v].rows, tx'[v].head)
                      /\ \A row \in tx'[v].rows : row.seq > head'[tx'[v].tenant].seq
    BY DEF Continues
  <2>1. v # w /\ tx'[v] = tx[v]
    BY <1>2, IdleFields
  <2>2. tx[v].tenant \in Tenants
    BY <1>1, <2>1 DEF TypeOK, ChainInv
  <2>3. CASE tx[v].tenant # t
    <3>1. /\ ledger'[tx'[v].tenant] = ledger[tx[v].tenant]
          /\ head'[tx'[v].tenant] = head[tx[v].tenant]
      BY <1>2, <2>1, <2>2, <2>3
    <3> QED BY <2>1, <3>1 DEF ChainInv, Continues
  <2>4. CASE tx[v].tenant = t
    <3>1. tx[w].rows = {}
      BY <2>1, <2>4 DEF ChainInv, OneLinks, Others
    <3>2. ledger'[t] = ledger[t] /\ head'[t] = head[t]
      BY <1>2, <3>1 DEF HeadSeen
    <3> QED BY <2>1, <2>4, <3>2 DEF ChainInv, Continues
  <2> QED BY <2>3, <2>4
<1>6. OneLinks'
  BY <1>2, IdleFields DEF ChainInv, OneLinks, Others
<1>7. \A v \in Writers : tx'[v].pc = "idle" => tx'[v].rows = {}
  BY <1>2, IdleFields DEF ChainInv
<1> QED BY <1>4, <1>5, <1>6, <1>7 DEF ChainInv

LEMMA StepKeepsChain ==
    ASSUME ChainInv, [Next]_vars
    PROVE  ChainInv'
<1>1. TypeOK /\ TypeOK'
  BY StepTyped DEF ChainInv
<1>2. ASSUME NEW w \in Writers, NEW t \in Tenants, Begin(w, t)
      PROVE  ChainInv'
  <2>1. DOMAIN tx' = Writers /\ \A v \in Writers \ {w} : tx'[v] = tx[v]
    BY <1>1, <1>2, OtherTransactions DEF Begin
  <2>2. tx'[w].rows = {}
    BY <1>1, <1>2, IdleFields DEF Begin, TypeOK, Idle
  <2> QED BY <1>1, <1>2, <2>1, <2>2, ChainUntouched DEF Begin
<1>3. ASSUME NEW w \in Writers, NEW x \in Resources, ReadBefore(w, x)
      PROVE  ChainInv'
  <2>1. DOMAIN tx' = Writers /\ \A v \in Writers \ {w} : tx'[v] = tx[v]
    BY <1>1, <1>3 DEF ReadBefore, TypeOK
  <2>2. /\ tx'[w].rows = tx[w].rows /\ tx'[w].head = tx[w].head
        /\ tx'[w].tenant = tx[w].tenant /\ tx'[w].pc = "mutate"
    BY <1>1, <1>3, IdleFields DEF ReadBefore, TypeOK
  <2> QED BY <1>1, <1>3, <2>1, <2>2, ChainUntouched DEF ReadBefore
<1>4. ASSUME NEW w \in Writers, NEW v \in Values, Mutate(w, v)
      PROVE  ChainInv'
  <2>1. DOMAIN tx' = Writers /\ \A u \in Writers \ {w} : tx'[u] = tx[u]
    BY <1>1, <1>4 DEF Mutate, TypeOK
  <2>2. /\ tx'[w].rows = tx[w].rows /\ tx'[w].head = tx[w].head
        /\ tx'[w].tenant = tx[w].tenant /\ tx'[w].pc = "audit"
    BY <1>1, <1>4, IdleFields DEF Mutate, TypeOK
  <2> QED BY <1>1, <1>4, <2>1, <2>2, ChainUntouched DEF Mutate
<1>5. ASSUME NEW w \in Writers, RollBack(w)
      PROVE  ChainInv'
  <2>1. /\ DOMAIN tx' = Writers /\ tx'[w] = Idle
        /\ \A v \in Writers \ {w} : tx'[v] = tx[v]
    BY <1>1, <1>5, OtherTransactions DEF RollBack
  <2> QED BY <1>1, <1>5, <2>1, IdleFields, ChainUntouched DEF RollBack
<1>6. ASSUME NEW w \in Writers, Proceed(w)
      PROVE  ChainInv'
  BY <1>1, <1>3, <1>4, <1>6, RecordKeepsChain, CommitKeepsChain DEF Proceed
<1>7. CASE UNCHANGED vars
  BY <1>1, <1>7 DEF vars, ChainInv, ChainIntact, Chain, OneLinks, Others, Continues
<1> QED BY <1>2, <1>5, <1>6, <1>7 DEF Next

\* A chain with a transaction's rows added holds no two rows in one place.
LEMMA ChainInvNoFork ==
    ASSUME ChainInv
    PROVE  ChainIntact /\ NoFork
<1> SUFFICES ASSUME NEW w \in Writers, NEW row \in tx[w].rows
             PROVE  /\ \A other \in ledger[tx[w].tenant] : other.seq # row.seq
                    /\ \A v \in Others(w) : \A other \in tx[v].rows : other.seq # row.seq
  BY DEF ChainInv, NoFork
<1>1. tx[w].tenant \in Tenants
  BY DEF ChainInv, TypeOK
<1>2. \A other \in ledger[tx[w].tenant] : other.seq # row.seq
  <2>1. row.seq > head[tx[w].tenant].seq /\ row.seq \in Nat /\ head[tx[w].tenant].seq \in Nat
    BY <1>1 DEF ChainInv, Continues, TypeOK
  <2>2. \A other \in ledger[tx[w].tenant] : other.seq \in 1 .. head[tx[w].tenant].seq
    BY <1>1 DEF ChainInv, ChainIntact, Chain
  <2> QED BY <2>1, <2>2, SMT
<1>3. \A v \in Others(w) : tx[v].rows = {}
  BY DEF ChainInv, OneLinks
<1> QED BY <1>2, <1>3

\* Every tenant's ledger verifies and no place in it is given twice, for any
\* tenants, writers, rows and interleaving of their transactions.
THEOREM ChainHolds == Spec => []ChainSound
<1>1. Init => ChainInv
  <2> SUFFICES ASSUME Init
               PROVE  ChainInv
    OBVIOUS
  <2>1. \A w \in Writers : tx[w] = Idle
    BY DEF Init
  <2>2. TypeOK
    BY <2>1, IdleTyped DEF Init, TypeOK, TypeOfTx
  <2>3. ChainIntact
    BY DEF Init, ChainIntact, Chain
  <2> QED BY <2>1, <2>2, <2>3, IdleFields DEF ChainInv, OneLinks, Continues, Others
<1>2. ChainInv /\ [Next]_vars => ChainInv'
  BY StepKeepsChain
<1>3. ChainInv => ChainSound
  BY ChainInvNoFork DEF ChainSound
<1> QED BY <1>1, <1>2, <1>3, PTL DEF Spec

-----------------------------------------------------------------------------
(***************************************************************************)
(* The changes.  What a transaction has changed and not yet recorded is    *)
(* one row at most, the one it is about to record; about every other, the  *)
(* last of its own audit rows says what it has written.                    *)
(***************************************************************************)
Unrecorded(w, x) == tx[w].pc = "audit" /\ tx[w].resource = x

Own(w, x) == {row \in tx[w].rows : row.entry.resource = x}

Accounts(w, x) ==
    /\ tx[w].writes[x] # Nil => Tenant[x] = tx[w].tenant
    /\ tx[w].writes[x] # Nil /\ ~Unrecorded(w, x) => Own(w, x) # {}
    /\ \A row \in Own(w, x) :
          /\ tx[w].writes[x] # Nil
          /\ ~Unrecorded(w, x) /\ (\A other \in Own(w, x) : other.seq <= row.seq)
                => row.entry.after = tx[w].writes[x]

ChangeInv ==
    /\ ChainInv
    /\ ChangesAudited
    /\ \A w \in Writers :
          tx[w].pc \in {"mutate", "audit"} => Tenant[tx[w].resource] = tx[w].tenant
    /\ \A w \in Writers, x \in Resources : Accounts(w, x)

\* A step that leaves the tables alone, and the transactions of others.
LEMMA AccountsOfOthers ==
    ASSUME ChangeInv, ChainInv', NEW w \in Writers, UNCHANGED <<value, ledger>>,
           \A v \in Writers \ {w} : tx'[v] = tx[v],
           tx'[w].pc \in {"mutate", "audit"} => Tenant[tx'[w].resource] = tx'[w].tenant,
           \A x \in Resources : Accounts(w, x)'
    PROVE  ChangeInv'
<1>1. ChangesAudited'
  BY DEF ChangeInv, ChangesAudited, About
<1>2. \A v \in Writers, x \in Resources : Accounts(v, x)'
  BY DEF ChangeInv, Accounts, Own, Unrecorded
<1>3. \A v \in Writers : tx'[v].pc \in {"mutate", "audit"} => Tenant[tx'[v].resource] = tx'[v].tenant
  BY DEF ChangeInv
<1> QED BY <1>1, <1>2, <1>3 DEF ChangeInv

\* A transaction without changes and rows has nothing to account for.
LEMMA NothingToAccount ==
    ASSUME NEW w \in Writers, NEW x \in Resources,
           tx'[w].writes = NoWrites, tx'[w].rows = {}
    PROVE  Accounts(w, x)'
BY DEF Accounts, Own, NoWrites

LEMMA RecordKeepsChanges ==
    ASSUME ChangeInv, ChainInv', NEW w \in Writers, RecordAudit(w)
    PROVE  ChangeInv'
<1> DEFINE row == NewRow(w)
           y == tx[w].resource
<1>1. /\ TypeOK /\ tx[w].tenant \in Tenants /\ tx[w].pc = "audit" /\ y \in Resources
      /\ tx[w].writes[y] \in Values
  BY DEF ChangeInv, ChainInv, TypeOK, RecordAudit
<1>2. /\ UNCHANGED <<value, ledger>>
      /\ \A v \in Writers \ {w} : tx'[v] = tx[v]
      /\ tx'[w] = Recorded(w)
  BY <1>1, RecordAuditStep, OtherTransactions
<1>3. /\ tx'[w].rows = tx[w].rows \cup {row} /\ tx'[w].tenant = tx[w].tenant
      /\ tx'[w].writes = tx[w].writes /\ tx'[w].pc = "open"
  BY <1>1, <1>2, IdleFields DEF Recorded, TypeOK, NewRow
<1>4. row.entry.resource = y /\ row.entry.after = tx[w].writes[y] /\ tx[w].writes[y] # Nil
  BY <1>1, LedgerAssumption DEF NewRow, Linked, Seen
<1>5. \A r \in tx[w].rows : r.seq < row.seq
  <2> SUFFICES ASSUME NEW r \in tx[w].rows
               PROVE  r.seq < row.seq
    OBVIOUS
  <2>1. HeadSeen(w) = tx[w].head /\ HeadSeen(w).seq \in Nat /\ row.seq = HeadSeen(w).seq + 1
    BY <1>1, RecordAuditStep, HeadSeenTyped DEF HeadSeen
  <2>2. r.seq \in 1 .. tx[w].head.seq
    BY DEF ChangeInv, ChainInv, Continues, Chain
  <2> QED BY <2>1, <2>2, SMT
<1>6. ASSUME NEW x \in Resources
      PROVE  Accounts(w, x)'
  <2>1. CASE x = y
    <3>1. Own(w, x)' = Own(w, x) \cup {row}
      BY <2>1, <1>3, <1>4 DEF Own
    <3>2. \A r \in Own(w, x) : ~(row.seq <= r.seq)
      <4>1. \A r \in tx[w].rows : r.seq \in Nat
        BY <1>1 DEF TypeOK
      <4>2. row.seq \in Nat
        BY <1>1, RecordAuditStep
      <4> QED BY <1>5, <4>1, <4>2, SMT DEF Own
    <3>3. Accounts(w, x)
      BY DEF ChangeInv
    <3> QED BY <2>1, <1>3, <1>4, <3>1, <3>2, <3>3 DEF Accounts, Unrecorded
  <2>2. CASE x # y
    <3>1. Own(w, x)' = Own(w, x)
      BY <2>2, <1>3, <1>4 DEF Own
    <3>2. ~Unrecorded(w, x) /\ ~Unrecorded(w, x)'
      BY <2>2, <1>3 DEF Unrecorded
    <3>3. Accounts(w, x)
      BY DEF ChangeInv
    <3> QED BY <1>3, <3>1, <3>2, <3>3 DEF Accounts
  <2> QED BY <2>1, <2>2
<1> QED BY <1>2, <1>3, <1>6, AccountsOfOthers

LEMMA CommitKeepsChanges ==
    ASSUME ChangeInv, ChainInv', NEW w \in Writers, Commit(w)
    PROVE  ChangeInv'
<1> DEFINE t == tx[w].tenant
<1>1. TypeOK /\ t \in Tenants /\ tx[w].pc = "open"
  BY DEF ChangeInv, ChainInv, TypeOK, Commit
<1>2. /\ tx'[w] = Idle
      /\ \A v \in Writers \ {w} : tx'[v] = tx[v]
      /\ \A s \in Tenants \ {t} : ledger'[s] = ledger[s]
      /\ ledger'[t] = ledger[t] \cup tx[w].rows
      /\ \A x \in Resources : value'[x] = Seen(w, x)
  BY <1>1, OtherTransactions DEF Commit, TypeOK
<1>3. ASSUME NEW x \in Resources, NEW row \in About(Tenant[x], x)',
             \A other \in About(Tenant[x], x)' : other.seq <= row.seq
      PROVE  row.entry.after = value'[x]
  <2>1. Accounts(w, x) /\ ~Unrecorded(w, x)
    BY <1>1 DEF ChangeInv, Unrecorded
  <2>2. Tenant[x] \in Tenants
    BY LedgerAssumption
  <2>3. CASE tx[w].writes[x] = Nil
    <3>1. Own(w, x) = {}
      BY <2>1, <2>3 DEF Accounts
    <3>2. About(Tenant[x], x)' = About(Tenant[x], x)
      BY <1>2, <2>2, <3>1 DEF About, Own
    <3>3. value'[x] = value[x]
      BY <1>2, <2>3 DEF Seen
    <3> QED BY <1>3, <3>2, <3>3 DEF ChangeInv, ChangesAudited
  <2>4. CASE tx[w].writes[x] # Nil
    <3>1. Tenant[x] = t /\ Own(w, x) # {} /\ value'[x] = tx[w].writes[x]
      BY <1>2, <2>1, <2>4 DEF Accounts, Seen
    <3>2. About(Tenant[x], x)' = About(t, x) \cup Own(w, x)
      BY <1>2, <3>1 DEF About, Own
    <3>3. row \in Own(w, x)
      <4>1. PICK own \in Own(w, x) : TRUE
        BY <3>1
      <4>2. own.seq <= row.seq
        BY <1>3, <3>2, <4>1
      <4>3. own.seq > head[t].seq /\ own.seq \in Nat /\ head[t].seq \in Nat
        BY <1>1, <4>1 DEF ChangeInv, ChainInv, Continues, Own, TypeOK
      <4>4. \A r \in About(t, x) : r.seq \in 1 .. head[t].seq
        BY <1>1 DEF ChangeInv, ChainInv, ChainIntact, Chain, About
      <4>5. row \notin About(t, x)
        BY <4>2, <4>3, <4>4, SMT
      <4> QED BY <1>3, <3>2, <4>5
    <3> QED BY <1>3, <2>1, <3>1, <3>2, <3>3 DEF Accounts
  <2> QED BY <2>3, <2>4
<1>4. ChangesAudited'
  BY <1>3 DEF ChangesAudited
<1>5. ASSUME NEW v \in Writers, NEW x \in Resources
      PROVE  Accounts(v, x)'
  BY <1>2, IdleFields, NothingToAccount DEF ChangeInv, Accounts, Own, Unrecorded
<1>6. \A v \in Writers : tx'[v].pc \in {"mutate", "audit"} => Tenant[tx'[v].resource] = tx'[v].tenant
  BY <1>2, IdleFields DEF ChangeInv
<1> QED BY <1>4, <1>5, <1>6 DEF ChangeInv

LEMMA StepKeepsChanges ==
    ASSUME ChangeInv, [Next]_vars
    PROVE  ChangeInv'
<1>1. TypeOK /\ ChainInv'
  BY StepKeepsChain DEF ChangeInv, ChainInv
<1>2. ASSUME NEW w \in Writers, NEW t \in Tenants, Begin(w, t)
      PROVE  ChangeInv'
  <2>1. \A v \in Writers \ {w} : tx'[v] = tx[v]
    BY <1>1, <1>2, OtherTransactions DEF Begin
  <2>2. tx'[w].rows = {} /\ tx'[w].writes = NoWrites /\ tx'[w].pc = "open"
    BY <1>1, <1>2, IdleFields DEF Begin, TypeOK, Idle
  <2>3. \A x \in Resources : Accounts(w, x)'
    BY <2>2, NothingToAccount
  <2> QED BY <1>1, <1>2, <2>1, <2>2, <2>3, AccountsOfOthers DEF Begin
<1>3. ASSUME NEW w \in Writers, NEW x \in Resources, ReadBefore(w, x)
      PROVE  ChangeInv'
  <2>1. \A v \in Writers \ {w} : tx'[v] = tx[v]
    BY <1>1, <1>3 DEF ReadBefore, TypeOK
  <2>2. /\ tx'[w].rows = tx[w].rows /\ tx'[w].writes = tx[w].writes
        /\ tx'[w].tenant = tx[w].tenant /\ tx'[w].pc = "mutate" /\ tx'[w].resource = x
        /\ tx[w].pc = "open" /\ Tenant[x] = tx[w].tenant
    BY <1>1, <1>3, IdleFields DEF ReadBefore, TypeOK
  <2>3. \A r \in Resources : Accounts(w, r)'
    BY <2>2 DEF ChangeInv, Accounts, Own, Unrecorded
  <2> QED BY <1>1, <1>3, <2>1, <2>2, <2>3, AccountsOfOthers DEF ReadBefore
<1>4. ASSUME NEW w \in Writers, NEW v \in Values, Mutate(w, v)
      PROVE  ChangeInv'
  <2> DEFINE y == tx[w].resource
  <2>1. \A u \in Writers \ {w} : tx'[u] = tx[u]
    BY <1>1, <1>4 DEF Mutate, TypeOK
  <2>2. /\ tx'[w].rows = tx[w].rows /\ tx'[w].writes = [tx[w].writes EXCEPT ![y] = v]
        /\ tx'[w].tenant = tx[w].tenant /\ tx'[w].pc = "audit" /\ tx'[w].resource = y
        /\ tx[w].pc = "mutate" /\ y \in Resources
    BY <1>1, <1>4, IdleFields DEF Mutate, TypeOK
  <2>3. /\ tx'[w].writes[y] = v /\ v # Nil
        /\ \A r \in Resources \ {y} : tx'[w].writes[r] = tx[w].writes[r]
    BY <1>1, <2>2, LedgerAssumption DEF TypeOK
  <2>4. Tenant[y] = tx[w].tenant
    BY <2>2 DEF ChangeInv
  <2>5. ASSUME NEW r \in Resources
        PROVE  Accounts(w, r)'
    <3>1. Accounts(w, r) /\ Own(w, r)' = Own(w, r)
      BY <2>2 DEF ChangeInv, Own
    <3>2. CASE r = y
      BY <2>2, <2>3, <2>4, <3>1, <3>2 DEF Accounts, Unrecorded
    <3>3. CASE r # y
      BY <2>2, <2>3, <3>1, <3>3 DEF Accounts, Unrecorded
    <3> QED BY <3>2, <3>3
  <2> QED BY <1>1, <1>4, <2>1, <2>2, <2>4, <2>5, AccountsOfOthers DEF Mutate
<1>5. ASSUME NEW w \in Writers, RollBack(w)
      PROVE  ChangeInv'
  <2>1. tx'[w] = Idle /\ \A v \in Writers \ {w} : tx'[v] = tx[v]
    BY <1>1, <1>5, OtherTransactions DEF RollBack
  <2>2. \A x \in Resources : Accounts(w, x)'
    BY <2>1, IdleFields, NothingToAccount
  <2> QED BY <1>1, <1>5, <2>1, <2>2, IdleFields, AccountsOfOthers DEF RollBack
<1>6. ASSUME NEW w \in Writers, Proceed(w)
      PROVE  ChangeInv'
  BY <1>1, <1>3, <1>4, <1>6, RecordKeepsChanges, CommitKeepsChanges DEF Proceed
<1>7. CASE UNCHANGED vars
  BY <1>1, <1>7 DEF vars, ChangeInv, ChangesAudited, About, Accounts, Own, Unrecorded
<1> QED BY <1>2, <1>5, <1>6, <1>7 DEF Next

LEMMA InitChanges ==
    ASSUME Init
    PROVE  ChangeInv
<1>1. \A w \in Writers : tx[w] = Idle
  BY DEF Init
<1>2. TypeOK
  BY <1>1, IdleTyped DEF Init, TypeOK, TypeOfTx
<1>3. ChainInv
  BY <1>1, <1>2, IdleFields
     DEF Init, ChainInv, ChainIntact, Chain, OneLinks, Continues, Others
<1>4. ChangesAudited
  BY LedgerAssumption DEF Init, ChangesAudited, About
<1>5. \A w \in Writers, x \in Resources : Accounts(w, x)
  BY <1>1, IdleFields DEF Accounts, Own, NoWrites
<1> QED BY <1>1, <1>3, <1>4, <1>5, IdleFields DEF ChangeInv

\* What the last audit row about a resource says is what the resource holds:
\* no committed change without its row, no row without its change.
THEOREM ChangesHold == Spec => []ChangesAudited
<1>1. Init => ChangeInv
  BY InitChanges
<1>2. ChangeInv /\ [Next]_vars => ChangeInv'
  BY StepKeepsChanges
<1>3. ChangeInv => ChangesAudited
  BY DEF ChangeInv
<1> QED BY <1>1, <1>2, <1>3, PTL DEF Spec
-----------------------------------------------------------------------------
(***************************************************************************)
(* The refinement.  A commit is the only step that shows in the mapped     *)
(* log, and it is a step of AuditedStore because of the two invariants:    *)
(* ChainInv numbers the new rows on from the head, ChangeInv makes the     *)
(* last of them say what the transaction wrote.                            *)
(***************************************************************************)
Shown(row) == [seq |-> row.seq, resource |-> row.entry.resource, after |-> row.entry.after]

LEMMA LogIs ==
    \A t \in Tenants : Log[t] = {Shown(row) : row \in ledger[t]}
BY DEF Log, Shown

LEMMA SameLog ==
    ASSUME ledger' = ledger
    PROVE  Log' = Log
BY DEF Log

\* A transaction that commits without audit rows has changed nothing.
LEMMA CommitShows ==
    ASSUME ChangeInv, ChangeInv', NEW w \in Writers, Commit(w)
    PROVE  Store!Record(tx[w].tenant)
<1> DEFINE t == tx[w].tenant
           rows == tx[w].rows
<1>1. TypeOK /\ t \in Tenants /\ tx[w].pc = "open"
  BY DEF ChangeInv, ChainInv, TypeOK, Commit
<1>2. /\ \A s \in Tenants \ {t} : ledger'[s] = ledger[s]
      /\ ledger'[t] = ledger[t] \cup rows
      /\ \A x \in Resources : value'[x] = Seen(w, x)
  BY <1>1 DEF Commit, TypeOK
<1>3. /\ head[t].seq \in Nat
      /\ \A row \in ledger[t] : row.seq \in 1 .. head[t].seq
      /\ \A row \in rows : row.seq \in Nat /\ row.seq > head[t].seq
  BY <1>1 DEF ChangeInv, ChainInv, ChainIntact, Chain, Continues, TypeOK
<1>4. Log'[t] = Log[t] \cup {Shown(row) : row \in rows}
  BY <1>1, <1>2 DEF Log, Shown
<1>5. \A s \in Tenants \ {t} : Log'[s] = Log[s]
  BY <1>2 DEF Log
<1>6. \A new \in Log[t] : new.seq \in Nat /\ new.seq <= head[t].seq
  <2>1. \A row \in ledger[t] : row.seq \in Nat /\ row.seq <= head[t].seq
    BY <1>3, SMT
  <2> QED BY <1>1, <2>1, LogIs DEF Shown
<1>7. Store!New(t) = {Shown(row) : row \in rows}
  <2>1. \A row \in rows : Shown(row).seq \in Nat /\ Shown(row).seq > head[t].seq
    BY <1>3 DEF Shown
  <2>2. \A row \in rows : Shown(row) \notin Log[t]
    BY <1>3, <1>6, <2>1, SMT
  <2> QED BY <1>4, <2>2 DEF Store!New
<1>8. Chain(ledger'[t], head'[t])
  BY <1>1 DEF ChangeInv, ChainInv, ChainIntact
<1>9. Store!NumberedOn(t)
  <2> SUFFICES ASSUME NEW row \in rows
               PROVE  /\ \A old \in Log[t] : old.seq < row.seq
                      /\ row.seq # 1 => \E other \in Log'[t] : other.seq = row.seq - 1
                      /\ \A other \in rows : other.seq = row.seq => Shown(other) = Shown(row)
    BY <1>7 DEF Store!NumberedOn, Shown
  <2>1. \A old \in Log[t] : old.seq < row.seq
    BY <1>3, <1>6, SMT
  <2>2. ASSUME row.seq # 1
        PROVE  \E other \in Log'[t] : other.seq = row.seq - 1
    <3>1. row \in ledger'[t] /\ row.seq > 1
      BY <1>2, <1>3, <2>2, SMT
    <3>2. PICK before \in ledger'[t] : before.seq = row.seq - 1
      BY <1>8, <3>1 DEF Chain
    <3>3. Shown(before) \in Log'[t] /\ Shown(before).seq = before.seq
      BY <1>1, <3>2 DEF Log, Shown
    <3> QED BY <3>2, <3>3
  <2>3. \A other \in rows : other.seq = row.seq => other = row
    BY <1>2, <1>8 DEF Chain
  <2> QED BY <2>1, <2>2, <2>3
<1>10. ASSUME NEW row \in rows
       PROVE  row.entry.resource \in Resources /\ Tenant[row.entry.resource] = t
  <2>1. row.entry.resource \in Resources
    BY <1>1 DEF TypeOK, Entry
  <2>2. Accounts(w, row.entry.resource)
    BY <2>1 DEF ChangeInv
  <2> QED BY <2>1, <2>2 DEF Accounts, Own
<1>11. \A new \in Store!New(t) : Tenant[new.resource] = t
  BY <1>7, <1>10 DEF Shown
<1>12. ASSUME NEW x \in Resources
       PROVE  \/ value'[x] = value[x] /\ Store!NewAbout(t, x) = {}
              \/ Store!Described(t, x) /\ Store!NewAbout(t, x) # {}
  <2>1. Store!NewAbout(t, x) = {Shown(row) : row \in Own(w, x)}
    BY <1>7 DEF Store!NewAbout, Shown, Own
  <2>2. Accounts(w, x) /\ ~Unrecorded(w, x)
    BY <1>1 DEF ChangeInv, Unrecorded
  <2>3. CASE tx[w].writes[x] = Nil
    <3>1. Own(w, x) = {} /\ value'[x] = value[x]
      BY <1>2, <2>2, <2>3 DEF Accounts, Seen
    <3> QED BY <2>1, <3>1
  <2>4. CASE tx[w].writes[x] # Nil
    <3>1. Own(w, x) # {} /\ value'[x] = tx[w].writes[x]
      BY <1>2, <2>2, <2>4 DEF Accounts, Seen
    <3>2. \A row \in Own(w, x) :
             (\A other \in Own(w, x) : other.seq <= row.seq) => row.entry.after = value'[x]
      BY <2>2, <3>1 DEF Accounts
    <3>3. Store!Described(t, x)
      <4> SUFFICES ASSUME NEW row \in Own(w, x),
                          \A other \in Store!NewAbout(t, x) : other.seq <= Shown(row).seq
                   PROVE  value'[x] = Shown(row).after
        BY <2>1 DEF Store!Described
      <4>1. ASSUME NEW other \in Own(w, x)
            PROVE  other.seq <= row.seq
        <5>1. Shown(other).seq <= Shown(row).seq
          BY <2>1
        <5> QED BY <5>1 DEF Shown
      <4> QED BY <3>2, <4>1 DEF Shown
    <3> QED BY <2>1, <3>1, <3>3
  <2> QED BY <2>3, <2>4
<1> QED BY <1>4, <1>5, <1>9, <1>11, <1>12 DEF Store!Record

LEMMA StepShows ==
    ASSUME ChangeInv, ChangeInv', [Next]_vars
    PROVE  [Store!Next]_<<value, Log>>
<1>1. ASSUME NEW w \in Writers, Commit(w)
      PROVE  Store!Next
  <2>1. tx[w].tenant \in Tenants
    BY <1>1 DEF ChangeInv, ChainInv, TypeOK, Commit
  <2> QED BY <1>1, <2>1, CommitShows DEF Store!Next
<1>2. ASSUME UNCHANGED <<value, ledger>>
      PROVE  UNCHANGED <<value, Log>>
  BY <1>2, SameLog
<1>3. ASSUME NEW w \in Writers, Next, ~Commit(w), ~ \E v \in Writers : Commit(v)
      PROVE  UNCHANGED <<value, ledger>>
  BY <1>3 DEF Next, Proceed, Begin, ReadBefore, Mutate, RecordAudit, RollBack
<1>4. CASE UNCHANGED vars
  BY <1>2, <1>4 DEF vars
<1>5. CASE Next
  BY <1>1, <1>2, <1>3, <1>5 DEF Next
<1> QED BY <1>4, <1>5

\* The ledger's transactions, with their locks, waits and rollbacks, implement
\* the store whose cells and log change together.
THEOREM LedgerImplements == Spec => Implements
<1>1. Init => ChangeInv /\ Store!Init
  <2> SUFFICES ASSUME Init
               PROVE  ChangeInv /\ Store!Init
    OBVIOUS
  <2>1. ChangeInv
    BY InitChanges
  <2>2. Log = [t \in Tenants |-> {}]
    BY DEF Init, Log
  <2> QED BY <2>1, <2>2 DEF Init, Store!Init
<1>2. ChangeInv /\ [Next]_vars => ChangeInv'
  BY StepKeepsChanges
<1>3. ChangeInv /\ ChangeInv' /\ [Next]_vars => [Store!Next]_<<value, Log>>
  BY StepShows
<1> QED BY <1>1, <1>2, <1>3, PTL DEF Spec, Implements, Store!Spec
=============================================================================
