---------------------------- MODULE CaseworkProofs ----------------------------
(***************************************************************************)
(* Work on case files, for any number of people at once and any bounds:    *)
(* saving and deciding implement VersionedFile, opening never draws a      *)
(* number twice, nobody waits in vain, and a migration that balances is    *)
(* complete.  Whoever holds a lock has seen what is committed; the         *)
(* invariants say what of it stays true until the lock is given back.      *)
(***************************************************************************)
EXTENDS AccessProofs

-----------------------------------------------------------------------------
(* CaseFile. *)

\* Exactly the last version stands.
LastStands(rows) == \A i \in DOMAIN rows : rows[i].live <=> i = Len(rows)

Alone(lock) == \A p, q \in Savers : lock \in tx[p].holds /\ lock \in tx[q].holds => p = q
Within(steps) == {q \in Savers : tx[q].pc \in steps}

FileTypes ==
    /\ household \in SUBSET Members
    /\ statements \in Seq(F!Rows(SUBSET Members)) /\ decisions \in Seq(F!Rows(F!Indices))
    /\ page \in [Savers -> F!Page] /\ tx \in [Savers -> F!Tx]
    /\ mishaps \in 0 .. MaxMishaps

\* What a transaction that has come so far holds, and what it has read and will write.
TxFits(p, row) ==
    /\ row.pc # "collided"
    /\ row.pc \in {"retire", "insert", "save-commit"} => "case" \in row.holds
    /\ row.pc \in {"supersede", "record", "advise-commit"} => "chain" \in row.holds
    /\ row.pc \in {"page", "advise", "audit", "supersede"} => row.retired = {}
    /\ row.pc \in {"insert", "save-commit"} => row.retired = F!Live(statements)
    /\ row.pc = "record" => row.retired \subseteq F!Live(decisions)
    /\ row.pc = "advise-commit" => row.retired = F!Live(decisions) /\ page[p].statement # 0

FileRoom ==
    /\ Len(statements) + Cardinality(Within(F!Saving)) <= MaxVersions
    /\ Len(decisions) + Cardinality(Within(F!Advising)) <= MaxVersions

FileInv ==
    /\ FileTypes /\ FileRoom
    /\ LastStands(statements) /\ LastStands(decisions)
    /\ Alone("case") /\ Alone("chain")
    /\ \A p \in Savers : TxFits(p, tx[p]) /\ page[p].statement <= Len(statements)

LEMMA SameFileCount ==
    ASSUME NEW T
    PROVE  F!Cardinality(T) = Cardinality(T) /\ O!Cardinality(T) = Cardinality(T) /\ M!Cardinality(T) = Cardinality(T)
  BY DEF F!Cardinality, O!Cardinality, M!Cardinality, Cardinality

LEMMA WithinFinite ==
    ASSUME NEW steps
    PROVE  /\ IsFiniteSet(Within(steps)) /\ Cardinality(Within(steps)) \in Nat
           /\ IsFiniteSet(Within(steps)') /\ Cardinality(Within(steps)') \in Nat
<1>1. Within(steps) \in SUBSET Savers /\ Within(steps)' \in SUBSET Savers
  BY DEF Within
<1>2. QED
  BY <1>1, FS_Subset, FS_CardinalityType, WorkAssumption

\* One transaction goes from one step to another.
LEMMA WithinMoves ==
    ASSUME tx \in [Savers -> F!Tx], NEW p \in Savers, NEW row, tx' = [tx EXCEPT ![p] = row], NEW steps
    PROVE  Cardinality(Within(steps)') =
               IF row.pc \in steps
               THEN IF tx[p].pc \in steps THEN Cardinality(Within(steps)) ELSE Cardinality(Within(steps)) + 1
               ELSE IF tx[p].pc \in steps THEN Cardinality(Within(steps)) - 1 ELSE Cardinality(Within(steps))
<1>0. p \in Within(steps) <=> tx[p].pc \in steps
  BY DEF Within
<1>1. CASE row.pc \in steps
  <2>1. Within(steps)' = Within(steps) \cup {p}
    BY <1>1 DEF Within
  <2>2. QED
    BY <1>0, <1>1, <2>1, WithinFinite, FS_AddElement
<1>2. CASE row.pc \notin steps
  <2>1. Within(steps)' = Within(steps) \ {p}
    BY <1>2 DEF Within
  <2>2. QED
    BY <1>0, <1>2, <2>1, WithinFinite, FS_RemoveElement
<1>3. QED
  BY <1>1, <1>2

LEMMA FileInit == F!Init => FileInv
<1> SUFFICES ASSUME F!Init PROVE FileInv
  OBVIOUS
<1>1. F!NoTx \in F!Tx /\ F!NoTx.pc = "page" /\ F!NoTx.holds = {} /\ F!NoTx.retired = {}
  BY DEF F!NoTx, F!Tx
<1>2. F!NoPage \in F!Page /\ F!NoPage.statement = 0
  BY DEF F!NoPage, F!Page, F!Households
<1>3. \A p \in Savers : tx[p] = F!NoTx /\ page[p] = F!NoPage
  BY DEF F!Init
<1>4. FileTypes
  BY <1>1, <1>2, WorkAssumption DEF F!Init, FileTypes
<1>5. Len(statements) = 0 /\ Len(decisions) = 0 /\ DOMAIN statements = {} /\ DOMAIN decisions = {}
  BY DEF F!Init
<1>6. FileRoom
  <2>1. Within(F!Saving) = {} /\ Within(F!Advising) = {}
    BY <1>1, <1>3 DEF Within, F!Saving, F!Advising
  <2>2. QED
    BY <1>5, <2>1, FS_EmptySet, WorkAssumption DEF FileRoom
<1>7. \A p \in Savers : TxFits(p, tx[p]) /\ page[p].statement <= Len(statements)
  BY <1>1, <1>2, <1>3, <1>5 DEF TxFits
<1>8. QED
  BY <1>1, <1>3, <1>4, <1>5, <1>6, <1>7 DEF FileInv, LastStands, Alone

\* A transaction takes a step and publishes nothing.
LEMMA TxStep ==
    ASSUME FileInv, NEW p \in Savers, NEW row \in F!Tx, tx' = [tx EXCEPT ![p] = row],
           UNCHANGED <<household, statements, decisions, page>>, mishaps' \in 0 .. MaxMishaps,
           TxFits(p, row),
           \A lock \in {"case", "chain"} :
               lock \in row.holds => \/ lock \in tx[p].holds
                                     \/ \A q \in Savers \ {p} : lock \notin tx[q].holds,
           row.pc \in F!Saving => \/ tx[p].pc \in F!Saving
                                  \/ Len(statements) + Cardinality(Within(F!Saving)) < MaxVersions,
           row.pc \in F!Advising => \/ tx[p].pc \in F!Advising
                                    \/ Len(decisions) + Cardinality(Within(F!Advising)) < MaxVersions
    PROVE  FileInv'
<1>1. tx'[p] = row /\ \A q \in Savers : q # p => tx'[q] = tx[q]
  BY DEF FileInv, FileTypes
<1>2. FileTypes'
  BY DEF FileInv, FileTypes
<1>3. FileRoom'
  <2>1. Len(statements) \in Nat /\ Len(decisions) \in Nat /\ MaxVersions \in Nat
    BY WorkAssumption DEF FileInv, FileTypes
  <2>2. /\ Cardinality(Within(F!Saving)) \in Nat /\ Cardinality(Within(F!Advising)) \in Nat
        /\ Cardinality(Within(F!Saving)') \in Nat /\ Cardinality(Within(F!Advising)') \in Nat
    BY WithinFinite
  <2>3. Len(statements) + Cardinality(Within(F!Saving)') <= MaxVersions
    <3>1. Cardinality(Within(F!Saving)') =
              IF row.pc \in F!Saving
              THEN IF tx[p].pc \in F!Saving THEN Cardinality(Within(F!Saving)) ELSE Cardinality(Within(F!Saving)) + 1
              ELSE IF tx[p].pc \in F!Saving THEN Cardinality(Within(F!Saving)) - 1 ELSE Cardinality(Within(F!Saving))
      BY WithinMoves DEF FileInv, FileTypes
    <3>2. QED
      BY <2>1, <2>2, <3>1 DEF FileInv, FileRoom
  <2>4. Len(decisions) + Cardinality(Within(F!Advising)') <= MaxVersions
    <3>1. Cardinality(Within(F!Advising)') =
              IF row.pc \in F!Advising
              THEN IF tx[p].pc \in F!Advising THEN Cardinality(Within(F!Advising)) ELSE Cardinality(Within(F!Advising)) + 1
              ELSE IF tx[p].pc \in F!Advising THEN Cardinality(Within(F!Advising)) - 1 ELSE Cardinality(Within(F!Advising))
      BY WithinMoves DEF FileInv, FileTypes
    <3>2. QED
      BY <2>1, <2>2, <3>1 DEF FileInv, FileRoom
  <2>5. F!Saving' = F!Saving /\ F!Advising' = F!Advising
    BY DEF F!Saving, F!Advising
  <2>6. QED
    BY <2>3, <2>4, <2>5 DEF FileRoom
<1>4. LastStands(statements)' /\ LastStands(decisions)'
  BY DEF FileInv, LastStands
<1>5. ASSUME NEW lock \in {"case", "chain"} PROVE Alone(lock)'
  <2> SUFFICES ASSUME NEW q \in Savers, NEW r \in Savers, lock \in tx'[q].holds, lock \in tx'[r].holds
               PROVE  q = r
    BY DEF Alone
  <2>1. \A x, y \in Savers : lock \in tx[x].holds /\ lock \in tx[y].holds => x = y
    BY <1>5 DEF FileInv, Alone
  <2>2. QED
    BY <1>1, <2>1
<1>6. \A q \in Savers : TxFits(q, tx[q])' /\ page'[q].statement <= Len(statements')
  BY <1>1 DEF FileInv, TxFits, F!Live
<1>7. QED
  BY <1>2, <1>3, <1>4, <1>5, <1>6 DEF FileInv

\* A publication is what VersionedFile says it is.
LEMMA PublishedIsReplaced ==
    ASSUME NEW C, NEW rows \in Seq(F!Rows(C)), LastStands(rows), NEW c \in C, Len(rows) < MaxVersions,
           NEW made, made = F!Published(rows, F!Live(rows), c)
    PROVE  /\ made \in Seq(F!Rows(C)) /\ Len(made) = Len(rows) + 1 /\ LastStands(made)
           /\ made = F!File!Replaced(rows, c)
<1>0. Len(rows) \in Nat
  OBVIOUS
<1>1. PICK n \in Nat, k \in Nat : k = Len(rows) /\ n = k + 1
  BY <1>0
<1> DEFINE Retired(row) == [row EXCEPT !.live = FALSE, !.by = n]
           last == [live |-> TRUE, by |-> 0, says |-> c]
           older == [i \in DOMAIN rows |-> IF i \in F!Live(rows) THEN Retired(rows[i]) ELSE rows[i]]
<1>2. n \in F!Indices
  BY <1>1, WorkAssumption DEF F!Indices
<1>3. /\ last \in F!Rows(C) /\ last.live = TRUE
      /\ \A row \in F!Rows(C) : Retired(row) \in F!Rows(C) /\ Retired(row).live = FALSE
  BY <1>2 DEF F!Rows
<1>4. DOMAIN rows = 1 .. k
  BY <1>1
<1>5. \A i \in 1 .. k : rows[i] \in F!Rows(C)
  BY <1>1
<1>6. \A i \in 1 .. k : rows[i].live <=> i = k
  BY <1>1, <1>4 DEF LastStands
<1>7. \A i \in 1 .. k : i \in F!Live(rows) <=> i = k
  BY <1>4, <1>6 DEF F!Live
<1>8. older = [i \in 1 .. k |-> IF i = k THEN Retired(rows[i]) ELSE rows[i]]
  BY <1>4, <1>7
<1>9. older \in [1 .. k -> F!Rows(C)]
  <2> HIDE DEF Retired, older
  <2>1. \A i \in 1 .. k : Retired(rows[i]) \in F!Rows(C)
    BY <1>3, <1>5
  <2>2. QED
    BY <1>5, <1>8, <2>1
<1>10. older \in Seq(F!Rows(C)) /\ Len(older) = k
  <2> HIDE DEF Retired, older
  <2>1. QED
    BY <1>1, <1>9
<1>11. made = Append(older, last)
  BY <1>1 DEF F!Published
<1>12. made \in Seq(F!Rows(C)) /\ Len(made) = n /\ DOMAIN made = 1 .. n
  <2>1. PICK o \in Seq(F!Rows(C)) : o = older
    BY <1>10
  <2>2. PICK l \in F!Rows(C) : l = last
    BY <1>3
  <2>3. made = Append(o, l) /\ Len(o) = k
    BY <1>10, <1>11, <2>1, <2>2
  <2>4. QED
    BY <1>1, <2>3
<1>13. made[n] = last /\ \A i \in 1 .. k : made[i] = older[i]
  <2>1. PICK o \in Seq(F!Rows(C)) : o = older
    BY <1>10
  <2>2. PICK l \in F!Rows(C) : l = last
    BY <1>3
  <2>3. made = Append(o, l) /\ Len(o) = k
    BY <1>10, <1>11, <2>1, <2>2
  <2>4. made[n] = l /\ \A i \in 1 .. k : made[i] = o[i]
    BY <1>1, <2>3
  <2>5. QED
    BY <2>1, <2>2, <2>4
<1>14. \A i \in 1 .. n : i = n \/ i \in 1 .. k
  BY <1>1
<1>15. n \notin 1 .. k
  BY <1>1
<1>16. \A i \in 1 .. k : made[i] = IF i = k THEN Retired(rows[i]) ELSE rows[i]
  BY <1>8, <1>13
<1>17. LastStands(made)
  <2>1. \A i \in 1 .. k : ~made[i].live
    <3> SUFFICES ASSUME NEW i \in 1 .. k PROVE ~made[i].live
      OBVIOUS
    <3>1. PICK row \in F!Rows(C) : row = rows[i]
      BY <1>5
    <3>2. CASE i = k
      <4>1. made[i] = Retired(row)
        BY <1>16, <3>1, <3>2
      <4>2. QED
        BY <1>3, <4>1
    <3>3. CASE i # k
      BY <1>6, <1>16, <3>3
    <3>4. QED
      BY <3>2, <3>3
  <2>2. QED
    BY <1>3, <1>12, <1>13, <1>14, <1>15, <2>1 DEF LastStands
<1>18. made = F!File!Replaced(rows, c)
  <2> DEFINE step == F!File!Replaced(rows, c)
  <2>1. step = [i \in 1 .. n |-> IF i = n THEN last
                                 ELSE IF i = k THEN [live |-> FALSE, by |-> i + 1, says |-> rows[i].says]
                                 ELSE rows[i]]
    BY <1>1 DEF F!File!Replaced
  <2>2. \A row \in F!Rows(C) : Retired(row) = [live |-> FALSE, by |-> n, says |-> row.says]
    <3> SUFFICES ASSUME NEW row \in F!Rows(C) PROVE Retired(row) = [live |-> FALSE, by |-> n, says |-> row.says]
      OBVIOUS
    <3>1. \A x, y \in F!Rows(C) : x.live = y.live /\ x.by = y.by /\ x.says = y.says => x = y
      BY DEF F!Rows
    <3>2. /\ Retired(row) \in F!Rows(C) /\ [live |-> FALSE, by |-> n, says |-> row.says] \in F!Rows(C)
          /\ Retired(row).live = FALSE /\ Retired(row).by = n /\ Retired(row).says = row.says
      BY <1>2 DEF F!Rows
    <3>3. QED
      BY <3>1, <3>2
  <2> HIDE DEF last
  <2>3. \A i \in 1 .. n : made[i] = step[i]
    <3> SUFFICES ASSUME NEW i \in 1 .. n PROVE made[i] = step[i]
      OBVIOUS
    <3>1. CASE i = n
      BY <1>13, <2>1, <3>1
    <3>2. CASE i # n /\ i # k
      BY <1>14, <1>16, <2>1, <3>2
    <3>3. CASE i # n /\ i = k
      <4>1. i \in 1 .. k /\ i + 1 = n
        BY <1>1, <1>14, <3>3
      <4>2. made[i] = Retired(rows[i]) /\ step[i] = [live |-> FALSE, by |-> i + 1, says |-> rows[i].says]
        BY <1>16, <2>1, <3>3, <4>1
      <4>3. QED
        BY <1>5, <2>2, <4>1, <4>2
    <3>4. QED
      BY <3>1, <3>2, <3>3
  <2>4. step = [i \in 1 .. n |-> step[i]]
    BY <2>1
  <2>5. made = [i \in 1 .. n |-> made[i]]
    BY <1>12
  <2>6. QED
    BY <2>3, <2>4, <2>5
<1>19. Len(made) = Len(rows) + 1
  BY <1>1, <1>12
<1>20. QED
  BY <1>12, <1>17, <1>18, <1>19

Pcs == {"page", "save", "retire", "insert", "collided", "save-commit",
        "advise", "audit", "supersede", "record", "advise-commit"}

LEMMA TxFields ==
    ASSUME NEW row \in F!Tx, NEW x \in Pcs, NEW h \in SUBSET {"case", "share", "chain"}, NEW r \in SUBSET F!Indices
    PROVE  /\ row.pc \in Pcs /\ row.holds \in SUBSET {"case", "share", "chain"} /\ row.retired \in SUBSET F!Indices
           /\ LET new == [pc |-> x, holds |-> h, retired |-> r] IN
              new \in F!Tx /\ new.pc = x /\ new.holds = h /\ new.retired = r
           /\ [row EXCEPT !.pc = x] = [pc |-> x, holds |-> row.holds, retired |-> row.retired]
           /\ [row EXCEPT !.pc = x, !.holds = h] = [pc |-> x, holds |-> h, retired |-> row.retired]
<1>1. F!Tx = [pc: Pcs, holds: SUBSET {"case", "share", "chain"}, retired: SUBSET F!Indices]
  BY DEF F!Tx, Pcs
<1>2. \A a, b \in F!Tx : a.pc = b.pc /\ a.holds = b.holds /\ a.retired = b.retired => a = b
  BY <1>1
<1>3. row.pc \in Pcs /\ row.holds \in SUBSET {"case", "share", "chain"} /\ row.retired \in SUBSET F!Indices
  BY <1>1
<1>4. LET new == [pc |-> x, holds |-> h, retired |-> r] IN
      new \in F!Tx /\ new.pc = x /\ new.holds = h /\ new.retired = r
  BY <1>1
<1>5. [row EXCEPT !.pc = x] = [pc |-> x, holds |-> row.holds, retired |-> row.retired]
  BY <1>1
<1>6. [row EXCEPT !.pc = x, !.holds = h] = [pc |-> x, holds |-> h, retired |-> row.retired]
  <2> DEFINE new == [row EXCEPT !.pc = x, !.holds = h]
             fields == [pc |-> x, holds |-> h, retired |-> row.retired]
  <2>1. new \in F!Tx /\ new.pc = x /\ new.holds = h /\ new.retired = row.retired
    BY <1>1
  <2>2. fields \in F!Tx /\ fields.pc = x /\ fields.holds = h /\ fields.retired = row.retired
    BY <1>1
  <2> HIDE DEF new, fields
  <2>3. new = fields
    BY <1>2, <2>1, <2>2
  <2>4. QED
    BY <2>3 DEF new, fields
<1>7. QED
  BY <1>3, <1>4, <1>5, <1>6

LEMMA TxRetires ==
    ASSUME NEW row \in F!Tx, NEW x \in Pcs, NEW r \in SUBSET F!Indices
    PROVE  [row EXCEPT !.pc = x, !.retired = r] = [pc |-> x, holds |-> row.holds, retired |-> r]
<1>1. F!Tx = [pc: Pcs, holds: SUBSET {"case", "share", "chain"}, retired: SUBSET F!Indices]
  BY DEF F!Tx, Pcs
<1>2. \A a, b \in F!Tx : a.pc = b.pc /\ a.holds = b.holds /\ a.retired = b.retired => a = b
  BY <1>1
<1>3. [row EXCEPT !.pc = x, !.retired = r] = [pc |-> x, holds |-> row.holds, retired |-> r]
  <2> DEFINE new == [row EXCEPT !.pc = x, !.retired = r]
             fields == [pc |-> x, holds |-> row.holds, retired |-> r]
  <2>1. new \in F!Tx /\ new.pc = x /\ new.holds = row.holds /\ new.retired = r
    BY <1>1
  <2>2. fields \in F!Tx /\ fields.pc = x /\ fields.holds = row.holds /\ fields.retired = r
    BY <1>1
  <2> HIDE DEF new, fields
  <2>3. new = fields
    BY <1>2, <2>1, <2>2
  <2>4. QED
    BY <2>3 DEF new, fields
<1>4. QED
  BY <1>3

\* A step of a transaction, field by field.
Became(p, x, h, r) == tx' = [tx EXCEPT ![p] = [pc |-> x, holds |-> h, retired |-> r]]

LEMMA Steps ==
    ASSUME tx \in [Savers -> F!Tx], NEW p \in Savers, NEW x \in Pcs,
           NEW h \in SUBSET {"case", "share", "chain"}, NEW r \in SUBSET F!Indices
    PROVE  /\ F!Goes(p, x) => Became(p, x, tx[p].holds, tx[p].retired)
           /\ tx' = [tx EXCEPT ![p].pc = x, ![p].holds = h] => Became(p, x, h, tx[p].retired)
           /\ tx' = [tx EXCEPT ![p].pc = x, ![p].holds = @ \cup {"chain"}]
                  => Became(p, x, tx[p].holds \cup {"chain"}, tx[p].retired)
           /\ tx' = [tx EXCEPT ![p].pc = x, ![p].retired = r] => Became(p, x, tx[p].holds, r)
           /\ F!Ends(p) => Became(p, "page", {}, {})
<1>1. tx[p] \in F!Tx
  OBVIOUS
<1>2. F!Goes(p, x) => tx' = [tx EXCEPT ![p] = [tx[p] EXCEPT !.pc = x]]
  BY DEF F!Goes
<1>3. tx' = [tx EXCEPT ![p].pc = x, ![p].holds = h] => tx' = [tx EXCEPT ![p] = [tx[p] EXCEPT !.pc = x, !.holds = h]]
  BY <1>1
<1>4. tx' = [tx EXCEPT ![p].pc = x, ![p].retired = r] => tx' = [tx EXCEPT ![p] = [tx[p] EXCEPT !.pc = x, !.retired = r]]
  BY <1>1
<1>5. tx' = [tx EXCEPT ![p].pc = x, ![p].holds = @ \cup {"chain"}]
          => tx' = [tx EXCEPT ![p] = [tx[p] EXCEPT !.pc = x, !.holds = tx[p].holds \cup {"chain"}]]
  BY <1>1
<1>6. tx[p].holds \cup {"chain"} \in SUBSET {"case", "share", "chain"}
  BY <1>1, TxFields
<1>7. /\ [tx[p] EXCEPT !.pc = x] = [pc |-> x, holds |-> tx[p].holds, retired |-> tx[p].retired]
      /\ [tx[p] EXCEPT !.pc = x, !.holds = h] = [pc |-> x, holds |-> h, retired |-> tx[p].retired]
      /\ [tx[p] EXCEPT !.pc = x, !.retired = r] = [pc |-> x, holds |-> tx[p].holds, retired |-> r]
      /\ [tx[p] EXCEPT !.pc = x, !.holds = tx[p].holds \cup {"chain"}]
             = [pc |-> x, holds |-> tx[p].holds \cup {"chain"}, retired |-> tx[p].retired]
  <2>1. PICK row \in F!Tx : row = tx[p]
    BY <1>1
  <2>2. PICK g \in SUBSET {"case", "share", "chain"} : g = row.holds \cup {"chain"}
    BY <1>6, <2>1
  <2>3. [row EXCEPT !.pc = x] = [pc |-> x, holds |-> row.holds, retired |-> row.retired]
    BY TxFields
  <2>4. [row EXCEPT !.pc = x, !.holds = h] = [pc |-> x, holds |-> h, retired |-> row.retired]
    BY TxFields
  <2>5. [row EXCEPT !.pc = x, !.retired = r] = [pc |-> x, holds |-> row.holds, retired |-> r]
    BY TxRetires
  <2>6. [row EXCEPT !.pc = x, !.holds = g] = [pc |-> x, holds |-> g, retired |-> row.retired]
    BY TxFields
  <2>7. QED
    BY <2>1, <2>2, <2>3, <2>4, <2>5, <2>6
<1>8. F!Goes(p, x) => Became(p, x, tx[p].holds, tx[p].retired)
  BY <1>2, <1>7 DEF Became
<1>9. F!Ends(p) => Became(p, "page", {}, {})
  BY DEF Became, F!Ends, F!NoTx
<1>10. QED
  BY <1>3, <1>4, <1>5, <1>7, <1>8, <1>9 DEF Became

LEMMA BecameKeeps ==
    ASSUME FileInv, NEW p \in Savers, NEW x \in Pcs,
           NEW h \in SUBSET {"case", "share", "chain"}, NEW r \in SUBSET F!Indices, Became(p, x, h, r),
           UNCHANGED <<household, statements, decisions, page>>, mishaps' \in 0 .. MaxMishaps,
           TxFits(p, [pc |-> x, holds |-> h, retired |-> r]),
           \A lock \in {"case", "chain"} :
               lock \in h => \/ lock \in tx[p].holds
                             \/ \A q \in Savers \ {p} : lock \notin tx[q].holds,
           x \in F!Saving => \/ tx[p].pc \in F!Saving
                             \/ Len(statements) + Cardinality(Within(F!Saving)) < MaxVersions,
           x \in F!Advising => \/ tx[p].pc \in F!Advising
                               \/ Len(decisions) + Cardinality(Within(F!Advising)) < MaxVersions
    PROVE  FileInv'
<1>1. PICK row \in F!Tx : row = [pc |-> x, holds |-> h, retired |-> r]
  BY DEF F!Tx, Pcs
<1>2. row.pc = x /\ row.holds = h /\ row.retired = r
  BY <1>1
<1>3. tx' = [tx EXCEPT ![p] = row] /\ TxFits(p, row)
  BY <1>1 DEF Became
<1>4. QED
  BY <1>2, <1>3, TxStep

LEMMA EndKeeps ==
    ASSUME FileInv, NEW p \in Savers, F!Ends(p),
           UNCHANGED <<household, statements, decisions, page>>, mishaps' \in 0 .. MaxMishaps
    PROVE  FileInv'
<1>1. F!NoTx \in F!Tx /\ F!NoTx.pc = "page" /\ F!NoTx.holds = {} /\ F!NoTx.retired = {}
  BY DEF F!NoTx, F!Tx
<1>2. TxFits(p, F!NoTx)
  BY <1>1 DEF TxFits
<1>3. "page" \notin F!Saving /\ "page" \notin F!Advising
  BY DEF F!Saving, F!Advising
<1>4. QED
  BY <1>1, <1>2, <1>3, TxStep DEF F!Ends

LEMMA FileLengths ==
    ASSUME FileInv
    PROVE  /\ Len(statements) \in Nat /\ Len(statements) <= MaxVersions /\ F!Live(statements) \in SUBSET F!Indices
           /\ Len(decisions) \in Nat /\ Len(decisions) <= MaxVersions /\ F!Live(decisions) \in SUBSET F!Indices
<1>1. statements \in Seq(F!Rows(SUBSET Members)) /\ decisions \in Seq(F!Rows(F!Indices))
  BY DEF FileInv, FileTypes
<1>2. Len(statements) \in Nat /\ Len(decisions) \in Nat
  BY <1>1
<1>3. Len(statements) <= MaxVersions /\ Len(decisions) <= MaxVersions
  BY <1>2, WithinFinite, WorkAssumption DEF FileInv, FileRoom
<1>4. DOMAIN statements = 1 .. Len(statements) /\ DOMAIN decisions = 1 .. Len(decisions)
  BY <1>1
<1>5. 1 .. Len(statements) \subseteq F!Indices /\ 1 .. Len(decisions) \subseteq F!Indices
  BY <1>2, <1>3, WorkAssumption DEF F!Indices
<1>6. F!Live(statements) \in SUBSET F!Indices /\ F!Live(decisions) \in SUBSET F!Indices
  BY <1>4, <1>5 DEF F!Live
<1>7. QED
  BY <1>2, <1>3, <1>6

\* The requests that publish nothing.
LEMMA SavingKeeps ==
    ASSUME FileInv, NEW p \in Savers,
           F!Submit(p) \/ F!SaveLock(p) \/ F!SaveRetire(p) \/ F!SaveInsert(p)
    PROVE  FileInv'
<1>0. /\ FileTypes /\ tx \in [Savers -> F!Tx] /\ tx[p] \in F!Tx /\ TxFits(p, tx[p])
  BY DEF FileInv, FileTypes
<1>1. /\ tx[p].holds \in SUBSET {"case", "share", "chain"} /\ tx[p].retired \in SUBSET F!Indices
      /\ mishaps \in 0 .. MaxMishaps
  BY <1>0, TxFields DEF FileTypes, Pcs
<1>2. UNCHANGED <<household, statements, decisions, page, mishaps>>
  BY DEF F!Submit, F!SaveLock, F!SaveRetire, F!SaveInsert
<1>3. /\ "save" \notin F!Advising /\ "retire" \notin F!Advising /\ "insert" \notin F!Advising
      /\ "save-commit" \notin F!Advising /\ "advise" \notin F!Saving
      /\ {"save", "retire", "insert", "save-commit"} \subseteq F!Saving
  BY DEF F!Saving, F!Advising
<1>4. {"save", "retire", "insert", "save-commit", "advise"} \subseteq Pcs
  BY DEF Pcs
<1>5. CASE F!Submit(p)
  <2>0. tx[p].pc = "page" /\ tx[p].retired = {}
    BY <1>0, <1>5 DEF F!Submit, TxFits
  <2>1. CASE F!Goes(p, "save") /\ Len(statements) + Cardinality(Within(F!Saving)) < MaxVersions
    <3>1. Became(p, "save", tx[p].holds, tx[p].retired)
      BY <1>0, <1>4, <2>1, Steps
    <3>2. TxFits(p, [pc |-> "save", holds |-> tx[p].holds, retired |-> tx[p].retired])
      BY DEF TxFits
    <3>3. QED
      BY <1>1, <1>2, <1>3, <1>4, <2>1, <3>1, <3>2, BecameKeeps
  <2>2. CASE F!Goes(p, "advise") /\ Len(decisions) + Cardinality(Within(F!Advising)) < MaxVersions
    <3>1. Became(p, "advise", tx[p].holds, tx[p].retired)
      BY <1>0, <1>4, <2>2, Steps
    <3>2. TxFits(p, [pc |-> "advise", holds |-> tx[p].holds, retired |-> tx[p].retired])
      BY <2>0 DEF TxFits
    <3>3. QED
      BY <1>1, <1>2, <1>3, <1>4, <2>2, <3>1, <3>2, BecameKeeps
  <2>3. QED
    BY <1>5, <2>1, <2>2, SameFileCount DEF F!Submit, F!At, Within
<1>6. CASE F!SaveLock(p)
  <2>1. Became(p, "retire", {"case"}, tx[p].retired)
    BY <1>0, <1>1, <1>4, <1>6, Steps DEF F!SaveLock
  <2>2. TxFits(p, [pc |-> "retire", holds |-> {"case"}, retired |-> tx[p].retired])
    BY DEF TxFits
  <2>3. \A q \in Savers \ {p} : "case" \notin tx[q].holds
    BY <1>6 DEF F!SaveLock, F!CaseFree, F!Others
  <2>4. tx[p].pc \in F!Saving
    BY <1>3, <1>6 DEF F!SaveLock
  <2>5. QED
    <3>1. {"case"} \in SUBSET {"case", "share", "chain"} /\ "retire" \in Pcs /\ "retire" \notin F!Advising
      BY <1>3, <1>4
    <3>2. \A lock \in {"case", "chain"} : lock \in {"case"} => \A q \in Savers \ {p} : lock \notin tx[q].holds
      BY <2>3
    <3>3. PICK h \in SUBSET {"case", "share", "chain"} : h = {"case"}
      BY <3>1
    <3>4. Became(p, "retire", h, tx[p].retired) /\ TxFits(p, [pc |-> "retire", holds |-> h, retired |-> tx[p].retired])
      BY <2>1, <2>2, <3>3
    <3>5. \A lock \in {"case", "chain"} : lock \in h => \A q \in Savers \ {p} : lock \notin tx[q].holds
      BY <3>2, <3>3
    <3>6. \A lock \in {"case", "chain"} :
              lock \in h => \/ lock \in tx[p].holds
                            \/ \A q \in Savers \ {p} : lock \notin tx[q].holds
      BY <3>5
    <3>7. /\ UNCHANGED <<household, statements, decisions, page>> /\ mishaps' \in 0 .. MaxMishaps
          /\ "retire" \in Pcs /\ tx[p].retired \in SUBSET F!Indices
      BY <1>1, <1>2, <3>1
    <3>8. /\ "retire" \in F!Saving => tx[p].pc \in F!Saving
          /\ "retire" \notin F!Advising
      BY <2>4, <3>1
    <3>9. PICK x \in Pcs, r \in SUBSET F!Indices : x = "retire" /\ r = tx[p].retired
      BY <3>7
    <3>10. Became(p, x, h, r) /\ TxFits(p, [pc |-> x, holds |-> h, retired |-> r])
      BY <3>4, <3>9
    <3>11. /\ x \in F!Saving => tx[p].pc \in F!Saving
           /\ x \notin F!Advising
      BY <3>8, <3>9
    <3>12. QED
      BY <3>6, <3>7, <3>10, <3>11, BecameKeeps
<1>7. CASE F!SaveRetire(p)
  <2>0. F!Live(statements) \in SUBSET F!Indices
    BY FileLengths
  <2>1. Became(p, "insert", tx[p].holds, F!Live(statements))
    BY <1>0, <1>1, <1>4, <1>7, <2>0, Steps DEF F!SaveRetire
  <2>2. TxFits(p, [pc |-> "insert", holds |-> tx[p].holds, retired |-> F!Live(statements)])
    BY <1>0, <1>7 DEF TxFits, F!SaveRetire
  <2>4. tx[p].pc \in F!Saving
    BY <1>3, <1>7 DEF F!SaveRetire
  <2>5. QED
    BY <1>1, <1>2, <1>3, <1>4, <2>0, <2>1, <2>2, <2>4, BecameKeeps
<1>8. CASE F!SaveInsert(p)
  <2>0. F!Goes(p, "save-commit") /\ tx[p].pc = "insert"
    BY <1>0, <1>8 DEF F!SaveInsert, TxFits
  <2>1. Became(p, "save-commit", tx[p].holds, tx[p].retired)
    BY <1>0, <1>4, <2>0, Steps
  <2>2. TxFits(p, [pc |-> "save-commit", holds |-> tx[p].holds, retired |-> tx[p].retired])
    BY <1>0, <2>0 DEF TxFits
  <2>4. tx[p].pc \in F!Saving
    BY <1>3, <2>0
  <2>5. QED
    BY <1>1, <1>2, <1>3, <1>4, <2>1, <2>2, <2>4, BecameKeeps
<1>9. QED
  BY <1>5, <1>6, <1>7, <1>8

LEMMA AdvisingKeeps ==
    ASSUME FileInv, NEW p \in Savers,
           F!Evaluate(p) \/ F!EvaluationAudited(p) \/ F!Supersede(p) \/ F!Record(p)
    PROVE  FileInv'
<1>0. FileTypes /\ tx \in [Savers -> F!Tx] /\ tx[p] \in F!Tx /\ TxFits(p, tx[p])
  BY DEF FileInv, FileTypes
<1>1. /\ tx[p].holds \in SUBSET {"case", "share", "chain"} /\ tx[p].retired \in SUBSET F!Indices
      /\ mishaps \in 0 .. MaxMishaps
  BY <1>0, TxFields DEF FileTypes, Pcs
<1>2. UNCHANGED <<household, statements, decisions, page, mishaps>>
  BY DEF F!Evaluate, F!EvaluationAudited, F!Supersede, F!Record
<1>3. \A x \in {"advise", "audit", "supersede", "record", "advise-commit"} : x \in F!Advising /\ x \notin F!Saving /\ x \in Pcs
  BY DEF F!Saving, F!Advising, Pcs
<1>4. tx[p].pc \in F!Advising
  BY <1>3 DEF F!Evaluate, F!EvaluationAudited, F!Supersede, F!Record
<1>5. UNCHANGED <<household, statements, decisions, page>> /\ mishaps' \in 0 .. MaxMishaps
  BY <1>1, <1>2
<1>6. CASE F!Evaluate(p)
  <2>1. PICK x \in Pcs, h \in SUBSET {"case", "share", "chain"}, r \in SUBSET F!Indices :
            x = "audit" /\ h = {"share"} /\ r = tx[p].retired
    BY <1>1, <1>3
  <2>2. Became(p, x, h, r)
    BY <1>0, <1>6, <2>1, Steps DEF F!Evaluate
  <2>3. TxFits(p, [pc |-> x, holds |-> h, retired |-> r])
    BY <1>0, <1>6, <2>1 DEF TxFits, F!Evaluate
  <2>4. \A lock \in {"case", "chain"} : lock \notin h
    BY <2>1
  <2>5. x \notin F!Saving
    BY <1>3, <2>1
  <2>6. QED
    BY <1>4, <1>5, <2>2, <2>3, <2>4, <2>5, BecameKeeps
<1>7. CASE F!EvaluationAudited(p)
  <2>1. PICK x \in Pcs, h \in SUBSET {"case", "share", "chain"}, r \in SUBSET F!Indices :
            /\ x = IF page[p].standing = 0 THEN "record" ELSE "supersede"
            /\ h = tx[p].holds \cup {"chain"} /\ r = tx[p].retired
    BY <1>1, <1>3
  <2>2. tx' = [tx EXCEPT ![p].pc = x, ![p].holds = @ \cup {"chain"}]
    BY <1>7, <2>1 DEF F!EvaluationAudited
  <2>3. Became(p, x, h, r)
    BY <1>0, <1>1, <2>1, <2>2, Steps
  <2>4. TxFits(p, [pc |-> x, holds |-> h, retired |-> r])
    BY <1>0, <1>7, <2>1 DEF TxFits, F!EvaluationAudited
  <2>5. \A q \in Savers \ {p} : "chain" \notin tx[q].holds
    BY <1>7 DEF F!EvaluationAudited, F!ChainFree, F!Others
  <2>6. \A lock \in {"case", "chain"} :
            lock \in h => \/ lock \in tx[p].holds
                          \/ \A q \in Savers \ {p} : lock \notin tx[q].holds
    BY <2>1, <2>5
  <2>7. x \notin F!Saving
    BY <1>3, <2>1
  <2>8. QED
    BY <1>4, <1>5, <2>3, <2>4, <2>6, <2>7, BecameKeeps
<1>8. CASE F!Supersede(p)
  <2>1. /\ page[p].standing \in F!Live(decisions) /\ tx[p].pc = "supersede"
        /\ tx' = [tx EXCEPT ![p].pc = "record", ![p].retired = {page[p].standing}]
    BY <1>8 DEF F!Supersede, F!StillStands
  <2>2. {page[p].standing} \in SUBSET F!Indices
    BY <2>1, FileLengths
  <2>3. PICK x \in Pcs, h \in SUBSET {"case", "share", "chain"}, r \in SUBSET F!Indices :
            x = "record" /\ h = tx[p].holds /\ r = {page[p].standing}
    BY <1>1, <1>3, <2>2
  <2>4. Became(p, x, h, r)
    BY <1>0, <2>1, <2>3, Steps
  <2>5. TxFits(p, [pc |-> x, holds |-> h, retired |-> r])
    BY <1>0, <2>1, <2>3 DEF TxFits
  <2>6. \A lock \in {"case", "chain"} : lock \in h => lock \in tx[p].holds
    BY <2>3
  <2>7. x \notin F!Saving
    BY <1>3, <2>3
  <2>8. QED
    BY <1>4, <1>5, <2>4, <2>5, <2>6, <2>7, BecameKeeps
<1>9. CASE F!Record(p)
  <2>1. /\ F!Goes(p, "advise-commit") /\ tx[p].pc = "record"
        /\ F!Live(decisions) \subseteq tx[p].retired /\ page[p].statement # 0
    BY <1>9 DEF F!Record, F!MayRecord
  <2>3. PICK x \in Pcs, h \in SUBSET {"case", "share", "chain"}, r \in SUBSET F!Indices :
            x = "advise-commit" /\ h = tx[p].holds /\ r = tx[p].retired
    BY <1>1, <1>3
  <2>4. Became(p, x, h, r)
    BY <1>0, <2>1, <2>3, Steps
  <2>5. TxFits(p, [pc |-> x, holds |-> h, retired |-> r])
    BY <1>0, <2>1, <2>3 DEF TxFits
  <2>6. \A lock \in {"case", "chain"} : lock \in h => lock \in tx[p].holds
    BY <2>3
  <2>7. x \notin F!Saving
    BY <1>3, <2>3
  <2>8. QED
    BY <1>4, <1>5, <2>4, <2>5, <2>6, <2>7, BecameKeeps
<1>10. QED
  BY <1>6, <1>7, <1>8, <1>9

\* The requests that end without publishing anything.
LEMMA EndingKeeps ==
    ASSUME FileInv, NEW p \in Savers, F!SaveFails(p) \/ F!AdviceRefused(p) \/ F!Die(p)
    PROVE  FileInv' /\ UNCHANGED <<statements, decisions>>
<1>1. mishaps \in 0 .. MaxMishaps
  BY DEF FileInv, FileTypes
<1>2. /\ F!Ends(p) /\ UNCHANGED <<household, statements, decisions, page>>
      /\ mishaps' = mishaps \/ (mishaps < MaxMishaps /\ mishaps' = mishaps + 1)
  BY DEF F!SaveFails, F!AdviceRefused, F!Die
<1>3. mishaps' \in 0 .. MaxMishaps
  BY <1>1, <1>2, WorkAssumption
<1>4. QED
  BY <1>2, <1>3, EndKeeps

LEMMA EndMoves ==
    ASSUME tx \in [Savers -> F!Tx], NEW p \in Savers, tx' = [tx EXCEPT ![p] = F!NoTx], NEW steps, "page" \notin steps
    PROVE  Cardinality(Within(steps)') = IF tx[p].pc \in steps THEN Cardinality(Within(steps)) - 1
                                         ELSE Cardinality(Within(steps))
<1>1. PICK row : row = F!NoTx
  OBVIOUS
<1>2. row.pc \notin steps /\ tx' = [tx EXCEPT ![p] = row]
  BY <1>1 DEF F!NoTx
<1>3. QED
  BY <1>2, WithinMoves

LEMMA SavePublishes ==
    ASSUME FileInv, NEW p \in Savers, F!SaveCommit(p)
    PROVE  FileInv' /\ \E h \in SUBSET Members : F!File!Publish(h)
<1>0. FileTypes /\ tx \in [Savers -> F!Tx] /\ tx[p].pc = "save-commit" /\ TxFits(p, tx[p]) /\ LastStands(statements)
  BY DEF FileInv, FileTypes, F!SaveCommit
<1>1. tx[p].retired = F!Live(statements) /\ "case" \in tx[p].holds
  BY <1>0 DEF TxFits
<1>2. statements \in Seq(F!Rows(SUBSET Members)) /\ page[p].household \in SUBSET Members
  BY <1>0 DEF FileTypes, F!Page, F!Households
<1>3. tx[p].pc \in F!Saving /\ tx[p].pc \notin F!Advising /\ "page" \notin F!Saving /\ "page" \notin F!Advising
  BY <1>0 DEF F!Saving, F!Advising
<1>4. F!NoTx \in F!Tx /\ F!NoTx.pc = "page" /\ F!NoTx.holds = {} /\ F!NoTx.retired = {}
  BY DEF F!NoTx, F!Tx
<1>5. tx' = [tx EXCEPT ![p] = F!NoTx] /\ UNCHANGED <<household, decisions, page, mishaps>>
  BY DEF F!SaveCommit, F!Ends
<1>6. tx'[p] = F!NoTx /\ \A q \in Savers : q # p => tx'[q] = tx[q]
  BY <1>0, <1>5
<1>7. /\ Cardinality(Within(F!Saving)') = Cardinality(Within(F!Saving)) - 1
      /\ Cardinality(Within(F!Advising)') = Cardinality(Within(F!Advising))
  BY <1>0, <1>3, <1>5, EndMoves
<1>8. /\ Cardinality(Within(F!Saving)) \in Nat /\ Cardinality(Within(F!Saving)') \in Nat
      /\ Cardinality(Within(F!Advising)) \in Nat
  BY WithinFinite
<1>9. Len(statements) \in Nat /\ Len(decisions) \in Nat /\ MaxVersions \in Nat
  BY FileLengths, WorkAssumption
<1>10. Len(statements) + Cardinality(Within(F!Saving)) <= MaxVersions
  BY DEF FileInv, FileRoom
<1>11. Len(statements) < MaxVersions
  BY <1>7, <1>8, <1>9, <1>10
<1>12. statements' = F!Published(statements, F!Live(statements), page[p].household)
  BY <1>1 DEF F!SaveCommit
<1>13. /\ statements' \in Seq(F!Rows(SUBSET Members)) /\ Len(statements') = Len(statements) + 1
       /\ LastStands(statements') /\ statements' = F!File!Replaced(statements, page[p].household)
  BY <1>0, <1>2, <1>11, <1>12, PublishedIsReplaced
<1>14. FileTypes'
  BY <1>0, <1>4, <1>5, <1>13 DEF FileTypes
<1>15. FileRoom'
  <2>1. Len(statements') + Cardinality(Within(F!Saving)') <= MaxVersions
    BY <1>7, <1>8, <1>9, <1>10, <1>13
  <2>2. Len(decisions') + Cardinality(Within(F!Advising)') <= MaxVersions
    BY <1>5, <1>7 DEF FileInv, FileRoom
  <2>3. F!Saving' = F!Saving /\ F!Advising' = F!Advising
    BY DEF F!Saving, F!Advising
  <2>4. QED
    BY <2>1, <2>2, <2>3 DEF FileRoom
<1>16. LastStands(statements)' /\ LastStands(decisions)'
  BY <1>5, <1>13 DEF FileInv, LastStands
<1>17. Alone("case")' /\ Alone("chain")'
  BY <1>4, <1>6 DEF FileInv, Alone
<1>18. ASSUME NEW q \in Savers PROVE TxFits(q, tx[q])' /\ page'[q].statement <= Len(statements')
  <2>1. TxFits(q, tx[q])'
    <3>1. CASE q = p
      BY <1>4, <1>6, <3>1 DEF TxFits
    <3>2. CASE q # p
      <4>1. "case" \notin tx[q].holds
        BY <1>1, <3>2 DEF FileInv, Alone
      <4>2. TxFits(q, tx[q]) /\ tx'[q] = tx[q] /\ page' = page /\ decisions' = decisions
        BY <1>5, <1>6, <3>2 DEF FileInv
      <4>3. tx[q].pc # "insert" /\ tx[q].pc # "save-commit"
        BY <4>1, <4>2 DEF TxFits
      <4>4. F!Live(decisions') = F!Live(decisions)
        BY <4>2
      <4>5. QED
        BY <4>2, <4>3 DEF TxFits, F!Live
    <3>3. QED
      BY <3>1, <3>2
  <2>2. page'[q].statement <= Len(statements')
    <3>1. page[q].statement \in Nat /\ page[q].statement <= Len(statements)
      BY <1>0 DEF FileInv, FileTypes, F!Page, F!Indices
    <3>2. QED
      BY <1>5, <1>9, <1>13, <3>1
  <2>3. QED
    BY <2>1, <2>2
<1>19. F!File!Publish(page[p].household)
  BY <1>5, <1>13 DEF F!File!Publish
<1>20. QED
  BY <1>2, <1>14, <1>15, <1>16, <1>17, <1>18, <1>19 DEF FileInv

LEMMA AdvicePublishes ==
    ASSUME FileInv, NEW p \in Savers, F!AdviseCommit(p)
    PROVE  FileInv' /\ \E s \in 1 .. Len(statements) : F!File!Advise(s)
<1>0. FileTypes /\ tx \in [Savers -> F!Tx] /\ tx[p].pc = "advise-commit" /\ TxFits(p, tx[p]) /\ LastStands(decisions)
  BY DEF FileInv, FileTypes, F!AdviseCommit
<1>1. tx[p].retired = F!Live(decisions) /\ "chain" \in tx[p].holds /\ page[p].statement # 0
  BY <1>0 DEF TxFits
<1>2. page[p].statement <= Len(statements)
  BY DEF FileInv
<1>3. tx[p].pc \notin F!Saving /\ tx[p].pc \in F!Advising /\ "page" \notin F!Saving /\ "page" \notin F!Advising
  BY <1>0 DEF F!Saving, F!Advising
<1>4. F!NoTx \in F!Tx /\ F!NoTx.pc = "page" /\ F!NoTx.holds = {} /\ F!NoTx.retired = {}
  BY DEF F!NoTx, F!Tx
<1>5. tx' = [tx EXCEPT ![p] = F!NoTx] /\ UNCHANGED <<household, statements, page, mishaps>>
  BY DEF F!AdviseCommit, F!Ends
<1>6. tx'[p] = F!NoTx /\ \A q \in Savers : q # p => tx'[q] = tx[q]
  BY <1>0, <1>5
<1>7. /\ Cardinality(Within(F!Advising)') = Cardinality(Within(F!Advising)) - 1
      /\ Cardinality(Within(F!Saving)') = Cardinality(Within(F!Saving))
  BY <1>0, <1>3, <1>5, EndMoves
<1>8. /\ Cardinality(Within(F!Advising)) \in Nat /\ Cardinality(Within(F!Advising)') \in Nat
      /\ Cardinality(Within(F!Saving)) \in Nat
  BY WithinFinite
<1>9. Len(statements) \in Nat /\ Len(decisions) \in Nat /\ MaxVersions \in Nat
  BY FileLengths, WorkAssumption
<1>10. Len(decisions) + Cardinality(Within(F!Advising)) <= MaxVersions
  BY DEF FileInv, FileRoom
<1>11. Len(decisions) < MaxVersions
  BY <1>7, <1>8, <1>9, <1>10
<1>12. decisions \in Seq(F!Rows(F!Indices)) /\ page[p].statement \in F!Indices
  BY <1>0, <1>1 DEF FileTypes, F!Page
<1>13. decisions' = F!Published(decisions, F!Live(decisions), page[p].statement)
  BY <1>1 DEF F!AdviseCommit
<1>14. /\ decisions' \in Seq(F!Rows(F!Indices)) /\ Len(decisions') = Len(decisions) + 1
       /\ LastStands(decisions') /\ decisions' = F!File!Replaced(decisions, page[p].statement)
  BY <1>0, <1>11, <1>12, <1>13, PublishedIsReplaced
<1>15. FileTypes'
  <2>1. F!Indices' = F!Indices /\ F!Rows(F!Indices)' = F!Rows(F!Indices)
    BY DEF F!Indices, F!Rows
  <2>2. QED
    BY <1>0, <1>4, <1>5, <1>14, <2>1 DEF FileTypes
<1>16. FileRoom'
  <2>1. Len(decisions') + Cardinality(Within(F!Advising)') <= MaxVersions
    BY <1>7, <1>8, <1>9, <1>10, <1>14
  <2>2. Len(statements') + Cardinality(Within(F!Saving)') <= MaxVersions
    BY <1>5, <1>7 DEF FileInv, FileRoom
  <2>3. F!Saving' = F!Saving /\ F!Advising' = F!Advising
    BY DEF F!Saving, F!Advising
  <2>4. QED
    BY <2>1, <2>2, <2>3 DEF FileRoom
<1>17. LastStands(statements)' /\ LastStands(decisions)'
  BY <1>5, <1>14 DEF FileInv, LastStands
<1>18. Alone("case")' /\ Alone("chain")'
  BY <1>4, <1>6 DEF FileInv, Alone
<1>19. ASSUME NEW q \in Savers PROVE TxFits(q, tx[q])' /\ page'[q].statement <= Len(statements')
  <2>1. TxFits(q, tx[q])'
    <3>1. CASE q = p
      BY <1>4, <1>6, <3>1 DEF TxFits
    <3>2. CASE q # p
      <4>1. "chain" \notin tx[q].holds
        BY <1>1, <3>2 DEF FileInv, Alone
      <4>2. TxFits(q, tx[q]) /\ tx'[q] = tx[q] /\ page' = page /\ statements' = statements
        BY <1>5, <1>6, <3>2 DEF FileInv
      <4>3. tx[q].pc # "record" /\ tx[q].pc # "advise-commit"
        BY <4>1, <4>2 DEF TxFits
      <4>4. QED
        BY <4>2, <4>3 DEF TxFits, F!Live
    <3>3. QED
      BY <3>1, <3>2
  <2>2. page'[q].statement <= Len(statements')
    BY <1>5 DEF FileInv
  <2>3. QED
    BY <2>1, <2>2
<1>20. F!File!Advise(page[p].statement) /\ page[p].statement \in 1 .. Len(statements)
  <2>1. page[p].statement \in Nat /\ page[p].statement >= 1
    BY <1>9, <1>12 DEF F!Indices
  <2>2. QED
    BY <1>2, <1>5, <1>9, <1>14, <2>1 DEF F!File!Advise
<1>21. QED
  BY <1>15, <1>16, <1>17, <1>18, <1>19, <1>20 DEF FileInv

LEMMA RenderKeeps ==
    ASSUME FileInv, NEW p \in Savers, F!Render(p)
    PROVE  FileInv' /\ UNCHANGED <<statements, decisions>>
<1>0. FileTypes /\ page \in [Savers -> F!Page]
  BY DEF FileInv, FileTypes
<1>1. UNCHANGED <<household, statements, decisions, tx, mishaps>> /\ tx[p].pc = "page"
  BY DEF F!Render
<1>2. PICK s \in F!Live(statements) \cup {0}, d \in F!Live(decisions) \cup {0} :
          page' = [page EXCEPT ![p] = [household |-> household, statement |-> s, standing |-> d]]
  BY DEF F!Render
<1>3. s \in {0} \cup F!Indices /\ d \in {0} \cup F!Indices /\ household \in SUBSET Members
  BY <1>0, FileLengths DEF FileTypes
<1>4. s <= Len(statements)
  <2>1. Len(statements) \in Nat /\ DOMAIN statements = 1 .. Len(statements)
    BY <1>0 DEF FileTypes
  <2>2. QED
    BY <2>1 DEF F!Live
<1>5. [household |-> household, statement |-> s, standing |-> d] \in F!Page
  BY <1>3 DEF F!Page, F!Households
<1>6. page' \in [Savers -> F!Page] /\ page'[p].statement = s /\ \A q \in Savers : q # p => page'[q] = page[q]
  BY <1>0, <1>2, <1>5
<1>7. FileTypes'
  BY <1>0, <1>1, <1>6 DEF FileTypes, F!Indices, F!Rows
<1>8. FileRoom'
  BY <1>1 DEF FileInv, FileRoom, Within, F!Saving, F!Advising
<1>9. LastStands(statements)' /\ LastStands(decisions)' /\ Alone("case")' /\ Alone("chain")'
  BY <1>1 DEF FileInv, LastStands, Alone
<1>10. ASSUME NEW q \in Savers PROVE TxFits(q, tx[q])' /\ page'[q].statement <= Len(statements')
  <2>1. CASE q = p
    BY <1>1, <1>4, <1>6, <2>1 DEF FileInv, TxFits
  <2>2. CASE q # p
    BY <1>1, <1>6, <2>2 DEF FileInv, TxFits, F!Live
  <2>3. QED
    BY <2>1, <2>2
<1>11. QED
  BY <1>1, <1>7, <1>8, <1>9, <1>10 DEF FileInv

LEMMA HouseholdKeeps ==
    ASSUME FileInv, F!ChangeHousehold \/ UNCHANGED ofFile
    PROVE  FileInv' /\ UNCHANGED <<statements, decisions>>
<1>1. UNCHANGED <<statements, decisions, page, tx, mishaps>> /\ (household' = household \/ household' \in SUBSET Members)
  BY DEF F!ChangeHousehold, ofFile, FileInv, FileTypes
<1>2. FileTypes'
  BY <1>1 DEF FileInv, FileTypes, F!Indices, F!Rows
<1>3. FileRoom'
  BY <1>1 DEF FileInv, FileRoom, Within, F!Saving, F!Advising
<1>4. LastStands(statements)' /\ LastStands(decisions)' /\ Alone("case")' /\ Alone("chain")'
  BY <1>1 DEF FileInv, LastStands, Alone
<1>5. \A q \in Savers : TxFits(q, tx[q])' /\ page'[q].statement <= Len(statements')
  BY <1>1 DEF FileInv, TxFits, F!Live
<1>6. QED
  BY <1>1, <1>2, <1>3, <1>4, <1>5 DEF FileInv

LEMMA FileStep ==
    ASSUME FileInv, F!Next \/ UNCHANGED ofFile
    PROVE  FileInv' /\ (F!File!Next \/ UNCHANGED <<statements, decisions>>)
<1>1. CASE F!ChangeHousehold \/ UNCHANGED ofFile
  BY <1>1, HouseholdKeeps
<1>2. ASSUME NEW p \in Savers, F!Render(p) \/ F!Submit(p) \/ F!Proceeds(p) \/ F!Die(p)
      PROVE  FileInv' /\ (F!File!Next \/ UNCHANGED <<statements, decisions>>)
  <2>1. CASE F!Render(p)
    BY <2>1, RenderKeeps
  <2>2. CASE F!Submit(p) \/ F!SaveLock(p) \/ F!SaveRetire(p) \/ F!SaveInsert(p)
    <3>1. UNCHANGED <<statements, decisions>>
      BY <2>2 DEF F!Submit, F!SaveLock, F!SaveRetire, F!SaveInsert
    <3>2. QED
      BY <2>2, <3>1, SavingKeeps
  <2>3. CASE F!Evaluate(p) \/ F!EvaluationAudited(p) \/ F!Supersede(p) \/ F!Record(p)
    <3>1. UNCHANGED <<statements, decisions>>
      BY <2>3 DEF F!Evaluate, F!EvaluationAudited, F!Supersede, F!Record
    <3>2. QED
      BY <2>3, <3>1, AdvisingKeeps
  <2>4. CASE F!SaveFails(p) \/ F!AdviceRefused(p) \/ F!Die(p)
    BY <2>4, EndingKeeps
  <2>5. CASE F!SaveCommit(p)
    BY <2>5, SavePublishes DEF F!File!Next, F!Households
  <2>6. CASE F!AdviseCommit(p)
    BY <2>6, AdvicePublishes DEF F!File!Next
  <2>7. QED
    BY <1>2, <2>1, <2>2, <2>3, <2>4, <2>5, <2>6 DEF F!Proceeds
<1>3. QED
  BY <1>1, <1>2 DEF F!Next

LEMMA FirmFileStep ==
    ASSUME FileInv, [FirmNext]_ofFirm
    PROVE  FileInv' /\ [F!File!Next]_<<statements, decisions>>
<1>1. F!Next \/ UNCHANGED ofFile
  BY DEF FirmNext, ofFirm
<1>2. QED
  BY <1>1, FileStep

(* However many people save, decide and re-render at once and however many *)
(* of them fail half-way, the statements and the decisions of a case file  *)
(* are those of VersionedFile: a version is published in one step, exactly *)
(* the last stands and every other names the one that replaced it          *)
(* (saveStatement, recordAdviceDecision, supersedeAdviceDecision).         *)
THEOREM FileIsVersioned == FirmSpec => Implements
<1>1. FirmInit => FileInv /\ F!File!Init
  BY FileInit DEF FirmInit, F!Init, F!File!Init
<1>2. QED
  BY <1>1, FirmFileStep, PTL DEF FirmSpec, Implements, F!Implements, F!File!Spec

\* Which locks a transaction that has come so far holds at most.
LocksFit(pc, holds) ==
    /\ "case" \in holds => pc \in {"retire", "insert", "collided", "save-commit"}
    /\ "share" \in holds => pc \in {"audit", "supersede", "record", "advise-commit"}
    /\ "chain" \in holds => pc \in {"supersede", "record", "advise-commit"}

LocksInv == \A p \in Savers : LocksFit(tx[p].pc, tx[p].holds)

LEMMA BecameFits ==
    ASSUME FileTypes, LocksInv, NEW p \in Savers, NEW x, NEW h, NEW r, Became(p, x, h, r), LocksFit(x, h)
    PROVE  LocksInv'
<1> SUFFICES ASSUME NEW q \in Savers PROVE LocksFit(tx'[q].pc, tx'[q].holds)
  BY DEF LocksInv
<1>1. tx' = [tx EXCEPT ![p] = [pc |-> x, holds |-> h, retired |-> r]] /\ tx \in [Savers -> F!Tx]
  BY DEF Became, FileTypes
<1>2. CASE q = p
  <2>1. tx'[q].pc = x /\ tx'[q].holds = h
    BY <1>1, <1>2
  <2>2. QED
    BY <2>1
<1>3. CASE q # p
  <2>1. tx'[q] = tx[q]
    BY <1>1, <1>3
  <2>2. QED
    BY <2>1 DEF LocksInv
<1>4. QED
  BY <1>2, <1>3

LEMMA LocksStep ==
    ASSUME FileInv, LocksInv, F!Next \/ UNCHANGED ofFile
    PROVE  LocksInv'
<1>0. FileTypes /\ tx \in [Savers -> F!Tx]
  BY DEF FileInv, FileTypes
<1>1. CASE F!ChangeHousehold \/ UNCHANGED ofFile \/ \E p \in Savers : F!Render(p)
  <2>1. tx' = tx
    BY <1>1 DEF F!ChangeHousehold, F!Render, ofFile
  <2>2. QED
    BY <2>1 DEF LocksInv
<1>2. ASSUME NEW p \in Savers, F!Submit(p) \/ F!Proceeds(p) \/ F!Die(p)
      PROVE  LocksInv'
  <2> DEFINE row == tx[p]
  <2>1. row.pc \in Pcs /\ row.holds \in SUBSET {"case", "share", "chain"} /\ row.retired \in SUBSET F!Indices
    BY <1>0 DEF F!Tx, Pcs
  <2>2. LocksFit(row.pc, row.holds)
    BY DEF LocksInv
  <2>3. {"save", "advise", "retire", "insert", "collided", "save-commit", "audit", "supersede", "record",
         "advise-commit", "page"} \subseteq Pcs
    BY DEF Pcs
  <2>4. \A x \in Pcs : F!Goes(p, x) => Became(p, x, row.holds, row.retired)
    BY <1>0, <2>1, Steps
  <2>5. \A x \in Pcs : F!Goes(p, x) /\ LocksFit(x, row.holds) => LocksInv'
    BY <1>0, <2>4, BecameFits
  <2>6. CASE F!Submit(p)
    <3>1. row.pc = "page" /\ (F!Goes(p, "save") \/ F!Goes(p, "advise"))
      BY <2>6 DEF F!Submit
    <3>2. LocksFit("save", row.holds) /\ LocksFit("advise", row.holds)
      BY <2>2, <3>1 DEF LocksFit
    <3>3. QED
      BY <2>3, <2>5, <3>1, <3>2
  <2>7. CASE F!SaveLock(p)
    <3>1. Became(p, "retire", {"case"}, row.retired)
      BY <1>0, <2>1, <2>3, <2>7, Steps DEF F!SaveLock
    <3>2. LocksFit("retire", {"case"})
      BY DEF LocksFit
    <3>3. QED
      BY <1>0, <3>1, <3>2, BecameFits
  <2>8. CASE F!SaveRetire(p)
    <3>1. row.pc = "retire" /\ Became(p, "insert", row.holds, F!Live(statements))
      BY <1>0, <2>1, <2>3, <2>8, Steps, FileLengths DEF F!SaveRetire
    <3>2. LocksFit("insert", row.holds)
      BY <2>2, <3>1 DEF LocksFit
    <3>3. QED
      BY <1>0, <3>1, <3>2, BecameFits
  <2>9. CASE F!SaveInsert(p)
    <3>1. row.pc = "insert" /\ (F!Goes(p, "save-commit") \/ F!Goes(p, "collided"))
      BY <2>9 DEF F!SaveInsert
    <3>2. LocksFit("save-commit", row.holds) /\ LocksFit("collided", row.holds)
      BY <2>2, <3>1 DEF LocksFit
    <3>3. QED
      BY <2>3, <2>5, <3>1, <3>2
  <2>10. CASE F!Evaluate(p)
    <3>1. Became(p, "audit", {"share"}, row.retired)
      BY <1>0, <2>1, <2>3, <2>10, Steps DEF F!Evaluate
    <3>2. LocksFit("audit", {"share"})
      BY DEF LocksFit
    <3>3. QED
      BY <1>0, <3>1, <3>2, BecameFits
  <2>11. CASE F!EvaluationAudited(p)
    <3>1. PICK x \in {"record", "supersede"} :
              row.pc = "audit" /\ tx' = [tx EXCEPT ![p].pc = x, ![p].holds = @ \cup {"chain"}]
      BY <2>11 DEF F!EvaluationAudited
    <3>2. Became(p, x, row.holds \cup {"chain"}, row.retired)
      BY <1>0, <2>1, <2>3, <3>1, Steps
    <3>3. LocksFit(x, row.holds \cup {"chain"})
      BY <2>2, <3>1 DEF LocksFit
    <3>4. QED
      BY <1>0, <3>2, <3>3, BecameFits
  <2>12. CASE F!Supersede(p)
    <3>1. row.pc = "supersede" /\ tx' = [tx EXCEPT ![p].pc = "record", ![p].retired = {page[p].standing}]
          /\ page[p].standing \in F!Live(decisions)
      BY <2>12 DEF F!Supersede, F!StillStands
    <3>2. {page[p].standing} \in SUBSET F!Indices
      BY <3>1, FileLengths
    <3>3. Became(p, "record", row.holds, {page[p].standing})
      BY <1>0, <2>1, <2>3, <3>1, <3>2, Steps
    <3>4. LocksFit("record", row.holds)
      BY <2>2, <3>1 DEF LocksFit
    <3>5. QED
      BY <1>0, <3>3, <3>4, BecameFits
  <2>13. CASE F!Record(p)
    <3>1. row.pc = "record" /\ F!Goes(p, "advise-commit")
      BY <2>13 DEF F!Record
    <3>2. LocksFit("advise-commit", row.holds)
      BY <2>2, <3>1 DEF LocksFit
    <3>3. QED
      BY <2>3, <2>5, <3>1, <3>2
  <2>14. CASE F!Ends(p)
    <3>1. Became(p, "page", {}, {})
      BY <1>0, <2>1, <2>3, <2>14, Steps
    <3>2. LocksFit("page", {})
      BY DEF LocksFit
    <3>3. QED
      BY <1>0, <3>1, <3>2, BecameFits
  <2>15. F!SaveFails(p) \/ F!SaveCommit(p) \/ F!AdviceRefused(p) \/ F!AdviseCommit(p) \/ F!Die(p) => F!Ends(p)
    BY DEF F!SaveFails, F!SaveCommit, F!AdviceRefused, F!AdviseCommit, F!Die
  <2>16. QED
    BY <1>2, <2>6, <2>7, <2>8, <2>9, <2>10, <2>11, <2>12, <2>13, <2>14, <2>15 DEF F!Proceeds
<1>3. QED
  BY <1>1, <1>2 DEF F!Next

\* Whoever has come furthest may go on.
LEMMA SaversMayGo ==
    ASSUME FileInv, LocksInv
    PROVE  F!SomebodyMayGo
<1> SUFFICES ASSUME NEW p \in Savers, tx[p].pc # "page"
             PROVE  \E q \in Savers : tx[q].pc # "page" /\ F!MayGo(q)
  BY DEF F!SomebodyMayGo, F!UnderWay
<1>1. \A q \in Savers : tx[q].pc \in Pcs
  BY DEF FileInv, FileTypes, F!Tx, Pcs
<1>2. \A q \in Savers : LocksFit(tx[q].pc, tx[q].holds) /\ TxFits(q, tx[q])
  BY DEF LocksInv, FileInv
<1>3. \A q \in Savers : F!Others(q) = Savers \ {q}
  BY DEF F!Others
<1>4. CASE \E q \in Savers : tx[q].pc \in {"supersede", "record", "advise-commit"}
  BY <1>4 DEF F!MayGo
<1>5. CASE /\ \A q \in Savers : tx[q].pc \notin {"supersede", "record", "advise-commit"}
           /\ \E q \in Savers : tx[q].pc \in {"save-commit", "audit"}
  <2>1. \A q \in Savers : "chain" \notin tx[q].holds
    BY <1>2, <1>5 DEF LocksFit
  <2>2. QED
    BY <1>3, <1>5, <2>1 DEF F!MayGo, F!ChainFree
<1>6. CASE /\ \A q \in Savers : tx[q].pc \notin {"supersede", "record", "advise-commit", "save-commit", "audit"}
           /\ \E q \in Savers : tx[q].pc \in {"retire", "insert"}
  <2>1. PICK q \in Savers : tx[q].pc \in {"retire", "insert"}
    BY <1>6
  <2>2. \A o \in Savers \ {q} : tx[o].pc \notin {"insert", "save-commit"}
    BY <1>2, <2>1 DEF TxFits, FileInv, Alone
  <2>3. F!MayGo(q)
    BY <1>3, <2>1, <2>2 DEF F!MayGo, F!RowsFree
  <2>4. QED
    BY <2>1, <2>3
<1>7. CASE \A q \in Savers : tx[q].pc \in {"page", "save", "advise"}
  <2>1. \A q \in Savers : "case" \notin tx[q].holds /\ "share" \notin tx[q].holds
    BY <1>2, <1>7 DEF LocksFit
  <2>2. F!CaseFree(p) /\ F!ShareFree(p)
    BY <1>3, <2>1 DEF F!CaseFree, F!ShareFree
  <2>3. F!MayGo(p)
    BY <1>7, <2>2 DEF F!MayGo
  <2>4. QED
    BY <2>3
<1>8. \A q \in Savers : tx[q].pc # "collided"
  BY <1>2 DEF TxFits
<1>9. QED
  BY <1>1, <1>4, <1>5, <1>6, <1>7, <1>8 DEF Pcs

-----------------------------------------------------------------------------
(* CaseOpening. *)

Todos == {<< >>, <<"clients">>, <<"cases">>, <<"clients", "cases">>}
Listed(todo, t) == \E i \in DOMAIN todo : todo[i] = t

\* How many references a table has, and who is about to add one.
Top(t) == Cardinality(given[t])
Takes(row, t) == Listed(row.todo, t) \/ row.inserted[t] # 0
Takers(t) == {c \in Openers : Takes(opening[c], t)}

OpenFits(row) ==
    /\ row.at # "lock" => row.todo # << >> /\ row.todo[1] \in row.holds
    /\ row.at = "audit" => row.inserted[row.todo[1]] # 0
    /\ \A t \in O!Tables : row.inserted[t] # 0 => t \in row.holds

\* A number that is drawn is the next one, and is so for as long as the lock is held.
Numbered(row, t, top) ==
    /\ row.at = "insert" /\ row.todo[1] = t => row.number = top + 1
    /\ row.inserted[t] \in {0, top + 1}

Held(lock) == \A c, d \in Openers : lock \in opening[c].holds /\ lock \in opening[d].holds => c = d

OpenInv ==
    /\ O!TypeOK
    /\ \A c \in Openers : OpenFits(opening[c]) /\ ~refused[c]
    /\ \A lock \in O!Locks : Held(lock)
    /\ \A t \in O!Tables :
          /\ given[t] = 1 .. Top(t)
          /\ \A c \in Openers : Numbered(opening[c], t, Top(t))
          /\ Top(t) + Cardinality(Takers(t)) <= MaxNumber

LEMMA TodoFacts ==
    /\ Todos \subseteq Seq(O!Tables)
    /\ \A t \in O!Tables : ~Listed(<< >>, t)
    /\ \A todo \in Todos \ {<< >>} :
          /\ todo[1] \in O!Tables /\ Listed(todo, todo[1])
          /\ Len(todo) = 1 => \A t \in O!Tables : Listed(todo, t) => t = todo[1]
          /\ Len(todo) # 1 => /\ Tail(todo) \in Todos \ {<< >>}
                              /\ \A t \in O!Tables : Listed(todo, t) <=> t = todo[1] \/ Listed(Tail(todo), t)
<1>1. O!Tables = {"clients", "cases"}
  BY DEF O!Tables
<1>2. Todos \subseteq Seq(O!Tables)
  BY <1>1 DEF Todos
<1>3. \A t \in O!Tables : ~Listed(<< >>, t)
  BY DEF Listed
<1>4. ASSUME NEW x \in O!Tables
      PROVE  /\ <<x>>[1] = x /\ Len(<<x>>) = 1 /\ \A t \in O!Tables : Listed(<<x>>, t) <=> t = x
  BY DEF Listed
<1>5. /\ <<"clients", "cases">>[1] = "clients" /\ Len(<<"clients", "cases">>) = 2
      /\ \A t \in O!Tables : Listed(<<"clients", "cases">>, t)
  BY <1>1 DEF Listed
<1>6. Tail(<<"clients", "cases">>) = <<"cases">>
  OBVIOUS
<1>7. <<"cases">> \in Todos \ {<< >>} /\ "cases" \in O!Tables /\ "clients" \in O!Tables
  BY <1>1 DEF Todos
<1>8. ASSUME NEW todo \in Todos \ {<< >>}
      PROVE  /\ todo[1] \in O!Tables /\ Listed(todo, todo[1])
             /\ Len(todo) = 1 => \A t \in O!Tables : Listed(todo, t) => t = todo[1]
             /\ Len(todo) # 1 => /\ Tail(todo) \in Todos \ {<< >>}
                                 /\ \A t \in O!Tables : Listed(todo, t) <=> t = todo[1] \/ Listed(Tail(todo), t)
  <2>1. CASE todo = <<"clients">>
    BY <1>4, <1>7, <2>1
  <2>2. CASE todo = <<"cases">>
    BY <1>4, <1>7, <2>2
  <2>3. CASE todo = <<"clients", "cases">>
    BY <1>1, <1>4, <1>5, <1>6, <1>7, <2>3
  <2>4. QED
    BY <1>8, <2>1, <2>2, <2>3 DEF Todos
<1>9. QED
  BY <1>2, <1>3, <1>8

LEMMA OpenCounts ==
    ASSUME O!TypeOK, NEW t \in O!Tables
    PROVE  /\ IsFiniteSet(given[t]) /\ Top(t) \in Nat
           /\ IsFiniteSet(Takers(t)) /\ Cardinality(Takers(t)) \in Nat
           /\ IsFiniteSet(Takers(t)') /\ Cardinality(Takers(t)') \in Nat
<1>1. given[t] \in SUBSET (1 .. MaxNumber)
  BY DEF O!TypeOK, O!Numbers
<1>2. IsFiniteSet(1 .. MaxNumber) /\ IsFiniteSet(Openers)
  BY FS_Interval, WorkAssumption
<1>3. Takers(t) \in SUBSET Openers /\ Takers(t)' \in SUBSET Openers
  BY DEF Takers
<1>4. QED
  BY <1>1, <1>2, <1>3, FS_Subset, FS_CardinalityType DEF Top

LEMMA OpenStep ==
    ASSUME OpenInv, NEW c \in Openers, opening' \in [Openers -> O!Opening],
           \A d \in Openers \ {c} : opening'[d] = opening[d], UNCHANGED <<given, refused>>,
           OpenFits(opening'[c]),
           \A lock \in O!Locks :
               lock \in opening'[c].holds => \/ lock \in opening[c].holds
                                             \/ \A d \in Openers \ {c} : lock \notin opening[d].holds,
           \A t \in O!Tables : Numbered(opening'[c], t, Top(t)),
           \A t \in O!Tables : Takes(opening'[c], t) => \/ Takes(opening[c], t)
                                                        \/ Top(t) + Cardinality(Takers(t)) < MaxNumber
    PROVE  OpenInv'
<1>1. O!TypeOK /\ O!TypeOK'
  BY DEF OpenInv, O!TypeOK
<1>2. \A d \in Openers : OpenFits(opening'[d]) /\ ~refused'[d]
  BY DEF OpenInv
<1>3. ASSUME NEW lock \in O!Locks PROVE Held(lock)'
  <2> SUFFICES ASSUME NEW q \in Openers, NEW r \in Openers, lock \in opening'[q].holds, lock \in opening'[r].holds
               PROVE  q = r
    BY DEF Held
  <2>1. \A x, y \in Openers : lock \in opening[x].holds /\ lock \in opening[y].holds => x = y
    BY <1>3 DEF OpenInv, Held
  <2>2. QED
    BY <1>3, <2>1
<1>4. \A t \in O!Tables : Top(t)' = Top(t)
  BY DEF Top
<1>5. ASSUME NEW t \in O!Tables
      PROVE  /\ given'[t] = 1 .. Top(t)
             /\ \A d \in Openers : Numbered(opening'[d], t, Top(t))
             /\ Top(t) + Cardinality(Takers(t)') <= MaxNumber
  <2>1. given'[t] = 1 .. Top(t) /\ \A d \in Openers : Numbered(opening'[d], t, Top(t))
    BY DEF OpenInv
  <2>2. /\ Top(t) \in Nat /\ MaxNumber \in Nat /\ IsFiniteSet(Takers(t)) /\ Cardinality(Takers(t)) \in Nat
        /\ Cardinality(Takers(t)') \in Nat /\ Top(t) + Cardinality(Takers(t)) <= MaxNumber
    BY <1>1, OpenCounts, WorkAssumption DEF OpenInv
  <2>3. CASE Takes(opening'[c], t) /\ ~Takes(opening[c], t)
    <3>1. Takers(t)' = Takers(t) \cup {c} /\ c \notin Takers(t)
      BY <2>3 DEF Takers
    <3>2. Cardinality(Takers(t)') = Cardinality(Takers(t)) + 1
      BY <2>2, <3>1, FS_AddElement
    <3>3. QED
      BY <2>1, <2>2, <2>3, <3>2
  <2>4. CASE ~(Takes(opening'[c], t) /\ ~Takes(opening[c], t))
    <3>1. Takers(t)' \subseteq Takers(t)
      BY <2>4 DEF Takers
    <3>2. Cardinality(Takers(t)') <= Cardinality(Takers(t))
      BY <2>2, <3>1, FS_Subset
    <3>3. QED
      BY <2>1, <2>2, <3>2
  <2>5. QED
    BY <2>3, <2>4
<1>6. QED
  BY <1>1, <1>2, <1>3, <1>4, <1>5 DEF OpenInv, O!Locks, O!Tables

LEMMA OpenFields ==
    ASSUME O!TypeOK, NEW c \in Openers
    PROVE  /\ opening[c] \in O!Opening /\ opening[c].todo \in Todos
           /\ opening[c].at \in {"lock", "read", "insert", "audit"}
           /\ opening[c].number \in {0} \cup O!Numbers /\ opening[c].holds \in SUBSET O!Locks
           /\ opening[c].inserted \in [O!Tables -> {0} \cup O!Numbers]
  BY DEF O!TypeOK, O!Opening, Todos

LEMMA BeginKeeps ==
    ASSUME OpenInv, NEW c \in Openers, NEW tables \in Todos \ {<< >>}, O!Begin(c, tables)
    PROVE  OpenInv'
<1>0. O!TypeOK /\ OpenFits(opening[c]) /\ opening[c].todo = << >>
  BY DEF OpenInv, O!Begin
<1>1. opening[c].at = "lock"
  BY <1>0, OpenFields DEF OpenFits
<1>2. opening' = [opening EXCEPT ![c].todo = tables] /\ UNCHANGED <<given, refused>>
  BY DEF O!Begin
<1>3. opening \in [Openers -> O!Opening] /\ opening[c] \in O!Opening
  BY <1>0 DEF O!TypeOK
<1>4. /\ opening' \in [Openers -> O!Opening] /\ \A d \in Openers \ {c} : opening'[d] = opening[d]
      /\ opening'[c].todo = tables /\ opening'[c].at = opening[c].at
      /\ opening'[c].holds = opening[c].holds /\ opening'[c].inserted = opening[c].inserted
  BY <1>2, <1>3 DEF O!Opening, Todos
<1>5. OpenFits(opening'[c])
  BY <1>0, <1>1, <1>4 DEF OpenFits
<1>6. \A t \in O!Tables : Numbered(opening'[c], t, Top(t))
  BY <1>1, <1>4 DEF OpenInv, Numbered
<1>7. ASSUME NEW t \in O!Tables, Takes(opening'[c], t)
      PROVE  Takes(opening[c], t) \/ Top(t) + Cardinality(Takers(t)) < MaxNumber
  <2>1. CASE opening[c].inserted[t] # 0
    BY <2>1 DEF Takes
  <2>2. CASE opening[c].inserted[t] = 0
    <3>1. PICK i \in DOMAIN tables : tables[i] = t
      BY <1>4, <1>7, <2>2 DEF Takes, Listed
    <3>2. O!Room(t)
      BY <3>1 DEF O!Begin
    <3>3. Takers(t) = {d \in Openers : \E j \in DOMAIN opening[d].todo : opening[d].todo[j] = t}
                          \cup {d \in Openers : opening[d].inserted[t] # 0}
      BY DEF Takers, Takes, Listed
    <3>4. QED
      BY <3>2, <3>3, SameFileCount DEF O!Room, Top
  <2>3. QED
    BY <2>1, <2>2
<1>8. QED
  BY <1>2, <1>4, <1>5, <1>6, <1>7, OpenStep

LEMMA PrefixKeeps ==
    ASSUME OpenInv, NEW c \in Openers, O!LockPrefix(c)
    PROVE  OpenInv'
<1>0. O!TypeOK /\ OpenFits(opening[c]) /\ opening[c].todo \in Todos \ {<< >>} /\ opening[c].at = "lock"
  BY OpenFields DEF OpenInv, O!LockPrefix, O!Is
<1>1. PICK t \in O!Tables : t = opening[c].todo[1]
  BY <1>0, TodoFacts
<1>2. O!Wanted(c) = t /\ t \in O!Locks
  BY <1>0, <1>1 DEF O!Wanted, O!Table, O!Locks
<1>3. /\ opening' = [opening EXCEPT ![c].at = "read", ![c].holds = @ \cup {t}] /\ UNCHANGED <<given, refused>>
      /\ \A d \in Openers \ {c} : t \notin opening[d].holds
  BY <1>2 DEF O!LockPrefix, O!Free, O!Others
<1>4. opening \in [Openers -> O!Opening] /\ opening[c] \in O!Opening /\ opening[c].holds \cup {t} \in SUBSET O!Locks
  BY <1>0, <1>2, OpenFields DEF O!TypeOK
<1>5. /\ opening' \in [Openers -> O!Opening] /\ \A d \in Openers \ {c} : opening'[d] = opening[d]
      /\ opening'[c].todo = opening[c].todo /\ opening'[c].at = "read"
      /\ opening'[c].holds = opening[c].holds \cup {t} /\ opening'[c].inserted = opening[c].inserted
  BY <1>3, <1>4 DEF O!Opening
<1>6. OpenFits(opening'[c])
  BY <1>0, <1>1, <1>5 DEF OpenFits
<1>7. \A u \in O!Tables : Numbered(opening'[c], u, Top(u))
  BY <1>5 DEF OpenInv, Numbered
<1>8. \A u \in O!Tables : Takes(opening'[c], u) => Takes(opening[c], u)
  BY <1>5 DEF Takes
<1>9. \A lock \in O!Locks :
          lock \in opening'[c].holds => \/ lock \in opening[c].holds
                                        \/ \A d \in Openers \ {c} : lock \notin opening[d].holds
  BY <1>3, <1>5
<1>10. QED
  BY <1>3, <1>5, <1>6, <1>7, <1>8, <1>9, OpenStep

LEMMA HighestIsTop ==
    ASSUME NEW k \in Nat
    PROVE  O!Highest(1 .. k) = k
<1>1. CASE k = 0
  BY <1>1 DEF O!Highest
<1>2. CASE k # 0
  <2>1. k \in 1 .. k /\ \A m \in 1 .. k : m <= k
    BY <1>2
  <2>2. \A n \in 1 .. k : (\A m \in 1 .. k : m <= n) => n = k
    BY <2>1
  <2>3. 1 .. k # {}
    BY <2>1
  <2>4. QED
    BY <2>1, <2>2, <2>3 DEF O!Highest
<1>3. QED
  BY <1>1, <1>2

LEMMA NumberKeeps ==
    ASSUME OpenInv, NEW c \in Openers, O!ReadNumber(c)
    PROVE  OpenInv'
<1>0. O!TypeOK /\ OpenFits(opening[c]) /\ opening[c].todo \in Todos \ {<< >>} /\ opening[c].at = "read"
  BY OpenFields DEF OpenInv, O!ReadNumber, O!Is
<1>1. PICK t \in O!Tables : t = opening[c].todo[1]
  BY <1>0, TodoFacts
<1>2. Top(t) \in Nat /\ given[t] = 1 .. Top(t) /\ Top(t) + Cardinality(Takers(t)) <= MaxNumber
  BY <1>0, OpenCounts DEF OpenInv
<1>3. Top(t) + 1 \in O!Numbers
  <2>1. c \in Takers(t)
    BY <1>0, <1>1, TodoFacts DEF Takers, Takes
  <2>2. Cardinality(Takers(t)) \in Nat /\ Cardinality(Takers(t)) # 0
    BY <1>0, <2>1, OpenCounts, FS_EmptySet
  <2>3. QED
    BY <1>2, <2>2, WorkAssumption DEF O!Numbers
<1>4. opening' = [opening EXCEPT ![c].at = "insert", ![c].number = Top(t) + 1] /\ UNCHANGED <<given, refused>>
  BY <1>1, <1>2, HighestIsTop DEF O!ReadNumber, O!Table
<1>5. opening \in [Openers -> O!Opening] /\ opening[c] \in O!Opening
  BY <1>0 DEF O!TypeOK
<1>6. /\ opening' \in [Openers -> O!Opening] /\ \A d \in Openers \ {c} : opening'[d] = opening[d]
      /\ opening'[c].todo = opening[c].todo /\ opening'[c].at = "insert" /\ opening'[c].number = Top(t) + 1
      /\ opening'[c].holds = opening[c].holds /\ opening'[c].inserted = opening[c].inserted
  BY <1>3, <1>4, <1>5 DEF O!Opening
<1>7. OpenFits(opening'[c])
  BY <1>0, <1>6 DEF OpenFits
<1>8. \A u \in O!Tables : Numbered(opening'[c], u, Top(u))
  BY <1>1, <1>6 DEF OpenInv, Numbered
<1>9. \A u \in O!Tables : Takes(opening'[c], u) => Takes(opening[c], u)
  BY <1>6 DEF Takes
<1>10. QED
  BY <1>4, <1>6, <1>7, <1>8, <1>9, OpenStep

LEMMA InsertKeeps ==
    ASSUME OpenInv, NEW c \in Openers, O!Insert(c)
    PROVE  OpenInv'
<1>0. O!TypeOK /\ OpenFits(opening[c]) /\ opening[c].todo \in Todos \ {<< >>} /\ opening[c].at = "insert"
  BY OpenFields DEF OpenInv, O!Insert, O!Is
<1>1. PICK t \in O!Tables : t = opening[c].todo[1]
  BY <1>0, TodoFacts
<1>2. Top(t) \in Nat /\ given[t] = 1 .. Top(t) /\ opening[c].number = Top(t) + 1
  BY <1>0, <1>1, OpenCounts DEF OpenInv, Numbered
<1>3. opening[c].number \notin given[t]
  BY <1>2
<1>4. /\ opening' = [opening EXCEPT ![c].at = "audit", ![c].inserted[t] = opening[c].number]
      /\ UNCHANGED <<given, refused>>
  BY <1>1, <1>3 DEF O!Insert, O!Table
<1>5. /\ opening \in [Openers -> O!Opening] /\ opening[c] \in O!Opening
      /\ opening[c].inserted \in [O!Tables -> {0} \cup O!Numbers] /\ opening[c].number \in {0} \cup O!Numbers
  BY <1>0, OpenFields DEF O!TypeOK
<1>6. [opening[c].inserted EXCEPT ![t] = opening[c].number] \in [O!Tables -> {0} \cup O!Numbers]
  BY <1>5
<1>7. /\ opening' \in [Openers -> O!Opening] /\ \A d \in Openers \ {c} : opening'[d] = opening[d]
      /\ opening'[c].todo = opening[c].todo /\ opening'[c].at = "audit"
      /\ opening'[c].holds = opening[c].holds
      /\ opening'[c].inserted = [opening[c].inserted EXCEPT ![t] = opening[c].number]
  BY <1>4, <1>5, <1>6 DEF O!Opening
<1>8. opening'[c].inserted[t] = Top(t) + 1 /\ \A u \in O!Tables \ {t} : opening'[c].inserted[u] = opening[c].inserted[u]
  BY <1>2, <1>5, <1>7
<1>9. Top(t) + 1 # 0
  BY <1>2
<1>10. OpenFits(opening'[c])
  BY <1>0, <1>1, <1>7, <1>8, <1>9 DEF OpenFits
<1>11. \A u \in O!Tables : Numbered(opening'[c], u, Top(u))
  BY <1>1, <1>7, <1>8 DEF OpenInv, Numbered
<1>12. \A u \in O!Tables : Takes(opening'[c], u) => Takes(opening[c], u)
  BY <1>0, <1>1, <1>7, <1>8, TodoFacts DEF Takes
<1>13. QED
  BY <1>4, <1>7, <1>10, <1>11, <1>12, OpenStep

LEMMA IdleFacts ==
    /\ O!Idle \in O!Opening /\ O!Idle.todo = << >> /\ O!Idle.at = "lock" /\ O!Idle.holds = {}
    /\ \A t \in O!Tables : O!Idle.inserted[t] = 0 /\ ~Takes(O!Idle, t)
    /\ OpenFits(O!Idle) /\ \A t \in O!Tables, top \in Nat : Numbered(O!Idle, t, top)
<1>1. O!Idle \in O!Opening /\ O!Idle.todo = << >> /\ O!Idle.at = "lock" /\ O!Idle.holds = {}
  BY DEF O!Idle, O!Opening
<1>2. \A t \in O!Tables : O!Idle.inserted[t] = 0
  BY DEF O!Idle
<1>3. \A t \in O!Tables : ~Takes(O!Idle, t)
  BY <1>1, <1>2, TodoFacts DEF Takes
<1>4. OpenFits(O!Idle)
  BY <1>1, <1>2 DEF OpenFits
<1>5. \A t \in O!Tables, top \in Nat : Numbered(O!Idle, t, top)
  BY <1>1, <1>2 DEF Numbered
<1>6. QED
  BY <1>1, <1>2, <1>3, <1>4, <1>5

LEMMA UndoneKeeps ==
    ASSUME OpenInv, NEW c \in Openers, O!Undone(c), UNCHANGED <<given, refused>>
    PROVE  OpenInv'
<1>1. O!TypeOK /\ \A t \in O!Tables : Top(t) \in Nat
  BY OpenCounts DEF OpenInv
<1>2. /\ opening' \in [Openers -> O!Opening] /\ \A d \in Openers \ {c} : opening'[d] = opening[d]
      /\ opening'[c] = O!Idle
  BY <1>1, IdleFacts DEF O!Undone, O!TypeOK
<1>3. OpenFits(opening'[c]) /\ opening'[c].holds = {} /\ \A t \in O!Tables : Numbered(opening'[c], t, Top(t))
  BY <1>1, <1>2, IdleFacts
<1>4. \A t \in O!Tables : ~Takes(opening'[c], t)
  BY <1>2, IdleFacts
<1>5. QED
  BY <1>2, <1>3, <1>4, OpenStep

\* The client is audited and the case comes next.
LEMMA ClientAuditedKeeps ==
    ASSUME OpenInv, NEW c \in Openers, O!Audit(c), Len(opening[c].todo) # 1
    PROVE  OpenInv'
<1>0. O!TypeOK /\ OpenFits(opening[c]) /\ opening[c].todo \in Todos \ {<< >>} /\ opening[c].at = "audit"
  BY OpenFields DEF OpenInv, O!Audit, O!Is
<1>1. PICK t \in O!Tables : t = opening[c].todo[1]
  BY <1>0, TodoFacts
<1>2. PICK rest \in Todos \ {<< >>} : rest = Tail(opening[c].todo)
  BY <1>0, TodoFacts
<1>3. \A u \in O!Tables : Listed(rest, u) => Listed(opening[c].todo, u)
  BY <1>0, <1>2, TodoFacts
<1>4. /\ opening' = [opening EXCEPT ![c].todo = rest, ![c].at = "lock", ![c].number = 0,
                                    ![c].holds = @ \cup {"chain"}]
      /\ UNCHANGED <<given, refused>> /\ \A d \in Openers \ {c} : "chain" \notin opening[d].holds
  BY <1>2 DEF O!Audit, O!Free, O!Others
<1>5. /\ opening \in [Openers -> O!Opening] /\ opening[c] \in O!Opening
      /\ opening[c].holds \cup {"chain"} \in SUBSET O!Locks
  BY <1>0, OpenFields DEF O!TypeOK, O!Locks
<1>6. /\ opening' \in [Openers -> O!Opening] /\ \A d \in Openers \ {c} : opening'[d] = opening[d]
      /\ opening'[c].todo = rest /\ opening'[c].at = "lock"
      /\ opening'[c].holds = opening[c].holds \cup {"chain"} /\ opening'[c].inserted = opening[c].inserted
  BY <1>4, <1>5 DEF O!Opening, Todos
<1>7. OpenFits(opening'[c])
  BY <1>0, <1>6 DEF OpenFits
<1>8. \A u \in O!Tables : Numbered(opening'[c], u, Top(u))
  BY <1>6 DEF OpenInv, Numbered
<1>9. \A u \in O!Tables : Takes(opening'[c], u) => Takes(opening[c], u)
  BY <1>3, <1>6 DEF Takes
<1>10. \A lock \in O!Locks :
           lock \in opening'[c].holds => \/ lock \in opening[c].holds
                                         \/ \A d \in Openers \ {c} : lock \notin opening[d].holds
  BY <1>4, <1>6
<1>11. QED
  BY <1>4, <1>6, <1>7, <1>8, <1>9, <1>10, OpenStep

\* The last audit row, and the commit.
LEMMA OpeningCommits ==
    ASSUME OpenInv, NEW c \in Openers, O!Audit(c), Len(opening[c].todo) = 1
    PROVE  OpenInv'
<1>0. O!TypeOK /\ OpenFits(opening[c]) /\ opening[c].todo \in Todos \ {<< >>} /\ opening[c].at = "audit"
  BY OpenFields DEF OpenInv, O!Audit, O!Is
<1>1. /\ given' = [t \in O!Tables |-> given[t] \cup ({opening[c].inserted[t]} \ {0})]
      /\ opening' = [opening EXCEPT ![c] = O!Idle] /\ UNCHANGED refused
  BY DEF O!Audit, O!Undone
<1>2. opening'[c] = O!Idle /\ \A d \in Openers : d # c => opening'[d] = opening[d]
  BY <1>0, <1>1 DEF O!TypeOK
<1>3. \A t \in O!Tables : opening[c].inserted[t] \in {0} \cup O!Numbers
  BY <1>0, OpenFields
<1>4. O!TypeOK'
  BY <1>0, <1>1, <1>3, IdleFacts DEF O!TypeOK
<1>5. \A d \in Openers : OpenFits(opening'[d]) /\ ~refused'[d]
  BY <1>1, <1>2, IdleFacts DEF OpenInv
<1>6. \A lock \in O!Locks : Held(lock)'
  BY <1>2, IdleFacts DEF OpenInv, Held
<1>7. ASSUME NEW t \in O!Tables
      PROVE  /\ given'[t] = 1 .. Top(t)'
             /\ \A d \in Openers : Numbered(opening'[d], t, Top(t)')
             /\ Top(t)' + Cardinality(Takers(t)') <= MaxNumber
  <2>1. /\ Top(t) \in Nat /\ given[t] = 1 .. Top(t) /\ Top(t) + Cardinality(Takers(t)) <= MaxNumber
        /\ IsFiniteSet(Takers(t)) /\ Cardinality(Takers(t)) \in Nat /\ MaxNumber \in Nat
    BY <1>0, OpenCounts, WorkAssumption DEF OpenInv
  <2>2. PICK k \in Nat : k = Top(t)
    BY <2>1
  <2>3. Takers(t)' = Takers(t) \ {c}
    BY <1>2, IdleFacts DEF Takers
  <2>4. CASE opening[c].inserted[t] = 0
    <3>1. given'[t] = given[t]
      BY <1>1, <2>4
    <3>2. Top(t)' = Top(t)
      BY <3>1 DEF Top
    <3>3. Cardinality(Takers(t)') <= Cardinality(Takers(t)) /\ Cardinality(Takers(t)') \in Nat
      BY <1>0, <2>1, <2>3, FS_Subset, OpenCounts
    <3>4. \A d \in Openers : Numbered(opening'[d], t, Top(t))
      BY <1>2, <2>1, IdleFacts DEF OpenInv
    <3>5. QED
      BY <2>1, <3>1, <3>2, <3>3, <3>4
  <2>5. CASE opening[c].inserted[t] # 0
    <3>1. opening[c].inserted[t] = k + 1
      BY <2>2, <2>5 DEF OpenInv, Numbered
    <3>2. given'[t] = (1 .. k) \cup {k + 1}
      BY <1>1, <2>1, <2>2, <2>5, <3>1
    <3>3. given'[t] = 1 .. k + 1
      BY <3>2
    <3>4. Top(t)' = k + 1
      <4>1. Cardinality(1 .. k + 1) = k + 1
        BY FS_Interval
      <4>2. QED
        BY <3>3, <4>1 DEF Top
    <3>5. c \in Takers(t)
      BY <2>5 DEF Takers, Takes
    <3>6. Cardinality(Takers(t)') = Cardinality(Takers(t)) - 1
      BY <2>1, <2>3, <3>5, FS_RemoveElement
    <3>7. ASSUME NEW d \in Openers PROVE Numbered(opening'[d], t, k + 1)
      <4>1. CASE d = c
        BY <1>2, <4>1, IdleFacts
      <4>2. CASE d # c
        <5>1. t \in opening[c].holds /\ t \in O!Locks
          BY <1>0, <2>5 DEF OpenFits, O!Locks
        <5>2. t \notin opening[d].holds
          BY <4>2, <5>1 DEF OpenInv, Held
        <5>3. OpenFits(opening[d])
          BY DEF OpenInv
        <5>4. opening[d].inserted[t] = 0 /\ ~(opening[d].at = "insert" /\ opening[d].todo[1] = t)
          BY <5>2, <5>3 DEF OpenFits
        <5>5. QED
          BY <1>2, <4>2, <5>4 DEF Numbered
      <4>3. QED
        BY <4>1, <4>2
    <3>8. QED
      BY <2>1, <2>2, <3>3, <3>4, <3>6, <3>7
  <2>6. QED
    BY <2>4, <2>5
<1>8. QED
  BY <1>4, <1>5, <1>6, <1>7 DEF OpenInv, O!Locks, O!Tables

LEMMA OpenInit == O!Init => OpenInv
<1> SUFFICES ASSUME O!Init PROVE OpenInv
  OBVIOUS
<1>1. /\ \A t \in O!Tables : given[t] = {}
      /\ \A c \in Openers : opening[c] = O!Idle /\ ~refused[c]
  BY DEF O!Init
<1>2. O!TypeOK
  BY IdleFacts DEF O!Init, O!TypeOK
<1>3. \A t \in O!Tables : Top(t) = 0
  BY <1>1, FS_EmptySet DEF Top
<1>4. \A t \in O!Tables : Takers(t) = {}
  BY <1>1, IdleFacts DEF Takers
<1>5. 1 .. 0 = {}
  OBVIOUS
<1>6. \A t \in O!Tables : Top(t) + Cardinality(Takers(t)) <= MaxNumber
  <2>1. Cardinality({}) = 0
    BY FS_EmptySet
  <2>2. \A t \in O!Tables : Cardinality(Takers(t)) = 0
    BY <1>4, <2>1
  <2>3. MaxNumber \in Nat
    BY WorkAssumption
  <2>4. QED
    BY <1>3, <2>2, <2>3
<1>7. \A t \in O!Tables : given[t] = 1 .. Top(t) /\ \A c \in Openers : Numbered(opening[c], t, Top(t))
  BY <1>1, <1>3, <1>5, IdleFacts
<1>8. \A lock \in O!Locks : Held(lock)
  BY <1>1, IdleFacts DEF Held
<1>9. QED
  BY <1>1, <1>2, <1>6, <1>7, <1>8, IdleFacts DEF OpenInv

LEMMA FirmOpenStep ==
    ASSUME OpenInv, [FirmNext]_ofFirm
    PROVE  OpenInv'
<1>1. CASE O!Next
  <2>1. PICK c \in Openers :
            \/ \E tables \in {<<"clients">>, <<"cases">>, <<"clients", "cases">>} : O!Begin(c, tables)
            \/ O!Steps(c) \/ O!RefuseCase(c)
    BY <1>1 DEF O!Next
  <2>2. CASE \E tables \in {<<"clients">>, <<"cases">>, <<"clients", "cases">>} : O!Begin(c, tables)
    <3>1. PICK tables \in {<<"clients">>, <<"cases">>, <<"clients", "cases">>} : O!Begin(c, tables)
      BY <2>2
    <3>2. tables # << >>
      BY <3>1
    <3>3. tables \in Todos \ {<< >>}
      BY <3>2 DEF Todos
    <3>4. QED
      BY <3>1, <3>3, BeginKeeps
  <2>3. CASE O!LockPrefix(c)
    BY <2>3, PrefixKeeps
  <2>4. CASE O!ReadNumber(c)
    BY <2>4, NumberKeeps
  <2>5. CASE O!Insert(c)
    BY <2>5, InsertKeeps
  <2>6. CASE O!Audit(c)
    BY <2>6, ClientAuditedKeeps, OpeningCommits
  <2>7. CASE O!DeadlockBroken(c) \/ O!RefuseCase(c)
    BY <2>7, UndoneKeeps DEF O!DeadlockBroken, O!RefuseCase
  <2>8. QED
    BY <2>1, <2>2, <2>3, <2>4, <2>5, <2>6, <2>7 DEF O!Steps
<1>2. CASE UNCHANGED ofOpening
  BY <1>2 DEF ofOpening, OpenInv, O!TypeOK, Held, Top, Takers, O!Locks, O!Tables, O!Numbers, O!Opening
<1>3. QED
  BY <1>1, <1>2 DEF FirmNext, ofFirm

\* In which order a transaction takes the locks: a client's first, and the
\* chain after it, if a case follows.
OrderFits(row) ==
    /\ "chain" \in row.holds => row.todo = <<"cases">>
    /\ "cases" \in row.holds => row.todo = <<"cases">> /\ row.at # "lock"
    /\ row.at = "lock" /\ row.holds # {} => "chain" \in row.holds
    /\ row.todo = << >> => row.holds = {}

OrderInv == \A c \in Openers : OrderFits(opening[c])

LEMMA OrderKeeps ==
    ASSUME O!TypeOK, OrderInv, NEW c \in Openers, NEW row, opening' = [opening EXCEPT ![c] = row], OrderFits(row)
    PROVE  OrderInv'
<1>1. \A d \in Openers : opening'[d] = IF d = c THEN row ELSE opening[d]
  BY DEF O!TypeOK
<1>2. QED
  BY <1>1 DEF OrderInv

LEMMA OrderStep ==
    ASSUME OpenInv, OrderInv, O!Next
    PROVE  OrderInv'
<1>0. O!TypeOK
  BY DEF OpenInv
<1>1. PICK c \in Openers :
          \/ \E tables \in {<<"clients">>, <<"cases">>, <<"clients", "cases">>} : O!Begin(c, tables)
          \/ O!Steps(c) \/ O!RefuseCase(c)
  BY DEF O!Next
<1> DEFINE row == opening[c]
<1>2. /\ row \in O!Opening /\ row.todo \in Todos /\ row.holds \in SUBSET O!Locks
      /\ row.at \in {"lock", "read", "insert", "audit"}
  BY <1>0, OpenFields
<1>3. OrderFits(row) /\ OpenFits(row)
  BY DEF OrderInv, OpenInv
<1>4. O!Undone(c) => OrderInv'
  <2>1. OrderFits(O!Idle)
    BY IdleFacts DEF OrderFits
  <2>2. QED
    BY <1>0, <2>1, OrderKeeps DEF O!Undone
<1>5. ASSUME NEW new, opening' = [opening EXCEPT ![c] = new], new.todo = row.todo, new.holds = row.holds,
             new.at = row.at \/ new.at # "lock"
      PROVE  OrderInv'
  <2>1. OrderFits(new)
    BY <1>3, <1>5 DEF OrderFits
  <2>2. QED
    BY <1>0, <1>5, <2>1, OrderKeeps
<1>6. CASE \E tables \in {<<"clients">>, <<"cases">>, <<"clients", "cases">>} : O!Begin(c, tables)
  <2>1. PICK tables \in Todos : row.todo = << >> /\ opening' = [opening EXCEPT ![c].todo = tables]
    BY <1>6 DEF O!Begin, Todos
  <2> DEFINE new == [row EXCEPT !.todo = tables]
  <2>2. opening' = [opening EXCEPT ![c] = new]
    BY <1>0, <2>1 DEF O!TypeOK
  <2>3. new.holds = row.holds /\ row.holds = {}
    BY <1>2, <1>3, <2>1 DEF OrderFits, O!Opening
  <2>4. new.todo = << >> => new.holds = {}
    BY <2>3
  <2>5. OrderFits(new)
    BY <2>3, <2>4 DEF OrderFits
  <2>6. QED
    BY <1>0, <2>2, <2>5, OrderKeeps
<1>7. CASE O!LockPrefix(c)
  <2>1. row.todo \in Todos \ {<< >>} /\ row.at = "lock"
    BY <1>2, <1>7 DEF O!LockPrefix, O!Is
  <2>2. PICK t \in O!Tables : t = row.todo[1]
    BY <2>1, TodoFacts
  <2>3. O!Wanted(c) = t
    BY <2>1, <2>2 DEF O!Wanted, O!Table
  <2> DEFINE new == [row EXCEPT !.at = "read", !.holds = row.holds \cup {t}]
  <2>4. opening' = [opening EXCEPT ![c] = new]
    BY <1>0, <1>7, <2>3 DEF O!LockPrefix, O!TypeOK
  <2>5. new.todo = row.todo /\ new.at = "read" /\ new.holds = row.holds \cup {t}
    BY <1>2 DEF O!Opening
  <2>6. t = "cases" => row.todo = <<"cases">>
    <3>1. <<"clients">>[1] = "clients" /\ <<"clients", "cases">>[1] = "clients" /\ "clients" # "cases"
      OBVIOUS
    <3>2. row.todo \in {<<"clients">>, <<"cases">>, <<"clients", "cases">>}
      BY <2>1 DEF Todos
    <3>3. QED
      BY <2>2, <3>1, <3>2
  <2>7. t # "chain"
    BY <2>2 DEF O!Tables
  <2> HIDE DEF new
  <2>8. OrderFits(new)
    BY <1>3, <2>1, <2>5, <2>6, <2>7 DEF OrderFits
  <2>9. QED
    BY <1>0, <2>4, <2>8, OrderKeeps
<1>8. CASE O!ReadNumber(c)
  <2> DEFINE new == [row EXCEPT !.at = "insert", !.number = O!Highest(given[O!Table(c)]) + 1]
  <2>1. opening' = [opening EXCEPT ![c] = new]
    BY <1>0, <1>8 DEF O!ReadNumber, O!TypeOK
  <2>2. new.todo = row.todo /\ new.holds = row.holds /\ new.at # "lock"
    BY <1>2 DEF O!Opening
  <2>3. QED
    BY <1>5, <2>1, <2>2
<1>9. CASE O!Insert(c)
  <2>1. CASE O!Undone(c)
    BY <1>4, <2>1
  <2>2. CASE opening' = [opening EXCEPT ![c].at = "audit", ![c].inserted[O!Table(c)] = opening[c].number]
    <3> DEFINE new == [row EXCEPT !.at = "audit", !.inserted = [row.inserted EXCEPT ![O!Table(c)] = row.number]]
    <3>1. opening' = [opening EXCEPT ![c] = new]
      BY <1>0, <2>2 DEF O!TypeOK
    <3>2. new.todo = row.todo /\ new.holds = row.holds /\ new.at # "lock"
      BY <1>2 DEF O!Opening
    <3>3. QED
      BY <1>5, <3>1, <3>2
  <2>3. QED
    BY <1>9, <2>1, <2>2 DEF O!Insert
<1>10. CASE O!Audit(c)
  <2>1. CASE Len(row.todo) = 1
    BY <1>4, <1>10, <2>1 DEF O!Audit
  <2>2. CASE Len(row.todo) # 1
    <3> DEFINE new == [row EXCEPT !.todo = Tail(row.todo), !.at = "lock", !.number = 0, !.holds = row.holds \cup {"chain"}]
    <3>1. opening' = [opening EXCEPT ![c] = new] /\ row.todo # << >>
      BY <1>0, <1>10, <2>2 DEF O!Audit, O!Is, O!TypeOK
    <3>2. new.todo = Tail(row.todo) /\ new.at = "lock" /\ new.holds = row.holds \cup {"chain"}
      BY <1>2 DEF O!Opening
    <3>3. row.todo = <<"clients", "cases">>
      BY <1>2, <2>2, <3>1 DEF Todos
    <3>4. row.todo # <<"cases">> /\ Tail(row.todo) = <<"cases">>
      BY <3>3
    <3>5. "cases" \notin row.holds
      BY <1>3, <3>4 DEF OrderFits
    <3>6. <<"cases">> # << >>
      OBVIOUS
    <3> HIDE DEF new
    <3>7. OrderFits(new)
      BY <3>2, <3>4, <3>5, <3>6 DEF OrderFits
    <3>8. QED
      BY <1>0, <3>1, <3>7, OrderKeeps
  <2>3. QED
    BY <2>1, <2>2
<1>11. CASE O!DeadlockBroken(c) \/ O!RefuseCase(c)
  BY <1>4, <1>11 DEF O!DeadlockBroken, O!RefuseCase
<1>12. QED
  BY <1>1, <1>6, <1>7, <1>8, <1>9, <1>10, <1>11 DEF O!Steps

\* Whoever has the chain may go on, or waits for the prefix of the cases and
\* whoever has that may; if nobody has the chain, nobody waits in vain.
LEMMA OpenersMayGo ==
    ASSUME OpenInv, OrderInv
    PROVE  O!SomebodyMayGo
<1> SUFFICES ASSUME NEW b \in Openers, opening[b].todo # << >>
             PROVE  \E c \in Openers : opening[c].todo # << >> /\ O!MayGo(c)
  BY DEF O!SomebodyMayGo, O!UnderWay
<1>1. \A c \in Openers : /\ opening[c].todo \in Todos /\ OpenFits(opening[c]) /\ OrderFits(opening[c])
                         /\ opening[c].at \in {"lock", "read", "insert", "audit"}
                         /\ O!Others(c) = Openers \ {c}
  BY OpenFields DEF OpenInv, OrderInv, O!Others
<1>2. \A lock \in O!Locks : Held(lock)
  BY DEF OpenInv
<1>3. ASSUME NEW c \in Openers, opening[c].todo # << >>, opening[c].at \in {"read", "insert"}
      PROVE  O!MayGo(c)
  <2>1. CASE opening[c].at = "read"
    BY <2>1 DEF O!MayGo
  <2>2. CASE opening[c].at = "insert"
    <3>1. PICK t \in O!Tables : t = opening[c].todo[1]
      BY <1>1, <1>3, TodoFacts
    <3>2. t \in opening[c].holds /\ t \in O!Locks
      BY <1>1, <2>2, <3>1 DEF OpenFits, O!Locks
    <3>3. \A d \in Openers \ {c} : opening[d].inserted[t] = 0
      BY <1>1, <1>2, <3>2 DEF OpenFits, Held
    <3>4. opening[c].number = Top(t) + 1 /\ Top(t) \in Nat
      BY <2>2, <3>1, OpenCounts DEF OpenInv, Numbered
    <3>5. opening[c].number # 0
      BY <3>4
    <3>6. opening[c].number \notin O!Uncommitted(c, O!Table(c))
      BY <1>1, <3>1, <3>3, <3>5 DEF O!Uncommitted, O!Table
    <3>7. QED
      BY <2>2, <3>6 DEF O!MayGo
  <2>3. QED
    BY <1>3, <2>1, <2>2
<1>4. "chain" \in O!Locks /\ "cases" \in O!Locks /\ <<"cases">> # << >> /\ <<"cases">>[1] = "cases"
  BY DEF O!Locks, O!Tables
<1>5. CASE \E h \in Openers : "chain" \in opening[h].holds
  <2>1. PICK h \in Openers : "chain" \in opening[h].holds
    BY <1>5
  <2>2. opening[h].todo = <<"cases">> /\ \A d \in Openers \ {h} : "chain" \notin opening[d].holds
    BY <1>1, <1>2, <1>4, <2>1 DEF OrderFits, Held
  <2>3. CASE opening[h].at \in {"read", "insert"}
    BY <1>3, <1>4, <2>2, <2>3
  <2>4. CASE opening[h].at = "audit"
    <3>1. O!Free(h, O!Wanted(h))
      BY <1>1, <2>2, <2>4 DEF O!Free, O!Wanted
    <3>2. QED
      BY <1>4, <2>2, <2>4, <3>1 DEF O!MayGo
  <2>5. CASE opening[h].at = "lock" /\ O!Free(h, "cases")
    <3>1. O!Wanted(h) = "cases"
      BY <1>4, <2>2, <2>5 DEF O!Wanted, O!Table
    <3>2. QED
      BY <1>4, <2>2, <2>5, <3>1 DEF O!MayGo
  <2>6. CASE opening[h].at = "lock" /\ ~O!Free(h, "cases")
    <3>1. PICK d \in Openers \ {h} : "cases" \in opening[d].holds
      BY <1>1, <2>6 DEF O!Free
    <3>2. opening[d].todo = <<"cases">> /\ opening[d].at # "lock"
      BY <1>1, <3>1 DEF OrderFits
    <3>3. CASE opening[d].at \in {"read", "insert"}
      BY <1>3, <1>4, <3>2, <3>3
    <3>4. CASE opening[d].at = "audit"
      <4>1. O!Wanted(h) = "cases" /\ O!Wanted(d) = "chain"
        BY <1>4, <2>2, <2>6, <3>4 DEF O!Wanted, O!Table
      <4>2. O!Waits(d)
        BY <1>1, <1>4, <2>1, <3>1, <3>2, <3>4, <4>1 DEF O!Waits, O!Free
      <4>3. O!Crossed(h)
        BY <1>1, <2>1, <3>1, <4>1, <4>2 DEF O!Crossed
      <4>4. QED
        BY <1>4, <2>2, <2>6, <4>3 DEF O!MayGo
    <3>5. QED
      BY <1>1, <3>1, <3>2, <3>3, <3>4
  <2>7. QED
    BY <1>1, <2>3, <2>4, <2>5, <2>6
<1>6. CASE \A h \in Openers : "chain" \notin opening[h].holds
  <2>1. CASE opening[b].at \in {"read", "insert"}
    BY <1>3, <2>1
  <2>2. CASE opening[b].at = "audit"
    <3>1. O!Free(b, O!Wanted(b))
      BY <1>1, <1>6, <2>2 DEF O!Free, O!Wanted
    <3>2. QED
      BY <2>2, <3>1 DEF O!MayGo
  <2>3. CASE opening[b].at = "lock" /\ O!Free(b, O!Wanted(b))
    BY <2>3 DEF O!MayGo
  <2>4. CASE opening[b].at = "lock" /\ ~O!Free(b, O!Wanted(b))
    <3>1. PICK d \in Openers \ {b} : O!Wanted(b) \in opening[d].holds
      BY <1>1, <2>4 DEF O!Free
    <3>2. opening[d].todo # << >> /\ opening[d].at # "lock"
      BY <1>1, <1>6, <3>1 DEF OrderFits
    <3>3. CASE opening[d].at \in {"read", "insert"}
      BY <1>3, <3>2, <3>3
    <3>4. CASE opening[d].at = "audit"
      <4>1. O!Free(d, O!Wanted(d))
        BY <1>1, <1>6, <3>4 DEF O!Free, O!Wanted
      <4>2. QED
        BY <3>2, <3>4, <4>1 DEF O!MayGo
    <3>5. QED
      BY <1>1, <3>2, <3>3, <3>4
  <2>5. QED
    BY <1>1, <2>1, <2>2, <2>3, <2>4
<1>7. QED
  BY <1>5, <1>6

(* However many clients and cases are opened at once, whichever of them the *)
(* database breaks off, no reference is drawn twice; and however many saves *)
(* of a statement meet, the index on the standing one turns none away: the  *)
(* locks make them wait (nextReference, saveStatement).                     *)
THEOREM WorkLands == FirmSpec => [](O!NeverCollides /\ F!SavesLand)
<1>1. FirmInit => OpenInv /\ FileInv
  BY OpenInit, FileInit DEF FirmInit
<1>2. OpenInv /\ FileInv => O!NeverCollides /\ F!SavesLand
  BY DEF OpenInv, FileInv, TxFits, O!NeverCollides, F!SavesLand, F!At
<1>3. QED
  BY <1>1, <1>2, FirmOpenStep, FirmFileStep, PTL DEF FirmSpec

LEMMA FirmLocksStep ==
    ASSUME OpenInv, FileInv, OrderInv, LocksInv, [FirmNext]_ofFirm
    PROVE  OrderInv' /\ LocksInv'
<1>1. O!Next \/ UNCHANGED ofOpening
  BY DEF FirmNext, ofFirm
<1>2. F!Next \/ UNCHANGED ofFile
  BY DEF FirmNext, ofFirm
<1>3. UNCHANGED ofOpening => OrderInv'
  BY DEF ofOpening, OrderInv
<1>4. QED
  BY <1>1, <1>2, <1>3, OrderStep, LocksStep

(* The requests that open, save and decide never all wait for each other's *)
(* locks, however many they are: in a case file one of them may go on, and *)
(* of the openings one may, or two are in a circle which the database      *)
(* breaks (nextReference and recordAudit, saveStatement and the server     *)
(* action of the advice page).                                             *)
THEOREM SomebodyMayAlwaysGo == FirmSpec => [](O!SomebodyMayGo /\ F!SomebodyMayGo)
<1>1. FirmInit => OpenInv /\ FileInv
  BY OpenInit, FileInit DEF FirmInit
<1>2. FirmInit => OrderInv /\ LocksInv
  <2> SUFFICES ASSUME O!Init /\ F!Init PROVE OrderInv /\ LocksInv
    BY DEF FirmInit
  <2>1. \A c \in Openers : opening[c] = O!Idle
    BY DEF O!Init
  <2>2. \A p \in Savers : tx[p].pc = "page" /\ tx[p].holds = {}
    BY DEF F!Init, F!NoTx
  <2>3. QED
    BY <2>1, <2>2, IdleFacts DEF OrderInv, OrderFits, LocksInv, LocksFit
<1>3. OpenInv /\ FileInv /\ OrderInv /\ LocksInv => O!SomebodyMayGo /\ F!SomebodyMayGo
  BY OpenersMayGo, SaversMayGo
<1>4. QED
  BY <1>1, <1>2, <1>3, FirmOpenStep, FirmFileStep, FirmLocksStep, PTL DEF FirmSpec

-----------------------------------------------------------------------------
(* Migration. *)

MRows == [entity: M!Entities, id: Ids \cup {NoId}, outcome: M!Outcomes]
Identities == [entity: M!Entities, id: Ids, owner: Ids \cup {NoId}]
Run == [mode: {"none", "dry-run", "live"}, at: Nat \ {0}, done: Nat,
        identity: SUBSET Identities, rows: SUBSET MRows]
PastRun == [mode: {"dry-run", "live"}, completed: BOOLEAN, rows: SUBSET MRows]
MTarget == [entity: M!Entities, id: Ids, owner: Ids \cup {NoId}, run: 1 .. MaxRuns]

MigrationTypes ==
    /\ plan \in Plans /\ plan \in Seq(M!Entities)
    /\ source \in [M!Entities -> Seq(M!SourceRecord)]
    /\ target \subseteq MTarget
    /\ runs \in Seq(PastRun) /\ Len(runs) <= MaxRuns
    /\ run \in Run

OutcomeOf(mode, r) ==
    IF r.id = NoId \/ r.kind = "unreadable" THEN "failed"
    ELSE IF r.kind = "filtered" THEN "skipped"
    ELSE IF mode = "live" /\ r.kind = "empty" THEN "failed" ELSE "created"

Owner(e, r) == IF M!Needs(e) = {} THEN NoId ELSE r.refers

Brought(e, r, known) ==
    /\ [entity |-> e, id |-> r.id, owner |-> Owner(e, r)] \in known
    /\ \A need \in M!Needs(e) : \E k \in known : k.entity = need /\ k.id = r.refers

\* What a run has come past, in the order of the plan.
Passed(R, e, i) == \E j \in DOMAIN plan : plan[j] = e /\ (j < R.at \/ (j = R.at /\ i <= R.done))

\* A row stands for one record, and every record that was passed has one.
Kept(R) ==
    /\ \A row \in R.rows : \E i \in DOMAIN source[row.entity] :
          row.id = source[row.entity][i].id /\ row.outcome = OutcomeOf(R.mode, source[row.entity][i])
    /\ \A x, y \in R.rows : x.entity = y.entity /\ x.id = y.id => x = y
    /\ \A e \in M!Entities : \A i \in DOMAIN source[e] : Passed(R, e, i) =>
          /\ \E row \in R.rows : row.entity = e /\ row.id = source[e][i].id
          /\ R.mode = "live" /\ OutcomeOf(R.mode, source[e][i]) = "created" => Brought(e, source[e][i], R.identity)

MigrationInv ==
    /\ MigrationTypes /\ Kept(run) /\ M!BalancedIsComplete
    /\ run.mode = "none" => run = M!Fresh
    /\ run.mode # "none" => Len(runs) < MaxRuns

LEMMA OnePerIndex ==
    ASSUME NEW R, NEW n \in Nat, NEW f \in [1 .. n -> R], \A x \in R : \E i \in 1 .. n : f[i] = x,
           Cardinality(R) = n
    PROVE  \A i, j \in 1 .. n : f[i] = f[j] => i = j
<1>1. f \in Surjection(1 .. n, R)
  BY DEF Surjection
<1>2. IsFiniteSet(1 .. n) /\ Cardinality(1 .. n) = n
  BY FS_Interval
<1>3. f \in Injection(1 .. n, R)
  BY <1>1, <1>2, FS_Surjection
<1>4. QED
  BY <1>3 DEF Injection, IsInjective

\* Identifiers that are not distinct, or missing, show in the counts.
LEMMA BalancedRun ==
    ASSUME MigrationTypes, NEW R \in Run, Kept(R), R.mode = "live", M!Balanced(R.rows),
           \A e \in M!Planned : \A i \in DOMAIN source[e] : Passed(R, e, i),
           NEW e \in M!Planned, NEW i \in DOMAIN source[e], source[e][i].kind # "filtered"
    PROVE  Brought(e, source[e][i], R.identity)
<1>e. e \in M!Entities
  BY DEF M!Planned
<1>0. PICK src \in Seq(M!SourceRecord), n \in Nat : src = source[e] /\ n = Len(src)
  BY <1>e DEF MigrationTypes
<1>1. DOMAIN source[e] = 1 .. n /\ \A k \in 1 .. n : src[k] \in M!SourceRecord
  BY <1>0
<1> DEFINE mine == {row \in R.rows : row.entity = e}
           f == [k \in 1 .. n |-> CHOOSE row \in mine : row.id = src[k].id]
<1>2. \A x, y \in mine : x.id = y.id => x = y
  BY DEF Kept
<1>3. \A k \in 1 .. n : \E row \in mine : row.id = src[k].id
  BY <1>e, <1>0, <1>1 DEF Kept
<1>4. \A row \in mine : \E k \in 1 .. n : row.id = src[k].id /\ row.outcome = OutcomeOf(R.mode, src[k])
  BY <1>e, <1>0, <1>1 DEF Kept
<1>5. \A k \in 1 .. n : f[k] \in mine /\ f[k].id = src[k].id
  BY <1>3
<1>6. f \in [1 .. n -> mine]
  BY <1>5
<1>7. \A row \in mine : \A k \in 1 .. n : row.id = src[k].id => f[k] = row
  BY <1>2, <1>5
<1> HIDE DEF f
<1>8. \A row \in mine : \E k \in 1 .. n : f[k] = row
  BY <1>4, <1>7
<1>9. Cardinality(mine) = n
  <2>1. e \in {row.entity : row \in R.rows}
    BY <1>1, <1>3
  <2>2. QED
    BY <1>0, <2>1, SameFileCount DEF M!Balanced
<1>10. i \in 1 .. n
  BY <1>1
<1>11. PICK k \in 1 .. n : f[i].id = src[k].id /\ f[i].outcome = OutcomeOf(R.mode, src[k])
  BY <1>4, <1>5, <1>10
<1>12. f[k] = f[i]
  BY <1>5, <1>7, <1>10, <1>11
<1>13. k = i
  <2> HIDE DEF mine
  <2>1. n \in Nat
    BY <1>0
  <2>2. \A x, y \in 1 .. n : f[x] = f[y] => x = y
    BY <1>6, <1>8, <1>9, <2>1, OnePerIndex
  <2>3. QED
    BY <1>10, <1>11, <1>12, <2>2
<1>14. OutcomeOf(R.mode, src[i]) # "failed"
  BY <1>5, <1>10, <1>11, <1>13 DEF M!Balanced
<1>15. OutcomeOf(R.mode, src[i]) = "created"
  BY <1>0, <1>14 DEF OutcomeOf
<1>16. QED
  BY <1>e, <1>0, <1>15 DEF Kept

LEMMA BroughtStays ==
    ASSUME NEW e, NEW r, NEW known, NEW more, known \subseteq more, Brought(e, r, known)
    PROVE  Brought(e, r, more)
  BY DEF Brought

\* One record is passed, and what became of it is noted.
LEMMA RecordPassed ==
    ASSUME MigrationTypes, Kept(run), M!HasRecord, run' \in Run,
           run'.mode = run.mode, run'.at = run.at, run'.done = run.done + 1, run.identity \subseteq run'.identity,
           run'.rows = M!Recorded(run.rows, M!Entity, M!Current.id, OutcomeOf(run.mode, M!Current)),
           run.mode = "live" /\ OutcomeOf(run.mode, M!Current) = "created" => Brought(M!Entity, M!Current, run'.identity)
    PROVE  Kept(run')
<1>0. run \in Run /\ run.at \in Nat \ {0} /\ run.done \in Nat
  BY DEF MigrationTypes, Run
<1>1. PICK E \in M!Entities : E = plan[run.at] /\ E = M!Entity
  <2>1. run.at \in 1 .. Len(plan)
    BY <1>0 DEF M!HasRecord, MigrationTypes
  <2>2. QED
    BY <2>1 DEF MigrationTypes, M!Entity
<1>2. PICK d \in Nat : d = run.done + 1
  BY <1>0
<1>3. d \in DOMAIN source[E] /\ M!Current = source[E][d]
  <2>1. source[E] \in Seq(M!SourceRecord) /\ run.done < Len(source[E])
    BY <1>1 DEF MigrationTypes, M!HasRecord
  <2>2. QED
    BY <1>0, <1>1, <1>2, <2>1 DEF M!Current
<1>4. PICK new : new = [entity |-> E, id |-> source[E][d].id, outcome |-> OutcomeOf(run.mode, source[E][d])]
  OBVIOUS
<1>5. new.entity = E /\ new.id = source[E][d].id /\ new.outcome = OutcomeOf(run.mode, source[E][d])
  BY <1>4
<1>6. \/ /\ \E row \in run.rows : row.entity = E /\ row.id = source[E][d].id
         /\ run'.rows = run.rows
      \/ /\ \A row \in run.rows : ~(row.entity = E /\ row.id = source[E][d].id)
         /\ run'.rows = run.rows \cup {new}
  BY <1>1, <1>3, <1>4 DEF M!Recorded
<1>7. \A row \in run'.rows : \E i \in DOMAIN source[row.entity] :
          row.id = source[row.entity][i].id /\ row.outcome = OutcomeOf(run.mode, source[row.entity][i])
  BY <1>3, <1>5, <1>6 DEF Kept
<1>8. \A x, y \in run'.rows : x.entity = y.entity /\ x.id = y.id => x = y
  BY <1>5, <1>6 DEF Kept
<1>9. ASSUME NEW e \in M!Entities, NEW i \in DOMAIN source[e], Passed(run', e, i)
      PROVE  /\ \E row \in run'.rows : row.entity = e /\ row.id = source[e][i].id
             /\ run'.mode = "live" /\ OutcomeOf(run.mode, source[e][i]) = "created" => Brought(e, source[e][i], run'.identity)
  <2>1. CASE Passed(run, e, i)
    <3>1. \E row \in run.rows : row.entity = e /\ row.id = source[e][i].id
      BY <2>1 DEF Kept
    <3>2. run.mode = "live" /\ OutcomeOf(run.mode, source[e][i]) = "created" => Brought(e, source[e][i], run.identity)
      BY <2>1 DEF Kept
    <3>3. QED
      BY <1>6, <3>1, <3>2, BroughtStays
  <2>2. CASE ~Passed(run, e, i)
    <3>1. i \in Nat
      BY <1>9 DEF MigrationTypes
    <3>2. e = E /\ i = d
      <4>1. PICK j \in DOMAIN plan : plan[j] = e /\ (j < run'.at \/ (j = run'.at /\ i <= run'.done))
        BY <1>9 DEF Passed
      <4>2. ~(j < run.at) /\ ~(j = run.at /\ i <= run.done)
        BY <2>2, <4>1 DEF Passed
      <4>3. j = run.at /\ i <= d /\ ~(i <= run.done)
        BY <1>2, <4>1, <4>2
      <4>4. i = d
        BY <1>0, <1>2, <3>1, <4>3
      <4>5. QED
        BY <1>1, <4>1, <4>3, <4>4
    <3>3. \E row \in run'.rows : row.entity = e /\ row.id = source[e][i].id
      BY <1>5, <1>6, <3>2
    <3>4. QED
      BY <1>1, <1>3, <3>2, <3>3
  <2>3. QED
    BY <2>1, <2>2
<1>10. QED
  BY <1>7, <1>8, <1>9 DEF Kept

LEMMA FreshIsKept == M!Fresh \in Run /\ (MigrationTypes => Kept(M!Fresh)) /\ M!Fresh.mode = "none"
<1>1. /\ M!Fresh \in Run /\ M!Fresh.mode = "none" /\ M!Fresh.at = 1 /\ M!Fresh.done = 0 /\ M!Fresh.rows = {}
  BY DEF M!Fresh, Run
<1>2. ASSUME MigrationTypes PROVE Kept(M!Fresh)
  <2>1. ASSUME NEW e \in M!Entities, NEW i \in DOMAIN source[e] PROVE ~Passed(M!Fresh, e, i)
    <3>1. i \in Nat \ {0}
      BY <1>2, <2>1 DEF MigrationTypes
    <3>2. \A j \in DOMAIN plan : j \in Nat \ {0}
      BY <1>2 DEF MigrationTypes
    <3>3. QED
      BY <1>1, <3>1, <3>2 DEF Passed
  <2>2. QED
    BY <1>1, <2>1 DEF Kept
<1>3. QED
  BY <1>1, <1>2

LEMMA CurrentFields ==
    ASSUME MigrationTypes, M!HasRecord
    PROVE  /\ M!Entity \in M!Entities /\ M!Current \in M!SourceRecord
           /\ M!Current.id \in Ids \cup {NoId} /\ M!Current.refers \in Ids
<1>1. run.at \in 1 .. Len(plan) /\ run.done \in Nat
  BY DEF M!HasRecord, MigrationTypes, Run
<1>2. M!Entity \in M!Entities
  BY <1>1 DEF MigrationTypes, M!Entity
<1>3. source[M!Entity] \in Seq(M!SourceRecord) /\ run.done < Len(source[M!Entity])
  BY <1>2 DEF MigrationTypes, M!HasRecord
<1>4. M!Current \in M!SourceRecord
  BY <1>1, <1>3 DEF M!Current
<1>5. QED
  BY <1>2, <1>4 DEF M!SourceRecord

\* Everything of the plan that is not excluded came across in the n-th run.
Across(n) ==
    \A e \in M!Planned : \A i \in DOMAIN source[e] :
        LET r == source[e][i] IN r.kind # "filtered" =>
            /\ [entity |-> e, id |-> r.id, run |-> n, owner |-> Owner(e, r)] \in target
            /\ \A need \in M!Needs(e) : \E t \in target : t.entity = need /\ t.id = r.refers /\ t.run = n

Complete == \A n \in DOMAIN runs : runs[n].completed /\ runs[n].mode = "live" /\ M!Balanced(runs[n].rows) => Across(n)

LEMMA Completeness == (M!BalancedIsComplete <=> Complete) /\ (M!BalancedIsComplete' <=> Complete')
  BY DEF M!BalancedIsComplete, Across, Owner, Complete

LEMMA AcrossStays ==
    ASSUME NEW n, Across(n), plan' = plan, source' = source, target \subseteq target'
    PROVE  Across(n)'
  BY DEF Across, M!Planned, M!Positions, M!Entities, M!Needs, Owner

LEMMA KeptStays ==
    ASSUME UNCHANGED <<plan, source>>, Kept(run')
    PROVE  Kept(run)'
  BY DEF Kept, Passed, OutcomeOf, Brought, Owner, M!Entities, M!Needs

\* A step of a run that is not its end.
LEMMA RunGoesOn ==
    ASSUME MigrationInv, UNCHANGED <<plan, source, target, runs>>, run' \in Run, Kept(run'),
           run'.mode # "none", Len(runs) < MaxRuns
    PROVE  MigrationInv'
<1>1. MigrationTypes'
  BY DEF MigrationInv, MigrationTypes, M!Entities, M!SourceRecord, M!Kinds, MTarget, PastRun, Run, MRows, Identities, M!Outcomes
<1>2. Kept(run)'
  BY KeptStays
<1>3. M!BalancedIsComplete'
  <2>1. \A n \in DOMAIN runs : Across(n) => Across(n)'
    BY AcrossStays
  <2>2. \A n \in DOMAIN runs : M!Balanced(runs[n].rows)' <=> M!Balanced(runs[n].rows)
    BY DEF M!Balanced, M!Cardinality
  <2>3. Complete
    BY Completeness DEF MigrationInv
  <2>4. Complete'
    BY <2>1, <2>2, <2>3 DEF Complete
  <2>5. QED
    BY <2>4, Completeness
<1>4. QED
  BY <1>1, <1>2, <1>3 DEF MigrationInv, M!Entities

LEMMA RunEnds ==
    ASSUME MigrationInv, run.mode # "none", UNCHANGED <<plan, source>>, target \subseteq target', target' \subseteq MTarget,
           NEW completed \in BOOLEAN, M!Over(completed),
           NEW k \in Nat, k = Len(runs),
           completed /\ run.mode = "live" /\ M!Balanced(run.rows) => Across(k + 1)'
    PROVE  MigrationInv'
<1>0. MigrationTypes /\ run \in Run /\ runs \in Seq(PastRun) /\ Len(runs) < MaxRuns
  BY DEF MigrationInv, MigrationTypes
<1>1. PICK past \in PastRun : /\ past.mode = run.mode /\ past.completed = completed
                              /\ past.rows = IF completed THEN run.rows ELSE {}
                              /\ runs' = Append(runs, past)
  <2>1. [mode |-> run.mode, completed |-> completed, rows |-> IF completed THEN run.rows ELSE {}] \in PastRun
    BY <1>0 DEF Run, PastRun
  <2>2. QED
    BY <2>1 DEF M!Over
<1>2. /\ runs' \in Seq(PastRun) /\ Len(runs') = k + 1 /\ DOMAIN runs' = 1 .. k + 1 /\ DOMAIN runs = 1 .. k
      /\ runs'[k + 1] = past /\ \A n \in 1 .. k : runs'[n] = runs[n]
  BY <1>0, <1>1
<1>3. run' = M!Fresh
  BY DEF M!Over
<1>4. MigrationTypes'
  <2>1. Len(runs') <= MaxRuns
    BY <1>0, <1>2, WorkAssumption
  <2>2. run' \in Run
    BY <1>3, FreshIsKept
  <2>3. QED
    BY <1>0, <1>2, <2>1, <2>2
      DEF MigrationTypes, M!Entities, M!SourceRecord, M!Kinds, MTarget, PastRun, Run, MRows, Identities, M!Outcomes
<1>5. Kept(run)'
  <2>1. Kept(run')
    BY <1>0, <1>3, FreshIsKept
  <2>2. QED
    BY <2>1, KeptStays
<1>6. M!BalancedIsComplete'
  <2>1. Complete
    BY Completeness DEF MigrationInv
  <2>2. ASSUME NEW n \in DOMAIN runs', runs'[n].completed, runs'[n].mode = "live", M!Balanced(runs'[n].rows)
        PROVE  Across(n)'
    <3>1. CASE n \in 1 .. k
      <4>1. M!Balanced(runs[n].rows) /\ runs[n].completed /\ runs[n].mode = "live"
        BY <1>2, <2>2, <3>1
      <4>2. Across(n)
        BY <1>2, <2>1, <3>1, <4>1 DEF Complete
      <4>3. QED
        BY <4>2, AcrossStays
    <3>2. CASE n = k + 1
      <4>1. completed /\ run.mode = "live"
        BY <1>1, <1>2, <2>2, <3>2
      <4>2. M!Balanced(run.rows)
        BY <1>1, <1>2, <2>2, <3>2, <4>1
      <4>3. QED
        BY <3>2, <4>1, <4>2
    <3>3. n \in 1 .. k \/ n = k + 1
      BY <1>2
    <3>4. QED
      BY <3>1, <3>2, <3>3
  <2>3. Complete'
    <3>1. \A n \in DOMAIN runs' : M!Balanced(runs'[n].rows) <=> (M!Balanced(runs[n].rows))'
      BY DEF M!Balanced, M!Cardinality
    <3>2. QED
      BY <2>2, <3>1 DEF Complete
  <2>4. QED
    BY <2>3, Completeness
<1>7. run'.mode = "none"
  BY <1>3, FreshIsKept
<1>8. (run.mode = "none" => run = M!Fresh)'
  BY <1>3 DEF M!Fresh
<1>9. QED
  BY <1>4, <1>5, <1>6, <1>7, <1>8 DEF MigrationInv, M!Entities

LEMMA StartKeeps ==
    ASSUME MigrationInv, NEW mode \in {"dry-run", "live"}, M!Start(mode)
    PROVE  MigrationInv'
<1>0. MigrationTypes /\ UNCHANGED <<plan, source, target, runs>> /\ Len(runs) < MaxRuns
  BY DEF MigrationInv, M!Start
<1>1. PICK R : R = [M!Fresh EXCEPT !.mode = mode] /\ R = run'
  BY DEF M!Start
<1>2. R \in Run /\ R.mode = mode /\ R.at = 1 /\ R.done = 0 /\ R.rows = {}
  BY <1>1 DEF M!Fresh, Run
<1>3. ASSUME NEW e \in M!Entities, NEW i \in DOMAIN source[e] PROVE ~Passed(R, e, i)
  <2>1. i \in Nat \ {0}
    BY <1>0, <1>3 DEF MigrationTypes
  <2>2. \A j \in DOMAIN plan : j \in Nat \ {0}
    BY <1>0 DEF MigrationTypes
  <2>3. QED
    BY <1>2, <2>1, <2>2 DEF Passed
<1>4. Kept(R)
  BY <1>2, <1>3 DEF Kept
<1>5. R.mode # "none"
  BY <1>2
<1>6. QED
  BY <1>0, <1>1, <1>2, <1>4, <1>5, RunGoesOn

LEMMA RecordedFits ==
    ASSUME NEW rows \in SUBSET MRows, NEW e \in M!Entities, NEW id \in Ids \cup {NoId}, NEW outcome \in M!Outcomes
    PROVE  M!Recorded(rows, e, id, outcome) \in SUBSET MRows
<1>1. [entity |-> e, id |-> id, outcome |-> outcome] \in MRows
  BY DEF MRows
<1>2. QED
  BY <1>1 DEF M!Recorded

LEMMA RunFields ==
    ASSUME NEW R \in Run
    PROVE  /\ R.mode \in {"none", "dry-run", "live"} /\ R.at \in Nat \ {0} /\ R.done \in Nat
           /\ R.identity \in SUBSET Identities /\ R.rows \in SUBSET MRows
  BY DEF Run

LEMMA NoteKeeps ==
    ASSUME MigrationInv, M!Note
    PROVE  MigrationInv'
<1>0. /\ MigrationTypes /\ Kept(run) /\ M!HasRecord /\ UNCHANGED <<plan, source, target, runs>>
      /\ run \in Run /\ run.mode # "none" /\ Len(runs) < MaxRuns
  BY DEF MigrationInv, M!Note, M!HasRecord, MigrationTypes
<1>1. PICK outcome \in M!Unwritten :
          run' = [run EXCEPT !.done = @ + 1, !.rows = M!Recorded(@, M!Entity, M!Current.id, outcome)]
  BY DEF M!Note
<1>2. /\ outcome = OutcomeOf(run.mode, M!Current) /\ outcome \in M!Outcomes
      /\ ~(run.mode = "live" /\ outcome = "created")
  <2>1. run.mode \in {"dry-run", "live"}
    BY <1>0, RunFields
  <2>2. QED
    BY <1>1, <2>1 DEF M!Unwritten, OutcomeOf, M!Outcomes
<1>3. PICK rows \in SUBSET MRows : rows = M!Recorded(run.rows, M!Entity, M!Current.id, outcome)
  BY <1>0, <1>2, CurrentFields, RunFields, RecordedFits
<1>4. /\ run' \in Run /\ run'.mode = run.mode /\ run'.at = run.at /\ run'.done = run.done + 1
      /\ run'.identity = run.identity /\ run'.rows = rows
  <2>1. PICK R \in Run, d \in Nat : R = run /\ d = R.done + 1
    BY <1>0, RunFields
  <2>2. PICK next : next = run' /\ next = [R EXCEPT !.done = d, !.rows = rows]
    BY <1>1, <1>3, <2>1
  <2>3. /\ next \in Run /\ next.mode = R.mode
        /\ next.at = R.at /\ next.done = d /\ next.identity = R.identity /\ next.rows = rows
    BY <2>2 DEF Run
  <2>4. QED
    BY <2>1, <2>2, <2>3
<1>5. Kept(run')
  BY <1>0, <1>2, <1>3, <1>4, RecordPassed
<1>6. QED
  BY <1>0, <1>4, <1>5, RunGoesOn

LEMMA WriteKeeps ==
    ASSUME MigrationInv, M!Write
    PROVE  MigrationInv'
<1>0. /\ MigrationTypes /\ Kept(run) /\ M!HasRecord /\ UNCHANGED <<plan, source, target, runs>>
      /\ run \in Run /\ run.mode # "none" /\ Len(runs) < MaxRuns
  BY DEF MigrationInv, M!Write, M!HasRecord, MigrationTypes
<1>1. M!Unwritten = {} /\ M!Resolved /\ M!Current.kind = "good"
  BY DEF M!Write
<1>2. OutcomeOf(run.mode, M!Current) = "created" /\ M!Current.id # NoId /\ "created" \in M!Outcomes
  BY <1>1 DEF M!Unwritten, OutcomeOf, M!Outcomes
<1>3. M!Owner = Owner(M!Entity, M!Current) /\ M!Owner \in Ids \cup {NoId} /\ M!Current.id \in Ids
  BY <1>0, <1>2, CurrentFields DEF M!Owner, Owner
<1>4. PICK new \in Identities : new = [entity |-> M!Entity, id |-> M!Current.id, owner |-> M!Owner]
  BY <1>0, <1>3, CurrentFields DEF Identities
<1>5. PICK rows \in SUBSET MRows : rows = M!Recorded(run.rows, M!Entity, M!Current.id, "created")
  BY <1>0, <1>2, CurrentFields, RunFields, RecordedFits
<1>6. PICK known \in SUBSET Identities : known = run.identity \cup {new}
  BY <1>0 DEF Run
<1>7. run' = [run EXCEPT !.done = @ + 1, !.identity = known, !.rows = rows]
  BY <1>0, <1>4, <1>5, <1>6 DEF M!Write, Run
<1>8. /\ run' \in Run /\ run'.mode = run.mode /\ run'.at = run.at /\ run'.done = run.done + 1
      /\ run'.identity = known /\ run'.rows = rows
  <2>1. PICK R \in Run, d \in Nat : R = run /\ d = R.done + 1
    BY <1>0, RunFields
  <2>2. PICK next : next = run' /\ next = [R EXCEPT !.done = d, !.identity = known, !.rows = rows]
    BY <1>7, <2>1
  <2>3. /\ next \in Run /\ next.mode = R.mode
        /\ next.at = R.at /\ next.done = d /\ next.identity = known /\ next.rows = rows
    BY <2>2 DEF Run
  <2>4. QED
    BY <2>1, <2>2, <2>3
<1>9. Brought(M!Entity, M!Current, known)
  BY <1>1, <1>3, <1>4, <1>6 DEF Brought, M!Resolved
<1>10. Kept(run')
  BY <1>0, <1>2, <1>5, <1>6, <1>8, <1>9, RecordPassed
<1>11. QED
  BY <1>0, <1>8, <1>10, RunGoesOn

LEMMA NextEntityKeeps ==
    ASSUME MigrationInv, M!NextEntity
    PROVE  MigrationInv'
<1>0. /\ MigrationTypes /\ Kept(run) /\ UNCHANGED <<plan, source, target, runs>>
      /\ run \in Run /\ run.mode # "none" /\ Len(runs) < MaxRuns
      /\ run.at <= Len(plan) /\ run.done = Len(source[M!Entity])
  BY DEF MigrationInv, M!NextEntity, MigrationTypes
<1>1. run' = [run EXCEPT !.at = @ + 1, !.done = 0]
  BY DEF M!NextEntity
<1>2. /\ run' \in Run /\ run'.mode = run.mode /\ run'.at = run.at + 1 /\ run'.done = 0
      /\ run'.identity = run.identity /\ run'.rows = run.rows
  <2>1. PICK R \in Run, a \in Nat \ {0}, d \in Nat : R = run /\ a = R.at + 1 /\ d = 0
    BY <1>0, RunFields
  <2>2. PICK next : next = run' /\ next = [R EXCEPT !.at = a, !.done = d]
    BY <1>1, <2>1
  <2>3. /\ next \in Run /\ next.mode = R.mode
        /\ next.at = a /\ next.done = d /\ next.identity = R.identity /\ next.rows = R.rows
    BY <2>2 DEF Run
  <2>4. QED
    BY <2>1, <2>2, <2>3
<1>3. ASSUME NEW e \in M!Entities, NEW i \in DOMAIN source[e], Passed(run', e, i)
      PROVE  Passed(run, e, i)
  <2>1. PICK j \in DOMAIN plan : plan[j] = e /\ (j < run'.at \/ (j = run'.at /\ i <= run'.done))
    BY <1>3 DEF Passed
  <2>2. i \in 1 .. Len(source[e]) /\ Len(source[e]) \in Nat /\ j \in Nat /\ run.at \in Nat
    BY <1>0, <1>3 DEF MigrationTypes, Run
  <2>3. j < run.at \/ j = run.at
    BY <1>2, <2>1, <2>2
  <2>4. CASE j < run.at
    BY <2>1, <2>4 DEF Passed
  <2>5. CASE j = run.at
    <3>1. i <= run.done
      BY <1>0, <2>1, <2>2, <2>5 DEF M!Entity
    <3>2. QED
      BY <2>1, <2>5, <3>1 DEF Passed
  <2>6. QED
    BY <2>3, <2>4, <2>5
<1>4. Kept(run')
  BY <1>0, <1>2, <1>3 DEF Kept
<1>5. QED
  BY <1>0, <1>2, <1>4, RunGoesOn

LEMMA FailureKeeps ==
    ASSUME MigrationInv, M!WriteFails
    PROVE  MigrationInv'
<1>1. run.mode # "none" /\ UNCHANGED <<plan, source, target>> /\ M!Over(FALSE)
  BY DEF M!WriteFails, M!HasRecord
<1>2. target' \subseteq MTarget /\ PastRun # {}
  <2>1. [mode |-> "live", completed |-> FALSE, rows |-> {}] \in PastRun
    BY DEF PastRun
  <2>2. QED
    BY <1>1, <2>1 DEF MigrationInv, MigrationTypes
<1>3. PICK k \in Nat : k = Len(runs)
  BY DEF MigrationInv, MigrationTypes
<1>4. QED
  BY <1>1, <1>2, <1>3, RunEnds

LEMMA FinishKeeps ==
    ASSUME MigrationInv, M!Finish
    PROVE  MigrationInv'
<1>0. /\ MigrationTypes /\ run \in Run /\ Kept(run) /\ run.mode # "none" /\ run.at > Len(plan) /\ M!Over(TRUE)
      /\ UNCHANGED <<plan, source>> /\ Len(runs) < MaxRuns
  BY DEF MigrationInv, M!Finish, MigrationTypes
<1>1. PICK k \in Nat : k = Len(runs)
  BY <1>0 DEF MigrationTypes
<1>2. target' = target \cup {[entity |-> x.entity, id |-> x.id, owner |-> x.owner, run |-> k + 1] : x \in run.identity}
  BY <1>1 DEF M!Finish
<1>3. k + 1 \in 1 .. MaxRuns
  BY <1>0, <1>1, WorkAssumption
<1>4. target \subseteq target' /\ target' \subseteq MTarget
  BY <1>0, <1>2, <1>3 DEF MigrationTypes, MTarget, Run, Identities
<1>5. ASSUME NEW e \in M!Planned, NEW i \in DOMAIN source[e] PROVE Passed(run, e, i)
  <2>1. PICK j \in DOMAIN plan : plan[j] = e
    BY DEF M!Planned, M!Positions
  <2>2. j < run.at
    BY <1>0 DEF MigrationTypes, Run
  <2>3. QED
    BY <2>1, <2>2 DEF Passed
<1>6. ASSUME run.mode = "live", M!Balanced(run.rows) PROVE Across(k + 1)'
  <2>1. ASSUME NEW e \in M!Planned, NEW i \in DOMAIN source[e], source[e][i].kind # "filtered"
        PROVE  /\ [entity |-> e, id |-> source[e][i].id, run |-> k + 1, owner |-> Owner(e, source[e][i])] \in target'
               /\ \A need \in M!Needs(e) :
                     \E t \in target' : t.entity = need /\ t.id = source[e][i].refers /\ t.run = k + 1
    <3>1. Brought(e, source[e][i], run.identity)
      BY <1>0, <1>5, <1>6, <2>1, BalancedRun
    <3>2. \A x \in run.identity : [entity |-> x.entity, id |-> x.id, owner |-> x.owner, run |-> k + 1] \in target'
      BY <1>2
    <3>3. [entity |-> e, id |-> source[e][i].id, run |-> k + 1, owner |-> Owner(e, source[e][i])] \in target'
      <4>1. PICK x \in run.identity : x = [entity |-> e, id |-> source[e][i].id, owner |-> Owner(e, source[e][i])]
        BY <3>1 DEF Brought
      <4>2. QED
        BY <3>2, <4>1
    <3>4. ASSUME NEW need \in M!Needs(e)
          PROVE  \E t \in target' : t.entity = need /\ t.id = source[e][i].refers /\ t.run = k + 1
      <4>1. PICK x \in run.identity : x.entity = need /\ x.id = source[e][i].refers
        BY <3>1 DEF Brought
      <4>2. QED
        BY <3>2, <4>1
    <3>5. QED
      BY <3>3, <3>4
  <2>2. source' = source /\ plan' = plan
    BY <1>0
  <2>3. Across(k + 1)' <=>
            \A e \in M!Planned : \A i \in DOMAIN source[e] : source[e][i].kind # "filtered" =>
                /\ [entity |-> e, id |-> source[e][i].id, run |-> k + 1, owner |-> Owner(e, source[e][i])] \in target'
                /\ \A need \in M!Needs(e) :
                      \E t \in target' : t.entity = need /\ t.id = source[e][i].refers /\ t.run = k + 1
    BY <2>2 DEF Across, Owner, M!Planned, M!Positions, M!Entities, M!Needs
  <2>4. QED
    BY <2>1, <2>3
<1>7. QED
  BY <1>0, <1>1, <1>4, <1>6, RunEnds

LEMMA MigrationInit == M!Init => MigrationInv
<1> SUFFICES ASSUME M!Init PROVE MigrationInv
  OBVIOUS
<1>1. /\ plan \in Plans /\ plan \in Seq(M!Entities) /\ target = {} /\ runs = << >> /\ run = M!Fresh
  BY WorkAssumption DEF M!Init
<1>2. PICK n \in M!Sizes :
          \E clients \in [1 .. n["client"] -> M!Records("client")],
             cases \in [1 .. n["case"] -> M!Records("case")],
             debts \in [1 .. n["debt"] -> M!Records("debt")] :
             source = [e \in M!Entities |->
                          CASE e = "client" -> clients [] e = "case" -> cases [] e = "debt" -> debts]
  BY DEF M!Init
<1>3. n \in [M!Entities -> Nat]
  BY <1>2 DEF M!Sizes
<1>4. M!Entities = {"client", "case", "debt"} /\ \A e \in M!Entities : M!Records(e) \subseteq M!SourceRecord
  BY WorkAssumption DEF M!Entities, M!Records
<1>5. ASSUME NEW e \in M!Entities PROVE source[e] \in Seq(M!SourceRecord) /\ Len(source[e]) = n[e]
  <2>1. source[e] \in [1 .. n[e] -> M!Records(e)]
    BY <1>2, <1>4
  <2>2. PICK k \in Nat : k = n[e]
    BY <1>3
  <2>3. PICK s : s = source[e]
    OBVIOUS
  <2>4. s \in [1 .. k -> M!SourceRecord]
    BY <1>4, <2>1, <2>2, <2>3
  <2>5. s \in Seq(M!SourceRecord) /\ Len(s) = k
    BY <2>4
  <2>6. QED
    BY <2>2, <2>5, <2>3
<1>6. source \in [M!Entities -> Seq(M!SourceRecord)]
  <2>1. DOMAIN source = M!Entities /\ source = [e \in M!Entities |-> source[e]]
    BY <1>2
  <2>2. QED
    BY <1>5, <2>1
<1>7. Len(runs) = 0 /\ DOMAIN runs = {} /\ runs \in Seq(PastRun)
  BY <1>1
<1>8. MigrationTypes
  BY <1>1, <1>6, <1>7, FreshIsKept, WorkAssumption DEF MigrationTypes
<1>9. Kept(run)
  BY <1>1, <1>8, FreshIsKept
<1>10. M!BalancedIsComplete
  BY <1>7, Completeness DEF Complete
<1>11. run.mode = "none"
  BY <1>1, FreshIsKept
<1>12. QED
  BY <1>1, <1>8, <1>9, <1>10, <1>11 DEF MigrationInv

LEMMA FirmMigrationStep ==
    ASSUME part = "migration" => MigrationInv, [FirmNext]_ofFirm
    PROVE  (part = "migration" => MigrationInv)'
<1> SUFFICES ASSUME part' = "migration" PROVE MigrationInv'
  OBVIOUS
<1>1. part = "migration" /\ MigrationInv
  BY DEF FirmNext, ofFirm
<1>2. CASE UNCHANGED ofMigration
  <2>1. UNCHANGED <<plan, source, target, runs, run>>
    BY <1>2 DEF ofMigration
  <2>2. MigrationTypes'
    BY <1>1, <2>1
      DEF MigrationInv, MigrationTypes, M!Entities, M!SourceRecord, M!Kinds, MTarget, PastRun, Run, MRows, Identities,
          M!Outcomes
  <2>3. Kept(run')
    BY <1>1, <2>1 DEF MigrationInv
  <2>4. Kept(run)'
    BY <2>1, <2>3, KeptStays
  <2>5. M!BalancedIsComplete'
    <3>1. \A k \in DOMAIN runs : Across(k) => Across(k)'
      BY <2>1, AcrossStays
    <3>2. \A k \in DOMAIN runs : M!Balanced(runs[k].rows)' <=> M!Balanced(runs[k].rows)
      BY <2>1 DEF M!Balanced, M!Cardinality
    <3>3. Complete
      BY <1>1, Completeness DEF MigrationInv
    <3>4. Complete'
      BY <2>1, <3>1, <3>2, <3>3 DEF Complete
    <3>5. QED
      BY <3>4, Completeness
  <2>6. (run.mode = "none" => run = M!Fresh)' /\ (run.mode # "none" => Len(runs) < MaxRuns)'
    BY <1>1, <2>1 DEF MigrationInv, M!Fresh
  <2>7. QED
    BY <2>2, <2>4, <2>5, <2>6 DEF MigrationInv, M!Entities
<1>3. CASE M!Next
  <2>1. CASE \E mode \in {"dry-run", "live"} : M!Start(mode)
    BY <1>1, <2>1, StartKeeps
  <2>2. CASE M!Note
    BY <1>1, <2>2, NoteKeeps
  <2>3. CASE M!Write
    BY <1>1, <2>3, WriteKeeps
  <2>4. CASE M!WriteFails
    BY <1>1, <2>4, FailureKeeps
  <2>5. CASE M!NextEntity
    BY <1>1, <2>5, NextEntityKeeps
  <2>6. CASE M!Finish
    BY <1>1, <2>6, FinishKeeps
  <2>7. QED
    BY <1>3, <2>1, <2>2, <2>3, <2>4, <2>5, <2>6 DEF M!Next
<1>4. QED
  BY <1>1, <1>2, <1>3 DEF FirmNext, ofFirm

(* Whatever the source, also where it holds records of an entity the plan   *)
(* does not have, whatever its order and the number of runs over it: a live *)
(* run that reconciles as balanced has brought every record of an entity of *)
(* the plan that the filter does not exclude, each attached to the one it   *)
(* belonged to.  Records without an identifier, or that share one, show in  *)
(* the counts; those the plan has no entity for do not, and stay behind     *)
(* (runMigration, recordOutcome, reconcile).                                *)
THEOREM NothingLeftBehind == FirmSpec => []BalancedIsComplete
<1>1. FirmInit => (part = "migration" => MigrationInv)
  BY MigrationInit DEF FirmInit
<1>2. (part = "migration" => MigrationInv) => BalancedIsComplete
  BY DEF MigrationInv, BalancedIsComplete
<1>3. QED
  BY <1>1, <1>2, FirmMigrationStep, PTL DEF FirmSpec

-----------------------------------------------------------------------------
(* The variables of the seven parts of a firm have their types: counters    *)
(* stay within their limits, rows point at rows there are, and what a       *)
(* session, a key, a delivery, a caller of a model, an opening, a page and  *)
(* a run are about exists.                                                  *)
THEOREM FirmTypeCorrect == FirmSpec => []FirmTypeOK
<1>1. FirmInit => LimitInv /\ (IInv /\ RecordInv) /\ FileInv /\ OpenInv /\ (part = "migration" => MigrationInv)
  BY LimitsInit, Initially, RecordInit, FileInit, OpenInit, MigrationInit, FirmAssumption DEF FirmInit
<1>2. ASSUME LimitInv, IInv /\ RecordInv, FileInv, OpenInv, part = "migration" => MigrationInv
      PROVE  FirmTypeOK
  <2>1. TypeOK
    BY <1>2, Typed, FirmAssumption
  <2>2. S!TypeOK
    BY <1>2 DEF LimitInv, SessionInv, SessionTypes, S!TypeOK
  <2>3. K!TypeOK
    BY <1>2 DEF LimitInv, KeyInv, KeyTypes, Calling, K!TypeOK
  <2>4. W!TypeOK
    <3>1. /\ endpoint \in [Endpoints -> Reached] /\ delivery \in [Endpoints \X Events -> Attempted \cup {Nil}]
          /\ sender \in [Senders -> (Endpoints \X Events) \cup {Nil}]
      BY <1>2 DEF LimitInv, WebhookInv
    <3>2. \A e \in Endpoints, v \in Events : delivery[e, v] \in Attempted \cup {Nil}
      BY <3>1, Zenon
    <3>3. Attempted = [status: {"pending", "delivered", "abandoned"}, attempt: 0 .. MaxAttempts]
      BY DEF Attempted, Waiting
    <3>4. QED
      BY <3>1, <3>2, <3>3, Zenon DEF Reached, W!TypeOK
  <2>5. O!TypeOK
    BY <1>2 DEF OpenInv
  <2>6. F!TypeOK
    BY <1>2, FileLengths DEF FileInv, FileTypes, F!TypeOK, F!Households
  <2>7. part = "migration" => M!TypeOK
    BY <1>2 DEF MigrationInv, MigrationTypes, Run, Identities, MRows, MTarget, M!TypeOK
  <2>8. QED
    BY <2>1, <2>2, <2>3, <2>4, <2>5, <2>6, <2>7 DEF FirmTypeOK
<1>3. QED
  BY <1>1, <1>2, LimitsStep, AssistanceFirmStep, FirmFileStep, FirmOpenStep, FirmMigrationStep, PTL DEF FirmSpec

=============================================================================
