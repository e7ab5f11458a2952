------------------------------ MODULE CaseFile ------------------------------
(***************************************************************************)
(* The documents of one case file that are superseded and never edited:    *)
(* saveStatement of packages/core/src/case-file/statement-entry.ts and     *)
(* recordAdviceDecision and supersedeAdviceDecision of advice/decision.ts, *)
(* with saveEligibilityEvaluation, as the finances and the advice page of  *)
(* the console call them.                                                  *)
(*                                                                         *)
(* The server action of a page closes over what the page was rendered      *)
(* with: the household, the statement and the standing decision it works   *)
(* with are those of the rendering, however long ago.  A transaction sees  *)
(* what is committed and what it wrote itself; rows it wrote are published *)
(* by its commit.  Locks are held to the end of it: the case row (FOR      *)
(* UPDATE by a save, FOR KEY SHARE through the foreign key of an           *)
(* evaluation) and the audit chain of the firm.                            *)
(***************************************************************************)
EXTENDS Naturals, Sequences, FiniteSets

CONSTANTS
    People,         \* requests the server handles at once
    Members,        \* people who may belong to the household
    MaxVersions,    \* bound: versions of either document
    MaxMishaps      \* bound: requests that die half-way

VARIABLES
    household,     \* household_members of the client
    statements,    \* financial_statements of the case, by version
    decisions,     \* advice_decisions of the case, in the order of their insertion
    page,          \* per person, what the page before them was rendered with
    tx,            \* per person, the transaction under way
    mishaps

cvars == <<household, statements, decisions, page, tx, mishaps>>

Households == SUBSET Members
Indices == 1 .. MaxVersions

\* says: the household of a statement, the statement_id of a decision.
Rows(Contents) == [live: BOOLEAN, by: {0} \cup Indices, says: Contents]

Page == [household: Households, statement: {0} \cup Indices, standing: {0} \cup Indices]
NoPage == [household |-> {}, statement |-> 0, standing |-> 0]

Tx == [pc: {"page", "save", "retire", "insert", "collided", "save-commit",
            "advise", "audit", "supersede", "record", "advise-commit"},
       holds: SUBSET {"case", "share", "chain"}, retired: SUBSET Indices]
NoTx == [pc |-> "page", holds |-> {}, retired |-> {}]

TypeOK ==
    /\ household \in Households
    /\ statements \in Seq(Rows(Households)) /\ Len(statements) <= MaxVersions
    /\ decisions \in Seq(Rows(Indices)) /\ Len(decisions) <= MaxVersions
    /\ page \in [People -> Page]
    /\ tx \in [People -> Tx]
    /\ mishaps \in 0 .. MaxMishaps

Init ==
    /\ household = {}
    /\ statements = << >> /\ decisions = << >>
    /\ page = [p \in People |-> NoPage]
    /\ tx = [p \in People |-> NoTx]
    /\ mishaps = 0

Live(rows) == {i \in DOMAIN rows : rows[i].live}

\* The rows after a transaction that retired some and inserted one.
\* Seeded fault: the retired rows are not pointed at their successor.
Published_Unlinked(rows, retired, c) ==
    Append([i \in DOMAIN rows |-> IF i \in retired THEN [rows[i] EXCEPT !.live = FALSE] ELSE rows[i]],
           [live |-> TRUE, by |-> 0, says |-> c])
Published(rows, retired, c) ==
    Append([i \in DOMAIN rows |->
               IF i \in retired THEN [rows[i] EXCEPT !.live = FALSE, !.by = Len(rows) + 1] ELSE rows[i]],
           [live |-> TRUE, by |-> 0, says |-> c])

Others(p) == People \ {p}

\* SELECT ... FOR UPDATE waits for everybody; FOR KEY SHARE for a FOR UPDATE only.
\* Seeded fault: a save does not lock the case.
CaseFree_Unlocked(p) == TRUE
CaseFree(p) == \A q \in Others(p) : tx[q].holds \cap {"case", "share"} = {}
ShareFree(p) == \A q \in Others(p) : "case" \notin tx[q].holds
ChainFree(p) == \A q \in Others(p) : "chain" \notin tx[q].holds

\* An UPDATE waits for the transaction that has written the row.
RowsFree(p, pcs, rows) == \A q \in Others(p) : tx[q].pc \in pcs => tx[q].retired \cap rows = {}

Goes(p, pc) == tx' = [tx EXCEPT ![p].pc = pc]
Ends(p) == tx' = [tx EXCEPT ![p] = NoTx]

-----------------------------------------------------------------------------
\* A page is rendered, and what it shows is what its action will work with.
Render(p) ==
    /\ tx[p].pc = "page"
    /\ \E s \in Live(statements) \cup {0} : \E d \in Live(decisions) \cup {0} :
          /\ s = 0 => Live(statements) = {}
          /\ d = 0 => Live(decisions) = {}
          /\ page' = [page EXCEPT ![p] = [household |-> household, statement |-> s, standing |-> d]]
    /\ UNCHANGED <<household, statements, decisions, tx, mishaps>>

\* recordHouseholdMember, removeHouseholdMember.
ChangeHousehold ==
    /\ \E m \in Members : household' \in {household \cup {m}, household \ {m}}
    /\ UNCHANGED <<statements, decisions, page, tx, mishaps>>

At(pcs) == {q \in People : tx[q].pc \in pcs}
Saving == {"save", "retire", "insert", "save-commit"}
Advising == {"advise", "audit", "supersede", "record", "advise-commit"}

\* The save action of the finances page, the record action of the advice page.
Submit(p) ==
    /\ tx[p].pc = "page"
    /\ \/ Len(statements) + Cardinality(At(Saving)) < MaxVersions /\ Goes(p, "save")
       \/ Len(decisions) + Cardinality(At(Advising)) < MaxVersions /\ Goes(p, "advise")
    /\ UNCHANGED <<household, statements, decisions, page, mishaps>>

\* saveStatement: the case row first.
SaveLock(p) ==
    /\ tx[p].pc = "save" /\ CaseFree(p)
    /\ tx' = [tx EXCEPT ![p].pc = "retire", ![p].holds = {"case"}]
    /\ UNCHANGED <<household, statements, decisions, page, mishaps>>

\* The outgoing statement is picked by its status.
SaveRetire(p) ==
    LET outgoing == Live(statements) IN
    /\ tx[p].pc = "retire"
    /\ RowsFree(p, {"insert", "save-commit"}, outgoing)
    /\ tx' = [tx EXCEPT ![p].pc = "insert", ![p].retired = outgoing]
    /\ UNCHANGED <<household, statements, decisions, page, mishaps>>

\* The partial unique index: an insert waits for another that is not committed
\* yet, and fails if a row stands that this transaction has not retired.
SaveInsert(p) ==
    /\ tx[p].pc = "insert"
    /\ \A q \in Others(p) : tx[q].pc # "save-commit"
    /\ IF Live(statements) \subseteq tx[p].retired THEN Goes(p, "save-commit") ELSE Goes(p, "collided")
    /\ UNCHANGED <<household, statements, decisions, page, mishaps>>

\* The error the page shows; nothing was changed.
SaveFails(p) ==
    /\ tx[p].pc = "collided"
    /\ Ends(p)
    /\ UNCHANGED <<household, statements, decisions, page, mishaps>>

\* The audit row, which waits for the chain, and the commit.
SaveCommit(p) ==
    /\ tx[p].pc = "save-commit" /\ ChainFree(p)
    /\ statements' = Published(statements, tx[p].retired, page[p].household)
    /\ Ends(p)
    /\ UNCHANGED <<household, decisions, page, mishaps>>

-----------------------------------------------------------------------------
\* saveEligibilityEvaluation: the row refers to the case, and its audit row
\* takes the chain.  Held from here on, the chain keeps every other decision of
\* the firm out, so what is read below is not changed before it is acted on.
Evaluate(p) ==
    /\ tx[p].pc = "advise" /\ ShareFree(p)
    /\ tx' = [tx EXCEPT ![p].pc = "audit", ![p].holds = {"share"}]
    /\ UNCHANGED <<household, statements, decisions, page, mishaps>>

\* Seeded fault: the case is locked for the decision, after its share was taken.
EvaluationAudited_Locking(p) ==
    /\ tx[p].pc = "audit" /\ ChainFree(p) /\ CaseFree(p)
    /\ tx' = [tx EXCEPT ![p].pc = IF page[p].standing = 0 THEN "record" ELSE "supersede",
                        ![p].holds = @ \cup {"chain"}]
    /\ UNCHANGED <<household, statements, decisions, page, mishaps>>
EvaluationAudited(p) ==
    /\ tx[p].pc = "audit" /\ ChainFree(p)
    /\ tx' = [tx EXCEPT ![p].pc = IF page[p].standing = 0 THEN "record" ELSE "supersede",
                        ![p].holds = @ \cup {"chain"}]
    /\ UNCHANGED <<household, statements, decisions, page, mishaps>>

\* supersedeAdviceDecision: the decision the page named, if it still stands.
StillStands(p) == page[p].standing \in Live(decisions)

Supersede(p) ==
    /\ tx[p].pc = "supersede" /\ StillStands(p)
    /\ RowsFree(p, {"record", "advise-commit"}, {page[p].standing})
    /\ tx' = [tx EXCEPT ![p].pc = "record", ![p].retired = {page[p].standing}]
    /\ UNCHANGED <<household, statements, decisions, page, mishaps>>

\* recordAdviceDecision: no other decision stands, as far as this transaction
\* sees, and there is a statement.  The unique index waits as in SaveInsert.
MayRecord(p) == Live(decisions) \subseteq tx[p].retired /\ page[p].statement # 0

Record(p) ==
    /\ tx[p].pc = "record" /\ MayRecord(p)
    /\ \A q \in Others(p) : tx[q].pc # "advise-commit"
    /\ Goes(p, "advise-commit")
    /\ UNCHANGED <<household, statements, decisions, page, mishaps>>

\* AdviceValidationError, over what was typed or over what was found.
AdviceRefused(p) ==
    /\ tx[p].pc \in {"supersede", "record"}
    /\ Ends(p)
    /\ UNCHANGED <<household, statements, decisions, page, mishaps>>

AdviseCommit(p) ==
    /\ tx[p].pc = "advise-commit"
    /\ decisions' = Published(decisions, tx[p].retired, page[p].statement)
    /\ Ends(p)
    /\ UNCHANGED <<household, statements, page, mishaps>>

\* The process dies, or the statement timeout strikes: the transaction is undone.
Die(p) ==
    /\ tx[p].pc # "page" /\ mishaps < MaxMishaps
    /\ mishaps' = mishaps + 1
    /\ Ends(p)
    /\ UNCHANGED <<household, statements, decisions, page>>

Proceeds(p) ==
    \/ SaveLock(p) \/ SaveRetire(p) \/ SaveInsert(p) \/ SaveFails(p) \/ SaveCommit(p)
    \/ Evaluate(p) \/ EvaluationAudited(p) \/ Supersede(p) \/ Record(p) \/ AdviseCommit(p)
    \/ AdviceRefused(p)

Next ==
    \/ ChangeHousehold
    \/ \E p \in People : Render(p) \/ Submit(p) \/ Proceeds(p) \/ Die(p)

Spec == Init /\ [][Next]_cvars

-----------------------------------------------------------------------------
(* The rows of either document are at all times the versions of one that   *)
(* is published in single steps: exactly the last stands, every other one  *)
(* names its successor, none is lost, none is edited, and a decision rests *)
(* on a statement of the file, whatever requests interleave or die         *)
(* (statement-entry.ts:172-174, decision.ts:192-195).                      *)
File == INSTANCE VersionedFile WITH statement <- statements, decision <- decisions
Implements == File!Spec

(* A save is never turned away by the index on the current statement: two  *)
(* saves at once, "a double-clicked save button", both land                *)
(* (statement-entry.ts:114-121).                                           *)
SavesLand == At({"collided"}) = {}

\* What the next step of a transaction waits for is to be had.
MayGo(p) ==
    /\ tx[p].pc = "save" => CaseFree(p)
    /\ tx[p].pc = "retire" => RowsFree(p, {"insert", "save-commit"}, Live(statements))
    /\ tx[p].pc = "insert" => \A q \in Others(p) : tx[q].pc # "save-commit"
    /\ tx[p].pc \in {"save-commit", "audit"} => ChainFree(p)
    /\ tx[p].pc = "advise" => ShareFree(p)

(* The requests under way never all wait for one another's locks: one of   *)
(* them may go on, and whoever may does have a step to take, so each meets *)
(* its commit or its error before the database has to break a deadlock.    *)
UnderWay == {p \in People : tx[p].pc # "page"}
SomebodyMayGo == UnderWay # {} => \E p \in UnderWay : MayGo(p)
SomebodyProceeds == SomebodyMayGo /\ \A p \in UnderWay : MayGo(p) => ENABLED Proceeds(p)

(* A decision is recorded on the statement that is current at that time:   *)
(* the page says that what the decision is judged against is recomputed on *)
(* the server at submit.  It is what the page was rendered with.           *)
NewDecisions == DOMAIN decisions' \ DOMAIN decisions
DecidedOnCurrent == [][\A i \in NewDecisions : statements[decisions'[i].says].live]_cvars
=============================================================================
