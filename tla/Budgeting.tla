------------------------------ MODULE Budgeting ------------------------------
(***************************************************************************)
(* A statement that is built up line by line, and an amount to be shared   *)
(* out by weight: what buildStatement and distributePence answer at every  *)
(* point, against the exact figures.                                       *)
(***************************************************************************)
EXTENDS Figures

CONSTANTS Categories,  \* of expenditure
          Amounts,     \* what a line may state, in pence
          Household,   \* whose trigger figures apply
          Triggers,    \* the trigger figures, by category and band of household
          Shares,      \* the amounts to be shared out, each with its weights
          MaxLines     \* bound: lines of a statement

Line == [section: {"income", "expenditure"}, category: Categories, amount: Amounts,
         frequency: Frequencies]

ASSUME BudgetAssumption ==
    /\ Amounts \subseteq Int /\ MaxLines \in Nat
    /\ \A c \in Categories : TriggerFigure(Triggers, c, Household) \in Nat \cup {NoFigure}
    /\ \A s \in Shares : s.total \in Int /\ s.weights \in Seq(Nat) /\ SumPence(s.weights) > 0

VARIABLES lines, share

BudgetInit == lines = << >> /\ share \in Shares

\* The form posts one line more.
AddLine ==
    /\ Len(lines) < MaxLines
    /\ \E line \in Line : lines' = Append(lines, line)
    /\ UNCHANGED share

BudgetSpec == BudgetInit /\ [][AddLine]_<<lines, share>>

-----------------------------------------------------------------------------
\* Twelve times what the lines that count come to in a month, exactly.
ExactlyPerYear(Counts(_)) ==
    SumPence([i \in DOMAIN lines |->
        IF Counts(lines[i]) THEN lines[i].amount * PerYear[lines[i].frequency] ELSE 0])

(* No penny is lost or made: what is shared out adds up to the total, nobody *)
(* gets a penny more or less than the exact share, and who has no weight     *)
(* gets nothing (money.ts distributePence).                                  *)
SharesAddUp ==
    LET shares == Distribute(share.total, share.weights)
        whole == SumPence(share.weights) IN
    /\ SumPence(shares) = share.total
    /\ \A i \in DOMAIN shares :
          /\ Abs(shares[i] * whole - share.total * share.weights[i]) < whole
          /\ share.weights[i] = 0 => shares[i] = 0

(* The totals of a statement drift from the exact monthly figures by at most *)
(* half a penny a line, and a category is reported when it is over its       *)
(* trigger by more than that, and never when it is under by as much, however *)
(* its spending is split into lines (statement.ts buildStatement).           *)
StatementAddsUp ==
    LET built == BuildStatement(lines, Household, Triggers)
        Exact(section) == ExactlyPerYear(LAMBDA l : l.section = section)
        drift == 6 * Len(lines) IN
    /\ Abs(12 * built.income - Exact("income")) <= drift
    /\ Abs(12 * built.expenditure - Exact("expenditure")) <= drift
    /\ \A c \in Categories :
          LET figure == TriggerFigure(Triggers, c, Household)
              spent == ExactlyPerYear(LAMBDA l : Spends(l, c)) IN
          /\ figure # NoFigure /\ spent > 12 * figure + drift => c \in built.exceeded
          /\ c \in built.exceeded => spent > 12 * figure - drift

PenniesConserved == SharesAddUp /\ StatementAddsUp
=============================================================================
