------------------------------- MODULE Figures -------------------------------
(***************************************************************************)
(* Money in whole pence (packages/core/src/money.ts) and the statement     *)
(* built from it (packages/core/src/sfs/statement.ts).                     *)
(***************************************************************************)
EXTENDS Integers, SequencesExt

PerYear == [weekly |-> 52, fortnightly |-> 26, fourWeekly |-> 13, monthly |-> 12,
            quarterly |-> 4, annually |-> 1, oneOff |-> 0]
Frequencies == DOMAIN PerYear

Abs(n) == IF n < 0 THEN -n ELSE n

\* a / b to the nearest whole number, half away from zero.
RoundedHalfAway(a, b) == IF a < 0 THEN -((2 * (-a) + b) \div (2 * b)) ELSE (2 * a + b) \div (2 * b)

ToMonthly(amount, frequency) == RoundedHalfAway(amount * PerYear[frequency], 12)
SumPence(amounts) == FoldSeq(+, 0, amounts)

\* The part of share i that rounding down loses, in parts of the total weight.
Lost(total, weights, i) == (total * weights[i]) % SumPence(weights)

\* distributePence: the largest remainders get the pennies left over.
\* Seeded fault: the pennies that rounding lost are handed to nobody.
Distribute_Floors(total, weights) ==
    [i \in DOMAIN weights |-> (total * weights[i]) \div SumPence(weights)]
Distribute(total, weights) ==
    LET floors == [i \in DOMAIN weights |-> (total * weights[i]) \div SumPence(weights)]
        left == total - SumPence(floors)
        Before(j, i) == \/ Lost(total, weights, j) > Lost(total, weights, i)
                        \/ Lost(total, weights, j) = Lost(total, weights, i) /\ j < i IN
    [i \in DOMAIN weights |->
        floors[i] + IF Cardinality({j \in DOMAIN weights : Before(j, i)}) < left THEN 1 ELSE 0]

-----------------------------------------------------------------------------
\* Trigger figures: by category, then by the size of the household.
NoFigure == -1

HouseholdBand(household) ==
    LET size == Max({1, household.adults + household.children}) IN IF size >= 4 THEN 4 ELSE size

TriggerFigure(triggers, category, household) ==
    IF category \notin DOMAIN triggers THEN NoFigure
    ELSE LET bands == triggers[category]  band == HouseholdBand(household) IN
         IF band \in DOMAIN bands THEN bands[band]
         ELSE IF 4 \in DOMAIN bands THEN bands[4] ELSE NoFigure

Monthly(line) == ToMonthly(line.amount, line.frequency)
TotalOf(lines, Counts(_)) ==
    SumPence([i \in DOMAIN lines |-> IF Counts(lines[i]) THEN Monthly(lines[i]) ELSE 0])

Spends(line, category) == line.section = "expenditure" /\ line.category = category

\* buildStatement: a trigger figure applies to a category as a whole.
\* Seeded fault: it is held against each line alone.
Over_Line(lines, category, figure) ==
    \E i \in DOMAIN lines : Spends(lines[i], category) /\ Monthly(lines[i]) > figure
Over(lines, category, figure) == TotalOf(lines, LAMBDA l : Spends(l, category)) > figure

BuildStatement(lines, household, triggers) ==
    LET income == TotalOf(lines, LAMBDA l : l.section = "income")
        expenditure == TotalOf(lines, LAMBDA l : l.section = "expenditure")
        spent == {lines[i].category : i \in {j \in DOMAIN lines : lines[j].section = "expenditure"}} IN
    [income |-> income, expenditure |-> expenditure, surplus |-> income - expenditure,
     exceeded |-> {c \in spent : LET figure == TriggerFigure(triggers, c, household) IN
                                 figure # NoFigure /\ Over(lines, c, figure)}]
=============================================================================
