-------------------------------- MODULE Rules --------------------------------
(***************************************************************************)
(* The declarative rule language: packages/core/src/rules/engine.ts.       *)
(*                                                                         *)
(* An expression is a pair of an operator and its operands; a value        *)
(* carries its type, as in JavaScript.  A fact that is not known is Null.  *)
(* Broken stands for the exception of an expression that cannot be         *)
(* evaluated: like an exception it is the result of everything around it,  *)
(* unless a short-circuit never came to it.                                *)
(***************************************************************************)
EXTENDS Integers, SequencesExt

CONSTANT MaxDepth    \* MAX_DEPTH: how deep an expression may be nested

Num(n) == <<"number", n>>
Str(s) == <<"string", s>>
Bool(b) == <<"boolean", b>>
Null == <<"null">>
Broken == <<"broken">>

\* Expressions, as an administrator writes them.
Const(v) == <<"const", v>>
Fact(f) == <<"fact", f>>
Op(operator, operands) == <<operator, operands>>

Comparisons == {"gt", "gte", "lt", "lte"}
Operators == Comparisons \cup
    {"const", "fact", "and", "or", "not", "eq", "neq", "between", "in", "includes", "isNull",
     "add", "subtract", "multiply"}

FactOf(f, facts) == IF f \in DOMAIN facts THEN facts[f] ELSE Null

Truthy(v) ==
    CASE v[1] = "number" -> v[2] # 0
      [] v[1] = "string" -> v[2] # ""
      [] v[1] = "boolean" -> v[2]
      [] v[1] = "list" -> v[2] # << >>
      [] OTHER -> FALSE

\* Text is no number here: the texts that rules compare are names.
\* Seeded fault: what is not known counts as nothing.
Numeric_Zero(v) ==
    CASE v[1] = "number" -> v
      [] v[1] = "boolean" -> Num(IF v[2] THEN 1 ELSE 0)
      [] OTHER -> Num(0)
Numeric(v) ==
    CASE v[1] = "number" -> v
      [] v[1] = "boolean" -> Num(IF v[2] THEN 1 ELSE 0)
      [] OTHER -> Null

\* A comparison against what is not known is false.
Compare(op, a, b) ==
    /\ Numeric(a) # Null /\ Numeric(b) # Null
    /\ LET m == Numeric(a)[2]  n == Numeric(b)[2] IN
       CASE op = "gt" -> m > n
         [] op = "gte" -> m >= n
         [] op = "lt" -> m < n
         [] op = "lte" -> m <= n

\* In arithmetic it is nothing.
Amount(v) == IF Numeric(v) = Null THEN 0 ELSE Numeric(v)[2]

\* every and some: the first operand that settles it, or that breaks.
Until(Settles(_), values, settled) ==
    LET stops == {i \in DOMAIN values : values[i] = Broken \/ Settles(values[i])} IN
    IF stops = {} THEN Bool(~settled)
    ELSE IF values[Min(stops)] = Broken THEN Broken
    ELSE Bool(settled)

\* An operator that looks at all its operands breaks with any of them.
AllOf(values, result) == IF \E i \in DOMAIN values : values[i] = Broken THEN Broken ELSE result

RECURSIVE Evaluate(_, _, _)
Evaluate(e, facts, depth) ==
    LET v == [i \in DOMAIN e[2] |-> Evaluate(e[2][i], facts, depth + 1)] IN
    IF depth > MaxDepth \/ e[1] \notin Operators THEN Broken ELSE
    CASE e[1] = "const" -> e[2]
      [] e[1] = "fact" -> FactOf(e[2], facts)
      [] e[1] = "and" -> Until(LAMBDA x : ~Truthy(x), v, FALSE)
      [] e[1] = "or" -> Until(Truthy, v, TRUE)
      [] e[1] = "in" -> IF v[1] = Broken THEN Broken ELSE Until(LAMBDA x : x = v[1], Tail(v), TRUE)
      [] e[1] = "not" -> AllOf(v, Bool(~Truthy(v[1])))
      [] e[1] = "eq" -> AllOf(v, Bool(v[1] = v[2]))
      [] e[1] = "neq" -> AllOf(v, Bool(v[1] # v[2]))
      [] e[1] \in Comparisons -> AllOf(v, Bool(Compare(e[1], v[1], v[2])))
      [] e[1] = "between" ->
            IF v[1] # Broken /\ Numeric(v[1]) = Null THEN Bool(FALSE)
            ELSE AllOf(v, Bool(Compare("gte", v[1], v[2]) /\ Compare("lte", v[1], v[3])))
      [] e[1] = "includes" -> AllOf(v, Bool(v[1][1] = "list" /\ Contains(v[1][2], v[2])))
      [] e[1] = "isNull" -> AllOf(v, Bool(v[1] = Null))
      [] e[1] = "add" -> AllOf(v, Num(FoldSeq(LAMBDA x, sum : sum + Amount(x), 0, v)))
      [] e[1] = "multiply" -> AllOf(v, Num(FoldSeq(LAMBDA x, product : product * Amount(x), 1, v)))
      [] e[1] = "subtract" -> AllOf(v, Num(Amount(v[1]) - Amount(v[2])))

-----------------------------------------------------------------------------
Rule(key, severity, when) == [key |-> key, severity |-> severity, when |-> when]

\* A rule that cannot be evaluated is not satisfied, and blocks.
\* Seeded fault: it keeps the severity it was given.
Outcome_Keeps(rule, facts) ==
    LET value == Evaluate(rule.when, facts, 0) IN
    [key |-> rule.key, satisfied |-> value # Broken /\ Truthy(value), severity |-> rule.severity]
Outcome(rule, facts) ==
    LET value == Evaluate(rule.when, facts, 0) IN
    [key |-> rule.key,
     satisfied |-> value # Broken /\ Truthy(value),
     severity |-> IF value = Broken THEN "blocking" ELSE rule.severity]

\* evaluateRules: the outcome of each, and what blocks.
EvaluateRules(rules, facts) == {Outcome(rule, facts) : rule \in rules}
BlockedBy(outcomes) == {o.key : o \in {x \in outcomes : ~x.satisfied /\ x.severity = "blocking"}}
Warnings(outcomes) == {o.key : o \in {x \in outcomes : ~x.satisfied /\ x.severity = "warning"}}
=============================================================================
