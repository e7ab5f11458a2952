------------------------- MODULE WorkflowEngineProofs -------------------------
(***************************************************************************)
(* Theorems about WorkflowEngine, for any definitions the parser accepts.  *)
(*                                                                         *)
(* A call of advanceRun keeps what it has written to itself, and others    *)
(* may change the tables meanwhile: each invariant says, beside what the   *)
(* tables hold, that the calls under way will not break it when they       *)
(* commit.                                                                 *)
(***************************************************************************)
EXTENDS WorkflowEngine, TLAPS

-----------------------------------------------------------------------------
(* What the parser guarantees. *)

LEMMA DefinitionTypes ==
    ASSUME definition \in Definitions
    PROVE  Nil \notin Steps /\ StartStep \in Steps /\ MaxSteps \in Nat \ {0}
BY DefinitionAssumption DEF Steps, StartStep, MaxSteps, ValidDefinition

LEMMA StepTypes ==
    ASSUME definition \in Definitions, NEW s \in Steps
    PROVE  /\ Step(s).next \in Steps \cup {Nil}
           /\ Step(s).onError \in Steps \cup {Nil}
           /\ Step(s).onReject \in Steps \cup {Nil}
           /\ Step(s).targets \subseteq Steps \cup {Nil}
           /\ Step(s).may \subseteq {"succeeded", "failed", "partial", "sql-error"}
<1>1. definition.steps \in [Steps -> StepShape(definition)]
  BY DefinitionAssumption DEF Steps
<1>2. Step(s) \in StepShape(definition)
  BY <1>1 DEF Step
<1>3. QED
  BY <1>2 DEF StepShape, Steps

-----------------------------------------------------------------------------
(* Type correctness. *)

\* A call that is about to record something stands at a step, within the budget.
Placed(t) ==
    t.pc = "record" =>
        /\ t.plan # "none"
        /\ t.plan # "budget" => t.at \in Steps /\ t.n < MaxSteps

TypeInv == TypeOK /\ \A w \in Workers : Placed(tx[w])

LEMMA CallTypes ==
    ASSUME NEW t \in Call
    PROVE  /\ t.pc \in {"idle", "look", "record", "commit"} /\ t.at \in Steps \cup {Nil}
           /\ t.n \in 0 .. MaxSteps /\ t.plan \in Plans /\ t.run \in RunRow \cup {NoRun}
           /\ t.rows \in SUBSET StepRow /\ t.asked \in SUBSET Steps /\ t.done \in [Steps -> Times]
           /\ t.outcome \in {"none"} \cup RunStatus
BY DEF Call

LEMMA RunTypes ==
    ASSUME NEW row \in RunRow
    PROVE  /\ row.status \in RunStatus /\ row.step \in Steps \cup {Nil} /\ row.due \in BOOLEAN
           /\ row.dry \in BOOLEAN /\ row # NoRun
<1>1. "none" \notin RunStatus
  BY DEF RunStatus, Final
<1>2. QED
  BY <1>1 DEF RunRow, NoRun

LEMMA IdleTyped ==
    ASSUME definition \in Definitions
    PROVE  Idle \in Call /\ Placed(Idle) /\ Idle.pc = "idle" /\ Idle.run = NoRun
<1>1. MaxSteps \in Nat
  BY DefinitionTypes
<1>2. QED
  BY <1>1 DEF Idle, Call, Plans, Times, StepRow, Placed

LEMMA SeenTyped ==
    ASSUME TypeOK, NEW w \in Workers
    PROVE  RunSeen(w) \in RunRow /\ RowsSeen(w) \subseteq StepRow
<1>1. tx[w].run \in RunRow \cup {NoRun} /\ tx[w].rows \in SUBSET StepRow
  BY CallTypes DEF TypeOK
<1>2. QED
  BY <1>1 DEF RunSeen, RowsSeen, TypeOK

\* One call changes and the others do not.
LEMMA OneCall ==
    ASSUME tx \in [Workers -> Call], NEW w \in Workers, NEW t, tx' = [tx EXCEPT ![w] = t]
    PROVE  tx'[w] = t /\ \A v \in Workers \ {w} : tx'[v] = tx[v]
OBVIOUS

LEMMA FixedTypes ==
    ASSUME definition' = definition
    PROVE  /\ Steps' = Steps /\ MaxSteps' = MaxSteps /\ Call' = Call /\ RunRow' = RunRow
           /\ StepRow' = StepRow /\ Idle' = Idle
           /\ \A t : Placed(t)' <=> Placed(t)
<1>1. Steps' = Steps /\ MaxSteps' = MaxSteps
  BY DEF Steps, MaxSteps
<1>2. QED
  BY <1>1 DEF Call, RunRow, StepRow, Idle, Placed

\* It is enough to look at the call that took the step.
LEMMA CallStep ==
    ASSUME TypeInv, NEW w \in Workers, NEW t \in Call, Placed(t), tx' = [tx EXCEPT ![w] = t],
           definition' = definition
    PROVE  tx' \in [Workers -> Call'] /\ (\A v \in Workers : Placed(tx[v]))'
<1>1. tx'[w] = t /\ \A v \in Workers \ {w} : tx'[v] = tx[v]
  BY OneCall DEF TypeInv, TypeOK
<1>2. tx' \in [Workers -> Call']
  BY FixedTypes DEF TypeInv, TypeOK
<1>3. \A v \in Workers : Placed(tx'[v])
  BY <1>1 DEF TypeInv
<1>4. QED
  BY <1>2, <1>3, FixedTypes

LEMMA FinishTyped ==
    ASSUME NEW t \in Call, NEW row \in RunRow
    PROVE  /\ Finish(t, row) \in Call /\ Placed(Finish(t, row))
           /\ Finish(t, row).pc = "commit" /\ Finish(t, row).run = row
           /\ Finish(t, row).at = t.at /\ Finish(t, row).rows = t.rows
           /\ Finish(t, row).asked = t.asked /\ Finish(t, row).done = t.done
           /\ Finish(t, row).outcome = row.status
<1>1. row.status \in RunStatus
  BY RunTypes
<1>2. QED
  BY <1>1 DEF Finish, Call, Placed

LEMMA RecordedTyped ==
    ASSUME TypeOK, NEW w \in Workers, tx[w].at \in Steps,
           NEW status \in {"succeeded", "failed", "skipped"}
    PROVE  Recorded(w, status) \in SUBSET StepRow
<1>1. tx[w].n \in 0 .. MaxSteps /\ tx[w].rows \in SUBSET StepRow
  BY CallTypes DEF TypeOK
<1>2. [step |-> tx[w].at, seq |-> tx[w].n, status |-> status] \in StepRow
  BY <1>1 DEF StepRow
<1>3. QED
  BY <1>1, <1>2 DEF Recorded

\* What a call is once its step is recorded with this outcome and effect, before
\* it goes on.
Counted(w, status, times) ==
    [tx[w] EXCEPT !.rows = Recorded(w, status), !.n = @ + 1, !.plan = "none",
        !.done[tx[w].at] = times]

\* How often the step's effect has happened in this call, after its success or
\* its failure.
AfterDoing(w) ==
    IF Wet /\ Step(tx[w].at).type \in Transactional
    THEN More(tx[w].done[tx[w].at]) ELSE tx[w].done[tx[w].at]
AfterFailing(w) ==
    IF tx[w].plan = "partial" THEN More(tx[w].done[tx[w].at]) ELSE tx[w].done[tx[w].at]

LEMMA CountedTyped ==
    ASSUME TypeInv, NEW w \in Workers, tx[w].pc = "record", tx[w].plan # "budget",
           NEW status \in {"succeeded", "failed"}, NEW times \in Times
    PROVE  LET t == Counted(w, status, times) IN
           /\ t \in Call
           /\ t.pc = "record" /\ t.at = tx[w].at /\ t.run = tx[w].run
           /\ t.rows = Recorded(w, status) /\ t.asked = tx[w].asked
           /\ t.plan = "none" /\ t.n = tx[w].n + 1
           /\ \A s \in Steps \ {tx[w].at} : t.done[s] = tx[w].done[s]
           /\ t.done[tx[w].at] = times
<1> DEFINE t == Counted(w, status, times)
           done == [tx[w].done EXCEPT ![tx[w].at] = times]
<1>1. tx[w] \in Call /\ tx[w].at \in Steps /\ tx[w].n < MaxSteps /\ tx[w].n \in 0 .. MaxSteps
      /\ tx[w].done \in [Steps -> Times] /\ MaxSteps \in Nat
  BY CallTypes, DefinitionTypes DEF TypeInv, TypeOK, Placed
<1>2. Recorded(w, status) \in SUBSET StepRow
  BY <1>1, RecordedTyped DEF TypeInv
<1>5. done \in [Steps -> Times] /\ done[tx[w].at] = times
      /\ \A s \in Steps \ {tx[w].at} : done[s] = tx[w].done[s]
  BY <1>1
<1>6. t = [tx[w] EXCEPT !.rows = Recorded(w, status), !.n = @ + 1, !.plan = "none", !.done = done]
  BY <1>1 DEF Counted
<1>7. tx[w].n + 1 \in 0 .. MaxSteps
  BY <1>1
<1> HIDE DEF done, t
<1>8. t \in Call
  BY <1>1, <1>2, <1>5, <1>6, <1>7 DEF Call, Plans
<1>9. /\ t.pc = "record" /\ t.at = tx[w].at /\ t.run = tx[w].run
      /\ t.rows = Recorded(w, status) /\ t.asked = tx[w].asked
      /\ t.plan = "none" /\ t.n = tx[w].n + 1 /\ t.done = done
  BY <1>1, <1>6 DEF Call
<1>10. QED
  BY <1>5, <1>8, <1>9 DEF t

LEMMA DoingTyped ==
    ASSUME TypeInv, NEW w \in Workers, tx[w].at \in Steps
    PROVE  AfterDoing(w) \in Times /\ AfterFailing(w) \in Times
<1>1. tx[w].done \in [Steps -> Times]
  BY CallTypes DEF TypeInv, TypeOK
<1>2. \A n \in Times : More(n) \in Times
  BY DEF Times, More
<1>3. QED
  BY <1>1, <1>2 DEF AfterDoing, AfterFailing

\* The four ways a step that succeeded is recorded.
LEMMA AfterSuccessCases ==
    ASSUME NEW w, NEW to
    PROVE  LET s == tx[w].at  t == Counted(w, "succeeded", AfterDoing(w))  row == RunSeen(w) IN
           \/ /\ Wet /\ Step(s).type = "delay"
              /\ AfterSuccess(w, to) = Finish(t, [row EXCEPT !.status = "waiting", !.step = s, !.due = FALSE])
           \/ /\ Wet /\ Step(s).type = "approval"
              /\ AfterSuccess(w, to) =
                    Finish([t EXCEPT !.asked = @ \cup {s}],
                           [row EXCEPT !.status = "awaiting-approval", !.step = s, !.due = TRUE])
           \/ /\ Step(s).type = "end"
              /\ AfterSuccess(w, to) = Finish(t, [row EXCEPT !.status = "completed", !.step = s])
           \/ /\ Step(s).type # "end" /\ ~(Wet /\ Step(s).type \in {"delay", "approval"})
              /\ AfterSuccess(w, to) =
                    [t EXCEPT !.pc = "look", !.at = to, !.run = [row EXCEPT !.step = to]]
BY DEF AfterSuccess, Counted, AfterDoing

-----------------------------------------------------------------------------
(* What Record makes of a call, by what the call had planned. *)

\* A row as dry as row, with this status and step.
RunIs(r, row, status, step) ==
    r \in RunRow /\ r.status = status /\ r.step = step /\ r.dry = row.dry

Stops(t, row) == t.pc = "commit" /\ t.run = row /\ t.outcome = row.status
Leaves(t, row, status, step) ==
    t.pc = "commit" /\ t.outcome = status /\ RunIs(t.run, row, status, step)
GoesOn(t, to) == t.pc = "look" /\ t.at = to
SameDone(w, t) == t.asked = tx[w].asked /\ t.done = tx[w].done

\* A step that succeeded has its effect counted, once more than before.
Effected(w, t) ==
    /\ t.rows = Recorded(w, "succeeded")
    /\ \A s \in Steps \ {tx[w].at} : t.done[s] = tx[w].done[s]
    /\ t.done[tx[w].at] = AfterDoing(w)

Ends(w) == IF Step(tx[w].at).type = "branch" THEN Step(tx[w].at).targets ELSE {Step(tx[w].at).next}

SucceededSo(w, t) ==
    LET s == tx[w].at  row == RunSeen(w) IN
    /\ tx[w].plan = "succeeded" /\ Effected(w, t)
    /\ \/ /\ Wet /\ Step(s).type = "delay" /\ t.asked = tx[w].asked /\ t.at = s
          /\ Leaves(t, row, "waiting", s)
       \/ /\ Wet /\ Step(s).type = "approval" /\ t.asked = tx[w].asked \cup {s} /\ t.at = s
          /\ Leaves(t, row, "awaiting-approval", s)
       \/ /\ Step(s).type = "end" /\ t.asked = tx[w].asked /\ t.at = s
          /\ Leaves(t, row, "completed", s)
       \/ /\ Step(s).type # "end" /\ ~(Wet /\ Step(s).type \in {"delay", "approval"})
          /\ t.asked = tx[w].asked
          /\ \E to \in Ends(w) : GoesOn(t, to) /\ RunIs(t.run, row, row.status, to)

\* A step that failed may have left something behind.
FailedSo(w, t) ==
    LET s == tx[w].at  row == RunSeen(w) IN
    /\ tx[w].plan \in Failures
    /\ t.rows = Recorded(w, "failed") /\ t.asked = tx[w].asked
    /\ \A k \in Steps \ {s} : t.done[k] = tx[w].done[k]
    /\ t.done[s] = AfterFailing(w)
    /\ \/ Step(s).onError # Nil /\ GoesOn(t, Step(s).onError) /\ t.run = tx[w].run
       \/ Step(s).onError = Nil /\ Leaves(t, row, "failed", row.step) /\ t.at = s

OtherwiseSo(w, t) ==
    LET s == tx[w].at  row == RunSeen(w) IN
    /\ tx[w].plan \in {"skipped", "await", "close-rejected", "budget"}
    /\ SameDone(w, t)
    /\ \/ /\ tx[w].plan = "skipped" /\ t.rows = Recorded(w, "skipped")
          /\ GoesOn(t, Step(s).next) /\ t.run = tx[w].run
       \/ /\ tx[w].plan = "await" /\ t.rows = tx[w].rows /\ t.at = s
          /\ Leaves(t, row, "awaiting-approval", s)
       \/ /\ tx[w].plan = "close-rejected" /\ t.rows = tx[w].rows /\ t.at = s
          /\ Leaves(t, row, "completed", row.step)
       \/ /\ tx[w].plan = "budget" /\ t.rows = tx[w].rows /\ t.at = s
          /\ Leaves(t, row, "failed", row.step)

RecordedSo(w, t) == SucceededSo(w, t) \/ FailedSo(w, t) \/ OtherwiseSo(w, t)

LEMMA RowTyped ==
    ASSUME NEW row \in RunRow, NEW status \in RunStatus, NEW to \in Steps \cup {Nil},
           NEW due \in BOOLEAN
    PROVE  /\ RunIs([row EXCEPT !.status = status, !.step = to, !.due = due], row, status, to)
           /\ RunIs([row EXCEPT !.status = status, !.step = to], row, status, to)
           /\ RunIs([row EXCEPT !.status = status], row, status, row.step)
           /\ RunIs([row EXCEPT !.step = to], row, row.status, to)
BY DEF RunRow, RunIs

LEMMA SucceededTyped ==
    ASSUME TypeInv, NEW w \in Workers, tx[w].pc = "record", tx[w].plan = "succeeded",
           NEW to \in Ends(w)
    PROVE  LET t == AfterSuccess(w, to) IN t \in Call /\ Placed(t) /\ SucceededSo(w, t)
<1> DEFINE s == tx[w].at
           c == Counted(w, "succeeded", AfterDoing(w))
           row == RunSeen(w)
           t == AfterSuccess(w, to)
<1>1. s \in Steps /\ row \in RunRow /\ definition \in Definitions /\ tx[w] \in Call
  BY SeenTyped DEF TypeInv, TypeOK, Placed
<1>2. to \in Steps \cup {Nil}
  BY <1>1, StepTypes DEF Ends
<1>3. /\ c \in Call /\ c.pc = "record" /\ c.at = s /\ c.asked = tx[w].asked /\ Effected(w, c)
  BY <1>1, CountedTyped, DoingTyped DEF Effected
<1>4. {"waiting", "awaiting-approval", "completed", "failed"} \subseteq RunStatus
  BY DEF RunStatus, Final
<1> HIDE DEF c, row, t
<1>5. CASE /\ Wet /\ Step(s).type = "delay"
           /\ t = Finish(c, [row EXCEPT !.status = "waiting", !.step = s, !.due = FALSE])
  <2> DEFINE after == [row EXCEPT !.status = "waiting", !.step = s, !.due = FALSE]
  <2>1. RunIs(after, row, "waiting", s)
    BY <1>1, <1>4, RowTyped
  <2>0. t = Finish(c, after)
    BY <1>5
  <2> HIDE DEF after
  <2>2. t \in Call /\ Placed(t) /\ Effected(w, t) /\ t.asked = tx[w].asked /\ t.at = s
        /\ Stops(t, after)
    BY <1>3, <2>0, <2>1, FinishTyped DEF Stops, Effected, RunIs
  <2>3. QED
    BY <1>5, <2>1, <2>2 DEF SucceededSo, Stops, Leaves, RunIs, row, t, after
<1>6. CASE /\ Wet /\ Step(s).type = "approval"
           /\ t = Finish([c EXCEPT !.asked = @ \cup {s}],
                         [row EXCEPT !.status = "awaiting-approval", !.step = s, !.due = TRUE])
  <2> DEFINE after == [row EXCEPT !.status = "awaiting-approval", !.step = s, !.due = TRUE]
  <2>1. RunIs(after, row, "awaiting-approval", s)
    BY <1>1, <1>4, RowTyped
  <2> HIDE DEF after
  <2> DEFINE a == [c EXCEPT !.asked = @ \cup {s}]
  <2>2. /\ a \in Call /\ a.at = c.at /\ a.asked = c.asked \cup {s} /\ a.rows = c.rows /\ a.done = c.done
    BY <1>1, <1>3 DEF Call
  <2>3. t = Finish(a, after)
    BY <1>6 DEF after
  <2> HIDE DEF a
  <2>4. t \in Call /\ Placed(t) /\ Effected(w, t) /\ t.asked = tx[w].asked \cup {s} /\ t.at = s
        /\ Stops(t, after)
    BY <1>3, <2>1, <2>2, <2>3, FinishTyped DEF Stops, Effected, RunIs
  <2>5. QED
    BY <1>6, <2>1, <2>4 DEF SucceededSo, Stops, Leaves, RunIs, row, t, after
<1>7. CASE Step(s).type = "end" /\ t = Finish(c, [row EXCEPT !.status = "completed", !.step = s])
  <2> DEFINE after == [row EXCEPT !.status = "completed", !.step = s]
  <2>1. RunIs(after, row, "completed", s)
    BY <1>1, <1>4, RowTyped
  <2>0. t = Finish(c, after)
    BY <1>7
  <2> HIDE DEF after
  <2>2. t \in Call /\ Placed(t) /\ Effected(w, t) /\ t.asked = tx[w].asked /\ t.at = s
        /\ Stops(t, after)
    BY <1>3, <2>0, <2>1, FinishTyped DEF Stops, Effected, RunIs
  <2>3. QED
    BY <1>7, <2>1, <2>2 DEF SucceededSo, Stops, Leaves, RunIs, row, t, after
<1>8. CASE /\ Step(s).type # "end" /\ ~(Wet /\ Step(s).type \in {"delay", "approval"})
           /\ t = [c EXCEPT !.pc = "look", !.at = to, !.run = [row EXCEPT !.step = to]]
  <2> DEFINE after == [row EXCEPT !.step = to]
  <2>1. RunIs(after, row, row.status, to)
    BY <1>1, <1>2, <1>4, RowTyped, RunTypes
  <2>2. /\ t \in Call /\ t.pc = "look" /\ t.at = to /\ t.run = after
        /\ t.rows = c.rows /\ t.asked = c.asked /\ t.done = c.done
    BY <1>2, <1>3, <1>8, <2>1 DEF Call, RunIs
  <2>3. QED
    BY <1>3, <1>8, <2>1, <2>2 DEF SucceededSo, GoesOn, row, t, Effected, Placed
<1>9. QED
  BY <1>5, <1>6, <1>7, <1>8, AfterSuccessCases DEF c, row, t

LEMMA GoesOnTyped ==
    ASSUME TypeInv, NEW w \in Workers, tx[w].pc = "record", tx[w].at \in Steps, tx[w].n < MaxSteps,
           NEW to \in Steps \cup {Nil}, NEW t,
           t = [tx[w] EXCEPT !.pc = "look", !.plan = "none", !.n = @ + 1,
                             !.rows = Recorded(w, "skipped"), !.at = to]
    PROVE  /\ t \in Call /\ Placed(t) /\ SameDone(w, t) /\ GoesOn(t, to) /\ t.run = tx[w].run
           /\ t.rows = Recorded(w, "skipped")
<1>1. tx[w] \in Call /\ tx[w].n \in 0 .. MaxSteps /\ MaxSteps \in Nat
  BY CallTypes, DefinitionTypes DEF TypeInv, TypeOK
<1>2. tx[w].n + 1 \in 0 .. MaxSteps
  BY <1>1
<1>3. Recorded(w, "skipped") \in SUBSET StepRow
  BY RecordedTyped DEF TypeInv
<1>4. QED
  BY <1>1, <1>2, <1>3 DEF Call, Plans, Placed, SameDone, GoesOn

LEMMA FailsTyped ==
    ASSUME TypeInv, NEW w \in Workers, tx[w].pc = "record", tx[w].plan \in Failures
    PROVE  LET s == tx[w].at  t == AfterFailure(w) IN
           /\ s \in Steps /\ t \in Call /\ t.at = s /\ t.run = tx[w].run /\ t.plan = "none"
           /\ t.rows = Recorded(w, "failed") /\ t.asked = tx[w].asked
           /\ \A k \in Steps \ {s} : t.done[k] = tx[w].done[k]
           /\ t.done[s] = AfterFailing(w)
<1>1. tx[w].plan # "budget" /\ tx[w].at \in Steps
  BY DEF Failures, TypeInv, Placed
<1>2. AfterFailure(w) = Counted(w, "failed", AfterFailing(w))
  BY DEF AfterFailure, Counted, AfterFailing
<1>3. QED
  BY <1>1, <1>2, DoingTyped, CountedTyped

LEMMA StopsTyped ==
    ASSUME NEW t \in Call, NEW row \in RunRow
    PROVE  LET f == Finish(t, row) IN
           /\ f \in Call /\ Placed(f) /\ Stops(f, row) /\ f.at = t.at /\ f.rows = t.rows
           /\ f.asked = t.asked /\ f.done = t.done
BY FinishTyped DEF Stops

\* What one step of Record does to the call that takes it.
LEMMA RecordStep ==
    ASSUME TypeInv, NEW w \in Workers, Record(w)
    PROVE  /\ tx[w].pc = "record" /\ MayWrite(w) /\ Keep
           /\ \E t \in Call : /\ Placed(t) /\ tx' = [tx EXCEPT ![w] = t]
                             /\ RecordedSo(w, t)
<1> DEFINE s == tx[w].at
           row == RunSeen(w)
           Good(t) == t \in Call /\ Placed(t) /\ RecordedSo(w, t)
<1>1. /\ tx[w].pc = "record" /\ tx[w] \in Call /\ row \in RunRow /\ definition \in Definitions
      /\ tx[w].plan # "budget" => s \in Steps /\ tx[w].n < MaxSteps
      /\ s \in Steps \cup {Nil}
  BY SeenTyped, CallTypes DEF TypeInv, TypeOK, Placed, Record
<1>2. {"awaiting-approval", "completed", "failed"} \subseteq RunStatus
  BY DEF RunStatus, Final
<1> HIDE DEF row
<1>3. ASSUME tx[w].plan = "succeeded",
             NEW to \in IF Step(s).type = "branch" THEN Step(s).targets ELSE {Step(s).next}
      PROVE  Good(AfterSuccess(w, to))
  BY <1>1, <1>3, SucceededTyped DEF Ends, RecordedSo
<1>4. CASE tx[w].plan = "skipped"
  <2> DEFINE t == [tx[w] EXCEPT !.pc = "look", !.plan = "none", !.n = @ + 1,
                                !.rows = Recorded(w, "skipped"), !.at = Step(s).next]
  <2>1. Step(s).next \in Steps \cup {Nil}
    BY <1>1, <1>4, StepTypes
  <2>2. Good(t)
    <3> HIDE DEF t
    <3> QED BY <1>1, <1>4, <2>1, GoesOnTyped DEF OtherwiseSo, RecordedSo, t
  <2>3. QED
    BY <1>1, <1>4, <2>2 DEF Record, Failures
<1>5. CASE tx[w].plan \in Failures /\ Step(s).onError # Nil
  <2> DEFINE f == AfterFailure(w)
             t == [f EXCEPT !.pc = "look", !.at = Step(s).onError]
  <2>1. Step(s).onError \in Steps \cup {Nil}
    BY <1>1, <1>5, FailsTyped, StepTypes
  <2>2. /\ f \in Call /\ f.run = tx[w].run /\ f.rows = Recorded(w, "failed") /\ f.asked = tx[w].asked
        /\ \A k \in Steps \ {s} : f.done[k] = tx[w].done[k]
        /\ f.done[s] = AfterFailing(w)
    BY <1>1, <1>5, FailsTyped
  <2> HIDE DEF f
  <2>3. /\ t \in Call /\ t.pc = "look" /\ t.at = Step(s).onError /\ t.run = f.run
        /\ t.rows = f.rows /\ t.asked = f.asked /\ t.done = f.done
    BY <2>1, <2>2 DEF Call
  <2>4. tx' = [tx EXCEPT ![w] = t]
    BY <1>1, <1>5 DEF Record, f, Failures
  <2> HIDE DEF t
  <2>5. Good(t)
    BY <1>5, <2>2, <2>3 DEF RecordedSo, FailedSo, GoesOn, Placed
  <2>6. QED
    BY <1>1, <2>4, <2>5 DEF Record
<1>6. CASE tx[w].plan \in Failures /\ Step(s).onError = Nil
  <2> DEFINE f == AfterFailure(w)
             after == [row EXCEPT !.status = "failed"]
  <2>1. RunIs(after, row, "failed", row.step)
    BY <1>1, <1>2, RowTyped
  <2>2. /\ f \in Call /\ f.at = s /\ f.rows = Recorded(w, "failed") /\ f.asked = tx[w].asked
        /\ \A k \in Steps \ {s} : f.done[k] = tx[w].done[k]
        /\ f.done[s] = AfterFailing(w)
    BY <1>1, <1>6, FailsTyped
  <2>4. tx' = [tx EXCEPT ![w] = Finish(f, after)]
    BY <1>1, <1>6 DEF Record, row, Failures
  <2> HIDE DEF f, after
  <2>3. Good(Finish(f, after))
    <3> DEFINE t == Finish(f, after)
    <3>1. /\ t \in Call /\ Placed(t) /\ Stops(t, after) /\ t.at = s /\ t.rows = f.rows
          /\ t.asked = f.asked /\ t.done = f.done
      BY <2>1, <2>2, StopsTyped DEF RunIs
    <3>2. Leaves(t, row, "failed", row.step)
      BY <2>1, <3>1 DEF Stops, Leaves, RunIs
    <3> HIDE DEF t
    <3>3. FailedSo(w, t)
      BY <1>6, <2>2, <3>1, <3>2 DEF FailedSo, row
    <3>4. QED
      BY <3>1, <3>3 DEF RecordedSo, t
  <2>5. QED
    BY <1>1, <2>3, <2>4 DEF Record
<1>7. CASE tx[w].plan = "await"
  <2> DEFINE after == [row EXCEPT !.status = "awaiting-approval", !.step = s]
  <2>1. RunIs(after, row, "awaiting-approval", s)
    BY <1>1, <1>2, RowTyped
  <2> HIDE DEF after
  <2>2. Good(Finish(tx[w], after))
    BY <1>1, <1>7, <2>1, StopsTyped DEF OtherwiseSo, RecordedSo, SameDone, Stops, Leaves, RunIs, row
  <2>3. tx' = [tx EXCEPT ![w] = Finish(tx[w], after)]
    BY <1>1, <1>7 DEF Record, Failures, after, row
  <2>4. QED
    BY <1>1, <2>2, <2>3 DEF Record
<1>8. CASE tx[w].plan = "close-rejected"
  <2> DEFINE after == [row EXCEPT !.status = "completed"]
  <2>1. RunIs(after, row, "completed", row.step)
    BY <1>1, <1>2, RowTyped
  <2> HIDE DEF after
  <2>2. Good(Finish(tx[w], after))
    BY <1>1, <1>8, <2>1, StopsTyped DEF OtherwiseSo, RecordedSo, SameDone, Stops, Leaves, RunIs, row
  <2>3. tx' = [tx EXCEPT ![w] = Finish(tx[w], after)]
    BY <1>1, <1>8 DEF Record, Failures, after, row
  <2>4. QED
    BY <1>1, <2>2, <2>3 DEF Record
<1>9. CASE tx[w].plan = "budget"
  <2> DEFINE after == [row EXCEPT !.status = "failed"]
  <2>1. RunIs(after, row, "failed", row.step)
    BY <1>1, <1>2, RowTyped
  <2> HIDE DEF after
  <2>2. Good(Finish(tx[w], after))
    BY <1>1, <1>9, <2>1, StopsTyped DEF OtherwiseSo, RecordedSo, SameDone, Stops, Leaves, RunIs, row
  <2>3. tx' = [tx EXCEPT ![w] = Finish(tx[w], after)]
    BY <1>1, <1>9 DEF Record, Failures, after, row
  <2>4. QED
    BY <1>1, <2>2, <2>3 DEF Record
<1>10. CASE tx[w].plan = "succeeded"
  BY <1>1, <1>3, <1>10 DEF Record, Failures
<1>11. QED
  BY <1>4, <1>5, <1>6, <1>7, <1>8, <1>9, <1>10 DEF Record, Failures

-----------------------------------------------------------------------------
(* What the other steps of a call make of it. *)

\* What the call has written, so far.
SameWrites(w, t) ==
    /\ t.run = tx[w].run /\ t.rows = tx[w].rows /\ SameDone(w, t)

\* The call only changes where it stands and what it is about to do.
LEMMA MovedTyped ==
    ASSUME TypeInv, NEW w \in Workers, NEW pc \in {"idle", "look", "record", "commit"},
           NEW plan \in Plans, NEW at \in Steps \cup {Nil},
           NEW outcome \in {"none"} \cup RunStatus, NEW t,
           t = [tx[w] EXCEPT !.pc = pc, !.plan = plan, !.at = at, !.outcome = outcome]
    PROVE  /\ t \in Call /\ SameWrites(w, t)
           /\ t.pc = pc /\ t.plan = plan /\ t.at = at /\ t.n = tx[w].n /\ t.outcome = outcome
<1>1. tx[w] \in Call
  BY DEF TypeInv, TypeOK
<1>2. QED
  BY <1>1 DEF Call, SameWrites, SameDone

\* A call that begins.
BegunSo(t) ==
    /\ t.pc = "look" /\ t.at = IF run.step = Nil THEN StartStep ELSE run.step
    /\ t.n = 0 /\ t.plan = "none" /\ t.run = NoRun /\ t.rows = {} /\ t.asked = {}
    /\ t.done = [s \in Steps |-> 0] /\ t.outcome = "none"

LEMMA BeginStep ==
    ASSUME TypeInv, NEW w \in Workers, Begin(w)
    PROVE  /\ tx[w].pc = "idle" /\ Drivable /\ Keep
           /\ \E t \in Call : Placed(t) /\ tx' = [tx EXCEPT ![w] = t] /\ BegunSo(t)
<1> DEFINE at == IF run.step = Nil THEN StartStep ELSE run.step
           t == [Idle EXCEPT !.pc = "look", !.at = at]
<1>1. at \in Steps
  BY DefinitionTypes, RunTypes DEF TypeInv, TypeOK
<1>2. Idle \in Call
  BY IdleTyped DEF TypeInv, TypeOK
<1>3. t \in Call
  BY <1>1, <1>2 DEF Call
<1>4. BegunSo(t) /\ Placed(t)
  BY DEF BegunSo, Placed, Idle
<1>5. QED
  BY <1>3, <1>4 DEF Begin

LeftSo(w, t) ==
    /\ SameWrites(w, t) /\ t.at = tx[w].at
    /\ tx[w].at = Nil \/ tx[w].n = MaxSteps
    /\ IF tx[w].n = MaxSteps THEN t.pc = "record" /\ t.plan = "budget"
       ELSE t.pc = "commit" /\ t.outcome = "completed"

LEMMA LeaveLoopStep ==
    ASSUME TypeInv, NEW w \in Workers, LeaveLoop(w)
    PROVE  /\ tx[w].pc = "look" /\ Keep
           /\ \E t \in Call : Placed(t) /\ tx' = [tx EXCEPT ![w] = t] /\ LeftSo(w, t)
<1> DEFINE t == IF tx[w].n = MaxSteps THEN [tx[w] EXCEPT !.pc = "record", !.plan = "budget"]
                ELSE [tx[w] EXCEPT !.pc = "commit", !.outcome = "completed"]
<1>1. tx \in [Workers -> Call] /\ tx[w] \in Call
  BY DEF TypeInv, TypeOK
<1>2. t \in Call
  BY <1>1 DEF Call, Plans, RunStatus, Final
<1>3. /\ SameWrites(w, t) /\ t.at = tx[w].at
      /\ IF tx[w].n = MaxSteps THEN t.pc = "record" /\ t.plan = "budget"
         ELSE t.pc = "commit" /\ t.outcome = "completed"
  BY <1>1 DEF Call, SameWrites, SameDone
<1>4. Placed(t) /\ tx' = [tx EXCEPT ![w] = t]
  BY <1>1, <1>3 DEF LeaveLoop, Placed
<1>5. QED
  BY <1>2, <1>3, <1>4 DEF LeaveLoop, LeftSo

SkippedSo(w, t) ==
    LET s == tx[w].at IN
    /\ SameWrites(w, t) /\ t.outcome = tx[w].outcome
    /\ PassedBefore(w, s)
    /\ \/ /\ Step(s).type = "approval" /\ ApprovalSeen(w, s) = "pending"
          /\ t.pc = "record" /\ t.plan = "await" /\ t.at = s
       \/ /\ Step(s).type = "approval" /\ ApprovalSeen(w, s) = "rejected" /\ Step(s).onReject = Nil
          /\ t.pc = "record" /\ t.plan = "close-rejected" /\ t.at = s
       \/ /\ ~(Step(s).type = "approval" /\ ApprovalSeen(w, s) = "pending")
          /\ ~(Step(s).type = "approval" /\ ApprovalSeen(w, s) = "rejected" /\ Step(s).onReject = Nil)
          /\ t.pc = "look" /\ t.plan = tx[w].plan /\ t.at = Onward(w, s)

LEMMA SkipStep ==
    ASSUME TypeInv, NEW w \in Workers, Skip(w)
    PROVE  /\ tx[w].pc = "look" /\ tx[w].at \in Steps /\ tx[w].n < MaxSteps /\ Keep
           /\ \E t \in Call : Placed(t) /\ tx' = [tx EXCEPT ![w] = t] /\ SkippedSo(w, t)
<1> DEFINE s == tx[w].at
<1>1. tx \in [Workers -> Call] /\ tx[w] \in Call /\ s \in Steps /\ tx[w].pc = "look"
      /\ tx[w].n < MaxSteps
  BY CallTypes DEF TypeInv, TypeOK, Skip, InLoop
<1>2. Onward(w, s) \in Steps \cup {Nil}
  BY <1>1, StepTypes DEF Onward, TypeInv, TypeOK
<1>3. CASE Step(s).type = "approval" /\ ApprovalSeen(w, s) = "pending"
  <2> DEFINE t == [tx[w] EXCEPT !.pc = "record", !.plan = "await"]
  <2>1. t \in Call /\ Placed(t) /\ SkippedSo(w, t)
    BY <1>1, <1>3 DEF Skip, SkippedSo, Call, Plans, SameWrites, SameDone, Placed
  <2>2. tx' = [tx EXCEPT ![w] = t]
    BY <1>1, <1>3 DEF Skip
  <2>3. QED
    BY <1>1, <2>1, <2>2 DEF Skip
<1>4. CASE /\ ~(Step(s).type = "approval" /\ ApprovalSeen(w, s) = "pending")
           /\ Step(s).type = "approval" /\ ApprovalSeen(w, s) = "rejected" /\ Step(s).onReject = Nil
  <2> DEFINE t == [tx[w] EXCEPT !.pc = "record", !.plan = "close-rejected"]
  <2>1. t \in Call /\ Placed(t) /\ SkippedSo(w, t)
    BY <1>1, <1>4 DEF Skip, SkippedSo, Call, Plans, SameWrites, SameDone, Placed
  <2>2. tx' = [tx EXCEPT ![w] = t]
    BY <1>1, <1>4 DEF Skip
  <2>3. QED
    BY <1>1, <2>1, <2>2 DEF Skip
<1>5. CASE /\ ~(Step(s).type = "approval" /\ ApprovalSeen(w, s) = "pending")
           /\ ~(Step(s).type = "approval" /\ ApprovalSeen(w, s) = "rejected" /\ Step(s).onReject = Nil)
  <2> DEFINE t == [tx[w] EXCEPT !.at = Onward(w, s)]
  <2>1. t \in Call /\ Placed(t) /\ SkippedSo(w, t)
    BY <1>1, <1>2, <1>5 DEF Skip, SkippedSo, Call, SameWrites, SameDone, Placed
  <2>2. tx' = [tx EXCEPT ![w] = t]
    BY <1>1, <1>5 DEF Skip
  <2>3. QED
    BY <1>1, <2>1, <2>2 DEF Skip
<1>6. QED
  BY <1>3, <1>4, <1>5

ExecutedSo(w, t) ==
    LET s == tx[w].at IN
    /\ SameWrites(w, t) /\ t.at = s /\ t.pc = "record"
    /\ ~PassedBefore(w, s)
    /\ t.plan \in {"succeeded", "failed", "partial", "skipped"}
    /\ t.plan = "skipped" => Step(s).optional
    /\ t.plan # "skipped" => t.plan \in Step(s).may
    /\ t.plan = "partial" => Wet
    /\ effects' = IF Wet /\ t.plan = "succeeded" /\ Step(s).type = "send-communication"
                  THEN [effects EXCEPT ![s] = More(@)] ELSE effects

LEMMA ExecuteStep ==
    ASSUME TypeInv, NEW w \in Workers, Execute(w)
    PROVE  /\ tx[w].pc = "look" /\ tx[w].at \in Steps /\ tx[w].n < MaxSteps
           /\ UNCHANGED <<definition, run, rows, approvals, yes, deciding, mishaps>>
           /\ \E t \in Call : Placed(t) /\ tx' = [tx EXCEPT ![w] = t] /\ ExecutedSo(w, t)
<1> DEFINE s == tx[w].at
<1>1. tx \in [Workers -> Call] /\ tx[w] \in Call /\ s \in Steps /\ tx[w].pc = "look"
      /\ tx[w].n < MaxSteps
  BY CallTypes DEF TypeInv, TypeOK, Execute, InLoop
<1>2. PICK plan \in (Step(s).may \ {"sql-error"})
                        \cup (IF Step(s).optional THEN {"skipped"} ELSE {}) :
         /\ plan = "partial" => Wet
         /\ tx' = [tx EXCEPT ![w].pc = "record", ![w].plan = plan]
         /\ effects' = IF Wet /\ plan = "succeeded" /\ Step(s).type = "send-communication"
                       THEN [effects EXCEPT ![s] = More(@)] ELSE effects
  BY DEF Execute
<1>3. /\ plan \in {"succeeded", "failed", "partial", "skipped"} /\ (plan = "skipped" => Step(s).optional)
      /\ (plan # "skipped" => plan \in Step(s).may)
  BY <1>1, <1>2, StepTypes DEF TypeInv, TypeOK
<1> DEFINE t == [tx[w] EXCEPT !.pc = "record", !.plan = plan]
<1>4. t \in Call /\ Placed(t) /\ SameWrites(w, t) /\ t.at = s /\ t.pc = "record" /\ t.plan = plan
  BY <1>1, <1>3 DEF Call, Plans, SameWrites, SameDone, Placed
<1>5. tx' = [tx EXCEPT ![w] = t]
  BY <1>1, <1>2
<1>6. ExecutedSo(w, t)
  BY <1>2, <1>3, <1>4 DEF ExecutedSo, Execute
<1>7. QED
  BY <1>1, <1>4, <1>5, <1>6 DEF Execute

-----------------------------------------------------------------------------
(* The type invariant. *)

LEMMA MoreTimes ==
    \A m, n \in Times : More(n) \in Times /\ Times2(m, n) \in Times
BY DEF More, Times, Times2

LEMMA TypeInit == Init => TypeInv
<1> SUFFICES ASSUME Init PROVE TypeInv
  OBVIOUS
<1>1. definition \in Definitions /\ Idle \in Call /\ Placed(Idle)
  BY IdleTyped DEF Init
<1>2. run \in RunRow
  BY <1>1, DefinitionTypes, RunAssumption DEF Init, RunRow, RunStatus
<1>3. mishaps \in 0 .. MaxMishaps
  BY RunAssumption DEF Init
<1>4. QED
  BY <1>1, <1>2, <1>3 DEF Init, TypeInv, TypeOK, Times

LEMMA TypeCallStep ==
    ASSUME TypeInv, NEW w \in Workers, Advance(w) \/ RollBack(w)
    PROVE  /\ definition' = definition
           /\ \E t \in Call : Placed(t) /\ tx' = [tx EXCEPT ![w] = t]
<1>1. ASSUME Commit(w) \/ SqlError(w) \/ RollBack(w)
      PROVE  definition' = definition /\ tx' = [tx EXCEPT ![w] = Idle]
  BY <1>1 DEF Commit, SqlError, RollBack, Keep
<1>2. Idle \in Call /\ Placed(Idle)
  BY IdleTyped DEF TypeInv, TypeOK
<1>3. CASE Commit(w) \/ SqlError(w) \/ RollBack(w)
  BY <1>1, <1>2, <1>3
<1>4. CASE Begin(w)
  BY <1>4, BeginStep DEF Keep
<1>5. CASE LeaveLoop(w)
  BY <1>5, LeaveLoopStep DEF Keep
<1>6. CASE Skip(w)
  BY <1>6, SkipStep DEF Keep
<1>7. CASE Execute(w)
  BY <1>7, ExecuteStep
<1>8. CASE Record(w)
  BY <1>8, RecordStep DEF Keep
<1>9. QED
  BY <1>3, <1>4, <1>5, <1>6, <1>7, <1>8 DEF Advance

LEMMA TypeTables ==
    ASSUME TypeInv, NEW w \in Workers, Advance(w) \/ RollBack(w)
    PROVE  /\ run' \in RunRow /\ rows' \subseteq StepRow
           /\ approvals' \in [Steps -> {"none", "pending"} \cup Decisions]
           /\ effects' \in [Steps -> Times] /\ deciding' = deciding /\ yes' = yes
           /\ mishaps' \in 0 .. MaxMishaps
<1>1. ASSUME Keep
      PROVE  /\ run' \in RunRow /\ rows' \subseteq StepRow
             /\ approvals' \in [Steps -> {"none", "pending"} \cup Decisions]
             /\ effects' \in [Steps -> Times] /\ deciding' = deciding /\ yes' = yes
             /\ mishaps' \in 0 .. MaxMishaps
  BY <1>1 DEF Keep, TypeInv, TypeOK
<1>2. CASE Begin(w) \/ LeaveLoop(w) \/ Skip(w) \/ Record(w) \/ SqlError(w)
  BY <1>1, <1>2 DEF Begin, LeaveLoop, Skip, Record, SqlError
<1>3. CASE Execute(w)
  <2>1. PICK t \in Call : ExecutedSo(w, t)
    BY <1>3, ExecuteStep
  <2>2. effects' \in [Steps -> Times]
    BY <1>3, <2>1, MoreTimes, ExecuteStep DEF ExecutedSo, TypeInv, TypeOK
  <2>3. QED
    BY <1>3, <2>2, ExecuteStep DEF TypeInv, TypeOK
<1>4. CASE Commit(w)
  <2>1. run' \in RunRow /\ rows' \subseteq StepRow
    BY <1>4, SeenTyped DEF Commit, TypeInv
  <2>2. tx[w].done \in [Steps -> Times]
    BY CallTypes DEF TypeInv, TypeOK
  <2>3. effects' \in [Steps -> Times]
    BY <1>4, <2>2, MoreTimes DEF Commit, TypeInv, TypeOK
  <2>4. \A s \in Steps : ApprovalSeen(w, s) \in {"none", "pending"} \cup Decisions
    BY DEF ApprovalSeen, TypeInv, TypeOK
  <2>5. approvals' \in [Steps -> {"none", "pending"} \cup Decisions]
    BY <1>4, <2>4 DEF Commit
  <2>6. QED
    BY <1>4, <2>1, <2>3, <2>5 DEF Commit, TypeInv, TypeOK
<1>5. CASE RollBack(w)
  BY <1>5, RunAssumption DEF RollBack, TypeInv, TypeOK
<1>6. QED
  BY <1>2, <1>3, <1>4, <1>5 DEF Advance

\* The steps that are no call's: a person decides, or time passes.
LEMMA TypeOthers ==
    ASSUME TypeInv,
           Resume \/ \E d \in Deciders : Decide(d) \/ DecideFails(d)
    PROVE  /\ UNCHANGED <<definition, rows, effects, tx, mishaps>>
           /\ run' \in RunRow
           /\ approvals' \in [Steps -> {"none", "pending"} \cup Decisions]
           /\ deciding' \in [Deciders -> Steps \cup {Nil}] /\ yes' \subseteq Steps
<1>1. CASE Resume
  BY <1>1 DEF Resume, TypeInv, TypeOK, RunRow
<1>2. ASSUME NEW d \in Deciders, NEW s \in Steps, DecideRead(d, s)
      PROVE  /\ UNCHANGED <<definition, run, rows, effects, yes, tx, mishaps, approvals>>
             /\ deciding' \in [Deciders -> Steps \cup {Nil}]
  BY <1>2 DEF DecideRead, TypeInv, TypeOK
<1>3. ASSUME NEW d \in Deciders, NEW decision \in Decisions, DecideWrite(d, decision)
      PROVE  /\ UNCHANGED <<definition, rows, effects, tx, mishaps>>
             /\ run' \in RunRow
             /\ approvals' \in [Steps -> {"none", "pending"} \cup Decisions]
             /\ deciding' \in [Deciders -> Steps \cup {Nil}] /\ yes' \subseteq Steps
  BY <1>3 DEF DecideWrite, TypeInv, TypeOK, RunRow, RunStatus
<1>4. ASSUME NEW d \in Deciders, DecideFails(d)
      PROVE  /\ UNCHANGED <<definition, run, rows, effects, yes, tx, mishaps, approvals>>
             /\ deciding' \in [Deciders -> Steps \cup {Nil}]
  BY <1>4 DEF DecideFails, TypeInv, TypeOK
<1>5. QED
  BY <1>1, <1>2, <1>3, <1>4 DEF Decide, TypeInv, TypeOK

LEMMA TypeStep == TypeInv /\ [Next]_vars => TypeInv'
<1> SUFFICES ASSUME TypeInv, [Next]_vars PROVE TypeInv'
  OBVIOUS
<1>1. ASSUME NEW w \in Workers, Advance(w) \/ RollBack(w) PROVE TypeInv'
  <2>1. PICK t \in Call : /\ Placed(t) /\ tx' = [tx EXCEPT ![w] = t]
    BY <1>1, TypeCallStep
  <2>2. definition' = definition
    BY <1>1, TypeCallStep
  <2>3. tx' \in [Workers -> Call'] /\ (\A v \in Workers : Placed(tx[v]))'
    BY <2>1, <2>2, CallStep
  <2>4. /\ run' \in RunRow' /\ rows' \subseteq StepRow'
        /\ approvals' \in [Steps' -> {"none", "pending"} \cup Decisions]
        /\ effects' \in [Steps' -> Times] /\ deciding' = deciding /\ yes' = yes
        /\ mishaps' \in 0 .. MaxMishaps
    BY <1>1, <2>2, TypeTables, FixedTypes
  <2>5. QED
    BY <2>2, <2>3, <2>4, FixedTypes DEF TypeInv, TypeOK
<1>2. ASSUME Resume \/ \E d \in Deciders : Decide(d) \/ DecideFails(d) PROVE TypeInv'
  BY <1>2, TypeOthers, FixedTypes DEF TypeInv, TypeOK
<1>3. ASSUME UNCHANGED vars PROVE TypeInv'
  BY <1>3, FixedTypes DEF vars, TypeInv, TypeOK
<1>4. QED
  BY <1>1, <1>2, <1>3 DEF Next

\* The tables, the calls under way and what people have read are always of
\* their types: a call never goes beyond its budget of steps, no row names a
\* step the definition does not have, however calls and decisions interleave.
THEOREM TypeCorrect == Spec => []TypeOK
<1>1. TypeInv => TypeOK
  BY DEF TypeInv
<1>2. QED
  BY <1>1, TypeInit, TypeStep, PTL DEF Spec

-----------------------------------------------------------------------------
(* A dry run does nothing. *)

\* A call of a dry run neither counts an effect nor leads to waiting.
Quiet(t) ==
    /\ \A s \in Steps : t.done[s] = 0
    /\ t.asked = {} /\ (t.pc = "record" => t.plan \notin {"await", "close-rejected", "partial"})
    /\ t.run # NoRun => t.run.status \notin {"waiting", "awaiting-approval"}

SameDry == \A w \in Workers : tx[w].run # NoRun => tx[w].run.dry = run.dry

NothingDone ==
    /\ \A s \in Steps : effects[s] = 0 /\ approvals[s] = "none"
    /\ run.status \notin {"waiting", "awaiting-approval"}
    /\ \A w \in Workers : Quiet(tx[w])
    /\ \A d \in Deciders : deciding[d] = Nil

DryInv == SameDry /\ (run.dry => NothingDone)

LEMMA DryInit == Init => DryInv
BY DEF Init, DryInv, SameDry, NothingDone, Quiet, Idle

LEMMA SeenDry ==
    ASSUME SameDry, NEW w \in Workers PROVE RunSeen(w).dry = run.dry
BY DEF SameDry, RunSeen

\* A step of a call leaves the run dry or not, as it was.
LEMMA DryCall ==
    ASSUME TypeInv, SameDry, NEW w \in Workers, NEW t \in Call, tx' = [tx EXCEPT ![w] = t],
           run' = run, t.run # NoRun => t.run.dry = run.dry
    PROVE  SameDry'
<1>1. tx'[w] = t /\ \A v \in Workers \ {w} : tx'[v] = tx[v]
  BY OneCall DEF TypeInv, TypeOK
<1>2. QED
  BY <1>1 DEF SameDry

LEMMA RecordDry ==
    ASSUME TypeInv, SameDry, NEW w \in Workers, NEW t \in Call, RecordedSo(w, t)
    PROVE  t.run # NoRun => t.run.dry = run.dry
<1> DEFINE row == RunSeen(w)
<1>1. row \in RunRow /\ row.dry = run.dry
  BY SeenTyped, SeenDry DEF TypeInv
<1>2. t.run = tx[w].run \/ t.run.dry = row.dry
  <2> HIDE DEF row
  <2>1. CASE SucceededSo(w, t)
    BY <1>1, <2>1 DEF SucceededSo, Leaves, RunIs, row
  <2>2. CASE FailedSo(w, t)
    BY <1>1, <2>2 DEF FailedSo, Leaves, RunIs, row
  <2>3. CASE OtherwiseSo(w, t)
    BY <1>1, <2>3 DEF OtherwiseSo, Leaves, RunIs, row
  <2>4. QED
    BY <2>1, <2>2, <2>3 DEF RecordedSo
<1>3. QED
  BY <1>1, <1>2 DEF SameDry

\* The dry_run column never changes, and no call under way would change it.
LEMMA SameDryStep == TypeInv /\ SameDry /\ [Next]_vars => SameDry' /\ run'.dry = run.dry
<1> SUFFICES ASSUME TypeInv, SameDry, [Next]_vars PROVE SameDry' /\ run'.dry = run.dry
  OBVIOUS
<1>1. ASSUME NEW w \in Workers, Begin(w) PROVE SameDry' /\ run'.dry = run.dry
  BY <1>1, BeginStep, DryCall DEF BegunSo, Keep
<1>2. ASSUME NEW w \in Workers, LeaveLoop(w) PROVE SameDry' /\ run'.dry = run.dry
  BY <1>2, LeaveLoopStep, DryCall DEF LeftSo, SameWrites, Keep, SameDry
<1>3. ASSUME NEW w \in Workers, Skip(w) PROVE SameDry' /\ run'.dry = run.dry
  BY <1>3, SkipStep, DryCall DEF SkippedSo, SameWrites, Keep, SameDry
<1>4. ASSUME NEW w \in Workers, Execute(w) PROVE SameDry' /\ run'.dry = run.dry
  BY <1>4, ExecuteStep, DryCall DEF ExecutedSo, SameWrites, SameDry
<1>5. ASSUME NEW w \in Workers, Record(w) PROVE SameDry' /\ run'.dry = run.dry
  BY <1>5, RecordStep, RecordDry, DryCall DEF Keep
<1>6. ASSUME NEW w \in Workers, SqlError(w) \/ RollBack(w) PROVE SameDry' /\ run'.dry = run.dry
  <2>1. tx' = [tx EXCEPT ![w] = Idle] /\ run' = run
    BY <1>6 DEF SqlError, RollBack, Keep
  <2>2. QED
    BY <2>1, IdleTyped, DryCall DEF TypeInv, TypeOK
<1>7. ASSUME NEW w \in Workers, Commit(w) PROVE SameDry' /\ run'.dry = run.dry
  <2>1. run'.dry = run.dry
    BY <1>7, SeenDry DEF Commit
  <2>2. tx' = [tx EXCEPT ![w] = Idle] /\ Idle.run = NoRun
    BY <1>7 DEF Commit, Idle
  <2>3. tx'[w] = Idle /\ \A v \in Workers \ {w} : tx'[v] = tx[v]
    BY <2>2 DEF TypeInv, TypeOK
  <2>4. QED
    BY <2>1, <2>2, <2>3 DEF SameDry
<1>8. ASSUME Resume PROVE SameDry' /\ run'.dry = run.dry
  BY <1>8 DEF Resume, SameDry, TypeInv, TypeOK, RunRow
<1>9. ASSUME NEW d \in Deciders, Decide(d) \/ DecideFails(d) PROVE SameDry' /\ run'.dry = run.dry
  <2>1. ASSUME NEW s \in Steps, DecideRead(d, s) PROVE SameDry' /\ run'.dry = run.dry
    BY <2>1 DEF DecideRead, SameDry
  <2>2. ASSUME NEW decision, DecideWrite(d, decision) PROVE SameDry' /\ run'.dry = run.dry
    BY <2>2 DEF DecideWrite, SameDry, TypeInv, TypeOK, RunRow
  <2>3. ASSUME DecideFails(d) PROVE SameDry' /\ run'.dry = run.dry
    BY <2>3 DEF DecideFails, SameDry
  <2>4. QED
    BY <1>9, <2>1, <2>2, <2>3 DEF Decide
<1>10. ASSUME UNCHANGED vars PROVE SameDry' /\ run'.dry = run.dry
  BY <1>10 DEF vars, SameDry
<1>11. QED
  BY <1>1, <1>2, <1>3, <1>4, <1>5, <1>6, <1>7, <1>8, <1>9, <1>10 DEF Next, Advance

LEMMA QuietCall ==
    ASSUME TypeInv, NothingDone, NEW w \in Workers, NEW t \in Call, tx' = [tx EXCEPT ![w] = t],
           UNCHANGED <<definition, run, approvals, effects, deciding>>, Quiet(t)
    PROVE  NothingDone'
<1>1. tx'[w] = t /\ \A v \in Workers \ {w} : tx'[v] = tx[v]
  BY OneCall DEF TypeInv, TypeOK
<1>2. Steps' = Steps
  BY FixedTypes
<1>3. QED
  BY <1>1, <1>2 DEF NothingDone, Quiet

LEMMA RecordQuiet ==
    ASSUME TypeInv, NothingDone, run.dry, NEW w \in Workers, NEW t \in Call, tx[w].pc = "record",
           RecordedSo(w, t)
    PROVE  Quiet(t)
<1> DEFINE row == RunSeen(w)
<1>1. row \in RunRow /\ row.status \notin {"waiting", "awaiting-approval"} /\ ~Wet
      /\ Quiet(tx[w]) /\ tx[w].run \in RunRow \cup {NoRun}
  BY SeenTyped, CallTypes DEF TypeInv, TypeOK, NothingDone, Quiet, RunSeen, Wet
<1> HIDE DEF row
<1>2. CASE SucceededSo(w, t)
  <2>1. \A s \in Steps : t.done[s] = 0
    BY <1>1, <1>2 DEF SucceededSo, Effected, AfterDoing, Quiet
  <2>2. t.asked = {} /\ (t.run # NoRun => t.run.status \notin {"waiting", "awaiting-approval"})
    BY <1>1, <1>2 DEF SucceededSo, Quiet, Leaves, RunIs, row
  <2>3. QED
    BY <1>2, <2>1, <2>2 DEF Quiet, SucceededSo, Leaves, GoesOn
<1>3. CASE OtherwiseSo(w, t)
  BY <1>1, <1>3 DEF OtherwiseSo, Quiet, Leaves, RunIs, GoesOn, SameDone, row
<1>4. CASE FailedSo(w, t)
  <2>1. tx[w].plan = "failed"
    BY <1>1, <1>4 DEF FailedSo, Failures, Quiet
  <2>2. \A s \in Steps : t.done[s] = 0
    BY <1>1, <1>4, <2>1 DEF FailedSo, AfterFailing, Quiet
  <2>3. t.asked = {} /\ (t.run # NoRun => t.run.status \notin {"waiting", "awaiting-approval"})
    BY <1>1, <1>4 DEF FailedSo, Quiet, Leaves, RunIs, row
  <2>4. QED
    BY <1>4, <2>2, <2>3 DEF Quiet, FailedSo, Leaves, GoesOn
<1>5. QED
  BY <1>2, <1>3, <1>4 DEF RecordedSo

\* While nothing was done, nothing is approved or rejected, so no step is
\* passed over as rejected or still open.
LEMMA SeesNoApproval ==
    ASSUME NothingDone, NEW w \in Workers, NEW s \in Steps
    PROVE  ApprovalSeen(w, s) = "none"
BY DEF NothingDone, Quiet, ApprovalSeen

LEMMA NothingDoneStep ==
    TypeInv /\ DryInv /\ run.dry /\ [Next]_vars => NothingDone'
<1> SUFFICES ASSUME TypeInv, DryInv, run.dry, [Next]_vars PROVE NothingDone'
  OBVIOUS
<1>0. NothingDone /\ ~Wet
  BY DEF DryInv, Wet
<1>1. ASSUME NEW w \in Workers, Begin(w) PROVE NothingDone'
  BY <1>0, <1>1, BeginStep, QuietCall DEF BegunSo, Quiet, Keep
<1>2. ASSUME NEW w \in Workers, LeaveLoop(w) PROVE NothingDone'
  <2>1. PICK t \in Call : tx' = [tx EXCEPT ![w] = t] /\ LeftSo(w, t)
    BY <1>2, LeaveLoopStep
  <2>2. Quiet(t)
    BY <1>0, <2>1 DEF NothingDone, Quiet, LeftSo, SameWrites, SameDone
  <2>3. QED
    BY <1>0, <1>2, <2>1, <2>2, LeaveLoopStep, QuietCall DEF Keep
<1>3. ASSUME NEW w \in Workers, Skip(w) PROVE NothingDone'
  <2>1. PICK t \in Call : tx' = [tx EXCEPT ![w] = t] /\ SkippedSo(w, t)
    BY <1>3, SkipStep
  <2>2. ApprovalSeen(w, tx[w].at) = "none"
    BY <1>0, <1>3, SkipStep, SeesNoApproval
  <2>3. Quiet(t)
    BY <1>0, <2>1, <2>2 DEF NothingDone, Quiet, SkippedSo, SameWrites, SameDone
  <2>4. QED
    BY <1>0, <1>3, <2>1, <2>3, SkipStep, QuietCall DEF Keep
<1>4. ASSUME NEW w \in Workers, Execute(w) PROVE NothingDone'
  <2>1. PICK t \in Call : tx' = [tx EXCEPT ![w] = t] /\ ExecutedSo(w, t)
    BY <1>4, ExecuteStep
  <2>2. Quiet(t) /\ effects' = effects
    BY <1>0, <2>1 DEF NothingDone, Quiet, ExecutedSo, SameWrites, SameDone
  <2>3. QED
    BY <1>0, <1>4, <2>1, <2>2, ExecuteStep, QuietCall
<1>5. ASSUME NEW w \in Workers, Record(w) PROVE NothingDone'
  BY <1>0, <1>5, RecordStep, RecordQuiet, QuietCall DEF Keep
<1>6. ASSUME NEW w \in Workers, SqlError(w) \/ RollBack(w) PROVE NothingDone'
  <2>1. /\ tx' = [tx EXCEPT ![w] = Idle]
        /\ UNCHANGED <<definition, run, approvals, effects, deciding>>
    BY <1>6 DEF SqlError, RollBack, Keep
  <2>2. Quiet(Idle)
    BY DEF Quiet, Idle
  <2>3. QED
    BY <1>0, <2>1, <2>2, IdleTyped, QuietCall DEF TypeInv, TypeOK
<1>7. ASSUME NEW w \in Workers, Commit(w) PROVE NothingDone'
  <2>1. /\ tx' = [tx EXCEPT ![w] = Idle] /\ definition' = definition /\ deciding' = deciding
        /\ tx'[w] = Idle /\ \A v \in Workers \ {w} : tx'[v] = tx[v]
    BY <1>7 DEF Commit, TypeInv, TypeOK
  <2>2. Steps' = Steps
    BY <2>1, FixedTypes
  <2>3. \A v \in Workers : Quiet(tx[v])'
    BY <1>0, <2>1, <2>2 DEF Quiet, Idle, NothingDone
  <2>4. \A s \in Steps : effects'[s] = 0 /\ approvals'[s] = "none"
    BY <1>0, <1>7, SeesNoApproval DEF Commit, NothingDone, Quiet, Times2
  <2>5. run'.status \notin {"waiting", "awaiting-approval"}
    BY <1>0, <1>7 DEF Commit, RunSeen, NothingDone, Quiet
  <2>6. QED
    BY <1>0, <2>1, <2>2, <2>3, <2>4, <2>5 DEF NothingDone
<1>8. ASSUME Resume PROVE NothingDone'
  BY <1>0, <1>8 DEF Resume, NothingDone
<1>9. ASSUME NEW d \in Deciders, Decide(d) \/ DecideFails(d) PROVE NothingDone'
  BY <1>0, <1>9 DEF Decide, DecideRead, DecideWrite, DecideFails, NothingDone
<1>10. ASSUME UNCHANGED vars PROVE NothingDone'
  BY <1>0, <1>10, FixedTypes DEF vars, NothingDone, Quiet
<1>11. QED
  BY <1>1, <1>2, <1>3, <1>4, <1>5, <1>6, <1>7, <1>8, <1>9, <1>10 DEF Next, Advance

\* A dry run has no effect, asks nobody and never waits, whatever its
\* definition and however many drains and people act on it at once.
THEOREM DryRunsDoNothing == Spec => []DryRunDoesNothing
<1>1. TypeInv /\ DryInv /\ [Next]_vars => DryInv'
  BY SameDryStep, NothingDoneStep DEF DryInv
<1>2. DryInv => DryRunDoesNothing
  BY DEF DryInv, NothingDone, DryRunDoesNothing
<1>3. QED
  BY <1>1, <1>2, TypeInit, TypeStep, DryInit, PTL DEF Spec

-----------------------------------------------------------------------------
(* What an approval guards needs the approval. *)

\* A set closed under what can happen without a "yes" to a: where it leads.
LEMMA WithoutYesStays ==
    ASSUME definition \in Definitions, NEW a \in Guards(definition),
           NEW R \in Before(definition, a)
    PROVE  /\ R \subseteq Steps /\ StartStep \in R /\ a \in Steps
           /\ Step(a).type = "approval" /\ ~Step(a).optional
           /\ \A s \in R :
                 /\ Step(s).onError \in R \cup {Nil}
                 /\ s # a => /\ Step(s).next \in R \cup {Nil}
                             /\ Step(s).type = "branch" => Step(s).targets \subseteq R \cup {Nil}
                 /\ Step(s).type = "approval" => Step(s).onReject \in R \cup {Nil}
<1>1. /\ R \subseteq Steps /\ StartStep \in R /\ a \in Steps
      /\ Step(a).type = "approval" /\ ~Step(a).optional
      /\ \A s \in R : WithoutYes(definition, a, s) \subseteq R
  BY DEF Guards, Before, Steps, Step, StartStep
<1>2. ASSUME NEW s \in R
      PROVE  /\ Step(s).onError \in R \cup {Nil}
             /\ s # a => /\ Step(s).next \in R \cup {Nil}
                         /\ Step(s).type = "branch" => Step(s).targets \subseteq R \cup {Nil}
             /\ Step(s).type = "approval" => Step(s).onReject \in R \cup {Nil}
  <2>1. CASE s = a
    BY <1>1, <2>1 DEF WithoutYes, Step
  <2>2. CASE s # a
    <3>1. Targets(definition, s) \subseteq R
      BY <1>1, <2>2 DEF WithoutYes
    <3>2. QED
      BY <2>2, <3>1 DEF Targets, Step
  <2>3. QED
    BY <2>1, <2>2
<1>3. QED
  BY <1>1, <1>2

SaysSucceeded(set, s) == \E r \in set : r.step = s /\ r.status = "succeeded"

\* Call t has stayed within R, and so have its effects.
Within(t, R) ==
    /\ t.at \in R \cup {Nil} /\ (t.run # NoRun => t.run.step \in R \cup {Nil})
    /\ \A g \in Steps \ R : t.done[g] = 0

\* A call records approval a as done only when it asks, and never passes over it.
Asking(t, a) ==
    /\ SaysSucceeded(t.rows, a) => a \in t.asked \/ approvals[a] # "none"
    /\ t.pc = "record" /\ t.at = a => t.plan # "skipped"

AllWithin(R) ==
    /\ run.step \in R \cup {Nil}
    /\ \A g \in Steps \ R : effects[g] = 0
    /\ \A w \in Workers : Within(tx[w], R)

GuardInv(a) ==
    /\ SaysSucceeded(rows, a) => approvals[a] # "none"
    /\ \A w \in Workers : Asking(tx[w], a)
    /\ approvals[a] = "approved" => a \in yes
    /\ a \notin yes => \A R \in Before(definition, a) : AllWithin(R)

GuardsHold == Wet => \A a \in Guards(definition) : GuardInv(a)

LEMMA GuardInit == Init => GuardsHold
<1> SUFFICES ASSUME Init PROVE GuardsHold
  OBVIOUS
<1>2. ASSUME NEW a \in Guards(definition) PROVE GuardInv(a)
  <2>1. \A w \in Workers : Asking(tx[w], a)
    BY DEF Init, Asking, SaysSucceeded, Idle
  <2>2. \A R \in Before(definition, a) : AllWithin(R)
    BY WithoutYesStays DEF Init, AllWithin, Within, Idle
  <2>3. QED
    BY <2>1, <2>2 DEF Init, Guards, Steps, GuardInv, SaysSucceeded
<1>3. QED
  BY <1>2 DEF GuardsHold

\* It is enough to look at the call that took the step, and its effect.
LEMMA GuardCall ==
    ASSUME TypeInv, NEW a \in Guards(definition), GuardInv(a), NEW w \in Workers, NEW t \in Call,
           tx' = [tx EXCEPT ![w] = t], UNCHANGED <<definition, run, rows, approvals, yes>>,
           \A g \in Steps : effects'[g] = effects[g] \/ g = tx[w].at,
           Asking(t, a),
           a \notin yes => \A R \in Before(definition, a) : Within(t, R),
           tx[w].at = Nil => effects' = effects
    PROVE  GuardInv(a)'
<1>1. tx'[w] = t /\ \A v \in Workers \ {w} : tx'[v] = tx[v]
  BY OneCall DEF TypeInv, TypeOK
<1>2. Steps' = Steps /\ Before(definition, a)' = Before(definition, a)
  BY FixedTypes
<1>3. (\A v \in Workers : Asking(tx[v], a))'
  BY <1>1 DEF Asking, GuardInv
<1>4. ASSUME a \notin yes, NEW R \in Before(definition, a)
      PROVE  AllWithin(R)'
  <2>1. AllWithin(R) /\ Within(t, R)
    BY <1>4 DEF GuardInv
  <2>2. \A v \in Workers : Within(tx'[v], R)
    BY <1>1, <2>1 DEF AllWithin
  <2>3. \A g \in Steps \ R : effects'[g] = 0
    BY <2>1 DEF AllWithin, Within
  <2>4. QED
    BY <1>2, <2>1, <2>2, <2>3 DEF AllWithin, Within
<1>5. QED
  BY <1>2, <1>3, <1>4 DEF GuardInv, SaysSucceeded

LEMMA RecordedRows ==
    ASSUME NEW w, NEW status
    PROVE  Recorded(w, status) \subseteq
               tx[w].rows \cup {[step |-> tx[w].at, seq |-> tx[w].n, status |-> status]}
BY DEF Recorded

LEMMA RecordAsking ==
    ASSUME TypeInv, Wet, NEW a \in Steps, Step(a).type = "approval", NEW w \in Workers, NEW t \in Call,
           Asking(tx[w], a), RecordedSo(w, t)
    PROVE  Asking(t, a)
<1>1. t.pc \in {"look", "commit"}
  BY DEF RecordedSo, SucceededSo, FailedSo, OtherwiseSo, Leaves, GoesOn
<1>2. CASE SucceededSo(w, t)
  <2>1. tx[w].asked \subseteq t.asked /\ (tx[w].at = a => a \in t.asked)
    BY <1>2 DEF SucceededSo
  <2>2. SaysSucceeded(t.rows, a) => SaysSucceeded(tx[w].rows, a) \/ tx[w].at = a
    BY <1>2, RecordedRows DEF SucceededSo, Effected, SaysSucceeded
  <2>3. QED
    BY <1>1, <2>1, <2>2 DEF Asking
<1>3. CASE OtherwiseSo(w, t)
  <2>1. t.asked = tx[w].asked
    BY <1>3 DEF OtherwiseSo, SameDone
  <2>2. SaysSucceeded(t.rows, a) => SaysSucceeded(tx[w].rows, a)
    BY <1>3, RecordedRows DEF OtherwiseSo, SaysSucceeded
  <2>3. QED
    BY <1>1, <2>1, <2>2 DEF Asking
<1>4. CASE FailedSo(w, t)
  <2>1. SaysSucceeded(t.rows, a) => SaysSucceeded(tx[w].rows, a)
    BY <1>4, RecordedRows DEF FailedSo, SaysSucceeded
  <2>2. t.asked = tx[w].asked /\ t.pc # "record"
    BY <1>4 DEF FailedSo, GoesOn, Leaves
  <2>3. QED
    BY <2>1, <2>2 DEF Asking
<1>5. QED
  BY <1>2, <1>3, <1>4 DEF RecordedSo

LEMMA RecordWithin ==
    ASSUME TypeInv, Wet, NEW a \in Guards(definition), NEW R \in Before(definition, a), AllWithin(R),
           NEW w \in Workers, NEW t \in Call, tx[w].pc = "record", Asking(tx[w], a),
           RecordedSo(w, t)
    PROVE  Within(t, R)
<1> DEFINE s == tx[w].at
           row == RunSeen(w)
<1>1. /\ Within(tx[w], R) /\ row.step \in R \cup {Nil} /\ row \in RunRow /\ s \in R \cup {Nil}
      /\ definition \in Definitions
  BY SeenTyped DEF AllWithin, Within, RunSeen, TypeInv, TypeOK
<1>2. tx[w].plan # "budget" => s \in R
  BY <1>1, DefinitionTypes DEF TypeInv, Placed
<1> HIDE DEF row
<1>3. CASE SucceededSo(w, t)
  <2>0. s \in R /\ R \subseteq Steps
    BY <1>1, <1>2, <1>3, WithoutYesStays DEF SucceededSo
  <2>1. \A g \in Steps \ R : t.done[g] = 0
    BY <1>1, <2>0, <1>3 DEF SucceededSo, Effected, Within
  <2>2. CASE t.at = s /\ t.run.step = s
    BY <2>0, <2>1, <2>2 DEF Within
  <2>3. CASE /\ Step(s).type \notin {"end", "delay", "approval"}
             /\ \E to \in Ends(w) : GoesOn(t, to) /\ RunIs(t.run, row, row.status, to)
    <3>1. PICK to \in Ends(w) : GoesOn(t, to) /\ RunIs(t.run, row, row.status, to)
      BY <2>3
    <3>2. s # a /\ to \in R \cup {Nil}
      BY <1>1, <2>0, <2>3, WithoutYesStays DEF Ends
    <3>3. QED
      BY <2>1, <3>1, <3>2 DEF Within, GoesOn, RunIs
  <2>4. QED
    BY <1>3, <2>2, <2>3 DEF SucceededSo, Leaves, RunIs, row
<1>4. CASE OtherwiseSo(w, t)
  <2>1. \A g \in Steps \ R : t.done[g] = 0
    BY <1>1, <1>4 DEF OtherwiseSo, SameDone, Within
  <2>2. t.at \in R \cup {Nil}
    <3>1. CASE tx[w].plan = "skipped"
      BY <1>1, <1>2, <1>4, <3>1, WithoutYesStays DEF OtherwiseSo, GoesOn, Asking
    <3>2. CASE tx[w].plan # "skipped"
      BY <1>1, <1>4, <3>2 DEF OtherwiseSo
    <3>3. QED
      BY <3>1, <3>2
  <2>3. t.run # NoRun => t.run.step \in R \cup {Nil}
    BY <1>1, <1>2, <1>4 DEF OtherwiseSo, Leaves, RunIs, Within, row
  <2>4. QED
    BY <2>1, <2>2, <2>3 DEF Within
<1>5. CASE FailedSo(w, t)
  <2>0. s \in R /\ R \subseteq Steps
    BY <1>1, <1>2, <1>5, WithoutYesStays DEF FailedSo, Failures
  <2>1. \A g \in Steps \ R : t.done[g] = 0
    BY <1>1, <2>0, <1>5 DEF FailedSo, Within
  <2>2. t.at \in R \cup {Nil}
    BY <1>1, <1>5, <2>0, WithoutYesStays DEF FailedSo, GoesOn
  <2>3. t.run # NoRun => t.run.step \in R \cup {Nil}
    BY <1>1, <1>5 DEF FailedSo, Leaves, RunIs, Within, row
  <2>4. QED
    BY <2>1, <2>2, <2>3 DEF Within
<1>6. QED
  BY <1>3, <1>4, <1>5 DEF RecordedSo

LEMMA SkipWithin ==
    ASSUME TypeInv, NEW a \in Guards(definition), GuardInv(a), a \notin yes,
           NEW R \in Before(definition, a), NEW w \in Workers, NEW t \in Call,
           tx[w].at \in Steps, SkippedSo(w, t)
    PROVE  Within(t, R)
<1> DEFINE s == tx[w].at
<1>1. /\ Within(tx[w], R) /\ Asking(tx[w], a) /\ definition \in Definitions
      /\ SaysSucceeded(rows, a) => approvals[a] # "none"
      /\ approvals[a] # "approved"
  BY DEF GuardInv, AllWithin, TypeInv, TypeOK
<1>2. s \in R /\ a \in Steps
  BY <1>1, DefinitionTypes, WithoutYesStays DEF Within
<1>3. t.run = tx[w].run /\ t.done = tx[w].done
  BY DEF SkippedSo, SameWrites, SameDone
<1>4. CASE t.at = s
  BY <1>1, <1>3, <1>4 DEF Within
<1>5. CASE ~(Step(s).type = "approval" /\ ApprovalSeen(w, s) = "pending") /\ t.at = Onward(w, s)
  <2>1. CASE s = a
    <3>1. SaysSucceeded(rows \cup tx[w].rows, a)
      BY <2>1 DEF SkippedSo, PassedBefore, Succeeded, RowsSeen, SaysSucceeded
    <3>2. approvals[a] # "none" \/ a \in tx[w].asked
      BY <1>1, <3>1 DEF Asking, SaysSucceeded
    <3>3. approvals[a] \in {"none", "pending", "approved", "rejected"}
      BY <1>2 DEF TypeInv, TypeOK, Decisions
    <3>4. ApprovalSeen(w, a) \in {"pending", "rejected"}
      BY <1>1, <3>2, <3>3 DEF ApprovalSeen
    <3>5. t.at = Step(a).onReject
      BY <1>1, <1>5, <2>1, <3>4, WithoutYesStays DEF Onward
    <3>6. QED
      BY <1>1, <1>2, <1>3, <2>1, <3>5, WithoutYesStays DEF Within
  <2>2. CASE s # a
    <3>1. t.at \in R \cup {Nil}
      BY <1>1, <1>2, <1>5, <2>2, WithoutYesStays DEF Onward
    <3>2. QED
      BY <1>1, <1>3, <3>1 DEF Within
  <2>3. QED
    BY <2>1, <2>2
<1>6. QED
  BY <1>4, <1>5 DEF SkippedSo

\* The steps of a call that write nothing others can see.
LEMMA GuardPrivate ==
    ASSUME TypeInv, Wet, NEW a \in Guards(definition), GuardInv(a), NEW w \in Workers,
           Begin(w) \/ LeaveLoop(w) \/ Skip(w) \/ Execute(w) \/ Record(w) \/ SqlError(w) \/ RollBack(w)
    PROVE  GuardInv(a)'
<1>0. /\ definition \in Definitions /\ a \in Steps /\ Step(a).type = "approval"
      /\ ~Step(a).optional /\ Asking(tx[w], a)
  BY DEF TypeInv, TypeOK, GuardInv, Guards, Steps, Step
<1>1. CASE Begin(w)
  <2>1. PICK t \in Call : tx' = [tx EXCEPT ![w] = t] /\ BegunSo(t)
    BY <1>1, BeginStep
  <2>2. Asking(t, a)
    BY <2>1 DEF BegunSo, Asking, SaysSucceeded
  <2>3. ASSUME a \notin yes, NEW R \in Before(definition, a) PROVE Within(t, R)
    BY <1>0, <2>1, <2>3, WithoutYesStays DEF BegunSo, Within, GuardInv, AllWithin
  <2>4. QED
    BY <1>1, <2>1, <2>2, <2>3, BeginStep, GuardCall DEF Keep
<1>2. CASE LeaveLoop(w)
  <2>1. PICK t \in Call : tx' = [tx EXCEPT ![w] = t] /\ LeftSo(w, t)
    BY <1>2, LeaveLoopStep
  <2>2. Asking(t, a)
    BY <1>0, <2>1 DEF LeftSo, SameWrites, SameDone, Asking
  <2>3. ASSUME a \notin yes, NEW R \in Before(definition, a) PROVE Within(t, R)
    BY <2>1, <2>3 DEF LeftSo, SameWrites, SameDone, Within, GuardInv, AllWithin
  <2>4. QED
    BY <1>2, <2>1, <2>2, <2>3, LeaveLoopStep, GuardCall DEF Keep
<1>3. CASE Skip(w)
  <2>1. PICK t \in Call : tx' = [tx EXCEPT ![w] = t] /\ SkippedSo(w, t)
    BY <1>3, SkipStep
  <2>2. tx[w].pc = "look" /\ tx[w].at \in Steps
    BY <1>3, SkipStep
  <2>3. Asking(t, a)
    BY <1>0, <2>1, <2>2 DEF SkippedSo, SameWrites, SameDone, Asking
  <2>4. QED
    BY <1>3, <2>1, <2>2, <2>3, SkipStep, SkipWithin, GuardCall DEF Keep
<1>4. CASE Execute(w)
  <2>1. PICK t \in Call : tx' = [tx EXCEPT ![w] = t] /\ ExecutedSo(w, t)
    BY <1>4, ExecuteStep
  <2>2. tx[w].at \in Steps /\ UNCHANGED <<definition, run, rows, approvals, yes>>
    BY <1>4, ExecuteStep
  <2>3. Asking(t, a)
    BY <1>0, <2>1 DEF ExecutedSo, SameWrites, SameDone, Asking
  <2>4. ASSUME a \notin yes, NEW R \in Before(definition, a) PROVE Within(t, R)
    BY <2>1, <2>4 DEF ExecutedSo, SameWrites, SameDone, Within, GuardInv, AllWithin
  <2>5. \A g \in Steps : effects'[g] = effects[g] \/ g = tx[w].at
    BY <2>1, <2>2 DEF ExecutedSo, TypeInv, TypeOK
  <2>6. QED
    BY <1>0, <2>1, <2>2, <2>3, <2>4, <2>5, DefinitionTypes, GuardCall
<1>5. CASE Record(w)
  <2>1. PICK t \in Call : tx' = [tx EXCEPT ![w] = t] /\ RecordedSo(w, t)
    BY <1>5, RecordStep
  <2>2. Asking(t, a)
    BY <1>0, <2>1, RecordAsking
  <2>3. ASSUME a \notin yes, NEW R \in Before(definition, a) PROVE Within(t, R)
    BY <1>0, <1>5, <2>1, <2>3, RecordStep, RecordWithin DEF GuardInv
  <2>4. QED
    BY <1>5, <2>1, <2>2, <2>3, RecordStep, GuardCall DEF Keep
<1>6. CASE SqlError(w) \/ RollBack(w)
  <2>1. tx' = [tx EXCEPT ![w] = Idle] /\ UNCHANGED <<definition, run, rows, approvals, yes, effects>>
    BY <1>6 DEF SqlError, RollBack, Keep
  <2>2. Asking(Idle, a) /\ \A R : Within(Idle, R)
    BY DEF Asking, SaysSucceeded, Idle, Within
  <2>3. QED
    BY <1>0, <2>1, <2>2, IdleTyped, GuardCall
<1>7. QED
  BY <1>1, <1>2, <1>3, <1>4, <1>5, <1>6

LEMMA GuardCommit ==
    ASSUME TypeInv, NEW a \in Guards(definition), GuardInv(a), NEW w \in Workers, Commit(w)
    PROVE  GuardInv(a)'
<1>1. /\ tx'[w] = Idle /\ \A v \in Workers \ {w} : tx'[v] = tx[v]
  BY DEF Commit, TypeInv, TypeOK
<1>2. /\ Steps' = Steps /\ Before(definition, a)' = Before(definition, a)
      /\ a \in Steps /\ definition' = definition /\ yes' = yes
  BY FixedTypes DEF Commit, Guards, Steps
<1>3. approvals'[a] = ApprovalSeen(w, a)
  BY <1>2 DEF Commit
<1>4. /\ approvals[a] # "none" => approvals'[a] = approvals[a]
      /\ a \in tx[w].asked => approvals'[a] # "none"
      /\ approvals'[a] = "approved" => approvals[a] = "approved"
  BY <1>3 DEF ApprovalSeen
<1>5. SaysSucceeded(rows', a) => approvals'[a] # "none"
  BY <1>4 DEF GuardInv, Asking, Commit, RowsSeen, SaysSucceeded
<1>6. \A v \in Workers : Asking(tx[v], a)'
  BY <1>1, <1>4 DEF GuardInv, Asking, Idle, SaysSucceeded
<1>7. ASSUME a \notin yes, NEW R \in Before(definition, a) PROVE AllWithin(R)'
  <2>1. AllWithin(R)
    BY <1>7 DEF GuardInv
  <2>2. run'.step \in R \cup {Nil}
    BY <2>1 DEF Commit, AllWithin, Within, RunSeen
  <2>3. \A g \in Steps \ R : effects'[g] = 0
    BY <2>1 DEF Commit, AllWithin, Within, Times2
  <2>4. \A v \in Workers : Within(tx'[v], R)
    BY <1>1, <2>1 DEF AllWithin, Within, Idle
  <2>5. QED
    BY <1>2, <2>2, <2>3, <2>4 DEF AllWithin, Within
<1>8. QED
  BY <1>2, <1>4, <1>5, <1>6, <1>7 DEF GuardInv, SaysSucceeded

\* Decisions: approvals only leave "none" with a question, and what is approved
\* somebody has said yes to.
LEMMA GuardOthers ==
    ASSUME TypeInv, NEW a \in Guards(definition), GuardInv(a),
           UNCHANGED <<definition, rows, effects, tx>>, run'.step = run.step,
           approvals[a] # "none" => approvals'[a] # "none",
           approvals'[a] = "approved" => a \in yes', yes \subseteq yes'
    PROVE  GuardInv(a)'
<1>1. /\ Steps' = Steps /\ Before(definition, a)' = Before(definition, a)
  BY FixedTypes
<1>2. \A v \in Workers : Asking(tx[v], a)'
  BY DEF GuardInv, Asking, SaysSucceeded
<1>3. \A R : AllWithin(R) => AllWithin(R)'
  BY <1>1 DEF AllWithin, Within
<1>4. QED
  BY <1>1, <1>2, <1>3 DEF GuardInv, SaysSucceeded

LEMMA GuardStep == TypeInv /\ SameDry /\ GuardsHold /\ [Next]_vars => GuardsHold'
<1> SUFFICES ASSUME TypeInv, SameDry, GuardsHold, [Next]_vars PROVE GuardsHold'
  OBVIOUS
<1>1. Wet' <=> Wet
  BY SameDryStep DEF Wet
<1>2. ASSUME NEW w \in Workers, Advance(w) \/ RollBack(w) PROVE GuardsHold'
  <2>1. definition' = definition
    BY <1>2, TypeCallStep
  <2>2. CASE Commit(w)
    BY <1>1, <2>1, <2>2, GuardCommit DEF GuardsHold
  <2>3. CASE ~Commit(w)
    BY <1>1, <1>2, <2>1, <2>3, GuardPrivate DEF GuardsHold, Advance
  <2>4. QED
    BY <2>2, <2>3
<1>3. ASSUME Resume PROVE GuardsHold'
  <2>1. run'.step = run.step
    BY <1>3 DEF Resume, TypeInv, TypeOK, RunRow
  <2>2. QED
    BY <1>1, <1>3, <2>1, GuardOthers DEF Resume, GuardsHold, GuardInv
<1>4. ASSUME NEW d \in Deciders, NEW s \in Steps, DecideRead(d, s) PROVE GuardsHold'
  BY <1>1, <1>4, GuardOthers DEF DecideRead, GuardsHold, GuardInv
<1>5. ASSUME NEW d \in Deciders, NEW decision \in Decisions, DecideWrite(d, decision) PROVE GuardsHold'
  <2>1. run'.step = run.step
    BY <1>5 DEF DecideWrite, TypeInv, TypeOK, RunRow
  <2>2. deciding[d] \in Steps /\ approvals' = [approvals EXCEPT ![deciding[d]] = decision]
        /\ yes' = IF decision = "approved" THEN yes \cup {deciding[d]} ELSE yes
    BY <1>5 DEF DecideWrite, TypeInv, TypeOK
  <2>3. ASSUME Wet, NEW a \in Guards(definition)
        PROVE  /\ approvals[a] # "none" => approvals'[a] # "none"
               /\ approvals'[a] = "approved" => a \in yes'
               /\ yes \subseteq yes'
    BY <2>2, <2>3 DEF GuardsHold, GuardInv, Decisions, TypeInv, TypeOK
  <2>4. QED
    BY <1>1, <1>5, <2>1, <2>3, GuardOthers DEF DecideWrite, GuardsHold
<1>6. ASSUME NEW d \in Deciders, DecideFails(d) PROVE GuardsHold'
  BY <1>1, <1>6, GuardOthers DEF DecideFails, GuardsHold, GuardInv
<1>7. ASSUME UNCHANGED vars PROVE GuardsHold'
  BY <1>1, <1>7, GuardOthers DEF vars, GuardsHold, GuardInv
<1>8. QED
  BY <1>2, <1>3, <1>4, <1>5, <1>6, <1>7 DEF Next, Decide

\* What an approval guards happens only once a person has approved: however many
\* drains advance the run and however many people decide at once, however often
\* calls are rolled back and begun again, and for any definition the parser
\* accepts.
THEOREM ApprovalsGuard == Spec => []GuardedNeedsApproval
<1>1. TypeInv /\ DryInv /\ GuardsHold => GuardedNeedsApproval
  <2> SUFFICES ASSUME TypeInv, DryInv, GuardsHold,
                      NEW a \in Guards(definition), NEW g \in Guarded[definition][a],
                      effects[g] > 0
               PROVE  a \in yes
    BY DEF GuardedNeedsApproval
  <2>1. Guarded[definition][a] = GuardedBy(definition, a)
    BY DEF Guarded, TypeInv, TypeOK
  <2>2. PICK R \in Before(definition, a) : g \in Steps \ R
    BY <2>1 DEF GuardedBy, Steps
  <2>3. Wet
    BY <2>2 DEF DryInv, NothingDone, Wet
  <2>4. QED
    BY <2>2, <2>3 DEF GuardsHold, GuardInv, AllWithin
<1>2. TypeInv /\ DryInv /\ [Next]_vars => DryInv'
  BY SameDryStep, NothingDoneStep DEF DryInv
<1>3. TypeInv /\ DryInv /\ GuardsHold /\ [Next]_vars => GuardsHold'
  BY GuardStep DEF DryInv
<1>4. QED
  BY <1>1, <1>2, <1>3, TypeInit, TypeStep, DryInit, GuardInit, PTL DEF Spec

-----------------------------------------------------------------------------
(* The record of a step and its effect. *)

HasRow(set, s) == \E r \in set : r.step = s
OnlySuccesses(set, s) == \A r \in set : r.step = s => r.status = "succeeded"

\* A call under way counts the effect of what it records as succeeded, has a row
\* for what it counts, and records no failure of a step that cannot fail.
CallHonest(t) ==
    \A s \in Steps :
        /\ Step(s).type \in Transactional /\ SaysSucceeded(t.rows, s) => t.done[s] > 0
        /\ t.done[s] > 0 => HasRow(rows, s) \/ HasRow(t.rows, s)
        /\ Settled(s) => /\ OnlySuccesses(t.rows, s)
                         /\ t.pc = "record" /\ t.at = s => t.plan \notin Failures \cup {"skipped"}

TablesHonest ==
    \A s \in Steps :
        /\ Step(s).type \in Transactional =>
              /\ SaysSucceeded(rows, s) => effects[s] > 0
              /\ effects[s] > 0 => HasRow(rows, s)
        /\ Settled(s) => OnlySuccesses(rows, s)

Honest == TablesHonest /\ \A w \in Workers : CallHonest(tx[w])

LEMMA IdleHonest == CallHonest(Idle)
BY DEF CallHonest, Idle, SaysSucceeded, OnlySuccesses

LEMMA HonestInit == Init => Honest
BY IdleHonest DEF Init, Honest, TablesHonest, SaysSucceeded, OnlySuccesses

\* It is enough to look at the call that took the step.
LEMMA HonestCall ==
    ASSUME TypeInv, Honest, NEW w \in Workers, NEW t \in Call, tx' = [tx EXCEPT ![w] = t],
           UNCHANGED <<definition, rows>>, CallHonest(t),
           \A s \in Steps : Step(s).type \in Transactional => effects'[s] = effects[s]
    PROVE  Honest'
<1>1. tx'[w] = t /\ \A v \in Workers \ {w} : tx'[v] = tx[v]
  BY OneCall DEF TypeInv, TypeOK
<1>2. Steps' = Steps /\ \A s : Step(s)' = Step(s) /\ (Settled(s)' <=> Settled(s))
  BY FixedTypes DEF Step, Settled
<1>3. TablesHonest'
  BY <1>2 DEF Honest, TablesHonest
<1>4. \A v \in Workers : CallHonest(tx[v])
  BY DEF Honest
<1>5. ASSUME NEW v \in Workers PROVE CallHonest(tx[v])'
  <2>1. CallHonest(tx'[v])
    BY <1>1, <1>4
  <2>2. QED
    BY <1>2, <2>1 DEF CallHonest
<1>6. QED
  BY <1>3, <1>5 DEF Honest

\* A step of a call that writes nothing and plans no failure of a settled step.
LEMMA MovedHonest ==
    ASSUME TypeInv, NEW w \in Workers, CallHonest(tx[w]), NEW t, SameWrites(w, t),
           t.pc = "record" /\ t.at \in Steps /\ Settled(t.at) =>
               t.plan \notin Failures \cup {"skipped"}
    PROVE  CallHonest(t)
BY DEF CallHonest, SameWrites, SameDone

LEMMA CallCounts ==
    ASSUME TypeInv, NEW w \in Workers, NEW s \in Steps
    PROVE  /\ tx[w].done[s] \in 0 .. 2 /\ effects[s] \in 0 .. 2
           /\ More(tx[w].done[s]) > 0
<1>1. tx[w].done \in [Steps -> Times] /\ effects \in [Steps -> Times]
  BY CallTypes DEF TypeInv, TypeOK
<1>2. QED
  BY <1>1 DEF Times, More

\* Once recorded, the step has a row: the one inserted or the one in its place.
LEMMA RecordedHas ==
    ASSUME NEW w, NEW status
    PROVE  /\ HasRow(rows, tx[w].at) \/ HasRow(Recorded(w, status), tx[w].at)
           /\ tx[w].rows \subseteq Recorded(w, status)
<1>1. CASE \E r \in RowsSeen(w) : r.step = tx[w].at /\ r.seq = tx[w].n
  BY <1>1 DEF Recorded, RowsSeen, HasRow
<1>2. CASE ~\E r \in RowsSeen(w) : r.step = tx[w].at /\ r.seq = tx[w].n
  <2> DEFINE new == [step |-> tx[w].at, seq |-> tx[w].n, status |-> status]
  <2>1. Recorded(w, status) = tx[w].rows \cup {new}
    BY <1>2 DEF Recorded
  <2>2. new.step = tx[w].at
    OBVIOUS
  <2> HIDE DEF new
  <2>3. QED
    BY <2>1, <2>2 DEF HasRow
<1>3. QED
  BY <1>1, <1>2

LEMMA RecordHonest ==
    ASSUME TypeInv, Wet, NEW w \in Workers, NEW t \in Call, tx[w].pc = "record",
           CallHonest(tx[w]), RecordedSo(w, t)
    PROVE  CallHonest(t)
<1> DEFINE at == tx[w].at
<1>0. /\ t.pc # "record"
      /\ tx[w].plan # "budget" => at \in Steps
  BY DEF RecordedSo, SucceededSo, FailedSo, OtherwiseSo, Leaves, GoesOn, TypeInv, Placed
<1>1. ASSUME NEW s \in Steps
      PROVE  /\ Step(s).type \in Transactional /\ SaysSucceeded(tx[w].rows, s) => tx[w].done[s] > 0
             /\ tx[w].done[s] > 0 => HasRow(rows, s) \/ HasRow(tx[w].rows, s)
             /\ Settled(s) => /\ OnlySuccesses(tx[w].rows, s)
                              /\ at = s => tx[w].plan \notin Failures \cup {"skipped"}
  BY DEF CallHonest
<1>2. ASSUME NEW s \in Steps, s # at, NEW status, t.rows = Recorded(w, status),
             t.done[s] = tx[w].done[s]
      PROVE  /\ Step(s).type \in Transactional /\ SaysSucceeded(t.rows, s) => t.done[s] > 0
             /\ t.done[s] > 0 => HasRow(rows, s) \/ HasRow(t.rows, s)
             /\ Settled(s) => OnlySuccesses(t.rows, s)
  <2>1. \A r \in t.rows : r.step = s => r \in tx[w].rows
    BY <1>2, RecordedRows
  <2>2. tx[w].rows \subseteq t.rows
    BY <1>2, RecordedHas
  <2>3. QED
    BY <1>1, <1>2, <2>1, <2>2 DEF SaysSucceeded, HasRow, OnlySuccesses
<1>3. CASE SucceededSo(w, t)
  <2>0. at \in Steps /\ t.rows = Recorded(w, "succeeded") /\ t.done[at] = AfterDoing(w)
        /\ \A s \in Steps \ {at} : t.done[s] = tx[w].done[s]
    BY <1>0, <1>3 DEF SucceededSo, Effected
  <2>1. Step(at).type \in Transactional => t.done[at] > 0
    BY <2>0, CallCounts DEF AfterDoing
  <2>2. HasRow(rows, at) \/ HasRow(t.rows, at)
    BY <2>0, RecordedHas
  <2>3. Settled(at) => OnlySuccesses(t.rows, at)
    BY <1>1, <2>0, RecordedRows DEF OnlySuccesses
  <2>4. QED
    BY <1>0, <1>2, <2>0, <2>1, <2>2, <2>3 DEF CallHonest
<1>4. CASE FailedSo(w, t)
  <2>0. at \in Steps /\ t.rows = Recorded(w, "failed") /\ t.done[at] = AfterFailing(w)
        /\ ~Settled(at) /\ \A s \in Steps \ {at} : t.done[s] = tx[w].done[s]
    BY <1>0, <1>1, <1>4 DEF FailedSo, Failures
  <2>1. SaysSucceeded(t.rows, at) => SaysSucceeded(tx[w].rows, at)
    BY <2>0, RecordedRows DEF SaysSucceeded
  <2>2. tx[w].done[at] > 0 => t.done[at] > 0
    BY <2>0, CallCounts DEF AfterFailing
  <2>3. HasRow(rows, at) \/ HasRow(t.rows, at)
    BY <2>0, RecordedHas
  <2>4. Step(at).type \in Transactional /\ SaysSucceeded(t.rows, at) => t.done[at] > 0
    BY <1>1, <2>0, <2>1, <2>2
  <2>5. QED
    BY <1>0, <1>2, <2>0, <2>3, <2>4 DEF CallHonest
<1>5. CASE OtherwiseSo(w, t)
  <2>0. t.done = tx[w].done /\ (t.rows = tx[w].rows \/ t.rows = Recorded(w, "skipped"))
    BY <1>5 DEF OtherwiseSo, SameDone
  <2>1. CASE t.rows = tx[w].rows
    BY <1>0, <1>1, <2>0, <2>1 DEF CallHonest
  <2>2. CASE t.rows = Recorded(w, "skipped") /\ tx[w].plan = "skipped"
    <3>0. at \in Steps /\ ~Settled(at)
      BY <1>0, <1>1, <2>2
    <3>1. SaysSucceeded(t.rows, at) => SaysSucceeded(tx[w].rows, at)
      BY <2>2, RecordedRows DEF SaysSucceeded
    <3>2. HasRow(rows, at) \/ HasRow(t.rows, at)
      BY <2>2, RecordedHas
    <3>3. QED
      BY <1>0, <1>1, <1>2, <2>0, <2>2, <3>0, <3>1, <3>2 DEF CallHonest
  <2>3. QED
    BY <1>5, <2>1, <2>2 DEF OtherwiseSo
<1>6. QED
  BY <1>3, <1>4, <1>5 DEF RecordedSo

LEMMA CommitHonest ==
    ASSUME TypeInv, Honest, NEW w \in Workers, Commit(w)
    PROVE  Honest'
<1>1. /\ tx'[w] = Idle /\ \A v \in Workers \ {w} : tx'[v] = tx[v]
      /\ rows' = rows \cup tx[w].rows /\ definition' = definition
      /\ \A s \in Steps : effects'[s] = Times2(effects[s], tx[w].done[s])
  BY DEF Commit, RowsSeen, TypeInv, TypeOK
<1>2. Steps' = Steps /\ \A s : Step(s)' = Step(s) /\ (Settled(s)' <=> Settled(s))
  BY <1>1, FixedTypes DEF Step, Settled
<1>3. ASSUME NEW s \in Steps
      PROVE  /\ Step(s).type \in Transactional =>
                   /\ SaysSucceeded(rows', s) => effects'[s] > 0
                   /\ effects'[s] > 0 => HasRow(rows', s)
             /\ Settled(s) => OnlySuccesses(rows', s)
  <2>1. effects'[s] > 0 <=> effects[s] > 0 \/ tx[w].done[s] > 0
    BY <1>1, CallCounts DEF Times2
  <2>2. CallHonest(tx[w])
    BY DEF Honest
  <2>3. QED
    BY <1>1, <2>1, <2>2 DEF Honest, TablesHonest, CallHonest, SaysSucceeded, HasRow, OnlySuccesses
<1>4. TablesHonest'
  BY <1>2, <1>3 DEF TablesHonest
<1>5. ASSUME NEW v \in Workers PROVE CallHonest(tx[v])'
  <2>1. CallHonest(tx'[v])
    BY <1>1, IdleHonest DEF Honest
  <2>2. QED
    BY <1>1, <1>2, <2>1 DEF CallHonest, HasRow
<1>6. QED
  BY <1>4, <1>5 DEF Honest

LEMMA HonestOthers ==
    ASSUME Honest, UNCHANGED <<definition, rows, effects, tx>>
    PROVE  Honest'
<1>1. Steps' = Steps /\ \A s : Step(s)' = Step(s) /\ (Settled(s)' <=> Settled(s))
  BY FixedTypes DEF Step, Settled
<1>2. QED
  BY <1>1 DEF Honest, TablesHonest, CallHonest

LEMMA HonestStep == TypeInv /\ SameDry /\ Wet /\ Honest /\ [Next]_vars => Honest'
<1> SUFFICES ASSUME TypeInv, SameDry, Wet, Honest, [Next]_vars PROVE Honest'
  OBVIOUS
<1>0. \A w \in Workers : CallHonest(tx[w])
  BY DEF Honest
<1>1. ASSUME NEW w \in Workers, Begin(w) PROVE Honest'
  <2>1. PICK t \in Call : tx' = [tx EXCEPT ![w] = t] /\ BegunSo(t)
    BY <1>1, BeginStep
  <2>2. CallHonest(t)
    BY <2>1 DEF BegunSo, CallHonest, SaysSucceeded, OnlySuccesses
  <2>3. QED
    BY <1>1, <2>1, <2>2, BeginStep, HonestCall DEF Keep
<1>2. ASSUME NEW w \in Workers, LeaveLoop(w) PROVE Honest'
  <2>1. PICK t \in Call : tx' = [tx EXCEPT ![w] = t] /\ LeftSo(w, t)
    BY <1>2, LeaveLoopStep
  <2>2. CallHonest(t)
    BY <1>0, <2>1, MovedHonest DEF LeftSo, Failures
  <2>3. QED
    BY <1>2, <2>1, <2>2, LeaveLoopStep, HonestCall DEF Keep
<1>3. ASSUME NEW w \in Workers, Skip(w) PROVE Honest'
  <2>1. PICK t \in Call : tx' = [tx EXCEPT ![w] = t] /\ SkippedSo(w, t)
    BY <1>3, SkipStep
  <2>2. CallHonest(t)
    BY <1>0, <2>1, MovedHonest DEF SkippedSo, Failures
  <2>3. QED
    BY <1>3, <2>1, <2>2, SkipStep, HonestCall DEF Keep
<1>4. ASSUME NEW w \in Workers, Execute(w) PROVE Honest'
  <2>1. PICK t \in Call : tx' = [tx EXCEPT ![w] = t] /\ ExecutedSo(w, t)
    BY <1>4, ExecuteStep
  <2>2. Settled(t.at) => t.plan \notin Failures \cup {"skipped"}
    BY <2>1 DEF ExecutedSo, Settled, Failures
  <2>3. CallHonest(t)
    BY <1>0, <2>1, <2>2, MovedHonest DEF ExecutedSo
  <2>4. \A s \in Steps : Step(s).type \in Transactional => effects'[s] = effects[s]
    BY <2>1 DEF ExecutedSo, Transactional, TypeInv, TypeOK
  <2>5. QED
    BY <1>4, <2>1, <2>3, <2>4, ExecuteStep, HonestCall
<1>5. ASSUME NEW w \in Workers, Record(w) PROVE Honest'
  <2>1. PICK t \in Call : tx' = [tx EXCEPT ![w] = t] /\ RecordedSo(w, t)
    BY <1>5, RecordStep
  <2>2. CallHonest(t)
    BY <1>0, <1>5, <2>1, RecordStep, RecordHonest
  <2>3. QED
    BY <1>5, <2>1, <2>2, RecordStep, HonestCall DEF Keep
<1>6. ASSUME NEW w \in Workers, SqlError(w) \/ RollBack(w) PROVE Honest'
  <2>1. tx' = [tx EXCEPT ![w] = Idle] /\ UNCHANGED <<definition, rows, effects>>
    BY <1>6 DEF SqlError, RollBack, Keep
  <2>2. QED
    BY <2>1, IdleTyped, IdleHonest, HonestCall DEF TypeInv, TypeOK
<1>7. ASSUME NEW w \in Workers, Commit(w) PROVE Honest'
  BY <1>7, CommitHonest
<1>8. ASSUME Resume \/ \E d \in Deciders : Decide(d) \/ DecideFails(d) PROVE Honest'
  BY <1>8, TypeOthers, HonestOthers
<1>9. ASSUME UNCHANGED vars PROVE Honest'
  BY <1>9, HonestOthers DEF vars
<1>10. QED
  BY <1>1, <1>2, <1>3, <1>4, <1>5, <1>6, <1>7, <1>8, <1>9 DEF Next, Advance

HonestWhenWet == Wet => Honest

\* What is recorded as done has been done, and what has been done or begun is on
\* record: for any definitions, the failing and the irregular ones included,
\* however many drains execute a step at once and collide on its record, and
\* whatever is rolled back.  Of a dry run there is nothing at all.
THEOREM EffectsAreHonest == Spec => []EffectsHonest
<1>1. Init => HonestWhenWet
  BY HonestInit DEF HonestWhenWet
<1>2. TypeInv /\ DryInv /\ HonestWhenWet /\ [Next]_vars => HonestWhenWet'
  BY HonestStep, SameDryStep DEF HonestWhenWet, DryInv, Wet
<1>3. TypeInv /\ DryInv /\ [Next]_vars => DryInv'
  BY SameDryStep, NothingDoneStep DEF DryInv
<1>4. HonestWhenWet => EffectsRecorded
  <2> SUFFICES ASSUME Honest, NEW s \in Steps, Step(s).type \in Transactional
               PROVE  /\ OnRecord(s) => effects[s] > 0
                      /\ effects[s] > 0 => \E r \in rows : r.step = s
                      /\ effects[s] > 0 /\ Settled(s) => OnRecord(s)
    BY DEF HonestWhenWet, EffectsRecorded
  <2>1. /\ SaysSucceeded(rows, s) => effects[s] > 0
        /\ effects[s] > 0 => HasRow(rows, s)
        /\ Settled(s) => OnlySuccesses(rows, s)
    BY DEF Honest, TablesHonest
  <2>2. QED
    BY <2>1 DEF OnRecord, SaysSucceeded, HasRow, OnlySuccesses
<1>5. Spec => []DryRunDoesNothing
  BY DryRunsDoNothing
<1>6. QED
  BY <1>1, <1>2, <1>3, <1>4, <1>5, TypeInit, TypeStep, DryInit, PTL DEF Spec, EffectsHonest

-----------------------------------------------------------------------------
(* What is done is done. *)

\* Step s keeps its record, and no call is newly involved in it.
LEMMA DoneKeeps ==
    ASSUME NEW s \in Steps, Done(s), definition' = definition, rows \subseteq rows',
           \A w \in Workers : ~InvolvedIn(w, s)'
    PROVE  Done(s)'
BY DEF Done, OnRecord, Step

LEMMA NotInvolved ==
    ASSUME TypeInv, NEW w \in Workers, NEW s \in Steps, Done(s)
    PROVE  /\ tx[w].done[s] = 0
           /\ tx[w].pc = "record" /\ tx[w].at = s => tx[w].plan \notin {"succeeded", "partial"}
           /\ PassedBefore(w, s)
<1>1. ~InvolvedIn(w, s) /\ OnRecord(s) /\ Step(s).type # "branch"
  BY DEF Done
<1>2. tx[w].done[s] = 0
  BY <1>1, CallCounts DEF InvolvedIn
<1>3. QED
  BY <1>1, <1>2 DEF InvolvedIn, OnRecord, PassedBefore, Succeeded, RowsSeen

\* It is enough to look at the call that took the step.
LEMMA InvolvedCall ==
    ASSUME TypeInv, NEW s \in Steps, Done(s), NEW w \in Workers, NEW t \in Call,
           tx' = [tx EXCEPT ![w] = t], t.done[s] = 0,
           t.pc = "record" /\ t.at = s => t.plan \notin {"succeeded", "partial"}
    PROVE  \A v \in Workers : ~InvolvedIn(v, s)'
<1>1. tx'[w] = t /\ \A v \in Workers \ {w} : tx'[v] = tx[v]
  BY OneCall DEF TypeInv, TypeOK
<1>2. \A v \in Workers : ~InvolvedIn(v, s)
  BY DEF Done
<1>3. QED
  BY <1>1, <1>2 DEF InvolvedIn

LEMMA RecordNotInvolved ==
    ASSUME TypeInv, NEW w \in Workers, NEW s \in Steps, Done(s), tx[w].pc = "record",
           NEW t \in Call, RecordedSo(w, t)
    PROVE  t.done[s] = 0 /\ t.pc # "record"
<1>1. tx[w].done[s] = 0 /\ (tx[w].at = s => tx[w].plan \notin {"succeeded", "partial"})
  BY NotInvolved
<1>2. CASE SucceededSo(w, t)
  BY <1>1, <1>2 DEF SucceededSo, Effected, Leaves, GoesOn
<1>3. CASE FailedSo(w, t)
  BY <1>1, <1>3 DEF FailedSo, AfterFailing, Leaves, GoesOn
<1>4. CASE OtherwiseSo(w, t)
  BY <1>1, <1>4 DEF OtherwiseSo, SameDone, Leaves, GoesOn
<1>5. QED
  BY <1>2, <1>3, <1>4 DEF RecordedSo

LEMMA DoneStep ==
    ASSUME TypeInv, [Next]_vars, NEW s \in Steps, Done(s)
    PROVE  Done(s)' /\ effects'[s] = effects[s]
<1>0. \A w \in Workers : tx[w].done[s] = 0 /\ PassedBefore(w, s)
  BY NotInvolved
<1>1. ASSUME NEW w \in Workers, Begin(w) PROVE Done(s)' /\ effects'[s] = effects[s]
  BY <1>1, BeginStep, InvolvedCall, DoneKeeps DEF BegunSo, Keep
<1>2. ASSUME NEW w \in Workers, LeaveLoop(w) PROVE Done(s)' /\ effects'[s] = effects[s]
  BY <1>0, <1>2, LeaveLoopStep, InvolvedCall, DoneKeeps DEF LeftSo, SameWrites, SameDone, Keep
<1>3. ASSUME NEW w \in Workers, Skip(w) PROVE Done(s)' /\ effects'[s] = effects[s]
  BY <1>0, <1>3, SkipStep, InvolvedCall, DoneKeeps DEF SkippedSo, SameWrites, SameDone, Keep
<1>4. ASSUME NEW w \in Workers, Execute(w) PROVE Done(s)' /\ effects'[s] = effects[s]
  <2>1. PICK t \in Call : tx' = [tx EXCEPT ![w] = t] /\ ExecutedSo(w, t)
    BY <1>4, ExecuteStep
  <2>2. t.at = tx[w].at /\ tx[w].at # s /\ t.done[s] = 0
    BY <1>0, <2>1 DEF ExecutedSo, SameWrites, SameDone
  <2>3. effects'[s] = effects[s]
    BY <2>1, <2>2 DEF ExecutedSo, TypeInv, TypeOK
  <2>4. QED
    BY <1>4, <2>1, <2>2, <2>3, ExecuteStep, InvolvedCall, DoneKeeps
<1>5. ASSUME NEW w \in Workers, Record(w) PROVE Done(s)' /\ effects'[s] = effects[s]
  <2>1. PICK t \in Call : tx' = [tx EXCEPT ![w] = t] /\ RecordedSo(w, t)
    BY <1>5, RecordStep
  <2>2. t.done[s] = 0 /\ t.pc # "record"
    BY <1>5, <2>1, RecordStep, RecordNotInvolved
  <2>3. QED
    BY <1>5, <2>1, <2>2, RecordStep, InvolvedCall, DoneKeeps DEF Keep
<1>6. ASSUME NEW w \in Workers, Commit(w) \/ SqlError(w) \/ RollBack(w)
      PROVE  Done(s)' /\ effects'[s] = effects[s]
  <2>1. tx' = [tx EXCEPT ![w] = Idle] /\ definition' = definition /\ rows \subseteq rows'
    BY <1>6 DEF Commit, SqlError, RollBack, Keep, RowsSeen
  <2>2. Idle \in Call /\ Idle.done[s] = 0 /\ Idle.pc = "idle"
    BY IdleTyped DEF TypeInv, TypeOK, Idle
  <2>3. effects'[s] = effects[s]
    <3>1. CASE Commit(w)
      <4>1. effects'[s] = Times2(effects[s], 0)
        BY <1>0, <3>1 DEF Commit
      <4>2. QED
        BY <4>1, CallCounts DEF Times2
    <3>2. CASE SqlError(w) \/ RollBack(w)
      BY <3>2 DEF SqlError, RollBack, Keep
    <3>3. QED
      BY <1>6, <3>1, <3>2
  <2>4. QED
    BY <2>1, <2>2, <2>3, InvolvedCall, DoneKeeps
<1>7. ASSUME UNCHANGED <<definition, rows, effects, tx>>
      PROVE  Done(s)' /\ effects'[s] = effects[s]
  BY <1>7 DEF Done, OnRecord, Step, InvolvedIn
<1>8. CASE Resume \/ \E d \in Deciders : Decide(d) \/ DecideFails(d)
  BY <1>7, <1>8, TypeOthers
<1>9. CASE UNCHANGED vars
  BY <1>7, <1>9 DEF vars
<1>10. QED
  BY <1>1, <1>2, <1>3, <1>4, <1>5, <1>6, <1>8, <1>9 DEF Next, Advance

\* A step whose success is on record, and which no call that looked before is
\* still in, is never done or sent again: by any number of drains, for any
\* definition.  What is done twice is done by calls that overlap, or was rolled
\* back.
THEOREM StepsAreDoneOnce == Spec => DoneOnce
<1>1. TypeInv /\ [Next]_vars =>
          [\A s \in Steps : Done(s) => Done(s)' /\ effects'[s] = effects[s]]_vars
  BY DoneStep
<1>2. QED
  BY <1>1, TypeInit, TypeStep, PTL DEF Spec, DoneOnce

-----------------------------------------------------------------------------
(* The end is the end. *)

\* Only a question that has been asked is read.
ReadAsked == \A d \in Deciders : deciding[d] # Nil => approvals[deciding[d]] # "none"

LEMMA ReadInit == Init => ReadAsked
BY DEF Init, ReadAsked

LEMMA AskedStep ==
    TypeInv /\ ReadAsked /\ [Next]_vars =>
        \A s \in Steps : approvals[s] # "none" => approvals'[s] # "none"
<1> SUFFICES ASSUME TypeInv, ReadAsked, [Next]_vars, NEW s \in Steps, approvals[s] # "none"
             PROVE  approvals'[s] # "none"
  OBVIOUS
<1>1. ASSUME NEW w \in Workers, Advance(w) \/ RollBack(w) PROVE approvals'[s] # "none"
  BY <1>1 DEF Advance, Begin, LeaveLoop, Skip, Execute, Record, Commit, SqlError, RollBack, Keep,
              ApprovalSeen
<1>2. ASSUME NEW d \in Deciders, Decide(d) \/ DecideFails(d) PROVE approvals'[s] # "none"
  BY <1>2 DEF Decide, DecideRead, DecideWrite, DecideFails, Decisions, TypeInv, TypeOK
<1>3. QED
  BY <1>1, <1>2 DEF Next, Resume, vars

LEMMA ReadStep == TypeInv /\ ReadAsked /\ [Next]_vars => ReadAsked'
<1> SUFFICES ASSUME TypeInv, ReadAsked, [Next]_vars, NEW d \in Deciders, deciding'[d] # Nil
             PROVE  approvals'[deciding'[d]] # "none"
  BY DEF ReadAsked
<1>1. CASE deciding'[d] = deciding[d]
  BY <1>1, AskedStep DEF ReadAsked, TypeInv, TypeOK
<1>2. CASE deciding'[d] # deciding[d]
  <2>1. PICK e \in Deciders : Decide(e) \/ DecideFails(e)
    BY <1>2 DEF Next, Resume, vars, Advance, Begin, LeaveLoop, Skip, Execute, Record, Commit,
                SqlError, RollBack, Keep
  <2>2. PICK s \in Steps : DecideRead(e, s) /\ deciding'[d] = s
    BY <1>2, <2>1 DEF Decide, DecideRead, DecideWrite, DecideFails, TypeInv, TypeOK
  <2>3. QED
    BY <2>2 DEF DecideRead
<1>3. QED
  BY <1>1, <1>2

\* A call at the end of the run, as the others see it.
EndCall(t) ==
    \/ t.pc = "idle"
    \/ /\ t.pc \in {"look", "commit"}
       /\ t.at \in {run.step, Nil} /\ t.n = 0
       /\ t.run = NoRun /\ t.rows = {} /\ t.asked = {}
       /\ \A s \in Steps : t.done[s] = 0

LEMMA EndKeeps ==
    ASSUME TypeInv, Ended, NEW w \in Workers, NEW t \in Call, tx' = [tx EXCEPT ![w] = t],
           EndCall(t), UNCHANGED <<definition, rows>>, run'.step = run.step
    PROVE  Ended'
<1>1. tx'[w] = t /\ \A v \in Workers \ {w} : tx'[v] = tx[v]
  BY OneCall DEF TypeInv, TypeOK
<1>2. Steps' = Steps
  BY FixedTypes
<1>3. ASSUME NEW v \in Workers PROVE AtEnd(v)'
  <2>1. EndCall(tx'[v])
    BY <1>1 DEF Ended, AtEnd, EndCall
  <2>2. QED
    BY <1>2, <2>1 DEF AtEnd, EndCall
<1>4. QED
  BY <1>2, <1>3 DEF Ended, OnRecord, Step

LEMMA EndStep ==
    ASSUME TypeInv, ReadAsked, [Next]_vars, Ended
    PROVE  /\ Ended' /\ rows' = rows /\ effects' = effects
           /\ \A s \in Steps : approvals[s] = "none" => approvals'[s] = "none"
<1> DEFINE end == run.step
           Goal == /\ Ended' /\ rows' = rows /\ effects' = effects
                   /\ \A s \in Steps : approvals[s] = "none" => approvals'[s] = "none"
<1>1. /\ end \in Steps /\ end # Nil /\ Step(end).type = "end" /\ Step(end).next = Nil
      /\ OnRecord(end) /\ \A w \in Workers : EndCall(tx[w])
      /\ MaxSteps \in Nat \ {0} /\ tx \in [Workers -> Call]
  BY DefinitionTypes DEF Ended, AtEnd, EndCall, TypeInv, TypeOK
<1>2. \A w \in Workers : PassedBefore(w, end)
  BY <1>1 DEF OnRecord, PassedBefore, Succeeded, RowsSeen
<1>3. ASSUME NEW w \in Workers, Begin(w) PROVE Goal
  <2>1. PICK t \in Call : tx' = [tx EXCEPT ![w] = t] /\ BegunSo(t)
    BY <1>3, BeginStep
  <2>2. EndCall(t)
    BY <1>1, <2>1 DEF BegunSo, EndCall
  <2>3. QED
    BY <1>3, <2>1, <2>2, BeginStep, EndKeeps DEF Keep
<1>4. ASSUME NEW w \in Workers, LeaveLoop(w) PROVE Goal
  <2>1. PICK t \in Call : tx' = [tx EXCEPT ![w] = t] /\ LeftSo(w, t)
    BY <1>4, LeaveLoopStep
  <2>2. tx[w].pc = "look" /\ EndCall(tx[w]) /\ tx[w].n # MaxSteps
    BY <1>1, <1>4, LeaveLoopStep DEF EndCall
  <2>3. t.n = 0
    BY <1>1, <1>4, <2>2 , <2>1 DEF LeaveLoop, LeftSo, EndCall, TypeInv, TypeOK, Call
  <2>4. EndCall(t)
    BY <2>1, <2>2, <2>3 DEF LeftSo, SameWrites, SameDone, EndCall
  <2>5. QED
    BY <1>4, <2>1, <2>4, LeaveLoopStep, EndKeeps DEF Keep
<1>5. ASSUME NEW w \in Workers, Skip(w) PROVE Goal
  <2>1. tx[w].at = end /\ tx[w].pc = "look" /\ EndCall(tx[w])
    BY <1>1, <1>5, DefinitionTypes, SkipStep DEF EndCall, TypeInv, TypeOK
  <2> DEFINE t == [tx[w] EXCEPT !.at = Nil]
  <2>2. tx' = [tx EXCEPT ![w] = t]
    BY <1>1, <1>5, <2>1 DEF Skip, Onward
  <2>3. tx[w] \in Call
    BY <1>1
  <2>4. t \in Call
    BY ONLY <2>3 DEF Call
  <2>5. /\ t.pc = "look" /\ t.at = Nil /\ t.n = tx[w].n /\ t.run = tx[w].run
        /\ t.rows = tx[w].rows /\ t.asked = tx[w].asked /\ t.done = tx[w].done
    BY <2>1, <2>3 DEF Call
  <2> HIDE DEF t
  <2>6. EndCall(t)
    BY <2>1, <2>5 DEF EndCall
  <2>7. QED
    BY <1>5, <2>2, <2>3, <2>4, <2>6, EndKeeps DEF Skip, Keep
<1>6. ASSUME NEW w \in Workers, Execute(w) \/ SqlError(w) PROVE Goal
  <2>1. tx[w].at = end
    BY <1>1, <1>6 DEF Execute, SqlError, InLoop, EndCall
  <2>2. QED
    BY <1>2, <1>6, <2>1 DEF Execute, SqlError
<1>7. ASSUME NEW w \in Workers, Record(w) PROVE Goal
  BY <1>1, <1>7 DEF Record, EndCall
<1>8. ASSUME NEW w \in Workers, Commit(w) PROVE Goal
  <2>1. tx[w].pc = "commit" /\ EndCall(tx[w])
    BY <1>1, <1>8 DEF Commit
  <2>2. run' = run /\ rows' = rows /\ approvals' = approvals
    BY <1>8, <2>1 DEF Commit, EndCall, RunSeen, RowsSeen, ApprovalSeen, TypeInv, TypeOK
  <2>3. \A s \in Steps : Times2(effects[s], tx[w].done[s]) = effects[s]
    BY <2>1, CallCounts DEF EndCall, Times2
  <2>4. effects' = effects
    BY <1>8, <2>3 DEF Commit, TypeInv, TypeOK
  <2>5. Idle \in Call /\ EndCall(Idle)
    BY IdleTyped DEF TypeInv, TypeOK, EndCall
  <2>6. QED
    BY <1>8, <2>2, <2>4, <2>5, EndKeeps DEF Commit
<1>9. ASSUME NEW w \in Workers, RollBack(w) PROVE Goal
  <2>1. Idle \in Call /\ EndCall(Idle)
    BY IdleTyped DEF TypeInv, TypeOK, EndCall
  <2>2. QED
    BY <1>9, <2>1, EndKeeps DEF RollBack
<1>10. ASSUME UNCHANGED <<definition, rows, tx>>, run'.step = run.step PROVE Ended'
  BY <1>10, FixedTypes DEF Ended, AtEnd, OnRecord, Step
<1>11. ASSUME Resume PROVE Goal
  <2>1. run'.step = run.step
    BY <1>11 DEF Resume, TypeInv, TypeOK, RunRow
  <2>2. QED
    BY <1>10, <1>11, <2>1 DEF Resume
<1>12. ASSUME NEW d \in Deciders, Decide(d) \/ DecideFails(d) PROVE Goal
  <2>1. CASE \E s \in Steps : DecideRead(d, s)
    BY <1>10, <2>1 DEF DecideRead
  <2>2. ASSUME NEW decision \in Decisions, DecideWrite(d, decision) PROVE Goal
    <3>1. run'.step = run.step
      BY <2>2 DEF DecideWrite, TypeInv, TypeOK, RunRow
    <3>2. approvals[deciding[d]] # "none" /\ approvals' = [approvals EXCEPT ![deciding[d]] = decision]
      BY <2>2 DEF DecideWrite, ReadAsked
    <3>3. QED
      BY <1>10, <2>2, <3>1, <3>2 DEF DecideWrite, TypeInv, TypeOK
  <2>3. CASE DecideFails(d)
    BY <1>10, <2>3 DEF DecideFails
  <2>4. QED
    BY <1>12, <2>1, <2>2, <2>3 DEF Decide
<1>13. CASE UNCHANGED vars
  BY <1>10, <1>13 DEF vars
<1>14. QED
  BY <1>3, <1>4, <1>5, <1>6, <1>7, <1>8, <1>9, <1>11, <1>12, <1>13 DEF Next, Advance

\* A run that has come to its end, and that no other call is still at work on,
\* takes no further step and asks nobody: by any number of drains and of people
\* who decide late, for any definition.
THEOREM TheEndIsTheEnd == Spec => EndIsEnd
<1>1. TypeInv /\ ReadAsked /\ [Next]_vars =>
          [Ended => /\ Ended' /\ rows' = rows /\ effects' = effects
                    /\ \A s \in Steps : approvals[s] = "none" => approvals'[s] = "none"]_vars
  BY EndStep
<1>2. QED
  BY <1>1, TypeInit, TypeStep, ReadInit, ReadStep, PTL DEF Spec, EndIsEnd

=============================================================================
