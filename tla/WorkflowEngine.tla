--------------------------- MODULE WorkflowEngine ---------------------------
(***************************************************************************)
(* One run of the workflow engine of packages/workflow/src/engine.ts:      *)
(* advanceRun, called by drains (possibly by two of them at once), and     *)
(* decideApproval, called by people.                                       *)
(*                                                                         *)
(* Every call runs in ONE tenant transaction (READ COMMITTED).  What it    *)
(* has written is private to it until it commits, disappears when it is    *)
(* rolled back, and keeps other writers of the same row waiting: the       *)
(* variable tx holds that private part, run / rows / approvals / effects   *)
(* the committed tables.  Only a communication that was sent is in the     *)
(* world at once.                                                          *)
(*                                                                         *)
(* A run is of one definition and is dry or not from its start.  What a    *)
(* step's conditions and a branch evaluate to is left open; the            *)
(* accumulated context is left out.                                        *)
(***************************************************************************)
EXTENDS Naturals, FiniteSets

CONSTANTS
    Definitions,  \* [start, maxSteps, steps : key -> step], parsed definitions
    Workers,      \* drains calling advanceRun for this run
    Deciders,     \* people calling decideApproval
    DryRuns,      \* the values of the dry_run column considered
    MaxMishaps,   \* bound: crashes and timeouts in a behaviour
    Nil           \* the null step key

Types == {"ai-capability", "create-task", "send-communication", "update-field",
          "branch", "delay", "approval", "emit-event", "end"}

\* A step of definition d.  next, onError and onReject name a step or Nil;
\* targets are the ends of a branch (its default included, which may be Nil);
\* optional says the step has a "when"; may lists how executing it can turn out:
\* "partial" is the failure of an ai-capability step of which some writes stay.
StepShape(d) ==
    LET Keys == DOMAIN d.steps
    IN  [type: Types, next: Keys \cup {Nil}, onError: Keys \cup {Nil},
         onReject: Keys \cup {Nil}, targets: SUBSET (Keys \cup {Nil}),
         optional: BOOLEAN, may: SUBSET {"succeeded", "failed", "partial", "sql-error"}]

\* Where step k of definition d may lead.
Targets(d, k) ==
    ({d.steps[k].next, d.steps[k].onError}
       \cup (IF d.steps[k].type = "branch" THEN d.steps[k].targets ELSE {})
       \cup (IF d.steps[k].type = "approval" THEN {d.steps[k].onReject} ELSE {})) \ {Nil}

\* What parseWorkflowDefinition accepts.
ValidDefinition(d) ==
    LET Keys == DOMAIN d.steps
    IN  /\ d.start \in Keys
        /\ \A k \in Keys : d.steps[k].type \notin {"end", "branch"} => d.steps[k].next # Nil
        /\ \A k \in Keys : d.steps[k].type = "branch" => d.steps[k].targets # {}
        /\ \E k \in Keys : d.steps[k].type = "end"
        /\ \A R \in SUBSET Keys :
              d.start \in R /\ (\A k \in R : Targets(d, k) \subseteq R) => R = Keys

ASSUME DefinitionAssumption ==
    \A d \in Definitions :
        /\ Nil \notin DOMAIN d.steps
        /\ d.steps \in [DOMAIN d.steps -> StepShape(d)]
        /\ d.maxSteps \in Nat \ {0}
        /\ ValidDefinition(d)

ASSUME RunAssumption == DryRuns \subseteq BOOLEAN /\ MaxMishaps \in Nat

VARIABLES
    definition, \* the definition the run is of
    run,        \* the workflow_runs row
    rows,       \* workflow_step_runs: which step, at which sequence, how it ended
    approvals,  \* workflow_approvals, one per approval step
    effects,    \* per step, how often its effect is in the database or the world
    yes,        \* history: the approval steps somebody has approved
    tx,         \* per drain, the advanceRun call under way
    deciding,   \* per person, the approval decideApproval has read as pending
    mishaps     \* crashes and timeouts so far, bounded by MaxMishaps

vars == <<definition, run, rows, approvals, effects, yes, tx, deciding, mishaps>>

Steps == DOMAIN definition.steps
StartStep == definition.start
MaxSteps == definition.maxSteps
Step(s) == definition.steps[s]

Final == {"completed", "failed", "cancelled"}
Decisions == {"approved", "rejected"}

RunStatus == {"running", "waiting", "awaiting-approval"} \cup Final

\* due: resume_at has passed (or is not set).
RunRow == [status: RunStatus, step: Steps \cup {Nil}, due: BOOLEAN, dry: BOOLEAN]

StepRow == [step: Steps, seq: 0 .. MaxSteps, status: {"succeeded", "failed", "skipped"}]

\* How often an effect happened: never, once, more than once.
Times == 0 .. 2
More(n) == IF n = 2 THEN 2 ELSE n + 1
Times2(a, b) == IF a + b > 2 THEN 2 ELSE a + b

NoRun == [status |-> "none"]

Idle == [pc |-> "idle", at |-> Nil, n |-> 0, plan |-> "none",
         run |-> NoRun, rows |-> {}, asked |-> {}, done |-> [s \in Steps |-> 0],
         outcome |-> "none"]

Plans == {"none", "succeeded", "failed", "partial", "skipped", "await", "close-rejected",
          "budget"}

Call == [pc: {"idle", "look", "record", "commit"}, at: Steps \cup {Nil}, n: 0 .. MaxSteps,
         plan: Plans, run: RunRow \cup {NoRun}, rows: SUBSET StepRow, asked: SUBSET Steps,
         done: [Steps -> Times], outcome: {"none"} \cup RunStatus]

TypeOK ==
    /\ definition \in Definitions
    /\ run \in RunRow
    /\ rows \subseteq StepRow
    /\ approvals \in [Steps -> {"none", "pending"} \cup Decisions]
    /\ effects \in [Steps -> Times]
    /\ yes \subseteq Steps
    /\ tx \in [Workers -> Call]
    /\ deciding \in [Deciders -> Steps \cup {Nil}]
    /\ mishaps \in 0 .. MaxMishaps

\* startWorkflowRun has inserted the run.
Init ==
    /\ definition \in Definitions
    /\ \E dry \in DryRuns :
          run = [status |-> "running", step |-> StartStep, due |-> TRUE, dry |-> dry]
    /\ rows = {}
    /\ approvals = [s \in Steps |-> "none"]
    /\ effects = [s \in Steps |-> 0]
    /\ yes = {}
    /\ tx = [w \in Workers |-> Idle]
    /\ deciding = [d \in Deciders |-> Nil]
    /\ mishaps = 0

-----------------------------------------------------------------------------
(* What the transaction of drain w sees: the committed tables and its own writes. *)

RunSeen(w) == IF tx[w].run = NoRun THEN run ELSE tx[w].run
RowsSeen(w) == rows \cup tx[w].rows
ApprovalSeen(w, s) ==
    IF approvals[s] = "none" /\ s \in tx[w].asked THEN "pending" ELSE approvals[s]

Succeeded(w, s) == \E r \in RowsSeen(w) : r.step = s /\ r.status = "succeeded"

\* Row locks: a row another transaction has written and not yet committed.
RunFree(w) == \A v \in Workers \ {w} : tx[v].run = NoRun
RowFree(w, s, n) ==
    \A v \in Workers \ {w} : ~\E r \in tx[v].rows : r.step = s /\ r.seq = n
ApprovalFree(w, s) == \A v \in Workers \ {w} : s \notin tx[v].asked

-----------------------------------------------------------------------------
(* advanceRun. *)

\* A step of a call that writes nothing others can see.
Keep == UNCHANGED <<definition, run, rows, approvals, effects, yes, deciding, mishaps>>

\* The early returns of advanceRun.
Drivable ==
    /\ run.status \notin Final
    /\ ~(run.status = "waiting" /\ ~run.due)
    /\ run.status # "awaiting-approval"

\* The call begins: loadRun, and current_step ?? startStep.
Begin(w) ==
    /\ tx[w].pc = "idle"
    /\ Drivable
    /\ tx' = [tx EXCEPT ![w] = [Idle EXCEPT !.pc = "look",
                 !.at = IF run.step = Nil THEN StartStep ELSE run.step]]
    /\ Keep

\* Seeded fault: the budget is not looked at when the loop is left.
LeaveLoop_NoBudget(w) ==
    /\ tx[w].pc = "look" /\ tx[w].at = Nil
    /\ tx' = [tx EXCEPT ![w].pc = "commit", ![w].outcome = "completed"]
    /\ Keep

\* The loop's condition fails: the budget is used up, or there is no step.
LeaveLoop(w) ==
    /\ tx[w].pc = "look"
    /\ tx[w].at = Nil \/ tx[w].n = MaxSteps
    /\ tx' = IF tx[w].n = MaxSteps
             THEN [tx EXCEPT ![w].pc = "record", ![w].plan = "budget"]
             ELSE [tx EXCEPT ![w].pc = "commit", ![w].outcome = "completed"]
    /\ Keep

InLoop(w) == tx[w].pc = "look" /\ tx[w].at # Nil /\ tx[w].n < MaxSteps

\* Seeded fault: a rejected approval is passed like an approved one.
Onward_Next(w, s) == Step(s).next

\* Where a step that succeeded before leads to.
Onward(w, s) ==
    IF Step(s).type = "approval" /\ ApprovalSeen(w, s) = "rejected"
    THEN Step(s).onReject ELSE Step(s).next

\* Seeded faults: a step that succeeded before is executed again; a
\* communication is.
PassedBefore_Never(w, s) == FALSE
PassedBefore_NotSent(w, s) ==
    Succeeded(w, s) /\ Step(s).type \notin {"branch", "send-communication"}

\* The step succeeded on an earlier pass and is not a branch.
PassedBefore(w, s) == Succeeded(w, s) /\ Step(s).type # "branch"

Skip(w) ==
    LET s == tx[w].at
    IN  /\ InLoop(w)
        /\ PassedBefore(w, s)
        /\ IF Step(s).type = "approval" /\ ApprovalSeen(w, s) = "pending"
           THEN tx' = [tx EXCEPT ![w].pc = "record", ![w].plan = "await"]
           ELSE IF Step(s).type = "approval" /\ ApprovalSeen(w, s) = "rejected"
                      /\ Step(s).onReject = Nil
           THEN tx' = [tx EXCEPT ![w].pc = "record", ![w].plan = "close-rejected"]
           ELSE tx' = [tx EXCEPT ![w].at = Onward(w, s)]
        /\ Keep

\* Does the call do things, rather than describe them?
Wet == ~run.dry

\* executeStep, up to its outcome.  A communication goes out here and now;
\* what the step writes to the database is counted when it is recorded.
Execute(w) ==
    LET s == tx[w].at
    IN  /\ InLoop(w)
        /\ ~PassedBefore(w, s)
        /\ \E plan \in (Step(s).may \ {"sql-error"})
                          \cup (IF Step(s).optional THEN {"skipped"} ELSE {}) :
              /\ plan = "partial" => Wet /\ Step(s).type = "ai-capability"
              /\ tx' = [tx EXCEPT ![w].pc = "record", ![w].plan = plan]
              /\ effects' = IF Wet /\ plan = "succeeded" /\ Step(s).type = "send-communication"
                            THEN [effects EXCEPT ![s] = More(@)] ELSE effects
        /\ UNCHANGED <<definition, run, rows, approvals, yes, deciding, mishaps>>

Transactional == {"ai-capability", "create-task", "update-field", "emit-event"}

\* recordStep: INSERT .. ON CONFLICT (run, step, sequence) DO NOTHING.
Recorded(w, status) ==
    LET t == tx[w]
    IN  IF \E r \in RowsSeen(w) : r.step = t.at /\ r.seq = t.n THEN t.rows
        ELSE t.rows \cup {[step |-> t.at, seq |-> t.n, status |-> status]}

\* Did the step fail, whatever it left behind?  executeStep catches the error
\* and no savepoint is set: what an ai-capability step has written before it
\* (the invocation, the first proposals) is kept.
Failures == {"failed", "partial"}

\* Does the plan of w end in an UPDATE of workflow_runs?
TouchesRun(w) ==
    /\ tx[w].plan # "skipped"
    /\ ~(tx[w].plan \in Failures /\ Step(tx[w].at).onError # Nil)

MayWrite(w) ==
    /\ TouchesRun(w) => RunFree(w)
    /\ tx[w].plan \in Failures \cup {"succeeded", "skipped"} => RowFree(w, tx[w].at, tx[w].n)
    /\ tx[w].plan = "succeeded" /\ Step(tx[w].at).type = "approval" => ApprovalFree(w, tx[w].at)

\* The call is over: how it leaves the run, and what it returns.
Finish(t, row) == [t EXCEPT !.pc = "commit", !.run = row, !.outcome = row.status]

\* The run row as a step that succeeded leaves it, the next step being to.
AfterSuccess(w, to) ==
    LET s == tx[w].at
        row == RunSeen(w)
        t == [tx[w] EXCEPT !.rows = Recorded(w, "succeeded"), !.n = @ + 1, !.plan = "none",
                  !.done[s] = IF Wet /\ Step(s).type \in Transactional THEN More(@) ELSE @]
    IN  CASE Wet /\ Step(s).type = "delay" ->
               Finish(t, [row EXCEPT !.status = "waiting", !.step = s, !.due = FALSE])
          [] Wet /\ Step(s).type = "approval" ->
               Finish([t EXCEPT !.asked = @ \cup {s}],
                      [row EXCEPT !.status = "awaiting-approval", !.step = s, !.due = TRUE])
          [] Step(s).type = "end" ->
               Finish(t, [row EXCEPT !.status = "completed", !.step = s])
          [] OTHER ->
               [t EXCEPT !.pc = "look", !.at = to, !.run = [row EXCEPT !.step = to]]

\* Seeded fault: a failure that has left something behind is not recorded.
AfterFailure_Silent(w) ==
    [tx[w] EXCEPT !.plan = "none", !.n = @ + 1,
        !.rows = IF tx[w].plan = "failed" THEN Recorded(w, "failed") ELSE @,
        !.done[tx[w].at] = IF tx[w].plan = "partial" THEN More(@) ELSE @]

\* The call as a step that failed leaves it.
AfterFailure(w) ==
    [tx[w] EXCEPT !.plan = "none", !.n = @ + 1, !.rows = Recorded(w, "failed"),
        !.done[tx[w].at] = IF tx[w].plan = "partial" THEN More(@) ELSE @]

\* What follows executeStep, or a decision that writes the run row.
Record(w) ==
    LET t == tx[w]
        s == t.at
        row == RunSeen(w)
    IN  /\ t.pc = "record"
        /\ MayWrite(w)
        /\ \/ /\ t.plan = "succeeded"
              /\ \E to \in IF Step(s).type = "branch" THEN Step(s).targets ELSE {Step(s).next} :
                    tx' = [tx EXCEPT ![w] = AfterSuccess(w, to)]
           \/ /\ t.plan = "skipped"
              /\ tx' = [tx EXCEPT ![w] = [t EXCEPT !.pc = "look", !.plan = "none", !.n = @ + 1,
                           !.rows = Recorded(w, "skipped"), !.at = Step(s).next]]
           \/ /\ t.plan \in Failures /\ Step(s).onError # Nil
              /\ tx' = [tx EXCEPT ![w] =
                           [AfterFailure(w) EXCEPT !.pc = "look", !.at = Step(s).onError]]
           \/ /\ t.plan \in Failures /\ Step(s).onError = Nil
              /\ tx' = [tx EXCEPT ![w] =
                           Finish(AfterFailure(w), [row EXCEPT !.status = "failed"])]
           \/ /\ t.plan = "await"
              /\ tx' = [tx EXCEPT ![w] =
                           Finish(t, [row EXCEPT !.status = "awaiting-approval", !.step = s])]
           \/ /\ t.plan = "close-rejected"
              /\ tx' = [tx EXCEPT ![w] = Finish(t, [row EXCEPT !.status = "completed"])]
           \/ /\ t.plan = "budget"
              /\ tx' = [tx EXCEPT ![w] = Finish(t, [row EXCEPT !.status = "failed"])]
        /\ Keep

\* COMMIT: the private writes become the tables'.
Commit(w) ==
    /\ tx[w].pc = "commit"
    /\ run' = RunSeen(w)
    /\ rows' = RowsSeen(w)
    /\ approvals' = [s \in Steps |-> ApprovalSeen(w, s)]
    /\ effects' = [s \in Steps |-> Times2(effects[s], tx[w].done[s])]
    /\ tx' = [tx EXCEPT ![w] = Idle]
    /\ UNCHANGED <<definition, yes, deciding, mishaps>>

\* The process dies, or the statement timeout strikes: ROLLBACK.
RollBack(w) ==
    /\ tx[w].pc # "idle"
    /\ mishaps < MaxMishaps
    /\ mishaps' = mishaps + 1
    /\ tx' = [tx EXCEPT ![w] = Idle]
    /\ UNCHANGED <<definition, run, rows, approvals, effects, yes, deciding>>

\* An SQL statement of the step fails.  executeStep catches the error, but the
\* transaction is aborted: recordStep throws, and withTenant rolls back.
SqlError(w) ==
    /\ InLoop(w) /\ Wet
    /\ ~PassedBefore(w, tx[w].at)
    /\ "sql-error" \in Step(tx[w].at).may
    /\ tx' = [tx EXCEPT ![w] = Idle]
    /\ Keep

-----------------------------------------------------------------------------
(* decideApproval. *)

\* SELECT, and the check that the approval is still pending.
DecideRead(d, s) ==
    /\ deciding[d] = Nil
    /\ approvals[s] = "pending"
    /\ deciding' = [deciding EXCEPT ![d] = s]
    /\ UNCHANGED <<definition, run, rows, approvals, effects, yes, tx, mishaps>>

\* Seeded faults: the run gets the approval's status; it is set back to the
\* approval's step.
DecideWrite_Status(d, decision) ==
    LET s == deciding[d]
    IN  /\ s # Nil
        /\ \A w \in Workers : tx[w].run = NoRun /\ s \notin tx[w].asked
        /\ approvals' = [approvals EXCEPT ![s] = decision]
        /\ yes' = IF decision = "approved" THEN yes \cup {s} ELSE yes
        /\ run' = [run EXCEPT !.status = decision]
        /\ deciding' = [deciding EXCEPT ![d] = Nil]
        /\ UNCHANGED <<definition, rows, effects, tx, mishaps>>

DecideWrite_Back(d, decision) ==
    LET s == deciding[d]
    IN  /\ s # Nil
        /\ \A w \in Workers : tx[w].run = NoRun /\ s \notin tx[w].asked
        /\ approvals' = [approvals EXCEPT ![s] = decision]
        /\ yes' = IF decision = "approved" THEN yes \cup {s} ELSE yes
        /\ run' = [run EXCEPT !.status = "running", !.step = s]
        /\ deciding' = [deciding EXCEPT ![d] = Nil]
        /\ UNCHANGED <<definition, rows, effects, tx, mishaps>>

\* The two UPDATEs, which name the rows by their ids alone, and the COMMIT.
DecideWrite(d, decision) ==
    LET s == deciding[d]
    IN  /\ s # Nil
        /\ \A w \in Workers : tx[w].run = NoRun /\ s \notin tx[w].asked
        /\ approvals' = [approvals EXCEPT ![s] = decision]
        /\ yes' = IF decision = "approved" THEN yes \cup {s} ELSE yes
        /\ run' = [run EXCEPT !.status = "running"]
        /\ deciding' = [deciding EXCEPT ![d] = Nil]
        /\ UNCHANGED <<definition, rows, effects, tx, mishaps>>

\* The permission is missing, a rejection has no note, the process dies.
DecideFails(d) ==
    /\ deciding[d] # Nil
    /\ deciding' = [deciding EXCEPT ![d] = Nil]
    /\ UNCHANGED <<definition, run, rows, approvals, effects, yes, tx, mishaps>>

-----------------------------------------------------------------------------
\* resume_at passes.
Resume ==
    /\ run.status = "waiting" /\ ~run.due
    /\ \A w \in Workers : tx[w].run = NoRun
    /\ run' = [run EXCEPT !.due = TRUE]
    /\ UNCHANGED <<definition, rows, approvals, effects, yes, tx, deciding, mishaps>>

Advance(w) ==
    Begin(w) \/ LeaveLoop(w) \/ Skip(w) \/ Execute(w) \/ Record(w) \/ Commit(w) \/ SqlError(w)

Decide(d) ==
    \/ \E s \in Steps : DecideRead(d, s)
    \/ \E decision \in Decisions : DecideWrite(d, decision)

Next ==
    \/ \E w \in Workers : Advance(w) \/ RollBack(w)
    \/ \E d \in Deciders : Decide(d) \/ DecideFails(d)
    \/ Resume

Spec == Init /\ [][Next]_vars

(***************************************************************************)
(* The scheduler calls advanceRun again and again for every run that is    *)
(* not over (a call that began goes on), time passes, and a person who is  *)
(* asked decides in the end.                                               *)
(***************************************************************************)
Fairness ==
    /\ \A w \in Workers : WF_vars(Advance(w))
    /\ \A d \in Deciders : SF_vars(\E decision \in Decisions : DecideWrite(d, decision))
    /\ \A d \in Deciders : WF_vars(Decide(d))
    /\ WF_vars(Resume)

FairSpec == Spec /\ Fairness

-----------------------------------------------------------------------------
(* Properties. *)

\* Where d may lead from step k while nobody has said "yes" to approval a.
WithoutYes(d, a, k) ==
    IF k = a THEN {d.steps[a].onError, d.steps[a].onReject} \ {Nil} ELSE Targets(d, k)

\* Sets of steps that hold the start and everything their steps may lead to
\* without a "yes" to a.
Before(d, a) ==
    {R \in SUBSET (DOMAIN d.steps) :
        d.start \in R /\ \A k \in R : WithoutYes(d, a, k) \subseteq R}

\* The steps of d only reached through the "next" of approval a.
GuardedBy(d, a) == UNION {DOMAIN d.steps \ R : R \in Before(d, a)}

Guards(d) == {a \in DOMAIN d.steps : d.steps[a].type = "approval" /\ ~d.steps[a].optional}

Guarded == [d \in Definitions |-> [a \in Guards(d) |-> GuardedBy(d, a)]]

\* What an approval guards happens only once a person has approved: not while
\* the question is open, not after a rejection, not on a resumed, repeated or
\* concurrent call.  (Two people may both decide, engine.ts:552; that one of
\* them has said yes is what counts.)
GuardedNeedsApproval ==
    \A a \in Guards(definition) : \A g \in Guarded[definition][a] :
        effects[g] > 0 => a \in yes

\* Is a success of step s on record?
OnRecord(s) == \E r \in rows : r.step = s /\ r.status = "succeeded"

\* A step of which every record is that of a success.
Settled(s) == ~Step(s).optional /\ Step(s).may \cap Failures = {}

\* What the database holds of a step is what the step record says, however many
\* drains drive the run, fail halfway and are rolled back: what is recorded as
\* done has been done; what has been done, or was begun by a step that failed
\* midway, has its record, which for a step that cannot fail is a success.
EffectsRecorded ==
    Wet => \A s \in Steps : Step(s).type \in Transactional =>
        /\ OnRecord(s) => effects[s] > 0
        /\ effects[s] > 0 => \E r \in rows : r.step = s
        /\ effects[s] > 0 /\ Settled(s) => OnRecord(s)

\* A dry run does nothing at all: it performs, asks and awaits nothing.
DryRunDoesNothing ==
    run.dry => /\ \A s \in Steps : effects[s] = 0 /\ approvals[s] = "none"
               /\ run.status \notin {"waiting", "awaiting-approval"}

\* What is on record of a step is what was done of it: all of it in a run that
\* is driven for real, and nothing in a dry one, which only describes.
EffectsHonest == EffectsRecorded /\ DryRunDoesNothing

\* Drain w has found step s not to have succeeded, and has not committed since.
InvolvedIn(w, s) ==
    \/ tx[w].done[s] > 0
    \/ tx[w].pc = "record" /\ tx[w].at = s /\ tx[w].plan \in {"succeeded", "partial"}

\* Step s has succeeded and every call that looked before it had is over.
Done(s) ==
    OnRecord(s) /\ Step(s).type # "branch" /\ \A w \in Workers : ~InvolvedIn(w, s)

\* A step that is done stays done and has its effect, or is sent, no further
\* time: drains that overlap may each do a step, and a rollback may repeat a
\* communication, but never a call that looks once the success is on record.
DoneOnce == [][\A s \in Steps : Done(s) => Done(s)' /\ effects'[s] = effects[s]]_vars

\* A run that awaits an approval awaits one that somebody can still decide:
\* otherwise it would never move again.
AwaitsSomebody ==
    run.status = "awaiting-approval" => approvals[run.step] = "pending"

\* What advanceRun tells its caller is what it leaves in the table.
ReportedIsRecorded ==
    \A w \in Workers : tx[w].pc = "commit" => RunSeen(w).status = tx[w].outcome

\* A run's status is one somebody can act on, and the one its caller was told.
StatusHonest == AwaitsSomebody /\ ReportedIsRecorded

\* The call of drain w has done nothing since it started at the run's end.
AtEnd(w) ==
    \/ tx[w].pc = "idle"
    \/ /\ tx[w].pc \in {"look", "commit"}
       /\ tx[w].at \in {run.step, Nil} /\ tx[w].n = 0
       /\ tx[w].run = NoRun /\ tx[w].rows = {} /\ tx[w].asked = {}
       /\ \A s \in Steps : tx[w].done[s] = 0

\* The run has come to an end step, from which nothing leads on, and no other
\* call is still at work on it.
Ended ==
    /\ run.step \in Steps
    /\ Step(run.step).type = "end" /\ Step(run.step).next = Nil
    /\ OnRecord(run.step)
    /\ \A w \in Workers : AtEnd(w)

\* A run that has ended does nothing more.  A person who read an approval before
\* somebody else decided it may still decide it, which sets the run running
\* (engine.ts:552), and drains will drive it again: whatever the late decision
\* says, no step is taken on it and nobody is asked.
EndIsEnd == [][Ended => /\ Ended' /\ rows' = rows /\ effects' = effects
                        /\ \A s \in Steps : approvals[s] = "none" => approvals'[s] = "none"]_vars

\* Every call comes to an end.
CallReturns == \A w \in Workers : tx[w].pc # "idle" ~> tx[w].pc = "idle"

\* Every run is over in the end: it does not stop halfway.
RunEnds == <>(run.status \in Final)

\* Neither a call nor the run goes on for ever or stops halfway.
EverythingEnds == CallReturns /\ RunEnds

=============================================================================
