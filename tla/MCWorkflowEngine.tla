-------------------------- MODULE MCWorkflowEngine --------------------------
(* Workflow definitions and small instances of WorkflowEngine for TLC. *)
EXTENDS WorkflowEngine, TLC

CONSTANTS w1, w2, d1, d2

\* A step as parseWorkflowDefinition fills it in: no onError, nothing optional.
Plain(type, next) ==
    [type |-> type, next |-> next, onError |-> Nil, onReject |-> Nil, targets |-> {},
     optional |-> FALSE, may |-> {"succeeded"}]

\* Fallible: it may also fail.
Fallible(type, next, onError) ==
    [Plain(type, next) EXCEPT !.onError = onError, !.may = {"succeeded", "failed"}]

\* It may fail with some of its writes kept.
Midway(step) == [step EXCEPT !.may = @ \cup {"partial"}]

Branch(targets) == [Plain("branch", Nil) EXCEPT !.targets = targets]

Approval(next, onReject) == [Plain("approval", next) EXCEPT !.onReject = onReject]

\* BANK_DATA_RECEIVED of templates.ts.
BankDataReceived ==
    [start |-> "analyse", maxSteps |-> 20, steps |->
        ("analyse" :> Midway(Fallible("ai-capability", "material-differences", "notify-failure"))) @@
        ("material-differences" :> Branch({"raise-task", "no-action"})) @@
        ("raise-task" :> Plain("create-task", "await-decision")) @@
        ("await-decision" :> Approval("record-change", "record-no-change")) @@
        ("record-change" :> Plain("emit-event", "done")) @@
        ("record-no-change" :> Plain("emit-event", "done")) @@
        ("notify-failure" :> Plain("create-task", "done")) @@
        ("no-action" :> Plain("end", Nil)) @@
        ("done" :> Plain("end", Nil))]

\* REVIEW_DUE of templates.ts.
ReviewDue ==
    [start |-> "invite", maxSteps |-> 30, steps |->
        ("invite" :> Fallible("send-communication", "wait-a-week", "raise-manual-task")) @@
        ("wait-a-week" :> Plain("delay", "check-response")) @@
        ("check-response" :> Branch({"done", "remind"})) @@
        ("remind" :> Fallible("send-communication", "wait-again", "raise-manual-task")) @@
        ("wait-again" :> Plain("delay", "raise-manual-task")) @@
        ("raise-manual-task" :> Plain("create-task", "done")) @@
        ("done" :> Plain("end", Nil))]

\* Definitions parseWorkflowDefinition accepts and no template has.

\* A regulated field is to change: a proposal (it fails when the case has no AI
\* invocation to refer to), a confirmation, an announcement where one is due.
FieldChange ==
    [start |-> "propose", maxSteps |-> 10, steps |->
        ("propose" :> Fallible("update-field", "confirm", Nil)) @@
        ("confirm" :> Approval("announce", Nil)) @@
        ("announce" :> [Plain("emit-event", "note") EXCEPT !.optional = TRUE]) @@
        ("note" :> [Plain("create-task", "done") EXCEPT !.may = {"succeeded", "sql-error"}]) @@
        ("done" :> Plain("end", Nil))]

\* A task, then the sign-off of what follows.
SignOff ==
    [start |-> "task", maxSteps |-> 10, steps |->
        ("task" :> Plain("create-task", "sign-off")) @@
        ("sign-off" :> Approval("announce", "done")) @@
        ("announce" :> Plain("emit-event", "done")) @@
        ("done" :> Plain("end", Nil))]

\* An analysis that is tried again until it succeeds.
Retried ==
    [start |-> "analyse", maxSteps |-> 10, steps |->
        ("analyse" :> Midway(Fallible("ai-capability", "announce", "wait"))) @@
        ("wait" :> Plain("delay", "analyse")) @@
        ("announce" :> Plain("emit-event", "done")) @@
        ("done" :> Plain("end", Nil))]

\* "Remind every week until the client has answered."
Poll ==
    [start |-> "wait-a-week", maxSteps |-> 10, steps |->
        ("wait-a-week" :> Plain("delay", "remind")) @@
        ("remind" :> Plain("send-communication", "answered")) @@
        ("answered" :> Branch({"wait-a-week", "done"})) @@
        ("done" :> Plain("end", Nil))]

\* Two steps that lead to each other; the only way out is an error.
Circle ==
    [start |-> "analyse", maxSteps |-> 10, steps |->
        ("analyse" :> Fallible("ai-capability", "announce", "done")) @@
        ("announce" :> Plain("emit-event", "analyse")) @@
        ("done" :> Plain("end", Nil))]

\* What the runs start from.
Templates == {BankDataReceived, ReviewDue, Poll}
Contended == {BankDataReceived, ReviewDue, FieldChange, Retried}
OnlySignOff == {SignOff}
OnlyCircle == {Circle}
=============================================================================
