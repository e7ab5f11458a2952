------------------------------- MODULE MCFirm -------------------------------
(***************************************************************************)
(* What goes on in a firm at once: small instances of Sessions, ApiKeys,   *)
(* WebhookDelivery and Assistance (who and what gets in and out), and of   *)
(* CaseOpening, CaseFile and Migration (work on case files).  They share   *)
(* no state; a behaviour is one of one of them, chosen at the start.       *)
(* Assistance is extended, so its names stand here unqualified.            *)
(***************************************************************************)
EXTENDS Assistance

CONSTANTS
    Users, Operators, Enrolled, Required, Attempts, SessionIds, MaxFailures,
    Keys, Limit, Calls,
    Endpoints, Events, Senders, MaxAttempts, FailingAt, DisabledAt,
    Openers, MaxNumber,
    Savers, Members, MaxVersions, MaxMishaps,
    Ids, Plans, MaxRecords, MaxRuns, NoId, Unplanned

VARIABLES
    user, session, attempt, guesses,
    key, used, call, admitted, lost,
    endpoint, delivery, sender,
    given, opening, refused,
    household, statements, decisions, page, tx, mishaps,
    plan, source, target, runs, run,
    part

\* Of these facts ieDiscrepancy may see one and duplicateDebt the other; one person may
\* decide what is regulated, the other may not.
CaseFacts == {<<"sfs", "lines">>, <<"debt", "list">>}
Team == [ada |-> {"adviser"}, ben |-> {"caseAdministrator"}]

\* A plan that is in order, one that forgets the debts, and two that would orphan records.
SomePlans == {<<"client", "case", "debt">>, <<"client", "case">>, <<"case", "client">>, <<"client", "debt">>}

\* One record stands for all that nobody planned for: no run reads them.
OneRecord == {[id |-> NoId, kind |-> "good", refers |-> CHOOSE i \in Ids : TRUE]}

S == INSTANCE Sessions
K == INSTANCE ApiKeys
W == INSTANCE WebhookDelivery
O == INSTANCE CaseOpening WITH Callers <- Openers
F == INSTANCE CaseFile WITH People <- Savers
M == INSTANCE Migration

\* The limits are limits, and Nil is none of the rows.
ASSUME FirmAssumption ==
    /\ WellConfigured
    /\ MaxFailures \in Nat \ {0} /\ IsFiniteSet(Attempts) /\ Operators \subseteq Users
    /\ Nil \notin S!Session /\ Nil \notin [user: Users, seen: S!Account]
    /\ Limit \in Nat /\ IsFiniteSet(Calls) /\ Calls # {}
    /\ MaxAttempts \in Nat \ {0} /\ FailingAt \in Nat \ {0} /\ DisabledAt \in Nat \ {0}
    /\ Nil \notin Endpoints \X Events
    /\ Nil \notin [status: {"pending", "delivered", "abandoned"}, attempt: 0 .. MaxAttempts]

\* Work is done by finitely many people at once, under the bounds, on plans of what there is.
ASSUME WorkAssumption ==
    /\ IsFiniteSet(Openers) /\ MaxNumber \in Nat
    /\ IsFiniteSet(Savers) /\ MaxVersions \in Nat /\ MaxMishaps \in Nat
    /\ Plans \subseteq Seq(M!Entities) /\ NoId \notin Ids /\ MaxRuns \in Nat
    /\ Unplanned \subseteq M!SourceRecord

ofSessions == <<user, session, attempt, guesses>>
ofKeys == <<key, used, call, admitted, lost>>
ofWebhooks == <<endpoint, delivery, sender>>
ofOpening == <<given, opening, refused>>
ofFile == <<household, statements, decisions, page, tx, mishaps>>
ofMigration == <<plan, source, target, runs, run>>
ofFirm == <<vars, ofSessions, ofKeys, ofWebhooks, ofOpening, ofFile, ofMigration, part>>

Unmigrated ==
    /\ plan = << >> /\ source = << >> /\ target = {} /\ runs = << >> /\ run = M!Fresh

FirmInit ==
    /\ Init /\ S!Init /\ K!Init /\ W!Init /\ O!Init /\ F!Init
    /\ part \in {"assistance", "sessions", "keys", "webhooks", "opening", "saving", "migration"}
    /\ IF part = "migration" THEN M!Init ELSE Unmigrated

FirmNext ==
    /\ UNCHANGED part
    /\ IF part = "assistance" THEN Next ELSE UNCHANGED vars
    /\ IF part = "sessions" THEN S!Next ELSE UNCHANGED ofSessions
    /\ IF part = "keys" THEN K!Next ELSE UNCHANGED ofKeys
    /\ IF part = "webhooks" THEN W!Next ELSE UNCHANGED ofWebhooks
    /\ IF part = "opening" THEN O!Next ELSE UNCHANGED ofOpening
    /\ IF part = "saving" THEN F!Next ELSE UNCHANGED ofFile
    /\ IF part = "migration" THEN M!Next ELSE UNCHANGED ofMigration

FirmSpec == FirmInit /\ [][FirmNext]_ofFirm

(* The variables of the components have their types. *)
FirmTypeOK ==
    /\ TypeOK /\ S!TypeOK /\ K!TypeOK /\ W!TypeOK /\ O!TypeOK /\ F!TypeOK
    /\ part = "migration" => M!TypeOK

(* See Sessions, of the guesses at an account, ApiKeys, of the requests of a *)
(* key, and WebhookDelivery, of the attempts at a delivery.                  *)
LimitsHold == S!LockoutBounded /\ K!RateBounded /\ W!RetriesEnd

(* See Sessions. *)
DeadStaysDead == [][S!NotRevived]_ofSessions

(* See Assistance: what a model is sent, which capabilities a firm has opted *)
(* into, and who decides on what a model suggests.                           *)
AssistanceKept == Accounted /\ OptedIn /\ RegulatedByPeople

(* The locks of statement-entry.ts and open-case.ts are enough and not too   *)
(* many: they make requests wait so that no unique index turns one away, and *)
(* somebody can always go on.  See CaseFile and CaseOpening.                 *)
LocksSuffice ==
    /\ F!SavesLand /\ O!NeverCollides
    /\ part = "saving" => F!SomebodyProceeds
    /\ part = "opening" => O!SomebodyProceeds

(* See CaseFile. *)
Implements == F!Implements

(* See Migration. *)
BalancedIsComplete == part = "migration" => M!BalancedIsComplete

(* See Migration. *)
EveryRecordCounted == part = "migration" => M!EveryRecordCounted
=============================================================================
