-------------------------- MODULE VulnerabilityGate --------------------------
(***************************************************************************)
(* What may be written down about a client's vulnerability, and by whom:   *)
(* packages/core/src/case-file/vulnerability.ts and consent.ts, the AI     *)
(* proposal gate (decideProposal of packages/ai/src/proposals.ts with the  *)
(* trigger of 0011_ai_layer.sql) and decideAndApply of                     *)
(* apps/web/lib/console/apply-proposal.ts, which spreads one acceptance    *)
(* over several transactions.                                              *)
(*                                                                         *)
(* A transaction that reads and later writes (READ COMMITTED, no row lock) *)
(* is two actions: what it read is kept in the task of the person who      *)
(* called it.  Wording, severity and the other details are left out.       *)
(***************************************************************************)
EXTENDS Naturals, FiniteSets

CONSTANTS
    Clients, Consents, Records, Proposals,   \* row identities
    People,       \* members of staff, each working on one thing at a time
    MayAccept,    \* those whose role has ai:accept_proposal
    MayRecord,    \* those whose role has vulnerability:write
    Client,       \* Proposals -> Clients, the client_id of a proposal
    Signal,       \* Proposals -> Signals, what is proposed
    MaxMishaps,   \* bound: requests that die half-way
    Nil

Drivers == {"health", "another"}

\* driver: "none" when there is nothing to write in this register.  flag: the
\* model says requiresConsentBeforeRecording.
Signals == [driver: Drivers \cup {"none"}, flag: BOOLEAN]

ASSUME GateAssumption ==
    /\ MayAccept \subseteq People /\ MayRecord \subseteq People
    /\ Client \in [Proposals -> Clients] /\ Signal \in [Proposals -> Signals]
    /\ Nil \notin Clients \cup Consents \cup Records \cup Proposals \cup People
    /\ MaxMishaps \in Nat

VARIABLES
    consents,    \* the consents table
    records,     \* the vulnerability_records table
    proposals,   \* the ai_proposals table
    task,        \* per person, the request under way
    mishaps      \* requests that died, bounded by MaxMishaps

vars == <<consents, records, proposals, task, mishaps>>

\* permits: granted, with an Article 9 condition.  ended: withdrawn or expired.
Consent == [client: Clients \cup {Nil}, permits: BOOLEAN, ended: BOOLEAN]
NoConsent == [client |-> Nil, permits |-> FALSE, ended |-> FALSE]

Closed == {"resolved", "superseded", "withdrawn"}

\* none: driver 'none', an assessment that found nothing.
Record == [status: {"absent", "active"} \cup Closed, client: Clients \cup {Nil}, none: BOOLEAN,
           special: BOOLEAN, consent: Consents \cup {Nil}, source: Proposals \cup {Nil}]
NoRecord == [status |-> "absent", client |-> Nil, none |-> FALSE, special |-> FALSE,
             consent |-> Nil, source |-> Nil]

Decisions == {"accepted", "modified", "rejected"}
Proposal == [status: {"pending"} \cup Decisions, by: People \cup {Nil}, target: Records \cup {Nil}]

Idle ==
    [pc |-> "idle", proposal |-> Nil, decision |-> "none", client |-> Nil,
     writes |-> FALSE, special |-> FALSE, consent |-> Nil, record |-> Nil, before |-> NoRecord,
     decided |-> FALSE]

Task == [pc: {"idle", "decide", "decide-write", "record", "insert", "insert-none", "link", "amend"},
         proposal: Proposals \cup {Nil}, decision: Decisions \cup {"none"},
         client: Clients \cup {Nil}, writes: BOOLEAN, special: BOOLEAN, consent: Consents \cup {Nil},
         record: Records \cup {Nil}, before: Record, decided: BOOLEAN]

TypeOK ==
    /\ consents \in [Consents -> Consent]
    /\ records \in [Records -> Record]
    /\ proposals \in [Proposals -> Proposal]
    /\ task \in [People -> Task]
    /\ mishaps \in 0 .. MaxMishaps

Init ==
    /\ consents = [k \in Consents |-> NoConsent]
    /\ records = [r \in Records |-> NoRecord]
    /\ proposals = [p \in Proposals |-> [status |-> "pending", by |-> Nil, target |-> Nil]]
    /\ task = [a \in People |-> Idle]
    /\ mishaps = 0

\* The request of a is over: done, or refused with an error.
Done(a) == task' = [task EXCEPT ![a] = Idle]

-----------------------------------------------------------------------------
(* consent.ts *)

CaptureConsent(k, c) ==
    /\ consents[k] = NoConsent
    /\ \E permits \in BOOLEAN :
          consents' = [consents EXCEPT ![k] = [client |-> c, permits |-> permits, ended |-> FALSE]]
    /\ UNCHANGED <<records, proposals, task, mishaps>>

\* withdrawConsent, or expires_at passes.
EndConsent(k) ==
    /\ consents[k] # NoConsent /\ ~consents[k].ended
    /\ consents' = [consents EXCEPT ![k].ended = TRUE]
    /\ UNCHANGED <<records, proposals, task, mishaps>>

\* Seeded fault: the consent of another client will do.
Permitting_Anybody(c, named) ==
    {k \in Consents : /\ consents[k].permits /\ ~consents[k].ended
                      /\ named \in {Nil, k}}

\* consentPermittingSpecialCategory: a consent of the client that was granted,
\* has not ended and names an Article 9 condition; the named one, if any is.
Permitting(c, named) ==
    {k \in Consents : /\ consents[k].client = c
                      /\ consents[k].permits /\ ~consents[k].ended
                      /\ named \in {Nil, k}}

-----------------------------------------------------------------------------
(* vulnerability.ts *)

ActiveNone(c) == {r \in Records : records[r].status = "active" /\ records[r].client = c
                                  /\ records[r].none}
ActiveFound(c) == {r \in Records : records[r].status = "active" /\ records[r].client = c
                                   /\ ~records[r].none}

\* The first half of recordVulnerability, for task t: permission and consent.
MayInsert(a, t) == IF t.special THEN Permitting(t.client, t.consent) ELSE {Nil}

\* An adviser records a vulnerability directly.
RecordDirectly(a, c, special, named) ==
    LET t == [Idle EXCEPT !.client = c, !.special = special, !.consent = named]
    IN  /\ task[a].pc = "idle" /\ a \in MayRecord
        /\ special \/ named = Nil
        /\ \E k \in MayInsert(a, t) :
              task' = [task EXCEPT ![a] = [t EXCEPT !.pc = "insert", !.consent = k]]
        /\ UNCHANGED <<consents, records, proposals, mishaps>>

\* The second half: what found nothing is superseded, the new row is inserted.
Insert(a, r) ==
    LET t == task[a]
    IN  /\ t.pc = "insert" /\ records[r].status = "absent"
        /\ records' = [x \in Records |->
              IF x = r THEN [status |-> "active", client |-> t.client, none |-> FALSE,
                             special |-> t.special, consent |-> t.consent, source |-> t.proposal]
              ELSE IF x \in ActiveNone(t.client) THEN [records[x] EXCEPT !.status = "superseded"]
              ELSE records[x]]
        /\ IF t.proposal = Nil THEN Done(a)
           ELSE task' = [task EXCEPT ![a].pc = "link", ![a].record = r]
        /\ UNCHANGED <<consents, proposals, mishaps>>

\* recordNoIndicators: nothing active, neither a finding nor an assessment.
NoIndicators(a, c) ==
    /\ task[a].pc = "idle" /\ a \in MayRecord
    /\ ActiveFound(c) = {} /\ ActiveNone(c) = {}
    /\ task' = [task EXCEPT ![a] = [Idle EXCEPT !.pc = "insert-none", !.client = c]]
    /\ UNCHANGED <<consents, records, proposals, mishaps>>

IndexAllows(c) == ActiveNone(c) = {}

InsertNone(a, r) ==
    LET c == task[a].client
    IN  /\ task[a].pc = "insert-none" /\ records[r].status = "absent"
        /\ IF IndexAllows(c)
           THEN /\ records' = [records EXCEPT ![r] =
                      [NoRecord EXCEPT !.status = "active", !.client = c, !.none = TRUE]]
                /\ Done(a)
           ELSE Done(a) /\ UNCHANGED records
        /\ UNCHANGED <<consents, proposals, mishaps>>

\* requireConsent, whenever the record is special; another's is unchecked.
AmendAllows(before, k) == before.special => Permitting(before.client, k) # {}

\* amendVulnerability: the whole row is loaded ...
Amend(a, r, named) ==
    LET before == records[r]
        k == IF named = Nil THEN before.consent ELSE named
    IN  /\ task[a].pc = "idle" /\ a \in MayRecord
        /\ before.status # "absent"
        /\ AmendAllows(before, k)
        /\ task' = [task EXCEPT ![a] = [Idle EXCEPT
                       !.pc = "amend", !.record = r, !.consent = k, !.before = before]]
        /\ UNCHANGED <<consents, records, proposals, mishaps>>

\* Seeded fault: the status loaded is written back with the rest.
AmendWrite_Status(a) ==
    LET t == task[a]
    IN  /\ t.pc = "amend"
        /\ records' = [records EXCEPT ![t.record].consent = t.consent,
                                      ![t.record].status = t.before.status]
        /\ Done(a)
        /\ UNCHANGED <<consents, proposals, mishaps>>

\* ... and the columns a person may change are written back.
AmendWrite(a) ==
    LET t == task[a]
    IN  /\ t.pc = "amend"
        /\ records' = [records EXCEPT ![t.record].consent = t.consent]
        /\ Done(a)
        /\ UNCHANGED <<consents, proposals, mishaps>>

\* Seeded fault: a status the table does not know.
Close_Status(a, r, status) ==
    /\ task[a].pc = "idle" /\ a \in MayRecord
    /\ records[r].status # "absent"
    /\ records' = [records EXCEPT ![r].status = "closed"]
    /\ UNCHANGED <<consents, proposals, task, mishaps>>

\* closeVulnerability: whatever the status was.
Close(a, r, status) ==
    /\ task[a].pc = "idle" /\ a \in MayRecord
    /\ records[r].status # "absent"
    /\ records' = [records EXCEPT ![r].status = status]
    /\ UNCHANGED <<consents, proposals, task, mishaps>>

-----------------------------------------------------------------------------
(* decideAndApply *)

\* needsArticle9
Sensitive(signal) == signal.driver = "health" \/ signal.flag

\* What is to be applied: a person who modifies a signal changes its driver.
Applied(p, decision) ==
    IF decision = "modified" /\ Signal[p].driver # "none"
    THEN {[Signal[p] EXCEPT !.driver = driver] : driver \in Drivers} ELSE {Signal[p]}

\* Seeded fault: a rejected signal is written down as well.
HasWriter_Rejected(signal, decision) == signal.driver # "none"

\* Does the decision lead to a record?
HasWriter(signal, decision) == signal.driver # "none" /\ decision # "rejected"

\* Seeded fault: decide first, see about the consent later.
CheckedFirst_Not(signal, c, named) == TRUE

\* Check before deciding.
CheckedFirst(signal, c, named) == Sensitive(signal) => Permitting(c, named) # {}

\* The proposal is read and, if accepting it would write, the consent checked.
Apply(a, p, decision, named) ==
    /\ task[a].pc = "idle"
    /\ \E signal \in Applied(p, decision) :
          LET writes == HasWriter(signal, decision)
          IN  IF writes /\ ~CheckedFirst(signal, Client[p], named)
              THEN Done(a)
              ELSE task' = [task EXCEPT ![a] = [Idle EXCEPT
                               !.pc = "decide", !.proposal = p, !.decision = decision,
                               !.client = Client[p], !.writes = writes, !.consent = named,
                               !.special = (signal.driver = "health")]]
    /\ UNCHANGED <<consents, records, proposals, mishaps>>

\* decideProposal, up to the UPDATE.
Decide(a) ==
    LET t == task[a]
    IN  /\ t.pc = "decide"
        /\ IF proposals[t.proposal].status = "pending" /\ a \in MayAccept
           THEN task' = [task EXCEPT ![a].pc = "decide-write"]
           ELSE Done(a)
        /\ UNCHANGED <<consents, records, proposals, mishaps>>

\* Seeded fault: no trigger.
GuardAllows_Always(p, decision) == TRUE

\* The trigger ai_proposals_guard.
GuardAllows(p, decision) == proposals[p].status \in {"pending", decision}

DecideWrite(a) ==
    LET t == task[a]
        p == t.proposal
    IN  /\ t.pc = "decide-write"
        /\ IF GuardAllows(p, t.decision)
           THEN /\ proposals' = [proposals EXCEPT ![p].status = t.decision, ![p].by = a]
                /\ task' = [task EXCEPT ![a] =
                      IF t.writes
                      THEN [t EXCEPT !.pc = "record", !.decided = TRUE]
                      ELSE Idle]
           ELSE Done(a) /\ UNCHANGED proposals
        /\ UNCHANGED <<consents, records, mishaps>>

\* recordVulnerability on behalf of an accepted proposal.
RecordProposed(a) ==
    LET t == task[a]
    IN  /\ t.pc = "record"
        /\ \/ /\ a \in MayRecord
              /\ \E k \in MayInsert(a, t) :
                    task' = [task EXCEPT ![a].pc = "insert", ![a].consent = k]
           \/ /\ a \notin MayRecord \/ MayInsert(a, t) = {}
              /\ Done(a)
        /\ UNCHANGED <<consents, records, proposals, mishaps>>

\* Which suggestion became which record.
Link(a) ==
    LET t == task[a]
    IN  /\ t.pc = "link"
        /\ proposals' = [proposals EXCEPT ![t.proposal].target = t.record]
        /\ Done(a)
        /\ UNCHANGED <<consents, records, mishaps>>

\* The request dies: the transaction under way is rolled back, those before stay.
Die(a) ==
    /\ task[a].pc # "idle"
    /\ mishaps < MaxMishaps
    /\ mishaps' = mishaps + 1
    /\ Done(a)
    /\ UNCHANGED <<consents, records, proposals>>

-----------------------------------------------------------------------------
Direct(a) ==
    \/ \E c \in Clients, special \in BOOLEAN, named \in Consents \cup {Nil} :
          RecordDirectly(a, c, special, named)
    \/ \E c \in Clients : NoIndicators(a, c)
    \/ \E r \in Records : Insert(a, r) \/ InsertNone(a, r)
    \/ \E r \in Records, named \in Consents \cup {Nil} : Amend(a, r, named)
    \/ AmendWrite(a)
    \/ \E r \in Records, status \in {"resolved", "withdrawn"} : Close(a, r, status)

Proposed(a) ==
    \/ \E p \in Proposals, decision \in Decisions, named \in Consents \cup {Nil} :
          Apply(a, p, decision, named)
    \/ Decide(a) \/ DecideWrite(a) \/ RecordProposed(a) \/ Link(a)

Next ==
    \/ \E k \in Consents : EndConsent(k) \/ \E c \in Clients : CaptureConsent(k, c)
    \/ \E a \in People : Direct(a) \/ Proposed(a) \/ Die(a)

Spec == Init /\ [][Next]_vars

-----------------------------------------------------------------------------
(* Properties. *)

Accepted == {p \in Proposals : proposals[p].status \in {"accepted", "modified"}}
RecordsOf(p) == {r \in Records : records[r].source = p}
UnderWay(p) == \E a \in People : task[a].proposal = p /\ task[a].decided

\* Health information is only ever held under a consent of that very client
\* that was granted and names an Article 9 condition, also after amendments
\* that move the consent, and whoever accepted or recorded it.
SpecialHasConsent ==
    \A r \in Records : records[r].special =>
        LET k == records[r].consent
        IN  k # Nil /\ consents[k].client = records[r].client /\ consents[k].permits

\* No signal of a model is in the register unless a person decided that it
\* should be: not while it is pending, not after a rejection.
NothingUndecided ==
    \A p \in Proposals : RecordsOf(p) # {} => p \in Accepted

\* Whatever the register holds was both consented to and decided by a person.
RegisterJustified == SpecialHasConsent /\ NothingUndecided

\* Two people deciding at once never turn one decision into another.
DecisionStands ==
    [][\A p \in Proposals : proposals[p].status # "pending" =>
          proposals'[p].status = proposals[p].status]_vars

\* A signal that somebody accepted who may record is in the register, unless
\* the request died or a consent ended under it: decideAndApply checks, decides
\* and then writes.  (Whose role lacks vulnerability:write is refused the write
\* after the decision: of the role templates, the insolvency practitioner.)
AcceptedIsRecorded ==
    \A p \in Accepted :
        proposals[p].by \in MayRecord /\ Signal[p].driver # "none" /\ RecordsOf(p) = {} =>
            UnderWay(p) \/ mishaps > 0 \/ \E k \in Consents : consents[k].ended

\* A closed record is not opened again by an amendment that had loaded it
\* while it was open.
ClosedStaysClosed ==
    [][\A r \in Records : records[r].status \in Closed => records'[r].status \in Closed]_vars

\* The file does not assert at once that something and that nothing was found.
NoContradiction == \A c \in Clients : ActiveNone(c) = {} \/ ActiveFound(c) = {}

=============================================================================
