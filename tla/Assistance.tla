------------------------------ MODULE Assistance ------------------------------
(***************************************************************************)
(* Asking a model about a case and deciding on what it suggests            *)
(* (packages/ai/src).  Two callers exist: an analysis step of a workflow   *)
(* and the scan of an inbound message.                                     *)
(*                                                                         *)
(* A dotted name is the sequence of its segments.  What a caller has is a  *)
(* JSON object, modelled by its leaves: a leaf is the sequence of the keys *)
(* above it, and a key is itself a dotted name, because an object may hold *)
(* the key "sfs.lines" as well as the key "sfs" above the key "lines".     *)
(***************************************************************************)
EXTENDS Authorisation, Sequences, SequencesExt, FiniteSets

CONSTANTS
    Capabilities,   \* the capabilities a workflow may name
    Facts,          \* the dotted names a run's facts may have
    RolesOf,        \* the people of the firm, and the roles each holds
    MaxInvocations, MaxProposals,
    Nil

VARIABLES
    enabled,        \* ai_capabilities: the firm's row for each capability, if any
    asking,         \* what each caller has asked and awaits the answer of
    invocations,    \* ai_invocations
    proposals,      \* ai_proposals
    deciding        \* the proposal each person has read as pending
vars == <<enabled, asking, invocations, proposals, deciding>>

People == DOMAIN RolesOf

-----------------------------------------------------------------------------
(* The registry of capabilities.                                           *)

CaseBasics == {"case"} \X {"reference", "type", "stage", "jurisdiction", "openedAt", "owner",
                           "nextReviewDue"}
ClientBasics == {"client"} \X {"householdAdults", "householdChildren", "employmentStatus",
                               "jurisdiction"}
Financial == ({"sfs"} \X {"totalIncomePence", "totalExpenditurePence", "surplusPence", "lines",
                          "exceedances", "completedAt"})
             \cup ({"debt"} \X {"total", "count", "creditorCount", "list"})
Support == <<"vulnerability", "summary">>
Recent == <<"comms", "recent">>

Capability(fields, proposes, regulated, byDefault) ==
    [fields |-> fields, proposes |-> proposes, regulated |-> regulated, byDefault |-> byDefault]

CaseSummary == Capability(CaseBasics \cup ClientBasics \cup Financial \cup
    {<<"timeline", "recentEvents">>, Support, <<"tasks", "open">>, Recent}, FALSE, FALSE, TRUE)
IeDiscrepancy == Capability(
    ({"sfs"} \X {"lines", "totalIncomePence", "totalExpenditurePence"}) \cup
    ({"bank"} \X {"categorisedTotals", "periodMonths"}) \cup
    ({"client"} \X {"householdAdults", "householdChildren"}), TRUE, TRUE, TRUE)
AdviceReadiness == Capability(CaseBasics \cup Financial \cup ({"evidence", "consent"} \X {"status"}) \cup
    {Support, <<"caseType", "requiredEvidence">>}, FALSE, FALSE, TRUE)
VulnerabilityIndicators == Capability(
    {Recent, <<"timeline", "recentEvents">>, <<"client", "employmentStatus">>, <<"sfs", "surplusPence">>,
     <<"debt", "total">>, <<"case", "stage">>, Support}, TRUE, TRUE, FALSE)
DuplicateDebt == Capability({<<"debt", "list">>}, TRUE, FALSE, TRUE)
AdviceRationaleDraft == Capability(CaseBasics \cup ClientBasics \cup Financial \cup
    ({"adviser"} \X {"chosenSolution", "reasoning"}) \cup
    {<<"eligibility", "assessments">>, <<"affordability", "summary">>, Support}, FALSE, TRUE, FALSE)
CommunicationDraft == Capability(CaseBasics \cup
    ({"client"} \X {"firstName", "communicationAdjustments"}) \cup
    {Recent, <<"comms", "purpose">>, Support}, FALSE, FALSE, TRUE)
QaReview == Capability(CaseBasics \cup Financial \cup
    ({"advice"} \X {"decision", "rationale"}) \cup ({"evidence", "consent"} \X {"status"}) \cup
    {Support, Recent, <<"qa", "framework">>}, FALSE, FALSE, FALSE)

Registry == [
    caseSummary |-> CaseSummary, ieDiscrepancy |-> IeDiscrepancy, adviceReadiness |-> AdviceReadiness,
    vulnerabilityIndicators |-> VulnerabilityIndicators, duplicateDebt |-> DuplicateDebt,
    adviceRationaleDraft |-> AdviceRationaleDraft, communicationDraft |-> CommunicationDraft,
    qaReview |-> QaReview]

-----------------------------------------------------------------------------
(* Assembling the context.                                                 *)

Nested(path) == [i \in DOMAIN path |-> <<path[i]>>]
Flat(path) == <<path>>
DottedName(leaf) == FlattenSeq(leaf)

\* readPath walks the object one segment at a time, so it finds what is below the nested keys only.
Read(context, field) == {leaf \in context : IsPrefix(Nested(field), leaf)}
Missing(context, fields) == {field \in fields : Read(context, field) = {}}
Payload(context, fields) == UNION {Read(context, field) : field \in fields}

\* isPermitted looks at the dotted name, however its segments are divided into keys.
\* Seeded fault: only its ancestors are looked at.
IsPermitted_Ancestors(path, fields) == \E i \in 1..Len(path) - 1 : SubSeq(path, 1, i) \in fields
IsPermitted(path, fields) == \E i \in 1..Len(path) : SubSeq(path, 1, i) \in fields
Withheld(context, fields) == {leaf \in context : ~IsPermitted(DottedName(leaf), fields)}

-----------------------------------------------------------------------------
Callers == {"workflow", "ai"}
Used == Capabilities \cup {"vulnerabilityIndicators"}
Asked(capability, context) == [capability |-> capability, context |-> context]

\* The facts of a run are a flat map of dotted names; the scan builds its object with nested keys.
RunContexts == {{Flat(path) : path \in facts} : facts \in SUBSET Facts}
ScanContexts == {{Nested(path) : path \in {Recent, Support} \cup stage} :
                    stage \in {{}, {<<"case", "stage">>}}}
OnCase(caller, context) == caller = "workflow" \/ Nested(<<"case", "stage">>) \in context

\* People hold roles of the templates, and workflows name capabilities of the registry.
WellConfigured ==
    /\ \A person \in People : RolesOf[person] \subseteq DOMAIN RoleTemplates
    /\ Capabilities \subseteq DOMAIN Registry
    /\ MaxInvocations \in Nat /\ MaxProposals \in Nat

Init ==
    /\ enabled = [c \in Used |-> "default"]
    /\ asking = [c \in Callers |-> Nil]
    /\ invocations = <<>> /\ proposals = <<>>
    /\ deciding = [p \in People |-> Nil]

\* The firm's row for a capability is written outside these packages.
Switch(capability) ==
    /\ \E setting \in {"on", "off"} : enabled' = [enabled EXCEPT ![capability] = setting]
    /\ UNCHANGED <<asking, invocations, proposals, deciding>>

Enabled(capability) ==
    \/ enabled[capability] = "on"
    \/ enabled[capability] = "default" /\ Registry[capability].byDefault

\* permission, then enablement, then the allowlist, then the model.
Ask(caller, capability, context) ==
    LET principal == IF caller = "ai" THEN AiPrincipal("firm") ELSE WorkflowPrincipal("firm") IN
    /\ asking[caller] = Nil
    /\ Authorize(principal, <<"ai", "invoke">>, "firm") = "allowed"
    /\ Enabled(capability)
    /\ Len(invocations) < MaxInvocations
    /\ asking' = [asking EXCEPT ![caller] = Asked(capability, context)]
    /\ UNCHANGED <<enabled, invocations, proposals, deciding>>

AskFromRun == \E capability \in Capabilities, context \in RunContexts : Ask("workflow", capability, context)
AskFromScan == \E context \in ScanContexts : Ask("ai", "vulnerabilityIndicators", context)

Row(caller, status) ==
    LET asked == asking[caller]
        fields == Registry[asked.capability].fields IN
    [capability |-> asked.capability, by |-> caller, status |-> status,
     onCase |-> OnCase(caller, asked.context), given |-> asked.context,
     sent |-> Payload(asked.context, fields), missing |-> Missing(asked.context, fields),
     withheld |-> Withheld(asked.context, fields)]

Proposal(invocation, regulated) ==
    [invocation |-> invocation, regulated |-> regulated, status |-> "pending", by |-> Nil,
     secondFactor |-> FALSE]

\* What proposalsFromOutput finds worth asking about, and how far createProposals gets with it: it
\* writes one row after another, and throws at the first whose reasoning is too short.
Outcomes(capability) ==
    IF Registry[capability].proposes THEN [written : 0..MaxProposals, complete : BOOLEAN]
    ELSE [written : {0}, complete : {TRUE}]

Answer(caller) ==
    /\ asking[caller] # Nil
    /\ \E outcome \in Outcomes(asking[caller].capability) :
        LET regulated == Registry[asking[caller].capability].regulated
            raised == [i \in 1..outcome.written |-> Proposal(Len(invocations) + 1, regulated)] IN
        /\ Len(proposals) + outcome.written <= MaxProposals
        \* The scan's transaction is undone by the throw; the step of a run catches it.
        /\ IF caller = "ai" /\ ~outcome.complete THEN UNCHANGED <<invocations, proposals>>
           ELSE /\ invocations' = Append(invocations, Row(caller, "completed"))
                /\ proposals' = proposals \o raised
    /\ asking' = [asking EXCEPT ![caller] = Nil]
    /\ UNCHANGED <<enabled, deciding>>

\* The provider failed or its answer did not validate: the invocation is written all the same.
Fail(caller) ==
    /\ asking[caller] # Nil
    /\ invocations' = Append(invocations, Row(caller, "failed"))
    /\ asking' = [asking EXCEPT ![caller] = Nil]
    /\ UNCHANGED <<enabled, proposals, deciding>>

\* The process died before the transaction was committed.
Lose(caller) ==
    /\ asking[caller] # Nil
    /\ asking' = [asking EXCEPT ![caller] = Nil]
    /\ UNCHANGED <<enabled, invocations, proposals, deciding>>

\* A workflow step that would write a regulated field proposes it instead, on the case's last invocation.
ProposeField ==
    LET ofCase == {i \in DOMAIN invocations : invocations[i].onCase} IN
    /\ asking["workflow"] = Nil /\ Len(proposals) < MaxProposals
    /\ \E last \in ofCase :
        /\ \A i \in ofCase : i <= last
        /\ proposals' = Append(proposals, Proposal(last, TRUE))
    /\ UNCHANGED <<enabled, asking, invocations, deciding>>

PermissionToDecide(proposal) ==
    IF proposal.regulated THEN <<"ai", "accept_proposal">> ELSE <<"ai", "invoke">>

\* decideProposal reads the proposal and authorises the person ...
Look(person, i, status, mfa) ==
    /\ deciding[person] = Nil /\ proposals[i].status = "pending"
    /\ Authorize(UserPrincipal("firm", status, RolesOf[person], {}, mfa),
                 PermissionToDecide(proposals[i]), "firm") = "allowed"
    /\ deciding' = [deciding EXCEPT ![person] = [proposal |-> i, mfa |-> mfa]]
    /\ UNCHANGED <<enabled, asking, invocations, proposals>>

\* ... and then updates it, which the table's trigger refuses when another decision came first.
Decide(person) ==
    /\ deciding[person] # Nil
    /\ LET i == deciding[person].proposal IN
       \E decision \in {"accepted", "modified", "rejected"} :
        IF proposals[i].status \in {"pending", decision}
        THEN proposals' = [proposals EXCEPT ![i].status = decision, ![i].by = person,
                                            ![i].secondFactor = deciding[person].mfa]
        ELSE UNCHANGED proposals
    /\ deciding' = [deciding EXCEPT ![person] = Nil]
    /\ UNCHANGED <<enabled, asking, invocations>>

Next ==
    \/ \E capability \in Used : Switch(capability)
    \/ AskFromRun
    \/ AskFromScan
    \/ \E caller \in Callers : Answer(caller) \/ Fail(caller) \/ Lose(caller)
    \/ ProposeField
    \/ \E person \in People, i \in DOMAIN proposals, status \in {"active", "suspended"}, mfa \in BOOLEAN :
            Look(person, i, status, mfa)
    \/ \E person \in People : Decide(person)

Spec == Init /\ [][Next]_vars

-----------------------------------------------------------------------------
TypeOK ==
    /\ enabled \in [Used -> {"default", "on", "off"}]
    /\ Len(invocations) <= MaxInvocations + Cardinality(Callers) /\ Len(proposals) <= MaxProposals
    /\ \A i \in DOMAIN proposals : proposals[i].invocation \in DOMAIN invocations

(* A leaf given with nested keys is either sent under a permitted field or    *)
(* counted as withheld in the audit record, and never both                    *)
(* (assembleContext).                                                         *)
Accounted ==
    \A i \in DOMAIN invocations : LET row == invocations[i] IN
        /\ row.sent \cap row.withheld = {}
        /\ row.by = "ai" => row.sent \cup row.withheld = row.given

(* A capability the registry ships switched off is used only by a firm that   *)
(* has a row for it (assertEnabled).                                          *)
OptedIn ==
    \A i \in DOMAIN invocations :
        ~Registry[invocations[i].capability].byDefault => enabled[invocations[i].capability] # "default"

AdvisingRoles == {"adviser", "teamLeader", "insolvencyPractitioner"}

(* What a proposal on regulated information came to was decided by a person   *)
(* of a role that advises, with a second factor, however many read it as      *)
(* pending at once (decideProposal, authorize).                               *)
RegulatedByPeople ==
    \A i \in DOMAIN proposals :
        LET proposal == proposals[i] IN
        proposal.regulated /\ proposal.status # "pending" =>
            /\ proposal.secondFactor /\ proposal.by \in People
            /\ RolesOf[proposal.by] \cap AdvisingRoles # {}

(* A field reported missing is not among what the caller gave: "Field paths   *)
(* that were requested but not present on the case" (context.ts, of           *)
(* AssembledContext.missing).                                                 *)
MissingIsAbsent ==
    \A i \in DOMAIN invocations : \A field \in invocations[i].missing :
        \A leaf \in invocations[i].given : ~IsPrefix(field, DottedName(leaf))
=============================================================================
