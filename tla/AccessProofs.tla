----------------------------- MODULE AccessProofs -----------------------------
(***************************************************************************)
(* What gets in and out of a firm, for any accounts, keys and endpoints:   *)
(* the limits on guesses, requests and retries, and the end of a session.  *)
(* None of the limits is inductive.  Each is kept by what it leaves out:   *)
(* the sign-ins that have read the account, the calls that were let        *)
(* through and are not logged yet.                                         *)
(*                                                                         *)
(* And who decides: regulated proposals are decided by people who advise,  *)
(* for any team, capabilities and bounds.  That is not inductive either: a *)
(* person writes a decision after the check, so what the check established *)
(* has to be carried with whoever is deciding.  It stays true because      *)
(* proposals are only ever added and none changes what it touches.         *)
(***************************************************************************)
EXTENDS MCFirm, SequenceTheorems, FiniteSetTheorems, TLAPS

-----------------------------------------------------------------------------
(* What authorize() never allows, whoever asks.  Authorize is a chain of   *)
(* refusals, so each theorem reads off what must hold for the chain to end *)
(* in "allowed".                                                           *)

(* No automated principal, whatever permissions it was given, is allowed a *)
(* regulated permission, or one outside its own firm ("Automation may       *)
(* propose the change for approval instead", authorize.ts).                *)
THEOREM AutomationIsKeptOut ==
    ASSUME NEW kind, kind # "user", kind # "platform_operator",
           NEW tenant, NEW permissions, NEW permission, NEW firm,
           Authorize(Automated(kind, tenant, permissions), permission, firm) = "allowed"
    PROVE  permission \in Catalogue \ Regulated /\ permission \in permissions /\ tenant = firm
  BY DEF Authorize, Automated

(* A person who is allowed something is active, of the firm, was given it  *)
(* by a role, has the competencies it requires, and, if it is regulated, a *)
(* second factor (authorize.ts, the case of a user).                       *)
THEOREM PersonIsEntitled ==
    ASSUME NEW tenant, NEW status, NEW roles, NEW competencies, NEW mfa \in BOOLEAN,
           NEW permission, NEW firm,
           Authorize(UserPrincipal(tenant, status, roles, competencies, mfa), permission, firm) = "allowed"
    PROVE  /\ tenant = firm /\ status = "active" /\ permission \in Granted(roles)
           /\ permission \in Regulated => mfa
           /\ RequiredCompetencies(permission) \subseteq competencies
  BY DEF Authorize, UserPrincipal

(* Of the roles a firm starts from, only those that advise may accept a    *)
(* proposal on regulated information (permissions.ts, ROLE_TEMPLATES).     *)
THEOREM AcceptingIsAdvising ==
    ASSUME NEW role \in DOMAIN RoleTemplates, <<"ai", "accept_proposal">> \in RoleTemplates[role]
    PROVE  role \in {"adviser", "teamLeader", "insolvencyPractitioner"}
<1> DEFINE accept == <<"ai", "accept_proposal">>
<1>1. accept \notin Reading /\ accept \notin Handling
  BY DEF Reading, Handling
<1>2. accept \notin RoleTemplates["caseAdministrator"]
  BY <1>1 DEF RoleTemplates
<1>3. accept \notin RoleTemplates["complianceOfficer"]
  BY <1>1 DEF RoleTemplates
<1>4. accept \notin RoleTemplates["firmAdministrator"]
  BY <1>1 DEF RoleTemplates
<1>5. /\ accept \notin RoleTemplates["client"]
      /\ accept \notin RoleTemplates["creditor"]
      /\ accept \notin RoleTemplates["introducer"]
  BY DEF RoleTemplates
<1>6. role \in {"adviser", "caseAdministrator", "teamLeader", "complianceOfficer",
                "insolvencyPractitioner", "firmAdministrator", "client", "creditor", "introducer"}
  BY DEF RoleTemplates
<1>7. QED
  BY <1>2, <1>3, <1>4, <1>5, <1>6

-----------------------------------------------------------------------------
(* Who decides. *)

AnyProposal ==
    [invocation : Nat, regulated : BOOLEAN,
     status : {"pending", "accepted", "modified", "rejected"}, by : People \cup {Nil},
     secondFactor : BOOLEAN]

Shapes ==
    /\ proposals \in Seq(AnyProposal)
    /\ \E U : invocations \in Seq(U)
    /\ \E U : asking \in [Callers -> U]
    /\ \A c \in Callers : asking[c] # Nil => asking[c].capability \in DOMAIN Registry
    /\ deciding \in [People -> {Nil} \cup [proposal : Nat, mfa : BOOLEAN]]

\* Whoever is deciding on a regulated proposal was entitled to when they looked.
Entitled ==
    \A person \in People : deciding[person] # Nil =>
        LET i == deciding[person].proposal IN
        /\ i \in DOMAIN proposals
        /\ proposals[i].regulated =>
              deciding[person].mfa /\ RolesOf[person] \cap AdvisingRoles # {}

IInv == Shapes /\ Entitled /\ RegulatedByPeople

LEMMA RegistryShape ==
    ASSUME NEW name \in DOMAIN Registry
    PROVE  Registry[name].regulated \in BOOLEAN
<1>1. name \in {"caseSummary", "ieDiscrepancy", "adviceReadiness", "vulnerabilityIndicators",
               "duplicateDebt", "adviceRationaleDraft", "communicationDraft", "qaReview"}
  BY DEF Registry
<1>2. /\ CaseSummary.regulated = FALSE /\ IeDiscrepancy.regulated = TRUE
      /\ AdviceReadiness.regulated = FALSE /\ VulnerabilityIndicators.regulated = TRUE
      /\ DuplicateDebt.regulated = FALSE /\ AdviceRationaleDraft.regulated = TRUE
      /\ CommunicationDraft.regulated = FALSE /\ QaReview.regulated = FALSE
  BY DEF CaseSummary, IeDiscrepancy, AdviceReadiness, VulnerabilityIndicators, DuplicateDebt,
         AdviceRationaleDraft, CommunicationDraft, QaReview, Capability
<1>3. /\ Registry["caseSummary"] = CaseSummary /\ Registry["ieDiscrepancy"] = IeDiscrepancy
      /\ Registry["adviceReadiness"] = AdviceReadiness
      /\ Registry["vulnerabilityIndicators"] = VulnerabilityIndicators
      /\ Registry["duplicateDebt"] = DuplicateDebt
      /\ Registry["adviceRationaleDraft"] = AdviceRationaleDraft
      /\ Registry["communicationDraft"] = CommunicationDraft /\ Registry["qaReview"] = QaReview
  BY DEF Registry
<1>4. QED
  BY <1>1, <1>2, <1>3

LEMMA OutcomeShape ==
    ASSUME MaxProposals \in Nat, NEW capability, NEW outcome \in Outcomes(capability)
    PROVE  outcome.written \in Nat
<1>1. CASE Registry[capability].proposes
  <2>1. outcome \in [written : 0..MaxProposals, complete : BOOLEAN]
    BY <1>1 DEF Outcomes
  <2>2. outcome.written \in 0..MaxProposals
    BY <2>1
  <2>3. QED
    BY <2>2
<1>2. CASE ~Registry[capability].proposes
  <2>1. outcome \in [written : {0}, complete : {TRUE}]
    BY <1>2 DEF Outcomes
  <2>2. outcome.written \in {0}
    BY <2>1
  <2>3. QED
    BY <2>2
<1>3. QED
  BY <1>1, <1>2

(* A person whom decideProposal lets through on a regulated proposal has a    *)
(* second factor and a role that advises.                                     *)
LEMMA LookIsEntitled ==
    ASSUME WellConfigured, NEW person \in People, NEW status, NEW mfa \in BOOLEAN,
           NEW proposal \in AnyProposal, proposal.regulated,
           Authorize(UserPrincipal("firm", status, RolesOf[person], {}, mfa),
                     PermissionToDecide(proposal), "firm") = "allowed"
    PROVE  mfa /\ RolesOf[person] \cap AdvisingRoles # {}
<1>1. PermissionToDecide(proposal) = <<"ai", "accept_proposal">>
  BY DEF PermissionToDecide
<1>2. /\ <<"ai", "accept_proposal">> \in Granted(RolesOf[person])
      /\ <<"ai", "accept_proposal">> \in Regulated => mfa
  BY <1>1, PersonIsEntitled
<1>3. <<"ai", "accept_proposal">> \in Regulated
  BY DEF Regulated
<1>4. PICK role \in RolesOf[person] : <<"ai", "accept_proposal">> \in RoleTemplates[role]
  BY <1>2 DEF Granted
<1>5. role \in DOMAIN RoleTemplates
  BY DEF WellConfigured
<1>6. role \in AdvisingRoles
  BY <1>4, <1>5, AcceptingIsAdvising DEF AdvisingRoles
<1>7. QED
  BY <1>2, <1>3, <1>6

\* Adding pending proposals disturbs neither the decisions made nor those under way.
LEMMA Added ==
    ASSUME NEW rows \in Seq(AnyProposal), \A i \in DOMAIN rows : rows[i].status = "pending",
           IInv, proposals' = proposals \o rows, UNCHANGED deciding
    PROVE  proposals' \in Seq(AnyProposal) /\ Entitled' /\ RegulatedByPeople'
<1>1. /\ proposals \in Seq(AnyProposal) /\ proposals' \in Seq(AnyProposal)
      /\ Len(proposals') = Len(proposals) + Len(rows)
  BY DEF IInv, Shapes
<1>2. \A i \in DOMAIN proposals : i \in DOMAIN proposals' /\ proposals'[i] = proposals[i]
  BY <1>1
<1>3. \A i \in DOMAIN proposals' \ DOMAIN proposals : proposals'[i].status = "pending"
  BY <1>1
<1>4. Entitled'
  BY <1>2 DEF IInv, Entitled
<1>5. RegulatedByPeople'
  <2> SUFFICES ASSUME NEW i \in DOMAIN proposals', proposals'[i].regulated, proposals'[i].status # "pending"
               PROVE  /\ proposals'[i].secondFactor /\ proposals'[i].by \in People
                      /\ RolesOf[proposals'[i].by] \cap AdvisingRoles # {}
    BY DEF RegulatedByPeople
  <2>1. i \in DOMAIN proposals /\ proposals'[i] = proposals[i]
    BY <1>2, <1>3
  <2>2. QED
    BY <2>1 DEF IInv, RegulatedByPeople
<1>6. QED
  BY <1>1, <1>4, <1>5

LEMMA Initially ==
    ASSUME Init PROVE IInv
<1>1. Shapes
  <2>1. proposals \in Seq(AnyProposal) /\ invocations \in Seq({})
    BY DEF Init
  <2>2. asking \in [Callers -> {Nil}] /\ \A c \in Callers : asking[c] = Nil
    BY DEF Init
  <2>3. deciding \in [People -> {Nil} \cup [proposal : Nat, mfa : BOOLEAN]]
    BY DEF Init
  <2>4. QED
    BY <2>1, <2>2, <2>3 DEF Shapes
<1>2. Entitled /\ RegulatedByPeople
  BY DEF Init, Entitled, RegulatedByPeople
<1>3. QED
  BY <1>1, <1>2 DEF IInv

\* asking and its two readings: the caller that asks, the one that is answered or lost.
LEMMA Asks ==
    ASSUME Shapes, NEW c \in Callers, NEW capability \in DOMAIN Registry, NEW context,
           asking' = [asking EXCEPT ![c] = Asked(capability, context)]
    PROVE  /\ \E U : asking' \in [Callers -> U]
           /\ \A d \in Callers : asking'[d] # Nil => asking'[d].capability \in DOMAIN Registry
<1>1. PICK U : asking \in [Callers -> U]
  BY DEF Shapes
<1>2. asking' \in [Callers -> U \cup {Asked(capability, context)}]
  BY <1>1
<1>3. Asked(capability, context).capability = capability
  BY DEF Asked
<1>4. \A d \in Callers : asking'[d] = IF d = c THEN Asked(capability, context) ELSE asking[d]
  BY <1>1
<1>5. QED
  BY <1>2, <1>3, <1>4 DEF Shapes

LEMMA Answered ==
    ASSUME Shapes, NEW c \in Callers, asking' = [asking EXCEPT ![c] = Nil]
    PROVE  /\ \E U : asking' \in [Callers -> U]
           /\ \A d \in Callers : asking'[d] # Nil => asking'[d].capability \in DOMAIN Registry
<1>1. PICK U : asking \in [Callers -> U]
  BY DEF Shapes
<1>2. asking' \in [Callers -> U \cup {Nil}]
  BY <1>1
<1>3. \A d \in Callers : asking'[d] = IF d = c THEN Nil ELSE asking[d]
  BY <1>1
<1>4. QED
  BY <1>2, <1>3 DEF Shapes

LEMMA InvocationAdded ==
    ASSUME Shapes, NEW row, invocations' = Append(invocations, row)
    PROVE  \E U : invocations' \in Seq(U)
<1>1. PICK U : invocations \in Seq(U)
  BY DEF Shapes
<1>2. invocations \in Seq(U \cup {row})
  BY <1>1
<1>3. invocations' \in Seq(U \cup {row})
  BY <1>2
<1>4. QED
  BY <1>3

\* What leaves proposals and deciding alone leaves the decisions alone.
LEMMA Undisturbed ==
    ASSUME IInv, UNCHANGED <<proposals, deciding>>
    PROVE  Entitled' /\ RegulatedByPeople'
  BY DEF IInv, Entitled, RegulatedByPeople

LEMMA SingletonSeq ==
    ASSUME NEW T, NEW x \in T
    PROVE  <<x>> \in Seq(T) /\ \A i \in DOMAIN <<x>> : <<x>>[i] = x
<1>1. <<x>> \in Seq(T)
  OBVIOUS
<1>2. \A i \in DOMAIN <<x>> : <<x>>[i] = x
  OBVIOUS
<1>3. QED
  BY <1>1, <1>2

LEMMA RaisedShape ==
    ASSUME NEW n \in Nat, NEW invocation \in Nat, NEW regulated \in BOOLEAN,
           NEW rows, rows = [i \in 1..n |-> Proposal(invocation, regulated)]
    PROVE  rows \in Seq(AnyProposal) /\ \A i \in DOMAIN rows : rows[i].status = "pending"
<1>1. Proposal(invocation, regulated) \in AnyProposal /\ Proposal(invocation, regulated).status = "pending"
  BY DEF Proposal, AnyProposal
<1>2. QED
  BY <1>1

LEMMA AnswerStep ==
    ASSUME WellConfigured, IInv, NEW c \in Callers, Answer(c)
    PROVE  IInv'
<1>1. PICK outcome \in Outcomes(asking[c].capability) :
        LET regulated == Registry[asking[c].capability].regulated
            raised == [i \in 1..outcome.written |-> Proposal(Len(invocations) + 1, regulated)] IN
        IF c = "ai" /\ ~outcome.complete THEN UNCHANGED <<invocations, proposals>>
        ELSE /\ invocations' = Append(invocations, Row(c, "completed"))
             /\ proposals' = proposals \o raised
  BY DEF Answer
<1>2. /\ asking[c] # Nil /\ asking' = [asking EXCEPT ![c] = Nil] /\ UNCHANGED deciding
  BY DEF Answer
<1> DEFINE regulated == Registry[asking[c].capability].regulated
           raised == [i \in 1..outcome.written |-> Proposal(Len(invocations) + 1, regulated)]
<1>3. /\ \E U : asking' \in [Callers -> U]
      /\ \A d \in Callers : asking'[d] # Nil => asking'[d].capability \in DOMAIN Registry
  BY <1>2, Answered DEF IInv
<1>4. deciding' \in [People -> {Nil} \cup [proposal : Nat, mfa : BOOLEAN]]
  BY <1>2 DEF IInv, Shapes
<1>5. CASE c = "ai" /\ ~outcome.complete
  <2>1. UNCHANGED <<invocations, proposals>>
    BY <1>1, <1>5
  <2>2. Entitled' /\ RegulatedByPeople'
    BY <1>2, <2>1, Undisturbed
  <2>3. Shapes'
    BY <1>3, <1>4, <2>1 DEF IInv, Shapes
  <2>4. QED
    BY <2>2, <2>3 DEF IInv
<1>6. CASE ~(c = "ai" /\ ~outcome.complete)
  <2>1. invocations' = Append(invocations, Row(c, "completed")) /\ proposals' = proposals \o raised
    BY <1>1, <1>6
  <2>2. \E U : invocations' \in Seq(U)
    BY <2>1, InvocationAdded DEF IInv
  <2>3. regulated \in BOOLEAN
    BY <1>2, RegistryShape DEF IInv, Shapes
  <2>4. Len(invocations) + 1 \in Nat
    BY DEF IInv, Shapes
  <2>5. outcome.written \in Nat
    BY <1>1, OutcomeShape DEF WellConfigured
  <2>6. raised \in Seq(AnyProposal) /\ \A i \in DOMAIN raised : raised[i].status = "pending"
    BY <2>3, <2>4, <2>5, RaisedShape
  <2>7. proposals' \in Seq(AnyProposal) /\ Entitled' /\ RegulatedByPeople'
    BY <1>2, <2>1, <2>6, Added
  <2>8. Shapes'
    BY <1>3, <1>4, <2>2, <2>7 DEF Shapes
  <2>9. QED
    BY <2>7, <2>8 DEF IInv
<1>7. QED
  BY <1>5, <1>6

LEMMA ProposeFieldStep ==
    ASSUME IInv, ProposeField
    PROVE  IInv'
<1>1. PICK last \in DOMAIN invocations : proposals' = Append(proposals, Proposal(last, TRUE))
  BY DEF ProposeField
<1>2. UNCHANGED <<asking, invocations, deciding>>
  BY DEF ProposeField
<1>3. last \in Nat
  BY DEF IInv, Shapes
<1>4. PICK proposal \in AnyProposal : proposal = Proposal(last, TRUE) /\ proposal.status = "pending"
  <2>1. Proposal(last, TRUE) \in AnyProposal
    BY <1>3 DEF Proposal, AnyProposal
  <2>2. Proposal(last, TRUE).status = "pending"
    BY DEF Proposal
  <2>3. QED
    BY <2>1, <2>2
<1>5. <<proposal>> \in Seq(AnyProposal) /\ \A i \in DOMAIN <<proposal>> : <<proposal>>[i].status = "pending"
  <2>1. /\ <<proposal>> \in Seq(AnyProposal)
        /\ \A i \in DOMAIN <<proposal>> : <<proposal>>[i] = proposal
    BY SingletonSeq
  <2>2. QED
    BY <2>1, <1>4
<1>6. proposals' = proposals \o <<proposal>>
  <2>1. proposals \in Seq(AnyProposal) /\ proposals' = Append(proposals, proposal)
    BY <1>1, <1>4 DEF IInv, Shapes
  <2>2. Append(proposals, proposal) = proposals \o <<proposal>>
    BY <2>1
  <2>3. QED
    BY <2>1, <2>2
<1>7. proposals' \in Seq(AnyProposal) /\ Entitled' /\ RegulatedByPeople'
  BY <1>2, <1>5, <1>6, Added
<1>8. Shapes'
  BY <1>2, <1>7 DEF IInv, Shapes
<1>9. QED
  BY <1>7, <1>8 DEF IInv

LEMMA LookStep ==
    ASSUME WellConfigured, IInv, NEW person \in People, NEW i \in DOMAIN proposals,
           NEW status, NEW mfa \in BOOLEAN, Look(person, i, status, mfa)
    PROVE  IInv'
<1>1. /\ Authorize(UserPrincipal("firm", status, RolesOf[person], {}, mfa),
                   PermissionToDecide(proposals[i]), "firm") = "allowed"
      /\ deciding' = [deciding EXCEPT ![person] = [proposal |-> i, mfa |-> mfa]]
      /\ UNCHANGED <<asking, invocations, proposals>>
  BY DEF Look
<1>2. proposals[i] \in AnyProposal /\ i \in Nat
  BY DEF IInv, Shapes
<1>3. proposals[i].regulated => mfa /\ RolesOf[person] \cap AdvisingRoles # {}
  BY <1>1, <1>2, LookIsEntitled
<1>4. \A p \in People : deciding'[p] = IF p = person THEN [proposal |-> i, mfa |-> mfa] ELSE deciding[p]
  BY <1>1 DEF IInv, Shapes
<1>5. deciding' \in [People -> {Nil} \cup [proposal : Nat, mfa : BOOLEAN]]
  BY <1>1, <1>2 DEF IInv, Shapes
<1>6. Entitled'
  <2> SUFFICES ASSUME NEW p \in People, deciding'[p] # Nil
               PROVE  /\ deciding'[p].proposal \in DOMAIN proposals'
                      /\ proposals'[deciding'[p].proposal].regulated =>
                            deciding'[p].mfa /\ RolesOf[p] \cap AdvisingRoles # {}
    BY DEF Entitled
  <2>1. CASE p = person
    BY <1>1, <1>3, <1>4, <2>1
  <2>2. CASE p # person
    BY <1>1, <1>4, <2>2 DEF IInv, Entitled
  <2>3. QED
    BY <2>1, <2>2
<1>7. Shapes' /\ RegulatedByPeople'
  BY <1>1, <1>5 DEF IInv, Shapes, RegulatedByPeople
<1>8. QED
  BY <1>6, <1>7 DEF IInv

LEMMA DecideStep ==
    ASSUME IInv, NEW person \in People, Decide(person)
    PROVE  IInv'
<1> DEFINE i == deciding[person].proposal
<1>1. /\ deciding[person] # Nil
      /\ deciding' = [deciding EXCEPT ![person] = Nil]
      /\ UNCHANGED <<asking, invocations>>
  BY DEF Decide
<1>2. /\ deciding[person] \in [proposal : Nat, mfa : BOOLEAN] /\ i \in DOMAIN proposals
      /\ proposals[i] \in AnyProposal
      /\ proposals[i].regulated => deciding[person].mfa /\ RolesOf[person] \cap AdvisingRoles # {}
  BY <1>1 DEF IInv, Shapes, Entitled
<1>3. \A p \in People : deciding'[p] = IF p = person THEN Nil ELSE deciding[p]
  BY <1>1 DEF IInv, Shapes
<1>4. deciding' \in [People -> {Nil} \cup [proposal : Nat, mfa : BOOLEAN]]
  BY <1>1 DEF IInv, Shapes
<1>5. CASE UNCHANGED proposals
  <2>1. Entitled' /\ RegulatedByPeople'
    BY <1>3, <1>5 DEF IInv, Entitled, RegulatedByPeople
  <2>2. Shapes'
    BY <1>1, <1>4, <1>5 DEF IInv, Shapes
  <2>3. QED
    BY <2>1, <2>2 DEF IInv
<1>6. ASSUME NEW decision \in {"accepted", "modified", "rejected"},
             proposals' = [proposals EXCEPT ![i].status = decision, ![i].by = person,
                                            ![i].secondFactor = deciding[person].mfa]
      PROVE  IInv'
  <2> DEFINE decided == [proposals[i] EXCEPT !.status = decision, !.by = person,
                                             !.secondFactor = deciding[person].mfa]
  <2>1. /\ decided \in AnyProposal /\ decided.regulated = proposals[i].regulated
        /\ decided.by = person /\ decided.secondFactor = deciding[person].mfa
    BY <1>2 DEF AnyProposal
  <2>2. proposals' = [proposals EXCEPT ![i] = decided]
    BY <1>2, <1>6
  <2>3. /\ proposals' \in Seq(AnyProposal) /\ DOMAIN proposals' = DOMAIN proposals
        /\ \A j \in DOMAIN proposals : proposals'[j] = IF j = i THEN decided ELSE proposals[j]
    BY <1>2, <2>1, <2>2 DEF IInv, Shapes
  <2>4. \A j \in DOMAIN proposals : proposals'[j].regulated = proposals[j].regulated
    BY <2>1, <2>3
  <2>5. Entitled'
    BY <1>3, <2>3, <2>4 DEF IInv, Entitled
  <2>6. RegulatedByPeople'
    BY ZenonT(60), <1>2, <2>1, <2>3 DEF IInv, RegulatedByPeople
  <2>7. Shapes'
    BY <1>1, <1>4, <2>3 DEF IInv, Shapes
  <2>8. QED
    BY <2>5, <2>6, <2>7 DEF IInv
<1>7. QED
  BY <1>5, <1>6 DEF Decide

(* The steps of the callers that raise no proposal.                           *)
LEMMA AskStep ==
    ASSUME WellConfigured, IInv, AskFromRun \/ AskFromScan
    PROVE  IInv'
<1>0. PICK c \in Callers, capability \in DOMAIN Registry : \E context : Ask(c, capability, context)
  <2>1. "vulnerabilityIndicators" \in DOMAIN Registry /\ "ai" \in Callers /\ "workflow" \in Callers
    BY DEF Registry, Callers
  <2>2. QED
    BY <2>1 DEF AskFromRun, AskFromScan, WellConfigured
<1>1. PICK context : Ask(c, capability, context)
  BY <1>0
<1>2. /\ asking' = [asking EXCEPT ![c] = Asked(capability, context)]
      /\ UNCHANGED <<invocations, proposals, deciding>>
  BY <1>1 DEF Ask
<1>3. Entitled' /\ RegulatedByPeople'
  BY <1>2, Undisturbed
<1>4. /\ \E U : asking' \in [Callers -> U]
      /\ \A d \in Callers : asking'[d] # Nil => asking'[d].capability \in DOMAIN Registry
  BY <1>2, Asks DEF IInv
<1>5. Shapes'
  BY <1>2, <1>4 DEF IInv, Shapes
<1>6. QED
  BY <1>3, <1>5 DEF IInv

LEMMA LoseStep ==
    ASSUME IInv, NEW c \in Callers, Fail(c) \/ Lose(c)
    PROVE  IInv'
<1>1. asking' = [asking EXCEPT ![c] = Nil] /\ UNCHANGED <<proposals, deciding>>
  BY DEF Fail, Lose
<1>2. \E U : invocations' \in Seq(U)
  <2>1. CASE Fail(c)
    BY <2>1, InvocationAdded DEF IInv, Fail
  <2>2. CASE Lose(c)
    BY <2>2 DEF IInv, Shapes, Lose
  <2>3. QED
    BY <2>1, <2>2
<1>3. Entitled' /\ RegulatedByPeople'
  BY <1>1, Undisturbed
<1>4. /\ \E U : asking' \in [Callers -> U]
      /\ \A d \in Callers : asking'[d] # Nil => asking'[d].capability \in DOMAIN Registry
  BY <1>1, Answered DEF IInv
<1>5. Shapes'
  BY <1>1, <1>2, <1>4 DEF IInv, Shapes
<1>6. QED
  BY <1>3, <1>5 DEF IInv

LEMMA Step ==
    ASSUME WellConfigured, IInv, [Next]_vars
    PROVE  IInv'
<1>1. ASSUME NEW capability \in Used, Switch(capability)
      PROVE  IInv'
  BY <1>1 DEF Switch, IInv, Shapes, Entitled, RegulatedByPeople
<1>2. CASE AskFromRun \/ AskFromScan
  BY <1>2, AskStep
<1>3. ASSUME NEW c \in Callers, Answer(c)
      PROVE  IInv'
  BY <1>3, AnswerStep
<1>4. ASSUME NEW c \in Callers, Fail(c) \/ Lose(c)
      PROVE  IInv'
  BY <1>4, LoseStep
<1>5. CASE ProposeField
  BY <1>5, ProposeFieldStep
<1>6. ASSUME NEW person \in People, NEW i \in DOMAIN proposals,
             NEW status \in {"active", "suspended"}, NEW mfa \in BOOLEAN,
             Look(person, i, status, mfa)
      PROVE  IInv'
  BY <1>6, LookStep
<1>7. ASSUME NEW person \in People, Decide(person)
      PROVE  IInv'
  BY <1>7, DecideStep
<1>8. CASE UNCHANGED vars
  BY <1>8 DEF vars, IInv, Shapes, Entitled, RegulatedByPeople
<1>9. QED
  BY <1>1, <1>2, <1>3, <1>4, <1>5, <1>6, <1>7, <1>8 DEF Next

(* In every well configured firm a regulated proposal that is no longer      *)
(* pending was decided by a person with a second factor and a role that       *)
(* advises, whatever workflows, scans and other people did meanwhile          *)
(* (decideProposal, authorize).                                               *)
THEOREM PeopleDecide ==
    ASSUME WellConfigured
    PROVE  Spec => []RegulatedByPeople
<1>1. IInv => RegulatedByPeople
  BY DEF IInv
<1>2. QED
  BY Initially, Step, <1>1, PTL DEF Spec

-----------------------------------------------------------------------------
(* What is sent and what is withheld. *)

\* Every field of the registry is a resource and one of its fields.
AllPairs(fields) == \A field \in fields : field = <<field[1], field[2]>>

LEMMA FieldsArePairs ==
    ASSUME NEW name \in DOMAIN Registry
    PROVE  AllPairs(Registry[name].fields)
<1>1. AllPairs(CaseBasics) /\ AllPairs(ClientBasics)
  BY DEF AllPairs, CaseBasics, ClientBasics
<1>2. AllPairs(Financial)
  BY DEF AllPairs, Financial
<1>3. AllPairs({Support, Recent})
  BY DEF AllPairs, Support, Recent
<1>4. AllPairs(CaseSummary.fields)
  BY <1>1, <1>2, <1>3 DEF AllPairs, CaseSummary, Capability
<1>5. AllPairs(IeDiscrepancy.fields)
  BY DEF AllPairs, IeDiscrepancy, Capability
<1>6. AllPairs(AdviceReadiness.fields)
  BY <1>1, <1>2, <1>3 DEF AllPairs, AdviceReadiness, Capability
<1>7. AllPairs(VulnerabilityIndicators.fields)
  BY <1>3 DEF AllPairs, VulnerabilityIndicators, Capability
<1>8. AllPairs(DuplicateDebt.fields)
  BY DEF AllPairs, DuplicateDebt, Capability
<1>9. AllPairs(AdviceRationaleDraft.fields)
  BY <1>1, <1>2, <1>3 DEF AllPairs, AdviceRationaleDraft, Capability
<1>10. AllPairs(CommunicationDraft.fields)
  BY <1>1, <1>3 DEF AllPairs, CommunicationDraft, Capability
<1>11. AllPairs(QaReview.fields)
  BY <1>1, <1>2, <1>3 DEF AllPairs, QaReview, Capability
<1>12. name \in {"caseSummary", "ieDiscrepancy", "adviceReadiness", "vulnerabilityIndicators",
                 "duplicateDebt", "adviceRationaleDraft", "communicationDraft", "qaReview"}
  BY DEF Registry
<1>13. /\ Registry["caseSummary"] = CaseSummary /\ Registry["ieDiscrepancy"] = IeDiscrepancy
       /\ Registry["adviceReadiness"] = AdviceReadiness
       /\ Registry["vulnerabilityIndicators"] = VulnerabilityIndicators
       /\ Registry["duplicateDebt"] = DuplicateDebt
       /\ Registry["adviceRationaleDraft"] = AdviceRationaleDraft
       /\ Registry["communicationDraft"] = CommunicationDraft /\ Registry["qaReview"] = QaReview
  BY DEF Registry
<1>14. QED
  BY <1>4, <1>5, <1>6, <1>7, <1>8, <1>9, <1>10, <1>11, <1>12, <1>13

LEMMA NestedPair ==
    ASSUME NEW a, NEW b
    PROVE  Nested(<<a, b>>) = <<<<a>>, <<b>>>>
  BY DEF Nested

\* A leaf of two keys with one segment each has the dotted name of the two.
LEMMA NameOfPair ==
    ASSUME NEW a, NEW b
    PROVE  DottedName(Nested(<<a, b>>)) = <<a, b>>
<1> DEFINE leaf == <<<<a>>, <<b>>>>
           whole == [i \in 1..Len(leaf) |-> IF i = 1 THEN leaf[1] ELSE leaf[1] \o leaf[2]]
           Flatten(f) == [i \in 1..Len(leaf) |-> IF i = 1 THEN leaf[i] ELSE f[i-1] \o leaf[i]]
<1>1. Len(leaf) = 2 /\ leaf[1] = <<a>> /\ leaf[2] = <<b>>
  OBVIOUS
<1>2. whole = Flatten(whole)
  <2>1. \A i \in 1..Len(leaf) : i = 1 \/ i = 2
    BY <1>1
  <2>2. whole[1] = leaf[1]
    BY <1>1
  <2>3. \A i \in 1..Len(leaf) : (IF i = 1 THEN leaf[1] ELSE leaf[1] \o leaf[2]) =
                                 (IF i = 1 THEN leaf[i] ELSE whole[i-1] \o leaf[i])
    <3>1. whole[2-1] = leaf[1]
      BY <2>2
    <3>2. QED
      BY <2>1, <3>1
  <2>4. QED
    BY <2>3
<1>3. PICK f : f = CHOOSE g : g = Flatten(g)
  OBVIOUS
<1>4. f = Flatten(f)
  BY <1>2, <1>3
<1>5. f[1] = <<a>> /\ f[2] = f[1] \o <<b>>
  <2>1. 1 \in 1..Len(leaf) /\ 2 \in 1..Len(leaf) /\ 2 - 1 = 1
    BY <1>1
  <2>2. \A i \in 1..Len(leaf) : f[i] = IF i = 1 THEN leaf[i] ELSE f[i-1] \o leaf[i]
    BY <1>4
  <2>3. f[1] = leaf[1] /\ f[2] = f[1] \o leaf[2]
    <3>1. PICK g, l : g = f /\ l = leaf
      OBVIOUS
    <3>2. \A i \in 1..2 : g[i] = IF i = 1 THEN l[i] ELSE g[i-1] \o l[i]
      BY <1>1, <2>2, <3>1
    <3>3. g[1] = l[1]
      BY <3>2
    <3>4. g[2] = g[1] \o l[2]
      <4>1. 2 \in 1..2 /\ 2 # 1 /\ 2 - 1 = 1
        OBVIOUS
      <4>2. g[2] = g[2-1] \o l[2]
        BY <3>2, <4>1, Zenon
      <4>3. QED
        BY <4>1, <4>2, Zenon
    <3>5. QED
      BY <3>1, <3>3, <3>4
  <2>4. QED
    BY <1>1, <2>1, <2>3
<1>6. <<a>> \o <<b>> = <<a, b>>
  <2>1. <<a>> \in Seq({a, b}) /\ <<b>> \in Seq({a, b}) /\ <<a, b>> \in Seq({a, b})
    OBVIOUS
  <2>2. <<a>> \o <<b>> \in Seq({a, b}) /\ Len(<<a>> \o <<b>>) = 2
    BY <2>1
  <2>3. \A i \in 1..2 : (<<a>> \o <<b>>)[i] = <<a, b>>[i]
    BY <2>1
  <2>4. QED
    BY <2>1, <2>2, <2>3, SeqEqual
<1>7. FlattenSeq(leaf) = f[Len(leaf)]
  BY <1>1, <1>3 DEF FlattenSeq
<1>8. QED
  BY <1>1, <1>5, <1>6, <1>7, NestedPair DEF DottedName

\* Each scan's leaf is such a pair, and a run's leaves are single keys.
LEMMA ScanLeaf ==
    ASSUME NEW context \in ScanContexts, NEW leaf \in context
    PROVE  \E a, b : leaf = Nested(<<a, b>>)
<1>1. PICK stage \in {{}, {<<"case", "stage">>}} :
          context = {Nested(path) : path \in {Recent, Support} \cup stage}
  BY DEF ScanContexts
<1>2. PICK path \in {Recent, Support} \cup stage : leaf = Nested(path)
  BY <1>1
<1>3. \E a, b : path = <<a, b>>
  BY <1>1, <1>2 DEF Recent, Support
<1>4. QED
  BY <1>2, <1>3

LEMMA RunReadsNothing ==
    ASSUME NEW context \in RunContexts, NEW fields, AllPairs(fields)
    PROVE  Payload(context, fields) = {}
<1> SUFFICES ASSUME NEW field \in fields, NEW leaf \in context
             PROVE  ~IsPrefix(Nested(field), leaf)
  BY DEF Payload, Read
<1>1. PICK path : leaf = <<path>>
  BY DEF RunContexts, Flat
<1>2. PICK a, b : field = <<a, b>>
  BY DEF AllPairs
<1>3. Len(Nested(field)) = 2 /\ Len(leaf) = 1
  BY <1>1, <1>2, NestedPair
<1>4. QED
  BY <1>3 DEF IsPrefix

\* Of a nested leaf, being read and being permitted are the same.
LEMMA ReadIsPermitted ==
    ASSUME NEW fields, AllPairs(fields), NEW a, NEW b,
           NEW leaf, leaf = Nested(<<a, b>>)
    PROVE  /\ (\E field \in fields : IsPrefix(Nested(field), leaf)) <=> <<a, b>> \in fields
           /\ IsPermitted(DottedName(leaf), fields) <=> <<a, b>> \in fields
<1>1. leaf = <<<<a>>, <<b>>>>
  BY NestedPair
<1>2. ASSUME NEW field \in fields, IsPrefix(Nested(field), leaf) PROVE field = <<a, b>>
  <2>1. PICK c, d : field = <<c, d>>
    BY DEF AllPairs
  <2>2. Nested(field) = <<<<c>>, <<d>>>>
    BY <2>1, NestedPair
  <2>3. SubSeq(<<<<c>>, <<d>>>>, 1, 2) = SubSeq(<<<<a>>, <<b>>>>, 1, 2)
    BY <1>1, <1>2, <2>2 DEF IsPrefix
  <2>4. \A i \in 1..2 : <<<<c>>, <<d>>>>[i] = <<<<a>>, <<b>>>>[i]
    BY <2>3
  <2>5. <<c>> = <<a>> /\ <<d>> = <<b>>
    BY <2>4
  <2>6. QED
    BY <2>1, <2>5
<1>3. IsPrefix(leaf, leaf)
  BY <1>1 DEF IsPrefix
<1>4. DottedName(leaf) = <<a, b>>
  BY NameOfPair
<1>5. Len(<<a, b>>) = 2 /\ SubSeq(<<a, b>>, 1, 2) = <<a, b>>
  <2>1. <<a, b>> \in Seq({a, b}) /\ Len(<<a, b>>) = 2
    OBVIOUS
  <2>2. QED
    BY <2>1, SubSeqFull
<1>6. SubSeq(<<a, b>>, 1, 1) \notin fields
  <2>1. PICK short : short = SubSeq(<<a, b>>, 1, 1)
    OBVIOUS
  <2>2. Len(short) = 1
    BY <2>1
  <2>3. \A field \in fields : Len(field) = 2
    BY DEF AllPairs
  <2>4. short \notin fields
    BY <2>2, <2>3
  <2>5. QED
    BY <2>1, <2>4
<1>7. IsPermitted(DottedName(leaf), fields) <=> <<a, b>> \in fields
  <2>1. IsPermitted(DottedName(leaf), fields) <=> \E i \in 1..2 : SubSeq(<<a, b>>, 1, i) \in fields
    BY <1>4, <1>5 DEF IsPermitted
  <2>2. 2 \in 1..2 /\ \A i \in 1..2 : i = 1 \/ i = 2
    OBVIOUS
  <2>3. QED
    BY <1>5, <1>6, <2>1, <2>2, Zenon
<1>8. QED
  BY <1>2, <1>3, <1>7

LEMMA RowAccounted ==
    ASSUME NEW caller \in Callers, NEW status, asking[caller] # Nil,
           asking[caller].capability \in DOMAIN Registry,
           asking[caller].context \in IF caller = "ai" THEN ScanContexts ELSE RunContexts
    PROVE  LET row == Row(caller, status) IN
           /\ row.sent \cap row.withheld = {}
           /\ row.by = "ai" => row.sent \cup row.withheld = row.given
<1>1. PICK context, fields : AllPairs(fields) /\
          context = asking[caller].context /\ fields = Registry[asking[caller].capability].fields
  BY FieldsArePairs
<1>2. /\ Row(caller, status).sent = Payload(context, fields)
      /\ Row(caller, status).withheld = Withheld(context, fields)
      /\ Row(caller, status).given = context /\ Row(caller, status).by = caller
  BY <1>1 DEF Row
<1>3. CASE caller # "ai"
  <2>1. Payload(context, fields) = {}
    BY <1>1, <1>3, RunReadsNothing
  <2>2. QED
    BY <1>2, <1>3, <2>1
<1>4. CASE caller = "ai"
  <2>1. ASSUME NEW leaf \in context
        PROVE  leaf \in Payload(context, fields) <=> leaf \notin Withheld(context, fields)
    <3>1. context \in ScanContexts
      BY <1>1, <1>4
    <3>2. PICK a, b : leaf = Nested(<<a, b>>)
      BY <3>1, ScanLeaf
    <3>3. (\E field \in fields : IsPrefix(Nested(field), leaf)) <=> IsPermitted(DottedName(leaf), fields)
      BY <1>1, <3>2, ReadIsPermitted
    <3>4. QED
      BY <3>3 DEF Payload, Read, Withheld
  <2>2. Payload(context, fields) \subseteq context /\ Withheld(context, fields) \subseteq context
    BY DEF Payload, Read, Withheld
  <2>3. QED
    BY <1>2, <2>1, <2>2
<1>5. QED
  BY <1>3, <1>4

-----------------------------------------------------------------------------
(* The record of what was asked. *)

\* The firm has a row for a capability that is shipped switched off.
Opted(capability) == ~Registry[capability].byDefault => enabled[capability] # "default"

Busy(caller) == IF asking[caller] = Nil THEN 0 ELSE 1

\* What is being asked was enabled, and is of the caller's own making.
Askable ==
    \A c \in Callers : asking[c] # Nil =>
        /\ asking[c].capability \in Used /\ Opted(asking[c].capability)
        /\ asking[c].context \in IF c = "ai" THEN ScanContexts ELSE RunContexts

\* Room is left for the answers that are awaited.
Room ==
    /\ Len(invocations) + Busy("workflow") + Busy("ai") <= MaxInvocations + 2
    /\ Len(proposals) <= MaxProposals
    /\ \A i \in DOMAIN proposals : proposals[i].invocation \in DOMAIN invocations

RecordInv ==
    /\ enabled \in [Used -> {"default", "on", "off"}]
    /\ Askable /\ Room /\ Accounted /\ OptedIn
    /\ \A i \in DOMAIN invocations : invocations[i].capability \in Used

LEMMA RecordInit ==
    ASSUME WellConfigured, Init
    PROVE  RecordInv
<1>1. enabled \in [Used -> {"default", "on", "off"}] /\ Askable /\ Accounted /\ OptedIn
  BY DEF Init, Askable, Accounted, OptedIn
<1>2. Room /\ \A i \in DOMAIN invocations : invocations[i].capability \in Used
  BY DEF Init, Room, Busy, Callers, WellConfigured
<1>3. QED
  BY <1>1, <1>2 DEF RecordInv

LEMMA SwitchRecord ==
    ASSUME WellConfigured, RecordInv, NEW capability \in Used, Switch(capability)
    PROVE  RecordInv'
<1>1. PICK setting \in {"on", "off"} : enabled' = [enabled EXCEPT ![capability] = setting]
  BY DEF Switch
<1>2. UNCHANGED <<asking, invocations, proposals, deciding>>
  BY DEF Switch
<1>3. /\ enabled' \in [Used -> {"default", "on", "off"}]
      /\ \A c \in Used : Opted(c) => Opted(c)'
  BY <1>1 DEF RecordInv, Opted
<1>4. Askable' /\ Room' /\ Accounted'
  BY <1>2, <1>3 DEF RecordInv, Askable, Room, Busy, Accounted
<1>5. OptedIn' /\ \A i \in DOMAIN invocations' : invocations'[i].capability \in Used
  BY <1>2, <1>3 DEF RecordInv, OptedIn, Opted
<1>6. QED
  BY <1>3, <1>4, <1>5 DEF RecordInv

LEMMA AskRecord ==
    ASSUME WellConfigured, IInv, RecordInv, NEW c \in Callers, NEW capability \in Used, NEW context,
           context \in IF c = "ai" THEN ScanContexts ELSE RunContexts, Ask(c, capability, context)
    PROVE  RecordInv'
<1>1. /\ asking[c] = Nil /\ Len(invocations) < MaxInvocations /\ Enabled(capability)
      /\ asking' = [asking EXCEPT ![c] = Asked(capability, context)]
      /\ UNCHANGED <<enabled, invocations, proposals, deciding>>
  BY DEF Ask
<1>2. PICK U : asking \in [Callers -> U]
  BY DEF IInv, Shapes
<1>3. Opted(capability)
  BY <1>1 DEF Enabled, Opted
<1>4. /\ asking'[c] = Asked(capability, context) /\ \A d \in Callers \ {c} : asking'[d] = asking[d]
      /\ Asked(capability, context).capability = capability /\ Asked(capability, context).context = context
  BY <1>1, <1>2 DEF Asked
<1>5. \A k \in Used : Opted(k)' = Opted(k)
  BY <1>1 DEF Opted
<1>6. Askable'
  <2> SUFFICES ASSUME NEW d \in Callers, asking'[d] # Nil
               PROVE  /\ asking'[d].capability \in Used
                      /\ ~Registry[asking'[d].capability].byDefault => enabled'[asking'[d].capability] # "default"
                      /\ asking'[d].context \in IF d = "ai" THEN ScanContexts ELSE RunContexts
    BY DEF Askable, Opted
  <2>1. CASE d = c
    BY <1>1, <1>3, <1>4, <2>1 DEF Opted
  <2>2. CASE d # c
    BY <1>1, <1>4, <2>2 DEF RecordInv, Askable, Opted
  <2>3. QED
    BY <2>1, <2>2
<1>7. Room'
  <2>1. Len(invocations) \in Nat /\ MaxInvocations \in Nat
    BY DEF IInv, Shapes, WellConfigured
  <2>2. Busy("workflow")' \in {0, 1} /\ Busy("ai")' \in {0, 1}
    BY DEF Busy
  <2>3. Len(invocations') + Busy("workflow")' + Busy("ai")' <= MaxInvocations + 2
    BY <1>1, <2>1, <2>2
  <2>4. QED
    BY <1>1, <2>3 DEF RecordInv, Room
<1>8. QED
  BY <1>1, <1>6, <1>7 DEF RecordInv, Accounted, OptedIn

\* A row is written for what was asked.
LEMMA WrittenRecord ==
    ASSUME WellConfigured, IInv, RecordInv, NEW c \in Callers, asking[c] # Nil, NEW status,
           invocations' = Append(invocations, Row(c, status)), asking' = [asking EXCEPT ![c] = Nil],
           UNCHANGED enabled
    PROVE  /\ Askable' /\ Accounted' /\ OptedIn'
           /\ \A i \in DOMAIN invocations' : invocations'[i].capability \in Used
           /\ DOMAIN invocations' = 1..Len(invocations) + 1 /\ Len(invocations) \in Nat
           /\ Len(invocations') + Busy("workflow")' + Busy("ai")' <= MaxInvocations + 2
<1>1. PICK U, T : invocations \in Seq(U) /\ asking \in [Callers -> T]
  BY DEF IInv, Shapes
<1>2. PICK row : row = Row(c, status)
  OBVIOUS
<1>3. /\ invocations' = Append(invocations, row) /\ invocations \in Seq(U \cup {row})
      /\ row.capability = asking[c].capability
  BY <1>1, <1>2 DEF Row
<1>4. /\ DOMAIN invocations' = 1..Len(invocations) + 1 /\ Len(invocations) \in Nat
      /\ Len(invocations') = Len(invocations) + 1
      /\ \A i \in DOMAIN invocations' : IF i = Len(invocations) + 1 THEN invocations'[i] = row
                                        ELSE i \in DOMAIN invocations /\ invocations'[i] = invocations[i]
  BY <1>3
<1>5. asking[c].capability \in Used /\ Opted(asking[c].capability)
  BY DEF RecordInv, Askable
<1>6. \A k \in Used : Opted(k)' = Opted(k)
  BY DEF Opted
<1>7. asking'[c] = Nil /\ \A d \in Callers \ {c} : asking'[d] = asking[d]
  BY <1>1
<1>8. Askable'
  BY <1>6, <1>7 DEF RecordInv, Askable
<1>9. /\ row.sent \cap row.withheld = {}
      /\ row.by = "ai" => row.sent \cup row.withheld = row.given
  BY <1>2, RowAccounted DEF IInv, Shapes, RecordInv, Askable
<1>10. Accounted'
  BY <1>4, <1>9 DEF RecordInv, Accounted
<1>11. OptedIn' /\ \A i \in DOMAIN invocations' : invocations'[i].capability \in Used
  BY <1>3, <1>4, <1>5, <1>6 DEF RecordInv, OptedIn, Opted
<1>12. Len(invocations') + Busy("workflow")' + Busy("ai")' <= MaxInvocations + 2
  <2>1. /\ Len(invocations) + Busy("workflow") + Busy("ai") <= MaxInvocations + 2 /\ MaxInvocations \in Nat
        /\ Busy("workflow") \in {0, 1} /\ Busy("ai") \in {0, 1}
    BY DEF RecordInv, Room, Busy, WellConfigured
  <2>2. CASE c = "workflow"
    <3>1. Busy("workflow") = 1 /\ Busy("workflow")' = 0 /\ Busy("ai")' = Busy("ai")
      BY <1>7, <2>2 DEF Busy, Callers
    <3>2. QED
      BY <1>4, <2>1, <3>1
  <2>3. CASE c = "ai"
    <3>1. Busy("ai") = 1 /\ Busy("ai")' = 0 /\ Busy("workflow")' = Busy("workflow")
      BY <1>7, <2>3 DEF Busy, Callers
    <3>2. QED
      BY <1>4, <2>1, <3>1
  <2>4. QED
    BY <2>2, <2>3 DEF Callers
<1>13. QED
  BY <1>4, <1>8, <1>10, <1>11, <1>12

\* An answer that is lost, or undone, leaves no row.
LEMMA UnwrittenRecord ==
    ASSUME WellConfigured, IInv, RecordInv, NEW c \in Callers, asking' = [asking EXCEPT ![c] = Nil],
           UNCHANGED <<enabled, invocations, proposals>>
    PROVE  RecordInv'
<1>1. PICK T : asking \in [Callers -> T]
  BY DEF IInv, Shapes
<1>2. asking'[c] = Nil /\ \A d \in Callers \ {c} : asking'[d] = asking[d]
  BY <1>1
<1>3. Askable'
  BY <1>2 DEF RecordInv, Askable, Opted
<1>4. Room'
  <2>1. /\ Busy("workflow")' \in {0, Busy("workflow")} /\ Busy("ai")' \in {0, Busy("ai")}
        /\ Busy("workflow") \in {0, 1} /\ Busy("ai") \in {0, 1}
    BY <1>2 DEF Busy, Callers
  <2>2. Len(invocations) \in Nat /\ MaxInvocations \in Nat
    BY DEF IInv, Shapes, WellConfigured
  <2>3. Len(invocations) + Busy("workflow")' + Busy("ai")' <= MaxInvocations + 2
    BY <2>1, <2>2 DEF RecordInv, Room
  <2>4. QED
    BY <2>3 DEF RecordInv, Room
<1>5. QED
  BY <1>3, <1>4 DEF RecordInv, Accounted, OptedIn

LEMMA AnswerRecord ==
    ASSUME WellConfigured, IInv, RecordInv, NEW c \in Callers, Answer(c)
    PROVE  RecordInv'
<1>1. PICK outcome \in Outcomes(asking[c].capability) :
        LET regulated == Registry[asking[c].capability].regulated
            raised == [i \in 1..outcome.written |-> Proposal(Len(invocations) + 1, regulated)] IN
        /\ Len(proposals) + outcome.written <= MaxProposals
        /\ IF c = "ai" /\ ~outcome.complete THEN UNCHANGED <<invocations, proposals>>
           ELSE /\ invocations' = Append(invocations, Row(c, "completed"))
                /\ proposals' = proposals \o raised
  BY DEF Answer
<1>2. asking[c] # Nil /\ asking' = [asking EXCEPT ![c] = Nil] /\ UNCHANGED <<enabled, deciding>>
  BY DEF Answer
<1>3. CASE c = "ai" /\ ~outcome.complete
  BY <1>1, <1>2, <1>3, UnwrittenRecord
<1>4. CASE ~(c = "ai" /\ ~outcome.complete)
  <2>1. PICK regulated, n, raised :
          /\ n = outcome.written /\ regulated = Registry[asking[c].capability].regulated
          /\ raised = [i \in 1..n |-> Proposal(Len(invocations) + 1, regulated)]
          /\ Len(proposals) + n <= MaxProposals
          /\ invocations' = Append(invocations, Row(c, "completed")) /\ proposals' = proposals \o raised
    BY <1>1, <1>4
  <2>2. /\ Askable' /\ Accounted' /\ OptedIn'
        /\ \A i \in DOMAIN invocations' : invocations'[i].capability \in Used
        /\ DOMAIN invocations' = 1..Len(invocations) + 1 /\ Len(invocations) \in Nat
        /\ Len(invocations') + Busy("workflow")' + Busy("ai")' <= MaxInvocations + 2
    BY <1>2, <2>1, WrittenRecord
  <2>3. regulated \in BOOLEAN /\ n \in Nat /\ Len(invocations) + 1 \in Nat
    BY <1>2, <2>1, <2>2, RegistryShape, OutcomeShape DEF IInv, Shapes, WellConfigured
  <2>4. raised \in Seq(AnyProposal) /\ Len(raised) = n /\ \A i \in DOMAIN raised : raised[i].invocation = Len(invocations) + 1
    <3>1. raised \in Seq(AnyProposal)
      BY <2>1, <2>3, RaisedShape
    <3>2. PICK row : row = Proposal(Len(invocations) + 1, regulated) /\ row.invocation = Len(invocations) + 1
      <4>1. Proposal(Len(invocations) + 1, regulated).invocation = Len(invocations) + 1
        BY DEF Proposal
      <4>2. QED
        BY <4>1
    <3>3. DOMAIN raised = 1..n /\ Len(raised) = n /\ \A i \in 1..n : raised[i] = row
      BY SMTT(30), <2>1, <2>3, <3>1, <3>2
    <3>4. QED
      BY <3>1, <3>2, <3>3
  <2>5. proposals \in Seq(AnyProposal) /\ DOMAIN invocations = 1..Len(invocations)
    BY DEF IInv, Shapes
  <2>c. proposals' = proposals \o raised
    BY <2>1
  <2>6. Len(proposals') = Len(proposals) + n
    BY <2>c, <2>4, <2>5, ConcatProperties
  <2>7. \A i \in DOMAIN proposals' : \/ i \in DOMAIN proposals /\ proposals'[i] = proposals[i]
                                     \/ proposals'[i].invocation = Len(invocations) + 1
    <3>1. /\ DOMAIN proposals = 1..Len(proposals) /\ Len(proposals) \in Nat
          /\ DOMAIN proposals' = 1..Len(proposals) + n /\ DOMAIN raised = 1..n
      <4>1. proposals' \in Seq(AnyProposal)
        BY <2>c, <2>4, <2>5, ConcatProperties
      <4>2. DOMAIN proposals = 1..Len(proposals) /\ Len(proposals) \in Nat
        BY <2>5, LenProperties
      <4>3. DOMAIN proposals' = 1..Len(proposals')
        BY <4>1, LenProperties
      <4>4. DOMAIN raised = 1..n
        BY <2>4, LenProperties
      <4>5. QED
        BY <2>6, <4>2, <4>3, <4>4, Zenon
    <3>2. \A i \in 1..Len(proposals) + n :
              proposals'[i] = IF i <= Len(proposals) THEN proposals[i] ELSE raised[i - Len(proposals)]
      BY <2>c, <2>4, <2>5, ConcatProperties
    <3>3. \A i \in 1..Len(proposals) + n : i > Len(proposals) => i - Len(proposals) \in 1..n
      BY <2>3, <3>1
    <3>4. QED
      BY <2>3, <2>4, <3>1, <3>2, <3>3
  <2>8. \A i \in DOMAIN proposals' : proposals'[i].invocation \in DOMAIN invocations'
    BY <2>2, <2>5, <2>7 DEF RecordInv, Room
  <2>9. QED
    BY <1>2, <2>1, <2>2, <2>6, <2>8 DEF RecordInv, Room
<1>5. QED
  BY <1>3, <1>4

LEMMA FailRecord ==
    ASSUME WellConfigured, IInv, RecordInv, NEW c \in Callers, Fail(c)
    PROVE  RecordInv'
<1>1. /\ asking[c] # Nil /\ invocations' = Append(invocations, Row(c, "failed"))
      /\ asking' = [asking EXCEPT ![c] = Nil] /\ UNCHANGED <<enabled, proposals>>
  BY DEF Fail
<1>2. /\ Askable' /\ Accounted' /\ OptedIn'
      /\ \A i \in DOMAIN invocations' : invocations'[i].capability \in Used
      /\ DOMAIN invocations' = 1..Len(invocations) + 1 /\ Len(invocations) \in Nat
      /\ Len(invocations') + Busy("workflow")' + Busy("ai")' <= MaxInvocations + 2
  BY <1>1, WrittenRecord
<1>3. DOMAIN invocations = 1..Len(invocations)
  BY DEF IInv, Shapes
<1>4. QED
  BY <1>1, <1>2, <1>3 DEF RecordInv, Room

LEMMA ProposeFieldRecord ==
    ASSUME WellConfigured, IInv, RecordInv, ProposeField
    PROVE  RecordInv'
<1>1. PICK last \in DOMAIN invocations : proposals' = Append(proposals, Proposal(last, TRUE))
  BY DEF ProposeField
<1>2. Len(proposals) < MaxProposals /\ UNCHANGED <<enabled, asking, invocations, deciding>>
  BY DEF ProposeField
<1>3. proposals \in Seq(AnyProposal) /\ MaxProposals \in Nat
  BY DEF IInv, Shapes, WellConfigured
<1>4. PICK proposal : proposal = Proposal(last, TRUE) /\ proposal.invocation = last
  <2>1. Proposal(last, TRUE).invocation = last
    BY DEF Proposal
  <2>2. QED
    BY <2>1
<1>5. /\ Len(proposals') = Len(proposals) + 1
      /\ \A i \in DOMAIN proposals' : \/ i \in DOMAIN proposals /\ proposals'[i] = proposals[i]
                                      \/ proposals'[i] = proposal
  <2>1. proposals \in Seq(AnyProposal \cup {proposal}) /\ proposals' = Append(proposals, proposal)
    <3>1. proposals \in Seq(AnyProposal \cup {proposal})
      BY <1>3
    <3>2. QED
      BY <1>1, <1>4, <3>1
  <2>2. QED
    BY <2>1
<1>6. Len(proposals') <= MaxProposals
  BY <1>2, <1>3, <1>5
<1>7. Room'
  BY <1>2, <1>4, <1>5, <1>6 DEF RecordInv, Room, Busy
<1>8. QED
  BY <1>2, <1>7 DEF RecordInv, Askable, Opted, Accounted, OptedIn

LEMMA DecisionRecord ==
    ASSUME WellConfigured, IInv, RecordInv, NEW person \in People,
           \/ \E i \in DOMAIN proposals, status \in {"active", "suspended"}, mfa \in BOOLEAN :
                  Look(person, i, status, mfa)
           \/ Decide(person)
    PROVE  RecordInv'
<1>1. UNCHANGED <<enabled, asking, invocations>>
  BY DEF Look, Decide
<1>2. /\ Len(proposals') = Len(proposals)
      /\ \A i \in DOMAIN proposals' : i \in DOMAIN proposals /\ proposals'[i].invocation = proposals[i].invocation
  <2>1. CASE UNCHANGED proposals
    BY <2>1
  <2>2. ASSUME NEW decision, NEW i,
               proposals' = [proposals EXCEPT ![i].status = decision, ![i].by = person,
                                              ![i].secondFactor = deciding[person].mfa]
        PROVE  <1>2!1 /\ <1>2!2
    BY <2>2 DEF IInv, Shapes, AnyProposal
  <2>3. QED
    BY <2>1, <2>2 DEF Look, Decide
<1>3. Room'
  BY <1>1, <1>2 DEF RecordInv, Room, Busy
<1>4. QED
  BY <1>1, <1>3 DEF RecordInv, Askable, Opted, Accounted, OptedIn

LEMMA RecordStep ==
    ASSUME WellConfigured, IInv, RecordInv, [Next]_vars
    PROVE  RecordInv'
<1>1. CASE AskFromRun
  <2>1. PICK capability \in Capabilities, context \in RunContexts : Ask("workflow", capability, context)
    BY <1>1 DEF AskFromRun
  <2>2. capability \in Used /\ "workflow" \in Callers /\ "workflow" # "ai"
    BY DEF Used, Callers
  <2>3. QED
    BY <2>1, <2>2, AskRecord
<1>2. CASE AskFromScan
  <2>1. PICK context \in ScanContexts : Ask("ai", "vulnerabilityIndicators", context)
    BY <1>2 DEF AskFromScan
  <2>2. "vulnerabilityIndicators" \in Used /\ "ai" \in Callers
    BY DEF Used, Callers
  <2>3. QED
    BY <2>1, <2>2, AskRecord
<1>3. ASSUME NEW c \in Callers, Lose(c) PROVE RecordInv'
  BY <1>3, UnwrittenRecord DEF Lose
<1>4. CASE UNCHANGED vars
  BY <1>4 DEF vars, RecordInv, Askable, Opted, Room, Busy, Accounted, OptedIn
<1>5. QED
  BY <1>1, <1>2, <1>3, <1>4, SwitchRecord, AnswerRecord, FailRecord, ProposeFieldRecord, DecisionRecord
     DEF Next

LEMMA Typed ==
    ASSUME WellConfigured, IInv, RecordInv
    PROVE  TypeOK
<1>1. Cardinality(Callers) = 2
  <2>1. "workflow" # "ai"
    OBVIOUS
  <2>2. Cardinality({"workflow"}) = 1 /\ IsFiniteSet({"workflow"})
    BY FS_Singleton
  <2>3. Callers = {"workflow"} \cup {"ai"}
    BY DEF Callers
  <2>4. QED
    BY <2>1, <2>2, <2>3, FS_AddElement
<1>2. Len(invocations) \in Nat /\ MaxInvocations \in Nat /\ Busy("workflow") \in {0, 1} /\ Busy("ai") \in {0, 1}
  BY DEF IInv, Shapes, WellConfigured, Busy
<1>3. Len(invocations) <= MaxInvocations + 2
  BY <1>2 DEF RecordInv, Room
<1>4. QED
  BY <1>1, <1>3 DEF RecordInv, Room, TypeOK

\* An instance counts as this module does.
LEMMA SameCount ==
    ASSUME NEW T
    PROVE  S!Cardinality(T) = Cardinality(T) /\ K!Cardinality(T) = Cardinality(T)
  BY DEF S!Cardinality, K!Cardinality, Cardinality

-----------------------------------------------------------------------------
(* Sessions. *)

\* The sign-ins that have read the account.
Trying(u) == {p \in Attempts : attempt[p] # Nil /\ attempt[p].user = u}

SessionTypes ==
    /\ user \in [Users -> S!Account]
    /\ session \in [SessionIds -> S!Session \cup {Nil}]
    /\ attempt \in [Attempts -> [user: Users, seen: S!Account] \cup {Nil}]
    /\ guesses \in [Users -> Nat]

\* While an account is locked nobody new reads it; while it is not, every guess is counted.
GuessesLeft(u) ==
    IF user[u].locked
    THEN guesses[u] + Cardinality(Trying(u)) <= MaxFailures + Cardinality(Attempts) - 1
    ELSE guesses[u] < MaxFailures /\ guesses[u] <= user[u].failures

SessionInv == SessionTypes /\ \A u \in Users : GuessesLeft(u)

LEMMA TryingFinite ==
    ASSUME NEW u
    PROVE  /\ IsFiniteSet(Trying(u)) /\ Cardinality(Trying(u)) \in Nat
           /\ IsFiniteSet(Trying(u)') /\ Cardinality(Trying(u)') \in Nat
           /\ Cardinality(Attempts) \in Nat
           /\ Cardinality(Trying(u)') <= Cardinality(Attempts)
<1>1. Trying(u) \in SUBSET Attempts /\ Trying(u)' \in SUBSET Attempts
  BY DEF Trying
<1>2. IsFiniteSet(Attempts)
  BY FirmAssumption
<1>3. QED
  BY <1>1, <1>2, FS_Subset, FS_CardinalityType

LEMMA SessionsInit == S!Init => SessionInv
<1> SUFFICES ASSUME S!Init PROVE SessionInv
  OBVIOUS
<1>1. SessionTypes
  BY FirmAssumption DEF S!Init, SessionTypes, S!Account
<1>2. \A u \in Users : GuessesLeft(u)
  BY FirmAssumption DEF S!Init, GuessesLeft
<1>3. QED
  BY <1>1, <1>2 DEF SessionInv

\* A sign-in that is over is out of the way of its own account and of no other.
LEMMA NoLongerTrying ==
    ASSUME SessionTypes, NEW p \in Attempts, attempt[p] # Nil, attempt' = [attempt EXCEPT ![p] = Nil],
           NEW u \in Users
    PROVE  Cardinality(Trying(u)') = IF u = attempt[p].user THEN Cardinality(Trying(u)) - 1
                                                             ELSE Cardinality(Trying(u))
<1>1. Trying(u)' = Trying(u) \ {p} /\ (p \in Trying(u) <=> u = attempt[p].user)
  BY DEF SessionTypes, Trying
<1>2. QED
  BY <1>1, TryingFinite, FS_RemoveElement

\* The sign-ins that end without touching the account's count.
LEMMA Withdraw ==
    ASSUME SessionInv, NEW p \in Attempts, attempt[p] # Nil, attempt' = [attempt EXCEPT ![p] = Nil],
           UNCHANGED <<user, guesses>>, NEW u \in Users
    PROVE  GuessesLeft(u)'
<1>1. GuessesLeft(u) /\ guesses[u] \in Nat
  BY DEF SessionInv, SessionTypes
<1>2. Cardinality(Trying(u)') <= Cardinality(Trying(u))
  <2>1. Cardinality(Trying(u)') = IF u = attempt[p].user THEN Cardinality(Trying(u)) - 1
                                                         ELSE Cardinality(Trying(u))
    BY NoLongerTrying DEF SessionInv
  <2>2. Cardinality(Trying(u)) \in Nat
    BY TryingFinite
  <2>3. QED
    BY <2>1, <2>2
<1>3. QED
  BY <1>1, <1>2, TryingFinite, FirmAssumption DEF GuessesLeft

LEMMA ReadStep ==
    ASSUME SessionInv, NEW p \in Attempts, NEW v \in Users, S!Read(p, v)
    PROVE  SessionInv' /\ S!NotRevived
<1>1. /\ attempt[p] = Nil /\ ~user[v].locked
      /\ attempt' = [attempt EXCEPT ![p] = [user |-> v, seen |-> user[v]]]
      /\ UNCHANGED <<user, session, guesses>>
  BY DEF S!Read
<1>2. SessionTypes'
  BY <1>1 DEF SessionInv, SessionTypes
<1>3. ASSUME NEW u \in Users PROVE GuessesLeft(u)'
  <2>1. GuessesLeft(u)
    BY DEF SessionInv
  <2>2. CASE u = v
    BY <1>1, <2>1, <2>2 DEF GuessesLeft
  <2>3. CASE u # v
    <3>1. Trying(u)' = Trying(u)
      BY <1>1, <2>3, FirmAssumption DEF Trying, SessionInv, SessionTypes
    <3>2. QED
      BY <1>1, <2>1, <3>1 DEF GuessesLeft
  <2>4. QED
    BY <2>2, <2>3
<1>4. QED
  BY <1>1, <1>2, <1>3 DEF SessionInv, S!NotRevived, S!Dead

LEMMA FailedFits ==
    ASSUME NEW row \in S!Account, NEW seen
    PROVE  /\ S!Failed(row, seen) \in S!Account
           /\ S!Failed(row, seen).locked = (row.locked \/ row.failures + 1 >= MaxFailures)
           /\ row.failures + 1 < MaxFailures => S!Failed(row, seen).failures = row.failures + 1
<1>1. row.failures \in Nat /\ row.locked \in BOOLEAN /\ row.active \in BOOLEAN
  BY DEF S!Account
<1>2. S!Capped(row.failures + 1) \in 0 .. MaxFailures
  BY <1>1, FirmAssumption DEF S!Capped
<1>3. PICK n \in 0 .. MaxFailures : n = S!Capped(row.failures + 1)
  BY <1>2
<1>4. PICK l \in BOOLEAN : l = (row.locked \/ row.failures + 1 >= MaxFailures)
  BY <1>1
<1>5. S!Failed(row, seen) = [row EXCEPT !.failures = n, !.locked = l]
  BY <1>3, <1>4 DEF S!Failed
<1>6. /\ [row EXCEPT !.failures = n, !.locked = l] \in S!Account
      /\ [row EXCEPT !.failures = n, !.locked = l].locked = l
      /\ [row EXCEPT !.failures = n, !.locked = l].failures = n
  BY DEF S!Account
<1>7. row.failures + 1 < MaxFailures => n = row.failures + 1
  BY <1>1, <1>3, FirmAssumption DEF S!Capped
<1>8. QED
  BY <1>4, <1>5, <1>6, <1>7

LEMMA RegisterFailureStep ==
    ASSUME SessionInv, NEW p \in Attempts, S!RegisterFailure(p)
    PROVE  SessionInv' /\ S!NotRevived
<1>0. attempt[p] # Nil /\ attempt[p].user \in Users
  BY DEF S!RegisterFailure, SessionInv, SessionTypes
<1>1. PICK v \in Users : v = attempt[p].user
  BY <1>0
<1>2. PICK seen : seen = attempt[p].seen
  OBVIOUS
<1>3. /\ user' = [user EXCEPT ![v] = S!Failed(user[v], seen)]
      /\ guesses' = [guesses EXCEPT ![v] = guesses[v] + 1]
      /\ attempt' = [attempt EXCEPT ![p] = Nil]
      /\ UNCHANGED session
  BY <1>1, <1>2 DEF S!RegisterFailure
<1>4. user[v] \in S!Account /\ guesses[v] \in Nat /\ user[v].failures \in Nat /\ user[v].locked \in BOOLEAN
  BY DEF SessionInv, SessionTypes, S!Account
<1>5. SessionTypes'
  <2>1. user' \in [Users -> S!Account]
    BY <1>3, <1>4, FailedFits DEF SessionInv, SessionTypes
  <2>2. QED
    BY <1>3, <1>4, <2>1 DEF SessionInv, SessionTypes
<1>6. ASSUME NEW u \in Users PROVE GuessesLeft(u)'
  <2>0. GuessesLeft(u)
    BY DEF SessionInv
  <2>1. CASE u # v
    <3>1. user'[u] = user[u] /\ guesses'[u] = guesses[u] /\ Cardinality(Trying(u)') = Cardinality(Trying(u))
      BY <1>0, <1>1, <1>3, <2>1, NoLongerTrying DEF SessionInv, SessionTypes
    <3>2. QED
      BY <2>0, <3>1 DEF GuessesLeft
  <2>2. CASE u = v
    <3>1. /\ guesses'[u] = guesses[u] + 1 /\ user'[u] = S!Failed(user[v], seen)
          /\ Cardinality(Trying(u)') = Cardinality(Trying(u)) - 1
      BY <1>0, <1>1, <1>3, <2>2, NoLongerTrying DEF SessionInv, SessionTypes
    <3>2. Cardinality(Trying(u)) \in Nat /\ Cardinality(Trying(u)') \in Nat /\ Cardinality(Attempts) \in Nat
      BY TryingFinite
    <3>f. /\ user'[u].locked = (user[v].locked \/ user[v].failures + 1 >= MaxFailures)
          /\ user[v].failures + 1 < MaxFailures => user'[u].failures = user[v].failures + 1
      BY <1>4, <3>1, FailedFits
    <3>3. CASE user[v].locked
      <4>1. user'[u].locked
        BY <3>3, <3>f
      <4>2. guesses[u] + Cardinality(Trying(u)) <= MaxFailures + Cardinality(Attempts) - 1
        BY <2>0, <2>2, <3>3 DEF GuessesLeft
      <4>3. QED
        BY <1>4, <2>2, <3>1, <3>2, <4>1, <4>2, FirmAssumption DEF GuessesLeft
    <3>4. CASE ~user[v].locked /\ user[v].failures + 1 >= MaxFailures
      <4>1. user'[u].locked
        BY <3>4, <3>f
      <4>2. Cardinality(Trying(u)) <= Cardinality(Attempts)
        <5>1. Trying(u) \in SUBSET Attempts
          BY DEF Trying
        <5>2. QED
          BY <5>1, FS_Subset, FirmAssumption
      <4>3. guesses[u] < MaxFailures
        BY <2>0, <2>2, <3>4 DEF GuessesLeft
      <4>4. QED
        BY <1>4, <2>2, <3>1, <3>2, <4>1, <4>2, <4>3, FirmAssumption DEF GuessesLeft
    <3>5. CASE ~user[v].locked /\ user[v].failures + 1 < MaxFailures
      <4>1. ~user'[u].locked /\ user'[u].failures = user[v].failures + 1
        BY <1>4, <3>5, <3>f, FirmAssumption
      <4>2. guesses[u] <= user[v].failures
        BY <2>0, <2>2, <3>5 DEF GuessesLeft
      <4>3. QED
        BY <1>4, <2>2, <3>1, <3>5, <4>1, <4>2, FirmAssumption DEF GuessesLeft
    <3>6. QED
      BY <1>4, <3>3, <3>4, <3>5, FirmAssumption
  <2>3. QED
    BY <2>1, <2>2
<1>7. QED
  BY <1>3, <1>5, <1>6 DEF SessionInv, S!NotRevived, S!Dead

LEMMA WithdrawStep ==
    ASSUME SessionInv, NEW p \in Attempts, S!Refuse(p) \/ S!Abandon(p)
    PROVE  SessionInv' /\ S!NotRevived
<1>1. attempt[p] # Nil /\ attempt' = [attempt EXCEPT ![p] = Nil] /\ UNCHANGED <<user, session, guesses>>
  BY DEF S!Refuse, S!Abandon
<1>2. SessionTypes'
  BY <1>1 DEF SessionInv, SessionTypes
<1>3. \A u \in Users : GuessesLeft(u)'
  BY <1>1, Withdraw
<1>4. QED
  BY <1>1, <1>2, <1>3 DEF SessionInv, S!NotRevived, S!Dead

LEMMA OpenedFits ==
    ASSUME SessionTypes, NEW s \in SessionIds, NEW u \in Users, NEW mfa \in BOOLEAN, S!Opened(s, u, mfa)
    PROVE  session' \in [SessionIds -> S!Session \cup {Nil}] /\ S!NotRevived
  BY FirmAssumption DEF S!Opened, SessionTypes, S!Session, S!NotRevived, S!Dead

LEMMA OpenHalfStep ==
    ASSUME SessionInv, NEW p \in Attempts, NEW s \in SessionIds, S!OpenHalf(p, s)
    PROVE  SessionInv' /\ S!NotRevived
<1>0. attempt[p] # Nil /\ attempt[p].user \in Users
  BY DEF S!OpenHalf, SessionInv, SessionTypes
<1>1. S!Opened(s, attempt[p].user, FALSE) /\ attempt' = [attempt EXCEPT ![p] = Nil] /\ UNCHANGED <<user, guesses>>
  BY DEF S!OpenHalf
<1>2. session' \in [SessionIds -> S!Session \cup {Nil}] /\ S!NotRevived
  BY <1>0, <1>1, OpenedFits DEF SessionInv
<1>3. SessionTypes'
  BY <1>1, <1>2 DEF SessionInv, SessionTypes
<1>4. \A u \in Users : GuessesLeft(u)'
  BY <1>0, <1>1, Withdraw
<1>5. QED
  BY <1>2, <1>3, <1>4 DEF SessionInv

LEMMA SignInStep ==
    ASSUME SessionInv, NEW p \in Attempts, NEW s \in SessionIds, S!SignIn(p, s)
    PROVE  SessionInv' /\ S!NotRevived
<1>0. attempt[p] # Nil /\ attempt[p].user \in Users
  BY DEF S!SignIn, SessionInv, SessionTypes
<1>1. PICK v \in Users : v = attempt[p].user
  BY <1>0
<1>2. /\ S!Opened(s, v, v \in Enrolled) /\ attempt' = [attempt EXCEPT ![p] = Nil]
      /\ user' = [user EXCEPT ![v] = [user[v] EXCEPT !.failures = 0, !.locked = FALSE]]
      /\ guesses' = [guesses EXCEPT ![v] = 0]
  BY <1>1 DEF S!SignIn, SessionInv, SessionTypes
<1>3. session' \in [SessionIds -> S!Session \cup {Nil}] /\ S!NotRevived
  <2>1. (v \in Enrolled) \in BOOLEAN
    OBVIOUS
  <2>2. QED
    BY <1>2, <2>1, OpenedFits DEF SessionInv
<1>4. SessionTypes'
  <2>1. user[v] \in S!Account /\ user \in [Users -> S!Account]
    BY DEF SessionInv, SessionTypes
  <2>2. [user[v] EXCEPT !.failures = 0, !.locked = FALSE] \in S!Account
    <3>1. PICK row \in S!Account, n \in 0 .. MaxFailures : row = user[v] /\ n = 0
      BY <2>1, FirmAssumption
    <3>2. [row EXCEPT !.failures = n, !.locked = FALSE] \in S!Account
      BY DEF S!Account
    <3>3. QED
      BY <3>1, <3>2
  <2>3. user' \in [Users -> S!Account]
    BY <1>2, <2>1, <2>2
  <2>4. guesses' \in [Users -> Nat] /\ attempt' \in [Attempts -> [user: Users, seen: S!Account] \cup {Nil}]
    BY <1>2 DEF SessionInv, SessionTypes
  <2>5. QED
    BY <1>3, <2>3, <2>4 DEF SessionTypes
<1>5. ASSUME NEW u \in Users PROVE GuessesLeft(u)'
  <2>1. CASE u = v
    BY <1>2, <2>1, FirmAssumption DEF GuessesLeft, SessionInv, SessionTypes, S!Account
  <2>2. CASE u # v
    <3>1. user'[u] = user[u] /\ guesses'[u] = guesses[u] /\ Cardinality(Trying(u)') = Cardinality(Trying(u))
      BY <1>0, <1>1, <1>2, <2>2, NoLongerTrying DEF SessionInv, SessionTypes
    <3>2. QED
      BY <3>1 DEF GuessesLeft, SessionInv
  <2>3. QED
    BY <2>1, <2>2
<1>6. QED
  BY <1>3, <1>4, <1>5 DEF SessionInv

LEMMA AccountStep ==
    ASSUME SessionInv, NEW v \in Users, S!LockExpires(v) \/ S!Suspend(v)
    PROVE  SessionInv' /\ S!NotRevived
<1>1. UNCHANGED <<session, attempt>> /\ \A u \in Users : Trying(u)' = Trying(u)
  BY DEF S!LockExpires, S!Suspend, Trying
<1>2. CASE S!LockExpires(v)
  <2>1. /\ user' = [user EXCEPT ![v] = [user[v] EXCEPT !.locked = FALSE]]
        /\ guesses' = [guesses EXCEPT ![v] = 0]
    BY <1>2 DEF S!LockExpires
  <2>2. SessionTypes'
    BY <1>1, <2>1, FirmAssumption DEF SessionInv, SessionTypes, S!Account
  <2>3. \A u \in Users : GuessesLeft(u)'
    BY <1>1, <2>1, FirmAssumption DEF GuessesLeft, SessionInv, SessionTypes, S!Account
  <2>4. QED
    BY <1>1, <2>2, <2>3 DEF SessionInv, S!NotRevived, S!Dead
<1>3. CASE S!Suspend(v)
  <2>1. user' = [user EXCEPT ![v] = [user[v] EXCEPT !.active = FALSE]] /\ UNCHANGED guesses
    BY <1>3 DEF S!Suspend
  <2>2. SessionTypes'
    BY <1>1, <2>1 DEF SessionInv, SessionTypes, S!Account
  <2>3. \A u \in Users : user'[u].failures = user[u].failures /\ user'[u].locked = user[u].locked
    BY <2>1 DEF SessionInv, SessionTypes, S!Account
  <2>4. \A u \in Users : GuessesLeft(u)'
    BY <1>1, <2>1, <2>3 DEF GuessesLeft, SessionInv
  <2>5. QED
    BY <1>1, <2>2, <2>4 DEF SessionInv, S!NotRevived, S!Dead
<1>4. QED
  BY <1>2, <1>3

\* What happens to a session later touches no account.
LEMMA SessionStep ==
    ASSUME SessionInv,
           \/ \E s \in SessionIds : S!Resolve(s) \/ S!CompleteMfa(s) \/ S!Revoke(s) \/ S!Time(s)
           \/ \E u \in Users, kept \in SessionIds \cup {Nil} : S!RevokeOthers(u, kept)
    PROVE  SessionInv' /\ S!NotRevived
<1>1. UNCHANGED <<user, attempt, guesses>> /\ \A u \in Users : Trying(u)' = Trying(u)
  BY DEF S!Resolve, S!CompleteMfa, S!Revoke, S!Time, S!RevokeOthers, Trying
<1>2. \A u \in Users : GuessesLeft(u)'
  BY <1>1 DEF GuessesLeft, SessionInv
<1>3. session' \in [SessionIds -> S!Session \cup {Nil}] /\ S!NotRevived
  <2>0. session \in [SessionIds -> S!Session \cup {Nil}]
    BY DEF SessionInv, SessionTypes
  <2>1. ASSUME NEW s \in SessionIds, S!Resolve(s) PROVE  session' \in [SessionIds -> S!Session \cup {Nil}] /\ S!NotRevived
    BY <2>0, <2>1 DEF S!Resolve, S!Live, S!Session, S!NotRevived, S!Dead
  <2>2. ASSUME NEW s \in SessionIds, S!CompleteMfa(s) PROVE  session' \in [SessionIds -> S!Session \cup {Nil}] /\ S!NotRevived
    BY <2>0, <2>2 DEF S!CompleteMfa, S!Live, S!Session, S!NotRevived, S!Dead
  <2>3. ASSUME NEW s \in SessionIds, S!Revoke(s) PROVE  session' \in [SessionIds -> S!Session \cup {Nil}] /\ S!NotRevived
    BY ZenonT(60), <2>0, <2>3, FirmAssumption DEF S!Revoke, S!Session, S!NotRevived, S!Dead
  <2>4. ASSUME NEW s \in SessionIds, S!Time(s) PROVE  session' \in [SessionIds -> S!Session \cup {Nil}] /\ S!NotRevived
    BY <2>0, <2>4, FirmAssumption DEF S!Time, S!Session, S!NotRevived, S!Dead
  <2>5. ASSUME NEW u \in Users, NEW kept \in SessionIds \cup {Nil}, S!RevokeOthers(u, kept) PROVE  session' \in [SessionIds -> S!Session \cup {Nil}] /\ S!NotRevived
    BY ZenonT(60), <2>0, <2>5, FirmAssumption DEF S!RevokeOthers, S!Session, S!NotRevived, S!Dead
  <2>6. QED
    BY <2>1, <2>2, <2>3, <2>4, <2>5
<1>4. QED
  BY <1>1, <1>2, <1>3 DEF SessionInv, SessionTypes

LEMMA SessionsStep ==
    ASSUME SessionInv, S!Next
    PROVE  SessionInv' /\ S!NotRevived
  BY ReadStep, RegisterFailureStep, WithdrawStep, OpenHalfStep, SignInStep, AccountStep, SessionStep DEF S!Next

LEMMA GuessesBounded == SessionInv => S!LockoutBounded
<1>1. ASSUME SessionInv, NEW u \in Users
      PROVE  guesses[u] <= MaxFailures + Cardinality(Attempts) - 1
  <2>1. guesses[u] \in Nat /\ GuessesLeft(u)
    BY <1>1 DEF SessionInv, SessionTypes
  <2>2. QED
    BY <2>1, TryingFinite, FirmAssumption DEF GuessesLeft
<1>2. QED
  BY <1>1, SameCount DEF S!LockoutBounded

-----------------------------------------------------------------------------
(* ApiKeys. *)

\* The calls of a key that were let through, or refused, and are not logged yet.
Unlogged(k) == {c \in Calls : call[c].key = k /\ call[c].pc \in {"serve", "log"}}

Calling == [pc: {"idle", "check", "serve", "log"}, key: Keys \cup {Nil}]

KeyTypes ==
    /\ key \in [Keys -> {"live", "revoked", "expired"}]
    /\ used \in [Keys -> 0 .. Limit + 1]
    /\ call \in [Calls -> Calling]
    /\ \A c \in Calls : call[c].pc # "idle" => call[c].key \in Keys
    /\ admitted \in [Keys -> Nat] /\ lost \in [Keys -> Nat]

\* Whatever was let through is logged, about to be, or lost.
Counted(k) == used[k] <= Limit => admitted[k] <= used[k] + lost[k] + Cardinality(Unlogged(k))

KeyInv == KeyTypes /\ (\A k \in Keys : Counted(k)) /\ K!RateBounded

LEMMA UnloggedFinite ==
    ASSUME NEW k
    PROVE  /\ IsFiniteSet(Unlogged(k)) /\ Cardinality(Unlogged(k)) \in Nat
           /\ IsFiniteSet(Unlogged(k)') /\ Cardinality(Unlogged(k)') \in Nat
           /\ Cardinality(Calls) \in Nat \ {0}
<1>1. Unlogged(k) \in SUBSET Calls /\ Unlogged(k)' \in SUBSET Calls
  BY DEF Unlogged
<1>2. IsFiniteSet(Calls) /\ Calls # {}
  BY FirmAssumption
<1>3. QED
  BY <1>1, <1>2, FS_Subset, FS_CardinalityType, FS_EmptySet

\* A call that goes on adds itself to those of its key, or leaves them, and touches no others.
LEMMA CallMoves ==
    ASSUME KeyTypes, NEW c \in Calls, NEW row \in Calling,
           call' = [call EXCEPT ![c] = row], NEW k \in Keys
    PROVE  /\ row.key = k /\ row.pc \in {"serve", "log"} => Cardinality(Unlogged(k)') >= Cardinality(Unlogged(k))
           /\ c \notin Unlogged(k) => Cardinality(Unlogged(k)') >= Cardinality(Unlogged(k))
           /\ row.key = k /\ row.pc \in {"serve", "log"} /\ c \notin Unlogged(k)
                => Cardinality(Unlogged(k)') = Cardinality(Unlogged(k)) + 1
           /\ Cardinality(Unlogged(k)') >= Cardinality(Unlogged(k)) - 1
<1>0. call'[c] = row /\ \A d \in Calls \ {c} : call'[d] = call[d]
  BY DEF KeyTypes, Calling
<1>1. CASE row.key = k /\ row.pc \in {"serve", "log"}
  <2>1. Unlogged(k)' = Unlogged(k) \cup {c}
    BY <1>0, <1>1 DEF Unlogged
  <2>2. Cardinality(Unlogged(k)') = IF c \in Unlogged(k) THEN Cardinality(Unlogged(k))
                                                          ELSE Cardinality(Unlogged(k)) + 1
    BY <2>1, UnloggedFinite, FS_AddElement
  <2>3. QED
    BY <1>1, <2>2, UnloggedFinite
<1>2. CASE ~(row.key = k /\ row.pc \in {"serve", "log"})
  <2>1. Unlogged(k)' = Unlogged(k) \ {c}
    BY <1>0, <1>2 DEF Unlogged
  <2>2. Cardinality(Unlogged(k)') = IF c \in Unlogged(k) THEN Cardinality(Unlogged(k)) - 1
                                                          ELSE Cardinality(Unlogged(k))
    BY <2>1, UnloggedFinite, FS_RemoveElement
  <2>3. QED
    BY <1>2, <2>2, UnloggedFinite
<1>3. QED
  BY <1>1, <1>2

LEMMA KeysInit == K!Init => KeyInv
<1> SUFFICES ASSUME K!Init PROVE KeyInv
  OBVIOUS
<1>1. KeyTypes
  BY FirmAssumption DEF K!Init, K!NoCall, KeyTypes, Calling
<1>2. ASSUME NEW k \in Keys PROVE Counted(k)
  BY UnloggedFinite DEF K!Init, Counted
<1>3. K!RateBounded
  <2>1. Cardinality(Calls) \in Nat \ {0} /\ Limit \in Nat
    BY UnloggedFinite, FirmAssumption
  <2>2. QED
    BY <2>1, SameCount DEF K!Init, K!RateBounded
<1>4. QED
  BY <1>1, <1>2, <1>3 DEF KeyInv

LEMMA CheckStep ==
    ASSUME KeyInv, NEW c \in Calls, K!CheckRateLimit(c)
    PROVE  KeyInv'
<1>1. PICK k \in Keys : k = call[c].key
  BY DEF K!CheckRateLimit, KeyInv, KeyTypes, Calling
<1>2. PICK pc \in {"serve", "log"} : pc = IF K!Allowed(k) THEN "serve" ELSE "log"
  OBVIOUS
<1>3. /\ call[c].pc = "check" /\ call' = [call EXCEPT ![c] = [call[c] EXCEPT !.pc = pc]]
      /\ admitted' = [admitted EXCEPT ![k] = IF K!Allowed(k) THEN admitted[k] + 1 ELSE admitted[k]]
      /\ UNCHANGED <<key, used, lost>>
  BY <1>1, <1>2 DEF K!CheckRateLimit, KeyInv, KeyTypes, Calling
<1>4. PICK row \in Calling :
          row = [call[c] EXCEPT !.pc = pc] /\ row.key = k /\ row.pc = pc
  <2>1. call[c] \in Calling
    BY DEF KeyInv, KeyTypes, Calling
  <2>2. /\ [call[c] EXCEPT !.pc = pc] \in Calling
        /\ [call[c] EXCEPT !.pc = pc].key = k /\ [call[c] EXCEPT !.pc = pc].pc = pc
    BY <1>1, <2>1 DEF Calling
  <2>3. QED
    BY <2>2
<1>5. KeyTypes'
  BY <1>1, <1>3, <1>4 DEF KeyInv, KeyTypes, Calling
<1>6. ASSUME NEW j \in Keys PROVE Counted(j)' /\ admitted'[j] <= Limit + (Cardinality(Calls) - 1) + lost'[j]
  <2>0. /\ Counted(j) /\ admitted[j] \in Nat /\ used[j] \in Nat /\ lost[j] \in Nat /\ Limit \in Nat
        /\ admitted[j] <= Limit + (Cardinality(Calls) - 1) + lost[j]
    BY SameCount, FirmAssumption DEF KeyInv, KeyTypes, Calling, K!RateBounded
  <2>1. c \notin Unlogged(j)
    BY <1>3 DEF Unlogged
  <2>2. /\ Cardinality(Unlogged(j)) \in Nat /\ Cardinality(Unlogged(j)') \in Nat
        /\ Cardinality(Calls) \in Nat \ {0}
    BY UnloggedFinite
  <2>3. Cardinality(Unlogged(j)') >= Cardinality(Unlogged(j))
    BY <1>3, <1>4, <2>1, CallMoves DEF KeyInv
  <2>4. CASE j # k \/ ~K!Allowed(k)
    <3>1. admitted'[j] = admitted[j]
      BY <1>3, <2>4 DEF KeyInv, KeyTypes, Calling
    <3>2. QED
      BY <1>3, <2>0, <2>2, <2>3, <3>1 DEF Counted
  <2>5. CASE j = k /\ K!Allowed(k)
    <3>1. admitted'[j] = admitted[j] + 1
      BY <1>3, <2>5 DEF KeyInv, KeyTypes, Calling
    <3>2. Cardinality(Unlogged(j)') = Cardinality(Unlogged(j)) + 1
      BY <1>3, <1>4, <2>1, <2>5, CallMoves DEF KeyInv
    <3>3. Cardinality(Unlogged(j)) <= Cardinality(Calls) - 1
      <4>1. Unlogged(j) \in SUBSET (Calls \ {c})
        BY <2>1 DEF Unlogged
      <4>2. IsFiniteSet(Calls \ {c}) /\ Cardinality(Calls \ {c}) = Cardinality(Calls) - 1
        BY FS_RemoveElement, FirmAssumption
      <4>3. QED
        BY <4>1, <4>2, FS_Subset
    <3>4. used[j] < Limit
      BY <2>5 DEF K!Allowed
    <3>5. admitted[j] <= used[j] + lost[j] + Cardinality(Unlogged(j))
      BY <2>0, <3>4 DEF Counted
    <3>6. QED
      BY <1>3, <2>0, <2>2, <3>1, <3>2, <3>3, <3>4, <3>5 DEF Counted
  <2>6. QED
    BY <2>4, <2>5
<1>7. QED
  BY <1>5, <1>6, SameCount DEF KeyInv, K!RateBounded

LEMMA LogStep ==
    ASSUME KeyInv, NEW c \in Calls, K!LogRequest(c)
    PROVE  KeyInv'
<1>1. PICK k \in Keys : k = call[c].key
  BY DEF K!LogRequest, KeyInv, KeyTypes, Calling
<1>2. /\ call[c].pc = "log" /\ call' = [call EXCEPT ![c] = K!NoCall]
      /\ \/ /\ used' = [used EXCEPT ![k] = IF used[k] <= Limit THEN used[k] + 1 ELSE used[k]]
            /\ UNCHANGED lost
         \/ /\ lost' = [lost EXCEPT ![k] = lost[k] + 1]
            /\ UNCHANGED used
      /\ UNCHANGED <<key, admitted>>
  BY <1>1 DEF K!LogRequest
<1>3. PICK row \in Calling :
          row = K!NoCall /\ row.pc = "idle"
  <2>1. K!NoCall \in Calling /\ K!NoCall.pc = "idle"
    BY DEF K!NoCall, Calling
  <2>2. QED
    BY <2>1
<1>4. KeyTypes'
  <2>1. used[k] \in 0 .. Limit + 1 /\ lost[k] \in Nat /\ Limit \in Nat
    BY FirmAssumption DEF KeyInv, KeyTypes, Calling
  <2>2. used' \in [Keys -> 0 .. Limit + 1] /\ lost' \in [Keys -> Nat]
    BY <1>2, <2>1 DEF KeyInv, KeyTypes, Calling
  <2>3. QED
    BY <1>2, <1>3, <2>2 DEF KeyInv, KeyTypes, Calling
<1>5. ASSUME NEW j \in Keys PROVE Counted(j)' /\ admitted'[j] <= Limit + (Cardinality(Calls) - 1) + lost'[j]
  <2>0. /\ Counted(j) /\ admitted[j] \in Nat /\ used[j] \in Nat /\ lost[j] \in Nat /\ Limit \in Nat
        /\ admitted[j] <= Limit + (Cardinality(Calls) - 1) + lost[j]
    BY SameCount, FirmAssumption DEF KeyInv, KeyTypes, Calling, K!RateBounded
  <2>1. /\ Cardinality(Unlogged(j)) \in Nat /\ Cardinality(Unlogged(j)') \in Nat
        /\ Cardinality(Calls) \in Nat \ {0}
    BY UnloggedFinite
  <2>2. admitted'[j] = admitted[j]
    BY <1>2
  <2>3. CASE j # k
    <3>1. c \notin Unlogged(j)
      BY <1>1, <2>3 DEF Unlogged
    <3>2. Cardinality(Unlogged(j)') >= Cardinality(Unlogged(j))
      BY <1>2, <1>3, <3>1, CallMoves DEF KeyInv
    <3>3. used'[j] = used[j] /\ lost'[j] = lost[j]
      BY <1>2, <2>3 DEF KeyInv, KeyTypes, Calling
    <3>4. QED
      BY <2>0, <2>1, <2>2, <3>2, <3>3 DEF Counted
  <2>4. CASE j = k
    <3>1. Cardinality(Unlogged(j)') >= Cardinality(Unlogged(j)) - 1
      BY <1>2, <1>3, CallMoves DEF KeyInv
    <3>2. \/ used'[j] = (IF used[j] <= Limit THEN used[j] + 1 ELSE used[j]) /\ lost'[j] = lost[j]
          \/ used'[j] = used[j] /\ lost'[j] = lost[j] + 1
      BY <1>2, <2>4 DEF KeyInv, KeyTypes, Calling
    <3>3. QED
      BY <2>0, <2>1, <2>2, <3>1, <3>2 DEF Counted
  <2>5. QED
    BY <2>3, <2>4
<1>6. QED
  BY <1>4, <1>5, SameCount DEF KeyInv, K!RateBounded

\* The steps that let nothing through.
LEMMA OtherKeysStep ==
    ASSUME KeyInv,
           \/ \E c \in Calls : (\E k \in Keys : K!ResolveApiKey(c, k)) \/ K!Serve(c)
           \/ \E k \in Keys : K!End(k)
    PROVE  KeyInv'
<1>1. UNCHANGED <<used, admitted, lost>>
  BY DEF K!ResolveApiKey, K!Serve, K!End
<1>2. KeyTypes' /\ \A j \in Keys : Cardinality(Unlogged(j)') >= Cardinality(Unlogged(j))
  <2>1. ASSUME NEW c \in Calls, NEW k \in Keys, K!ResolveApiKey(c, k)
        PROVE  KeyTypes' /\ \A j \in Keys : Cardinality(Unlogged(j)') >= Cardinality(Unlogged(j))
    <3>1. PICK row \in Calling :
              row.key = k /\ call' = [call EXCEPT ![c] = row]
      BY <2>1 DEF K!ResolveApiKey, Calling
    <3>2. \A j \in Keys : c \notin Unlogged(j)
      BY <2>1 DEF K!ResolveApiKey, Unlogged
    <3>3. KeyTypes'
      BY <1>1, <2>1, <3>1 DEF K!ResolveApiKey, KeyInv, KeyTypes, Calling
    <3>4. QED
      BY <3>1, <3>2, <3>3, CallMoves DEF KeyInv
  <2>2. ASSUME NEW c \in Calls, K!Serve(c)
        PROVE  KeyTypes' /\ \A j \in Keys : Cardinality(Unlogged(j)') >= Cardinality(Unlogged(j))
    <3>1. call[c].pc = "serve" /\ call' = [call EXCEPT ![c] = [call[c] EXCEPT !.pc = "log"]]
      BY <2>2 DEF K!Serve, KeyInv, KeyTypes, Calling
    <3>2. PICK row \in Calling :
              row = [call[c] EXCEPT !.pc = "log"] /\ row.key = call[c].key /\ row.pc = "log"
      <4>1. call[c] \in Calling
        BY DEF KeyInv, KeyTypes, Calling
      <4>2. /\ [call[c] EXCEPT !.pc = "log"] \in Calling
            /\ [call[c] EXCEPT !.pc = "log"].key = call[c].key /\ [call[c] EXCEPT !.pc = "log"].pc = "log"
        BY <4>1 DEF Calling
      <4>3. QED
        BY <4>2
    <3>3. KeyTypes'
      BY <1>1, <2>2, <3>1, <3>2 DEF K!Serve, KeyInv, KeyTypes, Calling
    <3>4. \A j \in Keys : c \notin Unlogged(j) \/ row.key = j
      BY <3>2 DEF Unlogged
    <3>5. QED
      BY <3>1, <3>2, <3>3, <3>4, CallMoves DEF KeyInv
  <2>3. ASSUME NEW k \in Keys, K!End(k)
        PROVE  KeyTypes' /\ \A j \in Keys : Cardinality(Unlogged(j)') >= Cardinality(Unlogged(j))
    <3>1. KeyTypes'
      BY <1>1, <2>3 DEF K!End, KeyInv, KeyTypes, Calling
    <3>2. \A j \in Keys : Unlogged(j)' = Unlogged(j)
      BY <2>3 DEF K!End, Unlogged
    <3>3. \A j \in Keys : Cardinality(Unlogged(j)) \in Nat
      BY UnloggedFinite
    <3>4. QED
      BY <3>1, <3>2, <3>3
  <2>4. QED
    BY <2>1, <2>2, <2>3
<1>3. ASSUME NEW j \in Keys PROVE Counted(j)'
  <2>1. Counted(j) /\ admitted[j] \in Nat /\ used[j] \in Nat /\ lost[j] \in Nat
    BY FirmAssumption DEF KeyInv, KeyTypes, Calling
  <2>2. Cardinality(Unlogged(j)) \in Nat /\ Cardinality(Unlogged(j)') \in Nat
    BY UnloggedFinite
  <2>3. QED
    BY <1>1, <1>2, <2>1, <2>2 DEF Counted
<1>4. K!RateBounded'
  BY <1>1 DEF KeyInv, K!RateBounded
<1>5. QED
  BY <1>2, <1>3, <1>4 DEF KeyInv

LEMMA NextMinuteStep ==
    ASSUME KeyInv, K!NextMinute
    PROVE  KeyInv'
<1>1. /\ used' = [k \in Keys |-> 0] /\ admitted' = [k \in Keys |-> 0] /\ lost' = [k \in Keys |-> 0]
      /\ UNCHANGED <<key, call>>
  BY DEF K!NextMinute
<1>2. KeyTypes'
  BY <1>1, FirmAssumption DEF KeyInv, KeyTypes, Calling
<1>3. ASSUME NEW j \in Keys PROVE Counted(j)' /\ admitted'[j] <= Limit + (Cardinality(Calls) - 1) + lost'[j]
  BY <1>1, UnloggedFinite, FirmAssumption DEF Counted
<1>4. QED
  BY <1>2, <1>3, SameCount DEF KeyInv, K!RateBounded

LEMMA KeysStep ==
    ASSUME KeyInv, K!Next
    PROVE  KeyInv'
  BY CheckStep, LogStep, OtherKeysStep, NextMinuteStep DEF K!Next

-----------------------------------------------------------------------------
(* WebhookDelivery. *)

Waiting == {"pending", "delivered", "abandoned"}
Attempted == [status: Waiting, attempt: 0 .. MaxAttempts]
Reached == [status: {"active", "failing", "disabled"}, failures: 0 .. DisabledAt]

WebhookInv ==
    /\ endpoint \in [Endpoints -> Reached]
    /\ delivery \in [Endpoints \X Events -> Attempted \cup {Nil}]
    /\ sender \in [Senders -> (Endpoints \X Events) \cup {Nil}]
    /\ \A s \in Senders : sender[s] # Nil => delivery[sender[s]] # Nil
    /\ W!RetriesEnd

\* What RetriesEnd says of one delivery and of one endpoint.
Retried(row) == row # Nil /\ row.status = "pending" => row.attempt < MaxAttempts
Reports(row) ==
    row.status = CASE row.failures >= DisabledAt -> "disabled"
                   [] row.failures >= FailingAt /\ row.failures < DisabledAt -> "failing"
                   [] OTHER -> "active"

LEMMA RetriesEndEach ==
    W!RetriesEnd <=> /\ \A d \in Endpoints \X Events : Retried(delivery[d])
                     /\ \A e \in Endpoints : Reports(endpoint[e])
  BY DEF W!RetriesEnd, Retried, Reports

LEMMA WebhooksInit == W!Init => WebhookInv
<1> SUFFICES ASSUME W!Init PROVE WebhookInv
  OBVIOUS
<1>1. /\ endpoint \in [Endpoints -> Reached] /\ \A e \in Endpoints : Reports(endpoint[e])
  BY FirmAssumption DEF W!Init, Reached, Reports
<1>2. /\ delivery \in [Endpoints \X Events -> Attempted \cup {Nil}]
      /\ sender \in [Senders -> (Endpoints \X Events) \cup {Nil}]
      /\ \A d \in Endpoints \X Events : Retried(delivery[d])
      /\ \A s \in Senders : sender[s] = Nil
  BY DEF W!Init, Retried
<1>3. QED
  BY <1>1, <1>2, RetriesEndEach DEF WebhookInv

\* Each outcome leaves the delivery and the endpoint as RetriesEnd wants them.
LEMMA TriedFits ==
    ASSUME NEW row \in Attempted
    PROVE  W!Tried(row) \in Attempted /\ Retried(W!Tried(row)) /\ W!Tried(row) # Nil
<1>1. row.attempt \in 0 .. MaxAttempts
  BY DEF Attempted
<1>2. PICK n \in 0 .. MaxAttempts : n = IF row.attempt < MaxAttempts THEN row.attempt + 1 ELSE row.attempt
  BY <1>1, FirmAssumption
<1>3. W!Tried(row) = [status |-> IF n >= MaxAttempts THEN "abandoned" ELSE "pending", attempt |-> n]
  BY <1>2 DEF W!Tried
<1>4. W!Tried(row) \in Attempted
  BY <1>3 DEF Attempted, Waiting
<1>5. n < MaxAttempts \/ W!Tried(row).status = "abandoned"
  BY <1>3, FirmAssumption
<1>6. Retried(W!Tried(row))
  BY <1>3, <1>5 DEF Retried
<1>7. QED
  BY <1>4, <1>6, FirmAssumption DEF Attempted, Waiting

LEMMA DeliveredFits ==
    ASSUME NEW row \in Attempted, NEW made,
           made = [status |-> "delivered", attempt |-> IF row.attempt < MaxAttempts THEN row.attempt + 1
                                                                                    ELSE row.attempt]
    PROVE  made \in Attempted /\ Retried(made) /\ made # Nil
<1>1. row.attempt \in 0 .. MaxAttempts
  BY DEF Attempted
<1>2. PICK n \in 0 .. MaxAttempts : n = IF row.attempt < MaxAttempts THEN row.attempt + 1 ELSE row.attempt
  BY <1>1, FirmAssumption
<1>3. made = [status |-> "delivered", attempt |-> n]
  BY <1>2
<1>4. made \in Attempted /\ Retried(made)
  BY <1>3 DEF Attempted, Waiting, Retried
<1>5. QED
  BY <1>4, FirmAssumption DEF Attempted, Waiting

LEMMA SilentFits ==
    ASSUME NEW row \in Reached, Reports(row)
    PROVE  W!Silent(row) \in Reached /\ Reports(W!Silent(row))
<1>1. row.failures \in 0 .. DisabledAt /\ row.status \in {"active", "failing", "disabled"}
  BY DEF Reached
<1>2. PICK n \in 0 .. DisabledAt :
          n = IF row.failures < DisabledAt THEN row.failures + 1 ELSE row.failures
  BY <1>1, FirmAssumption
<1>3. PICK status \in {"active", "failing", "disabled"} :
          status = IF n >= DisabledAt THEN "disabled" ELSE IF n >= FailingAt THEN "failing" ELSE row.status
  BY <1>1
<1>4. W!Silent(row) = [status |-> status, failures |-> n]
  BY <1>2, <1>3 DEF W!Silent
<1>5. n < DisabledAt /\ n < FailingAt => row.failures < DisabledAt /\ row.failures < FailingAt
  BY <1>1, <1>2, FirmAssumption
<1>6. n < DisabledAt /\ n < FailingAt => status = "active"
  <2>1. row.failures < DisabledAt /\ row.failures < FailingAt => row.status = "active"
    BY <1>1, FirmAssumption DEF Reports
  <2>2. QED
    BY <1>2, <1>3, <1>5, <2>1, FirmAssumption
<1>7. status = CASE n >= DisabledAt -> "disabled"
                 [] n >= FailingAt /\ n < DisabledAt -> "failing"
                 [] OTHER -> "active"
  <2>1. CASE n >= DisabledAt
    BY <1>2, <1>3, <2>1, FirmAssumption
  <2>2. CASE n < DisabledAt /\ n >= FailingAt
    BY <1>2, <1>3, <2>2, FirmAssumption
  <2>3. CASE n < DisabledAt /\ n < FailingAt
    BY <1>2, <1>6, <2>3, FirmAssumption
  <2>4. QED
    BY <1>2, <2>1, <2>2, <2>3, FirmAssumption
<1>8. QED
  BY <1>4, <1>7 DEF Reached, Reports

\* An outcome, whoever reports it and however late.
LEMMA OutcomeStep ==
    ASSUME WebhookInv, NEW s \in Senders, W!Succeed(s) \/ W!Fail(s)
    PROVE  WebhookInv'
<1>1. PICK e \in Endpoints, v \in Events : sender[s] = <<e, v>> /\ delivery[<<e, v>>] # Nil
  <2>1. sender[s] # Nil /\ delivery[sender[s]] # Nil /\ sender[s] \in (Endpoints \X Events) \cup {Nil}
    BY DEF W!Succeed, W!Fail, WebhookInv
  <2>2. QED
    BY <2>1
<1>2. PICK d \in Endpoints \X Events : d = <<e, v>> /\ d[1] = e /\ sender[s] = d
  BY <1>1
<1>3. delivery[d] \in Attempted /\ endpoint[e] \in Reached /\ Reports(endpoint[e])
  BY <1>1, <1>2, RetriesEndEach DEF WebhookInv
<1>4. PICK made \in Attempted, reached \in Reached :
        /\ Retried(made) /\ made # Nil /\ Reports(reached)
        /\ delivery' = [delivery EXCEPT ![d] = made]
        /\ endpoint' = [endpoint EXCEPT ![e] = reached]
        /\ sender' = [sender EXCEPT ![s] = Nil]
  <2>1. CASE W!Succeed(s)
    <3>1. PICK made : made = [status |-> "delivered", attempt |-> IF delivery[d].attempt < MaxAttempts
                                                      THEN delivery[d].attempt + 1 ELSE delivery[d].attempt]
      OBVIOUS
    <3>2. /\ delivery' = [delivery EXCEPT ![d] = made]
          /\ endpoint' = [endpoint EXCEPT ![e] = W!Answered(endpoint[e])]
          /\ sender' = [sender EXCEPT ![s] = Nil]
      BY <1>2, <2>1, <3>1 DEF W!Succeed
    <3>3. W!Answered(endpoint[e]) \in Reached /\ Reports(W!Answered(endpoint[e]))
      BY FirmAssumption DEF W!Answered, Reached, Reports
    <3>4. QED
      BY <1>3, <3>1, <3>2, <3>3, DeliveredFits
  <2>2. CASE W!Fail(s)
    <3>1. /\ delivery' = [delivery EXCEPT ![d] = W!Tried(delivery[d])]
          /\ endpoint' = [endpoint EXCEPT ![e] = W!Silent(endpoint[e])]
          /\ sender' = [sender EXCEPT ![s] = Nil]
      BY <1>2, <2>2 DEF W!Fail
    <3>2. QED
      BY <1>3, <3>1, TriedFits, SilentFits
  <2>3. QED
    BY <2>1, <2>2
<1>5. /\ endpoint' \in [Endpoints -> Reached]
      /\ delivery' \in [Endpoints \X Events -> Attempted \cup {Nil}]
      /\ sender' \in [Senders -> (Endpoints \X Events) \cup {Nil}]
  BY <1>4 DEF WebhookInv
<1>6. \A r \in Senders : sender'[r] # Nil => delivery'[sender'[r]] # Nil
  <2>1. ASSUME NEW r \in Senders, sender'[r] # Nil PROVE delivery'[sender'[r]] # Nil
    <3>1. sender'[r] = sender[r] /\ sender[r] \in Endpoints \X Events /\ delivery[sender[r]] # Nil
      BY <1>4, <2>1 DEF WebhookInv
    <3>2. QED
      BY <1>4, <3>1 DEF WebhookInv
  <2>2. QED
    BY <2>1
<1>7. W!RetriesEnd'
  <2>1. \A x \in Endpoints \X Events : Retried(delivery[x]) /\ Retried(delivery'[x])
    BY <1>4, RetriesEndEach DEF WebhookInv
  <2>2. \A x \in Endpoints : Reports(endpoint'[x])
    BY <1>4, RetriesEndEach DEF WebhookInv
  <2>3. QED
    BY <2>1, <2>2 DEF W!RetriesEnd, Retried, Reports
<1>8. QED
  BY <1>5, <1>6, <1>7 DEF WebhookInv

LEMMA QueueStep ==
    ASSUME WebhookInv, NEW v \in Events, W!QueueDeliveries(v)
    PROVE  WebhookInv'
<1>1. PICK fresh \in Attempted : fresh = [status |-> "pending", attempt |-> 0] /\ Retried(fresh) /\ fresh # Nil
  <2>1. [status |-> "pending", attempt |-> 0] \in Attempted /\ Retried([status |-> "pending", attempt |-> 0])
    BY FirmAssumption DEF Attempted, Waiting, Retried
  <2>2. QED
    BY <2>1, FirmAssumption DEF Attempted, Waiting
<1>2. /\ delivery' = [d \in Endpoints \X Events |->
              IF d[2] = v /\ endpoint[d[1]].status = "active" /\ delivery[d] = Nil THEN fresh ELSE delivery[d]]
      /\ UNCHANGED <<endpoint, sender>>
  BY <1>1 DEF W!QueueDeliveries
<1>3. \A d \in Endpoints \X Events : delivery'[d] = fresh \/ delivery'[d] = delivery[d]
  BY <1>2
<1>4. /\ delivery' \in [Endpoints \X Events -> Attempted \cup {Nil}]
      /\ \A r \in Senders : sender'[r] # Nil => delivery'[sender'[r]] # Nil
  BY <1>1, <1>2 DEF WebhookInv
<1>5. W!RetriesEnd'
  <2>1. \A d \in Endpoints \X Events : Retried(delivery'[d])
    BY <1>1, <1>3, RetriesEndEach DEF WebhookInv
  <2>2. \A e \in Endpoints : Reports(endpoint'[e])
    BY <1>2, RetriesEndEach DEF WebhookInv
  <2>3. QED
    BY <2>1, <2>2 DEF W!RetriesEnd, Retried, Reports
<1>6. QED
  BY <1>2, <1>4, <1>5 DEF WebhookInv

LEMMA SendStep ==
    ASSUME WebhookInv, NEW s \in Senders,
           (\E d \in Endpoints \X Events : W!Send(s, d)) \/ W!Die(s)
    PROVE  WebhookInv'
<1>1. UNCHANGED <<endpoint, delivery>>
  BY DEF W!Send, W!Die
<1>2. /\ sender' \in [Senders -> (Endpoints \X Events) \cup {Nil}]
      /\ \A r \in Senders : sender'[r] # Nil => delivery[sender'[r]] # Nil
  BY DEF W!Send, W!Die, WebhookInv
<1>3. W!RetriesEnd'
  BY <1>1 DEF WebhookInv, W!RetriesEnd
<1>4. QED
  BY <1>1, <1>2, <1>3 DEF WebhookInv

LEMMA WebhooksStep ==
    ASSUME WebhookInv, W!Next
    PROVE  WebhookInv'
  BY OutcomeStep, QueueStep, SendStep DEF W!Next

-----------------------------------------------------------------------------
(* The firm. *)

LimitInv == SessionInv /\ KeyInv /\ WebhookInv

LEMMA LimitsInit == FirmInit => LimitInv
  BY SessionsInit, KeysInit, WebhooksInit DEF FirmInit, LimitInv

LEMMA LimitsStep ==
    ASSUME LimitInv, [FirmNext]_ofFirm
    PROVE  LimitInv' /\ [S!NotRevived]_ofSessions
<1>1. SessionInv' /\ [S!NotRevived]_ofSessions
  <2>1. CASE part = "sessions" /\ FirmNext
    BY <2>1, SessionsStep DEF FirmNext, LimitInv
  <2>2. CASE UNCHANGED ofSessions
    <3>1. \A u \in Users : Trying(u)' = Trying(u)
      BY <2>2 DEF ofSessions, Trying
    <3>2. QED
      BY <2>2, <3>1 DEF LimitInv, ofSessions, SessionInv, SessionTypes, GuessesLeft
  <2>3. QED
    BY <2>1, <2>2 DEF FirmNext, ofFirm
<1>2. KeyInv'
  <2>1. CASE part = "keys" /\ FirmNext
    BY <2>1, KeysStep DEF FirmNext, LimitInv
  <2>2. CASE UNCHANGED ofKeys
    <3>1. \A k \in Keys : Unlogged(k)' = Unlogged(k)
      BY <2>2 DEF ofKeys, Unlogged
    <3>2. QED
      BY <2>2, <3>1 DEF LimitInv, ofKeys, KeyInv, KeyTypes, Counted, K!RateBounded
  <2>3. QED
    BY <2>1, <2>2 DEF FirmNext, ofFirm
<1>3. WebhookInv'
  <2>1. CASE part = "webhooks" /\ FirmNext
    BY <2>1, WebhooksStep DEF FirmNext, LimitInv
  <2>2. CASE UNCHANGED ofWebhooks
    BY <2>2 DEF LimitInv, ofWebhooks, WebhookInv, W!RetriesEnd
  <2>3. QED
    BY <2>1, <2>2 DEF FirmNext, ofFirm
<1>4. QED
  BY <1>1, <1>2, <1>3 DEF LimitInv

(* Between two locks no more wrong guesses at an account are looked at     *)
(* than the limit and the other sign-ins under way allow; no key is let    *)
(* through more often in a minute than its limit, the other calls under    *)
(* way and the lost log entries allow; and a delivery that waits has       *)
(* attempts left (registerFailure, checkRateLimit, recordDeliveryOutcome). *)
THEOREM LimitsAreKept == FirmSpec => []LimitsHold
<1>1. LimitInv => LimitsHold
  BY GuessesBounded DEF LimitInv, LimitsHold, KeyInv, WebhookInv
<1>2. QED
  BY LimitsInit, LimitsStep, <1>1, PTL DEF FirmSpec

(* A session that is revoked or past one of its clocks stays so, whatever  *)
(* resolves it, completes it or revokes the others (resolveSession,        *)
(* completeMfa, revokeOtherSessions).                                      *)
THEOREM DeadForGood == FirmSpec => DeadStaysDead
  BY LimitsInit, LimitsStep, PTL DEF FirmSpec, DeadStaysDead

\* The callers of a model are one part of the firm among others.
LEMMA AssistanceFirmStep ==
    ASSUME IInv /\ RecordInv, [FirmNext]_ofFirm
    PROVE  (IInv /\ RecordInv)'
<1>1. WellConfigured
  BY FirmAssumption
<1>2. [Next]_vars
  BY DEF FirmNext, ofFirm
<1>3. QED
  BY <1>1, <1>2, Step, RecordStep

(* Whatever a scan gives a model is sent or withheld and never both, no     *)
(* capability that is shipped switched off is used by a firm without a row  *)
(* for it, and proposals on regulated information are decided by people who *)
(* advise (assembleContext, assertEnabled, decideProposal).                 *)
THEOREM AssistanceIsKept == FirmSpec => []AssistanceKept
<1>1. FirmInit => IInv /\ RecordInv
  BY Initially, RecordInit, FirmAssumption DEF FirmInit
<1>2. IInv /\ RecordInv => AssistanceKept
  BY DEF IInv, RecordInv, AssistanceKept
<1>3. QED
  BY <1>1, <1>2, AssistanceFirmStep, PTL DEF FirmSpec

=============================================================================
