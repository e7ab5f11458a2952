------------------------------ MODULE Evidence ------------------------------
(***************************************************************************)
(* What is known of a case, and how well: packages/core/src/evidence/      *)
(* state.ts.  The records it is resolved from are                          *)
(*   items      the verification items, by the requirement they answer     *)
(*   consents   the purposes with a consent granted and not withdrawn      *)
(*   assessed   an active vulnerability record, "none identified" included *)
(*   statement  the current financial statement, or NoStatement            *)
(* A date is left out but for the one thing asked of it: whether what was  *)
(* verified has expired since.                                             *)
(***************************************************************************)
EXTENDS CaseTypes

Statuses == {"outstanding", "received", "verified", "rejected", "waived", "not-applicable"}
VerifyingMethods == {"document", "open-banking", "credit-file", "electronic-check"}
Methods == VerifyingMethods \cup {"verbal", "other"}
SelfEvidencingKinds == {"consent", "vulnerability-assessment"}
States == {"verified", "declared", "waived", "expired", "missing", "not-required"}

NoStatement == [lines |-> 0, evidenced |-> 0, completed |-> FALSE]

\* An item owed at an earlier stage is owed now.
Timing(type, stage, key) ==
    LET requiring == {s \in type.stages : key \in s.needs} IN
    CASE requiring = {} -> "never"
      [] stage \notin StageKeys(type) -> "later"
      [] \E s \in requiring : s.order <= StageByKey(type, stage).order -> "now"
      [] OTHER -> "later"

\* An outstanding item is only a note that somebody should look.
\* Seeded fault: it is the answer, like any other.
Acted_Outstanding(key, items) == key \in DOMAIN items /\ items[key].status # "rejected"
Acted(key, items) == key \in DOMAIN items /\ items[key].status \notin {"outstanding", "rejected"}

\* What the item says, once somebody has acted on it.
ByItem(item, kind) ==
    CASE item.status = "waived" -> "waived"
      [] item.status = "not-applicable" -> "not-required"
      [] item.status = "verified" ->
            IF item.expired THEN "expired"
            ELSE IF item.method \in VerifyingMethods \cup {""} \/ kind \in SelfEvidencingKinds THEN "verified"
            ELSE "declared"
      [] OTHER -> "declared"

\* What the records of the case say.
ByRecords(requirement, records) ==
    LET s == records.statement IN
    CASE requirement.kind = "consent" ->
            IF requirement.key \in records.consents THEN "verified" ELSE "missing"
      [] requirement.kind = "vulnerability-assessment" ->
            IF records.assessed THEN "verified" ELSE "missing"
      [] requirement.kind = "financial-statement" ->
            IF s.lines = 0 THEN "missing"
            ELSE IF s.completed /\ s.evidenced >= s.lines THEN "verified" ELSE "declared"
      [] OTHER -> "missing"

Resolve(requirement, records) ==
    IF Acted(requirement.key, records.items)
    THEN ByItem(records.items[requirement.key], requirement.kind)
    ELSE ByRecords(requirement, records)

\* resolveEvidenceState: a requirement of the case type and its state.
ResolveEvidence(type, stage, records) ==
    {[key |-> r.key, blocking |-> r.blocking, state |-> Resolve(r, records),
      timing |-> Timing(type, stage, r.key)] : r \in type.evidence}

\* evidenceMap: the keys that count as met.  A waiver does.
\* Seeded fault: evidence that has run out does too.
EvidenceMap_Expired(resolved) ==
    {r.key : r \in {x \in resolved : x.state \in {"verified", "waived", "expired"}}}
EvidenceMap(resolved) == {r.key : r \in {x \in resolved : x.state \in {"verified", "waived"}}}

\* outstandingEvidence: owed now and not satisfied.
OutstandingEvidence(resolved) ==
    {r.key : r \in {x \in resolved : x.timing = "now" /\ x.state \in {"missing", "expired", "declared"}}}
=============================================================================
