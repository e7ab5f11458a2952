----------------------------- MODULE Authorisation -----------------------------
(***************************************************************************)
(* Who may do what (packages/auth/src): the catalogue of permissions, the  *)
(* roles a firm starts from, the principals and authorize().               *)
(*                                                                         *)
(* A permission is the pair of its resource and its action.  A firm may    *)
(* edit its copies of the roles, so nothing here depends on RoleTemplates; *)
(* they are what a newly provisioned firm has.                             *)
(***************************************************************************)
EXTENDS Naturals

Regulated ==
    ({"advice"} \X {"recommend", "decide", "supersede"})
    \cup ({"insolvency"} \X {"propose", "certify"})
    \cup {<<"compliance", "override">>, <<"vulnerability", "write">>,
          <<"consent", "capture">>, <<"ai", "accept_proposal">>}

Catalogue ==
    Regulated
    \cup ({"client"} \X {"read", "write", "delete"})
    \cup ({"case"} \X {"read", "write", "assign", "close"})
    \cup ({"sfs", "debt", "document", "workflow", "complaint", "user"} \X {"read", "write"})
    \cup ({"comms"} \X {"read", "send", "call", "recording_access"})
    \cup ({"tenant", "integration", "retention", "ai"} \X {"configure"})
    \cup ({"qa"} \X {"read", "perform"}) \cup ({"report"} \X {"read", "export"})
    \cup {<<"vulnerability", "read">>, <<"document", "send_for_signature">>, <<"workflow", "approve">>,
          <<"ai", "invoke">>, <<"audit", "read">>, <<"role", "write">>, <<"data", "erase">>}

RequiredCompetencies(permission) ==
    CASE permission[1] = "advice" -> {"debt-advice"}
      [] permission = <<"insolvency", "propose">> -> {"insolvency"}
      [] permission = <<"insolvency", "certify">> -> {"insolvency-practitioner"}
      [] permission = <<"compliance", "override">> -> {"compliance"}
      [] permission = <<"qa", "perform">> -> {"qa"}
      [] OTHER -> {}

-----------------------------------------------------------------------------
(* The roles a firm starts from.                                           *)

Reading == {"client", "case", "sfs", "debt", "vulnerability", "document", "comms"} \X {"read"}
Handling == ({"client", "case", "debt", "document"} \X {"write"})
            \cup {<<"comms", "send">>, <<"ai", "invoke">>, <<"report", "read">>}
Advising == Reading \cup Handling
            \cup ({"advice"} \X {"recommend", "decide"})
            \cup {<<"case", "close">>, <<"sfs", "write">>, <<"document", "send_for_signature">>,
                  <<"ai", "accept_proposal">>}

RoleTemplates == [
    adviser |-> Advising \cup {<<"vulnerability", "write">>, <<"consent", "capture">>,
                               <<"comms", "call">>, <<"workflow", "read">>},
    caseAdministrator |-> Reading \cup Handling \cup {<<"workflow", "read">>},
    teamLeader |-> Advising \cup {<<"vulnerability", "write">>, <<"consent", "capture">>,
                                  <<"comms", "call">>, <<"comms", "recording_access">>,
                                  <<"case", "assign">>, <<"advice", "supersede">>,
                                  <<"workflow", "read">>, <<"workflow", "approve">>,
                                  <<"qa", "read">>, <<"user", "read">>},
    complianceOfficer |-> Reading \cup ({"qa"} \X {"read", "perform"})
                          \cup ({"complaint"} \X {"read", "write"})
                          \cup ({"report"} \X {"read", "export"})
                          \cup ({"workflow"} \X {"read", "approve"})
                          \cup {<<"comms", "recording_access">>, <<"compliance", "override">>,
                                <<"audit", "read">>, <<"ai", "configure">>, <<"retention", "configure">>},
    insolvencyPractitioner |-> (Advising \ {<<"client", "write">>})
                               \cup ({"insolvency"} \X {"propose", "certify"}) \cup {<<"audit", "read">>},
    firmAdministrator |-> ({"user"} \X {"read", "write"}) \cup ({"workflow"} \X {"read", "write"})
                          \cup ({"tenant", "integration", "ai"} \X {"configure"})
                          \cup ({"report", "audit", "case", "client"} \X {"read"})
                          \cup {<<"role", "write">>},
    client |-> {"case", "sfs", "debt", "document", "comms"} \X {"read"},
    creditor |-> ({"case", "debt", "document", "comms"} \X {"read"}) \cup {<<"comms", "send">>},
    introducer |-> {"case", "report"} \X {"read"}]

\* The permissions of a person are the union over their roles.
Granted(roles) == UNION {RoleTemplates[role] : role \in roles}

-----------------------------------------------------------------------------
(* The principals.                                                         *)

AiPermissions ==
    ({"client", "case", "sfs", "debt", "document", "comms", "vulnerability", "report", "workflow", "qa"}
        \X {"read"}) \cup {<<"ai", "invoke">>}

WorkflowPermissions ==
    ({"case", "client", "sfs", "debt", "document", "comms", "workflow", "report"} \X {"read"})
    \cup {<<"comms", "send">>, <<"ai", "invoke">>}

UserPrincipal(tenant, status, roles, competencies, mfa) ==
    [kind |-> "user", tenant |-> tenant, status |-> status, permissions |-> Granted(roles),
     competencies |-> competencies, mfa |-> mfa]

Automated(kind, tenant, permissions) ==
    [kind |-> kind, tenant |-> tenant, status |-> "active", permissions |-> permissions,
     competencies |-> {}, mfa |-> FALSE]
WorkflowPrincipal(tenant) == Automated("workflow", tenant, WorkflowPermissions)
AiPrincipal(tenant) == Automated("ai", tenant, AiPermissions)

\* The first refusal that applies, or "allowed".
Authorize(principal, permission, tenant) ==
    LET regulated == permission \in Regulated IN
    CASE permission \notin Catalogue -> "unknown_permission"
      [] permission \in Catalogue /\ principal.tenant # tenant -> "wrong_tenant"
      [] permission \in Catalogue /\ principal.tenant = tenant -> 
            IF principal.kind = "user"
            THEN IF principal.status # "active" THEN "account_not_active"
                 ELSE IF permission \notin principal.permissions THEN "not_granted"
                 ELSE IF regulated /\ ~principal.mfa THEN "mfa_required"
                 ELSE IF ~(RequiredCompetencies(permission) \subseteq principal.competencies)
                      THEN "missing_competency" ELSE "allowed"
            ELSE IF principal.kind = "platform_operator" THEN "platform_operator_cannot_act_in_tenant"
            ELSE IF regulated THEN "regulated_action_requires_human"
            ELSE IF permission \notin principal.permissions THEN "not_granted" ELSE "allowed"
=============================================================================
