------------------------------- MODULE Policy -------------------------------
(***************************************************************************)
(* backend/runtime/policy: PolicyEngineV2.evaluate, which asks five        *)
(* policies in a fixed order and takes the first that decides.             *)
(*                                                                         *)
(* An action is a model value; the parameters a policy looks at are flags. *)
(* The text of the request is empty on every path that reaches the engine. *)
(***************************************************************************)

CONSTANTS
  Actions,          \* names of actions
  Forbidden,        \* actions whose name holds a keyword of SecurityPolicy
  Protected,        \* ApprovalPolicy.PROTECTED_ACTIONS
  RolePermissions   \* for each role, the actions ROLE_PERMISSIONS lists

Roles == {"owner", "employee", "customer"}

\* A role as a caller may write it, and what lower() makes of it.
Spellings == Roles \cup {"Owner", "Employee", "Customer"}
Lower(role) ==
  CASE role = "Owner" -> "owner"
    [] role = "Employee" -> "employee"
    [] role = "Customer" -> "customer"
    [] OTHER -> role

Flags == {"rate_limit_exceeded", "system_overloaded", "requires_approval"}
Decisions == {"ALLOW", "DENY", "CONFIRM", "ESCALATE"}

ASSUME PolicyAssumption ==
  /\ Forbidden \subseteq Actions
  /\ Protected \subseteq Actions
  /\ RolePermissions \in [Roles \ {"owner"} -> SUBSET Actions]

SecurityPolicy(action) == IF action \in Forbidden THEN "DENY" ELSE "ALLOW"

\* The owner may do anything, an employee's unlisted action is escalated, however the role
\* is spelled.
PermissionsPolicy(action, spelling) ==
  LET role == Lower(spelling) IN
  CASE role = "owner" -> "ALLOW"
    [] role # "owner" /\ action \in RolePermissions[role] -> "ALLOW"
    [] role = "customer" /\ action \notin RolePermissions[role] -> "DENY"
    [] OTHER -> "ESCALATE"

BusinessPolicy(params) == IF "rate_limit_exceeded" \in params THEN "DENY" ELSE "ALLOW"

ExecutionPolicy(params) == IF "system_overloaded" \in params THEN "ESCALATE" ELSE "ALLOW"

\* Here the spelling counts: an "Owner" has every permission and nothing to confirm.
ApprovalPolicy(action, params, spelling) ==
  IF spelling = "owner" /\ (action \in Protected \/ "requires_approval" \in params)
    THEN "CONFIRM" ELSE "ALLOW"

\* Only a DENY of the first three policies is looked at.
Evaluate(action, params, role) ==
  CASE SecurityPolicy(action) = "DENY" -> "DENY"
    [] PermissionsPolicy(action, role) = "DENY" -> "DENY"
    [] BusinessPolicy(params) = "DENY" -> "DENY"
    [] OTHER -> IF ExecutionPolicy(params) = "ESCALATE" THEN "ESCALATE"
                ELSE ApprovalPolicy(action, params, role)

=============================================================================
