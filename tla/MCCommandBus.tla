---------------------------- MODULE MCCommandBus ----------------------------
(* Commands, roles and subscriptions on which TLC checks CommandBus. *)
EXTENDS CommandBus

CONSTANTS publish, s1, s2

OneAction == {publish}
Permissions == [r \in {"employee", "customer"} |-> {}]

\* Allowed, because of how the role is spelled, to be confirmed, and denied.
AnyRequest == [action : OneAction, params : {{}}, role : {"Owner", "owner", "customer"}]

TwoSubscriptions == {s1, s2}
TwoTypes == [s \in TwoSubscriptions |-> IF s = s1 THEN "system" ELSE "*"]

=============================================================================
