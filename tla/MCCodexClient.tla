---------------------------- MODULE MCCodexClient ----------------------------
(* Callers on which TLC checks CodexClient. *)
EXTENDS CodexClient

CONSTANTS turn, login, request

OneRequester == {request}
OneTurn == {turn}
OneLogin == {login}
CallBounds == <<2, 1>>

=============================================================================
