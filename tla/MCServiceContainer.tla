------------------------- MODULE MCServiceContainer -------------------------
(* Services on which TLC checks ServiceContainer. *)
EXTENDS ServiceContainer

CONSTANTS app, mail, log, app1, mail1, log1, log2

ServiceNames == {app, mail, log}
Singles == {app1, mail1, log1, log2}

\* app and mail share the dependency log; one implementation of log needs app,
\* which closes a cycle of three.
SharedDeps ==
  [s \in Singles |-> CASE s = app1 -> <<mail, log>>
                       [] s = mail1 -> <<log>>
                       [] s = log1 -> <<>>
                       [] s = log2 -> <<app>>]
MadeDeps == [n \in ServiceNames |-> IF n = mail THEN <<log>> ELSE <<>>]
AnyRegistration == {<<app, app1>>, <<mail, mail1>>, <<log, log1>>, <<log, log2>>}
MadeNames == {mail}

=============================================================================
