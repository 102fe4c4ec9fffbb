--------------------------- MODULE MCGoalOperation ---------------------------
(* Callers on which TLC checks GoalOperation. *)
EXTENDS GoalOperation, TLC

CONSTANTS g1, g2, t1, t2

TwoGoals == {g1, g2}
TwoStarters == {t1, t2}
AnyCaller == Permutations(TwoGoals) \cup Permutations(TwoStarters)

=============================================================================
