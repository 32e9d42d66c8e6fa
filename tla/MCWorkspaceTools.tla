-------------------------- MODULE MCWorkspaceTools --------------------------
(* WorkspaceTools on small instances: see the .cfg files.                  *)
EXTENDS WorkspaceTools

CONSTANTS c1, d1, f1, t1, r1, r2

OneClient == {c1}
OneDraft == {d1}
OneForeign == {f1}
OneText == {t1}
TwoIds == {r1, r2}
OnlyFirst == {r1}

(* The workspace of somebody else is a draft people may still submit.      *)
MCInit == Init /\ \A w \in Foreign : wsState[w] = "PENDING"
MCSpec == MCInit /\ [][Next]_vars
MCFairSpec == MCInit /\ [][Next]_vars /\ Fairness

=============================================================================
