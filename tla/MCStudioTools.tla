--------------------------- MODULE MCStudioTools ---------------------------
(* StudioTools on one draft and one studio.                                *)
EXTENDS StudioTools

CONSTANTS c1, d1, f1, s1, t1, t2, q1, q2

OneClient == {c1}
OneDraft == {d1}
OneForeign == {f1}
OneStudio == {s1}
TwoTemplates == {t1, t2}
OneDisruptive == {t2}
TwoQueries == {q1, q2}

(* No action reads the code of the last answer.                            *)
NoCodes ==
  <<[c \in Client |-> [call[c] EXCEPT !.code = "none"]],
    writes, issued, late, cvVars>>

(* The mainline has no studio, or one with the harmless text, and at most  *)
(* a query for it.                                                         *)
MCInit ==
  /\ Init
  /\ query[Mainline][s1] \in {NoRow, q1}
  /\ HasStudio(Mainline, s1) => studio[Mainline][s1].text = t1
MCSpec == MCInit /\ [][Next]_vars

=============================================================================
