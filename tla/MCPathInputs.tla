---------------------------- MODULE MCPathInputs ----------------------------
(* PathInputs on a few small trees.                                        *)
EXTENDS PathInputs, TLC

CONSTANTS c1, d1, f1, pathA, pathB, desc, label, mode, v1, v2, bad

OneClient == {c1}
OneDraft == {d1}
OneForeign == {f1}
TwoPaths == {pathA, pathB}
Keys == {desc, label, mode}
OneForbidden == {mode}
BadWords(v) == IF v = bad THEN {"shutdown"} ELSE {}

(* A description and a mode, each with two values; a mode below a          *)
(* description, and a description below a mode; a bad word in a label, and *)
(* in the description.                                                     *)
Plain == (<<desc>> :> v1) @@ (<<mode>> :> v1)
OtherDesc == (<<desc>> :> v2) @@ (<<mode>> :> v1)
OtherMode == (<<desc>> :> v1) @@ (<<mode>> :> v2)
ModeInDesc == (<<desc, mode>> :> v1) @@ (<<mode>> :> v1)
DescInMode == <<mode, desc>> :> v1
OtherDescInMode == <<mode, desc>> :> v2
BadLabel == (<<desc>> :> v1) @@ (<<label>> :> bad) @@ (<<mode>> :> v1)
BadDesc == (<<desc>> :> bad) @@ (<<mode>> :> v1)
Documents == {Plain, OtherDesc, OtherMode, ModeInDesc, DescInMode,
              OtherDescInMode, BadLabel, BadDesc}
AllowedSets == {{}, {desc}, {desc, label}, {mode}}

(* No action reads the code of the last answer.                            *)
NoCodes ==
  <<[c \in Client |-> [call[c] EXCEPT !.code = "none"]],
    writes, issued, late, cvVars>>

(* The mainline has a row at one path, or none.                            *)
MCInit ==
  /\ Init
  /\ mainline[pathA] \in {NoDoc, Plain, DescInMode, BadLabel}
  /\ mainline[pathB] = NoDoc
MCSpec == MCInit /\ [][Next]_vars

=============================================================================
