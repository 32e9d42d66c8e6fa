----------------------- MODULE MCAccessInterfaceTools -----------------------
(* AccessInterfaceTools on one port with a profile and a VLAN list.        *)
EXTENDS AccessInterfaceTools, Sequences, TLC

CONSTANTS c1, c2, d1, f1, profile, vlans, v1, v2, base

TwoClients == {c1, c2}
OneClient == {c1}
OneDraft == {d1}
OneForeign == {f1}
OnePort == {profile, vlans}
ListOfPort == {vlans}
ProfileOfPort == [l \in {vlans} |-> profile]
Strings == {v1, v2}
OneString == {v1}
NoPortMode == [l \in {vlans} |-> Blank]

(* v1 is a trunk by its parent, v2 nothing: it is its own parent, and its  *)
(* second definition does not count.                                       *)
Profile(name, mode, parent) == [name |-> name, mode |-> mode, parent |-> parent]
FourProfiles ==
  <<Profile(v1, Blank, base), Profile(v2, Blank, v2), Profile(v2, "trunk", v1),
    Profile(base, "trunk", Blank)>>

(* All lists of up to three profiles with these names, one of them perhaps *)
(* undefined, or defined more than once; and that of the tree.             *)
Names == {v1, v2, base}
Profiles ==
  [name : Names, mode : {"trunk", Blank}, parent : Names \cup {Blank}]
UpToThreeProfiles == UNION {[1..n -> Profiles] : n \in 0..3} \cup {FourProfiles}

(* No action reads the code of the last answer.                            *)
NoCodes ==
  <<[c \in Client |-> [call[c] EXCEPT !.code = "none"]],
    writes, issued, late, cvVars>>

(* The port of the mainline has a profile or none, and some VLAN list.     *)
MCInit == Init /\ mainline[vlans] = v2
MCSpec == MCInit /\ [][Next]_vars

=============================================================================
