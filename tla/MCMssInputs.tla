---------------------------- MODULE MCMssInputs ----------------------------
(* MssInputs on one group, one AGNI group, one service, two rules and one  *)
(* policy.                                                                 *)
EXTENDS MssInputs

CONSTANTS c1, d1, f1, g1, g2, s1, r1, r2, p1, m1, m2, x, y

OneClient == {c1}
OneDraft == {d1}
OneForeign == {f1}
Groups == {g1, g2}
Services == {s1}
Rules == {r1, r2}
Policies == {p1}
Monitors == {m1, m2}
Contents == {x, y}

Order(rules) == [policyRules |-> rules]
RuleOf(action, sources, services, monitor) ==
  [action |-> action, sources |-> sources, destinations |-> {Any},
   services |-> services, monitor |-> monitor]

Upsert(coll, n, entry) ==
  [op |-> "upsert", collection |-> coll, name |-> n, entry |-> entry]
Remove(coll, n) ==
  [op |-> "remove", collection |-> coll, name |-> n, entry |-> Absent]
SetRules(p, rules) ==
  [op |-> "set_policy_rules", collection |-> "policies", name |-> p,
   entry |-> Order(rules)]

DropAll == Upsert("rules", r2, RuleOf("drop", {Any}, {Any}, Absent))
NewGroup == Upsert("staticGroups", g1, y)

(* Batches that succeed on some document, that fail on its names, on its   *)
(* references, on what they write, and that are no operations at all.      *)
Batches ==
  {<<Upsert("rules", r2, RuleOf("drop", {g1}, {s1}, m1)), SetRules(p1, <<r2, r1>>)>>,
   <<Upsert("rules", r1, RuleOf("forward", {Any}, {s1}, Absent)),
     Remove("staticGroups", g1)>>,
   <<SetRules(p1, <<r2>>), Remove("rules", r1)>>,
   <<NewGroup>>,
   <<Upsert("staticGroups", g2, x)>>,
   <<Remove("rules", r1)>>,
   <<DropAll>>,
   <<DropAll, Remove("rules", r2), Upsert("rules", r2, RuleOf("drop", {g2}, {Any}, m2))>>}
BadBatches ==
  {<<>>, <<NewGroup, NewGroup, NewGroup, NewGroup>>, <<Remove("policies", p1)>>,
   <<Upsert("acceptedGroups", g2, x)>>, <<NewGroup, Upsert("policies", p1, Order(<<r1, r1>>))>>,
   <<Upsert("rules", r1, RuleOf("drop", {Any, g1}, {s1}, Absent))>>}
Disruptives == {<<Upsert("services", s1, y)>>}
AllBatches == Batches \cup BadBatches \cup Disruptives

(* A usual document; one the UI left with a rule that drops everything and *)
(* an empty policy; one with a dangling reference; and a malformed one.    *)
Usual ==
  [staticGroups |-> [g \in Groups |-> IF g = g1 THEN x ELSE Absent],
   services |-> [s \in Services |-> x],
   rules |-> [r \in Rules |-> IF r = r1 THEN RuleOf("forward", {g1}, {s1}, m1)
                                        ELSE Absent],
   policies |-> [p \in Policies |-> Order(<<r1>>)],
   accepted |-> {g2}, monitors |-> {m1}]
Odd ==
  [Usual EXCEPT !.rules[r2] = RuleOf("drop", {Any}, {Any}, Absent),
                !.policies[p1] = Order(<<>>)]
Dangling == [Usual EXCEPT !.staticGroups[g1] = Absent]
UsualAndOdd == {Usual, Odd}
DanglingOrMalformed == {Dangling, Malformed}

(* No action reads the code of the last answer.                            *)
NoCodes ==
  <<[c \in Client |-> [call[c] EXCEPT !.code = "none"]],
    writes, issued, late, cvVars>>

=============================================================================
