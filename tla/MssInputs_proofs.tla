-------------------------- MODULE MssInputs_proofs --------------------------
(***************************************************************************)
(* The safety of MssInputs for any documents, batches, names and contents, *)
(* any number of processes, drafts, late requests and changes made by      *)
(* people.                                                                 *)
(***************************************************************************)
EXTENDS MssInputs, Positions

----------------------------------------------------------------------------
(* Applying a batch.                                                       *)

(* Where the application of a batch stands.                                *)
State ==
  [doc : Doc, touched : SUBSET (Collection \X Name),
   code : {"none", "mss_entry_not_found", "mss_operation_invalid"}]

Start(document) == [doc |-> document, touched |-> {}, code |-> "none"]

(* f lists where it stands after each of the first n operations.           *)
IsRun(f, document, ops, n) ==
  f = [i \in 0..n |-> IF i = 0 THEN Start(document) ELSE Step(f[i - 1], ops[i])]

(* Such a list exists: else there would be a least n without one.          *)
LEMMA RunExists ==
  ASSUME NEW document, NEW ops, NEW n \in Nat
  PROVE  \E f : IsRun(f, document, ops, n)
<1> DEFINE T == {i \in 1..(n + 1) : ~ \E f : IsRun(f, document, ops, i - 1)}
<1>1. ASSUME T # {} PROVE FALSE
  <2>1. PICK x \in T : \A y \in T : x <= y
    <3>1. n + 1 \in Nat /\ T \in SUBSET (1..(n + 1))
      OBVIOUS
    <3> HIDE DEF T
    <3> QED
      BY <1>1, <3>1, FirstPosition
  <2>2. x \in 1..(n + 1) /\ ~ \E f : IsRun(f, document, ops, x - 1)
    OBVIOUS
  <2>3. CASE x = 1
    <3> DEFINE f == [i \in 0..0 |-> Start(document)]
    <3>1. IsRun(f, document, ops, 0)
      BY DEF IsRun
    <3> QED
      BY <2>2, <2>3, <3>1
  <2>4. CASE x # 1
    <3>1. x - 1 \in 1..(n + 1) /\ x - 1 \notin T /\ (x - 1) - 1 = x - 2 /\ x - 2 \in Nat
      BY <2>1, <2>2, <2>4
    <3>2. PICK f : IsRun(f, document, ops, x - 2)
      BY <3>1
    <3> DEFINE last == Step(f[x - 2], ops[x - 1])
               g == [i \in 0..(x - 1) |-> IF i = x - 1 THEN last ELSE f[i]]
    <3>3. \A i \in 0..(x - 2) :
            g[i] = IF i = 0 THEN Start(document) ELSE Step(f[i - 1], ops[i])
      BY <3>1, <3>2 DEF IsRun
    <3>4. \A i \in 0..(x - 1) : i # 0 => i - 1 \in 0..(x - 2) /\ g[i - 1] = f[i - 1]
      BY <3>1
    <3>5. g[x - 1] = Step(g[x - 2], ops[x - 1])
      BY <3>1
    <3>6. \A i \in 0..(x - 1) : i = x - 1 \/ i \in 0..(x - 2)
      BY <3>1
    <3>7. x - 1 # 0 /\ (x - 1) - 1 = x - 2
      BY <2>2, <2>4
    <3> HIDE DEF last
    <3>8. DOMAIN g = 0..(x - 1) /\ g = [i \in 0..(x - 1) |-> g[i]]
      OBVIOUS
    <3> HIDE DEF g
    <3>9. \A i \in 0..(x - 1) :
            g[i] = IF i = 0 THEN Start(document) ELSE Step(g[i - 1], ops[i])
      BY <3>3, <3>4, <3>5, <3>6, <3>7
    <3>10. IsRun(g, document, ops, x - 1)
      BY <3>8, <3>9 DEF IsRun
    <3> QED
      BY <2>2, <3>10
  <2> QED
    BY <2>3, <2>4
<1>2. n + 1 \in 1..(n + 1) /\ (n + 1) - 1 = n
  OBVIOUS
<1> QED
  BY <1>1, <1>2

LEMMA ApplyIsRun ==
  ASSUME NEW document, NEW ops, Len(ops) \in Nat
  PROVE  \E f : IsRun(f, document, ops, Len(ops)) /\ Apply(document, ops) = f[Len(ops)]
<1> DEFINE f == CHOOSE g : IsRun(g, document, ops, Len(ops))
<1>1. IsRun(f, document, ops, Len(ops))
  BY RunExists
<1>2. Apply(document, ops) = f[Len(ops)]
  BY DEF Apply, IsRun, Start
<1> QED
  BY <1>1, <1>2

(* The operation is about the entry n of a collection.                     *)
About(op, coll, n) == op.collection = coll /\ op.name = n

(* What the operation says of that entry.                                  *)
Says(op, after, coll, n) ==
  IF op.op = "remove" THEN after[coll][n] = Absent
  ELSE IF coll = "rules" /\ op.entry.monitor = Absent
  THEN after[coll][n] = [op.entry EXCEPT !.monitor = after[coll][n].monitor]
  ELSE after[coll][n] = op.entry

(* The first i operations say nothing of it, or the last that does holds.  *)
AsSaid(before, ops, i, after, coll, n) ==
  \/ /\ \A j \in 1..i : ~About(ops[j], coll, n)
     /\ after[coll][n] = before[coll][n]
  \/ \E k \in 1..i : /\ About(ops[k], coll, n)
                     /\ \A j \in 1..i : About(ops[j], coll, n) => j <= k
                     /\ Says(ops[k], after, coll, n)

(* Where the application stands after i operations.                        *)
Standing(document, ops, i, st) ==
  /\ st \in State
  /\ st.doc.accepted = document.accepted /\ st.doc.monitors = document.monitors
  /\ \A p \in Policy : st.doc.policies[p] = Absent <=> document.policies[p] = Absent
  /\ \A coll \in Collection : \A n \in NamesIn[coll] :
       <<coll, n>> \notin st.touched =>
         st.doc[coll][n] \in {Absent, document[coll][n]}
  /\ st.code = "none" =>
       \A coll \in Collection : \A n \in NamesIn[coll] :
         AsSaid(document, ops, i, st.doc, coll, n)

(* A document with one entry replaced, and the states with it.             *)
With(d, coll, n, entry) == [d EXCEPT ![coll][n] = entry]
Removed(st, coll, n, entry) == [st EXCEPT !.doc[coll][n] = entry]
Replaced(st, coll, n, entry) ==
  [st EXCEPT !.doc[coll][n] = entry, !.touched = @ \cup {<<coll, n>>}]

(* Replacing one entry of a document.                                      *)
LEMMA EntryReplaced ==
  ASSUME NEW d \in Doc, NEW coll \in Collection, NEW n \in NamesIn[coll],
         NEW entry \in EntriesIn[coll] \cup {Absent}
  PROVE  /\ With(d, coll, n, entry) \in Doc
         /\ With(d, coll, n, entry).accepted = d.accepted
         /\ With(d, coll, n, entry).monitors = d.monitors
         /\ \A c \in Collection : \A m \in NamesIn[c] :
              With(d, coll, n, entry)[c][m] =
                IF c = coll /\ m = n THEN entry ELSE d[c][m]
<1>1. CASE coll = "staticGroups"
  BY <1>1 DEF With, Doc, Collection, NamesIn, EntriesIn
<1>2. CASE coll = "services"
  BY <1>2 DEF With, Doc, Collection, NamesIn, EntriesIn
<1>3. CASE coll = "rules"
  BY <1>3 DEF With, Doc, Collection, NamesIn, EntriesIn
<1>4. CASE coll = "policies"
  BY <1>4 DEF With, Doc, Collection, NamesIn, EntriesIn
<1> QED
  BY <1>1, <1>2, <1>3, <1>4 DEF Collection



(* A state with another code, or with one entry replaced.                  *)
LEMMA ErrorState ==
  ASSUME NEW st \in State, NEW err,
         NEW code \in {"mss_entry_not_found", "mss_operation_invalid"},
         err = [st EXCEPT !.code = code]
  PROVE  /\ err \in State /\ err.code # "none"
         /\ err.doc = st.doc /\ err.touched = st.touched
BY DEF State

LEMMA StateFacts ==
  ASSUME NEW st \in State, NEW coll \in Collection, NEW n \in NamesIn[coll],
         NEW entry \in EntriesIn[coll] \cup {Absent}
  PROVE  /\ Removed(st, coll, n, entry) \in State
         /\ Removed(st, coll, n, entry).doc = With(st.doc, coll, n, entry)
         /\ Removed(st, coll, n, entry).touched = st.touched
         /\ Replaced(st, coll, n, entry) \in State
         /\ Replaced(st, coll, n, entry).doc = With(st.doc, coll, n, entry)
         /\ Replaced(st, coll, n, entry).touched = st.touched \cup {<<coll, n>>}
<1> DEFINE e == With(st.doc, coll, n, entry)
           del == Removed(st, coll, n, entry)
           put == Replaced(st, coll, n, entry)
<1>1. e \in Doc /\ st.doc \in Doc
  BY EntryReplaced DEF State
<1>2. <<coll, n>> \in Collection \X Name
  BY DEF Collection, NamesIn, Name
<1>3. /\ del = [st EXCEPT !.doc = e]
      /\ put = [st EXCEPT !.doc = e, !.touched = @ \cup {<<coll, n>>}]
  BY DEF State, With, Removed, Replaced
<1> HIDE DEF e, del, put
<1>4. del.doc = e /\ del.touched = st.touched /\ del \in State
  BY <1>1, <1>3 DEF State
<1>5. put.doc = e /\ put.touched = st.touched \cup {<<coll, n>>} /\ put \in State
  BY <1>1, <1>2, <1>3 DEF State
<1> QED
  BY <1>4, <1>5 DEF del, put, e

(* What the tool accepts as an operation.                                  *)
LEMMA AcceptedOperation ==
  ASSUME NEW op, WellFormed(op), OperationError(op) = "none"
  PROVE  /\ op.collection \in Collection /\ op.name \in NamesIn[op.collection]
         /\ op.op \in {"upsert", "remove", "set_policy_rules"}
         /\ op.op = "remove" => op.collection # "policies"
         /\ op.op # "remove" => op.entry \in EntriesIn[op.collection]
         /\ op.op = "set_policy_rules" => op.collection = "policies"
<1>1. op.op \in {"upsert", "remove", "set_policy_rules"}
  BY DEF WellFormed
<1>2. CASE op.op = "set_policy_rules"
  BY <1>2 DEF WellFormed, Collection
<1>3. CASE op.op = "remove"
  BY <1>3 DEF WellFormed, OperationError, Collection
<1>4. CASE op.op = "upsert"
  BY <1>4 DEF WellFormed, OperationError, Collection
<1> QED
  BY <1>1, <1>2, <1>3, <1>4

(* A batch that is accepted has only operations that are: its first bad    *)
(* operation would be its error.                                           *)
LEMMA AcceptedBatch ==
  ASSUME NEW ops \in Batch, NormalizeOperations(ops) = "none"
  PROVE  /\ Len(ops) \in Nat /\ DOMAIN ops = 1..Len(ops)
         /\ \A i \in 1..Len(ops) : WellFormed(ops[i]) /\ OperationError(ops[i]) = "none"
<1>1. /\ Len(ops) \in Nat /\ DOMAIN ops = 1..Len(ops)
      /\ \A i \in 1..Len(ops) : WellFormed(ops[i])
  BY MssAssumption
<1> DEFINE bad == {i \in DOMAIN ops : OperationError(ops[i]) # "none"}
<1>2. bad = {} \/ OperationError(ops[CHOOSE i \in bad : \A j \in bad : i <= j]) = "none"
  BY DEF NormalizeOperations
<1>3. bad \in SUBSET (1..Len(ops)) /\ \A i \in bad : OperationError(ops[i]) # "none"
  BY <1>1
<1> HIDE DEF bad
<1>4. bad = {}
  <2> SUFFICES ASSUME bad # {} PROVE FALSE
    OBVIOUS
  <2>1. \E i \in bad : \A j \in bad : i <= j
    BY <1>1, <1>3, FirstPosition
  <2>2. (CHOOSE i \in bad : \A j \in bad : i <= j) \in bad
    BY <2>1
  <2> QED
    BY <1>2, <1>3, <2>2
<1> QED
  BY <1>1, <1>4 DEF bad


(* A rule keeps its monitor object when the operation names none.          *)
Inherited(st, op, entry) ==
  LET old == st.doc[op.collection][op.name]
  IN /\ op.collection = "rules" /\ op.entry.monitor = Absent
     /\ old # Absent /\ entry = [op.entry EXCEPT !.monitor = old.monitor]

(* What an accepted operation does: nothing after an error, an error, or   *)
(* one entry is removed or replaced.                                       *)
Replaces(st, op, entry, next) ==
  /\ entry \in EntriesIn[op.collection] \cup {Absent}
  /\ op.collection = "policies" =>
       entry # Absent /\ st.doc[op.collection][op.name] # Absent
  /\ \/ /\ op.op = "remove" /\ entry = Absent
        /\ next = Removed(st, op.collection, op.name, entry)
     \/ /\ op.op # "remove" /\ next = Replaced(st, op.collection, op.name, entry)
        /\ entry = op.entry \/ Inherited(st, op, entry)

LEMMA MergedFacts ==
  ASSUME NEW st \in State, NEW op, op.collection \in Collection,
         op.name \in NamesIn[op.collection],
         op.entry \in EntriesIn[op.collection]
  PROVE  LET old == st.doc[op.collection][op.name]
             entry == Merged(op.collection, old, op.entry)
         IN /\ entry \in EntriesIn[op.collection] /\ entry # Absent
            /\ entry = op.entry \/ Inherited(st, op, entry)
<1> DEFINE old == st.doc[op.collection][op.name]
           entry == Merged(op.collection, old, op.entry)
<1>1. CASE op.collection = "rules" /\ old # Absent /\ op.entry.monitor = Absent
  <2>1. old \in Entry /\ op.entry \in Entry
    BY <1>1 DEF State, Doc, NamesIn, EntriesIn
  <2>2. entry = [op.entry EXCEPT !.monitor = old.monitor]
    BY <1>1 DEF Merged
  <2>3. entry \in Entry
    BY <2>1, <2>2 DEF Entry
  <2> QED
    BY <1>1, <2>2, <2>3, MssAssumption DEF Inherited, EntriesIn
<1>2. CASE ~(op.collection = "rules" /\ old # Absent /\ op.entry.monitor = Absent)
  <2>1. entry = op.entry
    BY <1>2 DEF Merged
  <2>2. op.entry # Absent
    BY MssAssumption DEF EntriesIn, Collection
  <2> QED
    BY <2>1, <2>2
<1> QED
  BY <1>1, <1>2

LEMMA StepForms ==
  ASSUME NEW st \in State, NEW op, WellFormed(op), OperationError(op) = "none"
  PROVE  \/ st.code # "none" /\ Step(st, op) = st
         \/ \E code \in {"mss_entry_not_found", "mss_operation_invalid"} :
              Step(st, op) = [st EXCEPT !.code = code]
         \/ st.code = "none" /\ \E entry : Replaces(st, op, entry, Step(st, op))
<1> DEFINE coll == op.collection
           old == st.doc[coll][op.name]
<1>1. /\ coll \in Collection /\ op.name \in NamesIn[coll]
      /\ op.op \in {"upsert", "remove", "set_policy_rules"}
      /\ op.op = "remove" => coll # "policies"
      /\ op.op # "remove" => op.entry \in EntriesIn[coll]
      /\ op.op = "set_policy_rules" => coll = "policies"
  BY AcceptedOperation
<1>2. CASE st.code # "none"
  BY <1>2 DEF Step
<1>3. CASE st.code = "none" /\ op.op = "remove"
  <2>1. CASE old = Absent
    BY <1>3, <2>1 DEF Step
  <2>2. CASE old # Absent
    <3>1. Step(st, op) = Removed(st, coll, op.name, Absent)
      BY <1>3, <2>2 DEF Step, Removed
    <3>2. Replaces(st, op, Absent, Step(st, op))
      BY <1>1, <1>3, <3>1 DEF Replaces
    <3> QED
      BY <1>3, <3>2
  <2> QED
    BY <2>1, <2>2
<1>4. CASE st.code = "none" /\ op.op = "set_policy_rules"
  <2>1. CASE old = Absent
    BY <1>4, <2>1 DEF Step
  <2>2. CASE old # Absent
    <3>1. Step(st, op) = Replaced(st, coll, op.name, op.entry)
      BY <1>4, <2>2 DEF Step, Put, Replaced
    <3>2. op.entry # Absent
      BY <1>1, <1>4, MssAssumption DEF EntriesIn
    <3>3. Replaces(st, op, op.entry, Step(st, op))
      BY <1>1, <1>4, <2>2, <3>1, <3>2 DEF Replaces
    <3> QED
      BY <1>4, <3>3
  <2> QED
    BY <2>1, <2>2
<1>5. CASE st.code = "none" /\ op.op = "upsert"
  <2> DEFINE entry == Merged(coll, old, op.entry)
  <2>1. \/ \E code \in {"mss_entry_not_found", "mss_operation_invalid"} :
             Step(st, op) = [st EXCEPT !.code = code]
        \/ (coll = "policies" => old # Absent) /\ Step(st, op) = Replaced(st, coll, op.name, entry)
    BY <1>5 DEF Step, Put, Replaced
  <2>2. /\ entry \in EntriesIn[coll] /\ entry # Absent
        /\ entry = op.entry \/ Inherited(st, op, entry)
    BY <1>1, <1>5, MergedFacts
  <2>3. CASE (coll = "policies" => old # Absent) /\ Step(st, op) = Replaced(st, coll, op.name, entry)
    <3>1. Replaces(st, op, entry, Step(st, op))
      BY <1>5, <2>2, <2>3 DEF Replaces
    <3> QED
      BY <1>5, <3>1
  <2> QED
    BY <2>1, <2>3
<1> QED
  BY <1>1, <1>2, <1>3, <1>4, <1>5

(* The entry holds what the operation says of it.                          *)
LEMMA ReplacedAsSaid ==
  ASSUME NEW st \in State, NEW op, WellFormed(op), OperationError(op) = "none",
         NEW entry, NEW next, Replaces(st, op, entry, next),
         NEW after, after[op.collection][op.name] = entry
  PROVE  Says(op, after, op.collection, op.name)
<1>1. CASE op.op = "remove"
  BY <1>1 DEF Replaces, Says
<1>2. CASE op.op # "remove" /\ op.collection = "rules" /\ op.entry.monitor = Absent
  <2>1. op.entry \in Entry
    BY <1>2, AcceptedOperation DEF EntriesIn
  <2>2. CASE entry = op.entry
    <3>1. op.entry = [op.entry EXCEPT !.monitor = op.entry.monitor]
      BY <2>1 DEF Entry
    <3> QED
      BY <1>2, <2>2, <3>1 DEF Says
  <2>3. CASE Inherited(st, op, entry)
    <3>1. entry.monitor = st.doc[op.collection][op.name].monitor
      BY <2>1, <2>3 DEF Inherited, Entry
    <3> QED
      BY <1>2, <2>3, <3>1 DEF Says, Inherited
  <2> QED
    BY <1>2, <2>2, <2>3 DEF Replaces
<1>3. CASE op.op # "remove" /\ ~(op.collection = "rules" /\ op.entry.monitor = Absent)
  BY <1>3 DEF Replaces, Inherited, Says
<1> QED
  BY <1>1, <1>2, <1>3

(* One more operation.                                                     *)
LEMMA OneMoreOperation ==
  ASSUME NEW document, NEW ops, NEW i \in Nat, NEW st,
         Standing(document, ops, i, st),
         WellFormed(ops[i + 1]), OperationError(ops[i + 1]) = "none"
  PROVE  Standing(document, ops, i + 1, Step(st, ops[i + 1]))
<1> DEFINE op == ops[i + 1]
           next == Step(st, op)
           coll == op.collection
           n == op.name
<1>1. st \in State /\ coll \in Collection /\ n \in NamesIn[coll]
  BY AcceptedOperation DEF Standing
<1>2. CASE st.code # "none" /\ next = st
  BY <1>2 DEF Standing
<1>3. ASSUME NEW code \in {"mss_entry_not_found", "mss_operation_invalid"},
             next = [st EXCEPT !.code = code]
      PROVE  Standing(document, ops, i + 1, next)
  <2> HIDE DEF next
  <2>1. next \in State /\ next.doc = st.doc /\ next.touched = st.touched /\ next.code # "none"
    BY <1>1, <1>3, ErrorState
  <2> QED
    BY <2>1 DEF Standing
<1>4. ASSUME st.code = "none", NEW entry, Replaces(st, op, entry, next)
      PROVE  Standing(document, ops, i + 1, next)
  <2> DEFINE e == With(st.doc, coll, n, entry)
  <2>1. entry \in EntriesIn[coll] \cup {Absent}
    BY <1>4 DEF Replaces
  <2>2. /\ next \in State /\ next.doc = e
        /\ \/ next.touched = st.touched /\ entry = Absent
           \/ next.touched = st.touched \cup {<<coll, n>>}
    <3>1. \/ next = Removed(st, coll, n, entry) /\ entry = Absent
          \/ next = Replaced(st, coll, n, entry)
      BY <1>4 DEF Replaces
    <3> HIDE DEF coll, n, next
    <3> QED
      BY <1>1, <2>1, <3>1, StateFacts
  <2>3. /\ e.accepted = st.doc.accepted /\ e.monitors = st.doc.monitors
        /\ \A c \in Collection : \A m \in NamesIn[c] :
             e[c][m] = IF c = coll /\ m = n THEN entry ELSE st.doc[c][m]
    <3>1. st.doc \in Doc
      BY <1>1 DEF State
    <3> QED
      BY <1>1, <2>1, <3>1, EntryReplaced
  <2> HIDE DEF e, next
  <2>4. \A p \in Policy : e.policies[p] = Absent <=> document.policies[p] = Absent
    <3> SUFFICES ASSUME NEW p \in Policy
                 PROVE  e.policies[p] = Absent <=> document.policies[p] = Absent
      OBVIOUS
    <3>1. "policies" \in Collection /\ p \in NamesIn["policies"]
      BY DEF Collection, NamesIn
    <3>2. e["policies"][p] = IF "policies" = coll /\ p = n THEN entry ELSE st.doc["policies"][p]
      BY <2>3, <3>1
    <3>3. coll = "policies" => entry # Absent /\ st.doc[coll][n] # Absent
      BY <1>4 DEF Replaces
    <3>4. st.doc["policies"][p] = Absent <=> document["policies"][p] = Absent
      BY DEF Standing
    <3> QED
      BY <3>2, <3>3, <3>4
  <2>5. \A c \in Collection : \A m \in NamesIn[c] :
          <<c, m>> \notin next.touched => e[c][m] \in {Absent, document[c][m]}
    BY <2>2, <2>3 DEF Standing
  <2>6. ASSUME NEW c \in Collection, NEW m \in NamesIn[c]
        PROVE  AsSaid(document, ops, i + 1, e, c, m)
    <3>1. AsSaid(document, ops, i, st.doc, c, m)
      BY <1>4 DEF Standing
    <3>2. /\ i + 1 \in 1..(i + 1) /\ \A j \in 1..(i + 1) : j \in 1..i \/ j = i + 1
          /\ \A j \in 1..i : j \in 1..(i + 1) /\ j <= i + 1
      OBVIOUS
    <3>3. CASE About(op, c, m)
      <4>1. e[coll][n] = entry /\ c = coll /\ m = n
        BY <1>1, <2>3, <3>3 DEF About
      <4>2. Says(op, e, coll, n)
        BY <1>1, <1>4, <4>1, ReplacedAsSaid
      <4> QED
        BY <3>2, <3>3, <4>1, <4>2 DEF AsSaid
    <3>4. CASE ~About(op, c, m)
      <4>1. e[c][m] = st.doc[c][m]
        BY <2>3, <3>4 DEF About
      <4> QED
        BY <3>1, <3>2, <3>4, <4>1 DEF AsSaid, Says
    <3> QED
      BY <3>3, <3>4
  <2> QED
    BY <2>2, <2>3, <2>4, <2>5, <2>6 DEF Standing
<1> HIDE DEF next
<1> QED
  BY <1>1, <1>2, <1>3, <1>4, StepForms DEF next

(* So it stands after the whole batch.                                     *)
LEMMA ApplyStanding ==
  ASSUME NEW document \in Doc, NEW ops \in Batch, NormalizeOperations(ops) = "none"
  PROVE  Standing(document, ops, Len(ops), Apply(document, ops))
<1>1. /\ Len(ops) \in Nat
      /\ \A i \in 1..Len(ops) : WellFormed(ops[i]) /\ OperationError(ops[i]) = "none"
  BY AcceptedBatch
<1>2. PICK f : IsRun(f, document, ops, Len(ops)) /\ Apply(document, ops) = f[Len(ops)]
  BY <1>1, ApplyIsRun
<1>3. Standing(document, ops, 0, f[0])
  <2>1. f[0] = Start(document)
    BY <1>1, <1>2 DEF IsRun
  <2> QED
    BY <2>1 DEF Start, State, Standing, AsSaid
<1> DEFINE T == {i \in 1..Len(ops) : ~Standing(document, ops, i, f[i])}
<1>4. T = {}
  <2> SUFFICES ASSUME T # {} PROVE FALSE
    OBVIOUS
  <2>1. PICK x \in T : \A y \in T : x <= y
    <3>1. T \in SUBSET (1..Len(ops))
      OBVIOUS
    <3> HIDE DEF T
    <3> QED
      BY <1>1, <3>1, FirstPosition
  <2>2. x \in 1..Len(ops) /\ ~Standing(document, ops, x, f[x])
    OBVIOUS
  <2>3. x - 1 \in Nat /\ (x - 1) + 1 = x /\ (x - 1 = 0 \/ x - 1 \in 1..Len(ops))
    BY <1>1, <2>2
  <2>4. Standing(document, ops, x - 1, f[x - 1])
    BY <1>3, <2>1, <2>3
  <2>5. f[x] = Step(f[x - 1], ops[x])
    BY <1>1, <1>2, <2>2 DEF IsRun
  <2>6. Standing(document, ops, (x - 1) + 1, Step(f[x - 1], ops[(x - 1) + 1]))
    BY <1>1, <2>2, <2>3, <2>4, OneMoreOperation
  <2> QED
    BY <2>2, <2>3, <2>5, <2>6
<1>5. Len(ops) = 0 \/ Len(ops) \in 1..Len(ops)
  BY <1>1
<1> QED
  BY <1>2, <1>3, <1>4, <1>5

(* It leaves each entry as the batch says, keyed by its last operation.    *)
LEMMA SaidToTheEnd ==
  ASSUME NEW before, NEW ops, Len(ops) \in Nat, DOMAIN ops = 1..Len(ops),
         NEW after, NEW coll, NEW n,
         AsSaid(before, ops, Len(ops), after, coll, n)
  PROVE  DoesAsSaid(before, ops, after, coll, n)
<1> DEFINE about == {i \in DOMAIN ops : ops[i].collection = coll /\ ops[i].name = n}
<1>1. CASE \A j \in 1..Len(ops) : ~About(ops[j], coll, n)
  <2>1. about = {} /\ after[coll][n] = before[coll][n]
    BY <1>1 DEF About, AsSaid
  <2> QED
    BY <2>1 DEF DoesAsSaid
<1>2. CASE \E j \in 1..Len(ops) : About(ops[j], coll, n)
  <2>1. PICK k \in 1..Len(ops) :
          /\ About(ops[k], coll, n) /\ Says(ops[k], after, coll, n)
          /\ \A j \in 1..Len(ops) : About(ops[j], coll, n) => j <= k
    BY <1>2 DEF AsSaid
  <2>2. k \in about /\ (\A j \in about : j <= k) /\ about \subseteq Nat
    BY <2>1 DEF About
  <2> HIDE DEF about
  <2>3. \A i \in about : (\A j \in about : j <= i) => i = k
    BY <2>2
  <2>4. (CHOOSE i \in about : \A j \in about : j <= i) = k /\ about # {}
    BY <2>2, <2>3
  <2> QED
    BY <2>1, <2>4 DEF DoesAsSaid, Says, about
<1> QED
  BY <1>1, <1>2

(* A result that passes the checks is the batch's doing, and whole if the  *)
(* document before was, or was the mainline's.                             *)
LEMMA ResultFacts ==
  ASSUME NEW document \in Doc, NEW ops \in Batch, NormalizeOperations(ops) = "none",
         NEW st, st = Apply(document, ops), st.code = "none",
         CheckResult(st.doc, st.touched) = "none"
  PROVE  /\ st.doc \in Doc
         /\ \A coll \in Collection : \A n \in DOMAIN st.doc[coll] :
              DoesAsSaid(document, ops, st.doc, coll, n)
         /\ document = mainline \/ Whole(document) => Whole(st.doc)
<1>1. Standing(document, ops, Len(ops), st)
  BY ApplyStanding
<1>2. st.doc \in Doc
  BY <1>1 DEF Standing, State
<1>3. ASSUME NEW coll \in Collection, NEW n \in DOMAIN st.doc[coll]
      PROVE  DoesAsSaid(document, ops, st.doc, coll, n)
  <2>1. n \in NamesIn[coll]
    BY <1>2 DEF Doc, Collection, NamesIn
  <2>2. AsSaid(document, ops, Len(ops), st.doc, coll, n)
    BY <1>1, <2>1 DEF Standing
  <2> QED
    BY <2>2, SaidToTheEnd, AcceptedBatch
<1>4. /\ Resolved(st.doc)
      /\ \A p \in Present(st.doc.policies) :
           RulesOf(st.doc, p) = <<>> => <<"policies", p>> \notin st.touched
      /\ \A r \in Present(st.doc.rules) :
           DropsAll(st.doc.rules[r]) => <<"rules", r>> \notin st.touched
  BY DEF CheckResult
<1>5. ASSUME document = mainline \/ Whole(document)
      PROVE  Whole(st.doc)
  <2>1. /\ \A r \in Present(document.rules) :
             DropsAll(document.rules[r]) => document.rules[r] = mainline.rules[r]
        /\ Present(document.policies) = Present(mainline.policies)
        /\ \A p \in Present(document.policies) :
             RulesOf(document, p) = <<>> => RulesOf(mainline, p) = <<>>
        /\ ~ScopeViolation(mainline, document)
    BY <1>5 DEF Whole, ScopeViolation
  <2>2. /\ DOMAIN document.rules = Rule /\ DOMAIN st.doc.rules = Rule
        /\ DOMAIN document.policies = Policy /\ DOMAIN st.doc.policies = Policy
    BY <1>2 DEF Doc
  <2>3. ASSUME NEW r \in Present(st.doc.rules), DropsAll(st.doc.rules[r])
        PROVE  st.doc.rules[r] = mainline.rules[r]
    <3>1. "rules" \in Collection /\ r \in NamesIn["rules"] /\ st.doc.rules[r] # Absent
      BY <2>2 DEF Collection, NamesIn, Present
    <3>2. st.doc["rules"][r] \in {Absent, document["rules"][r]}
      BY <1>1, <1>4, <2>3, <3>1 DEF Standing
    <3>3. st.doc.rules[r] = document.rules[r] /\ r \in Present(document.rules)
      BY <2>2, <3>1, <3>2 DEF Present
    <3> QED
      BY <2>1, <2>3, <3>3
  <2>4. Present(st.doc.policies) = Present(mainline.policies)
    <3>1. Present(st.doc.policies) = Present(document.policies)
      BY <1>1, <2>2 DEF Standing, Present
    <3> QED
      BY <2>1, <3>1
  <2>5. ASSUME NEW p \in Present(st.doc.policies), RulesOf(st.doc, p) = <<>>
        PROVE  RulesOf(mainline, p) = <<>>
    <3>1. "policies" \in Collection /\ p \in NamesIn["policies"] /\ st.doc.policies[p] # Absent
      BY <2>2 DEF Collection, NamesIn, Present
    <3>2. st.doc["policies"][p] \in {Absent, document["policies"][p]}
      BY <1>1, <1>4, <2>5, <3>1 DEF Standing
    <3>3. st.doc.policies[p] = document.policies[p] /\ p \in Present(document.policies)
      BY <2>2, <3>1, <3>2 DEF Present
    <3> QED
      BY <2>1, <2>5, <3>3 DEF RulesOf
  <2>6. ~ScopeViolation(mainline, st.doc)
    BY <1>1, <2>1 DEF Standing, ScopeViolation
  <2> QED
    BY <1>4, <2>3, <2>4, <2>5, <2>6 DEF Whole
<1> QED
  BY <1>2, <1>3, <1>5

----------------------------------------------------------------------------
Codes ==
  {"none", "preview", "accepted", "writes_disabled", "tool_disabled",
   "invalid_workspace_id", "action_args_invalid", "preflight_failed",
   "expected_inputs_sha256_required", "mss_operations_required",
   "mss_operations_too_many", "mss_operation_invalid",
   "mss_collection_not_allowed", "disruptive_content_forbidden",
   "workspace_read_failed", "workspace_not_found", "workspace_not_pending",
   "workspace_state_unknown", "studio_from_package", "studio_immutable",
   "inputs_path_unresolved", "mss_document_malformed",
   "inputs_digest_mismatch", "mss_entry_not_found",
   "mss_reference_unresolved", "mss_rule_too_broad",
   "tree_diff_outside_mss_scope", "preview_required", "resource_write_failed"}

CallArgs == [expected : Doc \cup {Malformed}, ops : Batch, after : Doc \cup {Nil}]
SentArgs == [expected : Doc, ops : Batch, after : Doc]
Token == {"set_mss"} \X Draft \X SentArgs

CallRecord ==
  [pc : {"idle", "preflight", "document", "await"},
   tool : {"set_mss", Nil}, ws : Workspace \cup {Nil},
   args : CallArgs \cup {Nil}, confirm : Confirm,
   token : Token \cup {NoToken}, body : Doc \cup {Nil},
   stale : BOOLEAN, code : Codes]

Requests ==
  [tool : {"set_mss"}, ws : Draft, args : SentArgs, body : Doc, stale : BOOLEAN]

CVTypes ==
  /\ wsState \in [Draft -> WsState]
  /\ overlay \in [Draft -> Doc \cup {NoDoc, Malformed}]
  /\ mainline \in Doc \cup {Malformed}
  /\ touched \subseteq Draft

Types ==
  /\ call \in [Client -> CallRecord]
  /\ issued \subseteq Token
  /\ late \subseteq Requests
  /\ CVTypes

(* What the tool accepted of its arguments before any HTTP.                *)
Accepted(w, ops) ==
  /\ w \in Draft
  /\ ops \in Batch \ Disruptive
  /\ NormalizeOperations(ops) = "none"

Reading == {"preflight", "document"}

(* A call between its entry and its request: the draft is still pending    *)
(* unless somebody changed that.                                           *)
Pending(c) ==
  /\ call[c].tool = "set_mss"
  /\ call[c].args \in CallArgs
  /\ Accepted(call[c].ws, call[c].args.ops)
  /\ call[c].confirm = "yes" => call[c].token \in issued \cup {NoToken}
  /\ call[c].pc = "preflight" => ~call[c].stale
  /\ call[c].pc = "document" /\ ~call[c].stale => wsState[call[c].ws] = "PENDING"

PendingCalls == \A c \in Client : call[c].pc \in Reading => Pending(c)

(* The document a request replaces is the one its caller presented.        *)
Current(q) == wsState[q.ws] = "PENDING" /\ DocOf(q.ws) = q.args.expected

(* A request carries what was previewed, the batch's doing on the document *)
(* presented; it replaces that document unless it was raced; and to a      *)
(* draft people left alone it carries a whole one, raced or not.           *)
SoundRequest(q) ==
  /\ q \in Requests
  /\ Accepted(q.ws, q.args.ops)
  /\ q.body = q.args.after
  /\ q.body = Apply(q.args.expected, q.args.ops).doc
  /\ PreviewToken("set_mss", q.ws, q.args) \in issued
  /\ \A coll \in Collection : \A n \in DOMAIN q.body[coll] :
       DoesAsSaid(q.args.expected, q.args.ops, q.body, coll, n)
  /\ ~q.stale /\ ~SilentLoss => Current(q)
  /\ q.ws \notin touched => Whole(q.body)

SoundRequests == \A q \in Outstanding : SoundRequest(q)

(* Some dry run for the draft w computed the document.                     *)
Shown(w, doc) == \E t \in issued : t[2] = w /\ t[3].after = doc

DraftDocs ==
  \A w \in Draft \ touched : ~Inherits(w) =>
    Whole(overlay[w]) /\ Shown(w, overlay[w])

IInv ==
  /\ Types
  /\ PendingCalls
  /\ SoundRequests
  /\ DraftDocs

(* The inductive invariant holds every property the runs check.            *)
LEMMA InvImplies ==
  IInv => /\ TypeOK
          /\ ~SilentLoss => UnracedWriteDoesAsSaid
          /\ DraftDocumentsAreWhole
          /\ DraftIsAPreviewedDocument
<1> SUFFICES ASSUME IInv
             PROVE  /\ TypeOK
                    /\ ~SilentLoss => UnracedWriteDoesAsSaid
                    /\ DraftDocumentsAreWhole
                    /\ DraftIsAPreviewedDocument
  OBVIOUS
<1>1. ASSUME NEW c \in Client, call[c].pc # "idle"
      PROVE  /\ call[c].pc \in {"preflight", "document", "await"}
             /\ call[c].args.expected \in Doc \cup {Malformed}
             /\ Accepted(call[c].ws, call[c].args.ops)
  <2>1. call[c].pc \in Reading \cup {"await"}
    BY <1>1 DEF IInv, Types, CallRecord, Reading
  <2>2. CASE call[c].pc \in Reading
    BY <2>2 DEF IInv, PendingCalls, Pending, Reading, CallArgs
  <2>3. CASE call[c].pc = "await"
    <3>1. SoundRequest(Request(call[c]))
      BY <2>3 DEF IInv, SoundRequests, Outstanding
    <3> QED
      BY <2>3, <3>1 DEF SoundRequest, Request, Requests, SentArgs
  <2> QED
    BY <2>1, <2>2, <2>3
<1>2. \A q \in Outstanding : q.body \in Doc
  BY DEF IInv, SoundRequests, SoundRequest, Requests
<1>3. TypeOK
  BY <1>1, <1>2 DEF IInv, Types, CVTypes, TypeOK, Accepted
<1>4. ~SilentLoss => UnracedWriteDoesAsSaid
  BY DEF IInv, SoundRequests, SoundRequest, Current, UnracedWriteDoesAsSaid
<1>5. DraftDocumentsAreWhole /\ DraftIsAPreviewedDocument
  BY DEF IInv, DraftDocs, Shown, DraftDocumentsAreWhole, DraftIsAPreviewedDocument
<1> QED
  BY <1>3, <1>4, <1>5

(* An ended call is a record of the type of call.                          *)
LEMMA IdleType ==
  ASSUME NEW code \in Codes
  PROVE  Idle(code) \in CallRecord /\ Idle(code).pc = "idle"
BY DEF Idle, CallRecord, Confirm, NoToken

(* Initially no call is on its way, nothing is on the wire, and no draft   *)
(* has a document of its own.                                              *)
LEMMA InitInv == Init => IInv
<1> SUFFICES ASSUME Init PROVE IInv
  OBVIOUS
<1>1. \A c \in Client : call[c].pc = "idle"
  BY DEF Init, Idle
<1>2. Outstanding = {}
  BY <1>1 DEF Init, Outstanding
<1>3. call \in [Client -> CallRecord]
  BY IdleType DEF Init, Codes
<1>4. mainline \in Doc \cup {Malformed}
  BY MssAssumption DEF Init
<1>5. Types
  BY <1>3, <1>4 DEF Init, Types, CVTypes, WsState
<1>6. DraftDocs
  BY DEF Init, DraftDocs, Inherits
<1> QED
  BY <1>1, <1>2, <1>5, <1>6 DEF IInv, PendingCalls, SoundRequests, Reading

(* Steps that leave CloudVision alone: calls that go on, or end, and what  *)
(* is on the wire is what was there, or a request that is sound.           *)
LEMMA QuietStep ==
  ASSUME IInv, call' \in [Client -> CallRecord], late' \subseteq Requests,
         issued \subseteq issued', issued' \subseteq Token, UNCHANGED cvVars,
         \A d \in Client : call'[d].pc \in Reading =>
           call'[d] = call[d] \/ Pending(d)',
         \A q \in Outstanding' : q \in Outstanding \/ SoundRequest(q)'
  PROVE  IInv'
<1>1. Types'
  BY DEF IInv, Types, CVTypes, cvVars
<1>2. PendingCalls'
  <2> SUFFICES ASSUME NEW d \in Client, call'[d].pc \in Reading
               PROVE  Pending(d)'
    BY DEF PendingCalls
  <2>1. CASE call'[d] = call[d]
    BY <2>1 DEF IInv, PendingCalls, Pending, cvVars
  <2> QED
    BY <2>1
<1>3. ASSUME NEW doc PROVE Whole(doc)' = Whole(doc)
  BY DEF Whole, cvVars
<1>4. SoundRequests'
  <2> SUFFICES ASSUME NEW q \in Outstanding', q \in Outstanding
               PROVE  SoundRequest(q)'
    BY DEF SoundRequests
  <2>1. SoundRequest(q)
    BY DEF IInv, SoundRequests
  <2>2. Current(q)' = Current(q)
    BY DEF Current, DocOf, Inherits, cvVars
  <2> QED
    BY <1>3, <2>1, <2>2 DEF SoundRequest, cvVars
<1>5. DraftDocs'
  <2> SUFFICES ASSUME NEW w \in Draft, w \notin touched, overlay[w] # NoDoc
               PROVE  Whole(overlay[w])' /\ Shown(w, overlay[w])'
    BY DEF DraftDocs, Inherits, cvVars
  <2>1. Whole(overlay[w]) /\ Shown(w, overlay[w])
    BY DEF IInv, DraftDocs, Inherits
  <2>2. PICK doc : doc = overlay[w] /\ doc = overlay'[w]
    BY DEF cvVars
  <2> QED
    BY <1>3, <2>1, <2>2 DEF Shown
<1> QED
  BY <1>1, <1>2, <1>4, <1>5 DEF IInv

(* A call that ends takes its request, if any, off the wire.               *)
LEMMA FinishStep ==
  ASSUME IInv, NEW c \in Client, NEW code \in Codes, Finish(c, code)
  PROVE  /\ call' \in [Client -> CallRecord]
         /\ call'[c].pc = "idle"
         /\ \A d \in Client \ {c} : call'[d] = call[d]
<1>1. Idle(code) \in CallRecord /\ Idle(code).pc = "idle"
  BY IdleType
<1> QED
  BY <1>1 DEF Finish, IInv, Types

(* Its commonest case: a call ends, and nothing is sent.                   *)
LEMMA EndingStep ==
  ASSUME IInv, NEW c \in Client, NEW code \in Codes, Finish(c, code),
         issued \subseteq issued', issued' \subseteq Token,
         \/ late' \subseteq late
         \/ call[c].pc = "await" /\ late' = late \cup {Request(call[c])},
         UNCHANGED cvVars
  PROVE  IInv'
<1>1. /\ call' \in [Client -> CallRecord]
      /\ call'[c].pc = "idle"
      /\ \A d \in Client \ {c} : call'[d] = call[d]
  BY FinishStep
<1>2. call[c].pc = "await" => Request(call[c]) \in Outstanding
  BY DEF Outstanding
<1>3. late' \subseteq Outstanding /\ late \subseteq Outstanding
  BY <1>2 DEF Outstanding
<1>4. Outstanding' \subseteq Outstanding
  BY <1>1, <1>3 DEF Outstanding
<1>5. late' \subseteq Requests
  BY <1>3 DEF IInv, SoundRequests, SoundRequest
<1>6. \A d \in Client : call'[d].pc \in Reading => call'[d] = call[d]
  BY <1>1 DEF Reading
<1> QED
  BY <1>1, <1>4, <1>5, <1>6, QuietStep

(* A refusal.                                                              *)
LEMMA RefusalStep ==
  ASSUME IInv, NEW c \in Client, NEW code \in Codes, Finish(c, code),
         UNCHANGED <<issued, late, cvVars>>
  PROVE  IInv'
BY EndingStep DEF IInv, Types

----------------------------------------------------------------------------
(* Steps of a call that leave CloudVision alone.                           *)

(* The errors of a batch.                                                  *)
LEMMA BatchErrors ==
  ASSUME NEW ops \in Batch
  PROVE  NormalizeOperations(ops) \in Codes
<1>1. /\ Len(ops) \in Nat /\ DOMAIN ops = 1..Len(ops)
      /\ \A i \in 1..Len(ops) : WellFormed(ops[i])
  BY MssAssumption
<1> DEFINE bad == {i \in DOMAIN ops : OperationError(ops[i]) # "none"}
           first == CHOOSE i \in bad : \A j \in bad : i <= j
<1>2. /\ bad \in SUBSET (1..Len(ops))
      /\ \/ NormalizeOperations(ops) \in {"mss_operations_required",
                "mss_operations_too_many", "none"}
         \/ bad # {} /\ NormalizeOperations(ops) = OperationError(ops[first])
  BY <1>1 DEF NormalizeOperations
<1> HIDE DEF bad
<1>3. CASE bad # {}
  <2>1. \E i \in bad : \A j \in bad : i <= j
    BY <1>1, <1>2, <1>3, FirstPosition
  <2>2. first \in 1..Len(ops)
    BY <1>2, <2>1
  <2> HIDE DEF first
  <2>3. OperationError(ops[first]) \in Codes
    BY <1>1, <2>2 DEF WellFormed, OperationError, Codes
  <2> QED
    BY <1>2, <2>3 DEF Codes
<1> QED
  BY <1>2, <1>3 DEF Codes

(* A digest anybody can know is that of a document, or of a malformed one. *)
LEMMA KnownDigestsType ==
  ASSUME IInv, NEW e \in KnownDigests
  PROVE  e \in Doc \cup {Malformed}
BY DEF IInv, Types, CVTypes, KnownDigests, Token, SentArgs

(* Invoke: a refusal, or a call that enters its tool.                      *)
LEMMA InvokeStep ==
  ASSUME IInv, NEW c \in Client, InvokeAny(c)
  PROVE  IInv'
<1>1. PICK w \in Workspace, expected \in KnownDigests, ops \in Batch,
           confirm \in Confirm :
        \E token \in {NoToken} \cup (IF confirm = "yes" THEN issued ELSE {}) :
          Invoke(c, w, ArgRecord(expected, ops, Nil), confirm, token)
  BY DEF InvokeAny
<1>2. PICK token \in {NoToken} \cup (IF confirm = "yes" THEN issued ELSE {}) :
        Invoke(c, w, ArgRecord(expected, ops, Nil), confirm, token)
  BY <1>1
<1> DEFINE a == ArgRecord(expected, ops, Nil)
<1>3. a \in CallArgs /\ a.ops = ops
  BY KnownDigestsType DEF ArgRecord, CallArgs
<1> HIDE DEF a
<1>4. Invoke(c, w, a, confirm, token) /\ UNCHANGED <<issued, late, cvVars>>
  BY <1>2 DEF Invoke, a
<1>5. CASE \E code \in Codes : Finish(c, code)
  BY <1>4, <1>5, RefusalStep
<1>6. CASE Accepted(w, ops) /\ Enter(c, "set_mss", w, a, confirm, token)
  <2> DEFINE q == [pc |-> "preflight", tool |-> "set_mss", ws |-> w,
                   args |-> a, confirm |-> confirm, token |-> token,
                   body |-> Nil, stale |-> FALSE, code |-> "none"]
  <2>1. token \in issued \cup {NoToken}
    OBVIOUS
  <2>2. q \in CallRecord
    BY <1>3, <2>1 DEF CallRecord, Codes, IInv, Types
  <2>3. /\ call' \in [Client -> CallRecord]
        /\ call'[c] = q
        /\ \A d \in Client \ {c} : call'[d] = call[d]
    BY <1>6, <2>2 DEF Enter, IInv, Types
  <2>4. /\ q.pc = "preflight" /\ q.tool = "set_mss" /\ q.ws = w
        /\ q.args = a /\ q.stale = FALSE /\ q.token = token
    OBVIOUS
  <2> HIDE DEF q
  <2>5. Outstanding' \subseteq Outstanding
    BY <1>4, <2>3, <2>4 DEF Outstanding, Request
  <2>6. Pending(c)'
    BY <1>3, <1>4, <1>6, <2>1, <2>3, <2>4 DEF Pending
  <2> QED
    BY <1>4, <2>3, <2>5, <2>6, QuietStep DEF IInv, Types
<1>7. \A absent \in BOOLEAN : DispatchRefusals(absent) \subseteq Codes
  BY DEF DispatchRefusals, Codes
<1>8. NormalizeOperations(ops) \in Codes
  BY BatchErrors
<1>9. {"writes_disabled", "invalid_workspace_id", "expected_inputs_sha256_required",
       "disruptive_content_forbidden"} \subseteq Codes
  BY DEF Codes
<1> QED
  BY <1>3, <1>4, <1>5, <1>6, <1>7, <1>8, <1>9
     DEF Invoke, Accepted, ValidateWorkspaceId

(* The GET of the workspace: a call that goes on has found it PENDING.     *)
LEMMA ReadWorkspaceStep ==
  ASSUME IInv, NEW c \in Client, ReadWorkspace(c)
  PROVE  IInv'
<1>1. UNCHANGED <<late, cvVars>> /\ call[c].pc = "preflight" /\ call[c].pc \in Reading
  BY DEF ReadWorkspace, Reading
<1>2. CASE \E code \in Codes : Refuse(c, code)
  BY <1>1, <1>2, RefusalStep DEF Refuse
<1>3. CASE /\ wsState[call[c].ws] = "PENDING"
           /\ call' = [call EXCEPT ![c].pc = "document"]
           /\ UNCHANGED issued
  <2> DEFINE q == [call[c] EXCEPT !.pc = "document"]
  <2>1. call[c] \in CallRecord
    BY DEF IInv, Types
  <2>2. /\ q \in CallRecord /\ q.pc = "document"
        /\ q.tool = call[c].tool /\ q.ws = call[c].ws /\ q.args = call[c].args
        /\ q.confirm = call[c].confirm /\ q.token = call[c].token
        /\ q.stale = call[c].stale
    BY <2>1 DEF CallRecord
  <2>3. /\ call' \in [Client -> CallRecord]
        /\ call'[c] = q
        /\ \A d \in Client \ {c} : call'[d] = call[d]
    BY <1>3, <2>2 DEF IInv, Types
  <2> HIDE DEF q
  <2>4. Pending(c)
    BY <1>1 DEF IInv, PendingCalls
  <2>5. Pending(c)'
    BY <1>1, <1>3, <2>2, <2>3, <2>4 DEF Pending, cvVars
  <2>6. Outstanding' \subseteq Outstanding
    BY <1>1, <2>2, <2>3 DEF Outstanding, Request
  <2> QED
    BY <1>1, <1>3, <2>3, <2>5, <2>6, QuietStep DEF IInv, Types
<1> QED
  BY <1>2, <1>3 DEF ReadWorkspace, Codes

(* The gate: a dry run only adds its token, and a request is sound when    *)
(* sent: its token was issued, and what was read holds now.                *)
LEMMA GateStep ==
  ASSUME IInv, NEW c \in Client, call[c].pc \in Reading,
         NEW a \in SentArgs, a.ops = call[c].args.ops, Gate(c, a, a.after),
         a.after = Apply(a.expected, a.ops).doc,
         \A coll \in Collection : \A n \in DOMAIN a.after[coll] :
           DoesAsSaid(a.expected, a.ops, a.after, coll, n),
         ~call[c].stale /\ ~SilentLoss =>
           wsState[call[c].ws] = "PENDING" /\ DocOf(call[c].ws) = a.expected,
         call[c].ws \notin touched => Whole(a.after),
         UNCHANGED <<late, cvVars>>
  PROVE  IInv'
<1> DEFINE q == call[c]
           body == a.after
<1>1. q \in CallRecord
  BY DEF IInv, Types
<1>2. /\ Accepted(q.ws, a.ops) /\ q.tool = "set_mss"
      /\ q.confirm = "yes" => q.token \in issued \cup {NoToken}
  BY DEF IInv, PendingCalls, Pending
<1>3. PreviewToken(q.tool, q.ws, a) \in Token
  BY <1>2 DEF Accepted, PreviewToken, Token
<1>4. CASE /\ issued' = issued \cup {PreviewToken(q.tool, q.ws, a)}
           /\ Finish(c, "preview")
  BY <1>3, <1>4, EndingStep DEF IInv, Types, Codes
<1>5. CASE Finish(c, "preview_required") /\ UNCHANGED issued
  BY <1>5, RefusalStep DEF Codes
<1>6. CASE /\ q.confirm = "yes"
           /\ CheckPreviewToken(q.token, q.tool, q.ws, a)
           /\ Send(c, a, body)
           /\ UNCHANGED issued
  <2>1. PreviewToken("set_mss", q.ws, a) \in issued
    BY <1>2, <1>6 DEF CheckPreviewToken, PreviewToken, NoToken
  <2>2. body \in Doc /\ a \in CallArgs
    BY DEF SentArgs, CallArgs
  <2> DEFINE s == [q EXCEPT !.pc = "await", !.args = a, !.body = body]
  <2>3. /\ s \in CallRecord /\ s.pc = "await" /\ Request(s) \in Requests
        /\ Request(s).ws = q.ws /\ Request(s).args = a
        /\ Request(s).body = body /\ Request(s).stale = q.stale
    BY <1>1, <1>2, <2>2 DEF CallRecord, Request, Requests, Accepted
  <2>4. /\ call' \in [Client -> CallRecord]
        /\ call'[c] = s
        /\ \A d \in Client \ {c} : call'[d] = call[d]
    BY <1>6, <2>3 DEF Send, IInv, Types
  <2> HIDE DEF s
  <2>5. PICK r : r = Request(s)
    OBVIOUS
  <2>6. Outstanding' \subseteq Outstanding \cup {r}
    BY <2>4, <2>5 DEF Outstanding, Request
  <2>7. \A d \in Client : call'[d].pc \in Reading => call'[d] = call[d]
    BY <2>3, <2>4 DEF Reading
  <2>8. SoundRequest(r)'
    <3>1. ~r.stale /\ ~SilentLoss => Current(r)
      BY <2>3, <2>5 DEF Current
    <3>2. Current(r)' = Current(r) /\ Whole(r.body)' = Whole(r.body)
      BY DEF Current, DocOf, Inherits, Whole, cvVars
    <3>3. r.ws \notin touched' => Whole(r.body)
      BY <2>3, <2>5 DEF cvVars
    <3>4. \A coll \in Collection : \A n \in DOMAIN r.body[coll] :
            DoesAsSaid(r.args.expected, r.args.ops, r.body, coll, n)
      BY <2>3, <2>5
    <3>5. /\ r \in Requests /\ Accepted(r.ws, r.args.ops) /\ r.body = r.args.after
          /\ r.body = Apply(r.args.expected, r.args.ops).doc
          /\ PreviewToken("set_mss", r.ws, r.args) \in issued'
      BY <1>2, <1>6, <2>1, <2>3, <2>5
    <3> QED
      BY <3>1, <3>2, <3>3, <3>4, <3>5 DEF SoundRequest
  <2> QED
    BY <1>6, <2>4, <2>6, <2>7, <2>8, QuietStep DEF IInv, Types
<1> QED
  BY <1>4, <1>5, <1>6 DEF Gate

(* The GET of the document, the comparison and the application.            *)
LEMMA ReadDocumentStep ==
  ASSUME IInv, NEW c \in Client, ReadDocument(c)
  PROVE  IInv'
<1> DEFINE w == call[c].ws
           a == call[c].args
<1>1. /\ UNCHANGED <<late, cvVars>> /\ call[c].pc = "document"
      /\ call[c].pc \in Reading /\ call[c] \in CallRecord
  BY DEF ReadDocument, Reading, IInv, Types
<1>2. /\ Accepted(w, a.ops) /\ a \in CallArgs
      /\ ~call[c].stale => wsState[w] = "PENDING"
  BY <1>1 DEF IInv, PendingCalls, Pending
<1>3. CASE \E code \in Codes : Refuse(c, code)
  BY <1>1, <1>3, RefusalStep DEF Refuse
<1>4. ASSUME NEW doc \in Loaded(w), CompareAndApply(c, doc)
      PROVE  IInv'
  <2> DEFINE st == Apply(doc, a.ops)
             sent == ArgRecord(a.expected, a.ops, st.doc)
  <2>1. \/ Refuse(c, "mss_document_malformed") \/ Refuse(c, "inputs_digest_mismatch")
        \/ Refuse(c, st.code) /\ doc = a.expected /\ doc # Malformed
        \/ Refuse(c, CheckResult(st.doc, st.touched))
        \/ Refuse(c, "tree_diff_outside_mss_scope")
        \/ /\ doc = a.expected /\ doc # Malformed /\ st.code = "none"
           /\ CheckResult(st.doc, st.touched) = "none"
           /\ Gate(c, sent, st.doc)
    BY <1>4 DEF CompareAndApply
  <2>2. CASE Refuse(c, "mss_document_malformed") \/ Refuse(c, "inputs_digest_mismatch")
             \/ Refuse(c, "tree_diff_outside_mss_scope")
             \/ Refuse(c, CheckResult(st.doc, st.touched))
    BY <1>3, <2>2 DEF CheckResult, Codes
  <2>3. CASE Refuse(c, st.code) /\ doc = a.expected /\ doc # Malformed
    <3>1. doc \in Doc /\ a.ops \in Batch /\ NormalizeOperations(a.ops) = "none"
      BY <1>2, <2>3 DEF CallArgs, Accepted
    <3>2. st \in State
      BY <3>1, ApplyStanding DEF Standing
    <3>3. st.code \in Codes
      BY <3>2 DEF State, Codes
    <3> HIDE DEF st
    <3> QED
      BY <1>3, <2>3, <3>3
  <2>4. CASE /\ doc = a.expected /\ doc # Malformed /\ st.code = "none"
             /\ CheckResult(st.doc, st.touched) = "none"
             /\ Gate(c, sent, st.doc)
    <3>1. doc \in Doc /\ a.ops \in Batch /\ NormalizeOperations(a.ops) = "none"
      BY <1>2, <2>4 DEF CallArgs, Accepted
    <3>2. /\ st.doc \in Doc
          /\ \A coll \in Collection : \A n \in DOMAIN st.doc[coll] :
               DoesAsSaid(doc, a.ops, st.doc, coll, n)
          /\ doc = mainline \/ Whole(doc) => Whole(st.doc)
      BY <2>4, <3>1, ResultFacts
    <3>3. w \notin touched => doc = mainline \/ Whole(doc)
      BY <1>2, <1>4 DEF Loaded, DocOf, Accepted, IInv, DraftDocs
    <3>4. ~call[c].stale /\ ~SilentLoss =>
            wsState[w] = "PENDING" /\ DocOf(w) = doc
      BY <1>2, <1>4 DEF Loaded
    <3>5. PICK body : body = st.doc /\ body = Apply(doc, a.ops).doc
      OBVIOUS
    <3> HIDE DEF st
    <3>6. /\ sent \in SentArgs /\ sent.ops = a.ops /\ sent.expected = doc
          /\ sent.after = body
      BY <2>4, <3>1, <3>2, <3>5 DEF ArgRecord, SentArgs
    <3> HIDE DEF sent
    <3> QED
      BY <1>1, <2>4, <3>2, <3>3, <3>4, <3>5, <3>6, GateStep
  <2> QED
    BY <2>1, <2>2, <2>3, <2>4
<1> QED
  BY <1>3, <1>4 DEF ReadDocument, Codes

----------------------------------------------------------------------------
(* Steps that change drafts, and mark the calls that are out of date.      *)

(* q is the request p, marked stale.                                       *)
MarkOf(q, p) ==
  /\ q \in Requests /\ q.stale = TRUE
  /\ q.tool = p.tool /\ q.ws = p.ws /\ q.args = p.args /\ q.body = p.body

(* q is the call p, marked stale or not.                                   *)
SameUpToMark(q, p, mark) ==
  /\ q.pc = p.pc /\ q.tool = p.tool /\ q.ws = p.ws /\ q.args = p.args
  /\ q.confirm = p.confirm /\ q.token = p.token /\ q.body = p.body
  /\ mark => q.stale = TRUE
  /\ ~mark => q.stale = p.stale

(* What Staled does to a call.                                             *)
LEMMA StaledRecord ==
  ASSUME NEW q \in CallRecord, NEW ws
  PROVE  /\ Staled(q, ws) \in CallRecord
         /\ SameUpToMark(Staled(q, ws), q, q.ws \in ws)
<1>1. CASE q.ws \in ws
  <2> DEFINE s == [q EXCEPT !.stale = TRUE]
  <2>1. s \in CallRecord /\ SameUpToMark(s, q, TRUE)
    BY DEF CallRecord, SameUpToMark
  <2>2. Staled(q, ws) = s
    BY <1>1 DEF Staled
  <2> HIDE DEF s
  <2> QED
    BY <1>1, <2>1, <2>2 DEF SameUpToMark
<1>2. CASE q.ws \notin ws
  BY <1>2 DEF Staled, SameUpToMark
<1> QED
  BY <1>1, <1>2

(* CallsStaled changes nothing but that mark.                              *)
LEMMA StaledCall ==
  ASSUME NEW calls \in [Client -> CallRecord], NEW ws, NEW pcs
  PROVE  /\ CallsStaled(calls, ws, pcs) \in [Client -> CallRecord]
         /\ \A c \in Client :
              SameUpToMark(CallsStaled(calls, ws, pcs)[c], calls[c],
                           calls[c].pc \in pcs /\ calls[c].ws \in ws)
<1> DEFINE q(c) == IF calls[c].pc \in pcs THEN Staled(calls[c], ws)
                                         ELSE calls[c]
<1>1. ASSUME NEW c \in Client
      PROVE  /\ q(c) \in CallRecord
             /\ SameUpToMark(q(c), calls[c],
                             calls[c].pc \in pcs /\ calls[c].ws \in ws)
  <2>1. calls[c] \in CallRecord
    OBVIOUS
  <2>2. CASE calls[c].pc \in pcs
    BY <2>1, <2>2, StaledRecord DEF SameUpToMark
  <2>3. CASE calls[c].pc \notin pcs
    BY <2>1, <2>3 DEF SameUpToMark
  <2> QED
    BY <2>2, <2>3
<1>2. CallsStaled(calls, ws, pcs) = [c \in Client |-> q(c)]
  BY DEF CallsStaled
<1> HIDE DEF q
<1> QED
  BY <1>1, <1>2

(* The document that counts in the draft w is still there.                 *)
SameFor(w) ==
  /\ wsState[w] = "PENDING" => wsState'[w] = "PENDING"
  /\ overlay'[w] = overlay[w]
  /\ mainline' = mainline

(* The calls a step marks: D are the drafts whose requests it makes stale, *)
(* S those whose calls between the two GETs it makes stale.                *)
Marks(D, S) ==
  \A d \in Client : call'[d].pc # "idle" =>
    SameUpToMark(call'[d], call[d],
      \/ call[d].pc = "await" /\ call[d].ws \in D
      \/ call[d].pc = "document" /\ call[d].ws \in S)

(* What a step leaves alone in the drafts it does not mark.                *)
Spares(D, S) ==
  /\ \A w \in Draft \ S : wsState[w] = "PENDING" => wsState'[w] = "PENDING"
  /\ \A w \in Draft \ D : SameFor(w)
  /\ touched' # Draft => mainline' = mainline

(* A draft people left alone only gets documents that were on the wire.    *)
DocsArrive ==
  \A w \in Draft \ touched' :
    \/ overlay'[w] = overlay[w]
    \/ \E r \in Outstanding : r.ws = w /\ overlay'[w] = r.body

(* The requests after marking those for the drafts of D.                   *)
LEMMA MarkedOutstanding ==
  ASSUME IInv, NEW D, NEW L \in SUBSET late,
         call' \in [Client -> CallRecord],
         \A d \in Client : call'[d].pc = "await" =>
           SameUpToMark(call'[d], call[d], call[d].ws \in D),
         late' = LateStaled(L, D)
  PROVE  /\ late' \subseteq Requests
         /\ \A q \in Outstanding' :
              /\ \E p \in Outstanding : q = p \/ MarkOf(q, p)
              /\ q.ws \in Draft
              /\ q.ws \in D => q.stale = TRUE
<1>1. ASSUME NEW p \in Outstanding
      PROVE  p \in Requests /\ p.ws \in Draft
  BY DEF IInv, SoundRequests, SoundRequest, Requests
<1>2. ASSUME NEW q \in late'
      PROVE  /\ q \in Requests
             /\ \E p \in Outstanding : q = p \/ MarkOf(q, p)
             /\ q.ws \in D => q.stale = TRUE
  <2>1. PICK p \in L : q = Staled(p, D)
    BY DEF LateStaled
  <2>2. p \in Requests /\ p \in Outstanding
    BY DEF IInv, Types, Outstanding
  <2>3. CASE p.ws \in D
    BY <2>1, <2>2, <2>3 DEF Staled, MarkOf, Requests
  <2>4. CASE p.ws \notin D
    BY <2>1, <2>2, <2>4 DEF Staled
  <2> QED
    BY <2>3, <2>4
<1>3. ASSUME NEW d \in Client, call'[d].pc = "await"
      PROVE  /\ \E p \in Outstanding :
                  Request(call'[d]) = p \/ MarkOf(Request(call'[d]), p)
             /\ Request(call'[d]).ws \in D => Request(call'[d]).stale = TRUE
  <2> DEFINE p == Request(call[d])
             q == Request(call'[d])
  <2>1. call[d].pc = "await" /\ p \in Outstanding
    BY <1>3 DEF SameUpToMark, Outstanding
  <2>2. CASE call[d].ws \in D
    <3>1. MarkOf(q, p)
      BY <1>1, <1>3, <2>1, <2>2 DEF SameUpToMark, Request, MarkOf, Requests
    <3> QED
      BY <2>1, <3>1 DEF MarkOf
  <2>3. CASE call[d].ws \notin D
    <3>1. q = p
      BY <1>3, <2>3 DEF SameUpToMark, Request
    <3>2. q.ws = call[d].ws
      BY <3>1 DEF Request
    <3> QED
      BY <2>1, <2>3, <3>1, <3>2
  <2> QED
    BY <2>2, <2>3
<1>4. \A q \in Outstanding' :
        q \in late' \/ \E d \in Client : call'[d].pc = "await" /\ q = Request(call'[d])
  BY DEF Outstanding
<1>5. \A q \in Outstanding' :
        /\ \E p \in Outstanding : q = p \/ MarkOf(q, p)
        /\ q.ws \in D => q.stale = TRUE
  BY <1>2, <1>3, <1>4
<1> QED
  BY <1>1, <1>2, <1>5 DEF MarkOf

(* A step that marks the calls and requests it makes stale.                *)
LEMMA MarkingStep ==
  ASSUME IInv, NEW D \in SUBSET Draft, NEW S \in SUBSET D,
         NEW L \in SUBSET late, late' = LateStaled(L, D),
         call' \in [Client -> CallRecord], CVTypes',
         UNCHANGED issued, touched \subseteq touched',
         Marks(D, S), Spares(D, S), DocsArrive
  PROVE  IInv'
<1>1. /\ late' \subseteq Requests
      /\ \A q \in Outstanding' :
           /\ \E p \in Outstanding : q = p \/ MarkOf(q, p)
           /\ q.ws \in Draft
           /\ q.ws \in D => q.stale = TRUE
  <2>1. \A d \in Client : call'[d].pc = "await" =>
          SameUpToMark(call'[d], call[d], call[d].ws \in D)
    BY DEF SameUpToMark, Marks
  <2> QED
    BY <2>1, MarkedOutstanding
<1>2. Types'
  BY <1>1 DEF IInv, Types
<1>3. PendingCalls'
  <2> SUFFICES ASSUME NEW d \in Client, call'[d].pc \in Reading
               PROVE  Pending(d)'
    BY DEF PendingCalls
  <2>1. call[d].pc = call'[d].pc /\ Pending(d)
    BY DEF IInv, PendingCalls, Marks, SameUpToMark, Reading
  <2>2. call[d].ws \in Draft
    BY <2>1 DEF Pending, Accepted
  <2>3. CASE call[d].pc = "preflight"
    <3>1. SameUpToMark(call'[d], call[d], FALSE)
      BY <2>1, <2>3 DEF Marks, SameUpToMark
    <3> QED
      BY <2>1, <2>3, <3>1 DEF Pending, SameUpToMark
  <2>4. CASE call[d].pc = "document"
    <3>1. SameUpToMark(call'[d], call[d], call[d].ws \in S)
      BY <2>1, <2>4 DEF Marks, SameUpToMark
    <3>2. call[d].ws \notin S =>
            (wsState[call[d].ws] = "PENDING" => wsState'[call[d].ws] = "PENDING")
      BY <2>2 DEF Spares
    <3> QED
      BY <2>1, <2>4, <3>1, <3>2 DEF Pending, SameUpToMark
  <2> QED
    BY <2>1, <2>3, <2>4 DEF Reading
<1>4. ASSUME touched' # Draft, NEW doc
      PROVE  Whole(doc)' = Whole(doc)
  BY <1>4 DEF Whole, Spares
<1>5. SoundRequests'
  <2> SUFFICES ASSUME NEW q \in Outstanding' PROVE SoundRequest(q)'
    BY DEF SoundRequests
  <2>1. PICK p \in Outstanding : q = p \/ MarkOf(q, p)
    BY <1>1
  <2>2. SoundRequest(p) /\ p \in Requests
    BY DEF IInv, SoundRequests, SoundRequest
  <2>3. /\ q \in Requests /\ q.ws = p.ws
        /\ q.args = p.args /\ q.body = p.body
        /\ ~q.stale => ~p.stale
    BY <2>1, <2>2 DEF MarkOf
  <2>4. q.ws \in Draft /\ q.stale \in BOOLEAN /\ (q.ws \in D => q.stale = TRUE)
    BY <1>1, <2>3 DEF Requests
  <2>5. /\ Accepted(q.ws, q.args.ops)
        /\ q.body = q.args.after
        /\ q.body = Apply(q.args.expected, q.args.ops).doc
        /\ PreviewToken("set_mss", q.ws, q.args) \in issued'
        /\ \A coll \in Collection : \A n \in DOMAIN q.body[coll] :
             DoesAsSaid(q.args.expected, q.args.ops, q.body, coll, n)
    BY <2>2, <2>3 DEF SoundRequest
  <2>6. q.ws \notin touched' => Whole(q.body)'
    BY <1>4, <2>2, <2>3, <2>4 DEF SoundRequest
  <2>7. ~q.stale /\ ~SilentLoss => Current(q)'
    <3> SUFFICES ASSUME ~q.stale, ~SilentLoss PROVE Current(q)'
      OBVIOUS
    <3>1. Current(p) /\ SameFor(q.ws)
      BY <2>2, <2>3, <2>4 DEF SoundRequest, Spares
    <3>2. DocOf(q.ws)' = DocOf(q.ws)
      BY <3>1 DEF SameFor, DocOf, Inherits
    <3> QED
      BY <2>3, <3>1, <3>2 DEF SameFor, Current
  <2> QED
    BY <2>3, <2>5, <2>6, <2>7 DEF SoundRequest
<1>6. DraftDocs'
  <2> SUFFICES ASSUME NEW w \in Draft \ touched',
                      NEW doc, doc = overlay'[w], doc # NoDoc
               PROVE  Whole(doc)' /\ Shown(w, doc)'
    BY DEF DraftDocs, Inherits
  <2>1. w \in Draft \ touched /\ touched' # Draft
    OBVIOUS
  <2>2. Whole(doc) /\ Shown(w, doc)
    <3>1. CASE doc = overlay[w]
      BY <2>1, <3>1 DEF IInv, DraftDocs, Inherits
    <3>2. ASSUME NEW r \in Outstanding, r.ws = w, doc = r.body
          PROVE  Whole(doc) /\ Shown(w, doc)
      <4>1. SoundRequest(r)
        BY DEF IInv, SoundRequests
      <4>2. PreviewToken("set_mss", w, r.args) \in issued /\ r.args.after = doc
        BY <3>2, <4>1 DEF SoundRequest
      <4> QED
        BY <2>1, <3>2, <4>1, <4>2 DEF SoundRequest, Shown, PreviewToken
    <3> QED
      BY <3>1, <3>2 DEF DocsArrive
  <2>3. Whole(doc)'
    BY <1>4, <2>1, <2>2
  <2> QED
    BY <2>2, <2>3 DEF Shown
<1> QED
  BY <1>2, <1>3, <1>5, <1>6 DEF IInv

(* A request takes effect, of a call that waits for it or a late one.      *)
LEMMA ArrivalStep ==
  ASSUME IInv, NEW p \in Outstanding, NEW q, q.ws = p.ws, q.body = p.body,
         Effect(q), UNCHANGED issued,
         NEW L \in SUBSET late, late' = LateStaled(L, {p.ws}),
         call' \in [Client -> CallRecord],
         \A d \in Client : call'[d].pc # "idle" =>
           call'[d] = CallsStaled(call, {p.ws}, {"await"})[d]
  PROVE  IInv'
<1> DEFINE D == {p.ws}
<1>1. p.ws \in Draft /\ p.body \in Doc
  BY DEF IInv, SoundRequests, SoundRequest, Requests
<1>2. /\ overlay' = [overlay EXCEPT ![p.ws] = p.body]
      /\ UNCHANGED <<wsState, mainline, touched>>
  BY DEF Effect
<1>3. /\ overlay' \in [Draft -> Doc \cup {NoDoc, Malformed}]
      /\ \A w \in Draft \ D : overlay'[w] = overlay[w]
      /\ overlay'[p.ws] = p.body
  BY <1>1, <1>2 DEF IInv, Types, CVTypes
<1>4. CVTypes'
  BY <1>2, <1>3 DEF IInv, Types, CVTypes
<1>5. \A d \in Client :
        SameUpToMark(CallsStaled(call, D, {"await"})[d], call[d],
                     call[d].pc \in {"await"} /\ call[d].ws \in D)
  <2>1. call \in [Client -> CallRecord]
    BY DEF IInv, Types
  <2> HIDE DEF D
  <2> QED
    BY <2>1, StaledCall
<1>6. D \in SUBSET Draft /\ {} \in SUBSET D
  BY <1>1
<1>7. Marks(D, {})
  BY <1>5, ZenonT(60) DEF SameUpToMark, Marks
<1>8. Spares(D, {})
  BY <1>2, <1>3 DEF SameFor, Spares
<1>9. DocsArrive
  BY <1>3 DEF DocsArrive
<1>10. late' = LateStaled(L, D) /\ touched \subseteq touched'
  BY <1>2
<1> HIDE DEF D
<1> QED
  BY <1>4, <1>6, <1>7, <1>8, <1>9, <1>10, MarkingStep

(* A request takes effect, and its call ends.                              *)
LEMMA AppliedStep ==
  ASSUME IInv, NEW c \in Client, Applied(c)
  PROVE  IInv'
<1> DEFINE q == call[c]
           p == Request(call[c])
           calls == CallsStaled(call, {q.ws}, {"await"})
<1>1. /\ q.pc = "await" /\ Effect(q) /\ UNCHANGED issued
      /\ late' = LateStaled(late, {q.ws})
  BY DEF Applied
<1>2. /\ p \in Outstanding /\ q.ws = p.ws /\ q.body = p.body
  BY <1>1 DEF Outstanding, Request
<1>3. PICK code \in Codes : call' = [calls EXCEPT ![c] = Idle(code)]
  BY DEF Applied, Codes
<1>4. calls \in [Client -> CallRecord]
  BY StaledCall DEF IInv, Types
<1> HIDE DEF calls
<1>5. /\ call' \in [Client -> CallRecord]
      /\ \A d \in Client : call'[d].pc # "idle" => call'[d] = calls[d]
  BY <1>3, <1>4, IdleType
<1> HIDE DEF q, p
<1> QED
  BY <1>1, <1>2, <1>5, ArrivalStep DEF calls

(* A late request takes effect after all.                                  *)
LEMMA AppliedLateStep ==
  ASSUME IInv, NEW q \in late, AppliedLate(q)
  PROVE  IInv'
<1>1. /\ Effect(q) /\ UNCHANGED issued
      /\ late' = LateStaled(late \ {q}, {q.ws})
      /\ call' = CallsStaled(call, {q.ws}, {"await"})
  BY DEF AppliedLate
<1>2. q \in Outstanding /\ late \ {q} \in SUBSET late
  BY DEF Outstanding
<1>3. call' \in [Client -> CallRecord]
  BY <1>1, StaledCall DEF IInv, Types
<1> QED
  BY <1>1, <1>2, <1>3, ArrivalStep

(* What people do in the UI: see Touch.                                    *)
LEMMA TouchStep ==
  ASSUME IInv, NEW docs \in SUBSET Draft, NEW states \in SUBSET Draft,
         Touch(docs, states), CVTypes',
         \A u \in Draft \ states : wsState'[u] = wsState[u],
         \A u \in Draft \ (docs \cup states) : overlay'[u] = overlay[u],
         docs = Draft \/ UNCHANGED mainline
  PROVE  IInv'
<1> DEFINE D == docs \cup states
           read == {"document", "await"}
           calls == CallsStaled(call, docs, {"await"})
<1>1. /\ UNCHANGED issued /\ late' = LateStaled(late, D)
      /\ call' = CallsStaled(calls, states, read)
      /\ touched' = touched \cup docs \cup states
  BY DEF Touch
<1>2. call \in [Client -> CallRecord] /\ touched \subseteq Draft
  BY DEF IInv, Types, CVTypes
<1>3. /\ calls \in [Client -> CallRecord]
      /\ \A d \in Client :
           SameUpToMark(calls[d], call[d],
                        call[d].pc \in {"await"} /\ call[d].ws \in docs)
  BY <1>2, StaledCall
<1> HIDE DEF calls, read
<1>4. /\ call' \in [Client -> CallRecord]
      /\ \A d \in Client :
           SameUpToMark(call'[d], calls[d],
                        calls[d].pc \in read /\ calls[d].ws \in states)
  BY <1>1, <1>3, StaledCall
<1>5. Marks(D, states)
  <2> SUFFICES ASSUME NEW d \in Client
               PROVE  SameUpToMark(call'[d], call[d],
                        \/ call[d].pc = "await" /\ call[d].ws \in D
                        \/ call[d].pc = "document" /\ call[d].ws \in states)
    BY DEF Marks
  <2>1. SameUpToMark(calls[d], call[d], call[d].pc = "await" /\ call[d].ws \in docs)
    BY <1>3 DEF SameUpToMark
  <2>2. SameUpToMark(call'[d], calls[d], call[d].pc \in read /\ call[d].ws \in states)
    BY <1>4, <2>1 DEF SameUpToMark
  <2> QED
    BY <2>1, <2>2 DEF SameUpToMark, read
<1>6. Spares(D, states)
  BY <1>1, <1>2 DEF SameFor, Spares
<1>7. DocsArrive /\ touched \subseteq touched' /\ late \in SUBSET late
  BY <1>1 DEF DocsArrive
<1>8. D \in SUBSET Draft /\ states \in SUBSET D
  OBVIOUS
<1> HIDE DEF D
<1> QED
  BY <1>1, <1>4, <1>5, <1>6, <1>7, <1>8, MarkingStep

(* People leave a document of theirs behind in a draft.                    *)
LEMMA OperatorEditsStep ==
  ASSUME IInv, NEW w \in Draft, NEW doc \in LeftBehind, OperatorEdits(w, doc)
  PROVE  IInv'
<1>1. /\ overlay' = [overlay EXCEPT ![w] = doc]
      /\ Touch({w}, {}) /\ UNCHANGED <<wsState, mainline>>
  BY DEF OperatorEdits
<1>2. doc \in Doc \cup {Malformed}
  BY MssAssumption
<1>3. touched' \subseteq Draft
  BY <1>1 DEF Touch, IInv, Types, CVTypes
<1>4. /\ overlay' \in [Draft -> Doc \cup {NoDoc, Malformed}]
      /\ \A u \in Draft \ {w} : overlay'[u] = overlay[u]
  BY <1>1, <1>2 DEF IInv, Types, CVTypes
<1>5. CVTypes'
  BY <1>1, <1>3, <1>4 DEF IInv, Types, CVTypes
<1>6. {w} \in SUBSET Draft /\ {} \in SUBSET Draft
  OBVIOUS
<1> QED
  BY <1>1, <1>4, <1>5, <1>6, TouchStep

(* A draft is submitted: the mainline takes over its document, and every   *)
(* request on the wire is out of date.                                     *)
LEMMA OperatorSubmitsStep ==
  ASSUME IInv, NEW w \in Draft, OperatorSubmits(w)
  PROVE  IInv'
<1>1. /\ wsState' = [wsState EXCEPT ![w] = "SUBMITTED"]
      /\ mainline' = DocOf(w)
      /\ Touch(Draft, {w}) /\ UNCHANGED overlay
  BY DEF OperatorSubmits
<1>2. wsState \in [Draft -> WsState] /\ touched' \subseteq Draft
  BY <1>1 DEF Touch, IInv, Types, CVTypes
<1>3. DocOf(w) \in Doc \cup {Malformed}
  BY DEF DocOf, Inherits, IInv, Types, CVTypes
<1>4. CVTypes'
  BY <1>1, <1>2, <1>3 DEF IInv, Types, CVTypes, WsState
<1>5. /\ {w} \in SUBSET Draft /\ Draft \in SUBSET Draft
      /\ \A u \in Draft \ {w} : wsState'[u] = wsState[u]
  BY <1>1, <1>2
<1> QED
  BY <1>1, <1>4, <1>5, TouchStep

(* A draft is deleted, and its document with it.                           *)
LEMMA DraftDeletedStep ==
  ASSUME IInv, NEW w \in Draft, DraftDeleted(w)
  PROVE  IInv'
<1>1. /\ wsState' = [wsState EXCEPT ![w] = "absent"]
      /\ overlay' = [overlay EXCEPT ![w] = NoDoc]
      /\ Touch({w}, {w}) /\ UNCHANGED mainline
  BY DEF DraftDeleted
<1>2. /\ wsState \in [Draft -> WsState] /\ touched' \subseteq Draft
      /\ overlay \in [Draft -> Doc \cup {NoDoc, Malformed}]
  BY <1>1 DEF Touch, IInv, Types, CVTypes
<1>3. /\ overlay' \in [Draft -> Doc \cup {NoDoc, Malformed}]
      /\ wsState' \in [Draft -> WsState]
      /\ \A u \in Draft \ {w} : overlay'[u] = overlay[u] /\ wsState'[u] = wsState[u]
  BY <1>1, <1>2 DEF WsState
<1>4. CVTypes'
  BY <1>1, <1>2, <1>3 DEF IInv, Types, CVTypes
<1>5. {w} \in SUBSET Draft
  OBVIOUS
<1> QED
  BY <1>1, <1>3, <1>4, <1>5, TouchStep

(* A new draft was absent: no call that is not stale counts on it.         *)
LEMMA DraftCreatedStep ==
  ASSUME IInv, NEW w \in Draft, DraftCreated(w)
  PROVE  IInv'
<1>1. /\ wsState[w] = "absent" /\ wsState' = [wsState EXCEPT ![w] = "PENDING"]
      /\ UNCHANGED <<call, issued, late, overlay, mainline, touched>>
  BY DEF DraftCreated
<1>2. CVTypes' /\ \A u \in Draft : wsState[u] = "PENDING" => wsState'[u] = "PENDING"
  BY <1>1 DEF IInv, Types, CVTypes, WsState
<1>3. late' = LateStaled(late, {})
  BY <1>1 DEF LateStaled, Staled
<1>4. /\ call' \in [Client -> CallRecord]
      /\ \A d \in Client : SameUpToMark(call'[d], call[d], FALSE)
  BY <1>1 DEF IInv, Types, SameUpToMark
<1>5. Marks({}, {})
  BY <1>4 DEF Marks
<1>6. Spares({}, {}) /\ DocsArrive
  BY <1>1, <1>2 DEF Spares, SameFor, DocsArrive
<1>7. {} \in SUBSET Draft /\ {} \in SUBSET {} /\ late \in SUBSET late
      /\ touched \subseteq touched'
  BY <1>1
<1> QED
  BY <1>1, <1>2, <1>3, <1>4, <1>5, <1>6, <1>7, MarkingStep

----------------------------------------------------------------------------
(* Calls that end without an answer, and requests that never arrive.       *)

(* A request that came to nothing only ends its call.                      *)
LEMMA RejectedStep ==
  ASSUME IInv, NEW c \in Client, Rejected(c)
  PROVE  IInv'
BY RefusalStep DEF Rejected, Codes

(* A timeout leaves the request to arrive late.                            *)
LEMMA GiveUpStep ==
  ASSUME IInv, NEW c \in Client, GiveUpAny(c)
  PROVE  IInv'
<1>1. /\ call[c].pc = "await" /\ Finish(c, "resource_write_failed")
      /\ late' = late \cup {Request(call[c])}
      /\ UNCHANGED <<issued, cvVars>>
  BY DEF GiveUpAny, GiveUp
<1> QED
  BY <1>1, EndingStep DEF IInv, Types, Codes

(* The request of a stopped process may still arrive.                      *)
LEMMA RestartStep ==
  ASSUME IInv, NEW c \in Client, RestartAny(c)
  PROVE  IInv'
<1>1. /\ Finish(c, "none") /\ UNCHANGED <<issued, cvVars>>
      /\ \/ call[c].pc = "await" /\ late' = late \cup {Request(call[c])}
         \/ late' = late
  BY DEF RestartAny, Restart
<1> QED
  BY <1>1, EndingStep DEF IInv, Types, Codes

(* Steps in which no call moves: one request fewer on the wire, or none.   *)
LEMMA NoCallStep ==
  ASSUME IInv, UNCHANGED <<call, issued, cvVars>>, late' \subseteq late
  PROVE  IInv'
<1>1. Outstanding' \subseteq Outstanding
  BY DEF Outstanding, Request
<1> QED
  BY <1>1, QuietStep DEF IInv, Types

----------------------------------------------------------------------------
(* The inductive invariant holds in every state, for any number of         *)
(* processes, drafts, names, documents, operations and late requests.      *)
THEOREM Invariance == Spec => []IInv
<1>1. IInv /\ [Next]_vars => IInv'
  <2> SUFFICES ASSUME IInv, [Next]_vars PROVE IInv'
    OBVIOUS
  <2>1. CASE \E c \in Client : InvokeAny(c)
    BY <2>1, InvokeStep
  <2>2. CASE \E c \in Client : ReadWorkspace(c)
    BY <2>2, ReadWorkspaceStep
  <2>3. CASE \E c \in Client : ReadDocument(c)
    BY <2>3, ReadDocumentStep
  <2>4. CASE \E c \in Client : Applied(c)
    BY <2>4, AppliedStep
  <2>5. CASE \E c \in Client : Rejected(c)
    BY <2>5, RejectedStep
  <2>6. CASE \E c \in Client : GiveUpAny(c)
    BY <2>6, GiveUpStep
  <2>7. CASE \E c \in Client : RestartAny(c)
    BY <2>7, RestartStep
  <2>8. CASE \E q \in late : AppliedLate(q)
    BY <2>8, AppliedLateStep
  <2>9. CASE \E q \in late : DroppedLate(q)
    BY <2>9, NoCallStep DEF DroppedLate
  <2>10. CASE \E w \in Draft, doc \in LeftBehind : OperatorEdits(w, doc)
    BY <2>10, OperatorEditsStep
  <2>11. CASE \E w \in Draft : OperatorSubmits(w)
    BY <2>11, OperatorSubmitsStep
  <2>12. CASE \E w \in Draft : DraftDeleted(w)
    BY <2>12, DraftDeletedStep
  <2>13. CASE \E w \in Draft : DraftCreated(w)
    BY <2>13, DraftCreatedStep
  <2>14. CASE UNCHANGED vars
    BY <2>14, NoCallStep DEF vars, cvVars
  <2> QED
    BY <2>1, <2>2, <2>3, <2>4, <2>5, <2>6, <2>7, <2>8, <2>9, <2>10, <2>11,
       <2>12, <2>13, <2>14 DEF Next
<1> QED
  BY <1>1, InitInv, PTL DEF Spec

(* The variables keep their types, a batch past the first checks is well   *)
(* formed and holds no disruptive word, and what is on the wire is a whole *)
(* document: TypeOK.                                                       *)
THEOREM TypeCorrect == Spec => []TypeOK
<1>1. IInv => TypeOK
  BY InvImplies
<1> QED
  BY <1>1, Invariance, PTL

(* As long as the stream of Inputs warns of every row it loses, a write    *)
(* that nobody raced replaces the very document its caller presented, and  *)
(* each entry is what the last operation on it says, or what it was.       *)
THEOREM WritesDoAsSaid ==
  ASSUME ~SilentLoss
  PROVE  Spec => []UnracedWriteDoesAsSaid
<1>1. IInv => UnracedWriteDoesAsSaid
  BY InvImplies
<1> QED
  BY <1>1, Invariance, PTL

(* However calls race, and whatever is lost on the way, the document of a  *)
(* draft people left alone resolves all its references, has no rule that   *)
(* drops everything but those of the mainline, and the policies of the     *)
(* mainline, none of them emptied.                                         *)
THEOREM DraftsWhole == Spec => []DraftDocumentsAreWhole
<1>1. IInv => DraftDocumentsAreWhole
  BY InvImplies
<1> QED
  BY <1>1, Invariance, PTL

(* That document is, as a whole, one that a dry run for that draft computed *)
(* and showed.                                                             *)
THEOREM DraftsPreviewed == Spec => []DraftIsAPreviewedDocument
<1>1. IInv => DraftIsAPreviewedDocument
  BY InvImplies
<1> QED
  BY <1>1, Invariance, PTL

----------------------------------------------------------------------------
(* MssInputs implements SnapshotWrites, if no row of a stream is lost      *)
(* without a warning.                                                      *)

(* The writes on their way, as SnapshotWrites holds them.                  *)
Holding == {Held(q) : q \in Outstanding}

(* q is p, but perhaps for the mark: SnapshotWrites holds the same.        *)
LEMMA MarkedIsHeld ==
  ASSUME NEW p \in Requests, NEW q, q = p \/ MarkOf(q, p)
  PROVE  Held(q) = Held(p)
<1>1. q.tool = p.tool /\ q.ws = p.ws /\ q.args = p.args
  BY DEF MarkOf
<1> QED
  BY <1>1 DEF Held

(* Requests that stay are held, and at most one held before is not.        *)
LEMMA HoldingAfter ==
  ASSUME NEW h,
         \A q \in Outstanding' : \E p \in Outstanding : Held(q) = Held(p),
         \A p \in Outstanding :
           Held(p) = h \/ \E q \in Outstanding' : Held(q) = Held(p)
  PROVE  Holding' \in {Holding, Holding \ {h}}
<1>1. Holding' = {Held(q) : q \in Outstanding'}
  BY DEF Holding, Held, PreviewToken
<1>2. Holding' \subseteq Holding
  BY <1>1 DEF Holding
<1>3. Holding \subseteq Holding' \cup {h}
  BY <1>1 DEF Holding
<1> QED
  BY <1>2, <1>3

(* Nothing happens but that a request may be lost.                         *)
LEMMA LosingKeepsPromise ==
  ASSUME NEW h, UNCHANGED <<issued, cvVars>>,
         Holding' \in {Holding, Holding \ {h}}
  PROVE  [Promise!Next]_(Promise!swVars)
<1>1. CASE h \in Holding /\ Holding' = Holding \ {h}
  <2>1. Promise!Lose(h)
    BY <1>1 DEF Promise!Lose, Holding, cvVars
  <2> QED
    BY <1>1, <2>1 DEF Promise!Next, Holding
<1>2. CASE Holding' = Holding
  BY <1>2 DEF Promise!swVars, Holding, cvVars
<1> QED
  BY <1>1, <1>2

(* A call that has no request on the wire, or gives it up.                 *)
LEMMA CallKeepsHolding ==
  ASSUME NEW c \in Client, call'[c].pc # "await",
         \A d \in Client \ {c} : call'[d] = call[d],
         late \subseteq late', Outstanding' \subseteq Outstanding
  PROVE  /\ Holding' \in {Holding, Holding \ {Held(Request(call[c]))}}
         /\ call[c].pc # "await" => Holding' = Holding
<1> DEFINE h == Held(Request(call[c]))
<1>1. \A p \in Outstanding :
        \/ p = Request(call[c]) /\ call[c].pc = "await"
        \/ p \in Outstanding'
  BY DEF Outstanding, Request
<1>2. Holding' \in {Holding, Holding \ {h}}
  BY <1>1, HoldingAfter
<1>3. CASE call[c].pc # "await"
  <2>1. Outstanding' = Outstanding
    BY <1>1, <1>3
  <2> QED
    BY <1>2, <2>1 DEF Holding, Held, PreviewToken
<1> QED
  BY <1>2, <1>3

(* The document a draft has is the one SnapshotWrites sees.                *)
LEMMA SameDocument ==
  ASSUME NEW w
  PROVE  Promise!DocOf(w) = DocOf(w)
BY DEF Promise!DocOf, DocOf, Inherits

(* A call that ends without a request.                                     *)
LEMMA NoRequestKeepsHolding ==
  ASSUME IInv, NEW c \in Client, call[c].pc # "await", UNCHANGED late,
         NEW code \in Codes, Finish(c, code)
  PROVE  Holding' = Holding
<1>1. /\ call'[c].pc = "idle"
      /\ \A d \in Client \ {c} : call'[d] = call[d]
  BY FinishStep
<1>2. Outstanding' \subseteq Outstanding
  BY <1>1 DEF Outstanding, Request
<1> QED
  BY <1>1, <1>2, CallKeepsHolding

(* The gate: a dry run previews, and a confirmed call takes the document   *)
(* it has just read.                                                       *)
LEMMA GateKeepsPromise ==
  ASSUME IInv, NEW c \in Client, call[c].pc = "document",
         NEW a, a.expected = DocOf(call[c].ws), Gate(c, a, a.after),
         UNCHANGED <<late, cvVars>>
  PROVE  [Promise!Next]_(Promise!swVars)
<1> DEFINE q == call[c]
           p == PreviewToken(q.tool, q.ws, a)
<1>1. /\ q \in CallRecord /\ q.tool = "set_mss" /\ q.ws \in Draft
      /\ q.confirm = "yes" => q.token \in issued \cup {NoToken}
  BY DEF IInv, Types, PendingCalls, Pending, Reading, Accepted
<1>2. CASE issued' = issued \cup {p} /\ Finish(c, "preview")
  <2>1. Holding' = Holding
    BY <1>2, NoRequestKeepsHolding DEF Codes
  <2>2. Promise!Preview
    BY <1>2, <2>1 DEF Promise!Preview, Holding, cvVars
  <2> QED
    BY <2>2 DEF Promise!Next
<1>3. CASE Finish(c, "preview_required") /\ UNCHANGED issued
  <2>1. Holding' = Holding
    BY <1>3, NoRequestKeepsHolding DEF Codes
  <2> QED
    BY <1>3, <2>1, LosingKeepsPromise
<1>4. CASE /\ q.confirm = "yes"
           /\ CheckPreviewToken(q.token, q.tool, q.ws, a)
           /\ Send(c, a, a.after)
           /\ UNCHANGED issued
  <2>1. p \in issued
    BY <1>1, <1>4 DEF CheckPreviewToken, PreviewToken, NoToken
  <2> DEFINE s == [q EXCEPT !.pc = "await", !.args = a, !.body = a.after]
             h == [write |-> p, before |-> a.expected]
  <2>2. /\ s.pc = "await" /\ Request(s).tool = q.tool /\ Request(s).ws = q.ws
        /\ Request(s).args = a
    BY <1>1 DEF CallRecord, Request
  <2>3. Held(Request(s)) = h
    BY <2>2 DEF Held
  <2>4. call'[c] = s /\ \A d \in Client \ {c} : call'[d] = call[d]
    BY <1>4 DEF Send, IInv, Types
  <2> HIDE DEF s
  <2>5. Outstanding' = Outstanding \cup {Request(s)}
    BY <2>2, <2>4 DEF Outstanding, Request
  <2>6. Holding' = Holding \cup {h}
    BY <2>3, <2>5 DEF Holding, Held, PreviewToken
  <2>7. p[2] = q.ws /\ p[3] = a
    BY DEF PreviewToken
  <2>8. MayWrite(p, a.expected)
    BY <2>7 DEF MayWrite
  <2>9. a.expected = Promise!DocOf(p[2])
    BY <2>7, SameDocument
  <2> HIDE DEF p, h
  <2>10. Promise!Take(p)
    BY <1>4, <2>6, <2>8, <2>9 DEF Promise!Take, Holding, cvVars, h
  <2> QED
    BY <2>1, <2>10 DEF Promise!Next
<1> QED
  BY <1>2, <1>3, <1>4 DEF Gate

(* Reading the document: what the stream delivers is the draft's own, and  *)
(* the digest presented is its.                                            *)
LEMMA ReadDocumentKeepsPromise ==
  ASSUME IInv, ~SilentLoss, NEW c \in Client, ReadDocument(c)
  PROVE  [Promise!Next]_(Promise!swVars)
<1> DEFINE a == call[c].args
<1>1. UNCHANGED <<late, cvVars>> /\ call[c].pc = "document"
  BY DEF ReadDocument
<1>2. ASSUME NEW code, Refuse(c, code) PROVE [Promise!Next]_(Promise!swVars)
  <2>1. /\ call'[c].pc = "idle" /\ UNCHANGED issued
        /\ \A d \in Client \ {c} : call'[d] = call[d]
    BY <1>2 DEF Refuse, Finish, Idle, IInv, Types
  <2>2. Outstanding' \subseteq Outstanding
    BY <1>1, <2>1 DEF Outstanding, Request
  <2>3. Holding' = Holding
    BY <1>1, <2>1, <2>2, CallKeepsHolding
  <2> QED
    BY <1>1, <2>1, <2>3, LosingKeepsPromise
<1>3. ASSUME NEW doc \in Loaded(call[c].ws), CompareAndApply(c, doc)
      PROVE  [Promise!Next]_(Promise!swVars)
  <2> DEFINE after == Apply(doc, a.ops).doc
             sent == ArgRecord(a.expected, a.ops, after)
  <2>1. doc = DocOf(call[c].ws)
    BY DEF Loaded
  <2>2. CASE doc = a.expected /\ Gate(c, sent, after)
    <3>1. sent.expected = a.expected /\ sent.after = after
      BY DEF ArgRecord
    <3> HIDE DEF sent, after
    <3> QED
      BY <1>1, <2>1, <2>2, <3>1, GateKeepsPromise
  <2>3. CASE \E code : Refuse(c, code)
    BY <1>2, <2>3
  <2> HIDE DEF sent
  <2> QED
    BY <1>3, <2>2, <2>3 DEF CompareAndApply, sent
<1> QED
  BY <1>2, <1>3 DEF ReadDocument

(* A request that is marked and stays on the wire is still held.           *)
LEMMA MarkedStays ==
  ASSUME IInv, NEW D, NEW L \in SUBSET late, late' = LateStaled(L, D),
         NEW p \in Outstanding,
         \/ p \in L
         \/ \E d \in Client :
              /\ call[d].pc = "await" /\ p = Request(call[d])
              /\ SameUpToMark(call'[d], call[d], call[d].ws \in D)
  PROVE  \E q \in Outstanding' : Held(q) = Held(p)
<1>1. CASE p \in L
  <2>1. Staled(p, D) \in Outstanding'
    BY <1>1 DEF Outstanding, LateStaled
  <2>2. p \in Requests
    BY DEF IInv, SoundRequests, SoundRequest
  <2>3. Staled(p, D) = p \/ MarkOf(Staled(p, D), p)
    BY <2>2 DEF Staled, MarkOf, Requests
  <2>4. Held(Staled(p, D)) = Held(p)
    BY <2>2, <2>3, MarkedIsHeld
  <2> QED
    BY <2>1, <2>4
<1>2. ASSUME NEW d \in Client, call[d].pc = "await", p = Request(call[d]),
             SameUpToMark(call'[d], call[d], call[d].ws \in D)
      PROVE  \E q \in Outstanding' : Held(q) = Held(p)
  <2>1. Request(call'[d]) \in Outstanding'
    BY <1>2 DEF SameUpToMark, Outstanding, Request
  <2>2. Held(Request(call'[d])) = Held(p)
    BY <1>2 DEF SameUpToMark, Held, Request
  <2> QED
    BY <2>1, <2>2
<1> QED
  BY <1>1, <1>2

(* All the requests of before are, marked or not, on the wire or, if they  *)
(* are held as h, perhaps not.                                             *)
LEMMA MarkingKeepsHolding ==
  ASSUME IInv, NEW D, NEW L \in SUBSET late, NEW h,
         call' \in [Client -> CallRecord],
         \A d \in Client : call'[d].pc = "await" =>
           SameUpToMark(call'[d], call[d], call[d].ws \in D),
         late' = LateStaled(L, D),
         \A r \in late \ L : Held(r) = h,
         \A d \in Client : call[d].pc = "await" =>
           call'[d].pc = "await" \/ Held(Request(call[d])) = h
  PROVE  Holding' \in {Holding, Holding \ {h}}
<1>1. ASSUME NEW q \in Outstanding'
      PROVE  \E p \in Outstanding : Held(q) = Held(p)
  <2>1. PICK p \in Outstanding : q = p \/ MarkOf(q, p)
    BY MarkedOutstanding
  <2>2. p \in Requests
    BY DEF IInv, SoundRequests, SoundRequest
  <2> QED
    BY <2>1, <2>2, MarkedIsHeld
<1>2. ASSUME NEW p \in Outstanding
      PROVE  Held(p) = h \/ \E q \in Outstanding' : Held(q) = Held(p)
  <2>1. CASE p \in late
    BY <2>1, MarkedStays
  <2>2. CASE \E d \in Client : call[d].pc = "await" /\ p = Request(call[d])
    BY <2>2, MarkedStays
  <2> QED
    BY <2>1, <2>2 DEF Outstanding
<1> QED
  BY <1>1, <1>2, HoldingAfter

(* Carrying out a request puts the document presented, changed as asked.   *)
LEMMA EffectKeepsPromise ==
  ASSUME IInv, NEW q \in Outstanding, Effect(q), UNCHANGED issued,
         Holding' \in {Holding, Holding \ {Held(q)}}
  PROVE  [Promise!Next]_(Promise!swVars)
<1> DEFINE h == Held(q)
<1>1. q.body = Apply(q.args.expected, q.args.ops).doc
  BY DEF IInv, SoundRequests, SoundRequest
<1>2. h.write[2] = q.ws /\ h.write[3] = q.args /\ h.before = q.args.expected
  BY DEF Held, PreviewToken
<1>3. h \in Holding
  BY DEF Holding
<1> HIDE DEF h
<1>4. Written(h.write, h.before) = q.body
  BY <1>1, <1>2 DEF Written
<1>5. Promise!Put(h)
  BY <1>2, <1>4 DEF Promise!Put, Effect, Holding, h
<1> QED
  BY <1>3, <1>5 DEF Promise!Next, Holding

(* CloudVision carries out a request whose caller still waits.             *)
LEMMA AppliedKeepsPromise ==
  ASSUME IInv, NEW c \in Client, Applied(c)
  PROVE  [Promise!Next]_(Promise!swVars)
<1> DEFINE w == call[c].ws
           calls == CallsStaled(call, {w}, {"await"})
           q == Request(call[c])
<1>1. /\ call[c].pc = "await" /\ UNCHANGED issued /\ Effect(call[c])
      /\ late' = LateStaled(late, {w})
  BY DEF Applied
<1>2. q \in Outstanding /\ Effect(q)
  BY <1>1 DEF Outstanding, Effect, Request
<1>3. PICK code \in Codes : call' = [calls EXCEPT ![c] = Idle(code)]
  BY DEF Applied, Codes
<1>4. /\ calls \in [Client -> CallRecord]
      /\ \A d \in Client :
           SameUpToMark(calls[d], call[d],
                        call[d].pc \in {"await"} /\ call[d].ws \in {w})
  BY StaledCall DEF IInv, Types
<1>5. Idle(code) \in CallRecord /\ Idle(code).pc = "idle"
  BY IdleType DEF Idle
<1> HIDE DEF calls
<1>6. /\ call' \in [Client -> CallRecord]
      /\ call'[c].pc = "idle"
      /\ \A d \in Client \ {c} : call'[d] = calls[d]
  BY <1>3, <1>4, <1>5
<1>7. \A d \in Client : call'[d].pc = "await" =>
        SameUpToMark(call'[d], call[d], call[d].ws \in {w})
  BY <1>4, <1>6 DEF SameUpToMark
<1>8. \A d \in Client : call[d].pc = "await" =>
        call'[d].pc = "await" \/ Held(Request(call[d])) = Held(q)
  BY <1>4, <1>6 DEF SameUpToMark
<1>9. Holding' \in {Holding, Holding \ {Held(q)}}
  <2> HIDE DEF w, q
  <2> QED
    BY <1>1, <1>6, <1>7, <1>8, MarkingKeepsHolding
<1> QED
  BY <1>1, <1>2, <1>9, EffectKeepsPromise

(* CloudVision carries out a request nobody waits for.                     *)
LEMMA AppliedLateKeepsPromise ==
  ASSUME IInv, NEW r \in late, AppliedLate(r)
  PROVE  [Promise!Next]_(Promise!swVars)
<1> DEFINE w == r.ws
<1>1. /\ UNCHANGED issued /\ Effect(r)
      /\ call' = CallsStaled(call, {w}, {"await"})
      /\ late' = LateStaled(late \ {r}, {w})
  BY DEF AppliedLate
<1>2. r \in Outstanding
  BY DEF Outstanding
<1>3. /\ call' \in [Client -> CallRecord]
      /\ \A d \in Client :
           SameUpToMark(call'[d], call[d],
                        call[d].pc \in {"await"} /\ call[d].ws \in {w})
  BY <1>1, StaledCall DEF IInv, Types
<1>4. \A d \in Client : call'[d].pc = "await" =>
        SameUpToMark(call'[d], call[d], call[d].ws \in {w})
  BY <1>3 DEF SameUpToMark
<1>5. \A d \in Client : call[d].pc = "await" =>
        call'[d].pc = "await" \/ Held(Request(call[d])) = Held(r)
  BY <1>3 DEF SameUpToMark
<1>6. Holding' \in {Holding, Holding \ {Held(r)}}
  <2> HIDE DEF w
  <2>1. late \ {r} \in SUBSET late /\ \A x \in late \ (late \ {r}) : Held(x) = Held(r)
    OBVIOUS
  <2> QED
    BY <1>1, <1>3, <1>4, <1>5, <2>1, MarkingKeepsHolding
<1> QED
  BY <1>1, <1>2, <1>6, EffectKeepsPromise

(* People mark requests, and lose none.                                    *)
LEMMA TouchKeepsHolding ==
  ASSUME IInv, NEW docs, NEW states, Touch(docs, states)
  PROVE  UNCHANGED issued /\ Holding' = Holding
<1> DEFINE calls == CallsStaled(call, docs, {"await"})
           D == docs \cup states
<1>1. /\ UNCHANGED issued
      /\ call' = CallsStaled(calls, states, {"document", "await"})
      /\ late' = LateStaled(late, D)
  BY DEF Touch
<1>2. /\ calls \in [Client -> CallRecord]
      /\ \A d \in Client :
           SameUpToMark(calls[d], call[d],
                        call[d].pc \in {"await"} /\ call[d].ws \in docs)
  BY StaledCall DEF IInv, Types
<1> HIDE DEF calls
<1>3. /\ call' \in [Client -> CallRecord]
      /\ \A d \in Client :
           SameUpToMark(call'[d], calls[d],
             calls[d].pc \in {"document", "await"} /\ calls[d].ws \in states)
  BY <1>1, <1>2, StaledCall
<1>4. \A d \in Client : call'[d].pc = "await" =>
        SameUpToMark(call'[d], call[d], call[d].ws \in D)
  BY <1>2, <1>3 DEF SameUpToMark
<1>5. \A d \in Client : call[d].pc = "await" => call'[d].pc = "await"
  BY <1>2, <1>3 DEF SameUpToMark
<1> HIDE DEF D
<1>6. PICK h : h \notin Holding
  <2>1. {x \in Holding : x \notin x} \notin Holding
    OBVIOUS
  <2> QED
    BY <2>1
<1>7. Holding' \in {Holding, Holding \ {h}}
  BY <1>1, <1>3, <1>4, <1>5, MarkingKeepsHolding
<1> QED
  BY <1>1, <1>6, <1>7

(* What people do to the drafts.                                           *)
LEMMA PeopleKeepPromise ==
  ASSUME IInv,
         \/ \E w \in Draft, doc \in LeftBehind : OperatorEdits(w, doc)
         \/ \E w \in Draft : OperatorSubmits(w)
         \/ \E w \in Draft : DraftDeleted(w)
         \/ \E w \in Draft : DraftCreated(w)
  PROVE  [Promise!Next]_(Promise!swVars)
<1>1. ASSUME NEW w \in Draft, NEW doc \in LeftBehind, OperatorEdits(w, doc)
      PROVE  Promise!Next
  <2>1. UNCHANGED issued /\ Holding' = Holding
    BY <1>1, TouchKeepsHolding DEF OperatorEdits
  <2>2. Promise!PeopleEdit(w, doc)
    BY <1>1, <2>1 DEF Promise!PeopleEdit, OperatorEdits, Holding
  <2> QED
    BY <2>2 DEF Promise!Next
<1>2. ASSUME NEW w \in Draft, OperatorSubmits(w) PROVE Promise!Next
  <2>1. UNCHANGED issued /\ Holding' = Holding
    BY <1>2, TouchKeepsHolding DEF OperatorSubmits
  <2>2. Promise!Submit(w)
    BY <1>2, <2>1, SameDocument DEF Promise!Submit, OperatorSubmits, Holding
  <2> QED
    BY <2>2 DEF Promise!Next
<1>3. ASSUME NEW w \in Draft, DraftDeleted(w) PROVE Promise!Next
  <2>1. UNCHANGED issued /\ Holding' = Holding
    BY <1>3, TouchKeepsHolding DEF DraftDeleted
  <2>2. Promise!Delete(w)
    BY <1>3, <2>1 DEF Promise!Delete, DraftDeleted, Holding
  <2> QED
    BY <2>2 DEF Promise!Next
<1>4. ASSUME NEW w \in Draft, DraftCreated(w) PROVE Promise!Next
  <2>1. UNCHANGED issued /\ Outstanding' = Outstanding
    BY <1>4 DEF DraftCreated, Outstanding
  <2>2. Holding' = Holding
    BY <2>1 DEF Holding, Held, PreviewToken
  <2>3. Promise!Create(w)
    BY <1>4, <2>1, <2>2 DEF Promise!Create, DraftCreated, Holding
  <2> QED
    BY <2>3 DEF Promise!Next
<1> QED
  BY <1>1, <1>2, <1>3, <1>4

(* Every other step of a call leaves CloudVision alone, and loses at most  *)
(* the request of the call.                                                *)
LEMMA EndKeepsPromise ==
  ASSUME IInv, NEW c \in Client,
         \/ InvokeAny(c)
         \/ ReadWorkspace(c)
         \/ Rejected(c)
         \/ GiveUpAny(c)
         \/ RestartAny(c)
  PROVE  [Promise!Next]_(Promise!swVars)
<1>1. UNCHANGED <<issued, cvVars>>
  BY DEF InvokeAny, Invoke, ReadWorkspace, Refuse, Rejected, GiveUpAny,
         GiveUp, RestartAny, Restart
<1>2. /\ call'[c].pc # "await"
      /\ \A d \in Client \ {c} : call'[d] = call[d]
  <2>1. ASSUME NEW code, Finish(c, code)
        PROVE  /\ call'[c].pc # "await"
               /\ \A d \in Client \ {c} : call'[d] = call[d]
    BY <2>1 DEF Finish, Idle, IInv, Types
  <2>2. CASE InvokeAny(c)
    <3>1. PICK w \in Workspace, expected \in KnownDigests, ops \in Batch,
               confirm \in Confirm :
            \E token \in {NoToken} \cup (IF confirm = "yes" THEN issued ELSE {}) :
              Invoke(c, w, ArgRecord(expected, ops, Nil), confirm, token)
      BY <2>2 DEF InvokeAny
    <3>2. PICK token \in {NoToken} \cup (IF confirm = "yes" THEN issued ELSE {}) :
            Invoke(c, w, ArgRecord(expected, ops, Nil), confirm, token)
      BY <3>1
    <3>3. CASE Enter(c, "set_mss", w, ArgRecord(expected, ops, Nil), confirm, token)
      BY <3>3 DEF Enter, IInv, Types
    <3> QED
      BY <2>1, <3>2, <3>3 DEF Invoke
  <2>3. CASE ReadWorkspace(c)
    <3>1. CASE call' = [call EXCEPT ![c].pc = "document"]
      <4>1. call[c] \in CallRecord
        BY DEF IInv, Types
      <4> QED
        BY <3>1, <4>1 DEF IInv, Types, CallRecord
    <3> QED
      BY <2>1, <2>3, <3>1 DEF ReadWorkspace, Refuse
  <2> QED
    BY <2>1, <2>2, <2>3 DEF Rejected, GiveUpAny, GiveUp, RestartAny, Restart
<1>3. /\ late \subseteq late'
      /\ \/ late' = late
         \/ late' = late \cup {Request(call[c])} /\ call[c].pc = "await"
  BY DEF InvokeAny, Invoke, ReadWorkspace, Refuse, Rejected, GiveUpAny,
         GiveUp, RestartAny, Restart
<1>4. Outstanding' \subseteq Outstanding
  BY <1>2, <1>3 DEF Outstanding, Request
<1> QED
  BY <1>1, <1>2, <1>3, <1>4, CallKeepsHolding, LosingKeepsPromise

(* One request fewer on the wire.                                          *)
LEMMA DroppedLateKeepsPromise ==
  ASSUME IInv, NEW r \in late, DroppedLate(r)
  PROVE  [Promise!Next]_(Promise!swVars)
<1>1. UNCHANGED <<issued, cvVars, call>> /\ late' = late \ {r}
  BY DEF DroppedLate
<1>2. /\ \A q \in Outstanding' : q \in Outstanding
      /\ \A p \in Outstanding : p = r \/ p \in Outstanding'
  BY <1>1 DEF Outstanding, Request
<1>3. Holding' \in {Holding, Holding \ {Held(r)}}
  BY <1>2, HoldingAfter
<1> QED
  BY <1>1, <1>3, LosingKeepsPromise

(* Every step of the tools is a step of SnapshotWrites or none.            *)
LEMMA StepKeepsPromise ==
  ASSUME IInv, ~SilentLoss, [Next]_vars
  PROVE  [Promise!Next]_(Promise!swVars)
<1>1. CASE UNCHANGED vars
  <2>1. UNCHANGED <<issued, cvVars>> /\ Outstanding' = Outstanding
    BY <1>1 DEF vars, cvVars, Outstanding
  <2>2. Holding' = Holding
    BY <2>1 DEF Holding, Held, PreviewToken
  <2> QED
    BY <2>1, <2>2, LosingKeepsPromise
<1>2. CASE \E c \in Client : ReadDocument(c)
  BY <1>2, ReadDocumentKeepsPromise
<1>3. CASE \E c \in Client : Applied(c)
  BY <1>3, AppliedKeepsPromise
<1>4. CASE \E r \in late : AppliedLate(r) \/ DroppedLate(r)
  BY <1>4, AppliedLateKeepsPromise, DroppedLateKeepsPromise
<1> QED
  BY <1>1, <1>2, <1>3, <1>4, EndKeepsPromise, PeopleKeepPromise DEF Next

(* Whatever people, other processes and the network do in between, a write *)
(* of the tool is a previewed batch applied to the whole document whose    *)
(* digest its caller presented, as the draft had it when it was read.      *)
THEOREM Implements ==
  ASSUME ~SilentLoss
  PROVE  Spec => KeepsPromise
<1>1. Init => Promise!Init
  <2> SUFFICES ASSUME Init PROVE Promise!Init
    OBVIOUS
  <2>1. Outstanding = {}
    BY DEF Init, Outstanding, Idle
  <2> QED
    BY <2>1 DEF Init, Promise!Init
<1>2. IInv /\ [Next]_vars => [Promise!Next]_(Promise!swVars)
  BY StepKeepsPromise
<1> QED
  BY <1>1, <1>2, Invariance, PTL DEF Spec, KeepsPromise, Promise!Spec

----------------------------------------------------------------------------
(* What an accepted answer means.                                          *)

(* A call leaves its request accepted only when the request took effect.   *)
LEMMA AcceptedIsApplied ==
  ASSUME IInv, [Next]_vars, NEW c \in Client, call[c].pc = "await",
         call'[c].pc = "idle", call'[c].code = "accepted"
  PROVE  Applied(c)
<1>0. ASSUME NEW calls \in [Client -> CallRecord], NEW ws, NEW pcs
      PROVE  /\ CallsStaled(calls, ws, pcs) \in [Client -> CallRecord]
             /\ CallsStaled(calls, ws, pcs)[c].pc = calls[c].pc
  <2>1. SameUpToMark(CallsStaled(calls, ws, pcs)[c], calls[c],
                     calls[c].pc \in pcs /\ calls[c].ws \in ws)
    BY StaledCall
  <2> QED
    BY <2>1, StaledCall DEF SameUpToMark
<1>1. ASSUME NEW d \in Client,
             InvokeAny(d) \/ ReadWorkspace(d) \/ ReadDocument(d)
      PROVE  FALSE
  <2>1. c # d /\ (InvokeAny(d) \/ ReadWorkspace(d) => call'[c] = call[c])
    BY <1>1 DEF IInv, Types, InvokeAny, Invoke, ReadWorkspace, ReadDocument,
                Refuse, Finish, Enter
  <2>2. ASSUME ReadDocument(d)
        PROVE  call'[c] = call[c]
    <3>1. ASSUME NEW code, Refuse(d, code)
          PROVE  call'[c] = call[c]
      BY <2>1, <3>1 DEF IInv, Types, Refuse, Finish
    <3>2. ASSUME NEW a, NEW body, Gate(d, a, body)
          PROVE  call'[c] = call[c]
      BY <2>1, <3>2 DEF IInv, Types, Gate, Send, Finish
    <3>3. ASSUME NEW doc, CompareAndApply(d, doc)
          PROVE  call'[c] = call[c]
      BY <3>1, <3>2, <3>3 DEF CompareAndApply
    <3> QED
      BY <2>2, <3>1, <3>3 DEF ReadDocument
  <2> QED
    BY <1>1, <2>1, <2>2
<1>2. ASSUME NEW d \in Client,
             Rejected(d) \/ GiveUpAny(d) \/ RestartAny(d)
      PROVE  FALSE
  <2>1. \E code \in {"resource_write_failed", "none"} : Finish(d, code)
    BY <1>2 DEF Rejected, GiveUpAny, GiveUp, RestartAny, Restart
  <2> QED
    BY <2>1 DEF Finish, Idle, IInv, Types
<1>3. ASSUME NEW calls \in [Client -> CallRecord], NEW ws, NEW pcs,
             calls[c].pc = "await", call' = CallsStaled(calls, ws, pcs)
      PROVE  FALSE
  BY <1>0, <1>3
<1>4. ASSUME NEW q, AppliedLate(q) PROVE FALSE
  BY <1>3, <1>4 DEF AppliedLate, IInv, Types
<1>5. ASSUME NEW docs, NEW states, Touch(docs, states) PROVE FALSE
  <2> DEFINE calls == CallsStaled(call, docs, {"await"})
  <2>1. calls \in [Client -> CallRecord] /\ calls[c].pc = "await"
    BY <1>0 DEF IInv, Types
  <2>2. call' = CallsStaled(calls, states, {"document", "await"})
    BY <1>5 DEF Touch
  <2> HIDE DEF calls
  <2> QED
    BY <1>3, <2>1, <2>2
<1>6. ASSUME NEW d \in Client \ {c}, Applied(d) PROVE FALSE
  <2> DEFINE calls == CallsStaled(call, {call[d].ws}, {"await"})
  <2>1. calls \in [Client -> CallRecord] /\ calls[c].pc = "await"
    BY <1>0 DEF IInv, Types
  <2>2. PICK code : call' = [calls EXCEPT ![d] = Idle(code)]
    BY <1>6 DEF Applied
  <2> HIDE DEF calls
  <2> QED
    BY <2>1, <2>2
<1>7. (\E q \in late : DroppedLate(q)) \/ (\E w \in Draft : DraftCreated(w))
        \/ UNCHANGED vars => call' = call
  BY DEF DroppedLate, DraftCreated, vars
<1> QED
  BY <1>1, <1>2, <1>4, <1>5, <1>6, <1>7
     DEF Next, OperatorEdits, OperatorSubmits, DraftDeleted

(* The step that answers an unraced call of (w, a): accepted.              *)
Accepts(c, w, a) ==
  /\ call[c].pc = "await" /\ call[c].ws = w /\ call[c].args = a
  /\ ~call[c].stale
  /\ call'[c].pc = "idle" /\ call'[c].code = "accepted"

(* What a write does to the documents when it takes effect.                *)
BatchApplied(w, a) ==
  /\ wsState[w] = "PENDING"
  /\ DocOf(w) = a.expected
  /\ DocOf(w)' = Apply(a.expected, a.ops).doc
  /\ \A v \in Draft \ {w} : DocOf(v)' = DocOf(v)

(* An accepted answer to a call nobody raced tells the truth: the draft    *)
(* was pending and had the document whose digest the caller gave, and from *)
(* this step on has what the operations make of it; the documents of the   *)
(* other drafts are what they were.                                        *)
AcceptedWriteAppliesTheBatch ==
  [][\A c \in Client, w \in Draft, a \in SentArgs :
       Accepts(c, w, a) => BatchApplied(w, a)]_vars

(* As long as the helper warns of every row it loses, an accepted, unraced *)
(* batch has been applied to the document its caller presented.            *)
THEOREM AcceptedMeansApplied ==
  ASSUME ~SilentLoss
  PROVE  Spec => AcceptedWriteAppliesTheBatch
<1>1. ASSUME IInv, [Next]_vars, NEW c \in Client, NEW w \in Draft,
             NEW a \in SentArgs, Accepts(c, w, a)
      PROVE  BatchApplied(w, a)
  <2> DEFINE q == Request(call[c])
  <2>1. SoundRequest(q)
    BY <1>1 DEF IInv, SoundRequests, Outstanding, Accepts
  <2>2. q.ws = w /\ q.args = a /\ ~q.stale /\ q.body = call[c].body
    BY <1>1 DEF Request, Accepts
  <2>3. /\ wsState[w] = "PENDING" /\ DocOf(w) = a.expected
        /\ q.body = Apply(a.expected, a.ops).doc /\ q.body \in Doc
    BY <2>1, <2>2 DEF SoundRequest, Requests, Current
  <2>4. Applied(c)
    BY <1>1, AcceptedIsApplied DEF Accepts
  <2>5. /\ overlay' = [overlay EXCEPT ![w] = q.body]
        /\ mainline' = mainline
        /\ overlay \in [Draft -> Doc \cup {NoDoc, Malformed}]
    BY <1>1, <2>2, <2>4 DEF Accepts, Applied, Effect, IInv, Types, CVTypes
  <2> HIDE DEF q
  <2>6. PICK doc \in Doc : doc = q.body
    BY <2>3
  <2>7. doc # NoDoc
    BY MssAssumption
  <2>8. DocOf(w)' = doc
    BY <2>5, <2>6, <2>7 DEF DocOf, Inherits
  <2>9. \A v \in Draft \ {w} : DocOf(v)' = DocOf(v)
    BY <2>5 DEF DocOf, Inherits
  <2> QED
    BY <2>3, <2>6, <2>8, <2>9 DEF BatchApplied
<1>2. IInv /\ [Next]_vars =>
        [\A c \in Client, w \in Draft, a \in SentArgs :
           Accepts(c, w, a) => BatchApplied(w, a)]_vars
  BY <1>1
<1> QED
  BY <1>2, Invariance, PTL DEF Spec, AcceptedWriteAppliesTheBatch

=============================================================================
