----------------------------- MODULE MssInputs -----------------------------
(***************************************************************************)
(* set_cvp_mss_policy_inputs: a batch of operations on the groups,         *)
(* services, rules and policies of the MSS studio, applied to the whole    *)
(* Inputs document whose digest the caller presents, and posted whole.     *)
(*                                                                         *)
(* A list of the document whose entries have names is a function from      *)
(* names here (the order of such a list is left out, that of the rules of  *)
(* a policy is not), and a digest is the document it is the digest of.     *)
(***************************************************************************)
EXTENDS WriteCall, Sequences

CONSTANTS
  Group, Service, Rule, Policy,   \* names of entries
  Monitor,        \* names of monitor objects
  Content,        \* CIDRs of a group, protocols and ports of a service
  Any,            \* "<any>"
  Absent,         \* no entry of this name, or no such key
  Malformed,      \* a document of a shape the tool does not reason about
  Batch,          \* lists of operations callers may send
  Disruptive,     \* those in whose text the lint finds a disruptive word
  StartDoc,       \* documents the mainline may start with
  LeftBehind,     \* documents people may leave behind in the UI
  MaxOperations,  \* MAX_OPERATIONS
  NoDoc,          \* the draft has no document of its own
  SilentLoss,     \* may the stream lose rows without a warning?
  MaxPreviews,    \* bound: dry runs that were answered
  MaxEdits        \* bound: changes made by people in the UI

Collection == {"staticGroups", "services", "rules", "policies"}
Name == Group \cup Service \cup Rule \cup Policy
Action == {"forward", "drop"}

Entry == [action : Action, sources : SUBSET (Group \cup {Any}),
          destinations : SUBSET (Group \cup {Any}),
          services : SUBSET (Service \cup {Any}),
          monitor : Monitor \cup {Absent}]

PolicyEntry == [policyRules : Seq(Rule)]

Doc == [staticGroups : [Group -> Content \cup {Absent}],
        services : [Service -> Content \cup {Absent}],
        rules : [Rule -> Entry \cup {Absent}],
        policies : [Policy -> PolicyEntry \cup {Absent}],
        accepted : SUBSET Group, monitors : SUBSET Monitor]

NamesIn == [staticGroups |-> Group, services |-> Service,
            rules |-> Rule, policies |-> Policy]
EntriesIn == [staticGroups |-> Content, services |-> Content,
              rules |-> Entry, policies |-> PolicyEntry]

(* An operation as callers send it, perhaps on a collection that is none.  *)
WellFormed(op) ==
  /\ op.op \in {"upsert", "remove", "set_policy_rules"}
  /\ op.op = "set_policy_rules" => op.collection = "policies"
  /\ op.collection \in Collection =>
       /\ op.name \in NamesIn[op.collection]
       /\ op.op # "remove" => op.entry \in EntriesIn[op.collection]

ASSUME MssAssumption ==
  /\ Any \notin Group \cup Service /\ Any \notin Rule
  /\ Absent \notin Content \cup Entry \cup PolicyEntry \cup Monitor
  /\ StartDoc \cup LeftBehind \subseteq Doc \cup {Malformed}
  /\ NoDoc \notin Doc \cup {Malformed}
  /\ \A ops \in Batch : /\ Len(ops) \in Nat /\ DOMAIN ops = 1..Len(ops)
                        /\ \A i \in DOMAIN ops : WellFormed(ops[i])
  /\ Disruptive \subseteq Batch
  /\ SilentLoss \in BOOLEAN
  /\ MaxOperations \in Nat /\ MaxPreviews \in Nat /\ MaxEdits \in Nat

VARIABLES
  wsState,     \* [Draft -> state, or "absent"]
  overlay,     \* [Draft -> document, or NoDoc]
  mainline,    \* the Inputs document with workspaceId ""
  touched,     \* history: drafts people changed, directly or under them
  edits        \* number of changes made by people

cvVars == <<wsState, overlay, mainline, touched, edits>>
vars == <<call, writes, issued, late, wsState, overlay, mainline, touched, edits>>

WsState == {"absent", "PENDING", "SUBMITTED"}
Inherits(w) == overlay[w] = NoDoc
DocOf(w) == IF Inherits(w) THEN mainline ELSE overlay[w]

----------------------------------------------------------------------------
(* Operations, checked before any HTTP *)

(* Names of an op are distinct; the wildcard stands alone or not at all.   *)
ValidNames(names) == names # {} /\ (Any \in names => names = {Any})
ValidPolicyRules(rules) ==
  /\ rules # <<>>
  /\ \A i, j \in DOMAIN rules : rules[i] = rules[j] => i = j
  /\ \A i \in DOMAIN rules : rules[i] # Any

ValidEntry(collection, entry) ==
  CASE collection = "rules" ->
         \A names \in {entry.sources, entry.destinations, entry.services} :
           ValidNames(names)
    [] collection = "policies" -> ValidPolicyRules(entry.policyRules)
    [] OTHER -> TRUE

(* Policies can neither be removed nor, see Apply, created.                *)
OperationError(op) ==
  CASE op.op = "set_policy_rules" ->
         IF ValidPolicyRules(op.entry.policyRules) THEN "none" ELSE "mss_operation_invalid"
    [] op.op # "set_policy_rules" /\ op.collection \notin Collection ->
         "mss_collection_not_allowed"
    [] op.op = "remove" /\ op.collection \in Collection ->
         IF op.collection = "policies" THEN "mss_operation_invalid" ELSE "none"
    [] op.op = "upsert" /\ op.collection \in Collection ->
         IF ValidEntry(op.collection, op.entry)
         THEN "none" ELSE "mss_operation_invalid"

NormalizeOperations(ops) ==
  LET bad == {i \in DOMAIN ops : OperationError(ops[i]) # "none"}
  IN IF ops = <<>> THEN "mss_operations_required"
     ELSE IF Len(ops) > MaxOperations THEN "mss_operations_too_many"
     ELSE IF bad = {} THEN "none"
     ELSE OperationError(ops[CHOOSE i \in bad : \A j \in bad : i <= j])

----------------------------------------------------------------------------
(* Applying them to a document *)

(* Keys an upsert does not name survive it.                                *)
Merged(collection, old, entry) ==
  IF collection = "rules" /\ old # Absent /\ entry.monitor = Absent
  THEN [entry EXCEPT !.monitor = old.monitor] ELSE entry

Put(st, op, entry) ==
  [st EXCEPT !.doc[op.collection][op.name] = entry,
             !.touched = @ \cup {<<op.collection, op.name>>}]

Step(st, op) ==
  LET old == st.doc[op.collection][op.name]
      error(code) == [st EXCEPT !.code = code]
  IN CASE st.code # "none" -> st
       [] st.code = "none" /\ op.op = "remove" ->
            IF old = Absent THEN error("mss_entry_not_found")
            ELSE [st EXCEPT !.doc[op.collection][op.name] = Absent]
       [] st.code = "none" /\ op.op = "set_policy_rules" ->
            IF old = Absent THEN error("mss_entry_not_found")
            ELSE Put(st, op, op.entry)
       [] st.code = "none" /\ op.op = "upsert" ->
            IF \/ op.collection = "rules"
                  /\ op.entry.monitor \notin st.doc.monitors \cup {Absent}
               \/ op.collection = "staticGroups" /\ op.name \in st.doc.accepted
            THEN error("mss_operation_invalid")
            ELSE IF op.collection = "policies" /\ old = Absent
            THEN error("mss_entry_not_found")
            ELSE Put(st, op, Merged(op.collection, old, op.entry))

(* The document after the operations, the entries they added or replaced,  *)
(* and the error of the first that cannot be applied.                      *)
Apply(document, ops) ==
  LET after[i \in 0..Len(ops)] ==
        IF i = 0 THEN [doc |-> document, touched |-> {}, code |-> "none"]
        ELSE Step(after[i - 1], ops[i])
  IN after[Len(ops)]

----------------------------------------------------------------------------
(* Checking the result *)

Present(entries) == {n \in DOMAIN entries : entries[n] # Absent}

GroupNames(doc) == Present(doc.staticGroups) \cup doc.accepted
RulesOf(doc, p) == doc.policies[p].policyRules

RuleResolved(doc, r) ==
  /\ doc.rules[r].sources \ {Any} \subseteq GroupNames(doc)
  /\ doc.rules[r].destinations \ {Any} \subseteq GroupNames(doc)
  /\ doc.rules[r].services \ {Any} \subseteq Present(doc.services)

Resolved(doc) ==
  /\ \A r \in Present(doc.rules) : RuleResolved(doc, r)
  /\ \A p \in Present(doc.policies) :
       {RulesOf(doc, p)[i] : i \in DOMAIN RulesOf(doc, p)} \subseteq Present(doc.rules)

DropsAll(rule) ==
  /\ rule.action = "drop"
  /\ Any \in rule.sources /\ Any \in rule.destinations /\ Any \in rule.services

CheckTouched(doc, wrote) ==
  IF \E r \in Present(doc.rules) :
       <<"rules", r>> \in wrote /\ ~RuleResolved(doc, r)
  THEN "mss_reference_unresolved" ELSE "none"

(* References are judged over the whole document, what a rule or policy    *)
(* says only if this call wrote it.                                        *)
CheckResult(doc, wrote) ==
  IF \E p \in Present(doc.policies) :
       RulesOf(doc, p) = <<>> /\ <<"policies", p>> \in wrote
  THEN "mss_operation_invalid"
  ELSE IF ~Resolved(doc) THEN "mss_reference_unresolved"
  ELSE IF \E r \in Present(doc.rules) :
            <<"rules", r>> \in wrote /\ DropsAll(doc.rules[r])
  THEN "mss_rule_too_broad" ELSE "none"

(* Nothing but the four collections may differ.                            *)
ScopeViolation(before, after) ==
  before.accepted # after.accepted \/ before.monitors # after.monitors

----------------------------------------------------------------------------
(* The calls *)

ArgRecord(expected, ops, after) ==
  [expected |-> expected, ops |-> ops, after |-> after]

Refuse(c, code) == Finish(c, code) /\ UNCHANGED issued

(* get_cvp_studio_inputs tells the digest of the draft's own row or of the *)
(* mainline's, a dry run those of the documents before and after it.       *)
KnownDigests ==
  ({mainline} \cup {overlay[w] : w \in Draft} \cup {t[3].expected : t \in issued}
     \cup {t[3].after : t \in issued}) \ {NoDoc}

InvokeUnvalidated(c, w, a, confirm, token) ==
  /\ call[c].pc = "idle"
  /\ IF ~writes[c] THEN Finish(c, "writes_disabled")
     ELSE IF ~ValidateWorkspaceId(w) THEN Finish(c, "invalid_workspace_id")
     ELSE Enter(c, "set_mss", w, a, confirm, token)
  /\ UNCHANGED <<writes, issued, late, cvVars>>

(* The checks before any HTTP, in the order of the code.                   *)
Invoke(c, w, a, confirm, token) ==
  /\ call[c].pc = "idle"
  /\ LET valid == writes[c] /\ ValidateWorkspaceId(w)
         error == NormalizeOperations(a.ops)
     IN \/ \E absent \in BOOLEAN : \E code \in DispatchRefusals(absent) :
             Finish(c, code)
        \/ ~writes[c] /\ Finish(c, "writes_disabled")
        \/ writes[c] /\ ~valid /\ Finish(c, "invalid_workspace_id")
        \/ valid /\ Finish(c, "expected_inputs_sha256_required")
        \/ valid /\ error # "none" /\ Finish(c, error)
        \/ valid /\ error = "none" /\ a.ops \in Disruptive
           /\ Finish(c, "disruptive_content_forbidden")
        \/ valid /\ error = "none" /\ a.ops \notin Disruptive
           /\ Enter(c, "set_mss", w, a, confirm, token)
  /\ UNCHANGED <<writes, issued, late, cvVars>>

(* GET the workspace, then the studio, in the draft or on the mainline.    *)
ReadWorkspace(c) ==
  /\ call[c].pc = "preflight"
  /\ LET w == call[c].ws
     IN \/ Refuse(c, "workspace_read_failed")
        \/ wsState[w] = "absent" /\ Refuse(c, "workspace_not_found")
        \/ wsState[w] = "SUBMITTED" /\ Refuse(c, "workspace_not_pending")
        \/ wsState[w] # "absent" /\ Refuse(c, "workspace_state_unknown")
        \/ \E code \in {"preflight_failed", "studio_from_package",
                        "studio_immutable"} :
             wsState[w] = "PENDING" /\ Refuse(c, code)
        \/ /\ wsState[w] = "PENDING"
           /\ call' = [call EXCEPT ![c].pc = "document"]
           /\ UNCHANGED issued
  /\ UNCHANGED <<writes, late, cvVars>>

(* _load_root_inputs on one stream of Inputs/all: the draft's row, or else *)
(* the mainline's; a stream with a warning is refused.                     *)
Loaded(w) ==
  {DocOf(w)} \cup (IF SilentLoss THEN {mainline} ELSE {})

ApplyWithoutDigest(c, doc) ==
  LET a == call[c].args  st == Apply(doc, a.ops)
  IN /\ doc # Malformed
     /\ st.code = "none" /\ CheckResult(st.doc, st.touched) = "none"
     /\ Gate(c, ArgRecord(a.expected, a.ops, st.doc), st.doc)

(* The digest is compared, the operations applied, the result checked.     *)
CompareAndApply(c, doc) ==
  LET a  == call[c].args
      st == Apply(doc, a.ops)
      error == IF st.code # "none" THEN st.code
               ELSE CheckResult(st.doc, st.touched)
  IN \/ doc = Malformed /\ Refuse(c, "mss_document_malformed")
     \/ doc # Malformed /\ doc # a.expected /\ Refuse(c, "inputs_digest_mismatch")
     \/ doc # Malformed /\ doc = a.expected
        /\ IF error # "none" THEN Refuse(c, error)
           ELSE IF ScopeViolation(doc, st.doc)
           THEN Refuse(c, "tree_diff_outside_mss_scope")
           ELSE Gate(c, ArgRecord(a.expected, a.ops, st.doc), st.doc)

ReadDocument(c) ==
  /\ call[c].pc = "document"
  /\ \/ \E code \in {"preflight_failed", "inputs_path_unresolved"} :
          Refuse(c, code)
     \/ \E doc \in Loaded(call[c].ws) : CompareAndApply(c, doc)
  /\ UNCHANGED <<writes, late, cvVars>>

----------------------------------------------------------------------------
(* CloudVision replaces the draft's document and compares nothing.         *)
Effect(q) ==
  /\ wsState[q.ws] # "absent"
  /\ overlay' = [overlay EXCEPT ![q.ws] = q.body]
  /\ UNCHANGED <<wsState, mainline, touched, edits>>

Applied(c) ==
  /\ call[c].pc = "await"
  /\ Effect(call[c])
  /\ \E code \in {"accepted", "resource_write_failed"} :
       call' = [CallsStaled(call, {call[c].ws}, {"await"})
                  EXCEPT ![c] = Idle(code)]
  /\ late' = LateStaled(late, {call[c].ws})
  /\ UNCHANGED <<writes, issued>>

Rejected(c) ==
  /\ call[c].pc = "await"
  /\ Finish(c, "resource_write_failed")
  /\ UNCHANGED <<writes, issued, late, cvVars>>

AppliedLate(q) ==
  /\ Effect(q)
  /\ call' = CallsStaled(call, {q.ws}, {"await"})
  /\ late' = LateStaled(late \ {q}, {q.ws})
  /\ UNCHANGED <<writes, issued>>

DroppedLate(q) ==
  /\ late' = late \ {q}
  /\ UNCHANGED <<call, writes, issued, cvVars>>

----------------------------------------------------------------------------
(* People in the UI.  They may leave any document behind, one with         *)
(* dangling references or with a rule that drops everything included.      *)
Touch(docs, states) ==
  /\ call' = CallsStaled(CallsStaled(call, docs, {"await"}),
                         states, {"document", "await"})
  /\ late' = LateStaled(late, docs \cup states)
  /\ touched' = touched \cup docs \cup states
  /\ UNCHANGED <<writes, issued>>

OperatorEdits(w, doc) ==
  /\ edits < MaxEdits /\ edits' = edits + 1
  /\ wsState[w] = "PENDING" /\ DocOf(w) # doc
  /\ overlay' = [overlay EXCEPT ![w] = doc]
  /\ Touch({w}, {})
  /\ UNCHANGED <<wsState, mainline>>

OperatorSubmits(w) ==
  /\ wsState[w] = "PENDING"
  /\ wsState' = [wsState EXCEPT ![w] = "SUBMITTED"]
  /\ mainline' = DocOf(w)
  /\ Touch(Draft, {w})
  /\ UNCHANGED <<overlay, edits>>

DraftDeleted(w) ==
  /\ wsState[w] = "PENDING"
  /\ wsState' = [wsState EXCEPT ![w] = "absent"]
  /\ overlay' = [overlay EXCEPT ![w] = NoDoc]
  /\ Touch({w}, {w})
  /\ UNCHANGED <<mainline, edits>>

DraftCreated(w) ==
  /\ edits < MaxEdits /\ edits' = edits + 1
  /\ wsState[w] = "absent"
  /\ wsState' = [wsState EXCEPT ![w] = "PENDING"]
  /\ UNCHANGED <<call, writes, issued, late, overlay, mainline, touched>>

----------------------------------------------------------------------------
Init ==
  /\ call = [c \in Client |-> Idle("none")]
  /\ writes \in [Client -> BOOLEAN]
  /\ issued = {}
  /\ late = {}
  /\ wsState \in [Draft -> {"absent", "PENDING"}]
  /\ overlay = [w \in Draft |-> NoDoc]
  /\ mainline \in StartDoc
  /\ touched = {}
  /\ edits = 0

InvokeAny(c) ==
  \E w \in Workspace, expected \in KnownDigests, ops \in Batch, confirm \in Confirm :
    /\ confirm = "yes" \/ Cardinality(issued) < MaxPreviews
    /\ \E token \in {NoToken} \cup (IF confirm = "yes" THEN issued ELSE {}) :
         Invoke(c, w, ArgRecord(expected, ops, Nil), confirm, token)

RestartAny(c) == Restart(c) /\ UNCHANGED cvVars
GiveUpAny(c) == GiveUp(c) /\ UNCHANGED cvVars

Next ==
  \/ \E c \in Client : InvokeAny(c)
  \/ \E c \in Client : ReadWorkspace(c)
  \/ \E c \in Client : ReadDocument(c)
  \/ \E c \in Client : Applied(c)
  \/ \E c \in Client : Rejected(c)
  \/ \E c \in Client : GiveUpAny(c)
  \/ \E c \in Client : RestartAny(c)
  \/ \E q \in late : AppliedLate(q)
  \/ \E q \in late : DroppedLate(q)
  \/ \E w \in Draft, doc \in LeftBehind : OperatorEdits(w, doc)
  \/ \E w \in Draft : OperatorSubmits(w)
  \/ \E w \in Draft : DraftDeleted(w)
  \/ \E w \in Draft : DraftCreated(w)

Spec == Init /\ [][Next]_vars

----------------------------------------------------------------------------
(* Properties *)

(* The values of the variables; batches that fail validation never get     *)
(* past the first checks, and every body on the wire is a whole document   *)
(* of the right shape.                                                     *)
TypeOK ==
  /\ \A c \in Client : call[c].pc # "idle" =>
       /\ call[c].pc \in {"preflight", "document", "await"}
       /\ call[c].ws \in Draft
       /\ call[c].args.expected \in Doc \cup {Malformed}
       /\ call[c].args.ops \in Batch \ Disruptive
       /\ NormalizeOperations(call[c].args.ops) = "none"
  /\ \A q \in Outstanding : q.body \in Doc
  /\ wsState \in [Draft -> WsState]
  /\ \A w \in Draft : overlay[w] \in Doc \cup {NoDoc, Malformed}
  /\ mainline \in Doc \cup {Malformed}
  /\ touched \subseteq Draft

(* What a batch says of one entry: nothing, or what its last operation on  *)
(* it says.                                                                *)
DoesAsSaid(before, ops, after, coll, n) ==
  LET about == {i \in DOMAIN ops : ops[i].collection = coll /\ ops[i].name = n}
      last  == ops[CHOOSE i \in about : \A j \in about : j <= i]
  IN IF about = {} THEN after[coll][n] = before[coll][n]
     ELSE IF last.op = "remove" THEN after[coll][n] = Absent
     ELSE IF coll = "rules" /\ last.entry.monitor = Absent
     THEN after[coll][n] = [last.entry EXCEPT !.monitor = after[coll][n].monitor]
     ELSE after[coll][n] = last.entry

(* A write nobody raced, whenever it arrives, finds the document whose     *)
(* digest its caller presented in a pending draft, and leaves one in which *)
(* each entry is what the batch says of it, and everything the batch does  *)
(* not name is what it was.                                                *)
UnracedWriteDoesAsSaid ==
  \A q \in Outstanding : ~q.stale =>
    /\ wsState[q.ws] = "PENDING"
    /\ DocOf(q.ws) = q.args.expected
    /\ \A coll \in Collection : \A n \in DOMAIN q.body[coll] :
         DoesAsSaid(DocOf(q.ws), q.args.ops, q.body, coll, n)

(* Whatever the order in which calls overwrite each other, the document of *)
(* a draft people left alone is whole: each name it uses is defined, no    *)
(* rule drops everything unless the mainline has that very rule, policies  *)
(* are the mainline's and none of them lost its last rule, and what is not *)
(* the tool's to write is as it was.                                       *)
Whole(doc) ==
  /\ Resolved(doc)
  /\ \A r \in Present(doc.rules) :
       DropsAll(doc.rules[r]) => doc.rules[r] = mainline.rules[r]
  /\ Present(doc.policies) = Present(mainline.policies)
  /\ \A p \in Present(doc.policies) :
       RulesOf(doc, p) = <<>> => RulesOf(mainline, p) = <<>>
  /\ ~ScopeViolation(mainline, doc)
DraftDocumentsAreWhole ==
  \A w \in Draft \ touched : ~Inherits(w) => Whole(overlay[w])

(* That document is, as a whole, one some dry run for this draft computed: *)
(* a race decides which one stays, and never mixes two.                    *)
DraftIsAPreviewedDocument ==
  \A w \in Draft \ touched : ~Inherits(w) =>
    \E t \in issued : t[2] = w /\ t[3].after = overlay[w]

(* Raced or not, a write is the previewed batch applied to the document    *)
(* with the digest its caller presented, which the draft had at one        *)
(* moment: what a race loses is what came between.                         *)
MayWrite(p, doc) == doc = p[3].expected
Written(p, doc) == Apply(doc, p[3].ops).doc
Held(q) == [write |-> PreviewToken(q.tool, q.ws, q.args),
            before |-> q.args.expected]
Promise == INSTANCE SnapshotWrites WITH
             Document <- StartDoc \cup LeftBehind, Expects <- MayWrite,
             Result <- Written, previewed <- issued,
             held <- {Held(q) : q \in Outstanding}
KeepsPromise == Promise!Spec

=============================================================================
