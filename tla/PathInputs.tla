----------------------------- MODULE PathInputs -----------------------------
(***************************************************************************)
(* set_cvp_studio_inputs: the write of one row of a studio's Inputs, at a  *)
(* path that is not the root.  The caller sends the whole new document of  *)
(* the row; it is compared with the present one leaf by leaf, and every    *)
(* leaf that differs must be one the caller named.                         *)
(*                                                                         *)
(* A document is a tree, written as the function from the paths of its     *)
(* leaves to their values; a list is a container if it has the length of   *)
(* the one it is compared with, and a leaf otherwise.                      *)
(*                                                                         *)
(* There is no expected value: the token covers the new document only.     *)
(***************************************************************************)
EXTENDS WriteCall, Sequences

CONSTANTS
  Path,          \* rows of the studio: values of "path", the root left out
  Key,           \* names in the documents
  ForbiddenKey,  \* those in which a forbidden token occurs ("mode", "vlan"...)
  Document,      \* documents callers send and people write
  AllowedKeys,   \* values of allowed_input_keys callers send
  WordsIn(_),    \* disruptive words the lint finds in a value
  NoDoc,         \* no row at this path
  SilentLoss,    \* may a stream lose its rows without a warning?
  MaxPreviews,   \* bound: dry runs that were answered
  MaxEdits       \* bound: changes made by people in the UI

Under(p, l) == Len(p) <= Len(l) /\ SubSeq(l, 1, Len(p)) = p

(* Nothing lies below a leaf.                                              *)
ASSUME PathInputsAssumption ==
  /\ ForbiddenKey \subseteq Key
  /\ \A d \in Document : \A l \in DOMAIN d :
       /\ l \in Seq(Key) /\ l # <<>>
       /\ \A k \in DOMAIN d : Under(l, k) => k = l
  /\ AllowedKeys \subseteq SUBSET Key
  /\ NoDoc \notin Document
  /\ SilentLoss \in BOOLEAN
  /\ MaxPreviews \in Nat /\ MaxEdits \in Nat

VARIABLES
  wsState,     \* [Draft -> state, or "absent"]
  overlay,     \* [Draft -> [Path -> Document \cup {NoDoc}]]
  mainline,    \* [Path -> Document \cup {NoDoc}]
  touched,     \* history: drafts people changed, directly or under them
  edits        \* number of changes made by people

cvVars == <<wsState, overlay, mainline, touched, edits>>
vars == <<call, writes, issued, late, wsState, overlay, mainline, touched, edits>>

WsState == {"absent", "PENDING", "SUBMITTED"}
Rows == [Path -> Document \cup {NoDoc}]

HasRows(rows) == \E p \in Path : rows[p] # NoDoc
RowsOf(w) == IF HasRows(overlay[w]) THEN overlay[w] ELSE mainline

----------------------------------------------------------------------------
(* Comparing two trees *)

Above(l) == {SubSeq(l, 1, i) : i \in 1..Len(l)}
Nodes(doc) == UNION {Above(l) : l \in DOMAIN doc}

Subtree(doc, p) ==
  [l \in {k \in DOMAIN doc : Under(p, k)} |-> doc[l]]
IsContainer(doc, p) ==
  \E l \in DOMAIN doc : Under(p, l) /\ Len(l) > Len(p)

(* Leaves that are in both and differ.                                     *)
ChangedLeavesOfBoth(before, after) ==
  {l \in DOMAIN before \cap DOMAIN after : before[l] # after[l]}

(* _changed_leaf_paths walks down as long as both sides are containers: of *)
(* a container that stands against a leaf, or against nothing, it reports  *)
(* the path of the container and none of the leaves in it.                 *)
ChangedLeafPaths(before, after) ==
  {p \in Nodes(before) \cup Nodes(after) :
     /\ Subtree(before, p) # Subtree(after, p)
     /\ ~(IsContainer(before, p) /\ IsContainer(after, p))
     /\ \A q \in Above(p) \ {p} : IsContainer(before, q) /\ IsContainer(after, q)}

LastKey(p) == p[Len(p)]

(* The last name must be allowed; a forbidden one may be nowhere.          *)
LeafViolationsOfLastKey(changed, allowed) ==
  {p \in changed : LastKey(p) \notin allowed \/ LastKey(p) \in ForbiddenKey}
LeafViolations(changed, allowed) ==
  {p \in changed : \/ LastKey(p) \notin allowed
                   \/ \E i \in DOMAIN p : p[i] \in ForbiddenKey}

(* The lint of the whole document names the words it found, not where.     *)
DisruptiveHits(doc) == UNION {WordsIn(doc[l]) : l \in DOMAIN doc}
NothingIntroduced(before, after) == {}
Introduced(before, after) == DisruptiveHits(after) \ DisruptiveHits(before)

----------------------------------------------------------------------------
(* The calls *)

ArgRecord(path, inputs, allowed) ==
  [path |-> path, inputs |-> inputs, allowed |-> allowed]

Refuse(c, code) == Finish(c, code) /\ UNCHANGED issued
GoOn(c, pc) == call' = [call EXCEPT ![c].pc = pc] /\ UNCHANGED issued

(* Allowed keys may be left out, and are "description" then; a set that is *)
(* given must have a key, and none that is forbidden.                      *)
ResolveAllowedKeys(allowed) == allowed # {} /\ allowed \cap ForbiddenKey = {}

InvokeWithAnyKeys(c, w, a, confirm, token) ==
  /\ call[c].pc = "idle"
  /\ IF ~writes[c] THEN Finish(c, "writes_disabled")
     ELSE IF ~ValidateWorkspaceId(w) THEN Finish(c, "invalid_workspace_id")
     ELSE Enter(c, "set_inputs", w, a, confirm, token)
  /\ UNCHANGED <<writes, issued, late, cvVars>>

(* The checks before any HTTP, in the order of the code.                   *)
Invoke(c, w, a, confirm, token) ==
  /\ call[c].pc = "idle"
  /\ LET valid == writes[c] /\ ValidateWorkspaceId(w)
         keys  == ResolveAllowedKeys(a.allowed)
     IN \/ \E absent \in BOOLEAN : \E code \in DispatchRefusals(absent) :
             Finish(c, code)
        \/ ~writes[c] /\ Finish(c, "writes_disabled")
        \/ writes[c] /\ Finish(c, "studio_not_found")
        \/ writes[c] /\ ~valid /\ Finish(c, "invalid_workspace_id")
        \/ valid /\ \E code \in {"root_path_forbidden", "inputs_path_unresolved"} :
             Finish(c, code)
        \/ valid /\ ~keys /\ Finish(c, "input_key_not_allowed")
        \/ valid /\ keys /\ Enter(c, "set_inputs", w, a, confirm, token)
  /\ UNCHANGED <<writes, issued, late, cvVars>>

(* GET the workspace, then the studio, in the draft or on the mainline.    *)
ReadWorkspace(c) ==
  /\ call[c].pc = "preflight"
  /\ LET w == call[c].ws
     IN \/ Refuse(c, "workspace_read_failed")
        \/ wsState[w] = "absent" /\ Refuse(c, "workspace_not_found")
        \/ wsState[w] = "SUBMITTED" /\ Refuse(c, "workspace_not_pending")
        \/ wsState[w] # "absent" /\ Refuse(c, "workspace_state_unknown")
        \/ \E code \in {"preflight_failed", "studio_from_package",
                        "studio_immutable"} :
             wsState[w] = "PENDING" /\ Refuse(c, code)
        \/ wsState[w] = "PENDING" /\ GoOn(c, "draft")
  /\ UNCHANGED <<writes, late, cvVars>>

(* The new document against the present one, then dry run or POST.         *)
Compare(c, doc) ==
  LET a == call[c].args
      changed == ChangedLeafPaths(doc, a.inputs)
  IN IF LeafViolations(changed, a.allowed) # {}
     THEN Refuse(c, "input_key_not_allowed")
     ELSE IF Introduced(doc, a.inputs) # {}
     THEN Refuse(c, "disruptive_content_forbidden")
     ELSE Gate(c, a, a.inputs)

(* Among the rows a GET delivered, the one at the path, or several, or one *)
(* that is no document.                                                    *)
SelectRow(c, rows) ==
  LET p == call[c].args.path
  IN \/ Refuse(c, "inputs_path_not_found")
     \/ rows[p] # NoDoc /\ Refuse(c, "inputs_path_unresolved")
     \/ rows[p] # NoDoc /\ Compare(c, rows[p])

NoRows == [p \in Path |-> NoDoc]
RowsRead(rows) == {rows} \cup (IF SilentLoss THEN {NoRows} ELSE {})

(* One GET of Inputs/all for the rows of the draft, and only if it has     *)
(* none at all a second one for those of the mainline.  Any warning fails  *)
(* closed.                                                                 *)
ReadDraftRows(c) ==
  /\ call[c].pc = "draft"
  /\ \/ Refuse(c, "preflight_failed")
     \/ \E rows \in RowsRead(overlay[call[c].ws]) :
          IF HasRows(rows) THEN SelectRow(c, rows) ELSE GoOn(c, "mainline")
  /\ UNCHANGED <<writes, late, cvVars>>

ReadMainlineRows(c) ==
  /\ call[c].pc = "mainline"
  /\ \/ Refuse(c, "preflight_failed")
     \/ \E rows \in RowsRead(mainline) :
          IF HasRows(rows) THEN SelectRow(c, rows)
                           ELSE Refuse(c, "inputs_path_not_found")
  /\ UNCHANGED <<writes, late, cvVars>>

----------------------------------------------------------------------------
(* The first write copies the mainline's rows into the draft; any write    *)
(* replaces the row at its path, whatever it was.                          *)
RowsAfter(q) == [RowsOf(q.ws) EXCEPT ![q.args.path] = q.body]

Effect(q) ==
  /\ wsState[q.ws] # "absent"
  /\ overlay' = [overlay EXCEPT ![q.ws] = RowsAfter(q)]
  /\ UNCHANGED <<wsState, mainline, touched, edits>>

RowsWereRead == {"mainline", "await"}

Applied(c) ==
  /\ call[c].pc = "await"
  /\ Effect(call[c])
  /\ \E code \in {"accepted", "resource_write_failed"} :
       call' = [CallsStaled(call, {call[c].ws}, RowsWereRead)
                  EXCEPT ![c] = Idle(code)]
  /\ late' = LateStaled(late, {call[c].ws})
  /\ UNCHANGED <<writes, issued>>

Rejected(c) ==
  /\ call[c].pc = "await"
  /\ Finish(c, "resource_write_failed")
  /\ UNCHANGED <<writes, issued, late, cvVars>>

AppliedLate(q) ==
  /\ Effect(q)
  /\ call' = CallsStaled(call, {q.ws}, RowsWereRead)
  /\ late' = LateStaled(late \ {q}, {q.ws})
  /\ UNCHANGED <<writes, issued>>

DroppedLate(q) ==
  /\ late' = late \ {q}
  /\ UNCHANGED <<call, writes, issued, cvVars>>

----------------------------------------------------------------------------
(* People in the UI *)

Touch(ws, pcs) ==
  /\ call' = CallsStaled(call, ws, pcs)
  /\ late' = LateStaled(late, ws)
  /\ touched' = touched \cup ws
  /\ UNCHANGED <<writes, issued>>

OperatorEdits(w, p, doc) ==
  /\ edits < MaxEdits /\ edits' = edits + 1
  /\ wsState[w] = "PENDING" /\ RowsOf(w)[p] # doc
  /\ overlay' = [overlay EXCEPT ![w] = [RowsOf(w) EXCEPT ![p] = doc]]
  /\ Touch({w}, RowsWereRead)
  /\ UNCHANGED <<wsState, mainline>>

OperatorSubmits(w) ==
  /\ wsState[w] = "PENDING"
  /\ wsState' = [wsState EXCEPT ![w] = "SUBMITTED"]
  /\ mainline' = RowsOf(w)
  /\ call' = CallsStaled(CallsStaled(call, Draft, {"await"}), {w},
                         {"draft", "mainline", "await"})
  /\ late' = LateStaled(late, Draft)
  /\ touched' = Draft
  /\ UNCHANGED <<writes, issued, overlay, edits>>

DraftDeleted(w) ==
  /\ wsState[w] = "PENDING"
  /\ wsState' = [wsState EXCEPT ![w] = "absent"]
  /\ overlay' = [overlay EXCEPT ![w] = NoRows]
  /\ Touch({w}, {"draft", "mainline", "await"})
  /\ UNCHANGED <<mainline, edits>>

DraftCreated(w) ==
  /\ edits < MaxEdits /\ edits' = edits + 1
  /\ wsState[w] = "absent"
  /\ wsState' = [wsState EXCEPT ![w] = "PENDING"]
  /\ UNCHANGED <<call, writes, issued, late, overlay, mainline, touched>>

----------------------------------------------------------------------------
Init ==
  /\ call = [c \in Client |-> Idle("none")]
  /\ writes \in [Client -> BOOLEAN]
  /\ issued = {}
  /\ late = {}
  /\ wsState \in [Draft -> {"absent", "PENDING"}]
  /\ overlay = [w \in Draft |-> NoRows]
  /\ mainline \in Rows
  /\ touched = {}
  /\ edits = 0

InvokeAny(c) ==
  \E w \in Workspace, p \in Path, doc \in Document, allowed \in AllowedKeys :
    \E confirm \in Confirm :
      /\ confirm = "yes" \/ Cardinality(issued) < MaxPreviews
      /\ \E token \in {NoToken} \cup (IF confirm = "yes" THEN issued ELSE {}) :
           Invoke(c, w, ArgRecord(p, doc, allowed), confirm, token)

RestartAny(c) == Restart(c) /\ UNCHANGED cvVars
GiveUpAny(c) == GiveUp(c) /\ UNCHANGED cvVars

Next ==
  \/ \E c \in Client : InvokeAny(c)
  \/ \E c \in Client : ReadWorkspace(c)
  \/ \E c \in Client : ReadDraftRows(c)
  \/ \E c \in Client : ReadMainlineRows(c)
  \/ \E c \in Client : Applied(c)
  \/ \E c \in Client : Rejected(c)
  \/ \E c \in Client : GiveUpAny(c)
  \/ \E c \in Client : RestartAny(c)
  \/ \E q \in late : AppliedLate(q)
  \/ \E q \in late : DroppedLate(q)
  \/ \E w \in Draft, p \in Path, doc \in Document : OperatorEdits(w, p, doc)
  \/ \E w \in Draft : OperatorSubmits(w)
  \/ \E w \in Draft : DraftDeleted(w)
  \/ \E w \in Draft : DraftCreated(w)

Spec == Init /\ [][Next]_vars

----------------------------------------------------------------------------
(* Properties *)

Args == [path : Path, inputs : Document, allowed : AllowedKeys]

(* The values of the variables; a call past its first checks allows at     *)
(* least one key and none that is forbidden.                               *)
TypeOK ==
  /\ \A c \in Client : call[c].pc # "idle" =>
       /\ call[c].pc \in {"preflight", "draft", "mainline", "await"}
       /\ call[c].ws \in Draft
       /\ call[c].args \in Args
       /\ call[c].args.allowed # {}
       /\ call[c].args.allowed \cap ForbiddenKey = {}
  /\ \A q \in Outstanding : q.body = q.args.inputs
  /\ wsState \in [Draft -> WsState]
  /\ overlay \in [Draft -> Rows]
  /\ mainline \in Rows
  /\ touched \subseteq Draft

DifferingLeaves(before, after) ==
  {l \in DOMAIN before \cup DOMAIN after :
     \/ l \notin DOMAIN before \/ l \notin DOMAIN after
     \/ before[l] # after[l]}

Named(l, allowed) ==
  \E p \in Above(l) : LastKey(p) \in allowed
                      /\ \A i \in DOMAIN p : p[i] \notin ForbiddenKey

(* A write nobody raced finds a row at its path in a pending draft, and    *)
(* differs from it only at or below names its caller allowed, with no      *)
(* forbidden name on the way there, although the row was looked for with   *)
(* two GETs.                                                               *)
UnracedWriteChangesOnlyNamed ==
  \A q \in Outstanding : ~q.stale =>
    LET row == RowsOf(q.ws)[q.args.path]
    IN /\ wsState[q.ws] = "PENDING"
       /\ row # NoDoc
       /\ \A l \in DifferingLeaves(row, q.body) : Named(l, q.args.allowed)

(* A leaf with a forbidden name on its path, unless it lies below a name   *)
(* some caller allows: a container there may be replaced as if it were a   *)
(* leaf, see ChangedLeafPaths.                                             *)
Protected(l) ==
  /\ \E i \in DOMAIN l : l[i] \in ForbiddenKey
  /\ \A p \in Above(l) \ {l} : \A allowed \in AllowedKeys : ~Named(p, allowed)

(* Admin and forwarding state in a draft people left alone is what it is   *)
(* on the mainline, though calls may overwrite each other.                 *)
ForbiddenLeavesStay ==
  \A w \in Draft \ touched, p \in Path :
    overlay[w][p] # NoDoc =>
      \A l \in DifferingLeaves(mainline[p], overlay[w][p]) : ~Protected(l)

(* The lint compares with what it finds in the present document, so a word *)
(* may move; but no kind of word is in such a draft that the same row of   *)
(* the mainline does not have.                                             *)
WordsAreOfTheMainline ==
  \A w \in Draft \ touched, p \in Path :
    overlay[w][p] # NoDoc =>
      DisruptiveHits(overlay[w][p]) \subseteq DisruptiveHits(mainline[p])

(* A row of such a draft is the mainline's, or was shown whole by a dry    *)
(* run for this draft and this path.                                       *)
RowsWerePreviewed ==
  \A w \in Draft \ touched, p \in Path :
    overlay[w][p] \notin {NoDoc, mainline[p]} =>
      \E allowed \in AllowedKeys :
        PreviewToken("set_inputs", w, ArgRecord(p, overlay[w][p], allowed))
          \in issued

=============================================================================
