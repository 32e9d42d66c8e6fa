------------------------ MODULE AccessInterfaceTools ------------------------
(***************************************************************************)
(* The three compare-and-set tools of the access interface studio          *)
(* (set_cvp_access_interface_description, _port_profile, _trunk_vlans).    *)
(*                                                                         *)
(* The studio has one Inputs document per workspace: the draft's own, its  *)
(* overlay, once something was written to it, and the mainline's until     *)
(* then.  A tool reads the document, compares one leaf with what its       *)
(* caller expects there, and posts the whole tree back with that leaf      *)
(* replaced.  CloudVision replaces the draft's document by the posted one  *)
(* and compares nothing.                                                   *)
(***************************************************************************)
EXTENDS WriteCall

CONSTANTS
  Leaf,           \* leaves of adapterDetails in the tree: a port and a name
  VlanList,       \* those that are the trunk VLAN list of a port
  ProfileOf,      \* [VlanList -> Leaf]: the profile leaf of the same port
  Value,          \* strings a leaf may hold, but for the blank ones
  Blank,          \* no such key, null, or a string that is empty or white space
  ValidList,      \* values in the syntax of a VLAN list, ids from 1 to 4094
  PortMode,       \* [VlanList -> mode, or Blank]: what the port itself says
  PortProfiles,   \* the profiles of the tree in its order: name, mode, parent
  ProfileLists,   \* the lists of profiles a tree may have
  NoDoc,          \* the draft has no document of its own
  SilentLoss,     \* may the stream lose rows without a warning?
  MaxEdits        \* bound: changes made by people in the UI

ASSUME AccessInterfaceAssumption ==
  /\ VlanList \subseteq Leaf
  /\ ProfileOf \in [VlanList -> Leaf]
  /\ Blank \notin Value
  /\ ValidList \subseteq Value
  /\ PortMode \in [VlanList -> {"trunk", "access", Blank}]
  /\ PortProfiles \in ProfileLists
  /\ \A profiles \in ProfileLists :
       /\ IsFiniteSet(DOMAIN profiles)
       /\ DOMAIN profiles = 1..Cardinality(DOMAIN profiles)
       /\ \A i \in DOMAIN profiles : profiles[i].name # Blank
  /\ NoDoc \notin [Leaf -> Value \cup {Blank}]
  /\ SilentLoss \in BOOLEAN
  /\ MaxEdits \in Nat

VARIABLES
  wsState,     \* [Draft -> state, or "absent"]
  overlay,     \* [Draft -> Doc \cup {NoDoc}]
  mainline,    \* the Inputs document with workspaceId ""
  touched,     \* history: drafts people changed, directly or under them
  edits        \* number of changes made by people

cvVars == <<wsState, overlay, mainline, touched, edits>>
vars == <<call, writes, issued, late, wsState, overlay, mainline, touched, edits>>

Content == Value \cup {Blank}
Doc == [Leaf -> Content]
WsState == {"absent", "PENDING", "SUBMITTED"}
Args == [leaf : Leaf, expected : Content, new : Content]

Inherits(w) == overlay[w] = NoDoc
DocOf(w) == IF Inherits(w) THEN mainline ELSE overlay[w]

----------------------------------------------------------------------------
(* What a call sees and decides *)

(* Of several profiles with one name the first counts.                     *)
NamesOf(profiles) == {profiles[i].name : i \in DOMAIN profiles}
ProfileIndex(profiles, name) ==
  LET defs == {i \in DOMAIN profiles : profiles[i].name = name}
  IN profiles[CHOOSE i \in defs : \A j \in defs : i <= j]

OwnModeOrProfile(profiles, mode, profile) ==
  IF mode # Blank \/ profile \notin NamesOf(profiles) THEN mode
  ELSE ProfileIndex(profiles, profile).mode

(* A mode that is unset is looked for in the profile, then in its parent   *)
(* and so on; a chain that ends or loops has none.                         *)
EffectiveMode(profiles, mode, profile) ==
  LET names == NamesOf(profiles)
      walk[at \in (SUBSET names) \X names] ==
        LET seen == at[1] \cup {at[2]}  def == ProfileIndex(profiles, at[2])
        IN IF def.mode # Blank THEN def.mode
           ELSE IF def.parent \in names \ seen
           THEN walk[<<seen, def.parent>>] ELSE Blank
  IN IF mode # Blank THEN mode
     ELSE IF profile \in names THEN walk[<<{}, profile>>] ELSE Blank

IsTrunk(doc, l) ==
  EffectiveMode(PortProfiles, PortMode[l], doc[ProfileOf[l]]) = "trunk"

(* The description, the profile and the VLAN list are refused alike when   *)
(* the value posted is not the only difference between the two trees.      *)
Patched(doc, a) == [doc EXCEPT ![a.leaf] = a.new]
ChangedLeaves(before, after) == {l \in Leaf : before[l] # after[l]}

(* Inputs/all as the helper delivers it.  Rows are lost when the stream is *)
(* cut or has lines that do not parse, and a warning tells; a row that is  *)
(* lost may be the draft's own.  A line that parses but carries no result, *)
(* as an error object does, is skipped with no warning.                    *)
Stream(doc, warned) == [doc |-> doc, warned |-> warned]
Streams(w) ==
  {Stream(DocOf(w), FALSE), Stream(DocOf(w), TRUE), Stream(mainline, TRUE)}
  \cup (IF SilentLoss THEN {Stream(mainline, FALSE)} ELSE {})

Refuse(c, code) == Finish(c, code) /\ UNCHANGED issued

(* Expected and new value are required, and a blank one counts as missing. *)
Absent(a) == Blank \in {a.expected, a.new}

InvokeWithoutListCheck(c, w, a, confirm, token) ==
  /\ call[c].pc = "idle"
  /\ IF Absent(a) THEN Finish(c, "action_args_invalid")
     ELSE IF ~writes[c] THEN Finish(c, "writes_disabled")
     ELSE IF ~ValidateWorkspaceId(w) THEN Finish(c, "invalid_workspace_id")
     ELSE Enter(c, "set_leaf", w, a, confirm, token)
  /\ UNCHANGED <<writes, issued, late, cvVars>>

(* The checks before any HTTP.  After the dispatcher's, the VLAN list is   *)
(* the first thing a tool looks at.                                        *)
Invoke(c, w, a, confirm, token) ==
  /\ call[c].pc = "idle"
  /\ LET badList == a.leaf \in VlanList /\ a.new \notin ValidList
         valid   == ValidateWorkspaceId(w)
     IN \/ \E code \in DispatchRefusals(Absent(a)) : Finish(c, code)
        \/ ~Absent(a) /\ badList /\ Finish(c, "invalid_vlan_list")
        \/ ~Absent(a) /\ ~badList /\ ~writes[c] /\ Finish(c, "writes_disabled")
        \/ ~Absent(a) /\ ~badList /\ writes[c] /\ ~valid
           /\ Finish(c, "invalid_workspace_id")
        \/ ~Absent(a) /\ ~badList /\ writes[c] /\ valid
           /\ Enter(c, "set_leaf", w, a, confirm, token)
  /\ UNCHANGED <<writes, issued, late, cvVars>>

(* GET the workspace, then the studio; the new value is linted.  A state   *)
(* that is missing in the answer is refused like one that is not PENDING.  *)
ReadWorkspace(c) ==
  /\ call[c].pc = "preflight"
  /\ LET w == call[c].ws
     IN \/ Refuse(c, "workspace_read_failed")
        \/ wsState[w] = "absent" /\ Refuse(c, "workspace_not_found")
        \/ wsState[w] = "SUBMITTED" /\ Refuse(c, "workspace_not_pending")
        \/ \E code \in {"workspace_not_pending", "preflight_failed",
                        "studio_from_package", "studio_immutable",
                        "disruptive_content_forbidden"} :
             wsState[w] = "PENDING" /\ Refuse(c, code)
        \/ /\ wsState[w] = "PENDING"
           /\ call' = [call EXCEPT ![c].pc = "document"]
           /\ UNCHANGED issued
  /\ UNCHANGED <<writes, late, cvVars>>

(* _load_root_inputs: the draft's row, or else the mainline's; a stream    *)
(* with a warning is refused.                                              *)
LoadIgnoringWarnings(s) == TRUE
LoadAccepts(s) == ~s.warned

(* The whole new tree is linted once more, as JSON: an escaped newline may *)
(* spell a word there.                                                     *)
CompareAndPatch(c, doc) ==
  LET a       == call[c].args
      patched == Patched(doc, a)
      trunk   == a.leaf \in VlanList => IsTrunk(doc, a.leaf)
      matches == doc[a.leaf] = a.expected
      exact   == ChangedLeaves(doc, patched) = {a.leaf}
  IN \/ ~trunk /\ Refuse(c, "not_a_trunk_port")
     \/ trunk /\ ~matches /\ Refuse(c, "current_mismatch")
     \/ trunk /\ matches /\ ~exact /\ Refuse(c, "tree_diff")
     \/ trunk /\ matches /\ exact /\ Refuse(c, "disruptive_content_forbidden")
     \/ trunk /\ matches /\ exact /\ Gate(c, a, patched)

(* GET the document, find the row of the port in it, compare and patch.    *)
(* The row may be absent, doubled, without the object to patch, or hold    *)
(* something other than a string.                                          *)
ReadDocument(c) ==
  /\ call[c].pc = "document"
  /\ \/ \E code \in {"preflight_failed", "inputs_path_unresolved",
                     "inputs_path_not_found", "current_mismatch"} :
          Refuse(c, code)
     \/ \E s \in Streams(call[c].ws) :
          LoadAccepts(s) /\ CompareAndPatch(c, s.doc)
  /\ UNCHANGED <<writes, late, cvVars>>

----------------------------------------------------------------------------
(* CloudVision replaces the draft's document, whatever it was: nothing of  *)
(* the read is sent along for it to compare with.                          *)
Effect(q) ==
  /\ wsState[q.ws] # "absent"
  /\ overlay' = [overlay EXCEPT ![q.ws] = q.body]
  /\ UNCHANGED <<wsState, mainline, touched, edits>>

Applied(c) ==
  /\ call[c].pc = "await"
  /\ Effect(call[c])
  /\ \E code \in {"accepted", "resource_write_failed"} :
       call' = [CallsStaled(call, {call[c].ws}, {"await"})
                  EXCEPT ![c] = Idle(code)]
  /\ late' = LateStaled(late, {call[c].ws})
  /\ UNCHANGED <<writes, issued>>

Rejected(c) ==
  /\ call[c].pc = "await"
  /\ Finish(c, "resource_write_failed")
  /\ UNCHANGED <<writes, issued, late, cvVars>>

AppliedLate(q) ==
  /\ Effect(q)
  /\ call' = CallsStaled(call, {q.ws}, {"await"})
  /\ late' = LateStaled(late \ {q}, {q.ws})
  /\ UNCHANGED <<writes, issued>>

DroppedLate(q) ==
  /\ late' = late \ {q}
  /\ UNCHANGED <<call, writes, issued, cvVars>>

----------------------------------------------------------------------------
(* People in the UI, and the other tools.  docs: drafts whose document     *)
(* they change; states: drafts whose state they change.                    *)
Touch(docs, states) ==
  /\ call' = CallsStaled(CallsStaled(call, docs, {"await"}),
                         states, {"document", "await"})
  /\ late' = LateStaled(late, docs \cup states)
  /\ touched' = touched \cup docs \cup states
  /\ UNCHANGED <<writes, issued>>

OperatorEdits(w, l, v) ==
  /\ edits < MaxEdits /\ edits' = edits + 1
  /\ wsState[w] = "PENDING"
  /\ DocOf(w)[l] # v
  /\ overlay' = [overlay EXCEPT ![w] = [DocOf(w) EXCEPT ![l] = v]]
  /\ Touch({w}, {})
  /\ UNCHANGED <<wsState, mainline>>

(* Another workspace is submitted: the mainline moves under every draft,   *)
(* under one with an overlay too, which then differs from it.              *)
MainlineMoves(l, v) ==
  /\ edits < MaxEdits /\ edits' = edits + 1
  /\ mainline[l] # v
  /\ mainline' = [mainline EXCEPT ![l] = v]
  /\ Touch(Draft, {})
  /\ UNCHANGED <<wsState, overlay>>

OperatorSubmits(w) ==
  /\ wsState[w] = "PENDING"
  /\ wsState' = [wsState EXCEPT ![w] = "SUBMITTED"]
  /\ mainline' = DocOf(w)
  /\ Touch(Draft, {w})
  /\ UNCHANGED <<overlay, edits>>

DraftDeleted(w) ==
  /\ wsState[w] = "PENDING"
  /\ wsState' = [wsState EXCEPT ![w] = "absent"]
  /\ overlay' = [overlay EXCEPT ![w] = NoDoc]
  /\ Touch({w}, {w})
  /\ UNCHANGED <<mainline, edits>>

DraftCreated(w) ==
  /\ edits < MaxEdits /\ edits' = edits + 1
  /\ wsState[w] = "absent"
  /\ wsState' = [wsState EXCEPT ![w] = "PENDING"]
  /\ UNCHANGED <<call, writes, issued, late, overlay, mainline, touched>>

----------------------------------------------------------------------------
Init ==
  /\ call = [c \in Client |-> Idle("none")]
  /\ writes \in [Client -> BOOLEAN]
  /\ issued = {}
  /\ late = {}
  /\ wsState \in [Draft -> {"absent", "PENDING"}]
  /\ overlay = [w \in Draft |-> NoDoc]
  /\ mainline \in Doc
  /\ touched = {}
  /\ edits = 0

InvokeAny(c) ==
  \E w \in Workspace, a \in Args, confirm \in Confirm :
    \E token \in {NoToken} \cup (IF confirm = "yes" THEN issued ELSE {}) :
      Invoke(c, w, a, confirm, token)

RestartAny(c) == Restart(c) /\ UNCHANGED cvVars
GiveUpAny(c) == GiveUp(c) /\ UNCHANGED cvVars

Next ==
  \/ \E c \in Client : InvokeAny(c)
  \/ \E c \in Client : ReadWorkspace(c)
  \/ \E c \in Client : ReadDocument(c)
  \/ \E c \in Client : Applied(c)
  \/ \E c \in Client : Rejected(c)
  \/ \E c \in Client : GiveUpAny(c)
  \/ \E c \in Client : RestartAny(c)
  \/ \E q \in late : AppliedLate(q)
  \/ \E q \in late : DroppedLate(q)
  \/ \E w \in Draft, l \in Leaf, v \in Value : OperatorEdits(w, l, v)
  \/ \E l \in Leaf, v \in Value : MainlineMoves(l, v)
  \/ \E w \in Draft : OperatorSubmits(w)
  \/ \E w \in Draft : DraftDeleted(w)
  \/ \E w \in Draft : DraftCreated(w)

Spec == Init /\ [][Next]_vars

----------------------------------------------------------------------------
(* Properties *)

Codes ==
  {"none", "preview", "accepted", "writes_disabled", "invalid_workspace_id",
   "action_args_invalid", "tool_disabled", "invalid_vlan_list", "inputs_path_unresolved", "inputs_path_not_found",
   "preflight_failed", "studio_from_package", "studio_immutable",
   "disruptive_content_forbidden", "workspace_read_failed",
   "workspace_not_found", "workspace_not_pending", "not_a_trunk_port",
   "current_mismatch", "tree_diff", "preview_required",
   "resource_write_failed"}

Token == {"set_leaf"} \X Workspace \X Args

(* A write that gets past the checks without HTTP.                         *)
Admissible(a) == ~Absent(a) /\ (a.leaf \in VlanList => a.new \in ValidList)

(* The values of the variables; every body on the wire is a whole document *)
(* and no malformed VLAN list is ever asked for.                           *)
TypeOK ==
  /\ call \in [Client ->
       [pc : {"idle", "preflight", "document", "await"},
        tool : {"set_leaf", Nil}, ws : Workspace \cup {Nil},
        args : Args \cup {Nil}, confirm : Confirm,
        token : Token \cup {NoToken}, body : Doc \cup {Nil},
        stale : BOOLEAN, code : Codes]]
  /\ \A c \in Client : call[c].pc # "idle" =>
       /\ call[c].tool = "set_leaf"
       /\ call[c].ws \in Draft
       /\ call[c].args \in Args
       /\ Admissible(call[c].args)
  /\ \A q \in Outstanding : q.body \in Doc
  /\ writes \in [Client -> BOOLEAN]
  /\ issued \subseteq Token
  /\ late \subseteq [tool : {"set_leaf"}, ws : Draft, args : Args, body : Doc,
                     stale : BOOLEAN]
  /\ wsState \in [Draft -> WsState]
  /\ overlay \in [Draft -> Doc \cup {NoDoc}]
  /\ mainline \in Doc
  /\ touched \subseteq Draft
  /\ edits \in Nat

(* The request is the compare-and-set its caller asked for, at the moment  *)
(* CloudVision receives it: the draft is pending, the leaf holds what was  *)
(* expected, a VLAN list is that of a trunk port, and no other leaf of the *)
(* tree changes.                                                           *)
IsCompareAndSet(q) ==
  LET doc == DocOf(q.ws) IN
    /\ wsState[q.ws] = "PENDING"
    /\ doc[q.args.leaf] = q.args.expected
    /\ q.args.leaf \in VlanList => IsTrunk(doc, q.args.leaf)
    /\ q.body = Patched(doc, q.args)
    /\ ChangedLeaves(doc, q.body) = {q.args.leaf}

(* A write nobody raced is a compare-and-set, even if it arrives after its *)
(* caller gave up, after a restart, or was read from the mainline because  *)
(* the draft had no document of its own.                                   *)
UnracedWriteIsCompareAndSet ==
  \A q \in Outstanding : ~q.stale => IsCompareAndSet(q)

(* Who is asked for a mode in turn: the parent of the one before, till     *)
(* there is none.                                                          *)
Ancestors(profiles, first) ==
  LET names == NamesOf(profiles)
      anc[k \in 0..Cardinality(names)] ==
        IF k = 0 THEN first
        ELSE IF anc[k - 1] \in names
        THEN ProfileIndex(profiles, anc[k - 1]).parent ELSE Blank
  IN anc
HasMode(profiles, name) ==
  name \in NamesOf(profiles) /\ ProfileIndex(profiles, name).mode # Blank
NearestMode(profiles, first) ==
  LET anc  == Ancestors(profiles, first)
      says == {k \in 0..Cardinality(NamesOf(profiles)) : HasMode(profiles, anc[k])}
  IN IF says = {} THEN Blank
     ELSE ProfileIndex(profiles, anc[CHOOSE k \in says : \A j \in says : k <= j]).mode

(* The profiles for which the code takes another mode, in some list.       *)
Misread ==
  {first \in Content :
     \E profiles \in ProfileLists, mode \in {"trunk", "access", Blank} :
       EffectiveMode(profiles, mode, first) #
         IF mode # Blank THEN mode ELSE NearestMode(profiles, first)}

(* The mode of a port is its own, else that of the nearest of its profile  *)
(* and the profile's ancestors that has one, whatever the list of profiles *)
(* is: parents may loop, be absent or be defined twice (_effective_mode,   *)
(* _profile_index).                                                        *)
ModeIsOfTheNearestProfile ==
  \A w \in Draft, l \in VlanList : DocOf(w)[ProfileOf[l]] \notin Misread

(* Where a document differs from the mainline, a dry run for this draft    *)
(* has shown that very value for that leaf.                                *)
Explained(w, doc) ==
  \A l \in Leaf : doc[l] # mainline[l] =>
    \E e \in Content :
      PreviewToken("set_leaf", w, [leaf |-> l, expected |-> e, new |-> doc[l]])
        \in issued

(* What the operator reviews in a draft that people have left alone was    *)
(* all previewed: races between processes may lose or revert a write, but  *)
(* never bring in a value no dry run has shown.                            *)
DraftHoldsOnlyPreviews ==
  \A w \in Draft \ touched :
    /\ ~Inherits(w) => Explained(w, overlay[w])
    /\ \A q \in Outstanding : q.ws = w => Explained(w, q.body)

(* Raced or not, and however late, a write is the previewed change of the  *)
(* whole document as its draft had it at one moment, a document on which   *)
(* the caller's expectation held: what a race loses is what came between.  *)
MayWrite(p, doc) ==
  /\ doc[p[3].leaf] = p[3].expected
  /\ p[3].leaf \in VlanList => IsTrunk(doc, p[3].leaf)
Written(p, doc) == Patched(doc, p[3])
Held(q) == [write |-> PreviewToken(q.tool, q.ws, q.args),
            before |-> [q.body EXCEPT ![q.args.leaf] = q.args.expected]]
Promise == INSTANCE SnapshotWrites WITH
             Document <- Doc, Expects <- MayWrite, Result <- Written,
             previewed <- issued, held <- {Held(q) : q \in Outstanding}
KeepsPromise == Promise!Spec

(* The specification of the workflow: "description CAS; preserve           *)
(* siblings".  An accepted write changes no leaf but its own.              *)
PreservesSiblings ==
  [][\A c \in Client, w \in Draft :
       call[c].pc = "await" /\ call[c].ws = w /\ call'[c].code = "accepted"
         => ChangedLeaves(DocOf(w), DocOf(w)') \subseteq {call[c].args.leaf}]_vars

=============================================================================
