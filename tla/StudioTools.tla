---------------------------- MODULE StudioTools ----------------------------
(***************************************************************************)
(* create_cvp_studio, delete_cvp_studio and assign_cvp_studio_tags: the    *)
(* tools that put a studio into a draft, take one out of it, and replace   *)
(* the tag query that says which devices it applies to.                    *)
(*                                                                         *)
(* A draft shadows the mainline: a studio, or a query, is the draft's own  *)
(* if the draft has one and the mainline's otherwise.  A studio is looked  *)
(* for with two GETs, of the draft and then of the mainline, and anything  *)
(* may happen between them.                                                *)
(***************************************************************************)
EXTENDS WriteCall

CONSTANTS
  Studio,      \* studio ids
  Template,    \* display name, description and template text, together
  Disruptive,  \* templates in which the lint finds a disruptive word
  Query,       \* tag queries, but for the empty one
  Empty,       \* the query "": the studio applies to no device
  Mainline,    \* the workspace id ""
  NoRow,       \* no studio, or no query, of this id in this workspace
  Removed,     \* what "remove: true" leaves of a studio in a draft
  SilentLoss,  \* may the stream of AssignedTags lose rows without a warning?
  MaxEdits     \* bound: changes made by people in the UI

Flag == {"none", "studio_from_package", "studio_immutable"}
Row == [text : Template, flag : Flag]

ASSUME StudioToolsAssumption ==
  /\ Disruptive \subseteq Template
  /\ Empty \notin Query
  /\ NoRow \notin Query \cup {Empty}
  /\ Removed # NoRow /\ Removed \notin Row
  /\ Nil \notin Template \cup Query \cup {Empty}
  /\ Mainline \notin Draft \cup {Nil}
  /\ SilentLoss \in BOOLEAN
  /\ MaxEdits \in Nat

VARIABLES
  wsState,     \* [Draft -> state, or "absent"]
  studio,      \* [Scope -> [Studio -> row]]
  query,       \* [Scope -> [Studio -> query, or NoRow]]
  touched,     \* history: drafts people changed, directly or under them
  edits        \* number of changes made by people

cvVars == <<wsState, studio, query, touched, edits>>
vars == <<call, writes, issued, late, wsState, studio, query, touched, edits>>

Scope == Draft \cup {Mainline}
WsState == {"absent", "PENDING", "SUBMITTED"}
AnyQuery == Query \cup {Empty}

ArgRecord(s, t, e, n) == [studio |-> s, text |-> t, expected |-> e, new |-> n]
ArgsOf(tool) ==
  CASE tool = "create" -> {ArgRecord(s, t, Nil, Nil) : s \in Studio, t \in Template}
    [] tool = "delete" -> {ArgRecord(s, Nil, Nil, Nil) : s \in Studio}
    [] tool = "assign" -> {ArgRecord(s, Nil, e, n) :
                             s \in Studio, e \in AnyQuery, n \in AnyQuery}
Tool == {"create", "delete", "assign"}
AnyArgs == UNION {ArgsOf(t) : t \in Tool}

----------------------------------------------------------------------------
(* What CloudVision holds *)

Shadowed(own, below) == IF own = NoRow THEN below ELSE own

QueryInForce(w, s) ==
  LET q == IF w = Mainline THEN query[w][s]
                           ELSE Shadowed(query[w][s], query[Mainline][s])
  IN IF q = NoRow THEN Empty ELSE q

(* in_use, as the row of a studio in workspace w reports it.               *)
InUse(w, s) == QueryInForce(w, s) # Empty

(* _read_studio: a removed studio is not found, like one that never was.   *)
HasStudio(w, s) == studio[w][s] \notin {NoRow, Removed}

(* Where _read_studio_anywhere finds the studio, Nil for nowhere.          *)
FoundIn(w, s) ==
  IF HasStudio(w, s) THEN w
  ELSE IF HasStudio(Mainline, s) THEN Mainline ELSE Nil

----------------------------------------------------------------------------
(* What a call sees and decides *)

Refuse(c, code) == Finish(c, code) /\ UNCHANGED issued

GoOn(c, pc) == call' = [call EXCEPT ![c].pc = pc] /\ UNCHANGED issued

(* The lint of the texts, before any HTTP.                                 *)
LintRefusal(tool, a) == tool = "create" /\ a.text \in Disruptive

(* An id outside the allowed characters, no display name, a text that is   *)
(* no string, or another template type: a caller may send any of these.    *)
ShapeRefusals(tool) ==
  (IF tool = "create"
   THEN {"display_name_required", "invalid_template", "invalid_template_type"}
   ELSE {}) \cup
  (IF tool = "assign" THEN {"expected_current_query_required"}
                      ELSE {"invalid_studio_id"}) \cup {"studio_id_required"}

(* There is no unassigning: an empty new query is dropped or refused.  The *)
(* dispatcher also drops an empty expected one, a required argument.       *)
Blank(tool, a) == tool = "assign" /\ Empty \in {a.new, a.expected}

InvokeWithoutLint(c, tool, w, a, confirm, token) ==
  /\ call[c].pc = "idle"
  /\ IF ~writes[c] THEN Finish(c, "writes_disabled")
     ELSE IF ~ValidateWorkspaceId(w) THEN Finish(c, "invalid_workspace_id")
     ELSE Enter(c, tool, w, a, confirm, token)
  /\ UNCHANGED <<writes, issued, late, cvVars>>

Invoke(c, tool, w, a, confirm, token) ==
  /\ call[c].pc = "idle"
  /\ LET valid == ValidateWorkspaceId(w)
         open  == ~Blank(tool, a) /\ writes[c]
     IN \/ \E code \in DispatchRefusals(Blank(tool, a)) : Finish(c, code)
        \/ ~Blank(tool, a) /\ ~writes[c] /\ Finish(c, "writes_disabled")
        \/ open /\ ~valid /\ Finish(c, "invalid_workspace_id")
        \/ open /\ \E code \in ShapeRefusals(tool) :
             (valid \/ code = "studio_id_required") /\ Finish(c, code)
        \/ open /\ valid /\ LintRefusal(tool, a)
           /\ Finish(c, "disruptive_content_forbidden")
        \/ open /\ valid /\ ~LintRefusal(tool, a)
           /\ Enter(c, tool, w, a, confirm, token)
  /\ UNCHANGED <<writes, issued, late, cvVars>>

(* GET the workspace.  A 200 without a state is not pending.               *)
ReadWorkspace(c) ==
  /\ call[c].pc = "preflight"
  /\ LET w == call[c].ws
     IN \/ \E code \in {"preflight_failed", "workspace_read_failed"} :
             Refuse(c, code)
        \/ wsState[w] = "absent" /\ Refuse(c, "workspace_not_found")
        \/ wsState[w] # "absent" /\ Refuse(c, "workspace_not_pending")
        \/ /\ wsState[w] = "PENDING"
           /\ GoOn(c, IF call[c].tool = "assign" THEN "tags" ELSE "studio")
  /\ UNCHANGED <<writes, late, cvVars>>

(* One keyed GET of a studio.  Whatever is neither a clean 200 nor a 404   *)
(* stops the call.                                                         *)
StudioReadingsFailOpen(w, s) ==
  {IF HasStudio(w, s) THEN "found" ELSE "not_found", "not_found"}
StudioReadings(w, s) ==
  {IF HasStudio(w, s) THEN "found" ELSE "not_found", "read_failed"}

(* What the preview token covers: of a create all that is posted, of a     *)
(* delete the ids, of an assign both queries.                              *)
TokenArgs(a) == a

Body(tool, a) ==
  CASE tool = "create" -> [text |-> a.text, flag |-> "none"]
    [] tool = "delete" -> Removed
    [] tool = "assign" -> a.new

(* create: what is found is never replaced.                                *)
CreateOver(c, w) ==
  LET flag == studio[w][call[c].args.studio].flag
  IN Refuse(c, IF flag # "none" THEN flag ELSE "studio_exists")

CreateNew(c) ==
  LET a == call[c].args IN Gate(c, TokenArgs(a), Body("create", a))

(* delete: what is found must be nobody's package, mutable, and unused.    *)
DeleteWhateverIsUnused(c, w) ==
  LET a == call[c].args
  IN ~InUse(w, a.studio) /\ Gate(c, TokenArgs(a), Body("delete", a))

DeleteFound(c, w) ==
  LET a    == call[c].args
      flag == studio[w][a.studio].flag
  IN \/ flag # "none" /\ Refuse(c, flag)
     \/ flag = "none" /\ InUse(w, a.studio) /\ Refuse(c, "studio_in_use")
     \/ flag = "none" /\ ~InUse(w, a.studio)
        /\ Gate(c, TokenArgs(a), Body("delete", a))

Found(c, w) ==
  \/ call[c].tool = "create" /\ CreateOver(c, w)
  \/ call[c].tool = "delete" /\ DeleteFound(c, w)

NotFound(c) ==
  \/ call[c].tool = "create" /\ CreateNew(c)
  \/ call[c].tool = "delete" /\ Refuse(c, "studio_not_found")

(* The two GETs of _read_studio_anywhere, each with what follows it.       *)
ReadDraftStudio(c) ==
  /\ call[c].pc = "studio"
  /\ \E r \in StudioReadings(call[c].ws, call[c].args.studio) :
       \/ r = "read_failed" /\ Refuse(c, "studio_read_failed")
       \/ r = "not_found" /\ GoOn(c, "mainline")
       \/ r = "found" /\ Found(c, call[c].ws)
  /\ UNCHANGED <<writes, late, cvVars>>

ReadMainlineStudio(c) ==
  /\ call[c].pc = "mainline"
  /\ \E r \in StudioReadings(Mainline, call[c].args.studio) :
       \/ r = "read_failed" /\ Refuse(c, "studio_read_failed")
       \/ r = "not_found" /\ NotFound(c)
       \/ r = "found" /\ Found(c, Mainline)
  /\ UNCHANGED <<writes, late, cvVars>>

(* AssignedTags/all: the draft's own row is lost, or the mainline's, or    *)
(* both.  A warning tells of a cut or of a bad line, not of a line without *)
(* a result.  No row of any studio at all is a failed read.                *)
Streams(w, s) ==
  {[own |-> o, below |-> b, warned |-> v] :
     o \in {query[w][s], NoRow}, b \in {query[Mainline][s], NoRow}, v \in BOOLEAN}

Whole(w, s, st) == st.own = query[w][s] /\ st.below = query[Mainline][s]

FetchAssignedTags(w, s) ==
  {st \in Streams(w, s) : ~st.warned /\ (Whole(w, s, st) \/ SilentLoss)}

ResolveAssignedQuery(st) ==
  LET q == Shadowed(st.own, st.below) IN IF q = NoRow THEN Empty ELSE q

(* Nothing asks whether the studio exists.                                 *)
ReadAssignedTags(c) ==
  /\ call[c].pc = "tags"
  /\ LET a == call[c].args
     IN \/ \E code \in {"assigned_tags_unavailable", "assigned_tags_read_failed",
                        "assigned_tags_ambiguous"} : Refuse(c, code)
        \/ \E st \in FetchAssignedTags(call[c].ws, a.studio) :
             \/ /\ ResolveAssignedQuery(st) # a.expected
                /\ Refuse(c, "current_query_mismatch")
             \/ /\ ResolveAssignedQuery(st) = a.expected
                /\ Gate(c, TokenArgs(a), Body("assign", a))
  /\ UNCHANGED <<writes, late, cvVars>>

----------------------------------------------------------------------------
(* CloudVision puts the row into the draft, whatever stood there.          *)
(* stales says which calls had read it, see Touch.                         *)
StudioRead == {"mainline", "await"}
StateRead == {"studio", "mainline", "tags", "await"}

Effect(q) ==
  /\ wsState[q.ws] # "absent"
  /\ IF q.tool = "assign"
     THEN query' = [query EXCEPT ![q.ws][q.args.studio] = q.body]
          /\ UNCHANGED studio
     ELSE studio' = [studio EXCEPT ![q.ws][q.args.studio] = q.body]
          /\ UNCHANGED query
  /\ UNCHANGED <<wsState, touched, edits>>

StaledBy(q) ==
  CallsStaled(call, {q.ws}, IF q.tool = "assign" THEN {"await"} ELSE StudioRead)

Applied(c) ==
  /\ call[c].pc = "await"
  /\ Effect(call[c])
  /\ \E code \in {"accepted", "resource_write_failed"} :
       call' = [StaledBy(call[c]) EXCEPT ![c] = Idle(code)]
  /\ late' = LateStaled(late, {call[c].ws})
  /\ UNCHANGED <<writes, issued>>

Rejected(c) ==
  /\ call[c].pc = "await"
  /\ Finish(c, "resource_write_failed")
  /\ UNCHANGED <<writes, issued, late, cvVars>>

AppliedLate(q) ==
  /\ Effect(q)
  /\ call' = StaledBy(q)
  /\ late' = LateStaled(late \ {q}, {q.ws})
  /\ UNCHANGED <<writes, issued>>

DroppedLate(q) ==
  /\ late' = late \ {q}
  /\ UNCHANGED <<call, writes, issued, cvVars>>

----------------------------------------------------------------------------
(* People in the UI, and the other tools.  A change under drafts ws is     *)
(* stale news for the calls that are at one of pcs.                        *)
Touch(ws, pcs) ==
  /\ call' = CallsStaled(call, ws, pcs)
  /\ late' = LateStaled(late, ws)
  /\ touched' = touched \cup ws
  /\ UNCHANGED <<writes, issued>>

Counted == edits < MaxEdits /\ edits' = edits + 1

OperatorPutsStudio(w, s, row) ==
  /\ Counted
  /\ wsState[w] = "PENDING" /\ studio[w][s] # row
  /\ studio' = [studio EXCEPT ![w][s] = row]
  /\ Touch({w}, StudioRead)
  /\ UNCHANGED <<wsState, query>>

OperatorAssigns(w, s, q) ==
  /\ Counted
  /\ wsState[w] = "PENDING" /\ query[w][s] # q
  /\ query' = [query EXCEPT ![w][s] = q]
  /\ Touch({w}, {"await"})
  /\ UNCHANGED <<wsState, studio>>

(* The mainline takes over what the draft has of its own.                  *)
Merge(own, below) == IF own = Removed THEN NoRow ELSE Shadowed(own, below)

OperatorSubmits(w) ==
  /\ wsState[w] = "PENDING"
  /\ wsState' = [wsState EXCEPT ![w] = "SUBMITTED"]
  /\ studio' = [studio EXCEPT ![Mainline] =
                  [s \in Studio |-> Merge(studio[w][s], studio[Mainline][s])]]
  /\ query' = [query EXCEPT ![Mainline] =
                 [s \in Studio |-> Shadowed(query[w][s], query[Mainline][s])]]
  /\ call' = CallsStaled(CallsStaled(call, Draft, {"await"}), {w}, StateRead)
  /\ late' = LateStaled(late, Draft)
  /\ touched' = Draft
  /\ UNCHANGED <<writes, issued, edits>>

DraftDeleted(w) ==
  /\ wsState[w] = "PENDING"
  /\ wsState' = [wsState EXCEPT ![w] = "absent"]
  /\ studio' = [studio EXCEPT ![w] = [s \in Studio |-> NoRow]]
  /\ query' = [query EXCEPT ![w] = [s \in Studio |-> NoRow]]
  /\ Touch({w}, StateRead)
  /\ UNCHANGED edits

DraftCreated(w) ==
  /\ Counted
  /\ wsState[w] = "absent"
  /\ wsState' = [wsState EXCEPT ![w] = "PENDING"]
  /\ UNCHANGED <<call, writes, issued, late, studio, query, touched>>

----------------------------------------------------------------------------
Init ==
  /\ call = [c \in Client |-> Idle("none")]
  /\ writes \in [Client -> BOOLEAN]
  /\ issued = {}
  /\ late = {}
  /\ wsState \in [Draft -> {"absent", "PENDING"}]
  /\ \E rows \in [Studio -> Row \cup {NoRow}] :
       studio = [w \in Scope |-> IF w = Mainline THEN rows
                                 ELSE [s \in Studio |-> NoRow]]
  /\ \E rows \in [Studio -> AnyQuery \cup {NoRow}] :
       query = [w \in Scope |-> IF w = Mainline THEN rows
                                ELSE [s \in Studio |-> NoRow]]
  /\ touched = {}
  /\ edits = 0

InvokeAny(c) ==
  \E tool \in Tool : \E w \in Workspace, a \in ArgsOf(tool), confirm \in Confirm :
    \E token \in {NoToken} \cup (IF confirm = "yes" THEN issued ELSE {}) :
      Invoke(c, tool, w, a, confirm, token)

RestartAny(c) == Restart(c) /\ UNCHANGED cvVars
GiveUpAny(c) == GiveUp(c) /\ UNCHANGED cvVars

Next ==
  \/ \E c \in Client : InvokeAny(c)
  \/ \E c \in Client : ReadWorkspace(c)
  \/ \E c \in Client : ReadDraftStudio(c)
  \/ \E c \in Client : ReadMainlineStudio(c)
  \/ \E c \in Client : ReadAssignedTags(c)
  \/ \E c \in Client : Applied(c)
  \/ \E c \in Client : Rejected(c)
  \/ \E c \in Client : GiveUpAny(c)
  \/ \E c \in Client : RestartAny(c)
  \/ \E q \in late : AppliedLate(q)
  \/ \E q \in late : DroppedLate(q)
  \/ \E w \in Draft, s \in Studio, row \in Row \cup {Removed} :
       OperatorPutsStudio(w, s, row)
  \/ \E w \in Draft, s \in Studio, q \in AnyQuery : OperatorAssigns(w, s, q)
  \/ \E w \in Draft : OperatorSubmits(w)
  \/ \E w \in Draft : DraftDeleted(w)
  \/ \E w \in Draft : DraftCreated(w)

Spec == Init /\ [][Next]_vars

----------------------------------------------------------------------------
(* Properties *)

Token == Tool \X Workspace \X AnyArgs
Content == Row \cup {Removed} \cup Query

(* The values of the variables.  A call past its first checks has a draft  *)
(* of the MCP server, arguments its tool takes, a template the lint let    *)
(* through and queries that are not empty; so has all that is on the wire. *)
TypeOK ==
  /\ \A c \in Client : call[c].pc # "idle" =>
       /\ call[c].pc \in {"preflight", "await"} \cup
            (IF call[c].tool = "assign" THEN {"tags"} ELSE {"studio", "mainline"})
       /\ call[c].tool \in Tool /\ call[c].ws \in Draft
       /\ call[c].args \in ArgsOf(call[c].tool)
       /\ ~LintRefusal(call[c].tool, call[c].args)
       /\ ~Blank(call[c].tool, call[c].args)
  /\ \A q \in Outstanding : q.ws \in Draft /\ q.body = Body(q.tool, q.args)
  /\ issued \subseteq Token
  /\ wsState \in [Draft -> WsState]
  /\ studio \in [Scope -> [Studio -> Row \cup {NoRow, Removed}]]
  /\ query \in [Scope -> [Studio -> AnyQuery \cup {NoRow}]]
  /\ \A s \in Studio : studio[Mainline][s] # Removed
  /\ touched \subseteq Draft

(* What the tools promise of their one request: a pending draft; a create  *)
(* replaces no studio, of the draft or of the mainline; a delete takes out *)
(* one that exists, is no package, is mutable, and applies to no device;   *)
(* an assign replaces the query its caller said is in force.               *)
IsGuarded(q) ==
  LET s == q.args.studio
      w == FoundIn(q.ws, s)
  IN /\ wsState[q.ws] = "PENDING"
     /\ q.tool = "create" => w = Nil
     /\ q.tool = "delete" =>
          w # Nil /\ studio[w][s].flag = "none" /\ ~InUse(w, s)
     /\ q.tool = "assign" => QueryInForce(q.ws, s) = q.args.expected

(* A request nobody raced does what its tool promises, when it is sent and *)
(* when it arrives: the two GETs, the draft's shadow over the mainline and *)
(* a stream that was cut never add up to a wrong view.                     *)
UnracedWriteIsGuarded == \A q \in Outstanding : ~q.stale => IsGuarded(q)

(* Whatever people did not put into a draft was shown by a dry run for     *)
(* that draft, text and query included, though two processes may overwrite *)
(* each other.                                                             *)
Shown(tool, w, s, body) ==
  \E a \in ArgsOf(tool) :
    /\ a.studio = s /\ Body(tool, a) = body
    /\ PreviewToken(tool, w, a) \in issued

DraftHoldsOnlyPreviews ==
  \A w \in Draft \ touched, s \in Studio :
    /\ studio[w][s] # NoRow =>
         \E tool \in {"create", "delete"} : Shown(tool, w, s, studio[w][s])
    /\ query[w][s] # NoRow => Shown("assign", w, s, query[w][s])

(* A mainline studio that is a package, or immutable, stays what it is     *)
(* through everything the tools do: a draft people left alone has no row   *)
(* over it, so no submission of that draft can take it out or replace it.  *)
Protected(s) ==
  HasStudio(Mainline, s) /\ studio[Mainline][s].flag # "none"
ProtectedStudiosStay ==
  \A w \in Draft \ touched, s \in Studio :
    Protected(s) => studio[w][s] = NoRow

=============================================================================
