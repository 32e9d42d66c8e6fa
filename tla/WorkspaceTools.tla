--------------------------- MODULE WorkspaceTools ---------------------------
(***************************************************************************)
(* create_cvp_workspace, delete_cvp_workspace and build_cvp_workspace      *)
(* against one CloudVision: several MCP processes, people in the UI who    *)
(* submit and abandon drafts, and the build engine.                        *)
(***************************************************************************)
EXTENDS WriteCall

CONSTANTS
  Text,        \* display_name and description of a create, together
  RequestId,   \* build request ids
  EagerEntry   \* builds that responses.values names as soon as accepted

ASSUME WorkspaceToolsAssumption ==
  /\ EagerEntry \subseteq RequestId
  /\ Text \cap RequestId = {}
  /\ Nil \notin Text \cup RequestId

VARIABLES
  wsState,     \* [Workspace -> state, or "absent"]
  responses,   \* [Workspace -> [RequestId -> entry]]: responses.values
  running      \* [Workspace -> SUBSET RequestId]: builds the engine executes

cvVars == <<wsState, responses, running>>
vars == <<call, writes, issued, late, wsState, responses, running>>

Tool == {"create", "delete", "build"}
WsState == {"PENDING", "SUBMITTED", "ABANDONED"}
Entry == {"none", "open", "SUCCESS", "FAIL"}

(* A blank request_id never gets here: the dispatcher drops it.            *)
ArgsOf(tool) ==
  CASE tool = "create" -> Text
    [] tool = "delete" -> {Nil}
    [] tool = "build"  -> RequestId \cup {Nil}

NoEntries == [r \in RequestId |-> "none"]

----------------------------------------------------------------------------
(* What a call sees and decides *)

(* _read_workspace: the state, "not_found" on 404, "read_failed" on any    *)
(* other failure; a 200 whose state is missing or empty is "unknown".      *)
Readings(w) ==
  {"read_failed"} \cup
  (IF wsState[w] = "absent" THEN {"not_found"} ELSE {wsState[w], "unknown"})

TerminalOnlyIfSuccess(entry) == entry = "SUCCESS"
Terminal(entry) == entry \in {"SUCCESS", "FAIL"}

NonTerminalNone(w) == {}
NonTerminalResponses(w) ==
  {r \in RequestId : responses[w][r] # "none" /\ ~Terminal(responses[w][r])}

(* uuid4: an id nothing has used; the finite set stands for all of them,   *)
(* so when all are used up one is taken again.                             *)
UsedIds ==
  {r \in RequestId :
     \/ \E w \in Workspace : responses[w][r] # "none" \/ r \in running[w]
     \/ \E w \in Workspace : PreviewToken("build", w, r) \in issued
     \/ \E q \in Outstanding : q.args = r}
FreshIds == IF RequestId \ UsedIds # {} THEN RequestId \ UsedIds ELSE RequestId

(* The checks before any HTTP, in the order of the code.  creds says       *)
(* whether the token and host of CloudVision are configured.               *)
Invoke(c, tool, w, a, confirm, token, creds) ==
  /\ call[c].pc = "idle"
  /\ LET valid == ValidateWorkspaceId(w)
     IN \/ \E absent \in BOOLEAN : \E code \in DispatchRefusals(absent) :
             Finish(c, code)
        \/ ~writes[c] /\ Finish(c, "writes_disabled")
        \/ writes[c] /\ ~valid /\ Finish(c, "invalid_workspace_id")
        \/ writes[c] /\ valid /\ ~creds /\ Finish(c, "preflight_failed")
        \/ writes[c] /\ valid /\ creds
           /\ Enter(c, tool, w, a, confirm, token)
  /\ UNCHANGED <<writes, issued, late, cvVars>>

Refuse(c, code) == Finish(c, code) /\ UNCHANGED issued

CreateUnlessPending(c, read) ==
  \/ read = "read_failed" /\ Refuse(c, "workspace_read_failed")
  \/ read = "PENDING" /\ Refuse(c, "workspace_id_exists")
  \/ read \notin {"read_failed", "PENDING"} /\ Gate(c, call[c].args, Nil)

CreatePreflight(c, read) ==
  \/ read = "read_failed" /\ Refuse(c, "workspace_read_failed")
  \/ read \in WsState \cup {"unknown"} /\ Refuse(c, "workspace_id_exists")
  \/ read = "not_found" /\ Gate(c, call[c].args, Nil)

(* The checks delete and build share: the workspace was read and is        *)
(* PENDING.                                                                *)
NotPendingRefusal(c, read) ==
  \/ read = "not_found"   /\ Refuse(c, "workspace_not_found")
  \/ read = "read_failed" /\ Refuse(c, "workspace_read_failed")
  \/ read = "unknown"     /\ Refuse(c, "workspace_state_unknown")
  \/ read \in WsState \ {"PENDING"} /\ Refuse(c, "workspace_not_pending")

DeletePreflight(c, read) ==
  \/ NotPendingRefusal(c, read)
  \/ read = "PENDING" /\ Gate(c, call[c].args, Nil)

BuildWithoutId(c, read) ==
  \/ NotPendingRefusal(c, read)
  \/ read = "PENDING" /\ NonTerminalResponses(call[c].ws) = {}
     /\ Gate(c, call[c].args, Nil)

(* confirm is tested for truth here and for identity with True in Gate.    *)
BuildPreflight(c, read) ==
  LET q == call[c]
      busy == NonTerminalResponses(q.ws) # {}
  IN \/ NotPendingRefusal(c, read)
     \/ read = "PENDING" /\ busy /\ Refuse(c, "build_in_progress")
     \/ read = "PENDING" /\ ~busy /\ q.args = Nil /\ q.confirm # "no"
        /\ Refuse(c, "invalid_request_id")
     \/ read = "PENDING" /\ ~busy /\ q.args = Nil /\ q.confirm = "no"
        /\ \E r \in FreshIds : Gate(c, r, Nil)
     \/ read = "PENDING" /\ ~busy /\ q.args # Nil
        /\ Gate(c, q.args, Nil)

(* The GET of the workspace, the checks on it, and the end of the tool.    *)
Preflight(c) ==
  /\ call[c].pc = "preflight"
  /\ \E read \in Readings(call[c].ws) :
       \/ call[c].tool = "create" /\ CreatePreflight(c, read)
       \/ call[c].tool = "delete" /\ DeletePreflight(c, read)
       \/ call[c].tool = "build"  /\ BuildPreflight(c, read)
  /\ UNCHANGED <<writes, late, cvVars>>

----------------------------------------------------------------------------
(* CloudVision carries out a request.  It would accept any of these in     *)
(* more states than the tools ask for them: that is why they ask.          *)

(* An existing workspace is only renamed by a second create.               *)
CreateEffect(w) ==
  IF wsState[w] = "absent"
  THEN /\ wsState' = [wsState EXCEPT ![w] = "PENDING"]
       /\ UNCHANGED <<responses, running>>
  ELSE UNCHANGED cvVars

DeleteEffect(w) ==
  /\ wsState[w] # "absent"
  /\ wsState' = [wsState EXCEPT ![w] = "absent"]
  /\ responses' = [responses EXCEPT ![w] = NoEntries]
  /\ running' = [running EXCEPT ![w] = {}]

(* One build per request id, on a pending workspace.                       *)
BuildEffect(w, r) ==
  /\ wsState[w] = "PENDING"
  /\ responses[w][r] = "none" /\ r \notin running[w]
  /\ running' = [running EXCEPT ![w] = @ \cup {r}]
  /\ responses' = IF r \in EagerEntry
                   THEN [responses EXCEPT ![w][r] = "open"] ELSE responses
  /\ UNCHANGED wsState

Effect(q) ==
  \/ q.tool = "create" /\ CreateEffect(q.ws)
  \/ q.tool = "delete" /\ DeleteEffect(q.ws)
  \/ q.tool = "build"  /\ BuildEffect(q.ws, q.args)

(* The answer is read, or is lost, or is not the JSON object asked for.    *)
Applied(c) ==
  /\ call[c].pc = "await"
  /\ Effect(call[c])
  /\ \E code \in {"accepted", "resource_write_failed"} :
       call' = [CallsStaled(call, {call[c].ws}, {"await"}) EXCEPT ![c] = Idle(code)]
  /\ late' = LateStaled(late, {call[c].ws})
  /\ UNCHANGED <<writes, issued>>

RetriedUntilAccepted(c) == call[c].pc = "await" /\ UNCHANGED vars

(* The request never arrives, or is answered with an HTTP error.           *)
Rejected(c) ==
  /\ call[c].pc = "await"
  /\ Finish(c, "resource_write_failed")
  /\ UNCHANGED <<writes, issued, late, cvVars>>

AppliedLate(q) ==
  /\ Effect(q)
  /\ call' = CallsStaled(call, {q.ws}, {"await"})
  /\ late' = LateStaled(late \ {q}, {q.ws})
  /\ UNCHANGED <<writes, issued>>

DroppedLate(q) ==
  /\ late' = late \ {q}
  /\ UNCHANGED <<call, writes, issued, cvVars>>

----------------------------------------------------------------------------
(* People in the UI, and the build engine *)

Touch(w) ==
  /\ call' = CallsStaled(call, {w}, {"await"})
  /\ late' = LateStaled(late, {w})
  /\ UNCHANGED <<writes, issued>>

OperatorSubmitsOrAbandons(w) ==
  /\ wsState[w] = "PENDING"
  /\ \E s \in {"SUBMITTED", "ABANDONED"} : wsState' = [wsState EXCEPT ![w] = s]
  /\ Touch(w)
  /\ UNCHANGED <<responses, running>>

EntryAppears(w, r) ==
  /\ r \in running[w] /\ responses[w][r] = "none"
  /\ responses' = [responses EXCEPT ![w][r] = "open"]
  /\ Touch(w)
  /\ UNCHANGED <<wsState, running>>

BuildFinishes(w, r) ==
  /\ r \in running[w]
  /\ running' = [running EXCEPT ![w] = @ \ {r}]
  /\ \E s \in {"SUCCESS", "FAIL"} : responses' = [responses EXCEPT ![w][r] = s]
  /\ Touch(w)
  /\ UNCHANGED wsState

----------------------------------------------------------------------------
Init ==
  /\ call = [c \in Client |-> Idle("none")]
  /\ writes \in [Client -> BOOLEAN]
  /\ issued = {}
  /\ late = {}
  /\ wsState \in {f \in [Workspace -> WsState \cup {"absent"}] :
                    \A w \in Draft : f[w] \in {"absent", "PENDING"}}
  /\ responses = [w \in Workspace |-> NoEntries]
  /\ running = [w \in Workspace |-> {}]

(* A caller may present any token a dry run ever showed, or none; a dry    *)
(* run does not look at it.                                                *)
InvokeAny(c) ==
  \E tool \in Tool, w \in Workspace, confirm \in Confirm, creds \in BOOLEAN :
    \E a \in ArgsOf(tool),
       token \in {NoToken} \cup (IF confirm = "yes" THEN issued ELSE {}) :
      Invoke(c, tool, w, a, confirm, token, creds)

RestartAny(c) == Restart(c) /\ UNCHANGED cvVars
GiveUpAny(c) == GiveUp(c) /\ UNCHANGED cvVars

Next ==
  \/ \E c \in Client : InvokeAny(c)
  \/ \E c \in Client : Preflight(c)
  \/ \E c \in Client : Applied(c)
  \/ \E c \in Client : Rejected(c)
  \/ \E c \in Client : GiveUpAny(c)
  \/ \E c \in Client : RestartAny(c)
  \/ \E q \in late : AppliedLate(q)
  \/ \E q \in late : DroppedLate(q)
  \/ \E w \in Workspace : OperatorSubmitsOrAbandons(w)
  \/ \E w \in Workspace, r \in RequestId : EntryAppears(w, r)
  \/ \E w \in Workspace, r \in RequestId : BuildFinishes(w, r)

Spec == Init /\ [][Next]_vars

(* The steps a started call takes by itself: its GETs answer or time out,  *)
(* and so does its POST.  Nobody is obliged to call, submit or restart.    *)
CallProgress(c) == Preflight(c) \/ Applied(c) \/ Rejected(c) \/ GiveUpAny(c)
EngineProgress(w, r) == EntryAppears(w, r) \/ BuildFinishes(w, r)

Fairness ==
  /\ \A c \in Client : WF_vars(CallProgress(c))
  /\ \A w \in Workspace, r \in RequestId : WF_vars(EngineProgress(w, r))

FairSpec == Spec /\ Fairness

----------------------------------------------------------------------------
(* Properties *)

Codes ==
  {"none", "preview", "accepted", "action_args_invalid", "tool_disabled",
   "writes_disabled", "invalid_workspace_id",
   "invalid_request_id", "preflight_failed", "workspace_read_failed",
   "workspace_id_exists", "workspace_not_found", "workspace_state_unknown",
   "workspace_not_pending", "build_in_progress", "preview_required",
   "resource_write_failed"}

AnyArgs == Text \cup RequestId \cup {Nil}
Token == Tool \X Workspace \X AnyArgs
Requests ==
  [tool : Tool, ws : Workspace, args : AnyArgs, body : {Nil}, stale : BOOLEAN]

(* What a request carries: a build has an id even if the caller gave none. *)
PostedArgs(tool) ==
  IF tool = "create" THEN Text
  ELSE IF tool = "delete" THEN {Nil} ELSE RequestId

(* The values of the variables; no request leaves without its arguments.   *)
TypeOK ==
  /\ call \in [Client ->
       [pc : {"idle", "preflight", "await"}, tool : Tool \cup {Nil},
        ws : Workspace \cup {Nil}, args : AnyArgs, confirm : Confirm,
        token : Token \cup {NoToken}, body : {Nil}, stale : BOOLEAN,
        code : Codes]]
  /\ \A c \in Client : call[c].pc # "idle" =>
       call[c].tool \in Tool /\ call[c].ws \in Workspace
  /\ writes \in [Client -> BOOLEAN]
  /\ issued \subseteq Token
  /\ late \subseteq Requests
  /\ \A q \in Outstanding : q.args \in PostedArgs(q.tool)
  /\ wsState \in [Workspace -> WsState \cup {"absent"}]
  /\ responses \in [Workspace -> [RequestId -> Entry]]
  /\ running \in [Workspace -> SUBSET RequestId]

(* Every create, delete or build that may reach CloudVision, also one      *)
(* whose caller has timed out, names a draft of the MCP and was shown by a *)
(* dry run with exactly these arguments.                                   *)
OnlyPreviewedDrafts ==
  \A q \in Outstanding :
    /\ q.ws \in Draft
    /\ PreviewToken(q.tool, q.ws, q.args) \in issued

(* What a tool asks of the workspace before it writes.                     *)
PreflightHolds(q) ==
  \/ q.tool = "create" /\ wsState[q.ws] = "absent"
  \/ q.tool = "delete" /\ wsState[q.ws] = "PENDING"
  \/ q.tool = "build"  /\ wsState[q.ws] = "PENDING"
                       /\ NonTerminalResponses(q.ws) = {}

(* What the preflight GET established is still true when the request       *)
(* reaches CloudVision, however late, unless somebody else changed this    *)
(* very workspace in between: only a race can make a guard stale.          *)
PreflightStillHolds ==
  \A q \in Outstanding : ~q.stale => PreflightHolds(q)

(* A build that nobody raced joins no other one on the same workspace that *)
(* responses.values names from its acceptance on.                          *)
UnracedBuildIsAlone ==
  \A q \in Outstanding :
    q.tool = "build" /\ ~q.stale => running[q.ws] \cap EagerEntry = {}

(* The tools do to CloudVision what PreviewedWrites promises, and no more. *)
Promise == INSTANCE PreviewedWrites WITH previewed <- issued
KeepsPromise == Promise!Spec

(* Every call is answered: neither a GET nor a POST can hold it for ever.  *)
CallAnswered ==
  \A c \in Client : call[c].pc # "idle" ~> call[c].pc = "idle"

(* A workspace refused with build_in_progress is accepted again later: the *)
(* end of a build, successful or not, is recognised as one.                *)
BuildsUnblock ==
  \A w \in Draft :
    NonTerminalResponses(w) # {} ~> NonTerminalResponses(w) = {}

(* The docstring of _refused: a refusal envelope means no HTTP mutate      *)
(* happened.  (resource_write_failed is such an envelope.)                 *)
RefusedChangesNothing ==
  [][\A c \in Client :
       call[c].pc # "idle" /\ call'[c].pc = "idle"
         /\ call'[c].code \notin {"none", "preview", "accepted"}
         => UNCHANGED cvVars]_vars

=============================================================================
