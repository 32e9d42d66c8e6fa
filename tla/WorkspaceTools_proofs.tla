----------------------- MODULE WorkspaceTools_proofs -----------------------
(***************************************************************************)
(* The safety of WorkspaceTools for any number of processes, workspaces,   *)
(* build ids and late requests.                                            *)
(***************************************************************************)
EXTENDS WorkspaceTools, TLAPS

CallRecord ==
  [pc : {"idle", "preflight", "await"}, tool : Tool \cup {Nil},
   ws : Workspace \cup {Nil}, args : AnyArgs, confirm : Confirm,
   token : Token \cup {NoToken}, body : {Nil}, stale : BOOLEAN, code : Codes]

(* The types of the variables taken one by one.                            *)
Types ==
  /\ call \in [Client -> CallRecord]
  /\ writes \in [Client -> BOOLEAN]
  /\ issued \subseteq Token
  /\ late \subseteq Requests
  /\ wsState \in [Workspace -> WsState \cup {"absent"}]
  /\ responses \in [Workspace -> [RequestId -> Entry]]
  /\ running \in [Workspace -> SUBSET RequestId]

(* A call on its way to its GET: it names a draft of the MCP, what it asks *)
(* for fits its tool, and a token it presents was issued.                  *)
Pending(c) ==
  /\ call[c].tool \in Tool
  /\ call[c].ws \in Draft
  /\ call[c].args \in ArgsOf(call[c].tool)
  /\ call[c].stale = FALSE
  /\ call[c].confirm = "yes" => call[c].token \in issued \cup {NoToken}

PendingCalls == \A c \in Client : call[c].pc = "preflight" => Pending(c)

(* A request that may reach CloudVision.                                   *)
SoundRequest(q) ==
  /\ q \in Requests
  /\ q.ws \in Draft
  /\ q.args \in PostedArgs(q.tool)
  /\ PreviewToken(q.tool, q.ws, q.args) \in issued
  /\ ~q.stale => PreflightHolds(q)

SoundRequests == \A q \in Outstanding : SoundRequest(q)

(* What the engine runs of the eager builds is what the entries say.       *)
RunningIsOpen ==
  \A w \in Workspace, r \in EagerEntry :
    r \in running[w] => r \in NonTerminalResponses(w)

IInv ==
  /\ Types
  /\ PendingCalls
  /\ SoundRequests
  /\ RunningIsOpen

----------------------------------------------------------------------------
(* An ended call is a record of the type of call.                          *)
LEMMA IdleType ==
  ASSUME NEW code \in Codes
  PROVE  Idle(code) \in CallRecord
BY DEF Idle, CallRecord, AnyArgs, Confirm, NoToken

(* Ending a call takes its request, if any, off the wire.                  *)
LEMMA FinishStep ==
  ASSUME call \in [Client -> CallRecord],
         NEW c \in Client, NEW code \in Codes, Finish(c, code)
  PROVE  /\ call' \in [Client -> CallRecord]
         /\ call'[c].pc = "idle"
         /\ \A d \in Client \ {c} : call'[d] = call[d]
<1>1. Idle(code) \in CallRecord
  BY IdleType
<1>2. Idle(code).pc = "idle"
  BY DEF Idle
<1> QED
  BY <1>1, <1>2 DEF Finish

(* A call that ends and leaves CloudVision alone: refusals, previews,      *)
(* failures, timeouts and restarts.                                        *)
LEMMA EndingStep ==
  ASSUME IInv, NEW c \in Client,
         call' \in [Client -> CallRecord], call'[c].pc = "idle",
         \A d \in Client \ {c} : call'[d] = call[d],
         writes' \in [Client -> BOOLEAN],
         \A d \in Client \ {c} : writes'[d] = writes[d],
         issued \subseteq issued', issued' \subseteq Token,
         late' \subseteq Requests, Outstanding' \subseteq Outstanding,
         UNCHANGED cvVars
  PROVE  IInv'
<1>1. Types'
  BY DEF IInv, Types, cvVars
<1>2. PendingCalls'
  BY DEF IInv, PendingCalls, Pending
<1>3. SoundRequests'
  BY DEF IInv, SoundRequests, SoundRequest, PreflightHolds,
         NonTerminalResponses, cvVars
<1>4. RunningIsOpen'
  BY DEF IInv, RunningIsOpen, NonTerminalResponses, cvVars
<1> QED
  BY <1>1, <1>2, <1>3, <1>4 DEF IInv

(* The commonest ending: only the call changes.                            *)
LEMMA RefusalStep ==
  ASSUME IInv, NEW c \in Client, NEW code \in Codes, Finish(c, code),
         UNCHANGED <<writes, issued, late, cvVars>>
  PROVE  IInv'
<1>1. /\ call' \in [Client -> CallRecord]
      /\ call'[c].pc = "idle"
      /\ \A d \in Client \ {c} : call'[d] = call[d]
  BY FinishStep DEF IInv, Types
<1>2. Outstanding' \subseteq Outstanding
  BY <1>1 DEF Outstanding, Request
<1> QED
  BY <1>1, <1>2, EndingStep DEF IInv, Types

(* The inductive invariant holds every property the runs check.            *)
LEMMA InvImplies ==
  IInv => /\ TypeOK
          /\ OnlyPreviewedDrafts
          /\ PreflightStillHolds
          /\ UnracedBuildIsAlone
<1> SUFFICES ASSUME IInv
             PROVE  /\ TypeOK
                    /\ OnlyPreviewedDrafts
                    /\ PreflightStillHolds
                    /\ UnracedBuildIsAlone
  OBVIOUS
<1>1. \A c \in Client : call[c].pc = "await" => Request(call[c]) \in Outstanding
  BY DEF Outstanding
<1>2. \A c \in Client : call[c].pc # "idle" =>
        call[c].tool \in Tool /\ call[c].ws \in Workspace
  <2> SUFFICES ASSUME NEW c \in Client, call[c].pc # "idle"
               PROVE  call[c].tool \in Tool /\ call[c].ws \in Workspace
    OBVIOUS
  <2>1. CASE call[c].pc = "preflight"
    BY <2>1 DEF IInv, PendingCalls, Pending, Workspace
  <2>2. CASE call[c].pc = "await"
    <3>1. Request(call[c]) \in Requests
      BY <1>1, <2>2 DEF IInv, SoundRequests, SoundRequest
    <3> QED
      BY <3>1 DEF Request, Requests
  <2> QED
    BY <2>1, <2>2 DEF IInv, Types, CallRecord
<1>3. TypeOK
  BY <1>2 DEF IInv, Types, TypeOK, CallRecord, SoundRequests, SoundRequest
<1>4. UnracedBuildIsAlone
  BY DEF IInv, RunningIsOpen, UnracedBuildIsAlone, SoundRequests,
         SoundRequest, PreflightHolds, Workspace
<1> QED
  BY <1>3, <1>4 DEF IInv, SoundRequests, SoundRequest, OnlyPreviewedDrafts,
                    PreflightStillHolds


----------------------------------------------------------------------------
(* Initially no call is on its way and nothing is on the wire.             *)
LEMMA InitInv == Init => IInv
<1> SUFFICES ASSUME Init PROVE IInv
  OBVIOUS
<1>1. "none" \in Codes
  BY DEF Codes
<1>2. Types
  BY <1>1, IdleType DEF Init, Types, NoEntries, Entry
<1>3. \A c \in Client : call[c].pc = "idle"
  BY DEF Init, Idle
<1>4. Outstanding = {}
  BY <1>3 DEF Init, Outstanding
<1>5. RunningIsOpen
  BY DEF Init, RunningIsOpen
<1> QED
  BY <1>2, <1>3, <1>4, <1>5
     DEF IInv, PendingCalls, SoundRequests

----------------------------------------------------------------------------
(* The gates before any HTTP, and those after the GET.                     *)

(* The arguments a caller may give are arguments.                          *)
LEMMA ArgsOfType ==
  ASSUME NEW tool \in Tool
  PROVE  ArgsOf(tool) \subseteq AnyArgs
BY DEF Tool, ArgsOf, AnyArgs

(* A call that got past the checks without HTTP is a Pending one.          *)
LEMMA EnterStep ==
  ASSUME IInv, NEW c \in Client, NEW tool \in Tool, NEW w \in Draft,
         NEW a \in ArgsOf(tool), NEW confirm \in Confirm,
         NEW token \in issued \cup {NoToken},
         writes[c], Enter(c, tool, w, a, confirm, token),
         UNCHANGED <<writes, issued, late, cvVars>>
  PROVE  IInv'
<1> DEFINE q == [pc |-> "preflight", tool |-> tool, ws |-> w, args |-> a,
                 confirm |-> confirm, token |-> token, body |-> Nil,
                 stale |-> FALSE, code |-> "none"]
<1>1. q \in CallRecord
  BY ArgsOfType DEF CallRecord, Codes, Workspace, IInv, Types
<1>2. /\ call' \in [Client -> CallRecord]
      /\ call'[c] = q
      /\ \A d \in Client \ {c} : call'[d] = call[d]
  BY <1>1 DEF Enter, IInv, Types
<1> HIDE DEF q
<1>3. q.pc = "preflight" /\ q.tool = tool /\ q.ws = w /\ q.args = a
      /\ q.stale = FALSE /\ q.token = token
  BY DEF q
<1>4. Outstanding' \subseteq Outstanding
  BY <1>2, <1>3 DEF Outstanding, Request
<1>5. Types'
  BY <1>2 DEF IInv, Types, cvVars
<1>6. PendingCalls'
  BY <1>2, <1>3 DEF IInv, PendingCalls, Pending
<1>7. SoundRequests'
  BY <1>4 DEF IInv, SoundRequests, SoundRequest, PreflightHolds,
              NonTerminalResponses, cvVars
<1>8. RunningIsOpen'
  BY DEF IInv, RunningIsOpen, NonTerminalResponses, cvVars
<1> QED
  BY <1>5, <1>6, <1>7, <1>8 DEF IInv

(* Invoke: a refusal, or a call that enters its tool.                      *)
LEMMA InvokeStep ==
  ASSUME IInv, NEW c \in Client, InvokeAny(c)
  PROVE  IInv'
<1>1. PICK tool \in Tool, w \in Workspace, confirm \in Confirm,
           creds \in BOOLEAN :
        \E a \in ArgsOf(tool),
           token \in {NoToken} \cup (IF confirm = "yes" THEN issued ELSE {}) :
          Invoke(c, tool, w, a, confirm, token, creds)
  BY DEF InvokeAny
<1>2. PICK a \in ArgsOf(tool),
           token \in {NoToken} \cup (IF confirm = "yes" THEN issued ELSE {}) :
        Invoke(c, tool, w, a, confirm, token, creds)
  BY <1>1
<1>3. UNCHANGED <<writes, issued, late, cvVars>>
  BY <1>2 DEF Invoke
<1>4. CASE \E code \in Codes : Finish(c, code)
  BY <1>3, <1>4, RefusalStep
<1>5. CASE /\ writes[c] /\ ValidateWorkspaceId(w)
           /\ Enter(c, tool, w, a, confirm, token)
  BY <1>3, <1>5, EnterStep DEF ValidateWorkspaceId
<1>6. \A absent \in BOOLEAN : DispatchRefusals(absent) \subseteq Codes
  BY DEF DispatchRefusals, Codes
<1>7. {"writes_disabled", "invalid_workspace_id", "preflight_failed"}
        \subseteq Codes
  BY DEF Codes
<1> QED
  BY <1>2, <1>4, <1>5, <1>6, <1>7 DEF Invoke

(* Gate: a dry run only adds its token, and a request is sound when sent:  *)
(* its token was issued, and what was read of CloudVision holds now.       *)
LEMMA GateStep ==
  ASSUME IInv, NEW c \in Client, call[c].pc = "preflight",
         NEW a \in PostedArgs(call[c].tool), Gate(c, a, Nil),
         PreflightHolds(call[c]),
         UNCHANGED <<writes, late, cvVars>>
  PROVE  IInv'
<1> DEFINE q == call[c]
<1>1. /\ q \in CallRecord /\ q.tool \in Tool /\ q.ws \in Draft
      /\ a \in AnyArgs
      /\ q.confirm = "yes" => q.token \in issued \cup {NoToken}
  BY DEF IInv, Types, PendingCalls, Pending, PostedArgs, AnyArgs
<1>2. PreviewToken(q.tool, q.ws, a) \in Token
  BY <1>1 DEF PreviewToken, Token, Workspace
<1>3. CASE /\ issued' = issued \cup {PreviewToken(q.tool, q.ws, a)}
           /\ Finish(c, "preview")
  <2>1. /\ call' \in [Client -> CallRecord]
        /\ call'[c].pc = "idle"
        /\ \A d \in Client \ {c} : call'[d] = call[d]
    BY <1>3, FinishStep DEF IInv, Types, Codes
  <2>2. Outstanding' \subseteq Outstanding
    BY <2>1 DEF Outstanding, Request
  <2> QED
    BY <1>2, <1>3, <2>1, <2>2, EndingStep DEF IInv, Types
<1>4. CASE Finish(c, "preview_required") /\ UNCHANGED issued
  BY <1>4, RefusalStep DEF Codes
<1>5. CASE /\ q.confirm = "yes"
           /\ CheckPreviewToken(q.token, q.tool, q.ws, a)
           /\ Send(c, a, Nil)
           /\ UNCHANGED issued
  <2>1. PreviewToken(q.tool, q.ws, a) \in issued
    BY <1>1, <1>5 DEF CheckPreviewToken, PreviewToken, NoToken
  <2> DEFINE s == [q EXCEPT !.pc = "await", !.args = a, !.body = Nil]
  <2>2. s \in CallRecord /\ s.pc = "await"
        /\ Request(s) \in Requests /\ Request(s).tool = q.tool
        /\ Request(s).ws = q.ws /\ Request(s).args = a
    BY <1>1 DEF CallRecord, Request, Requests, Workspace
  <2>3. /\ call' \in [Client -> CallRecord]
        /\ call'[c] = s
        /\ \A d \in Client \ {c} : call'[d] = call[d]
    BY <1>5, <2>2 DEF Send, IInv, Types
  <2> HIDE DEF s
  <2>4. Outstanding' \subseteq Outstanding \cup {Request(s)}
    BY <2>3 DEF Outstanding, Request
  <2>5. SoundRequest(Request(s))
    BY <1>1, <2>1, <2>2 DEF SoundRequest, PreflightHolds
  <2>6. Types'
    BY <1>5, <2>3 DEF IInv, Types, cvVars
  <2>7. PendingCalls'
    BY <1>5, <2>2, <2>3 DEF IInv, PendingCalls, Pending
  <2>8. SoundRequests'
    BY <1>5, <2>4, <2>5 DEF IInv, SoundRequests, SoundRequest, PreflightHolds,
                            NonTerminalResponses, cvVars
  <2>9. RunningIsOpen'
    BY DEF IInv, RunningIsOpen, NonTerminalResponses, cvVars
  <2> QED
    BY <2>6, <2>7, <2>8, <2>9 DEF IInv
<1> QED
  BY <1>3, <1>4, <1>5 DEF Gate

(* A refusal inside Preflight.                                             *)
LEMMA RefuseStep ==
  ASSUME IInv, NEW c \in Client, NEW code \in Codes, Refuse(c, code),
         UNCHANGED <<writes, late, cvVars>>
  PROVE  IInv'
BY RefusalStep DEF Refuse

(* The GET of the workspace and what the three tools make of it.           *)
LEMMA PreflightStep ==
  ASSUME IInv, NEW c \in Client, Preflight(c)
  PROVE  IInv'
<1> DEFINE q == call[c]
<1>1. UNCHANGED <<writes, late, cvVars>> /\ q.pc = "preflight"
  BY DEF Preflight
<1>2. /\ q.ws \in Draft /\ q.ws \in Workspace /\ q.tool \in Tool
      /\ q.args \in ArgsOf(q.tool)
  BY <1>1 DEF IInv, PendingCalls, Pending, Workspace
<1>3. PICK read \in Readings(q.ws) :
        \/ q.tool = "create" /\ CreatePreflight(c, read)
        \/ q.tool = "delete" /\ DeletePreflight(c, read)
        \/ q.tool = "build"  /\ BuildPreflight(c, read)
  BY DEF Preflight
<1>4. ASSUME NEW code \in Codes, Refuse(c, code) PROVE IInv'
  BY <1>1, <1>4, RefuseStep
<1>5. /\ read = "not_found" => wsState[q.ws] = "absent"
      /\ read = "PENDING" => wsState[q.ws] = "PENDING"
  BY <1>2 DEF Readings, IInv, Types, WsState
<1>6. ASSUME NotPendingRefusal(c, read) PROVE IInv'
  BY <1>4, <1>6 DEF NotPendingRefusal, Codes
<1>7. CASE q.tool = "create" /\ CreatePreflight(c, read)
  <2>1. CASE read = "not_found" /\ Gate(c, q.args, Nil)
    <3>1. q.args \in PostedArgs(q.tool)
      BY <1>2, <1>7 DEF ArgsOf, PostedArgs
    <3>2. PreflightHolds(q)
      BY <1>5, <1>7, <2>1 DEF PreflightHolds
    <3> QED
      BY <1>1, <2>1, <3>1, <3>2, GateStep
  <2> QED
    BY <1>4, <1>7, <2>1 DEF CreatePreflight, Codes
<1>8. CASE q.tool = "delete" /\ DeletePreflight(c, read)
  <2>1. CASE read = "PENDING" /\ Gate(c, q.args, Nil)
    <3>1. q.args \in PostedArgs(q.tool)
      BY <1>2, <1>8 DEF ArgsOf, PostedArgs
    <3>2. PreflightHolds(q)
      BY <1>5, <1>8, <2>1 DEF PreflightHolds
    <3> QED
      BY <1>1, <2>1, <3>1, <3>2, GateStep
  <2> QED
    BY <1>6, <1>8, <2>1 DEF DeletePreflight
<1>9. CASE q.tool = "build" /\ BuildPreflight(c, read)
  <2>1. ASSUME read = "PENDING", NonTerminalResponses(q.ws) = {},
               NEW r \in RequestId, Gate(c, r, Nil)
        PROVE  IInv'
    <3>1. r \in PostedArgs(q.tool)
      BY <1>9 DEF PostedArgs
    <3>2. PreflightHolds(q)
      BY <1>5, <1>9, <2>1 DEF PreflightHolds
    <3> QED
      BY <1>1, <2>1, <3>1, <3>2, GateStep
  <2>2. FreshIds \subseteq RequestId
    BY DEF FreshIds
  <2>3. q.args # Nil => q.args \in RequestId
    BY <1>2, <1>9 DEF ArgsOf
  <2> QED
    BY <1>4, <1>6, <1>9, <2>1, <2>2, <2>3 DEF BuildPreflight, Codes
<1> QED
  BY <1>3, <1>7, <1>8, <1>9

----------------------------------------------------------------------------
(* Steps that change a workspace.                                          *)

CVTypes ==
  /\ wsState \in [Workspace -> WsState \cup {"absent"}]
  /\ responses \in [Workspace -> [RequestId -> Entry]]
  /\ running \in [Workspace -> SUBSET RequestId]

(* Whoever changes a workspace leaves every request for it marked stale,   *)
(* and the other workspaces as they were.                                  *)
LEMMA ChangeStep ==
  ASSUME IInv, NEW w \in Workspace,
         call' \in [Client -> CallRecord],
         \A d \in Client : call'[d].pc # "idle" => call[d].pc # "idle",
         \A d \in Client : call'[d].pc = "preflight" => call'[d] = call[d],
         UNCHANGED <<writes, issued>>,
         late' \subseteq Requests,
         \A q \in Outstanding' : \E p \in Outstanding : q = Staled(p, {w}),
         CVTypes',
         \A v \in Workspace \ {w} :
           wsState'[v] = wsState[v] /\ responses'[v] = responses[v],
         RunningIsOpen'
  PROVE  IInv'
<1>1. Types'
  BY DEF IInv, Types, CVTypes
<1>2. PendingCalls'
  BY DEF IInv, PendingCalls, Pending
<1>3. SoundRequests'
  <2> SUFFICES ASSUME NEW q \in Outstanding' PROVE SoundRequest(q)'
    BY DEF SoundRequests
  <2>1. PICK p \in Outstanding : q = Staled(p, {w})
    OBVIOUS
  <2>2. SoundRequest(p) /\ p \in Requests /\ p.ws \in Workspace
    BY DEF IInv, SoundRequests, SoundRequest, Requests
  <2>3. CASE p.ws = w
    <3>1. /\ q \in Requests /\ q.stale = TRUE /\ q.ws = p.ws
          /\ q.tool = p.tool /\ q.args = p.args
      BY <2>1, <2>2, <2>3 DEF Staled, Requests
    <3> QED
      BY <2>2, <3>1 DEF SoundRequest
  <2>4. CASE p.ws # w
    <3>1. q = p
      BY <2>1, <2>4 DEF Staled
    <3> QED
      BY <2>2, <2>4, <3>1 DEF SoundRequest, PreflightHolds,
                              NonTerminalResponses
  <2> QED
    BY <2>3, <2>4
<1> QED
  BY <1>1, <1>2, <1>3 DEF IInv

(* Marking a call stale touches nothing else of it.                        *)
LEMMA StaledRecord ==
  ASSUME NEW q \in CallRecord, NEW ws
  PROVE  /\ Staled(q, ws) \in CallRecord
         /\ Staled(q, ws).pc = q.pc
         /\ Request(Staled(q, ws)) = Staled(Request(q), ws)
<1>1. CASE q.ws \in ws
  <2> DEFINE s == [q EXCEPT !.stale = TRUE]
  <2>1. /\ s \in CallRecord /\ s.pc = q.pc /\ s.tool = q.tool /\ s.ws = q.ws
        /\ s.args = q.args /\ s.body = q.body /\ s.stale = TRUE
    BY DEF CallRecord
  <2>2. Staled(q, ws) = s
    BY <1>1 DEF Staled
  <2>3. Staled(Request(q), ws) = [tool |-> q.tool, ws |-> q.ws,
          args |-> q.args, body |-> q.body, stale |-> TRUE]
    BY <1>1 DEF Staled, Request
  <2> HIDE DEF s
  <2>4. Request(s) = Staled(Request(q), ws)
    BY <2>1, <2>3 DEF Request
  <2> QED
    BY <2>1, <2>2, <2>3, <2>4
<1>2. CASE q.ws \notin ws
  BY <1>2 DEF Staled, Request
<1> QED
  BY <1>1, <1>2

(* Marking calls stale keeps the type of call.                             *)
LEMMA StaledCallsType ==
  ASSUME IInv, NEW ws
  PROVE  CallsStaled(call, ws, {"await"}) \in [Client -> CallRecord]
<1>1. \A c \in Client : call[c] \in CallRecord
  BY DEF IInv, Types
<1>2. \A c \in Client : Staled(call[c], ws) \in CallRecord
  BY <1>1, StaledRecord
<1> QED
  BY <1>1, <1>2 DEF CallsStaled

(* CallsStaled and LateStaled do so.                                       *)
LEMMA StaledCalls ==
  ASSUME IInv, NEW w \in Workspace, NEW L \in SUBSET late,
         NEW calls, calls = CallsStaled(call, {w}, {"await"}),
         call' \in [Client -> CallRecord],
         \A d \in Client : call'[d] = calls[d] \/ call'[d].pc = "idle",
         late' = LateStaled(L, {w})
  PROVE  /\ \A d \in Client : call'[d].pc # "idle" => call[d].pc # "idle"
         /\ \A d \in Client : call'[d].pc = "preflight" => call'[d] = call[d]
         /\ late' \subseteq Requests
         /\ \A q \in Outstanding' : \E p \in Outstanding : q = Staled(p, {w})
<1>1. \A d \in Client :
        /\ call[d].pc # "await" => calls[d] = call[d]
        /\ call[d].pc = "await" =>
             /\ calls[d] = Staled(call[d], {w})
             /\ calls[d].pc = "await"
             /\ Request(calls[d]) = Staled(Request(call[d]), {w})
  <2> SUFFICES ASSUME NEW d \in Client
               PROVE  /\ call[d].pc # "await" => calls[d] = call[d]
                      /\ call[d].pc = "await" =>
                           /\ calls[d] = Staled(call[d], {w})
                           /\ calls[d].pc = "await"
                           /\ Request(calls[d]) = Staled(Request(call[d]), {w})
    OBVIOUS
  <2>1. call[d] \in CallRecord
    BY DEF IInv, Types
  <2>2. calls[d] = IF call[d].pc \in {"await"} THEN Staled(call[d], {w})
                                               ELSE call[d]
    BY DEF CallsStaled
  <2> QED
    BY <2>1, <2>2, StaledRecord
<1>2. \A p \in Requests : Staled(p, {w}) \in Requests
  BY DEF Staled, Requests
<1>3. late' \subseteq Requests
  BY <1>2 DEF LateStaled, IInv, Types
<1>4. ASSUME NEW q \in Outstanding'
      PROVE  \E p \in Outstanding : q = Staled(p, {w})
  <2>1. CASE q \in late'
    BY <2>1 DEF LateStaled, Outstanding
  <2>2. CASE \E d \in Client : call'[d].pc = "await" /\ q = Request(call'[d])
    <3>1. PICK d \in Client : call'[d].pc = "await" /\ q = Request(call'[d])
      BY <2>2
    <3>2. call[d].pc = "await" /\ q = Staled(Request(call[d]), {w})
      BY <1>1, <3>1
    <3> QED
      BY <3>2 DEF Outstanding
  <2> QED
    BY <2>1, <2>2 DEF Outstanding, Request
<1> QED
  BY <1>1, <1>3, <1>4

----------------------------------------------------------------------------
(* What CloudVision does with a request: it leaves the types and the open  *)
(* entries in order, and every other workspace alone.                      *)
LEMMA EffectStep ==
  ASSUME IInv, NEW q, q.ws \in Workspace, Effect(q),
         q.tool = "build" => q.args \in RequestId
  PROVE  /\ CVTypes'
         /\ \A v \in Workspace \ {q.ws} :
              wsState'[v] = wsState[v] /\ responses'[v] = responses[v]
         /\ RunningIsOpen'
<1> USE DEF IInv, Types, CVTypes
<1>1. CASE q.tool = "create" /\ CreateEffect(q.ws)
  BY <1>1 DEF CreateEffect, WsState, RunningIsOpen, NonTerminalResponses, cvVars
<1>2. CASE q.tool = "delete" /\ DeleteEffect(q.ws)
  <2>1. CVTypes'
    BY <1>2 DEF DeleteEffect, NoEntries, Entry
  <2>2. ASSUME NEW v \in Workspace, NEW r \in EagerEntry, r \in running'[v]
        PROVE  r \in NonTerminalResponses(v)'
    <3>1. CASE v = q.ws
      BY <1>2, <2>2, <3>1 DEF DeleteEffect
    <3>2. CASE v # q.ws
      BY <1>2, <2>2, <3>2 DEF DeleteEffect, RunningIsOpen, NonTerminalResponses
    <3> QED
      BY <3>1, <3>2
  <2> QED
    BY <1>2, <2>1, <2>2 DEF DeleteEffect, RunningIsOpen
<1>3. CASE q.tool = "build" /\ BuildEffect(q.ws, q.args)
  <2>1. CVTypes' /\ \A v \in Workspace \ {q.ws} :
          wsState'[v] = wsState[v] /\ responses'[v] = responses[v]
    BY <1>3 DEF BuildEffect, Entry
  <2>2. ASSUME NEW v \in Workspace, NEW r \in EagerEntry, r \in running'[v]
        PROVE  r \in NonTerminalResponses(v)'
    <3>1. CASE v = q.ws
      <4>1. running'[v] = running[v] \cup {q.args}
        BY <1>3, <3>1 DEF BuildEffect
      <4>2. CASE r = q.args
        <5>1. responses'[v] = [responses[v] EXCEPT ![q.args] = "open"]
          BY <1>3, <2>2, <3>1, <4>2 DEF BuildEffect
        <5> QED
          BY <1>3, <2>2, <4>2, <5>1 DEF NonTerminalResponses, Terminal
      <4>3. CASE r # q.args
        <5>1. r \in running[v] /\ r \in NonTerminalResponses(v)
          BY <2>2, <4>1, <4>3 DEF RunningIsOpen
        <5>2. responses'[v][r] = responses[v][r]
          BY <1>3, <3>1, <4>3, <5>1 DEF BuildEffect, NonTerminalResponses
        <5> QED
          BY <5>1, <5>2 DEF NonTerminalResponses
      <4> QED
        BY <4>2, <4>3
    <3>2. CASE v # q.ws
      BY <1>3, <2>2, <3>2 DEF BuildEffect, RunningIsOpen,
                               NonTerminalResponses
    <3> QED
      BY <3>1, <3>2
  <2> QED
    BY <2>1, <2>2 DEF RunningIsOpen
<1> QED
  BY <1>1, <1>2, <1>3 DEF Effect

(* A request on the wire is a sound one, whoever still waits for it.       *)
LEMMA AwaitingRequest ==
  ASSUME IInv, NEW c \in Client, call[c].pc = "await"
  PROVE  /\ SoundRequest(Request(call[c]))
         /\ call[c].ws \in Draft /\ call[c].ws \in Workspace
         /\ call[c].tool \in Tool
         /\ call[c].args \in PostedArgs(call[c].tool)
         /\ call[c].tool = "build" => call[c].args \in RequestId
<1>1. SoundRequest(Request(call[c]))
  BY DEF IInv, SoundRequests, Outstanding
<1> QED
  BY <1>1 DEF SoundRequest, Request, Requests, Workspace, PostedArgs

(* So is one whose caller has given up.                                    *)
LEMMA LateRequest ==
  ASSUME IInv, NEW q \in late
  PROVE  /\ SoundRequest(q)
         /\ q.ws \in Draft /\ q.ws \in Workspace
         /\ q.tool = "build" => q.args \in RequestId
<1>1. SoundRequest(q)
  BY DEF IInv, SoundRequests, Outstanding
<1> QED
  BY <1>1 DEF SoundRequest, Workspace, PostedArgs

(* CloudVision carries out a request whose caller still waits.             *)
LEMMA AppliedStep ==
  ASSUME IInv, NEW c \in Client, Applied(c)
  PROVE  IInv'
<1> DEFINE w == call[c].ws
           calls == CallsStaled(call, {w}, {"await"})
<1>1. call[c].pc = "await" /\ Effect(call[c]) /\ UNCHANGED <<writes, issued>>
      /\ late' = LateStaled(late, {w})
  BY DEF Applied
<1>2. w \in Workspace
  BY <1>1, AwaitingRequest
<1>3. /\ CVTypes'
      /\ \A v \in Workspace \ {w} :
           wsState'[v] = wsState[v] /\ responses'[v] = responses[v]
      /\ RunningIsOpen'
  BY <1>1, AwaitingRequest, EffectStep
<1>4. PICK code \in Codes : call' = [calls EXCEPT ![c] = Idle(code)]
  BY DEF Applied, Codes
<1>5. /\ calls \in [Client -> CallRecord]
      /\ Idle(code) \in CallRecord /\ Idle(code).pc = "idle"
  BY StaledCallsType, IdleType DEF Idle
<1> HIDE DEF calls
<1>6. /\ call' \in [Client -> CallRecord]
      /\ \A d \in Client : call'[d] = calls[d] \/ call'[d].pc = "idle"
  BY <1>4, <1>5
<1>7. /\ \A d \in Client : call'[d].pc # "idle" => call[d].pc # "idle"
      /\ \A d \in Client : call'[d].pc = "preflight" => call'[d] = call[d]
      /\ late' \subseteq Requests
      /\ \A q \in Outstanding' : \E p \in Outstanding : q = Staled(p, {w})
  <2>1. calls = CallsStaled(call, {w}, {"await"})
    BY DEF calls
  <2> QED
    BY <1>1, <1>2, <1>6, <2>1, StaledCalls
<1> QED
  BY <1>1, <1>2, <1>3, <1>6, <1>7, ChangeStep

(* Somebody else than a waiting process changes workspace w.               *)
LEMMA OutsideStep ==
  ASSUME IInv, NEW w \in Workspace, NEW L \in SUBSET late,
         call' = CallsStaled(call, {w}, {"await"}),
         late' = LateStaled(L, {w}),
         UNCHANGED <<writes, issued>>,
         CVTypes',
         \A v \in Workspace \ {w} :
           wsState'[v] = wsState[v] /\ responses'[v] = responses[v],
         RunningIsOpen'
  PROVE  IInv'
<1>1. call' \in [Client -> CallRecord]
  BY StaledCallsType
<1>2. /\ \A d \in Client : call'[d].pc # "idle" => call[d].pc # "idle"
      /\ \A d \in Client : call'[d].pc = "preflight" => call'[d] = call[d]
      /\ late' \subseteq Requests
      /\ \A q \in Outstanding' : \E p \in Outstanding : q = Staled(p, {w})
  BY <1>1, StaledCalls
<1> QED
  BY <1>1, <1>2, ChangeStep

(* CloudVision carries out a request nobody waits for.                     *)
LEMMA AppliedLateStep ==
  ASSUME IInv, NEW q \in late, AppliedLate(q)
  PROVE  IInv'
<1>1. /\ CVTypes'
      /\ \A v \in Workspace \ {q.ws} :
           wsState'[v] = wsState[v] /\ responses'[v] = responses[v]
      /\ RunningIsOpen'
  BY LateRequest, EffectStep DEF AppliedLate
<1>2. late \ {q} \in SUBSET late /\ q.ws \in Workspace
  BY LateRequest
<1> QED
  BY <1>1, <1>2, OutsideStep DEF AppliedLate

(* People submit or abandon a draft: open entries stay as they are.        *)
LEMMA OperatorStep ==
  ASSUME IInv, NEW w \in Workspace, OperatorSubmitsOrAbandons(w)
  PROVE  IInv'
<1>1. CVTypes' /\ RunningIsOpen'
  BY DEF OperatorSubmitsOrAbandons, IInv, Types, CVTypes, RunningIsOpen,
         NonTerminalResponses, WsState
<1> QED
  BY <1>1, OutsideStep DEF OperatorSubmitsOrAbandons, Touch, IInv, Types

(* The engine names a build it runs.                                       *)
LEMMA EntryAppearsStep ==
  ASSUME IInv, NEW w \in Workspace, NEW r \in RequestId, EntryAppears(w, r)
  PROVE  IInv'
<1>1. CVTypes'
  BY DEF EntryAppears, IInv, Types, CVTypes, Entry
<1>2. RunningIsOpen'
  BY DEF EntryAppears, IInv, Types, RunningIsOpen, NonTerminalResponses,
         Terminal
<1> QED
  BY <1>1, <1>2, OutsideStep DEF EntryAppears, Touch, IInv, Types

(* The engine ends a build: it leaves running as its entry closes.         *)
LEMMA BuildFinishesStep ==
  ASSUME IInv, NEW w \in Workspace, NEW r \in RequestId, BuildFinishes(w, r)
  PROVE  IInv'
<1>1. CVTypes'
  BY DEF BuildFinishes, IInv, Types, CVTypes, Entry
<1>2. RunningIsOpen'
  BY DEF BuildFinishes, IInv, Types, RunningIsOpen, NonTerminalResponses,
         Terminal
<1> QED
  BY <1>1, <1>2, OutsideStep DEF BuildFinishes, Touch, IInv, Types

(* A request that came to nothing only ends its call.                      *)
LEMMA RejectedStep ==
  ASSUME IInv, NEW c \in Client, Rejected(c)
  PROVE  IInv'
BY RefusalStep DEF Rejected, Codes

(* A timeout and a restart leave the request, if any, to arrive late.      *)
LEMMA GiveUpStep ==
  ASSUME IInv, NEW c \in Client, GiveUpAny(c)
  PROVE  IInv'
<1>1. /\ call' \in [Client -> CallRecord]
      /\ call'[c].pc = "idle"
      /\ \A d \in Client \ {c} : call'[d] = call[d]
  BY FinishStep DEF GiveUpAny, GiveUp, IInv, Types, Codes
<1>2. Outstanding' \subseteq Outstanding /\ late' \subseteq Requests
  BY <1>1, AwaitingRequest
     DEF GiveUpAny, GiveUp, Outstanding, SoundRequest, Request, IInv, Types
<1> QED
  BY <1>1, <1>2, EndingStep DEF GiveUpAny, GiveUp, IInv, Types

(* The request of a stopped process may still arrive.                      *)
LEMMA RestartStep ==
  ASSUME IInv, NEW c \in Client, RestartAny(c)
  PROVE  IInv'
<1>1. /\ call' \in [Client -> CallRecord]
      /\ call'[c].pc = "idle"
      /\ \A d \in Client \ {c} : call'[d] = call[d]
  BY FinishStep DEF RestartAny, Restart, IInv, Types, Codes
<1>2. Outstanding' \subseteq Outstanding /\ late' \subseteq Requests
  BY <1>1, AwaitingRequest
     DEF RestartAny, Restart, Outstanding, SoundRequest, Request, IInv, Types
<1>3. writes' \in [Client -> BOOLEAN]
      /\ \A d \in Client \ {c} : writes'[d] = writes[d]
  BY DEF RestartAny, Restart, IInv, Types
<1> QED
  BY <1>1, <1>2, <1>3, EndingStep DEF RestartAny, Restart, IInv, Types

(* One request fewer on the wire.                                          *)
LEMMA DroppedLateStep ==
  ASSUME IInv, NEW q \in late, DroppedLate(q)
  PROVE  IInv'
<1>1. Outstanding' \subseteq Outstanding
  BY DEF DroppedLate, Outstanding, Request
<1> QED
  BY <1>1 DEF DroppedLate, IInv, Types, PendingCalls, Pending, SoundRequests,
              SoundRequest, PreflightHolds, NonTerminalResponses,
              RunningIsOpen, cvVars

(* Nothing changes.                                                        *)
LEMMA StutterStep ==
  ASSUME IInv, UNCHANGED vars
  PROVE  IInv'
BY DEF vars, IInv, Types, PendingCalls, Pending, SoundRequests, SoundRequest,
       PreflightHolds, NonTerminalResponses, Outstanding, Request,
       RunningIsOpen

(* The inductive invariant holds in every reachable state.                 *)
THEOREM Invariance == Spec => []IInv
<1>1. Init => IInv
  BY InitInv
<1>2. IInv /\ [Next]_vars => IInv'
  BY InvokeStep, PreflightStep, AppliedStep, RejectedStep, GiveUpStep,
     RestartStep, AppliedLateStep, DroppedLateStep, OperatorStep,
     EntryAppearsStep, BuildFinishesStep, StutterStep DEF Next
<1> QED
  BY <1>1, <1>2, PTL DEF Spec

----------------------------------------------------------------------------
(* The properties of WorkspaceTools.                                       *)

(* The variables keep their types, and no build leaves without an id.      *)
THEOREM TypeCorrect == Spec => []TypeOK
BY Invariance, InvImplies, PTL

(* Nothing reaches CloudVision but a previewed write to a draft of the     *)
(* MCP, from any number of processes and however late.                     *)
THEOREM WritesArePreviewed == Spec => []OnlyPreviewedDrafts
BY Invariance, InvImplies, PTL

(* The preflight of a write only becomes untrue by a race.                 *)
THEOREM PreflightLasts == Spec => []PreflightStillHolds
BY Invariance, InvImplies, PTL

(* Two builds on one workspace need a race too, if the first one is named  *)
(* as soon as it is accepted.                                              *)
THEOREM BuildsAreAlone == Spec => []UnracedBuildIsAlone
BY Invariance, InvImplies, PTL

----------------------------------------------------------------------------
(* WorkspaceTools implements PreviewedWrites.                              *)

(* What CloudVision does with a sound request is a step of PreviewedWrites *)
(* or none.                                                                *)
LEMMA EffectKeepsPromise ==
  ASSUME NEW q, SoundRequest(q), Effect(q), UNCHANGED issued
  PROVE  [Promise!Next]_(Promise!pwVars)
<1>1. q.ws \in Draft /\ q.args \in PostedArgs(q.tool)
      /\ <<q.tool, q.ws, q.args>> \in issued
  BY DEF SoundRequest, PreviewToken
<1>2. CASE q.tool = "create" /\ CreateEffect(q.ws)
  <2>1. CASE wsState[q.ws] = "absent"
    <3>1. Promise!Create(q.ws)
      BY <1>1, <1>2, <2>1 DEF Promise!Create, CreateEffect
    <3> QED
      BY <1>1, <3>1 DEF Promise!Next
  <2>2. CASE wsState[q.ws] # "absent"
    BY <1>2, <2>2 DEF CreateEffect, cvVars, Promise!pwVars
  <2> QED
    BY <2>1, <2>2
<1>3. CASE q.tool = "delete" /\ DeleteEffect(q.ws)
  <2>1. Promise!Delete(q.ws)
    BY <1>1, <1>3 DEF Promise!Delete, DeleteEffect
  <2> QED
    BY <1>1, <2>1 DEF Promise!Next
<1>4. CASE q.tool = "build" /\ BuildEffect(q.ws, q.args)
  <2>1. q.args \in RequestId
    BY <1>1, <1>4 DEF PostedArgs
  <2>2. Promise!Build(q.ws, q.args)
    BY <1>1, <1>4 DEF Promise!Build, BuildEffect
  <2> QED
    BY <1>1, <2>1, <2>2 DEF Promise!Next
<1> QED
  BY <1>2, <1>3, <1>4 DEF Effect

(* A preflight previews a write, or changes nothing it promises about.     *)
LEMMA PreflightKeepsPromise ==
  ASSUME NEW c \in Client, Preflight(c)
  PROVE  [Promise!Next]_(Promise!pwVars)
<1>1. UNCHANGED <<wsState, running>>
  BY DEF Preflight, cvVars
<1>2. ASSUME NEW a, Gate(c, a, Nil) PROVE [Promise!Next]_(Promise!pwVars)
  <2>1. CASE issued' = issued \cup {PreviewToken(call[c].tool, call[c].ws, a)}
    <3>1. Promise!Preview
      BY <1>1, <2>1 DEF Promise!Preview
    <3> QED
      BY <3>1 DEF Promise!Next
  <2>2. CASE UNCHANGED issued
    BY <1>1, <2>2 DEF Promise!pwVars
  <2> QED
    BY <1>2, <2>1, <2>2 DEF Gate
<1>3. ASSUME NEW code, Refuse(c, code) PROVE [Promise!Next]_(Promise!pwVars)
  BY <1>1, <1>3 DEF Refuse, Promise!pwVars
<1>4. PICK read \in Readings(call[c].ws) :
        \/ CreatePreflight(c, read)
        \/ DeletePreflight(c, read)
        \/ BuildPreflight(c, read)
  BY DEF Preflight
<1> QED
  BY <1>2, <1>3, <1>4 DEF CreatePreflight, DeletePreflight, BuildPreflight,
                          NotPendingRefusal

(* Every step of the tools is a step of PreviewedWrites or none.           *)
LEMMA StepKeepsPromise ==
  ASSUME IInv, [Next]_vars
  PROVE  [Promise!Next]_(Promise!pwVars)
<1> DEFINE Quiet == UNCHANGED <<wsState, running, issued>>
<1>1. ASSUME Quiet PROVE [Promise!Next]_(Promise!pwVars)
  BY <1>1 DEF Promise!pwVars
<1>2. CASE UNCHANGED vars
  BY <1>1, <1>2 DEF vars
<1>3. ASSUME NEW c \in Client, InvokeAny(c) PROVE Quiet
  BY <1>3 DEF InvokeAny, Invoke, cvVars
<1>4. ASSUME NEW c \in Client, Preflight(c)
      PROVE  [Promise!Next]_(Promise!pwVars)
  BY <1>4, PreflightKeepsPromise
<1>5. ASSUME NEW c \in Client, Applied(c)
      PROVE  [Promise!Next]_(Promise!pwVars)
  <2>1. SoundRequest(Request(call[c])) /\ Effect(Request(call[c]))
    BY <1>5, AwaitingRequest DEF Applied, Effect, Request
  <2> QED
    BY <1>5, <2>1, EffectKeepsPromise DEF Applied
<1>6. ASSUME NEW c \in Client, Rejected(c) \/ GiveUpAny(c) \/ RestartAny(c)
      PROVE  Quiet
  BY <1>6 DEF Rejected, GiveUpAny, GiveUp, RestartAny, Restart, cvVars
<1>7. ASSUME NEW q \in late, AppliedLate(q)
      PROVE  [Promise!Next]_(Promise!pwVars)
  BY <1>7, LateRequest, EffectKeepsPromise DEF AppliedLate
<1>8. ASSUME NEW q \in late, DroppedLate(q) PROVE Quiet
  BY <1>8 DEF DroppedLate, cvVars
<1>9. ASSUME NEW w \in Workspace, OperatorSubmitsOrAbandons(w)
      PROVE  [Promise!Next]_(Promise!pwVars)
  <2>1. Promise!PeopleDecide(w)
    BY <1>9 DEF OperatorSubmitsOrAbandons, Touch, Promise!PeopleDecide
  <2> QED
    BY <2>1 DEF Promise!Next, Workspace
<1>10. ASSUME NEW w \in Workspace, NEW r \in RequestId, EntryAppears(w, r)
       PROVE  Quiet
  BY <1>10 DEF EntryAppears, Touch
<1>11. ASSUME NEW w \in Workspace, NEW r \in RequestId, BuildFinishes(w, r)
       PROVE  [Promise!Next]_(Promise!pwVars)
  <2>1. Promise!BuildEnds(w, r)
    BY <1>11 DEF BuildFinishes, Touch, Promise!BuildEnds
  <2> QED
    BY <2>1 DEF Promise!Next, Workspace
<1> HIDE DEF Quiet
<1> QED
  BY <1>1, <1>2, <1>3, <1>4, <1>5, <1>6, <1>7, <1>8, <1>9, <1>10, <1>11
     DEF Next

(* The tools do to CloudVision what PreviewedWrites promises, and no more. *)
THEOREM Implements == Spec => KeepsPromise
<1>1. Init => Promise!Init
  BY DEF Init, Promise!Init, Promise!State, Workspace, WsState
<1>2. IInv /\ [Next]_vars => [Promise!Next]_(Promise!pwVars)
  BY StepKeepsPromise
<1> QED
  BY <1>1, <1>2, Invariance, PTL DEF Spec, KeepsPromise, Promise!Spec

----------------------------------------------------------------------------
(* What an accepted answer means.                                          *)

(* A call leaves its request accepted only when the request took effect.   *)
LEMMA AcceptedIsApplied ==
  ASSUME IInv, [Next]_vars, NEW c \in Client, call[c].pc = "await",
         call'[c].pc = "idle", call'[c].code = "accepted"
  PROVE  Applied(c)
<1>0. ASSUME NEW w
      PROVE  /\ CallsStaled(call, {w}, {"await"}) \in [Client -> CallRecord]
             /\ CallsStaled(call, {w}, {"await"})[c].pc = "await"
  <2>1. call[c] \in CallRecord
    BY DEF IInv, Types
  <2>2. CallsStaled(call, {w}, {"await"})[c] = Staled(call[c], {w})
    BY DEF CallsStaled
  <2> QED
    BY <2>1, <2>2, StaledCallsType, StaledRecord
<1>1. ASSUME NEW d \in Client,
             InvokeAny(d) \/ Preflight(d)
      PROVE  FALSE
  <2>1. c # d /\ (InvokeAny(d) => call'[c] = call[c])
    BY <1>1 DEF IInv, Types, InvokeAny, Invoke, Preflight, Finish, Enter
  <2>2. Preflight(d) => call'[c] = call[c]
    BY <2>1 DEF IInv, Types, Preflight, CreatePreflight, DeletePreflight,
                BuildPreflight, NotPendingRefusal, Refuse, Finish, Gate, Send
  <2> QED
    BY <1>1, <2>1, <2>2
<1>2. ASSUME NEW d \in Client,
             Rejected(d) \/ GiveUpAny(d) \/ RestartAny(d)
      PROVE  FALSE
  <2>1. \E code \in {"resource_write_failed", "none"} : Finish(d, code)
    BY <1>2 DEF Rejected, GiveUpAny, GiveUp, RestartAny, Restart
  <2> QED
    BY <2>1 DEF Finish, Idle, IInv, Types
<1>3. ASSUME NEW w, call' = CallsStaled(call, {w}, {"await"}) PROVE FALSE
  BY <1>0, <1>3
<1>4. ASSUME NEW q, AppliedLate(q) PROVE FALSE
  BY <1>3, <1>4 DEF AppliedLate
<1>5. ASSUME NEW w, Touch(w) PROVE FALSE
  BY <1>3, <1>5 DEF Touch
<1>6. ASSUME NEW d \in Client \ {c}, Applied(d) PROVE FALSE
  <2> DEFINE calls == CallsStaled(call, {call[d].ws}, {"await"})
  <2>1. calls \in [Client -> CallRecord] /\ calls[c].pc = "await"
    BY <1>0
  <2>2. PICK code : call' = [calls EXCEPT ![d] = Idle(code)]
    BY <1>6 DEF Applied
  <2> HIDE DEF calls
  <2> QED
    BY <2>1, <2>2
<1>7. (\E q \in late : DroppedLate(q)) \/ UNCHANGED vars => call' = call
  BY DEF DroppedLate, vars
<1> QED
  BY <1>1, <1>2, <1>4, <1>5, <1>6, <1>7
     DEF Next, OperatorSubmitsOrAbandons, EntryAppears, BuildFinishes

(* The step that answers an unraced call of (w, a): accepted.              *)
Accepts(c, w, a) ==
  /\ call[c].pc = "await" /\ call[c].ws = w /\ call[c].args = a
  /\ ~call[c].stale
  /\ call'[c].pc = "idle" /\ call'[c].code = "accepted"

(* What a write does to a workspace when it takes effect.                  *)
WorkspaceWritten(tool, w, a) ==
  /\ tool = "create" => wsState[w] = "absent" /\ wsState'[w] = "PENDING"
  /\ tool = "delete" => wsState[w] = "PENDING" /\ wsState'[w] = "absent"
  /\ tool = "build" =>
       /\ wsState[w] = "PENDING" /\ wsState'[w] = "PENDING"
       /\ NonTerminalResponses(w) = {}
       /\ a \notin running[w] /\ running'[w] = running[w] \cup {a}
  /\ \A v \in Workspace \ {w} :
       /\ wsState'[v] = wsState[v] /\ responses'[v] = responses[v]
       /\ running'[v] = running[v]

(* An accepted answer to a call nobody raced tells the truth: the id was   *)
(* free and is now a pending draft; or the draft was pending and is gone;  *)
(* or it was pending with no build in progress, and now runs the build     *)
(* under the request id of the answer.  No other workspace is changed.     *)
AcceptedWriteIsDone ==
  [][\A c \in Client, tool \in Tool, w \in Draft, a \in AnyArgs :
       call[c].tool = tool /\ Accepts(c, w, a)
         => WorkspaceWritten(tool, w, a)]_vars

(* An accepted, unraced create, delete or build has happened as asked.     *)
THEOREM AcceptedMeansDone == Spec => AcceptedWriteIsDone
<1>1. ASSUME IInv, [Next]_vars, NEW c \in Client, NEW tool \in Tool,
             NEW w \in Draft, NEW a \in AnyArgs,
             call[c].tool = tool, Accepts(c, w, a)
      PROVE  WorkspaceWritten(tool, w, a)
  <2> DEFINE q == Request(call[c])
  <2>1. SoundRequest(q)
    BY <1>1 DEF IInv, SoundRequests, Outstanding, Accepts
  <2>2. q.tool = tool /\ q.ws = w /\ q.args = a /\ ~q.stale
    BY <1>1 DEF Request, Accepts
  <2>3. PreflightHolds(q) /\ a \in PostedArgs(tool)
    BY <2>1, <2>2 DEF SoundRequest
  <2>4. Applied(c)
    BY <1>1, AcceptedIsApplied DEF Accepts
  <2>5. \/ tool = "create" /\ CreateEffect(w)
        \/ tool = "delete" /\ DeleteEffect(w)
        \/ tool = "build" /\ BuildEffect(w, a)
    BY <1>1, <2>4 DEF Accepts, Applied, Effect
  <2>6. /\ wsState \in [Workspace -> WsState \cup {"absent"}]
        /\ responses \in [Workspace -> [RequestId -> Entry]]
        /\ running \in [Workspace -> SUBSET RequestId]
        /\ w \in Workspace
    BY <1>1 DEF IInv, Types, Workspace
  <2> HIDE DEF q
  <2>7. CASE tool = "create"
    BY <2>2, <2>3, <2>5, <2>6, <2>7
       DEF PreflightHolds, CreateEffect, WorkspaceWritten
  <2>8. CASE tool = "delete"
    BY <2>2, <2>3, <2>5, <2>6, <2>8
       DEF PreflightHolds, DeleteEffect, WorkspaceWritten
  <2>9. CASE tool = "build"
    <3>1. a \in RequestId
      BY <2>3, <2>9 DEF PostedArgs
    <3> QED
      BY <2>2, <2>3, <2>5, <2>6, <2>9, <3>1
         DEF PreflightHolds, BuildEffect, WorkspaceWritten
  <2> QED
    BY <2>7, <2>8, <2>9 DEF Tool
<1>2. IInv /\ [Next]_vars =>
        [\A c \in Client, tool \in Tool, w \in Draft, a \in AnyArgs :
           call[c].tool = tool /\ Accepts(c, w, a)
             => WorkspaceWritten(tool, w, a)]_vars
  BY <1>1
<1> QED
  BY <1>2, Invariance, PTL DEF Spec, AcceptedWriteIsDone

=============================================================================
