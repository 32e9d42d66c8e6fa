------------------------- MODULE StudioTools_proofs -------------------------
(***************************************************************************)
(* The safety of StudioTools for any studios, templates and queries, any   *)
(* number of processes, drafts, late requests and changes made by people.  *)
(***************************************************************************)
EXTENDS StudioTools, TLAPS

Codes ==
  {"none", "preview", "accepted", "writes_disabled", "invalid_workspace_id",
   "action_args_invalid", "tool_disabled", "display_name_required",
   "invalid_template", "invalid_template_type", "invalid_studio_id",
   "studio_id_required", "expected_current_query_required",
   "disruptive_content_forbidden", "preflight_failed",
   "workspace_read_failed", "workspace_not_found", "workspace_not_pending",
   "studio_from_package", "studio_immutable", "studio_exists",
   "studio_in_use", "studio_not_found", "studio_read_failed",
   "assigned_tags_unavailable", "assigned_tags_read_failed",
   "assigned_tags_ambiguous", "current_query_mismatch", "preview_required",
   "resource_write_failed"}

CallRecord ==
  [pc : {"idle", "preflight", "studio", "mainline", "tags", "await"},
   tool : Tool \cup {Nil}, ws : Workspace \cup {Nil},
   args : AnyArgs \cup {Nil}, confirm : Confirm,
   token : Token \cup {NoToken}, body : Content \cup {Nil},
   stale : BOOLEAN, code : Codes]

Requests ==
  [tool : Tool, ws : Draft, args : AnyArgs, body : Content, stale : BOOLEAN]

CVTypes ==
  /\ wsState \in [Draft -> WsState]
  /\ studio \in [Scope -> [Studio -> Row \cup {NoRow, Removed}]]
  /\ query \in [Scope -> [Studio -> AnyQuery \cup {NoRow}]]
  /\ \A s \in Studio : studio[Mainline][s] # Removed
  /\ touched \subseteq Draft

Types ==
  /\ call \in [Client -> CallRecord]
  /\ issued \subseteq Token
  /\ late \subseteq Requests
  /\ CVTypes

(* What a tool accepted of its arguments before any HTTP.                  *)
Accepted(tool, w, a) ==
  /\ tool \in Tool
  /\ w \in Draft
  /\ a \in ArgsOf(tool)
  /\ ~LintRefusal(tool, a)
  /\ ~Blank(tool, a)

Reading == {"preflight", "studio", "mainline", "tags"}

(* A call between its entry and its request: where it is fits its tool,    *)
(* and what it read so far holds unless somebody changed it.               *)
Pending(c) ==
  /\ Accepted(call[c].tool, call[c].ws, call[c].args)
  /\ call[c].pc = "tags" => call[c].tool = "assign"
  /\ call[c].pc \in {"studio", "mainline"} => call[c].tool \in {"create", "delete"}
  /\ call[c].confirm = "yes" => call[c].token \in issued \cup {NoToken}
  /\ call[c].pc = "preflight" => ~call[c].stale
  /\ call[c].pc # "preflight" /\ ~call[c].stale =>
       wsState[call[c].ws] = "PENDING"
  /\ call[c].pc = "mainline" /\ ~call[c].stale =>
       ~HasStudio(call[c].ws, call[c].args.studio)

PendingCalls == \A c \in Client : call[c].pc \in Reading => Pending(c)

(* A request carries what was previewed; it is guarded unless it was       *)
(* raced; and to a draft people left alone it never carries a row over a   *)
(* protected studio, raced or not.                                         *)
SoundRequest(q) ==
  /\ q \in Requests
  /\ Accepted(q.tool, q.ws, q.args)
  /\ q.body = Body(q.tool, q.args)
  /\ PreviewToken(q.tool, q.ws, q.args) \in issued
  /\ ~q.stale /\ ~SilentLoss => IsGuarded(q)
  /\ q.ws \notin touched /\ q.tool # "assign" => ~Protected(q.args.studio)

SoundRequests == \A q \in Outstanding : SoundRequest(q)

IInv ==
  /\ Types
  /\ PendingCalls
  /\ SoundRequests
  /\ DraftHoldsOnlyPreviews
  /\ ProtectedStudiosStay

----------------------------------------------------------------------------
(* The arguments of the three tools.                                       *)
LEMMA ArgFacts ==
  ASSUME NEW tool \in Tool, NEW a \in ArgsOf(tool)
  PROVE  /\ a \in AnyArgs
         /\ a.studio \in Studio
         /\ Body(tool, a) = IF tool = "create" THEN [text |-> a.text, flag |-> "none"]
                            ELSE IF tool = "delete" THEN Removed ELSE a.new
         /\ tool = "create" => a.text \in Template
         /\ tool = "assign" => a.expected \in AnyQuery /\ a.new \in AnyQuery
<1>1. a \in AnyArgs
  BY DEF AnyArgs
<1>2. CASE tool = "create"
  BY <1>1, <1>2 DEF ArgsOf, ArgRecord, Body, Tool
<1>3. CASE tool = "delete"
  BY <1>1, <1>3 DEF ArgsOf, ArgRecord, Body, Tool
<1>4. CASE tool = "assign"
  BY <1>1, <1>4 DEF ArgsOf, ArgRecord, Body, Tool
<1> QED
  BY <1>2, <1>3, <1>4 DEF Tool

(* What is posted is a row or a query, and never no row at all.            *)
LEMMA BodyFacts ==
  ASSUME NEW tool \in Tool, NEW a \in ArgsOf(tool), ~Blank(tool, a)
  PROVE  /\ Body(tool, a) \in Content
         /\ tool # "assign" => Body(tool, a) \in Row \cup {Removed}
         /\ tool = "assign" => Body(tool, a) \in Query
<1>1. CASE tool = "create"
  BY <1>1, ArgFacts DEF Content, Row, Flag
<1>2. CASE tool = "delete"
  BY <1>2, ArgFacts DEF Content
<1>3. CASE tool = "assign"
  BY <1>3, ArgFacts DEF Content, Blank, AnyQuery
<1> QED
  BY <1>1, <1>2, <1>3 DEF Tool

(* The inductive invariant holds every property the runs check.            *)
LEMMA InvImplies ==
  IInv => /\ TypeOK
          /\ ~SilentLoss => UnracedWriteIsGuarded
          /\ DraftHoldsOnlyPreviews
          /\ ProtectedStudiosStay
<1> SUFFICES ASSUME IInv
             PROVE  TypeOK /\ (~SilentLoss => UnracedWriteIsGuarded)
  BY DEF IInv
<1>1. ASSUME NEW c \in Client, call[c].pc # "idle"
      PROVE  /\ call[c].pc \in {"preflight", "await"} \cup
                  (IF call[c].tool = "assign" THEN {"tags"}
                                              ELSE {"studio", "mainline"})
             /\ call[c].tool \in Tool /\ call[c].ws \in Draft
             /\ call[c].args \in ArgsOf(call[c].tool)
             /\ ~LintRefusal(call[c].tool, call[c].args)
             /\ ~Blank(call[c].tool, call[c].args)
  <2>1. call[c].pc \in Reading \cup {"await"}
    BY <1>1 DEF IInv, Types, CallRecord, Reading
  <2>2. CASE call[c].pc \in Reading
    BY <2>2 DEF IInv, PendingCalls, Pending, Accepted, Reading
  <2>3. CASE call[c].pc = "await"
    <3>1. SoundRequest(Request(call[c]))
      BY <2>3 DEF IInv, SoundRequests, Outstanding
    <3> QED
      BY <2>3, <3>1 DEF SoundRequest, Request, Accepted
  <2> QED
    BY <2>1, <2>2, <2>3
<1>2. TypeOK
  BY <1>1 DEF IInv, Types, CVTypes, TypeOK, SoundRequests, SoundRequest, Accepted
<1> QED
  BY <1>2 DEF IInv, SoundRequests, SoundRequest, UnracedWriteIsGuarded

(* An ended call is a record of the type of call.                          *)
LEMMA IdleType ==
  ASSUME NEW code \in Codes
  PROVE  Idle(code) \in CallRecord /\ Idle(code).pc = "idle"
BY DEF Idle, CallRecord, Confirm, NoToken

(* Initially no call is on its way, nothing is on the wire, and no draft   *)
(* has a row of its own.                                                   *)
LEMMA InitInv == Init => IInv
<1> SUFFICES ASSUME Init PROVE IInv
  OBVIOUS
<1>1. \A c \in Client : call[c].pc = "idle"
  BY DEF Init, Idle
<1>2. Outstanding = {}
  BY <1>1 DEF Init, Outstanding
<1>3. call \in [Client -> CallRecord]
  BY IdleType DEF Init, Codes
<1>4. /\ studio \in [Scope -> [Studio -> Row \cup {NoRow, Removed}]]
      /\ \A w \in Draft, s \in Studio : studio[w][s] = NoRow
      /\ \A s \in Studio : studio[Mainline][s] # Removed
  <2>1. PICK rows \in [Studio -> Row \cup {NoRow}] :
          studio = [w \in Scope |-> IF w = Mainline THEN rows
                                    ELSE [s \in Studio |-> NoRow]]
    BY DEF Init
  <2>2. \A s \in Studio : rows[s] # Removed
    BY StudioToolsAssumption
  <2>3. Mainline \in Scope /\ Draft \subseteq Scope /\ Mainline \notin Draft
    BY StudioToolsAssumption DEF Scope
  <2> QED
    BY <2>1, <2>2, <2>3
<1>5. /\ query \in [Scope -> [Studio -> AnyQuery \cup {NoRow}]]
      /\ \A w \in Draft, s \in Studio : query[w][s] = NoRow
  <2>1. PICK rows \in [Studio -> AnyQuery \cup {NoRow}] :
          query = [w \in Scope |-> IF w = Mainline THEN rows
                                   ELSE [s \in Studio |-> NoRow]]
    BY DEF Init
  <2>2. Mainline \in Scope /\ Draft \subseteq Scope /\ Mainline \notin Draft
    BY StudioToolsAssumption DEF Scope
  <2> QED
    BY <2>1, <2>2
<1>6. Types
  BY <1>3, <1>4, <1>5 DEF Init, Types, CVTypes, WsState
<1>7. DraftHoldsOnlyPreviews /\ ProtectedStudiosStay
  BY <1>4, <1>5 DEF DraftHoldsOnlyPreviews, ProtectedStudiosStay
<1> QED
  BY <1>1, <1>2, <1>6, <1>7 DEF IInv, PendingCalls, SoundRequests, Reading

(* More previews show more.                                                *)
LEMMA ShownStays ==
  ASSUME issued \subseteq issued',
         NEW tool, NEW w, NEW s, NEW body, Shown(tool, w, s, body)
  PROVE  Shown(tool, w, s, body)'
BY DEF Shown

(* Steps that leave CloudVision alone: calls that go on, or end, and what  *)
(* is on the wire is what was there, or a request that is sound.           *)
LEMMA QuietStep ==
  ASSUME IInv, call' \in [Client -> CallRecord], late' \subseteq Requests,
         issued \subseteq issued', issued' \subseteq Token, UNCHANGED cvVars,
         \A d \in Client : call'[d].pc \in Reading =>
           call'[d] = call[d] \/ Pending(d)',
         \A q \in Outstanding' : q \in Outstanding \/ SoundRequest(q)'
  PROVE  IInv'
<1>1. Types'
  BY DEF IInv, Types, CVTypes, cvVars
<1>2. PendingCalls'
  <2> SUFFICES ASSUME NEW d \in Client, call'[d].pc \in Reading
               PROVE  Pending(d)'
    BY DEF PendingCalls
  <2>1. CASE call'[d] = call[d]
    BY <2>1 DEF IInv, PendingCalls, Pending, HasStudio, cvVars
  <2> QED
    BY <2>1
<1>3. SoundRequests'
  <2> SUFFICES ASSUME NEW q \in Outstanding', q \in Outstanding
               PROVE  SoundRequest(q)'
    BY DEF SoundRequests
  <2>1. SoundRequest(q)
    BY DEF IInv, SoundRequests
  <2>2. IsGuarded(q)' = IsGuarded(q) /\ Protected(q.args.studio)' = Protected(q.args.studio)
    BY DEF IsGuarded, FoundIn, HasStudio, InUse, QueryInForce, Protected, cvVars
  <2> QED
    BY <2>1, <2>2 DEF SoundRequest, cvVars
<1>4. DraftHoldsOnlyPreviews'
  BY ShownStays DEF IInv, DraftHoldsOnlyPreviews, cvVars
<1>5. ProtectedStudiosStay'
  BY DEF IInv, ProtectedStudiosStay, Protected, HasStudio, cvVars
<1> QED
  BY <1>1, <1>2, <1>3, <1>4, <1>5 DEF IInv

(* A call that ends takes its request, if any, off the wire.               *)
LEMMA FinishStep ==
  ASSUME IInv, NEW c \in Client, NEW code \in Codes, Finish(c, code)
  PROVE  /\ call' \in [Client -> CallRecord]
         /\ call'[c].pc = "idle"
         /\ \A d \in Client \ {c} : call'[d] = call[d]
<1>1. Idle(code) \in CallRecord /\ Idle(code).pc = "idle"
  BY IdleType
<1> QED
  BY <1>1 DEF Finish, IInv, Types

(* Its commonest case: a call ends, and nothing is sent.                   *)
LEMMA EndingStep ==
  ASSUME IInv, NEW c \in Client, NEW code \in Codes, Finish(c, code),
         issued \subseteq issued', issued' \subseteq Token,
         \/ late' \subseteq late
         \/ call[c].pc = "await" /\ late' = late \cup {Request(call[c])},
         UNCHANGED cvVars
  PROVE  IInv'
<1>1. /\ call' \in [Client -> CallRecord]
      /\ call'[c].pc = "idle"
      /\ \A d \in Client \ {c} : call'[d] = call[d]
  BY FinishStep
<1>2. call[c].pc = "await" => Request(call[c]) \in Outstanding
  BY DEF Outstanding
<1>3. late' \subseteq Outstanding /\ late \subseteq Outstanding
  BY <1>2 DEF Outstanding
<1>4. Outstanding' \subseteq Outstanding
  BY <1>1, <1>3 DEF Outstanding
<1>5. late' \subseteq Requests
  BY <1>3 DEF IInv, SoundRequests, SoundRequest
<1>6. \A d \in Client : call'[d].pc \in Reading => call'[d] = call[d]
  BY <1>1 DEF Reading
<1> QED
  BY <1>1, <1>4, <1>5, <1>6, QuietStep

(* A refusal.                                                              *)
LEMMA RefusalStep ==
  ASSUME IInv, NEW c \in Client, NEW code \in Codes, Finish(c, code),
         UNCHANGED <<issued, late, cvVars>>
  PROVE  IInv'
BY EndingStep DEF IInv, Types

(* A call that goes on to the state pc.                                    *)
LEMMA GoOnStep ==
  ASSUME IInv, NEW c \in Client, call[c].pc \in Reading,
         NEW pc \in {"studio", "mainline", "tags"}, GoOn(c, pc),
         wsState[call[c].ws] = "PENDING" \/ call[c].stale,
         pc = "tags" => call[c].tool = "assign",
         pc # "tags" => call[c].tool \in {"create", "delete"},
         pc = "mainline" => ~HasStudio(call[c].ws, call[c].args.studio),
         UNCHANGED <<late, cvVars>>
  PROVE  IInv'
<1> DEFINE q == [call[c] EXCEPT !.pc = pc]
<1>1. call[c] \in CallRecord
  BY DEF IInv, Types
<1>2. /\ q \in CallRecord /\ q.pc = pc
      /\ q.tool = call[c].tool /\ q.ws = call[c].ws /\ q.args = call[c].args
      /\ q.confirm = call[c].confirm /\ q.token = call[c].token
      /\ q.stale = call[c].stale
  BY <1>1 DEF CallRecord
<1>3. /\ call' \in [Client -> CallRecord]
      /\ call'[c] = q
      /\ \A d \in Client \ {c} : call'[d] = call[d]
      /\ issued' = issued
  BY <1>2 DEF GoOn, IInv, Types
<1> HIDE DEF q
<1>4. Pending(c)
  BY DEF IInv, PendingCalls
<1>5. Pending(c)'
  BY <1>2, <1>3, <1>4 DEF Pending, HasStudio, cvVars
<1>6. Outstanding' \subseteq Outstanding
  BY <1>2, <1>3 DEF Outstanding, Request
<1> QED
  BY <1>3, <1>5, <1>6, QuietStep DEF IInv, Types

----------------------------------------------------------------------------
(* Steps of a call that leave CloudVision alone.                           *)

(* Invoke: a refusal, or a call that enters its tool.                      *)
LEMMA InvokeStep ==
  ASSUME IInv, NEW c \in Client, InvokeAny(c)
  PROVE  IInv'
<1>1. PICK tool \in Tool : \E w \in Workspace, a \in ArgsOf(tool), confirm \in Confirm :
        \E token \in {NoToken} \cup (IF confirm = "yes" THEN issued ELSE {}) :
          Invoke(c, tool, w, a, confirm, token)
  BY DEF InvokeAny
<1>2. PICK w \in Workspace, a \in ArgsOf(tool), confirm \in Confirm :
        \E token \in {NoToken} \cup (IF confirm = "yes" THEN issued ELSE {}) :
          Invoke(c, tool, w, a, confirm, token)
  BY <1>1
<1>3. PICK token \in {NoToken} \cup (IF confirm = "yes" THEN issued ELSE {}) :
        Invoke(c, tool, w, a, confirm, token)
  BY <1>2
<1>4. UNCHANGED <<issued, late, cvVars>>
  BY <1>3 DEF Invoke
<1>5. CASE \E code \in Codes : Finish(c, code)
  BY <1>4, <1>5, RefusalStep
<1>6. CASE Accepted(tool, w, a) /\ Enter(c, tool, w, a, confirm, token)
  <2> DEFINE q == [pc |-> "preflight", tool |-> tool, ws |-> w,
                   args |-> a, confirm |-> confirm, token |-> token,
                   body |-> Nil, stale |-> FALSE, code |-> "none"]
  <2>1. token \in issued \cup {NoToken} /\ a \in AnyArgs
    BY ArgFacts
  <2>2. q \in CallRecord
    BY <2>1 DEF CallRecord, Codes, IInv, Types
  <2>3. /\ call' \in [Client -> CallRecord]
        /\ call'[c] = q
        /\ \A d \in Client \ {c} : call'[d] = call[d]
    BY <1>6, <2>2 DEF Enter, IInv, Types
  <2>4. /\ q.pc = "preflight" /\ q.tool = tool /\ q.ws = w
        /\ q.args = a /\ q.stale = FALSE /\ q.token = token
    OBVIOUS
  <2> HIDE DEF q
  <2>5. Outstanding' \subseteq Outstanding
    BY <1>4, <2>3, <2>4 DEF Outstanding, Request
  <2>6. Pending(c)'
    BY <1>4, <1>6, <2>1, <2>3, <2>4 DEF Pending
  <2> QED
    BY <1>4, <2>3, <2>5, <2>6, QuietStep DEF IInv, Types
<1>7. DispatchRefusals(Blank(tool, a)) \cup ShapeRefusals(tool) \subseteq Codes
  BY DEF DispatchRefusals, ShapeRefusals, Codes
<1>8. {"writes_disabled", "invalid_workspace_id", "disruptive_content_forbidden"}
        \subseteq Codes
  BY DEF Codes
<1> QED
  BY <1>3, <1>5, <1>6, <1>7, <1>8 DEF Invoke, Accepted, ValidateWorkspaceId

(* The GET of the workspace: a call that goes on has found it PENDING.     *)
LEMMA ReadWorkspaceStep ==
  ASSUME IInv, NEW c \in Client, ReadWorkspace(c)
  PROVE  IInv'
<1>1. UNCHANGED <<late, cvVars>> /\ call[c].pc = "preflight"
  BY DEF ReadWorkspace
<1>2. CASE \E code \in Codes : Refuse(c, code)
  BY <1>1, <1>2, RefusalStep DEF Refuse
<1>3. CASE /\ wsState[call[c].ws] = "PENDING"
           /\ GoOn(c, IF call[c].tool = "assign" THEN "tags" ELSE "studio")
  <2>1. call[c].pc \in Reading
    BY <1>1 DEF Reading
  <2>2. call[c].tool \in Tool
    BY <2>1 DEF IInv, PendingCalls, Pending, Accepted
  <2> QED
    BY <1>1, <1>3, <2>1, <2>2, GoOnStep DEF Tool
<1> QED
  BY <1>2, <1>3 DEF ReadWorkspace, Codes

(* The gate: a dry run only adds its token, and a request is sound when    *)
(* sent: its token was issued, and what was read holds now.                *)
LEMMA GateStep ==
  ASSUME IInv, NEW c \in Client, call[c].pc \in Reading,
         Gate(c, TokenArgs(call[c].args), Body(call[c].tool, call[c].args)),
         ~call[c].stale /\ ~SilentLoss => IsGuarded(call[c]),
         call[c].ws \notin touched /\ call[c].tool # "assign" =>
           ~Protected(call[c].args.studio),
         UNCHANGED <<late, cvVars>>
  PROVE  IInv'
<1> DEFINE q == call[c]
           a == q.args
           body == Body(q.tool, a)
<1>1. q \in CallRecord
  BY DEF IInv, Types
<1>2. /\ Accepted(q.tool, q.ws, a)
      /\ q.confirm = "yes" => q.token \in issued \cup {NoToken}
  BY DEF IInv, PendingCalls, Pending
<1>3. PreviewToken(q.tool, q.ws, a) \in Token
  BY <1>2, ArgFacts DEF Accepted, PreviewToken, Token, Workspace
<1>4. CASE /\ issued' = issued \cup {PreviewToken(q.tool, q.ws, a)}
           /\ Finish(c, "preview")
  BY <1>3, <1>4, EndingStep DEF IInv, Types, Codes
<1>5. CASE Finish(c, "preview_required") /\ UNCHANGED issued
  BY <1>5, RefusalStep DEF Codes
<1>6. CASE /\ q.confirm = "yes"
           /\ CheckPreviewToken(q.token, q.tool, q.ws, a)
           /\ Send(c, a, body)
           /\ UNCHANGED issued
  <2>1. PreviewToken(q.tool, q.ws, a) \in issued
    BY <1>2, <1>6 DEF CheckPreviewToken, PreviewToken, NoToken
  <2>2. body \in Content /\ a \in AnyArgs
    BY <1>2, BodyFacts, ArgFacts DEF Accepted
  <2> DEFINE s == [q EXCEPT !.pc = "await", !.args = a, !.body = body]
  <2>3. /\ s \in CallRecord /\ s.pc = "await" /\ Request(s) \in Requests
        /\ Request(s).ws = q.ws /\ Request(s).args = a /\ Request(s).tool = q.tool
        /\ Request(s).body = body /\ Request(s).stale = q.stale
    BY <1>1, <1>2, <2>2 DEF CallRecord, Request, Requests, Accepted
  <2>4. /\ call' \in [Client -> CallRecord]
        /\ call'[c] = s
        /\ \A d \in Client \ {c} : call'[d] = call[d]
    BY <1>6, <2>3 DEF Send, IInv, Types
  <2> HIDE DEF s, body
  <2>5. PICK r : r = Request(s)
    OBVIOUS
  <2>6. Outstanding' \subseteq Outstanding \cup {r}
    BY <2>4, <2>5 DEF Outstanding, Request
  <2>8. SoundRequest(r)'
    <3>1. IsGuarded(r)' = IsGuarded(r) /\ IsGuarded(r) = IsGuarded(q)
      BY <2>3, <2>5
         DEF IsGuarded, FoundIn, HasStudio, InUse, QueryInForce, cvVars
    <3>2. Protected(r.args.studio)' = Protected(r.args.studio)
      BY DEF Protected, HasStudio, cvVars
    <3> QED
      BY <1>2, <1>6, <2>1, <2>3, <2>5, <3>1, <3>2 DEF SoundRequest, body, cvVars
  <2>7. \A d \in Client : call'[d].pc \in Reading => call'[d] = call[d]
    BY <2>3, <2>4 DEF Reading
  <2> QED
    BY <1>6, <2>4, <2>6, <2>7, <2>8, QuietStep DEF IInv, Types
<1> QED
  BY <1>4, <1>5, <1>6 DEF Gate, TokenArgs

(* What is known of a call that reads a studio.                            *)
LEMMA ReadingFacts ==
  ASSUME IInv, NEW c \in Client, call[c].pc \in Reading
  PROVE  /\ Accepted(call[c].tool, call[c].ws, call[c].args)
         /\ call[c].ws \in Draft /\ call[c].args.studio \in Studio
         /\ call[c].ws # Mainline /\ call[c].ws # Nil /\ Mainline # Nil
         /\ call[c].stale \in BOOLEAN
<1>1. Accepted(call[c].tool, call[c].ws, call[c].args)
  BY DEF IInv, PendingCalls, Pending
<1> QED
  BY <1>1, ArgFacts, StudioToolsAssumption, WriteCallAssumption
     DEF Accepted, IInv, Types, CallRecord

(* The GET of the studio in the draft.  A create stops at what it finds, a *)
(* delete of it is guarded.                                                *)
LEMMA ReadDraftStudioStep ==
  ASSUME IInv, NEW c \in Client, ReadDraftStudio(c)
  PROVE  IInv'
<1> DEFINE w == call[c].ws
           s == call[c].args.studio
<1>1. UNCHANGED <<late, cvVars>> /\ call[c].pc = "studio" /\ call[c].pc \in Reading
  BY DEF ReadDraftStudio, Reading
<1>2. /\ w \in Draft /\ s \in Studio /\ call[c].tool \in {"create", "delete"}
      /\ wsState[w] = "PENDING" \/ call[c].stale
  BY <1>1, ReadingFacts DEF IInv, PendingCalls, Pending
<1>3. PICK r \in StudioReadings(w, s) :
        \/ r = "read_failed" /\ Refuse(c, "studio_read_failed")
        \/ r = "not_found" /\ GoOn(c, "mainline")
        \/ r = "found" /\ Found(c, w)
  BY DEF ReadDraftStudio
<1>4. CASE \E code \in Codes : Refuse(c, code)
  BY <1>1, <1>4, RefusalStep DEF Refuse
<1>5. CASE r = "not_found" /\ GoOn(c, "mainline")
  <2>1. ~HasStudio(w, s)
    BY <1>3, <1>5 DEF StudioReadings
  <2> QED
    BY <1>1, <1>2, <1>5, <2>1, GoOnStep
<1>6. CASE r = "found" /\ Found(c, w)
  <2>1. HasStudio(w, s) /\ studio[w][s] \in Row
    BY <1>2, <1>3, <1>6 DEF StudioReadings, HasStudio, IInv, Types, CVTypes, Scope
  <2>2. studio[w][s].flag \in Codes
    BY <2>1 DEF Row, Flag, Codes
  <2>3. CASE call[c].tool = "create" /\ CreateOver(c, w)
    BY <1>4, <2>2, <2>3 DEF CreateOver, Codes
  <2>4. CASE call[c].tool = "delete" /\ DeleteFound(c, w)
    <3>1. CASE /\ studio[w][s].flag = "none" /\ ~InUse(w, s)
               /\ Gate(c, TokenArgs(call[c].args), Body("delete", call[c].args))
      <4>1. FoundIn(w, s) = w /\ w # Nil
        BY <1>1, <2>1, ReadingFacts DEF FoundIn
      <4>2. ~call[c].stale => IsGuarded(call[c])
        BY <1>2, <2>4, <3>1, <4>1 DEF IsGuarded
      <4>3. w \notin touched => ~Protected(s)
        BY <1>2, <2>1 DEF IInv, ProtectedStudiosStay, HasStudio
      <4> QED
        BY <1>1, <2>4, <3>1, <4>2, <4>3, GateStep
    <3> QED
      BY <1>4, <2>2, <2>4, <3>1 DEF DeleteFound, Codes
  <2> QED
    BY <1>6, <2>3, <2>4 DEF Found
<1> QED
  BY <1>3, <1>4, <1>5, <1>6 DEF Codes

(* The GET of the studio on the mainline, after the draft had none.        *)
LEMMA ReadMainlineStudioStep ==
  ASSUME IInv, NEW c \in Client, ReadMainlineStudio(c)
  PROVE  IInv'
<1> DEFINE w == call[c].ws
           s == call[c].args.studio
<1>1. UNCHANGED <<late, cvVars>> /\ call[c].pc = "mainline" /\ call[c].pc \in Reading
  BY DEF ReadMainlineStudio, Reading
<1>2. /\ w \in Draft /\ s \in Studio /\ call[c].tool \in {"create", "delete"}
      /\ ~call[c].stale => wsState[w] = "PENDING" /\ ~HasStudio(w, s)
  BY <1>1, ReadingFacts DEF IInv, PendingCalls, Pending
<1>3. PICK r \in StudioReadings(Mainline, s) :
        \/ r = "read_failed" /\ Refuse(c, "studio_read_failed")
        \/ r = "not_found" /\ NotFound(c)
        \/ r = "found" /\ Found(c, Mainline)
  BY DEF ReadMainlineStudio
<1>4. CASE \E code \in Codes : Refuse(c, code)
  BY <1>1, <1>4, RefusalStep DEF Refuse
<1>5. CASE r = "not_found" /\ NotFound(c)
  <2>1. ~HasStudio(Mainline, s)
    BY <1>3, <1>5 DEF StudioReadings
  <2>2. CASE call[c].tool = "create" /\ CreateNew(c)
    <3>1. ~call[c].stale => IsGuarded(call[c])
      BY <1>2, <2>1, <2>2 DEF IsGuarded, FoundIn
    <3>2. ~Protected(s)
      BY <2>1 DEF Protected
    <3> QED
      BY <1>1, <2>2, <3>1, <3>2, GateStep DEF CreateNew
  <2>3. CASE call[c].tool = "delete" /\ Refuse(c, "studio_not_found")
    BY <1>4, <2>3 DEF Codes
  <2> QED
    BY <1>5, <2>2, <2>3 DEF NotFound
<1>6. CASE r = "found" /\ Found(c, Mainline)
  <2>1. HasStudio(Mainline, s) /\ studio[Mainline][s] \in Row
    BY <1>2, <1>3, <1>6 DEF StudioReadings, HasStudio, IInv, Types, CVTypes, Scope
  <2>2. studio[Mainline][s].flag \in Codes
    BY <2>1 DEF Row, Flag, Codes
  <2>3. CASE call[c].tool = "create" /\ CreateOver(c, Mainline)
    BY <1>4, <2>2, <2>3 DEF CreateOver, Codes
  <2>4. CASE call[c].tool = "delete" /\ DeleteFound(c, Mainline)
    <3>1. CASE /\ studio[Mainline][s].flag = "none" /\ ~InUse(Mainline, s)
               /\ Gate(c, TokenArgs(call[c].args), Body("delete", call[c].args))
      <4>1. ~call[c].stale => FoundIn(w, s) = Mainline /\ Mainline # Nil
        BY <1>1, <1>2, <2>1, ReadingFacts DEF FoundIn
      <4>2. ~call[c].stale => IsGuarded(call[c])
        BY <1>2, <2>4, <3>1, <4>1 DEF IsGuarded
      <4>3. ~Protected(s)
        BY <3>1 DEF Protected
      <4> QED
        BY <1>1, <2>4, <3>1, <4>2, <4>3, GateStep
    <3> QED
      BY <1>4, <2>2, <2>4, <3>1 DEF DeleteFound, Codes
  <2> QED
    BY <1>6, <2>3, <2>4 DEF Found
<1> QED
  BY <1>3, <1>4, <1>5, <1>6 DEF Codes

(* The GET of the assigned tags: of a stream that is whole the query in    *)
(* force, else the call stops, or a row was lost in silence.               *)
LEMMA ReadAssignedTagsStep ==
  ASSUME IInv, NEW c \in Client, ReadAssignedTags(c)
  PROVE  IInv'
<1> DEFINE w == call[c].ws
           a == call[c].args
<1>1. UNCHANGED <<late, cvVars>> /\ call[c].pc = "tags" /\ call[c].pc \in Reading
  BY DEF ReadAssignedTags, Reading
<1>2. /\ w \in Draft /\ w # Mainline /\ call[c].tool = "assign"
      /\ ~call[c].stale => wsState[w] = "PENDING"
  BY <1>1, ReadingFacts DEF IInv, PendingCalls, Pending
<1>3. CASE \E code \in Codes : Refuse(c, code)
  BY <1>1, <1>3, RefusalStep DEF Refuse
<1>4. CASE \E st \in FetchAssignedTags(w, a.studio) :
             /\ ResolveAssignedQuery(st) = a.expected
             /\ Gate(c, TokenArgs(a), Body("assign", a))
  <2>1. PICK st \in FetchAssignedTags(w, a.studio) :
             /\ ResolveAssignedQuery(st) = a.expected
             /\ Gate(c, TokenArgs(a), Body("assign", a))
    BY <1>4
  <2>2. ~SilentLoss => ResolveAssignedQuery(st) = QueryInForce(w, a.studio)
    BY <1>2, <2>1 DEF FetchAssignedTags, Whole, ResolveAssignedQuery, QueryInForce
  <2>3. ~call[c].stale /\ ~SilentLoss => IsGuarded(call[c])
    BY <1>2, <2>1, <2>2 DEF IsGuarded
  <2> QED
    BY <1>1, <1>2, <2>1, <2>3, GateStep
<1> QED
  BY <1>3, <1>4 DEF ReadAssignedTags, Codes

----------------------------------------------------------------------------
(* Steps that change a draft or the mainline.                              *)

(* q is the request p, marked stale.                                       *)
MarkOf(q, p) ==
  /\ q \in Requests /\ q.stale = TRUE
  /\ q.tool = p.tool /\ q.ws = p.ws /\ q.args = p.args /\ q.body = p.body

(* q is the call p, marked stale or not.                                   *)
SameUpToMark(q, p, mark) ==
  /\ q.pc = p.pc /\ q.tool = p.tool /\ q.ws = p.ws /\ q.args = p.args
  /\ q.confirm = p.confirm /\ q.token = p.token /\ q.body = p.body
  /\ mark => q.stale = TRUE
  /\ ~mark => q.stale = p.stale

(* What Staled does to a call.                                             *)
LEMMA StaledRecord ==
  ASSUME NEW q \in CallRecord, NEW ws
  PROVE  /\ Staled(q, ws) \in CallRecord
         /\ SameUpToMark(Staled(q, ws), q, q.ws \in ws)
<1>1. CASE q.ws \in ws
  <2> DEFINE s == [q EXCEPT !.stale = TRUE]
  <2>1. s \in CallRecord /\ SameUpToMark(s, q, TRUE)
    BY DEF CallRecord, SameUpToMark
  <2>2. Staled(q, ws) = s
    BY <1>1 DEF Staled
  <2> HIDE DEF s
  <2> QED
    BY <1>1, <2>1, <2>2 DEF SameUpToMark
<1>2. CASE q.ws \notin ws
  BY <1>2 DEF Staled, SameUpToMark
<1> QED
  BY <1>1, <1>2

(* CallsStaled changes nothing but that mark.                              *)
LEMMA StaledCall ==
  ASSUME NEW calls \in [Client -> CallRecord], NEW ws, NEW pcs
  PROVE  /\ CallsStaled(calls, ws, pcs) \in [Client -> CallRecord]
         /\ \A c \in Client :
              SameUpToMark(CallsStaled(calls, ws, pcs)[c], calls[c],
                           calls[c].pc \in pcs /\ calls[c].ws \in ws)
<1> DEFINE q(c) == IF calls[c].pc \in pcs THEN Staled(calls[c], ws)
                                         ELSE calls[c]
<1>1. ASSUME NEW c \in Client
      PROVE  /\ q(c) \in CallRecord
             /\ SameUpToMark(q(c), calls[c],
                             calls[c].pc \in pcs /\ calls[c].ws \in ws)
  <2>1. calls[c] \in CallRecord
    OBVIOUS
  <2>2. CASE calls[c].pc \in pcs
    BY <2>1, <2>2, StaledRecord DEF SameUpToMark
  <2>3. CASE calls[c].pc \notin pcs
    BY <2>1, <2>3 DEF SameUpToMark
  <2> QED
    BY <2>2, <2>3
<1>2. CallsStaled(calls, ws, pcs) = [c \in Client |-> q(c)]
  BY DEF CallsStaled
<1> HIDE DEF q
<1> QED
  BY <1>1, <1>2

(* What a request that is not raced was guarded by is still there.         *)
SameFor(w) ==
  /\ wsState[w] = "PENDING" => wsState'[w] = "PENDING"
  /\ studio'[w] = studio[w] /\ query'[w] = query[w]
  /\ studio'[Mainline] = studio[Mainline] /\ query'[Mainline] = query[Mainline]

(* Every change marks the calls and requests it makes stale, and a draft   *)
(* people left alone only gets rows from requests on the wire.             *)
LEMMA ChangeStep ==
  ASSUME IInv,
         call' \in [Client -> CallRecord], late' \subseteq Requests, CVTypes',
         UNCHANGED issued, touched \subseteq touched',
         \A d \in Client : call'[d].pc = "preflight" =>
           SameUpToMark(call'[d], call[d], FALSE),
         \A d \in Client : call'[d].pc \in {"studio", "mainline", "tags"} =>
           \/ SameUpToMark(call'[d], call[d], TRUE)
           \/ /\ SameUpToMark(call'[d], call[d], FALSE)
              /\ wsState[call[d].ws] = "PENDING" => wsState'[call[d].ws] = "PENDING"
              /\ call[d].pc = "mainline" => studio'[call[d].ws] = studio[call[d].ws],
         \A q \in Outstanding' : \E p \in Outstanding : q = p \/ MarkOf(q, p),
         \A q \in Outstanding' : q.stale = FALSE => SameFor(q.ws),
         touched' # Draft => studio'[Mainline] = studio[Mainline],
         \A w \in Draft \ touched', s \in Studio :
           \/ studio'[w][s] = studio[w][s]
           \/ \E p \in Outstanding : /\ p.ws = w /\ p.tool # "assign"
                                     /\ p.args.studio = s /\ studio'[w][s] = p.body,
         \A w \in Draft \ touched', s \in Studio :
           \/ query'[w][s] = query[w][s]
           \/ \E p \in Outstanding : /\ p.ws = w /\ p.tool = "assign"
                                     /\ p.args.studio = s /\ query'[w][s] = p.body
  PROVE  IInv'
<1>1. Types'
  BY DEF IInv, Types
<1>2. PendingCalls'
  <2> SUFFICES ASSUME NEW d \in Client, call'[d].pc \in Reading
               PROVE  Pending(d)'
    BY DEF PendingCalls
  <2>1. call[d].pc = call'[d].pc /\ Pending(d)
    BY DEF IInv, PendingCalls, SameUpToMark, Reading
  <2> QED
    BY <2>1 DEF Pending, SameUpToMark, Reading, HasStudio
<1>3. ASSUME NEW s \in Studio, touched' # Draft
      PROVE  Protected(s)' = Protected(s)
  BY <1>3 DEF Protected, HasStudio
<1>4. SoundRequests'
  <2> SUFFICES ASSUME NEW q \in Outstanding' PROVE SoundRequest(q)'
    BY DEF SoundRequests
  <2>1. PICK p \in Outstanding : q = p \/ MarkOf(q, p)
    OBVIOUS
  <2>2. SoundRequest(p) /\ p \in Requests
    BY DEF IInv, SoundRequests, SoundRequest
  <2>3. /\ q \in Requests /\ q.tool = p.tool /\ q.ws = p.ws
        /\ q.args = p.args /\ q.body = p.body
        /\ ~q.stale => ~p.stale
    BY <2>1, <2>2 DEF MarkOf
  <2>4. /\ q.ws \in Draft /\ q.stale \in BOOLEAN /\ q.args.studio \in Studio
        /\ q.ws # Mainline
    BY <2>2, <2>3, ArgFacts, StudioToolsAssumption
       DEF Requests, SoundRequest, Accepted
  <2>5. /\ Accepted(q.tool, q.ws, q.args)
        /\ q.body = Body(q.tool, q.args)
        /\ PreviewToken(q.tool, q.ws, q.args) \in issued'
    BY <2>2, <2>3 DEF SoundRequest
  <2>6. q.ws \notin touched' /\ q.tool # "assign" => ~Protected(q.args.studio)'
    BY <1>3, <2>2, <2>3, <2>4 DEF SoundRequest
  <2>7. ~q.stale /\ ~SilentLoss => IsGuarded(q)'
    <3> SUFFICES ASSUME ~q.stale, ~SilentLoss PROVE IsGuarded(q)'
      OBVIOUS
    <3>1. IsGuarded(p) /\ SameFor(q.ws)
      BY <2>2, <2>3, <2>4 DEF SoundRequest
    <3>2. IsGuarded(q)
      BY <2>3, <3>1 DEF IsGuarded
    <3>3. FoundIn(q.ws, q.args.studio)' = FoundIn(q.ws, q.args.studio)
      BY <3>1 DEF SameFor, FoundIn, HasStudio
    <3>4. FoundIn(q.ws, q.args.studio) \in {q.ws, Mainline, Nil}
      BY DEF FoundIn
    <3>5. \A u \in {q.ws, Mainline} :
            /\ QueryInForce(u, q.args.studio)' = QueryInForce(u, q.args.studio)
            /\ studio'[u] = studio[u]
      BY <3>1 DEF SameFor, QueryInForce
    <3> QED
      BY <3>1, <3>2, <3>3, <3>4, <3>5 DEF SameFor, IsGuarded, InUse
  <2> QED
    BY <2>3, <2>5, <2>6, <2>7 DEF SoundRequest
<1>5. ASSUME NEW p \in Outstanding
      PROVE  /\ p.tool \in Tool /\ p.args \in ArgsOf(p.tool)
             /\ p.body = Body(p.tool, p.args)
             /\ Shown(p.tool, p.ws, p.args.studio, p.body)
             /\ p.ws \notin touched /\ p.tool # "assign" => ~Protected(p.args.studio)
  BY DEF IInv, SoundRequests, SoundRequest, Accepted, Shown
<1>6. DraftHoldsOnlyPreviews'
  <2> SUFFICES ASSUME NEW w \in Draft \ touched', NEW s \in Studio
               PROVE  /\ studio'[w][s] # NoRow =>
                           \E tool \in {"create", "delete"} :
                             Shown(tool, w, s, studio'[w][s])
                      /\ query'[w][s] # NoRow => Shown("assign", w, s, query'[w][s])
    BY ShownStays DEF DraftHoldsOnlyPreviews, Shown
  <2>1. w \in Draft \ touched
    OBVIOUS
  <2>2. studio'[w][s] # NoRow =>
          \E tool \in {"create", "delete"} : Shown(tool, w, s, studio'[w][s])
    BY <1>5, <2>1 DEF IInv, DraftHoldsOnlyPreviews, Tool
  <2>3. query'[w][s] # NoRow => Shown("assign", w, s, query'[w][s])
    BY <1>5, <2>1 DEF IInv, DraftHoldsOnlyPreviews
  <2> QED
    BY <2>2, <2>3
<1>7. ProtectedStudiosStay'
  <2> SUFFICES ASSUME NEW w \in Draft \ touched', NEW s \in Studio, Protected(s)'
               PROVE  studio'[w][s] = NoRow
    BY DEF ProtectedStudiosStay
  <2>1. w \in Draft \ touched /\ Protected(s)
    BY <1>3
  <2> QED
    BY <1>5, <2>1 DEF IInv, ProtectedStudiosStay
<1> QED
  BY <1>1, <1>2, <1>4, <1>6, <1>7 DEF IInv

(* The requests after marking those for the drafts of D.                   *)
LEMMA MarkedOutstanding ==
  ASSUME IInv, NEW D, NEW L \in SUBSET late,
         call' \in [Client -> CallRecord],
         \A d \in Client : call'[d].pc = "await" =>
           SameUpToMark(call'[d], call[d], call[d].ws \in D),
         late' = LateStaled(L, D)
  PROVE  /\ late' \subseteq Requests
         /\ \A q \in Outstanding' :
              /\ \E p \in Outstanding : q = p \/ MarkOf(q, p)
              /\ q.ws \in Draft
              /\ q.ws \in D => q.stale = TRUE
<1>1. ASSUME NEW p \in Outstanding
      PROVE  p \in Requests /\ p.ws \in Draft
  BY DEF IInv, SoundRequests, SoundRequest, Requests
<1>2. ASSUME NEW q \in late'
      PROVE  /\ q \in Requests
             /\ \E p \in Outstanding : q = p \/ MarkOf(q, p)
             /\ q.ws \in D => q.stale = TRUE
  <2>1. PICK p \in L : q = Staled(p, D)
    BY DEF LateStaled
  <2>2. p \in Requests /\ p \in Outstanding
    BY DEF IInv, Types, Outstanding
  <2>3. CASE p.ws \in D
    BY <2>1, <2>2, <2>3 DEF Staled, MarkOf, Requests
  <2>4. CASE p.ws \notin D
    BY <2>1, <2>2, <2>4 DEF Staled
  <2> QED
    BY <2>3, <2>4
<1>3. ASSUME NEW d \in Client, call'[d].pc = "await"
      PROVE  /\ \E p \in Outstanding :
                  Request(call'[d]) = p \/ MarkOf(Request(call'[d]), p)
             /\ Request(call'[d]).ws \in D => Request(call'[d]).stale = TRUE
  <2> DEFINE p == Request(call[d])
             q == Request(call'[d])
  <2>1. call[d].pc = "await" /\ p \in Outstanding
    BY <1>3 DEF SameUpToMark, Outstanding
  <2>2. CASE call[d].ws \in D
    <3>1. MarkOf(q, p)
      BY <1>1, <1>3, <2>1, <2>2 DEF SameUpToMark, Request, MarkOf, Requests
    <3> QED
      BY <2>1, <3>1 DEF MarkOf
  <2>3. CASE call[d].ws \notin D
    <3>1. q = p
      BY <1>3, <2>3 DEF SameUpToMark, Request
    <3>2. q.ws = call[d].ws
      BY <3>1 DEF Request
    <3> QED
      BY <2>1, <2>3, <3>1, <3>2
  <2> QED
    BY <2>2, <2>3
<1>4. \A q \in Outstanding' :
        q \in late' \/ \E d \in Client : call'[d].pc = "await" /\ q = Request(call'[d])
  BY DEF Outstanding
<1>5. \A q \in Outstanding' :
        /\ \E p \in Outstanding : q = p \/ MarkOf(q, p)
        /\ q.ws \in D => q.stale = TRUE
  BY <1>2, <1>3, <1>4
<1> QED
  BY <1>1, <1>2, <1>5 DEF MarkOf

(* The calls a step marks: D are the drafts whose requests it makes stale, *)
(* M those whose calls between the two GETs of a studio, S those whose     *)
(* other calls.                                                            *)
Marks(D, M, S) ==
  \A d \in Client : call'[d].pc # "idle" =>
    SameUpToMark(call'[d], call[d],
      \/ call[d].pc = "await" /\ call[d].ws \in D
      \/ call[d].pc = "mainline" /\ call[d].ws \in M
      \/ call[d].pc \in {"studio", "tags"} /\ call[d].ws \in S)

(* What a step leaves alone in the drafts it does not mark.                *)
Spares(D, M, S) ==
  /\ \A w \in Draft \ S : wsState[w] = "PENDING" => wsState'[w] = "PENDING"
  /\ \A w \in Draft \ M : studio'[w] = studio[w]
  /\ \A w \in Draft \ D : SameFor(w)
  /\ touched' # Draft => studio'[Mainline] = studio[Mainline]

(* The rows of drafts people left alone come from requests on the wire.    *)
RowsArrive ==
  /\ \A w \in Draft \ touched', s \in Studio :
       \/ studio'[w][s] = studio[w][s]
       \/ \E p \in Outstanding : /\ p.ws = w /\ p.tool # "assign"
                                 /\ p.args.studio = s /\ studio'[w][s] = p.body
  /\ \A w \in Draft \ touched', s \in Studio :
       \/ query'[w][s] = query[w][s]
       \/ \E p \in Outstanding : /\ p.ws = w /\ p.tool = "assign"
                                 /\ p.args.studio = s /\ query'[w][s] = p.body

(* A step that marks what it does not spare.                               *)
LEMMA MarkingStep ==
  ASSUME IInv, NEW D \in SUBSET Draft, NEW M \in SUBSET D, NEW S \in SUBSET M,
         NEW L \in SUBSET late, late' = LateStaled(L, D),
         call' \in [Client -> CallRecord], CVTypes',
         UNCHANGED issued, touched \subseteq touched',
         Marks(D, M, S), Spares(D, M, S), RowsArrive
  PROVE  IInv'
<1>1. /\ late' \subseteq Requests
      /\ \A q \in Outstanding' :
           /\ \E p \in Outstanding : q = p \/ MarkOf(q, p)
           /\ q.ws \in Draft
           /\ q.ws \in D => q.stale = TRUE
  <2>1. \A d \in Client : call'[d].pc = "await" =>
          SameUpToMark(call'[d], call[d], call[d].ws \in D)
    BY DEF SameUpToMark, Marks
  <2> QED
    BY <2>1, MarkedOutstanding
<1>2. \A d \in Client : call'[d].pc = "preflight" =>
        SameUpToMark(call'[d], call[d], FALSE)
  BY DEF SameUpToMark, Marks
<1>3. ASSUME NEW d \in Client, call'[d].pc \in {"studio", "mainline", "tags"}
      PROVE  \/ SameUpToMark(call'[d], call[d], TRUE)
             \/ /\ SameUpToMark(call'[d], call[d], FALSE)
                /\ wsState[call[d].ws] = "PENDING" => wsState'[call[d].ws] = "PENDING"
                /\ call[d].pc = "mainline" => studio'[call[d].ws] = studio[call[d].ws]
  <2>1. call[d].pc = call'[d].pc
    BY <1>3 DEF SameUpToMark, Marks
  <2>2. call[d].ws \in Draft
    BY <1>3, <2>1, ReadingFacts DEF Reading
  <2>3. CASE call[d].pc = "mainline"
    BY <1>3, <2>1, <2>2, <2>3 DEF SameUpToMark, Marks, Spares
  <2>4. CASE call[d].pc \in {"studio", "tags"}
    BY <1>3, <2>1, <2>2, <2>4 DEF SameUpToMark, Marks, Spares
  <2> QED
    BY <1>3, <2>1, <2>3, <2>4
<1>4. \A q \in Outstanding' : q.stale = FALSE => SameFor(q.ws)
  <2> SUFFICES ASSUME NEW q \in Outstanding', q.stale = FALSE
               PROVE  SameFor(q.ws)
    OBVIOUS
  <2>1. q.ws \in Draft /\ q.ws \notin D
    BY <1>1
  <2> QED
    BY <2>1 DEF Spares
<1> QED
  BY <1>1, <1>2, <1>3, <1>4, ChangeStep DEF Spares, RowsArrive

(* What one request changes when it takes effect.                          *)
LEMMA EffectFacts ==
  ASSUME IInv, NEW p \in Outstanding, NEW q, q.tool = p.tool, q.ws = p.ws,
         q.args = p.args, q.body = p.body, Effect(q)
  PROVE  /\ p.ws \in Draft
         /\ CVTypes' /\ UNCHANGED <<wsState, touched>>
         /\ p.tool = "assign" => studio' = studio
         /\ \A w \in Scope \ {p.ws} : studio'[w] = studio[w] /\ query'[w] = query[w]
         /\ studio'[Mainline] = studio[Mainline]
         /\ \A w \in Draft, s \in Studio :
              \/ studio'[w][s] = studio[w][s]
              \/ /\ p.ws = w /\ p.tool # "assign"
                 /\ p.args.studio = s /\ studio'[w][s] = p.body
         /\ \A w \in Draft, s \in Studio :
              \/ query'[w][s] = query[w][s]
              \/ /\ p.ws = w /\ p.tool = "assign"
                 /\ p.args.studio = s /\ query'[w][s] = p.body
<1>1. /\ p.ws \in Draft /\ p.args.studio \in Studio
      /\ p.tool # "assign" => p.body \in Row \cup {Removed}
      /\ p.tool = "assign" => p.body \in Query
  BY ArgFacts, BodyFacts DEF IInv, SoundRequests, SoundRequest, Accepted
<1>2. /\ p.ws \in Scope /\ Mainline \in Scope /\ p.ws # Mainline
      /\ Draft \subseteq Scope
  BY <1>1, StudioToolsAssumption DEF Scope
<1>3. /\ studio \in [Scope -> [Studio -> Row \cup {NoRow, Removed}]]
      /\ query \in [Scope -> [Studio -> AnyQuery \cup {NoRow}]]
      /\ UNCHANGED <<wsState, touched>>
  BY DEF IInv, Types, CVTypes, Effect
<1>4. CASE p.tool = "assign"
  <2>1. query' = [query EXCEPT ![p.ws][p.args.studio] = p.body] /\ studio' = studio
    BY <1>4 DEF Effect
  <2> HIDE DEF Effect
  <2>2. query' \in [Scope -> [Studio -> AnyQuery \cup {NoRow}]]
    BY <1>1, <1>2, <1>3, <1>4, <2>1 DEF AnyQuery
  <2>3. CVTypes'
    BY <1>3, <2>1, <2>2 DEF IInv, Types, CVTypes
  <2> QED
    BY <1>1, <1>2, <1>3, <1>4, <2>1, <2>3
<1>5. CASE p.tool # "assign"
  <2>1. studio' = [studio EXCEPT ![p.ws][p.args.studio] = p.body] /\ query' = query
    BY <1>5 DEF Effect
  <2> HIDE DEF Effect
  <2>2. studio' \in [Scope -> [Studio -> Row \cup {NoRow, Removed}]]
    BY <1>1, <1>2, <1>3, <1>5, <2>1
  <2>3. studio'[Mainline] = studio[Mainline]
    BY <1>2, <1>3, <2>1
  <2>4. CVTypes'
    BY <1>3, <2>1, <2>2, <2>3 DEF IInv, Types, CVTypes
  <2> QED
    BY <1>1, <1>2, <1>3, <1>5, <2>1, <2>3, <2>4
<1> QED
  BY <1>4, <1>5

(* A request takes effect, of a call that waits for it or a late one.      *)
LEMMA ArrivalStep ==
  ASSUME IInv, NEW p \in Outstanding, NEW q, q.tool = p.tool, q.ws = p.ws,
         q.args = p.args, q.body = p.body, Effect(q), UNCHANGED issued,
         NEW L \in SUBSET late, late' = LateStaled(L, {p.ws}),
         call' \in [Client -> CallRecord],
         \A d \in Client : call'[d].pc # "idle" => call'[d] = StaledBy(q)[d]
  PROVE  IInv'
<1>1. /\ p.ws \in Draft
      /\ CVTypes' /\ UNCHANGED <<wsState, touched>>
      /\ p.tool = "assign" => studio' = studio
      /\ \A w \in Scope \ {p.ws} : studio'[w] = studio[w] /\ query'[w] = query[w]
      /\ studio'[Mainline] = studio[Mainline]
  BY EffectFacts
<1>2. /\ \A w \in Draft, s \in Studio :
           \/ studio'[w][s] = studio[w][s]
           \/ /\ p.ws = w /\ p.tool # "assign"
              /\ p.args.studio = s /\ studio'[w][s] = p.body
      /\ \A w \in Draft, s \in Studio :
           \/ query'[w][s] = query[w][s]
           \/ /\ p.ws = w /\ p.tool = "assign"
              /\ p.args.studio = s /\ query'[w][s] = p.body
  BY EffectFacts
<1> DEFINE D == {p.ws}
           pcs == IF p.tool = "assign" THEN {"await"} ELSE StudioRead
           M == IF p.tool = "assign" THEN {} ELSE D
<1>3. \A d \in Client :
        SameUpToMark(StaledBy(q)[d], call[d], call[d].pc \in pcs /\ call[d].ws \in D)
  <2>1. call \in [Client -> CallRecord]
    BY DEF IInv, Types
  <2>2. StaledBy(q) = CallsStaled(call, D, pcs)
    BY DEF StaledBy
  <2> HIDE DEF D, pcs
  <2> QED
    BY <2>1, <2>2, StaledCall
<1>4. D \in SUBSET Draft /\ M \in SUBSET D /\ {} \in SUBSET M
  BY <1>1
<1>5. Marks(D, M, {})
  BY <1>3 DEF SameUpToMark, StudioRead, Marks
<1>6. Spares(D, M, {})
  BY <1>1, StudioToolsAssumption DEF Scope, SameFor, Spares
<1>7. RowsArrive
  BY <1>2 DEF RowsArrive
<1>8. late' = LateStaled(L, D) /\ touched \subseteq touched'
  BY <1>1
<1> HIDE DEF D, M
<1> QED
  BY <1>1, <1>4, <1>5, <1>6, <1>7, <1>8, MarkingStep

(* A request takes effect, and its call ends.                              *)
LEMMA AppliedStep ==
  ASSUME IInv, NEW c \in Client, Applied(c)
  PROVE  IInv'
<1> DEFINE q == call[c]
           p == Request(call[c])
<1>1. /\ q.pc = "await" /\ Effect(q) /\ UNCHANGED issued
      /\ late' = LateStaled(late, {q.ws})
  BY DEF Applied
<1>2. /\ p \in Outstanding /\ q.tool = p.tool /\ q.ws = p.ws
      /\ q.args = p.args /\ q.body = p.body
  BY <1>1 DEF Outstanding, Request
<1>3. PICK code \in Codes : call' = [StaledBy(q) EXCEPT ![c] = Idle(code)]
  BY DEF Applied, Codes
<1>4. StaledBy(q) \in [Client -> CallRecord]
  BY StaledCall DEF StaledBy, IInv, Types
<1>5. /\ call' \in [Client -> CallRecord]
      /\ \A d \in Client : call'[d].pc # "idle" => call'[d] = StaledBy(q)[d]
  BY <1>3, <1>4, IdleType
<1> HIDE DEF q, p
<1> QED
  BY <1>1, <1>2, <1>5, ArrivalStep

(* A late request takes effect after all.                                  *)
LEMMA AppliedLateStep ==
  ASSUME IInv, NEW q \in late, AppliedLate(q)
  PROVE  IInv'
<1>1. /\ Effect(q) /\ UNCHANGED issued
      /\ late' = LateStaled(late \ {q}, {q.ws})
      /\ call' = StaledBy(q)
  BY DEF AppliedLate
<1>2. q \in Outstanding /\ late \ {q} \in SUBSET late
  BY DEF Outstanding
<1>3. StaledBy(q) \in [Client -> CallRecord]
  BY StaledCall DEF StaledBy, IInv, Types
<1> QED
  BY <1>1, <1>2, <1>3, ArrivalStep

(* What people, or another tool, do to the drafts D: see Touch.            *)
LEMMA TouchStep ==
  ASSUME IInv, NEW D \in SUBSET Draft, NEW pcs \in {{"await"}, StudioRead, StateRead},
         Touch(D, pcs), CVTypes',
         pcs # StateRead => wsState' = wsState,
         pcs = {"await"} => studio' = studio,
         \A w \in Scope \ D :
           /\ studio'[w] = studio[w] /\ query'[w] = query[w]
           /\ w \in Draft => wsState'[w] = wsState[w]
  PROVE  IInv'
<1> DEFINE M == IF pcs = {"await"} THEN {} ELSE D
           S == IF pcs = StateRead THEN D ELSE {}
<1>1. /\ UNCHANGED issued /\ late' = LateStaled(late, D)
      /\ call' = CallsStaled(call, D, pcs) /\ touched' = touched \cup D
  BY DEF Touch
<1>2. "mainline" \notin {"await"} /\ "mainline" \in StudioRead
      /\ StateRead # {"await"} /\ StateRead # StudioRead
  BY DEF StudioRead, StateRead
<1>3. M \in SUBSET D /\ S \in SUBSET M
  BY <1>2
<1>4. /\ call' \in [Client -> CallRecord]
      /\ \A d \in Client :
           SameUpToMark(call'[d], call[d], call[d].pc \in pcs /\ call[d].ws \in D)
  <2>1. call \in [Client -> CallRecord]
    BY DEF IInv, Types
  <2> QED
    BY <1>1, <2>1, StaledCall
<1>5. Marks(D, M, S)
  <2> SUFFICES ASSUME NEW d \in Client, call'[d].pc # "idle"
               PROVE  SameUpToMark(call'[d], call[d],
                        \/ call[d].pc = "await" /\ call[d].ws \in D
                        \/ call[d].pc = "mainline" /\ call[d].ws \in M
                        \/ call[d].pc \in {"studio", "tags"} /\ call[d].ws \in S)
    BY DEF Marks
  <2>1. call[d].pc \in {"preflight", "studio", "mainline", "tags", "await"}
    BY <1>4 DEF SameUpToMark, IInv, Types, CallRecord
  <2>2. CASE pcs = {"await"}
    BY <1>2, <1>4, <2>1, <2>2 DEF SameUpToMark
  <2>3. CASE pcs = StudioRead
    BY <1>2, <1>4, <2>1, <2>3 DEF SameUpToMark, StudioRead
  <2>4. CASE pcs = StateRead
    BY <1>2, <1>4, <2>1, <2>4 DEF SameUpToMark, StateRead
  <2> QED
    BY <2>2, <2>3, <2>4
<1>6. Spares(D, M, S)
  BY StudioToolsAssumption DEF Scope, SameFor, Spares
<1>7. RowsArrive
  BY <1>1 DEF Scope, RowsArrive
<1> HIDE DEF M, S
<1> QED
  BY <1>1, <1>3, <1>4, <1>5, <1>6, <1>7, MarkingStep

(* People put a studio into a draft, or mark one removed.                  *)
LEMMA OperatorPutsStudioStep ==
  ASSUME IInv, NEW w \in Draft, NEW s \in Studio, NEW row \in Row \cup {Removed},
         OperatorPutsStudio(w, s, row)
  PROVE  IInv'
<1>1. /\ studio' = [studio EXCEPT ![w][s] = row]
      /\ Touch({w}, StudioRead) /\ UNCHANGED <<wsState, query>>
  BY DEF OperatorPutsStudio
<1>2. touched' \subseteq Draft /\ w # Mainline /\ w \in Scope /\ Mainline \in Scope
  BY <1>1, StudioToolsAssumption DEF Touch, Scope, IInv, Types, CVTypes
<1>3. studio \in [Scope -> [Studio -> Row \cup {NoRow, Removed}]]
  BY DEF IInv, Types, CVTypes
<1>4. /\ studio' \in [Scope -> [Studio -> Row \cup {NoRow, Removed}]]
      /\ \A u \in Scope \ {w} : studio'[u] = studio[u]
  BY <1>1, <1>2, <1>3
<1>5. CVTypes'
  BY <1>1, <1>2, <1>4 DEF IInv, Types, CVTypes
<1>6. StudioRead # StateRead /\ StudioRead # {"await"}
  BY DEF StudioRead, StateRead
<1> QED
  BY <1>1, <1>4, <1>5, <1>6, TouchStep

(* People assign a query in a draft.                                       *)
LEMMA OperatorAssignsStep ==
  ASSUME IInv, NEW w \in Draft, NEW s \in Studio, NEW q \in AnyQuery,
         OperatorAssigns(w, s, q)
  PROVE  IInv'
<1>1. /\ query' = [query EXCEPT ![w][s] = q]
      /\ Touch({w}, {"await"}) /\ UNCHANGED <<wsState, studio>>
  BY DEF OperatorAssigns
<1>2. touched' \subseteq Draft /\ w \in Scope
  BY <1>1 DEF Touch, Scope, IInv, Types, CVTypes
<1>3. query \in [Scope -> [Studio -> AnyQuery \cup {NoRow}]]
  BY DEF IInv, Types, CVTypes
<1>4. /\ query' \in [Scope -> [Studio -> AnyQuery \cup {NoRow}]]
      /\ \A u \in Scope \ {w} : query'[u] = query[u]
  BY <1>1, <1>2, <1>3
<1>5. CVTypes'
  BY <1>1, <1>2, <1>4 DEF IInv, Types, CVTypes
<1> QED
  BY <1>1, <1>4, <1>5, TouchStep

(* A draft is deleted, and its rows with it.                               *)
LEMMA DraftDeletedStep ==
  ASSUME IInv, NEW w \in Draft, DraftDeleted(w)
  PROVE  IInv'
<1>1. /\ wsState' = [wsState EXCEPT ![w] = "absent"]
      /\ studio' = [studio EXCEPT ![w] = [s \in Studio |-> NoRow]]
      /\ query' = [query EXCEPT ![w] = [s \in Studio |-> NoRow]]
      /\ Touch({w}, StateRead)
  BY DEF DraftDeleted
<1>2. /\ touched' \subseteq Draft /\ w # Mainline
      /\ w \in Scope /\ Mainline \in Scope /\ Draft \subseteq Scope
  BY <1>1, StudioToolsAssumption DEF Touch, Scope, IInv, Types, CVTypes
<1>3. /\ studio \in [Scope -> [Studio -> Row \cup {NoRow, Removed}]]
      /\ query \in [Scope -> [Studio -> AnyQuery \cup {NoRow}]]
      /\ wsState \in [Draft -> WsState]
  BY DEF IInv, Types, CVTypes
<1>4. /\ studio' \in [Scope -> [Studio -> Row \cup {NoRow, Removed}]]
      /\ query' \in [Scope -> [Studio -> AnyQuery \cup {NoRow}]]
      /\ wsState' \in [Draft -> WsState]
      /\ \A u \in Scope \ {w} :
           /\ studio'[u] = studio[u] /\ query'[u] = query[u]
           /\ u \in Draft => wsState'[u] = wsState[u]
  BY <1>1, <1>2, <1>3 DEF WsState
<1>5. CVTypes'
  BY <1>2, <1>4 DEF IInv, Types, CVTypes
<1>6. StateRead # {"await"}
  BY DEF StateRead
<1> QED
  BY <1>1, <1>4, <1>5, <1>6, TouchStep

(* A draft is submitted: the mainline takes over its rows, and everybody   *)
(* who read anything of a mainline, or of this draft, is out of date.      *)
LEMMA OperatorSubmitsStep ==
  ASSUME IInv, NEW w \in Draft, OperatorSubmits(w)
  PROVE  IInv'
<1> DEFINE calls == CallsStaled(call, Draft, {"await"})
           S == {w}
<1>1. /\ wsState' = [wsState EXCEPT ![w] = "SUBMITTED"]
      /\ studio' = [studio EXCEPT ![Mainline] =
                      [s \in Studio |-> Merge(studio[w][s], studio[Mainline][s])]]
      /\ query' = [query EXCEPT ![Mainline] =
                     [s \in Studio |-> Shadowed(query[w][s], query[Mainline][s])]]
      /\ call' = CallsStaled(calls, S, StateRead)
      /\ late' = LateStaled(late, Draft)
      /\ touched' = Draft /\ UNCHANGED issued
  BY DEF OperatorSubmits
<1>2. Mainline \in Scope /\ w \in Scope /\ Mainline \notin Draft /\ Draft \subseteq Scope
  BY StudioToolsAssumption DEF Scope
<1>3. /\ studio \in [Scope -> [Studio -> Row \cup {NoRow, Removed}]]
      /\ query \in [Scope -> [Studio -> AnyQuery \cup {NoRow}]]
      /\ wsState \in [Draft -> WsState]
      /\ \A s \in Studio : studio[Mainline][s] # Removed
      /\ touched \subseteq Draft
      /\ call \in [Client -> CallRecord]
  BY DEF IInv, Types, CVTypes
<1>4. \A s \in Studio :
        /\ Merge(studio[w][s], studio[Mainline][s]) \in Row \cup {NoRow}
        /\ Shadowed(query[w][s], query[Mainline][s]) \in AnyQuery \cup {NoRow}
  BY <1>2, <1>3 DEF Merge, Shadowed
<1>5. Removed # NoRow /\ Removed \notin Row
  BY StudioToolsAssumption
<1>6. /\ studio' \in [Scope -> [Studio -> Row \cup {NoRow, Removed}]]
      /\ \A s \in Studio : studio'[Mainline][s] # Removed
      /\ \A u \in Draft : studio'[u] = studio[u]
  <2>1. [s \in Studio |-> Merge(studio[w][s], studio[Mainline][s])]
          \in [Studio -> Row \cup {NoRow, Removed}]
    BY <1>4
  <2>2. \A s \in Studio : studio'[Mainline][s] = Merge(studio[w][s], studio[Mainline][s])
    BY <1>1, <1>2, <1>3
  <2> QED
    BY <1>1, <1>2, <1>3, <1>4, <1>5, <2>1, <2>2
<1>7. /\ query' \in [Scope -> [Studio -> AnyQuery \cup {NoRow}]]
      /\ \A u \in Draft : query'[u] = query[u]
  <2>1. [s \in Studio |-> Shadowed(query[w][s], query[Mainline][s])]
          \in [Studio -> AnyQuery \cup {NoRow}]
    BY <1>4
  <2> QED
    BY <1>1, <1>2, <1>3, <2>1
<1>8. CVTypes'
  BY <1>1, <1>3, <1>6, <1>7 DEF CVTypes, WsState
<1>9. /\ calls \in [Client -> CallRecord]
      /\ \A d \in Client :
           SameUpToMark(calls[d], call[d],
                        call[d].pc \in {"await"} /\ call[d].ws \in Draft)
  BY <1>3, StaledCall
<1> HIDE DEF calls, S
<1>10. /\ call' \in [Client -> CallRecord]
       /\ \A d \in Client :
            SameUpToMark(call'[d], calls[d], calls[d].pc \in StateRead /\ calls[d].ws \in S)
  BY <1>1, <1>9, StaledCall
<1>11. S \in SUBSET Draft /\ Draft \in SUBSET Draft /\ S \in SUBSET S
  BY DEF S
<1>12. Marks(Draft, S, S)
  <2> SUFFICES ASSUME NEW d \in Client
               PROVE  SameUpToMark(call'[d], call[d],
                        \/ call[d].pc = "await" /\ call[d].ws \in Draft
                        \/ call[d].pc = "mainline" /\ call[d].ws \in S
                        \/ call[d].pc \in {"studio", "tags"} /\ call[d].ws \in S)
    BY DEF Marks
  <2>1. SameUpToMark(calls[d], call[d], call[d].pc = "await" /\ call[d].ws \in Draft)
    BY <1>9 DEF SameUpToMark
  <2>2. SameUpToMark(call'[d], calls[d], call[d].pc \in StateRead /\ call[d].ws \in S)
    BY <1>10, <2>1 DEF SameUpToMark
  <2> QED
    BY <1>11, <2>1, <2>2 DEF SameUpToMark, StateRead
<1>13. Spares(Draft, S, S)
  BY <1>1, <1>3, <1>6 DEF S, Spares
<1>14. RowsArrive /\ touched \subseteq touched' /\ late \in SUBSET late
  BY <1>1, <1>3 DEF RowsArrive
<1> QED
  BY <1>1, <1>8, <1>10, <1>11, <1>12, <1>13, <1>14, MarkingStep

(* A new draft was absent: no call that is not stale counts on it.         *)
LEMMA DraftCreatedStep ==
  ASSUME IInv, NEW w \in Draft, DraftCreated(w)
  PROVE  IInv'
<1>1. /\ wsState[w] = "absent" /\ wsState' = [wsState EXCEPT ![w] = "PENDING"]
      /\ UNCHANGED <<call, issued, late, studio, query, touched>>
  BY DEF DraftCreated
<1>2. CVTypes' /\ \A u \in Draft : wsState[u] = "PENDING" => wsState'[u] = "PENDING"
  BY <1>1 DEF IInv, Types, CVTypes, WsState
<1>3. late' = LateStaled(late, {})
  BY <1>1 DEF LateStaled, Staled
<1>4. /\ call' \in [Client -> CallRecord]
      /\ \A d \in Client : SameUpToMark(call'[d], call[d], FALSE)
  BY <1>1 DEF IInv, Types, SameUpToMark
<1>5. Marks({}, {}, {})
  BY <1>4 DEF Marks
<1>6. Spares({}, {}, {}) /\ RowsArrive
  BY <1>1, <1>2 DEF Spares, SameFor, RowsArrive
<1>7. {} \in SUBSET Draft /\ {} \in SUBSET {} /\ late \in SUBSET late
      /\ touched \subseteq touched'
  BY <1>1
<1> QED
  BY <1>1, <1>2, <1>3, <1>4, <1>5, <1>6, <1>7, MarkingStep

----------------------------------------------------------------------------
(* Calls that end without an answer, and requests that never arrive.       *)

(* A request that came to nothing only ends its call.                      *)
LEMMA RejectedStep ==
  ASSUME IInv, NEW c \in Client, Rejected(c)
  PROVE  IInv'
BY RefusalStep DEF Rejected, Codes

(* A timeout leaves the request to arrive late.                            *)
LEMMA GiveUpStep ==
  ASSUME IInv, NEW c \in Client, GiveUpAny(c)
  PROVE  IInv'
<1>1. /\ call[c].pc = "await" /\ Finish(c, "resource_write_failed")
      /\ late' = late \cup {Request(call[c])}
      /\ UNCHANGED <<issued, cvVars>>
  BY DEF GiveUpAny, GiveUp
<1> QED
  BY <1>1, EndingStep DEF IInv, Types, Codes

(* The request of a stopped process may still arrive.                      *)
LEMMA RestartStep ==
  ASSUME IInv, NEW c \in Client, RestartAny(c)
  PROVE  IInv'
<1>1. /\ Finish(c, "none") /\ UNCHANGED <<issued, cvVars>>
      /\ \/ call[c].pc = "await" /\ late' = late \cup {Request(call[c])}
         \/ late' = late
  BY DEF RestartAny, Restart
<1> QED
  BY <1>1, EndingStep DEF IInv, Types, Codes

(* Steps in which no call moves: one request fewer on the wire, or none.   *)
LEMMA NoCallStep ==
  ASSUME IInv, UNCHANGED <<call, issued, cvVars>>, late' \subseteq late
  PROVE  IInv'
<1>1. Outstanding' \subseteq Outstanding
  BY DEF Outstanding, Request
<1> QED
  BY <1>1, QuietStep DEF IInv, Types

----------------------------------------------------------------------------
(* The inductive invariant holds in every state, for any number of         *)
(* processes, drafts, studios, queries and late requests.                  *)
THEOREM Invariance == Spec => []IInv
<1>1. IInv /\ [Next]_vars => IInv'
  <2> SUFFICES ASSUME IInv, [Next]_vars PROVE IInv'
    OBVIOUS
  <2>1. CASE \E c \in Client : InvokeAny(c)
    BY <2>1, InvokeStep
  <2>2. CASE \E c \in Client : ReadWorkspace(c)
    BY <2>2, ReadWorkspaceStep
  <2>3. CASE \E c \in Client : ReadDraftStudio(c)
    BY <2>3, ReadDraftStudioStep
  <2>4. CASE \E c \in Client : ReadMainlineStudio(c)
    BY <2>4, ReadMainlineStudioStep
  <2>5. CASE \E c \in Client : ReadAssignedTags(c)
    BY <2>5, ReadAssignedTagsStep
  <2>6. CASE \E c \in Client : Applied(c)
    BY <2>6, AppliedStep
  <2>7. CASE \E c \in Client : Rejected(c)
    BY <2>7, RejectedStep
  <2>8. CASE \E c \in Client : GiveUpAny(c)
    BY <2>8, GiveUpStep
  <2>9. CASE \E c \in Client : RestartAny(c)
    BY <2>9, RestartStep
  <2>10. CASE \E q \in late : AppliedLate(q)
    BY <2>10, AppliedLateStep
  <2>11. CASE \E q \in late : DroppedLate(q)
    BY <2>11, NoCallStep DEF DroppedLate
  <2>12. CASE \E w \in Draft, s \in Studio, row \in Row \cup {Removed} :
                OperatorPutsStudio(w, s, row)
    BY <2>12, OperatorPutsStudioStep
  <2>13. CASE \E w \in Draft, s \in Studio, q \in AnyQuery : OperatorAssigns(w, s, q)
    BY <2>13, OperatorAssignsStep
  <2>14. CASE \E w \in Draft : OperatorSubmits(w)
    BY <2>14, OperatorSubmitsStep
  <2>15. CASE \E w \in Draft : DraftDeleted(w)
    BY <2>15, DraftDeletedStep
  <2>16. CASE \E w \in Draft : DraftCreated(w)
    BY <2>16, DraftCreatedStep
  <2>17. CASE UNCHANGED vars
    BY <2>17, NoCallStep DEF vars, cvVars
  <2> QED
    BY <2>1, <2>2, <2>3, <2>4, <2>5, <2>6, <2>7, <2>8, <2>9, <2>10, <2>11,
       <2>12, <2>13, <2>14, <2>15, <2>16, <2>17 DEF Next
<1> QED
  BY <1>1, InitInv, PTL DEF Spec

(* The variables of the model, among them the rows on the wire, keep their *)
(* types, and the mainline never holds a studio marked removed: TypeOK.    *)
THEOREM TypeCorrect == Spec => []TypeOK
<1>1. IInv => TypeOK
  BY InvImplies
<1> QED
  BY <1>1, Invariance, PTL

(* As long as the stream of tag queries warns of every row it loses, a     *)
(* write that nobody raced does what its tool promises: a create replaces  *)
(* nothing, a delete takes out a studio that applies to no device, an      *)
(* assign replaces the query its caller named.                             *)
THEOREM WritesAreGuarded ==
  ASSUME ~SilentLoss
  PROVE  Spec => []UnracedWriteIsGuarded
<1>1. IInv => UnracedWriteIsGuarded
  BY InvImplies
<1> QED
  BY <1>1, Invariance, PTL

(* A draft people left alone holds no row of its own but what a dry run    *)
(* has shown for that draft, however the calls race and whatever is lost.  *)
THEOREM DraftsArePreviewed == Spec => []DraftHoldsOnlyPreviews
<1>1. IInv => DraftHoldsOnlyPreviews
  BY InvImplies
<1> QED
  BY <1>1, Invariance, PTL

(* No race of the three tools puts a row over a packaged or immutable      *)
(* studio of the mainline, in a draft people left alone.                   *)
THEOREM ProtectedStay == Spec => []ProtectedStudiosStay
<1>1. IInv => ProtectedStudiosStay
  BY InvImplies
<1> QED
  BY <1>1, Invariance, PTL

----------------------------------------------------------------------------
(* What an accepted answer means.                                          *)

(* A call leaves its request accepted only when the request took effect.   *)
LEMMA AcceptedIsApplied ==
  ASSUME IInv, [Next]_vars, NEW c \in Client, call[c].pc = "await",
         call'[c].pc = "idle", call'[c].code = "accepted"
  PROVE  Applied(c)
<1>0. ASSUME NEW calls \in [Client -> CallRecord], NEW ws, NEW pcs
      PROVE  /\ CallsStaled(calls, ws, pcs) \in [Client -> CallRecord]
             /\ CallsStaled(calls, ws, pcs)[c].pc = calls[c].pc
  <2>1. SameUpToMark(CallsStaled(calls, ws, pcs)[c], calls[c],
                     calls[c].pc \in pcs /\ calls[c].ws \in ws)
    BY StaledCall
  <2> QED
    BY <2>1, StaledCall DEF SameUpToMark
<1>1. ASSUME NEW d \in Client,
             InvokeAny(d) \/ ReadWorkspace(d) \/ ReadDraftStudio(d)
               \/ ReadMainlineStudio(d) \/ ReadAssignedTags(d)
      PROVE  FALSE
  <2>1. c # d /\ (InvokeAny(d) \/ ReadWorkspace(d) => call'[c] = call[c])
    BY <1>1 DEF IInv, Types, InvokeAny, Invoke, ReadWorkspace, ReadDraftStudio,
                ReadMainlineStudio, ReadAssignedTags, Refuse, GoOn, Finish, Enter
  <2>2. ReadDraftStudio(d) \/ ReadMainlineStudio(d) \/ ReadAssignedTags(d)
          => call'[c] = call[c]
    BY <2>1 DEF IInv, Types, ReadDraftStudio, ReadMainlineStudio,
                ReadAssignedTags, Found, NotFound, CreateOver, CreateNew,
                DeleteFound, Refuse, GoOn, Finish, Gate, Send
  <2> QED
    BY <1>1, <2>1, <2>2
<1>2. ASSUME NEW d \in Client,
             Rejected(d) \/ GiveUpAny(d) \/ RestartAny(d)
      PROVE  FALSE
  <2>1. \E code \in {"resource_write_failed", "none"} : Finish(d, code)
    BY <1>2 DEF Rejected, GiveUpAny, GiveUp, RestartAny, Restart
  <2> QED
    BY <2>1 DEF Finish, Idle, IInv, Types
<1>3. ASSUME NEW calls \in [Client -> CallRecord], NEW ws, NEW pcs,
             calls[c].pc = "await", call' = CallsStaled(calls, ws, pcs)
      PROVE  FALSE
  BY <1>0, <1>3
<1>4. ASSUME NEW q, AppliedLate(q) PROVE FALSE
  BY <1>3, <1>4 DEF AppliedLate, StaledBy, IInv, Types
<1>5. ASSUME NEW ws, NEW pcs, Touch(ws, pcs) PROVE FALSE
  BY <1>3, <1>5 DEF Touch, IInv, Types
<1>6. ASSUME NEW d \in Client \ {c}, Applied(d) PROVE FALSE
  <2> DEFINE calls == StaledBy(call[d])
  <2>1. calls \in [Client -> CallRecord] /\ calls[c].pc = "await"
    BY <1>0 DEF StaledBy, IInv, Types
  <2>2. PICK code : call' = [calls EXCEPT ![d] = Idle(code)]
    BY <1>6 DEF Applied
  <2> HIDE DEF calls
  <2> QED
    BY <2>1, <2>2
<1>7. (\E q \in late : DroppedLate(q)) \/ (\E w \in Draft : DraftCreated(w))
        \/ UNCHANGED vars => call' = call
  BY DEF DroppedLate, DraftCreated, vars
<1>8. ASSUME NEW w \in Draft, OperatorSubmits(w) PROVE FALSE
  <2> DEFINE calls == CallsStaled(call, Draft, {"await"})
  <2>1. calls \in [Client -> CallRecord] /\ calls[c].pc = "await"
    BY <1>0 DEF IInv, Types
  <2>2. call' = CallsStaled(calls, {w}, StateRead)
    BY <1>8 DEF OperatorSubmits
  <2> HIDE DEF calls
  <2> QED
    BY <1>3, <2>1, <2>2
<1> QED
  BY <1>1, <1>2, <1>4, <1>5, <1>6, <1>7, <1>8
     DEF Next, OperatorPutsStudio, OperatorAssigns, DraftDeleted

(* The step that answers an unraced call of (w, a): accepted.              *)
Accepts(c, w, a) ==
  /\ call[c].pc = "await" /\ call[c].ws = w /\ call[c].args = a
  /\ ~call[c].stale
  /\ call'[c].pc = "idle" /\ call'[c].code = "accepted"

(* What a write does to the draft's studios and queries when it takes      *)
(* effect.  A removed studio shadows the mainline's.                       *)
StudioWritten(tool, w, a) ==
  /\ wsState[w] = "PENDING"
  /\ tool = "create" =>
       /\ FoundIn(w, a.studio) = Nil
       /\ studio'[w][a.studio] = [text |-> a.text, flag |-> "none"]
  /\ tool = "delete" =>
       /\ \E v \in {w, Mainline} :
            /\ FoundIn(w, a.studio) = v /\ studio[v][a.studio].flag = "none"
            /\ ~InUse(v, a.studio)
       /\ studio'[w][a.studio] = Removed
  /\ tool = "assign" =>
       /\ QueryInForce(w, a.studio) = a.expected
       /\ QueryInForce(w, a.studio)' = a.new
  /\ \A v \in Scope, s \in Studio :
       /\ tool = "assign" \/ v # w \/ s # a.studio =>
            studio'[v][s] = studio[v][s]
       /\ tool # "assign" \/ v # w \/ s # a.studio =>
            query'[v][s] = query[v][s]

(* An accepted answer to a call nobody raced tells the truth: a studio     *)
(* created was nowhere, one deleted was there, nobody's package, mutable   *)
(* and unused, a query replaced was in force; from this step on the draft  *)
(* has what was asked for, and nothing else is changed.                    *)
AcceptedWriteIsTheStudio ==
  [][\A c \in Client, tool \in Tool, w \in Draft, a \in AnyArgs :
       call[c].tool = tool /\ Accepts(c, w, a) => StudioWritten(tool, w, a)]_vars

(* As long as the helper warns of every row it loses, an accepted, unraced *)
(* create, delete or assignment has happened as asked.                     *)
THEOREM AcceptedMeansWritten ==
  ASSUME ~SilentLoss
  PROVE  Spec => AcceptedWriteIsTheStudio
<1>1. ASSUME IInv, [Next]_vars, NEW c \in Client, NEW tool \in Tool,
             NEW w \in Draft, NEW a \in AnyArgs,
             call[c].tool = tool, Accepts(c, w, a)
      PROVE  StudioWritten(tool, w, a)
  <2> DEFINE q == Request(call[c])
  <2>1. SoundRequest(q)
    BY <1>1 DEF IInv, SoundRequests, Outstanding, Accepts
  <2>2. /\ q.tool = tool /\ q.ws = w /\ q.args = a /\ ~q.stale
        /\ q.body = call[c].body
    BY <1>1 DEF Request, Accepts
  <2>3. /\ IsGuarded(q) /\ a \in ArgsOf(tool) /\ q.body = Body(tool, a)
    BY <2>1, <2>2 DEF SoundRequest, Accepted
  <2>4. Applied(c)
    BY <1>1, AcceptedIsApplied DEF Accepts
  <2>5. /\ tool = "assign" =>
             /\ query' = [query EXCEPT ![w][a.studio] = Body(tool, a)]
             /\ studio' = studio
        /\ tool # "assign" =>
             /\ studio' = [studio EXCEPT ![w][a.studio] = Body(tool, a)]
             /\ query' = query
    BY <1>1, <2>2, <2>3, <2>4 DEF Accepts, Applied, Effect
  <2>6. /\ studio \in [Scope -> [Studio -> Row \cup {NoRow, Removed}]]
        /\ query \in [Scope -> [Studio -> AnyQuery \cup {NoRow}]]
        /\ w \in Scope /\ a.studio \in Studio
    BY <1>1, <2>3, ArgFacts DEF IInv, Types, CVTypes, Scope
  <2> HIDE DEF q
  <2>7. CASE tool = "create"
    <3>1. Body(tool, a) = [text |-> a.text, flag |-> "none"]
      BY <2>7 DEF Body
    <3>2. wsState[w] = "PENDING" /\ FoundIn(w, a.studio) = Nil
      BY <2>2, <2>3, <2>7 DEF IsGuarded
    <3> QED
      BY <2>5, <2>6, <2>7, <3>1, <3>2 DEF StudioWritten
  <2>8. CASE tool = "delete"
    <3>1. Body(tool, a) = Removed
      BY <2>8 DEF Body
    <3>2. /\ wsState[w] = "PENDING"
          /\ \E v \in {w, Mainline} :
               /\ FoundIn(w, a.studio) = v /\ studio[v][a.studio].flag = "none"
               /\ ~InUse(v, a.studio)
      BY <2>2, <2>3, <2>8 DEF IsGuarded, FoundIn
    <3> QED
      BY <2>5, <2>6, <2>8, <3>1, <3>2 DEF StudioWritten
  <2>9. CASE tool = "assign"
    <3>1. Body(tool, a) = a.new /\ a.new # NoRow
      <4>1. a.new \in AnyQuery
        BY <2>3, <2>9 DEF ArgsOf, ArgRecord
      <4>2. Body(tool, a) = a.new
        BY <2>9 DEF Body
      <4> QED
        BY <4>1, <4>2, StudioToolsAssumption DEF AnyQuery
    <3>2. wsState[w] = "PENDING" /\ QueryInForce(w, a.studio) = a.expected
      BY <2>2, <2>3, <2>9 DEF IsGuarded
    <3>3. w # Mainline
      BY StudioToolsAssumption
    <3>4. QueryInForce(w, a.studio)' = a.new
      BY <2>5, <2>6, <2>9, <3>1, <3>3 DEF QueryInForce, Shadowed
    <3> QED
      BY <2>5, <2>6, <2>9, <3>2, <3>4 DEF StudioWritten
  <2> QED
    BY <2>7, <2>8, <2>9 DEF Tool
<1>2. IInv /\ [Next]_vars =>
        [\A c \in Client, tool \in Tool, w \in Draft, a \in AnyArgs :
           call[c].tool = tool /\ Accepts(c, w, a)
             => StudioWritten(tool, w, a)]_vars
  BY <1>1
<1> QED
  BY <1>2, Invariance, PTL DEF Spec, AcceptedWriteIsTheStudio

=============================================================================
