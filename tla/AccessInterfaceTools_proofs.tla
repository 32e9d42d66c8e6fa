-------------------- MODULE AccessInterfaceTools_proofs --------------------
(***************************************************************************)
(* The safety of AccessInterfaceTools for any tree, any values, any number *)
(* of processes, drafts, late requests and changes made by people.         *)
(***************************************************************************)
EXTENDS AccessInterfaceTools, Positions

CallRecord ==
  [pc : {"idle", "preflight", "document", "await"},
   tool : {"set_leaf", Nil}, ws : Workspace \cup {Nil},
   args : Args \cup {Nil}, confirm : Confirm,
   token : Token \cup {NoToken}, body : Doc \cup {Nil},
   stale : BOOLEAN, code : Codes]

Requests ==
  [tool : {"set_leaf"}, ws : Draft, args : Args, body : Doc, stale : BOOLEAN]

CVTypes ==
  /\ wsState \in [Draft -> WsState]
  /\ overlay \in [Draft -> Doc \cup {NoDoc}]
  /\ mainline \in Doc
  /\ touched \subseteq Draft
  /\ edits \in Nat

Types ==
  /\ call \in [Client -> CallRecord]
  /\ writes \in [Client -> BOOLEAN]
  /\ issued \subseteq Token
  /\ late \subseteq Requests
  /\ CVTypes

(* A call between its entry and its request.                               *)
Pending(c) ==
  /\ call[c].tool = "set_leaf"
  /\ call[c].ws \in Draft
  /\ call[c].args \in Args
  /\ Admissible(call[c].args)
  /\ call[c].confirm = "yes" => call[c].token \in issued \cup {NoToken}
  /\ call[c].pc = "preflight" => call[c].stale = FALSE
  /\ call[c].pc = "document" /\ ~call[c].stale =>
       wsState[call[c].ws] = "PENDING"

PendingCalls ==
  \A c \in Client : call[c].pc \in {"preflight", "document"} => Pending(c)

SoundRequest(q) ==
  /\ q \in Requests
  /\ Admissible(q.args)
  /\ q.body[q.args.leaf] = q.args.new
  /\ ~q.stale => wsState[q.ws] = "PENDING"
  /\ ~q.stale /\ ~SilentLoss => IsCompareAndSet(q)
  /\ q.ws \notin touched => Explained(q.ws, q.body)

SoundRequests == \A q \in Outstanding : SoundRequest(q)

SoundOverlays ==
  \A w \in Draft \ touched : ~Inherits(w) => Explained(w, overlay[w])

IInv ==
  /\ Types
  /\ PendingCalls
  /\ SoundRequests
  /\ SoundOverlays

----------------------------------------------------------------------------
(* The inductive invariant holds every property the runs check.            *)
LEMMA InvImplies ==
  IInv => /\ TypeOK
          /\ ~SilentLoss => UnracedWriteIsCompareAndSet
          /\ DraftHoldsOnlyPreviews
<1> SUFFICES ASSUME IInv
             PROVE  /\ TypeOK
                    /\ ~SilentLoss => UnracedWriteIsCompareAndSet
                    /\ DraftHoldsOnlyPreviews
  OBVIOUS
<1>1. \A c \in Client : call[c].pc # "idle" =>
        /\ call[c].tool = "set_leaf"
        /\ call[c].ws \in Draft
        /\ call[c].args \in Args
        /\ Admissible(call[c].args)
  <2> SUFFICES ASSUME NEW c \in Client, call[c].pc # "idle"
               PROVE  /\ call[c].tool = "set_leaf"
                      /\ call[c].ws \in Draft
                      /\ call[c].args \in Args
                      /\ Admissible(call[c].args)
    OBVIOUS
  <2>1. CASE call[c].pc \in {"preflight", "document"}
    BY <2>1 DEF IInv, PendingCalls, Pending
  <2>2. CASE call[c].pc = "await"
    <3>1. SoundRequest(Request(call[c]))
      BY <2>2 DEF IInv, SoundRequests, Outstanding
    <3> QED
      BY <3>1 DEF SoundRequest, Request, Requests
  <2> QED
    BY <2>1, <2>2 DEF IInv, Types, CallRecord
<1>2. TypeOK
  BY <1>1 DEF IInv, Types, CVTypes, TypeOK, CallRecord, Requests,
              SoundRequests, SoundRequest
<1> QED
  BY <1>2 DEF IInv, SoundRequests, SoundRequest, SoundOverlays,
              UnracedWriteIsCompareAndSet, DraftHoldsOnlyPreviews

(* An ended call is a record of the type of call.                          *)
LEMMA IdleType ==
  ASSUME NEW code \in Codes
  PROVE  Idle(code) \in CallRecord
BY DEF Idle, CallRecord, Confirm, NoToken

(* Initially no call is on its way and nothing is on the wire.             *)
LEMMA InitInv == Init => IInv
<1> SUFFICES ASSUME Init PROVE IInv
  OBVIOUS
<1>1. "none" \in Codes
  BY DEF Codes
<1>2. Types
  BY <1>1, IdleType DEF Init, Types, CVTypes, WsState
<1>3. \A c \in Client : call[c].pc = "idle"
  BY DEF Init, Idle
<1>4. Outstanding = {}
  BY <1>3 DEF Init, Outstanding
<1>5. SoundOverlays
  BY DEF Init, SoundOverlays, Inherits
<1> QED
  BY <1>2, <1>3, <1>4, <1>5 DEF IInv, PendingCalls, SoundRequests

(* Ending a call takes its request, if any, off the wire.                  *)
LEMMA FinishStep ==
  ASSUME call \in [Client -> CallRecord],
         NEW c \in Client, NEW code \in Codes, Finish(c, code)
  PROVE  /\ call' \in [Client -> CallRecord]
         /\ call'[c].pc = "idle"
         /\ \A d \in Client \ {c} : call'[d] = call[d]
<1>1. Idle(code) \in CallRecord /\ Idle(code).pc = "idle"
  BY IdleType DEF Idle
<1> QED
  BY <1>1 DEF Finish

(* More previews explain more.                                             *)
LEMMA ExplainedStays ==
  ASSUME issued \subseteq issued', mainline' = mainline,
         NEW w, NEW doc, Explained(w, doc)
  PROVE  Explained(w, doc)'
BY DEF Explained

(* A call that ends and leaves CloudVision alone.                          *)
LEMMA EndingStep ==
  ASSUME IInv, NEW c \in Client,
         call' \in [Client -> CallRecord], call'[c].pc = "idle",
         \A d \in Client \ {c} : call'[d] = call[d],
         writes' \in [Client -> BOOLEAN],
         issued \subseteq issued', issued' \subseteq Token,
         late' \subseteq Requests, Outstanding' \subseteq Outstanding,
         UNCHANGED cvVars
  PROVE  IInv'
<1>1. Types'
  BY DEF IInv, Types, CVTypes, cvVars
<1>2. PendingCalls'
  BY DEF IInv, PendingCalls, Pending, cvVars
<1>3. SoundRequests'
  BY ExplainedStays
     DEF IInv, SoundRequests, SoundRequest, IsCompareAndSet, DocOf, Inherits, cvVars
<1>4. SoundOverlays'
  BY ExplainedStays DEF IInv, SoundOverlays, Inherits, cvVars
<1> QED
  BY <1>1, <1>2, <1>3, <1>4 DEF IInv

(* Its commonest case: only the call changes.                              *)
LEMMA RefusalStep ==
  ASSUME IInv, NEW c \in Client, NEW code \in Codes, Finish(c, code),
         UNCHANGED <<writes, issued, late, cvVars>>
  PROVE  IInv'
<1>1. /\ call' \in [Client -> CallRecord]
      /\ call'[c].pc = "idle"
      /\ \A d \in Client \ {c} : call'[d] = call[d]
  BY FinishStep DEF IInv, Types
<1>2. Outstanding' \subseteq Outstanding
  BY <1>1 DEF Outstanding, Request
<1> QED
  BY <1>1, <1>2, EndingStep DEF IInv, Types

----------------------------------------------------------------------------
(* Steps of a call that leave CloudVision alone.                           *)

(* Invoke: a refusal, or a call that enters its tool.                      *)
LEMMA InvokeStep ==
  ASSUME IInv, NEW c \in Client, InvokeAny(c)
  PROVE  IInv'
<1>1. PICK w \in Workspace, a \in Args, confirm \in Confirm :
        \E token \in {NoToken} \cup (IF confirm = "yes" THEN issued ELSE {}) :
          Invoke(c, w, a, confirm, token)
  BY DEF InvokeAny
<1>2. PICK token \in {NoToken} \cup (IF confirm = "yes" THEN issued ELSE {}) :
        Invoke(c, w, a, confirm, token)
  BY <1>1
<1>3. UNCHANGED <<writes, issued, late, cvVars>>
  BY <1>2 DEF Invoke
<1>4. CASE \E code \in Codes : Finish(c, code)
  BY <1>3, <1>4, RefusalStep
<1>5. CASE /\ Admissible(a)
           /\ ValidateWorkspaceId(w)
           /\ Enter(c, "set_leaf", w, a, confirm, token)
  <2> DEFINE q == [pc |-> "preflight", tool |-> "set_leaf", ws |-> w,
                   args |-> a, confirm |-> confirm, token |-> token,
                   body |-> Nil, stale |-> FALSE, code |-> "none"]
  <2>1. token \in issued \cup {NoToken}
    OBVIOUS
  <2>2. q \in CallRecord
    BY <2>1 DEF CallRecord, Codes, IInv, Types
  <2>3. /\ call' \in [Client -> CallRecord]
        /\ call'[c] = q
        /\ \A d \in Client \ {c} : call'[d] = call[d]
    BY <1>5, <2>2 DEF Enter, IInv, Types
  <2>4. /\ q.pc = "preflight" /\ q.tool = "set_leaf" /\ q.ws = w
        /\ q.args = a /\ q.stale = FALSE /\ q.token = token
    OBVIOUS
  <2> HIDE DEF q
  <2>5. Outstanding' \subseteq Outstanding
    BY <1>3, <2>3, <2>4 DEF Outstanding, Request
  <2>6. Types'
    BY <1>3, <2>3 DEF IInv, Types, CVTypes, cvVars
  <2>7. PendingCalls'
    <3>1. Pending(c)'
      BY <1>3, <1>5, <2>1, <2>3, <2>4
         DEF Pending, ValidateWorkspaceId
    <3> QED
      BY <1>3, <2>3, <3>1 DEF IInv, PendingCalls, Pending, cvVars
  <2>8. SoundRequests'
    BY <1>3, <2>5 DEF IInv, SoundRequests, SoundRequest, IsCompareAndSet,
                      DocOf, Inherits, Explained, cvVars
  <2>9. SoundOverlays'
    BY <1>3 DEF IInv, SoundOverlays, Inherits, Explained, cvVars
  <2> QED
    BY <2>6, <2>7, <2>8, <2>9 DEF IInv
<1>6. DispatchRefusals(Absent(a)) \subseteq Codes
  BY DEF DispatchRefusals, Codes
<1>7. {"invalid_vlan_list", "writes_disabled", "invalid_workspace_id"}
        \subseteq Codes
  BY DEF Codes
<1> QED
  BY <1>2, <1>4, <1>5, <1>6, <1>7 DEF Invoke, Admissible

(* The GETs of the workspace and the studio: a call that goes on has found *)
(* its draft PENDING.                                                      *)
LEMMA ReadWorkspaceStep ==
  ASSUME IInv, NEW c \in Client, ReadWorkspace(c)
  PROVE  IInv'
<1>1. UNCHANGED <<writes, late, cvVars>> /\ call[c].pc = "preflight"
  BY DEF ReadWorkspace
<1>2. CASE \E code \in Codes : Refuse(c, code)
  BY <1>1, <1>2, RefusalStep DEF Refuse
<1>3. CASE /\ wsState[call[c].ws] = "PENDING"
           /\ call' = [call EXCEPT ![c].pc = "document"]
           /\ UNCHANGED issued
  <2> DEFINE q == [call[c] EXCEPT !.pc = "document"]
  <2>1. call[c] \in CallRecord
    BY DEF IInv, Types
  <2>2. /\ q \in CallRecord /\ q.pc = "document"
        /\ q.tool = call[c].tool /\ q.ws = call[c].ws
        /\ q.args = call[c].args /\ q.confirm = call[c].confirm
        /\ q.token = call[c].token
    BY <2>1 DEF CallRecord
  <2>3. /\ call' \in [Client -> CallRecord]
        /\ call'[c] = q
        /\ \A d \in Client \ {c} : call'[d] = call[d]
    BY <1>3, <2>2 DEF IInv, Types
  <2> HIDE DEF q
  <2>5. Outstanding' \subseteq Outstanding
    BY <1>1, <2>2, <2>3 DEF Outstanding, Request
  <2>6. Types'
    BY <1>1, <1>3, <2>3 DEF IInv, Types, CVTypes, cvVars
  <2>7. PendingCalls'
    <3>1. Pending(c)
      BY <1>1 DEF IInv, PendingCalls
    <3>2. Pending(c)'
      BY <1>1, <1>3, <2>2, <2>3, <3>1 DEF Pending, cvVars
    <3> QED
      BY <1>1, <1>3, <2>3, <3>2 DEF IInv, PendingCalls, Pending, cvVars
  <2>8. SoundRequests'
    BY <1>1, <1>3, <2>5 DEF IInv, SoundRequests, SoundRequest,
                            IsCompareAndSet, DocOf, Inherits, Explained, cvVars
  <2>9. SoundOverlays'
    BY <1>1, <1>3 DEF IInv, SoundOverlays, Inherits, Explained, cvVars
  <2> QED
    BY <2>6, <2>7, <2>8, <2>9 DEF IInv
<1> QED
  BY <1>2, <1>3 DEF ReadWorkspace, Codes

(* The tree posted is the tree read but for the leaf that was previewed.   *)
LEMMA PatchedType ==
  ASSUME NEW doc \in Doc, NEW a \in Args
  PROVE  /\ Patched(doc, a) \in Doc
         /\ Patched(doc, a)[a.leaf] = a.new
         /\ \A l \in Leaf \ {a.leaf} : Patched(doc, a)[l] = doc[l]
BY DEF Patched, Doc, Args

(* Patching a leaf with a previewed value keeps a document explained.      *)
LEMMA PatchedExplained ==
  ASSUME NEW w, NEW doc \in Doc, NEW a \in Args, Explained(w, doc),
         PreviewToken("set_leaf", w, a) \in issued
  PROVE  Explained(w, Patched(doc, a))
<1> SUFFICES ASSUME NEW l \in Leaf, Patched(doc, a)[l] # mainline[l]
             PROVE  \E e \in Content :
                      PreviewToken("set_leaf", w,
                        [leaf |-> l, expected |-> e,
                         new |-> Patched(doc, a)[l]]) \in issued
  BY DEF Explained
<1>1. CASE l = a.leaf
  <2>1. a = [leaf |-> l, expected |-> a.expected, new |-> Patched(doc, a)[l]]
    BY <1>1, PatchedType DEF Args
  <2>2. a.expected \in Content
    BY DEF Args
  <2> QED
    BY <2>1, <2>2
<1>2. CASE l # a.leaf
  BY <1>2, PatchedType DEF Explained
<1> QED
  BY <1>1, <1>2

(* Gate: a dry run only adds its token, and a request is sound when sent:  *)
(* its token was issued, and what was read of CloudVision holds now.       *)
LEMMA GateStep ==
  ASSUME IInv, NEW c \in Client, call[c].pc = "document",
         NEW doc \in Doc, doc = DocOf(call[c].ws) \/ SilentLoss,
         doc \in {DocOf(call[c].ws), mainline},
         doc[call[c].args.leaf] = call[c].args.expected,
         call[c].args.leaf \in VlanList => IsTrunk(doc, call[c].args.leaf),
         ChangedLeaves(doc, Patched(doc, call[c].args)) = {call[c].args.leaf},
         Gate(c, call[c].args, Patched(doc, call[c].args)),
         UNCHANGED <<writes, late, cvVars>>
  PROVE  IInv'
<1> DEFINE q == call[c]
           a == q.args
           body == Patched(doc, a)
<1>1. q \in CallRecord
  BY DEF IInv, Types
<1>2. /\ q.tool = "set_leaf" /\ q.ws \in Draft /\ a \in Args /\ Admissible(a)
      /\ q.confirm = "yes" => q.token \in issued \cup {NoToken}
      /\ ~q.stale => wsState[q.ws] = "PENDING"
  BY DEF IInv, PendingCalls, Pending
<1>3. PreviewToken(q.tool, q.ws, a) \in Token
  BY <1>2 DEF PreviewToken, Token, Workspace
<1>4. CASE /\ issued' = issued \cup {PreviewToken(q.tool, q.ws, a)}
           /\ Finish(c, "preview")
  <2>1. /\ call' \in [Client -> CallRecord]
        /\ call'[c].pc = "idle"
        /\ \A d \in Client \ {c} : call'[d] = call[d]
    BY <1>4, FinishStep DEF IInv, Types, Codes
  <2>2. Outstanding' \subseteq Outstanding
    BY <2>1 DEF Outstanding, Request
  <2> QED
    BY <1>3, <1>4, <2>1, <2>2, EndingStep DEF IInv, Types
<1>5. CASE Finish(c, "preview_required") /\ UNCHANGED issued
  BY <1>5, RefusalStep DEF Codes
<1>6. CASE /\ q.confirm = "yes"
           /\ CheckPreviewToken(q.token, q.tool, q.ws, a)
           /\ Send(c, a, body)
           /\ UNCHANGED issued
  <2>1. PreviewToken("set_leaf", q.ws, a) \in issued
    BY <1>2, <1>6 DEF CheckPreviewToken, PreviewToken, NoToken
  <2>2. body \in Doc
    BY <1>2, PatchedType
  <2> DEFINE s == [q EXCEPT !.pc = "await", !.args = a, !.body = body]
  <2>3. /\ s \in CallRecord /\ s.pc = "await" /\ Request(s) \in Requests
        /\ Request(s).ws = q.ws /\ Request(s).args = a
        /\ Request(s).body = body /\ Request(s).stale = q.stale
    BY <1>1, <1>2, <2>2 DEF CallRecord, Request, Requests
  <2>4. /\ call' \in [Client -> CallRecord]
        /\ call'[c] = s
        /\ \A d \in Client \ {c} : call'[d] = call[d]
    BY <1>6, <2>3 DEF Send, IInv, Types
  <2>5. q.ws \notin touched => Explained(q.ws, body)
    <3> SUFFICES ASSUME q.ws \notin touched PROVE Explained(q.ws, body)
      OBVIOUS
    <3>1. Explained(q.ws, mainline)
      BY DEF Explained
    <3>2. Explained(q.ws, doc)
      BY <1>2, <3>1 DEF IInv, SoundOverlays, DocOf
    <3> QED
      BY <1>2, <2>1, <3>2, PatchedExplained
  <2>6. SoundRequest(Request(s))
    BY <1>2, <2>3, <2>5, PatchedType DEF SoundRequest, IsCompareAndSet
  <2> HIDE DEF s, body
  <2>7. Outstanding' \subseteq Outstanding \cup {Request(s)}
    BY <2>4 DEF Outstanding, Request
  <2>8. Types'
    BY <1>6, <2>4 DEF IInv, Types, CVTypes, cvVars
  <2>9. PendingCalls'
    BY <1>6, <2>3, <2>4 DEF IInv, PendingCalls, Pending, cvVars
  <2>10. SoundRequests'
    BY <1>6, <2>6, <2>7 DEF IInv, SoundRequests, SoundRequest,
                            IsCompareAndSet, DocOf, Inherits, Explained, cvVars
  <2>11. SoundOverlays'
    BY <1>6 DEF IInv, SoundOverlays, Inherits, Explained, cvVars
  <2> QED
    BY <2>8, <2>9, <2>10, <2>11 DEF IInv
<1> QED
  BY <1>4, <1>5, <1>6 DEF Gate

(* The GET of the document, the comparison and what the gate makes of it.  *)
LEMMA ReadDocumentStep ==
  ASSUME IInv, NEW c \in Client, ReadDocument(c)
  PROVE  IInv'
<1>1. UNCHANGED <<writes, late, cvVars>> /\ call[c].pc = "document"
  BY DEF ReadDocument
<1>2. CASE \E code \in Codes : Refuse(c, code)
  BY <1>1, <1>2, RefusalStep DEF Refuse
<1>3. CASE \E s \in Streams(call[c].ws) :
             LoadAccepts(s) /\ CompareAndPatch(c, s.doc)
  <2>1. PICK s \in Streams(call[c].ws) :
          LoadAccepts(s) /\ CompareAndPatch(c, s.doc)
    BY <1>3
  <2>2. call[c].ws \in Draft
    BY <1>1 DEF IInv, PendingCalls, Pending
  <2>3. /\ s.doc \in {DocOf(call[c].ws), mainline}
        /\ s.doc = DocOf(call[c].ws) \/ SilentLoss
    BY <2>1 DEF Streams, Stream, LoadAccepts
  <2>4. s.doc \in Doc
    BY <2>2, <2>3 DEF DocOf, Inherits, IInv, Types, CVTypes
  <2>5. CASE \E code \in Codes : Refuse(c, code)
    BY <1>2, <2>5
  <2>6. CASE ~ \E code \in Codes : Refuse(c, code)
    BY <1>1, <2>1, <2>3, <2>4, <2>6, GateStep DEF CompareAndPatch, Codes
  <2> QED
    BY <2>5, <2>6
<1> QED
  BY <1>2, <1>3 DEF ReadDocument, Codes

----------------------------------------------------------------------------
(* Steps that change a draft or the mainline.                              *)

(* q is the request p, marked stale.                                       *)
MarkOf(q, p) ==
  /\ q \in Requests /\ q.stale = TRUE
  /\ q.ws = p.ws /\ q.args = p.args /\ q.body = p.body

(* Marking a request of a changed draft makes it stale.                    *)
LEMMA StaledRequest ==
  ASSUME NEW p \in Requests, NEW ws, p.ws \in ws
  PROVE  MarkOf(Staled(p, ws), p)
BY DEF Staled, MarkOf, Requests

(* What CallsStaled does to one call.                                      *)
LEMMA StaledRecord ==
  ASSUME NEW q \in CallRecord, NEW ws
  PROVE  /\ Staled(q, ws) \in CallRecord
         /\ Staled(q, ws).pc = q.pc /\ Staled(q, ws).tool = q.tool
         /\ Staled(q, ws).ws = q.ws /\ Staled(q, ws).args = q.args
         /\ Staled(q, ws).confirm = q.confirm /\ Staled(q, ws).token = q.token
         /\ Staled(q, ws).body = q.body
         /\ q.ws \in ws => Staled(q, ws).stale = TRUE
         /\ q.ws \notin ws => Staled(q, ws).stale = q.stale
<1>1. CASE q.ws \in ws
  <2> DEFINE s == [q EXCEPT !.stale = TRUE]
  <2>1. /\ s \in CallRecord /\ s.pc = q.pc /\ s.tool = q.tool /\ s.ws = q.ws
        /\ s.args = q.args /\ s.confirm = q.confirm /\ s.token = q.token
        /\ s.body = q.body /\ s.stale = TRUE
    BY DEF CallRecord
  <2>2. Staled(q, ws) = s
    BY <1>1 DEF Staled
  <2> HIDE DEF s
  <2> QED
    BY <1>1, <2>1, <2>2
<1>2. CASE q.ws \notin ws
  BY <1>2 DEF Staled, CallRecord
<1> QED
  BY <1>1, <1>2

(* q is p, marked stale or not.                                            *)
SameUpToMark(q, p, mark) ==
  /\ q.pc = p.pc /\ q.tool = p.tool /\ q.ws = p.ws /\ q.args = p.args
  /\ q.confirm = p.confirm /\ q.token = p.token /\ q.body = p.body
  /\ mark => q.stale = TRUE
  /\ ~mark => q.stale = p.stale

(* CallsStaled changes nothing but that mark.                              *)
LEMMA StaledCall ==
  ASSUME NEW calls \in [Client -> CallRecord], NEW ws, NEW pcs
  PROVE  /\ CallsStaled(calls, ws, pcs) \in [Client -> CallRecord]
         /\ \A c \in Client :
              SameUpToMark(CallsStaled(calls, ws, pcs)[c], calls[c],
                           calls[c].pc \in pcs /\ calls[c].ws \in ws)
<1> DEFINE q(c) == IF calls[c].pc \in pcs THEN Staled(calls[c], ws)
                                         ELSE calls[c]
<1>1. ASSUME NEW c \in Client
      PROVE  /\ q(c) \in CallRecord
             /\ SameUpToMark(q(c), calls[c],
                             calls[c].pc \in pcs /\ calls[c].ws \in ws)
  <2>1. calls[c] \in CallRecord
    OBVIOUS
  <2>2. CASE calls[c].pc \in pcs
    BY <2>1, <2>2, StaledRecord DEF SameUpToMark
  <2>3. CASE calls[c].pc \notin pcs
    BY <2>1, <2>3 DEF SameUpToMark
  <2> QED
    BY <2>2, <2>3
<1>2. CallsStaled(calls, ws, pcs) = [c \in Client |-> q(c)]
  BY DEF CallsStaled
<1> HIDE DEF q
<1> QED
  BY <1>1, <1>2

(* Every change marks the requests and the calls it makes stale, and a     *)
(* draft people have not touched only gets documents that were explained.  *)
LEMMA ChangeStep ==
  ASSUME IInv,
         call' \in [Client -> CallRecord], late' \subseteq Requests, CVTypes',
         UNCHANGED <<writes, issued>>, touched \subseteq touched',
         \A d \in Client : call'[d].pc = "preflight" =>
           SameUpToMark(call'[d], call[d], FALSE),
         \A d \in Client : call'[d].pc = "document" =>
           \/ SameUpToMark(call'[d], call[d], TRUE)
           \/ /\ SameUpToMark(call'[d], call[d], FALSE)
              /\ wsState'[call[d].ws] = wsState[call[d].ws],
         \A q \in Outstanding' : \E p \in Outstanding : q = p \/ MarkOf(q, p),
         \A q \in Outstanding' : q.stale = FALSE =>
           wsState'[q.ws] = wsState[q.ws] /\ DocOf(q.ws)' = DocOf(q.ws),
         touched' # Draft => mainline' = mainline,
         \A w \in Draft \ touched' : \/ overlay'[w] = overlay[w]
                                     \/ \E p \in Outstanding :
                                          p.ws = w /\ overlay'[w] = p.body
  PROVE  IInv'
<1>1. Types'
  BY DEF IInv, Types
<1>2. PendingCalls'
  BY DEF IInv, PendingCalls, Pending, SameUpToMark
<1>3. ASSUME NEW w \in Draft \ touched', NEW doc, Explained(w, doc)
      PROVE  Explained(w, doc)'
  <2>1. touched' # Draft
    BY <1>3
  <2> QED
    BY <1>3, <2>1 DEF Explained
<1>4. SoundRequests'
  <2> SUFFICES ASSUME NEW q \in Outstanding' PROVE SoundRequest(q)'
    BY DEF SoundRequests
  <2>1. PICK p \in Outstanding : q = p \/ MarkOf(q, p)
    OBVIOUS
  <2>2. SoundRequest(p) /\ p \in Requests
    BY DEF IInv, SoundRequests, SoundRequest
  <2>3. /\ q \in Requests /\ q.ws = p.ws /\ q.args = p.args /\ q.body = p.body
        /\ ~q.stale => ~p.stale
    BY <2>1, <2>2 DEF MarkOf
  <2>4. q.ws \in Draft /\ q.stale \in BOOLEAN
    BY <2>3 DEF Requests
  <2>5. Admissible(q.args) /\ q.body[q.args.leaf] = q.args.new
    BY <2>2, <2>3 DEF SoundRequest
  <2>6. q.ws \notin touched' => Explained(q.ws, q.body)'
    BY <1>3, <2>2, <2>3, <2>4 DEF SoundRequest
  <2>7. ~q.stale => wsState'[q.ws] = "PENDING"
    BY <2>2, <2>3, <2>4 DEF SoundRequest
  <2>8. ~q.stale /\ ~SilentLoss => IsCompareAndSet(q)'
    BY <2>2, <2>3, <2>4, <2>7 DEF SoundRequest, IsCompareAndSet
  <2> QED
    BY <2>3, <2>5, <2>6, <2>7, <2>8 DEF SoundRequest
<1>5. SoundOverlays'
  <2> SUFFICES ASSUME NEW w \in Draft \ touched', ~Inherits(w)'
               PROVE  Explained(w, overlay[w])'
    BY DEF SoundOverlays
  <2>1. mainline' = mainline /\ w \notin touched
    OBVIOUS
  <2>2. PICK doc : doc = overlay'[w]
    OBVIOUS
  <2>3. Explained(w, doc)
    <3>1. CASE doc = overlay[w]
      BY <2>1, <2>2, <3>1 DEF IInv, SoundOverlays, Inherits
    <3>2. CASE \E p \in Outstanding : p.ws = w /\ doc = p.body
      BY <2>1, <3>2 DEF IInv, SoundRequests, SoundRequest
    <3> QED
      BY <2>2, <3>1, <3>2
  <2> QED
    BY <2>1, <2>2, <2>3 DEF Explained
<1> QED
  BY <1>1, <1>2, <1>4, <1>5 DEF IInv

(* The requests after marking those for the drafts of D.                   *)
LEMMA MarkedOutstanding ==
  ASSUME IInv, NEW D, NEW L \in SUBSET late,
         call' \in [Client -> CallRecord],
         \A d \in Client : call'[d].pc = "await" =>
           SameUpToMark(call'[d], call[d], call[d].ws \in D),
         late' = LateStaled(L, D)
  PROVE  /\ late' \subseteq Requests
         /\ \A q \in Outstanding' :
              /\ \E p \in Outstanding : q = p \/ MarkOf(q, p)
              /\ q.ws \in D => q.stale = TRUE
<1>1. ASSUME NEW q \in late'
      PROVE  /\ q \in Requests
             /\ \E p \in Outstanding : q = p \/ MarkOf(q, p)
             /\ q.ws \in D => q.stale = TRUE
  <2>1. PICK p \in L : q = Staled(p, D)
    BY DEF LateStaled
  <2>2. p \in Requests /\ p \in Outstanding
    BY DEF IInv, Types, Outstanding
  <2>3. CASE p.ws \in D
    BY <2>1, <2>2, <2>3, StaledRequest DEF MarkOf
  <2>4. CASE p.ws \notin D
    BY <2>1, <2>2, <2>4 DEF Staled
  <2> QED
    BY <2>3, <2>4
<1>2. ASSUME NEW d \in Client, call'[d].pc = "await"
      PROVE  /\ \E p \in Outstanding :
                  Request(call'[d]) = p \/ MarkOf(Request(call'[d]), p)
             /\ Request(call'[d]).ws \in D => Request(call'[d]).stale = TRUE
  <2> DEFINE p == Request(call[d])
             q == Request(call'[d])
  <2>1. call[d].pc = "await" /\ p \in Outstanding
    BY <1>2 DEF SameUpToMark, Outstanding
  <2>2. CASE call[d].ws \in D
    <3>1. p \in Requests
      BY <2>1 DEF IInv, SoundRequests, SoundRequest
    <3>2. MarkOf(q, p)
      BY <1>2, <2>2, <3>1 DEF SameUpToMark, Request, MarkOf, Requests
    <3> QED
      BY <2>1, <3>2 DEF MarkOf
  <2>3. CASE call[d].ws \notin D
    <3>1. q = p
      BY <1>2, <2>3 DEF SameUpToMark, Request
    <3>2. q.ws = call[d].ws
      BY <3>1 DEF Request
    <3> QED
      BY <2>1, <2>3, <3>1, <3>2
  <2> QED
    BY <2>2, <2>3
<1>3. \A q \in Outstanding' :
        q \in late' \/ \E d \in Client : call'[d].pc = "await" /\ q = Request(call'[d])
  BY DEF Outstanding, Request
<1> QED
  BY <1>1, <1>2, <1>3

(* Every outstanding request is a sound one.                               *)
LEMMA RequestFacts ==
  ASSUME IInv, NEW q \in Outstanding
  PROVE  SoundRequest(q) /\ q.ws \in Draft /\ q.body \in Doc
BY DEF IInv, SoundRequests, SoundRequest, Requests

(* CloudVision carries out a request whose caller still waits.             *)
LEMMA AppliedStep ==
  ASSUME IInv, NEW c \in Client, Applied(c)
  PROVE  IInv'
<1> DEFINE w == call[c].ws
           calls == CallsStaled(call, {w}, {"await"})
<1>1. /\ call[c].pc = "await" /\ UNCHANGED <<writes, issued>>
      /\ late' = LateStaled(late, {w})
      /\ overlay' = [overlay EXCEPT ![w] = call[c].body]
      /\ UNCHANGED <<wsState, mainline, touched, edits>>
  BY DEF Applied, Effect
<1>2. /\ Request(call[c]) \in Outstanding
      /\ w \in Draft /\ call[c].body \in Doc
  <2>1. Request(call[c]) \in Outstanding
    BY <1>1 DEF Outstanding
  <2> QED
    BY <2>1, RequestFacts DEF Request
<1>3. PICK code \in Codes : call' = [calls EXCEPT ![c] = Idle(code)]
  BY DEF Applied, Codes
<1>4. /\ calls \in [Client -> CallRecord]
      /\ \A d \in Client :
           SameUpToMark(calls[d], call[d],
                        call[d].pc \in {"await"} /\ call[d].ws \in {w})
  BY StaledCall DEF IInv, Types
<1>5. Idle(code) \in CallRecord /\ Idle(code).pc = "idle"
  BY IdleType DEF Idle
<1> HIDE DEF calls
<1>6. /\ call' \in [Client -> CallRecord]
      /\ \A d \in Client : call'[d].pc # "idle" => call'[d] = calls[d]
  BY <1>3, <1>4, <1>5
<1>7. /\ late' \subseteq Requests
      /\ \A q \in Outstanding' :
           /\ \E p \in Outstanding : q = p \/ MarkOf(q, p)
           /\ q.ws \in {w} => q.stale = TRUE
  <2>1. \A d \in Client : call'[d].pc = "await" =>
          SameUpToMark(call'[d], call[d], call[d].ws \in {w})
    BY <1>4, <1>6 DEF SameUpToMark
  <2> QED
    BY <1>1, <1>6, <2>1, MarkedOutstanding
<1>8. CVTypes'
  BY <1>1, <1>2 DEF IInv, Types, CVTypes
<1>9. \A v \in Draft \ {w} : overlay'[v] = overlay[v] /\ DocOf(v)' = DocOf(v)
  BY <1>1 DEF DocOf, Inherits, IInv, Types, CVTypes
<1>10. \A v \in Draft : \/ overlay'[v] = overlay[v]
                        \/ \E p \in Outstanding :
                             p.ws = v /\ overlay'[v] = p.body
  <2>1. overlay'[w] = Request(call[c]).body /\ Request(call[c]).ws = w
    BY <1>1, <1>2 DEF Request, IInv, Types, CVTypes
  <2> QED
    BY <1>2, <1>9, <2>1
<1>11. \A d \in Client : call'[d].pc \in {"preflight", "document"} =>
         SameUpToMark(call'[d], call[d], FALSE)
  BY <1>4, <1>6 DEF SameUpToMark
<1>12. \A q \in Outstanding' : q.stale = FALSE =>
         wsState'[q.ws] = wsState[q.ws] /\ DocOf(q.ws)' = DocOf(q.ws)
  <2> SUFFICES ASSUME NEW q \in Outstanding', q.stale = FALSE
               PROVE  wsState'[q.ws] = wsState[q.ws] /\ DocOf(q.ws)' = DocOf(q.ws)
    OBVIOUS
  <2>1. q.ws \in Draft /\ q.ws # w
    BY <1>7, RequestFacts DEF MarkOf
  <2> QED
    BY <1>1, <1>9, <2>1
<1> QED
  BY <1>1, <1>6, <1>7, <1>8, <1>10, <1>11, <1>12, ChangeStep

(* CloudVision carries out a request nobody waits for.                     *)
LEMMA AppliedLateStep ==
  ASSUME IInv, NEW r \in late, AppliedLate(r)
  PROVE  IInv'
<1> DEFINE w == r.ws
<1>1. /\ UNCHANGED <<writes, issued>>
      /\ call' = CallsStaled(call, {w}, {"await"})
      /\ late' = LateStaled(late \ {r}, {w})
      /\ overlay' = [overlay EXCEPT ![w] = r.body]
      /\ UNCHANGED <<wsState, mainline, touched, edits>>
  BY DEF AppliedLate, Effect
<1>2. r \in Outstanding /\ w \in Draft /\ r.body \in Doc
  BY RequestFacts DEF Outstanding
<1>3. /\ call' \in [Client -> CallRecord]
      /\ \A d \in Client :
           SameUpToMark(call'[d], call[d],
                        call[d].pc \in {"await"} /\ call[d].ws \in {w})
  BY <1>1, StaledCall DEF IInv, Types
<1> HIDE DEF w
<1>4. /\ late' \subseteq Requests
      /\ \A q \in Outstanding' :
           /\ \E p \in Outstanding : q = p \/ MarkOf(q, p)
           /\ q.ws \in {w} => q.stale = TRUE
  <2>1. \A d \in Client : call'[d].pc = "await" =>
          SameUpToMark(call'[d], call[d], call[d].ws \in {w})
    BY <1>3 DEF SameUpToMark
  <2>2. late \ {r} \in SUBSET late
    OBVIOUS
  <2> QED
    BY <1>1, <1>3, <2>1, <2>2, MarkedOutstanding
<1>5. CVTypes'
  BY <1>1, <1>2 DEF IInv, Types, CVTypes
<1>6. \A v \in Draft \ {w} : overlay'[v] = overlay[v] /\ DocOf(v)' = DocOf(v)
  BY <1>1 DEF DocOf, Inherits, IInv, Types, CVTypes
<1>7. \A v \in Draft : \/ overlay'[v] = overlay[v]
                       \/ \E p \in Outstanding :
                            p.ws = v /\ overlay'[v] = p.body
  <2>1. overlay'[w] = r.body /\ r.ws = w
    BY <1>1, <1>2 DEF IInv, Types, CVTypes, w
  <2> QED
    BY <1>2, <1>6, <2>1
<1>8. \A d \in Client : call'[d].pc \in {"preflight", "document"} =>
        SameUpToMark(call'[d], call[d], FALSE)
  BY <1>3 DEF SameUpToMark
<1>9. \A q \in Outstanding' : q.stale = FALSE =>
        wsState'[q.ws] = wsState[q.ws] /\ DocOf(q.ws)' = DocOf(q.ws)
  <2> SUFFICES ASSUME NEW q \in Outstanding', q.stale = FALSE
               PROVE  wsState'[q.ws] = wsState[q.ws] /\ DocOf(q.ws)' = DocOf(q.ws)
    OBVIOUS
  <2>1. q.ws \in Draft /\ q.ws # w
    BY <1>4, RequestFacts DEF MarkOf
  <2> QED
    BY <1>1, <1>6, <2>1
<1> QED
  BY <1>1, <1>3, <1>4, <1>5, <1>7, <1>8, <1>9, ChangeStep

(* What people, or another tool, do to some drafts: calls and requests for *)
(* those drafts are marked, and nobody vouches for the drafts any longer.  *)
LEMMA TouchStep ==
  ASSUME IInv, NEW docs \in SUBSET Draft, NEW states \in SUBSET Draft,
         Touch(docs, states), CVTypes',
         \A w \in Draft \ states : wsState'[w] = wsState[w],
         \A w \in Draft \ docs : DocOf(w)' = DocOf(w) /\ overlay'[w] = overlay[w],
         docs # Draft => mainline' = mainline
  PROVE  IInv'
<1> DEFINE calls == CallsStaled(call, docs, {"await"})
           D == docs \cup states
<1>1. /\ UNCHANGED <<writes, issued>>
      /\ call' = CallsStaled(calls, states, {"document", "await"})
      /\ late' = LateStaled(late, D)
      /\ touched' = touched \cup docs \cup states
  BY DEF Touch
<1>2. /\ calls \in [Client -> CallRecord]
      /\ \A d \in Client :
           SameUpToMark(calls[d], call[d],
                        call[d].pc \in {"await"} /\ call[d].ws \in docs)
  BY StaledCall DEF IInv, Types
<1> HIDE DEF calls
<1>3. /\ call' \in [Client -> CallRecord]
      /\ \A d \in Client :
           SameUpToMark(call'[d], calls[d],
             calls[d].pc \in {"document", "await"} /\ calls[d].ws \in states)
  BY <1>1, <1>2, StaledCall
<1>4. \A d \in Client : call'[d].pc = "await" =>
        SameUpToMark(call'[d], call[d], call[d].ws \in D)
  BY <1>2, <1>3 DEF SameUpToMark
<1>5. \A d \in Client : call'[d].pc = "document" =>
        SameUpToMark(call'[d], call[d], call[d].ws \in states)
  BY <1>2, <1>3 DEF SameUpToMark
<1>6. \A d \in Client : call'[d].pc = "preflight" =>
        SameUpToMark(call'[d], call[d], FALSE)
  BY <1>2, <1>3 DEF SameUpToMark
<1> HIDE DEF D
<1>7. /\ late' \subseteq Requests
      /\ \A q \in Outstanding' :
           /\ \E p \in Outstanding : q = p \/ MarkOf(q, p)
           /\ q.ws \in D => q.stale = TRUE
  BY <1>1, <1>3, <1>4, MarkedOutstanding
<1>8. \A d \in Client : call'[d].pc = "document" =>
        \/ SameUpToMark(call'[d], call[d], TRUE)
        \/ /\ SameUpToMark(call'[d], call[d], FALSE)
           /\ wsState'[call[d].ws] = wsState[call[d].ws]
  <2> SUFFICES ASSUME NEW d \in Client, call'[d].pc = "document"
               PROVE  \/ SameUpToMark(call'[d], call[d], TRUE)
                      \/ /\ SameUpToMark(call'[d], call[d], FALSE)
                         /\ wsState'[call[d].ws] = wsState[call[d].ws]
    OBVIOUS
  <2>1. call[d].ws \in Draft
    <3>1. call[d].pc = "document"
      BY <1>5 DEF SameUpToMark
    <3> QED
      BY <3>1 DEF IInv, PendingCalls, Pending
  <2> QED
    BY <1>5, <2>1 DEF SameUpToMark
<1>9. \A q \in Outstanding' : q.stale = FALSE =>
        wsState'[q.ws] = wsState[q.ws] /\ DocOf(q.ws)' = DocOf(q.ws)
  <2> SUFFICES ASSUME NEW q \in Outstanding', q.stale = FALSE
               PROVE  wsState'[q.ws] = wsState[q.ws] /\ DocOf(q.ws)' = DocOf(q.ws)
    OBVIOUS
  <2>1. q.ws \in Draft /\ q.ws \notin docs /\ q.ws \notin states
    BY <1>7, RequestFacts DEF MarkOf, D
  <2> QED
    BY <2>1
<1>10. touched' # Draft => mainline' = mainline
  BY <1>1 DEF IInv, Types, CVTypes
<1>11. \A w \in Draft \ touched' : overlay'[w] = overlay[w]
  BY <1>1
<1> QED
  BY <1>1, <1>3, <1>6, <1>7, <1>8, <1>9, <1>10, <1>11, ChangeStep

(* People edit a leaf of a draft.                                          *)
LEMMA OperatorEditsStep ==
  ASSUME IInv, NEW w \in Draft, NEW l \in Leaf, NEW v \in Value,
         OperatorEdits(w, l, v)
  PROVE  IInv'
<1>1. /\ overlay' = [overlay EXCEPT ![w] = [DocOf(w) EXCEPT ![l] = v]]
      /\ edits' = edits + 1 /\ Touch({w}, {})
      /\ UNCHANGED <<wsState, mainline>>
  BY DEF OperatorEdits
<1>2. DocOf(w) \in Doc
  BY DEF DocOf, Inherits, IInv, Types, CVTypes
<1>3. [DocOf(w) EXCEPT ![l] = v] \in Doc
  BY <1>2 DEF Doc, Content
<1>4. touched' \subseteq Draft
  BY <1>1 DEF Touch, IInv, Types, CVTypes
<1>5. CVTypes'
  BY <1>1, <1>3, <1>4 DEF IInv, Types, CVTypes
<1>6. \A u \in Draft \ {w} : DocOf(u)' = DocOf(u) /\ overlay'[u] = overlay[u]
  BY <1>1 DEF DocOf, Inherits, IInv, Types, CVTypes
<1> QED
  BY <1>1, <1>5, <1>6, TouchStep

(* The mainline moves: every draft counts as touched.                      *)
LEMMA MainlineMovesStep ==
  ASSUME IInv, NEW l \in Leaf, NEW v \in Value, MainlineMoves(l, v)
  PROVE  IInv'
<1>1. /\ mainline' = [mainline EXCEPT ![l] = v]
      /\ edits' = edits + 1 /\ Touch(Draft, {})
      /\ UNCHANGED <<wsState, overlay>>
  BY DEF MainlineMoves
<1>2. mainline' \in Doc /\ touched' \subseteq Draft
  BY <1>1 DEF Touch, Doc, Content, IInv, Types, CVTypes
<1>3. CVTypes'
  BY <1>1, <1>2 DEF IInv, Types, CVTypes
<1> QED
  BY <1>1, <1>3, TouchStep

(* A draft is submitted: its document becomes the mainline.                *)
LEMMA OperatorSubmitsStep ==
  ASSUME IInv, NEW w \in Draft, OperatorSubmits(w)
  PROVE  IInv'
<1>1. /\ wsState' = [wsState EXCEPT ![w] = "SUBMITTED"]
      /\ mainline' = DocOf(w) /\ Touch(Draft, {w})
      /\ UNCHANGED <<overlay, edits>>
  BY DEF OperatorSubmits
<1>2. mainline' \in Doc /\ touched' \subseteq Draft
  BY <1>1 DEF Touch, DocOf, Inherits, IInv, Types, CVTypes
<1>3. CVTypes'
  BY <1>1, <1>2 DEF IInv, Types, CVTypes, WsState
<1>4. \A u \in Draft \ {w} : wsState'[u] = wsState[u]
  BY <1>1 DEF IInv, Types, CVTypes
<1> QED
  BY <1>1, <1>3, <1>4, TouchStep

(* A draft is deleted, and its document with it.                           *)
LEMMA DraftDeletedStep ==
  ASSUME IInv, NEW w \in Draft, DraftDeleted(w)
  PROVE  IInv'
<1>1. /\ wsState' = [wsState EXCEPT ![w] = "absent"]
      /\ overlay' = [overlay EXCEPT ![w] = NoDoc]
      /\ Touch({w}, {w}) /\ UNCHANGED <<mainline, edits>>
  BY DEF DraftDeleted
<1>2. touched' \subseteq Draft
  BY <1>1 DEF Touch, IInv, Types, CVTypes
<1>3. CVTypes'
  BY <1>1, <1>2 DEF IInv, Types, CVTypes, WsState
<1>4. \A u \in Draft \ {w} : /\ wsState'[u] = wsState[u]
                             /\ DocOf(u)' = DocOf(u) /\ overlay'[u] = overlay[u]
  BY <1>1 DEF DocOf, Inherits, IInv, Types, CVTypes
<1> QED
  BY <1>1, <1>3, <1>4, TouchStep

(* A new draft was absent: no call that is not stale counts on it.         *)
LEMMA DraftCreatedStep ==
  ASSUME IInv, NEW w \in Draft, DraftCreated(w)
  PROVE  IInv'
<1>1. /\ wsState[w] = "absent"
      /\ wsState' = [wsState EXCEPT ![w] = "PENDING"] /\ edits' = edits + 1
      /\ UNCHANGED <<call, writes, issued, late, overlay, mainline, touched>>
  BY DEF DraftCreated
<1>2. \A u \in Draft : wsState[u] = "PENDING" => wsState'[u] = "PENDING"
  BY <1>1 DEF IInv, Types, CVTypes
<1>3. Types'
  BY <1>1 DEF IInv, Types, CVTypes, WsState
<1>4. PendingCalls'
  BY <1>1, <1>2 DEF IInv, PendingCalls, Pending
<1>5. SoundRequests'
  <2> SUFFICES ASSUME NEW q \in Outstanding PROVE SoundRequest(q)'
    BY <1>1 DEF SoundRequests, Outstanding
  <2>1. SoundRequest(q) /\ q.ws \in Draft
    BY RequestFacts
  <2>2. ~q.stale => wsState'[q.ws] = "PENDING"
    BY <1>2, <2>1 DEF SoundRequest
  <2> QED
    BY <1>1, <2>1, <2>2
       DEF SoundRequest, IsCompareAndSet, DocOf, Inherits, Explained
<1>6. SoundOverlays'
  BY <1>1 DEF IInv, SoundOverlays, Inherits, Explained
<1> QED
  BY <1>3, <1>4, <1>5, <1>6 DEF IInv

----------------------------------------------------------------------------
(* Calls that end without an answer, and requests that never arrive.       *)

(* A request that came to nothing only ends its call.                      *)
LEMMA RejectedStep ==
  ASSUME IInv, NEW c \in Client, Rejected(c)
  PROVE  IInv'
BY RefusalStep DEF Rejected, Codes

(* A timeout leaves the request to arrive late.                            *)
LEMMA GiveUpStep ==
  ASSUME IInv, NEW c \in Client, GiveUpAny(c)
  PROVE  IInv'
<1>1. /\ call[c].pc = "await" /\ Finish(c, "resource_write_failed")
      /\ late' = late \cup {Request(call[c])}
      /\ UNCHANGED <<writes, issued, cvVars>>
  BY DEF GiveUpAny, GiveUp
<1>2. /\ call' \in [Client -> CallRecord]
      /\ call'[c].pc = "idle"
      /\ \A d \in Client \ {c} : call'[d] = call[d]
  BY <1>1, FinishStep DEF IInv, Types, Codes
<1>3. Request(call[c]) \in Outstanding
  BY <1>1 DEF Outstanding
<1>4. late' \subseteq Requests
  BY <1>1, <1>3 DEF IInv, Types, SoundRequests, SoundRequest
<1>5. Outstanding' \subseteq Outstanding
  BY <1>1, <1>2, <1>3 DEF Outstanding, Request
<1> QED
  BY <1>1, <1>2, <1>4, <1>5, EndingStep DEF IInv, Types

(* The request of a stopped process may still arrive.                      *)
LEMMA RestartStep ==
  ASSUME IInv, NEW c \in Client, RestartAny(c)
  PROVE  IInv'
<1>1. /\ Finish(c, "none") /\ UNCHANGED <<issued, cvVars>>
      /\ \E on \in BOOLEAN : writes' = [writes EXCEPT ![c] = on]
      /\ \/ call[c].pc = "await" /\ late' = late \cup {Request(call[c])}
         \/ late' = late
  BY DEF RestartAny, Restart
<1>2. /\ call' \in [Client -> CallRecord]
      /\ call'[c].pc = "idle"
      /\ \A d \in Client \ {c} : call'[d] = call[d]
  BY <1>1, FinishStep DEF IInv, Types, Codes
<1>3. call[c].pc = "await" => Request(call[c]) \in Outstanding
  BY DEF Outstanding
<1>4. late' \subseteq Requests
  BY <1>1, <1>3 DEF IInv, Types, SoundRequests, SoundRequest
<1>5. Outstanding' \subseteq Outstanding
  BY <1>1, <1>2, <1>3 DEF Outstanding, Request
<1>6. writes' \in [Client -> BOOLEAN]
  BY <1>1 DEF IInv, Types
<1> QED
  BY <1>1, <1>2, <1>4, <1>5, <1>6, EndingStep DEF IInv, Types

(* One request fewer on the wire.                                          *)
LEMMA DroppedLateStep ==
  ASSUME IInv, NEW r \in late, DroppedLate(r)
  PROVE  IInv'
<1>1. UNCHANGED <<call, writes, issued, cvVars>> /\ late' \subseteq late
  BY DEF DroppedLate
<1>2. Outstanding' \subseteq Outstanding
  BY <1>1 DEF Outstanding, Request
<1>3. Types' /\ PendingCalls'
  BY <1>1 DEF IInv, Types, CVTypes, PendingCalls, Pending, cvVars
<1>4. SoundRequests' /\ SoundOverlays'
  BY <1>1, <1>2 DEF IInv, SoundRequests, SoundRequest, SoundOverlays,
                    IsCompareAndSet, DocOf, Inherits, Explained, cvVars
<1> QED
  BY <1>3, <1>4 DEF IInv

(* Nothing changes.                                                        *)
LEMMA StutterStep ==
  ASSUME IInv, UNCHANGED vars
  PROVE  IInv'
<1>1. UNCHANGED <<call, writes, issued, late, cvVars>>
  BY DEF vars, cvVars
<1>2. Outstanding' = Outstanding
  BY <1>1 DEF Outstanding, Request
<1>3. Types' /\ PendingCalls'
  BY <1>1 DEF IInv, Types, CVTypes, PendingCalls, Pending, cvVars
<1>4. SoundRequests' /\ SoundOverlays'
  BY <1>1, <1>2 DEF IInv, SoundRequests, SoundRequest, SoundOverlays,
                    IsCompareAndSet, DocOf, Inherits, Explained, cvVars
<1> QED
  BY <1>3, <1>4 DEF IInv

----------------------------------------------------------------------------
(* The inductive invariant holds in every state, for any number of         *)
(* processes and drafts, any tree and any late request.                    *)
THEOREM Invariance == Spec => []IInv
<1>1. IInv /\ [Next]_vars => IInv'
  <2> SUFFICES ASSUME IInv, [Next]_vars PROVE IInv'
    OBVIOUS
  <2>1. CASE \E c \in Client : InvokeAny(c)
    BY <2>1, InvokeStep
  <2>2. CASE \E c \in Client : ReadWorkspace(c)
    BY <2>2, ReadWorkspaceStep
  <2>3. CASE \E c \in Client : ReadDocument(c)
    BY <2>3, ReadDocumentStep
  <2>4. CASE \E c \in Client : Applied(c)
    BY <2>4, AppliedStep
  <2>5. CASE \E c \in Client : Rejected(c)
    BY <2>5, RejectedStep
  <2>6. CASE \E c \in Client : GiveUpAny(c)
    BY <2>6, GiveUpStep
  <2>7. CASE \E c \in Client : RestartAny(c)
    BY <2>7, RestartStep
  <2>8. CASE \E q \in late : AppliedLate(q)
    BY <2>8, AppliedLateStep
  <2>9. CASE \E q \in late : DroppedLate(q)
    BY <2>9, DroppedLateStep
  <2>10. CASE \E w \in Draft, l \in Leaf, v \in Value : OperatorEdits(w, l, v)
    BY <2>10, OperatorEditsStep
  <2>11. CASE \E l \in Leaf, v \in Value : MainlineMoves(l, v)
    BY <2>11, MainlineMovesStep
  <2>12. CASE \E w \in Draft : OperatorSubmits(w)
    BY <2>12, OperatorSubmitsStep
  <2>13. CASE \E w \in Draft : DraftDeleted(w)
    BY <2>13, DraftDeletedStep
  <2>14. CASE \E w \in Draft : DraftCreated(w)
    BY <2>14, DraftCreatedStep
  <2>15. CASE UNCHANGED vars
    BY <2>15, StutterStep
  <2> QED
    BY <2>1, <2>2, <2>3, <2>4, <2>5, <2>6, <2>7, <2>8, <2>9, <2>10, <2>11,
       <2>12, <2>13, <2>14, <2>15 DEF Next
<1> QED
  BY <1>1, InitInv, PTL DEF Spec

(* The variables of the model, among them the trees on the wire, keep      *)
(* their types: see TypeOK.                                                *)
THEOREM TypeCorrect == Spec => []TypeOK
<1>1. IInv => TypeOK
  BY InvImplies
<1> QED
  BY <1>1, Invariance, PTL

(* As long as the helper warns of every row it loses, a write of a leaf    *)
(* that nobody raced is the compare-and-set that was asked for.            *)
THEOREM CompareAndSet ==
  ASSUME ~SilentLoss
  PROVE  Spec => []UnracedWriteIsCompareAndSet
<1>1. IInv => UnracedWriteIsCompareAndSet
  BY InvImplies
<1> QED
  BY <1>1, Invariance, PTL

(* A draft people left alone differs from the mainline only by what dry    *)
(* runs have shown for it, however the calls race and whatever is lost.    *)
THEOREM DraftsArePreviewed == Spec => []DraftHoldsOnlyPreviews
<1>1. IInv => DraftHoldsOnlyPreviews
  BY InvImplies
<1> QED
  BY <1>1, Invariance, PTL

----------------------------------------------------------------------------
(* The mode of a port.  EffectiveMode walks from a profile to its parent   *)
(* until it finds a mode, leaves the list or comes back; that this is the  *)
(* mode of the nearest ancestor that has one is proved along the line of   *)
(* ancestors, up to the first place where the walk must end.               *)

(* What the walk says where it has come to a profile, given what it says   *)
(* further on.                                                             *)
WalkStep(profiles, f, at) ==
  LET names == NamesOf(profiles)
      seen == at[1] \cup {at[2]}  def == ProfileIndex(profiles, at[2])
  IN IF def.mode # Blank THEN def.mode
     ELSE IF def.parent \in names \ seen THEN f[<<seen, def.parent>>] ELSE Blank

(* Where a walk may be: the names behind it, and the one it has come to.   *)
Places(profiles) == (SUBSET NamesOf(profiles)) \X NamesOf(profiles)

IsWalk(profiles, f) ==
  f = [at \in Places(profiles) |-> WalkStep(profiles, f, at)]

(* The mode of a port is what a walk says where it starts.                 *)
LEMMA EffectiveIsWalk ==
  ASSUME NEW profiles, NEW mode, NEW profile, \E f : IsWalk(profiles, f)
  PROVE  \E f : /\ IsWalk(profiles, f)
                /\ EffectiveMode(profiles, mode, profile) =
                     IF mode # Blank THEN mode
                     ELSE IF profile \in NamesOf(profiles) THEN f[<<{}, profile>>] ELSE Blank
<1> DEFINE f == CHOOSE g : IsWalk(profiles, g)
<1>1. IsWalk(profiles, f)
  OBVIOUS
<1>2. EffectiveMode(profiles, mode, profile) =
        IF mode # Blank THEN mode
        ELSE IF profile \in NamesOf(profiles) THEN f[<<{}, profile>>] ELSE Blank
  BY DEF EffectiveMode, IsWalk, WalkStep, Places
<1> HIDE DEF f
<1> QED
  BY <1>1, <1>2

(* What a walk says at one place follows from what it says further on.     *)
LEMMA WalkUnfolds ==
  ASSUME NEW profiles, NEW f, IsWalk(profiles, f), NEW at \in Places(profiles)
  PROVE  f[at] = WalkStep(profiles, f, at)
<1> DEFINE g == [x \in Places(profiles) |-> WalkStep(profiles, f, x)]
<1>1. g[at] = WalkStep(profiles, f, at)
  OBVIOUS
<1>2. f = g
  BY DEF IsWalk
<1> HIDE DEF g
<1> QED
  BY <1>1, <1>2

(* A list of profiles has finitely many names.                             *)
LEMMA NamesAreFinite ==
  ASSUME NEW profiles, IsFiniteSet(DOMAIN profiles)
  PROVE  /\ IsFiniteSet(NamesOf(profiles))
         /\ Cardinality(NamesOf(profiles)) \in Nat
<1> DEFINE f == [i \in DOMAIN profiles |-> profiles[i].name]
<1>1. f \in Surjection(DOMAIN profiles, NamesOf(profiles))
  BY DEF Surjection, NamesOf
<1>2. IsFiniteSet(NamesOf(profiles))
  BY <1>1, FS_Surjection
<1> QED
  BY <1>2, FS_CardinalityType

(* How much of a walk is left: each step but the first has one name less   *)
(* to go to.                                                               *)
Left(profiles, at) ==
  2 * Cardinality(NamesOf(profiles) \ at[1]) + (IF at[2] \in at[1] THEN 1 ELSE 0)

(* Where it goes from there.                                               *)
NextPlace(at, name) == <<at[1] \cup {at[2]}, name>>

(* Each step of a walk leaves less of it.                                  *)
LEMMA LessIsLeft ==
  ASSUME NEW profiles, IsFiniteSet(DOMAIN profiles), NEW at \in Places(profiles)
  PROVE  /\ Left(profiles, at) \in Nat
         /\ Left(profiles, at) <= 2 * Cardinality(NamesOf(profiles)) + 1
         /\ \A name \in NamesOf(profiles) \ (at[1] \cup {at[2]}) :
              /\ NextPlace(at, name) \in Places(profiles)
              /\ Left(profiles, NextPlace(at, name)) < Left(profiles, at)
<1> DEFINE names == NamesOf(profiles)
           seen == at[1]
           more == at[1] \cup {at[2]}
<1>1. IsFiniteSet(names) /\ Cardinality(names) \in Nat
  BY NamesAreFinite
<1>2. seen \in SUBSET names /\ at[2] \in names /\ more \in SUBSET names
  BY DEF Places
<1>3. /\ IsFiniteSet(names \ seen) /\ Cardinality(names \ seen) \in Nat
      /\ Cardinality(names \ seen) <= Cardinality(names)
  <2>1. names \ seen \in SUBSET names
    OBVIOUS
  <2> HIDE DEF names, seen
  <2> QED
    BY <1>1, <2>1, FS_Subset, FS_CardinalityType
<1>4. Cardinality(names \ more) =
        IF at[2] \in seen THEN Cardinality(names \ seen) ELSE Cardinality(names \ seen) - 1
  <2>1. names \ more = (names \ seen) \ {at[2]}
    OBVIOUS
  <2>2. at[2] \in seen <=> at[2] \notin names \ seen
    BY <1>2
  <2> DEFINE rest == names \ seen
             this == at[2]
  <2>3. IsFiniteSet(rest)
    BY <1>3
  <2> HIDE DEF names, seen, more
  <2>4. Cardinality(rest \ {this}) =
          IF this \in rest THEN Cardinality(rest) - 1 ELSE Cardinality(rest)
    <3> HIDE DEF rest, this
    <3> QED
      BY <2>3, FS_RemoveElement
  <2> QED
    BY <2>1, <2>2, <2>4
<1>5. Left(profiles, at) =
        2 * Cardinality(names \ seen) + (IF at[2] \in seen THEN 1 ELSE 0)
  BY DEF Left
<1>6. ASSUME NEW name \in names \ more
      PROVE  /\ NextPlace(at, name) \in Places(profiles)
             /\ Left(profiles, NextPlace(at, name)) = 2 * Cardinality(names \ more)
  <2>1. NextPlace(at, name)[1] = more /\ NextPlace(at, name)[2] = name
    BY DEF NextPlace
  <2>2. Left(profiles, NextPlace(at, name)) = 2 * Cardinality(names \ more) + 0
    BY <2>1, <1>6 DEF Left
  <2>3. Cardinality(names \ more) \in Int
    BY <1>3, <1>4
  <2>4. NextPlace(at, name) \in Places(profiles)
    BY <1>2, <1>6 DEF NextPlace, Places
  <2> HIDE DEF names, more
  <2> QED
    BY <2>2, <2>3, <2>4
<1> HIDE DEF names, seen, more
<1>7. Left(profiles, at) \in Nat /\ Left(profiles, at) <= 2 * Cardinality(names) + 1
  BY <1>1, <1>3, <1>5
<1>8. \A name \in names \ more : Left(profiles, NextPlace(at, name)) < Left(profiles, at)
  <2>1. 2 * Cardinality(names \ more) < Left(profiles, at)
    <3>1. CASE at[2] \in seen
      BY <1>3, <1>4, <1>5, <3>1
    <3>2. CASE at[2] \notin seen
      BY <1>3, <1>4, <1>5, <3>2
    <3> QED
      BY <3>1, <3>2
  <2> QED
    BY <1>6, <2>1
<1> QED
  BY <1>6, <1>7, <1>8 DEF names, seen, more

(* The walk from the places with no more than n left.                      *)
Within(profiles, n) == {at \in Places(profiles) : Left(profiles, at) <= n}

IsWalkWithin(profiles, f, n) ==
  f = [at \in Within(profiles, n) |-> WalkStep(profiles, f, at)]

(* It exists: else there would be a least n without one.                   *)
LEMMA WalkExists ==
  ASSUME NEW profiles, IsFiniteSet(DOMAIN profiles)
  PROVE  \E f : IsWalk(profiles, f)
<1> DEFINE most == 2 * Cardinality(NamesOf(profiles)) + 1
           T == {n \in 1..(most + 1) : ~ \E f : IsWalkWithin(profiles, f, n - 1)}
<1>1. most \in Nat
  BY NamesAreFinite
<1>2. ASSUME NEW n \in Nat, n # 0 => \E f : IsWalkWithin(profiles, f, n - 1)
      PROVE  \E f : IsWalkWithin(profiles, f, n)
  <2>1. PICK f : n # 0 => IsWalkWithin(profiles, f, n - 1)
    BY <1>2
  <2> DEFINE g == [at \in Within(profiles, n) |-> WalkStep(profiles, f, at)]
  <2>2. ASSUME NEW at \in Within(profiles, n)
        PROVE  WalkStep(profiles, f, at) = WalkStep(profiles, g, at)
    <3> DEFINE next == ProfileIndex(profiles, at[2]).parent
    <3>1. at \in Places(profiles) /\ Left(profiles, at) <= n
      BY DEF Within
    <3>2. CASE next \in NamesOf(profiles) \ (at[1] \cup {at[2]})
      <4> DEFINE to == NextPlace(at, next)
      <4>1. /\ to \in Places(profiles) /\ Left(profiles, to) < Left(profiles, at)
            /\ Left(profiles, to) \in Nat /\ Left(profiles, at) \in Nat
        BY <3>1, <3>2, LessIsLeft
      <4> HIDE DEF to
      <4>2. n # 0 /\ Left(profiles, to) <= n - 1 /\ Left(profiles, to) <= n
        BY <3>1, <4>1
      <4>3. to \in Within(profiles, n - 1) /\ to \in Within(profiles, n)
        BY <4>1, <4>2 DEF Within
      <4>4. g[to] = WalkStep(profiles, f, to)
        BY <4>3
      <4>5. f[to] = WalkStep(profiles, f, to)
        BY <2>1, <4>2, <4>3 DEF IsWalkWithin
      <4>6. g[to] = f[to]
        BY <4>4, <4>5
      <4> HIDE DEF g
      <4> QED
        BY <4>6 DEF WalkStep, to, NextPlace
    <3>3. CASE next \notin NamesOf(profiles) \ (at[1] \cup {at[2]})
      <4> HIDE DEF g
      <4> QED
        BY <3>3 DEF WalkStep
    <3> QED
      BY <3>2, <3>3
  <2>3. g = [at \in Within(profiles, n) |-> WalkStep(profiles, g, at)]
    <3>1. g = [at \in Within(profiles, n) |-> WalkStep(profiles, f, at)]
      OBVIOUS
    <3> HIDE DEF g
    <3> QED
      BY <2>2, <3>1
  <2> QED
    BY <2>3 DEF IsWalkWithin
<1>3. T = {}
  <2>1. SUFFICES ASSUME T # {} PROVE FALSE
    OBVIOUS
  <2>2. T \in SUBSET (1..(most + 1)) /\ most + 1 \in Nat
    BY <1>1
  <2>3. PICK x \in T : \A y \in T : x <= y
    <3> HIDE DEF T, most
    <3> QED
      BY <2>1, <2>2, FirstPosition
  <2> HIDE DEF most
  <2>4. x \in 1..(most + 1) /\ ~ \E f : IsWalkWithin(profiles, f, x - 1)
    OBVIOUS
  <2>5. x - 1 \in Nat /\ x \in Nat
    BY <1>1, <2>4
  <2>6. x - 1 # 0 => x - 1 \in 1..(most + 1) /\ x - 1 \notin T
    BY <1>1, <2>3, <2>4
  <2>7. x - 1 # 0 => \E f : IsWalkWithin(profiles, f, (x - 1) - 1)
    BY <2>6
  <2> HIDE DEF T
  <2> QED
    BY <1>2, <2>4, <2>5, <2>7
<1>4. PICK f : IsWalkWithin(profiles, f, most)
  <2> HIDE DEF most
  <2>1. most + 1 \in 1..(most + 1) /\ (most + 1) - 1 = most
    BY <1>1
  <2> QED
    BY <1>3, <2>1
<1>5. Within(profiles, most) = Places(profiles)
  BY LessIsLeft DEF Within
<1> QED
  BY <1>4, <1>5 DEF IsWalkWithin, IsWalk

----------------------------------------------------------------------------
(* The line of ancestors                                                   *)

(* Who is asked after name.                                                *)
Parent(profiles, name) ==
  IF name \in NamesOf(profiles) THEN ProfileIndex(profiles, name).parent ELSE Blank

IsLine(profiles, first, n, anc) ==
  anc = [k \in 0..n |-> IF k = 0 THEN first ELSE Parent(profiles, anc[k - 1])]

(* There is such a line: else there would be a least place up to which     *)
(* there is none.                                                          *)
LEMMA LineExists ==
  ASSUME NEW profiles, NEW first, NEW n \in Nat
  PROVE  \E anc : IsLine(profiles, first, n, anc)
<1> DEFINE T == {i \in 0..n : ~ \E anc : IsLine(profiles, first, i, anc)}
<1>1. SUFFICES ASSUME T # {} PROVE FALSE
  OBVIOUS
<1>2. T \in SUBSET (0..n)
  OBVIOUS
<1>3. PICK x \in T : \A y \in T : x <= y
  <2> HIDE DEF T
  <2> QED
    BY <1>1, <1>2, FirstNumber
<1>4. x \in 0..n /\ ~ \E anc : IsLine(profiles, first, x, anc)
  OBVIOUS
<1>5. x # 0
  <2> DEFINE anc == [k \in 0..0 |-> first]
  <2>1. anc = [k \in 0..0 |-> IF k = 0 THEN first ELSE Parent(profiles, anc[k - 1])]
    OBVIOUS
  <2>2. IsLine(profiles, first, 0, anc)
    BY <2>1 DEF IsLine
  <2> QED
    BY <1>4, <2>2
<1>6. x - 1 \in 0..n /\ x - 1 \notin T /\ x \in Nat
  BY <1>3, <1>4, <1>5
<1>7. PICK anc : IsLine(profiles, first, x - 1, anc)
  BY <1>6
<1> DEFINE longer ==
      [k \in 0..x |-> IF k = 0 THEN first ELSE Parent(profiles, anc[k - 1])]
<1>8. \A k \in 0..(x - 1) : longer[k] = anc[k]
  <2>1. \A k \in 0..(x - 1) :
          anc[k] = IF k = 0 THEN first ELSE Parent(profiles, anc[k - 1])
    BY <1>7 DEF IsLine
  <2> QED
    BY <1>6, <2>1
<1>9. longer =
        [k \in 0..x |-> IF k = 0 THEN first ELSE Parent(profiles, longer[k - 1])]
  <2>1. \A k \in 0..x : k # 0 => k - 1 \in 0..(x - 1)
    BY <1>6
  <2>2. longer = [k \in 0..x |-> IF k = 0 THEN first ELSE Parent(profiles, anc[k - 1])]
    OBVIOUS
  <2> HIDE DEF longer
  <2> QED
    BY <1>8, <2>1, <2>2
<1> HIDE DEF longer
<1>10. IsLine(profiles, first, x, longer)
  BY <1>9 DEF IsLine
<1> QED
  BY <1>4, <1>10

(* The members of the line one after the other.                            *)
FollowsParents(profiles, first, n, anc) ==
  /\ anc[0] = first
  /\ \A k \in 1..n : anc[k] = Parent(profiles, anc[k - 1])

(* Ancestors is that line.                                                 *)
LEMMA AncestorsFollow ==
  ASSUME NEW profiles, IsFiniteSet(DOMAIN profiles), NEW first
  PROVE  FollowsParents(profiles, first, Cardinality(NamesOf(profiles)),
                        Ancestors(profiles, first))
<1> DEFINE n == Cardinality(NamesOf(profiles))
           line == CHOOSE anc : IsLine(profiles, first, n, anc)
<1>1. n \in Nat
  BY NamesAreFinite
<1>2. IsLine(profiles, first, n, line)
  <2> HIDE DEF n
  <2> QED
    BY <1>1, LineExists
<1>3. Ancestors(profiles, first) = line
  BY DEF Ancestors, IsLine, Parent
<1> HIDE DEF n, line
<1>4. \A k \in 0..n :
        line[k] = IF k = 0 THEN first ELSE Parent(profiles, line[k - 1])
  BY <1>2 DEF IsLine
<1>5. FollowsParents(profiles, first, n, line)
  BY <1>1, <1>4 DEF FollowsParents
<1> QED
  BY <1>3, <1>5 DEF n

(* A walk ends where there is no profile, where it has a mode, or where it *)
(* has been before.                                                        *)
Met(anc, k) == {anc[j] : j \in 0..(k - 1)}

EndsAt(profiles, anc, k) ==
  \/ anc[k] \notin NamesOf(profiles)
  \/ HasMode(profiles, anc[k])
  \/ anc[k] \in Met(anc, k)

IsEnd(profiles, anc, end) ==
  /\ end \in 0..Cardinality(NamesOf(profiles))
  /\ EndsAt(profiles, anc, end)
  /\ \A k \in 0..(end - 1) : ~EndsAt(profiles, anc, k)

(* There are no more names to go to than there are names.                  *)
LEMMA WalkEnds ==
  ASSUME NEW profiles, IsFiniteSet(DOMAIN profiles), NEW anc
  PROVE  \E end : IsEnd(profiles, anc, end)
<1> DEFINE names == NamesOf(profiles)
           n == Cardinality(names)
           T == {k \in 0..n : EndsAt(profiles, anc, k)}
<1>1. IsFiniteSet(names) /\ n \in Nat
  BY NamesAreFinite
<1>2. T # {}
  <2>1. SUFFICES ASSUME T = {} PROVE FALSE
    OBVIOUS
  <2>2. \A k \in 0..n : anc[k] \in names /\ anc[k] \notin Met(anc, k)
    BY <2>1 DEF EndsAt
  <2> DEFINE f == [k \in 0..n |-> anc[k]]
  <2>3. f \in [0..n -> names]
    BY <2>2
  <2>4. IsFiniteSet(0..n) /\ n < Cardinality(0..n)
    <3> HIDE DEF n
    <3>1. 0 \in Int /\ n \in Int /\ ~(0 > n)
      BY <1>1
    <3> QED
      BY <1>1, <3>1, FS_Interval
  <2>5. PICK i \in 0..n, j \in 0..n : i # j /\ f[i] = f[j]
    <3> DEFINE D == 0..n
    <3>1. IsFiniteSet(D) /\ Cardinality(names) < Cardinality(D) /\ f \in [D -> names]
      BY <2>3, <2>4
    <3> HIDE DEF D, names, f
    <3>2. \E i, j \in D : i # j /\ f[i] = f[j]
      BY <1>1, <3>1, FS_PigeonHole
    <3> QED
      BY <3>2 DEF D
  <2>6. anc[i] = anc[j]
    BY <2>5
  <2> HIDE DEF n
  <2>7. i \in 0..(j - 1) \/ j \in 0..(i - 1)
    BY <1>1, <2>5
  <2>8. anc[j] \in Met(anc, j) \/ anc[i] \in Met(anc, i)
    BY <2>6, <2>7 DEF Met
  <2> QED
    BY <2>2, <2>8
<1>3. T \in SUBSET (0..n)
  OBVIOUS
<1>4. PICK end \in T : \A k \in T : end <= k
  <2> HIDE DEF T, n
  <2> QED
    BY <1>1, <1>2, <1>3, FirstNumber
<1>5. end \in 0..n /\ EndsAt(profiles, anc, end)
  OBVIOUS
<1>6. ASSUME NEW k \in 0..(end - 1) PROVE ~EndsAt(profiles, anc, k)
  <2>1. k \in 0..n /\ ~(end <= k)
    <3> HIDE DEF n, T
    <3> QED
      BY <1>1, <1>5
  <2> QED
    BY <1>4, <2>1
<1> QED
  BY <1>5, <1>6 DEF IsEnd

(* Up to its end a walk goes along the line, and then says what it says    *)
(* where it came to.                                                       *)
Follows(profiles, f, anc, k) ==
  anc[k] \in NamesOf(profiles) /\ anc[k] \notin Met(anc, k) =>
    f[<<{}, anc[0]>>] = f[<<Met(anc, k), anc[k]>>]

(* It does so by induction along the line, up to the end of the walk.      *)
LEMMA WalkFollowsLine ==
  ASSUME NEW profiles, IsFiniteSet(DOMAIN profiles), NEW first, NEW anc, NEW f,
         NEW end, IsEnd(profiles, anc, end), IsWalk(profiles, f),
         FollowsParents(profiles, first, Cardinality(NamesOf(profiles)), anc)
  PROVE  /\ \A k \in 0..end : Met(anc, k) \subseteq NamesOf(profiles)
         /\ \A k \in 0..end : Follows(profiles, f, anc, k)
<1> DEFINE names == NamesOf(profiles)
           n == Cardinality(names)
           T == {k \in 0..end : ~Follows(profiles, f, anc, k)}
<1>1. n \in Nat /\ end \in 0..n /\ end \in Nat
  <2>1. n \in Nat /\ end \in 0..n
    BY NamesAreFinite DEF IsEnd
  <2> HIDE DEF n
  <2> QED
    BY <2>1
<1>2. \A k \in 0..(end - 1) :
        anc[k] \in names /\ ~HasMode(profiles, anc[k]) /\ anc[k] \notin Met(anc, k)
  BY DEF IsEnd, EndsAt
<1>3. \A k \in 0..end : Met(anc, k) \subseteq names
  <2>1. \A k \in 0..end : \A j \in 0..(k - 1) : j \in 0..(end - 1)
    BY <1>1
  <2> QED
    BY <1>2, <2>1 DEF Met
<1>4. T = {}
  <2>1. SUFFICES ASSUME T # {} PROVE FALSE
    OBVIOUS
  <2>2. T \in SUBSET (0..end)
    OBVIOUS
  <2>3. PICK x \in T : \A y \in T : x <= y
    <3> HIDE DEF T
    <3> QED
      BY <1>1, <2>1, <2>2, FirstNumber
  <2>4. x \in 0..end /\ ~Follows(profiles, f, anc, x)
    OBVIOUS
  <2>5. x # 0
    <3>1. Met(anc, 0) = {}
      BY DEF Met
    <3>2. Follows(profiles, f, anc, 0)
      BY <3>1 DEF Follows
    <3> QED
      BY <2>4, <3>2
  <2>6. x - 1 \in 0..end /\ x - 1 \in 0..(end - 1) /\ x - 1 \notin T
    BY <1>1, <2>3, <2>4, <2>5
  <2> DEFINE y == x - 1
             at == <<Met(anc, y), anc[y]>>
  <2>7. f[<<{}, anc[0]>>] = f[at]
    <3>1. Follows(profiles, f, anc, y)
      BY <2>6
    <3> QED
      BY <1>2, <2>6, <3>1 DEF Follows
  <2>8. Met(anc, x) = Met(anc, y) \cup {anc[y]}
    <3>1. 0..(x - 1) = (0..(y - 1)) \cup {y}
      BY <1>1, <2>4, <2>5
    <3> HIDE DEF y
    <3> QED
      BY <3>1 DEF Met
  <2>9. anc[x] = ProfileIndex(profiles, anc[y]).parent
    <3>1. x \in 1..n
      <4> HIDE DEF n
      <4> QED
        BY <1>1, <2>4, <2>5
    <3>2. anc[x] = Parent(profiles, anc[y])
      BY <3>1 DEF FollowsParents
    <3> QED
      BY <1>2, <2>6, <3>2 DEF Parent
  <2>10. anc[x] \in names \ Met(anc, x)
    BY <2>4 DEF Follows
  <2>11. at \in Places(profiles)
    BY <1>2, <1>3, <2>6 DEF Places
  <2>12. ProfileIndex(profiles, anc[y]).mode = Blank
    BY <1>2, <2>6 DEF HasMode
  <2>13. f[at] = WalkStep(profiles, f, at)
    <3> HIDE DEF at
    <3> QED
      BY <2>11, WalkUnfolds
  <2>14. f[at] = f[<<Met(anc, x), anc[x]>>]
    <3>1. at[1] = Met(anc, y) /\ at[2] = anc[y]
      OBVIOUS
    <3> HIDE DEF at, y
    <3> QED
      BY <2>8, <2>9, <2>10, <2>12, <2>13, <3>1 DEF WalkStep
  <2> QED
    BY <2>4, <2>7, <2>14 DEF Follows
<1> QED
  BY <1>3, <1>4

(* A walk that ends without a mode says there is none.                     *)
LEMMA WalkIsBlank ==
  ASSUME NEW profiles, IsFiniteSet(DOMAIN profiles), NEW first, NEW anc, NEW f,
         NEW end, IsEnd(profiles, anc, end), IsWalk(profiles, f),
         FollowsParents(profiles, first, Cardinality(NamesOf(profiles)), anc),
         ~HasMode(profiles, anc[end]), first \in NamesOf(profiles)
  PROVE  f[<<{}, first>>] = Blank
<1> DEFINE names == NamesOf(profiles)
           n == Cardinality(names)
           y == end - 1
           at == <<Met(anc, y), anc[y]>>
<1>1. n \in Nat /\ end \in 0..n /\ end \in Nat
  <2>1. n \in Nat /\ end \in 0..n
    BY NamesAreFinite DEF IsEnd
  <2> HIDE DEF n
  <2> QED
    BY <2>1
<1>2. anc[0] = first
  BY DEF FollowsParents
<1>3. anc[end] \notin names \/ anc[end] \in Met(anc, end)
  BY DEF IsEnd, EndsAt
<1>4. end # 0
  <2>1. Met(anc, 0) = {}
    BY DEF Met
  <2> QED
    BY <1>2, <1>3, <2>1
<1>5. y \in 0..(end - 1) /\ y \in 0..end /\ end \in 1..n
  <2> HIDE DEF n
  <2> QED
    BY <1>1, <1>4
<1>6. anc[y] \in names /\ ~HasMode(profiles, anc[y]) /\ anc[y] \notin Met(anc, y)
  <2> HIDE DEF y
  <2> QED
    BY <1>5 DEF IsEnd, EndsAt
<1>7. Follows(profiles, f, anc, y) /\ Met(anc, y) \subseteq names
  <2> HIDE DEF y
  <2> QED
    BY <1>5, WalkFollowsLine
<1>8. f[<<{}, first>>] = f[at]
  BY <1>2, <1>6, <1>7 DEF Follows
<1>9. f[at] = WalkStep(profiles, f, at)
  <2>1. at \in Places(profiles)
    BY <1>6, <1>7 DEF Places
  <2> HIDE DEF at
  <2> QED
    BY <2>1, WalkUnfolds
<1>10. ProfileIndex(profiles, anc[y]).parent = anc[end]
  <2>1. anc[end] = Parent(profiles, anc[y])
    BY <1>5 DEF FollowsParents
  <2> QED
    BY <1>6, <2>1 DEF Parent
<1>11. Met(anc, end) = Met(anc, y) \cup {anc[y]}
  <2>1. 0..(end - 1) = (0..(y - 1)) \cup {y}
    BY <1>1, <1>4
  <2> HIDE DEF y
  <2> QED
    BY <2>1 DEF Met
<1>12. ProfileIndex(profiles, anc[y]).mode = Blank
  BY <1>6 DEF HasMode
<1>13. at[1] = Met(anc, y) /\ at[2] = anc[y]
  OBVIOUS
<1> HIDE DEF at, y
<1> QED
  BY <1>3, <1>8, <1>9, <1>10, <1>11, <1>12, <1>13 DEF WalkStep

(* Where a walk ends without a mode nobody on the line has one: the line   *)
(* has left the profiles for good, or goes round among those it has met.   *)
LEMMA NobodyHasMode ==
  ASSUME NEW profiles, IsFiniteSet(DOMAIN profiles), Blank \notin NamesOf(profiles),
         NEW first, NEW anc, NEW end, IsEnd(profiles, anc, end),
         FollowsParents(profiles, first, Cardinality(NamesOf(profiles)), anc),
         ~HasMode(profiles, anc[end]),
         NEW k \in 0..Cardinality(NamesOf(profiles))
  PROVE  ~HasMode(profiles, anc[k])
<1> DEFINE names == NamesOf(profiles)
           n == Cardinality(names)
<1>1. n \in Nat /\ end \in 0..n /\ end \in Nat
  <2>1. n \in Nat /\ end \in 0..n
    BY NamesAreFinite DEF IsEnd
  <2> HIDE DEF n
  <2> QED
    BY <2>1
<1>2. \A j \in 0..(end - 1) : anc[j] \in names /\ ~HasMode(profiles, anc[j])
  BY DEF IsEnd, EndsAt
<1>3. \A j \in 1..n : anc[j] = Parent(profiles, anc[j - 1])
  BY DEF FollowsParents
<1>4. CASE anc[end] \notin names
  <2> DEFINE T == {j \in 0..n : j >= end /\ anc[j] \in names}
  <2>1. T = {}
    <3>1. SUFFICES ASSUME T # {} PROVE FALSE
      OBVIOUS
    <3>2. T \in SUBSET (0..n)
      OBVIOUS
    <3>3. PICK x \in T : \A y \in T : x <= y
      <4> HIDE DEF T, n
      <4> QED
        BY <1>1, <3>1, <3>2, FirstNumber
    <3>4. x \in 0..n /\ x >= end /\ anc[x] \in names
      OBVIOUS
    <3> HIDE DEF n
    <3>5. x # end
      BY <1>4, <3>4
    <3>6. x \in 1..n /\ x - 1 \in 0..n /\ x - 1 >= end /\ ~(x <= x - 1)
      BY <1>1, <3>4, <3>5
    <3>7. anc[x - 1] \notin names
      BY <3>3, <3>6
    <3>8. anc[x] = Blank
      BY <1>3, <3>6, <3>7 DEF Parent
    <3> QED
      BY <3>4, <3>8
  <2>2. k \in 0..(end - 1) \/ anc[k] \notin names
    <3>1. k >= end \/ k \in 0..(end - 1)
      <4> HIDE DEF n
      <4> QED
        BY <1>1
    <3> QED
      BY <2>1, <3>1
  <2> QED
    BY <1>2, <2>2 DEF HasMode
<1>5. CASE anc[end] \in Met(anc, end)
  <2> DEFINE T == {j \in 0..n : anc[j] \notin Met(anc, end)}
  <2>1. T = {}
    <3>1. SUFFICES ASSUME T # {} PROVE FALSE
      OBVIOUS
    <3>2. T \in SUBSET (0..n)
      OBVIOUS
    <3>3. PICK x \in T : \A y \in T : x <= y
      <4> HIDE DEF T, n
      <4> QED
        BY <1>1, <3>1, <3>2, FirstNumber
    <3>4. x \in 0..n /\ anc[x] \notin Met(anc, end)
      OBVIOUS
    <3>5. x # end /\ x \notin 0..(end - 1)
      BY <1>5, <3>4 DEF Met
    <3> HIDE DEF n
    <3>6. x \in 1..n /\ x - 1 \in 0..n /\ ~(x <= x - 1)
      BY <1>1, <3>4, <3>5
    <3>7. PICK j \in 0..(end - 1) : anc[x - 1] = anc[j]
      BY <3>3, <3>6 DEF Met
    <3>8. j + 1 \in 1..n /\ (j + 1) - 1 = j /\ (j + 1 \in 0..(end - 1) \/ j + 1 = end)
      BY <1>1, <3>7
    <3>9. anc[x] = anc[j + 1]
      BY <1>3, <3>6, <3>7, <3>8
    <3> QED
      BY <1>5, <3>4, <3>8, <3>9 DEF Met
  <2>2. PICK j \in 0..(end - 1) : anc[k] = anc[j]
    BY <2>1 DEF Met
  <2> QED
    BY <1>2, <2>2
<1> QED
  BY <1>4, <1>5 DEF IsEnd, EndsAt

(* The mode the code takes is that of the nearest ancestor that has one.   *)
LEMMA NearestProfileCounts ==
  ASSUME NEW profiles, IsFiniteSet(DOMAIN profiles),
         \A i \in DOMAIN profiles : profiles[i].name # Blank,
         NEW mode, NEW first
  PROVE  EffectiveMode(profiles, mode, first) =
           IF mode # Blank THEN mode ELSE NearestMode(profiles, first)
<1> DEFINE names == NamesOf(profiles)
           n == Cardinality(names)
           anc == Ancestors(profiles, first)
           says == {k \in 0..n : HasMode(profiles, anc[k])}
<1>1. Blank \notin names
  BY DEF NamesOf
<1>2. PICK f : /\ IsWalk(profiles, f)
               /\ EffectiveMode(profiles, mode, first) =
                    IF mode # Blank THEN mode
                    ELSE IF first \in names THEN f[<<{}, first>>] ELSE Blank
  BY WalkExists, EffectiveIsWalk
<1>3. NearestMode(profiles, first) =
        IF says = {} THEN Blank
        ELSE ProfileIndex(profiles, anc[CHOOSE k \in says : \A j \in says : k <= j]).mode
  BY DEF NearestMode
<1>4. FollowsParents(profiles, first, n, anc)
  BY AncestorsFollow
<1>5. anc[0] = first
  BY <1>4 DEF FollowsParents
<1> HIDE DEF anc
<1>6. PICK end : IsEnd(profiles, anc, end)
  BY WalkEnds
<1>7. n \in Nat /\ end \in 0..n /\ end \in Nat
  <2>1. n \in Nat /\ end \in 0..n
    BY <1>6, NamesAreFinite DEF IsEnd
  <2> HIDE DEF n
  <2> QED
    BY <2>1
<1>8. CASE HasMode(profiles, anc[end])
  <2>1. \A k \in 0..(end - 1) : anc[k] \in names /\ ~HasMode(profiles, anc[k])
    BY <1>6 DEF IsEnd, EndsAt
  <2>2. end \in says
    BY <1>7, <1>8
  <2>3. \A k \in says : k \in Nat /\ end <= k
    <3>1. \A k \in says : k \in 0..n /\ k \notin 0..(end - 1)
      BY <2>1
    <3> HIDE DEF n, says
    <3> QED
      BY <1>7, <3>1
  <2> HIDE DEF says
  <2>4. (CHOOSE k \in says : \A j \in says : k <= j) = end
    <3>1. \A k \in says : (\A j \in says : k <= j) => k = end
      BY <1>7, <2>2, <2>3
    <3>2. \A j \in says : end <= j
      BY <2>3
    <3> QED
      BY <2>2, <3>1, <3>2
  <2>5. NearestMode(profiles, first) = ProfileIndex(profiles, anc[end]).mode
    BY <1>3, <2>2, <2>4
  <2>6. first \in names
    <3>1. end = 0 \/ 0 \in 0..(end - 1)
      BY <1>7
    <3> QED
      BY <1>5, <1>8, <2>1, <3>1 DEF HasMode
  <2>7. anc[end] \in names /\ anc[end] \notin Met(anc, end)
    BY <1>8, <2>1 DEF HasMode, Met
  <2>8. Met(anc, end) \subseteq names /\ Follows(profiles, f, anc, end)
    <3>1. end \in 0..end
      BY <1>7
    <3> QED
      BY <1>2, <1>4, <1>6, <3>1, WalkFollowsLine
  <2> DEFINE at == <<Met(anc, end), anc[end]>>
  <2>9. f[<<{}, first>>] = f[at]
    BY <1>5, <2>7, <2>8 DEF Follows
  <2>10. at \in Places(profiles) /\ at[2] = anc[end]
    BY <2>7, <2>8 DEF Places
  <2> HIDE DEF at
  <2>11. f[at] = ProfileIndex(profiles, anc[end]).mode
    <3>1. f[at] = WalkStep(profiles, f, at)
      BY <1>2, <2>10, WalkUnfolds
    <3> QED
      BY <1>8, <2>10, <3>1 DEF WalkStep, HasMode
  <2> QED
    BY <1>2, <2>5, <2>6, <2>9, <2>11
<1>9. CASE ~HasMode(profiles, anc[end])
  <2>1. \A k \in 0..n : ~HasMode(profiles, anc[k])
    BY <1>1, <1>4, <1>6, <1>9, NobodyHasMode
  <2>2. says = {}
    BY <2>1
  <2>3. first \in names => f[<<{}, first>>] = Blank
    BY <1>2, <1>4, <1>6, <1>9, WalkIsBlank
  <2> HIDE DEF says
  <2> QED
    BY <1>2, <1>3, <2>2, <2>3
<1> QED
  BY <1>8, <1>9

(* Whatever the lists of profiles are, the mode of a port is its own or    *)
(* that of the nearest of its profiles that has one.                       *)
THEOREM ModesAreOfTheNearest == Spec => []ModeIsOfTheNearestProfile
<1>1. Misread = {}
  <2>1. SUFFICES ASSUME NEW profiles \in ProfileLists, NEW mode, NEW first
                 PROVE  EffectiveMode(profiles, mode, first) =
                          IF mode # Blank THEN mode ELSE NearestMode(profiles, first)
    BY <2>1 DEF Misread
  <2>2. /\ IsFiniteSet(DOMAIN profiles)
        /\ \A i \in DOMAIN profiles : profiles[i].name # Blank
    BY AccessInterfaceAssumption
  <2> QED
    BY <2>2, NearestProfileCounts
<1>2. ModeIsOfTheNearestProfile
  BY <1>1 DEF ModeIsOfTheNearestProfile
<1> QED
  BY <1>2, PTL

----------------------------------------------------------------------------
(* AccessInterfaceTools implements SnapshotWrites, if no row of a stream   *)
(* is lost without a warning.                                              *)

(* The writes on their way, as SnapshotWrites holds them.                  *)
Holding == {Held(q) : q \in Outstanding}

(* q is p, but perhaps for the mark: SnapshotWrites holds the same.        *)
LEMMA MarkedIsHeld ==
  ASSUME NEW p \in Requests, NEW q, q = p \/ MarkOf(q, p)
  PROVE  Held(q) = Held(p)
<1>1. q.tool = p.tool /\ q.ws = p.ws /\ q.args = p.args /\ q.body = p.body
  BY DEF MarkOf, Requests
<1> QED
  BY <1>1 DEF Held

(* Requests that stay are held, and at most one held before is not.        *)
LEMMA HoldingAfter ==
  ASSUME NEW h,
         \A q \in Outstanding' : \E p \in Outstanding : Held(q) = Held(p),
         \A p \in Outstanding :
           Held(p) = h \/ \E q \in Outstanding' : Held(q) = Held(p)
  PROVE  Holding' \in {Holding, Holding \ {h}}
<1>1. Holding' = {Held(q) : q \in Outstanding'}
  BY DEF Holding, Held, PreviewToken
<1>2. Holding' \subseteq Holding
  BY <1>1 DEF Holding
<1>3. Holding \subseteq Holding' \cup {h}
  BY <1>1 DEF Holding
<1> QED
  BY <1>2, <1>3

(* Nothing happens but that a request may be lost.                         *)
LEMMA LosingKeepsPromise ==
  ASSUME NEW h, UNCHANGED <<issued, cvVars>>,
         Holding' \in {Holding, Holding \ {h}}
  PROVE  [Promise!Next]_(Promise!swVars)
<1>1. CASE h \in Holding /\ Holding' = Holding \ {h}
  <2>1. Promise!Lose(h)
    BY <1>1 DEF Promise!Lose, Holding, cvVars
  <2> QED
    BY <1>1, <2>1 DEF Promise!Next, Holding
<1>2. CASE Holding' = Holding
  BY <1>2 DEF Promise!swVars, Holding, cvVars
<1> QED
  BY <1>1, <1>2

(* A call that has no request on the wire, or gives it up.                 *)
LEMMA CallKeepsHolding ==
  ASSUME NEW c \in Client, call'[c].pc # "await",
         \A d \in Client \ {c} : call'[d] = call[d],
         late \subseteq late', Outstanding' \subseteq Outstanding
  PROVE  /\ Holding' \in {Holding, Holding \ {Held(Request(call[c]))}}
         /\ call[c].pc # "await" => Holding' = Holding
<1> DEFINE h == Held(Request(call[c]))
<1>1. \A p \in Outstanding :
        \/ p = Request(call[c]) /\ call[c].pc = "await"
        \/ p \in Outstanding'
  BY DEF Outstanding, Request
<1>2. Holding' \in {Holding, Holding \ {h}}
  BY <1>1, HoldingAfter
<1>3. CASE call[c].pc # "await"
  <2>1. Outstanding' = Outstanding
    BY <1>1, <1>3
  <2> QED
    BY <1>2, <2>1 DEF Holding, Held, PreviewToken
<1> QED
  BY <1>2, <1>3

(* The document a draft has is the one SnapshotWrites sees.                *)
LEMMA SameDocument ==
  ASSUME NEW w
  PROVE  Promise!DocOf(w) = DocOf(w)
BY DEF Promise!DocOf, DocOf, Inherits

(* The gate: a dry run previews, and a confirmed call takes the document   *)
(* it has just read.                                                       *)
LEMMA GateKeepsPromise ==
  ASSUME IInv, NEW c \in Client, call[c].pc = "document",
         NEW doc \in Doc, doc = DocOf(call[c].ws),
         doc[call[c].args.leaf] = call[c].args.expected,
         call[c].args.leaf \in VlanList => IsTrunk(doc, call[c].args.leaf),
         Gate(c, call[c].args, Patched(doc, call[c].args)),
         UNCHANGED <<writes, late, cvVars>>
  PROVE  [Promise!Next]_(Promise!swVars)
<1> DEFINE q == call[c]
           a == q.args
           p == PreviewToken(q.tool, q.ws, a)
           body == Patched(doc, a)
<1>1. /\ q \in CallRecord /\ q.tool = "set_leaf" /\ q.ws \in Draft /\ a \in Args
      /\ q.confirm = "yes" => q.token \in issued \cup {NoToken}
  BY DEF IInv, Types, PendingCalls, Pending
<1>2. CASE issued' = issued \cup {p} /\ Finish(c, "preview")
  <2>1. Holding' = Holding
    <3>1. /\ call'[c].pc = "idle"
          /\ \A d \in Client \ {c} : call'[d] = call[d]
      BY <1>2, FinishStep DEF IInv, Types, Codes
    <3>2. Outstanding' \subseteq Outstanding
      BY <3>1 DEF Outstanding, Request
    <3> QED
      BY <3>1, <3>2, CallKeepsHolding
  <2>2. Promise!Preview
    BY <1>2, <2>1 DEF Promise!Preview, Holding, cvVars
  <2> QED
    BY <2>2 DEF Promise!Next
<1>3. CASE Finish(c, "preview_required") /\ UNCHANGED issued
  <2>1. Holding' = Holding
    <3>1. /\ call'[c].pc = "idle"
          /\ \A d \in Client \ {c} : call'[d] = call[d]
      BY <1>3, FinishStep DEF IInv, Types, Codes
    <3>2. Outstanding' \subseteq Outstanding
      BY <3>1 DEF Outstanding, Request
    <3> QED
      BY <3>1, <3>2, CallKeepsHolding
  <2> QED
    BY <1>3, <2>1, LosingKeepsPromise
<1>4. CASE /\ q.confirm = "yes"
           /\ CheckPreviewToken(q.token, q.tool, q.ws, a)
           /\ Send(c, a, body)
           /\ UNCHANGED issued
  <2>1. p \in issued
    BY <1>1, <1>4 DEF CheckPreviewToken, PreviewToken, NoToken
  <2> DEFINE s == [q EXCEPT !.pc = "await", !.args = a, !.body = body]
             h == [write |-> p, before |-> doc]
  <2>2. /\ s.pc = "await" /\ Request(s).tool = q.tool /\ Request(s).ws = q.ws
        /\ Request(s).args = a /\ Request(s).body = body
    BY <1>1 DEF CallRecord, Request
  <2>3. [body EXCEPT ![a.leaf] = a.expected] = doc
    BY <1>1, PatchedType DEF Doc
  <2>4. Held(Request(s)) = h
    BY <2>2, <2>3 DEF Held
  <2>5. call'[c] = s /\ \A d \in Client \ {c} : call'[d] = call[d]
    BY <1>4 DEF Send, IInv, Types
  <2> HIDE DEF s
  <2>6. Outstanding' = Outstanding \cup {Request(s)}
    BY <2>2, <2>5 DEF Outstanding, Request
  <2>7. Holding' = Holding \cup {h}
    BY <2>4, <2>6 DEF Holding, Held, PreviewToken
  <2>8. p[2] = q.ws /\ p[3] = a
    BY DEF PreviewToken
  <2>9. MayWrite(p, doc)
    BY <2>8 DEF MayWrite
  <2>10. doc = Promise!DocOf(p[2])
    BY <2>8, SameDocument
  <2> HIDE DEF p, h
  <2>11. Promise!Take(p)
    BY <1>4, <2>7, <2>9, <2>10 DEF Promise!Take, Holding, cvVars, h
  <2> QED
    BY <2>1, <2>11 DEF Promise!Next
<1> QED
  BY <1>2, <1>3, <1>4 DEF Gate

(* Reading the document: what the stream delivers is the draft's own.      *)
LEMMA ReadDocumentKeepsPromise ==
  ASSUME IInv, ~SilentLoss, NEW c \in Client, ReadDocument(c)
  PROVE  [Promise!Next]_(Promise!swVars)
<1>1. UNCHANGED <<writes, late, cvVars>> /\ call[c].pc = "document"
  BY DEF ReadDocument
<1>2. CASE \E code \in Codes : Refuse(c, code)
  <2>1. /\ call'[c].pc = "idle" /\ UNCHANGED issued
        /\ \A d \in Client \ {c} : call'[d] = call[d]
    BY <1>2, FinishStep DEF Refuse, IInv, Types
  <2>2. Outstanding' \subseteq Outstanding
    BY <1>1, <2>1 DEF Outstanding, Request
  <2>3. Holding' = Holding
    BY <1>1, <2>1, <2>2, CallKeepsHolding
  <2> QED
    BY <1>1, <2>1, <2>3, LosingKeepsPromise
<1>3. CASE \E s \in Streams(call[c].ws) :
             LoadAccepts(s) /\ CompareAndPatch(c, s.doc)
  <2>1. PICK s \in Streams(call[c].ws) :
          LoadAccepts(s) /\ CompareAndPatch(c, s.doc)
    BY <1>3
  <2>2. call[c].ws \in Draft
    BY <1>1 DEF IInv, PendingCalls, Pending
  <2>3. s.doc = DocOf(call[c].ws)
    BY <2>1 DEF Streams, Stream, LoadAccepts
  <2>4. s.doc \in Doc
    BY <2>2, <2>3 DEF DocOf, Inherits, IInv, Types, CVTypes
  <2>5. CASE \E code \in Codes : Refuse(c, code)
    BY <1>2, <2>5
  <2>6. CASE ~ \E code \in Codes : Refuse(c, code)
    BY <1>1, <2>1, <2>3, <2>4, <2>6, GateKeepsPromise DEF CompareAndPatch, Codes
  <2> QED
    BY <2>5, <2>6
<1> QED
  BY <1>2, <1>3 DEF ReadDocument, Codes

(* A request that is marked and stays on the wire is still held.           *)
LEMMA MarkedStays ==
  ASSUME IInv, NEW D, NEW L \in SUBSET late, late' = LateStaled(L, D),
         NEW p \in Outstanding,
         \/ p \in L
         \/ \E d \in Client :
              /\ call[d].pc = "await" /\ p = Request(call[d])
              /\ SameUpToMark(call'[d], call[d], call[d].ws \in D)
  PROVE  \E q \in Outstanding' : Held(q) = Held(p)
<1>1. CASE p \in L
  <2>1. Staled(p, D) \in Outstanding'
    BY <1>1 DEF Outstanding, LateStaled
  <2>2. p \in Requests
    BY DEF IInv, SoundRequests, SoundRequest
  <2>3. Staled(p, D) = p \/ MarkOf(Staled(p, D), p)
    BY <2>2, StaledRequest DEF Staled
  <2>4. Held(Staled(p, D)) = Held(p)
    BY <2>2, <2>3, MarkedIsHeld
  <2> QED
    BY <2>1, <2>4
<1>2. ASSUME NEW d \in Client, call[d].pc = "await", p = Request(call[d]),
             SameUpToMark(call'[d], call[d], call[d].ws \in D)
      PROVE  \E q \in Outstanding' : Held(q) = Held(p)
  <2>1. Request(call'[d]) \in Outstanding'
    BY <1>2 DEF SameUpToMark, Outstanding, Request
  <2>2. Held(Request(call'[d])) = Held(p)
    BY <1>2 DEF SameUpToMark, Held, Request
  <2> QED
    BY <2>1, <2>2
<1> QED
  BY <1>1, <1>2

(* All the requests of before are, marked or not, on the wire or, if they  *)
(* are held as h, perhaps not.                                             *)
LEMMA MarkingKeepsHolding ==
  ASSUME IInv, NEW D, NEW L \in SUBSET late, NEW h,
         call' \in [Client -> CallRecord],
         \A d \in Client : call'[d].pc = "await" =>
           SameUpToMark(call'[d], call[d], call[d].ws \in D),
         late' = LateStaled(L, D),
         \A r \in late \ L : Held(r) = h,
         \A d \in Client : call[d].pc = "await" =>
           call'[d].pc = "await" \/ Held(Request(call[d])) = h
  PROVE  Holding' \in {Holding, Holding \ {h}}
<1>1. ASSUME NEW q \in Outstanding'
      PROVE  \E p \in Outstanding : Held(q) = Held(p)
  <2>1. PICK p \in Outstanding : q = p \/ MarkOf(q, p)
    BY MarkedOutstanding
  <2>2. p \in Requests
    BY DEF IInv, SoundRequests, SoundRequest
  <2> QED
    BY <2>1, <2>2, MarkedIsHeld
<1>2. ASSUME NEW p \in Outstanding
      PROVE  Held(p) = h \/ \E q \in Outstanding' : Held(q) = Held(p)
  <2>1. CASE p \in late
    BY <2>1, MarkedStays
  <2>2. CASE \E d \in Client : call[d].pc = "await" /\ p = Request(call[d])
    BY <2>2, MarkedStays
  <2> QED
    BY <2>1, <2>2 DEF Outstanding
<1> QED
  BY <1>1, <1>2, HoldingAfter

(* Carrying out a request puts the document it was made to, changed.       *)
LEMMA EffectKeepsPromise ==
  ASSUME IInv, NEW q \in Outstanding, Effect(q), UNCHANGED issued,
         Holding' \in {Holding, Holding \ {Held(q)}}
  PROVE  [Promise!Next]_(Promise!swVars)
<1> DEFINE h == Held(q)
           p == PreviewToken(q.tool, q.ws, q.args)
<1>1. /\ q \in Requests /\ q.args \in Args /\ q.body \in Doc
      /\ q.body[q.args.leaf] = q.args.new
  BY DEF IInv, SoundRequests, SoundRequest, Requests
<1>2. h.write = p /\ h.before = [q.body EXCEPT ![q.args.leaf] = q.args.expected]
  BY DEF Held
<1>3. p[2] = q.ws /\ p[3] = q.args
  BY DEF PreviewToken
<1>4. Patched([q.body EXCEPT ![q.args.leaf] = q.args.expected], q.args) = q.body
  <2>1. q.args.leaf \in Leaf
    BY <1>1 DEF Args
  <2> QED
    BY <1>1, <2>1 DEF Patched, Doc
<1>5. Written(h.write, h.before) = q.body
  BY <1>2, <1>3, <1>4 DEF Written
<1>6. h \in Holding
  BY DEF Holding
<1> HIDE DEF h, p
<1>7. Promise!Put(h)
  BY <1>2, <1>3, <1>5 DEF Promise!Put, Effect, Holding, h
<1> QED
  BY <1>6, <1>7 DEF Promise!Next, Holding

(* CloudVision carries out a request whose caller still waits.             *)
LEMMA AppliedKeepsPromise ==
  ASSUME IInv, NEW c \in Client, Applied(c)
  PROVE  [Promise!Next]_(Promise!swVars)
<1> DEFINE w == call[c].ws
           calls == CallsStaled(call, {w}, {"await"})
           q == Request(call[c])
<1>1. /\ call[c].pc = "await" /\ UNCHANGED issued /\ Effect(call[c])
      /\ late' = LateStaled(late, {w})
  BY DEF Applied
<1>2. q \in Outstanding /\ Effect(q)
  BY <1>1 DEF Outstanding, Effect, Request
<1>3. PICK code \in Codes : call' = [calls EXCEPT ![c] = Idle(code)]
  BY DEF Applied, Codes
<1>4. /\ calls \in [Client -> CallRecord]
      /\ \A d \in Client :
           SameUpToMark(calls[d], call[d],
                        call[d].pc \in {"await"} /\ call[d].ws \in {w})
  BY StaledCall DEF IInv, Types
<1>5. Idle(code) \in CallRecord /\ Idle(code).pc = "idle"
  BY IdleType DEF Idle
<1> HIDE DEF calls
<1>6. /\ call' \in [Client -> CallRecord]
      /\ call'[c].pc = "idle"
      /\ \A d \in Client \ {c} : call'[d] = calls[d]
  BY <1>3, <1>4, <1>5
<1>7. \A d \in Client : call'[d].pc = "await" =>
        SameUpToMark(call'[d], call[d], call[d].ws \in {w})
  BY <1>4, <1>6 DEF SameUpToMark
<1>8. \A d \in Client : call[d].pc = "await" =>
        call'[d].pc = "await" \/ Held(Request(call[d])) = Held(q)
  BY <1>4, <1>6 DEF SameUpToMark
<1>9. Holding' \in {Holding, Holding \ {Held(q)}}
  <2> HIDE DEF w, q
  <2> QED
    BY <1>1, <1>6, <1>7, <1>8, MarkingKeepsHolding
<1> QED
  BY <1>1, <1>2, <1>9, EffectKeepsPromise

(* CloudVision carries out a request nobody waits for.                     *)
LEMMA AppliedLateKeepsPromise ==
  ASSUME IInv, NEW r \in late, AppliedLate(r)
  PROVE  [Promise!Next]_(Promise!swVars)
<1> DEFINE w == r.ws
<1>1. /\ UNCHANGED issued /\ Effect(r)
      /\ call' = CallsStaled(call, {w}, {"await"})
      /\ late' = LateStaled(late \ {r}, {w})
  BY DEF AppliedLate
<1>2. r \in Outstanding
  BY DEF Outstanding
<1>3. /\ call' \in [Client -> CallRecord]
      /\ \A d \in Client :
           SameUpToMark(call'[d], call[d],
                        call[d].pc \in {"await"} /\ call[d].ws \in {w})
  BY <1>1, StaledCall DEF IInv, Types
<1>4. \A d \in Client : call'[d].pc = "await" =>
        SameUpToMark(call'[d], call[d], call[d].ws \in {w})
  BY <1>3 DEF SameUpToMark
<1>5. \A d \in Client : call[d].pc = "await" =>
        call'[d].pc = "await" \/ Held(Request(call[d])) = Held(r)
  BY <1>3 DEF SameUpToMark
<1>6. Holding' \in {Holding, Holding \ {Held(r)}}
  <2> HIDE DEF w
  <2>1. late \ {r} \in SUBSET late /\ \A x \in late \ (late \ {r}) : Held(x) = Held(r)
    OBVIOUS
  <2> QED
    BY <1>1, <1>3, <1>4, <1>5, <2>1, MarkingKeepsHolding
<1> QED
  BY <1>1, <1>2, <1>6, EffectKeepsPromise

(* People mark requests, and lose none.                                    *)
LEMMA TouchKeepsHolding ==
  ASSUME IInv, NEW docs, NEW states, Touch(docs, states)
  PROVE  UNCHANGED issued /\ Holding' = Holding
<1> DEFINE calls == CallsStaled(call, docs, {"await"})
           D == docs \cup states
<1>1. /\ UNCHANGED issued
      /\ call' = CallsStaled(calls, states, {"document", "await"})
      /\ late' = LateStaled(late, D)
  BY DEF Touch
<1>2. /\ calls \in [Client -> CallRecord]
      /\ \A d \in Client :
           SameUpToMark(calls[d], call[d],
                        call[d].pc \in {"await"} /\ call[d].ws \in docs)
  BY StaledCall DEF IInv, Types
<1> HIDE DEF calls
<1>3. /\ call' \in [Client -> CallRecord]
      /\ \A d \in Client :
           SameUpToMark(call'[d], calls[d],
             calls[d].pc \in {"document", "await"} /\ calls[d].ws \in states)
  BY <1>1, <1>2, StaledCall
<1>4. \A d \in Client : call'[d].pc = "await" =>
        SameUpToMark(call'[d], call[d], call[d].ws \in D)
  BY <1>2, <1>3 DEF SameUpToMark
<1>5. \A d \in Client : call[d].pc = "await" => call'[d].pc = "await"
  BY <1>2, <1>3 DEF SameUpToMark
<1> HIDE DEF D
<1>6. PICK h : h \notin Holding
  <2>1. {x \in Holding : x \notin x} \notin Holding
    OBVIOUS
  <2> QED
    BY <2>1
<1>7. Holding' \in {Holding, Holding \ {h}}
  BY <1>1, <1>3, <1>4, <1>5, MarkingKeepsHolding
<1> QED
  BY <1>1, <1>6, <1>7

(* What people do to the drafts and to the mainline.                       *)
LEMMA PeopleKeepPromise ==
  ASSUME IInv,
         \/ \E w \in Draft, l \in Leaf, v \in Value : OperatorEdits(w, l, v)
         \/ \E l \in Leaf, v \in Value : MainlineMoves(l, v)
         \/ \E w \in Draft : OperatorSubmits(w)
         \/ \E w \in Draft : DraftDeleted(w)
         \/ \E w \in Draft : DraftCreated(w)
  PROVE  [Promise!Next]_(Promise!swVars)
<1>1. ASSUME NEW w \in Draft PROVE DocOf(w) \in Doc
  BY <1>1 DEF DocOf, Inherits, IInv, Types, CVTypes
<1>2. ASSUME NEW w \in Draft, NEW l \in Leaf, NEW v \in Value,
             OperatorEdits(w, l, v)
      PROVE  Promise!Next
  <2>1. [DocOf(w) EXCEPT ![l] = v] \in Doc
    BY <1>1 DEF Doc, Content
  <2>2. UNCHANGED issued /\ Holding' = Holding
    BY <1>2, TouchKeepsHolding DEF OperatorEdits
  <2>3. Promise!PeopleEdit(w, [DocOf(w) EXCEPT ![l] = v])
    BY <1>2, <2>2 DEF Promise!PeopleEdit, OperatorEdits, Holding
  <2> QED
    BY <2>1, <2>3 DEF Promise!Next
<1>3. ASSUME NEW l \in Leaf, NEW v \in Value, MainlineMoves(l, v)
      PROVE  Promise!Next
  <2>1. [mainline EXCEPT ![l] = v] \in Doc
    BY DEF Doc, Content, IInv, Types, CVTypes
  <2>2. UNCHANGED issued /\ Holding' = Holding
    BY <1>3, TouchKeepsHolding DEF MainlineMoves
  <2>3. Promise!MainlineMoves([mainline EXCEPT ![l] = v])
    BY <1>3, <2>2 DEF Promise!MainlineMoves, MainlineMoves, Holding
  <2> QED
    BY <2>1, <2>3 DEF Promise!Next
<1>4. ASSUME NEW w \in Draft, OperatorSubmits(w) PROVE Promise!Next
  <2>1. UNCHANGED issued /\ Holding' = Holding
    BY <1>4, TouchKeepsHolding DEF OperatorSubmits
  <2>2. Promise!Submit(w)
    BY <1>4, <2>1, SameDocument DEF Promise!Submit, OperatorSubmits, Holding
  <2> QED
    BY <2>2 DEF Promise!Next
<1>5. ASSUME NEW w \in Draft, DraftDeleted(w) PROVE Promise!Next
  <2>1. UNCHANGED issued /\ Holding' = Holding
    BY <1>5, TouchKeepsHolding DEF DraftDeleted
  <2>2. Promise!Delete(w)
    BY <1>5, <2>1 DEF Promise!Delete, DraftDeleted, Holding
  <2> QED
    BY <2>2 DEF Promise!Next
<1>6. ASSUME NEW w \in Draft, DraftCreated(w) PROVE Promise!Next
  <2>1. UNCHANGED issued /\ Outstanding' = Outstanding
    BY <1>6 DEF DraftCreated, Outstanding
  <2>2. Holding' = Holding
    BY <2>1 DEF Holding, Held, PreviewToken
  <2>3. Promise!Create(w)
    BY <1>6, <2>1, <2>2 DEF Promise!Create, DraftCreated, Holding
  <2> QED
    BY <2>3 DEF Promise!Next
<1> QED
  BY <1>2, <1>3, <1>4, <1>5, <1>6

(* Every other step of a call leaves CloudVision alone, and loses at most  *)
(* the request of the call.                                                *)
LEMMA EndKeepsPromise ==
  ASSUME IInv, NEW c \in Client,
         \/ InvokeAny(c)
         \/ ReadWorkspace(c)
         \/ Rejected(c)
         \/ GiveUpAny(c)
         \/ RestartAny(c)
  PROVE  [Promise!Next]_(Promise!swVars)
<1>1. UNCHANGED <<issued, cvVars>>
  BY DEF InvokeAny, Invoke, ReadWorkspace, Refuse, Rejected, GiveUpAny,
         GiveUp, RestartAny, Restart
<1>2. /\ call'[c].pc # "await"
      /\ \A d \in Client \ {c} : call'[d] = call[d]
  <2>1. CASE \E code \in Codes : Finish(c, code)
    BY <2>1, FinishStep DEF IInv, Types
  <2>2. CASE InvokeAny(c)
    <3>1. PICK w \in Workspace, a \in Args, confirm \in Confirm :
            \E token \in {NoToken} \cup (IF confirm = "yes" THEN issued ELSE {}) :
              Invoke(c, w, a, confirm, token)
      BY <2>2 DEF InvokeAny
    <3>2. PICK token \in {NoToken} \cup (IF confirm = "yes" THEN issued ELSE {}) :
            Invoke(c, w, a, confirm, token)
      BY <3>1
    <3>3. CASE Enter(c, "set_leaf", w, a, confirm, token)
      BY <3>3 DEF Enter, IInv, Types
    <3> QED
      BY <2>1, <3>2, <3>3 DEF Invoke, DispatchRefusals, Codes
  <2>3. CASE ReadWorkspace(c)
    <3>1. CASE call' = [call EXCEPT ![c].pc = "document"]
      <4>1. call[c] \in CallRecord
        BY DEF IInv, Types
      <4> QED
        BY <3>1, <4>1 DEF IInv, Types, CallRecord
    <3> QED
      BY <2>1, <2>3, <3>1 DEF ReadWorkspace, Refuse, Codes
  <2> QED
    BY <2>1, <2>2, <2>3 DEF Rejected, GiveUpAny, GiveUp, RestartAny, Restart, Codes
<1>3. /\ late \subseteq late'
      /\ \/ late' = late
         \/ late' = late \cup {Request(call[c])} /\ call[c].pc = "await"
  BY DEF InvokeAny, Invoke, ReadWorkspace, Refuse, Rejected, GiveUpAny,
         GiveUp, RestartAny, Restart
<1>4. Outstanding' \subseteq Outstanding
  BY <1>2, <1>3 DEF Outstanding, Request
<1> QED
  BY <1>1, <1>2, <1>3, <1>4, CallKeepsHolding, LosingKeepsPromise

(* One request fewer on the wire.                                          *)
LEMMA DroppedLateKeepsPromise ==
  ASSUME IInv, NEW r \in late, DroppedLate(r)
  PROVE  [Promise!Next]_(Promise!swVars)
<1>1. UNCHANGED <<issued, cvVars, call>> /\ late' = late \ {r}
  BY DEF DroppedLate
<1>2. /\ \A q \in Outstanding' : q \in Outstanding
      /\ \A p \in Outstanding : p = r \/ p \in Outstanding'
  BY <1>1 DEF Outstanding, Request
<1>3. Holding' \in {Holding, Holding \ {Held(r)}}
  BY <1>2, HoldingAfter
<1> QED
  BY <1>1, <1>3, LosingKeepsPromise

(* Every step of the tools is a step of SnapshotWrites or none.            *)
LEMMA StepKeepsPromise ==
  ASSUME IInv, ~SilentLoss, [Next]_vars
  PROVE  [Promise!Next]_(Promise!swVars)
<1>1. CASE UNCHANGED vars
  <2>1. UNCHANGED <<issued, cvVars>> /\ Outstanding' = Outstanding
    BY <1>1 DEF vars, cvVars, Outstanding
  <2>2. Holding' = Holding
    BY <2>1 DEF Holding, Held, PreviewToken
  <2> QED
    BY <2>1, <2>2, LosingKeepsPromise
<1>2. CASE \E c \in Client : ReadDocument(c)
  BY <1>2, ReadDocumentKeepsPromise
<1>3. CASE \E c \in Client : Applied(c)
  BY <1>3, AppliedKeepsPromise
<1>4. CASE \E r \in late : AppliedLate(r) \/ DroppedLate(r)
  BY <1>4, AppliedLateKeepsPromise, DroppedLateKeepsPromise
<1> QED
  BY <1>1, <1>2, <1>3, <1>4, EndKeepsPromise, PeopleKeepPromise DEF Next

(* Whatever people, other processes and the network do in between, a write *)
(* of the three tools is a previewed compare-and-set of the whole document *)
(* as it was when it was read.                                             *)
THEOREM Implements ==
  ASSUME ~SilentLoss
  PROVE  Spec => KeepsPromise
<1>1. Init => Promise!Init
  <2> SUFFICES ASSUME Init PROVE Promise!Init
    OBVIOUS
  <2>1. Outstanding = {}
    BY DEF Init, Outstanding, Idle
  <2> QED
    BY <2>1 DEF Init, Promise!Init
<1>2. IInv /\ [Next]_vars => [Promise!Next]_(Promise!swVars)
  BY StepKeepsPromise
<1> QED
  BY <1>1, <1>2, Invariance, PTL DEF Spec, KeepsPromise, Promise!Spec

----------------------------------------------------------------------------
(* What an accepted answer means.                                          *)

(* A call leaves its request accepted only when the request took effect.   *)
LEMMA AcceptedIsApplied ==
  ASSUME IInv, [Next]_vars, NEW c \in Client, call[c].pc = "await",
         call'[c].pc = "idle", call'[c].code = "accepted"
  PROVE  Applied(c)
<1>0. ASSUME NEW calls \in [Client -> CallRecord], NEW ws, NEW pcs
      PROVE  /\ CallsStaled(calls, ws, pcs) \in [Client -> CallRecord]
             /\ CallsStaled(calls, ws, pcs)[c].pc = calls[c].pc
  <2>1. SameUpToMark(CallsStaled(calls, ws, pcs)[c], calls[c],
                     calls[c].pc \in pcs /\ calls[c].ws \in ws)
    BY StaledCall
  <2> QED
    BY <2>1, StaledCall DEF SameUpToMark
<1>1. ASSUME NEW d \in Client,
             InvokeAny(d) \/ ReadWorkspace(d) \/ ReadDocument(d)
      PROVE  FALSE
  <2>1. c # d /\ (InvokeAny(d) \/ ReadWorkspace(d) => call'[c] = call[c])
    BY <1>1 DEF IInv, Types, InvokeAny, Invoke, ReadWorkspace, ReadDocument,
                Refuse, Finish, Enter
  <2>2. ReadDocument(d) => call'[c] = call[c]
    BY <2>1 DEF IInv, Types, ReadDocument, Refuse, Finish, CompareAndPatch,
                Gate, Send
  <2> QED
    BY <1>1, <2>1, <2>2
<1>2. ASSUME NEW d \in Client,
             Rejected(d) \/ GiveUpAny(d) \/ RestartAny(d)
      PROVE  FALSE
  <2>1. \E code \in {"resource_write_failed", "none"} : Finish(d, code)
    BY <1>2 DEF Rejected, GiveUpAny, GiveUp, RestartAny, Restart
  <2> QED
    BY <2>1 DEF Finish, Idle, IInv, Types
<1>3. ASSUME NEW calls \in [Client -> CallRecord], NEW ws, NEW pcs,
             calls[c].pc = "await", call' = CallsStaled(calls, ws, pcs)
      PROVE  FALSE
  BY <1>0, <1>3
<1>4. ASSUME NEW q, AppliedLate(q) PROVE FALSE
  BY <1>3, <1>4 DEF AppliedLate, IInv, Types
<1>5. ASSUME NEW docs, NEW states, Touch(docs, states) PROVE FALSE
  <2> DEFINE calls == CallsStaled(call, docs, {"await"})
  <2>1. calls \in [Client -> CallRecord] /\ calls[c].pc = "await"
    BY <1>0 DEF IInv, Types
  <2>2. call' = CallsStaled(calls, states, {"document", "await"})
    BY <1>5 DEF Touch
  <2> HIDE DEF calls
  <2> QED
    BY <1>3, <2>1, <2>2
<1>6. ASSUME NEW d \in Client \ {c}, Applied(d) PROVE FALSE
  <2> DEFINE calls == CallsStaled(call, {call[d].ws}, {"await"})
  <2>1. calls \in [Client -> CallRecord] /\ calls[c].pc = "await"
    BY <1>0 DEF IInv, Types
  <2>2. PICK code : call' = [calls EXCEPT ![d] = Idle(code)]
    BY <1>6 DEF Applied
  <2> HIDE DEF calls
  <2> QED
    BY <2>1, <2>2
<1>7. (\E q \in late : DroppedLate(q)) \/ (\E w \in Draft : DraftCreated(w))
        \/ UNCHANGED vars => call' = call
  BY DEF DroppedLate, DraftCreated, vars
<1> QED
  BY <1>1, <1>2, <1>4, <1>5, <1>6, <1>7
     DEF Next, OperatorEdits, MainlineMoves, OperatorSubmits, DraftDeleted

(* The step that answers an unraced call of (w, a): accepted.              *)
Accepts(c, w, a) ==
  /\ call[c].pc = "await" /\ call[c].ws = w /\ call[c].args = a
  /\ ~call[c].stale
  /\ call'[c].pc = "idle" /\ call'[c].code = "accepted"

(* What a write does to the documents when it takes effect.                *)
Swapped(w, a) ==
  /\ wsState[w] = "PENDING"
  /\ DocOf(w)[a.leaf] = a.expected
  /\ DocOf(w)'[a.leaf] = a.new
  /\ \A l \in Leaf \ {a.leaf} : DocOf(w)'[l] = DocOf(w)[l]
  /\ \A v \in Draft \ {w} : DocOf(v)' = DocOf(v)

(* An accepted answer to a call nobody raced tells the truth: the draft    *)
(* was pending and its leaf held what the caller expected, and from this   *)
(* very step on it holds the new value and every other leaf what it held;  *)
(* the documents of the other drafts are what they were.                   *)
AcceptedWriteIsTheSwap ==
  [][\A c \in Client, w \in Draft, a \in Args :
       Accepts(c, w, a) => Swapped(w, a)]_vars

(* As long as the helper warns of every row it loses, an accepted, unraced *)
(* write of a leaf has swapped that leaf and nothing else.                 *)
THEOREM AcceptedMeansSwapped ==
  ASSUME ~SilentLoss
  PROVE  Spec => AcceptedWriteIsTheSwap
<1>1. ASSUME IInv, [Next]_vars, NEW c \in Client, NEW w \in Draft,
             NEW a \in Args, Accepts(c, w, a)
      PROVE  Swapped(w, a)
  <2> DEFINE q == Request(call[c])
  <2>1. SoundRequest(q)
    BY <1>1 DEF IInv, SoundRequests, Outstanding, Accepts
  <2>2. q.ws = w /\ q.args = a /\ ~q.stale /\ q.body = call[c].body
    BY <1>1 DEF Request, Accepts
  <2>3. /\ IsCompareAndSet(q) /\ q.body[a.leaf] = a.new
        /\ q.body \in Doc /\ a.leaf \in Leaf
    BY <2>1, <2>2 DEF SoundRequest, Requests, Args
  <2>4. Applied(c)
    BY <1>1, AcceptedIsApplied DEF Accepts
  <2>5. /\ overlay' = [overlay EXCEPT ![w] = q.body]
        /\ mainline' = mainline
        /\ overlay \in [Draft -> Doc \cup {NoDoc}]
    BY <1>1, <2>2, <2>4 DEF Accepts, Applied, Effect, IInv, Types, CVTypes
  <2>6. q.body # NoDoc
    BY <2>3, AccessInterfaceAssumption DEF Doc, Content
  <2> HIDE DEF q
  <2>7. PICK doc \in Doc : doc = q.body
    BY <2>3
  <2>8. DocOf(w)' = doc
    BY <2>5, <2>6, <2>7 DEF DocOf, Inherits
  <2>9. \A v \in Draft \ {w} : DocOf(v)' = DocOf(v)
    BY <2>5 DEF DocOf, Inherits
  <2>10. \A l \in Leaf \ {a.leaf} : doc[l] = DocOf(w)[l]
    BY <2>2, <2>3, <2>7 DEF IsCompareAndSet, ChangedLeaves
  <2>11. wsState[w] = "PENDING" /\ DocOf(w)[a.leaf] = a.expected
    BY <2>2, <2>3 DEF IsCompareAndSet
  <2> QED
    BY <2>3, <2>7, <2>8, <2>9, <2>10, <2>11 DEF Swapped
<1>2. IInv /\ [Next]_vars =>
        [\A c \in Client, w \in Draft, a \in Args :
           Accepts(c, w, a) => Swapped(w, a)]_vars
  BY <1>1
<1> QED
  BY <1>2, Invariance, PTL DEF Spec, AcceptedWriteIsTheSwap

=============================================================================
