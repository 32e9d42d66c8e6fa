-------------------------- MODULE PathInputs_proofs --------------------------
(***************************************************************************)
(* The safety of PathInputs for any rows, documents, names, words and      *)
(* allowed keys, any number of processes, drafts, late requests and        *)
(* changes made by people.                                                 *)
(***************************************************************************)
EXTENDS PathInputs, Positions, SequenceTheorems

----------------------------------------------------------------------------
(* Comparing two trees.                                                    *)

(* The paths above a path are its beginnings, and so are theirs.           *)
LEMMA AboveFacts ==
  ASSUME NEW l \in Seq(Key), NEW m \in 1..Len(l)
  PROVE  /\ SubSeq(l, 1, m) \in Seq(Key) /\ Len(SubSeq(l, 1, m)) = m
         /\ SubSeq(l, 1, m) \in Above(l) /\ Under(SubSeq(l, 1, m), l)
         /\ Above(SubSeq(l, 1, m)) = {SubSeq(l, 1, i) : i \in 1..m}
<1> DEFINE p == SubSeq(l, 1, m)
<1>1. p \in Seq(Key) /\ Len(p) = m
  <2>1. \A i \in 1..m : l[i] \in Key
    BY ElementOfSeq
  <2> QED
    BY <2>1, SubSeqProperties
<1>2. \A i \in 1..m : SubSeq(p, 1, i) = SubSeq(l, 1, i)
  <2> SUFFICES ASSUME NEW i \in 1..m PROVE SubSeq(p, 1, i) = SubSeq(l, 1, i)
    OBVIOUS
  <2>1. /\ 1 \in 1..Len(l) /\ m \in 1..Len(l) /\ 1 \in 1..(m - 1 + 1)
        /\ i \in 1..(m - 1 + 1) /\ 1 + 1 - 1 = 1 /\ 1 + i - 1 = i
    OBVIOUS
  <2> QED
    BY <2>1, SubSeqOfSubSeq
<1>3. Above(p) = {SubSeq(l, 1, i) : i \in 1..m}
  BY <1>1, <1>2 DEF Above
<1> QED
  BY <1>1, <1>3 DEF Above, Under

LEMMA AboveItself ==
  ASSUME NEW l \in Seq(Key), l # <<>>
  PROVE  Len(l) \in 1..Len(l) /\ SubSeq(l, 1, Len(l)) = l /\ l \in Above(l)
<1>1. Len(l) \in 1..Len(l)
  OBVIOUS
<1>2. SubSeq(l, 1, Len(l)) = l
  BY SubSeqFull
<1> QED
  BY <1>1, <1>2 DEF Above

(* The leaves of a document.                                               *)
LEMMA LeafFacts ==
  ASSUME NEW d \in Document, NEW l \in DOMAIN d
  PROVE  l \in Seq(Key) /\ l # <<>> /\ ~IsContainer(d, l)
BY PathInputsAssumption DEF IsContainer

(* If no changed path violates the allowed keys, each leaf that differs is *)
(* at or below a path whose last name is allowed, though the comparison    *)
(* does not look into containers it finds on one side only.                *)
LEMMA DifferencesAreNamed ==
  ASSUME NEW before \in Document, NEW after \in Document, NEW allowed,
         LeafViolations(ChangedLeafPaths(before, after), allowed) = {},
         NEW l \in DifferingLeaves(before, after)
  PROVE  Named(l, allowed)
<1> DEFINE Both(p) == IsContainer(before, p) /\ IsContainer(after, p)
           stop == {i \in 1..Len(l) : ~Both(SubSeq(l, 1, i))}
<1>1. l \in DOMAIN before \/ l \in DOMAIN after
  BY DEF DifferingLeaves
<1>2. l \in Seq(Key) /\ l # <<>> /\ ~Both(l)
  BY <1>1, LeafFacts
<1>3. Len(l) \in Nat /\ Len(l) \in stop
  <2> HIDE DEF Both
  <2>1. Len(l) \in 1..Len(l) /\ ~Both(SubSeq(l, 1, Len(l)))
    BY <1>2, AboveItself
  <2> QED
    BY <1>2, <2>1
<1> HIDE DEF Both
<1>4. PICK m \in stop : \A i \in stop : m <= i
  BY <1>3, FirstPosition
<1> DEFINE p == SubSeq(l, 1, m)
<1>5. m \in 1..Len(l) /\ ~Both(p)
  OBVIOUS
<1>6. /\ p \in Seq(Key) /\ p \in Above(l) /\ Under(p, l) /\ p \in Above(p)
      /\ Above(p) = {SubSeq(l, 1, i) : i \in 1..m}
  <2> HIDE DEF p, stop
  <2>1. /\ p \in Seq(Key) /\ Len(p) = m /\ p \in Above(l) /\ Under(p, l)
        /\ Above(p) = {SubSeq(l, 1, i) : i \in 1..m}
    BY <1>2, <1>5, AboveFacts DEF p
  <2>2. p # <<>>
    BY <1>5, <2>1
  <2> QED
    BY <2>1, <2>2, AboveItself
<1>7. \A q \in Above(p) \ {p} : Both(q)
  <2> SUFFICES ASSUME NEW i \in 1..m, SubSeq(l, 1, i) # p
               PROVE  Both(SubSeq(l, 1, i))
    BY <1>6
  <2>1. i < m /\ i \in 1..Len(l)
    BY <1>5
  <2>2. i \notin stop
    BY <1>4, <1>5, <2>1
  <2> QED
    BY <2>1, <2>2
<1> HIDE DEF p, stop
<1>8. Subtree(before, p) # Subtree(after, p)
  <2>1. CASE l \in DOMAIN before /\ l \in DOMAIN after
    BY <1>6, <2>1 DEF Subtree, DifferingLeaves
  <2>2. CASE l \in DOMAIN before /\ l \notin DOMAIN after
    BY <1>6, <2>2 DEF Subtree
  <2>3. CASE l \notin DOMAIN before /\ l \in DOMAIN after
    BY <1>6, <2>3 DEF Subtree
  <2> QED
    BY <1>1, <2>1, <2>2, <2>3
<1>9. p \in ChangedLeafPaths(before, after)
  BY <1>1, <1>5, <1>6, <1>7, <1>8 DEF ChangedLeafPaths, Nodes, Both
<1>10. LastKey(p) \in allowed /\ \A i \in DOMAIN p : p[i] \notin ForbiddenKey
  BY <1>9 DEF LeafViolations
<1> QED
  BY <1>6, <1>10 DEF Named

(* A leaf that is named is not protected.                                  *)
LEMMA NamedIsNotProtected ==
  ASSUME NEW l \in Seq(Key), NEW allowed \in AllowedKeys, Named(l, allowed)
  PROVE  ~Protected(l)
<1> SUFFICES ASSUME Protected(l) PROVE FALSE
  OBVIOUS
<1>1. PICK p \in Above(l) : /\ LastKey(p) \in allowed
                            /\ \A i \in DOMAIN p : p[i] \notin ForbiddenKey
  BY DEF Named
<1>2. p # l
  BY <1>1 DEF Protected
<1>3. p \in Above(p)
  <2>1. PICK m \in 1..Len(l) : p = SubSeq(l, 1, m)
    BY DEF Above
  <2>2. p \in Seq(Key) /\ Len(p) = m
    BY <2>1, AboveFacts
  <2>3. p # <<>>
    BY <2>2
  <2> QED
    BY <2>2, <2>3, AboveItself
<1> QED
  BY <1>1, <1>2, <1>3 DEF Protected, Named

(* Changing a document twice changes at most what each change does.        *)
LEMMA DifferencesCompose ==
  ASSUME NEW a, NEW b, NEW d
  PROVE  DifferingLeaves(a, d) \subseteq DifferingLeaves(a, b) \cup DifferingLeaves(b, d)
BY DEF DifferingLeaves

----------------------------------------------------------------------------
Codes ==
  {"none", "preview", "accepted", "writes_disabled", "studio_not_found",
   "invalid_workspace_id", "action_args_invalid", "tool_disabled",
   "root_path_forbidden", "inputs_path_unresolved", "input_key_not_allowed",
   "workspace_read_failed", "workspace_not_found", "workspace_not_pending",
   "workspace_state_unknown", "preflight_failed", "studio_from_package",
   "studio_immutable", "disruptive_content_forbidden",
   "inputs_path_not_found", "preview_required", "resource_write_failed"}

Token == {"set_inputs"} \X Draft \X Args

CallRecord ==
  [pc : {"idle", "preflight", "draft", "mainline", "await"},
   tool : {"set_inputs", Nil}, ws : Workspace \cup {Nil},
   args : Args \cup {Nil}, confirm : Confirm,
   token : Token \cup {NoToken}, body : Document \cup {Nil},
   stale : BOOLEAN, code : Codes]

Requests ==
  [tool : {"set_inputs"}, ws : Draft, args : Args, body : Document,
   stale : BOOLEAN]

CVTypes ==
  /\ wsState \in [Draft -> WsState]
  /\ overlay \in [Draft -> Rows]
  /\ mainline \in Rows
  /\ touched \subseteq Draft

Types ==
  /\ call \in [Client -> CallRecord]
  /\ issued \subseteq Token
  /\ late \subseteq Requests
  /\ CVTypes

(* What the tool accepted of its arguments before any HTTP.                *)
Accepted(w, a) ==
  /\ w \in Draft
  /\ a \in Args
  /\ a.allowed # {} /\ a.allowed \cap ForbiddenKey = {}

Reading == {"preflight", "draft", "mainline"}

(* A call between its entry and its request: what it read so far holds     *)
(* unless somebody changed it.                                             *)
Pending(c) ==
  /\ call[c].tool = "set_inputs"
  /\ Accepted(call[c].ws, call[c].args)
  /\ call[c].confirm = "yes" => call[c].token \in issued \cup {NoToken}
  /\ call[c].pc = "preflight" => ~call[c].stale
  /\ call[c].pc # "preflight" /\ ~call[c].stale =>
       wsState[call[c].ws] = "PENDING"
  /\ call[c].pc = "mainline" /\ ~call[c].stale /\ ~SilentLoss =>
       ~HasRows(overlay[call[c].ws])

PendingCalls == \A c \in Client : call[c].pc \in Reading => Pending(c)

(* A document that keeps what is protected in the row of the mainline, and *)
(* brings no new word into it.                                             *)
Faithful(p, doc) ==
  /\ mainline[p] # NoDoc
  /\ \A l \in DifferingLeaves(mainline[p], doc) : ~Protected(l)
  /\ DisruptiveHits(doc) \subseteq DisruptiveHits(mainline[p])

(* The row a request replaces is there and differs only where named.       *)
Current(q) ==
  LET row == RowsOf(q.ws)[q.args.path]
  IN /\ wsState[q.ws] = "PENDING"
     /\ row # NoDoc
     /\ \A l \in DifferingLeaves(row, q.body) : Named(l, q.args.allowed)

(* A request carries what was previewed; it replaces what was read unless  *)
(* it was raced; and to a draft people left alone it carries a document    *)
(* faithful to the mainline, raced or not.                                 *)
SoundRequest(q) ==
  /\ q \in Requests
  /\ Accepted(q.ws, q.args)
  /\ q.body = q.args.inputs
  /\ PreviewToken("set_inputs", q.ws, q.args) \in issued
  /\ ~q.stale /\ ~SilentLoss => Current(q)
  /\ q.ws \notin touched => Faithful(q.args.path, q.body)

SoundRequests == \A q \in Outstanding : SoundRequest(q)

(* Some dry run showed the document for the row p of the draft w.          *)
Shown(w, p, doc) ==
  \E allowed \in AllowedKeys :
    PreviewToken("set_inputs", w, ArgRecord(p, doc, allowed)) \in issued

DraftRows ==
  \A w \in Draft \ touched, p \in Path :
    overlay[w][p] # NoDoc =>
      /\ Faithful(p, overlay[w][p])
      /\ overlay[w][p] # mainline[p] => Shown(w, p, overlay[w][p])

IInv ==
  /\ Types
  /\ PendingCalls
  /\ SoundRequests
  /\ DraftRows

----------------------------------------------------------------------------
(* The inductive invariant holds every property the runs check.            *)
LEMMA InvImplies ==
  IInv => /\ TypeOK
          /\ ~SilentLoss => UnracedWriteChangesOnlyNamed
          /\ ForbiddenLeavesStay
          /\ WordsAreOfTheMainline
          /\ RowsWerePreviewed
<1> SUFFICES ASSUME IInv
             PROVE  /\ TypeOK
                    /\ ~SilentLoss => UnracedWriteChangesOnlyNamed
                    /\ ForbiddenLeavesStay
                    /\ WordsAreOfTheMainline
                    /\ RowsWerePreviewed
  OBVIOUS
<1>1. ASSUME NEW c \in Client, call[c].pc # "idle"
      PROVE  /\ call[c].pc \in {"preflight", "draft", "mainline", "await"}
             /\ Accepted(call[c].ws, call[c].args)
  <2>1. call[c].pc \in Reading \cup {"await"}
    BY <1>1 DEF IInv, Types, CallRecord, Reading
  <2>2. CASE call[c].pc \in Reading
    BY <2>2 DEF IInv, PendingCalls, Pending, Reading
  <2>3. CASE call[c].pc = "await"
    <3>1. SoundRequest(Request(call[c]))
      BY <2>3 DEF IInv, SoundRequests, Outstanding
    <3> QED
      BY <2>3, <3>1 DEF SoundRequest, Request
  <2> QED
    BY <2>1, <2>2, <2>3
<1>2. TypeOK
  BY <1>1 DEF IInv, Types, CVTypes, TypeOK, SoundRequests, SoundRequest, Accepted
<1>3. ~SilentLoss => UnracedWriteChangesOnlyNamed
  BY DEF IInv, SoundRequests, SoundRequest, Current, UnracedWriteChangesOnlyNamed
<1>4. ForbiddenLeavesStay /\ WordsAreOfTheMainline
  BY DEF IInv, DraftRows, Faithful, ForbiddenLeavesStay, WordsAreOfTheMainline
<1>5. RowsWerePreviewed
  BY DEF IInv, DraftRows, Shown, RowsWerePreviewed
<1> QED
  BY <1>2, <1>3, <1>4, <1>5

(* An ended call is a record of the type of call.                          *)
LEMMA IdleType ==
  ASSUME NEW code \in Codes
  PROVE  Idle(code) \in CallRecord /\ Idle(code).pc = "idle"
BY DEF Idle, CallRecord, Confirm, NoToken

(* Initially no call is on its way, nothing is on the wire, and no draft   *)
(* has a row of its own.                                                   *)
LEMMA InitInv == Init => IInv
<1> SUFFICES ASSUME Init PROVE IInv
  OBVIOUS
<1>1. \A c \in Client : call[c].pc = "idle"
  BY DEF Init, Idle
<1>2. Outstanding = {}
  BY <1>1 DEF Init, Outstanding
<1>3. call \in [Client -> CallRecord]
  BY IdleType DEF Init, Codes
<1>4. overlay \in [Draft -> Rows] /\ \A w \in Draft, p \in Path : overlay[w][p] = NoDoc
  BY DEF Init, NoRows, Rows
<1>5. Types
  BY <1>3, <1>4 DEF Init, Types, CVTypes, WsState
<1>6. DraftRows
  BY <1>4 DEF DraftRows
<1> QED
  BY <1>1, <1>2, <1>5, <1>6 DEF IInv, PendingCalls, SoundRequests, Reading

(* Steps that leave CloudVision alone: calls that go on, or end, and what  *)
(* is on the wire is what was there, or a request that is sound.           *)
LEMMA QuietStep ==
  ASSUME IInv, call' \in [Client -> CallRecord], late' \subseteq Requests,
         issued \subseteq issued', issued' \subseteq Token, UNCHANGED cvVars,
         \A d \in Client : call'[d].pc \in Reading =>
           call'[d] = call[d] \/ Pending(d)',
         \A q \in Outstanding' : q \in Outstanding \/ SoundRequest(q)'
  PROVE  IInv'
<1>1. Types'
  BY DEF IInv, Types, CVTypes, cvVars
<1>2. PendingCalls'
  <2> SUFFICES ASSUME NEW d \in Client, call'[d].pc \in Reading
               PROVE  Pending(d)'
    BY DEF PendingCalls
  <2>1. CASE call'[d] = call[d]
    BY <2>1 DEF IInv, PendingCalls, Pending, HasRows, cvVars
  <2> QED
    BY <2>1
<1>3. SoundRequests'
  <2> SUFFICES ASSUME NEW q \in Outstanding', q \in Outstanding
               PROVE  SoundRequest(q)'
    BY DEF SoundRequests
  <2>1. SoundRequest(q)
    BY DEF IInv, SoundRequests
  <2>2. Current(q)' = Current(q)
    BY DEF Current, RowsOf, HasRows, cvVars
  <2>3. Faithful(q.args.path, q.body)' = Faithful(q.args.path, q.body)
    BY DEF Faithful, cvVars
  <2> QED
    BY <2>1, <2>2, <2>3 DEF SoundRequest, cvVars
<1>4. DraftRows'
  BY DEF IInv, DraftRows, Faithful, Shown, cvVars
<1> QED
  BY <1>1, <1>2, <1>3, <1>4 DEF IInv

(* A call that ends takes its request, if any, off the wire.               *)
LEMMA FinishStep ==
  ASSUME IInv, NEW c \in Client, NEW code \in Codes, Finish(c, code)
  PROVE  /\ call' \in [Client -> CallRecord]
         /\ call'[c].pc = "idle"
         /\ \A d \in Client \ {c} : call'[d] = call[d]
<1>1. Idle(code) \in CallRecord /\ Idle(code).pc = "idle"
  BY IdleType
<1> QED
  BY <1>1 DEF Finish, IInv, Types

(* Its commonest case: a call ends, and nothing is sent.                   *)
LEMMA EndingStep ==
  ASSUME IInv, NEW c \in Client, NEW code \in Codes, Finish(c, code),
         issued \subseteq issued', issued' \subseteq Token,
         \/ late' \subseteq late
         \/ call[c].pc = "await" /\ late' = late \cup {Request(call[c])},
         UNCHANGED cvVars
  PROVE  IInv'
<1>1. /\ call' \in [Client -> CallRecord]
      /\ call'[c].pc = "idle"
      /\ \A d \in Client \ {c} : call'[d] = call[d]
  BY FinishStep
<1>2. call[c].pc = "await" => Request(call[c]) \in Outstanding
  BY DEF Outstanding
<1>3. late' \subseteq Outstanding /\ late \subseteq Outstanding
  BY <1>2 DEF Outstanding
<1>4. Outstanding' \subseteq Outstanding
  BY <1>1, <1>3 DEF Outstanding
<1>5. late' \subseteq Requests
  BY <1>3 DEF IInv, SoundRequests, SoundRequest
<1>6. \A d \in Client : call'[d].pc \in Reading => call'[d] = call[d]
  BY <1>1 DEF Reading
<1> QED
  BY <1>1, <1>4, <1>5, <1>6, QuietStep

(* A refusal.                                                              *)
LEMMA RefusalStep ==
  ASSUME IInv, NEW c \in Client, NEW code \in Codes, Finish(c, code),
         UNCHANGED <<issued, late, cvVars>>
  PROVE  IInv'
BY EndingStep DEF IInv, Types

(* A call that goes on to the state pc.                                    *)
LEMMA GoOnStep ==
  ASSUME IInv, NEW c \in Client, call[c].pc \in Reading,
         NEW pc \in {"draft", "mainline"}, GoOn(c, pc),
         wsState[call[c].ws] = "PENDING" \/ call[c].stale,
         pc = "mainline" /\ ~SilentLoss => ~HasRows(overlay[call[c].ws]),
         UNCHANGED <<late, cvVars>>
  PROVE  IInv'
<1> DEFINE q == [call[c] EXCEPT !.pc = pc]
<1>1. call[c] \in CallRecord
  BY DEF IInv, Types
<1>2. /\ q \in CallRecord /\ q.pc = pc
      /\ q.tool = call[c].tool /\ q.ws = call[c].ws /\ q.args = call[c].args
      /\ q.confirm = call[c].confirm /\ q.token = call[c].token
      /\ q.stale = call[c].stale
  BY <1>1 DEF CallRecord
<1>3. /\ call' \in [Client -> CallRecord]
      /\ call'[c] = q
      /\ \A d \in Client \ {c} : call'[d] = call[d]
      /\ issued' = issued
  BY <1>2 DEF GoOn, IInv, Types
<1> HIDE DEF q
<1>4. Pending(c)
  BY DEF IInv, PendingCalls
<1>5. Pending(c)'
  BY <1>2, <1>3, <1>4 DEF Pending, HasRows, cvVars
<1>6. Outstanding' \subseteq Outstanding
  BY <1>2, <1>3 DEF Outstanding, Request
<1> QED
  BY <1>3, <1>5, <1>6, QuietStep DEF IInv, Types

----------------------------------------------------------------------------
(* Steps of a call that leave CloudVision alone.                           *)

(* Invoke: a refusal, or a call that enters its tool.                      *)
LEMMA InvokeStep ==
  ASSUME IInv, NEW c \in Client, InvokeAny(c)
  PROVE  IInv'
<1>1. PICK w \in Workspace, p \in Path, doc \in Document, allowed \in AllowedKeys,
           confirm \in Confirm :
        \E token \in {NoToken} \cup (IF confirm = "yes" THEN issued ELSE {}) :
          Invoke(c, w, ArgRecord(p, doc, allowed), confirm, token)
  BY DEF InvokeAny
<1>2. PICK token \in {NoToken} \cup (IF confirm = "yes" THEN issued ELSE {}) :
        Invoke(c, w, ArgRecord(p, doc, allowed), confirm, token)
  BY <1>1
<1> DEFINE a == ArgRecord(p, doc, allowed)
<1>3. a \in Args
  BY DEF ArgRecord, Args
<1> HIDE DEF a
<1>4. Invoke(c, w, a, confirm, token) /\ UNCHANGED <<issued, late, cvVars>>
  BY <1>2 DEF Invoke, a
<1>5. CASE \E code \in Codes : Finish(c, code)
  BY <1>4, <1>5, RefusalStep
<1>6. CASE Accepted(w, a) /\ Enter(c, "set_inputs", w, a, confirm, token)
  <2> DEFINE q == [pc |-> "preflight", tool |-> "set_inputs", ws |-> w,
                   args |-> a, confirm |-> confirm, token |-> token,
                   body |-> Nil, stale |-> FALSE, code |-> "none"]
  <2>1. token \in issued \cup {NoToken}
    OBVIOUS
  <2>2. q \in CallRecord
    BY <1>3, <2>1 DEF CallRecord, Codes, IInv, Types
  <2>3. /\ call' \in [Client -> CallRecord]
        /\ call'[c] = q
        /\ \A d \in Client \ {c} : call'[d] = call[d]
    BY <1>6, <2>2 DEF Enter, IInv, Types
  <2>4. /\ q.pc = "preflight" /\ q.tool = "set_inputs" /\ q.ws = w
        /\ q.args = a /\ q.stale = FALSE /\ q.token = token
    OBVIOUS
  <2> HIDE DEF q
  <2>5. Outstanding' \subseteq Outstanding
    BY <1>4, <2>3, <2>4 DEF Outstanding, Request
  <2>6. Pending(c)'
    BY <1>4, <1>6, <2>1, <2>3, <2>4 DEF Pending
  <2> QED
    BY <1>4, <2>3, <2>5, <2>6, QuietStep DEF IInv, Types
<1>7. \A absent \in BOOLEAN : DispatchRefusals(absent) \subseteq Codes
  BY DEF DispatchRefusals, Codes
<1>8. {"writes_disabled", "studio_not_found", "invalid_workspace_id",
       "root_path_forbidden", "inputs_path_unresolved", "input_key_not_allowed"}
        \subseteq Codes
  BY DEF Codes
<1> QED
  BY <1>3, <1>4, <1>5, <1>6, <1>7, <1>8
     DEF Invoke, Accepted, ValidateWorkspaceId, ResolveAllowedKeys

(* The GET of the workspace: a call that goes on has found it PENDING.     *)
LEMMA ReadWorkspaceStep ==
  ASSUME IInv, NEW c \in Client, ReadWorkspace(c)
  PROVE  IInv'
<1>1. UNCHANGED <<late, cvVars>> /\ call[c].pc = "preflight"
  BY DEF ReadWorkspace
<1>2. CASE \E code \in Codes : Refuse(c, code)
  BY <1>1, <1>2, RefusalStep DEF Refuse
<1>3. CASE wsState[call[c].ws] = "PENDING" /\ GoOn(c, "draft")
  <2>1. call[c].pc \in Reading
    BY <1>1 DEF Reading
  <2> QED
    BY <1>1, <1>3, <2>1, GoOnStep
<1> QED
  BY <1>2, <1>3 DEF ReadWorkspace, Codes

(* The gate: a dry run only adds its token, and a request is sound when    *)
(* sent: its token was issued, and what was read holds now.                *)
LEMMA GateStep ==
  ASSUME IInv, NEW c \in Client, call[c].pc \in Reading,
         Gate(c, call[c].args, call[c].args.inputs),
         NEW row, row # NoDoc,
         \A l \in DifferingLeaves(row, call[c].args.inputs) :
           Named(l, call[c].args.allowed),
         ~call[c].stale /\ ~SilentLoss =>
           /\ wsState[call[c].ws] = "PENDING"
           /\ RowsOf(call[c].ws)[call[c].args.path] = row,
         call[c].ws \notin touched =>
           Faithful(call[c].args.path, call[c].args.inputs),
         UNCHANGED <<late, cvVars>>
  PROVE  IInv'
<1> DEFINE q == call[c]
           a == q.args
           body == a.inputs
<1>1. q \in CallRecord
  BY DEF IInv, Types
<1>2. /\ Accepted(q.ws, a) /\ q.tool = "set_inputs"
      /\ q.confirm = "yes" => q.token \in issued \cup {NoToken}
  BY DEF IInv, PendingCalls, Pending
<1>3. PreviewToken(q.tool, q.ws, a) \in Token
  BY <1>2 DEF Accepted, PreviewToken, Token
<1>4. CASE /\ issued' = issued \cup {PreviewToken(q.tool, q.ws, a)}
           /\ Finish(c, "preview")
  BY <1>3, <1>4, EndingStep DEF IInv, Types, Codes
<1>5. CASE Finish(c, "preview_required") /\ UNCHANGED issued
  BY <1>5, RefusalStep DEF Codes
<1>6. CASE /\ q.confirm = "yes"
           /\ CheckPreviewToken(q.token, q.tool, q.ws, a)
           /\ Send(c, a, body)
           /\ UNCHANGED issued
  <2>1. PreviewToken("set_inputs", q.ws, a) \in issued
    BY <1>2, <1>6 DEF CheckPreviewToken, PreviewToken, NoToken
  <2>2. body \in Document /\ a \in Args
    BY <1>2 DEF Accepted, Args
  <2> DEFINE s == [q EXCEPT !.pc = "await", !.args = a, !.body = body]
  <2>3. /\ s \in CallRecord /\ s.pc = "await" /\ Request(s) \in Requests
        /\ Request(s).ws = q.ws /\ Request(s).args = a
        /\ Request(s).body = body /\ Request(s).stale = q.stale
    BY <1>1, <1>2, <2>2 DEF CallRecord, Request, Requests, Accepted
  <2>4. /\ call' \in [Client -> CallRecord]
        /\ call'[c] = s
        /\ \A d \in Client \ {c} : call'[d] = call[d]
    BY <1>6, <2>3 DEF Send, IInv, Types
  <2> HIDE DEF s, body
  <2>5. PICK r : r = Request(s)
    OBVIOUS
  <2>6. Outstanding' \subseteq Outstanding \cup {r}
    BY <2>4, <2>5 DEF Outstanding, Request
  <2>8. SoundRequest(r)'
    <3>1. ~r.stale /\ ~SilentLoss => Current(r)
      BY <2>3, <2>5 DEF Current, body
    <3>2. r.ws \notin touched => Faithful(r.args.path, r.body)
      BY <2>3, <2>5 DEF body
    <3>3. Current(r)' = Current(r)
      BY DEF Current, RowsOf, HasRows, cvVars
    <3>4. Faithful(r.args.path, r.body)' = Faithful(r.args.path, r.body)
      BY DEF Faithful, cvVars
    <3> QED
      BY <1>2, <1>6, <2>1, <2>3, <2>5, <3>1, <3>2, <3>3, <3>4
         DEF SoundRequest, body, cvVars
  <2>7. \A d \in Client : call'[d].pc \in Reading => call'[d] = call[d]
    BY <2>3, <2>4 DEF Reading
  <2> QED
    BY <1>6, <2>4, <2>6, <2>7, <2>8, QuietStep DEF IInv, Types
<1> QED
  BY <1>4, <1>5, <1>6 DEF Gate

(* What is known of a call that reads rows.                                *)
LEMMA ReadingFacts ==
  ASSUME IInv, NEW c \in Client, call[c].pc \in Reading
  PROVE  /\ Accepted(call[c].ws, call[c].args)
         /\ call[c].ws \in Draft /\ call[c].args.path \in Path
         /\ call[c].args.inputs \in Document /\ call[c].args.allowed \in AllowedKeys
         /\ call[c].stale \in BOOLEAN
BY DEF IInv, PendingCalls, Pending, Accepted, Args, Types, CallRecord

(* A call has rows before it, the mainline's or those of its draft.  It is *)
(* refused, or sends a document that differs from its row where named.     *)
LEMMA SelectRowStep ==
  ASSUME IInv, NEW c \in Client, call[c].pc \in Reading,
         NEW rows \in Rows, SelectRow(c, rows), rows # NoRows,
         rows = mainline \/ rows = overlay[call[c].ws],
         ~call[c].stale /\ ~SilentLoss =>
           wsState[call[c].ws] = "PENDING" /\ RowsOf(call[c].ws) = rows,
         UNCHANGED <<late, cvVars>>
  PROVE  IInv'
<1> DEFINE w == call[c].ws
           a == call[c].args
           p == a.path
           doc == rows[p]
<1>1. /\ w \in Draft /\ p \in Path /\ a.inputs \in Document
      /\ a.allowed \in AllowedKeys
  BY ReadingFacts
<1>2. CASE \E code \in Codes : Refuse(c, code)
  BY <1>2, RefusalStep DEF Refuse
<1>3. CASE /\ doc # NoDoc
           /\ LeafViolations(ChangedLeafPaths(doc, a.inputs), a.allowed) = {}
           /\ Introduced(doc, a.inputs) = {}
           /\ Gate(c, a, a.inputs)
  <2>1. doc \in Document
    BY <1>1, <1>3 DEF Rows
  <2>2. \A l \in DifferingLeaves(doc, a.inputs) : Named(l, a.allowed)
    BY <1>1, <1>3, <2>1, DifferencesAreNamed
  <2>3. DisruptiveHits(a.inputs) \subseteq DisruptiveHits(doc)
    BY <1>3 DEF Introduced
  <2>4. ASSUME w \notin touched
        PROVE  Faithful(p, doc)
    BY <1>1, <1>3, <2>4 DEF IInv, DraftRows, Faithful, DifferingLeaves
  <2>5. ASSUME w \notin touched
        PROVE  Faithful(p, a.inputs)
    <3>1. Faithful(p, doc)
      BY <2>4, <2>5
    <3>2. ASSUME NEW l \in DifferingLeaves(mainline[p], a.inputs)
          PROVE  ~Protected(l)
      <4>1. CASE l \in DifferingLeaves(mainline[p], doc)
        BY <3>1, <4>1 DEF Faithful
      <4>2. CASE l \in DifferingLeaves(doc, a.inputs)
        <5>1. Named(l, a.allowed)
          BY <2>2, <4>2
        <5>2. l \in DOMAIN doc \/ l \in DOMAIN a.inputs
          BY <4>2 DEF DifferingLeaves
        <5>3. l \in Seq(Key)
          BY <1>1, <2>1, <5>2, LeafFacts
        <5> QED
          BY <1>1, <5>1, <5>3, NamedIsNotProtected
      <4> QED
        BY <4>1, <4>2, DifferencesCompose
    <3> QED
      BY <2>3, <3>1, <3>2 DEF Faithful
  <2> HIDE DEF doc
  <2> QED
    BY <1>3, <2>2, <2>5, GateStep DEF doc
<1> QED
  BY <1>2, <1>3 DEF SelectRow, Compare, Codes

(* The GET of the rows of the draft.                                       *)
LEMMA ReadDraftRowsStep ==
  ASSUME IInv, NEW c \in Client, ReadDraftRows(c)
  PROVE  IInv'
<1> DEFINE w == call[c].ws
<1>1. UNCHANGED <<late, cvVars>> /\ call[c].pc = "draft" /\ call[c].pc \in Reading
  BY DEF ReadDraftRows, Reading
<1>2. /\ w \in Draft /\ overlay[w] \in Rows /\ NoRows \in Rows
      /\ wsState[w] = "PENDING" \/ call[c].stale
  BY <1>1, ReadingFacts DEF IInv, PendingCalls, Pending, Types, CVTypes, NoRows, Rows
<1>3. CASE Refuse(c, "preflight_failed")
  BY <1>1, <1>3, RefusalStep DEF Refuse, Codes
<1>4. CASE \E rows \in RowsRead(overlay[w]) :
             IF HasRows(rows) THEN SelectRow(c, rows) ELSE GoOn(c, "mainline")
  <2>1. PICK rows \in RowsRead(overlay[w]) :
          IF HasRows(rows) THEN SelectRow(c, rows) ELSE GoOn(c, "mainline")
    BY <1>4
  <2>2. CASE HasRows(rows)
    <3>1. rows = overlay[w] /\ rows # NoRows
      BY <2>2 DEF RowsRead, HasRows, NoRows
    <3>2. RowsOf(w) = rows
      BY <2>2, <3>1 DEF RowsOf
    <3> QED
      BY <1>1, <1>2, <2>1, <2>2, <3>1, <3>2, SelectRowStep
  <2>3. CASE ~HasRows(rows)
    <3>1. ~SilentLoss => ~HasRows(overlay[w])
      BY <2>3 DEF RowsRead
    <3> QED
      BY <1>1, <1>2, <2>1, <2>3, <3>1, GoOnStep
  <2> QED
    BY <2>2, <2>3
<1> QED
  BY <1>3, <1>4 DEF ReadDraftRows

(* The GET of the rows of the mainline, after the draft had none.          *)
LEMMA ReadMainlineRowsStep ==
  ASSUME IInv, NEW c \in Client, ReadMainlineRows(c)
  PROVE  IInv'
<1> DEFINE w == call[c].ws
<1>1. UNCHANGED <<late, cvVars>> /\ call[c].pc = "mainline" /\ call[c].pc \in Reading
  BY DEF ReadMainlineRows, Reading
<1>2. /\ w \in Draft /\ mainline \in Rows
      /\ ~call[c].stale /\ ~SilentLoss =>
           wsState[w] = "PENDING" /\ RowsOf(w) = mainline
  BY <1>1, ReadingFacts DEF IInv, PendingCalls, Pending, Types, CVTypes, RowsOf
<1>3. CASE \E code \in Codes : Refuse(c, code)
  BY <1>1, <1>3, RefusalStep DEF Refuse
<1>4. CASE \E rows \in RowsRead(mainline) : HasRows(rows) /\ SelectRow(c, rows)
  <2>1. PICK rows \in RowsRead(mainline) : HasRows(rows) /\ SelectRow(c, rows)
    BY <1>4
  <2>2. rows = mainline /\ rows # NoRows
    BY <2>1 DEF RowsRead, HasRows, NoRows
  <2> QED
    BY <1>1, <1>2, <2>1, <2>2, SelectRowStep
<1> QED
  BY <1>3, <1>4 DEF ReadMainlineRows, Codes

----------------------------------------------------------------------------
(* Steps that change a draft or the mainline.                              *)

(* q is the request p, marked stale.                                       *)
MarkOf(q, p) ==
  /\ q \in Requests /\ q.stale = TRUE
  /\ q.tool = p.tool /\ q.ws = p.ws /\ q.args = p.args /\ q.body = p.body

(* q is the call p, marked stale or not.                                   *)
SameUpToMark(q, p, mark) ==
  /\ q.pc = p.pc /\ q.tool = p.tool /\ q.ws = p.ws /\ q.args = p.args
  /\ q.confirm = p.confirm /\ q.token = p.token /\ q.body = p.body
  /\ mark => q.stale = TRUE
  /\ ~mark => q.stale = p.stale

(* What Staled does to a call.                                             *)
LEMMA StaledRecord ==
  ASSUME NEW q \in CallRecord, NEW ws
  PROVE  /\ Staled(q, ws) \in CallRecord
         /\ SameUpToMark(Staled(q, ws), q, q.ws \in ws)
<1>1. CASE q.ws \in ws
  <2> DEFINE s == [q EXCEPT !.stale = TRUE]
  <2>1. s \in CallRecord /\ SameUpToMark(s, q, TRUE)
    BY DEF CallRecord, SameUpToMark
  <2>2. Staled(q, ws) = s
    BY <1>1 DEF Staled
  <2> HIDE DEF s
  <2> QED
    BY <1>1, <2>1, <2>2 DEF SameUpToMark
<1>2. CASE q.ws \notin ws
  BY <1>2 DEF Staled, SameUpToMark
<1> QED
  BY <1>1, <1>2

(* CallsStaled changes nothing but that mark.                              *)
LEMMA StaledCall ==
  ASSUME NEW calls \in [Client -> CallRecord], NEW ws, NEW pcs
  PROVE  /\ CallsStaled(calls, ws, pcs) \in [Client -> CallRecord]
         /\ \A c \in Client :
              SameUpToMark(CallsStaled(calls, ws, pcs)[c], calls[c],
                           calls[c].pc \in pcs /\ calls[c].ws \in ws)
<1> DEFINE q(c) == IF calls[c].pc \in pcs THEN Staled(calls[c], ws)
                                         ELSE calls[c]
<1>1. ASSUME NEW c \in Client
      PROVE  /\ q(c) \in CallRecord
             /\ SameUpToMark(q(c), calls[c],
                             calls[c].pc \in pcs /\ calls[c].ws \in ws)
  <2>1. calls[c] \in CallRecord
    OBVIOUS
  <2>2. CASE calls[c].pc \in pcs
    BY <2>1, <2>2, StaledRecord DEF SameUpToMark
  <2>3. CASE calls[c].pc \notin pcs
    BY <2>1, <2>3 DEF SameUpToMark
  <2> QED
    BY <2>2, <2>3
<1>2. CallsStaled(calls, ws, pcs) = [c \in Client |-> q(c)]
  BY DEF CallsStaled
<1> HIDE DEF q
<1> QED
  BY <1>1, <1>2

(* The rows that count in the draft w are still there.                     *)
SameFor(w) ==
  /\ wsState[w] = "PENDING" => wsState'[w] = "PENDING"
  /\ overlay'[w] = overlay[w]
  /\ mainline' = mainline

(* The calls a step marks: D are the drafts whose requests it makes stale, *)
(* M those whose calls between the two GETs of the rows, S those whose     *)
(* calls before the first of them.                                         *)
Marks(D, M, S) ==
  \A d \in Client : call'[d].pc # "idle" =>
    SameUpToMark(call'[d], call[d],
      \/ call[d].pc = "await" /\ call[d].ws \in D
      \/ call[d].pc = "mainline" /\ call[d].ws \in M
      \/ call[d].pc = "draft" /\ call[d].ws \in S)

(* What a step leaves alone in the drafts it does not mark.                *)
Spares(D, M, S) ==
  /\ \A w \in Draft \ S : wsState[w] = "PENDING" => wsState'[w] = "PENDING"
  /\ \A w \in Draft \ M : overlay'[w] = overlay[w]
  /\ \A w \in Draft \ D : SameFor(w)
  /\ touched' # Draft => mainline' = mainline

(* The rows of drafts people left alone are the mainline's, or come from   *)
(* requests on the wire.                                                   *)
RowsArrive ==
  \A w \in Draft \ touched', p \in Path :
    \/ overlay'[w][p] = overlay[w][p]
    \/ overlay'[w][p] = mainline[p]
    \/ \E r \in Outstanding : /\ r.ws = w /\ r.args.path = p
                              /\ overlay'[w][p] = r.body

(* The requests after marking those for the drafts of D.                   *)
LEMMA MarkedOutstanding ==
  ASSUME IInv, NEW D, NEW L \in SUBSET late,
         call' \in [Client -> CallRecord],
         \A d \in Client : call'[d].pc = "await" =>
           SameUpToMark(call'[d], call[d], call[d].ws \in D),
         late' = LateStaled(L, D)
  PROVE  /\ late' \subseteq Requests
         /\ \A q \in Outstanding' :
              /\ \E p \in Outstanding : q = p \/ MarkOf(q, p)
              /\ q.ws \in Draft
              /\ q.ws \in D => q.stale = TRUE
<1>1. ASSUME NEW p \in Outstanding
      PROVE  p \in Requests /\ p.ws \in Draft
  BY DEF IInv, SoundRequests, SoundRequest, Requests
<1>2. ASSUME NEW q \in late'
      PROVE  /\ q \in Requests
             /\ \E p \in Outstanding : q = p \/ MarkOf(q, p)
             /\ q.ws \in D => q.stale = TRUE
  <2>1. PICK p \in L : q = Staled(p, D)
    BY DEF LateStaled
  <2>2. p \in Requests /\ p \in Outstanding
    BY DEF IInv, Types, Outstanding
  <2>3. CASE p.ws \in D
    BY <2>1, <2>2, <2>3 DEF Staled, MarkOf, Requests
  <2>4. CASE p.ws \notin D
    BY <2>1, <2>2, <2>4 DEF Staled
  <2> QED
    BY <2>3, <2>4
<1>3. ASSUME NEW d \in Client, call'[d].pc = "await"
      PROVE  /\ \E p \in Outstanding :
                  Request(call'[d]) = p \/ MarkOf(Request(call'[d]), p)
             /\ Request(call'[d]).ws \in D => Request(call'[d]).stale = TRUE
  <2> DEFINE p == Request(call[d])
             q == Request(call'[d])
  <2>1. call[d].pc = "await" /\ p \in Outstanding
    BY <1>3 DEF SameUpToMark, Outstanding
  <2>2. CASE call[d].ws \in D
    <3>1. MarkOf(q, p)
      BY <1>1, <1>3, <2>1, <2>2 DEF SameUpToMark, Request, MarkOf, Requests
    <3> QED
      BY <2>1, <3>1 DEF MarkOf
  <2>3. CASE call[d].ws \notin D
    <3>1. q = p
      BY <1>3, <2>3 DEF SameUpToMark, Request
    <3>2. q.ws = call[d].ws
      BY <3>1 DEF Request
    <3> QED
      BY <2>1, <2>3, <3>1, <3>2
  <2> QED
    BY <2>2, <2>3
<1>4. \A q \in Outstanding' :
        q \in late' \/ \E d \in Client : call'[d].pc = "await" /\ q = Request(call'[d])
  BY DEF Outstanding
<1>5. \A q \in Outstanding' :
        /\ \E p \in Outstanding : q = p \/ MarkOf(q, p)
        /\ q.ws \in D => q.stale = TRUE
  BY <1>2, <1>3, <1>4
<1> QED
  BY <1>1, <1>2, <1>5 DEF MarkOf

(* A step that marks the calls and requests it makes stale; a draft people *)
(* left alone only gets rows of the mainline and rows on the wire.         *)
LEMMA MarkingStep ==
  ASSUME IInv, NEW D \in SUBSET Draft, NEW M \in SUBSET D, NEW S \in SUBSET M,
         NEW L \in SUBSET late, late' = LateStaled(L, D),
         call' \in [Client -> CallRecord], CVTypes',
         UNCHANGED issued, touched \subseteq touched',
         Marks(D, M, S), Spares(D, M, S), RowsArrive
  PROVE  IInv'
<1>1. /\ late' \subseteq Requests
      /\ \A q \in Outstanding' :
           /\ \E p \in Outstanding : q = p \/ MarkOf(q, p)
           /\ q.ws \in Draft
           /\ q.ws \in D => q.stale = TRUE
  <2>1. \A d \in Client : call'[d].pc = "await" =>
          SameUpToMark(call'[d], call[d], call[d].ws \in D)
    BY DEF SameUpToMark, Marks
  <2> QED
    BY <2>1, MarkedOutstanding
<1>2. Types'
  BY <1>1 DEF IInv, Types
<1>3. PendingCalls'
  <2> SUFFICES ASSUME NEW d \in Client, call'[d].pc \in Reading
               PROVE  Pending(d)'
    BY DEF PendingCalls
  <2>1. call[d].pc = call'[d].pc /\ Pending(d)
    BY DEF IInv, PendingCalls, Marks, SameUpToMark, Reading
  <2>2. call[d].ws \in Draft
    BY <2>1 DEF Pending, Accepted
  <2>3. CASE call[d].pc = "preflight"
    <3>1. SameUpToMark(call'[d], call[d], FALSE)
      BY <2>1, <2>3 DEF Marks, SameUpToMark
    <3> QED
      BY <2>1, <2>3, <3>1 DEF Pending, SameUpToMark
  <2>4. CASE call[d].pc = "draft"
    <3>1. SameUpToMark(call'[d], call[d], call[d].ws \in S)
      BY <2>1, <2>4 DEF Marks, SameUpToMark
    <3>2. call[d].ws \notin S =>
            (wsState[call[d].ws] = "PENDING" => wsState'[call[d].ws] = "PENDING")
      BY <2>2 DEF Spares
    <3> QED
      BY <2>1, <2>4, <3>1, <3>2 DEF Pending, SameUpToMark
  <2>5. CASE call[d].pc = "mainline"
    <3>1. SameUpToMark(call'[d], call[d], call[d].ws \in M)
      BY <2>1, <2>5 DEF Marks, SameUpToMark
    <3>2. call[d].ws \notin M =>
            /\ wsState[call[d].ws] = "PENDING" => wsState'[call[d].ws] = "PENDING"
            /\ overlay'[call[d].ws] = overlay[call[d].ws]
      BY <2>2 DEF Spares
    <3> QED
      BY <2>1, <2>5, <3>1, <3>2 DEF Pending, SameUpToMark, HasRows
  <2> QED
    BY <2>1, <2>3, <2>4, <2>5 DEF Reading
<1>4. ASSUME touched' # Draft, NEW p, NEW doc
      PROVE  Faithful(p, doc)' = Faithful(p, doc)
  BY <1>4 DEF Faithful, Spares
<1>5. SoundRequests'
  <2> SUFFICES ASSUME NEW q \in Outstanding' PROVE SoundRequest(q)'
    BY DEF SoundRequests
  <2>1. PICK p \in Outstanding : q = p \/ MarkOf(q, p)
    BY <1>1
  <2>2. SoundRequest(p) /\ p \in Requests
    BY DEF IInv, SoundRequests, SoundRequest
  <2>3. /\ q \in Requests /\ q.ws = p.ws
        /\ q.args = p.args /\ q.body = p.body
        /\ ~q.stale => ~p.stale
    BY <2>1, <2>2 DEF MarkOf
  <2>4. q.ws \in Draft /\ q.stale \in BOOLEAN /\ (q.ws \in D => q.stale = TRUE)
    BY <1>1, <2>3 DEF Requests
  <2>5. /\ Accepted(q.ws, q.args)
        /\ q.body = q.args.inputs
        /\ PreviewToken("set_inputs", q.ws, q.args) \in issued'
    BY <2>2, <2>3 DEF SoundRequest
  <2>6. q.ws \notin touched' => Faithful(q.args.path, q.body)'
    BY <1>4, <2>2, <2>3, <2>4 DEF SoundRequest
  <2>7. ~q.stale /\ ~SilentLoss => Current(q)'
    <3> SUFFICES ASSUME ~q.stale, ~SilentLoss PROVE Current(q)'
      OBVIOUS
    <3>1. Current(p) /\ SameFor(q.ws)
      BY <2>2, <2>3, <2>4 DEF SoundRequest, Spares
    <3>2. RowsOf(q.ws)' = RowsOf(q.ws)
      BY <3>1 DEF SameFor, RowsOf, HasRows
    <3> QED
      BY <2>3, <3>1, <3>2 DEF SameFor, Current
  <2> QED
    BY <2>3, <2>5, <2>6, <2>7 DEF SoundRequest
<1>6. DraftRows'
  <2> SUFFICES ASSUME NEW w \in Draft \ touched', NEW p \in Path,
                      NEW doc, doc = overlay'[w][p], doc # NoDoc
               PROVE  /\ Faithful(p, doc)'
                      /\ doc # mainline'[p] => Shown(w, p, doc)'
    BY DEF DraftRows
  <2>1. w \in Draft \ touched /\ touched' # Draft /\ mainline' = mainline
    BY DEF Spares
  <2>2. Faithful(p, doc) /\ (doc # mainline[p] => Shown(w, p, doc))
    <3>1. CASE doc = overlay[w][p]
      BY <2>1, <3>1 DEF IInv, DraftRows
    <3>2. CASE doc = mainline[p]
      BY <3>2 DEF Faithful, DifferingLeaves
    <3>3. ASSUME NEW r \in Outstanding, r.ws = w, r.args.path = p, doc = r.body
          PROVE  Faithful(p, doc) /\ Shown(w, p, doc)
      <4>1. SoundRequest(r)
        BY DEF IInv, SoundRequests
      <4>2. r.args = ArgRecord(p, doc, r.args.allowed) /\ r.args.allowed \in AllowedKeys
        BY <3>3, <4>1 DEF SoundRequest, Accepted, Args, ArgRecord
      <4> QED
        BY <2>1, <3>3, <4>1, <4>2 DEF SoundRequest, Shown
    <3> QED
      BY <3>1, <3>2, <3>3 DEF RowsArrive
  <2>3. Faithful(p, doc)'
    BY <1>4, <2>1, <2>2
  <2> QED
    BY <2>1, <2>2, <2>3 DEF Shown
<1> QED
  BY <1>2, <1>3, <1>5, <1>6 DEF IInv

(* The rows that count are rows.                                           *)
LEMMA RowsOfType ==
  ASSUME IInv, NEW w \in Draft
  PROVE  /\ RowsOf(w) \in Rows
         /\ \A p \in Path : RowsOf(w)[p] \in {overlay[w][p], mainline[p]}
BY DEF IInv, Types, CVTypes, RowsOf

(* A request takes effect, of a call that waits for it or a late one.      *)
LEMMA ArrivalStep ==
  ASSUME IInv, NEW p \in Outstanding, NEW q, q.ws = p.ws,
         q.args = p.args, q.body = p.body, Effect(q), UNCHANGED issued,
         NEW L \in SUBSET late, late' = LateStaled(L, {p.ws}),
         call' \in [Client -> CallRecord],
         \A d \in Client : call'[d].pc # "idle" =>
           call'[d] = CallsStaled(call, {p.ws}, RowsWereRead)[d]
  PROVE  IInv'
<1> DEFINE D == {p.ws}
<1>1. p.ws \in Draft /\ p.args.path \in Path /\ p.body \in Document
  BY DEF IInv, SoundRequests, SoundRequest, Requests, Args
<1>2. /\ overlay' = [overlay EXCEPT ![p.ws] = [RowsOf(p.ws) EXCEPT ![p.args.path] = p.body]]
      /\ UNCHANGED <<wsState, mainline, touched>>
  BY DEF Effect, RowsAfter
<1>3. RowsOf(p.ws) \in Rows /\ overlay \in [Draft -> Rows]
  BY <1>1, RowsOfType DEF IInv, Types, CVTypes
<1>4. /\ overlay' \in [Draft -> Rows]
      /\ \A w \in Draft \ D : overlay'[w] = overlay[w]
      /\ overlay'[p.ws] = [RowsOf(p.ws) EXCEPT ![p.args.path] = p.body]
  <2>1. [RowsOf(p.ws) EXCEPT ![p.args.path] = p.body] \in Rows
    BY <1>1, <1>3 DEF Rows
  <2> QED
    BY <1>1, <1>2, <1>3, <2>1
<1>5. CVTypes'
  BY <1>2, <1>4 DEF IInv, Types, CVTypes
<1>6. \A d \in Client :
        SameUpToMark(CallsStaled(call, D, RowsWereRead)[d], call[d],
                     call[d].pc \in RowsWereRead /\ call[d].ws \in D)
  <2>1. call \in [Client -> CallRecord]
    BY DEF IInv, Types
  <2> HIDE DEF D
  <2> QED
    BY <2>1, StaledCall
<1>7. D \in SUBSET Draft /\ D \in SUBSET D /\ {} \in SUBSET D
  BY <1>1
<1>8. Marks(D, D, {})
  BY <1>6, ZenonT(60) DEF SameUpToMark, RowsWereRead, Marks
<1>9. Spares(D, D, {})
  BY <1>2, <1>4 DEF SameFor, Spares
<1>10. RowsArrive
  <2> SUFFICES ASSUME NEW w \in Draft, NEW r \in Path
               PROVE  \/ overlay'[w][r] = overlay[w][r]
                      \/ overlay'[w][r] = mainline[r]
                      \/ p.ws = w /\ p.args.path = r /\ overlay'[w][r] = p.body
    BY DEF RowsArrive
  <2>1. CASE w # p.ws
    BY <1>4, <2>1
  <2>2. CASE w = p.ws /\ r # p.args.path
    <3>1. overlay'[w][r] = RowsOf(w)[r]
      BY <1>1, <1>3, <1>4, <2>2 DEF Rows
    <3> QED
      BY <3>1, RowsOfType
  <2>3. CASE w = p.ws /\ r = p.args.path
    BY <1>1, <1>3, <1>4, <2>3 DEF Rows
  <2> QED
    BY <2>1, <2>2, <2>3
<1>11. late' = LateStaled(L, D) /\ touched \subseteq touched'
  BY <1>2
<1> HIDE DEF D
<1> QED
  BY <1>5, <1>7, <1>8, <1>9, <1>10, <1>11, MarkingStep

(* A request takes effect, and its call ends.                              *)
LEMMA AppliedStep ==
  ASSUME IInv, NEW c \in Client, Applied(c)
  PROVE  IInv'
<1> DEFINE q == call[c]
           p == Request(call[c])
           calls == CallsStaled(call, {q.ws}, RowsWereRead)
<1>1. /\ q.pc = "await" /\ Effect(q) /\ UNCHANGED issued
      /\ late' = LateStaled(late, {q.ws})
  BY DEF Applied
<1>2. /\ p \in Outstanding /\ q.ws = p.ws /\ q.args = p.args /\ q.body = p.body
  BY <1>1 DEF Outstanding, Request
<1>3. PICK code \in Codes : call' = [calls EXCEPT ![c] = Idle(code)]
  BY DEF Applied, Codes
<1>4. calls \in [Client -> CallRecord]
  BY StaledCall DEF IInv, Types
<1> HIDE DEF calls
<1>5. /\ call' \in [Client -> CallRecord]
      /\ \A d \in Client : call'[d].pc # "idle" => call'[d] = calls[d]
  BY <1>3, <1>4, IdleType
<1> HIDE DEF q, p
<1> QED
  BY <1>1, <1>2, <1>5, ArrivalStep DEF calls

(* A late request takes effect after all.                                  *)
LEMMA AppliedLateStep ==
  ASSUME IInv, NEW q \in late, AppliedLate(q)
  PROVE  IInv'
<1>1. /\ Effect(q) /\ UNCHANGED issued
      /\ late' = LateStaled(late \ {q}, {q.ws})
      /\ call' = CallsStaled(call, {q.ws}, RowsWereRead)
  BY DEF AppliedLate
<1>2. q \in Outstanding /\ late \ {q} \in SUBSET late
  BY DEF Outstanding
<1>3. call' \in [Client -> CallRecord]
  BY <1>1, StaledCall DEF IInv, Types
<1> QED
  BY <1>1, <1>2, <1>3, ArrivalStep

(* What people do to one draft: see Touch.                                 *)
LEMMA TouchStep ==
  ASSUME IInv, NEW w \in Draft,
         NEW pcs \in {RowsWereRead, {"draft", "mainline", "await"}},
         Touch({w}, pcs), CVTypes', UNCHANGED mainline,
         pcs = RowsWereRead => wsState' = wsState,
         \A u \in Draft \ {w} :
           overlay'[u] = overlay[u] /\ wsState'[u] = wsState[u]
  PROVE  IInv'
<1> DEFINE D == {w}
           S == IF pcs = RowsWereRead THEN {} ELSE D
<1>1. /\ UNCHANGED issued /\ late' = LateStaled(late, D)
      /\ call' = CallsStaled(call, D, pcs) /\ touched' = touched \cup D
  BY DEF Touch
<1>2. D \in SUBSET Draft /\ D \in SUBSET D /\ S \in SUBSET D
  OBVIOUS
<1>3. /\ call' \in [Client -> CallRecord]
      /\ \A d \in Client :
           SameUpToMark(call'[d], call[d], call[d].pc \in pcs /\ call[d].ws \in D)
  <2>1. call \in [Client -> CallRecord]
    BY DEF IInv, Types
  <2> HIDE DEF D
  <2> QED
    BY <1>1, <2>1, StaledCall
<1>4. "draft" \notin RowsWereRead
  BY DEF RowsWereRead
<1>5. Marks(D, D, S)
  <2> SUFFICES ASSUME NEW d \in Client, call'[d].pc # "idle"
               PROVE  SameUpToMark(call'[d], call[d],
                        \/ call[d].pc = "await" /\ call[d].ws \in D
                        \/ call[d].pc = "mainline" /\ call[d].ws \in D
                        \/ call[d].pc = "draft" /\ call[d].ws \in S)
    BY DEF Marks
  <2>1. CASE pcs = RowsWereRead
    BY <1>3, <2>1 DEF SameUpToMark, RowsWereRead
  <2>2. CASE pcs # RowsWereRead
    BY <1>3, <2>2 DEF SameUpToMark
  <2> QED
    BY <2>1, <2>2
<1>6. Spares(D, D, S)
  BY <1>1 DEF SameFor, Spares
<1>7. RowsArrive
  BY <1>1 DEF RowsArrive
<1>8. touched \subseteq touched' /\ late \in SUBSET late
  BY <1>1
<1> HIDE DEF D, S
<1> QED
  BY <1>1, <1>2, <1>3, <1>5, <1>6, <1>7, <1>8, MarkingStep

(* People edit a row in a draft.                                           *)
LEMMA OperatorEditsStep ==
  ASSUME IInv, NEW w \in Draft, NEW p \in Path, NEW doc \in Document,
         OperatorEdits(w, p, doc)
  PROVE  IInv'
<1>1. /\ overlay' = [overlay EXCEPT ![w] = [RowsOf(w) EXCEPT ![p] = doc]]
      /\ Touch({w}, RowsWereRead) /\ UNCHANGED <<wsState, mainline>>
  BY DEF OperatorEdits
<1>2. [RowsOf(w) EXCEPT ![p] = doc] \in Rows
  BY RowsOfType DEF Rows
<1>3. touched' \subseteq Draft /\ overlay \in [Draft -> Rows]
  BY <1>1 DEF Touch, IInv, Types, CVTypes
<1>4. /\ overlay' \in [Draft -> Rows]
      /\ \A u \in Draft \ {w} : overlay'[u] = overlay[u]
  BY <1>1, <1>2, <1>3
<1>5. CVTypes'
  BY <1>1, <1>3, <1>4 DEF IInv, Types, CVTypes
<1>6. RowsWereRead \in {RowsWereRead, {"draft", "mainline", "await"}}
  OBVIOUS
<1> QED
  BY <1>1, <1>4, <1>5, <1>6, TouchStep

(* A draft is deleted, and its rows with it.                               *)
LEMMA DraftDeletedStep ==
  ASSUME IInv, NEW w \in Draft, DraftDeleted(w)
  PROVE  IInv'
<1> DEFINE pcs == {"draft", "mainline", "await"}
<1>1. /\ wsState' = [wsState EXCEPT ![w] = "absent"]
      /\ overlay' = [overlay EXCEPT ![w] = NoRows]
      /\ Touch({w}, pcs) /\ UNCHANGED mainline
  BY DEF DraftDeleted
<1>2. touched' \subseteq Draft /\ overlay \in [Draft -> Rows] /\ wsState \in [Draft -> WsState]
  BY <1>1 DEF Touch, IInv, Types, CVTypes
<1>3. /\ overlay' \in [Draft -> Rows] /\ wsState' \in [Draft -> WsState]
      /\ \A u \in Draft \ {w} : overlay'[u] = overlay[u] /\ wsState'[u] = wsState[u]
  BY <1>1, <1>2 DEF WsState, NoRows, Rows
<1>4. CVTypes'
  BY <1>1, <1>2, <1>3 DEF IInv, Types, CVTypes
<1>5. pcs \in {RowsWereRead, {"draft", "mainline", "await"}} /\ pcs # RowsWereRead
  BY DEF RowsWereRead
<1> HIDE DEF pcs
<1> QED
  BY <1>1, <1>3, <1>4, <1>5, TouchStep

(* A draft is submitted: the mainline takes over its rows, and everybody   *)
(* who is about to write, or read anything of this draft, is out of date.  *)
LEMMA OperatorSubmitsStep ==
  ASSUME IInv, NEW w \in Draft, OperatorSubmits(w)
  PROVE  IInv'
<1> DEFINE calls == CallsStaled(call, Draft, {"await"})
           S == {w}
           pcs == {"draft", "mainline", "await"}
<1>1. /\ wsState' = [wsState EXCEPT ![w] = "SUBMITTED"]
      /\ mainline' = RowsOf(w)
      /\ call' = CallsStaled(calls, S, pcs)
      /\ late' = LateStaled(late, Draft)
      /\ touched' = Draft /\ UNCHANGED <<issued, overlay>>
  BY DEF OperatorSubmits
<1>2. /\ wsState \in [Draft -> WsState] /\ touched \subseteq Draft
      /\ call \in [Client -> CallRecord]
  BY DEF IInv, Types, CVTypes
<1>3. CVTypes'
  BY <1>1, <1>2, RowsOfType DEF IInv, Types, CVTypes, WsState
<1>4. /\ calls \in [Client -> CallRecord]
      /\ \A d \in Client :
           SameUpToMark(calls[d], call[d],
                        call[d].pc \in {"await"} /\ call[d].ws \in Draft)
  BY <1>2, StaledCall
<1> HIDE DEF calls, S, pcs
<1>5. /\ call' \in [Client -> CallRecord]
      /\ \A d \in Client :
           SameUpToMark(call'[d], calls[d], calls[d].pc \in pcs /\ calls[d].ws \in S)
  BY <1>1, <1>4, StaledCall
<1>6. S \in SUBSET Draft /\ Draft \in SUBSET Draft /\ S \in SUBSET S
  BY DEF S
<1>7. Marks(Draft, S, S)
  <2> SUFFICES ASSUME NEW d \in Client
               PROVE  SameUpToMark(call'[d], call[d],
                        \/ call[d].pc = "await" /\ call[d].ws \in Draft
                        \/ call[d].pc = "mainline" /\ call[d].ws \in S
                        \/ call[d].pc = "draft" /\ call[d].ws \in S)
    BY DEF Marks
  <2>1. SameUpToMark(calls[d], call[d], call[d].pc = "await" /\ call[d].ws \in Draft)
    BY <1>4 DEF SameUpToMark
  <2>2. SameUpToMark(call'[d], calls[d], call[d].pc \in pcs /\ call[d].ws \in S)
    BY <1>5, <2>1 DEF SameUpToMark
  <2> QED
    BY <1>6, <2>1, <2>2 DEF SameUpToMark, pcs
<1>8. Spares(Draft, S, S)
  BY <1>1, <1>2 DEF S, Spares
<1>9. RowsArrive /\ touched \subseteq touched' /\ late \in SUBSET late
  BY <1>1, <1>2 DEF RowsArrive
<1> QED
  BY <1>1, <1>3, <1>5, <1>6, <1>7, <1>8, <1>9, MarkingStep

(* A new draft was absent: no call that is not stale counts on it.         *)
LEMMA DraftCreatedStep ==
  ASSUME IInv, NEW w \in Draft, DraftCreated(w)
  PROVE  IInv'
<1>1. /\ wsState[w] = "absent" /\ wsState' = [wsState EXCEPT ![w] = "PENDING"]
      /\ UNCHANGED <<call, issued, late, overlay, mainline, touched>>
  BY DEF DraftCreated
<1>2. CVTypes' /\ \A u \in Draft : wsState[u] = "PENDING" => wsState'[u] = "PENDING"
  BY <1>1 DEF IInv, Types, CVTypes, WsState
<1>3. late' = LateStaled(late, {})
  BY <1>1 DEF LateStaled, Staled
<1>4. /\ call' \in [Client -> CallRecord]
      /\ \A d \in Client : SameUpToMark(call'[d], call[d], FALSE)
  BY <1>1 DEF IInv, Types, SameUpToMark
<1>5. Marks({}, {}, {})
  BY <1>4 DEF Marks
<1>6. Spares({}, {}, {}) /\ RowsArrive
  BY <1>1, <1>2 DEF Spares, SameFor, RowsArrive
<1>7. {} \in SUBSET Draft /\ {} \in SUBSET {} /\ late \in SUBSET late
      /\ touched \subseteq touched'
  BY <1>1
<1> QED
  BY <1>1, <1>2, <1>3, <1>4, <1>5, <1>6, <1>7, MarkingStep

----------------------------------------------------------------------------
(* Calls that end without an answer, and requests that never arrive.       *)

(* A request that came to nothing only ends its call.                      *)
LEMMA RejectedStep ==
  ASSUME IInv, NEW c \in Client, Rejected(c)
  PROVE  IInv'
BY RefusalStep DEF Rejected, Codes

(* A timeout leaves the request to arrive late.                            *)
LEMMA GiveUpStep ==
  ASSUME IInv, NEW c \in Client, GiveUpAny(c)
  PROVE  IInv'
<1>1. /\ call[c].pc = "await" /\ Finish(c, "resource_write_failed")
      /\ late' = late \cup {Request(call[c])}
      /\ UNCHANGED <<issued, cvVars>>
  BY DEF GiveUpAny, GiveUp
<1> QED
  BY <1>1, EndingStep DEF IInv, Types, Codes

(* The request of a stopped process may still arrive.                      *)
LEMMA RestartStep ==
  ASSUME IInv, NEW c \in Client, RestartAny(c)
  PROVE  IInv'
<1>1. /\ Finish(c, "none") /\ UNCHANGED <<issued, cvVars>>
      /\ \/ call[c].pc = "await" /\ late' = late \cup {Request(call[c])}
         \/ late' = late
  BY DEF RestartAny, Restart
<1> QED
  BY <1>1, EndingStep DEF IInv, Types, Codes

(* Steps in which no call moves: one request fewer on the wire, or none.   *)
LEMMA NoCallStep ==
  ASSUME IInv, UNCHANGED <<call, issued, cvVars>>, late' \subseteq late
  PROVE  IInv'
<1>1. Outstanding' \subseteq Outstanding
  BY DEF Outstanding, Request
<1> QED
  BY <1>1, QuietStep DEF IInv, Types

----------------------------------------------------------------------------
(* The inductive invariant holds in every state, for any number of         *)
(* processes, drafts, rows, documents and late requests.                   *)
THEOREM Invariance == Spec => []IInv
<1>1. IInv /\ [Next]_vars => IInv'
  <2> SUFFICES ASSUME IInv, [Next]_vars PROVE IInv'
    OBVIOUS
  <2>1. CASE \E c \in Client : InvokeAny(c)
    BY <2>1, InvokeStep
  <2>2. CASE \E c \in Client : ReadWorkspace(c)
    BY <2>2, ReadWorkspaceStep
  <2>3. CASE \E c \in Client : ReadDraftRows(c)
    BY <2>3, ReadDraftRowsStep
  <2>4. CASE \E c \in Client : ReadMainlineRows(c)
    BY <2>4, ReadMainlineRowsStep
  <2>5. CASE \E c \in Client : Applied(c)
    BY <2>5, AppliedStep
  <2>6. CASE \E c \in Client : Rejected(c)
    BY <2>6, RejectedStep
  <2>7. CASE \E c \in Client : GiveUpAny(c)
    BY <2>7, GiveUpStep
  <2>8. CASE \E c \in Client : RestartAny(c)
    BY <2>8, RestartStep
  <2>9. CASE \E q \in late : AppliedLate(q)
    BY <2>9, AppliedLateStep
  <2>10. CASE \E q \in late : DroppedLate(q)
    BY <2>10, NoCallStep DEF DroppedLate
  <2>11. CASE \E w \in Draft, p \in Path, doc \in Document : OperatorEdits(w, p, doc)
    BY <2>11, OperatorEditsStep
  <2>12. CASE \E w \in Draft : OperatorSubmits(w)
    BY <2>12, OperatorSubmitsStep
  <2>13. CASE \E w \in Draft : DraftDeleted(w)
    BY <2>13, DraftDeletedStep
  <2>14. CASE \E w \in Draft : DraftCreated(w)
    BY <2>14, DraftCreatedStep
  <2>15. CASE UNCHANGED vars
    BY <2>15, NoCallStep DEF vars, cvVars
  <2> QED
    BY <2>1, <2>2, <2>3, <2>4, <2>5, <2>6, <2>7, <2>8, <2>9, <2>10, <2>11,
       <2>12, <2>13, <2>14, <2>15 DEF Next
<1> QED
  BY <1>1, InitInv, PTL DEF Spec

(* The variables keep their types, a call on its way has a key it may      *)
(* change and none that is forbidden, and what is on the wire is the       *)
(* document of its arguments: TypeOK.                                      *)
THEOREM TypeCorrect == Spec => []TypeOK
<1>1. IInv => TypeOK
  BY InvImplies
<1> QED
  BY <1>1, Invariance, PTL

(* As long as the stream of Inputs warns of every row it loses, a write    *)
(* that nobody raced finds its row in a pending draft, and differs from it *)
(* only at or below names its caller allowed.                              *)
THEOREM UnracedNamed ==
  ASSUME ~SilentLoss
  PROVE  Spec => []UnracedWriteChangesOnlyNamed
<1>1. IInv => UnracedWriteChangesOnlyNamed
  BY InvImplies
<1> QED
  BY <1>1, Invariance, PTL

(* However calls race, and whatever is lost on the way, no leaf under a    *)
(* forbidden name differs from the mainline in a draft people left alone,  *)
(* unless it lies in a container some caller may replace.                  *)
THEOREM ForbiddenStay == Spec => []ForbiddenLeavesStay
<1>1. IInv => ForbiddenLeavesStay
  BY InvImplies
<1> QED
  BY <1>1, Invariance, PTL

(* Nor does a race bring a disruptive word into a row of such a draft that *)
(* the same row of the mainline does not have.                             *)
THEOREM WordsStay == Spec => []WordsAreOfTheMainline
<1>1. IInv => WordsAreOfTheMainline
  BY InvImplies
<1> QED
  BY <1>1, Invariance, PTL

(* A row of such a draft is the mainline's, or was shown by a dry run for  *)
(* that draft and path.                                                    *)
THEOREM RowsPreviewed == Spec => []RowsWerePreviewed
<1>1. IInv => RowsWerePreviewed
  BY InvImplies
<1> QED
  BY <1>1, Invariance, PTL

----------------------------------------------------------------------------
(* What an accepted answer means.                                          *)

(* A call leaves its request accepted only when the request took effect.   *)
LEMMA AcceptedIsApplied ==
  ASSUME IInv, [Next]_vars, NEW c \in Client, call[c].pc = "await",
         call'[c].pc = "idle", call'[c].code = "accepted"
  PROVE  Applied(c)
<1>0. ASSUME NEW calls \in [Client -> CallRecord], NEW ws, NEW pcs
      PROVE  /\ CallsStaled(calls, ws, pcs) \in [Client -> CallRecord]
             /\ CallsStaled(calls, ws, pcs)[c].pc = calls[c].pc
  <2>1. SameUpToMark(CallsStaled(calls, ws, pcs)[c], calls[c],
                     calls[c].pc \in pcs /\ calls[c].ws \in ws)
    BY StaledCall
  <2> QED
    BY <2>1, StaledCall DEF SameUpToMark
<1>1. ASSUME NEW d \in Client,
             InvokeAny(d) \/ ReadWorkspace(d)
               \/ ReadDraftRows(d) \/ ReadMainlineRows(d)
      PROVE  FALSE
  <2>1. c # d /\ (InvokeAny(d) \/ ReadWorkspace(d) => call'[c] = call[c])
    BY <1>1 DEF IInv, Types, InvokeAny, Invoke, ReadWorkspace, ReadDraftRows,
                ReadMainlineRows, Refuse, GoOn, Finish, Enter
  <2>2. ReadDraftRows(d) \/ ReadMainlineRows(d) => call'[c] = call[c]
    BY <2>1 DEF IInv, Types, ReadDraftRows, ReadMainlineRows, SelectRow,
                Compare, Refuse, GoOn, Finish, Gate, Send
  <2> QED
    BY <1>1, <2>1, <2>2
<1>2. ASSUME NEW d \in Client,
             Rejected(d) \/ GiveUpAny(d) \/ RestartAny(d)
      PROVE  FALSE
  <2>1. \E code \in {"resource_write_failed", "none"} : Finish(d, code)
    BY <1>2 DEF Rejected, GiveUpAny, GiveUp, RestartAny, Restart
  <2> QED
    BY <2>1 DEF Finish, Idle, IInv, Types
<1>3. ASSUME NEW calls \in [Client -> CallRecord], NEW ws, NEW pcs,
             calls[c].pc = "await", call' = CallsStaled(calls, ws, pcs)
      PROVE  FALSE
  BY <1>0, <1>3
<1>4. ASSUME NEW q, AppliedLate(q) PROVE FALSE
  BY <1>3, <1>4 DEF AppliedLate, IInv, Types
<1>5. ASSUME NEW ws, NEW pcs, Touch(ws, pcs) PROVE FALSE
  BY <1>3, <1>5 DEF Touch, IInv, Types
<1>6. ASSUME NEW d \in Client \ {c}, Applied(d) PROVE FALSE
  <2> DEFINE calls == CallsStaled(call, {call[d].ws}, RowsWereRead)
  <2>1. calls \in [Client -> CallRecord] /\ calls[c].pc = "await"
    BY <1>0 DEF IInv, Types
  <2>2. PICK code : call' = [calls EXCEPT ![d] = Idle(code)]
    BY <1>6 DEF Applied
  <2> HIDE DEF calls
  <2> QED
    BY <2>1, <2>2
<1>7. (\E q \in late : DroppedLate(q)) \/ (\E w \in Draft : DraftCreated(w))
        \/ UNCHANGED vars => call' = call
  BY DEF DroppedLate, DraftCreated, vars
<1>8. ASSUME NEW w \in Draft, OperatorSubmits(w) PROVE FALSE
  <2> DEFINE calls == CallsStaled(call, Draft, {"await"})
  <2>1. calls \in [Client -> CallRecord] /\ calls[c].pc = "await"
    BY <1>0 DEF IInv, Types
  <2>2. call' = CallsStaled(calls, {w}, {"draft", "mainline", "await"})
    BY <1>8 DEF OperatorSubmits
  <2> HIDE DEF calls
  <2> QED
    BY <1>3, <2>1, <2>2
<1> QED
  BY <1>1, <1>2, <1>4, <1>5, <1>6, <1>7, <1>8
     DEF Next, OperatorEdits, DraftDeleted

(* The step that answers an unraced call of (w, a): accepted.              *)
Accepts(c, w, a) ==
  /\ call[c].pc = "await" /\ call[c].ws = w /\ call[c].args = a
  /\ ~call[c].stale
  /\ call'[c].pc = "idle" /\ call'[c].code = "accepted"

(* What a write does to the rows when it takes effect.                     *)
RowReplaced(w, a) ==
  /\ wsState[w] = "PENDING"
  /\ RowsOf(w)[a.path] # NoDoc
  /\ \A l \in DifferingLeaves(RowsOf(w)[a.path], a.inputs) : Named(l, a.allowed)
  /\ RowsOf(w)' = [RowsOf(w) EXCEPT ![a.path] = a.inputs]
  /\ \A v \in Draft \ {w} : RowsOf(v)' = RowsOf(v)

(* An accepted answer to a call nobody raced tells the truth: the draft    *)
(* was pending and had a row at the path, which from this step on is what  *)
(* the caller sent and differs from what it was only where named; all      *)
(* other rows, those of other drafts included, are what they were.         *)
AcceptedWriteReplacesTheRow ==
  [][\A c \in Client, w \in Draft, a \in Args :
       Accepts(c, w, a) => RowReplaced(w, a)]_vars

(* As long as the helper warns of every row it loses, an accepted, unraced *)
(* write of a path has replaced that row and nothing else.                 *)
THEOREM AcceptedMeansReplaced ==
  ASSUME ~SilentLoss
  PROVE  Spec => AcceptedWriteReplacesTheRow
<1>1. ASSUME IInv, [Next]_vars, NEW c \in Client, NEW w \in Draft,
             NEW a \in Args, Accepts(c, w, a)
      PROVE  RowReplaced(w, a)
  <2> DEFINE q == Request(call[c])
  <2>1. SoundRequest(q)
    BY <1>1 DEF IInv, SoundRequests, Outstanding, Accepts
  <2>2. q.ws = w /\ q.args = a /\ ~q.stale /\ q.body = call[c].body
    BY <1>1 DEF Request, Accepts
  <2>3. /\ Current(q) /\ q.body = a.inputs
        /\ a.inputs \in Document /\ a.path \in Path
    BY <2>1, <2>2 DEF SoundRequest, Args
  <2>4. Applied(c)
    BY <1>1, AcceptedIsApplied DEF Accepts
  <2>5. /\ overlay' = [overlay EXCEPT
                         ![w] = [RowsOf(w) EXCEPT ![a.path] = a.inputs]]
        /\ mainline' = mainline
        /\ overlay \in [Draft -> Rows] /\ mainline \in Rows
    BY <1>1, <2>2, <2>3, <2>4
       DEF Accepts, Applied, Effect, RowsAfter, IInv, Types, CVTypes
  <2> HIDE DEF q
  <2>6. RowsOf(w) \in Rows
    BY <2>5 DEF RowsOf
  <2>7. PICK rows \in Rows : rows = [RowsOf(w) EXCEPT ![a.path] = a.inputs]
    BY <2>3, <2>6 DEF Rows
  <2>8. rows[a.path] = a.inputs /\ a.inputs # NoDoc
    BY <2>3, <2>6, <2>7, PathInputsAssumption DEF Rows
  <2>9. HasRows(rows)
    BY <2>3, <2>8 DEF HasRows
  <2>10. RowsOf(w)' = rows
    BY <2>5, <2>7, <2>9 DEF RowsOf
  <2>11. \A v \in Draft \ {w} : RowsOf(v)' = RowsOf(v)
    BY <2>5 DEF RowsOf
  <2> QED
    BY <2>2, <2>3, <2>7, <2>10, <2>11 DEF RowReplaced, Current
<1>2. IInv /\ [Next]_vars =>
        [\A c \in Client, w \in Draft, a \in Args :
           Accepts(c, w, a) => RowReplaced(w, a)]_vars
  BY <1>1
<1> QED
  BY <1>2, Invariance, PTL DEF Spec, AcceptedWriteReplacesTheRow

=============================================================================
