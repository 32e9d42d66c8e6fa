----------------------------- MODULE WriteCall -----------------------------
(***************************************************************************)
(* The part every Studios write tool shares: the gates before any HTTP,    *)
(* the preview token, and the life of the one mutating request of a call.  *)
(*                                                                         *)
(* A call is a short script in one process of the MCP server:              *)
(*                                                                         *)
(*     idle -> preflight [-> document] -> await -> idle                    *)
(*                                                                         *)
(* "preflight" is before the GET of the workspace, "document" before the   *)
(* GET of an Inputs document, where the tool reads one, and "await" is     *)
(* while the POST or DELETE is on the wire.  The last GET, the checks on   *)
(* what it returned and the sending are one step: nothing else runs in the *)
(* process meanwhile.  Other processes, CloudVision and the people in its  *)
(* UI take steps of their own between any two of these.                    *)
(***************************************************************************)
EXTENDS Naturals, FiniteSets

CONSTANTS
  Client,      \* processes of the MCP server, each serving one call at a time
  Draft,       \* workspace ids validate_workspace_id accepts ("ws-mcp-...")
  Foreign,     \* every other id: builtin, mainline, the drafts of people
  Nil,         \* no tool, no workspace, no argument
  MaxLate      \* bound: requests whose caller has given up, still on the wire

ASSUME WriteCallAssumption ==
  /\ Draft \cap Foreign = {}
  /\ Nil \notin Draft \cup Foreign
  /\ MaxLate \in Nat

VARIABLES
  call,        \* [Client -> record]: what each process is doing
  writes,      \* [Client -> BOOLEAN]: CLOUDVISION_MCP_ALLOW_WRITES is "1"
  issued,      \* preview tokens some dry run has answered with
  late         \* requests still on the wire after their caller stopped waiting

Workspace == Draft \cup Foreign

----------------------------------------------------------------------------
(* Gates *)

(* The dispatcher of the grouped tool, in front of all of them.  A blank   *)
(* string counts as missing: an optional argument is dropped, a required   *)
(* one (absent) refused.  The action may be disabled by configuration.     *)
DispatchRefusals(absent) ==
  IF absent THEN {"action_args_invalid"} ELSE {"tool_disabled"}

(* What confirm may hold.  The tools test "confirm is not True", so a      *)
(* value that is merely truthy asks for a dry run like False does.         *)
Confirm == {"no", "yes", "truthy"}

(* The token is a digest of the tool's name and the canonical arguments,   *)
(* so it is that tuple: no nonce, no expiry, the same for every caller.    *)
NoToken == <<>>
PreviewToken(tool, w, a) == <<tool, w, a>>

TokenForAnyArgs(token, tool, w, a) ==
  token # NoToken /\ token[1] = tool /\ token[2] = w
CheckPreviewToken(token, tool, w, a) == token = PreviewToken(tool, w, a)

ValidateWorkspaceId(w) == w \in Draft

----------------------------------------------------------------------------
(* The life of a call *)

Idle(code) ==
  [pc |-> "idle", tool |-> Nil, ws |-> Nil, args |-> Nil, confirm |-> "no",
   token |-> NoToken, body |-> Nil, stale |-> FALSE, code |-> code]

(* The call ends: "preview", "accepted", or refused with an error code.    *)
Finish(c, code) == call' = [call EXCEPT ![c] = Idle(code)]

(* Every check that needs no HTTP has passed.                              *)
Enter(c, tool, w, a, confirm, token) ==
  call' = [call EXCEPT ![c] =
             [pc |-> "preflight", tool |-> tool, ws |-> w, args |-> a,
              confirm |-> confirm, token |-> token, body |-> Nil,
              stale |-> FALSE, code |-> "none"]]

(* The end of every tool: a dry run answers with the token, a confirmed    *)
(* call must present it, and only then is the mutating request sent.       *)
Send(c, a, body) ==
  call' = [call EXCEPT ![c] =
             [@ EXCEPT !.pc = "await", !.args = a, !.body = body]]

GateSendsUnconfirmed(c, a, body) == Send(c, a, body) /\ UNCHANGED issued

Gate(c, a, body) ==
  LET q    == call[c]
      good == CheckPreviewToken(q.token, q.tool, q.ws, a)
  IN \/ /\ q.confirm # "yes"
        /\ issued' = issued \cup {PreviewToken(q.tool, q.ws, a)}
        /\ Finish(c, "preview")
     \/ /\ q.confirm = "yes" /\ ~good
        /\ Finish(c, "preview_required")
        /\ UNCHANGED issued
     \/ /\ q.confirm = "yes" /\ good
        /\ Send(c, a, body)
        /\ UNCHANGED issued

Request(q) ==
  [tool |-> q.tool, ws |-> q.ws, args |-> q.args, body |-> q.body,
   stale |-> q.stale]

(* Requests that passed every check and may still reach CloudVision.       *)
Outstanding ==
  {Request(call[c]) : c \in {d \in Client : call[d].pc = "await"}} \cup late

(* stale is a history flag: what the call read was changed by somebody     *)
(* else before its request took effect.  pcs: where a call has read it.    *)
Staled(q, ws) == IF q.ws \in ws THEN [q EXCEPT !.stale = TRUE] ELSE q
CallsStaled(calls, ws, pcs) ==
  [c \in Client |-> IF calls[c].pc \in pcs THEN Staled(calls[c], ws)
                                            ELSE calls[c]]
LateStaled(requests, ws) == {Staled(q, ws) : q \in requests}

(* The 60 s timeout, or a connection that breaks: the caller is told the   *)
(* write failed while the request may still be on its way.                 *)
GiveUp(c) ==
  /\ call[c].pc = "await"
  /\ Cardinality(late) < MaxLate
  /\ late' = late \cup {Request(call[c])}
  /\ Finish(c, "resource_write_failed")
  /\ UNCHANGED <<writes, issued>>

(* The process stops and is started again, perhaps with another setting of *)
(* the write gate.  Nothing is persisted; tokens need no memory to work.   *)
Restart(c) ==
  /\ \E on \in BOOLEAN : writes' = [writes EXCEPT ![c] = on]
  /\ Finish(c, "none")
  /\ \/ call[c].pc = "await" /\ Cardinality(late) < MaxLate
        /\ late' = late \cup {Request(call[c])}
     \/ UNCHANGED late
  /\ UNCHANGED issued

=============================================================================
