-------------------------- MODULE PreviewedWrites --------------------------
(***************************************************************************)
(* What the workspace tools promise the owner of a CloudVision, without    *)
(* calls, tokens or a network: a draft of the MCP is created, deleted or   *)
(* built only by a write that a dry run has shown before, no other         *)
(* workspace is ever created, deleted or built by it, and everything else  *)
(* that happens to a workspace is the doing of people or of the engine.    *)
(***************************************************************************)
CONSTANTS
  Draft,       \* the workspaces the MCP may write
  Foreign,     \* all the others
  RequestId    \* ids of builds

VARIABLES
  wsState,     \* [Draft \cup Foreign -> state, or "absent"]
  running,     \* [Draft \cup Foreign -> SUBSET RequestId]
  previewed    \* the writes that dry runs have shown: <<tool, workspace, args>>

pwVars == <<wsState, running, previewed>>

State == {"absent", "PENDING", "SUBMITTED", "ABANDONED"}

Init ==
  /\ wsState \in [Draft \cup Foreign -> State]
  /\ running = [w \in Draft \cup Foreign |-> {}]
  /\ previewed = {}

Preview ==
  /\ \E p \in previewed' : previewed' = previewed \cup {p}
  /\ UNCHANGED <<wsState, running>>

Create(w) ==
  /\ \E p \in previewed : p[1] = "create" /\ p[2] = w
  /\ wsState[w] = "absent"
  /\ wsState' = [wsState EXCEPT ![w] = "PENDING"]
  /\ UNCHANGED <<running, previewed>>

Delete(w) ==
  /\ \E p \in previewed : p[1] = "delete" /\ p[2] = w
  /\ wsState' = [wsState EXCEPT ![w] = "absent"]
  /\ running' = [running EXCEPT ![w] = {}]
  /\ UNCHANGED previewed

Build(w, r) ==
  /\ <<"build", w, r>> \in previewed
  /\ wsState[w] = "PENDING"
  /\ running' = [running EXCEPT ![w] = @ \cup {r}]
  /\ UNCHANGED <<wsState, previewed>>

PeopleDecide(w) ==
  /\ wsState[w] = "PENDING"
  /\ \E s \in {"SUBMITTED", "ABANDONED"} : wsState' = [wsState EXCEPT ![w] = s]
  /\ UNCHANGED <<running, previewed>>

BuildEnds(w, r) ==
  /\ running' = [running EXCEPT ![w] = @ \ {r}]
  /\ UNCHANGED <<wsState, previewed>>

Next ==
  \/ Preview
  \/ \E w \in Draft : Create(w) \/ Delete(w)
  \/ \E w \in Draft, r \in RequestId : Build(w, r)
  \/ \E w \in Draft \cup Foreign : PeopleDecide(w)
  \/ \E w \in Draft \cup Foreign, r \in RequestId : BuildEnds(w, r)

Spec == Init /\ [][Next]_pwVars

=============================================================================
