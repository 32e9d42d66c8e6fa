----------------------------- MODULE ReadServer -----------------------------
(***************************************************************************)
(* A server process and its read tools: the dispatcher and its rate limit  *)
(* in front of device.config, which may take minutes and during which no   *)
(* other call is served.  The other tools end at once here.                *)
(***************************************************************************)
EXTENDS ToolDispatch, ConfigFetch

CONSTANT ConfigKey  \* device.config

ASSUME ServerAssumption == ConfigKey \in Key \ Limited

vars == <<dispatchVars, configVars>>

Init == DispatchInit /\ ConfigInit

Free == fetch.pc = "idle"

(* device.config requires its device_id.                                   *)
CallConfig ==
  /\ Free
  /\ Execute(ConfigKey)
  /\ \E t \in Targets, body \in BOOLEAN : Start(t, body)

CallOther ==
  /\ Free
  /\ \/ \E g \in Group : Help(g) \/ Unknown(g)
     \/ \E k \in Key, complete \in BOOLEAN : Refused(k, complete)
     \/ \E k \in Key \ {ConfigKey} : Execute(k)
  /\ result' = NoResult
  /\ UNCHANGED <<version, fetch>>

Fetches == FetchStep /\ UNCHANGED dispatchVars

Restart ==
  /\ \E list \in DisableLists : Started(list)
  /\ fetch' = Idle /\ result' = NoResult
  /\ UNCHANGED version

Next ==
  \/ CallConfig
  \/ CallOther
  \/ Fetches
  \/ Restart
  \/ Tick /\ UNCHANGED configVars
  \/ \E d \in Device : ConfigChanges(d) /\ UNCHANGED dispatchVars

Spec == Init /\ [][Next]_vars

(* The URI and the compliance service are asked with timeouts.  The lookups*)
(* of Identify and the Get of Connector have none: those steps may never   *)
(* be taken.                                                               *)
Fairness == WF_vars(fetch.pc \in {"uri", "compliance"} /\ Fetches)

----------------------------------------------------------------------------
(* Properties: those of the two modules, and                               *)

(* The values of the variables; an attempt is never one too many.          *)
TypeOK ==
  /\ DispatchTypeOK
  /\ version \in [Device -> 0..MaxVersion]
  /\ fetch.pc \in {"idle", "identify", "uri", "compliance", "connector"}
  /\ fetch.pc # "idle" =>
       /\ fetch.target \in Targets /\ fetch.serial \in Device \cup {None}
       /\ fetch.attempt \in 1..MaxAttempts
       /\ Len(fetch.keys) <= 3
  /\ result.status \in {"none", "answered", "device_config_failed"}

(* The search for a text over the URI and the compliance service ends, for *)
(* every name of the device and however often the service is out of order. *)
(* Only the Connector may then hold the server.                            *)
SearchEnds ==
  fetch.pc \in {"uri", "compliance"} ~> fetch.pc \in {"idle", "connector"}

=============================================================================
