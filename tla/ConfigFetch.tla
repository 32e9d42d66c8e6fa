---------------------------- MODULE ConfigFetch ----------------------------
(***************************************************************************)
(* device.config: who is meant, which URIs CloudVision has, and the body   *)
(* of the running configuration from the first of three sources that has   *)
(* one: the URI, the compliance service (with retries, for each name of    *)
(* the device), the Connector.  Configurations change meanwhile.           *)
(*                                                                         *)
(* A device is named by <<"serial", d>> or <<"name", n>>.                  *)
(***************************************************************************)
EXTENDS Naturals, Sequences, SequencesExt

CONSTANTS
  Device,        \* devices
  AccessPoint,   \* those without an EOS configuration
  HostnameOf(_), \* hostnames, with their domain
  ShortFor(_),   \* the hostnames that go on with a dot after this name
  Targets,       \* names people ask for
  MaxAttempts,   \* _GET_CONFIG_MAX_ATTEMPTS
  MaxVersion,    \* bound: versions of a configuration
  None           \* no value

Source == {"resource_uri", "compliance_rest", "connector"}
Kind == {"whole", "cut", "other"}

ASSUME ConfigAssumption ==
  /\ AccessPoint \subseteq Device
  /\ \A t \in Targets : t[1] = "serial" => t[2] \in Device
  /\ MaxAttempts \in Nat \ {0} /\ MaxVersion \in Nat
  /\ None \notin Device /\ None \notin Source
  /\ None \notin [dev : Device, ver : Nat, kind : Kind]

VARIABLES
  version,  \* the version of the configuration each device runs
  fetch,    \* the call in progress
  result    \* what the last call returned

configVars == <<version, fetch, result>>

Idle == [pc |-> "idle"]
NoResult == [status |-> "none"]

(* The envelope: a warning of any kind makes its coverage partial.         *)
Return(f) ==
  /\ fetch' = Idle
  /\ result' = [status |-> "answered", target |-> f.target, body |-> f.body,
                serial |-> f.serial, text |-> f.text, source |-> f.source,
                coverage |-> IF f.warned THEN "partial" ELSE "full",
                since |-> f.since]

(* An exception of the member function is one error for the whole call.    *)
Fail == fetch' = Idle /\ result' = [status |-> "device_config_failed"]

Start(t, body) ==
  /\ fetch.pc = "idle"
  /\ fetch' = [pc |-> "identify", target |-> t, body |-> body, serial |-> None,
               uri |-> None, warned |-> FALSE, text |-> None,
               source |-> None, keys |-> <<>>, attempt |-> 1,
               asked |-> version, since |-> version]
  /\ result' = NoResult
  /\ UNCHANGED version

----------------------------------------------------------------------------
(* Who is meant *)

Named(n) == {d \in Device : HostnameOf(d) = n}

(* The inventory over REST: the first row whose serial or hostname is the  *)
(* target, or whose hostname goes on with a dot after it.                  *)
RestRows(t) ==
  IF t[1] = "serial" THEN {t[2]}
  ELSE Named(t[2]) \cup {d \in Device : HostnameOf(d) \in ShortFor(t[2])}

(* GetOne knows serials only; the stream by hostname knows hostnames only. *)
FindByNoFilter(t) == IF t[1] = "name" THEN Device ELSE {}
FindByHostname(t) == IF t[1] = "name" THEN Named(t[2]) ELSE {}

(* A device looked up over REST has no type; GetOne and the stream tell it.*)
Facts(d, typed) == [serial |-> d, typed |-> typed]
NoFacts == Facts(None, FALSE)

Identified(t) ==
  LET rest == {Facts(d, FALSE) : d \in RestRows(t)} \cup {NoFacts}
      one(f) == {f} \cup (IF t[1] = "serial" THEN {Facts(t[2], TRUE)} ELSE {})
      byName(f) == IF f.serial # None THEN {f}
                   ELSE {f} \cup {Facts(d, TRUE) : d \in FindByHostname(t)}
  IN UNION {byName(f) : f \in UNION {one(r) : r \in rest}}

(* A failure of the REST lookup is raised; failures of the others are not. *)
IdentifyFails ==
  /\ fetch.pc = "identify"
  /\ Fail
  /\ UNCHANGED version

(* With the URIs: they are asked for under the target as it was given.     *)
Identify ==
  /\ fetch.pc = "identify"
  /\ \E f \in Identified(fetch.target) :
       LET skip == f.typed /\ f.serial \in AccessPoint
           t == fetch.target
           known == IF t[1] = "serial" THEN {[dev |-> t[2], ver |-> version[t[2]]]}
                                       ELSE {}
           s == [fetch EXCEPT !.serial = f.serial]
       IN IF skip
          THEN Return([s EXCEPT !.warned = fetch.body])
          ELSE \E uri \in known \cup {None}, failed \in BOOLEAN :
                 LET w == [s EXCEPT !.uri = uri, !.warned = failed]
                 IN IF fetch.body
                    THEN fetch' = [w EXCEPT !.pc = "uri"] /\ UNCHANGED result
                    ELSE Return(w)
  /\ UNCHANGED version

----------------------------------------------------------------------------
(* The body *)

Text(dev, ver, kind) == [dev |-> dev, ver |-> ver, kind |-> kind]

(* What a GET of the URI gives: the text, the text cut at the limit with   *)
(* an error, some other text, the empty text, or an error.                 *)
UriBodies(uri) ==
  LET is(text, err) == [text |-> text, err |-> err]
  IN {is(Text(uri.dev, uri.ver, "whole"), FALSE), is(Text(uri.dev, uri.ver, "cut"), TRUE),
      is(Text(uri.dev, uri.ver, "other"), FALSE), is(None, FALSE), is(None, TRUE)}
UriBodiesCutSilently(uri) ==
  {[b EXCEPT !.err = @ /\ b.text = None] : b \in UriBodies(uri)}
BodyOfUri(uri) == UriBodies(uri)

(* The names tried with the compliance service, each once.                 *)
DeviceKeys(serial, target) ==
  LET known == <<<<"serial", serial>>, <<"name", HostnameOf(serial)>>>>
  IN IF serial = None THEN <<target>>
     ELSE IF target \in ToSet(known) THEN known ELSE Append(known, target)

TimestampInSeconds == [d \in Device |-> 0]
Timestamp == version

(* "since" is history: the versions there were when the service was asked. *)
Ask(f) == [f EXCEPT !.pc = "compliance", !.attempt = 1, !.asked = Timestamp,
                    !.since = version, !.keys = DeviceKeys(f.serial, f.target)]

FetchUri ==
  /\ fetch.pc = "uri"
  /\ IF fetch.uri = None
     THEN fetch' = Ask([fetch EXCEPT !.warned = TRUE]) /\ UNCHANGED result
     ELSE \E b \in BodyOfUri(fetch.uri) :
            LET f == [fetch EXCEPT !.text = b.text, !.warned = @ \/ b.err,
                                   !.source = IF b.err THEN None ELSE "resource_uri"]
            IN IF b.text # None THEN Return(f)
                                ELSE fetch' = Ask(f) /\ UNCHANGED result
  /\ UNCHANGED version

(* External: the service answers to serials and hostnames, and gives the   *)
(* configuration in force at the timestamp.                                *)
Resolved(k) == IF k[1] = "serial" THEN {k[2]} ELSE RestRows(k)

(* The first attempt for a name has the timestamp of the first name; later *)
(* ones ask for the time they are made.                                    *)
GetConfig ==
  /\ fetch.pc = "compliance" /\ fetch.keys # <<>>
  /\ \E d \in Resolved(Head(fetch.keys)) :
       LET ver == IF fetch.attempt = 1 THEN fetch.asked[d] ELSE version[d]
       IN Return([fetch EXCEPT !.text = Text(d, ver, "whole"),
                               !.source = "compliance_rest"])
  /\ UNCHANGED version

(* 502, 503, 504 or no answer at all.                                      *)
TryAgain ==
  /\ fetch.pc = "compliance" /\ fetch.keys # <<>> /\ fetch.attempt < MaxAttempts
  /\ fetch' = [fetch EXCEPT !.attempt = @ + 1]
  /\ UNCHANGED <<version, result>>

(* Another status, the last attempt, or a text that is no configuration.   *)
Requeued(keys) == Append(Tail(keys), Head(keys))
Dropped(keys) == Tail(keys)
NextKey ==
  /\ fetch.pc = "compliance" /\ fetch.keys # <<>>
  /\ fetch' = [fetch EXCEPT !.keys = Dropped(@), !.attempt = 1]
  /\ UNCHANGED <<version, result>>

NothingFromCompliance ==
  /\ fetch.pc = "compliance" /\ fetch.keys = <<>>
  /\ fetch' = [fetch EXCEPT !.pc = "connector", !.warned = TRUE]
  /\ UNCHANGED <<version, result>>

(* The caller waits for RPC_TIMEOUT * 4, and leaving the pool then waits   *)
(* for the flow to end: its answer, if it comes too late, is thrown away.  *)
TooLate ==
  /\ fetch.pc = "compliance"
  /\ Fail
  /\ UNCHANGED version

(* The longest text below any of the paths: the running lines, cut where   *)
(* a link of the list is broken, or some older blob; cut at the limit.     *)
Connector ==
  /\ fetch.pc = "connector"
  /\ \/ Return(fetch)
     \/ LET d == IF fetch.serial # None THEN fetch.serial
                 ELSE IF fetch.target[1] = "serial" THEN fetch.target[2] ELSE None
        IN /\ d # None
           /\ \E ver \in 0..version[d], kind \in {"whole", "cut"} :
                Return([fetch EXCEPT !.text = Text(d, ver, kind),
                                     !.source = "connector"])
  /\ UNCHANGED version

ConfigChanges(d) ==
  /\ version[d] < MaxVersion
  /\ version' = [version EXCEPT ![d] = @ + 1]
  /\ UNCHANGED <<fetch, result>>

FetchStep ==
  \/ Identify
  \/ IdentifyFails
  \/ FetchUri
  \/ GetConfig
  \/ TryAgain
  \/ NextKey
  \/ NothingFromCompliance
  \/ TooLate
  \/ Connector

ConfigInit ==
  /\ version = [d \in Device |-> 0]
  /\ fetch = Idle
  /\ result = NoResult

----------------------------------------------------------------------------
Answered == result.status = "answered"

(* A serial or name that is one device's, whose hostname is no other's, in *)
(* full or in short.                                                       *)
Meant(t) == RestRows(t)
NamesOneDevice(t) ==
  \E d \in Device : /\ Meant(t) = {d}
                    /\ Meant(<<"name", HostnameOf(d)>>) = {d}

(* The configuration returned is that of the device the target names, and  *)
(* the facts beside it are of the same device, whichever of the lookups    *)
(* failed and under whichever name the service knew it.                    *)
TextIsOfTheTarget ==
  Answered /\ NamesOneDevice(result.target) =>
    /\ result.serial # None => result.serial \in Meant(result.target)
    /\ result.text # None => result.text.dev \in Meant(result.target)

(* An answer of the compliance service is of a configuration the device    *)
(* ran between the moment the service was first asked and the answer,      *)
(* though retries ask for other times than the first attempt.              *)
ComplianceTextIsOfTheCall ==
  Answered /\ result.source = "compliance_rest" =>
    LET d == result.text.dev
    IN result.text.ver \in result.since[d]..version[d]

(* Full coverage of a call for the body means there is a body, that it is  *)
(* complete, that its source is named, and that it is a configuration      *)
(* unless it is whatever the URI served; a text without a source is cut.   *)
FullMeansWhole ==
  Answered /\ result.body =>
    /\ result.coverage = "full" =>
         /\ result.text # None /\ result.source # None
         /\ result.text.kind # "cut"
         /\ result.text.kind = "other" => result.source = "resource_uri"
    /\ result.text # None /\ result.source = None => result.text.kind = "cut"

=============================================================================
