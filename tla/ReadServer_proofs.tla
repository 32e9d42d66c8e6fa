-------------------------- MODULE ReadServer_proofs --------------------------
(***************************************************************************)
(* The safety of ReadServer for any tools, limits, periods, devices, names *)
(* and numbers of attempts, and for any values of the two bounds.          *)
(***************************************************************************)
EXTENDS ReadServer, FiniteSetTheorems, SequenceTheorems, TLAPS

(* The bucket of a key holds the stamp of every call of the last period,   *)
(* and never more than the rate.                                           *)
Bucket(k) ==
  /\ IsFiniteSet(ran[k])
  /\ ran[k] \subseteq [nth : 1..Cardinality(ran[k]), at : 0..now]
  /\ timestamps[k] \subseteq ran[k]
  /\ \A s \in ran[k] : now - s.at < Period(k) => s \in timestamps[k]
  /\ Cardinality(timestamps[k]) <= Rate(k)

Windows(k) ==
  \A first \in ran[k] :
    Cardinality({s \in ran[k] : s.at \in first.at..(first.at + Period(k) - 1)})
      <= Rate(k)

DispatchInv ==
  /\ now \in 0..MaxTime
  /\ disabled \in DisableLists
  /\ timestamps = [k \in Limited |-> timestamps[k]]
  /\ ran = [k \in Limited |-> ran[k]]
  /\ \A k \in Limited : Bucket(k) /\ Windows(k)
  /\ reply.outcome = "rate_limit_exceeded" => reply.tool \in Limited
  /\ DeniedOnlyWhenFull

----------------------------------------------------------------------------
(* The dispatcher and the rate limit.                                      *)

LEMMA LimitFacts ==
  ASSUME NEW k \in Limited
  PROVE  Rate(k) \in Nat \ {0} /\ Period(k) \in Nat \ {0}
BY DispatchAssumption

(* Empty buckets.                                                          *)
LEMMA EmptyBuckets ==
  ASSUME now \in Nat, NEW k \in Limited, timestamps[k] = {}, ran[k] = {}
  PROVE  Bucket(k) /\ Windows(k)
BY FS_EmptySet, LimitFacts DEF Bucket, Windows

LEMMA DispatchInitInv == DispatchInit => DispatchInv
<1> SUFFICES ASSUME DispatchInit PROVE DispatchInv
  OBVIOUS
<1>1. now = 0 /\ 0 \in 0..MaxTime /\ now \in Nat
  BY DispatchAssumption DEF DispatchInit
<1>2. \A k \in Limited : Bucket(k) /\ Windows(k)
  BY <1>1, EmptyBuckets DEF DispatchInit
<1> QED
  BY <1>1, <1>2 DEF DispatchInit, DispatchInv, DeniedOnlyWhenFull, Answer

(* Answers that do not touch a bucket, and are not a denial.               *)
LEMMA UnaskedStep ==
  ASSUME DispatchInv, UNCHANGED <<now, disabled, timestamps, ran>>,
         reply'.outcome # "rate_limit_exceeded"
  PROVE  DispatchInv'
BY DEF DispatchInv, Bucket, Windows, DeniedOnlyWhenFull

(* What a bucket holds after its stamps are pruned: the calls of the last  *)
(* period.                                                                 *)
LEMMA PrunedIsTheWindow ==
  ASSUME DispatchInv, NEW k \in Limited
  PROVE  /\ Pruned(timestamps[k], Period(k))
              = {s \in ran[k] : now - s.at < Period(k)}
         /\ Pruned(timestamps[k], Period(k)) \subseteq timestamps[k]
         /\ IsFiniteSet(Pruned(timestamps[k], Period(k)))
         /\ Cardinality(Pruned(timestamps[k], Period(k))) \in Nat
         /\ Cardinality(Pruned(timestamps[k], Period(k))) <= Rate(k)
<1> DEFINE P == Pruned(timestamps[k], Period(k))
<1>1. Bucket(k)
  BY DEF DispatchInv
<1>2. P = {s \in ran[k] : now - s.at < Period(k)} /\ P \subseteq timestamps[k]
  BY <1>1 DEF Bucket, Pruned
<1>3. IsFiniteSet(timestamps[k])
  BY <1>1, FS_Subset DEF Bucket
<1>4. IsFiniteSet(P) /\ Cardinality(P) <= Cardinality(timestamps[k])
  BY <1>2, <1>3, FS_Subset
<1>5. Cardinality(P) \in Nat /\ Cardinality(timestamps[k]) \in Nat
  BY <1>3, <1>4, FS_CardinalityType
<1> QED
  BY <1>1, <1>2, <1>4, <1>5, LimitFacts DEF Bucket

(* A denied call finds as many calls in the period before as are allowed.  *)
LEMMA DeniedStep ==
  ASSUME DispatchInv, NEW k \in Limited,
         Cardinality(Pruned(timestamps[k], Period(k))) >= Rate(k),
         UNCHANGED <<now, disabled, ran>>,
         timestamps' = [timestamps EXCEPT ![k] = Pruned(timestamps[k], Period(k))],
         reply' = [tool |-> k, outcome |-> "rate_limit_exceeded", at |-> now]
  PROVE  DispatchInv'
<1> DEFINE P == Pruned(timestamps[k], Period(k))
<1>1. /\ P = {s \in ran[k] : now - s.at < Period(k)}
      /\ P \subseteq timestamps[k] /\ Cardinality(P) \in Nat
      /\ Cardinality(P) <= Rate(k)
  BY PrunedIsTheWindow
<1> HIDE DEF P
<1>2. timestamps'[k] = P /\ \A j \in Limited \ {k} : timestamps'[j] = timestamps[j]
  BY DEF DispatchInv, P
<1>3. Bucket(k)' /\ Windows(k)'
  BY <1>1, <1>2 DEF DispatchInv, Bucket, Windows
<1>4. \A j \in Limited \ {k} : Bucket(j)' /\ Windows(j)'
  BY <1>2 DEF DispatchInv, Bucket, Windows
<1>5. Cardinality(P) = Rate(k)
  BY <1>1, LimitFacts DEF P
<1>6. DeniedOnlyWhenFull'
  BY <1>1, <1>5 DEF DeniedOnlyWhenFull
<1>7. timestamps' = [j \in Limited |-> timestamps'[j]]
  BY DEF DispatchInv
<1> QED
  BY <1>3, <1>4, <1>6, <1>7 DEF DispatchInv

(* A call that is admitted is one more of its window, and of no window     *)
(* that is already full.                                                   *)
LEMMA AdmittedStep ==
  ASSUME DispatchInv, NEW k \in Limited,
         ~(Cardinality(Pruned(timestamps[k], Period(k))) >= Rate(k)),
         UNCHANGED <<now, disabled>>,
         timestamps' = [timestamps EXCEPT ![k] =
                          Pruned(timestamps[k], Period(k)) \cup {Stamp(k)}],
         ran' = [ran EXCEPT ![k] = ran[k] \cup {Stamp(k)}],
         reply'.outcome # "rate_limit_exceeded"
  PROVE  DispatchInv'
<1> DEFINE P == Pruned(timestamps[k], Period(k))
           new == Stamp(k)
<1>1. /\ P = {s \in ran[k] : now - s.at < Period(k)}
      /\ P \subseteq timestamps[k] /\ IsFiniteSet(P) /\ Cardinality(P) \in Nat
      /\ Cardinality(P) < Rate(k)
  BY PrunedIsTheWindow, LimitFacts
<1>2. Bucket(k) /\ Windows(k)
  BY DEF DispatchInv
<1>3. /\ now \in Nat /\ Rate(k) \in Nat /\ Period(k) \in Nat \ {0}
      /\ IsFiniteSet(ran[k]) /\ Cardinality(ran[k]) \in Nat
  BY <1>2, LimitFacts, FS_CardinalityType, DispatchAssumption DEF DispatchInv, Bucket
<1>4. new.at = now /\ new.nth = Cardinality(ran[k]) + 1
  BY DEF Stamp
<1>5. new \notin ran[k]
  BY <1>2, <1>3, <1>4 DEF Bucket
<1>6. IsFiniteSet(ran[k] \cup {new})
      /\ Cardinality(ran[k] \cup {new}) = Cardinality(ran[k]) + 1
  BY <1>3, <1>5, FS_AddElement
<1>7. new \in [nth : 1..(Cardinality(ran[k]) + 1), at : 0..now]
  BY <1>3 DEF Stamp
<1> HIDE DEF P, new
<1>8. IsFiniteSet(P \cup {new}) /\ Cardinality(P \cup {new}) \in Nat
      /\ Cardinality(P \cup {new}) <= Rate(k)
  <2>1. new \notin P
    BY <1>1, <1>5
  <2> QED
    BY <1>1, <1>3, <2>1, FS_AddElement
<1>9. /\ timestamps'[k] = P \cup {new} /\ ran'[k] = ran[k] \cup {new}
      /\ \A j \in Limited \ {k} : timestamps'[j] = timestamps[j] /\ ran'[j] = ran[j]
  BY DEF DispatchInv, P, new
<1>10. Bucket(k)'
  <2>1. IsFiniteSet(ran'[k]) /\ Cardinality(ran'[k]) = Cardinality(ran[k]) + 1
    BY <1>6, <1>9
  <2>2. ran'[k] \subseteq [nth : 1..Cardinality(ran'[k]), at : 0..now']
    <3>1. 1..Cardinality(ran[k]) \subseteq 1..(Cardinality(ran[k]) + 1)
      BY <1>3
    <3>2. ran[k] \subseteq [nth : 1..(Cardinality(ran[k]) + 1), at : 0..now]
      BY <1>2, <3>1 DEF Bucket
    <3> QED
      BY <1>7, <1>9, <2>1, <3>2
  <2>3. /\ timestamps'[k] \subseteq ran'[k]
        /\ \A s \in ran'[k] : now - s.at < Period(k) => s \in timestamps'[k]
    BY <1>1, <1>9
  <2>4. Cardinality(timestamps'[k]) <= Rate(k)
    BY <1>8, <1>9
  <2> QED
    BY <2>1, <2>2, <2>3, <2>4 DEF Bucket
<1>11. Windows(k)'
  <2> SUFFICES ASSUME NEW first \in ran[k] \cup {new}
               PROVE  Cardinality({s \in ran[k] \cup {new} :
                         s.at \in first.at..(first.at + Period(k) - 1)}) <= Rate(k)
    BY <1>9 DEF Windows
  <2> DEFINE W == {s \in ran[k] \cup {new} :
                     s.at \in first.at..(first.at + Period(k) - 1)}
  <2>1. first.at \in Nat /\ first.at <= now
    BY <1>2, <1>3, <1>4 DEF Bucket
  <2>2. CASE new \in W
    <3>1. now < first.at + Period(k)
      BY <1>3, <1>4, <2>1, <2>2
    <3>2. W \subseteq P \cup {new}
      BY <1>1, <1>2, <1>3, <1>4, <2>1, <3>1 DEF Bucket
    <3>3. Cardinality(W) <= Cardinality(P \cup {new}) /\ IsFiniteSet(W)
      BY <1>8, <3>2, FS_Subset
    <3>4. Cardinality(W) \in Nat
      BY <3>3, FS_CardinalityType
    <3> QED
      BY <1>3, <1>8, <3>3, <3>4
  <2>3. CASE new \notin W
    <3>1. first \in ran[k]
      BY <1>3, <1>4, <2>1, <2>3
    <3>2. W = {s \in ran[k] : s.at \in first.at..(first.at + Period(k) - 1)}
      BY <2>3
    <3> QED
      BY <1>2, <3>1, <3>2 DEF Windows
  <2> QED
    BY <2>2, <2>3
<1>12. \A j \in Limited \ {k} : Bucket(j)' /\ Windows(j)'
  BY <1>9 DEF DispatchInv, Bucket, Windows
<1>13. timestamps' = [j \in Limited |-> timestamps'[j]]
       /\ ran' = [j \in Limited |-> ran'[j]]
  BY DEF DispatchInv
<1> QED
  BY <1>10, <1>11, <1>12, <1>13 DEF DispatchInv, DeniedOnlyWhenFull

LEMMA ExecuteStep ==
  ASSUME DispatchInv, NEW k \in Key, Execute(k)
  PROVE  DispatchInv'
<1>1. CASE k \notin Limited
  BY <1>1, UnaskedStep DEF Execute, Reply, Answer
<1>2. CASE k \in Limited /\ Cardinality(Pruned(timestamps[k], Period(k))) >= Rate(k)
  BY <1>2, DeniedStep DEF Execute, Reply, Answer, Allow
<1>3. CASE k \in Limited /\ ~(Cardinality(Pruned(timestamps[k], Period(k))) >= Rate(k))
  BY <1>3, AdmittedStep DEF Execute, Reply, Answer, Allow
<1> QED
  BY <1>1, <1>2, <1>3

(* As time passes stamps only leave the window.                            *)
LEMMA TickStep ==
  ASSUME DispatchInv, Tick
  PROVE  DispatchInv'
<1>1. /\ now \in Nat /\ now' = now + 1 /\ now' \in 0..MaxTime
      /\ UNCHANGED <<disabled, timestamps, ran, reply>>
  BY DispatchAssumption DEF DispatchInv, Tick
<1>2. ASSUME NEW k \in Limited
      PROVE  Bucket(k)' /\ Windows(k)'
  <2>1. Bucket(k) /\ Windows(k) /\ Period(k) \in Nat
    BY LimitFacts DEF DispatchInv
  <2>2. 0..now \subseteq 0..now'
    BY <1>1
  <2>3. ran'[k] \subseteq [nth : 1..Cardinality(ran'[k]), at : 0..now']
    BY <1>1, <2>1, <2>2 DEF Bucket
  <2>4. \A s \in ran[k] : s.at \in Nat
    BY <2>1 DEF Bucket
  <2>5. \A s \in ran[k] : now' - s.at < Period(k) => now - s.at < Period(k)
    BY <1>1, <2>1, <2>4
  <2> QED
    BY <1>1, <2>1, <2>3, <2>5 DEF Bucket, Windows
<1> QED
  BY <1>1, <1>2 DEF DispatchInv, DeniedOnlyWhenFull

LEMMA StartedStep ==
  ASSUME DispatchInv, NEW list \in DisableLists, Started(list)
  PROVE  DispatchInv'
<1>1. /\ now' \in Nat /\ now' \in 0..MaxTime
      /\ \A k \in Limited : timestamps'[k] = {} /\ ran'[k] = {}
      /\ timestamps' = [k \in Limited |-> timestamps'[k]]
      /\ ran' = [k \in Limited |-> ran'[k]]
      /\ disabled' \in DisableLists /\ reply'.outcome # "rate_limit_exceeded"
  BY DispatchAssumption DEF Started, DispatchInv, Answer
<1>2. ASSUME NEW k \in Limited
      PROVE  Bucket(k)' /\ Windows(k)'
  <2>1. timestamps'[k] = {} /\ ran'[k] = {}
    BY <1>1
  <2>2. IsFiniteSet(ran'[k]) /\ Cardinality(timestamps'[k]) <= Rate(k)
    BY <2>1, FS_EmptySet, LimitFacts
  <2> QED
    BY <2>1, <2>2 DEF Bucket, Windows
<1> QED
  BY <1>1, <1>2 DEF DispatchInv, DeniedOnlyWhenFull

(* What the dispatcher does, or leaves alone.                              *)
DispatchStep ==
  \/ \E g \in Group : Help(g) \/ Unknown(g)
  \/ \E k \in Key, complete \in BOOLEAN : Refused(k, complete)
  \/ \E k \in Key : Execute(k)
  \/ \E list \in DisableLists : Started(list)
  \/ Tick
  \/ UNCHANGED dispatchVars

LEMMA DispatchStepInv ==
  ASSUME DispatchInv, DispatchStep
  PROVE  DispatchInv'
<1>1. CASE \E g \in Group : Help(g) \/ Unknown(g)
  BY <1>1, UnaskedStep DEF Help, Unknown, Reply, Unasked, Answer
<1>2. CASE \E k \in Key, complete \in BOOLEAN : Refused(k, complete)
  BY <1>2, UnaskedStep DEF Refused, Reply, Unasked, Answer
<1>3. CASE \E k \in Key : Execute(k)
  BY <1>3, ExecuteStep
<1>4. CASE \E list \in DisableLists : Started(list)
  BY <1>4, StartedStep
<1>5. CASE Tick
  BY <1>5, TickStep
<1>6. CASE UNCHANGED dispatchVars
  BY <1>6 DEF dispatchVars, DispatchInv, Bucket, Windows, DeniedOnlyWhenFull
<1> QED
  BY <1>1, <1>2, <1>3, <1>4, <1>5, <1>6 DEF DispatchStep

----------------------------------------------------------------------------
(* The fetch of a configuration.                                           *)

Versions == [Device -> 0..MaxVersion]
Texts == [dev : Device, ver : 0..MaxVersion, kind : Kind]

(* The names of the device that was found, and the one that was given.     *)
NamesOf(serial, target) ==
  {target} \cup (IF serial = None THEN {}
                 ELSE {<<"serial", serial>>, <<"name", HostnameOf(serial)>>})

Names == UNION {NamesOf(s, t) : s \in Device \cup {None}, t \in Targets}

Fetch ==
  [pc : {"identify", "uri", "compliance", "connector"}, target : Targets,
   body : BOOLEAN, serial : Device \cup {None},
   uri : [dev : Device, ver : 0..MaxVersion] \cup {None}, warned : BOOLEAN,
   text : {None}, source : {None, "resource_uri"},
   keys : Seq(Names),
   attempt : 1..MaxAttempts, asked : Versions, since : Versions]

(* d is the device that is meant by t, and by its own hostname.            *)
IsNamed(d, t) == RestRows(t) = {d} /\ RestRows(<<"name", HostnameOf(d)>>) = {d}

(* A call in progress: what it found so far is of the device that is       *)
(* meant; the service is asked for a time since the call began; and at the *)
(* last source there is a warning already.                                 *)
SoundFetch ==
  /\ fetch \in Fetch
  /\ \A d \in Device : IsNamed(d, fetch.target) =>
       fetch.serial \in {None, d} /\ (fetch.uri # None => fetch.uri.dev = d)
  /\ Len(fetch.keys) <= 3
  /\ \A i \in DOMAIN fetch.keys : fetch.keys[i] \in NamesOf(fetch.serial, fetch.target)
  /\ \A d \in Device :
       fetch.since[d] <= fetch.asked[d] /\ fetch.asked[d] <= version[d]
  /\ fetch.pc = "connector" => fetch.warned
  /\ fetch.pc = "identify" => fetch.keys = <<>>

(* An answer.                                                              *)
SoundResult ==
  /\ result.status \in {"none", "answered", "device_config_failed"}
  /\ Answered =>
       /\ result.text \in Texts \cup {None} /\ result.since \in Versions
       /\ result.source = "compliance_rest" => result.text # None
  /\ TextIsOfTheTarget
  /\ ComplianceTextIsOfTheCall
  /\ FullMeansWhole

ConfigInv ==
  /\ version \in Versions
  /\ fetch = Idle \/ SoundFetch
  /\ SoundResult

(* What a call returns, as the record of an answer.                        *)
Answers(f) ==
  [status |-> "answered", target |-> f.target, body |-> f.body,
   serial |-> f.serial, text |-> f.text, source |-> f.source,
   coverage |-> IF f.warned THEN "partial" ELSE "full", since |-> f.since]

LEMMA NoneFacts ==
  /\ None \notin Device /\ None \notin Texts
  /\ None # "resource_uri" /\ None # "compliance_rest" /\ None # "connector"
  /\ 0..MaxVersion \subseteq Nat
<1>1. 0..MaxVersion \subseteq Nat
  BY ConfigAssumption
<1> QED
  BY <1>1, ConfigAssumption DEF Texts, Source

(* The rows of a name are devices, and the target of a call is one of the  *)
(* names people ask for.                                                   *)
LEMMA RowsAreDevices ==
  ASSUME NEW t \in Targets
  PROVE  /\ RestRows(t) \subseteq Device
         /\ t[1] = "serial" => t[2] \in Device /\ RestRows(t) = {t[2]}
BY ConfigAssumption DEF RestRows, Named

LEMMA NoAnswer ==
  ASSUME result' \in {NoResult, [status |-> "device_config_failed"], result},
         SoundResult, version \in Versions, version' \in Versions,
         \A d \in Device : version[d] <= version'[d]
  PROVE  SoundResult'
<1>1. CASE result' \in {NoResult, [status |-> "device_config_failed"]}
  BY <1>1 DEF NoResult, SoundResult, Answered, TextIsOfTheTarget,
              ComplianceTextIsOfTheCall, FullMeansWhole
<1>2. CASE result' = result
  <2>1. ComplianceTextIsOfTheCall'
    <3> SUFFICES ASSUME Answered, result.source = "compliance_rest"
                 PROVE  result.text.ver \in
                          result.since[result.text.dev]..version'[result.text.dev]
      BY <1>2 DEF ComplianceTextIsOfTheCall, Answered
    <3>1. result.text \in Texts /\ result.since \in Versions
      BY DEF SoundResult
    <3>2. /\ result.text.dev \in Device
          /\ result.text.ver \in Nat /\ result.since[result.text.dev] \in Nat
          /\ version[result.text.dev] \in Nat /\ version'[result.text.dev] \in Nat
      BY <3>1, NoneFacts DEF Texts, Versions
    <3> QED
      BY <3>2 DEF SoundResult, ComplianceTextIsOfTheCall
  <2> QED
    BY <1>2, <2>1 DEF SoundResult, Answered, TextIsOfTheTarget, NamesOneDevice,
                      Meant, FullMeansWhole
<1> QED
  BY <1>1, <1>2

(* An answer is sound if what it is made of is.                            *)
LEMMA ReturnStep ==
  ASSUME ConfigInv, fetch # Idle, NEW f, Return(f), UNCHANGED version,
         f.target = fetch.target, f.body = fetch.body, f.since = fetch.since,
         f.serial \in Device \cup {None}, f.text \in Texts \cup {None},
         f.warned \in BOOLEAN,
         f.source = "compliance_rest" => f.text # None,
         \A d \in Device : IsNamed(d, f.target) =>
           f.serial \in {None, d} /\ (f.text # None => f.text.dev = d),
         f.source = "compliance_rest" =>
           f.text.ver \in f.since[f.text.dev]..version[f.text.dev],
         f.body /\ ~f.warned =>
           /\ f.text # None /\ f.source # None /\ f.text.kind # "cut"
           /\ f.text.kind = "other" => f.source = "resource_uri",
         f.text # None /\ f.source = None => f.text.kind = "cut"
  PROVE  ConfigInv'
<1>1. result' = Answers(f) /\ fetch' = Idle
  BY DEF Return, Answers
<1>2. /\ result'.status = "answered" /\ result'.target = f.target
      /\ result'.body = f.body /\ result'.serial = f.serial
      /\ result'.text = f.text /\ result'.source = f.source
      /\ result'.coverage = (IF f.warned THEN "partial" ELSE "full")
      /\ result'.since = f.since
  BY <1>1 DEF Answers
<1>3. f.since \in Versions
  BY DEF ConfigInv, SoundFetch, Fetch
<1>4. TextIsOfTheTarget'
  BY <1>2 DEF TextIsOfTheTarget, NamesOneDevice, Meant, IsNamed
<1>5. ComplianceTextIsOfTheCall' /\ FullMeansWhole'
  BY <1>2 DEF ComplianceTextIsOfTheCall, FullMeansWhole
<1> QED
  BY <1>1, <1>2, <1>3, <1>4, <1>5 DEF ConfigInv, SoundResult, Answered

LEMMA FailStep ==
  ASSUME ConfigInv, Fail, UNCHANGED version
  PROVE  ConfigInv'
<1>1. version \in Versions /\ \A d \in Device : version[d] <= version[d]
  BY NoneFacts DEF ConfigInv, Versions
<1>2. SoundResult'
  BY <1>1, NoAnswer DEF ConfigInv, Fail
<1> QED
  BY <1>2 DEF ConfigInv, Fail

(* A fetch that goes on.                                                   *)
LEMMA GoOnStep ==
  ASSUME ConfigInv, UNCHANGED <<version, result>>, SoundFetch'
  PROVE  ConfigInv'
BY DEF ConfigInv, SoundResult, Answered, TextIsOfTheTarget, NamesOneDevice, Meant,
       ComplianceTextIsOfTheCall, FullMeansWhole

(* A fetch in progress, and what is known of it.                           *)
LEMMA FetchFacts ==
  ASSUME ConfigInv, fetch # Idle
  PROVE  /\ SoundFetch /\ fetch \in Fetch /\ version \in Versions
         /\ fetch.target \in Targets
         /\ \A d \in Device : /\ version[d] \in Nat /\ fetch.since[d] \in Nat
                              /\ fetch.asked[d] \in Nat
<1>1. SoundFetch /\ fetch \in Fetch /\ version \in Versions
  BY DEF ConfigInv, SoundFetch
<1> QED
  BY <1>1, NoneFacts DEF Fetch, Versions

LEMMA PcFacts ==
  ASSUME fetch.pc \in {"identify", "uri", "compliance", "connector"}
  PROVE  fetch # Idle
BY DEF Idle

LEMMA StartStep ==
  ASSUME ConfigInv, NEW t \in Targets, NEW body \in BOOLEAN, Start(t, body)
  PROVE  ConfigInv'
<1>1. version \in Versions /\ \A d \in Device : version[d] \in Nat
  BY NoneFacts DEF ConfigInv, Versions
<1>2. SoundResult'
  BY <1>1, NoAnswer DEF ConfigInv, Start
<1>3. 1 \in 1..MaxAttempts
  BY ConfigAssumption
<1>4. fetch' \in Fetch
  BY <1>1, <1>3 DEF Start, Fetch
<1>5. SoundFetch'
  BY <1>1, <1>4 DEF Start, SoundFetch
<1> QED
  BY <1>1, <1>2, <1>5 DEF ConfigInv, Start

(* Whatever the lookups say, it is the device meant, or no device.         *)
LEMMA IdentifiedFacts ==
  ASSUME NEW t \in Targets, NEW f \in Identified(t)
  PROVE  /\ f.serial \in Device \cup {None}
         /\ \A d \in Device : IsNamed(d, t) => f.serial \in {None, d}
<1>1. RestRows(t) \subseteq Device /\ (t[1] = "serial" => {t[2]} = RestRows(t))
  BY RowsAreDevices
<1>2. FindByHostname(t) \subseteq RestRows(t)
  BY DEF FindByHostname, RestRows
<1> DEFINE rest == {Facts(d, FALSE) : d \in RestRows(t)} \cup {NoFacts}
           one(r) == {r} \cup (IF t[1] = "serial" THEN {Facts(t[2], TRUE)} ELSE {})
           byName(o) == IF o.serial # None THEN {o}
                        ELSE {o} \cup {Facts(d, TRUE) : d \in FindByHostname(t)}
           Right(o) == o.serial \in RestRows(t) \cup {None}
<1>3. \A r \in rest : Right(r)
  BY DEF Facts, NoFacts
<1>4. \A r \in rest : \A o \in one(r) : Right(o)
  BY <1>1, <1>3 DEF Facts
<1>5. \A o \in UNION {one(r) : r \in rest} : Right(o)
  BY <1>4
<1>6. \A o : Right(o) => \A g \in byName(o) : Right(g)
  BY <1>2 DEF Facts
<1>7. f \in UNION {byName(o) : o \in UNION {one(r) : r \in rest}}
  BY DEF Identified
<1>8. Right(f)
  <2> HIDE DEF rest, one, byName, Right
  <2>1. PICK o \in UNION {one(r) : r \in rest} : f \in byName(o)
    BY <1>7
  <2> QED
    BY <1>5, <1>6, <2>1
<1> QED
  BY <1>1, <1>8 DEF IsNamed

LEMMA IdentifyStep ==
  ASSUME ConfigInv, Identify
  PROVE  ConfigInv'
<1> DEFINE t == fetch.target
           known == IF t[1] = "serial" THEN {[dev |-> t[2], ver |-> version[t[2]]]}
                                       ELSE {}
<1>1. /\ fetch.pc = "identify" /\ fetch # Idle /\ UNCHANGED version
      /\ SoundFetch /\ fetch \in Fetch /\ t \in Targets /\ version \in Versions
  BY PcFacts, FetchFacts DEF Identify
<1>2. PICK f \in Identified(t) :
        LET skip == f.typed /\ f.serial \in AccessPoint
            s == [fetch EXCEPT !.serial = f.serial]
        IN IF skip
           THEN Return([s EXCEPT !.warned = fetch.body])
           ELSE \E uri \in known \cup {None}, failed \in BOOLEAN :
                  LET w == [s EXCEPT !.uri = uri, !.warned = failed]
                  IN IF fetch.body
                     THEN fetch' = [w EXCEPT !.pc = "uri"] /\ UNCHANGED result
                     ELSE Return(w)
  BY DEF Identify
<1>3. /\ f.serial \in Device \cup {None}
      /\ \A d \in Device : IsNamed(d, t) => f.serial \in {None, d}
  BY <1>1, IdentifiedFacts
<1>4. \A uri \in known : /\ uri \in [dev : Device, ver : 0..MaxVersion]
                         /\ \A d \in Device : IsNamed(d, t) => uri.dev = d
  BY <1>1, RowsAreDevices DEF IsNamed, Versions
<1>5. fetch.text = None /\ fetch.body \in BOOLEAN /\ fetch.source # "compliance_rest"
  BY <1>1, NoneFacts DEF Fetch
<1> HIDE DEF known
<1>6. ASSUME NEW w, Return(w), w.target = fetch.target, w.body = fetch.body,
             w.since = fetch.since, w.serial = f.serial, w.text = fetch.text,
             w.warned \in BOOLEAN, w.source = fetch.source,
             w.body /\ ~w.warned => FALSE
      PROVE  ConfigInv'
  <2>1. w.source = "compliance_rest" => FALSE
    BY <1>5, <1>6
  <2> QED
    BY <1>1, <1>3, <1>5, <1>6, <2>1, ReturnStep
<1>7. CASE f.typed /\ f.serial \in AccessPoint
  <2> DEFINE w == [[fetch EXCEPT !.serial = f.serial] EXCEPT !.warned = fetch.body]
  <2>1. Return(w)
    BY <1>2, <1>7
  <2>2. /\ w.target = fetch.target /\ w.body = fetch.body /\ w.since = fetch.since
        /\ w.serial = f.serial /\ w.text = fetch.text /\ w.source = fetch.source
        /\ w.warned = fetch.body
    BY <1>1 DEF Fetch
  <2> HIDE DEF w
  <2> QED
    BY <1>5, <1>6, <2>1, <2>2
<1>8. CASE ~(f.typed /\ f.serial \in AccessPoint)
  <2>1. PICK uri \in known \cup {None}, failed \in BOOLEAN :
          LET w == [[fetch EXCEPT !.serial = f.serial] EXCEPT !.uri = uri, !.warned = failed]
          IN IF fetch.body
             THEN fetch' = [w EXCEPT !.pc = "uri"] /\ UNCHANGED result
             ELSE Return(w)
    BY <1>2, <1>8
  <2> DEFINE w == [[fetch EXCEPT !.serial = f.serial] EXCEPT !.uri = uri, !.warned = failed]
  <2>2. /\ w.target = fetch.target /\ w.body = fetch.body /\ w.since = fetch.since
        /\ w.serial = f.serial /\ w.text = fetch.text /\ w.source = fetch.source
        /\ w.warned = failed
    BY <1>1 DEF Fetch
  <2>3. uri \in [dev : Device, ver : 0..MaxVersion] \cup {None}
        /\ \A d \in Device : IsNamed(d, t) => (uri # None => uri.dev = d)
    BY <1>4
  <2>4. CASE fetch.body
    <3> DEFINE g == [w EXCEPT !.pc = "uri"]
    <3>1. fetch' = g /\ UNCHANGED <<version, result>>
      BY <1>1, <2>1, <2>4
    <3>2. /\ g \in Fetch /\ g.pc = "uri" /\ g.target = fetch.target
          /\ g.serial = f.serial /\ g.uri = uri /\ g.keys = fetch.keys
          /\ g.asked = fetch.asked /\ g.since = fetch.since
      BY <1>1, <1>3, <2>3 DEF Fetch
    <3> HIDE DEF g
    <3>3. fetch.keys = <<>>
      BY <1>1 DEF SoundFetch
    <3>4. SoundFetch'
      BY <1>1, <1>3, <2>3, <3>1, <3>2, <3>3 DEF SoundFetch
    <3> QED
      BY <3>1, <3>4, GoOnStep
  <2>5. CASE ~fetch.body
    <3>1. Return(w)
      BY <2>1, <2>5
    <3> HIDE DEF w
    <3> QED
      BY <1>6, <2>2, <2>5, <3>1
  <2> QED
    BY <2>4, <2>5
<1> QED
  BY <1>7, <1>8

(* The names tried with the service are those of the device and the call.  *)
LEMMA DeviceKeysFacts ==
  ASSUME NEW serial \in Device \cup {None}, NEW target \in Targets
  PROVE  /\ DeviceKeys(serial, target) \in Seq(Names)
         /\ Len(DeviceKeys(serial, target)) <= 3
         /\ \A i \in DOMAIN DeviceKeys(serial, target) :
              DeviceKeys(serial, target)[i] \in NamesOf(serial, target)
<1> DEFINE S == NamesOf(serial, target)
           K == DeviceKeys(serial, target)
<1>1. S \subseteq Names
  BY DEF Names
<1>0. target \in S
  BY DEF NamesOf
<1>2. K \in Seq(S) /\ Len(K) <= 3
  <2>1. CASE serial = None
    <3>1. K = <<target>>
      BY <2>1 DEF DeviceKeys
    <3> HIDE DEF K, S
    <3> QED
      BY <1>0, <3>1
  <2>2. CASE serial # None
    <3> DEFINE a == <<"serial", serial>>
               b == <<"name", HostnameOf(serial)>>
    <3>1. a \in S /\ b \in S
      BY <2>2 DEF NamesOf
    <3>2. K = <<a, b>> \/ K = Append(<<a, b>>, target)
      BY <2>2 DEF DeviceKeys
    <3> HIDE DEF K, S, a, b
    <3>3. CASE K = <<a, b>>
      BY <3>1, <3>3
    <3>4. CASE K = Append(<<a, b>>, target)
      <4> DEFINE two == <<a, b>>
      <4>1. two \in Seq(S) /\ Len(two) = 2
        BY <3>1
      <4>2. K = Append(two, target)
        BY <3>4
      <4> HIDE DEF two
      <4>3. K \in Seq(S)
        BY <1>0, <4>1, <4>2, AppendProperties, Zenon
      <4>4. Len(K) = Len(two) + 1
        BY <1>0, <4>1, <4>2, AppendProperties, ZenonT(30)
      <4> QED
        BY <4>1, <4>3, <4>4
    <3> QED
      BY <3>2, <3>3, <3>4
  <2> QED
    BY <2>1, <2>2
<1> HIDE DEF K, S
<1>3. K \in Seq(Names) /\ Len(K) <= 3 /\ \A i \in DOMAIN K : K[i] \in S
  BY <1>1, <1>2
<1> QED
  BY <1>3 DEF K, S

LEMMA AskStep ==
  ASSUME ConfigInv, fetch # Idle, NEW f \in Fetch, fetch' = Ask(f),
         f.target = fetch.target, f.serial = fetch.serial, f.uri = fetch.uri,
         UNCHANGED <<version, result>>
  PROVE  ConfigInv'
<1> DEFINE ks == DeviceKeys(f.serial, f.target)
<1>1. SoundFetch /\ version \in Versions /\ \A d \in Device : version[d] \in Nat
  BY FetchFacts
<1>2. /\ ks \in Seq(Names) /\ Len(ks) <= 3
      /\ \A i \in DOMAIN ks : ks[i] \in NamesOf(f.serial, f.target)
  BY DeviceKeysFacts DEF Fetch
<1>3. 1 \in 1..MaxAttempts
  BY ConfigAssumption
<1> HIDE DEF ks
<1>4. fetch' = [f EXCEPT !.pc = "compliance", !.attempt = 1, !.asked = version,
                         !.since = version, !.keys = ks]
  BY DEF Ask, Timestamp, ks
<1>5. /\ fetch' \in Fetch /\ fetch'.pc = "compliance" /\ fetch'.target = f.target
      /\ fetch'.serial = f.serial /\ fetch'.uri = f.uri /\ fetch'.keys = ks
      /\ fetch'.asked = version /\ fetch'.since = version
  BY <1>1, <1>2, <1>3, <1>4 DEF Fetch
<1>6. SoundFetch'
  BY <1>1, <1>2, <1>5 DEF SoundFetch
<1> QED
  BY <1>6, GoOnStep

(* What a GET of a URI gives.                                              *)
LEMMA UriFacts ==
  ASSUME NEW uri \in [dev : Device, ver : 0..MaxVersion], NEW b \in BodyOfUri(uri)
  PROVE  /\ b.text \in Texts \cup {None} /\ b.err \in BOOLEAN
         /\ b.text # None => b.text.dev = uri.dev
         /\ b.text # None /\ ~b.err => b.text.kind # "cut"
         /\ b.text # None /\ b.err => b.text.kind = "cut"
<1> DEFINE T(kind) == Text(uri.dev, uri.ver, kind)
<1>1. \A kind \in Kind : /\ T(kind) \in Texts /\ T(kind).dev = uri.dev
                         /\ T(kind).kind = kind
  BY DEF Text, Texts
<1>2. \/ b.text \in {T("whole"), T("other"), None} /\ b.err = FALSE
      \/ b.text \in {T("cut"), None} /\ b.err = TRUE
  BY DEF BodyOfUri, UriBodies
<1> HIDE DEF T
<1> QED
  BY <1>1, <1>2 DEF Kind

LEMMA FetchUriStep ==
  ASSUME ConfigInv, FetchUri
  PROVE  ConfigInv'
<1>1. /\ fetch # Idle /\ UNCHANGED version
      /\ SoundFetch /\ fetch \in Fetch /\ version \in Versions
  BY PcFacts, FetchFacts DEF FetchUri
<1>2. CASE fetch.uri = None
  <2> DEFINE f == [fetch EXCEPT !.warned = TRUE]
  <2>1. fetch' = Ask(f) /\ UNCHANGED result
    BY <1>2 DEF FetchUri
  <2>2. /\ f \in Fetch /\ f.target = fetch.target /\ f.serial = fetch.serial
        /\ f.uri = fetch.uri
    BY <1>1 DEF Fetch
  <2> HIDE DEF f
  <2> QED
    BY <1>1, <2>1, <2>2, AskStep
<1>3. CASE fetch.uri # None
  <2>1. fetch.uri \in [dev : Device, ver : 0..MaxVersion]
    BY <1>1, <1>3 DEF Fetch
  <2>2. PICK b \in BodyOfUri(fetch.uri) :
          LET f == [fetch EXCEPT !.text = b.text, !.warned = @ \/ b.err,
                                 !.source = IF b.err THEN None ELSE "resource_uri"]
          IN IF b.text # None THEN Return(f)
                              ELSE fetch' = Ask(f) /\ UNCHANGED result
    BY <1>3 DEF FetchUri
  <2>3. /\ b.text \in Texts \cup {None} /\ b.err \in BOOLEAN
        /\ b.text # None => b.text.dev = fetch.uri.dev
        /\ b.text # None /\ ~b.err => b.text.kind # "cut"
        /\ b.text # None /\ b.err => b.text.kind = "cut"
    BY <2>1, UriFacts
  <2> DEFINE f == [fetch EXCEPT !.text = b.text, !.warned = @ \/ b.err,
                                !.source = IF b.err THEN None ELSE "resource_uri"]
  <2>4. /\ f.target = fetch.target /\ f.body = fetch.body /\ f.since = fetch.since
        /\ f.serial = fetch.serial /\ f.uri = fetch.uri /\ f.text = b.text
        /\ f.warned = (fetch.warned \/ b.err)
        /\ f.source = (IF b.err THEN None ELSE "resource_uri")
    BY <1>1 DEF Fetch
  <2>5. fetch.warned \in BOOLEAN /\ fetch.serial \in Device \cup {None}
    BY <1>1 DEF Fetch
  <2>6. CASE b.text # None
    <3>1. Return(f)
      BY <2>2, <2>6
    <3> HIDE DEF f
    <3>2. f.warned \in BOOLEAN /\ f.source # "compliance_rest"
          /\ (f.source = None => b.err) /\ (~f.warned => ~b.err /\ f.source # None)
      BY <2>3, <2>4, <2>5, NoneFacts
    <3>3. \A d \in Device : IsNamed(d, f.target) =>
            f.serial \in {None, d} /\ (f.text # None => f.text.dev = d)
      BY <1>1, <1>3, <2>3, <2>4 DEF SoundFetch
    <3>4. f.source = "compliance_rest" => FALSE
      BY <3>2
    <3>5. f.body /\ ~f.warned =>
            /\ f.text # None /\ f.source # None /\ f.text.kind # "cut"
            /\ f.text.kind = "other" => f.source = "resource_uri"
      BY <2>3, <2>4, <2>6, <3>2
    <3>6. f.text # None /\ f.source = None => f.text.kind = "cut"
      BY <2>3, <2>4, <3>2
    <3> QED
      BY <1>1, <2>3, <2>4, <2>5, <3>1, <3>2, <3>3, <3>4, <3>5, <3>6, ReturnStep
  <2>7. CASE b.text = None
    <3>1. fetch' = Ask(f) /\ UNCHANGED result
      BY <2>2, <2>7
    <3>2. f \in Fetch
      BY <1>1, <2>3, <2>7, ZenonT(60) DEF Fetch
    <3> HIDE DEF f
    <3> QED
      BY <1>1, <2>4, <3>1, <3>2, AskStep
  <2> QED
    BY <2>6, <2>7
<1> QED
  BY <1>2, <1>3

(* Under each of its names the service finds devices, and only the device  *)
(* meant where there is one.                                               *)
LEMMA ResolvedFacts ==
  ASSUME ConfigInv, fetch # Idle, NEW k \in NamesOf(fetch.serial, fetch.target)
  PROVE  /\ Resolved(k) \subseteq Device
         /\ \A d \in Device : IsNamed(d, fetch.target) => Resolved(k) \subseteq {d}
<1>1. SoundFetch /\ fetch \in Fetch /\ fetch.target \in Targets
  BY FetchFacts
<1>2. CASE k = fetch.target
  <2>1. Resolved(k) = RestRows(fetch.target) /\ RestRows(fetch.target) \subseteq Device
    BY <1>1, <1>2, RowsAreDevices DEF Resolved
  <2> QED
    BY <2>1 DEF IsNamed
<1>3. CASE fetch.serial # None /\ k = <<"serial", fetch.serial>>
  <2>1. Resolved(k) = {fetch.serial} /\ fetch.serial \in Device
    BY <1>1, <1>3 DEF Resolved, Fetch
  <2> QED
    BY <1>1, <1>3, <2>1 DEF SoundFetch
<1>4. CASE fetch.serial # None /\ k = <<"name", HostnameOf(fetch.serial)>>
  <2>1. Resolved(k) = RestRows(<<"name", HostnameOf(fetch.serial)>>)
    BY <1>4 DEF Resolved
  <2>2. RestRows(<<"name", HostnameOf(fetch.serial)>>) \subseteq Device
    BY DEF RestRows, Named
  <2> QED
    BY <1>1, <1>4, <2>1, <2>2 DEF SoundFetch, IsNamed
<1> QED
  BY <1>2, <1>3, <1>4 DEF NamesOf

LEMMA GetConfigStep ==
  ASSUME ConfigInv, GetConfig
  PROVE  ConfigInv'
<1>1. /\ fetch # Idle /\ UNCHANGED version /\ fetch.keys # <<>>
      /\ SoundFetch /\ fetch \in Fetch /\ version \in Versions
      /\ \A d \in Device : /\ version[d] \in Nat /\ fetch.since[d] \in Nat
                           /\ fetch.asked[d] \in Nat
  BY PcFacts, FetchFacts DEF GetConfig
<1>2. PICK d \in Resolved(Head(fetch.keys)) :
        LET ver == IF fetch.attempt = 1 THEN fetch.asked[d] ELSE version[d]
        IN Return([fetch EXCEPT !.text = Text(d, ver, "whole"),
                                !.source = "compliance_rest"])
  BY DEF GetConfig
<1>3. Head(fetch.keys) \in NamesOf(fetch.serial, fetch.target)
  <2>1. fetch.keys \in Seq(Names) /\ 1 \in DOMAIN fetch.keys
        /\ Head(fetch.keys) = fetch.keys[1]
    BY <1>1 DEF Fetch
  <2> QED
    BY <1>1, <2>1 DEF SoundFetch
<1>4. d \in Device /\ \A e \in Device : IsNamed(e, fetch.target) => d = e
  BY <1>1, <1>3, ResolvedFacts
<1> DEFINE ver == IF fetch.attempt = 1 THEN fetch.asked[d] ELSE version[d]
           f == [fetch EXCEPT !.text = Text(d, ver, "whole"), !.source = "compliance_rest"]
<1>5. ver \in 0..MaxVersion /\ ver \in fetch.since[d]..version[d]
  <2>1. fetch.asked \in Versions
    BY <1>1 DEF Fetch
  <2>2. fetch.asked[d] \in 0..MaxVersion /\ version[d] \in 0..MaxVersion
    BY <1>1, <1>4, <2>1 DEF Versions
  <2>3. fetch.since[d] <= fetch.asked[d] /\ fetch.asked[d] <= version[d]
    BY <1>1, <1>4 DEF SoundFetch
  <2> QED
    BY <1>1, <1>4, <2>2, <2>3
<1>6. Return(f)
  BY <1>2
<1> HIDE DEF ver
<1>7. /\ f.target = fetch.target /\ f.body = fetch.body /\ f.since = fetch.since
      /\ f.serial = fetch.serial /\ f.text = Text(d, ver, "whole")
      /\ f.warned = fetch.warned /\ f.source = "compliance_rest"
  BY <1>1 DEF Fetch
<1>8. fetch.warned \in BOOLEAN /\ fetch.serial \in Device \cup {None}
  BY <1>1 DEF Fetch
<1> HIDE DEF f
<1>9. /\ f.text \in Texts /\ f.text # None /\ f.text.dev = d /\ f.text.ver = ver
      /\ f.text.kind = "whole"
  BY <1>4, <1>5, <1>7, NoneFacts DEF Text, Texts, Kind
<1>10. \A e \in Device : IsNamed(e, f.target) =>
         f.serial \in {None, e} /\ (f.text # None => f.text.dev = e)
  BY <1>1, <1>4, <1>7, <1>9 DEF SoundFetch
<1>11. f.text.ver \in f.since[f.text.dev]..version[f.text.dev]
  BY <1>5, <1>7, <1>9
<1> QED
  BY <1>1, <1>6, <1>7, <1>8, <1>9, <1>10, <1>11, NoneFacts, ReturnStep

LEMMA NextAttemptSteps ==
  ASSUME ConfigInv, TryAgain \/ NextKey \/ NothingFromCompliance
  PROVE  ConfigInv'
<1>1. /\ fetch # Idle /\ UNCHANGED <<version, result>>
      /\ SoundFetch /\ fetch \in Fetch
  BY PcFacts, FetchFacts DEF TryAgain, NextKey, NothingFromCompliance
<1>2. fetch.attempt \in Nat /\ fetch.keys \in Seq(Names)
  BY <1>1, ConfigAssumption DEF Fetch
<1>3. CASE TryAgain
  <2>1. fetch.attempt + 1 \in 1..MaxAttempts
    BY <1>2, <1>3, ConfigAssumption DEF TryAgain
  <2>2. fetch' \in Fetch
    BY <1>1, <1>3, <2>1 DEF Fetch, TryAgain
  <2>3. SoundFetch'
    BY <1>1, <1>3, <2>2 DEF SoundFetch, Fetch, TryAgain
  <2> QED
    BY <1>1, <2>3, GoOnStep
<1>4. CASE NextKey
  <2> DEFINE ks == Tail(fetch.keys)
  <2>1. /\ ks \in Seq(Names) /\ Len(ks) = Len(fetch.keys) - 1
        /\ \A i \in DOMAIN ks : i + 1 \in DOMAIN fetch.keys /\ ks[i] = fetch.keys[i + 1]
    BY <1>2, <1>4 DEF NextKey
  <2>2. Len(ks) <= 3 /\ \A i \in DOMAIN ks : ks[i] \in NamesOf(fetch.serial, fetch.target)
    BY <1>1, <1>2, <2>1 DEF SoundFetch
  <2>3. fetch' = [fetch EXCEPT !.keys = ks, !.attempt = 1]
    BY <1>4 DEF NextKey, Dropped
  <2>4. 1 \in 1..MaxAttempts
    BY ConfigAssumption
  <2> HIDE DEF ks
  <2>5. /\ fetch' \in Fetch /\ fetch'.pc = fetch.pc /\ fetch'.target = fetch.target
        /\ fetch'.serial = fetch.serial /\ fetch'.uri = fetch.uri /\ fetch'.keys = ks
        /\ fetch'.asked = fetch.asked /\ fetch'.since = fetch.since
    BY <1>1, <2>1, <2>3, <2>4 DEF Fetch
  <2>6. SoundFetch'
    BY <1>1, <1>4, <2>2, <2>5 DEF SoundFetch, NextKey
  <2> QED
    BY <1>1, <2>6, GoOnStep
<1>5. CASE NothingFromCompliance
  <2>1. fetch' \in Fetch
    BY <1>1, <1>5 DEF Fetch, NothingFromCompliance
  <2>2. SoundFetch'
    BY <1>1, <1>5, <2>1 DEF SoundFetch, Fetch, NothingFromCompliance
  <2> QED
    BY <1>1, <2>2, GoOnStep
<1> QED
  BY <1>3, <1>4, <1>5

(* What the Connector has is at most a warning away from nothing.          *)
LEMMA ConnectorStep ==
  ASSUME ConfigInv, Connector
  PROVE  ConfigInv'
<1>1. /\ fetch # Idle /\ UNCHANGED version /\ fetch.warned = TRUE
      /\ SoundFetch /\ fetch \in Fetch /\ version \in Versions
      /\ \A d \in Device : version[d] \in Nat
  BY PcFacts, FetchFacts DEF Connector, SoundFetch, Fetch
<1>2. /\ fetch.target \in Targets /\ fetch.serial \in Device \cup {None}
      /\ fetch.text = None /\ fetch.source # "compliance_rest"
  BY <1>1, NoneFacts DEF Fetch
<1>3. CASE Return(fetch)
  <2>1. \A d \in Device : IsNamed(d, fetch.target) => fetch.serial \in {None, d}
    BY <1>1 DEF SoundFetch
  <2> QED
    BY <1>1, <1>2, <1>3, <2>1, ReturnStep
<1>4. CASE ~Return(fetch)
  <2> DEFINE d == IF fetch.serial # None THEN fetch.serial
                  ELSE IF fetch.target[1] = "serial" THEN fetch.target[2] ELSE None
  <2>1. d # None /\ \E ver \in 0..version[d], kind \in {"whole", "cut"} :
          Return([fetch EXCEPT !.text = Text(d, ver, kind), !.source = "connector"])
    BY <1>4 DEF Connector
  <2>2. PICK ver \in 0..version[d], kind \in {"whole", "cut"} :
          Return([fetch EXCEPT !.text = Text(d, ver, kind), !.source = "connector"])
    BY <2>1
  <2>3. d \in Device
    BY <1>2, <2>1, RowsAreDevices
  <2>4. \A e \in Device : IsNamed(e, fetch.target) => d = e /\ fetch.serial \in {None, e}
    <3> SUFFICES ASSUME NEW e \in Device, IsNamed(e, fetch.target)
                 PROVE  d = e /\ fetch.serial \in {None, e}
      OBVIOUS
    <3>1. fetch.serial \in {None, e}
      BY <1>1 DEF SoundFetch
    <3>2. CASE fetch.serial # None
      BY <3>1, <3>2
    <3>3. CASE fetch.serial = None
      <4>1. fetch.target[1] = "serial" /\ d = fetch.target[2]
        BY <2>1, <3>3
      <4> QED
        BY <1>2, <3>1, <4>1, RowsAreDevices DEF IsNamed
    <3> QED
      BY <3>2, <3>3
  <2> HIDE DEF d
  <2> DEFINE f == [fetch EXCEPT !.text = Text(d, ver, kind), !.source = "connector"]
  <2>5. Return(f)
    BY <2>2
  <2>6. ver \in 0..MaxVersion
    <3>1. version[d] \in 0..MaxVersion
      BY <1>1, <2>3 DEF Versions
    <3> QED
      BY <3>1, ConfigAssumption
  <2>7. /\ f.target = fetch.target /\ f.body = fetch.body /\ f.since = fetch.since
        /\ f.serial = fetch.serial /\ f.text = Text(d, ver, kind)
        /\ f.warned = fetch.warned /\ f.source = "connector"
    BY <1>1 DEF Fetch
  <2> HIDE DEF f
  <2>8. f.text \in Texts /\ f.text # None /\ f.text.dev = d
    BY <2>3, <2>6, <2>7, NoneFacts DEF Text, Texts, Kind
  <2>9. \A e \in Device : IsNamed(e, f.target) =>
          f.serial \in {None, e} /\ (f.text # None => f.text.dev = e)
    BY <2>4, <2>7, <2>8
  <2> QED
    BY <1>1, <1>2, <2>5, <2>7, <2>8, <2>9, NoneFacts, ReturnStep
<1> QED
  BY <1>3, <1>4

(* Configurations change below a fetch: it was asked for earlier.          *)
LEMMA ConfigChangesStep ==
  ASSUME ConfigInv, NEW d \in Device, ConfigChanges(d)
  PROVE  ConfigInv'
<1>1. /\ version \in Versions /\ version[d] < MaxVersion /\ UNCHANGED <<fetch, result>>
      /\ version' = [version EXCEPT ![d] = @ + 1]
  BY DEF ConfigInv, ConfigChanges
<1>2. MaxVersion \in Nat /\ \A e \in Device : version[e] \in 0..MaxVersion
  BY <1>1, ConfigAssumption DEF Versions
<1>3. version[d] + 1 \in 0..MaxVersion
  BY <1>1, <1>2
<1>4. version' \in Versions
  BY <1>1, <1>3 DEF Versions
<1>5. \A e \in Device : /\ version'[e] = IF e = d THEN version[e] + 1 ELSE version[e]
                        /\ version[e] \in Nat /\ version'[e] \in Nat
                        /\ version[e] <= version'[e]
  BY <1>1, <1>2 DEF Versions
<1>6. SoundResult'
  BY <1>1, <1>4, <1>5, NoAnswer DEF ConfigInv
<1>7. ASSUME SoundFetch
      PROVE  SoundFetch'
  <2>1. \A e \in Device : fetch.asked[e] \in Nat
    BY <1>7, NoneFacts DEF SoundFetch, Fetch, Versions
  <2>2. \A e \in Device : fetch.asked[e] <= version'[e]
    BY <1>5, <1>7, <2>1 DEF SoundFetch
  <2> QED
    BY <1>1, <1>7, <2>2 DEF SoundFetch
<1> QED
  BY <1>1, <1>4, <1>6, <1>7 DEF ConfigInv

LEMMA FetchStepInv ==
  ASSUME ConfigInv, FetchStep
  PROVE  ConfigInv'
<1>1. CASE IdentifyFails \/ TooLate
  BY <1>1, FailStep DEF IdentifyFails, TooLate
<1> QED
  BY <1>1, IdentifyStep, FetchUriStep, GetConfigStep, NextAttemptSteps, ConnectorStep
  DEF FetchStep

(* Calls that are no fetch leave no answer of one, and end none.           *)
LEMMA NoFetchStep ==
  ASSUME ConfigInv, result' \in {NoResult, result}, fetch' \in {Idle, fetch},
         UNCHANGED version
  PROVE  ConfigInv'
<1>1. version \in Versions /\ \A d \in Device : version[d] <= version[d]
  BY NoneFacts DEF ConfigInv, Versions
<1>2. SoundResult'
  BY <1>1, NoAnswer DEF ConfigInv
<1> QED
  BY <1>2 DEF ConfigInv, SoundFetch

----------------------------------------------------------------------------
(* The server.                                                             *)

IInv == DispatchInv /\ ConfigInv

LEMMA InitInv == Init => IInv
<1> SUFFICES ASSUME Init PROVE IInv
  OBVIOUS
<1>1. 0 \in 0..MaxVersion
  BY ConfigAssumption
<1>2. ConfigInv
  BY <1>1 DEF Init, ConfigInit, ConfigInv, Versions, SoundResult, NoResult, Answered,
              TextIsOfTheTarget, ComplianceTextIsOfTheCall, FullMeansWhole
<1> QED
  BY <1>2, DispatchInitInv DEF Init, IInv

LEMMA StepInv == IInv /\ [Next]_vars => IInv'
<1> SUFFICES ASSUME IInv, [Next]_vars PROVE IInv'
  OBVIOUS
<1>0. DispatchInv /\ ConfigInv /\ ConfigKey \in Key
  BY ServerAssumption DEF IInv
<1>1. CASE CallConfig
  <2>1. DispatchInv'
    BY <1>0, <1>1, ExecuteStep DEF CallConfig
  <2>2. ConfigInv'
    BY <1>0, <1>1, StartStep DEF CallConfig
  <2> QED
    BY <2>1, <2>2 DEF IInv
<1>2. CASE CallOther
  <2>1. DispatchStep
    BY <1>2 DEF CallOther, DispatchStep
  <2>2. ConfigInv'
    BY <1>0, <1>2, NoFetchStep DEF CallOther
  <2> QED
    BY <1>0, <2>1, <2>2, DispatchStepInv DEF IInv
<1>3. CASE Fetches
  <2>1. DispatchStep
    BY <1>3 DEF Fetches, DispatchStep
  <2> QED
    BY <1>0, <1>3, <2>1, DispatchStepInv, FetchStepInv DEF Fetches, IInv
<1>4. CASE Restart
  <2>1. DispatchStep
    BY <1>4 DEF Restart, DispatchStep
  <2>2. ConfigInv'
    BY <1>0, <1>4, NoFetchStep DEF Restart
  <2> QED
    BY <1>0, <2>1, <2>2, DispatchStepInv DEF IInv
<1>5. CASE Tick /\ UNCHANGED configVars
  <2>1. ConfigInv'
    BY <1>0, <1>5, NoFetchStep DEF configVars
  <2> QED
    BY <1>0, <1>5, <2>1, TickStep DEF IInv
<1>6. CASE \E d \in Device : ConfigChanges(d) /\ UNCHANGED dispatchVars
  <2>1. DispatchStep
    BY <1>6 DEF DispatchStep
  <2> QED
    BY <1>0, <1>6, <2>1, DispatchStepInv, ConfigChangesStep DEF IInv
<1>7. CASE UNCHANGED vars
  <2>1. DispatchStep /\ UNCHANGED configVars
    BY <1>7 DEF vars, DispatchStep
  <2>2. ConfigInv'
    BY <1>0, <2>1, NoFetchStep DEF configVars
  <2> QED
    BY <1>0, <2>1, <2>2, DispatchStepInv DEF IInv
<1> QED
  BY <1>1, <1>2, <1>3, <1>4, <1>5, <1>6, <1>7 DEF Next

(* The inductive invariant of a server holds in all its behaviours.        *)
THEOREM Invariance == Spec => []IInv
BY InitInv, StepInv, PTL DEF Spec

(* The variables keep their types, through any calls and restarts.         *)
THEOREM TypeCorrect == Spec => []TypeOK
<1>1. IInv => TypeOK
  <2> SUFFICES ASSUME IInv PROVE TypeOK
    OBVIOUS
  <2>1. DispatchTypeOK
    BY DEF IInv, DispatchInv, Bucket, DispatchTypeOK
  <2>2. version \in [Device -> 0..MaxVersion]
    BY DEF IInv, ConfigInv, Versions
  <2>3. result.status \in {"none", "answered", "device_config_failed"}
    BY DEF IInv, ConfigInv, SoundResult
  <2>4. CASE fetch = Idle
    BY <2>1, <2>2, <2>3, <2>4 DEF TypeOK, Idle
  <2>5. CASE SoundFetch
    <3>1. /\ fetch.pc \in {"identify", "uri", "compliance", "connector"}
          /\ fetch.target \in Targets /\ fetch.serial \in Device \cup {None}
          /\ fetch.attempt \in 1..MaxAttempts /\ Len(fetch.keys) <= 3
      BY <2>5 DEF SoundFetch, Fetch
    <3> QED
      BY <2>1, <2>2, <2>3, <3>1 DEF TypeOK
  <2> QED
    BY <2>4, <2>5 DEF IInv, ConfigInv
<1> QED
  BY <1>1, Invariance, PTL

(* However calls are spaced, an expensive tool runs at most its rate in    *)
(* every window of its period, wherever the window begins.                 *)
THEOREM RateWindow == Spec => []AtMostRateInAnyWindow
<1>1. IInv => AtMostRateInAnyWindow
  BY DEF IInv, DispatchInv, Windows, AtMostRateInAnyWindow
<1> QED
  BY <1>1, Invariance, PTL

(* Who is told to wait finds the rate used up by calls of the last period  *)
(* that ran; denied and refused ones do not prolong the wait.              *)
THEOREM DeniedWhenFull == Spec => []DeniedOnlyWhenFull
<1>1. IInv => DeniedOnlyWhenFull
  BY DEF IInv, DispatchInv
<1> QED
  BY <1>1, Invariance, PTL

(* A configuration that is returned is that of the one device the target   *)
(* names, whichever lookups fail.                                          *)
THEOREM TextOfTheTarget == Spec => []TextIsOfTheTarget
<1>1. IInv => TextIsOfTheTarget
  BY DEF IInv, ConfigInv, SoundResult
<1> QED
  BY <1>1, Invariance, PTL

(* What the compliance service answers was running during the call, though *)
(* attempts ask for different times.                                       *)
THEOREM ComplianceTextOfTheCall == Spec => []ComplianceTextIsOfTheCall
<1>1. IInv => ComplianceTextIsOfTheCall
  BY DEF IInv, ConfigInv, SoundResult
<1> QED
  BY <1>1, Invariance, PTL

(* Full coverage means a body that was not cut, with its source.           *)
THEOREM FullIsWhole == Spec => []FullMeansWhole
<1>1. IInv => FullMeansWhole
  BY DEF IInv, ConfigInv, SoundResult
<1> QED
  BY <1>1, Invariance, PTL

=============================================================================
