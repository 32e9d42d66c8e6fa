---------------------------- MODULE ToolDispatch ----------------------------
(***************************************************************************)
(* GroupedTool.execute in front of every tool, the disable list, and the   *)
(* sliding window that limits expensive tools.  Tools are synchronous      *)
(* functions on the event loop: one call of a process at a time.           *)
(***************************************************************************)
EXTENDS Naturals, FiniteSets

CONSTANTS
  Group,       \* grouped tools
  Key,         \* group.action
  GroupOf(_),  \* the group of a key
  Limited,     \* the keys with a bucket
  Rate(_),     \* calls a bucket admits...
  Period(_),   \* ...in this many ticks
  DisableLists,\* values of CVP_MCP_DISABLED_TOOLS: sets of groups and keys
  MaxTime      \* bound: ticks of the clock

ASSUME DispatchAssumption ==
  /\ \A k \in Key : GroupOf(k) \in Group
  /\ Limited \subseteq Key
  /\ \A k \in Limited : Rate(k) \in Nat \ {0} /\ Period(k) \in Nat \ {0}
  /\ \A l \in DisableLists : l \subseteq Group \cup Key
  /\ MaxTime \in Nat

VARIABLES
  now,         \* the monotonic clock
  disabled,    \* the disable list: read from the environment at each call
  timestamps,  \* the buckets, key by key: sets of stamps
  ran,         \* history: the stamps of all calls since the process started
  reply        \* the last answer of the dispatcher

dispatchVars == <<now, disabled, timestamps, ran, reply>>

Answer(tool, outcome) == [tool |-> tool, outcome |-> outcome, at |-> now]

IsToolDisabled(k) == k \in disabled \/ GroupOf(k) \in disabled

----------------------------------------------------------------------------
(* The token bucket: the stamps of the calls it admitted in the window     *)
(* that ends now.  Two calls may have the same time, so stamps are         *)
(* numbered; their order means nothing.                                    *)

PrunedWhole(stamps, period) ==
  IF \E s \in stamps : now - s.at >= period THEN {} ELSE stamps
Pruned(stamps, period) == {s \in stamps : now - s.at < period}

Stamp(k) == [nth |-> Cardinality(ran[k]) + 1, at |-> now]

AllowStampingAll(k) ==
  LET stamps == Pruned(timestamps[k], Period(k))
  IN [ok |-> Cardinality(stamps) < Rate(k), stamps |-> stamps \cup {Stamp(k)}]
Allow(k) ==
  LET stamps == Pruned(timestamps[k], Period(k))
  IN IF Cardinality(stamps) >= Rate(k)
     THEN [ok |-> FALSE, stamps |-> stamps]
     ELSE [ok |-> TRUE, stamps |-> stamps \cup {Stamp(k)}]

----------------------------------------------------------------------------
(* One call *)

Reply(tool, outcome) ==
  /\ reply' = Answer(tool, outcome)
  /\ UNCHANGED <<now, disabled>>
Unasked == UNCHANGED <<timestamps, ran>>

Help(g) ==
  /\ Reply(g, IF g \in disabled THEN "tool_disabled" ELSE "help")
  /\ Unasked
Unknown(g) == Reply(g, "action_unknown") /\ Unasked

(* A key of the group, with or without its required arguments.             *)
Refused(k, complete) ==
  /\ ~complete \/ IsToolDisabled(k)
  /\ Reply(k, IF complete THEN "tool_disabled" ELSE "action_args_invalid")
  /\ Unasked

Execute(k) ==
  /\ ~IsToolDisabled(k)
  /\ LET asked == IF k \in Limited THEN Allow(k) ELSE [ok |-> TRUE, stamps |-> {}]
     IN /\ Reply(k, IF asked.ok THEN "called" ELSE "rate_limit_exceeded")
        /\ timestamps' = IF k \in Limited
                         THEN [timestamps EXCEPT ![k] = asked.stamps] ELSE timestamps
        /\ ran' = IF k \in Limited /\ asked.ok
                  THEN [ran EXCEPT ![k] = @ \cup {Stamp(k)}] ELSE ran

Tick ==
  /\ now < MaxTime /\ now' = now + 1
  /\ UNCHANGED <<disabled, timestamps, ran, reply>>

(* A new process has empty buckets, and the disable list of its start.     *)
Started(list) ==
  /\ disabled' = list
  /\ timestamps' = [k \in Limited |-> {}]
  /\ ran' = [k \in Limited |-> {}]
  /\ reply' = Answer("none", "started")
  /\ UNCHANGED now

DispatchInit ==
  /\ now = 0
  /\ disabled \in DisableLists
  /\ timestamps = [k \in Limited |-> {}]
  /\ ran = [k \in Limited |-> {}]
  /\ reply = Answer("none", "started")

----------------------------------------------------------------------------
DispatchTypeOK ==
  /\ now \in 0..MaxTime
  /\ disabled \in DisableLists
  /\ \A k \in Limited :
       /\ ran[k] \subseteq [nth : 1..Cardinality(ran[k]), at : 0..now]
       /\ timestamps[k] \subseteq ran[k]
       /\ Cardinality(timestamps[k]) <= Rate(k)

(* A process runs an expensive tool at most rate times in any window of    *)
(* one period, wherever the window begins, although each call looks back   *)
(* from its own time only (_TokenBucket: "max rate calls per period_sec"). *)
AtMostRateInAnyWindow ==
  \A k \in Limited : \A first \in ran[k] :
    Cardinality({s \in ran[k] : s.at \in first.at..(first.at + Period(k) - 1)})
      <= Rate(k)

(* Who is told to wait has rate calls that ran in the period before: calls *)
(* that were denied, refused, disabled or a whole period old use no slot.  *)
DeniedOnlyWhenFull ==
  reply.outcome = "rate_limit_exceeded" =>
    Cardinality({s \in ran[reply.tool] :
                   reply.at - s.at < Period(reply.tool)})
      = Rate(reply.tool)

=============================================================================
