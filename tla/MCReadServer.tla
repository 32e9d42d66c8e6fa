---------------------------- MODULE MCReadServer ----------------------------
(* ReadServer with three groups, two limited tools and three devices.      *)
EXTENDS ReadServer

Groups == {"device", "inventory", "topology"}
Keys == {"device.config", "inventory.list", "topology.map"}
GroupOfKey(k) ==
  CASE k = "device.config" -> "device"
    [] k = "inventory.list" -> "inventory"
    [] k = "topology.map" -> "topology"
LimitedKeys == {"inventory.list", "topology.map"}
Rates(k) == IF k = "topology.map" THEN 1 ELSE 2
TwoTicks(k) == 2
Lists == {{}, {"device", "topology.map"}}

Three == {1, 2, 3}
TheThird == {3}
Names(d) == CASE d = 1 -> "leaf.a" [] d = 2 -> "leaf.b" [] d = 3 -> "ap.a"
LongForms(n) ==
  CASE n = "leaf" -> {"leaf.a", "leaf.b"} [] n = "ap" -> {"ap.a"} [] OTHER -> {}
AllTargets ==
  {<<"serial", 1>>, <<"serial", 3>>, <<"name", "leaf.b">>, <<"name", "leaf">>,
   <<"name", "ap">>}

(* The clock and the buckets take no part in a fetch, so fetches are       *)
(* explored at the start only, and configurations change during fetches.   *)
AtStart == now = 0 /\ \A k \in Limited : timestamps[k] = {}
MCNext ==
  /\ Next
  /\ fetch'.pc # "idle" => AtStart
  /\ version' # version => ~Free
  /\ now' # now => Free /\ result = NoResult
MCSpec == Init /\ [][MCNext]_vars /\ Fairness

=============================================================================
