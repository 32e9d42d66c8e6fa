--------------------------- MODULE MCTopologyScan ---------------------------
(* TopologyScan with three switches, a host and six wirings.               *)
EXTENDS TopologyScan

Switches == {1, 2, 3}
Hosts == {8}
Ports == {1, 2}
LocalIds(d) == IF d = 2 THEN 0 ELSE 1
Caps(d) == IF d = 3 THEN 1 ELSE 2
SwitchThree == {3}
SwitchTwo == {2}

Parallel == {{<<1, 1>>, <<2, 1>>}, {<<1, 2>>, <<2, 2>>}}
Crossed == {{<<1, 1>>, <<2, 2>>}, {<<1, 2>>, <<2, 1>>}}
Chain == {{<<1, 1>>, <<2, 2>>}, {<<2, 1>>, <<3, 1>>}, {<<1, 2>>, <<8, 0>>}}
Hub == {{<<1, 1>>, <<2, 1>>, <<8, 0>>}, {<<2, 2>>, <<3, 1>>}}
PortMacHub == {{<<1, 1>>, <<3, 1>>, <<8, 0>>}, {<<1, 2>>, <<2, 2>>}}
Loopback == {{<<2, 1>>, <<2, 2>>}, {<<1, 1>>, <<3, 1>>}}
SixWirings == {Parallel, Crossed, Chain, Hub, PortMacHub, Loopback}
Call(mode, scope, inactive, lab, allow) ==
  [mode |-> mode, scope |-> scope, inactive |-> inactive, lab |-> lab,
   allow |-> allow]
FourCalls ==
  {Call("auto", "full_inventory", FALSE, TRUE, {}),
   Call("oper_up_only", "connected", TRUE, TRUE, {}),
   Call("full_range", "full_inventory", TRUE, FALSE, {}),
   Call("auto", "connected", FALSE, TRUE, {1, 2})}
OneAndThree == {1, 3}

=============================================================================
