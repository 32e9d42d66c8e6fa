---------------------------- MODULE TopologyScan ----------------------------
(***************************************************************************)
(* topology.map and topology.lldp.  The map reads the inventory, walks the *)
(* devices and probes their ports one after the other, merges what both    *)
(* ends of a cable say into links, reads the inventory again and draws the *)
(* graph.  The neighbour sweep of one device probes its ports in the same  *)
(* way.  Cables are moved and devices stop streaming meanwhile.            *)
(***************************************************************************)
EXTENDS LldpProbe, SequencesExt

CONSTANTS
  Lab,         \* virtual devices, left out unless asked for
  Cap(_),      \* number of ports of the model of a device
  Wirings,     \* wirings people change between
  MapCalls,    \* bound: arguments topology.map is called with
  MaxChanges,  \* bound: changes to wires and streams
  MaxFaults,   \* bound: faults of reads
  ExtraLimit   \* bound: last remote index probed; 8 in the code

ASSUME ScanAssumption ==
  /\ Lab \subseteq Device
  /\ \A d \in Device : Cap(d) \in Nat /\ 1..Cap(d) \subseteq Port
  /\ \A w \in Wirings : \A s \in w : s \subseteq Endpoint
  /\ MapCalls \subseteq
       [mode: {"auto", "oper_up_only", "full_range"},
        scope: {"full_inventory", "connected"}, inactive: BOOLEAN,
        lab: BOOLEAN, allow: SUBSET Device]
  /\ MaxChanges \in Nat /\ MaxFaults \in Nat /\ ExtraLimit \in Nat \ {0, 1}

VARIABLES
  wires,      \* the segments there are
  streaming,  \* devices whose streaming status is Active
  scan,       \* the call in progress
  result,     \* what the last call returned
  heard,      \* history: who heard whom since the call began
  quiet,      \* history: no change and no fault since the call began
  changes, faults

vars == <<wires, streaming, scan, result, heard, quiet, changes, faults>>

Pairs(w) == {u \in (Device \X Port) \X Endpoint : u[2] \in Heard(w, u[1])}

NoResult == [task |-> "none"]
NoScan == [pc |-> "idle"]

----------------------------------------------------------------------------
(* The walk: devices by serial, ports by number. *)

Least(S) == CHOOSE n \in S : \A k \in S : n <= k
Rest(S) == S \ {Least(S)}

Inventory(inactive) == IF inactive THEN Device ELSE streaming

Begin(s) ==
  /\ scan' = s
  /\ result' = NoResult
  /\ heard' = Pairs(wires)
  /\ quiet' = TRUE
  /\ UNCHANGED <<wires, streaming, changes, faults>>

(* An empty allowlist allows every device.                                 *)
StartMap(call) ==
  /\ scan.pc = "idle"
  /\ LET asked == {d \in Inventory(call.inactive) :
                     call.allow = {} \/ d \in call.allow}
                   \ (IF call.lab THEN {} ELSE Lab)
     IN Begin([pc |-> "next", task |-> "map", mode |-> call.mode,
               scope |-> call.scope, inactive |-> call.inactive, asked |-> asked,
               todo |-> asked, dev |-> None, ports |-> {}, index |-> 1,
               seen |-> {}, edges |-> <<>>])

(* Devices that do not stream, or are virtual, are refused here.           *)
StartSweep(d, lab) ==
  /\ scan.pc = "idle"
  /\ d \in streaming /\ (lab \/ d \notin Lab)
  /\ Begin([pc |-> "tree", task |-> "sweep", dev |-> d, ports |-> {},
            probed |-> 0, found |-> 0, rows |-> {}])

Faulty == faults < MaxFaults /\ faults' = faults + 1 /\ quiet' = FALSE
Sound == UNCHANGED <<faults, quiet>>

NextDevice ==
  /\ scan.pc = "next" /\ scan.todo # {}
  /\ scan' = [scan EXCEPT !.pc = "ports", !.dev = Least(scan.todo),
                          !.todo = Rest(scan.todo)]
  /\ Sound
  /\ UNCHANGED <<wires, streaming, result, heard, changes>>

(* No client for the device: it is counted as an error and left out.       *)
DeviceFails ==
  /\ scan.pc = "next" /\ scan.todo # {}
  /\ scan' = [scan EXCEPT !.todo = Rest(scan.todo)]
  /\ Faulty
  /\ UNCHANGED <<wires, streaming, result, heard, changes>>

UpPorts(d) == {p \in Port : Heard(wires, <<d, p>>) # {}}
EthernetRangeFromZero(d) == 0..Cap(d)
EthernetRange(d) == 1..Cap(d)

(* The ports a device is asked for: those that are up, or all of them if   *)
(* none is known to be.  The sweep caps their number, the map their names. *)
PortsToProbe(d, up) ==
  LET firsts == {p \in up : Cardinality({q \in up : q <= p}) <= Cap(d)}
      capped == {p \in up : p <= Cap(d)}
      listed == IF scan.task = "map" THEN capped ELSE firsts
  IN IF scan.task = "map" /\ scan.mode = "full_range" THEN EthernetRange(d)
     ELSE IF listed # {} THEN listed
     ELSE IF scan.task = "map" /\ scan.mode = "oper_up_only" THEN {}
     ELSE EthernetRange(d)

(* grpc_list_oper_up_physical_ports_for_lldp: an error is an empty list.   *)
ListPorts ==
  /\ scan.pc = "ports"
  /\ \E up \in {UpPorts(scan.dev), {}} :
       /\ IF up = UpPorts(scan.dev) THEN Sound ELSE Faulty
       /\ LET ports == PortsToProbe(scan.dev, up)
          IN scan' = IF scan.task = "map"
                     THEN [scan EXCEPT !.pc = "probe", !.ports = ports]
                     ELSE [scan EXCEPT !.pc = "probe", !.ports = ports,
                                       !.probed = Cardinality(ports)]
  /\ UNCHANGED <<wires, streaming, result, heard, changes>>

----------------------------------------------------------------------------
(* The probes of one port of the map *)

(* Rows are told apart by the MAC they name.                               *)
Signature(row) ==
  IF row.eth_addr # None THEN row.eth_addr ELSE row.remote_chassis_id

(* One edge for each row whose neighbour the port has not named yet.      *)
AppendRows(s, port, items) ==
  LET sigs == {Signature(i.row) : i \in items} \ s.seen
      first == {CHOOSE i \in items : Signature(i.row) = sig : sig \in sigs}
  IN [s EXCEPT !.edges = @ \o SetToSeq({[local |-> <<s.dev, port>>, row |-> i.row] :
                                           i \in first}),
               !.seen = @ \cup sigs]

(* A probe has one answer, some of its first candidates having raised.     *)
Probed(p, k) ==
  UNION {{[sound |-> from = 1, items |-> Items(snap, p)] :
            snap \in FetchSnapshot(wires, scan.dev, PortPaths(p, k), from)} :
           from \in 1..(Len(PortPaths(p, k)) + 1)}
Counted(answer) == IF answer.sound THEN Sound ELSE Faulty

NextPortSeenKept(s) == [s EXCEPT !.ports = Rest(@), !.index = 1]
NextPort(s) == [s EXCEPT !.ports = Rest(@), !.index = 1, !.seen = {}]

ProbePort ==
  /\ scan.pc = "probe" /\ scan.task = "map" /\ scan.ports # {}
  /\ scan.index = 1
  /\ LET p == Least(scan.ports)
     IN \E answer \in Probed(p, None) :
          /\ Counted(answer)
          /\ scan' = IF answer.items = {} THEN NextPort(scan)
                     ELSE [AppendRows(scan, p, answer.items) EXCEPT !.index = 2]
  /\ UNCHANGED <<wires, streaming, result, heard, changes>>

(* The other indices of a port that answered.                              *)
ProbeIndex ==
  /\ scan.pc = "probe" /\ scan.task = "map" /\ scan.ports # {}
  /\ scan.index > 1
  /\ LET p == Least(scan.ports)
     IN \E answer \in Probed(p, scan.index) :
          LET s == AppendRows(scan, p, answer.items)
          IN /\ Counted(answer)
             /\ scan' = IF scan.index >= ExtraLimit THEN NextPort(s)
                        ELSE [s EXCEPT !.index = @ + 1]
  /\ UNCHANGED <<wires, streaming, result, heard, changes>>

DeviceDone ==
  /\ scan.pc = "probe" /\ scan.task = "map" /\ scan.ports = {}
  /\ scan' = [scan EXCEPT !.pc = "next"]
  /\ Sound
  /\ UNCHANGED <<wires, streaming, result, heard, changes>>

----------------------------------------------------------------------------
(* The sweep of one device *)

Finished(r) == scan' = NoScan /\ result' = r

(* First the wildcards over all ports: enough if rows name several ports.  *)
AnyItems(items) == items # {}
SeveralPorts(items) == Cardinality({i.port : i \in items} \ {None}) > 1

FullTree ==
  /\ scan.pc = "tree"
  /\ \E from \in 1..(Len(FullTreePaths) + 1) :
       /\ IF from = 1 THEN Sound ELSE Faulty
       /\ \E snap \in FetchSnapshot(wires, scan.dev, FullTreePaths, from) :
            LET items == Items(snap, None)
            IN IF SeveralPorts(items)
               THEN Finished([task |-> "sweep", dev |-> scan.dev, rows |-> items,
                              coverage |-> "full"])
               ELSE scan' = [scan EXCEPT !.pc = "ports"] /\ UNCHANGED result
  /\ UNCHANGED <<wires, streaming, heard, changes>>

SweepPort ==
  /\ scan.pc = "probe" /\ scan.task = "sweep" /\ scan.ports # {}
  /\ LET p == Least(scan.ports)
     IN \E answer \in Probed(p, None) :
          /\ Counted(answer)
          /\ scan' = [scan EXCEPT !.ports = Rest(@), !.rows = @ \cup answer.items,
                                  !.found = IF answer.items = {} THEN @ ELSE @ + 1]
  /\ UNCHANGED <<wires, streaming, result, heard, changes>>

SweepDone ==
  /\ scan.pc = "probe" /\ scan.task = "sweep" /\ scan.ports = {}
  /\ Finished([task |-> "sweep", dev |-> scan.dev, rows |-> scan.rows,
               coverage |-> IF scan.rows = {} THEN "none"
                            ELSE IF scan.found <= 1 /\ scan.probed > 1
                            THEN "partial" ELSE "full"])
  /\ Sound
  /\ UNCHANGED <<wires, streaming, heard, changes>>

----------------------------------------------------------------------------
(* Links from edges: both directions of a cable have one key. *)

RemoteDeviceId(row) ==
  IF row.eth_addr # None THEN row.eth_addr ELSE row.remote_chassis_id

LinkKeyWithoutPorts(e) == {SystemMac(e.local[1]), RemoteDeviceId(e.row)}
CanonicalLinkKey(e) ==
  <<{SystemMac(e.local[1]), RemoteDeviceId(e.row)},
    {e.local[2], e.row.remote_port_id}>>

(* The first two edges of a key are the two sides, the lower serial first; *)
(* a key with one edge is a link nobody confirmed.                         *)
MergeBidirectionalEdges(edges) ==
  LET with(k) == {i \in DOMAIN edges : CanonicalLinkKey(edges[i]) = k}
      link(k) ==
        LET i == Least(with(k))
            rest == with(k) \ {i}
        IN IF rest = {}
           THEN [at |-> i, verified |-> FALSE, a |-> edges[i], b |-> None]
           ELSE LET s0 == edges[i] s1 == edges[Least(rest)]
                    up == s0.local[1] <= s1.local[1]
                IN [at |-> i, verified |-> TRUE,
                    a |-> IF up THEN s0 ELSE s1, b |-> IF up THEN s1 ELSE s0]
  IN {link(CanonicalLinkKey(edges[i])) : i \in DOMAIN edges}

----------------------------------------------------------------------------
(* The graph *)

Serial(d) == <<"serial", d>>

MatchByEthAddr(row, inv) == {d \in inv : SystemMac(d) = row.eth_addr}
MatchRemoteToInventory(row, inv) ==
  {d \in inv : SystemMac(d) \in {row.eth_addr, row.remote_chassis_id}}

NodeKeyForRemote(row) ==
  IF row.eth_addr # None THEN <<"mac", row.eth_addr>>
                         ELSE <<"chassis", row.remote_chassis_id>>

(* What the second side says is matched first, and that is the first side. *)
Target(m, inv) ==
  LET byB == IF m.b = None THEN {} ELSE MatchRemoteToInventory(m.b.row, inv)
      byA == MatchRemoteToInventory(m.a.row, inv)
      matched == IF byB # {} THEN byB ELSE byA
  IN IF matched # {} THEN Serial(CHOOSE d \in matched : TRUE)
                     ELSE NodeKeyForRemote(m.a.row)

(* Of links with the same ends and port the first is kept.                 *)
BuildLinks(merged, inv) ==
  LET links == {[source |-> Serial(m.a.local[1]), target |-> Target(m, inv),
                 port |-> m.a.local[2], verified |-> m.verified, at |-> m.at] :
                  m \in merged}
      same(l, k) == <<l.source, l.target, l.port>> = <<k.source, k.target, k.port>>
  IN {l \in links : \A k \in links : same(l, k) => l.at <= k.at}

BuildNodes(links, inv, scope) ==
  {l.source : l \in links} \cup {l.target : l \in links}
    \cup (IF scope = "full_inventory" THEN {Serial(d) : d \in inv} ELSE {})

(* After the last device the inventory is read again.                      *)
MapDone ==
  /\ scan.pc = "next" /\ scan.todo = {}
  /\ LET inv == Inventory(scan.inactive)
         merged == MergeBidirectionalEdges(scan.edges)
         links == BuildLinks(merged, inv)
     IN Finished([task |-> "map", merged |-> merged, links |-> links, inv |-> inv,
                  asked |-> scan.asked,
                  nodes |-> BuildNodes(links, inv, scan.scope)])
  /\ Sound
  /\ UNCHANGED <<wires, streaming, heard, changes>>

----------------------------------------------------------------------------
(* The world *)

Changed ==
  /\ changes < MaxChanges /\ changes' = changes + 1
  /\ scan.pc # "idle"
  /\ quiet' = FALSE
  /\ UNCHANGED <<scan, result, faults>>

Recabled(w) ==
  /\ w # wires
  /\ wires' = w
  /\ heard' = heard \cup Pairs(w)
  /\ Changed
  /\ UNCHANGED streaming

StreamingChanges(d) ==
  /\ streaming' = IF d \in streaming THEN streaming \ {d} ELSE streaming \cup {d}
  /\ Changed
  /\ UNCHANGED <<wires, heard>>

Init ==
  /\ wires \in Wirings
  /\ streaming = Device
  /\ scan = NoScan
  /\ result = NoResult
  /\ heard = {}
  /\ quiet = TRUE
  /\ changes = 0
  /\ faults = 0

StartAny ==
  \/ \E call \in MapCalls : StartMap(call)
  \/ \E d \in Device, lab \in BOOLEAN : StartSweep(d, lab)

Next ==
  \/ StartAny
  \/ NextDevice
  \/ DeviceFails
  \/ ListPorts
  \/ ProbePort
  \/ ProbeIndex
  \/ DeviceDone
  \/ FullTree
  \/ SweepPort
  \/ SweepDone
  \/ MapDone
  \/ \E w \in Wirings : Recabled(w)
  \/ \E d \in Device : StreamingChanges(d)

Spec == Init /\ [][Next]_vars

----------------------------------------------------------------------------
(* Properties *)

Rows == {MergedRow(e, f) : e, f \in Endpoint}
Edge == [local : Device \X Port, row : Rows]

(* The values of the variables; ports walked are ports of the model.       *)
TypeOK ==
  /\ wires \in Wirings /\ streaming \subseteq Device
  /\ scan.pc \in {"idle", "next", "tree", "ports", "probe"}
  /\ scan.pc = "probe" => scan.ports \subseteq Port
  /\ scan.pc # "idle" /\ scan.task = "map" =>
       /\ ToSet(scan.edges) \subseteq Edge
       /\ scan.index \in 1..ExtraLimit
       /\ scan.todo \subseteq scan.asked
  /\ result.task = "map" =>
       \A m \in result.merged :
         m.a \in Edge /\ m.b \in (IF m.verified THEN Edge ELSE {None})
  /\ heard \subseteq (Device \X Port) \X Endpoint

Says(local, row) ==
  \E e, f \in Endpoint :
    <<local, e>> \in heard /\ <<local, f>> \in heard /\ row = MergedRow(e, f)

(* Whatever a map or a sweep reports of a port was heard on that port      *)
(* while the call ran, although rows come without ports; what several      *)
(* neighbours of one port said may have been merged.                       *)
RowsWereHeard ==
  /\ result.task = "map" => \A m \in result.merged :
       Says(m.a.local, m.a.row) /\ (m.verified => Says(m.b.local, m.b.row))
  /\ result.task = "sweep" => \A r \in result.rows :
       Says(<<result.dev, r.port>>, r.row)

(* What one neighbour of the port said of itself.                          *)
IsWhole(side) ==
  \E e \in Endpoint : <<side.local, e>> \in heard /\ side.row = Row(e)

(* The end a row names, and the ends that rows of a port may name.         *)
Named(row) == <<RemoteDeviceId(row)[1], row.remote_port_id>>
MayName(local) ==
  {Named(MergedRow(u[2], v[2])) : u, v \in {h \in heard : h[1] = local}}

(* Two cables between the same switches with the same two port numbers, or *)
(* one and a merged row that looks like the other: the link key does not   *)
(* say which port is whose.                                                *)
Ambiguous(x, y) ==
  \E z \in {u[1] : u \in heard} : \E n \in MayName(z) :
    /\ {z, n} # {x, y}
    /\ {z[1], n[1]} = {x[1], y[1]} /\ {z[2], n[2]} = {x[2], y[2]}

(* The two sides of a verified link heard each other while the map was     *)
(* made, whatever was recabled between the two probes, unless the row of a *)
(* side is merged from several neighbours, or the ports of two cables      *)
(* between them are crossed.                                               *)
VerifiedSidesHeardEachOther ==
  result.task = "map" => \A m \in result.merged :
    /\ m.verified /\ IsWhole(m.a) /\ IsWhole(m.b)
    /\ ~Ambiguous(m.a.local, Named(m.a.row))
    => <<m.a.local, m.b.local>> \in heard /\ <<m.b.local, m.a.local>> \in heard

KnownBySystemMac(d) == d \in NoEth \/ d \notin PortMac

(* If nothing changed and no read failed, every cable between two switches *)
(* that were asked for is one verified link.                               *)
QuietMapIsComplete ==
  result.task = "map" /\ quiet => \A x, y \in Device \X Port :
    /\ x # y /\ Heard(wires, x) = {y} /\ Heard(wires, y) = {x}
    /\ \A e \in {x, y} : /\ e[1] \in result.asked
                         /\ e[2] <= Cap(e[1])
                         /\ KnownBySystemMac(e[1])
    /\ ~Ambiguous(x, y)
    => Cardinality({m \in result.merged :
                      m.verified /\ {m.a.local, m.b.local} = {x, y}}) = 1

(* If nothing changed and no read failed, the sweep of a device has a row  *)
(* for each of its ports that hear something, up to the number it probes.  *)
QuietSweepMissesNoPort ==
  result.task = "sweep" /\ quiet => \A p \in UpPorts(result.dev) :
    Cardinality({q \in UpPorts(result.dev) : q <= p}) <= Cap(result.dev) =>
      \E r \in result.rows : r.port = p

(* The links of a map join nodes of it, and a device of the inventory the  *)
(* graph was drawn from has one node, though it was not the inventory the  *)
(* walk began with and neighbours name it by more than one MAC.  Only a    *)
(* row merged from several neighbours makes a second one.                  *)
OneNodePerDevice ==
  result.task = "map" =>
    /\ \A l \in result.links : {l.source, l.target} \subseteq result.nodes
    /\ \A n \in result.nodes :
         n[1] # "serial" /\ n[2][1] \in result.inv =>
           \E m \in result.merged : n = NodeKeyForRemote(m.a.row) /\ ~IsWhole(m.a)

(* Every edge has the identity of one neighbour: its MAC, chassis and port *)
(* are of one and the same.                                                *)
EdgesAreOfOneNeighbor ==
  result.task = "map" => \A m \in result.merged :
    IsWhole(m.a) /\ (m.verified => IsWhole(m.b))

(* A verified link is drawn between the switches on its two sides; one     *)
(* with both ends on one switch needs a cable from the switch to itself.   *)
VerifiedLinksJoinTwoDevices ==
  result.task = "map" => \A l \in result.links :
    l.verified /\ l.source = l.target =>
      \E pair \in heard : pair[1][1] = l.source[2] /\ pair[2][1] = l.source[2]

=============================================================================
