------------------------------ MODULE LldpProbe ------------------------------
(***************************************************************************)
(* Reading LLDP neighbours of a device from the CloudVision Connector: the *)
(* candidate paths of a probe in their order, the first that answers, and  *)
(* the rows its answer is parsed into.                                     *)
(*                                                                         *)
(* The wiring is a set of segments, each the set of the endpoints on it; a *)
(* cable has two, a hub more.  An endpoint is <<device, port>>; a host is  *)
(* a device with port 0 that has no dataset of its own.                    *)
(***************************************************************************)
EXTENDS Naturals, Sequences, FiniteSets

CONSTANTS
  Device,      \* serials of switches that stream to CloudVision
  Host,        \* other things that speak LLDP
  Port,        \* port numbers of switches: Ethernet1, Ethernet2...
  PortMac,     \* switches that send LLDP with the MAC of the port
  NoEth,       \* neighbours whose ethAddr is not in the dataset
  LocalId(_),  \* which of local/1 and local/0 the switch uses
  WithSerial,  \* datasets whose paths have the serial at their head
  TreeAnswers, \* datasets where a wildcard over ports returns the tree
  Star,        \* the wildcard
  None         \* no value

ASSUME LldpAssumption ==
  /\ Device \subseteq Nat \ {0} /\ Host \subseteq Nat \ {0}
  /\ Device \cap Host = {}
  /\ Port \subseteq Nat \ {0} /\ IsFiniteSet(Port) /\ Star \notin Port
  /\ \A d \in Device : LocalId(d) \in {0, 1}
  /\ WithSerial \subseteq Device /\ TreeAnswers \subseteq Device

Endpoint == (Device \X Port) \cup (Host \X {0})

(* The endpoints an endpoint hears.                                        *)
Heard(wires, e) == (UNION {s \in wires : e \in s}) \ {e}

SystemMac(d) == <<d, 0>>
EthAddr(e) == IF e[1] \in NoEth THEN None
              ELSE IF e[1] \in PortMac THEN e ELSE SystemMac(e[1])

(* A row of the answer, as far as the map looks at it: the msap of one     *)
(* neighbour, which holds its chassis and its port, and the ethAddr of one.*)
MergedRow(e, f) ==
  [eth_addr |-> EthAddr(f), remote_chassis_id |-> SystemMac(e[1]),
   remote_port_id |-> e[2]]
Row(e) == MergedRow(e, e)

----------------------------------------------------------------------------
(* Paths: portStatus/<port>/<bucket>/<key> below local/<lid>, with or      *)
(* without the serial in front.                                            *)

P(serial, lid, port, bucket, key) ==
  [serial |-> serial, lid |-> lid, port |-> port, bucket |-> bucket, key |-> key]

BothLids(Part(_)) == Part(1) \o Part(0)

ForPortName(p, k) ==
  LET part(lid) ==
        <<P(TRUE, lid, p, "remoteSystemByMsap", Star),
          P(TRUE, lid, p, "remoteSystem", Star),
          P(TRUE, lid, p, "remoteSystem", IF k = None THEN 1 ELSE k)>>
  IN BothLids(part)

LeafPaths(serial, p) ==
  LET part(lid) ==
        <<P(serial, lid, p, "remoteSystem", 1),
          P(serial, lid, p, "remoteSystem", Star),
          P(serial, lid, p, "remoteSystemByMsap", Star)>>
  IN BothLids(part)

LiteralLocal(p) ==
  LET part(lid) ==
        <<P(TRUE, lid, p, "portStatus", Star),
          P(TRUE, lid, p, "remoteSystem", Star),
          P(TRUE, lid, p, "remoteSystemByMsap", Star)>>
  IN BothLids(part)

(* The whole tree in one Get.                                              *)
FullTreePaths ==
  <<P(TRUE, Star, Star, "portStatus", Star),
    P(TRUE, Star, Star, "remoteSystem", Star),
    P(TRUE, Star, Star, "remoteSystemByMsap", Star)>> \o LiteralLocal(Star)

(* A probe that also tries the wildcard over ports, as a probe without a   *)
(* port does.                                                              *)
PortPathsOrAnyPort(p, k) ==
  ForPortName(p, k) \o LeafPaths(FALSE, p)
    \o <<P(FALSE, Star, Star, "remoteSystem", Star)>>
(* The candidates of a probe of one port.                                  *)
PortPaths(p, k) ==
  ForPortName(p, k) \o LeafPaths(FALSE, p) \o LeafPaths(TRUE, p)
    \o LiteralLocal(p)

----------------------------------------------------------------------------
(* What the Connector answers.  Its notifications are merged key by key    *)
(* into one map without their paths: below a wildcard over neighbours each *)
(* key has the value notified last, a key some have not got that of one    *)
(* who has, and no key says the port.  In a tree the neighbours are nested *)
(* below one key, which is replaced whole.  A literal index names some     *)
(* neighbour or none.                                                      *)

Nothing == [shape |-> "nothing", rows |-> {}]
Unparsed == [shape |-> "unparsed", rows |-> {}]
Leaf(row) == [shape |-> "leaf", rows |-> {[port |-> None, row |-> row]}]
Tree(rows) == [shape |-> "tree", rows |-> rows]

PortsOf(path) == IF path.port = Star THEN Port ELSE {path.port}
NeighborsAt(wires, d, path) ==
  UNION {Heard(wires, <<d, p>>) : p \in PortsOf(path)}

WholeTree(wires, d) ==
  Tree(UNION {{[port |-> p, row |-> Row(e)] : e \in Heard(wires, <<d, p>>)} :
                p \in Port})

(* The rows several neighbours may be merged into.                         *)
MergedRows(neighbors) ==
  LET voiced == {f \in neighbors : EthAddr(f) # None}
  IN {MergedRow(e, f) : e \in neighbors,
                        f \in IF voiced = {} THEN neighbors ELSE voiced}

Answers(wires, d, path) ==
  LET heard == NeighborsAt(wires, d, path)
  IN IF \/ path.serial # (d \in WithSerial)
        \/ path.lid \notin {LocalId(d), Star}
        \/ heard = {}
     THEN {Nothing}
     ELSE IF path.bucket = "portStatus"
     THEN IF path.port = Star /\ d \in TreeAnswers THEN {WholeTree(wires, d)}
                                            ELSE {Nothing, Unparsed}
     ELSE IF path.key = Star THEN {Leaf(row) : row \in MergedRows(heard)}
     ELSE {Leaf(Row(e)) : e \in heard} \cup {Nothing}

(* The first candidate that answers is used; one that raises is passed     *)
(* over like one that is empty.  Those before "from" raised.               *)
FetchSnapshot(wires, d, paths, from) ==
  LET may(i) == Answers(wires, d, paths[i])
      silent(i) == \A j \in from..(i - 1) : Nothing \in may(j)
  IN (UNION {may(i) \ {Nothing} : i \in {j \in from..Len(paths) : silent(j)}})
       \cup (IF silent(Len(paths) + 1) THEN {Nothing} ELSE {})

(* parse_lldp_flat_to_items and the envelope: a row without a port gets    *)
(* the one that was probed.                                                *)
Items(snapshot, port) ==
  {IF r.port = None THEN [r EXCEPT !.port = port] ELSE r : r \in snapshot.rows}

=============================================================================
