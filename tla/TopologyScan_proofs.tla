------------------------- MODULE TopologyScan_proofs -------------------------
(***************************************************************************)
(* What a map and a sweep report, for any devices, ports, wirings and      *)
(* calls.                                                                  *)
(*                                                                         *)
(* The invariant says of the walk where it stands: the edges are of ports  *)
(* it has reached, each was heard, no port has two edges of one neighbour, *)
(* and while nothing changed no cable of a port it has left is missing.    *)
(***************************************************************************)
EXTENDS TopologyScan, Positions, FunctionTheorems, SequenceTheorems

----------------------------------------------------------------------------
(* The inductive invariant *)

Modes == {"auto", "oper_up_only", "full_range"}
Scopes == {"full_inventory", "connected"}
Signatures == {Signature(r) : r \in Rows}
PortRow == [port : Port, row : Rows]

MapScan ==
  [pc : {"next", "ports", "probe"}, task : {"map"}, mode : Modes, scope : Scopes,
   inactive : BOOLEAN, asked : SUBSET Device, todo : SUBSET Device,
   dev : Device \cup {None}, ports : SUBSET Port, index : 1..ExtraLimit,
   seen : SUBSET Signatures, edges : Seq(Edge)]
SweepScan ==
  [pc : {"tree", "ports", "probe"}, task : {"sweep"}, dev : Device,
   ports : SUBSET Port, probed : Nat, found : Nat, rows : SUBSET PortRow]

Typed ==
  /\ wires \in Wirings
  /\ streaming \in SUBSET Device
  /\ scan \in MapScan \cup SweepScan \cup {NoScan}
  /\ heard \in SUBSET ((Device \X Port) \X Endpoint)
  /\ quiet \in BOOLEAN
  /\ scan # NoScan => result = NoResult

Listening ==
  scan # NoScan \/ result # NoResult =>
    Pairs(wires) \subseteq heard /\ (quiet => heard = Pairs(wires))

SaidIn(h, local, row) ==
  \E e, f \in Endpoint :
    <<local, e>> \in h /\ <<local, f>> \in h /\ row = MergedRow(e, f)

(* Every edge was heard, and no port has two edges of one neighbour.       *)
SoundEdges(edges, h) ==
  /\ edges \in Seq(Edge)
  /\ \A i \in DOMAIN edges : SaidIn(h, edges[i].local, edges[i].row)
  /\ \A i, j \in DOMAIN edges : i # j /\ edges[i].local = edges[j].local =>
       Signature(edges[i].row) # Signature(edges[j].row)

(* Ports the walk has not come to.                                         *)
Ahead(s, x) ==
  \/ x[1] \in s.todo
  \/ s.pc = "ports" /\ x[1] = s.dev
  \/ /\ s.pc = "probe" /\ x[1] = s.dev
     /\ x[2] \in s.ports
     /\ x[2] = Least(s.ports) => s.index = 1

Standing(s) ==
  /\ s.todo \subseteq s.asked
  /\ s.pc # "next" => s.dev \in Device \ s.todo
  /\ s.index # 1 => s.pc = "probe" /\ s.ports # {}
  /\ s.index = 1 => s.seen = {}

(* The edges of the port under the probe are known by what it has seen.    *)
Reached(s) ==
  \A i \in DOMAIN s.edges :
    /\ ~Ahead(s, s.edges[i].local)
    /\ s.pc = "probe" /\ s.ports # {} /\ s.edges[i].local = <<s.dev, Least(s.ports)>>
         => Signature(s.edges[i].row) \in s.seen

(* The edges of a quiet network: one for each cable of a port passed.      *)
Mapped(x, w, asked, edges) ==
  \A y \in Endpoint :
    x[1] \in asked /\ x[2] <= Cap(x[1]) /\ Heard(w, x) = {y} =>
      \E i \in DOMAIN edges : edges[i] = [local |-> x, row |-> Row(y)]
Covers(s, w) ==
  \A x \in Device \X Port : ~Ahead(s, x) => Mapped(x, w, s.asked, s.edges)

Walks(s, h, w, q) ==
  Standing(s) /\ SoundEdges(s.edges, h) /\ Reached(s) /\ (q => Covers(s, w))
Walk == scan \in MapScan => Walks(scan, heard, wires, quiet)

HeardRows(d, rows, h) ==
  \A r \in rows : r \in PortRow /\ SaidIn(h, <<d, r.port>>, r.row)

(* The ports a sweep may reach are still ahead of it or have a row.        *)
Up(w, d) == {p \in Port : Heard(w, <<d, p>>) # {}}
Swept(w, d, ports, rows) ==
  \A p \in Up(w, d) :
    Cardinality({q \in Up(w, d) : q <= p}) <= Cap(d) =>
      p \in ports \/ \E r \in rows : r.port = p

Sweep ==
  scan \in SweepScan =>
    /\ HeardRows(scan.dev, scan.rows, heard)
    /\ quiet /\ scan.pc = "probe" => Swept(wires, scan.dev, scan.ports, scan.rows)

MapOf(r, edges, scope) ==
  LET links == BuildLinks(r.merged, r.inv)
  IN /\ r.merged = MergeBidirectionalEdges(edges)
     /\ r.links = links
     /\ r.nodes = BuildNodes(links, r.inv, scope)

Reported ==
  /\ result.task \in {"none", "map", "sweep"}
  /\ result.task = "map" =>
       \E edges \in Seq(Edge), scope \in Scopes :
         /\ SoundEdges(edges, heard)
         /\ quiet => \A x \in Device \X Port : Mapped(x, wires, result.asked, edges)
         /\ MapOf(result, edges, scope)
  /\ result.task = "sweep" =>
       /\ HeardRows(result.dev, result.rows, heard)
       /\ quiet => Swept(wires, result.dev, {}, result.rows)

IInv == Typed /\ Listening /\ Walk /\ Sweep /\ Reported

----------------------------------------------------------------------------
(* Probes *)

LEMMA LeastOf ==
  ASSUME NEW S \in SUBSET Nat, S # {}
  PROVE  Least(S) \in S /\ \A k \in S : Least(S) <= k
<1>1. PICK n \in S : TRUE
  OBVIOUS
<1> DEFINE T == {k \in S : k <= n} \ {0}
<1>2. \E x \in S : \A k \in S : x <= k
  <2>1. CASE 0 \in S
    BY <2>1
  <2>2. CASE 0 \notin S
    <3>1. T \in SUBSET (1..n) /\ n \in T /\ n \in Nat
      <4>1. n \in Nat /\ n # 0
        BY <2>2
      <4>2. n \in T
        BY <4>1
      <4>3. \A x \in T : x \in 1..n
        BY <4>1
      <4> HIDE DEF T
      <4> QED
        BY <4>1, <4>2, <4>3
    <3>2. PICK x \in T : \A y \in T : x <= y
      <4>1. T \in SUBSET (1..n) /\ T # {} /\ n \in Nat
        BY <3>1
      <4> HIDE DEF T
      <4> QED
        BY <4>1, FirstPosition
    <3>3. x \in S /\ \A k \in S : x <= k
      BY <3>1, <3>2, <2>2
    <3> QED
      BY <3>3
  <2> QED
    BY <2>1, <2>2
<1> QED
  BY <1>2 DEF Least

(* Candidates that name a port and lie below a table of neighbours.        *)
Buckets == {"remoteSystem", "remoteSystemByMsap"}
PathOn(p, k) ==
  [serial : BOOLEAN, lid : {0, 1}, port : {p}, bucket : Buckets, key : {Star, 1, k}]
AnyPathOn(p, k) ==
  [serial : BOOLEAN, lid : {0, 1}, port : {p}, bucket : Buckets \cup {"portStatus"},
   key : {Star, 1, k}]
Certain(d, path) ==
  path.serial = (d \in WithSerial) /\ path.lid = LocalId(d) /\ path.key = Star

Has(paths, path) == \E i \in 1..Len(paths) : paths[i] = path

LEMMA Concatenated ==
  ASSUME NEW S, NEW a \in Seq(S), NEW b \in Seq(S)
  PROVE  /\ a \o b \in Seq(S)
         /\ Len(a \o b) = Len(a) + Len(b)
         /\ \A i \in 1..Len(a) : i \in 1..Len(a \o b) /\ (a \o b)[i] = a[i]
         /\ \A path : Has(a, path) \/ Has(b, path) => Has(a \o b, path)
<1>1. a \o b \in Seq(S)
  OBVIOUS
<1>2. Len(a \o b) = Len(a) + Len(b)
  OBVIOUS
<1>3. \A i \in 1..Len(a) : i \in 1..Len(a \o b) /\ (a \o b)[i] = a[i]
  OBVIOUS
<1>4. \A i \in 1..Len(b) : Len(a) + i \in 1..Len(a \o b) /\ (a \o b)[Len(a) + i] = b[i]
  OBVIOUS
<1> QED
  BY <1>1, <1>2, <1>3, <1>4 DEF Has

LEMMA NamedPaths ==
  ASSUME NEW p, NEW k
  PROVE  /\ ForPortName(p, k) \in Seq(PathOn(p, IF k = None THEN 1 ELSE k))
         /\ \A lid \in {0, 1} :
              Has(ForPortName(p, k), P(TRUE, lid, p, "remoteSystemByMsap", Star))
<1> DEFINE j == IF k = None THEN 1 ELSE k
           part(lid) == <<P(TRUE, lid, p, "remoteSystemByMsap", Star),
                          P(TRUE, lid, p, "remoteSystem", Star),
                          P(TRUE, lid, p, "remoteSystem", j)>>
<1>1. ForPortName(p, k) = part(1) \o part(0)
  BY DEF ForPortName, BothLids
<1> HIDE DEF j
<1>2. \A lid \in {0, 1} :
        /\ part(lid) \in Seq(PathOn(p, j))
        /\ Has(part(lid), P(TRUE, lid, p, "remoteSystemByMsap", Star))
  <2>1. \A lid \in {0, 1} : part(lid) \in Seq(PathOn(p, j))
    BY DEF P, PathOn, Buckets
  <2>2. \A lid \in {0, 1} :
          /\ 1 \in 1..Len(part(lid))
          /\ part(lid)[1] = P(TRUE, lid, p, "remoteSystemByMsap", Star)
    OBVIOUS
  <2> HIDE DEF part
  <2>3. \A lid \in {0, 1} : Has(part(lid), P(TRUE, lid, p, "remoteSystemByMsap", Star))
    BY <2>2 DEF Has
  <2> QED
    BY <2>1, <2>3
<1> HIDE DEF part
<1>3. /\ part(1) \o part(0) \in Seq(PathOn(p, j))
      /\ \A lid \in {0, 1} :
           Has(part(1) \o part(0), P(TRUE, lid, p, "remoteSystemByMsap", Star))
  BY <1>2, Concatenated
<1> QED
  BY <1>1, <1>3 DEF j

LEMMA FlatPaths ==
  ASSUME NEW s \in BOOLEAN, NEW p, NEW k
  PROVE  /\ LeafPaths(s, p) \in Seq(PathOn(p, k))
         /\ \A lid \in {0, 1} : Has(LeafPaths(s, p), P(s, lid, p, "remoteSystem", Star))
<1> DEFINE part(lid) == <<P(s, lid, p, "remoteSystem", 1),
                          P(s, lid, p, "remoteSystem", Star),
                          P(s, lid, p, "remoteSystemByMsap", Star)>>
<1>1. LeafPaths(s, p) = part(1) \o part(0)
  BY DEF LeafPaths, BothLids
<1>2. \A lid \in {0, 1} :
        /\ part(lid) \in Seq(PathOn(p, k))
        /\ Has(part(lid), P(s, lid, p, "remoteSystem", Star))
  BY DEF P, PathOn, Buckets, Has
<1> HIDE DEF part
<1>3. /\ part(1) \o part(0) \in Seq(PathOn(p, k))
      /\ \A lid \in {0, 1} :
           Has(part(1) \o part(0), P(s, lid, p, "remoteSystem", Star))
  BY <1>2, Concatenated
<1> QED
  BY <1>1, <1>3

LEMMA LiteralPaths ==
  ASSUME NEW p, NEW k
  PROVE  LiteralLocal(p) \in Seq(AnyPathOn(p, k))
  BY DEF LiteralLocal, BothLids, P, AnyPathOn, Buckets

(* The candidates of a port all name it.  Before the first that asks for   *)
(* the whole status there is one that is sure to answer.                   *)
LEMMA ProbePaths ==
  ASSUME NEW p, NEW k
  PROVE  \E j : \E first \in Seq(PathOn(p, j)), rest \in Seq(AnyPathOn(p, j)) :
           /\ PortPaths(p, k) = first \o rest
           /\ \A d \in Device :
                \E i \in 1..Len(first) : Certain(d, first[i])
<1> DEFINE j == IF k = None THEN 1 ELSE k
           named == ForPortName(p, k)
           bare == LeafPaths(FALSE, p)
           full == LeafPaths(TRUE, p)
           first == (named \o bare) \o full
           rest == LiteralLocal(p)
<1>1. /\ named \in Seq(PathOn(p, j))
      /\ bare \in Seq(PathOn(p, j)) /\ full \in Seq(PathOn(p, j))
      /\ rest \in Seq(AnyPathOn(p, j))
  BY NamedPaths, FlatPaths, LiteralPaths
<1>2. \A lid \in {0, 1} :
        /\ Has(named, P(TRUE, lid, p, "remoteSystemByMsap", Star))
        /\ Has(bare, P(FALSE, lid, p, "remoteSystem", Star))
  BY NamedPaths, FlatPaths
<1>3. PortPaths(p, k) = first \o rest
  BY DEF PortPaths
<1> HIDE DEF named, bare, full, rest, j
<1>4. /\ named \o bare \in Seq(PathOn(p, j))
      /\ \A path : Has(named, path) \/ Has(bare, path) => Has(named \o bare, path)
  BY <1>1, Concatenated
<1>5. /\ first \in Seq(PathOn(p, j))
      /\ \A path : Has(named \o bare, path) => Has(first, path)
  BY <1>1, <1>4, Concatenated
<1> HIDE DEF first
<1>6. ASSUME NEW d \in Device
      PROVE  \E i \in 1..Len(first) : Certain(d, first[i])
  <2>1. LocalId(d) \in {0, 1}
    BY LldpAssumption
  <2>2. CASE d \in WithSerial
    <3>1. Has(first, P(TRUE, LocalId(d), p, "remoteSystemByMsap", Star))
      BY <1>2, <1>4, <1>5, <2>1
    <3>2. PICK i \in 1..Len(first) : first[i] = P(TRUE, LocalId(d), p, "remoteSystemByMsap", Star)
      BY <3>1 DEF Has
    <3>3. /\ first[i].serial = TRUE /\ first[i].lid = LocalId(d)
          /\ first[i].key = Star
      BY <3>2 DEF P
    <3>4. Certain(d, first[i])
      BY <2>2, <3>3, Zenon DEF Certain
    <3> QED
      BY <3>4
  <2>3. CASE d \notin WithSerial
    <3>1. Has(first, P(FALSE, LocalId(d), p, "remoteSystem", Star))
      BY <1>2, <1>4, <1>5, <2>1
    <3>2. PICK i \in 1..Len(first) : first[i] = P(FALSE, LocalId(d), p, "remoteSystem", Star)
      BY <3>1 DEF Has
    <3>3. /\ first[i].serial = FALSE /\ first[i].lid = LocalId(d)
          /\ first[i].key = Star
      BY <3>2 DEF P
    <3>4. FALSE = (d \in WithSerial)
      BY <2>3
    <3>5. Certain(d, first[i])
      BY <3>3, <3>4, Zenon DEF Certain
    <3> QED
      BY <3>5
  <2> QED
    BY <2>2, <2>3
<1> QED
  BY <1>1, <1>3, <1>5, <1>6

(* Rows made of what the members of a set say.                             *)
RowsOf(S) == {MergedRow(e, f) : e, f \in S}

LEMMA MergedFacts ==
  ASSUME NEW S
  PROVE  /\ MergedRows(S) \subseteq RowsOf(S)
         /\ \A e \in S : Row(e) \in RowsOf(S)
         /\ \A e : RowsOf({e}) = {Row(e)}
<1>1. MergedRows(S) \subseteq RowsOf(S)
  BY DEF MergedRows, RowsOf
<1>2. \A e : RowsOf({e}) = {Row(e)}
  BY DEF RowsOf, Row
<1> QED
  BY <1>1, <1>2 DEF RowsOf, Row

(* Below a table of neighbours an answer is one of those the port hears,   *)
(* or is merged from several.                                              *)
LEMMA AnswersOnPort ==
  ASSUME NEW w, NEW d \in Device, NEW p \in Port, NEW j, NEW path \in AnyPathOn(p, j),
         NEW snap \in Answers(w, d, path)
  PROVE  snap = Nothing \/ snap = Unparsed
           \/ \E row \in RowsOf(Heard(w, <<d, p>>)) : snap = Leaf(row)
<1>1. path.port = p /\ p # Star
  BY LldpAssumption DEF AnyPathOn
<1>2. NeighborsAt(w, d, path) = Heard(w, <<d, p>>)
  BY <1>1 DEF NeighborsAt, PortsOf
<1> QED
  BY <1>1, <1>2, MergedFacts DEF Answers

LEMMA TableAnswers ==
  ASSUME NEW w, NEW d \in Device, NEW p \in Port, NEW j, NEW path \in PathOn(p, j),
         NEW snap \in Answers(w, d, path)
  PROVE  snap = Nothing \/ \E row \in RowsOf(Heard(w, <<d, p>>)) : snap = Leaf(row)
<1>1. path.port = p /\ p # Star /\ path.bucket # "portStatus"
  BY LldpAssumption DEF PathOn, Buckets
<1>2. NeighborsAt(w, d, path) = Heard(w, <<d, p>>)
  BY <1>1 DEF NeighborsAt, PortsOf
<1> QED
  BY <1>1, <1>2, MergedFacts DEF Answers

LEMMA SureAnswer ==
  ASSUME NEW w, NEW d \in Device, NEW p \in Port, NEW j, NEW path \in PathOn(p, j),
         Certain(d, path), Heard(w, <<d, p>>) # {}
  PROVE  Nothing \notin Answers(w, d, path)
<1>1. path.port = p /\ p # Star /\ path.bucket # "portStatus"
  BY LldpAssumption DEF PathOn, Buckets
<1>2. NeighborsAt(w, d, path) = Heard(w, <<d, p>>)
  BY <1>1 DEF NeighborsAt, PortsOf
<1>3. \A row : Leaf(row) # Nothing
  BY DEF Nothing, Leaf
<1>4. /\ path.serial = (d \in WithSerial) /\ path.lid = LocalId(d)
      /\ path.key = Star
  BY DEF Certain
<1>5. Answers(w, d, path) = {Leaf(row) : row \in MergedRows(Heard(w, <<d, p>>))}
  BY <1>1, <1>2, <1>4 DEF Answers
<1> QED
  BY <1>3, <1>5

(* The first that answers: everything before it may have been silent.     *)
LEMMA Snapshots ==
  ASSUME NEW w, NEW d, NEW paths, NEW from \in Nat \ {0}, Len(paths) \in Nat,
         NEW snap \in FetchSnapshot(w, d, paths, from), snap # Nothing
  PROVE  \E i \in from..Len(paths) :
           /\ snap \in Answers(w, d, paths[i])
           /\ \A h \in from..(i - 1) : Nothing \in Answers(w, d, paths[h])
<1> DEFINE may(i) == Answers(w, d, paths[i])
           silent(i) == \A h \in from..(i - 1) : Nothing \in may(h)
<1>1. \E i \in {h \in from..Len(paths) : silent(h)} : snap \in may(i)
  BY DEF FetchSnapshot
<1> QED
  BY <1>1

LEMMA NoSnapshot ==
  ASSUME NEW w, NEW d, NEW paths, NEW from \in Nat \ {0}, Len(paths) \in Nat,
         Nothing \in FetchSnapshot(w, d, paths, from)
  PROVE  \A i \in from..Len(paths) : Nothing \in Answers(w, d, paths[i])
<1> DEFINE may(i) == Answers(w, d, paths[i])
           silent(i) == \A h \in from..(i - 1) : Nothing \in may(h)
<1>1. silent(Len(paths) + 1)
  BY DEF FetchSnapshot
<1> QED
  BY <1>1

OneRow(items, w, d, p) ==
  items = {} \/ \E row \in RowsOf(Heard(w, <<d, p>>)) : items = {[port |-> p, row |-> row]}

(* A probe of a port has at most one row, of what the port hears, and      *)
(* one that never raised has one if there is anything to hear.             *)
LEMMA ProbeAnswers ==
  ASSUME NEW w, NEW d \in Device, NEW p \in Port, NEW k,
         NEW from \in 1..(Len(PortPaths(p, k)) + 1),
         NEW snap \in FetchSnapshot(w, d, PortPaths(p, k), from)
  PROVE  /\ OneRow(Items(snap, p), w, d, p)
         /\ from = 1 /\ Heard(w, <<d, p>>) # {} => Items(snap, p) # {}
<1> DEFINE paths == PortPaths(p, k)
<1>1. PICK j : \E first \in Seq(PathOn(p, j)), rest \in Seq(AnyPathOn(p, j)) :
        /\ paths = first \o rest
        /\ \A c \in Device : \E i \in 1..Len(first) : Certain(c, first[i])
  BY ProbePaths
<1>2. PICK first \in Seq(PathOn(p, j)), rest \in Seq(AnyPathOn(p, j)) :
        /\ paths = first \o rest
        /\ \A c \in Device : \E i \in 1..Len(first) : Certain(c, first[i])
  BY <1>1
<1>3. PathOn(p, j) \subseteq AnyPathOn(p, j)
  BY DEF PathOn, AnyPathOn
<1>4. /\ paths \in Seq(AnyPathOn(p, j)) /\ Len(paths) \in Nat
      /\ \A i \in 1..Len(first) : i \in 1..Len(paths) /\ paths[i] = first[i]
  <2> HIDE DEF paths
  <2>1. first \in Seq(AnyPathOn(p, j))
    BY <1>2, <1>3
  <2> QED
    BY <1>2, <2>1, Concatenated
<1> HIDE DEF paths
<1>5. from \in 1..(Len(paths) + 1) /\ from \in Nat \ {0}
  BY <1>4 DEF paths
<1>6. snap \in FetchSnapshot(w, d, paths, from)
  BY DEF paths
<1>7. Items(Nothing, p) = {} /\ Items(Unparsed, p) = {}
  BY DEF Items, Nothing, Unparsed
<1>8. \A row : Items(Leaf(row), p) = {[port |-> p, row |-> row]}
  BY DEF Items, Leaf
<1>9. \/ snap = Nothing \/ snap = Unparsed
      \/ \E row \in RowsOf(Heard(w, <<d, p>>)) : snap = Leaf(row)
  <2>1. CASE snap # Nothing
    <3>1. PICK i \in from..Len(paths) : snap \in Answers(w, d, paths[i])
      BY <1>4, <1>5, <1>6, <2>1, Snapshots
    <3>2. paths[i] \in AnyPathOn(p, j)
      BY <1>4, <1>5, <3>1
    <3> QED
      BY <3>1, <3>2, AnswersOnPort
  <2> QED
    BY <2>1
<1>10. ASSUME from = 1, Heard(w, <<d, p>>) # {}
       PROVE  \E row \in RowsOf(Heard(w, <<d, p>>)) : snap = Leaf(row)
  <2>1. PICK i \in 1..Len(first) : Certain(d, first[i])
    BY <1>2
  <2>2. i \in 1..Len(paths) /\ paths[i] = first[i] /\ first[i] \in PathOn(p, j)
    BY <1>2, <1>4, <2>1
  <2>3. Nothing \notin Answers(w, d, paths[i])
    BY <1>10, <2>1, <2>2, SureAnswer
  <2>4. snap # Nothing
    BY <1>4, <1>5, <1>6, <1>10, <2>2, <2>3, NoSnapshot
  <2>5. PICK h \in from..Len(paths) :
          /\ snap \in Answers(w, d, paths[h])
          /\ \A l \in from..(h - 1) : Nothing \in Answers(w, d, paths[l])
    BY <1>4, <1>5, <1>6, <2>4, Snapshots
  <2>6. h <= i
    BY <1>10, <1>4, <2>2, <2>3, <2>5
  <2>7. paths[h] = first[h] /\ first[h] \in PathOn(p, j)
    BY <1>2, <1>4, <1>10, <2>1, <2>5, <2>6
  <2>8. snap \in Answers(w, d, first[h])
    BY <2>5, <2>7
  <2> QED
    BY <2>4, <2>7, <2>8, TableAnswers
<1>11. OneRow(Items(snap, p), w, d, p)
  BY <1>7, <1>8, <1>9 DEF OneRow
<1> QED
  BY <1>7, <1>8, <1>10, <1>11

(* Rows that name several ports come from the tree itself.                 *)
LEMMA TreeRows ==
  ASSUME NEW w, NEW d \in Device, NEW from \in 1..(Len(FullTreePaths) + 1),
         NEW snap \in FetchSnapshot(w, d, FullTreePaths, from),
         SeveralPorts(Items(snap, None))
  PROVE  /\ \A r \in Items(snap, None) : \E p \in Port : \E e \in Heard(w, <<d, p>>) :
              r = [port |-> p, row |-> Row(e)]
         /\ \A p \in Port : \A e \in Heard(w, <<d, p>>) :
              [port |-> p, row |-> Row(e)] \in Items(snap, None)
<1>1. Len(FullTreePaths) \in Nat
  BY DEF FullTreePaths, LiteralLocal, BothLids, P
<1>2. \A S : S \subseteq {None} => ~(Cardinality(S \ {None}) > 1)
  <2>1. ASSUME NEW S, S \subseteq {None}  PROVE ~(Cardinality(S \ {None}) > 1)
    <3>1. S \ {None} = {}
      BY <2>1
    <3>2. Cardinality(S \ {None}) = 0
      BY <3>1, FS_EmptySet
    <3> QED
      BY <3>2
  <2> QED
    BY <2>1
<1>3. \A row : Items(Leaf(row), None) = {[port |-> None, row |-> row]}
  BY DEF Items, Leaf
<1>4. Items(Nothing, None) = {} /\ Items(Unparsed, None) = {}
  BY DEF Items, Nothing, Unparsed
<1>5. snap # Nothing /\ snap # Unparsed /\ \A row : snap # Leaf(row)
  <2>1. \A i \in Items(snap, None) : i.port # None => snap # Nothing
    BY <1>4
  <2>2. ASSUME {i.port : i \in Items(snap, None)} \subseteq {None}  PROVE FALSE
    BY <1>2, <2>2 DEF SeveralPorts
  <2> QED
    BY <1>3, <1>4, <2>2
<1>6. PICK i \in from..Len(FullTreePaths) : snap \in Answers(w, d, FullTreePaths[i])
  BY <1>1, <1>5, Snapshots
<1>7. snap = WholeTree(w, d)
  BY <1>5, <1>6 DEF Answers
<1>8. \A r : r \in snap.rows <=>
        \E p \in Port : \E e \in Heard(w, <<d, p>>) : r = [port |-> p, row |-> Row(e)]
  <2> DEFINE of(p) == {[port |-> p, row |-> Row(e)] : e \in Heard(w, <<d, p>>)}
  <2>1. snap.rows = UNION {of(p) : p \in Port}
    BY <1>7 DEF WholeTree, Tree
  <2>2. \A p \in Port : \A r :
          r \in of(p) <=> \E e \in Heard(w, <<d, p>>) : r = [port |-> p, row |-> Row(e)]
    OBVIOUS
  <2> HIDE DEF of
  <2>3. \A r : r \in snap.rows <=> \E p \in Port : r \in of(p)
    BY <2>1
  <2>4. ASSUME NEW r \in snap.rows
        PROVE  \E p \in Port : \E e \in Heard(w, <<d, p>>) : r = [port |-> p, row |-> Row(e)]
    <3>1. PICK p \in Port : r \in of(p)
      BY <2>3
    <3> QED
      BY <2>2, <3>1
  <2>5. ASSUME NEW p \in Port, NEW e \in Heard(w, <<d, p>>)
        PROVE  [port |-> p, row |-> Row(e)] \in snap.rows
    BY <2>2, <2>3
  <2> QED
    BY <2>4, <2>5
<1>9. ASSUME NEW r \in snap.rows
      PROVE  (IF r.port = None THEN [r EXCEPT !.port = None] ELSE r) = r
  <2>1. PICK p \in Port : \E e \in Heard(w, <<d, p>>) : r = [port |-> p, row |-> Row(e)]
    BY <1>8
  <2> QED
    BY <2>1
<1>10. Items(snap, None) = snap.rows
  <2> DEFINE same(r) == IF r.port = None THEN [r EXCEPT !.port = None] ELSE r
  <2>1. \A r \in snap.rows : same(r) = r
    BY <1>9
  <2>2. Items(snap, None) = {same(r) : r \in snap.rows}
    BY DEF Items
  <2> HIDE DEF same
  <2>3. {same(r) : r \in snap.rows} = snap.rows
    BY <2>1
  <2> QED
    BY <2>2, <2>3
<1> QED
  BY <1>8, <1>10

----------------------------------------------------------------------------
(* Edges *)

LEMMA HeardEndpoints ==
  ASSUME NEW w \in Wirings, NEW x
  PROVE  Heard(w, x) \subseteq Endpoint
  BY ScanAssumption DEF Heard

LEMMA HeardPairs ==
  ASSUME NEW w \in Wirings, NEW x \in Device \X Port, NEW e \in Heard(w, x)
  PROVE  e \in Endpoint /\ <<x, e>> \in Pairs(w)
<1>1. e \in Endpoint
  BY HeardEndpoints
<1> QED
  BY <1>1 DEF Pairs

LEMMA RowsWereSaid ==
  ASSUME NEW w \in Wirings, NEW h, Pairs(w) \subseteq h, NEW x \in Device \X Port,
         NEW row \in RowsOf(Heard(w, x))
  PROVE  row \in Rows /\ SaidIn(h, x, row)
<1>1. PICK e, f \in Heard(w, x) : row = MergedRow(e, f)
  BY DEF RowsOf
<1>2. /\ e \in Endpoint /\ <<x, e>> \in h
      /\ f \in Endpoint /\ <<x, f>> \in h
  BY HeardPairs
<1> QED
  BY <1>1, <1>2 DEF Rows, SaidIn

LEMMA SingleSeq ==
  ASSUME NEW x
  PROVE  SetToSeq({x}) = <<x>> /\ SetToSeq({}) = <<>>
<1>1. Cardinality({x}) = 1 /\ Cardinality({}) = 0
  BY FS_EmptySet, FS_Singleton
<1>2. SetToSeq({}) = <<>>
  <2>1. \A f \in [1..0 -> {}] : f = <<>>
    OBVIOUS
  <2>2. <<>> \in [1..0 -> {}] /\ IsInjective(<<>>)
    BY DEF IsInjective
  <2> QED
    BY <1>1, <2>1, <2>2 DEF SetToSeq
<1>3. SetToSeq({x}) = <<x>>
  <2>1. \A f \in [1..1 -> {x}] : f = <<x>>
    OBVIOUS
  <2>2. <<x>> \in [1..1 -> {x}] /\ IsInjective(<<x>>)
    BY DEF IsInjective
  <2> QED
    BY <1>1, <2>1, <2>2 DEF SetToSeq
<1> QED
  BY <1>2, <1>3

EdgeOf(s, p, row) == [local |-> <<s.dev, p>>, row |-> row]
WithEdge(s, p, row) ==
  [s EXCEPT !.edges = Append(@, EdgeOf(s, p, row)), !.seen = @ \cup {Signature(row)}]

(* An answer without a row, or with one of a neighbour seen already, adds  *)
(* nothing; another adds its edge.                                         *)
LEMMA NothingAdded ==
  ASSUME NEW s \in MapScan, NEW p, NEW items,
         \A i \in items : Signature(i.row) \in s.seen
  PROVE  AppendRows(s, p, items) = s
<1> DEFINE sigs == {Signature(i.row) : i \in items} \ s.seen
           first == {CHOOSE i \in items : Signature(i.row) = sig : sig \in sigs}
           edges == {[local |-> <<s.dev, p>>, row |-> i.row] : i \in first}
<1>1. sigs = {}
  OBVIOUS
<1>2. edges = {}
  BY <1>1
<1>3. AppendRows(s, p, items)
        = [s EXCEPT !.edges = @ \o SetToSeq(edges), !.seen = @ \cup sigs]
  BY DEF AppendRows
<1> HIDE DEF sigs, edges
<1>4. /\ s.edges \in Seq(Edge) /\ s.edges \o <<>> = s.edges
      /\ s = [s EXCEPT !.edges = s.edges, !.seen = s.seen]
  BY ConcatEmptySeq DEF MapScan
<1> QED
  BY <1>1, <1>2, <1>3, <1>4, SingleSeq

LEMMA OneAdded ==
  ASSUME NEW s \in MapScan, NEW p, NEW row, Signature(row) \notin s.seen
  PROVE  AppendRows(s, p, {[port |-> p, row |-> row]}) = WithEdge(s, p, row)
<1> DEFINE item == [port |-> p, row |-> row]
           items == {item}
           sigs == {Signature(i.row) : i \in items} \ s.seen
           first == {CHOOSE i \in items : Signature(i.row) = sig : sig \in sigs}
           edges == {[local |-> <<s.dev, p>>, row |-> i.row] : i \in first}
<1>1. sigs = {Signature(row)}
  OBVIOUS
<1>2. \A sig : sig = Signature(row) => (CHOOSE i \in items : Signature(i.row) = sig) = item
  OBVIOUS
<1>3. first = {item}
  <2> HIDE DEF items, item, sigs
  <2> QED
    BY <1>1, <1>2
<1>4. edges = {EdgeOf(s, p, row)}
  <2> HIDE DEF first
  <2> QED
    BY <1>3 DEF EdgeOf
<1>5. AppendRows(s, p, items)
        = [s EXCEPT !.edges = @ \o SetToSeq(edges), !.seen = @ \cup sigs]
  BY DEF AppendRows
<1> HIDE DEF sigs, edges, items
<1>6. SetToSeq(edges) = <<EdgeOf(s, p, row)>>
  BY <1>4, SingleSeq
<1>7. s.edges \o <<EdgeOf(s, p, row)>> = Append(s.edges, EdgeOf(s, p, row))
  BY DEF MapScan
<1> QED
  BY <1>1, <1>5, <1>6, <1>7 DEF WithEdge, items

----------------------------------------------------------------------------
(* Steps of the walk *)

LEMMA EndpointFacts ==
  Port \subseteq Nat /\ Device \subseteq Nat /\ ExtraLimit \in Nat /\ ExtraLimit > 1
  BY LldpAssumption, ScanAssumption

LEMMA EdgeAt ==
  ASSUME NEW s \in MapScan
  PROVE  /\ s.edges \in Seq(Edge) /\ Len(s.edges) \in Nat
         /\ DOMAIN s.edges = 1..Len(s.edges)
         /\ \A i \in 1..Len(s.edges) :
              s.edges[i].local \in Device \X Port /\ s.edges[i].row \in Rows
<1>1. s.edges \in Seq(Edge)
  BY DEF MapScan
<1>2. \A e \in Edge : e.local \in Device \X Port /\ e.row \in Rows
  BY DEF Edge
<1> QED
  BY <1>1, <1>2

LEMMA RestOf ==
  ASSUME NEW S \in SUBSET Nat, S # {}
  PROVE  /\ Least(S) \in S /\ Rest(S) \subseteq S
         /\ \A x \in S : x \in Rest(S) <=> x # Least(S)
  BY LeastOf DEF Rest

(* A step that adds no edge: what was not ahead is not ahead, and what is  *)
(* ahead no more has its edges.                                            *)
LEMMA Shift ==
  ASSUME NEW s \in MapScan, NEW t \in MapScan, NEW h, NEW w, NEW q, NEW r,
         Walks(s, h, w, q), r => q,
         t.edges = s.edges, t.asked = s.asked, Standing(t),
         \A x \in Device \X Port : Ahead(t, x) => Ahead(s, x),
         t.pc = "probe" /\ t.ports # {} => \A i \in DOMAIN s.edges :
           s.edges[i].local = <<t.dev, Least(t.ports)>> =>
             Signature(s.edges[i].row) \in t.seen,
         r => \A x \in Device \X Port :
           Ahead(s, x) /\ ~Ahead(t, x) => Mapped(x, w, s.asked, s.edges)
  PROVE  Walks(t, h, w, r)
<1>1. \A i \in DOMAIN s.edges : s.edges[i].local \in Device \X Port
  BY EdgeAt
<1>2. Reached(t)
  BY <1>1 DEF Walks, Reached
<1>3. r => Covers(t, w)
  BY DEF Walks, Covers
<1> QED
  BY <1>2, <1>3 DEF Walks

LEMMA EdgeAdded ==
  ASSUME NEW s \in MapScan, NEW h, NEW w, NEW q, NEW r, NEW row \in Rows,
         NEW n \in 2..ExtraLimit,
         Walks(s, h, w, q), r => q,
         s.pc = "probe", s.ports # {},
         SaidIn(h, <<s.dev, Least(s.ports)>>, row),
         Signature(row) \notin s.seen,
         r /\ s.index = 1 => row \in RowsOf(Heard(w, <<s.dev, Least(s.ports)>>))
  PROVE  LET t == [WithEdge(s, Least(s.ports), row) EXCEPT !.index = n]
         IN t \in MapScan /\ Walks(t, h, w, r)
<1> DEFINE p == Least(s.ports)
           x == <<s.dev, p>>
           t == [WithEdge(s, p, row) EXCEPT !.index = n]
           edge == EdgeOf(s, p, row)
           l == Len(s.edges)
<1>1. p \in s.ports /\ p \in Port /\ s.dev \in Device /\ x \in Device \X Port
  BY EndpointFacts, LeastOf DEF MapScan, Walks, Standing
<1>2. edge \in Edge /\ Signature(row) \in Signatures
  BY <1>1 DEF Edge, EdgeOf, Signatures
<1>3. /\ t \in MapScan /\ t.edges = Append(s.edges, edge)
      /\ t.seen = s.seen \cup {Signature(row)} /\ t.index = n
      /\ t.pc = s.pc /\ t.dev = s.dev /\ t.ports = s.ports /\ t.todo = s.todo
      /\ t.asked = s.asked
  <2> DEFINE u == WithEdge(s, p, row)
  <2> HIDE DEF p
  <2>1. /\ u.edges = Append(s.edges, edge) /\ u.seen = s.seen \cup {Signature(row)}
        /\ u.pc = s.pc /\ u.dev = s.dev /\ u.ports = s.ports /\ u.todo = s.todo
        /\ u.asked = s.asked
    BY DEF WithEdge, MapScan
  <2>2. s.edges \in Seq(Edge) /\ s.seen \in SUBSET Signatures
    BY DEF MapScan
  <2>3. Append(s.edges, edge) \in Seq(Edge)
    <3> HIDE DEF edge
    <3> QED
      BY <1>2, <2>2
  <2>4. s.seen \cup {Signature(row)} \in SUBSET Signatures
    BY <1>2, <2>2
  <2>5. u \in MapScan
    <3> HIDE DEF edge
    <3> QED
      BY <2>3, <2>4 DEF WithEdge, MapScan, edge
  <2>6. n \in 1..ExtraLimit
    BY EndpointFacts
  <2>7. t = [u EXCEPT !.index = n]
    OBVIOUS
  <2> HIDE DEF u, t, edge
  <2> QED
    BY <2>1, <2>5, <2>6, <2>7 DEF MapScan
<1>4. /\ DOMAIN t.edges = 1..(l + 1) /\ DOMAIN s.edges = 1..l /\ l \in Nat
      /\ t.edges[l + 1] = edge
      /\ \A i \in 1..l : t.edges[i] = s.edges[i]
  <2> HIDE DEF t, edge
  <2> QED
    BY <1>2, <1>3 DEF MapScan
<1>5. edge.local = x /\ edge.row = row
  BY DEF EdgeOf
<1> HIDE DEF t, edge, p
<1>6. Standing(t)
  BY <1>3 DEF Standing, Walks
<1>7. /\ \A y \in Device \X Port : Ahead(t, y) => Ahead(s, y)
      /\ ~Ahead(t, x)
      /\ \A y \in Device \X Port : Ahead(s, y) /\ ~Ahead(t, y) => y = x /\ s.index = 1
  <2>1. s.dev \notin s.todo /\ n # 1
    BY DEF Walks, Standing
  <2>2. x[1] = s.dev /\ x[2] = p
    OBVIOUS
  <2>3. ~Ahead(t, x)
    BY <1>3, <2>1, <2>2 DEF Ahead, p
  <2>4. ASSUME NEW y \in Device \X Port
        PROVE  /\ Ahead(t, y) => Ahead(s, y)
               /\ Ahead(s, y) /\ ~Ahead(t, y) => y[1] = s.dev /\ y[2] = p /\ s.index = 1
    BY <1>3, <2>1 DEF Ahead, p
  <2>5. \A y \in Device \X Port : y[1] = s.dev /\ y[2] = p => y = x
    OBVIOUS
  <2> HIDE DEF x
  <2> QED
    BY <2>3, <2>4, <2>5
<1>8. \A i \in 1..l : s.edges[i].local \in Device \X Port
  BY EdgeAt
<1>9. \A i \in 1..l : s.edges[i].local = x => Signature(s.edges[i].row) \in s.seen
  BY <1>4 DEF Walks, Reached, p
<1>10. SoundEdges(t.edges, h)
  <2>1. t.edges \in Seq(Edge)
    BY <1>3 DEF MapScan
  <2>2. \A i \in 1..(l + 1) : SaidIn(h, t.edges[i].local, t.edges[i].row)
    <3>1. SaidIn(h, edge.local, edge.row)
      BY <1>5 DEF p
    <3>2. \A i \in 1..l : SaidIn(h, s.edges[i].local, s.edges[i].row)
      BY <1>4 DEF Walks, SoundEdges
    <3>3. \A i \in 1..l : SaidIn(h, t.edges[i].local, t.edges[i].row)
      BY <1>4, <3>2
    <3>4. SaidIn(h, t.edges[l + 1].local, t.edges[l + 1].row)
      BY <1>4, <3>1
    <3>5. \A i \in 1..(l + 1) : i = l + 1 \/ i \in 1..l
      BY <1>4
    <3> QED
      BY <3>3, <3>4, <3>5, Zenon
  <2>3. \A i, j \in 1..(l + 1) : i # j /\ t.edges[i].local = t.edges[j].local =>
          Signature(t.edges[i].row) # Signature(t.edges[j].row)
    <3>1. \A i, j \in 1..l : i # j /\ s.edges[i].local = s.edges[j].local =>
            Signature(s.edges[i].row) # Signature(s.edges[j].row)
      BY <1>4 DEF Walks, SoundEdges
    <3>2. \A i \in 1..l : s.edges[i].local = edge.local =>
            Signature(s.edges[i].row) # Signature(edge.row)
      BY <1>5, <1>9
    <3>3. ASSUME NEW i \in 1..(l + 1), NEW j \in 1..(l + 1), i # j,
                 t.edges[i].local = t.edges[j].local
          PROVE  Signature(t.edges[i].row) # Signature(t.edges[j].row)
      <4>1. CASE i \in 1..l /\ j \in 1..l
        BY <1>4, <3>1, <3>3, <4>1
      <4>2. CASE i = l + 1 /\ j \in 1..l
        BY <1>4, <3>2, <3>3, <4>2
      <4>3. CASE i \in 1..l /\ j = l + 1
        BY <1>4, <3>2, <3>3, <4>3
      <4> QED
        BY <1>4, <3>3, <4>1, <4>2, <4>3
    <3> QED
      BY <3>3
  <2> QED
    BY <1>4, <2>1, <2>2, <2>3 DEF SoundEdges
<1>11. Reached(t)
  <2>1. \A i \in 1..(l + 1) : ~Ahead(t, t.edges[i].local)
    <3>1. \A i \in 1..l : ~Ahead(s, s.edges[i].local)
      BY <1>4 DEF Walks, Reached
    <3>2. \A i \in 1..l : ~Ahead(t, s.edges[i].local)
      BY <1>7, <1>8, <3>1
    <3>3. \A i \in 1..(l + 1) : i = l + 1 \/ i \in 1..l
      BY <1>4
    <3> QED
      BY <1>4, <1>5, <1>7, <3>2, <3>3
  <2>2. \A i \in 1..(l + 1) :
          t.edges[i].local = <<t.dev, Least(t.ports)>> => Signature(t.edges[i].row) \in t.seen
    BY <1>3, <1>4, <1>5, <1>9 DEF p
  <2> QED
    BY <1>4, <2>1, <2>2 DEF Reached
<1>12. ASSUME r
       PROVE  Covers(t, w)
  <2>1. \A y \in Device \X Port :
          Mapped(y, w, s.asked, s.edges) => Mapped(y, w, t.asked, t.edges)
    BY <1>3, <1>4 DEF Mapped
  <2>2. s.index = 1 => Mapped(x, w, t.asked, t.edges)
    <3>1. ASSUME s.index = 1, NEW y \in Endpoint, Heard(w, x) = {y}
          PROVE  t.edges[l + 1] = [local |-> x, row |-> Row(y)]
      <4>1. row \in RowsOf({y})
        BY <1>12, <3>1 DEF p
      <4>2. row = Row(y)
        BY <4>1, MergedFacts
      <4> QED
        BY <1>4, <4>2 DEF edge, EdgeOf
    <3> QED
      BY <1>4, <3>1 DEF Mapped
  <2>3. \A y \in Device \X Port : ~Ahead(s, y) => Mapped(y, w, s.asked, s.edges)
    BY <1>12 DEF Walks, Covers
  <2> QED
    BY <1>7, <2>1, <2>2, <2>3 DEF Covers
<1> QED
  BY <1>3, <1>6, <1>10, <1>11, <1>12 DEF Walks, t, p

----------------------------------------------------------------------------
(* Links from edges *)

With(edges, k) == {i \in DOMAIN edges : CanonicalLinkKey(edges[i]) = k}
Single(edges, i) == [at |-> i, verified |-> FALSE, a |-> edges[i], b |-> None]
Double(edges, i, j) ==
  LET up == edges[i].local[1] <= edges[j].local[1]
  IN [at |-> i, verified |-> TRUE, a |-> IF up THEN edges[i] ELSE edges[j],
      b |-> IF up THEN edges[j] ELSE edges[i]]
LinkOf(edges, k) ==
  LET first == Least(With(edges, k))
      rest == With(edges, k) \ {first}
  IN IF rest = {} THEN Single(edges, first) ELSE Double(edges, first, Least(rest))

LEMMA MergeIsLinks ==
  ASSUME NEW edges
  PROVE  MergeBidirectionalEdges(edges)
           = {LinkOf(edges, CanonicalLinkKey(edges[i])) : i \in DOMAIN edges}
  BY DEF MergeBidirectionalEdges, LinkOf, With, Single, Double

LEMMA LinkFacts ==
  ASSUME NEW edges \in Seq(Edge), NEW k, With(edges, k) # {}
  PROVE  \/ \E i \in With(edges, k) :
              With(edges, k) = {i} /\ LinkOf(edges, k) = Single(edges, i)
         \/ \E i, j \in With(edges, k) : i # j /\ LinkOf(edges, k) = Double(edges, i, j)
<1> DEFINE first == Least(With(edges, k))
           rest == With(edges, k) \ {first}
<1>1. With(edges, k) \in SUBSET Nat
  BY DEF With
<1>2. first \in With(edges, k)
  BY <1>1, LeastOf
<1>3. CASE rest = {}
  BY <1>2, <1>3 DEF LinkOf
<1>4. CASE rest # {}
  <2>1. rest \in SUBSET Nat
    BY <1>1
  <2>2. Least(rest) \in rest
    <3> HIDE DEF rest
    <3> QED
      BY <1>4, <2>1, LeastOf
  <2>3. LinkOf(edges, k) = Double(edges, first, Least(rest))
    BY <1>4 DEF LinkOf
  <2> QED
    BY <1>2, <2>2, <2>3
<1> QED
  BY <1>3, <1>4

(* A link has one side, or two that have one key.                          *)
LEMMA MergedSides ==
  ASSUME NEW edges \in Seq(Edge), NEW m \in MergeBidirectionalEdges(edges)
  PROVE  \/ \E i \in DOMAIN edges : m.verified = FALSE /\ m.a = edges[i] /\ m.b = None
         \/ \E i, j \in DOMAIN edges :
              /\ i # j /\ CanonicalLinkKey(edges[i]) = CanonicalLinkKey(edges[j])
              /\ m.verified = TRUE /\ m.a = edges[i] /\ m.b = edges[j]
              /\ m = LinkOf(edges, CanonicalLinkKey(edges[i]))
<1>1. PICK l \in DOMAIN edges : m = LinkOf(edges, CanonicalLinkKey(edges[l]))
  BY MergeIsLinks
<1> DEFINE k == CanonicalLinkKey(edges[l])
<1>2. l \in With(edges, k)
  BY DEF With
<1>3. CASE \E i \in With(edges, k) :
             With(edges, k) = {i} /\ LinkOf(edges, k) = Single(edges, i)
  BY <1>1, <1>3 DEF With, Single
<1>4. CASE \E i, j \in With(edges, k) : i # j /\ LinkOf(edges, k) = Double(edges, i, j)
  <2>1. PICK i, j \in With(edges, k) : i # j /\ m = Double(edges, i, j)
    BY <1>1, <1>4
  <2>2. /\ i \in DOMAIN edges /\ j \in DOMAIN edges
        /\ CanonicalLinkKey(edges[i]) = k /\ CanonicalLinkKey(edges[j]) = k
    BY DEF With
  <2>3. /\ m.verified = TRUE
        /\ (m.a = edges[i] /\ m.b = edges[j]) \/ (m.a = edges[j] /\ m.b = edges[i])
    BY <2>1 DEF Double
  <2>4. m = LinkOf(edges, k)
    BY <1>1
  <2> HIDE DEF k
  <2> QED
    BY <2>1, <2>2, <2>3, <2>4
<1> QED
  BY <1>2, <1>3, <1>4, LinkFacts

LEMMA RowFacts ==
  ASSUME NEW e \in Endpoint, NEW f \in Endpoint
  PROVE  /\ MergedRow(e, f).remote_port_id = e[2]
         /\ MergedRow(e, f).remote_chassis_id = SystemMac(e[1])
         /\ RemoteDeviceId(MergedRow(e, f)) \in {f, SystemMac(f[1]), SystemMac(e[1])}
         /\ Named(Row(e)) = e
<1>1. e = <<e[1], e[2]>>
  BY DEF Endpoint
<1>2. RemoteDeviceId(MergedRow(e, f)) \in {f, SystemMac(f[1]), SystemMac(e[1])}
  BY DEF RemoteDeviceId, MergedRow, EthAddr
<1>3. SystemMac(e[1])[1] = e[1]
  BY DEF SystemMac
<1>4. RemoteDeviceId(Row(e)) \in {e, SystemMac(e[1])}
  BY DEF RemoteDeviceId, Row, MergedRow, EthAddr
<1>5. Row(e).remote_port_id = e[2]
  BY DEF Row, MergedRow
<1>6. Named(Row(e)) = e
  BY <1>1, <1>3, <1>4, <1>5 DEF Named
<1> QED
  BY <1>2, <1>6 DEF MergedRow

(* Edges with one key name the same devices and port numbers.              *)
LEMMA KeyFacts ==
  ASSUME NEW f \in Edge, NEW g \in Edge, CanonicalLinkKey(f) = CanonicalLinkKey(g)
  PROVE  /\ {f.local[1], Named(f.row)[1]} = {g.local[1], Named(g.row)[1]}
         /\ {f.local[2], Named(f.row)[2]} = {g.local[2], Named(g.row)[2]}
<1> DEFINE r == RemoteDeviceId(f.row)
           s == RemoteDeviceId(g.row)
           F == SystemMac(f.local[1])
           G == SystemMac(g.local[1])
<1>1. {F, r} = {G, s} /\ {f.local[2], f.row.remote_port_id} = {g.local[2], g.row.remote_port_id}
  BY DEF CanonicalLinkKey
<1>2. /\ Named(f.row)[1] = r[1] /\ Named(f.row)[2] = f.row.remote_port_id
      /\ Named(g.row)[1] = s[1] /\ Named(g.row)[2] = g.row.remote_port_id
  BY DEF Named
<1>3. F[1] = f.local[1] /\ G[1] = g.local[1]
  BY DEF SystemMac
<1> HIDE DEF r, s, F, G
<1>4. {F[1], r[1]} = {G[1], s[1]}
  BY <1>1
<1> QED
  BY <1>1, <1>2, <1>3, <1>4

----------------------------------------------------------------------------
(* What a finished map says *)

LEMMA SidesWereHeard ==
  ASSUME NEW edges, SoundEdges(edges, heard), NEW m \in MergeBidirectionalEdges(edges)
  PROVE  /\ m.a \in Edge /\ m.b \in (IF m.verified THEN Edge ELSE {None})
         /\ Says(m.a.local, m.a.row) /\ (m.verified => Says(m.b.local, m.b.row))
<1>1. edges \in Seq(Edge) /\ \A i \in DOMAIN edges : edges[i] \in Edge
  BY DEF SoundEdges
<1>2. \A i \in DOMAIN edges : Says(edges[i].local, edges[i].row)
  BY DEF SoundEdges, SaidIn, Says
<1> QED
  BY <1>1, <1>2, MergedSides

LEMMA SaidMayName ==
  ASSUME NEW local, NEW row, SaidIn(heard, local, row)
  PROVE  /\ local \in {u[1] : u \in heard}
         /\ Named(row) \in MayName(local)
<1>1. PICK e, f \in Endpoint :
        <<local, e>> \in heard /\ <<local, f>> \in heard /\ row = MergedRow(e, f)
  BY DEF SaidIn
<1> DEFINE u == <<local, e>>
           v == <<local, f>>
<1>2. /\ u \in heard /\ u[1] = local /\ u[2] = e
      /\ v \in heard /\ v[1] = local /\ v[2] = f
  BY <1>1
<1> HIDE DEF u, v
<1>3. u \in {h \in heard : h[1] = local} /\ v \in {h \in heard : h[1] = local}
  BY <1>2
<1>4. Named(row) = Named(MergedRow(u[2], v[2]))
  BY <1>1, <1>2
<1>5. Named(row) \in MayName(local)
  BY <1>3, <1>4 DEF MayName
<1> QED
  BY <1>2, <1>5

(* The key of an edge leaves only the two ends it may be between.          *)
LEMMA KeyIsCable ==
  ASSUME NEW e \in Edge, NEW f \in Edge, SaidIn(heard, e.local, e.row),
         CanonicalLinkKey(e) = CanonicalLinkKey(f), NEW x, NEW y,
         f.local = x, Named(f.row) = y, ~Ambiguous(x, y)
  PROVE  {e.local, Named(e.row)} = {x, y}
<1>1. /\ {e.local[1], Named(e.row)[1]} = {x[1], y[1]}
      /\ {e.local[2], Named(e.row)[2]} = {x[2], y[2]}
  BY KeyFacts
<1>2. /\ e.local \in {u[1] : u \in heard}
      /\ Named(e.row) \in MayName(e.local)
  BY SaidMayName
<1> QED
  BY <1>1, <1>2 DEF Ambiguous

LEMMA VerifiedHeard ==
  ASSUME NEW edges, SoundEdges(edges, heard), NEW m \in MergeBidirectionalEdges(edges),
         m.verified, IsWhole(m.a), IsWhole(m.b), ~Ambiguous(m.a.local, Named(m.a.row))
  PROVE  <<m.a.local, m.b.local>> \in heard /\ <<m.b.local, m.a.local>> \in heard
<1>1. edges \in Seq(Edge) /\ \A i \in DOMAIN edges : edges[i] \in Edge
  BY DEF SoundEdges
<1>2. PICK i, j \in DOMAIN edges :
        /\ i # j /\ CanonicalLinkKey(edges[i]) = CanonicalLinkKey(edges[j])
        /\ m.a = edges[i] /\ m.b = edges[j]
  BY <1>1, MergedSides
<1>3. PICK x \in Endpoint : <<m.a.local, x>> \in heard /\ m.a.row = Row(x)
  BY DEF IsWhole
<1>4. PICK y \in Endpoint : <<m.b.local, y>> \in heard /\ m.b.row = Row(y)
  BY DEF IsWhole
<1>5. Named(m.a.row) = x /\ Named(m.b.row) = y
  BY <1>3, <1>4, RowFacts
<1>6. {m.b.local, y} = {m.a.local, x}
  <2> DEFINE e == m.b
             f == m.a
  <2>1. /\ e \in Edge /\ f \in Edge /\ SaidIn(heard, e.local, e.row)
        /\ CanonicalLinkKey(e) = CanonicalLinkKey(f)
        /\ Named(f.row) = x /\ Named(e.row) = y /\ ~Ambiguous(f.local, x)
    BY <1>1, <1>2, <1>5 DEF SoundEdges
  <2> HIDE DEF e, f
  <2>2. {e.local, Named(e.row)} = {f.local, x}
    BY <2>1, KeyIsCable
  <2> QED
    BY <2>1, <2>2 DEF e, f
<1>7. ~(m.b.local = m.a.local /\ y = x)
  BY <1>2, <1>3, <1>4 DEF SoundEdges
<1>8. m.b.local = x /\ y = m.a.local
  BY <1>6, <1>7
<1> QED
  BY <1>3, <1>4, <1>8

LEMMA KnownKey ==
  ASSUME NEW x \in Device \X Port, NEW y \in Device \X Port,
         KnownBySystemMac(y[1])
  PROVE  CanonicalLinkKey([local |-> x, row |-> Row(y)])
           = <<{SystemMac(x[1]), SystemMac(y[1])}, {x[2], y[2]}>>
<1>1. RemoteDeviceId(Row(y)) = SystemMac(y[1]) /\ Row(y).remote_port_id = y[2]
  BY DEF KnownBySystemMac, RemoteDeviceId, Row, MergedRow, EthAddr
<1> QED
  BY <1>1 DEF CanonicalLinkKey

OnlyLink(l, edges, x, y) ==
  \A m \in MergeBidirectionalEdges(edges) \cup {l} :
    /\ l \in MergeBidirectionalEdges(edges)
    /\ m = l <=> m.verified /\ {m.a.local, m.b.local} = {x, y}

LEMMA CableIsOneLink ==
  ASSUME NEW edges, SoundEdges(edges, heard), heard = Pairs(wires),
         NEW x \in Device \X Port, NEW y \in Device \X Port,
         x # y, Heard(wires, x) = {y}, Heard(wires, y) = {x},
         KnownBySystemMac(x[1]), KnownBySystemMac(y[1]), ~Ambiguous(x, y),
         \E i \in DOMAIN edges : edges[i] = [local |-> x, row |-> Row(y)],
         \E i \in DOMAIN edges : edges[i] = [local |-> y, row |-> Row(x)]
  PROVE  \E l : OnlyLink(l, edges, x, y)
<1> DEFINE f == [local |-> x, row |-> Row(y)]
           g == [local |-> y, row |-> Row(x)]
           k == CanonicalLinkKey(f)
<1>1. edges \in Seq(Edge) /\ \A i \in DOMAIN edges : edges[i] \in Edge
  BY DEF SoundEdges
<1>2. x \in Endpoint /\ y \in Endpoint
  BY DEF Endpoint
<1>3. f \in Edge /\ g \in Edge /\ f.local = x /\ g.local = y /\ f.row = Row(y) /\ g.row = Row(x)
  BY <1>2 DEF Edge, Rows, Row
<1>4. CanonicalLinkKey(g) = k
  <2>1. k = <<{SystemMac(x[1]), SystemMac(y[1])}, {x[2], y[2]}>>
    BY KnownKey
  <2>2. CanonicalLinkKey(g) = <<{SystemMac(y[1]), SystemMac(x[1])}, {y[2], x[2]}>>
    BY KnownKey
  <2>3. \A a, b : {a, b} = {b, a}
    OBVIOUS
  <2> HIDE DEF g, k
  <2> QED
    BY <2>1, <2>2, <2>3
<1>5. PICK i \in DOMAIN edges : edges[i] = f
  OBVIOUS
<1>6. PICK j \in DOMAIN edges : edges[j] = g
  OBVIOUS
<1> HIDE DEF f, g, k
<1>7. ASSUME NEW z, NEW u, Heard(wires, z) = {u}, NEW l \in DOMAIN edges,
             edges[l].local = z
      PROVE  edges[l].row = Row(u)
  <2>1. PICK c, d \in Endpoint : /\ <<z, c>> \in heard /\ <<z, d>> \in heard
                                 /\ edges[l].row = MergedRow(c, d)
    BY <1>7 DEF SoundEdges, SaidIn
  <2>2. c \in Heard(wires, z) /\ d \in Heard(wires, z)
    BY <2>1 DEF Pairs
  <2> QED
    BY <1>7, <2>1, <2>2 DEF Row
<1>8. ASSUME NEW l \in DOMAIN edges, edges[l].local \in {x, y}
      PROVE  l \in {i, j} /\ CanonicalLinkKey(edges[l]) = k
  <2>1. CASE edges[l].local = x
    <3>1. edges[l].row = f.row /\ edges[l].local = f.local
      BY <1>3, <1>7, <2>1
    <3>2. l = i
      BY <1>5, <3>1 DEF SoundEdges
    <3> QED
      BY <1>5, <3>2 DEF k
  <2>2. CASE edges[l].local = y
    <3>1. edges[l].row = g.row /\ edges[l].local = g.local
      BY <1>3, <1>7, <2>2
    <3>2. l = j
      BY <1>6, <3>1 DEF SoundEdges
    <3> QED
      BY <1>4, <1>6, <3>2
  <2> QED
    BY <1>8, <2>1, <2>2
<1>9. With(edges, k) = {i, j}
  <2>1. i \in With(edges, k) /\ j \in With(edges, k)
    BY <1>4, <1>5, <1>6 DEF With, k
  <2>2. ASSUME NEW l \in With(edges, k)
        PROVE  l \in {i, j}
    <3>1. l \in DOMAIN edges /\ CanonicalLinkKey(edges[l]) = CanonicalLinkKey(f)
      BY DEF With, k
    <3>2. {edges[l].local, Named(edges[l].row)} = {x, y}
      <4> DEFINE e == edges[l]
      <4>1. /\ e \in Edge /\ CanonicalLinkKey(e) = CanonicalLinkKey(f)
            /\ SaidIn(heard, e.local, e.row)
        BY <1>1, <3>1 DEF SoundEdges
      <4>2. Named(f.row) = y
        BY <1>2, <1>3, RowFacts
      <4> HIDE DEF e
      <4>3. {e.local, Named(e.row)} = {x, y}
        BY <1>3, <4>1, <4>2, KeyIsCable
      <4> QED
        BY <4>3 DEF e
    <3>3. edges[l].local \in {x, y}
      BY <3>2
    <3> QED
      BY <1>8, <3>1, <3>3
  <2> QED
    BY <2>1, <2>2
<1>10. i # j
  BY <1>3, <1>5, <1>6
<1> DEFINE link == LinkOf(edges, k)
<1>11. link \in MergeBidirectionalEdges(edges)
  BY <1>5, MergeIsLinks DEF k
<1>12. link.verified = TRUE /\ {link.a.local, link.b.local} = {x, y}
  <2>1. PICK a, b \in {i, j} : a # b /\ link = Double(edges, a, b)
    BY <1>1, <1>9, <1>10, LinkFacts
  <2>2. /\ link.verified = TRUE
        /\ (link.a = edges[a] /\ link.b = edges[b]) \/ (link.a = edges[b] /\ link.b = edges[a])
    BY <2>1 DEF Double
  <2> QED
    BY <1>3, <1>5, <1>6, <2>1, <2>2
<1>13. ASSUME NEW m \in MergeBidirectionalEdges(edges), m.verified,
              {m.a.local, m.b.local} = {x, y}
       PROVE  m = link
  <2>1. PICK l \in DOMAIN edges : m.a = edges[l] /\ m = LinkOf(edges, CanonicalLinkKey(edges[l]))
    BY <1>1, <1>13, MergedSides
  <2>2. edges[l].local \in {x, y}
    BY <1>13, <2>1
  <2> QED
    BY <1>8, <2>1, <2>2
<1> QED
  BY <1>11, <1>12, <1>13 DEF OnlyLink

LEMMA UnmatchedRemote ==
  ASSUME NEW inv, NEW m, Target(m, inv)[1] # "serial", Target(m, inv)[2][1] \in inv
  PROVE  Target(m, inv) = NodeKeyForRemote(m.a.row) /\ ~IsWhole(m.a)
<1>1. /\ Target(m, inv) = NodeKeyForRemote(m.a.row)
      /\ MatchRemoteToInventory(m.a.row, inv) = {}
  BY DEF Target, Serial
<1>2. ASSUME IsWhole(m.a)  PROVE FALSE
  <2>1. PICK e \in Endpoint : m.a.row = Row(e)
    BY <1>2 DEF IsWhole
  <2>2. NodeKeyForRemote(m.a.row)[2][1] = e[1]
    BY <2>1 DEF NodeKeyForRemote, Row, MergedRow, EthAddr, SystemMac
  <2>3. m.a.row.remote_chassis_id = SystemMac(e[1])
    BY <2>1, RowFacts DEF Row
  <2>4. e[1] \in inv
    BY <1>1, <2>2
  <2>5. e[1] \in MatchRemoteToInventory(m.a.row, inv)
    BY <2>3, <2>4 DEF MatchRemoteToInventory
  <2> QED
    BY <1>1, <2>5
<1> QED
  BY <1>1, <1>2

----------------------------------------------------------------------------
(* The steps of a map *)

LEMMA Kinds ==
  /\ \A s \in MapScan : s.task = "map" /\ s.pc # "idle" /\ s.pc # "tree"
                          /\ s # NoScan /\ s \notin SweepScan
  /\ \A s \in SweepScan : s.task = "sweep" /\ s.pc # "idle" /\ s.pc # "next"
                            /\ s # NoScan /\ s \notin MapScan
  /\ NoScan.pc = "idle" /\ NoScan \notin MapScan /\ NoScan \notin SweepScan
<1>1. \A s \in MapScan : s.task = "map" /\ s.pc # "idle" /\ s.pc # "tree"
  BY DEF MapScan
<1>2. \A s \in SweepScan : s.task = "sweep" /\ s.pc # "idle" /\ s.pc # "next"
  BY DEF SweepScan
<1>3. NoScan.pc = "idle"
  BY DEF NoScan
<1> QED
  BY <1>1, <1>2, <1>3

LEMMA ScanOf ==
  ASSUME Typed
  PROVE  /\ scan.pc \in {"next"} => scan \in MapScan
         /\ scan.pc = "tree" => scan \in SweepScan
         /\ scan.pc # "idle" /\ scan.task = "map" => scan \in MapScan
         /\ scan.pc # "idle" /\ scan.task = "sweep" => scan \in SweepScan
         /\ scan.pc # "idle" => scan \in MapScan \cup SweepScan /\ scan # NoScan
  BY Kinds DEF Typed

LEMMA Louder ==
  ASSUME NEW edges, NEW h, NEW g, SoundEdges(edges, h), h \subseteq g
  PROVE  SoundEdges(edges, g)
  BY DEF SoundEdges, SaidIn

LEMMA MapStep ==
  ASSUME IInv, scan \in MapScan, scan' \in MapScan,
         UNCHANGED <<wires, streaming, result, heard>>,
         quiet' \in BOOLEAN, quiet' => quiet,
         Walks(scan', heard, wires, quiet')
  PROVE  IInv'
<1>1. /\ wires' = wires /\ streaming' = streaming /\ result' = result /\ heard' = heard
      /\ result = NoResult
  BY Kinds DEF IInv, Typed
<1>2. Typed'
  BY <1>1 DEF IInv, Typed
<1>3. Listening'
  <2>1. Pairs(wires) \subseteq heard /\ (quiet => heard = Pairs(wires))
    BY Kinds DEF IInv, Listening
  <2> QED
    BY <1>1, <2>1 DEF Listening
<1>4. Walk'
  BY <1>1 DEF Walk
<1>5. Sweep'
  BY Kinds DEF Sweep
<1>6. Reported'
  BY <1>1 DEF Reported, NoResult
<1> QED
  BY <1>2, <1>3, <1>4, <1>5, <1>6 DEF IInv

LEMMA Listened ==
  ASSUME IInv, scan # NoScan
  PROVE  /\ Pairs(wires) \subseteq heard /\ (quiet => heard = Pairs(wires))
         /\ wires \in Wirings /\ quiet \in BOOLEAN /\ result = NoResult
         /\ scan \in MapScan => Walks(scan, heard, wires, quiet)
  BY DEF IInv, Listening, Typed, Walk

LEMMA ShiftFresh ==
  ASSUME NEW s \in MapScan, NEW t \in MapScan, NEW h, NEW w, NEW q, NEW r,
         Walks(s, h, w, q), r => q,
         t.edges = s.edges, t.asked = s.asked, Standing(t), t.index = 1,
         \A x \in Device \X Port : Ahead(t, x) => Ahead(s, x),
         r => \A x \in Device \X Port :
           Ahead(s, x) /\ ~Ahead(t, x) => Mapped(x, w, s.asked, s.edges)
  PROVE  Walks(t, h, w, r)
<1>1. ASSUME t.pc = "probe", t.ports # {}, NEW i \in DOMAIN s.edges
      PROVE  s.edges[i].local # <<t.dev, Least(t.ports)>>
  <2> DEFINE x == <<t.dev, Least(t.ports)>>
  <2>1. t.ports \in SUBSET Nat /\ t.ports \in SUBSET Port
    BY EndpointFacts DEF MapScan
  <2>2. x \in Device \X Port /\ x[1] = t.dev /\ x[2] = Least(t.ports) /\ x[2] \in t.ports
    BY <1>1, <2>1, LeastOf DEF Standing
  <2> HIDE DEF x
  <2>3. Ahead(t, x)
    BY <1>1, <2>2 DEF Ahead
  <2>4. Ahead(s, x)
    BY <2>2, <2>3
  <2> QED
    BY <2>4 DEF Walks, Reached, x
<1> QED
  BY <1>1, Shift

LEMMA NextDeviceKeeps ==
  ASSUME IInv, NextDevice
  PROVE  IInv'
<1> DEFINE s == scan
           t == [scan EXCEPT !.pc = "ports", !.dev = Least(scan.todo), !.todo = Rest(scan.todo)]
<1>1. s \in MapScan /\ s.pc = "next" /\ s.todo # {} /\ scan' = t
  BY ScanOf DEF IInv, NextDevice
<1>2. Walks(s, heard, wires, quiet) /\ quiet \in BOOLEAN
  BY <1>1, Kinds, Listened
<1>3. s.todo \in SUBSET Device /\ s.todo \in SUBSET Nat
  BY <1>1, EndpointFacts DEF MapScan
<1>4. /\ Least(s.todo) \in s.todo /\ Rest(s.todo) \subseteq s.todo
      /\ \A x \in s.todo : x \in Rest(s.todo) <=> x # Least(s.todo)
  BY <1>1, <1>3, RestOf
<1>5. t \in MapScan
  BY <1>1, <1>3, <1>4 DEF MapScan
<1>6. /\ t.pc = "ports" /\ t.dev = Least(s.todo) /\ t.todo = Rest(s.todo)
      /\ t.edges = s.edges /\ t.asked = s.asked /\ t.index = s.index /\ t.seen = s.seen
  BY <1>1 DEF MapScan
<1> HIDE DEF s, t
<1>7. s.index = 1 /\ s.seen = {}
  BY <1>1, <1>2 DEF Walks, Standing
<1>8. Standing(t)
  BY <1>2, <1>3, <1>4, <1>6, <1>7 DEF Walks, Standing
<1>9. \A x \in Device \X Port : Ahead(t, x) <=> Ahead(s, x)
  BY <1>1, <1>4, <1>6 DEF Ahead
<1>10. Walks(t, heard, wires, quiet)
  BY <1>1, <1>2, <1>5, <1>6, <1>7, <1>8, <1>9, ShiftFresh
<1>11. quiet' = quiet /\ UNCHANGED <<wires, streaming, result, heard>>
  BY DEF NextDevice, Sound
<1> QED
  BY <1>1, <1>2, <1>5, <1>10, <1>11, MapStep DEF s

LEMMA DeviceFailsKeeps ==
  ASSUME IInv, DeviceFails
  PROVE  IInv'
<1> DEFINE s == scan
           t == [scan EXCEPT !.todo = Rest(scan.todo)]
<1>1. s \in MapScan /\ s.pc = "next" /\ s.todo # {} /\ scan' = t
  BY ScanOf DEF IInv, DeviceFails
<1>2. Walks(s, heard, wires, quiet) /\ quiet \in BOOLEAN
  BY <1>1, Kinds, Listened
<1>3. s.todo \in SUBSET Device /\ s.todo \in SUBSET Nat
  BY <1>1, EndpointFacts DEF MapScan
<1>4. Rest(s.todo) \subseteq s.todo
  BY <1>1, <1>3, RestOf
<1>5. t \in MapScan
  BY <1>1, <1>3, <1>4 DEF MapScan
<1>6. /\ t.pc = "next" /\ t.todo = Rest(s.todo)
      /\ t.edges = s.edges /\ t.asked = s.asked /\ t.index = s.index /\ t.seen = s.seen
  BY <1>1 DEF MapScan
<1> HIDE DEF s, t
<1>7. s.index = 1 /\ s.seen = {}
  BY <1>1, <1>2 DEF Walks, Standing
<1>8. Standing(t)
  BY <1>2, <1>3, <1>4, <1>6, <1>7 DEF Walks, Standing
<1>9. \A x \in Device \X Port : Ahead(t, x) => Ahead(s, x)
  BY <1>1, <1>4, <1>6 DEF Ahead
<1>10. Walks(t, heard, wires, FALSE)
  BY <1>1, <1>2, <1>5, <1>6, <1>7, <1>8, <1>9, ShiftFresh
<1>11. quiet' = FALSE /\ UNCHANGED <<wires, streaming, result, heard>>
  BY DEF DeviceFails, Faulty
<1> QED
  BY <1>1, <1>2, <1>5, <1>10, <1>11, MapStep DEF s

LEMMA DeviceDoneKeeps ==
  ASSUME IInv, DeviceDone
  PROVE  IInv'
<1> DEFINE s == scan
           t == [scan EXCEPT !.pc = "next"]
<1>1. s \in MapScan /\ s.pc = "probe" /\ s.ports = {} /\ scan' = t
  BY ScanOf DEF IInv, DeviceDone
<1>2. Walks(s, heard, wires, quiet) /\ quiet \in BOOLEAN
  BY <1>1, Kinds, Listened
<1>3. t \in MapScan
  BY <1>1 DEF MapScan
<1>4. /\ t.pc = "next" /\ t.todo = s.todo
      /\ t.edges = s.edges /\ t.asked = s.asked /\ t.index = s.index /\ t.seen = s.seen
  BY <1>1 DEF MapScan
<1> HIDE DEF s, t
<1>5. s.index = 1 /\ s.seen = {}
  BY <1>1, <1>2 DEF Walks, Standing
<1>6. Standing(t)
  BY <1>2, <1>4, <1>5 DEF Walks, Standing
<1>7. \A x \in Device \X Port : Ahead(t, x) <=> Ahead(s, x)
  BY <1>1, <1>4 DEF Ahead
<1>8. Walks(t, heard, wires, quiet)
  BY <1>1, <1>2, <1>3, <1>4, <1>5, <1>6, <1>7, ShiftFresh
<1>9. quiet' = quiet /\ UNCHANGED <<wires, streaming, result, heard>>
  BY DEF DeviceDone, Sound
<1> QED
  BY <1>1, <1>2, <1>3, <1>8, <1>9, MapStep DEF s

(* The ports probed are ports, and in a map all that are up and within the *)
(* cap are among them.                                                     *)
LEMMA PortsOfMap ==
  ASSUME scan \in MapScan, NEW d \in Device, NEW up \in SUBSET Port
  PROVE  /\ PortsToProbe(d, up) \in SUBSET Port
         /\ \A p \in up : p <= Cap(d) => p \in PortsToProbe(d, up)
<1> DEFINE capped == {p \in up : p <= Cap(d)}
<1>1. scan.task = "map"
  BY Kinds
<1>2. EthernetRange(d) \in SUBSET Port /\ \A p \in up : p <= Cap(d) => p \in EthernetRange(d)
  <2>1. 1..Cap(d) \in SUBSET Port /\ Cap(d) \in Nat
    BY ScanAssumption
  <2>2. \A p \in up : p \in Nat /\ p # 0
    BY LldpAssumption
  <2>3. \A p \in up : p <= Cap(d) => p \in 1..Cap(d)
    BY <2>1, <2>2
  <2> QED
    BY <2>1, <2>3 DEF EthernetRange
<1>3. \/ PortsToProbe(d, up) = EthernetRange(d)
      \/ PortsToProbe(d, up) = capped
      \/ PortsToProbe(d, up) = {} /\ capped = {}
  BY <1>1 DEF PortsToProbe
<1>4. capped \in SUBSET Port /\ \A p \in up : p <= Cap(d) => p \in capped
  OBVIOUS
<1> HIDE DEF capped
<1>5. PortsToProbe(d, up) \in SUBSET Port
  BY <1>2, <1>3, <1>4
<1>6. ASSUME NEW p \in up, p <= Cap(d)
      PROVE  p \in PortsToProbe(d, up)
  BY <1>2, <1>3, <1>4, <1>6
<1> QED
  BY <1>5, <1>6

LEMMA PortsOfSweep ==
  ASSUME scan \in SweepScan, NEW d \in Device, NEW up \in SUBSET Port
  PROVE  /\ PortsToProbe(d, up) \in SUBSET Port
         /\ Cardinality(PortsToProbe(d, up)) \in Nat
         /\ \A p \in up : Cardinality({q \in up : q <= p}) <= Cap(d) =>
              p \in PortsToProbe(d, up)
<1> DEFINE firsts == {p \in up : Cardinality({q \in up : q <= p}) <= Cap(d)}
<1>1. scan.task # "map"
  BY Kinds
<1>2. EthernetRange(d) \in SUBSET Port
  BY ScanAssumption DEF EthernetRange
<1>3. PortsToProbe(d, up) = IF firsts # {} THEN firsts ELSE EthernetRange(d)
  BY <1>1 DEF PortsToProbe
<1>4. firsts \in SUBSET Port
  OBVIOUS
<1>5. \A p \in up : Cardinality({q \in up : q <= p}) <= Cap(d) => p \in firsts
  OBVIOUS
<1> HIDE DEF firsts
<1>6. PortsToProbe(d, up) \in SUBSET Port
  BY <1>2, <1>3, <1>4
<1>7. Cardinality(PortsToProbe(d, up)) \in Nat
  BY <1>6, LldpAssumption, FS_Subset, FS_CardinalityType
<1> QED
  BY <1>3, <1>5, <1>6, <1>7

LEMMA UpIsPorts ==
  /\ \A d : UpPorts(d) \in SUBSET Port
  /\ \A d, y : \A p \in Port : Heard(wires, <<d, p>>) = {y} => p \in UpPorts(d)
  BY DEF UpPorts

LEMMA ListPortsOfMapKeeps ==
  ASSUME IInv, ListPorts, scan \in MapScan
  PROVE  IInv'
<1> DEFINE s == scan
<1>1. s.pc = "ports" /\ s.task = "map"
  BY Kinds DEF ListPorts
<1>2. PICK up \in {UpPorts(s.dev), {}} :
        /\ IF up = UpPorts(s.dev) THEN Sound ELSE Faulty
        /\ scan' = [s EXCEPT !.pc = "probe", !.ports = PortsToProbe(s.dev, up)]
  BY <1>1 DEF ListPorts
<1> DEFINE ports == PortsToProbe(s.dev, up)
           t == [s EXCEPT !.pc = "probe", !.ports = ports]
<1>3. Walks(s, heard, wires, quiet) /\ quiet \in BOOLEAN
  BY Kinds, Listened
<1>4. s.dev \in Device /\ up \in SUBSET Port
  BY <1>1, <1>3, UpIsPorts DEF Walks, Standing
<1>5. ports \in SUBSET Port
  BY <1>4, PortsOfMap
<1>6. quiet' \in BOOLEAN /\ (quiet' => quiet /\ up = UpPorts(s.dev))
  BY <1>2, <1>3 DEF Sound, Faulty
<1>7. UNCHANGED <<wires, streaming, result, heard>> /\ scan' = t
  BY <1>2 DEF ListPorts
<1> HIDE DEF ports
<1>8. t \in MapScan
  BY <1>5 DEF MapScan
<1>9. /\ t.pc = "probe" /\ t.todo = s.todo /\ t.dev = s.dev /\ t.ports = ports
      /\ t.edges = s.edges /\ t.asked = s.asked /\ t.index = s.index /\ t.seen = s.seen
  BY DEF MapScan
<1> HIDE DEF s, t
<1>10. s.index = 1 /\ s.seen = {}
  BY <1>1, <1>3 DEF Walks, Standing
<1>11. Standing(t)
  BY <1>1, <1>3, <1>9, <1>10 DEF Walks, Standing
<1>12. \A x \in Device \X Port : Ahead(t, x) => Ahead(s, x)
  BY <1>1, <1>9 DEF Ahead
<1>13. ASSUME quiet', NEW x \in Device \X Port, Ahead(s, x), ~Ahead(t, x)
       PROVE  Mapped(x, wires, s.asked, s.edges)
  <2>1. x[1] = s.dev /\ x[2] \in Port /\ x[2] \notin ports
    BY <1>1, <1>9, <1>10, <1>13 DEF Ahead
  <2>2. x = <<s.dev, x[2]>>
    BY <2>1
  <2>3. ASSUME NEW y, x[2] <= Cap(x[1]), Heard(wires, x) = {y}
        PROVE  FALSE
    <3>1. x[2] \in up
      <4>1. up = UpPorts(s.dev)
        BY <1>6, <1>13
      <4>2. Heard(wires, <<s.dev, x[2]>>) = {y} /\ x[2] \in Port
        BY <2>1, <2>2, <2>3
      <4> QED
        BY <4>1, <4>2, UpIsPorts
    <3>2. \A p \in up : p <= Cap(s.dev) => p \in ports
      BY <1>4, PortsOfMap DEF ports, s
    <3> QED
      BY <2>1, <2>3, <3>1, <3>2
  <2> QED
    BY <2>3 DEF Mapped
<1>14. Walks(t, heard, wires, quiet')
  BY <1>3, <1>6, <1>8, <1>9, <1>10, <1>11, <1>12, <1>13, ShiftFresh DEF s
<1> QED
  BY <1>6, <1>7, <1>8, <1>14, MapStep

(* What a probe answers.                                                   *)
LEMMA ProbedFacts ==
  ASSUME scan.dev \in Device, NEW p \in Port, NEW k, NEW answer \in Probed(p, k)
  PROVE  /\ \/ answer.items = {}
            \/ \E row \in RowsOf(Heard(wires, <<scan.dev, p>>)) :
                 answer.items = {[port |-> p, row |-> row]}
         /\ answer.sound \in BOOLEAN
         /\ answer.sound /\ Heard(wires, <<scan.dev, p>>) # {} => answer.items # {}
<1> DEFINE of(from) == {[sound |-> from = 1, items |-> Items(snap, p)] :
                          snap \in FetchSnapshot(wires, scan.dev, PortPaths(p, k), from)}
<1>1. PICK from \in 1..(Len(PortPaths(p, k)) + 1) : answer \in of(from)
  BY DEF Probed
<1>2. PICK snap \in FetchSnapshot(wires, scan.dev, PortPaths(p, k), from) :
        answer = [sound |-> from = 1, items |-> Items(snap, p)]
  BY <1>1
<1>3. answer.items = Items(snap, p) /\ (answer.sound \in BOOLEAN) /\ (answer.sound => from = 1)
  BY <1>2
<1> HIDE DEF of
<1>4. /\ OneRow(Items(snap, p), wires, scan.dev, p)
      /\ from = 1 /\ Heard(wires, <<scan.dev, p>>) # {} => Items(snap, p) # {}
  BY <1>1, <1>2, ProbeAnswers
<1> QED
  BY <1>3, <1>4 DEF OneRow

LEMMA CountedFacts ==
  ASSUME NEW answer, Counted(answer), answer.sound \in BOOLEAN, quiet \in BOOLEAN
  PROVE  quiet' \in BOOLEAN /\ (quiet' => quiet /\ answer.sound)
  BY DEF Counted, Sound, Faulty

(* The walk goes to the next port when there is nothing more to hear.      *)
LEMMA NextPortWalks ==
  ASSUME NEW s \in MapScan, NEW h, NEW w, NEW q, NEW r,
         Walks(s, h, w, q), r => q, s.pc = "probe", s.ports # {},
         r /\ s.index = 1 => Heard(w, <<s.dev, Least(s.ports)>>) = {}
  PROVE  NextPort(s) \in MapScan /\ Walks(NextPort(s), h, w, r)
<1> DEFINE p == Least(s.ports)
           t == NextPort(s)
<1>1. s.ports \in SUBSET Port /\ s.ports \in SUBSET Nat
  BY EndpointFacts DEF MapScan
<1>2. /\ p \in s.ports /\ Rest(s.ports) \subseteq s.ports
      /\ \A y \in s.ports : y \in Rest(s.ports) <=> y # p
  BY <1>1, RestOf
<1>3. t \in MapScan
  <2>1. Rest(s.ports) \in SUBSET Port /\ 1 \in 1..ExtraLimit
    BY <1>1, <1>2, EndpointFacts
  <2>2. {} \in SUBSET Signatures
    OBVIOUS
  <2> QED
    BY <2>1, <2>2 DEF NextPort, MapScan
<1>4. /\ t.pc = "probe" /\ t.todo = s.todo /\ t.dev = s.dev /\ t.ports = Rest(s.ports)
      /\ t.edges = s.edges /\ t.asked = s.asked /\ t.index = 1 /\ t.seen = {}
  BY DEF NextPort, MapScan
<1> HIDE DEF t, p
<1>5. Standing(t)
  BY <1>4 DEF Walks, Standing
<1>6. \A x \in Device \X Port : Ahead(t, x) => Ahead(s, x)
  BY <1>2, <1>4 DEF Ahead, p
<1>7. ASSUME r, NEW x \in Device \X Port, Ahead(s, x), ~Ahead(t, x)
      PROVE  Mapped(x, w, s.asked, s.edges)
  <2>1. x[1] = s.dev /\ x[2] = p /\ s.index = 1
    BY <1>2, <1>4, <1>7 DEF Ahead, p
  <2>2. x = <<s.dev, p>>
    BY <2>1
  <2>3. Heard(w, x) = {}
    BY <1>7, <2>1, <2>2 DEF p
  <2> QED
    BY <2>3 DEF Mapped
<1>8. Walks(t, h, w, r)
  BY <1>3, <1>4, <1>5, <1>6, <1>7, ShiftFresh
<1> QED
  BY <1>3, <1>8 DEF t

LEMMA NextIndexWalks ==
  ASSUME NEW s \in MapScan, NEW h, NEW w, NEW q,
         Walks(s, h, w, q), s.pc = "probe", s.ports # {},
         s.index > 1, s.index < ExtraLimit
  PROVE  LET t == [s EXCEPT !.index = @ + 1]
         IN t \in MapScan /\ Walks(t, h, w, q)
<1> DEFINE t == [s EXCEPT !.index = @ + 1]
<1>1. s.index \in 1..ExtraLimit
  BY DEF MapScan
<1>2. s.index + 1 \in 1..ExtraLimit /\ s.index # 1 /\ s.index + 1 # 1
  BY <1>1, EndpointFacts
<1>3. t \in MapScan
  BY <1>2 DEF MapScan
<1>4. /\ t.pc = s.pc /\ t.todo = s.todo /\ t.dev = s.dev /\ t.ports = s.ports
      /\ t.edges = s.edges /\ t.asked = s.asked /\ t.index = s.index + 1 /\ t.seen = s.seen
  BY DEF MapScan
<1> HIDE DEF t
<1>5. Standing(t)
  BY <1>2, <1>4 DEF Walks, Standing
<1>6. \A x \in Device \X Port : Ahead(t, x) <=> Ahead(s, x)
  BY <1>2, <1>4 DEF Ahead
<1>7. \A i \in DOMAIN s.edges :
        s.edges[i].local = <<t.dev, Least(t.ports)>> => Signature(s.edges[i].row) \in t.seen
  BY <1>4 DEF Walks, Reached
<1>8. Walks(t, h, w, q)
  BY <1>3, <1>4, <1>5, <1>6, <1>7, Shift
<1> QED
  BY <1>3, <1>8 DEF t

LEMMA ProbePortKeeps ==
  ASSUME IInv, ProbePort
  PROVE  IInv'
<1> DEFINE s == scan
           p == Least(s.ports)
<1>1. /\ s \in MapScan /\ s.pc = "probe" /\ s.ports # {} /\ s.index = 1
      /\ UNCHANGED <<wires, streaming, result, heard>>
  BY ScanOf DEF IInv, ProbePort
<1>2. PICK answer \in Probed(p, None) :
        /\ Counted(answer)
        /\ scan' = IF answer.items = {} THEN NextPort(s)
                   ELSE [AppendRows(s, p, answer.items) EXCEPT !.index = 2]
  BY DEF ProbePort
<1>3. /\ Walks(s, heard, wires, quiet) /\ quiet \in BOOLEAN
      /\ wires \in Wirings /\ Pairs(wires) \subseteq heard
  BY <1>1, Kinds, Listened
<1>4. s.seen = {} /\ s.dev \in Device
  BY <1>1, <1>3 DEF Walks, Standing
<1>5. p \in s.ports /\ p \in Port
  BY <1>1, EndpointFacts, LeastOf DEF MapScan
<1>6. /\ \/ answer.items = {}
         \/ \E row \in RowsOf(Heard(wires, <<s.dev, p>>)) :
              answer.items = {[port |-> p, row |-> row]}
      /\ answer.sound \in BOOLEAN
      /\ answer.sound /\ Heard(wires, <<s.dev, p>>) # {} => answer.items # {}
  BY <1>4, <1>5, ProbedFacts
<1>7. quiet' \in BOOLEAN /\ (quiet' => quiet /\ answer.sound)
  BY <1>2, <1>3, <1>6, CountedFacts
<1>8. CASE answer.items = {}
  <2>1. quiet' => Heard(wires, <<s.dev, p>>) = {}
    BY <1>6, <1>7, <1>8
  <2>2. NextPort(s) \in MapScan /\ Walks(NextPort(s), heard, wires, quiet')
    <3> HIDE DEF s
    <3> QED
      BY <1>1, <1>3, <1>7, <2>1, NextPortWalks
  <2> QED
    BY <1>1, <1>2, <1>7, <1>8, <2>2, MapStep
<1>9. CASE answer.items # {}
  <2>1. PICK row \in RowsOf(Heard(wires, <<s.dev, p>>)) :
          answer.items = {[port |-> p, row |-> row]}
    BY <1>6, <1>9
  <2>2. row \in Rows /\ SaidIn(heard, <<s.dev, p>>, row)
    BY <1>3, <1>4, <1>5, RowsWereSaid
  <2> DEFINE t == [WithEdge(s, p, row) EXCEPT !.index = 2]
  <2>3. AppendRows(s, p, answer.items) = WithEdge(s, p, row)
    BY <1>1, <1>4, <2>1, OneAdded
  <2>4. t \in MapScan /\ Walks(t, heard, wires, quiet')
    <3>1. 2 \in 2..ExtraLimit
      BY EndpointFacts
    <3>2. Signature(row) \notin s.seen
      BY <1>4
    <3> HIDE DEF s
    <3> QED
      BY <1>1, <1>3, <1>7, <2>2, <3>1, <3>2, EdgeAdded
  <2>5. scan' = t
    BY <1>2, <1>9, <2>3
  <2> QED
    BY <1>1, <1>7, <2>4, <2>5, MapStep
<1> QED
  BY <1>8, <1>9

LEMMA ProbeIndexKeeps ==
  ASSUME IInv, ProbeIndex
  PROVE  IInv'
<1> DEFINE s == scan
           p == Least(s.ports)
<1>1. /\ s \in MapScan /\ s.pc = "probe" /\ s.ports # {} /\ s.index > 1
      /\ UNCHANGED <<wires, streaming, result, heard>>
  BY ScanOf DEF IInv, ProbeIndex
<1>2. PICK answer \in Probed(p, s.index) :
        /\ Counted(answer)
        /\ scan' = IF s.index >= ExtraLimit THEN NextPort(AppendRows(s, p, answer.items))
                   ELSE [AppendRows(s, p, answer.items) EXCEPT !.index = @ + 1]
  BY DEF ProbeIndex
<1>3. /\ Walks(s, heard, wires, quiet) /\ quiet \in BOOLEAN
      /\ wires \in Wirings /\ Pairs(wires) \subseteq heard
  BY <1>1, Kinds, Listened
<1>4. s.dev \in Device /\ s.index \in 2..ExtraLimit
  BY <1>1, <1>3, EndpointFacts DEF Walks, Standing, MapScan
<1>5. p \in s.ports /\ p \in Port
  BY <1>1, EndpointFacts, LeastOf DEF MapScan
<1>6. /\ \/ answer.items = {}
         \/ \E row \in RowsOf(Heard(wires, <<s.dev, p>>)) :
              answer.items = {[port |-> p, row |-> row]}
      /\ answer.sound \in BOOLEAN
  BY <1>4, <1>5, ProbedFacts
<1>7. quiet' \in BOOLEAN /\ (quiet' => quiet)
  BY <1>2, <1>3, <1>6, CountedFacts
<1> DEFINE u == AppendRows(s, p, answer.items)
<1>8. /\ u \in MapScan /\ Walks(u, heard, wires, quiet')
      /\ u.pc = s.pc /\ u.ports = s.ports /\ u.index = s.index
  <2>1. CASE \A i \in answer.items : Signature(i.row) \in s.seen
    <3>1. u = s
      BY <1>1, <2>1, NothingAdded
    <3>2. Walks(s, heard, wires, quiet')
      BY <1>3, <1>7 DEF Walks
    <3> QED
      BY <1>1, <3>1, <3>2
  <2>2. CASE ~(\A i \in answer.items : Signature(i.row) \in s.seen)
    <3>1. PICK row \in RowsOf(Heard(wires, <<s.dev, p>>)) :
            answer.items = {[port |-> p, row |-> row]}
      BY <1>6, <2>2
    <3>2. Signature(row) \notin s.seen
      BY <2>2, <3>1
    <3>3. row \in Rows /\ SaidIn(heard, <<s.dev, p>>, row)
      BY <1>3, <1>4, <1>5, RowsWereSaid
    <3> DEFINE v == WithEdge(s, p, row)
               t == [v EXCEPT !.index = s.index]
    <3>4. u = v
      BY <1>1, <3>1, <3>2, OneAdded
    <3>5. t \in MapScan /\ Walks(t, heard, wires, quiet')
      <4> HIDE DEF s
      <4> QED
        BY <1>1, <1>3, <1>4, <1>7, <3>2, <3>3, EdgeAdded
    <3>6. /\ v.pc = s.pc /\ v.ports = s.ports /\ v.index = s.index
          /\ t = v
      <4> HIDE DEF s
      <4>1. /\ v.pc = s.pc /\ v.ports = s.ports /\ v.index = s.index
        BY <1>1 DEF WithEdge, MapScan
      <4>2. [s EXCEPT !.edges = Append(@, EdgeOf(s, p, row)),
                      !.seen = @ \cup {Signature(row)}, !.index = s.index] = v
        BY <1>1 DEF WithEdge, MapScan
      <4> QED
        BY <1>1, <4>1 DEF WithEdge, MapScan
    <3> QED
      BY <3>4, <3>5, <3>6
  <2> QED
    BY <2>1, <2>2
<1> HIDE DEF u, s
<1>9. CASE s.index >= ExtraLimit
  <2>1. scan' = NextPort(u)
    BY <1>2, <1>9 DEF u
  <2>2. NextPort(u) \in MapScan /\ Walks(NextPort(u), heard, wires, quiet')
    <3>1. u.pc = "probe" /\ u.ports # {} /\ u.index # 1
      BY <1>1, <1>8
    <3>2. (quiet' => quiet') /\ (quiet' /\ u.index = 1 =>
                                 Heard(wires, <<u.dev, Least(u.ports)>>) = {})
      BY <3>1
    <3> QED
      BY <1>8, <3>1, <3>2, NextPortWalks
  <2> QED
    BY <1>1, <1>7, <2>1, <2>2, MapStep DEF s
<1>10. CASE ~(s.index >= ExtraLimit)
  <2> DEFINE t == [u EXCEPT !.index = @ + 1]
  <2>1. scan' = t
    BY <1>2, <1>10 DEF u
  <2>2. u.index < ExtraLimit /\ u.index > 1 /\ u.pc = "probe" /\ u.ports # {}
    BY <1>1, <1>4, <1>8, <1>10, EndpointFacts
  <2>3. t \in MapScan /\ Walks(t, heard, wires, quiet')
    BY <1>8, <2>2, NextIndexWalks
  <2> QED
    BY <1>1, <1>7, <2>1, <2>3, MapStep DEF s
<1> QED
  BY <1>9, <1>10

----------------------------------------------------------------------------
(* The steps of a sweep *)

LEMMA SweepStep ==
  ASSUME IInv, scan \in SweepScan, scan' \in SweepScan,
         UNCHANGED <<wires, streaming, result, heard>>,
         quiet' \in BOOLEAN, quiet' => quiet,
         HeardRows(scan'.dev, scan'.rows, heard),
         quiet' /\ scan'.pc = "probe" => Swept(wires, scan'.dev, scan'.ports, scan'.rows)
  PROVE  IInv'
<1>1. /\ wires' = wires /\ streaming' = streaming /\ result' = result /\ heard' = heard
      /\ result = NoResult
  BY Kinds DEF IInv, Typed
<1>2. Typed'
  BY <1>1 DEF IInv, Typed
<1>3. Listening'
  <2>1. Pairs(wires) \subseteq heard /\ (quiet => heard = Pairs(wires))
    BY Kinds DEF IInv, Listening
  <2> QED
    BY <1>1, <2>1 DEF Listening
<1>4. Walk'
  BY Kinds DEF Walk
<1>5. Sweep'
  BY <1>1 DEF Sweep
<1>6. Reported'
  BY <1>1 DEF Reported, NoResult
<1> QED
  BY <1>2, <1>3, <1>4, <1>5, <1>6 DEF IInv

LEMMA FinishStep ==
  ASSUME IInv, scan # NoScan, scan' = NoScan,
         UNCHANGED <<wires, streaming, heard>>,
         quiet' \in BOOLEAN, quiet' => quiet, Reported'
  PROVE  IInv'
<1>1. /\ wires' = wires /\ streaming' = streaming /\ heard' = heard
      /\ Pairs(wires) \subseteq heard /\ (quiet => heard = Pairs(wires))
  BY Listened
<1>2. Typed'
  BY <1>1 DEF IInv, Typed
<1>3. Listening'
  BY <1>1 DEF Listening
<1>4. Walk' /\ Sweep'
  BY Kinds DEF Walk, Sweep
<1> QED
  BY <1>2, <1>3, <1>4 DEF IInv

LEMMA UpFacts ==
  /\ \A d : UpPorts(d) = Up(wires, d)
  /\ \A w, d : Up(w, d) \in SUBSET Port
  BY DEF UpPorts, Up

LEMMA ListPortsOfSweepKeeps ==
  ASSUME IInv, ListPorts, scan \in SweepScan
  PROVE  IInv'
<1> DEFINE s == scan
<1>1. s.pc = "ports" /\ s.task # "map"
  BY Kinds DEF ListPorts
<1>2. PICK up \in {UpPorts(s.dev), {}} :
        /\ IF up = UpPorts(s.dev) THEN Sound ELSE Faulty
        /\ scan' = [s EXCEPT !.pc = "probe", !.ports = PortsToProbe(s.dev, up),
                             !.probed = Cardinality(PortsToProbe(s.dev, up))]
  BY <1>1 DEF ListPorts
<1> DEFINE ports == PortsToProbe(s.dev, up)
           t == [s EXCEPT !.pc = "probe", !.ports = ports, !.probed = Cardinality(ports)]
<1>3. quiet \in BOOLEAN /\ HeardRows(s.dev, s.rows, heard)
  BY Kinds, Listened DEF IInv, Sweep
<1>4. s.dev \in Device /\ up \in SUBSET Port
  BY <1>1, UpIsPorts DEF SweepScan
<1>5. ports \in SUBSET Port /\ Cardinality(ports) \in Nat
  BY <1>4, PortsOfSweep
<1>6. quiet' \in BOOLEAN /\ (quiet' => quiet /\ up = UpPorts(s.dev))
  BY <1>2, <1>3 DEF Sound, Faulty
<1>7. UNCHANGED <<wires, streaming, result, heard>> /\ scan' = t
  BY <1>2 DEF ListPorts
<1>8. quiet' => Swept(wires, s.dev, ports, s.rows)
  <2>1. \A p \in up : Cardinality({q \in up : q <= p}) <= Cap(s.dev) => p \in ports
    BY <1>4, PortsOfSweep
  <2>2. quiet' => up = Up(wires, s.dev)
    BY <1>6, UpFacts
  <2> HIDE DEF ports, s
  <2> QED
    BY <2>1, <2>2 DEF Swept
<1> HIDE DEF ports
<1>9. t \in SweepScan
  BY <1>5 DEF SweepScan
<1>10. t.dev = s.dev /\ t.ports = ports /\ t.rows = s.rows
  BY DEF SweepScan
<1> HIDE DEF t
<1>11. /\ scan' \in SweepScan /\ HeardRows(scan'.dev, scan'.rows, heard)
       /\ quiet' => Swept(wires, scan'.dev, scan'.ports, scan'.rows)
  BY <1>3, <1>7, <1>8, <1>9, <1>10
<1> QED
  BY <1>6, <1>7, <1>11, SweepStep

LEMMA FullTreeKeeps ==
  ASSUME IInv, FullTree
  PROVE  IInv'
<1> DEFINE s == scan
           d == s.dev
<1>1. s.pc = "tree" /\ s \in SweepScan /\ UNCHANGED <<wires, streaming, heard>>
  BY ScanOf DEF IInv, FullTree
<1>2. PICK from \in 1..(Len(FullTreePaths) + 1) :
        /\ IF from = 1 THEN Sound ELSE Faulty
        /\ \E snap \in FetchSnapshot(wires, d, FullTreePaths, from) :
             LET items == Items(snap, None)
             IN IF SeveralPorts(items)
                THEN Finished([task |-> "sweep", dev |-> d, rows |-> items,
                               coverage |-> "full"])
                ELSE scan' = [s EXCEPT !.pc = "ports"] /\ UNCHANGED result
  BY DEF FullTree
<1>3. PICK snap \in FetchSnapshot(wires, d, FullTreePaths, from) :
        IF SeveralPorts(Items(snap, None))
        THEN Finished([task |-> "sweep", dev |-> d, rows |-> Items(snap, None),
                       coverage |-> "full"])
        ELSE scan' = [s EXCEPT !.pc = "ports"] /\ UNCHANGED result
  BY <1>2
<1> DEFINE items == Items(snap, None)
<1>4. /\ quiet \in BOOLEAN /\ HeardRows(d, s.rows, heard) /\ wires \in Wirings
      /\ Pairs(wires) \subseteq heard /\ d \in Device /\ s # NoScan
  BY <1>1, Kinds, Listened DEF IInv, Sweep, SweepScan
<1>5. quiet' \in BOOLEAN /\ (quiet' => quiet)
  BY <1>2, <1>4 DEF Sound, Faulty
<1>6. CASE SeveralPorts(items)
  <2>1. /\ \A r \in items : \E p \in Port : \E e \in Heard(wires, <<d, p>>) :
             r = [port |-> p, row |-> Row(e)]
        /\ \A p \in Port : \A e \in Heard(wires, <<d, p>>) :
             [port |-> p, row |-> Row(e)] \in items
    <3> DEFINE w == wires
    <3>1. d \in Device /\ snap \in FetchSnapshot(w, d, FullTreePaths, from)
      BY <1>3, <1>4
    <3> HIDE DEF w, d
    <3>2. /\ \A r \in Items(snap, None) : \E p \in Port : \E e \in Heard(w, <<d, p>>) :
               r = [port |-> p, row |-> Row(e)]
          /\ \A p \in Port : \A e \in Heard(w, <<d, p>>) :
               [port |-> p, row |-> Row(e)] \in Items(snap, None)
      BY <1>2, <1>6, <3>1, TreeRows
    <3> QED
      BY <3>2 DEF w, d
  <2> HIDE DEF items, d
  <2>2. HeardRows(d, items, heard)
    <3>1. ASSUME NEW r \in items
          PROVE  r \in PortRow /\ SaidIn(heard, <<d, r.port>>, r.row)
      <4>1. PICK p \in Port : \E e \in Heard(wires, <<d, p>>) :
              r = [port |-> p, row |-> Row(e)]
        BY <2>1
      <4>2. PICK e \in Heard(wires, <<d, p>>) : r = [port |-> p, row |-> Row(e)]
        BY <4>1
      <4>3. e \in Endpoint /\ <<<<d, p>>, e>> \in heard
        BY <1>4, HeardPairs
      <4>4. r.port = p /\ r.row = MergedRow(e, e) /\ r.row \in Rows
        BY <4>2, <4>3 DEF Rows, Row
      <4> QED
        BY <4>2, <4>3, <4>4 DEF SaidIn, PortRow
    <3> QED
      BY <3>1 DEF HeardRows
  <2>3. Swept(wires, d, {}, items)
    <3>1. ASSUME NEW p \in Up(wires, d)
          PROVE  \E r \in items : r.port = p
      <4>1. PICK e \in Heard(wires, <<d, p>>) : p \in Port
        BY DEF Up
      <4>2. [port |-> p, row |-> Row(e)] \in items
        BY <2>1, <4>1
      <4> QED
        BY <4>2
    <3> QED
      BY <3>1 DEF Swept
  <2>4. /\ scan' = NoScan
        /\ result' = [task |-> "sweep", dev |-> d, rows |-> items, coverage |-> "full"]
    BY <1>3, <1>6 DEF Finished, items
  <2>5. result'.task = "sweep" /\ result'.dev = d /\ result'.rows = items
    BY <2>4
  <2>6. Reported'
    BY <1>1, <2>2, <2>3, <2>5 DEF Reported
  <2> QED
    BY <1>1, <1>4, <1>5, <2>4, <2>6, FinishStep
<1>7. CASE ~SeveralPorts(items)
  <2> DEFINE t == [s EXCEPT !.pc = "ports"]
  <2>1. scan' = t /\ UNCHANGED result
    BY <1>3, <1>7
  <2>2. t \in SweepScan /\ t.pc # "probe" /\ t.dev = d /\ t.rows = s.rows
    BY <1>1 DEF SweepScan
  <2> HIDE DEF t
  <2>3. /\ scan' \in SweepScan /\ scan'.pc # "probe"
        /\ HeardRows(scan'.dev, scan'.rows, heard)
    BY <1>4, <2>1, <2>2
  <2> QED
    BY <1>1, <1>5, <2>1, <2>3, SweepStep
<1> QED
  BY <1>6, <1>7

LEMMA SweepPortKeeps ==
  ASSUME IInv, SweepPort
  PROVE  IInv'
<1> DEFINE s == scan
           p == Least(s.ports)
<1>1. /\ s \in SweepScan /\ s.pc = "probe" /\ s.ports # {}
      /\ UNCHANGED <<wires, streaming, result, heard>>
  BY ScanOf DEF IInv, SweepPort
<1>2. PICK answer \in Probed(p, None) :
        /\ Counted(answer)
        /\ scan' = [s EXCEPT !.ports = Rest(@), !.rows = @ \cup answer.items,
                             !.found = IF answer.items = {} THEN @ ELSE @ + 1]
  BY DEF SweepPort
<1>3. /\ quiet \in BOOLEAN /\ HeardRows(s.dev, s.rows, heard) /\ wires \in Wirings
      /\ Pairs(wires) \subseteq heard /\ s.dev \in Device
      /\ (quiet => Swept(wires, s.dev, s.ports, s.rows))
  BY <1>1, Kinds, Listened DEF IInv, Sweep, SweepScan
<1>4. s.ports \in SUBSET Port /\ s.ports \in SUBSET Nat
  BY <1>1, EndpointFacts DEF SweepScan
<1>5. /\ p \in s.ports /\ p \in Port /\ Rest(s.ports) \in SUBSET Port
      /\ \A y \in s.ports : y \in Rest(s.ports) <=> y # p
  BY <1>1, <1>4, RestOf
<1>6. /\ OneRow(answer.items, wires, s.dev, p) /\ answer.sound \in BOOLEAN
      /\ answer.sound /\ Heard(wires, <<s.dev, p>>) # {} => answer.items # {}
  BY <1>3, <1>5, ProbedFacts DEF OneRow
<1>7. quiet' \in BOOLEAN /\ (quiet' => quiet /\ answer.sound)
  BY <1>2, <1>3, <1>6, CountedFacts
<1> DEFINE rows == s.rows \cup answer.items
           found == IF answer.items = {} THEN s.found ELSE s.found + 1
           t == [s EXCEPT !.ports = Rest(s.ports), !.rows = rows, !.found = found]
<1> HIDE DEF s, p
<1>8. HeardRows(s.dev, answer.items, heard)
  <2>1. ASSUME NEW row \in RowsOf(Heard(wires, <<s.dev, p>>)),
               answer.items = {[port |-> p, row |-> row]}
        PROVE  HeardRows(s.dev, answer.items, heard)
    <3>1. row \in Rows /\ SaidIn(heard, <<s.dev, p>>, row)
      BY <1>3, <1>5, RowsWereSaid
    <3>2. [port |-> p, row |-> row] \in PortRow
      BY <1>5, <3>1 DEF PortRow
    <3> QED
      BY <2>1, <3>1, <3>2 DEF HeardRows
  <2>2. answer.items = {} => HeardRows(s.dev, answer.items, heard)
    BY DEF HeardRows
  <2> QED
    BY <1>6, <2>1, <2>2 DEF OneRow
<1>9. HeardRows(s.dev, rows, heard)
  BY <1>3, <1>8 DEF HeardRows
<1>10. ASSUME quiet'
       PROVE  Swept(wires, s.dev, Rest(s.ports), rows)
  <2>1. Heard(wires, <<s.dev, p>>) # {} => \E r \in answer.items : r.port = p
    BY <1>6, <1>7, <1>10 DEF OneRow
  <2>2. p \in Up(wires, s.dev) => \E r \in rows : r.port = p
    BY <2>1 DEF Up
  <2>3. ASSUME NEW y \in Up(wires, s.dev),
               Cardinality({q \in Up(wires, s.dev) : q <= y}) <= Cap(s.dev)
        PROVE  y \in Rest(s.ports) \/ \E r \in rows : r.port = y
    <3>1. y \in s.ports \/ \E r \in s.rows : r.port = y
      BY <1>3, <1>7, <1>10, <2>3 DEF Swept
    <3> QED
      BY <1>5, <2>2, <3>1
  <2> QED
    BY <2>3 DEF Swept
<1>11. t \in SweepScan /\ t.pc = s.pc /\ t.dev = s.dev /\ t.ports = Rest(s.ports) /\ t.rows = rows
  <2>1. s.rows \in SUBSET PortRow /\ s.found \in Nat /\ s \in SweepScan
    BY <1>1 DEF SweepScan, s
  <2>2. rows \in SUBSET PortRow
    <3> HIDE DEF rows
    <3> QED
      BY <1>9 DEF HeardRows
  <2>3. found \in Nat
    BY <2>1
  <2> HIDE DEF rows, found
  <2> QED
    BY <1>5, <2>1, <2>2, <2>3 DEF SweepScan
<1>12. scan' = t
  BY <1>2 DEF s
<1> HIDE DEF t, rows
<1>13. /\ scan' \in SweepScan /\ HeardRows(scan'.dev, scan'.rows, heard)
       /\ quiet' => Swept(wires, scan'.dev, scan'.ports, scan'.rows)
  BY <1>9, <1>10, <1>11, <1>12
<1> QED
  BY <1>1, <1>7, <1>13, SweepStep DEF s

LEMMA SweepDoneKeeps ==
  ASSUME IInv, SweepDone
  PROVE  IInv'
<1>1. /\ scan \in SweepScan /\ scan.pc = "probe" /\ scan.ports = {}
      /\ UNCHANGED <<wires, streaming, heard>>
  BY ScanOf DEF IInv, SweepDone
<1>2. /\ HeardRows(scan.dev, scan.rows, heard) /\ quiet \in BOOLEAN /\ scan # NoScan
      /\ (quiet => Swept(wires, scan.dev, {}, scan.rows))
  BY <1>1, Kinds, Listened DEF IInv, Sweep
<1>3. /\ scan' = NoScan /\ quiet' = quiet
      /\ result'.task = "sweep" /\ result'.dev = scan.dev /\ result'.rows = scan.rows
  BY DEF SweepDone, Finished, Sound
<1>4. Reported'
  BY <1>1, <1>2, <1>3 DEF Reported
<1> QED
  BY <1>1, <1>2, <1>3, <1>4, FinishStep

----------------------------------------------------------------------------
(* The end of a map, the beginning of a call, the world *)

LEMMA MapDoneKeeps ==
  ASSUME IInv, MapDone
  PROVE  IInv'
<1> DEFINE s == scan
           inv == Inventory(s.inactive)
           merged == MergeBidirectionalEdges(s.edges)
           links == BuildLinks(merged, inv)
           nodes == BuildNodes(links, inv, s.scope)
<1>1. /\ s \in MapScan /\ s.pc = "next" /\ s.todo = {}
      /\ UNCHANGED <<wires, streaming, heard>>
  BY ScanOf DEF IInv, MapDone
<1>2. Walks(s, heard, wires, quiet) /\ quiet \in BOOLEAN /\ s # NoScan
  BY <1>1, Kinds, Listened
<1>3. /\ scan' = NoScan /\ quiet' = quiet
      /\ result' = [task |-> "map", merged |-> merged, links |-> links, inv |-> inv,
                    asked |-> s.asked, nodes |-> nodes]
  BY DEF MapDone, Finished, Sound
<1> HIDE DEF inv, merged, links, nodes
<1>4. /\ result'.task = "map" /\ result'.merged = merged /\ result'.links = links
      /\ result'.inv = inv /\ result'.asked = s.asked /\ result'.nodes = nodes
  BY <1>3
<1>5. s.edges \in Seq(Edge) /\ s.scope \in Scopes
  BY <1>1 DEF MapScan
<1>6. \A x \in Device \X Port : ~Ahead(s, x)
  BY <1>1 DEF Ahead
<1>7. quiet => \A x \in Device \X Port : Mapped(x, wires, s.asked, s.edges)
  BY <1>2, <1>6 DEF Walks, Covers
<1>8. MapOf(result', s.edges, s.scope)
  BY <1>4 DEF MapOf, merged, links, nodes
<1>9. SoundEdges(s.edges, heard)
  BY <1>2 DEF Walks
<1>10. Reported'
  <2>1. result'.task \in {"none", "map", "sweep"} /\ result'.task # "sweep"
    BY <1>4
  <2>2. \E edges \in Seq(Edge), scope \in Scopes :
          /\ SoundEdges(edges, heard)
          /\ quiet => \A x \in Device \X Port : Mapped(x, wires, s.asked, edges)
          /\ MapOf(result', edges, scope)
    BY <1>5, <1>7, <1>8, <1>9
  <2>3. heard' = heard /\ wires' = wires /\ quiet' = quiet /\ result'.asked = s.asked
    BY <1>1, <1>3, <1>4
  <2> HIDE DEF s
  <2> QED
    BY <2>1, <2>2, <2>3 DEF Reported
<1> QED
  BY <1>1, <1>2, <1>3, <1>10, FinishStep

LEMMA BeginStep ==
  ASSUME IInv, NEW s, Begin(s),
         s \in MapScan \/ (s \in SweepScan /\ s.pc # "probe" /\ s.rows = {}),
         s \in MapScan => s.edges = <<>> /\ s.todo = s.asked /\ s.pc = "next"
                          /\ s.index = 1 /\ s.seen = {}
  PROVE  IInv'
<1>1. /\ scan' = s /\ result' = NoResult /\ heard' = Pairs(wires) /\ quiet' = TRUE
      /\ wires' = wires /\ streaming' = streaming
  BY DEF Begin
<1>2. Pairs(wires) \subseteq (Device \X Port) \X Endpoint
  BY DEF Pairs
<1>3. Typed'
  BY <1>1, <1>2 DEF IInv, Typed
<1>4. Listening'
  BY <1>1 DEF Listening
<1>5. s \in MapScan => Walks(s, Pairs(wires), wires, TRUE)
  <2> SUFFICES ASSUME s \in MapScan  PROVE Walks(s, Pairs(wires), wires, TRUE)
    OBVIOUS
  <2>1. DOMAIN s.edges = {} /\ s.edges \in Seq(Edge)
    BY DEF MapScan
  <2>2. Standing(s) /\ SoundEdges(s.edges, Pairs(wires)) /\ Reached(s)
    BY <2>1 DEF Standing, SoundEdges, Reached
  <2>3. Covers(s, wires)
    BY DEF Covers, Ahead, Mapped
  <2> QED
    BY <2>2, <2>3 DEF Walks
<1>6. Walk'
  BY <1>1, <1>5 DEF Walk
<1>7. Sweep'
  BY <1>1, Kinds DEF Sweep, HeardRows
<1>8. Reported'
  BY <1>1 DEF Reported, NoResult
<1> QED
  BY <1>3, <1>4, <1>6, <1>7, <1>8 DEF IInv

LEMMA StartMapKeeps ==
  ASSUME IInv, NEW call \in MapCalls, StartMap(call)
  PROVE  IInv'
<1> DEFINE asked == {d \in Inventory(call.inactive) : call.allow = {} \/ d \in call.allow}
                    \ (IF call.lab THEN {} ELSE Lab)
           s == [pc |-> "next", task |-> "map", mode |-> call.mode,
                 scope |-> call.scope, inactive |-> call.inactive, asked |-> asked,
                 todo |-> asked, dev |-> None, ports |-> {}, index |-> 1,
                 seen |-> {}, edges |-> <<>>]
<1>1. Begin(s)
  BY DEF StartMap
<1>2. call.mode \in Modes /\ call.scope \in Scopes /\ call.inactive \in BOOLEAN
  BY ScanAssumption DEF Modes, Scopes
<1>3. asked \in SUBSET Device
  BY DEF IInv, Typed, Inventory
<1>4. 1 \in 1..ExtraLimit
  BY EndpointFacts
<1>5. <<>> \in Seq(Edge)
  OBVIOUS
<1> HIDE DEF asked
<1>6. /\ s \in MapScan /\ s.edges = <<>> /\ s.todo = s.asked /\ s.pc = "next"
      /\ s.index = 1 /\ s.seen = {}
  BY <1>2, <1>3, <1>4, <1>5 DEF MapScan
<1> HIDE DEF s
<1>7. /\ s \in MapScan \/ (s \in SweepScan /\ s.pc # "probe" /\ s.rows = {})
      /\ s \in MapScan => s.edges = <<>> /\ s.todo = s.asked /\ s.pc = "next"
                          /\ s.index = 1 /\ s.seen = {}
  BY <1>6
<1> QED
  BY <1>1, <1>7, BeginStep

LEMMA StartSweepKeeps ==
  ASSUME IInv, NEW d \in Device, NEW lab \in BOOLEAN, StartSweep(d, lab)
  PROVE  IInv'
<1> DEFINE s == [pc |-> "tree", task |-> "sweep", dev |-> d, ports |-> {},
                 probed |-> 0, found |-> 0, rows |-> {}]
<1>1. Begin(s)
  BY DEF StartSweep
<1>2. s \in SweepScan /\ s.pc # "probe" /\ s.rows = {}
  BY DEF SweepScan
<1>3. s \notin MapScan
  BY <1>2, Kinds
<1> HIDE DEF s
<1> QED
  BY <1>1, <1>2, <1>3, BeginStep

(* Whatever changes around a call is added to what was heard.              *)
LEMMA WorldStep ==
  ASSUME IInv, scan # NoScan, scan' = scan, result' = result, quiet' = FALSE,
         wires' \in Wirings, streaming' \in SUBSET Device,
         heard' = heard \cup Pairs(wires')
  PROVE  IInv'
<1>1. result = NoResult /\ heard \in SUBSET ((Device \X Port) \X Endpoint)
  BY Listened DEF IInv, Typed
<1>2. Pairs(wires') \in SUBSET ((Device \X Port) \X Endpoint)
  BY DEF Pairs
<1>3. Typed'
  BY <1>1, <1>2 DEF IInv, Typed
<1>4. Listening'
  BY DEF Listening, Pairs
<1>5. Walk'
  <2>1. ASSUME scan \in MapScan
        PROVE  Walks(scan, heard', wires', FALSE)
    <3>1. Walks(scan, heard, wires, quiet) /\ heard \subseteq heard'
      BY <2>1 DEF IInv, Walk
    <3> QED
      BY <3>1, Louder DEF Walks
  <2> QED
    BY <2>1 DEF Walk
<1>6. Sweep'
  <2>1. ASSUME scan \in SweepScan
        PROVE  HeardRows(scan.dev, scan.rows, heard')
    <3>1. HeardRows(scan.dev, scan.rows, heard) /\ heard \subseteq heard'
      BY <2>1 DEF IInv, Sweep
    <3> QED
      BY <3>1 DEF HeardRows, SaidIn
  <2> QED
    BY <2>1 DEF Sweep
<1>7. Reported'
  BY <1>1 DEF Reported, NoResult
<1> QED
  BY <1>3, <1>4, <1>5, <1>6, <1>7 DEF IInv

LEMMA RecabledKeeps ==
  ASSUME IInv, NEW w \in Wirings, Recabled(w)
  PROVE  IInv'
<1>1. /\ scan # NoScan /\ scan' = scan /\ result' = result /\ quiet' = FALSE
      /\ wires' = w /\ streaming' = streaming /\ heard' = heard \cup Pairs(w)
  BY Kinds DEF Recabled, Changed
<1>2. streaming \in SUBSET Device
  BY DEF IInv, Typed
<1> QED
  BY <1>1, <1>2, WorldStep

LEMMA StreamingChangesKeeps ==
  ASSUME IInv, NEW d \in Device, StreamingChanges(d)
  PROVE  IInv'
<1>1. /\ scan # NoScan /\ scan' = scan /\ result' = result /\ quiet' = FALSE
      /\ wires' = wires /\ heard' = heard
      /\ streaming' \in {streaming \ {d}, streaming \cup {d}}
  BY Kinds DEF StreamingChanges, Changed
<1>2. streaming \in SUBSET Device /\ wires \in Wirings /\ Pairs(wires) \subseteq heard
  BY <1>1, Listened DEF IInv, Typed
<1>3. heard' = heard \cup Pairs(wires')
  BY <1>1, <1>2 DEF Pairs
<1>4. streaming' \in SUBSET Device
  BY <1>1, <1>2
<1> QED
  BY <1>1, <1>2, <1>3, <1>4, WorldStep

----------------------------------------------------------------------------
(* The theorems *)

LEMMA NextKeeps ==
  ASSUME IInv, Next
  PROVE  IInv'
<1>1. CASE StartAny
  BY <1>1, StartMapKeeps, StartSweepKeeps DEF StartAny
<1>2. CASE NextDevice \/ DeviceFails \/ DeviceDone
  BY <1>2, NextDeviceKeeps, DeviceFailsKeeps, DeviceDoneKeeps
<1>3. CASE ListPorts
  <2>1. scan.pc # "idle"
    BY <1>3 DEF ListPorts
  <2>2. scan \in MapScan \/ scan \in SweepScan
    BY <2>1, ScanOf DEF IInv
  <2> QED
    BY <1>3, <2>2, ListPortsOfMapKeeps, ListPortsOfSweepKeeps
<1>4. CASE ProbePort \/ ProbeIndex
  BY <1>4, ProbePortKeeps, ProbeIndexKeeps
<1>5. CASE FullTree \/ SweepPort \/ SweepDone
  BY <1>5, FullTreeKeeps, SweepPortKeeps, SweepDoneKeeps
<1>6. CASE MapDone
  BY <1>6, MapDoneKeeps
<1>7. CASE (\E w \in Wirings : Recabled(w)) \/ \E d \in Device : StreamingChanges(d)
  BY <1>7, RecabledKeeps, StreamingChangesKeeps
<1> QED
  BY <1>1, <1>2, <1>3, <1>4, <1>5, <1>6, <1>7 DEF Next

LEMMA StutterKeeps ==
  ASSUME IInv, UNCHANGED vars
  PROVE  IInv'
<1>1. /\ wires' = wires /\ streaming' = streaming /\ scan' = scan /\ result' = result
      /\ heard' = heard /\ quiet' = quiet
  BY DEF vars
<1>2. Typed' /\ Listening'
  BY <1>1 DEF IInv, Typed, Listening
<1>3. Walk' /\ Sweep'
  BY <1>1 DEF IInv, Walk, Sweep
<1>4. Reported'
  BY <1>1 DEF IInv, Reported
<1> QED
  BY <1>2, <1>3, <1>4 DEF IInv

(* Where the walk and the sweep stand, and what they report, is as the     *)
(* invariant says, in every state.                                         *)
THEOREM Invariance == Spec => []IInv
<1>1. Init => IInv
  <2> SUFFICES ASSUME Init  PROVE IInv
    OBVIOUS
  <2>1. scan = NoScan /\ result = NoResult /\ heard = {} /\ quiet = TRUE
        /\ wires \in Wirings /\ streaming \in SUBSET Device
    BY DEF Init
  <2>2. Typed /\ Listening
    BY <2>1 DEF Typed, Listening
  <2>3. Walk /\ Sweep
    BY <2>1, Kinds DEF Walk, Sweep
  <2>4. Reported
    BY <2>1 DEF Reported, NoResult
  <2> QED
    BY <2>2, <2>3, <2>4 DEF IInv
<1>2. IInv /\ [Next]_vars => IInv'
  BY NextKeeps, StutterKeeps
<1> QED
  BY <1>1, <1>2, PTL DEF Spec

LEMMA ReportOfMap ==
  ASSUME IInv, result.task = "map"
  PROVE  \E edges \in Seq(Edge), scope \in Scopes :
           /\ SoundEdges(edges, heard) /\ MapOf(result, edges, scope)
           /\ quiet => /\ heard = Pairs(wires)
                       /\ \A x \in Device \X Port : Mapped(x, wires, result.asked, edges)
<1>1. result # NoResult
  BY DEF NoResult
<1> QED
  BY <1>1 DEF IInv, Reported, Listening

(* The values of the variables in every state: TypeOK.                     *)
THEOREM TypeCorrect == Spec => []TypeOK
<1>1. IInv => TypeOK
  <2> SUFFICES ASSUME IInv  PROVE TypeOK
    OBVIOUS
  <2>1. /\ wires \in Wirings /\ streaming \subseteq Device
        /\ heard \subseteq (Device \X Port) \X Endpoint
    BY DEF IInv, Typed
  <2>2. /\ scan.pc \in {"idle", "next", "tree", "ports", "probe"}
        /\ scan.pc = "probe" => scan.ports \subseteq Port
    <3>1. scan \in MapScan \/ scan \in SweepScan \/ scan = NoScan
      BY DEF IInv, Typed
    <3>2. CASE scan \in MapScan
      BY <3>2 DEF MapScan
    <3>3. CASE scan \in SweepScan
      BY <3>3 DEF SweepScan
    <3> QED
      BY <3>1, <3>2, <3>3, Kinds
  <2>3. ASSUME scan.pc # "idle", scan.task = "map"
        PROVE  /\ ToSet(scan.edges) \subseteq Edge /\ scan.index \in 1..ExtraLimit
               /\ scan.todo \subseteq scan.asked
    <3>1. scan \in MapScan
      BY <2>3, ScanOf DEF IInv
    <3>2. scan.edges \in Seq(Edge) /\ scan.index \in 1..ExtraLimit
      BY <3>1 DEF MapScan
    <3>3. ToSet(scan.edges) \subseteq Edge
      BY <3>2 DEF ToSet
    <3> QED
      BY <3>1, <3>2, <3>3 DEF IInv, Walk, Walks, Standing
  <2>4. ASSUME result.task = "map", NEW m \in result.merged
        PROVE  m.a \in Edge /\ m.b \in (IF m.verified THEN Edge ELSE {None})
    <3>1. PICK edges \in Seq(Edge) :
            SoundEdges(edges, heard) /\ result.merged = MergeBidirectionalEdges(edges)
      BY <2>4, ReportOfMap DEF MapOf
    <3> QED
      BY <3>1, SidesWereHeard
  <2> QED
    BY <2>1, <2>2, <2>3, <2>4 DEF TypeOK
<1> QED
  BY <1>1, Invariance, PTL

(* What is reported of a port was heard on it, of one neighbour or merged  *)
(* from several of them: RowsWereHeard.                                    *)
THEOREM EveryRowWasHeard == Spec => []RowsWereHeard
<1>1. IInv => RowsWereHeard
  <2> SUFFICES ASSUME IInv  PROVE RowsWereHeard
    OBVIOUS
  <2>1. ASSUME result.task = "map", NEW m \in result.merged
        PROVE  Says(m.a.local, m.a.row) /\ (m.verified => Says(m.b.local, m.b.row))
    <3>1. PICK edges \in Seq(Edge) :
            SoundEdges(edges, heard) /\ result.merged = MergeBidirectionalEdges(edges)
      BY <2>1, ReportOfMap DEF MapOf
    <3> QED
      BY <3>1, SidesWereHeard
  <2>2. ASSUME result.task = "sweep", NEW r \in result.rows
        PROVE  Says(<<result.dev, r.port>>, r.row)
    BY <2>2 DEF IInv, Reported, HeardRows, SaidIn, Says
  <2> QED
    BY <2>1, <2>2 DEF RowsWereHeard
<1> QED
  BY <1>1, Invariance, PTL

(* The sides of a verified link heard each other while the map was made,   *)
(* if each names one neighbour: VerifiedSidesHeardEachOther.               *)
THEOREM VerifiedLinksAreCables == Spec => []VerifiedSidesHeardEachOther
<1>1. IInv => VerifiedSidesHeardEachOther
  <2> SUFFICES ASSUME IInv, result.task = "map", NEW m \in result.merged,
                      m.verified, IsWhole(m.a), IsWhole(m.b),
                      ~Ambiguous(m.a.local, Named(m.a.row))
               PROVE  <<m.a.local, m.b.local>> \in heard /\ <<m.b.local, m.a.local>> \in heard
    BY DEF VerifiedSidesHeardEachOther
  <2>1. PICK edges \in Seq(Edge) :
          SoundEdges(edges, heard) /\ result.merged = MergeBidirectionalEdges(edges)
    BY ReportOfMap DEF MapOf
  <2> QED
    BY <2>1, VerifiedHeard
<1> QED
  BY <1>1, Invariance, PTL

(* On a quiet network a cable between switches is one verified link:       *)
(* QuietMapIsComplete.                                                     *)
THEOREM EveryCableIsALink == Spec => []QuietMapIsComplete
<1>1. IInv => QuietMapIsComplete
  <2> SUFFICES ASSUME IInv, result.task = "map", quiet,
                      NEW x \in Device \X Port, NEW y \in Device \X Port,
                      x # y, Heard(wires, x) = {y}, Heard(wires, y) = {x},
                      \A e \in {x, y} : /\ e[1] \in result.asked
                                        /\ e[2] <= Cap(e[1])
                                        /\ KnownBySystemMac(e[1]),
                      ~Ambiguous(x, y)
               PROVE  Cardinality({m \in result.merged :
                        m.verified /\ {m.a.local, m.b.local} = {x, y}}) = 1
    BY DEF QuietMapIsComplete
  <2>1. PICK edges \in Seq(Edge) :
          /\ SoundEdges(edges, heard) /\ result.merged = MergeBidirectionalEdges(edges)
          /\ heard = Pairs(wires)
          /\ \A z \in Device \X Port : Mapped(z, wires, result.asked, edges)
    BY ReportOfMap DEF MapOf
  <2>2. x \in Endpoint /\ y \in Endpoint
    BY DEF Endpoint
  <2>3. /\ \E i \in DOMAIN edges : edges[i] = [local |-> x, row |-> Row(y)]
        /\ \E i \in DOMAIN edges : edges[i] = [local |-> y, row |-> Row(x)]
    BY <2>1, <2>2 DEF Mapped
  <2>4. KnownBySystemMac(x[1]) /\ KnownBySystemMac(y[1])
    OBVIOUS
  <2> DEFINE of(m) == m.verified /\ {m.a.local, m.b.local} = {x, y}
             merged == MergeBidirectionalEdges(edges)
             ones == {m \in merged : of(m)}
  <2>5. PICK l : OnlyLink(l, edges, x, y)
    BY <2>1, <2>3, <2>4, CableIsOneLink
  <2>6. \A m \in merged \cup {l} : l \in merged /\ (m = l <=> of(m))
    BY <2>5 DEF OnlyLink
  <2> HIDE DEF of, merged
  <2>7. ones = {l}
    BY <2>6
  <2>8. Cardinality(ones) = 1
    BY <2>7, FS_Singleton
  <2> QED
    BY <2>1, <2>8 DEF of, merged
<1> QED
  BY <1>1, Invariance, PTL

(* On a quiet network a sweep has a row for each port that hears           *)
(* something, up to the number it probes: QuietSweepMissesNoPort.          *)
THEOREM EveryPortIsSwept == Spec => []QuietSweepMissesNoPort
<1>1. IInv => QuietSweepMissesNoPort
  <2> SUFFICES ASSUME IInv, result.task = "sweep", quiet
               PROVE  \A p \in UpPorts(result.dev) :
                        Cardinality({q \in UpPorts(result.dev) : q <= p}) <= Cap(result.dev) =>
                          \E r \in result.rows : r.port = p
    BY DEF QuietSweepMissesNoPort
  <2>1. Swept(wires, result.dev, {}, result.rows)
    BY DEF IInv, Reported
  <2>2. UpPorts(result.dev) = Up(wires, result.dev)
    BY UpFacts
  <2> QED
    BY <2>1, <2>2 DEF Swept
<1> QED
  BY <1>1, Invariance, PTL

(* A device of the inventory has one node, unless a merged row makes it    *)
(* another, and links join nodes: OneNodePerDevice.                        *)
THEOREM DevicesHaveOneNode == Spec => []OneNodePerDevice
<1>1. IInv => OneNodePerDevice
  <2> SUFFICES ASSUME IInv, result.task = "map"
               PROVE  /\ \A l \in result.links : {l.source, l.target} \subseteq result.nodes
                      /\ \A n \in result.nodes : n[1] # "serial" /\ n[2][1] \in result.inv =>
                           \E m \in result.merged :
                             n = NodeKeyForRemote(m.a.row) /\ ~IsWhole(m.a)
    BY DEF OneNodePerDevice
  <2> DEFINE merged == result.merged
             links == result.links
             inv == result.inv
  <2>1. PICK edges \in Seq(Edge), scope \in Scopes :
          /\ SoundEdges(edges, heard) /\ merged = MergeBidirectionalEdges(edges)
          /\ links = BuildLinks(merged, inv)
          /\ result.nodes = BuildNodes(links, inv, scope)
    BY ReportOfMap DEF MapOf
  <2> HIDE DEF merged, links, inv
  <2>2. \A l \in links : /\ l.source \in result.nodes /\ l.target \in result.nodes
    BY <2>1 DEF BuildNodes
  <2>3. \A l \in links : \E m \in merged :
          l.source = Serial(m.a.local[1]) /\ l.target = Target(m, inv)
    BY <2>1 DEF BuildLinks
  <2>4. ASSUME NEW n \in result.nodes, n[1] # "serial", n[2][1] \in inv
        PROVE  \E m \in merged : n = NodeKeyForRemote(m.a.row) /\ ~IsWhole(m.a)
    <3>1. \A d : Serial(d)[1] = "serial"
      BY DEF Serial
    <3>2. PICK l \in links : n = l.target
      BY <2>1, <2>3, <2>4, <3>1 DEF BuildNodes
    <3>3. PICK m \in merged : l.target = Target(m, inv)
      BY <2>3
    <3>4. Target(m, inv)[1] # "serial" /\ Target(m, inv)[2][1] \in inv
      BY <2>4, <3>2, <3>3
    <3> QED
      BY <3>2, <3>3, <3>4, UnmatchedRemote
  <2> QED
    BY <2>2, <2>4 DEF merged, links, inv
<1> QED
  BY <1>1, Invariance, PTL

=============================================================================
