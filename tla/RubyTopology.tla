---------------------------- MODULE RubyTopology ----------------------------
(***************************************************************************)
(* The networks that makeTopology() of topologies/<topology>.py builds     *)
(* from the controllers of a system: the number of routers, the external   *)
(* links (a controller and its router) and the internal links (from router *)
(* to router, with a weight).  Latencies and port names are left out.      *)
(***************************************************************************)
EXTENDS Integers, Sequences, FiniteSets, SequencesExt, RubyProtocols

Network(routers, ext, int) == [routers |-> routers, ext |-> ext, int |-> int]

(* Links that get the numbers from first on. *)
ExtLinks(first, attached) ==
  [k \in DOMAIN attached |->
     [id |-> first + k - 1, node |-> attached[k][1], router |-> attached[k][2]]]
IntLinks(first, pairs) ==
  [k \in DOMAIN pairs |-> [id |-> first + k - 1, src |-> pairs[k][1], dst |-> pairs[k][2],
                           weight |-> pairs[k][3]]]

Weights(east, west, north, south) ==
  [east |-> east, west |-> west, north |-> north, south |-> south]

(* The nodes of a list that are in S. *)
Only(nodes, S) == FoldLeft(LAMBDA t, n : IF n \in S THEN Append(t, n) ELSE t, <<>>, nodes)

(* The four loops over rows and columns: east, west, north and south. *)
MeshPairs(rows, cols, w) ==
  LET East  == [k \in 1 .. rows * (cols - 1) |->
                  LET r == ((k - 1) \div (cols - 1)) * cols + ((k - 1) % (cols - 1))
                  IN <<r, r + 1, w.east>>]
      North == [k \in 1 .. cols * (rows - 1) |->
                  LET r == ((k - 1) % (rows - 1)) * cols + ((k - 1) \div (rows - 1))
                  IN <<r, r + cols, w.north>>]
      Back(pairs, weight) == [k \in DOMAIN pairs |-> <<pairs[k][2], pairs[k][1], weight>>]
  IN East \o Back(East, w.west) \o North \o Back(North, w.south)

RowsFit(c) == c.rows > 0 /\ c.rows <= c.cpus /\ (c.cpus \div c.rows) * c.rows = c.cpus

(* Mesh_XY and Mesh_westfirst: node i on router i modulo their number, the *)
(* remaining nodes, which must be DMA controllers, on router 0.            *)
Uniform(c, nodes) == Len(nodes) - (Len(nodes) % c.cpus)
MeshFits(c, nodes) ==
  /\ RowsFit(c)
  /\ \A k \in Uniform(c, nodes) + 1 .. Len(nodes) : nodes[k].type = "DMA"

Mesh(c, nodes, w) ==
  LET attached == [k \in 1 .. Len(nodes) |->
                     <<nodes[k], IF k <= Uniform(c, nodes) THEN (k - 1) % c.cpus ELSE 0>>]
  IN Network(c.cpus, ExtLinks(0, attached),
             IntLinks(Len(nodes), MeshPairs(c.rows, c.cpus \div c.rows, w)))

Mesh_XY(c, nodes) == Mesh(c, nodes, Weights(1, 1, 2, 2))

(* The mutant gives all directions the same weight. *)
Mesh_unweighted(c, nodes) == Mesh(c, nodes, Weights(1, 1, 1, 1))
Mesh_westfirst(c, nodes)  == Mesh(c, nodes, Weights(2, 1, 2, 2))

(* MeshDirCorners_XY: caches spread evenly, four directories on the corner *)
(* routers, DMA controllers on router 0.  All DMA links get the number     *)
(* that the first internal link gets too, and L0 caches get no link.       *)
OfTypes(nodes, types) == Only(nodes, {n \in ToSet(nodes) : n.type \in types})
CachesOf(nodes) == OfTypes(nodes, {"L1Cache", "L2Cache"})

DirCornersFits(c, nodes) ==
  /\ RowsFit(c)
  /\ Len(CachesOf(nodes)) % c.cpus = 0
  /\ Len(OfTypes(nodes, {"Directory"})) = 4
  /\ c.full        \* registerTopology() uses names that it does not know

MeshDirCorners_XY(c, nodes) ==
  LET caches  == CachesOf(nodes)
      dirs    == OfTypes(nodes, {"Directory"})
      dmas    == OfTypes(nodes, {"DMA"})
      cols    == c.cpus \div c.rows
      corners == <<0, cols - 1, c.cpus - cols, c.cpus - 1>>
      spread  == [k \in DOMAIN caches |-> <<caches[k], (k - 1) % c.cpus>>]
      atCorners == [k \in 1 .. 4 |-> <<dirs[k], corners[k]>>]
      first   == Len(caches) + 4
  IN Network(c.cpus,
             ExtLinks(0, spread \o atCorners)
               \o [k \in DOMAIN dmas |-> [id |-> first, node |-> dmas[k], router |-> 0]],
             IntLinks(first, MeshPairs(c.rows, cols, Weights(1, 1, 2, 2))))

(* A router per controller and one in the middle; one router; all to all   *)
(* (where the first internal link skips a number).                         *)
OnItsOwn(nodes) == [k \in DOMAIN nodes |-> <<nodes[k], k - 1>>]

Crossbar(nodes) ==
  LET n == Len(nodes)
  IN Network(n + 1, ExtLinks(0, OnItsOwn(nodes)),
             IntLinks(n, [k \in 1 .. n |-> <<k - 1, n, 1>>] \o [k \in 1 .. n |-> <<n, k - 1, 1>>]))

CrossbarGarnet(nodes) == Network(1, ExtLinks(0, [k \in DOMAIN nodes |-> <<nodes[k], 0>>]), <<>>)

Pt2Pt(nodes) ==
  LET n == Len(nodes)
      Pair(i, j) == <<i, IF j < i THEN j ELSE j + 1, 1>>
  IN Network(n, ExtLinks(0, OnItsOwn(nodes)),
             IntLinks(n + 1, [k \in 1 .. n * (n - 1) |-> Pair((k - 1) \div (n - 1), (k - 1) % (n - 1))]))
-----------------------------------------------------------------------------
(* CustomMesh: the nodes of CHI, class after class, on the mesh routers    *)
(* that the placement of their class lists, `per` on each or, if it is 0,  *)
(* around and around.  A request node gets a router of its own.            *)
ChiClasses == <<"RNF", "HNF", "SNF_MainMem", "SNF_BootMem", "RNI_DMA", "RNI_IO">>
OfClass(nodes, class) == Only(nodes, {n \in ToSet(nodes) : n.class = class})

CustomMeshFits(c) ==
  /\ c.protocol = "CHI"
  /\ ~c.pairing    \* makeTopology() uses names that it does not know
  /\ \A k \in 1 .. Len(ChiClasses) :
       LET place == c.placement[ChiClasses[k]]
           n     == Len(OfClass(CHI(c), ChiClasses[k]))
       IN n # 0 => IF place.per # 0 THEN Len(place.routers) * place.per = n
                   ELSE place.routers # <<>>

MeshRouterOf(place, k) ==
  place.routers[IF place.per # 0 THEN (k - 1) \div place.per + 1
                ELSE ((k - 1) % Len(place.routers)) + 1]

(* One round of distributeNodes(): p is a node and its mesh router. *)
Distribute(net, p) ==
  LET links   == Len(net.ext) + Len(net.int)
      bridged == p[1].class = "RNF"
      router  == IF bridged THEN net.routers ELSE p[2]
      bridge  == IF bridged THEN <<<<router, p[2], 1>>, <<p[2], router, 1>>>> ELSE <<>>
      ctrls   == p[1].controllers
  IN Network(net.routers + (IF bridged THEN 1 ELSE 0),
             net.ext \o ExtLinks(links + Len(bridge),
                                 [k \in DOMAIN ctrls |-> <<ctrls[k], router>>]),
             net.int \o IntLinks(links, bridge))

CustomMesh(c) ==
  LET chi == CHI(c)
      placed == FlattenSeq(
        [i \in 1 .. Len(ChiClasses) |->
           LET nodes == OfClass(chi, ChiClasses[i])
           IN [k \in DOMAIN nodes |-> <<nodes[k], MeshRouterOf(c.placement[ChiClasses[i]], k)>>]])
      mesh == IntLinks(0, MeshPairs(c.rows, c.cols, Weights(1, 1, 2, 2)))
  IN FoldLeft(Distribute, Network(c.rows * c.cols, <<>>, mesh), placed)

(* Cluster: a router per cluster, a link for each controller of it and two *)
(* for each sub-cluster, made after the links within the sub-cluster.      *)
(* External and internal links are numbered apart.                         *)
AttachControllers(net, nodes, router) ==
  [net EXCEPT !.ext = @ \o ExtLinks(Len(@), [k \in DOMAIN nodes |-> <<nodes[k], router>>])]
AttachCluster(net, cluster, router) ==
  LET own == net.routers
      sub == AttachControllers([net EXCEPT !.routers = @ + 1], cluster.controllers, own)
  IN [sub EXCEPT !.int = @ \o IntLinks(Len(@), <<<<router, own, 1>>, <<own, router, 1>>>>)]

Cluster(c) ==
  LET main == GPU_VIPER(c)
      root == AttachControllers(Network(1, <<>>, <<>>), main.controllers, 0)
  IN AttachCluster(AttachCluster(root, main.clusters[1], 0), main.clusters[2], 0)
-----------------------------------------------------------------------------
(* create_topology() and makeTopology(); GPU_VIPER brings its own cluster. *)
Topologies ==
  {"Crossbar", "CrossbarGarnet", "CustomMesh", "MeshDirCorners_XY", "Mesh_XY",
   "Mesh_westfirst", "Pt2Pt"}
TopologyOf(c) == IF c.protocol = "GPU_VIPER" THEN "Cluster" ELSE c.topology

TopologyFits(c, nodes) ==
  CASE TopologyOf(c) \in {"Mesh_XY", "Mesh_westfirst"} -> MeshFits(c, nodes)
    [] TopologyOf(c) = "MeshDirCorners_XY" -> DirCornersFits(c, nodes)
    [] TopologyOf(c) = "CustomMesh" -> CustomMeshFits(c)
    [] OTHER -> TRUE

MakeNetwork(c, nodes) ==
  CASE TopologyOf(c) = "Mesh_XY"           -> Mesh_XY(c, nodes)
    [] TopologyOf(c) = "Mesh_westfirst"    -> Mesh_westfirst(c, nodes)
    [] TopologyOf(c) = "MeshDirCorners_XY" -> MeshDirCorners_XY(c, nodes)
    [] TopologyOf(c) = "Crossbar"          -> Crossbar(nodes)
    [] TopologyOf(c) = "CrossbarGarnet"    -> CrossbarGarnet(nodes)
    [] TopologyOf(c) = "Pt2Pt"             -> Pt2Pt(nodes)
    [] TopologyOf(c) = "CustomMesh"        -> CustomMesh(c)
    [] TopologyOf(c) = "Cluster"           -> Cluster(c)
=============================================================================
