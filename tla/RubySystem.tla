----------------------------- MODULE RubySystem -----------------------------
(***************************************************************************)
(* The construction of a memory system from the command line: classic      *)
(* (config_mem()) or Ruby (create_system() of ruby/Ruby.py with the        *)
(* protocol, the topology and the memory controllers it calls for), and    *)
(* the packets that the routers of the network then exchange.              *)
(*                                                                         *)
(* gem5 itself is external: its routing tables send a packet along paths   *)
(* of least weight; a router takes an outgoing link of least weight that   *)
(* lies on one, any of them when there are several, and the packet waits   *)
(* in the buffer of the link it came by until that link's buffer is free   *)
(* (comment in Mesh_westfirst.py 37-41).                                   *)
(***************************************************************************)
EXTENDS RubyTopology, MemoryRanges, TLC

CONSTANTS
  Configs,      \* command lines
  MaxPackets    \* packets sent in one run

(* The numbers are options of type int.  The logarithm of those among      *)
(* which addresses are divided is taken (CHI checks them itself), CPUs are *)
(* divided among clusters; gem5 refuses memories that overlap.  A          *)
(* router_list names routers of the mesh (CHI_config.py 99-109).           *)
ASSUME ConfigAssumption ==
  \A c \in Configs :
    /\ c.protocol \in Protocols /\ c.topology \in Topologies
    /\ {c.rows, c.cols, c.cpus, c.dirs, c.dmas, c.l2s, c.l3s, c.cus, c.sqcs, c.scalars, c.cps, c.tccs} \subseteq Nat
    /\ {c.block, c.setBits, c.numa_high_bit, c.xor_low_bit, c.intlv, c.buffer.DRAM, c.buffer.NVM} \subseteq Nat
    /\ c.clusters \in Nat \ {0}
    /\ c.protocol # "CHI" => c.dirs # 0 /\ c.l2s # 0
    /\ c.protocol = "GPU_VIPER" => c.tccs # 0
    /\ c.protocol = "classic" => c.channels \in Nat \ {0}
    /\ c.ranges \in Seq(RangesOf(c))
    /\ \A r \in RangesOf(c) \cup {c.bootRange} : r.start \in Nat /\ r.size \in Nat
    /\ c.boot => \A r \in RangesOf(c) :
         r.start + r.size <= c.bootRange.start \/ c.bootRange.start + c.bootRange.size <= r.start
    /\ c.protocol = "CHI" /\ c.topology = "CustomMesh" => \A k \in 1 .. Len(ChiClasses) :
         LET place == c.placement[ChiClasses[k]]
         IN place.per \in Int /\ place.routers \in Seq(0 .. c.rows * c.cols - 1)

VARIABLES
  cfg,      \* the command line
  phase,    \* options, controllers, memory, running or failed
  nodes,    \* the controllers
  net,      \* the network of the topology
  routes,   \* <<router, destination>> -> the links a packet may take
  homes,    \* families of controllers -> their address ranges
  buffer,   \* internal link -> the packet in its buffer, or None
  sent      \* number of packets sent

vars == <<cfg, phase, nodes, net, routes, homes, buffer, sent>>

None == [to |-> -1, next |-> 0]
NoNetwork == Network(0, <<>>, <<>>)

Init ==
  /\ cfg \in Configs
  /\ phase = "options"
  /\ nodes = <<>>
  /\ net = NoNetwork
  /\ routes = <<>>
  /\ homes = <<>>
  /\ buffer = <<>>
  /\ sent = 0
-----------------------------------------------------------------------------
(* Paths of a growing weight: layer w + 1 has the pairs of routers that a  *)
(* path of at most weight w leads from and to.                             *)
MaxWeight(n) == 2 * n.routers
Extend(links, layers, w) ==
  LET By(l) == {<<p[1], l.dst>> : p \in {q \in layers[w + 1 - l.weight] : q[2] = l.src}}
  IN Append(layers, layers[w] \cup UNION {By(l) : l \in {k \in links : k.weight <= w}})
Layers(n) ==
  LET links == {n.int[l] : l \in DOMAIN n.int}
  IN FoldLeft(LAMBDA layers, w : Extend(links, layers, w),
              <<{<<r, r>> : r \in 0 .. n.routers - 1}>>, [w \in 1 .. MaxWeight(n) |-> w])

(* The routing tables: of the links of router r that are on a lightest     *)
(* path to router d, those with the least weight of their own.             *)
RoutingTables(n) ==
  LET layers == Layers(n)
      dist == [p \in (0 .. n.routers - 1) \X (0 .. n.routers - 1) |->
                 Cardinality({k \in DOMAIN layers : p \notin layers[k]})]
      Out  == [r \in 0 .. n.routers - 1 |-> {l \in DOMAIN n.int : n.int[l].src = r}]
      OnPath(r, d) ==
        {l \in Out[r] : n.int[l].weight + dist[n.int[l].dst, d] = dist[r, d]}
      Lightest(L) == {l \in L : \A m \in L : n.int[l].weight <= n.int[m].weight}
  IN [p \in (0 .. n.routers - 1) \X (0 .. n.routers - 1) |->
        IF dist[p] > MaxWeight(n) THEN {} ELSE Lightest(OnPath(p[1], p[2]))]

Ends == {net.ext[k].router : k \in DOMAIN net.ext}
-----------------------------------------------------------------------------
(* create_system() of the protocol; config_mem() needs no controllers. *)
CreateControllers ==
  /\ phase = "options"
  /\ IF cfg.protocol = "classic" THEN phase' = "memory" /\ UNCHANGED nodes
     ELSE IF Refused(cfg) THEN phase' = "failed" /\ UNCHANGED nodes
     ELSE phase' = "controllers" /\ nodes' = Flat(cfg)
  /\ UNCHANGED <<cfg, net, routes, homes, buffer, sent>>

(* makeTopology() and, outside full-system mode, registerTopology(). *)
MakeTopology ==
  /\ phase = "controllers"
  /\ IF TopologyFits(cfg, nodes)
     THEN /\ phase' = "memory"
          /\ net' = MakeNetwork(cfg, nodes)
          /\ routes' = RoutingTables(net')
          /\ buffer' = [l \in DOMAIN net'.int |-> None]
     ELSE /\ phase' = "failed"
          /\ UNCHANGED <<net, routes, buffer>>
  /\ UNCHANGED <<cfg, nodes, homes, sent>>

(* setup_memory_controllers() or config_mem(), and gem5's checks. *)
SetupMemory ==
  /\ phase = "memory"
  /\ IF cfg.protocol = "classic" /\ ClassicRefused(cfg)
     THEN phase' = "failed" /\ UNCHANGED homes
     ELSE /\ homes' = Homes(cfg)
          /\ phase' = IF \A f \in DOMAIN homes' : \A i \in DOMAIN homes'[f] :
                           \A r \in homes'[f][i] : Accepted(r)
                      THEN "running" ELSE "failed"
  /\ UNCHANGED <<cfg, nodes, net, routes, buffer, sent>>

(* A packet waits at router r for a link toward router d, or for its end. *)
Packet(r, d) == {[to |-> d, next |-> l] : l \in IF r = d THEN {0} ELSE routes[r, d]}

Send(s, d) ==
  /\ phase = "running" /\ cfg.traffic
  /\ sent < MaxPackets
  /\ s # d
  /\ \E l \in routes[s, d] :
       /\ buffer[l] = None
       /\ \E p \in Packet(net.int[l].dst, d) : buffer' = [buffer EXCEPT ![l] = p]
  /\ sent' = sent + 1
  /\ UNCHANGED <<cfg, phase, nodes, net, routes, homes>>

(* The packet in the buffer of link l leaves the network or moves on. *)
Deliver(l) ==
  /\ buffer[l] # None
  /\ buffer[l].next = 0
  /\ buffer' = [buffer EXCEPT ![l] = None]
  /\ UNCHANGED <<cfg, phase, nodes, net, routes, homes, sent>>

Forward(l) ==
  /\ buffer[l].next # 0
  /\ LET n == buffer[l].next
     IN /\ buffer[n] = None
        /\ \E p \in Packet(net.int[n].dst, buffer[l].to) :
             buffer' = [buffer EXCEPT ![l] = None, ![n] = p]
  /\ UNCHANGED <<cfg, phase, nodes, net, routes, homes, sent>>

Route == \E l \in DOMAIN buffer : Deliver(l) \/ Forward(l)

Next ==
  \/ CreateControllers
  \/ MakeTopology
  \/ SetupMemory
  \/ \E s, d \in Ends : Send(s, d)
  \/ Route

Spec == Init /\ [][Next]_vars

(* Routers do not stop; nothing makes a controller send. *)
FairSpec == Spec /\ WF_vars(Route)
-----------------------------------------------------------------------------
(***************************************************************************)
(* Properties.                                                             *)
(***************************************************************************)
Built == phase = "running" /\ cfg.protocol # "classic"

(* gem5 numbers the controllers of a machine type from 0: version          *)
(* assignments of loops, boot memory, io controllers and command           *)
(* processors leave no gap and no duplicate.                               *)
VersionsAreContiguous ==
  LET all == ToSet(nodes)
  IN /\ Cardinality(all) = Len(nodes)
     /\ \A a \in all :
          LET same == {b \in all : b.type = a.type}
          IN {b.version : b \in same} = 0 .. Cardinality(same) - 1

(* Every controller is attached to the network once, but L0 caches on      *)
(* MeshDirCorners_XY, which are not attached at all.                       *)
AttachedOnce ==
  \A c \in ToSet(nodes) :
    Cardinality({e \in DOMAIN net.ext : net.ext[e].node = c})
      = IF TopologyOf(cfg) = "MeshDirCorners_XY" /\ c.type = "L0Cache" THEN 0 ELSE 1

(* The comment "link counter to set unique link ids": true but for the     *)
(* external links of several DMA controllers on MeshDirCorners_XY, which   *)
(* share theirs with the first internal link, and between the external and *)
(* the internal links of a Cluster.                                        *)
LinkIdsUnique ==
  LET ext == {k \in DOMAIN net.ext :
                TopologyOf(cfg) = "MeshDirCorners_XY" => net.ext[k].node.type # "DMA"}
      int == DOMAIN net.int
  IN /\ \A j, k \in ext : net.ext[j].id = net.ext[k].id => j = k
     /\ \A j, k \in int : net.int[j].id = net.int[k].id => j = k
     /\ TopologyOf(cfg) # "Cluster" => \A j \in ext, k \in int : net.ext[j].id # net.int[k].id

(* Whatever the loops of a topology did with rows, columns and remainders, *)
(* a packet gets from every controller to every other.                     *)
Connected == \A s, d \in Ends : s # d => routes[s, d] # {}

(* The system that a command line asks for is consistent. *)
Consistent ==
  Built => VersionsAreContiguous /\ AttachedOnce /\ LinkIdsUnique /\ Connected

(* The weights keep the network free of deadlocks: no cycle of links each  *)
(* of which may hold a packet that waits for the next (Mesh_XY.py 37 and   *)
(* Mesh_westfirst.py 35: routing "is enforced (using link weights)").      *)
WaitsFor(l) ==
  UNION {routes[net.int[l].dst, d] :
           d \in {e \in Ends : l \in routes[net.int[l].src, e] /\ e # net.int[l].dst}}

Prune(waits, left) == {l \in left : waits[l] \cap left # {}}

DeadlockFree ==
  Built =>
    LET waits == [l \in DOMAIN net.int |-> WaitsFor(l)]
    IN FoldLeft(LAMBDA left, link : Prune(waits, left), DOMAIN net.int, net.int) = {}

(* Packets in the network all arrive, however they overtake each other. *)
InNetwork == {l \in DOMAIN buffer : buffer[l] # None}
EveryPacketArrives == InNetwork # {} ~> InNetwork = {}

(* Every cache line of every memory has exactly one directory, memory      *)
(* controller or home node, whatever bits are interleaved or hashed, and   *)
(* the controllers that share a memory range have equal parts of it.       *)
OneHomeIn(family) == \A a \in Lines(cfg) : Cardinality(HomesOf(family, a)) = 1

OneHome ==
  phase = "running" =>
    \A f \in DOMAIN homes :
      LET family == homes[f]
          Part(r, i) == {a \in LinesOf(cfg, r) : i \in HomesOf(family, a)}
          Equal(r, i) == Cardinality(Part(r, i)) * Ways(cfg)[f] = Cardinality(LinesOf(cfg, r))
      IN /\ OneHomeIn(family)
         /\ \A r \in RangesOf(cfg) :
              Cardinality({i \in DOMAIN family : Equal(r, i)}) = Ways(cfg)[f]

(* The lines of one bank of a shared cache fill all of its sets: no bit of *)
(* the set index is one that selects the bank.  Not so in MOESI_hammer,    *)
(* whose probe filter starts one bit too low, and under --numa-high-bit,   *)
(* which makes Ruby's blocks larger than the caches' lines.                *)
BanksUseAllSets ==
  Built /\ cfg.protocol # "MOESI_hammer" /\ cfg.numa_high_bit = 0 =>
    \A b \in 1 .. pow2[BankBits(cfg)] :
      LET lines == IF "cache" \in DOMAIN homes
                   THEN {a \in Lines(cfg) : b \in HomesOf(homes["cache"], a)}
                   ELSE {a \in Lines(cfg) : SelectedBank(cfg, a) = b}
      IN {SetOf(cfg, a) : a \in lines} = 0 .. pow2[cfg.setBits] - 1

(* The probe filter of MOESI_hammer starts with the highest bit that       *)
(* selects the directory: with plain interleaving by cache lines, half of  *)
(* its sets are used, and all if there is one directory.                   *)
ProbeFiltersUseHalf ==
  Built /\ cfg.protocol = "MOESI_hammer" /\ cfg.numa_high_bit = 0 /\ cfg.xor_low_bit = 0 /\ cfg.buffer.DRAM = 0 =>
    \A d \in 1 .. cfg.dirs :
      LET sets == {SetOf(cfg, a) : a \in {x \in Lines(cfg) : d \in HomesOf(homes["memory"], x)}}
      IN Cardinality(sets) * (IF cfg.dirs = 1 THEN 1 ELSE 2) = pow2[cfg.setBits]

(* Memory and caches: every line has one place among controllers, and the  *)
(* sets that the lines of a bank or directory have.                        *)
MemoryIsReached == OneHome /\ BanksUseAllSets /\ ProbeFiltersUseHalf

(* Memories for which that is so whatever the other options: disjoint and  *)
(* of whole multiples of what is interleaved, by cache lines or more from  *)
(* the bit low on, with room for all sets of a bank.  Memories of any use  *)
(* are far larger and start at round addresses.                            *)
Even(c, r, low, bits) ==
  /\ c.block <= low
  /\ r.size # 0 /\ r.start % pow2[low + bits] = 0 /\ r.size % pow2[low + bits] = 0

DirectoriesFrom(c) ==
  IF c.buffer.DRAM # 0 THEN c.buffer.DRAM
  ELSE IF c.numa_high_bit # 0 THEN c.numa_high_bit - Log2(c.dirs) + 1 ELSE c.block
ChannelsFrom(c, k) == IF c.buffer[IntfKind(c, k)] # 0 THEN c.buffer[IntfKind(c, k)] ELSE c.intlv

HasRoom(c, r) ==
  LET sets == pow2[IndexStart(c) + c.setBits]
  IN \E m \in 0 .. r.start + r.size : r.start <= m * sets /\ (m + 1) * sets <= r.start + r.size

RoundRuby(c) ==
  /\ \A r \in RangesOf(c) :
       /\ Even(c, r, DirectoriesFrom(c), Log2(c.dirs))
       /\ "cache" \in DOMAIN Homes(c) => Even(c, r, c.block, Log2(Ways(c).cache))
  /\ \E r \in RangesOf(c) : HasRoom(c, r)
  /\ c.protocol = "MOESI_hammer" /\ c.dirs # 1 => c.setBits # 0

RoundClassic(c) ==
  /\ ~c.boot
  /\ \A k \in 1 .. Len(c.ranges) : Even(c, c.ranges[k], ChannelsFrom(c, k), Log2(c.channels))
  /\ \A j, k \in 1 .. Len(c.ranges) :
       j < k => \/ c.ranges[j].start + c.ranges[j].size <= c.ranges[k].start
                \/ c.ranges[k].start + c.ranges[k].size <= c.ranges[j].start

RoundMemories(c) == IF c.protocol = "classic" THEN RoundClassic(c) ELSE RoundRuby(c)
=============================================================================
