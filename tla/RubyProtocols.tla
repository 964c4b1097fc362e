--------------------------- MODULE RubyProtocols ---------------------------
(***************************************************************************)
(* The controllers that create_system() of ruby/<protocol>.py makes for a  *)
(* record c of command-line options, in the order of the list it hands to  *)
(* the topology.  Caches, sequencers, message buffers, clocks and          *)
(* latencies are left out; a controller has its machine type and its       *)
(* version, its number among the controllers of that type.  In CHI the     *)
(* list is one of nodes with several controllers, in GPU_VIPER a tree of   *)
(* clusters.                                                               *)
(***************************************************************************)
EXTENDS Integers, Sequences, SequencesExt

Controller(type, version) == [type |-> type, version |-> version]

(* n controllers created in a loop. *)
Numbered(type, n) == [k \in 1 .. n |-> Controller(type, k - 1)]

(* 2 ** n *)
pow2[n \in Nat] == IF n = 0 THEN 1 ELSE 2 * pow2[n - 1]

(* int(math.log(n, 2)) *)
Log2(n) == CHOOSE k \in 0 .. n : pow2[k] <= n /\ n < pow2[k + 1]

TotalMemory(c) == FoldLeft(LAMBDA sum, r : sum + r.size, 0, c.ranges)

(* create_directories(): one per --num-dirs and one for the boot memory;   *)
(* the mutant gives the last one the number the loop has ended with.       *)
DirectoriesSameVersion(c) ==
  Numbered("Directory", c.dirs)
    \o (IF c.boot THEN <<Controller("Directory", c.dirs - 1)>> ELSE <<>>)
Directories(c) ==
  Numbered("Directory", c.dirs)
    \o (IF c.boot THEN <<Controller("Directory", c.dirs)>> ELSE <<>>)

(* The DMA ports and, in full-system mode, the io controller. *)
Dmas(c) ==
  Numbered("DMA", c.dmas) \o (IF c.full THEN <<Controller("DMA", c.dmas)>> ELSE <<>>)

MI_example(c)   == Numbered("L1Cache", c.cpus) \o Directories(c) \o Dmas(c)
MOESI_hammer(c) == Numbered("L1Cache", c.cpus) \o Directories(c) \o Dmas(c)

MESI_Two_Level(c) ==
  Numbered("L1Cache", c.cpus) \o Numbered("L2Cache", c.l2s) \o Directories(c) \o Dmas(c)
MOESI_CMP_directory(c) ==
  Numbered("L1Cache", c.cpus) \o Numbered("L2Cache", c.l2s) \o Directories(c) \o Dmas(c)
MOESI_CMP_token(c) ==
  Numbered("L1Cache", c.cpus) \o Numbered("L2Cache", c.l2s) \o Directories(c) \o Dmas(c)

(* Nothing but CPUs and directories: dma_ports must be empty. *)
Garnet_standalone(c) == Numbered("L1Cache", c.cpus) \o Directories(c)

(* Clusters of CPUs and L2 caches, numbered across clusters. *)
MESI_Three_Level(c) ==
  LET OfClusters(type, n) ==
        LET per == n \div c.clusters
        IN FlattenSeq([i \in 1 .. c.clusters |->
                         [j \in 1 .. per |-> Controller(type, (i - 1) * per + j - 1)]])
  IN OfClusters("L0Cache", c.cpus) \o OfClusters("L1Cache", c.cpus)
       \o OfClusters("L2Cache", c.l2s) \o Directories(c) \o Dmas(c)
MESI_Three_Level_HTM(c) == MESI_Three_Level(c)

(* CHI: nodes.  Versions are drawn per class in the order of construction: *)
(* the private L2 caches are added after the L1s of all CPUs.              *)
ChiNode(class, type, versions) ==
  [class |-> class, controllers |-> [k \in DOMAIN versions |-> Controller(type, versions[k])]]

CHI_RNF(c) ==
  [k \in 1 .. c.cpus |-> ChiNode("RNF", "Cache", <<2 * k - 2, 2 * k - 1, 2 * c.cpus + k - 1>>)]
CHI_HNF(c) == [k \in 1 .. c.l3s |-> ChiNode("HNF", "Cache", <<3 * c.cpus + k - 1>>)]
CHI_SNF(c) ==
  [k \in 1 .. c.dirs |-> ChiNode("SNF_MainMem", "Memory", <<k - 1>>)]
    \o (IF c.boot THEN <<ChiNode("SNF_BootMem", "Memory", <<c.dirs>>)>> ELSE <<>>)
CHI_RNI(c) ==
  LET first == 3 * c.cpus + c.l3s
  IN [k \in 1 .. c.dmas |-> ChiNode("RNI_DMA", "Cache", <<first + k - 1>>)]
       \o (IF c.full THEN <<ChiNode("RNI_IO", "Cache", <<first + c.dmas>>)>> ELSE <<>>)

CHI(c) == CHI_RNF(c) \o CHI_HNF(c) \o CHI_SNF(c) \o CHI_RNI(c)

(* GPU_VIPER: directories, a cluster of CPU core pairs and one of the GPU. *)
(* Scalar caches and the command processors' are SQC and TCP controllers   *)
(* too, numbered on after the others.  The clusters within a cluster are   *)
(* added to it after its controllers.                                      *)
ClusterOf(controllers, clusters) == [controllers |-> controllers, clusters |-> clusters]

construct_dirs(c)      == Numbered("Directory", c.dirs)
construct_corepairs(c) == Numbered("CorePair", (c.cpus + 1) \div 2)
construct_tcps(c)      == Numbered("TCP", c.cus)
construct_sqcs(c)      == Numbered("SQC", c.sqcs)
construct_scalars(c)   == [k \in 1 .. c.scalars |-> Controller("SQC", c.sqcs + k - 1)]
construct_cmdprocs(c)  ==
  FlattenSeq([k \in 1 .. c.cps |-> <<Controller("TCP", c.cus + k - 1),
                                     Controller("SQC", c.sqcs + c.scalars + k - 1)>>])
construct_tccs(c)      == Numbered("TCC", c.tccs)

GPU_VIPER(c) ==
  LET gpu == construct_tcps(c) \o construct_sqcs(c) \o construct_scalars(c)
               \o construct_cmdprocs(c) \o construct_tccs(c) \o Numbered("DMA", c.dmas)
  IN ClusterOf(construct_dirs(c),
               <<ClusterOf(construct_corepairs(c), <<>>), ClusterOf(gpu, <<>>)>>)

(* The protocols gem5 can be built with, and classic memory. *)
Protocols ==
  {"MI_example", "MOESI_hammer", "MESI_Two_Level", "MOESI_CMP_directory", "MOESI_CMP_token",
   "Garnet_standalone", "MESI_Three_Level", "MESI_Three_Level_HTM", "CHI", "GPU_VIPER",
   "MOESI_AMD_Base", "classic"}

(* What an assertion, fatal() or an exception in create_system() refuses.  *)
(* The one of MOESI_AMD_Base does not take the argument cpus that Ruby.py  *)
(* passes; the one of GPU_VIPER knows no dir_bits under --numa-high-bit.   *)
Refused(c) ==
  CASE c.protocol = "MI_example" -> TotalMemory(c) % c.dirs # 0
    [] c.protocol \in {"MESI_Three_Level", "MESI_Three_Level_HTM"} ->
         c.cpus % c.clusters # 0 \/ c.l2s % c.clusters # 0
    [] c.protocol = "MOESI_hammer" ->
         c.numa_high_bit # 0 /\ c.pf_on /\ c.numa_high_bit - Log2(c.dirs) <= c.pf_bits
    [] c.protocol = "Garnet_standalone" -> c.dmas # 0
    [] c.protocol = "CHI" ->
         c.dirs < 1 \/ c.l3s < 1 \/ c.topology \notin {"CustomMesh", "Crossbar", "Pt2Pt"}
    [] c.protocol = "GPU_VIPER" -> c.numa_high_bit # 0
    [] c.protocol = "MOESI_AMD_Base" -> TRUE
    [] OTHER -> FALSE

(* The list of controllers of the other protocols. *)
Nodes(c) ==
  CASE c.protocol = "MI_example"           -> MI_example(c)
    [] c.protocol = "MOESI_hammer"         -> MOESI_hammer(c)
    [] c.protocol = "MESI_Two_Level"       -> MESI_Two_Level(c)
    [] c.protocol = "MOESI_CMP_directory"  -> MOESI_CMP_directory(c)
    [] c.protocol = "MOESI_CMP_token"      -> MOESI_CMP_token(c)
    [] c.protocol = "Garnet_standalone"    -> Garnet_standalone(c)
    [] c.protocol = "MESI_Three_Level"     -> MESI_Three_Level(c)
    [] c.protocol = "MESI_Three_Level_HTM" -> MESI_Three_Level_HTM(c)

(* All controllers of a list, of nodes or of a tree of two levels. *)
Flat(c) ==
  CASE c.protocol = "CHI" ->
         LET nodes == CHI(c)
         IN FlattenSeq([k \in 1 .. Len(nodes) |-> nodes[k].controllers])
    [] c.protocol = "GPU_VIPER" ->
         LET main == GPU_VIPER(c)
         IN main.controllers \o main.clusters[1].controllers \o main.clusters[2].controllers
    [] OTHER -> Nodes(c)
=============================================================================
