--------------------------- MODULE ClassicCaches ---------------------------
(***************************************************************************)
(* Simulations of programs with gem5's classic memory system:              *)
(* example/se.py with the caches of common/CacheConfig.py, and small       *)
(* systems that the scripts bind by hand: the simple-*.py scripts in       *)
(* configs/, the two scripts of learning_gem5/part1, splash2/run.py and    *)
(* splash2/cluster.py.  Addresses are in MB.                               *)
(***************************************************************************)
EXTENDS PortGraph

CONSTANT NumCpus   \* --num-cpus

ASSUME NumCpusAssumption == NumCpus \subseteq Nat \ {0}

Memory(mb) == (Obj("mem") :> {<<0, mb>>})

(* The interrupt controller of an x86 CPU. *)
X86Interrupts(i, bus) ==
  Graph(ToAll(bus, {<<"pio", i>>, <<"int_responder", i>>}) \cup {<<<<"int_requestor", i>>, bus>>},
        <<"pio", i>> :> {<<2 * 2^24 + i, 2 * 2^24 + i + 1>>} @@ <<"int_responder", i>> :> {<<10 * 2^24 + i, 10 * 2^24 + i + 1>>}, {})

NoGraph == Graph({}, <<>>, {})
Interrupts(isa, cpus, bus) ==
  IF isa # "x86" THEN NoGraph
  ELSE Graph(UNION {X86Interrupts(i, bus).binds : i \in cpus},
             [o \in Objs("pio", cpus) \cup Objs("int_responder", cpus) |-> X86Interrupts(o[2], bus).ranges[o]], {})
-----------------------------------------------------------------------------
(* CacheConfig.config_cache() *)
NeoverseTypes == {"O3_ARM_Neoverse_N1", "O3_ARM_Neoverse_N1_128", "O3_ARM_Neoverse_N1_256", "O3_ARM_Neoverse_N1_512",
                  "O3_ARM_Neoverse_A64FX_512"}

(* setCPUClass(): all but the simple CPUs and those of KVM need caches.    *)
RequireCaches(s) == s.cpu_type \notin {"NonCachingSimpleCPU", "ArmV8KvmCPU"}

(* config_etrace(): the class of the N1 is not derived from DerivO3CPU,    *)
(* unlike those of the other Neoverse types.                               *)
EtraceFails(s) == s.elastic_trace_en /\ s.cpu_type \notin (NeoverseTypes \ {"O3_ARM_Neoverse_N1"}) \cup {"DerivO3CPU"}

(* Only the branches of these types define l3_cache_class; ExternalCache   *)
(* has no mem_side, which connectAllPorts() asks for.                      *)
CacheOptionsFail(s) ==
  \/ RequireCaches(s) /\ ~s.caches
  \/ EtraceFails(s)
  \/ s.external
  \/ s.l2cache /\ s.elastic_trace_en
  \/ s.cpu_type \notin NeoverseTypes

(* Cached CPUs have a private hierarchy of two levels over the shared L3;  *)
(* others would connect to the L3's bus.  A monitor sits between data port   *)
(* and data cache; addTwoLevelCacheHierarchy() takes it for the cache and  *)
(* binds its lower port, which the data cache has, to the bus.             *)
ConfigCacheOf(s, i) ==
  LET walkers == {<<"itb_walker", i>>, <<"dtb_walker", i>>}
      data == IF s.memchecker
              THEN {<<<<"dcache_port", i>>, <<"dcache_mon", i>>>>, <<<<"dcache_mon", i>>, <<"dcache", i>>>>,
                    <<<<"dcache_mon", i>>, <<"toL2Bus", i>>>>}
              ELSE Chain(<<<<"dcache_port", i>>, <<"dcache", i>>, <<"toL2Bus", i>>>>)
  IN IF s.caches
     THEN Chain(<<<<"icache_port", i>>, <<"icache", i>>, <<"toL2Bus", i>>, <<"l2cache", i>>, Obj("tol3Bus")>>)
          \cup data \cup AllTo(walkers, <<"toL2Bus", i>>)
     ELSE AllTo(walkers \cup {<<"icache_port", i>>, <<"dcache_port", i>>}, Obj("tol3Bus"))

ConfigCache(s, cpus) ==
  Graph(UNION {ConfigCacheOf(s, i) : i \in cpus} \cup Chain(<<Obj("tol3Bus"), Obj("l3cache"), Obj("membus")>>), <<>>, {})
-----------------------------------------------------------------------------
(* example/se.py, without --ruby and on an Arm build *)
SeOptions == [script : {"se"}, num_cpus : NumCpus, cpu_type : {"O3_ARM_Neoverse_N1", "O3_ARM_Neoverse_N1_128", "DerivO3CPU", "NonCachingSimpleCPU", "ArmV8KvmCPU"},
              caches : BOOLEAN, l2cache : BOOLEAN, memchecker : BOOLEAN, external : BOOLEAN, elastic_trace_en : BOOLEAN,
              workload : {"none", "bench", "cmd"}, programs : 1 .. 3, smt : BOOLEAN, simpoint_profile : BOOLEAN]

(* All options of the memory system with one program, and all options of   *)
(* the workload with caches and nothing else.                              *)
SeSystems == {s \in SeOptions :
  \/ s.workload = "cmd" /\ s.programs = 1 /\ ~s.smt /\ ~s.simpoint_profile
  \/ s.caches /\ ~s.l2cache /\ ~s.memchecker /\ ~s.external /\ ~s.elastic_trace_en}

SeFails(s) ==
  \/ s.workload = "none"
  \/ s.workload = "bench" /\ s.programs # s.num_cpus
  \/ s.workload = "cmd" /\ s.smt /\ s.cpu_type # "DerivO3CPU"
  \/ s.smt /\ s.num_cpus > 1
  \/ s.cpu_type = "ArmV8KvmCPU"
  \/ s.simpoint_profile /\ (s.cpu_type # "NonCachingSimpleCPU" \/ s.num_cpus > 1)
  \/ ~s.smt /\ s.programs > 1 /\ s.programs < s.num_cpus
  \/ CacheOptionsFail(s)

SeGraph(s) ==
  Merge(ConfigCache(s, 0 .. s.num_cpus - 1),
        Graph(Chain(<<Obj("system_port"), Obj("membus"), Obj("mem")>>), Memory(512), {}))
-----------------------------------------------------------------------------
(* Scripts that take no options.  Each builds one CPU whose ports are bound *)
(* to the memory bus, over memory of some MB.                              *)
Script(name, isa, mb) == [script |-> name, isa |-> isa, mem |-> mb]

SimpleArm            == Script("simple-arm", "arm", 512)
SimpleArmStream      == Script("simple-arm-stream", "arm", 512)
SimpleArmStreamC     == Script("simple-arm-stream_c", "arm", 512)
SimpleArmTinymembench == Script("simple-arm-tinymembench", "arm", 512)
SimpleArmNpbBt       == Script("simple-arm-NPB-BT", "arm", 512)
SimpleRiscv          == Script("simple-riscv", "riscv", 8192)
Learning             == {Script(name, isa, 512) : name \in {"simple", "two_level"}, isa \in {"arm", "riscv", "x86"}}
SimpleSystems == {SimpleArm, SimpleArmStream, SimpleArmStreamC, SimpleArmTinymembench, SimpleArmNpbBt, SimpleRiscv} \cup Learning

SimpleScripts == {s.script : s \in SimpleSystems} \ {"two_level"}

(* learning_gem5/part1/simple.py, as which the others begin. *)
SimpleGraph(s) ==
  Merge(Graph(AllTo({Obj("icache_port"), Obj("dcache_port"), Obj("system_port")}, Obj("membus")) \cup Chain(<<Obj("membus"), Obj("mem")>>),
              Memory(s.mem), {}),
        Interrupts(s.isa, {0}, Obj("membus")))

(* The connect* methods of learning_gem5/part1/caches.py and what          *)
(* two_level.py makes of them.                                             *)
ConnectL1(port, cache, bus) == Chain(<<Obj(port), Obj(cache), Obj(bus)>>)
ConnectL2(above, below) == Chain(<<Obj(above), Obj("l2cache"), Obj(below)>>)

TwoLevelGraph(s) ==
  Merge(Graph(ConnectL1("icache_port", "icache", "l2bus") \cup ConnectL1("dcache_port", "dcache", "l2bus") \cup ConnectL2("l2bus", "membus")
              \cup Chain(<<Obj("system_port"), Obj("membus"), Obj("mem")>>), Memory(s.mem), {}),
        Interrupts(s.isa, {0}, Obj("membus")))
-----------------------------------------------------------------------------
(* splash2/run.py: private L1 caches, one L2 cache.  In cluster.py the     *)
(* number of CPUs of a cluster is the result of a division, which is no    *)
(* integer: range() refuses it.                                            *)
SplashBenchmarks == {"Cholesky", "FFT", "LUContig", "LUNoncontig", "Radix", "Barnes", "FMM", "OceanContig", "OceanNoncontig",
                     "Raytrace", "WaterNSquared", "WaterSpatial"}
SplashSystems == [script : {"splash2/run", "splash2/cluster"}, numcpus : {0} \cup NumCpus, benchmark : {"FFT", "Volrend"}]

SplashFails(s) == s.numcpus = 0 \/ s.benchmark \notin SplashBenchmarks
ClusterFails(s) == s.script = "splash2/cluster"

SplashGraph(s) ==
  LET cpus == 0 .. s.numcpus - 1
      Split(i) == Chain(<<<<"icache_port", i>>, <<"icache", i>>, Obj("toL2Bus")>>) \cup Chain(<<<<"dcache_port", i>>, <<"dcache", i>>, Obj("toL2Bus")>>)
                  \cup AllTo({<<"itb_walker", i>>, <<"dtb_walker", i>>}, Obj("toL2Bus"))
  IN Graph(UNION {Split(i) : i \in cpus} \cup Chain(<<Obj("toL2Bus"), Obj("l2"), Obj("membus"), Obj("mem")>>)
           \cup Chain(<<Obj("system_port"), Obj("membus")>>), Memory(128), {})
=============================================================================
