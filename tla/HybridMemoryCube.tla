-------------------------- MODULE HybridMemoryCube --------------------------
(***************************************************************************)
(* The Hybrid Memory Cube of common/HMC.py with the part of                *)
(* common/MemConfig.py that attaches its vaults, under traffic generators  *)
(* (example/hmctest.py) or a CPU (example/hmc_hello.py).  Four serial      *)
(* links lead to four crossbars with four vaults each.  Addresses are in   *)
(* vaults.                                                                 *)
(***************************************************************************)
EXTENDS PortGraph

HmcOptions == [script : {"hmctest", "hmc_hello"}, arch : {"same", "distributed", "mixed"},
               enable_global_monitor : BOOLEAN, enable_link_monitor : BOOLEAN,
               mem_chunk : 3 .. 5, num_links_controllers : {3, 4}, mem_channels : {1, 2},
               link_range : {2, 4}]   \* --serial-link-addr-range

(* The monitors with the other options at their defaults, and each of the  *)
(* others alone.                                                           *)
HmcSystems == {s \in HmcOptions :
  LET changed == {f \in {"chunk", "controllers", "channels", "range"} :
                    \/ f = "chunk" /\ s.mem_chunk # 4
                    \/ f = "controllers" /\ s.num_links_controllers # 4
                    \/ f = "channels" /\ s.mem_channels # 1
                    \/ f = "range" /\ s.link_range # 4}
  IN IF s.enable_global_monitor \/ s.enable_link_monitor THEN changed = {} ELSE Cardinality(changed) <= 1}

Links  == 0 .. 3
Vaults == 0 .. 15
MemRanges(first, last) == {<<v, v + 1>> : v \in {w \in first .. last - 1 : w \in Vaults}}

(* A monitor, if there are any, and what is below it. *)
Monitored(name, on, i, below) == IF on THEN <<<<name, i>>>> \o below ELSE below

(* What the i-th link is reached through. *)
LinkPath(s, i) == Monitored("lmonitor", s.enable_global_monitor, i, <<<<"seriallink", i>>>>)

(* The ranges of the links.  The mutant counts the links from one. *)
SerRangeFromOne(s, i) ==
  CASE s.arch = "same"        -> <<0, 4 * s.link_range>>
    [] s.arch = "distributed" -> <<(i + 1) * s.link_range, (i + 2) * s.link_range>>
    [] s.arch = "mixed"       -> IF i < 2 THEN <<i * s.link_range, (i + 1) * s.link_range>> ELSE <<0, 4 * s.link_range>>
SerRange(s, i) ==
  CASE s.arch = "same"        -> <<0, 4 * s.link_range>>
    [] s.arch = "distributed" -> <<i * s.link_range, (i + 1) * s.link_range>>
    [] s.arch = "mixed"       -> IF i < 2 THEN <<i * s.link_range, (i + 1) * s.link_range>> ELSE <<0, 4 * s.link_range>>

(* config_hmc_host_ctrl(): links that nothing is bound to yet are spare,   *)
(* and so are their monitors.                                              *)
ConfigHmcHostCtrl(s) ==
  LET behindBus == CASE s.arch = "distributed" -> 0 .. s.num_links_controllers - 1
                     [] s.arch = "mixed" -> {0, 1}
                     [] s.arch = "same" -> {}
      monitored == CASE ~s.enable_global_monitor -> {}
                     [] s.arch = "same" -> 0 .. s.num_links_controllers - 1
                     [] OTHER -> behindBus
  IN Graph(UNION {Chain(<<Obj("membus")>> \o LinkPath(s, i)) : i \in behindBus} \cup UNION {Chain(LinkPath(s, i)) : i \in monitored}
           \cup (IF s.arch = "same" THEN {} ELSE Chain(<<Obj("membus"), Obj("badaddr")>>)),
           [o \in Objs("seriallink", Links) |-> {SerRange(s, o[2])}] @@ (IF s.arch = "same" THEN <<>> ELSE Obj("badaddr") :> {}),
           Objs("seriallink", Links) \cup (IF s.enable_global_monitor THEN Objs("lmonitor", Links) ELSE {}))

(* The bridges between crossbars, numbered 10 * from + to.                 *)
Buffers(s) ==
  CASE s.arch = "same"        -> {b \in Links \X Links : b[1] # b[2]}
    [] s.arch = "mixed"       -> {<<3, 0>>, <<3, 1>>, <<3, 2>>, <<2, 0>>, <<2, 1>>, <<2, 3>>}
    [] s.arch = "distributed" -> {}

(* The vaults behind the crossbar a bridge leads to.                        *)
BufferRange(s, b) ==
  IF s.arch = "same" THEN MemRanges(b[2] * s.mem_chunk, (b[2] + 1) * s.mem_chunk) ELSE MemRanges(4 * b[2], 4 * (b[2] + 1))

(* Bridges of an all-to-all cube are created by the chunk, and used by the *)
(* number of crossbars: some may be left over.                             *)
NumBuffers(s) == 4 * (s.mem_chunk - 1)
SpareBuffers(s) == IF s.arch = "same" THEN Objs("buffer", 100 .. 99 + NumBuffers(s) - Cardinality(Buffers(s))) ELSE {}

ConfigHmcDev(s) ==
  LET Name(b) == <<"buffer", 10 * b[1] + b[2]>>
  IN Graph(UNION {Chain(<<<<"seriallink", i>>>> \o Monitored("dlmonitor", s.enable_link_monitor, i, <<<<"xbar", i>>>>)) : i \in Links}
           \cup UNION {Chain(<<<<"xbar", b[1]>>, Name(b), <<"xbar", b[2]>>>>) : b \in Buffers(s)}
           \cup (IF s.arch = "same" THEN Chain(<<Obj("system_port"), <<"xbar", 3>>>>) ELSE {}),
           [o \in {Name(b) : b \in Buffers(s)} |-> BufferRange(s, <<o[2] \div 10, o[2] % 10>>)],
           SpareBuffers(s))

(* config_mem(): one controller for each range and channel. *)
ConfigVaults == Graph({<<<<"xbar", v \div 4>>, <<"vault", v>>>> : v \in Vaults}, [o \in Objs("vault", Vaults) |-> {<<o[2], o[2] + 1>>}], {})

(* build_system() of hmctest.py *)
Generators(s) ==
  CASE s.arch = "distributed" -> AllTo(Objs("tgen", Links) \cup {Obj("system_port")}, Obj("membus"))
    [] s.arch = "mixed"       -> AllTo(Objs("tgen", {0, 1}) \cup {Obj("system_port")}, Obj("membus"))
                                 \cup UNION {Chain(<<<<"tgen", i>>>> \o LinkPath(s, i)) : i \in {2, 3}}
    [] s.arch = "same"        -> UNION {Chain(<<<<"tgen", i>>>> \o LinkPath(s, i)) : i \in 0 .. s.num_links_controllers - 1}

(* hmc_hello.py, which takes a memory bus for granted *)
HelloCpu == AllTo({Obj("icache_port"), Obj("dcache_port"), Obj("system_port")}, Obj("membus"))

HmcGraph(s) ==
  Merge(Graph(IF s.script = "hmctest" THEN Generators(s) ELSE HelloCpu, <<>>, IF s.script = "hmctest" THEN Objs("tgen", Links) ELSE {}),
        Merge(Merge(ConfigHmcHostCtrl(s), ConfigHmcDev(s)), ConfigVaults))

(* The 17th controller has no crossbar; the bridges run out; a link has no *)
(* monitor; without a memory bus nothing can be bound to it.               *)
HmcFails(s) ==
  \/ s.mem_channels > 1
  \/ s.arch = "same" /\ NumBuffers(s) < Cardinality(Buffers(s))
  \/ s.enable_link_monitor /\ s.num_links_controllers < 4
  \/ s.script = "hmc_hello" /\ s.arch = "same"

(* Bridges or links that no one binds: gem5 refuses the system.            *)
HmcRefused(s) ==
  \/ s.arch = "same" /\ s.mem_chunk > 4
  \/ s.num_links_controllers < 4 /\ s.arch # "mixed"
  \/ s.script = "hmc_hello" /\ s.arch = "mixed"

(* What a requester reaches by the header of HMC.py: a link of an all-to-  *)
(* all cube all vaults, links of a distributed one their own vaults, which *)
(* the bus joins, and the first two of a mixed one theirs only.  Where a   *)
(* link's range is not that of its vaults, what is in both.                *)
HmcReaches(s, source) ==
  LET direct == s.arch = "same" \/ (s.arch = "mixed" /\ source \in Objs("tgen", {2, 3}))
      links == IF s.arch = "mixed" THEN {0, 1} ELSE Links
  IN IF direct THEN Vaults ELSE {v \in Vaults : \E i \in links : v \div 4 = i /\ v \div s.link_range = i}
=============================================================================
