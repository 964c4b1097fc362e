---------------------------- MODULE FullSystems ----------------------------
(***************************************************************************)
(* Full systems without Ruby: example/fs.py over common/FSConfig.py.  The  *)
(* system under test of an Arm build, and the system that drives it with   *)
(* two configurations (--dual or a benchmark of two machines), of an Arm   *)
(* or an x86 build.  What gem5's platforms attach to a bus is external:    *)
(* one device on the chip, one behind the I/O bus and one that uses DMA.   *)
(* Addresses are in MB for Arm and in kB for x86; the highest hexadecimal  *)
(* digit of an x86 address above the memory counts 2^24.                   *)
(***************************************************************************)
EXTENDS ClassicCaches, SequencesExt, FiniteSetsExt

RangesSize(ranges) == MapThenSumSet(LAMBDA r : r[2] - r[1], ranges)

(* The memory regions of two platforms, in MB. *)
MemRegions == {<<<<2048, 4096>>>>, <<<<2048, 4096>>, <<34816, 65536>>>>}
ArmMemSizes == {512, 2048, 2049, 32768, 32769}
X86MemSizes == {2^20, 3 * 2^20, 3 * 2^20 + 4, 2^22}

FsOptions == [script : {"fs"}, isa : {"arm", "riscv", "x86"}, machine : MemRegions, mem : ArmMemSizes,
              num_cpus : NumCpus, cpu_type : {"O3_ARM_Neoverse_N1", "O3_ARM_Neoverse_N1_128", "DerivO3CPU"}, caches : BOOLEAN, l2cache : BOOLEAN,
              memchecker : BOOLEAN, external : BOOLEAN, elastic_trace_en : BOOLEAN, command_line : SUBSET {"line", "file"},
              configs : 1 .. 3, dist : BOOLEAN]

FsSystems == {s \in FsOptions :
  /\ s.cpu_type \in NeoverseTypes <=> s.isa = "arm"
  /\ \/ s.mem = 512 /\ Len(s.machine) = 1 /\ s.command_line = {} /\ s.configs = 1 /\ ~s.dist
     \/ s.num_cpus = 1 /\ s.caches /\ ~s.l2cache /\ ~s.memchecker /\ ~s.external /\ ~s.elastic_trace_en}

DriveSystems == [script : {"drive"}, isa : {"arm"}, machine : MemRegions, mem : ArmMemSizes, num_cpus : NumCpus]
                \cup [script : {"drive"}, isa : {"x86"}, mem : X86MemSizes, num_cpus : NumCpus]
-----------------------------------------------------------------------------
(* makeArmSystem(): regions are filled in turn, the last one in part.      *)
Filled(regions, size) ==
  FoldLeft(LAMBDA acc, r :
             IF acc.remain = 0 THEN acc
             ELSE IF acc.remain > r[2] - r[1]
                  THEN [ranges |-> acc.ranges \cup {r}, remain |-> acc.remain - (r[2] - r[1])]
                  ELSE [ranges |-> acc.ranges \cup {<<r[1], r[1] + acc.remain>>}, remain |-> 0],
           [ranges |-> {}, remain |-> size], regions)

ArmMemRanges(s) == Filled(s.machine, s.mem).ranges
ArmMemoryFails(s) == Filled(s.machine, s.mem).remain > 0

(* A memory bus answers to what nothing on it answers to. *)
MemBus == Graph(Chain(<<Obj("membus"), Obj("badaddr")>>), Obj("badaddr") :> {}, {})

(* The platform's devices: on the chip at 704 MB, beside it at 448 MB.     *)
AttachOnChipIO == Graph(Chain(<<Obj("membus"), Obj("gic")>>), Obj("gic") :> {<<704, 706>>} @@ Obj("bridge") :> {<<448, 512>>}, {})
AttachIO == Graph(Chain(<<Obj("iobus"), Obj("offchip")>>) \cup Chain(<<Obj("dma"), Obj("iobus")>>), Obj("offchip") :> {<<448, 512>>}, {})

MakeArmSystem ==
  Merge(Merge(Graph(Chain(<<Obj("system_port"), Obj("membus"), Obj("bridge"), Obj("iobus")>>), <<>>, {}), MemBus), Merge(AttachOnChipIO, AttachIO))
-----------------------------------------------------------------------------
(* makeX86System(): memory above 3 GB moves behind the devices.            *)
X86MemRanges(s) ==
  LET excess == s.mem - 3 * 2^20
  IN IF excess <= 0 THEN {<<0, s.mem>>} ELSE {<<0, 3 * 2^20>>, <<2^22, 2^22 + excess>>}

IoSpace     == 8 * 2^24
Interrupts0 == 10 * 2^24
PciConfig   == 12 * 2^24
AddrMax     == 16 * 2^24

PcAttachIO ==
  Graph(ToAll(Obj("iobus"), {Obj("io_apic"), Obj("com"), Obj("pci")}) \cup Chain(<<Obj("dma"), Obj("iobus")>>),
        Obj("io_apic") :> {<<2^22 - 20480, 2^22 - 20472>>} @@ Obj("com") :> {<<IoSpace, IoSpace + 1>>}
        @@ Obj("pci") :> {<<PciConfig, PciConfig + 256>>}, {})

ConnectX86ClassicSystem(s) ==
  Merge(Merge(MemBus, PcAttachIO),
        Graph(Chain(<<Obj("system_port"), Obj("membus"), Obj("bridge"), Obj("iobus"), Obj("apicbridge"), Obj("membus")>>),
              Obj("bridge") :> {<<3 * 2^20, 2^22 - 64>>, <<IoSpace, Interrupts0>>, <<PciConfig, AddrMax>>}
              @@ Obj("apicbridge") :> {<<Interrupts0, Interrupts0 + 4 * s.num_cpus>>}, {}))

(* The x86 CPU's interrupt controller: its own registers, and four kB per  *)
(* CPU for messages.                                                       *)
X86Cpu ==
  Graph(ToAll(Obj("membus"), {Obj("pio"), Obj("int_responder")}) \cup Chain(<<Obj("int_requestor"), Obj("membus")>>),
        Obj("pio") :> {<<2 * 2^24, 2 * 2^24 + 4>>} @@ Obj("int_responder") :> {<<Interrupts0, Interrupts0 + 4>>}, {})

(* makeLinuxX86System(): the memory map for the kernel, as type, first     *)
(* address and size.                                                       *)
E820(s) ==
  LET ranges == X86MemRanges(s)
      first == CHOOSE r \in ranges : r[1] = 0
  IN {<<"available", 0, 639>>, <<"reserved", 639, 385>>, <<"available", 1024, first[2] - 1024>>, <<"reserved", 2^22 - 64, 64>>}
     \cup (IF Cardinality(ranges) = 1 THEN {<<"reserved", first[2], 3 * 2^20 - first[2]>>} ELSE {})
     \cup {<<"available", r[1], r[2] - r[1]>> : r \in ranges \ {first}}

(* The MP table: APICs of the CPUs and of the I/O; interrupts as type, bus *)
(* (0 is PCI, 1 is ISA), request of the bus and pin of the I/O APIC.  Each *)
(* request of ISA is assigned twice: by the 8259, all of whose interrupts  *)
(* are external ones at pin 0, and at a pin of its own.  The ACPI table    *)
(* repeats those of type INT.                                              *)
ApicIds(s) == [cpus |-> 0 .. s.num_cpus - 1, io_apic |-> s.num_cpus]
Assigned(type, bus, irq, pin) == [type |-> type, bus |-> bus, irq |-> irq, pin |-> pin]
IsaIrqs == {0, 1} \cup 3 .. 14
Pins ==
  {Assigned("INT", 0, 16, 16)}
  \cup {Assigned("ExtInt", 1, irq, 0) : irq \in IsaIrqs}
  \cup {Assigned("INT", 1, irq, IF irq = 0 THEN 2 ELSE irq) : irq \in IsaIrqs}
-----------------------------------------------------------------------------
FsMemRanges(s) == IF s.isa = "arm" THEN ArmMemRanges(s) ELSE X86MemRanges(s)

Memories(s) ==
  LET mem(r) == <<"mem", r[1]>>
  IN Graph({<<Obj("membus"), mem(r)>> : r \in FsMemRanges(s)},
           [o \in {mem(r) : r \in FsMemRanges(s)} |-> {r \in FsMemRanges(s) : r[1] = o[2]}], {})

(* Devices reach memory, and nothing else of the memory bus, through an    *)
(* I/O cache or a bridge.                                                  *)
IoToMemory(s, name) == Graph(Chain(<<Obj("iobus"), Obj(name), Obj("membus")>>), Obj(name) :> FsMemRanges(s), {})

(* build_test_system() without --ruby.  The walker ports of the CPUs, like *)
(* all others, are bound by config_cache().                                *)
BuildTestSystem(s) ==
  Merge(Merge(MakeArmSystem, IoToMemory(s, IF s.caches \/ s.l2cache THEN "iocache" ELSE "iobridge")),
        Merge(ConfigCache(s, 0 .. s.num_cpus - 1), Memories(s)))

(* build_drive_system(): one CPU without caches. *)
BuildDriveSystem(s) ==
  LET cpu == Graph(AllTo(Objs("icache_port", {0}) \cup Objs("dcache_port", {0}) \cup Objs("itb_walker", {0}) \cup Objs("dtb_walker", {0}),
                         Obj("membus")), <<>>, {})
      platform == IF s.isa = "arm" THEN MakeArmSystem ELSE Merge(ConnectX86ClassicSystem(s), X86Cpu)
  IN Merge(Merge(platform, cpu), Merge(IoToMemory(s, "iobridge"), Memories(s)))

FsGraph(s) == IF s.script = "fs" THEN BuildTestSystem(s) ELSE BuildDriveSystem(s)

(* Two machines become a dual system, and one of a distributed simulation  *)
(* is not looked at then; there is no system of three.                     *)
RootFails(s) == s.configs > 2

(* cmd_line_template() *)
CommandLineFails(s) == s.command_line = {"line", "file"}

FsFails(s) ==
  IF s.script = "drive" THEN s.isa = "arm" /\ ArmMemoryFails(s)
  ELSE \/ CommandLineFails(s)
       \/ s.isa = "arm" /\ ArmMemoryFails(s)
       \/ CacheOptionsFail(s)
       \/ RootFails(s)

(* What DMA reaches: memory, the devices beside it, and on x86 the message *)
(* ranges of the CPUs' interrupt controllers.                              *)
DmaTargets == {"mem", "offchip", "io_apic", "com", "pci", "int_responder"}
-----------------------------------------------------------------------------
(* All of the memory that was asked for is there.  On x86 the kernel is    *)
(* told to use all of the memory above the first MB and nothing that is    *)
(* not memory, and the parts of its map do not overlap.  Of the interrupts *)
(* that are assigned only those of the 8259 share a pin, and no other has  *)
(* theirs; the I/O APIC has a number that no CPU has.                      *)
MemoryIsAsked(s) == RangesSize(FsMemRanges(s)) = s.mem

TablesSound(s) ==
  LET available == {e \in E820(s) : e[1] = "available"}
      ends == {e[2] : e \in E820(s)} \cup {e[2] + e[3] - 1 : e \in E820(s)} \cup UNION {{r[1], r[2] - 1, r[2]} : r \in X86MemRanges(s)}
      In(a, e) == e[2] <= a /\ a < e[2] + e[3]
  IN /\ \A a \in ends : a >= 1024 => (InRanges(a, X86MemRanges(s)) <=> \E e \in available : In(a, e))
     /\ \A e, f \in E820(s) : e # f => ~\E a \in ends : In(a, e) /\ In(a, f)
     /\ \A p, q \in Pins : p.pin = q.pin => p = q \/ (p.type = "ExtInt" /\ q.type = "ExtInt")
     /\ ApicIds(s).io_apic \notin ApicIds(s).cpus
=============================================================================
