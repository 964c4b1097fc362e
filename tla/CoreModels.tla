----------------------------- MODULE CoreModels -----------------------------
(***************************************************************************)
(* The out-of-order core models of common/cores/arm and what setup_cpu()   *)
(* of configs/multi-isa-nanogemm.py makes of one.                          *)
(*                                                                         *)
(* A model is a Python class: an attribute it does not define comes from   *)
(* the first of its bases that does, and in the end from gem5's BaseO3CPU. *)
(* Attributes that no configuration of the repository varies (the delays   *)
(* between stages, 1 throughout, and predictor details) are left out.      *)
(***************************************************************************)
EXTENDS Integers, Sequences, FiniteSets, SequencesExt

CONSTANTS
  Isas,        \* --isa
  CoreSettings \* the options about the core: a set of records

(* The counts are options of type int, lists of numbers of units.          *)
ASSUME CoreAssumption ==
  /\ Isas \subseteq {"aarch64", "riscv64"}
  /\ \A p \in CoreSettings :
       /\ {"simd_lat", "simd_count", "simd_phreg_count", "ld_count", "st_count", "iq_size",
           "rob_size", "decode_width", "commit_width", "fetch_buf_size"} \subseteq DOMAIN p
       /\ p.simd_count \in Nat /\ p.ld_count \in Nat /\ p.st_count \in Nat

VARIABLES
  core,     \* the CPU object: model, attributes, units and data cache
  setting   \* the options it was built with

coreVars == <<core, setting>>

None == [model |-> "none"]
-----------------------------------------------------------------------------
(* Functional units: operation classes with latencies, and a count. *)
Op(c, l)   == [class |-> c, lat |-> l, pipelined |-> TRUE]
Slow(c, l) == [class |-> c, lat |-> l, pipelined |-> FALSE]
Unit(n, ops) == [count |-> n, ops |-> ops]

SimdClasses == <<"SimdAdd", "SimdAddAcc", "SimdAlu", "SimdCmp", "SimdCvt", "SimdMisc",
  "SimdMult", "SimdMultAcc", "SimdShift", "SimdShiftAcc", "SimdSqrt", "SimdFloatAdd",
  "SimdFloatAlu", "SimdFloatCmp", "SimdFloatCvt", "SimdFloatDiv", "SimdFloatMisc",
  "SimdFloatMult", "SimdFloatMultAcc", "SimdFloatSqrt">>
ReduceClasses == <<"SimdReduceAdd", "SimdReduceAlu", "SimdReduceCmp", "SimdFloatReduceAdd",
  "SimdFloatReduceCmp">>
FloatClasses == <<"FloatAdd", "FloatCmp", "FloatCvt", "FloatDiv", "FloatSqrt", "FloatMultAcc",
  "FloatMisc", "FloatMult">>
Unpipelined == {"SimdFloatDiv", "SimdFloatSqrt", "SimdFloatReduceAdd", "FloatDiv", "FloatSqrt"}

(* The floating-point unit of the Neoverse models, by its latencies. *)
Fp(simd, reduce, float) ==
  LET classes == SimdClasses \o ReduceClasses \o FloatClasses
      lats == simd \o reduce \o float
  IN Unit(2, [i \in DOMAIN lats |-> IF classes[i] \in Unpipelined THEN Slow(classes[i], lats[i])
                                                                   ELSE Op(classes[i], lats[i])])

N1Simd  == <<2, 4, 2, 2, 3, 2, 4, 4, 2, 4, 9, 2, 2, 2, 3, 11, 2, 4, 4, 12>>
N1Float == <<2, 2, 3, 11, 12, 4, 3, 3>>

N1Ints == << Unit(3, <<Op("IntAlu", 1)>>),
             Unit(1, <<Op("IntAlu", 1), Op("IntMult", 2), Slow("IntDiv", 9), Op("IprAccess", 1)>>) >>
N1LoadStore == Unit(2, <<Op("MemRead", 1), Op("FloatMemRead", 1), Op("MemWrite", 1),
                         Op("FloatMemWrite", 1)>>)
N1PredAlu == Unit(1, <<Op("SimdPredAlu", 1)>>)

N1Memory ==
  << Unit(2, <<Op("MemRead", 1), Op("FloatMemRead", 1), Op("VectorUnitStrideLoad", 1),
               Op("VectorStridedLoad", 1), Op("VectorWholeRegisterLoad", 1)>>),
     Unit(2, <<Op("MemWrite", 1), Op("FloatMemWrite", 1), Op("VectorUnitStrideStore", 1),
               Op("VectorStridedStore", 1), Op("VectorWholeRegisterStore", 1)>>) >>

N1Vec == Unit(2, <<Op("VectorFloatArith", 4), Op("VectorFloatConvert", 4), Op("VectorFloatReduce", 4),
                   Op("VectorIntegerArith", 4), Op("VectorIntegerReduce", 4), Op("VectorMisc", 4),
                   Op("VectorConfig", 1)>>)

N1_FUP == N1Ints \o N1Memory \o << N1PredAlu, Fp(N1Simd, <<10, 12, 9, 8, 9>>, N1Float), N1Vec >>

(* The variants with one kind of unit for loads and stores. *)
CombinedFUP(fp) == N1Ints \o << N1LoadStore, N1PredAlu, fp >>
N1_FUP_128   == CombinedFUP(Fp(N1Simd, <<2, 3, 3, 2, 3>>, N1Float))
N1_FUP_256   == CombinedFUP(Fp(N1Simd, <<4, 6, 5, 4, 5>>, N1Float))
N1_FUP_512   == CombinedFUP(Fp(N1Simd, <<10, 12, 9, 8, 9>>, N1Float))
A64FX_FUP_512 ==
  CombinedFUP(Fp(<<4, 4, 4, 4, 9, 2, 9, 9, 4, 4, 12, 4, 4, 4, 9, 154, 4, 9, 9, 154>>,
                 <<10, 12, 9, 8, 9>>, <<4, 4, 9, 43, 43, 9, 9, 9>>))

v7a_FUP ==
  << Unit(2, <<Op("IntAlu", 1)>>),
     Unit(1, <<Op("IntMult", 3), Slow("IntDiv", 12), Op("IprAccess", 3)>>),
     Unit(1, <<Op("MemRead", 2), Op("FloatMemRead", 2)>>),
     Unit(1, <<Op("MemWrite", 2), Op("FloatMemWrite", 2)>>),
     LET lats == <<4, 4, 4, 4, 3, 3, 5, 5, 3, 3, 9, 5, 5, 3, 3, 3, 3, 3, 5, 9>>
     IN Unit(2, [i \in DOMAIN lats |-> Op(SimdClasses[i], lats[i])]
                \o <<Op("FloatAdd", 5), Op("FloatCmp", 5), Op("FloatCvt", 5), Slow("FloatDiv", 9),
                     Slow("FloatSqrt", 33), Op("FloatMult", 4), Op("FloatMultAcc", 5),
                     Op("FloatMisc", 3)>>) >>

(* gem5's own pool, as far as setup_cpu() tells its units apart: ports for *)
(* loads and for stores, none of either, and four for both.                *)
DefaultFUPool ==
  << Unit(6, <<Op("IntAlu", 1)>>),
     Unit(0, <<Op("MemRead", 1), Op("FloatMemRead", 1)>>),
     Unit(4, [i \in 1 .. 20 |-> Op(SimdClasses[i], 1)]),
     Unit(0, <<Op("MemWrite", 1), Op("FloatMemWrite", 1)>>),
     Unit(4, <<Op("MemRead", 1), Op("MemWrite", 1), Op("FloatMemRead", 1), Op("FloatMemWrite", 1)>>) >>
-----------------------------------------------------------------------------
(* What the classes define themselves. *)
N1Base == [fetchWidth |-> 4, fetchBufferSize |-> 64, decodeWidth |-> 4, renameWidth |-> 8,
  dispatchWidth |-> 8, issueWidth |-> 8, wbWidth |-> 8, commitWidth |-> 8, squashWidth |-> 8,
  trapLatency |-> 13, numROBEntries |-> 128, numPhysFloatRegs |-> 128, numPhysVecRegs |-> 128,
  numPhysIntRegs |-> 120, numIQEntries |-> 120, LQEntries |-> 68, SQEntries |-> 72]

v7a_3 == [fetchWidth |-> 3, fetchBufferSize |-> 16, decodeWidth |-> 3, renameWidth |-> 3,
  dispatchWidth |-> 6, issueWidth |-> 8, wbWidth |-> 8, commitWidth |-> 8, squashWidth |-> 8,
  trapLatency |-> 13, numROBEntries |-> 40, numPhysFloatRegs |-> 192, numPhysVecRegs |-> 48,
  numPhysIntRegs |-> 128, numIQEntries |-> 32, LQEntries |-> 16, SQEntries |-> 16]

BaseO3CPU == [fetchWidth |-> 8, fetchBufferSize |-> 64, decodeWidth |-> 8, renameWidth |-> 8,
  dispatchWidth |-> 8, issueWidth |-> 8, wbWidth |-> 8, commitWidth |-> 8, squashWidth |-> 8,
  trapLatency |-> 13, numROBEntries |-> 192, numPhysFloatRegs |-> 256, numPhysVecRegs |-> 256,
  numPhysIntRegs |-> 256, numIQEntries |-> 64, LQEntries |-> 32, SQEntries |-> 32]

Class(bases, defines, pool) == [bases |-> bases, defines |-> defines, pool |-> pool]
Inherited(bases) == Class(bases, [x \in {} |-> 0], <<>>)

N1BaseClass   == Class(<<"BaseO3CPU">>, N1Base, N1_FUP)
N1Class       == Inherited(<<"BaseO3CPU">>)
N1RiscvClass  == Inherited(<<"BaseO3CPU">>)
N1_128Class   == Class(<<"BaseO3CPU">>, N1Base, N1_FUP_128)
N1_256Class   == Class(<<"BaseO3CPU">>, N1Base, N1_FUP_256)
N1_512Class   == Class(<<"BaseO3CPU">>, N1Base, N1_FUP_512)
A64FX_512Class == Class(<<"BaseO3CPU">>, N1Base, A64FX_FUP_512)
v7aClass      == Class(<<"BaseO3CPU">>, v7a_3, v7a_FUP)

Classes == [BaseO3CPU |-> Class(<<>>, BaseO3CPU, DefaultFUPool),
  O3_ARM_Neoverse_N1_Base |-> N1BaseClass, O3_ARM_Neoverse_N1 |-> N1Class,
  O3_ARM_Neoverse_N1_but_RISCV |-> N1RiscvClass, O3_ARM_Neoverse_N1_128 |-> N1_128Class,
  O3_ARM_Neoverse_N1_256 |-> N1_256Class, O3_ARM_Neoverse_N1_512 |-> N1_512Class,
  O3_ARM_Neoverse_A64FX_512 |-> A64FX_512Class, O3_ARM_v7a_3 |-> v7aClass]

(* The class an attribute or the pool comes from, the first that defines   *)
(* it: bases are in a line.                                                *)
Lineage(c) == <<c>> \o Classes[c].bases
Owner(c, Defines(_)) ==
  LET line == Lineage(c)
  IN line[CHOOSE i \in DOMAIN line : Defines(line[i]) /\ \A k \in 1 .. i - 1 : ~Defines(line[k])]
Attribute(c, a) == Classes[Owner(c, LAMBDA d : a \in DOMAIN Classes[d].defines)].defines[a]
FuPool(c) == Classes[Owner(c, LAMBDA d : Classes[d].pool # <<>>)].pool
-----------------------------------------------------------------------------
(* One operation class of a unit, in the if ... elif ... of setup_cpu(). *)
SetOp(unit, i, p) ==
  CASE unit.ops[i].class \in {"SimdFloatMultAcc", "VectorFloatArith"} ->
         [count |-> p.simd_count, ops |-> [unit.ops EXCEPT ![i].lat = p.simd_lat]]
    [] unit.ops[i].class = "MemWrite" -> [unit EXCEPT !.count = p.st_count]
    [] unit.ops[i].class = "MemRead"  -> [unit EXCEPT !.count = p.ld_count]
    [] OTHER -> unit

(* All operation classes of a unit in turn: the last one decides.  The     *)
(* mutant stops at the first class it knows.                               *)
SetUnitOnce(unit, p) ==
  LET known == SelectInSeq(unit.ops, LAMBDA o : o.class \in {"SimdFloatMultAcc", "VectorFloatArith",
                                                              "MemWrite", "MemRead"})
  IN IF known = 0 THEN unit ELSE SetOp(unit, known, p)
SetUnit(unit, p) ==
  FoldLeft(LAMBDA u, i : SetOp(u, i, p), unit, [i \in DOMAIN unit.ops |-> i])

ModelOf(isa) == IF isa = "aarch64" THEN "O3_ARM_Neoverse_N1" ELSE "O3_ARM_Neoverse_N1_but_RISCV"

(* The attributes setup_cpu() assigns. *)
Assigned(p) == [decodeWidth |-> p.decode_width, fetchWidth |-> p.decode_width,
  commitWidth |-> p.commit_width, numROBEntries |-> p.rob_size, numIQEntries |-> p.iq_size,
  numPhysFloatRegs |-> p.simd_phreg_count, numPhysVecRegs |-> p.simd_phreg_count,
  fetchBufferSize |-> p.fetch_buf_size]

(* A core of model c with the parameters p, and a data cache. *)
Core(c, p, assoc, l1) ==
  [model |-> c,
   attributes |-> [a \in DOMAIN BaseO3CPU |->
                     IF a \in DOMAIN Assigned(p) THEN Assigned(p)[a] ELSE Attribute(c, a)],
   units |-> [i \in DOMAIN FuPool(c) |-> SetUnit(FuPool(c)[i], p)],
   dcache |-> [assoc |-> assoc, size |-> l1 * 1024]]

(* setup_cpu() of configs/aarch64-nanogemm.py: registers and reorder       *)
(* buffer are fixed there, and the queue is left to the model.             *)
OneSetting(p) == [p EXCEPT !.rob_size = 256, !.simd_phreg_count = 256,
                           !.iq_size = Attribute("O3_ARM_Neoverse_N1", "numIQEntries")]

CoreInit == core = None /\ setting = None

SetUpCpu(assoc, l1) ==
  \E isa \in Isas, p \in CoreSettings :
    core' = Core(ModelOf(isa), p, assoc, l1) /\ setting' = p

SetUpOneCpu(assoc, l1) ==
  \E p \in CoreSettings :
    core' = Core("O3_ARM_Neoverse_N1", OneSetting(p), assoc, l1) /\ setting' = OneSetting(p)
-----------------------------------------------------------------------------
UnitsFor(units, c) == {i \in DOMAIN units : \E j \in DOMAIN units[i].ops : units[i].ops[j].class = c}
PortsFor(units, c) == FoldLeft(+, 0, [i \in DOMAIN units |-> IF i \in UnitsFor(units, c) THEN units[i].count ELSE 0])

(* The core that is simulated has the options of the sweep: widths, queues *)
(* and registers as given, simd_count units for the fused operation, with  *)
(* its latency alone changed.  gem5's pool has a port for loads and stores *)
(* besides one for each, and a port takes the count of its last operation  *)
(* class: loads have ld_count + st_count ports, stores twice st_count.     *)
CoreTakesParameters ==
  core # None =>
    LET fused == UnitsFor(core.units, "SimdFloatMultAcc")
        p == setting
    IN /\ core.attributes.fetchWidth = core.attributes.decodeWidth
       /\ \A a \in {"numROBEntries", "numIQEntries", "numPhysVecRegs", "commitWidth"} :
            core.attributes[a] = Assigned(p)[a]
       /\ PortsFor(core.units, "SimdFloatMultAcc") = p.simd_count
       /\ \A i \in fused : \A j \in DOMAIN core.units[i].ops :
            core.units[i].ops[j] = IF core.units[i].ops[j].class = "SimdFloatMultAcc"
                                   THEN Op("SimdFloatMultAcc", p.simd_lat)
                                   ELSE FuPool(core.model)[i].ops[j]
       /\ PortsFor(core.units, "MemRead") = p.ld_count + p.st_count
       /\ PortsFor(core.units, "MemWrite") = 2 * p.st_count

(* "Bine's N1 model": the core that is simulated is a Neoverse N1 but for  *)
(* what the sweep sets.  The code's class does not inherit from the N1's.  *)
SimulatesTheN1 ==
  core # None => core = [Core("O3_ARM_Neoverse_N1_Base", setting, 1, 1)
                           EXCEPT !.model = core.model, !.dcache = core.dcache]

(* The tables: wider vectors never reduce faster, and the A64FX has the    *)
(* units of the N1 with 512 bits, with other latencies only.               *)
ASSUME TablesAreConsistent ==
  LET LatOf(pool, c) == CHOOSE l \in 0 .. 200 : \E i \in DOMAIN pool : \E j \in DOMAIN pool[i].ops :
                          pool[i].ops[j].class = c /\ pool[i].ops[j].lat = l
      Shape(pool) == [i \in DOMAIN pool |->
        <<pool[i].count, [j \in DOMAIN pool[i].ops |-> <<pool[i].ops[j].class, pool[i].ops[j].pipelined>>]>>]
  IN /\ \A c \in ToSet(ReduceClasses) : /\ LatOf(N1_FUP_128, c) <= LatOf(N1_FUP_256, c)
                                       /\ LatOf(N1_FUP_256, c) <= LatOf(N1_FUP_512, c)
     /\ Shape(A64FX_FUP_512) = Shape(N1_FUP_512)
     /\ \A c \in ToSet(SimdClasses) : LatOf(N1_FUP_512, c) <= LatOf(A64FX_FUP_512, c)
=============================================================================
