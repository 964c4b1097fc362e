-------------------------- MODULE KernelParameters --------------------------
(***************************************************************************)
(* The parameters of a GEMM micro-kernel simulation, from the generator of *)
(* the benchmarks (benchmarks/gen_gemm_gem5_benches.sh) over the filters   *)
(* of the two sweeps (configs/multi-isa-nanogemm.py and                    *)
(* benchmarks/gemm_gem5_benchmarks.sh) to the number of iterations         *)
(* setup_system() passes to the benchmark (gemmbench_gem5.cpp.in).         *)
(*                                                                         *)
(* A kernel has mr vectors times nr elements of C; elements are doubles.   *)
(***************************************************************************)
EXTENDS Integers, FiniteSets

CONSTANTS
  Mrs, Nrs,     \* --mr and --nr
  SimdWidths,   \* --simd_width, in bits
  Assocs,       \* --assoc of the L1 data cache
  L1Sizes       \* --l1_size, in KiB

(* What the job scripts ask for, or more: vectors of 1024 bits at most, and *)
(* caches from 32 KiB with ways from four, all of the same size.  With     *)
(* vectors of 2048 bits and such a cache, the benchmark of kernel 5 x 1    *)
(* would not iterate.                                                      *)
ASSUME KernelAssumption ==
  /\ Mrs \subseteq 1 .. 8 /\ Nrs \subseteq 1 .. 30
  /\ SimdWidths \subseteq {128 * i : i \in 1 .. 8}
  /\ Assocs \subseteq Nat \ (0 .. 3)
  /\ L1Sizes \subseteq Nat \ (0 .. 31)

ASSUME WaysAssumption == \A assoc \in Assocs, l1 \in L1Sizes : (l1 * 1024) % assoc = 0

Combinations == [mr : Mrs, nr : Nrs, simd_width : SimdWidths, assoc : Assocs, l1 : L1Sizes]

VARIABLES
  driver,   \* the script that simulates: for a whole sweep, or for one kernel
  combo,    \* one combination of itertools.product(*param_lists)
  fate      \* product, filtered (out) or run

kernelVars == <<driver, combo, fate>>

Drivers == {"multi-isa-nanogemm", "aarch64-nanogemm"}

MaxVregs == 32
DataSize == 8

(* Vector registers of a kernel: C, two sets of A vectors and one for B. *)
Registers(mr, nr) == mr * nr + 2 * mr + 1

(* The kernels the generator writes and builds, the same for both ISAs.    *)
Generated(mr, nr) == mr \in 1 .. 8 /\ nr \in 1 .. (32 - 2 * mr - 1) \div mr

(* The filter of main() in multi-isa-nanogemm.py; the mutant counts the    *)
(* register for B twice.                                                   *)
AcceptedFewer(mr, nr) == MaxVregs > mr * nr + mr * 2 + 2
Accepted(mr, nr) == MaxVregs > Registers(mr, nr)

(* The filter of run_gem5() in gemm_gem5_benchmarks.sh. *)
Skipped(mr, nr) == nr > (32 - 2 * mr - 1) \div mr

Gcd(a, b) == CHOOSE d \in 1 .. b : /\ a % d = 0 /\ b % d = 0
                                   /\ \A e \in d + 1 .. b : a % e # 0 \/ b % e # 0
Lcm(a, b) == (a * b) \div Gcd(a, b)

(* Registers left for B. *)
BRegs(mr, nr) == MaxVregs - mr * nr - 2 * mr

SmallestUnroll(mr, nr) == Lcm(BRegs(mr, nr), nr) \div nr

(* The three if statements, in this order.  The mutant has no third one    *)
(* and takes four for six.                                                 *)
UnrollFactorShort(mr, nr) ==
  LET u == SmallestUnroll(mr, nr)
  IN IF u \in {1, 2, 4} THEN 8 ELSE IF u = 6 THEN 4 ELSE u
UnrollFactor(mr, nr) ==
  LET u1 == SmallestUnroll(mr, nr)
      u2 == IF u1 < 3 THEN 4 ELSE u1
      u3 == IF u2 = 4 THEN 8 ELSE u2
  IN IF u3 = 6 THEN 12 ELSE u3

(* Elements of C in a column of the kernel. *)
MrElem(c) == (c.mr * c.simd_width) \div (DataSize * 8)

(* Bytes of one way of the cache: nl * cl. *)
Way(c) == (c.l1 * 1024) \div c.assoc

(* Ways for the panel of A, at least one.  The mutant takes all ways but   *)
(* one for A.                                                              *)
CaFloor(c) == ((c.assoc - 1) * MrElem(c)) \div (MrElem(c) + c.nr)
CaGreedy(c) == c.assoc - 1
Ca(c) == IF CaFloor(c) < 1 THEN 1 ELSE CaFloor(c)

(* Equation 4 of "Analytical modeling is enough for High-Performance BLIS" *)
Kc(c) == (Ca(c) * Way(c)) \div (MrElem(c) * DataSize)

(* Iterations of the unrolled loop; the mutant unrolls the whole panel.    *)
IterationsOfPanel(c) == Kc(c) \div (UnrollFactor(c.mr, c.nr) * c.nr)
Iterations(c) == Kc(c) \div UnrollFactor(c.mr, c.nr)

(* What the benchmark allocates, in elements, and the array C is put in.   *)
AData(c) == MrElem(c) * Iterations(c) * UnrollFactor(c.mr, c.nr)
BData(c) == c.nr * Iterations(c) * UnrollFactor(c.mr, c.nr)
CArray(c) == BData(c)

KernelInit == driver \in Drivers /\ combo \in Combinations /\ fate = "product"

(* The sweep in Python filters its list, the one in the shell skips a call *)
(* of aarch64-nanogemm.py.                                                 *)
Filter ==
  /\ fate = "product"
  /\ fate' = IF \/ driver = "multi-isa-nanogemm" /\ ~Accepted(combo.mr, combo.nr)
                \/ driver = "aarch64-nanogemm" /\ Skipped(combo.mr, combo.nr)
             THEN "filtered" ELSE "run"
  /\ UNCHANGED <<driver, combo>>

-----------------------------------------------------------------------------
(* The loop bounds of the generator and the filters of the two sweeps are  *)
(* written differently.  The shell sweep runs what is generated, and the   *)
(* Python sweep runs that but for one kernel: 1 x 29, which takes exactly  *)
(* 32 vector registers, is generated and filtered out.                     *)
RunsWhatIsBuilt ==
  LET mr == combo.mr
      nr == combo.nr
  IN /\ fate = "run" => Generated(mr, nr)
     /\ fate = "filtered" =>
          \/ ~Generated(mr, nr)
          \/ mr = 1 /\ nr = 29 /\ driver = "multi-isa-nanogemm"

(* The unrolled loop ends with the rotation of the B registers where it    *)
(* began, for every kernel that is run.                                    *)
UnrollRotatesFully ==
  fate = "run" => (UnrollFactor(combo.mr, combo.nr) * combo.nr) % BRegs(combo.mr, combo.nr) = 0

(* No simulation measures an empty loop.                                   *)
MeasuresSomething == fate = "run" => Iterations(combo) >= 1

(* The panels of A and B leave a way of the L1 cache to C, unless "at      *)
(* least 1 bank" for A was forced.                                         *)
PanelsFitL1 ==
  fate = "run" /\ CaFloor(combo) >= 1 =>
    LET WaysFor(elements) == (elements * DataSize + Way(combo) - 1) \div Way(combo)
    IN WaysFor(AData(combo)) + WaysFor(BData(combo)) <= combo.assoc - 1

(* The array that C is stored to has the size the benchmark gave to cdata: *)
(* simd elements times mr times nr (gemmbench_gem5.cpp.in 56).  The code   *)
(* stores C to bdata.                                                      *)
CHasItsSize == fate = "run" => CArray(combo) >= MrElem(combo) * combo.nr
=============================================================================
