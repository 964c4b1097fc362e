--------------------------- MODULE NanogemmWorker ---------------------------
(***************************************************************************)
(* One combination of parameters from main()'s list to the queue           *)
(* (configs/multi-isa-nanogemm.py): the filter, then simrun() in a worker  *)
(* process, which builds the core and the system, and simulates.  The      *)
(* processes around it are those of NanogemmSweep.                         *)
(*                                                                         *)
(* configs/aarch64-nanogemm.py, which benchmarks/gemm_gem5_benchmarks.sh   *)
(* calls, does the same for one combination: it leaves fewer parameters of *)
(* the core open, and gem5 writes the statistics.                          *)
(***************************************************************************)
EXTENDS KernelParameters, CoreModels, SimulationStats

CONSTANT Followed   \* bound: the combinations whose simulation is followed

ASSUME FollowedAssumption == Followed \subseteq Combinations

VARIABLES
  simulating,   \* m5.instantiate() is done
  iterations,   \* the benchmark's argument
  dumps         \* what m5.stats.dump() wrote, in aarch64-nanogemm.py

workerVars == <<kernelVars, coreVars, statsVars, simulating, iterations, dumps>>

WorkerInit ==
  /\ KernelInit /\ CoreInit /\ StatsInit
  /\ simulating = FALSE
  /\ iterations = 0
  /\ dumps = <<>>

FilterCombination ==
  /\ Filter
  /\ UNCHANGED <<coreVars, statsVars, simulating, iterations, dumps>>

(* setup_cpu(): the core, with the data cache of the combination. *)
BuildCore ==
  /\ driver = "multi-isa-nanogemm"
  /\ fate = "run" /\ combo \in Followed /\ core = None
  /\ SetUpCpu(combo.assoc, combo.l1)
  /\ UNCHANGED <<kernelVars, statsVars, simulating, iterations, dumps>>

(* setup_cpu() of aarch64-nanogemm.py. *)
BuildOneCore ==
  /\ driver = "aarch64-nanogemm"
  /\ fate = "run" /\ combo \in Followed /\ core = None
  /\ SetUpOneCpu(combo.assoc, combo.l1)
  /\ UNCHANGED <<kernelVars, statsVars, simulating, iterations, dumps>>

(* setup_system(): the panels are computed from the cache of the core.     *)
BuildSystem ==
  /\ core # None /\ ~simulating
  /\ simulating' = TRUE
  /\ iterations' = Iterations([combo EXCEPT !.assoc = core.dcache.assoc,
                                            !.l1 = core.dcache.size \div 1024])
  /\ UNCHANGED <<kernelVars, coreVars, statsVars, dumps>>

RunSimulation ==
  /\ simulating /\ driver = "multi-isa-nanogemm"
  /\ StatsNext
  /\ UNCHANGED <<kernelVars, coreVars, simulating, iterations, dumps>>

(* The loop around m5.simulate() of aarch64-nanogemm.py: the statistics    *)
(* are reset at "workbegin", written at "workend", and anything else ends  *)
(* the simulation.  The cycles stand for the statistics.                   *)
RunOneSimulation ==
  /\ simulating /\ driver = "aarch64-nanogemm" /\ ~put
  /\ \/ Simulate /\ UNCHANGED dumps
     \/ WorkBegin /\ UNCHANGED dumps
     \/ /\ Len(dumps) < MaxRuns
        /\ dumps' = Append(dumps, cycles)
        /\ UNCHANGED statsVars
     \/ put' = TRUE /\ UNCHANGED <<stats, columns, run, rows, dumps>>
  /\ UNCHANGED <<kernelVars, coreVars, simulating, iterations>>

WorkerNext == \/ FilterCombination \/ BuildCore \/ BuildOneCore \/ BuildSystem
              \/ RunSimulation \/ RunOneSimulation

WorkerSpec == WorkerInit /\ [][WorkerNext]_workerVars
-----------------------------------------------------------------------------
(* The numbers of a kernel that is run: the unrolled loop closes, the      *)
(* measured loop is not empty, and its panels fit the cache, also that of  *)
(* the core which is simulated.                                            *)
KernelNumbers ==
  /\ UnrollRotatesFully
  /\ MeasuresSomething
  /\ PanelsFitL1
  /\ simulating => iterations = Iterations(combo) /\ iterations >= 1

(* What is put on the queue comes from a simulation that was set up, is a  *)
(* rectangular frame, and its rows add up.                                 *)
FrameIsComplete ==
  /\ Rectangular
  /\ RowsAddUp
  /\ put \/ run > 0 => simulating /\ fate = "run" /\ core # None
=============================================================================
