--------------------------- MODULE MCSimulationRun ---------------------------
EXTENDS SimulationRun, LibraryExamples

VARIABLE part   \* "driver": the simulation driver, "script": a script of the standard library

mcVars == <<part, vars, libVars>>

MCInit ==
  /\ Init /\ LibInit
  /\ \/ part = "driver" /\ script = Parsec
     \/ part = "script" /\ opt = CHOOSE o \in Options : o.mode = "bench" /\ o.switch = "none" /\ o.restore = 0

DriverStep == part = "driver" /\ Step /\ UNCHANGED <<part, libVars>>
ScriptStep == part = "script" /\ LibNext /\ UNCHANGED <<part, vars>>
Ended      == IF part = "driver" THEN pc = "done" ELSE outcome \in {"failed", "over", "successful"}

MCNext == DriverStep \/ ScriptStep \/ (Ended /\ UNCHANGED mcVars)

MCSpec == MCInit /\ [][MCNext]_mcVars /\ WF_mcVars(DriverStep) /\ WF_mcVars(ScriptStep)

(* Command lines with two or three checkpoints, every way to set maxtick,  *)
(* with and without a restored checkpoint at tick 3.                       *)
MCOptions ==
  [mode: Modes, when: {1, 4, 8}, period: {2, 3}, max_checkpoints: {1, 3}, abs_max_tick: {0, 7},
   rel_max_tick: {0, 5}, restore: {0, 3}, switch: Switches, repeat_switch: {2, 6},
   standard_switch: {2}, checkpoint_at_end: BOOLEAN]

MCTickLimits == {0, 1, 2, 3}

(* The types of both, the number of checkpoints, and the CPUs and ticks    *)
(* that simulate() is called with.                                         *)
MCInv == Inv /\ SwitchesOutActive /\ StaysWithinMaxTick /\ LibTypeOK

(* Checkpoints are taken as the command line asks, and as the guest asks.  *)
CheckpointsAsAsked == CheckpointsOnSchedule /\ GuestGetsCheckpoints

(* Every run ends: of the driver, and of every script but the one that     *)
(* boots RISC-V Linux for good.                                            *)
EveryRunEnds == script.name # "riscv-fs" => <>Ended
=============================================================================
