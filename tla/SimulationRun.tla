---------------------------- MODULE SimulationRun ----------------------------
(***************************************************************************)
(* bine-configs/common/Simulation.py, run(): the calls of m5.simulate()    *)
(* that drive one simulation after m5.instantiate(), the checkpoints they  *)
(* are interrupted for and the CPUs that are switched between them.  gem5  *)
(* and the guest program are the environment: a call of simulate() returns *)
(* at its limit, or before it because the guest asks for a checkpoint or   *)
(* exits, or because the CPU has executed the instructions to be           *)
(* fast-forwarded.  Ticks are the natural numbers up to Forever.           *)
(***************************************************************************)
EXTENDS Integers, Sequences, FiniteSets

CONSTANTS
  Forever,     \* m5.MaxTick
  SwitchTicks, \* 10000, the ticks before the switch after a restore
  MaxGuest,    \* checkpoints the guest asks for, at most
  Options      \* the command lines that are looked at

Modes    == {"script", "bench", "repeat"}
Switches == {"none", "ticks", "fast_forward", "standard"}

(* take_checkpoints = when,period; 0 stands for an option that is not      *)
(* given; restore is the tick of the checkpoint that is restored from.     *)
(* Ticks of the command line are ticks: m5 takes none beyond MaxTick.      *)
OptionRecords ==
  [mode: Modes, when: Nat, period: Nat, max_checkpoints: Nat, abs_max_tick: Nat,
   rel_max_tick: Nat, restore: Nat, switch: Switches, repeat_switch: Nat,
   standard_switch: Nat, checkpoint_at_end: BOOLEAN]

ASSUME SimulationAssumption ==
  /\ Forever \in Nat /\ SwitchTicks \in Nat /\ MaxGuest \in Nat
  /\ Options \subseteq OptionRecords
  /\ \A o \in Options : o.when <= Forever /\ o.abs_max_tick <= Forever

VARIABLES
  opt,         \* the options
  pc,          \* where run() is
  tick,        \* m5.curTick()
  event,       \* exit_event.getCause()
  cause,       \* exit_cause
  simTicks,    \* sim_ticks of scriptCheckpoints
  num,         \* num_checkpoints
  checkpoints, \* the checkpoints that are written: [tick, by]
  active,      \* the CPUs that run: cpu, switch_cpus, switch_cpus_1 or repeat
  pair,        \* repeat_switch_cpu_list: <<old, new>>
  armed,       \* the instruction stop of the first CPUs is still to come
  guest,       \* history: ticks at which the guest asked for a checkpoint
  exited       \* the guest has ended

gem5 == <<tick, event, armed, guest, exited>>
vars == <<opt, pc, gem5, cause, simTicks, num, checkpoints, active, pair>>

Least(S) == CHOOSE m \in S : \A n \in S : m <= n

(* maxtick is in absolute ticks. *)
maxtick ==
  Least({IF opt.abs_max_tick # 0 THEN opt.abs_max_tick ELSE Forever,
         IF opt.rel_max_tick # 0 THEN opt.rel_max_tick + opt.restore ELSE Forever})

(* Options that end run() with fatal() before anything is simulated. *)
Fatal(o) ==
  \/ o.switch = "fast_forward" /\ o.restore # 0
  \/ o.switch = "standard" /\ o.mode = "repeat"
  \/ o.switch = "ticks" /\ o.restore = 0      \* CPUs differ only after a restore

CPUs == {"cpu", "switch_cpus", "switch_cpus_1", "repeat_switch_cpus"}

TypeOK ==
  /\ opt \in Options
  /\ pc \in {"switch", "switch_1", "start", "script_first", "script_loop", "script_skip",
             "bench", "repeat", "repeat_last", "end", "done"}
  /\ tick \in 0 .. Forever /\ simTicks \in 0 .. Forever
  /\ event \in {"none", "limit", "checkpoint", "insts", "exit"}
  /\ cause \in {"none", "limit", "checkpoint", "insts", "exit", "max"}
  /\ num \in Nat
  /\ \A i \in 1 .. Len(checkpoints) :
       checkpoints[i] \in [tick: 0 .. Forever, by: {"script", "bench", "end"}]
  /\ active \in CPUs
  /\ pair \in CPUs \X CPUs
  /\ armed \in BOOLEAN /\ exited \in BOOLEAN
  /\ Len(guest) <= MaxGuest

Init ==
  /\ opt \in {o \in Options : ~Fatal(o)}
  /\ tick = opt.restore
  /\ maxtick >= tick                        \* "Bad maxtick (%d) specified"
  /\ pc = IF opt.switch = "none" THEN "start" ELSE "switch"
  /\ event = "none" /\ cause = "none"
  /\ simTicks = 0 /\ num = 0 /\ checkpoints = <<>>
  /\ active = "cpu"
  /\ pair = <<IF opt.switch = "none" THEN "cpu" ELSE "switch_cpus", "repeat_switch_cpus">>
  /\ armed = (opt.switch \in {"fast_forward", "standard"})
  /\ guest = <<>> /\ exited = FALSE

(* m5.simulate(n): the ticks it may return at and why.  It stops at        *)
(* m5.MaxTick.                                                             *)
Simulate(n) ==
  LET limit == Least({tick + n, Forever})
  IN  /\ n >= 0
      /\ \/ /\ tick' = limit /\ event' = "limit"
            /\ UNCHANGED <<armed, guest, exited>>
         \/ /\ ~exited
            /\ tick' \in tick + 1 .. limit
            /\ \/ /\ event' = "checkpoint" /\ Len(guest) < MaxGuest
                  /\ guest' = Append(guest, tick')
                  /\ UNCHANGED <<armed, exited>>
               \/ /\ event' = "insts" /\ armed
                  /\ armed' = FALSE
                  /\ UNCHANGED <<guest, exited>>
               \/ /\ event' = "exit"
                  /\ exited' = TRUE
                  /\ UNCHANGED <<armed, guest>>

Checkpoint(by) == checkpoints' = Append(checkpoints, [tick |-> tick', by |-> by])

(* The simulation before the first switch of CPUs.                         *)
SwitchCPUs ==
  /\ pc = "switch"
  /\ Simulate(IF opt.switch = "ticks" THEN SwitchTicks ELSE Forever)
  /\ active' = "switch_cpus"
  /\ pc' = IF opt.switch = "standard" THEN "switch_1" ELSE "start"
  /\ UNCHANGED <<opt, cause, simTicks, num, checkpoints, pair>>

(* --standard-switch: the warm-up before the second.                       *)
SwitchCPUs1 ==
  /\ pc = "switch_1"
  /\ Simulate(opt.standard_switch)
  /\ active' = "switch_cpus_1"
  /\ pc' = "start"
  /\ UNCHANGED <<opt, cause, simTicks, num, checkpoints, pair>>

(* The checkpoint function the options ask for.                            *)
Start ==
  /\ pc = "start"
  /\ pc' = CASE opt.mode = "script" -> "script_first"
             [] opt.mode = "repeat" /\ maxtick > opt.repeat_switch -> "repeat"
             [] OTHER -> "bench"
  /\ UNCHANGED <<opt, gem5, cause, simTicks, num, checkpoints, active, pair>>
-----------------------------------------------------------------------------
(* scriptCheckpoints                                                       *)

(* To the first checkpoint, past those the guest asks for. *)
ScriptFirst ==
  /\ pc = "script_first"
  /\ Simulate(opt.when - tick)
  /\ cause' = event'
  /\ IF event' = "checkpoint"
     THEN UNCHANGED <<pc, simTicks, num, checkpoints>>
     ELSE /\ pc' = "script_loop" /\ simTicks' = opt.when
          /\ IF event' = "limit"
             THEN num' = 1 /\ Checkpoint("script")
             ELSE UNCHANGED <<num, checkpoints>>
  /\ UNCHANGED <<opt, active, pair>>

LoopGoesOn == num < opt.max_checkpoints /\ cause = "limit"

(* A period of the loop: exit_cause is what ends its first simulate().     *)
(* The mutant does not compare the period with maxtick.                    *)
ScriptPeriodPastMaxTick ==
  /\ pc = "script_loop" /\ LoopGoesOn
  /\ Simulate(opt.period)
  /\ cause' = event'
  /\ simTicks' = simTicks + opt.period
  /\ pc' = IF event' = "checkpoint" THEN "script_skip" ELSE "script_loop"
  /\ IF event' = "limit"
     THEN num' = num + 1 /\ Checkpoint("script")
     ELSE UNCHANGED <<num, checkpoints>>
  /\ UNCHANGED <<opt, active, pair>>

ScriptPeriod ==
  /\ pc = "script_loop" /\ LoopGoesOn /\ simTicks + opt.period <= maxtick
  /\ Simulate(opt.period)
  /\ cause' = event'
  /\ simTicks' = simTicks + opt.period
  /\ pc' = IF event' = "checkpoint" THEN "script_skip" ELSE "script_loop"
  /\ IF event' = "limit"
     THEN num' = num + 1 /\ Checkpoint("script")
     ELSE UNCHANGED <<num, checkpoints>>
  /\ UNCHANGED <<opt, active, pair>>

(* The inner loop past a checkpoint the guest asks for.  The mutant        *)
(* simulates a whole period again.                                         *)
ScriptSkipWholePeriod ==
  /\ pc = "script_skip"
  /\ Simulate(opt.period)
  /\ pc' = IF event' = "checkpoint" THEN "script_skip" ELSE "script_loop"
  /\ IF event' = "limit"
     THEN num' = num + 1 /\ Checkpoint("script")
     ELSE UNCHANGED <<num, checkpoints>>
  /\ UNCHANGED <<opt, cause, simTicks, active, pair>>

ScriptSkip ==
  /\ pc = "script_skip"
  /\ Simulate(simTicks - tick)
  /\ pc' = IF event' = "checkpoint" THEN "script_skip" ELSE "script_loop"
  /\ IF event' = "limit"
     THEN num' = num + 1 /\ Checkpoint("script")
     ELSE UNCHANGED <<num, checkpoints>>
  /\ UNCHANGED <<opt, cause, simTicks, active, pair>>

(* The last, shorter one, up to maxtick. *)
ScriptRest ==
  /\ pc = "script_loop" /\ LoopGoesOn /\ simTicks + opt.period > maxtick
  /\ Simulate(maxtick - simTicks)
  /\ cause' = event'
  /\ pc' = "end"
  /\ UNCHANGED <<opt, simTicks, num, checkpoints, active, pair>>

ScriptReturn ==
  /\ pc = "script_loop" /\ ~LoopGoesOn
  /\ pc' = "end"
  /\ UNCHANGED <<opt, gem5, cause, simTicks, num, checkpoints, active, pair>>
-----------------------------------------------------------------------------
(* benchCheckpoints: checkpoints where the guest asks for them, and the    *)
(* mutant that compares before it counts.                                  *)
BenchOneMore ==
  /\ pc = "bench"
  /\ Simulate(maxtick - tick)
  /\ cause' = event'
  /\ IF event' = "checkpoint"
     THEN /\ Checkpoint("bench") /\ num' = num + 1
          /\ pc' = IF num = opt.max_checkpoints THEN "end" ELSE "bench"
     ELSE pc' = "end" /\ UNCHANGED <<num, checkpoints>>
  /\ UNCHANGED <<opt, simTicks, active, pair>>

Bench ==
  /\ pc = "bench"
  /\ Simulate(maxtick - tick)
  /\ IF event' = "checkpoint"
     THEN /\ Checkpoint("bench") /\ num' = num + 1
          /\ IF num' = opt.max_checkpoints
             THEN pc' = "end" /\ cause' = "max"
             ELSE pc' = "bench" /\ cause' = event'
     ELSE pc' = "end" /\ cause' = event' /\ UNCHANGED <<num, checkpoints>>
  /\ UNCHANGED <<opt, simTicks, active, pair>>
-----------------------------------------------------------------------------
(* repeatSwitch, and mutants: one that keeps the list as it is, and one    *)
(* that does not look at maxtick.                                          *)
RepeatKeepsList ==
  /\ pc = "repeat"
  /\ Simulate(opt.repeat_switch)
  /\ cause' = event'
  /\ IF event' # "limit"
     THEN pc' = "end" /\ UNCHANGED <<active, pair>>
     ELSE /\ active' = pair[2] /\ UNCHANGED pair
          /\ pc' = IF maxtick - tick' <= opt.repeat_switch THEN "repeat_last" ELSE "repeat"
  /\ UNCHANGED <<opt, simTicks, num, checkpoints>>

RepeatForever ==
  /\ pc = "repeat"
  /\ Simulate(opt.repeat_switch)
  /\ cause' = event'
  /\ IF event' # "limit"
     THEN pc' = "end" /\ UNCHANGED <<active, pair>>
     ELSE active' = pair[2] /\ pair' = <<pair[2], pair[1]>> /\ UNCHANGED pc
  /\ UNCHANGED <<opt, simTicks, num, checkpoints>>

Repeat ==
  /\ pc = "repeat"
  /\ Simulate(opt.repeat_switch)
  /\ cause' = event'
  /\ IF event' # "limit"
     THEN pc' = "end" /\ UNCHANGED <<active, pair>>
     ELSE /\ active' = pair[2] /\ pair' = <<pair[2], pair[1]>>
          /\ pc' = IF maxtick - tick' <= opt.repeat_switch THEN "repeat_last" ELSE "repeat"
  /\ UNCHANGED <<opt, simTicks, num, checkpoints>>

RepeatLast ==
  /\ pc = "repeat_last"
  /\ Simulate(maxtick - tick)
  /\ pc' = "end"
  /\ UNCHANGED <<opt, cause, simTicks, num, checkpoints, active, pair>>
-----------------------------------------------------------------------------
(* m5.simulate() with a negative number of ticks raises.                   *)
Negative ==
  /\ \/ pc = "script_first" /\ opt.when < tick
     \/ pc = "script_skip" /\ simTicks < tick
     \/ pc = "script_loop" /\ LoopGoesOn /\ simTicks + opt.period > maxtick /\ maxtick < simTicks
     \/ pc = "bench" /\ maxtick < tick
     \/ pc = "repeat_last" /\ maxtick < tick
  /\ pc' = "done"
  /\ UNCHANGED <<opt, gem5, cause, simTicks, num, checkpoints, active, pair>>

(* --checkpoint-at-end *)
End ==
  /\ pc = "end"
  /\ pc' = "done"
  /\ checkpoints' = IF opt.checkpoint_at_end
                    THEN Append(checkpoints, [tick |-> tick, by |-> "end"]) ELSE checkpoints
  /\ UNCHANGED <<opt, gem5, cause, simTicks, num, active, pair>>

Step ==
  \/ SwitchCPUs \/ SwitchCPUs1 \/ Start
  \/ ScriptFirst \/ ScriptPeriod \/ ScriptSkip \/ ScriptRest \/ ScriptReturn
  \/ Bench \/ Repeat \/ RepeatLast \/ Negative \/ End

Done == pc = "done" /\ UNCHANGED vars

Next == Step \/ Done

Spec == Init /\ [][Next]_vars

FairSpec == Spec /\ WF_vars(Step)
-----------------------------------------------------------------------------
(* "<M,N> take checkpoints at tick M and every N ticks thereafter": those  *)
(* that are taken are the run's first ones, they are at these ticks, and   *)
(* none is left out between them, however many the guest asks for on the   *)
(* way.                                                                    *)
CheckpointsOnSchedule ==
  \A i \in 1 .. Len(checkpoints) :
    checkpoints[i].by = "script" => checkpoints[i].tick = opt.when + (i - 1) * opt.period

(* Without command-line checkpoints and CPU switches, the guest gets those *)
(* it asks for, in order, and the run only ends with the guest, at maxtick *)
(* or with the last checkpoint that is allowed.                            *)
GuestGetsCheckpoints ==
  opt.mode = "bench" /\ opt.switch = "none" =>
    /\ Len(guest) <= Len(checkpoints)
    /\ \A i \in 1 .. Len(checkpoints) :
         IF i <= Len(guest) THEN checkpoints[i] = [tick |-> guest[i], by |-> "bench"]
                            ELSE checkpoints[i].by = "end"
    /\ pc = "done" => exited \/ tick = maxtick \/ Len(guest) = opt.max_checkpoints

(* "the maximum number of checkpoints to drop", but for the one at the end *)
AtMostMaxCheckpoints ==
  opt.max_checkpoints > 0 =>
    \A i \in 1 .. Len(checkpoints) : checkpoints[i].by # "end" => i <= opt.max_checkpoints

(* The invariant of the driver: its types, and the number of checkpoints. *)
Inv == TypeOK /\ AtMostMaxCheckpoints

(* Only CPUs that run are switched out, with whatever fast-forwarding or   *)
(* restoring went before.                                                  *)
SwitchesOutActive == pc = "repeat" => active = pair[1]

(* Every run ends. *)
RunEnds == <>(pc = "done")

(* "Checkpoint instructions received from the benchmark running are        *)
(* ignored and skipped in favor of command line checkpoint instructions"   *)
(* (Simulation.py 703-705): unless the guest exits, the run ends with      *)
(* all its checkpoints or at maxtick.                                      *)
GuestCheckpointsAreSkipped ==
  (pc = "done" /\ opt.mode = "script" /\ opt.switch = "none"
     /\ ~exited /\ opt.when >= opt.restore) =>
    num >= opt.max_checkpoints \/ tick >= maxtick

(* Without CPUs to switch, no simulation goes beyond maxtick: but for a    *)
(* first command-line checkpoint beyond it, and the first period between   *)
(* switches after a restore, which the code does not compare with it.      *)
StaysWithinMaxTick ==
  (/\ opt.switch = "none"
   /\ opt.mode = "script" => opt.when <= maxtick
   /\ opt.mode = "repeat" => opt.restore = 0) => tick <= maxtick
=============================================================================
