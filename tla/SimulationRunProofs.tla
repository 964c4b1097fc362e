------------------------ MODULE SimulationRunProofs ------------------------
(***************************************************************************)
(* Checkpoints, CPUs and ticks of the simulation driver, for every command *)
(* line, every guest and every number of ticks, and what the scripts of    *)
(* the standard library measure, for regions of any length.                *)
(***************************************************************************)
EXTENDS MCSimulationRun, FiniteSetTheorems, TLAPS

Ticks == 0 .. Forever

LEMMA LeastOfTwo ==
  ASSUME NEW a \in Int, NEW b \in Int
  PROVE  Least({a, b}) = IF a <= b THEN a ELSE b
<1> DEFINE least == IF a <= b THEN a ELSE b
<1>1. least \in {a, b} /\ \A n \in {a, b} : least <= n
  OBVIOUS
<1>2. \A m1 \in {a, b} : (\A n \in {a, b} : m1 <= n) => m1 = least
  OBVIOUS
<1> HIDE DEF least
<1>3. (CHOOSE m1 \in {a, b} : \A n \in {a, b} : m1 <= n) = least
  BY <1>1, <1>2
<1> QED BY <1>3 DEF Least, least

LEMMA MaxTickIsTick ==
  ASSUME opt \in Options
  PROVE  maxtick \in Ticks /\ opt \in OptionRecords /\ opt.when \in Ticks
<1>1. opt \in OptionRecords /\ opt.when <= Forever /\ opt.abs_max_tick <= Forever /\ Forever \in Nat
  BY SimulationAssumption
<1> DEFINE a == IF opt.abs_max_tick # 0 THEN opt.abs_max_tick ELSE Forever
           b == IF opt.rel_max_tick # 0 THEN opt.rel_max_tick + opt.restore ELSE Forever
<1>2. a \in Nat /\ b \in Nat /\ a <= Forever
  BY <1>1 DEF OptionRecords
<1>3. maxtick = IF a <= b THEN a ELSE b
  BY <1>2, LeastOfTwo DEF maxtick
<1> HIDE DEF a, b
<1>4. maxtick \in Ticks
  BY <1>1, <1>2, <1>3 DEF Ticks
<1> QED BY <1>1, <1>4 DEF Ticks, OptionRecords

(* What a call of simulate() does to ticks and to the guest's requests. *)
Outcome(n) ==
  /\ n >= 0
  /\ tick' \in Ticks /\ tick <= tick' /\ tick' <= tick + n
  /\ event' \in {"limit", "checkpoint", "insts", "exit"}
  /\ event' = "limit" /\ tick + n <= Forever => tick' = tick + n
  /\ guest' = IF event' = "checkpoint" THEN Append(guest, tick') ELSE guest
  /\ event' = "checkpoint" => Len(guest) < MaxGuest

LEMMA Simulated ==
  ASSUME NEW n \in Int, tick \in Ticks, Simulate(n)
  PROVE  Outcome(n)
<1>1. Forever \in Nat /\ tick \in Nat /\ tick <= Forever
  BY SimulationAssumption DEF Ticks
<1> DEFINE limit == IF tick + n <= Forever THEN tick + n ELSE Forever
<1>2. Least({tick + n, Forever}) = limit
  BY <1>1, LeastOfTwo
<1>3. n >= 0
  BY DEF Simulate
<1>4. limit \in Nat /\ tick <= limit /\ limit <= tick + n /\ limit <= Forever
  BY <1>1, <1>3
<1>5. tick' \in tick .. limit /\ (event' = "limit" => tick' = limit)
  BY <1>1, <1>2, <1>4 DEF Simulate
<1>6. tick' \in Nat /\ tick <= tick' /\ tick' <= tick + n /\ tick' <= Forever
  BY <1>1, <1>4, <1>5
<1>7. \/ event' = "limit" /\ UNCHANGED <<armed, guest, exited>>
      \/ /\ event' = "checkpoint" /\ Len(guest) < MaxGuest /\ guest' = Append(guest, tick')
         /\ UNCHANGED <<armed, exited>>
      \/ event' = "insts" /\ armed /\ armed' = FALSE /\ UNCHANGED <<guest, exited>>
      \/ event' = "exit" /\ exited' = TRUE /\ UNCHANGED <<armed, guest>>
  BY DEF Simulate
<1>8. /\ event' \in {"limit", "checkpoint", "insts", "exit"}
      /\ guest' = IF event' = "checkpoint" THEN Append(guest, tick') ELSE guest
      /\ event' = "checkpoint" => Len(guest) < MaxGuest
  BY <1>7
<1>9. event' = "limit" /\ tick + n <= Forever => tick' = tick + n
  BY <1>5
<1>10. tick' \in Ticks
  BY <1>6 DEF Ticks
<1> QED BY <1>3, <1>6, <1>8, <1>9, <1>10 DEF Outcome

(* What it does to the instruction stop and to the guest. *)
LEMMA SimulatedGuest ==
  ASSUME NEW n, Simulate(n), armed \in BOOLEAN, exited \in BOOLEAN
  PROVE  /\ armed' \in BOOLEAN /\ exited' \in BOOLEAN
         /\ ~armed => ~armed' /\ event' # "insts"
         /\ exited => exited'
         /\ event' = "exit" => exited'
<1>1. CASE event' = "limit" /\ UNCHANGED <<armed, exited>>
  BY <1>1
<1>2. CASE event' = "checkpoint" /\ UNCHANGED <<armed, exited>>
  BY <1>2
<1>3. CASE event' = "insts" /\ armed /\ armed' = FALSE /\ UNCHANGED exited
  BY <1>3
<1>4. CASE event' = "exit" /\ exited' = TRUE /\ UNCHANGED armed
  BY <1>4
<1> QED BY <1>1, <1>2, <1>3, <1>4 DEF Simulate

-----------------------------------------------------------------------------
(* The driver: what holds at every place of run().                         *)
(* Places that are reached before a checkpoint is taken.                   *)
First == {"switch", "switch_1", "start", "script_first", "repeat", "repeat_last"}

Taken == [tick: Ticks, by: {"script", "bench", "end"}]

Types ==
  /\ TypeOK
  /\ checkpoints \in Seq(Taken) /\ guest \in Seq(Ticks)

Places ==
  /\ ~Fatal(opt)
  /\ pc \in {"script_first", "script_loop", "script_skip"} => opt.mode = "script"
  /\ pc \in {"repeat", "repeat_last"} => opt.mode = "repeat"
  /\ pc = "bench" => opt.mode # "script"
  /\ pc = "switch_1" => opt.switch = "standard"
  /\ pc = "switch" => opt.switch # "none"

(* Every checkpoint but the one at the end is counted, and only the       *)
(* function the options ask for takes any.                                 *)
Counted ==
  /\ num <= Len(checkpoints) /\ (pc # "done" => Len(checkpoints) = num)
  /\ pc \in First => num = 0
  /\ \A i \in 1 .. Len(checkpoints) :
       checkpoints[i].by = IF i > num THEN "end" ELSE IF opt.mode = "script" THEN "script" ELSE "bench"

(* The loops only go on below the maximum. *)
Limited ==
  /\ opt.max_checkpoints > 0 => num <= opt.max_checkpoints
  /\ pc = "bench" /\ opt.max_checkpoints > 0 => num < opt.max_checkpoints
  /\ pc = "script_skip" => num < opt.max_checkpoints

(* sim_ticks is a tick of the schedule, and the last one is where the      *)
(* simulation is or, past checkpoints of the guest, goes.                  *)
Scheduled ==
  /\ opt.mode = "script" => \A i \in 1 .. num : checkpoints[i].tick = opt.when + (i - 1) * opt.period
  /\ pc = "script_loop" /\ cause = "limit" =>
       num > 0 /\ tick = simTicks /\ simTicks = opt.when + (num - 1) * opt.period
  /\ pc = "script_skip" =>
       num > 0 /\ simTicks = opt.when + num * opt.period /\ simTicks <= maxtick /\ cause = "checkpoint"

(* The guest of benchCheckpoints, where it is called at once: every        *)
(* checkpoint it asked for is taken.                                       *)
Answered ==
  opt.mode = "bench" /\ opt.switch = "none" =>
    /\ ~armed /\ Len(guest) = num
    /\ \A i \in 1 .. num : checkpoints[i].tick = guest[i]
    /\ pc \in {"end", "done"} => exited \/ tick = maxtick \/ Len(guest) = opt.max_checkpoints

(* Ticks up to maxtick, where StaysWithinMaxTick speaks of them. *)
Within ==
  /\ opt.switch = "none" /\ pc = "start" => tick = opt.restore
  /\ (/\ opt.switch = "none"
      /\ opt.mode = "script" => opt.when <= maxtick
      /\ opt.mode = "repeat" => opt.restore = 0) =>
         /\ tick <= maxtick
         /\ pc = "repeat" => tick + opt.repeat_switch <= maxtick

(* The first CPUs of the list are those that run when it is used. *)
Switched ==
  /\ pc = "switch" => pair[1] = "switch_cpus"
  /\ opt.mode = "repeat" /\ pc \in {"start", "repeat"} => active = pair[1]

DriverInv == Types /\ Places /\ Counted /\ Limited /\ Scheduled /\ Answered /\ Within /\ Switched

(* Before a call of simulate(). *)
LEMMA Facts ==
  ASSUME Types
  PROVE  /\ maxtick \in Ticks /\ opt \in OptionRecords /\ opt.when \in Ticks
         /\ tick \in Ticks /\ simTicks \in Ticks /\ num \in Nat
         /\ opt.when \in Nat /\ opt.period \in Nat /\ opt.max_checkpoints \in Nat
         /\ opt.restore \in Nat /\ opt.repeat_switch \in Nat /\ opt.standard_switch \in Nat
         /\ Forever \in Nat /\ SwitchTicks \in Nat /\ Ticks \subseteq Int /\ \A t \in Ticks : 0 <= t /\ t <= Forever
         /\ armed \in BOOLEAN /\ exited \in BOOLEAN
<1>1. maxtick \in Ticks /\ opt \in OptionRecords /\ opt.when \in Ticks
  BY MaxTickIsTick DEF Types, TypeOK
<1>2. tick \in Ticks /\ simTicks \in Ticks /\ num \in Nat /\ armed \in BOOLEAN /\ exited \in BOOLEAN
  BY DEF Types, TypeOK, Ticks
<1>3. Forever \in Nat /\ SwitchTicks \in Nat /\ Ticks \subseteq Int /\ \A t \in Ticks : 0 <= t /\ t <= Forever
  BY SimulationAssumption DEF Ticks
<1>4. /\ opt.when \in Nat /\ opt.period \in Nat /\ opt.max_checkpoints \in Nat
      /\ opt.restore \in Nat /\ opt.repeat_switch \in Nat /\ opt.standard_switch \in Nat
  BY <1>1 DEF OptionRecords
<1> QED BY <1>1, <1>2, <1>3, <1>4

(* A checkpoint that is taken leaves the earlier ones as they are. *)
LEMMA OneMore ==
  ASSUME Types, tick' \in Ticks, NEW by \in {"script", "bench", "end"}, Checkpoint(by)
  PROVE  /\ checkpoints' \in Seq(Taken) /\ Len(checkpoints') = Len(checkpoints) + 1 /\ Len(checkpoints) \in Nat
         /\ \A i \in 1 .. Len(checkpoints) : checkpoints'[i] = checkpoints[i]
         /\ checkpoints'[Len(checkpoints) + 1].tick = tick'
         /\ checkpoints'[Len(checkpoints) + 1].by = by
<1> DEFINE c == [tick |-> tick', by |-> by]
<1>1. c \in Taken /\ c.tick = tick' /\ c.by = by
  BY DEF Taken
<1> HIDE DEF c
<1>2. checkpoints' = Append(checkpoints, c) /\ checkpoints \in Seq(Taken)
  BY DEF Checkpoint, Types, c
<1> QED BY <1>1, <1>2

(* What the guest asked for, after a call of simulate(). *)
LEMMA Requested ==
  ASSUME Types, NEW n \in Int, Outcome(n)
  PROVE  /\ guest' \in Seq(Ticks) /\ Len(guest') <= MaxGuest
         /\ event' # "checkpoint" => guest' = guest
         /\ event' = "checkpoint" =>
              /\ Len(guest') = Len(guest) + 1 /\ guest'[Len(guest) + 1] = tick'
              /\ \A i \in 1 .. Len(guest) : guest'[i] = guest[i]
<1>1. guest \in Seq(Ticks) /\ Len(guest) <= MaxGuest /\ MaxGuest \in Nat /\ tick' \in Ticks
  BY SimulationAssumption DEF Types, TypeOK, Outcome
<1>2. CASE event' = "checkpoint"
  <2>1. guest' = Append(guest, tick') /\ Len(guest) < MaxGuest
    BY <1>2 DEF Outcome
  <2> QED BY <1>1, <1>2, <2>1
<1>3. CASE event' # "checkpoint"
  BY <1>1, <1>3 DEF Outcome
<1> QED BY <1>2, <1>3

(* The types after an action that simulates. *)
LEMMA TypesKept ==
  ASSUME Types, NEW n \in Int, Simulate(n), UNCHANGED opt,
         pc' \in {"start", "switch_1", "script_first", "script_loop", "script_skip", "bench", "repeat", "repeat_last", "end"},
         cause' \in {cause, event', "max"}, simTicks' \in Ticks, num' \in Nat, active' \in CPUs, pair' \in CPUs \X CPUs,
         checkpoints' \in Seq(Taken)
  PROVE  Types'
<1>1. Outcome(n) /\ armed' \in BOOLEAN /\ exited' \in BOOLEAN
  BY Facts, Simulated, SimulatedGuest
<1>2. guest' \in Seq(Ticks) /\ Len(guest') <= MaxGuest
  BY <1>1, Requested
<1>3. \A i \in 1 .. Len(checkpoints') : checkpoints'[i] \in [tick: 0 .. Forever, by: {"script", "bench", "end"}]
  <2>1. \A i \in 1 .. Len(checkpoints') : checkpoints'[i] \in Taken
    OBVIOUS
  <2> QED BY <2>1 DEF Taken, Ticks
<1>4. tick' \in 0 .. Forever /\ simTicks' \in 0 .. Forever /\ event' \in {"none", "limit", "checkpoint", "insts", "exit"}
  BY <1>1 DEF Outcome, Ticks
<1>5. cause' \in {"none", "limit", "checkpoint", "insts", "exit", "max"}
  BY <1>4 DEF Types, TypeOK
<1>6. opt' \in Options
  BY DEF Types, TypeOK
<1> QED BY <1>1, <1>2, <1>3, <1>4, <1>5, <1>6 DEF Types, TypeOK

LEMMA BenchKeeps ==
  ASSUME DriverInv, Bench
  PROVE  DriverInv'
<1> USE DEF DriverInv
<1>1. opt' = opt /\ maxtick' = maxtick
  BY DEF Bench, maxtick
<1>2. Outcome(maxtick - tick) /\ maxtick - tick \in Int
  BY Facts, Simulated DEF Bench
<1>3. /\ armed' \in BOOLEAN /\ exited' \in BOOLEAN /\ (event' = "exit" => exited')
      /\ (~armed => ~armed' /\ event' # "insts")
  BY Facts, SimulatedGuest DEF Bench
<1>4. /\ tick' \in Ticks /\ Len(checkpoints) = num
      /\ event' # "checkpoint" => UNCHANGED <<num, checkpoints>> /\ pc' = "end"
      /\ event' = "checkpoint" => num' = num + 1 /\ Checkpoint("bench")
  BY <1>2 DEF Bench, Outcome, Counted
<1>5. event' = "checkpoint" => pc' = IF num' = opt.max_checkpoints THEN "end" ELSE "bench"
  BY DEF Bench
<1>6. pc = "bench" /\ opt.mode # "script" /\ pc' \in {"bench", "end"} /\ UNCHANGED <<opt, simTicks, active, pair>>
  BY <1>4, <1>5 DEF Bench, Places
<1> HIDE DEF maxtick
<1>7. Types'
  <2>1. num' \in Nat /\ checkpoints' \in Seq(Taken)
    BY <1>4, Facts, OneMore DEF Types
  <2>2. cause' \in {cause, event', "max"} /\ active \in CPUs /\ pair \in CPUs \X CPUs
    BY DEF Bench, Types, TypeOK
  <2> QED BY <1>2, <1>6, <2>1, <2>2, Facts, TypesKept DEF Bench
<1>8. Places' /\ Switched'
  BY <1>6 DEF Places, Switched, Fatal
<1>9. Counted'
  BY <1>4, <1>6, Facts, OneMore, SMTT(30) DEF Counted, First
<1>10. Limited'
  BY <1>4, <1>5, <1>6, Facts DEF Limited
<1>11. Scheduled'
  BY <1>6 DEF Scheduled
<1>12. Answered'
  <2> SUFFICES ASSUME opt.mode = "bench", opt.switch = "none"
               PROVE  Answered'
    BY <1>1 DEF Answered
  <2>1. ~armed' /\ event' # "insts"
    BY <1>3 DEF Answered
  <2>2. Len(guest') = num' /\ \A i \in 1 .. num' : checkpoints'[i].tick = guest'[i]
    <3>1. num \in Nat /\ Len(guest) = num /\ \A i \in 1 .. num : checkpoints[i].tick = guest[i]
      BY Facts DEF Answered
    <3>2. CASE event' = "checkpoint"
      BY <1>2, <1>4, <3>1, <3>2, OneMore, Requested
    <3>3. CASE event' # "checkpoint"
      BY <1>2, <1>4, <3>1, <3>3, Requested
    <3> QED BY <3>2, <3>3
  <2>3. event' = "limit" => tick' = maxtick
    BY <1>2, Facts DEF Outcome
  <2>4. pc' \in {"end", "done"} => event' = "limit" \/ event' = "exit" \/ Len(guest') = opt.max_checkpoints
    BY <1>2, <1>4, <1>5, <2>1, <2>2 DEF Outcome
  <2> QED BY <1>1, <1>3, <2>1, <2>2, <2>3, <2>4 DEF Answered
<1>13. Within'
  BY <1>1, <1>2, <1>6, Facts DEF Within, Outcome
<1> QED BY <1>7, <1>8, <1>9, <1>10, <1>11, <1>12, <1>13

LEMMA SwitchCPUsKeeps ==
  ASSUME DriverInv, SwitchCPUs
  PROVE  DriverInv'
<1> USE DEF DriverInv
<1>1. opt' = opt /\ maxtick' = maxtick
  BY DEF SwitchCPUs, maxtick
<1> DEFINE n == IF opt.switch = "ticks" THEN SwitchTicks ELSE Forever
<1>2. n \in Int /\ Simulate(n)
  BY Facts DEF SwitchCPUs
<1> HIDE DEF n, maxtick
<1>3. /\ opt.switch # "none" /\ num = 0 /\ pc \in First /\ pc' \in {"switch_1", "start"} /\ pc' \in First
      /\ UNCHANGED <<opt, cause, simTicks, num, checkpoints, pair>>
      /\ pc' = "switch_1" <=> pc = "switch" /\ opt.switch = "standard"
  BY DEF SwitchCPUs, Places, Counted, First
<1>4. Types'
  BY <1>2, <1>3, Facts, TypesKept DEF SwitchCPUs, Types, TypeOK, CPUs
<1>5. Places'
  BY <1>3 DEF Places, Fatal
<1>6. Counted'
  BY <1>3 DEF SwitchCPUs, Counted
<1>7. Limited' /\ Scheduled'
  BY <1>1, <1>3 DEF Limited, Scheduled
<1>8. Answered' /\ Within'
  BY <1>3 DEF Answered, Within
<1>9. Switched'
  BY <1>3 DEF SwitchCPUs, Switched, Places, Fatal
<1> QED BY <1>4, <1>5, <1>6, <1>7, <1>8, <1>9

LEMMA SwitchCPUs1Keeps ==
  ASSUME DriverInv, SwitchCPUs1
  PROVE  DriverInv'
<1> USE DEF DriverInv
<1>1. opt' = opt /\ maxtick' = maxtick
  BY DEF SwitchCPUs1, maxtick
<1> DEFINE n == opt.standard_switch
<1>2. n \in Int /\ Simulate(n)
  BY Facts DEF SwitchCPUs1
<1> HIDE DEF n, maxtick
<1>3. /\ opt.switch # "none" /\ num = 0 /\ pc \in First /\ pc' \in {"start"} /\ pc' \in First
      /\ UNCHANGED <<opt, cause, simTicks, num, checkpoints, pair>>
      /\ pc' = "switch_1" <=> pc = "switch" /\ opt.switch = "standard"
  BY DEF SwitchCPUs1, Places, Counted, First
<1>4. Types'
  BY <1>2, <1>3, Facts, TypesKept DEF SwitchCPUs1, Types, TypeOK, CPUs
<1>5. Places'
  BY <1>3 DEF Places, Fatal
<1>6. Counted'
  BY <1>3 DEF SwitchCPUs1, Counted
<1>7. Limited' /\ Scheduled'
  BY <1>1, <1>3 DEF Limited, Scheduled
<1>8. Answered' /\ Within'
  BY <1>3 DEF Answered, Within
<1>9. Switched'
  BY <1>3 DEF SwitchCPUs1, Switched, Places, Fatal
<1> QED BY <1>4, <1>5, <1>6, <1>7, <1>8, <1>9

LEMMA StartKeeps ==
  ASSUME DriverInv, Start
  PROVE  DriverInv'
<1> USE DEF DriverInv
<1>1. opt' = opt /\ maxtick' = maxtick
  BY DEF Start, maxtick
<1>2. UNCHANGED <<opt, gem5, cause, simTicks, num, checkpoints, active, pair>> /\ pc = "start" /\ num = 0
  BY DEF Start, Counted, First
<1>3. \/ opt.mode = "script" /\ pc' = "script_first"
      \/ opt.mode = "repeat" /\ maxtick > opt.repeat_switch /\ pc' = "repeat"
      \/ opt.mode \in {"bench", "repeat"} /\ pc' = "bench"
  BY Facts DEF Start, OptionRecords, Modes
<1> HIDE DEF maxtick
<1>4. Types'
  BY <1>2, <1>3 DEF Types, TypeOK, gem5
<1>5. Places'
  BY <1>2, <1>3 DEF Places, Fatal
<1>6. Counted'
  BY <1>2, <1>3 DEF Counted
<1>7. Limited' /\ Scheduled'
  BY <1>1, <1>2, <1>3, Facts DEF Limited, Scheduled
<1>8. Answered'
  BY <1>1, <1>2, <1>3 DEF Answered, gem5
<1>9. Within'
  BY <1>1, <1>2, <1>3, Facts DEF Within, gem5
<1>10. Switched'
  BY <1>2, <1>3 DEF Switched
<1> QED BY <1>4, <1>5, <1>6, <1>7, <1>8, <1>9, <1>10

(* The first call of scriptCheckpoints. *)
LEMMA ScriptFirstKeeps ==
  ASSUME DriverInv, ScriptFirst
  PROVE  DriverInv'
<1> USE DEF DriverInv
<1>1. opt' = opt /\ maxtick' = maxtick
  BY DEF ScriptFirst, maxtick
<1> DEFINE n == opt.when - tick
<1>2. n \in Int /\ Simulate(n) /\ Outcome(n)
  BY Facts, Simulated DEF ScriptFirst
<1>3. /\ pc = "script_first" /\ num = 0 /\ Len(checkpoints) = 0 /\ opt.mode = "script" /\ cause' = event'
      /\ UNCHANGED <<opt, active, pair>> /\ tick' \in Ticks
  BY <1>2 DEF ScriptFirst, Places, Counted, First, Outcome
<1>4. event' = "checkpoint" => UNCHANGED <<pc, simTicks, num, checkpoints>>
  BY DEF ScriptFirst
<1>5. event' # "checkpoint" => pc' = "script_loop" /\ simTicks' = opt.when
  BY DEF ScriptFirst
<1>6. event' = "limit" => num' = 1 /\ Checkpoint("script")
  BY DEF ScriptFirst
<1>7. event' # "limit" => UNCHANGED <<num, checkpoints>>
  BY DEF ScriptFirst
<1>8. event' = "limit" => tick' = opt.when
  BY <1>2, Facts DEF Outcome
<1> HIDE DEF n, maxtick
<1>9. Types'
  <2>1. num' \in Nat /\ checkpoints' \in Seq(Taken) /\ simTicks' \in Ticks
    <3>1. simTicks' \in Ticks
      BY <1>4, <1>5, Facts
    <3>2. CASE event' = "limit"
      BY <1>3, <1>6, <3>1, <3>2, OneMore
    <3>3. CASE event' # "limit"
      BY <1>7, <3>1, <3>3, Facts DEF Types
    <3> QED BY <3>2, <3>3
  <2>2. active \in CPUs /\ pair \in CPUs \X CPUs
    BY DEF Types, TypeOK
  <2> QED BY <1>2, <1>3, <1>4, <1>5, <2>1, <2>2, TypesKept
<1>10. Places' /\ Switched'
  BY <1>3, <1>4, <1>5 DEF Places, Switched, Fatal
<1>11. Counted'
  <2>1. CASE event' = "limit"
    <3>1. num' = 1 /\ Len(checkpoints') = 1 /\ checkpoints'[1].by = "script" /\ pc' = "script_loop"
      BY <1>3, <1>5, <1>6, <2>1, OneMore
    <3> QED BY <1>3, <3>1 DEF Counted, First
  <2>2. CASE event' # "limit"
    BY <1>3, <1>4, <1>5, <1>7, <2>2 DEF Counted, First
  <2> QED BY <2>1, <2>2
<1>12. Limited'
  BY <1>3, <1>4, <1>5, <1>6, <1>7, Facts DEF Limited
<1>13. Scheduled'
  <2>1. CASE event' = "limit"
    <3>1. num' = 1 /\ checkpoints'[1].tick = opt.when
      BY <1>3, <1>6, <1>8, <2>1, OneMore
    <3> QED BY <1>3, <1>5, <1>8, <2>1, <3>1, Facts DEF Scheduled
  <2>2. CASE event' # "limit"
    <3>1. num' = 0
      BY <1>3, <1>7, <2>2
    <3> QED BY <1>3, <1>4, <1>5, <2>2, <3>1 DEF Scheduled
  <2> QED BY <2>1, <2>2
<1>14. Answered'
  BY <1>3 DEF Answered
<1>15. Within'
  BY <1>1, <1>2, <1>3, <1>4, <1>5, Facts, SMTT(30) DEF Within, Outcome, n
<1> QED BY <1>9, <1>10, <1>11, <1>12, <1>13, <1>14, <1>15

(* The schedule goes on by a period. *)
LEMMA NextTick ==
  ASSUME NEW w \in Nat, NEW p \in Nat, NEW k \in Nat
  PROVE  (w + (k - 1) * p) + p = w + k * p /\ w + k * p \in Nat
<1>1. (k - 1) * p = k * p - p /\ k * p \in Nat
  OBVIOUS
<1> QED BY <1>1

LEMMA ScriptPeriodKeeps ==
  ASSUME DriverInv, ScriptPeriod
  PROVE  DriverInv'
<1> USE DEF DriverInv
<1>1. opt' = opt /\ maxtick' = maxtick
  BY DEF ScriptPeriod, maxtick
<1> DEFINE n == opt.period
<1>2. n \in Int /\ Simulate(n) /\ Outcome(n)
  BY Facts, Simulated DEF ScriptPeriod
<1>3. /\ pc = "script_loop" /\ cause = "limit" /\ num < opt.max_checkpoints /\ simTicks + opt.period <= maxtick
      /\ simTicks' = simTicks + opt.period /\ cause' = event'
  BY DEF ScriptPeriod, LoopGoesOn
<1>4. /\ opt.mode = "script" /\ Len(checkpoints) = num /\ tick' \in Ticks /\ UNCHANGED <<opt, active, pair>>
      /\ pc' = IF event' = "checkpoint" THEN "script_skip" ELSE "script_loop"
      /\ event' = "limit" => num' = num + 1 /\ Checkpoint("script")
      /\ event' # "limit" => UNCHANGED <<num, checkpoints>>
  BY <1>2, <1>3 DEF ScriptPeriod, Places, Counted, Outcome
<1>5. num > 0 /\ simTicks' = opt.when + num * opt.period /\ simTicks' <= maxtick /\ simTicks' \in Ticks
  <2>1. num > 0 /\ tick = simTicks /\ simTicks = opt.when + (num - 1) * opt.period
    BY <1>3 DEF Scheduled
  <2>2. simTicks' = opt.when + num * opt.period
    BY <1>3, <2>1, Facts, NextTick
  <2> QED BY <1>3, <2>1, <2>2, Facts DEF Ticks
<1>6. tick + n = simTicks' /\ simTicks' <= Forever /\ tick + n \in Int /\ tick' \in Int /\ maxtick \in Int
  BY <1>3, <1>4, <1>5, Facts DEF Scheduled
<1>7. event' = "limit" => tick' = simTicks'
  BY <1>2, <1>6 DEF Outcome
<1>8. tick' <= maxtick
  BY <1>2, <1>5, <1>6, Facts DEF Outcome
<1> HIDE DEF n, maxtick
<1>9. Types'
  <2>1. num' \in Nat /\ checkpoints' \in Seq(Taken)
    <3>1. CASE event' = "limit"
      BY <1>4, <3>1, Facts, OneMore
    <3>2. CASE event' # "limit"
      BY <1>4, <3>2, Facts DEF Types
    <3> QED BY <3>1, <3>2
  <2>2. active \in CPUs /\ pair \in CPUs \X CPUs
    BY DEF Types, TypeOK
  <2> QED BY <1>2, <1>3, <1>4, <1>5, <2>1, <2>2, TypesKept
<1>10. Places' /\ Switched'
  BY <1>4 DEF Places, Switched, Fatal
<1>11. Counted'
  <2>1. CASE event' = "limit"
    BY <1>4, <2>1, Facts, OneMore, SMTT(30) DEF Counted, First
  <2>2. CASE event' # "limit"
    BY <1>3, <1>4, <2>2 DEF Counted, First
  <2> QED BY <2>1, <2>2
<1>12. Limited'
  BY <1>3, <1>4, Facts DEF Limited
<1>13. Scheduled'
  <2>1. CASE event' = "limit"
    <3>1. /\ \A i \in 1 .. num : checkpoints'[i].tick = opt.when + (i - 1) * opt.period
          /\ checkpoints'[num + 1].tick = opt.when + num * opt.period
      BY <1>4, <1>5, <1>7, <2>1, Facts, OneMore DEF Scheduled
    <3>2. num' = num + 1 /\ num' - 1 = num
      BY <1>4, <2>1, Facts
    <3>3. \A i \in 1 .. num' : i \in 1 .. num \/ (i = num + 1 /\ i - 1 = num)
      BY <3>2, Facts
    <3>4. \A i \in 1 .. num' : checkpoints'[i].tick = opt.when + (i - 1) * opt.period
      BY <3>1, <3>3
    <3> QED BY <1>4, <1>5, <1>7, <2>1, <3>2, <3>4, Facts DEF Scheduled
  <2>2. CASE event' # "limit"
    BY <1>1, <1>3, <1>4, <1>5, <2>2 DEF Scheduled
  <2> QED BY <2>1, <2>2
<1>14. Answered' /\ Within'
  BY <1>1, <1>4, <1>8 DEF Answered, Within
<1> QED BY <1>9, <1>10, <1>11, <1>12, <1>13, <1>14

LEMMA ScriptSkipKeeps ==
  ASSUME DriverInv, ScriptSkip
  PROVE  DriverInv'
<1> USE DEF DriverInv
<1>1. opt' = opt /\ maxtick' = maxtick
  BY DEF ScriptSkip, maxtick
<1> DEFINE n == simTicks - tick
<1>2. n \in Int /\ Simulate(n) /\ Outcome(n)
  BY Facts, Simulated DEF ScriptSkip
<1>3. pc = "script_skip" /\ num < opt.max_checkpoints /\ simTicks <= maxtick /\ simTicks' = simTicks /\ cause' = cause
  BY DEF ScriptSkip, Limited, Scheduled
<1>4. /\ opt.mode = "script" /\ Len(checkpoints) = num /\ tick' \in Ticks /\ UNCHANGED <<opt, active, pair>>
      /\ pc' = IF event' = "checkpoint" THEN "script_skip" ELSE "script_loop"
      /\ event' = "limit" => num' = num + 1 /\ Checkpoint("script")
      /\ event' # "limit" => UNCHANGED <<num, checkpoints>>
  BY <1>2, <1>3 DEF ScriptSkip, Places, Counted, Outcome
<1>5. num > 0 /\ simTicks' = opt.when + num * opt.period /\ simTicks' <= maxtick /\ simTicks' \in Ticks
  BY <1>3, Facts DEF Scheduled
<1>6. tick + n = simTicks' /\ simTicks' <= Forever /\ tick + n \in Int /\ tick' \in Int /\ maxtick \in Int
  <2>1. tick \in Int /\ simTicks \in Int /\ tick' \in Int /\ maxtick \in Int
    BY <1>4, Facts DEF Ticks
  <2>2. tick + n = simTicks /\ tick + n \in Int
    BY <2>1
  <2>3. simTicks' <= Forever
    BY <1>5, Facts
  <2> QED BY <1>3, <2>1, <2>2, <2>3
<1>7. event' = "limit" => tick' = simTicks'
  BY <1>2, <1>6 DEF Outcome
<1>8. tick' <= maxtick
  BY <1>2, <1>5, <1>6, Facts DEF Outcome
<1> HIDE DEF n, maxtick
<1>9. Types'
  <2>1. num' \in Nat /\ checkpoints' \in Seq(Taken)
    <3>1. CASE event' = "limit"
      BY <1>4, <3>1, Facts, OneMore
    <3>2. CASE event' # "limit"
      BY <1>4, <3>2, Facts DEF Types
    <3> QED BY <3>1, <3>2
  <2>2. active \in CPUs /\ pair \in CPUs \X CPUs
    BY DEF Types, TypeOK
  <2> QED BY <1>2, <1>3, <1>4, <1>5, <2>1, <2>2, TypesKept
<1>10. Places' /\ Switched'
  BY <1>4 DEF Places, Switched, Fatal
<1>11. Counted'
  <2>1. CASE event' = "limit"
    BY <1>4, <2>1, Facts, OneMore, SMTT(30) DEF Counted, First
  <2>2. CASE event' # "limit"
    BY <1>3, <1>4, <2>2 DEF Counted, First
  <2> QED BY <2>1, <2>2
<1>12. Limited'
  BY <1>3, <1>4, Facts DEF Limited
<1>13. Scheduled'
  <2>1. CASE event' = "limit"
    <3>1. /\ \A i \in 1 .. num : checkpoints'[i].tick = opt.when + (i - 1) * opt.period
          /\ checkpoints'[num + 1].tick = opt.when + num * opt.period
      BY <1>4, <1>5, <1>7, <2>1, Facts, OneMore DEF Scheduled
    <3>2. num' = num + 1 /\ num' - 1 = num
      BY <1>4, <2>1, Facts
    <3>3. \A i \in 1 .. num' : i \in 1 .. num \/ (i = num + 1 /\ i - 1 = num)
      BY <3>2, Facts
    <3>4. \A i \in 1 .. num' : checkpoints'[i].tick = opt.when + (i - 1) * opt.period
      BY <3>1, <3>3
    <3> QED BY <1>4, <1>5, <1>7, <2>1, <3>2, <3>4, Facts DEF Scheduled
  <2>2. CASE event' # "limit"
    BY <1>1, <1>3, <1>4, <1>5, <2>2 DEF Scheduled
  <2> QED BY <2>1, <2>2
<1>14. Answered' /\ Within'
  BY <1>1, <1>4, <1>8 DEF Answered, Within
<1> QED BY <1>9, <1>10, <1>11, <1>12, <1>13, <1>14

LEMMA ScriptRestKeeps ==
  ASSUME DriverInv, ScriptRest
  PROVE  DriverInv'
<1> USE DEF DriverInv
<1>1. opt' = opt /\ maxtick' = maxtick
  BY DEF ScriptRest, maxtick
<1> DEFINE n == maxtick - simTicks
<1>2. n \in Int /\ Simulate(n) /\ Outcome(n)
  BY Facts, Simulated DEF ScriptRest
<1>3. /\ opt.mode = "script" /\ pc = "script_loop" /\ cause = "limit" /\ cause' = event' /\ pc' = "end"
      /\ UNCHANGED <<opt, simTicks, num, checkpoints, active, pair>>
  BY DEF ScriptRest, LoopGoesOn, Places
<1>4. tick' <= maxtick
  <2>1. tick + n = maxtick /\ maxtick \in Int /\ tick' \in Int
    BY <1>2, <1>3, Facts DEF Scheduled, Outcome
  <2> QED BY <1>2, <2>1 DEF Outcome
<1> HIDE DEF n, maxtick
<1>5. Types'
  BY <1>2, <1>3, Facts, TypesKept DEF Types, TypeOK
<1>6. Places' /\ Switched'
  BY <1>3 DEF Places, Switched, Fatal
<1>7. Counted' /\ Limited' /\ Scheduled'
  BY <1>3 DEF Counted, Limited, Scheduled, First
<1>8. Answered' /\ Within'
  BY <1>1, <1>3, <1>4 DEF Answered, Within
<1> QED BY <1>5, <1>6, <1>7, <1>8

LEMMA ScriptReturnKeeps ==
  ASSUME DriverInv, ScriptReturn
  PROVE  DriverInv'
<1> USE DEF DriverInv
<1>1. opt' = opt /\ maxtick' = maxtick
  BY DEF ScriptReturn, maxtick
<1>2. /\ opt.mode = "script" /\ pc = "script_loop" /\ pc' = "end"
      /\ UNCHANGED <<opt, gem5, cause, simTicks, num, checkpoints, active, pair>>
  BY DEF ScriptReturn, Places
<1> HIDE DEF maxtick
<1>3. Types'
  BY <1>2 DEF Types, TypeOK, gem5
<1>4. Places' /\ Switched'
  BY <1>2 DEF Places, Switched, Fatal
<1>5. Counted' /\ Limited' /\ Scheduled'
  BY <1>2 DEF Counted, Limited, Scheduled, First
<1>6. Answered' /\ Within'
  BY <1>1, <1>2 DEF Answered, Within, gem5
<1> QED BY <1>3, <1>4, <1>5, <1>6

LEMMA RepeatKeeps ==
  ASSUME DriverInv, Repeat
  PROVE  DriverInv'
<1> USE DEF DriverInv
<1>1. opt' = opt /\ maxtick' = maxtick
  BY DEF Repeat, maxtick
<1> DEFINE n == opt.repeat_switch
<1>2. n \in Int /\ Simulate(n) /\ Outcome(n)
  BY Facts, Simulated DEF Repeat
<1>3. /\ opt.mode = "repeat" /\ pc = "repeat" /\ num = 0 /\ cause' = event'
      /\ UNCHANGED <<opt, simTicks, num, checkpoints>>
      /\ event' # "limit" => pc' = "end" /\ UNCHANGED <<active, pair>>
      /\ event' = "limit" => /\ active' = pair[2] /\ pair' = <<pair[2], pair[1]>>
                            /\ pc' = IF maxtick - tick' <= n THEN "repeat_last" ELSE "repeat"
  BY DEF Repeat, Places, Counted, First
<1>4. pair \in CPUs \X CPUs /\ active \in CPUs
  BY DEF Types, TypeOK
<1>5. n \in Nat /\ n = opt.repeat_switch
  BY Facts
<1> HIDE DEF n, maxtick
<1>6. Types'
  <2>1. pair' \in CPUs \X CPUs /\ active' \in CPUs
    BY <1>3, <1>4
  <2> QED BY <1>2, <1>3, <2>1, Facts, TypesKept DEF Types
<1>7. Places'
  BY <1>3 DEF Places, Fatal
<1>8. Counted' /\ Limited' /\ Scheduled'
  BY <1>3, Facts DEF Counted, Limited, Scheduled, First
<1>9. Answered'
  BY <1>3 DEF Answered
<1>10. Within'
  <2>1. tick \in Int /\ tick' \in Int /\ maxtick \in Int /\ tick' <= tick + n
    BY <1>2, Facts DEF Outcome
  <2> QED BY <1>1, <1>3, <1>5, <2>1 DEF Within
<1>11. Switched'
  BY <1>3, <1>4 DEF Switched
<1> QED BY <1>6, <1>7, <1>8, <1>9, <1>10, <1>11

LEMMA RepeatLastKeeps ==
  ASSUME DriverInv, RepeatLast
  PROVE  DriverInv'
<1> USE DEF DriverInv
<1>1. opt' = opt /\ maxtick' = maxtick
  BY DEF RepeatLast, maxtick
<1> DEFINE n == maxtick - tick
<1>2. n \in Int /\ Simulate(n) /\ Outcome(n)
  BY Facts, Simulated DEF RepeatLast
<1>3. /\ opt.mode = "repeat" /\ num = 0 /\ pc = "repeat_last" /\ pc' = "end"
      /\ UNCHANGED <<opt, cause, simTicks, num, checkpoints, active, pair>>
  BY DEF RepeatLast, Places, Counted, First
<1>4. tick' <= maxtick
  BY <1>2, Facts DEF Outcome
<1> HIDE DEF n, maxtick
<1>5. Types'
  BY <1>2, <1>3, Facts, TypesKept DEF Types, TypeOK
<1>6. Places' /\ Switched'
  BY <1>3 DEF Places, Switched, Fatal
<1>7. Counted' /\ Limited' /\ Scheduled'
  BY <1>3 DEF Counted, Limited, Scheduled, First
<1>8. Answered' /\ Within'
  BY <1>1, <1>3, <1>4 DEF Answered, Within
<1> QED BY <1>5, <1>6, <1>7, <1>8

LEMMA NegativeKeeps ==
  ASSUME DriverInv, Negative
  PROVE  DriverInv'
<1> USE DEF DriverInv
<1>1. opt' = opt /\ maxtick' = maxtick
  BY DEF Negative, maxtick
<1>2. pc # "done" /\ pc' = "done" /\ UNCHANGED <<opt, gem5, cause, simTicks, num, checkpoints, active, pair>>
  BY DEF Negative
<1>3. \/ opt.mode = "script" \/ opt.mode = "repeat"
      \/ pc = "bench" /\ maxtick < tick
  BY DEF Negative, Places
<1>4. ~(opt.mode = "bench" /\ opt.switch = "none")
  BY <1>3, Facts DEF Within
<1> HIDE DEF maxtick
<1>5. Types'
  BY <1>2 DEF Types, TypeOK, gem5
<1>6. Places' /\ Switched'
  BY <1>2 DEF Places, Switched, Fatal
<1>7. Counted' /\ Limited' /\ Scheduled'
  BY <1>2, Facts DEF Counted, Limited, Scheduled, First
<1>8. Answered' /\ Within'
  BY <1>1, <1>2, <1>4 DEF Answered, Within, gem5
<1> QED BY <1>5, <1>6, <1>7, <1>8

LEMMA EndKeeps ==
  ASSUME DriverInv, End
  PROVE  DriverInv'
<1> USE DEF DriverInv
<1>1. opt' = opt /\ maxtick' = maxtick
  BY DEF End, maxtick
<1>2. /\ pc = "end" /\ pc' = "done" /\ UNCHANGED <<opt, gem5, cause, simTicks, num, active, pair>> /\ tick' = tick
      /\ Len(checkpoints) = num
  BY DEF End, gem5, Counted
<1>3. checkpoints' = checkpoints \/ Checkpoint("end")
  BY <1>2 DEF End, Checkpoint
<1>4. /\ checkpoints' \in Seq(Taken) /\ Len(checkpoints') \in {num, num + 1}
      /\ \A i \in 1 .. num : checkpoints'[i] = checkpoints[i]
      /\ Len(checkpoints') = num + 1 => checkpoints'[num + 1].by = "end"
  <2>1. CASE checkpoints' = checkpoints
    BY <1>2, <2>1, Facts DEF Types
  <2>2. CASE Checkpoint("end")
    BY <1>2, <2>2, Facts, OneMore
  <2> QED BY <1>3, <2>1, <2>2
<1> HIDE DEF maxtick
<1>5. Types'
  <2>1. \A i \in 1 .. Len(checkpoints') : checkpoints'[i] \in [tick: 0 .. Forever, by: {"script", "bench", "end"}]
    <3>1. \A i \in 1 .. Len(checkpoints') : checkpoints'[i] \in Taken
      BY <1>4
    <3> QED BY <3>1 DEF Taken, Ticks
  <2> QED BY <1>2, <1>4, <2>1 DEF Types, TypeOK, gem5
<1>6. Places' /\ Switched'
  BY <1>2 DEF Places, Switched, Fatal
<1>7. Counted'
  <2>1. \A i \in 1 .. Len(checkpoints') : i \in 1 .. num \/ (i = num + 1 /\ i = Len(checkpoints'))
    BY <1>4, Facts
  <2>2. \A i \in 1 .. num : ~(i > num)
    BY Facts
  <2>3. num + 1 > num /\ num <= Len(checkpoints')
    BY <1>4, Facts
  <2> QED BY <1>2, <1>4, <2>1, <2>2, <2>3 DEF Counted, First
<1>8. Limited' /\ Scheduled'
  BY <1>1, <1>2, <1>4, Facts DEF Limited, Scheduled
<1>9. Answered' /\ Within'
  BY <1>1, <1>2, <1>4 DEF Answered, Within, gem5
<1> QED BY <1>5, <1>6, <1>7, <1>8, <1>9

LEMMA InitIsDriver ==
  ASSUME Init
  PROVE  DriverInv
<1>1. opt \in Options /\ opt \in OptionRecords /\ ~Fatal(opt) /\ maxtick \in Ticks
  BY SimulationAssumption, MaxTickIsTick DEF Init
<1>2. tick = opt.restore /\ tick <= maxtick /\ tick \in Ticks
  <2>1. tick \in Nat /\ tick <= maxtick /\ tick = opt.restore
    BY <1>1, SimulationAssumption DEF Init, OptionRecords, Ticks
  <2> QED BY <1>1, <2>1, SimulationAssumption DEF Ticks
<1> HIDE DEF maxtick
<1>3. /\ pc = (IF opt.switch = "none" THEN "start" ELSE "switch") /\ simTicks = 0 /\ num = 0 /\ checkpoints = <<>>
      /\ event = "none" /\ cause = "none" /\ active = "cpu" /\ guest = <<>>
      /\ pair = <<IF opt.switch = "none" THEN "cpu" ELSE "switch_cpus", "repeat_switch_cpus">>
  BY DEF Init
<1>4. armed \in BOOLEAN /\ exited \in BOOLEAN /\ (opt.switch = "none" => ~armed)
  <2>1. armed = (opt.switch \in {"fast_forward", "standard"})
    BY DEF Init
  <2>2. opt.switch \in {"fast_forward", "standard"} => opt.switch # "none"
    OBVIOUS
  <2>3. exited = FALSE
    BY DEF Init
  <2>4. (opt.switch \in {"fast_forward", "standard"}) \in BOOLEAN
    OBVIOUS
  <2>5. armed \in BOOLEAN /\ exited \in BOOLEAN
    BY <2>1, <2>3, <2>4
  <2>6. opt.switch = "none" => ~armed
    BY <2>1, <2>2
  <2> QED BY <2>5, <2>6
<1>5. Types
  <2>1. tick \in 0 .. Forever /\ simTicks \in 0 .. Forever /\ num \in Nat
    BY <1>2, <1>3, SimulationAssumption DEF Ticks
  <2>2. /\ checkpoints \in Seq(Taken) /\ guest \in Seq(Ticks) /\ Len(guest) <= MaxGuest
        /\ \A i \in 1 .. Len(checkpoints) : checkpoints[i] \in [tick: 0 .. Forever, by: {"script", "bench", "end"}]
    BY <1>3, SimulationAssumption
  <2>3. active \in CPUs /\ pair \in CPUs \X CPUs /\ pc \in {"start", "switch"}
    BY <1>3 DEF CPUs
  <2> QED BY <1>1, <1>3, <1>4, <2>1, <2>2, <2>3 DEF Types, TypeOK
<1>6. Places
  BY <1>1, <1>3 DEF Places
<1>7. Counted /\ Limited /\ Scheduled
  BY <1>1, <1>3 DEF Counted, Limited, Scheduled, OptionRecords
<1>8. Answered
  BY <1>3, <1>4 DEF Answered
<1>9. Within /\ Switched
  BY <1>1, <1>2, <1>3 DEF Within, Switched
<1> QED BY <1>5, <1>6, <1>7, <1>8, <1>9 DEF DriverInv

LEMMA StepKeepsDriver ==
  ASSUME DriverInv, [Step]_vars
  PROVE  DriverInv'
<1>1. CASE UNCHANGED vars
  <2>1. maxtick' = maxtick
    BY <1>1 DEF vars, maxtick
  <2> HIDE DEF maxtick
  <2> QED BY <1>1, <2>1 DEF vars, gem5, DriverInv, Types, TypeOK, Places, Counted, Limited, Scheduled, Answered, Within, Switched, Fatal
<1>2. CASE Step
  BY <1>2, SwitchCPUsKeeps, SwitchCPUs1Keeps, StartKeeps, ScriptFirstKeeps, ScriptPeriodKeeps, ScriptSkipKeeps,
     ScriptRestKeeps, ScriptReturnKeeps, BenchKeeps, RepeatKeeps, RepeatLastKeeps, NegativeKeeps, EndKeeps DEF Step
<1> QED BY <1>1, <1>2

(* What the driver promises follows. *)
LEMMA DriverDelivers ==
  ASSUME DriverInv
  PROVE  Inv /\ SwitchesOutActive /\ StaysWithinMaxTick /\ CheckpointsAsAsked
<1> USE DEF DriverInv
<1>1. num \in Nat /\ Len(checkpoints) \in Nat /\ opt.max_checkpoints \in Nat
  BY Facts DEF Types
<1>2. \A i \in 1 .. Len(checkpoints) : i > num <=> checkpoints[i].by = "end"
  BY DEF Counted
<1>3. Inv
  BY <1>1, <1>2 DEF Inv, Types, AtMostMaxCheckpoints, Limited
<1>4. SwitchesOutActive
  BY DEF SwitchesOutActive, Switched, Places
<1>5. StaysWithinMaxTick
  BY DEF StaysWithinMaxTick, Within
<1>6. CheckpointsOnSchedule
  <2>1. ASSUME NEW i \in 1 .. Len(checkpoints), checkpoints[i].by = "script"
        PROVE  checkpoints[i].tick = opt.when + (i - 1) * opt.period
    <3>1. i <= num /\ opt.mode = "script"
      BY <1>1, <1>2, <2>1 DEF Counted
    <3>2. i \in 1 .. num
      BY <1>1, <3>1
    <3> QED BY <3>1, <3>2 DEF Scheduled
  <2> QED BY <2>1 DEF CheckpointsOnSchedule
<1>7. GuestGetsCheckpoints
  <2> SUFFICES ASSUME opt.mode = "bench", opt.switch = "none"
               PROVE  GuestGetsCheckpoints
    BY DEF GuestGetsCheckpoints
  <2>1. Len(guest) = num /\ \A i \in 1 .. num : checkpoints[i].tick = guest[i]
    BY DEF Answered
  <2>2. \A i \in 1 .. Len(checkpoints) : checkpoints[i] \in Taken
    BY DEF Types
  <2>3. ASSUME NEW i \in 1 .. Len(checkpoints)
        PROVE  IF i <= num THEN checkpoints[i] = [tick |-> guest[i], by |-> "bench"] ELSE checkpoints[i].by = "end"
    <3>1. CASE i <= num
      <4>1. checkpoints[i].tick = guest[i] /\ checkpoints[i].by = "bench" /\ checkpoints[i] \in Taken
        BY <1>1, <2>1, <2>2, <3>1 DEF Counted
      <4> QED BY <3>1, <4>1 DEF Taken
    <3>2. CASE i > num
      BY <1>1, <1>2, <3>2
    <3> QED BY <1>1, <3>1, <3>2
  <2>4. num <= Len(checkpoints)
    BY DEF Counted
  <2>5. pc = "done" => exited \/ tick = maxtick \/ Len(guest) = opt.max_checkpoints
    BY DEF Answered
  <2> QED BY <2>1, <2>3, <2>4, <2>5 DEF GuestGetsCheckpoints
<1> QED BY <1>3, <1>4, <1>5, <1>6, <1>7 DEF CheckpointsAsAsked
-----------------------------------------------------------------------------
(* The scripts of the standard library.                                    *)
Benchmarks == {"gapbs", "parsec", "npb", "spec2006", "spec2017"}

(* What is executed in k units of the region of interest. *)
Executed(k) == {[stage |-> 2, unit |-> u, core |-> c] : u \in 1 .. k, c \in SwitchCores(script)}

Executions == [stage: Nat, unit: Nat, core: Nat]

Counters ==
  [stats: SUBSET Executions, dumps: Seq(SUBSET Executions), tick: Nat, start_tick: Nat, end_tick: Nat,
   roi_insts: SUBSET Executions, running: {StartCores(script), SwitchCores(script)}]

LibTypes ==
  /\ script \in Scripts /\ outcome \in {"unstarted", "running", "failed", "over", "successful"}
  /\ stage \in 1 .. 4 /\ call = stage /\ entered \in Nat /\ unit \in 0 .. StageUnits
  /\ ended \in {"none", "workbegin", "workend", "m5_exit", "other"}
  /\ m \in Counters
  /\ m.start_tick <= m.tick /\ m.end_tick <= m.tick

(* A script simulates as often as it has calls. *)
Simulations == Len(Calls(script))

Paced ==
  /\ outcome = "running" => stage <= Simulations /\ m.tick = entered + unit
  /\ outcome = "unstarted" => stage = 1 /\ unit = 0 /\ entered = 0 /\ m.tick = 0 /\ ended = "none"
  /\ outcome = "successful" => stage = Simulations + 1
  /\ ended = "workend" => unit = StageUnits

(* Before the region, and in it. *)
Reached ==
  /\ stage = 1 \/ (stage = 2 /\ outcome # "running") => region = {}
  /\ stage <= 2 => m.dumps = <<>>
  /\ stage = 1 => m.running = StartCores(script)
  /\ stage = 2 /\ outcome = "running" =>
       /\ script.switchable /\ region = Executed(unit) /\ m.running = SwitchCores(script)
       /\ script.name \in Benchmarks => m.stats = region /\ m.start_tick = entered

(* After it, when it took k units. *)
Measured(k) ==
  /\ script.switchable /\ region = Executed(k)
  /\ script.name \in Benchmarks /\ outcome \in {"running", "successful"} =>
       /\ Len(m.dumps) = (IF script.name = "spec2006" /\ stage = 4 THEN 2 ELSE 1)
       /\ m.roi_insts = region
       /\ script.name # "spec2006" => m.end_tick = m.start_tick + k
       /\ script.guest = Annotated => k = StageUnits \/ (script.limit # 0 /\ k = script.limit)

Saved ==
  /\ stage > 2 => \E k \in 0 .. StageUnits : Measured(k)
  /\ m.dumps # <<>> => m.dumps[1] = region
  /\ \A i \in 2 .. Len(m.dumps) : \A x \in m.dumps[i] : x.stage = 3
  /\ stage = 3 /\ outcome = "running" => \A x \in m.stats : x.stage = 3

LibInv == LibTypes /\ Paced /\ Reached /\ Saved

(* The four kinds of scripts, by what they call.                           *)
Kind(kind) ==
  /\ kind = "annotated" =>
       /\ script.name \in {"gapbs", "parsec", "npb"} /\ script.guest = Annotated /\ script.limit \in Nat
       /\ Calls(script) = <<Expect({"workbegin"}, {}, AtRegion),
                            Expect({"workend"} \cup (IF script.limit = 0 THEN {} ELSE {"limit"}), {}, Region \cup {"insts"})>>
  /\ kind = "spec" =>
       /\ script.name \in {"spec2006", "spec2017"} /\ script.guest = Exits(3) /\ script.limit = 0
       /\ Calls(script) = <<Expect({"m5_exit"}, {}, AtRegion), Expect({"m5_exit"}, {"insts"}, Region \cup {"reset"}),
                            Expect({"m5_exit"}, {}, IF script.name = "spec2006" THEN Region \cup {"reset"} ELSE {})>>
  /\ kind = "kvm" => script.name = "ubuntu-kvm" /\ script.guest = Exits(2) /\ script.limit = 0 /\ Calls(script) = CallsUbuntuKvm
  /\ kind # "plain" => script.cores = 2 /\ script.switchable
  /\ script.cores \in {1, 2}
  /\ kind = "plain" =>
       /\ script.name \notin Benchmarks /\ ~script.switchable /\ script.limit = 0
       /\ script.guest \in {Exits(1), <<"none">>}
       /\ Calls(script) = CallsRiscvUbuntu

LEMMA ScriptKinds ==
  ASSUME script \in Scripts
  PROVE  Kind("annotated") \/ Kind("spec") \/ Kind("kvm") \/ Kind("plain")
<1>1. ASSUME NEW b \in BOOLEAN, NEW size, script = Gapbs(b, size) PROVE Kind("annotated")
  BY <1>1 DEF Gapbs, Kind, Calls, CallsGapbs, Benchmarks
<1>2. ASSUME script = Parsec PROVE Kind("annotated")
  BY <1>2 DEF Parsec, Kind, Calls, CallsParsec, Benchmarks
<1>3. ASSUME NEW ticks \in TickLimits, script = Npb(ticks) PROVE Kind("annotated")
  BY <1>3, LibraryAssumption DEF Npb, Kind, Calls, CallsNpb, Benchmarks
<1>4. ASSUME NEW b \in BOOLEAN, script = Spec2017(b) PROVE Kind("spec")
  BY <1>4 DEF Spec2017, Kind, Calls, CallsSpec2017, Benchmarks
<1>5. ASSUME NEW b \in BOOLEAN, script = Spec2006(b) PROVE Kind("spec")
  BY <1>5 DEF Spec2006, Kind, Calls, CallsSpec2006, Benchmarks
<1>6. ASSUME script = UbuntuKvm PROVE Kind("kvm")
  BY <1>6 DEF UbuntuKvm, Kind, Calls, Benchmarks
<1>7. ASSUME script \in {RiscvUbuntu, RiscvFs, ArmHello, X86Ubuntu} PROVE Kind("plain")
  BY <1>7 DEF RiscvUbuntu, RiscvFs, ArmHello, X86Ubuntu, Plain, Kind, Calls, Benchmarks
<1>8. \/ \E b \in BOOLEAN, size \in {"16", "USA-road-d.NY.gr"} : script = Gapbs(b, size)
      \/ \E ticks \in TickLimits : script = Npb(ticks)
      \/ \E b \in BOOLEAN : script = Spec2017(b) \/ script = Spec2006(b)
      \/ script \in {Parsec, UbuntuKvm, RiscvUbuntu, RiscvFs, ArmHello, X86Ubuntu}
  BY DEF Scripts
<1> QED BY <1>1, <1>2, <1>3, <1>4, <1>5, <1>6, <1>7, <1>8

LEMMA NumberOfCalls ==
  ASSUME script \in Scripts
  PROVE  \/ Kind("annotated") /\ Simulations = 2
         \/ Kind("spec") /\ Simulations = 3
         \/ Kind("kvm") /\ Simulations = 2
         \/ Kind("plain") /\ Simulations = 1
<1>1. Kind("annotated") => Simulations = 2
  BY DEF Kind, Simulations
<1>2. Kind("spec") => Simulations = 3
  BY DEF Kind, Simulations
<1>3. Kind("kvm") => Simulations = 2
  BY DEF Kind, CallsUbuntuKvm, Simulations
<1>4. Kind("plain") => Simulations = 1
  BY DEF Kind, CallsRiscvUbuntu, Simulations
<1> QED BY <1>1, <1>2, <1>3, <1>4, ScriptKinds

(* The guests' events, as far as a script waits for them. *)
LEMMA Guests ==
  ASSUME script \in Scripts, NEW i \in 1 .. Simulations
  PROVE  script.guest[i] \in {"none", "workbegin", "workend", "m5_exit"}
<1>1. CASE Kind("annotated")
  BY <1>1 DEF Kind, Annotated, Simulations
<1>2. CASE Kind("spec")
  BY <1>2 DEF Kind, Exits, Simulations
<1>3. CASE Kind("kvm")
  BY <1>3 DEF Kind, Exits, CallsUbuntuKvm, Simulations
<1>4. CASE Kind("plain")
  BY <1>4 DEF Kind, CallsRiscvUbuntu, Exits, Simulations
<1> QED BY <1>1, <1>2, <1>3, <1>4, ScriptKinds

LEMMA CoreNumbers ==
  ASSUME script \in Scripts
  PROVE  StartCores(script) \subseteq Nat /\ SwitchCores(script) \subseteq Nat /\ SwitchCores(script) # {}
         /\ (script.switchable => SwitchCores(script) = RoiCores)
<1>1. script.cores \in {1, 2} /\ (script.switchable => script.cores = 2)
  BY ScriptKinds DEF Kind
<1>2. CASE script.cores = 1
  BY <1>1, <1>2 DEF StartCores, SwitchCores
<1>3. CASE script.cores = 2
  <2>1. SwitchCores(script) = {2, 3}
    BY <1>3 DEF SwitchCores
  <2> QED BY <1>3, <2>1 DEF StartCores, RoiCores
<1> QED BY <1>1, <1>2, <1>3

(* What the script calls between two simulations turns s into t. *)
Become(s, calls, t) ==
  /\ t \in Counters
  /\ t.stats = IF "reset" \in calls THEN {} ELSE s.stats
  /\ t.dumps = IF "dump" \in calls THEN Append(s.dumps, s.stats) ELSE s.dumps
  /\ t.tick = s.tick
  /\ t.start_tick = IF "start" \in calls THEN s.tick ELSE s.start_tick
  /\ t.end_tick = IF "end" \in calls THEN s.tick ELSE s.end_tick
  /\ t.roi_insts = IF "insts" \in calls THEN {x \in s.stats : x.core \in RoiCores} ELSE s.roi_insts
  /\ t.running = IF "switch" \notin calls THEN s.running
                 ELSE IF s.running = StartCores(script) THEN SwitchCores(script) ELSE StartCores(script)

LEMMA Called ==
  ASSUME NEW s \in Counters, NEW calls
  PROVE  Become(s, calls, Do(s, calls))
<1> DEFINE roi == {x \in s.stats : x.core \in RoiCores}
<1>1. roi \in SUBSET Executions
  BY DEF Counters
<1>2. Append(s.dumps, s.stats) \in Seq(SUBSET Executions)
  BY DEF Counters
<1> HIDE DEF roi
<1>3. Do(s, calls) =
        [s EXCEPT !.dumps = IF "dump" \in calls THEN Append(s.dumps, s.stats) ELSE s.dumps,
                  !.roi_insts = IF "insts" \in calls THEN roi ELSE s.roi_insts,
                  !.stats = IF "reset" \in calls THEN {} ELSE s.stats,
                  !.start_tick = IF "start" \in calls THEN s.tick ELSE s.start_tick,
                  !.end_tick = IF "end" \in calls THEN s.tick ELSE s.end_tick,
                  !.running = IF "switch" \notin calls THEN s.running
                              ELSE IF s.running = StartCores(script) THEN SwitchCores(script) ELSE StartCores(script)]
  BY DEF Do, roi, Counters
<1> QED BY <1>1, <1>2, <1>3 DEF Counters, Become, roi

LEMMA InitIsLib ==
  ASSUME LibInit
  PROVE  LibInv
<1>1. /\ script \in Scripts /\ outcome = "unstarted" /\ call = 1 /\ entered = 0 /\ stage = 1 /\ unit = 0 /\ ended = "none"
      /\ region = {}
      /\ m = [stats |-> {}, dumps |-> <<>>, tick |-> 0, start_tick |-> 0, end_tick |-> 0, roi_insts |-> {},
              running |-> StartCores(script)]
  BY DEF LibInit
<1>2. LibTypes
  <2>1. m \in Counters
    BY <1>1 DEF Counters
  <2> QED BY <1>1, <2>1, LibraryAssumption DEF LibTypes
<1>3. Paced /\ Reached /\ Saved
  BY <1>1 DEF Paced, Reached, Saved
<1> QED BY <1>2, <1>3 DEF LibInv

LEMMA RequiresKeeps ==
  ASSUME LibInv, \E b \in Builds : Requires(b)
  PROVE  LibInv'
<1>1. /\ outcome = "unstarted" /\ outcome' \in {"running", "failed"}
      /\ UNCHANGED <<script, call, entered, stage, unit, ended, m, region>>
  BY DEF Requires
<1>2. stage = 1 /\ unit = 0 /\ entered = 0 /\ m.tick = 0 /\ ended = "none" /\ script \in Scripts
  BY <1>1 DEF LibInv, Paced, LibTypes
<1>3. 1 <= Simulations
  BY <1>2, NumberOfCalls
<1>4. LibTypes'
  BY <1>1 DEF LibInv, LibTypes, Counters, StartCores, SwitchCores
<1>5. Paced'
  <2>1. Simulations' = Simulations
    BY <1>1 DEF Calls, Simulations
  <2> QED BY <1>1, <1>2, <1>3, <2>1 DEF LibInv, Paced
<1>6. Reached' /\ Saved'
  BY <1>1, <1>2 DEF LibInv, Reached, Saved, StartCores, SwitchCores
<1> QED BY <1>4, <1>5, <1>6 DEF LibInv

LEMMA RunUnitKeeps ==
  ASSUME LibInv, RunUnit
  PROVE  LibInv'
<1> DEFINE now == {[stage |-> stage, unit |-> unit', core |-> c] : c \in m.running}
<1>1. /\ outcome = "running" /\ ended = "none" /\ unit < StageUnits /\ unit' = unit + 1
      /\ m' = [m EXCEPT !.stats = m.stats \cup now, !.tick = m.tick + 1]
      /\ region' = IF stage = 2 THEN region \cup now ELSE region
      /\ UNCHANGED <<script, outcome, call, entered, stage, ended>>
  BY DEF RunUnit
<1>2. /\ script \in Scripts /\ stage \in 1 .. 4 /\ unit \in Nat /\ unit' \in 0 .. StageUnits /\ m \in Counters
      /\ m.start_tick <= m.tick /\ m.end_tick <= m.tick /\ entered \in Nat
  BY <1>1, LibraryAssumption DEF LibInv, LibTypes, Counters
<1>3. m.running \subseteq Nat
  BY <1>2, CoreNumbers DEF Counters
<1>4. now \in SUBSET Executions /\ \A x \in now : x.stage = stage
  BY <1>1, <1>2, <1>3 DEF Executions
<1> HIDE DEF now
<1>5. /\ m' \in Counters /\ m'.tick = m.tick + 1 /\ m'.stats = m.stats \cup now /\ m'.dumps = m.dumps
      /\ m'.start_tick = m.start_tick /\ m'.end_tick = m.end_tick /\ m'.running = m.running /\ m'.roi_insts = m.roi_insts
  <2>1. m.stats \cup now \in SUBSET Executions /\ m.tick + 1 \in Nat
    BY <1>2, <1>4 DEF Counters
  <2> QED BY <1>1, <1>2, <2>1 DEF Counters
<1>6. Counters' = Counters /\ Simulations' = Simulations /\ SwitchCores(script)' = SwitchCores(script)
      /\ StartCores(script)' = StartCores(script)
  BY <1>1 DEF Counters, Calls, Simulations, StartCores, SwitchCores
<1>7. LibTypes'
  <2>1. m'.start_tick <= m'.tick /\ m'.end_tick <= m'.tick
    BY <1>2, <1>5 DEF Counters
  <2> QED BY <1>1, <1>2, <1>5, <1>6, <2>1 DEF LibInv, LibTypes, Counters
<1>8. Paced'
  <2>1. m'.tick = entered' + unit'
    BY <1>1, <1>2, <1>5 DEF LibInv, Paced, Counters
  <2> QED BY <1>1, <1>6, <2>1 DEF LibInv, Paced
<1>9. Reached'
  <2>1. CASE stage = 1
    BY <1>1, <1>5, <1>6, <2>1 DEF LibInv, Reached
  <2>2. CASE stage = 2
    <3>1. script.switchable /\ region = Executed(unit) /\ m.running = SwitchCores(script)
          /\ (script.name \in Benchmarks => m.stats = region /\ m.start_tick = entered)
      BY <1>1, <2>2 DEF LibInv, Reached
    <3>2. Executed(unit) \cup now = Executed(unit + 1)
      BY <1>1, <1>2, <2>2, <3>1 DEF Executed, now
    <3>3. Executed(unit)' = Executed(unit + 1)
      BY <1>1, <1>6 DEF Executed
    <3>4. region' = Executed(unit)'
      BY <1>1, <2>2, <3>1, <3>2, <3>3
    <3>5. m.dumps = <<>>
      BY <2>2 DEF LibInv, Reached
    <3> QED BY <1>1, <1>5, <1>6, <2>2, <3>1, <3>4, <3>5 DEF Reached
  <2>3. CASE stage > 2
    BY <1>1, <1>2, <2>3 DEF Reached
  <2> QED BY <1>2, <2>1, <2>2, <2>3
<1>10. Saved'
  <2>1. stage <= 2 => m'.dumps = <<>>
    BY <1>5 DEF LibInv, Reached
  <2>2. CASE stage <= 2
    BY <1>1, <1>2, <2>1, <2>2 DEF Saved
  <2>3. CASE stage > 2
    <3>1. region' = region
      BY <1>1, <2>3
    <3>2. ASSUME NEW k \in 0 .. StageUnits, Measured(k) PROVE Measured(k)'
      <4>1. Executed(k)' = Executed(k)
        BY <1>6 DEF Executed
      <4> QED BY <1>1, <1>5, <3>1, <3>2, <4>1 DEF Measured
    <3> QED BY <1>1, <1>4, <1>5, <2>3, <3>1, <3>2 DEF LibInv, Saved
  <2> QED BY <1>2, <2>2, <2>3
<1> QED BY <1>7, <1>8, <1>9, <1>10 DEF LibInv

LEMMA StageEndsKeeps ==
  ASSUME LibInv, StageEnds
  PROVE  LibInv'
<1>1. /\ outcome = "running" /\ UNCHANGED <<script, outcome, call, entered, stage, unit, m, region>>
      /\ ended' \in {"workbegin", "workend", "m5_exit", "other"}
      /\ ended' = "workend" => unit = StageUnits
  <2>1. outcome = "running" /\ UNCHANGED <<script, outcome, call, entered, stage, unit, m, region>>
    BY DEF StageEnds
  <2>2. script \in Scripts /\ stage \in 1 .. 4 /\ stage <= Simulations
    BY <2>1 DEF LibInv, LibTypes, Paced
  <2>3. script.guest[stage] \in {"none", "workbegin", "workend", "m5_exit"}
    BY <2>2, Guests
  <2>4. \/ unit = StageUnits /\ script.guest[stage] # "none" /\ ended' = script.guest[stage]
        \/ ended' \in {"m5_exit", "other"}
    BY DEF StageEnds
  <2> QED BY <2>1, <2>3, <2>4
<1>2. LibTypes'
  BY <1>1 DEF LibInv, LibTypes, Counters, StartCores, SwitchCores
<1>3. Paced'
  BY <1>1 DEF LibInv, Paced, Calls, Simulations
<1>4. Reached' /\ Saved'
  BY <1>1 DEF LibInv, Reached, Saved, Measured, Executed, StartCores, SwitchCores
<1> QED BY <1>2, <1>3, <1>4 DEF LibInv

(* A call of simulate() that has returned: what the script calls before it *)
(* looks at the cause turns m into b, and what it calls after it into t.   *)
Why == IF ended # "none" THEN ended ELSE "limit"

Return(c, b, t) ==
  /\ outcome = "running" /\ stage \in Nat /\ stage <= Simulations /\ m \in Counters /\ script \in Scripts
  /\ Become(m, c.before, b) /\ Become(b, c.then, t)
  /\ \/ /\ Why \in c.expects /\ m' = t
        /\ outcome' = IF stage < Simulations THEN "running" ELSE "successful"
     \/ m' = b /\ outcome' \in {"failed", "over"}
  /\ stage' = stage + 1 /\ call' = stage' /\ entered' = m.tick /\ unit' = 0 /\ ended' = "none"
  /\ UNCHANGED <<script, region>>

LEMMA Returned ==
  ASSUME LibInv, Returns
  PROVE  /\ \E b, t : Return(Calls(script)[stage], b, t)
         /\ ended # "none" \/ (script.limit # 0 /\ m.tick - entered = script.limit)
<1> DEFINE c == Calls(script)[stage]
<1>1. call = stage /\ outcome = "running" /\ stage \in Nat /\ m \in Counters /\ script \in Scripts
  BY DEF LibInv, LibTypes, Returns
<1>2. stage <= Simulations
  BY <1>1 DEF LibInv, Paced
<1>3. /\ stage' = stage + 1 /\ call' = stage' /\ entered' = m.tick /\ unit' = 0 /\ ended' = "none"
      /\ UNCHANGED <<script, region>> /\ (ended # "none" \/ AtLimit)
  BY <1>1 DEF Returns
<1>4. \/ /\ Why \in c.expects /\ m' = Do(Do(m, c.before), c.then)
         /\ outcome' = IF stage < Simulations THEN "running" ELSE "successful"
      \/ m' = Do(m, c.before) /\ outcome' \in {"failed", "over"}
  BY <1>1 DEF Returns, Why, Simulations
<1> HIDE DEF c
<1>5. Become(m, c.before, Do(m, c.before))
  BY <1>1, Called
<1>6. Do(m, c.before) \in Counters
  BY <1>5 DEF Become
<1>7. Become(Do(m, c.before), c.then, Do(Do(m, c.before), c.then))
  BY <1>6, Called
<1>8. Return(c, Do(m, c.before), Do(Do(m, c.before), c.then))
  BY <1>1, <1>2, <1>3, <1>4, <1>5, <1>7 DEF Return
<1> QED BY <1>3, <1>8 DEF AtLimit, c

LEMMA ReturnsTypes ==
  ASSUME LibInv, Returns
  PROVE  LibTypes' /\ Paced'
<1>1. PICK b, t : Return(Calls(script)[stage], b, t)
  BY Returned
<1> DEFINE c == Calls(script)[stage]
<1>2. Become(m, c.before, b) /\ Become(b, c.then, t) /\ (m' = t \/ m' = b) /\ m \in Counters /\ script \in Scripts
  BY <1>1 DEF Return
<1>3. /\ outcome = "running" /\ stage \in Nat /\ stage <= Simulations
      /\ stage' = stage + 1 /\ call' = stage' /\ entered' = m.tick /\ unit' = 0 /\ ended' = "none"
      /\ UNCHANGED <<script, region>>
      /\ \/ outcome' = IF stage < Simulations THEN "running" ELSE "successful"
         \/ outcome' \in {"failed", "over"}
  BY <1>1 DEF Return
<1> HIDE DEF c
<1>4. Simulations \in Nat /\ Simulations <= 3
  BY <1>2, NumberOfCalls
<1>5. m.start_tick <= m.tick /\ m.end_tick <= m.tick /\ m.tick \in Nat /\ m.start_tick \in Nat /\ m.end_tick \in Nat
  BY <1>2 DEF LibInv, LibTypes, Counters
<1>6. b \in Counters /\ b.tick = m.tick /\ b.start_tick <= b.tick /\ b.end_tick <= b.tick
  BY <1>2, <1>5 DEF Become
<1>7. t \in Counters /\ t.tick = m.tick /\ t.start_tick <= t.tick /\ t.end_tick <= t.tick
  BY <1>2, <1>5, <1>6 DEF Become
<1>8. m' \in Counters /\ m'.tick = m.tick /\ m'.start_tick <= m'.tick /\ m'.end_tick <= m'.tick
  BY <1>2, <1>6, <1>7
<1>9. Counters' = Counters /\ Simulations' = Simulations
  BY <1>3 DEF Counters, Calls, Simulations, StartCores, SwitchCores
<1>10. LibTypes'
  <2>1. entered' \in Nat /\ unit' \in 0 .. StageUnits /\ stage' \in 1 .. 4
    <3>1. stage \in 1 .. 4
      BY DEF LibInv, LibTypes
    <3>2. stage <= 3
      BY <1>3, <1>4
    <3>3. 0 \in 0 .. StageUnits
      BY LibraryAssumption
    <3> QED BY <1>3, <1>5, <3>1, <3>2, <3>3
  <2>2. outcome' \in {"running", "failed", "over", "successful"}
    BY <1>3
  <2> QED BY <1>2, <1>3, <1>8, <1>9, <2>1, <2>2 DEF LibTypes
<1>11. Paced'
  <2>1. outcome' = "running" => stage' <= Simulations
    BY <1>3, <1>4
  <2>2. outcome' = "successful" => stage' = Simulations + 1
    BY <1>3, <1>4
  <2>3. m'.tick = entered' + unit' /\ outcome' # "unstarted"
    BY <1>3, <1>5, <1>8
  <2> QED BY <1>3, <1>9, <2>1, <2>2, <2>3 DEF Paced
<1> QED BY <1>10, <1>11

(* The first call: the region begins, or nothing more is simulated. *)
LEMMA RegionBegins ==
  ASSUME LibInv, Returns, stage = 1
  PROVE  Reached' /\ Saved'
<1> DEFINE c == Calls(script)[1]
<1>1. PICK b, t : Return(c, b, t)
  BY Returned
<1>2. script \in Scripts /\ c.before = {} /\ "dump" \notin c.then
  BY <1>1, ScriptKinds DEF Return, Kind, Expect, AtRegion, CallsUbuntuKvm, CallsRiscvUbuntu
<1>3. 1 < Simulations =>
        script.switchable /\ "switch" \in c.then /\ (script.name \in Benchmarks => c.then = AtRegion)
  <2>1. CASE Kind("annotated")
    <3>1. c = Expect({"workbegin"}, {}, AtRegion) /\ script.switchable
      BY <2>1 DEF Kind
    <3> QED BY <3>1 DEF Expect, AtRegion
  <2>2. CASE Kind("spec")
    <3>1. c = Expect({"m5_exit"}, {}, AtRegion) /\ script.switchable
      BY <2>2 DEF Kind
    <3> QED BY <3>1 DEF Expect, AtRegion
  <2>3. CASE Kind("kvm")
    <3>1. c = Expect({"m5_exit"}, {}, {"switch"}) /\ script.switchable /\ script.name \notin Benchmarks
      BY <2>3 DEF Kind, CallsUbuntuKvm, Benchmarks
    <3> QED BY <3>1 DEF Expect
  <2>4. 1 < Simulations => Kind("annotated") \/ Kind("spec") \/ Kind("kvm")
    BY <1>2, NumberOfCalls
  <2> QED BY <2>1, <2>2, <2>3, <2>4
<1> HIDE DEF c
<1>4. region = {} /\ m.dumps = <<>> /\ m.running = StartCores(script)
  BY DEF LibInv, Reached
<1>5. b.dumps = <<>> /\ b.running = StartCores(script) /\ b.tick = m.tick
  BY <1>1, <1>2, <1>4 DEF Return, Become
<1>6. /\ t.dumps = <<>>
      /\ "switch" \in c.then => t.running = SwitchCores(script)
      /\ c.then = AtRegion => t.stats = {} /\ t.start_tick = m.tick
  BY <1>1, <1>2, <1>5 DEF Return, Become, AtRegion
<1>7. m'.dumps = <<>> /\ stage' = 2 /\ unit' = 0 /\ entered' = m.tick /\ UNCHANGED <<script, region>>
  BY <1>1, <1>5, <1>6 DEF Return
<1>8. outcome' = "running" => 1 < Simulations /\ m' = t
  BY <1>1 DEF Return
<1>9. Executed(unit)' = {} /\ SwitchCores(script)' = SwitchCores(script)
  BY <1>7 DEF Executed, SwitchCores
<1>10. Reached'
  BY <1>3, <1>4, <1>6, <1>7, <1>8, <1>9 DEF Reached
<1>11. Saved'
  BY <1>7 DEF Saved
<1> QED BY <1>10, <1>11

(* The second call: what was executed since the first is saved, if it ends *)
(* with what the script expects.                                           *)
LEMMA RegionEnds ==
  ASSUME LibInv, Returns, stage = 2
  PROVE  Reached' /\ Saved'
<1> DEFINE c == Calls(script)[2]
<1>1. PICK b, t : Return(c, b, t)
  BY Returned
<1>2. /\ script \in Scripts /\ outcome = "running" /\ UNCHANGED <<script, region>> /\ stage' = 3 /\ 2 <= Simulations
      /\ m \in Counters
      /\ \/ Why \in c.expects /\ m' = t /\ (outcome' = "running" => 2 < Simulations)
         \/ m' = b /\ outcome' \in {"failed", "over"}
      /\ Become(m, c.before, b) /\ Become(b, c.then, t)
  BY <1>1 DEF Return
<1>3. /\ script.switchable /\ region = Executed(unit) /\ m.dumps = <<>>
      /\ script.name \in Benchmarks => m.stats = region /\ m.start_tick = entered
      /\ unit \in 0 .. StageUnits /\ m.tick = entered + unit /\ entered \in Nat
  BY <1>2 DEF LibInv, Reached, LibTypes, Paced
<1>4. /\ ended # "none" \/ (script.limit # 0 /\ unit = script.limit)
      /\ ended = "workend" => unit = StageUnits
      /\ ended \in {"none", "workbegin", "workend", "m5_exit", "other"}
  <2>1. ended # "none" \/ (script.limit # 0 /\ m.tick - entered = script.limit)
    BY Returned
  <2>2. m.tick - entered = unit
    BY <1>3, LibraryAssumption
  <2> QED BY <2>1, <2>2 DEF LibInv, Paced, LibTypes
<1>5. {x \in region : x.core \in RoiCores} = region
  <2>1. SwitchCores(script) = RoiCores
    BY <1>2, <1>3, CoreNumbers
  <2> QED BY <1>3, <2>1 DEF Executed
<1>6. \/ Kind("annotated") /\ c = Expect({"workend"} \cup (IF script.limit = 0 THEN {} ELSE {"limit"}), {}, Region \cup {"insts"})
      \/ Kind("spec") /\ c = Expect({"m5_exit"}, {"insts"}, Region \cup {"reset"})
      \/ Kind("kvm") /\ c = Expect({"m5_exit"}, {}, {})
  <2>1. Kind("annotated") => c = Expect({"workend"} \cup (IF script.limit = 0 THEN {} ELSE {"limit"}), {}, Region \cup {"insts"})
    BY DEF Kind
  <2>2. Kind("spec") => c = Expect({"m5_exit"}, {"insts"}, Region \cup {"reset"})
    BY DEF Kind
  <2>3. Kind("kvm") => c = Expect({"m5_exit"}, {}, {})
    BY DEF Kind, CallsUbuntuKvm
  <2>4. Kind("annotated") \/ Kind("spec") \/ Kind("kvm")
    BY <1>2, NumberOfCalls
  <2> QED BY <2>1, <2>2, <2>3, <2>4
<1> HIDE DEF c
<1>7. PICK k \in 0 .. StageUnits : k = unit
  BY <1>3
<1> DEFINE Goal == /\ m'.dumps \in {<<>>, <<region>>}
                   /\ script.name \in Benchmarks /\ outcome' \in {"running", "successful"} =>
                        /\ m'.dumps = <<region>> /\ m'.roi_insts = region /\ m'.end_tick = m'.start_tick + k
                        /\ script.guest = Annotated => k = StageUnits \/ (script.limit # 0 /\ k = script.limit)
                   /\ outcome' = "running" => m'.stats = {}
<1>8. ASSUME Kind("annotated"), c = Expect({"workend"} \cup (IF script.limit = 0 THEN {} ELSE {"limit"}), {}, Region \cup {"insts"}) PROVE Goal
  <2>1. script.name \in Benchmarks /\ Simulations = 2
    BY <1>8 DEF Kind, Benchmarks, Simulations
  <2>2. b.stats = region /\ b.dumps = <<>> /\ b.tick = m.tick /\ b.start_tick = entered
    BY <1>2, <1>3, <1>8, <2>1 DEF Become, Expect
  <2>3. t.dumps = <<region>> /\ t.roi_insts = region /\ t.end_tick = m.tick /\ t.start_tick = entered
    <3>1. "dump" \in c.then /\ "end" \in c.then /\ "insts" \in c.then /\ "start" \notin c.then
      BY <1>8 DEF Expect, Region
    <3>2. t.dumps = Append(b.dumps, b.stats) /\ t.roi_insts = {x \in b.stats : x.core \in RoiCores}
          /\ t.end_tick = b.tick /\ t.start_tick = b.start_tick
      BY <1>2, <3>1 DEF Become
    <3> QED BY <1>5, <2>2, <3>2
  <2>4. Why \in c.expects => unit = StageUnits \/ (script.limit # 0 /\ unit = script.limit)
    <3>1. ASSUME ended # "none", Why \in c.expects PROVE ended = "workend"
      BY <1>4, <1>8, <3>1 DEF Why, Expect
    <3> QED BY <1>4, <3>1
  <2>5. outcome' # "running"
    BY <1>2, <2>1
  <2> QED BY <1>2, <1>3, <1>7, <2>2, <2>3, <2>4, <2>5
<1>9. ASSUME Kind("spec"), c = Expect({"m5_exit"}, {"insts"}, Region \cup {"reset"}) PROVE Goal
  <2>1. script.name \in Benchmarks /\ script.guest # Annotated
    <3>1. script.guest[1] = "m5_exit" /\ Annotated[1] = "workbegin"
      BY <1>9 DEF Kind, Exits, Annotated
    <3> QED BY <1>9, <3>1 DEF Kind, Benchmarks
  <2>2. b.stats = region /\ b.dumps = <<>> /\ b.tick = m.tick /\ b.start_tick = entered /\ b.roi_insts = region
    <3>1. "insts" \in c.before /\ "start" \notin c.before /\ "dump" \notin c.before /\ "reset" \notin c.before
      BY <1>9 DEF Expect
    <3> QED BY <1>2, <1>3, <1>5, <2>1, <3>1 DEF Become
  <2>3. t.dumps = <<region>> /\ t.roi_insts = region /\ t.end_tick = m.tick /\ t.start_tick = entered /\ t.stats = {}
    <3>1. "dump" \in c.then /\ "end" \in c.then /\ "reset" \in c.then /\ "insts" \notin c.then /\ "start" \notin c.then
      BY <1>9 DEF Expect, Region
    <3>2. t.dumps = Append(b.dumps, b.stats) /\ t.roi_insts = b.roi_insts /\ t.stats = {}
          /\ t.end_tick = b.tick /\ t.start_tick = b.start_tick
      BY <1>2, <3>1 DEF Become
    <3> QED BY <2>2, <3>2
  <2> QED BY <1>2, <1>3, <1>7, <2>1, <2>2, <2>3
<1>10. ASSUME Kind("kvm"), c = Expect({"m5_exit"}, {}, {}) PROVE Goal
  <2>1. script.name \notin Benchmarks /\ Simulations = 2
    BY <1>10 DEF Kind, Benchmarks, Simulations, CallsUbuntuKvm
  <2>2. b.dumps = <<>> /\ t.dumps = <<>>
    BY <1>2, <1>3, <1>10 DEF Become, Expect
  <2>3. outcome' # "running"
    BY <1>2, <2>1
  <2> QED BY <1>2, <2>1, <2>2, <2>3
<1>11. Goal
  BY <1>6, <1>8, <1>9, <1>10
<1>12. Reached'
  BY <1>2 DEF Reached
<1>13. Measured(k)'
  <2>1. Executed(k)' = Executed(k)
    BY <1>2 DEF Executed, SwitchCores
  <2>2. ASSUME script.name \in Benchmarks, outcome' \in {"running", "successful"}
        PROVE  /\ Len(m'.dumps) = 1 /\ m'.roi_insts = region' /\ m'.end_tick = m'.start_tick + k
               /\ script.guest = Annotated => k = StageUnits \/ (script.limit # 0 /\ k = script.limit)
    BY <1>2, <1>11, <2>2
  <2> QED BY <1>2, <1>3, <1>7, <2>1, <2>2 DEF Measured
<1>14. Saved'
  <2>1. \A i \in 2 .. Len(m'.dumps) : FALSE
    <3>1. m'.dumps = <<>> \/ m'.dumps = <<region>>
      BY <1>11
    <3>2. m'.dumps = <<>> => Len(m'.dumps) = 0
      OBVIOUS
    <3>3. m'.dumps = <<region>> => Len(m'.dumps) = 1
      OBVIOUS
    <3>4. CASE m'.dumps = <<>>
      BY <3>2, <3>4
    <3>5. CASE m'.dumps = <<region>>
      BY <3>3, <3>5
    <3> QED BY <3>1, <3>4, <3>5
  <2>2. m'.dumps # <<>> => m'.dumps[1] = region'
    BY <1>2, <1>11
  <2> QED BY <1>2, <1>7, <1>11, <1>13, <2>1, <2>2 DEF Saved
<1> QED BY <1>12, <1>14

(* The third call, of the scripts for SPEC: the logs are copied. *)
LEMMA LogsAreCopied ==
  ASSUME LibInv, Returns, stage > 2
  PROVE  Reached' /\ Saved'
<1> DEFINE c == Calls(script)[3]
<1>1. PICK b, t : Return(Calls(script)[stage], b, t)
  BY Returned
<1>2. /\ script \in Scripts /\ outcome = "running" /\ UNCHANGED <<script, region>> /\ stage' = stage + 1 /\ stage \in Nat
      /\ stage <= Simulations /\ m \in Counters
  BY <1>1 DEF Return
<1>3. Kind("spec") /\ stage = 3 /\ stage' = 4 /\ Simulations = 3
  BY <1>2, NumberOfCalls
<1>4. /\ \/ Why \in c.expects /\ m' = t /\ outcome' = "successful"
         \/ m' = b /\ outcome' \in {"failed", "over"}
      /\ Become(m, c.before, b) /\ Become(b, c.then, t)
  BY <1>1, <1>3 DEF Return
<1>5. c = Expect({"m5_exit"}, {}, IF script.name = "spec2006" THEN Region \cup {"reset"} ELSE {})
  BY <1>3 DEF Kind
<1>6. /\ script.name \in {"spec2006", "spec2017"} /\ script.name \in Benchmarks /\ script.guest # Annotated
  <2>1. script.guest[1] = "m5_exit" /\ Annotated[1] = "workbegin"
    BY <1>3 DEF Kind, Exits, Annotated
  <2> QED BY <1>3, <2>1 DEF Kind, Benchmarks
<1> HIDE DEF c
<1>7. /\ \E k \in 0 .. StageUnits : Measured(k)
      /\ m.dumps # <<>> => m.dumps[1] = region
      /\ \A x \in m.stats : x.stage = 3
  BY <1>2, <1>3 DEF LibInv, Saved
<1>8. PICK k \in 0 .. StageUnits : Measured(k)
  BY <1>7
<1>9. /\ Len(m.dumps) = 1 /\ m.roi_insts = region /\ script.switchable /\ region = Executed(k)
      /\ script.name # "spec2006" => m.end_tick = m.start_tick + k
  BY <1>2, <1>3, <1>6, <1>8 DEF Measured
<1>10. b.dumps = m.dumps /\ b.stats = m.stats /\ b.roi_insts = m.roi_insts /\ b.start_tick = m.start_tick
       /\ b.end_tick = m.end_tick
  BY <1>4, <1>5 DEF Become, Expect
<1>11. m.dumps \in Seq(SUBSET Executions) /\ m.dumps[1] = region
  <2>1. m.dumps \in Seq(SUBSET Executions)
    BY <1>2 DEF Counters
  <2>2. m.dumps # <<>>
    BY <1>9
  <2> QED BY <1>7, <2>1, <2>2
<1>12. /\ t.roi_insts = region /\ t.dumps[1] = region
       /\ \A i \in 2 .. Len(t.dumps) : \A x \in t.dumps[i] : x.stage = 3
       /\ Len(t.dumps) = IF script.name = "spec2006" THEN 2 ELSE 1
       /\ script.name # "spec2006" => t.end_tick = t.start_tick + k
  <2>1. CASE script.name = "spec2006"
    <3>1. t.dumps = Append(m.dumps, m.stats) /\ t.roi_insts = region
      BY <1>4, <1>5, <1>9, <1>10, <2>1 DEF Become, Expect, Region
    <3>2. Len(t.dumps) = 2 /\ t.dumps[1] = region /\ t.dumps[2] = m.stats
      BY <1>9, <1>11, <3>1
    <3>3. \A i \in 2 .. Len(t.dumps) : i = 2
      BY <3>2
    <3> QED BY <1>7, <2>1, <3>1, <3>2, <3>3
  <2>2. CASE script.name # "spec2006"
    <3>1. t.dumps = m.dumps /\ t.roi_insts = region /\ t.end_tick = m.end_tick /\ t.start_tick = m.start_tick
      BY <1>4, <1>5, <1>9, <1>10, <2>2 DEF Become, Expect
    <3> QED BY <1>9, <1>11, <2>2, <3>1
  <2> QED BY <2>1, <2>2
<1>13. Reached'
  BY <1>2, <1>3 DEF Reached
<1>14. Measured(k)'
  <2>1. Executed(k)' = Executed(k)
    BY <1>2 DEF Executed, SwitchCores
  <2> QED BY <1>2, <1>3, <1>4, <1>6, <1>9, <1>12, <2>1 DEF Measured
<1>15. Saved'
  <2>1. \A i \in 2 .. Len(m'.dumps) : \A x \in m'.dumps[i] : x.stage = 3
    BY <1>4, <1>9, <1>10, <1>12
  <2>2. m'.dumps[1] = region'
    BY <1>2, <1>4, <1>10, <1>11, <1>12
  <2> QED BY <1>2, <1>3, <1>14, <2>1, <2>2 DEF Saved
<1> QED BY <1>13, <1>15

LEMMA StepKeepsLib ==
  ASSUME LibInv, [LibNext]_libVars
  PROVE  LibInv'
<1>1. CASE UNCHANGED libVars
  <2>1. UNCHANGED <<script, outcome, call, entered, stage, unit, ended, m, region>>
    BY <1>1 DEF libVars
  <2>2. Counters' = Counters /\ Simulations' = Simulations /\ SwitchCores(script)' = SwitchCores(script)
        /\ StartCores(script)' = StartCores(script)
    BY <2>1 DEF Counters, Calls, Simulations, StartCores, SwitchCores
  <2>3. LibTypes' /\ Paced'
    BY <2>1, <2>2 DEF LibInv, LibTypes, Paced
  <2>4. Reached' /\ Saved'
    BY <2>1 DEF LibInv, Reached, Saved, Measured, Executed, StartCores, SwitchCores
  <2> QED BY <2>3, <2>4 DEF LibInv
<1>2. CASE Returns
  <2>1. LibTypes' /\ Paced'
    BY <1>2, ReturnsTypes
  <2>2. stage \in 1 .. 4
    BY DEF LibInv, LibTypes
  <2>3. Reached' /\ Saved'
    BY <1>2, <2>2, RegionBegins, RegionEnds, LogsAreCopied
  <2> QED BY <2>1, <2>3 DEF LibInv
<1> QED BY <1>1, <1>2, RequiresKeeps, RunUnitKeeps, StageEndsKeeps DEF LibNext

(* What the scripts promise follows. *)
LEMMA ScriptsDeliver ==
  ASSUME LibInv
  PROVE  LibTypeOK /\ RegionIsMeasured
<1>1. /\ script \in Scripts /\ stage \in 1 .. 4 /\ m \in Counters /\ unit \in 0 .. StageUnits
      /\ outcome = "successful" => stage = Simulations + 1
  BY DEF LibInv, LibTypes, Paced
<1>2. LibTypeOK
  BY DEF LibInv, LibTypes, LibTypeOK, Counters
<1>3. /\ m.dumps # <<>> => m.dumps[1] = region
      /\ \A i \in 2 .. Len(m.dumps) : \A x \in m.dumps[i] : x.stage = 3
  BY DEF LibInv, Saved
<1>4. stage > 2 => \E k \in 0 .. StageUnits : Measured(k)
  BY DEF LibInv, Saved
<1>5. ASSUME script.switchable, NEW x \in region PROVE x.core \in SwitchCores(script)
  <2>1. \E k \in Int : region = Executed(k)
    <3>1. CASE stage > 2
      BY <1>4, <3>1, LibraryAssumption DEF Measured
    <3>2. CASE stage <= 2
      <4>1. stage = 2 /\ outcome = "running"
        BY <1>1, <1>5, <3>2 DEF LibInv, Reached
      <4> QED BY <1>1, <4>1, LibraryAssumption DEF LibInv, Reached
    <3> QED BY <1>1, <3>1, <3>2
  <2> QED BY <1>5, <2>1 DEF Executed
<1>6. ASSUME outcome = "successful", script.name \in Benchmarks
      PROVE  /\ Len(m.dumps) = (IF script.name = "spec2006" THEN 2 ELSE 1)
             /\ m.roi_insts = region
             /\ script.name # "spec2006" => m.end_tick - m.start_tick = Cardinality({x.unit : x \in region})
             /\ script.guest = Annotated =>
                  ({x.unit : x \in region} = 1 .. StageUnits
                   \/ (script.limit # 0 /\ Cardinality({x.unit : x \in region}) = script.limit))
  <2>1. stage > 2 /\ (script.name = "spec2006" => stage = 4)
    <3>1. Kind("plain") => script.name \notin Benchmarks
      BY DEF Kind
    <3>2. Kind("annotated") \/ Kind("kvm") => script.name # "spec2006"
      BY DEF Kind
    <3> QED BY <1>1, <1>6, <3>1, <3>2, NumberOfCalls
  <2>2. PICK k \in 0 .. StageUnits : Measured(k)
    BY <1>4, <2>1
  <2>3. k \in Nat /\ region = Executed(k) /\ script.switchable
    BY <2>2, LibraryAssumption DEF Measured
  <2>4. {x.unit : x \in region} = 1 .. k
    <3>1. PICK c : c \in SwitchCores(script)
      BY <1>1, CoreNumbers
    <3>2. \A x \in region : x.unit \in 1 .. k
      BY <2>3 DEF Executed
    <3>3. ASSUME NEW u \in 1 .. k PROVE u \in {x.unit : x \in region}
      <4>1. [stage |-> 2, unit |-> u, core |-> c] \in region
        BY <2>3, <3>1, <3>3 DEF Executed
      <4>2. [stage |-> 2, unit |-> u, core |-> c].unit = u
        OBVIOUS
      <4> QED BY <4>1, <4>2
    <3> QED BY <3>2, <3>3
  <2>5. Cardinality({x.unit : x \in region}) = k
    <3>1. Cardinality(1 .. k) = k
      BY <2>3, FS_Interval
    <3> QED BY <2>4, <3>1
  <2>6. /\ Len(m.dumps) = (IF script.name = "spec2006" /\ stage = 4 THEN 2 ELSE 1)
        /\ m.roi_insts = region
        /\ script.name # "spec2006" => m.end_tick = m.start_tick + k
        /\ script.guest = Annotated => k = StageUnits \/ (script.limit # 0 /\ k = script.limit)
    BY <1>6, <2>2 DEF Measured
  <2>7. m.start_tick \in Nat
    BY <1>1 DEF Counters
  <2>8. script.name # "spec2006" => m.end_tick - m.start_tick = k
    BY <2>3, <2>6, <2>7
  <2> QED BY <2>1, <2>4, <2>5, <2>6, <2>8
<1>7. RegionIsMeasured
  BY <1>3, <1>5, <1>6 DEF RegionIsMeasured, Benchmarks
<1> QED BY <1>2, <1>7
-----------------------------------------------------------------------------
LEMMA BothAreKept == MCSpec => [](DriverInv /\ LibInv)
<1>1. MCInit => DriverInv /\ LibInv
  BY InitIsDriver, InitIsLib DEF MCInit
<1>2. ASSUME DriverInv, LibInv, [MCNext]_mcVars PROVE DriverInv' /\ LibInv'
  <2>1. CASE DriverStep
    BY <1>2, <2>1, StepKeepsDriver, StepKeepsLib DEF DriverStep
  <2>2. CASE ScriptStep
    BY <1>2, <2>2, StepKeepsDriver, StepKeepsLib DEF ScriptStep
  <2>3. CASE UNCHANGED mcVars
    BY <1>2, <2>3, StepKeepsDriver, StepKeepsLib DEF mcVars
  <2> QED BY <1>2, <2>1, <2>2, <2>3 DEF MCNext
<1> QED BY <1>1, <1>2, PTL DEF MCSpec

(* For every command line and every guest: the driver takes no more        *)
(* checkpoints than it may, switches out only CPUs that run, and does not  *)
(* simulate beyond maxtick where it compares with it.                      *)
THEOREM DriverIsSafe == MCSpec => []MCInv
<1>1. DriverInv /\ LibInv => MCInv
  BY DriverDelivers, ScriptsDeliver DEF MCInv
<1> QED BY <1>1, BothAreKept, PTL

(* For every schedule and every number of requests of the guest:           *)
(* checkpoints are where the command line, or the guest, asks for them.    *)
THEOREM CheckpointsAreTaken == MCSpec => []CheckpointsAsAsked
<1>1. DriverInv => CheckpointsAsAsked
  BY DriverDelivers
<1> QED BY <1>1, BothAreKept, PTL

(* For stages of any length and every --ticks: what a script saves, prints *)
(* and times is its region of interest.                                    *)
THEOREM RegionsAreMeasured == MCSpec => []RegionIsMeasured
<1>1. LibInv => RegionIsMeasured
  BY ScriptsDeliver
<1> QED BY <1>1, BothAreKept, PTL
=============================================================================
