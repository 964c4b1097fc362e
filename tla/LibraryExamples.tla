-------------------------- MODULE LibraryExamples --------------------------
(***************************************************************************)
(* example/gem5_library: scripts over gem5's standard library that boot a  *)
(* guest on fast cores, switch to detailed ones where its region of        *)
(* interest begins, and take statistics where it ends.  What begins and    *)
(* ends is told by nothing but the causes for which m5.simulate() returns. *)
(* The guest runs stage after stage, each of the same number of units; a   *)
(* stage ends with an event, or the guest fails within it.                 *)
(***************************************************************************)
EXTENDS Integers, Sequences, FiniteSets

CONSTANTS
  StageUnits,   \* units in a stage of the guest
  TickLimits    \* values of --ticks in units, 0 for none

ASSUME LibraryAssumption == StageUnits \in Nat \ {0} /\ TickLimits \subseteq Nat

VARIABLES
  script,    \* the script, with its command line
  outcome,   \* unstarted, running, failed, over (without a claim) or successful
  call,      \* which call of simulate() it is in
  entered,   \* the tick at which that call was made
  stage,     \* of the guest
  unit,      \* units of the stage that are executed
  ended,     \* the event with which the stage has ended, or none
  m,         \* what gem5 counts and the script keeps
  region     \* history: what was executed in the second stage

libVars == <<script, outcome, call, entered, stage, unit, ended, m, region>>

(* A call of simulate(): the causes that are expected, what the script     *)
(* calls before it looks at the cause, and after it found an expected one. *)
Expect(causes, before, then) == [expects |-> causes, before |-> before, then |-> then]

AtRegion == {"reset", "start", "switch"}
Region   == {"dump", "end"}

X86 == [isa |-> "X86", protocol |-> "MESI_Two_Level", kvm |-> TRUE]
IsaOnly(isa) == [isa |-> isa, protocol |-> "any", kvm |-> FALSE]

(* The guests' stages and the events at their ends. *)
Annotated == <<"workbegin", "workend", "m5_exit">>
Exits(n)  == [i \in 1 .. n |-> "m5_exit"]

(* The scripts: system and command line, and, with Calls..., simulation. *)
Gapbs(synthetic, size) ==
  [name |-> "gapbs", requires |-> X86, fails |-> synthetic /\ size = "USA-road-d.NY.gr",
   cores |-> 2, switchable |-> TRUE, limit |-> 0, guest |-> Annotated]
CallsGapbs == <<Expect({"workbegin"}, {}, AtRegion), Expect({"workend"}, {}, Region \cup {"insts"})>>

Parsec ==
  [name |-> "parsec", requires |-> X86, fails |-> FALSE, cores |-> 2, switchable |-> TRUE, limit |-> 0, guest |-> Annotated]
CallsParsec == <<Expect({"workbegin"}, {}, AtRegion), Expect({"workend"}, {}, Region \cup {"insts"})>>

Npb(ticks) ==
  [name |-> "npb", requires |-> X86, fails |-> FALSE, cores |-> 2, switchable |-> TRUE, limit |-> ticks, guest |-> Annotated]

(* The mutant does not reset the statistics of the boot. *)
CallsNpbNoReset(ticks) ==
  <<Expect({"workbegin"}, {}, {"start", "switch"}),
    Expect({"workend"} \cup (IF ticks = 0 THEN {} ELSE {"limit"}), {}, Region \cup {"insts"})>>
CallsNpb(ticks) ==
  <<Expect({"workbegin"}, {}, AtRegion),
    Expect({"workend"} \cup (IF ticks = 0 THEN {} ELSE {"limit"}), {}, Region \cup {"insts"})>>

(* The runscript of the SPEC images exits before and after the benchmark,  *)
(* and when its logs are copied.                                           *)
Spec2017(image) ==
  [name |-> "spec2017", requires |-> X86, fails |-> ~image, cores |-> 2, switchable |-> TRUE, limit |-> 0, guest |-> Exits(3)]
CallsSpec2017 ==
  <<Expect({"m5_exit"}, {}, AtRegion),
    Expect({"m5_exit"}, {"insts"}, Region \cup {"reset"}),
    Expect({"m5_exit"}, {}, {})>>

Spec2006(image) ==
  [name |-> "spec2006", requires |-> X86, fails |-> ~image, cores |-> 2, switchable |-> TRUE, limit |-> 0, guest |-> Exits(3)]
CallsSpec2006 ==
  <<Expect({"m5_exit"}, {}, AtRegion),
    Expect({"m5_exit"}, {"insts"}, Region \cup {"reset"}),
    Expect({"m5_exit"}, {}, Region \cup {"reset"})>>

(* A Simulator with a generator for the first m5 exit. *)
UbuntuKvm ==
  [name |-> "ubuntu-kvm", requires |-> X86, fails |-> FALSE, cores |-> 2, switchable |-> TRUE, limit |-> 0, guest |-> Exits(2)]
CallsUbuntuKvm == <<Expect({"m5_exit"}, {}, {"switch"}), Expect({"m5_exit"}, {}, {})>>

(* Boards that only boot, or run a program, on cores of one kind. *)
Plain(name, isa, cores) ==
  [name |-> name, requires |-> IsaOnly(isa), fails |-> FALSE, cores |-> cores, switchable |-> FALSE, limit |-> 0, guest |-> Exits(1)]
RiscvUbuntu == Plain("riscv-ubuntu", "RISCV", 2)
RiscvFs     == [Plain("riscv-fs", "RISCV", 1) EXCEPT !.guest = <<"none">>]      \* "This simulation will never stop"
ArmHello    == Plain("arm-hello", "ARM", 1)      \* the end of the program is the same exit event
X86Ubuntu   == [Plain("x86-ubuntu", "X86", 2) EXCEPT !.requires = [X86 EXCEPT !.kvm = FALSE]]
CallsRiscvUbuntu == <<Expect({"m5_exit"}, {}, {})>>

Scripts ==
  {Gapbs(synthetic, size) : synthetic \in BOOLEAN, size \in {"16", "USA-road-d.NY.gr"}}
  \cup {Npb(ticks) : ticks \in TickLimits} \cup {Spec2017(image) : image \in BOOLEAN} \cup {Spec2006(image) : image \in BOOLEAN}
  \cup {Parsec, UbuntuKvm, RiscvUbuntu, RiscvFs, ArmHello, X86Ubuntu}

Calls(s) ==
  CASE s.name = "gapbs" -> CallsGapbs
    [] s.name = "parsec" -> CallsParsec
    [] s.name = "npb" -> CallsNpb(s.limit)
    [] s.name = "spec2017" -> CallsSpec2017
    [] s.name = "spec2006" -> CallsSpec2006
    [] s.name = "ubuntu-kvm" -> CallsUbuntuKvm
    [] OTHER -> CallsRiscvUbuntu

(* Scripts that look at the cause themselves. *)
Checks(s) == s.name \in {"gapbs", "parsec", "npb", "spec2017", "spec2006", "riscv-ubuntu"}

(* Cores are numbered through: first those it starts with.  The scripts    *)
(* that print instructions name the cores they add up.                     *)
StartCores(s)  == 0 .. s.cores - 1
SwitchCores(s) == s.cores .. 2 * s.cores - 1
RoiCores == {2, 3}
-----------------------------------------------------------------------------
(* What is called between two simulations: statistics are saved and        *)
(* instructions are printed before the counters are reset.                 *)
Do(s, calls) ==
  [s EXCEPT !.dumps = IF "dump" \in calls THEN Append(@, s.stats) ELSE @,
            !.roi_insts = IF "insts" \in calls THEN {x \in s.stats : x.core \in RoiCores} ELSE @,
            !.stats = IF "reset" \in calls THEN {} ELSE @,
            !.start_tick = IF "start" \in calls THEN s.tick ELSE @,
            !.end_tick = IF "end" \in calls THEN s.tick ELSE @,
            !.running = IF "switch" \notin calls THEN @
                        ELSE IF @ = StartCores(script) THEN SwitchCores(script) ELSE StartCores(script)]

LibInit ==
  /\ script \in Scripts /\ outcome = "unstarted" /\ call = 1 /\ entered = 0
  /\ stage = 1 /\ unit = 0 /\ ended = "none" /\ region = {}
  /\ m = [stats |-> {}, dumps |-> <<>>, tick |-> 0, start_tick |-> 0, end_tick |-> 0, roi_insts |-> {}, running |-> StartCores(script)]

(* requires() of gem5's build, then the command line. *)
Requires(build) ==
  /\ outcome = "unstarted"
  /\ LET r == script.requires
         met == r.isa = build.isa /\ r.protocol \in {"any", build.protocol} /\ (r.kvm => build.kvm)
     IN outcome' = IF met /\ ~script.fails THEN "running" ELSE "failed"
  /\ UNCHANGED <<script, call, entered, stage, unit, ended, m, region>>

(* simulate(args.ticks) for the region. *)
AtLimit == script.limit # 0 /\ call = 2 /\ m.tick - entered = script.limit

(* gem5 and its guest. *)
RunUnit ==
  /\ outcome = "running" /\ ended = "none" /\ unit < StageUnits /\ ~AtLimit
  /\ unit' = unit + 1
  /\ LET now == {[stage |-> stage, unit |-> unit', core |-> c] : c \in m.running}
     IN /\ m' = [m EXCEPT !.stats = @ \cup now, !.tick = @ + 1]
        /\ region' = IF stage = 2 THEN region \cup now ELSE region
  /\ UNCHANGED <<script, outcome, call, entered, stage, ended>>

(* The stages in which a benchmark that fails leaves the guest's script to *)
(* go on to its next exit.                                                 *)
MayFail(guest) == IF guest = Annotated THEN {1, 2} ELSE IF Len(guest) = 3 THEN {2} ELSE {}

(* A stage comes to its end, the benchmark fails, or the guest panics or   *)
(* is interrupted.                                                         *)
StageEnds ==
  /\ outcome = "running" /\ ended = "none"
  /\ \/ unit = StageUnits /\ script.guest[stage] # "none" /\ ended' = script.guest[stage]
     \/ stage \in MayFail(script.guest) /\ ended' = "m5_exit"
     \/ ended' = "other"
  /\ UNCHANGED <<script, outcome, call, entered, stage, unit, m, region>>

(* simulate() returns, and the script does what it does until it calls it  *)
(* again.                                                                  *)
Returns ==
  /\ outcome = "running" /\ (ended # "none" \/ AtLimit)
  /\ LET c == Calls(script)[call]
     IN IF (IF ended # "none" THEN ended ELSE "limit") \in c.expects
        THEN /\ m' = Do(Do(m, c.before), c.then)
             /\ outcome' = IF call < Len(Calls(script)) THEN "running" ELSE "successful"
        ELSE /\ m' = Do(m, c.before)
             /\ outcome' = IF Checks(script) THEN "failed" ELSE "over"
  /\ call' = call + 1 /\ entered' = m.tick /\ stage' = stage + 1 /\ unit' = 0 /\ ended' = "none"
  /\ UNCHANGED <<script, region>>

Builds == {X86, [X86 EXCEPT !.kvm = FALSE], [X86 EXCEPT !.protocol = "MI_example"], IsaOnly("ARM"), IsaOnly("RISCV")}

LibNext == (\E b \in Builds : Requires(b)) \/ RunUnit \/ StageEnds \/ Returns
-----------------------------------------------------------------------------
LibTypeOK ==
  /\ script \in Scripts /\ outcome \in {"unstarted", "running", "failed", "over", "successful"}
  /\ call \in 1 .. 4 /\ entered \in Nat /\ stage \in 1 .. 4 /\ unit \in 0 .. StageUnits
  /\ ended \in {"none", "workbegin", "workend", "m5_exit", "other"}
  /\ m.running \in {StartCores(script), SwitchCores(script)} /\ m.start_tick <= m.tick /\ m.end_tick <= m.tick

(* The first statistics that are saved, and the instructions that are      *)
(* printed, are those of the whole region of interest and of nothing else, *)
(* as far as it was executed and on the detailed cores only; the simulated *)
(* time is the region's, but in the script for SPEC CPU2006 also that of   *)
(* copying the logs, whose statistics are saved apart.  Between work       *)
(* annotations, success means a region that ran to its end or to --ticks.  *)
RegionIsMeasured ==
  LET benchmark == script.name \in {"gapbs", "parsec", "npb", "spec2006", "spec2017"}
      units == {x.unit : x \in region}
  IN /\ m.dumps # <<>> => m.dumps[1] = region
     /\ script.switchable => \A x \in region : x.core \in SwitchCores(script)
     /\ \A i \in 2 .. Len(m.dumps) : \A x \in m.dumps[i] : x.stage = 3
     /\ outcome = "successful" /\ benchmark =>
          /\ Len(m.dumps) = (IF script.name = "spec2006" THEN 2 ELSE 1)
          /\ m.roi_insts = region
          /\ script.name # "spec2006" => m.end_tick - m.start_tick = Cardinality(units)
          /\ script.guest = Annotated =>
               (units = 1 .. StageUnits \/ (script.limit # 0 /\ Cardinality(units) = script.limit))
=============================================================================
