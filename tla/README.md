# A verification development for gem5-workbench

The repository (`src/README.md`) is the workbench behind a study of GEMM
micro-kernels on simulated CPUs: scripts that build cross toolchains and
benchmarks, a gem5 configuration that simulates thousands of parameter
combinations in parallel and gathers their statistics into HDF5 files, job
scripts that spread those sweeps over a cluster, an analysis of the results,
and a copy of gem5's own `configs/` tree (`bine-configs/`) from which systems
are put together.

This directory holds TLA+ models of those parts whose behaviour is hard to
test, TLC configurations that check them on small instances, and proofs that
TLAPS checks for every instance. `PROJECT.json` lists components, runs,
properties, mutated definitions that each property refutes, hazards, theorems,
and for each definition the lines it was translated from.

    tlc -workers 2 -config NanogemmSweepSafety.cfg MCNanogemmSweep.tla
    tlapm NanogemmSweepProofs.tla

All paths below are relative to `src/gem5-workbench/`.

## 1. Inventory

### 1.1 Own code

| Component | Files | State it keeps | Operations | Talks to |
|---|---|---|---|---|
| Sweep process structure | `configs/multi-isa-nanogemm.py` 337-533, 650-750 | combinations not yet taken; pool processes; one `multiprocessing.Queue` per data processor; `end_event`; `stat_df`, `df_list`, `out_file_count` of each data processor; HDF5 files | `main`, `simrun_init`, `simrun`, `process_results`, `stop_processes_and_exit` | gem5 (in the workers), pandas, the file system |
| Statistics of a simulation | same file, 43-165, 385-440 | one list of values per column | `prepare_statdict`, `append_stats`, `fix_stat_list` | gem5's statistics; the sweep, which takes the frame |
| Kernel parameters | same file, 176-330, 640-650; `benchmarks/gen_gemm_gem5_benches.sh`, `gemm_gem5_benchmarks.sh`, `gemmbench_gem5.cpp.in` | none: pure arithmetic in four files and three languages | generator loops, filters, unroll factor, cache blocking, iteration count, arrays of the benchmark | each other, only by agreeing |
| Cluster job scripts | `benchmarks/run_benchmarks_*.sh` | background jobs; one directory of result files | nested loops, `srun ... &`, `wait` | one sweep per node |
| Toolchain build | `scripts/build_toolchains.sh` and the three scripts it runs | archives, source trees, patches, installations, which outlive a run | download, verify, unpack, patch, configure, make, install | servers, gpg, patch, make; repeated by the user |
| Benchmark build | `scripts/build_benchmarks.sh` | three source directories shared by two architectures; `binaries/<arch>` | patch, make, move, clean, reverse patch | make, patch; the user resets directories |
| Result extraction | `analysis/data_extraction.py`, `extract_gemm_data.py` | a process pool, batches of 100 frames | `build_df`, `get_data_from_file` | the result files |
| Pareto analysis, plots | `analysis/pareto.py`, `interactive_ukr_map.py`, `create_plots.py`, ... | data frames, the plot and its sliders | greedy search over thresholds, selection, drawing | pandas, matplotlib |
| One simulation of the sweep | `configs/multi-isa-nanogemm.py` 179-400, `configs/aarch64-nanogemm.py` | the core and system of one combination | filter, `setup_cpu`, `setup_system`, the loop around `m5.simulate()` | core models; the statistics |
| Small gem5 configurations | `configs/simple-*.py`, `riscv-stream_c.py` | the objects of one system | straight-line | gem5 |
| Guest programs, patches, binaries | `benchmarks/*.c`, `patches/`, `binaries/` | none | | gem5 |

### 1.2 The gem5 configuration tree (`bine-configs/`)

| Component | Files | State it keeps | Operations | Talks to |
|---|---|---|---|---|
| Simulation driver | `common/Simulation.py`, `Options.py` | exit event and cause, checkpoint counters, CPUs switched in | `run`, `scriptCheckpoints`, `benchCheckpoints`, `repeatSwitch` | `m5.simulate()`, the guest |
| Ruby protocols | `ruby/*.py` | the lists of controllers while they are built, counters of versions | `create_system` of eleven protocols | the topology, memory controllers |
| Ruby topologies | `topologies/*.py` | routers, links, link numbers | `makeTopology`, `registerTopology` | gem5's routing |
| Memory ranges | `ruby/Ruby.py`, `common/MemConfig.py`, range code of the protocols | address ranges with interleaving masks | `setup_memory_controllers`, `create_mem_intf`, `config_mem` | controllers |
| Classic caches and the systems that use them | `common/CacheConfig.py`, `example/se.py`, `learning_gem5/part1`, `splash2/` | the graph of objects and ports while it is built | `config_cache` and each script's bindings | gem5's ports |
| Tester trees, hybrid memory cube, full-system platforms | `example/memtest.py`, `memcheck.py`; `common/HMC.py`, `example/hmc*.py`; `common/FSConfig.py`, `example/fs.py` | the same | one function per system | gem5's ports |
| Standard library examples | `example/gem5_library/` | call of `simulate()`, ticks and statistics of the region of interest | one script each | gem5's events, the guest |
| Core models | `common/cores/arm/` | class tables: units, latencies, timings by instruction pattern | none | the sweep; gem5's pipelines |
| Saved configurations, GPU and Arm systems, memory sweeps | `example/read_config.py`, `example/apu_se.py`, `example/arm/`, `dram/` | object graphs while they are built | one function per system | the components above |
| Option helpers, other examples, boot scripts | `common/ObjectList.py`, `learning_gem5/part2`, `part3`, `boot/`, ... | none | thin drivers | the components above |

### 1.3 What is hard, and what makes each part correct

* **Sweep.** Five kinds of actors run concurrently (`main`, workers, their
  feeder threads, data processors, `main`'s feeder threads). A worker's success
  reaches `main` on another channel than its rows reach the data processor;
  queues have pipes of limited size; simulations raise or kill their process;
  SIGINT comes at any time. Correct means: rows are stored once and stay
  stored, nothing but the known faults loses rows, memory stays bounded, and
  every process ends.
* **Statistics.** Distributions change their bucket size between two rows, so
  columns appear late and end early. Correct means that every value stands in
  its row, that no sample is counted twice, and that the frame is rectangular.
* **Kernel parameters.** Formulas that must agree across files, integer
  divisions that may reach zero.
* **Core models.** Which class a core inherits from decides its numbers, and
  nothing fails when it is the wrong one. A unit of HPI takes the first timing
  whose pattern matches, so the order of several hundred lines decides, and an
  instruction that every unit suppresses would never issue.
* **Job scripts and analysis.** 36 sweeps write into one directory at once;
  the extraction may read it while they write or after one was killed, its
  frames come in any order and are merged in batches.
* **Builds.** Steps fail or are interrupted, what they leave is the next run's
  input, and exit codes are partly ignored. Correct means: no package is unpacked
  unverified, nothing is built on missing parts, binaries are of the right
  architecture, and it is known which states block a repetition.
* **Driver.** `simulate()` returns for several reasons, absolute and relative
  ticks are mixed, checkpoint requests of the guest interleave with those of
  the command line.
* **Standard library examples.** What a region of interest is, and which
  statistics belong to it, is told only by the causes for which `simulate()`
  returns, one call after the other.
* **Classic systems.** Ports are bound by a dozen options in nested branches.
  Correct means: every port has its one partner, no two objects answer to one
  address, and a request of any source reaches what it should and nothing
  twice.
* **System construction.** Loop arithmetic with remainders, counters that are
  shared between loops, bit positions computed from four options. Correct
  means: versions are contiguous, everything is attached and connected, each
  line has exactly one home, banks use all their sets, routing cannot deadlock.

`PROJECT.json` "hazards" names these, each at its line, with the properties
that cover it or the reason why none does.

## 2. Modules

| Module | Models | Uses |
|---|---|---|
| `ResultSink` | what a sweep promises: rows produced once, stored once, never unstored | |
| `NanogemmSweep` | process structure of `multi-isa-nanogemm.py` | refines `ResultSink` |
| `NanogemmSweepProofs` | types, one fate per combination, order of the end, places of rows, refinement of `ResultSink`, limits of what a data processor holds, what can be missing at the end | `NanogemmSweep` |
| `KernelParameters` | kernels, filters, blocking, array sizes | |
| `CoreModels` | the out-of-order cores and `setup_cpu()` | |
| `SimulationStats` | data frame of one simulation | |
| `NanogemmWorker` | one combination from filter to frame, in both drivers | the three above |
| `NanogemmWorkerProofs` | kernels and their numbers, the core, the frame and its sums | `NanogemmWorker` |
| `ClusterSweep` | `run_benchmarks_jusuf.sh` | |
| `ResultExtraction` | `build_df()` over the job's directory | `ClusterSweep` |
| `ClusterSweepProofs` | sweeps apart, losses, what the extraction has, what the Pareto plot lists | `MCClusterSweep` |
| `ParetoPlot` | `pareto()` and the plot with its sliders | |
| `ToolchainBuild`, `ToolchainBuildProofs` | the toolchain scripts; proofs | |
| `BenchmarkBuild`, `BenchmarkBuildProofs` | `build_benchmarks.sh`; proofs | |
| `SimulationRun` | the calls of `m5.simulate()` in `Simulation.py` | |
| `LibraryExamples` | the scripts of `example/gem5_library` | |
| `SimulationRunProofs` | checkpoints, CPUs and ticks of the driver, the region of the scripts | `MCSimulationRun` |
| `RubyProtocols` | lists of controllers of the protocols | |
| `RubyTopology` | networks of the topologies | `RubyProtocols` |
| `MemoryRanges` | who serves which address | `RubyProtocols` |
| `RubySystem` | construction of a system in order, then packets in its routers | the three above |
| `RubySystemProofs` | controllers are numbered, every line has one home, memories have equal parts, banks use their sets | `RubySystem` |
| `RubyNetworkProofs` | the networks of all topologies are consistent and free of deadlocks | `RubySystemProofs` |
| `PortGraph` | objects, bindings, address ranges, the way of a request (gem5's part) | |
| `ClassicCaches` | `se.py` with `config_cache()`, small systems bound by hand | `PortGraph` |
| `CacheTrees` | `memtest.py`, `memcheck.py` | `PortGraph` |
| `HybridMemoryCube` | `HMC.py`, `hmctest.py`, `hmc_hello.py` | `PortGraph` |
| `FullSystems` | `fs.py` over `FSConfig.py` | `ClassicCaches` |
| `HpiTimings` | HPI's units and timings | |
| `ClassicSystems` | one system built and one request followed; one instruction issued | the five above |
| `MC...` | constants of the runs, and what a run puts side by side | one each |

Operators named like another with a suffix (`SaveKeepsFrame`, `BuildUnchecked`,
`MustMergeLate`, ...) and called "mutant" are plausible mistakes in the
definition that follows them. Nothing uses them; each is what some property
must refute when it takes the definition's place, which shows that the property
says something about the code.

### 2.1 NanogemmSweep

`todo` is the task queue of `imap_unordered`; `wst`, `wtask`, `wbuf`, `serial`
describe a pool slot: where its process is, its combination, the messages that
`put()` has buffered, and the number in the process name from which
`simrun_init` picks the queue. `pipe[d]` is the pipe of a data processor's
queue; `dp[d]` is the place in the loop of `process_results` (`check` reads
`end_event`, `empty?` reads `queue.empty()`, `get` blocks); `frame`, `dfList`,
`count` are its locals and `files` what it has written. `main` follows `main()`
from the start of the pool to its end, `mbuf` is the stop messages still in its
own buffers. `produced` is a history variable.

The loop condition `not end_event.is_set() or not queue.empty()` is two steps
because other processes run in between. `maxtasksperchild=1` makes every worker
leave after one task, but only when its feeder thread has written everything,
and the pool replaces it with a process of a new number, that is, possibly
another queue. `Raise` carries an exception to `main`; `Die` sends nothing.
The `except` clauses of `main` handle only KeyboardInterrupt, so
`PropagateFailure` leaves without setting `end_event`.

A simulation is one step with four outcomes. The frames of combinations are
single units: `MergeCount` and `SplitSize` count frames where the code counts
frames and bytes.

The multiprocessing library is external and modelled as this file uses it:
buffered `put()`, `empty()` that looks at the pipe only, a worker that exits
after its feeder, the exit handler that terminates the pool.

### 2.2 NanogemmWorker: KernelParameters, CoreModels, SimulationStats

`FilterCombination` drops a combination as the code's filter does,
`BuildCore` is `setup_cpu()` and `BuildSystem` is `setup_system()` up to
`m5.instantiate()`; `RunSimulation` is the loop around `m5.simulate()`. The
older driver `aarch64-nanogemm.py` does the same with fewer options
(`BuildOneCore`, `RunOneSimulation`) and leaves the statistics to gem5.

*Kernel parameters* are operators with the names of the code. The lists of the
job scripts are checked in full, so the numeric properties are decided for all
inputs the repository uses.

*Cores.* A model is a record of attributes with its bases; what a class does
not define comes from the first base that does. `SetUpCpu` overwrites what the
sweep's options name, unit by unit and operation by operation, which is where
the number of load and store ports goes astray (`CoreTakesParameters` states
what results). The run follows one setting of the options; that the same holds
for every setting is proved.

*Statistics* change arbitrarily between `workbegin` and `workend` events;
`WorkEnd` is `append_stats` for all columns, `Exit` is the end of the loop with
`fix_stat_list`. `rows` remembers what the statistics were, so that `Aligned`
can compare every cell with what was measured.

### 2.3 ClusterSweep

Three nested loops, `srun ... &`, `wait`. A sweep writes `MaxFiles` files
named after its `--stat_filename`, a data processor and a number: `Save` opens
the file with `mode='w'`, `Saved` completes it, and in between the sweep may
fail (`End`). The three sweeps of a job that differ only in their issue queue
sizes have the same file names, so each replaces the files of another or writes
one together with it (`shared`). `LostOnlyToSibling` says that nothing else is
ever lost.

### 2.4 ResultExtraction and ParetoPlot

`ListFiles` begins at any moment of the job, also while sweeps write.
`ExtractTarget` is a pool process reading one file; a file that is not whole
raises in it. `Result` takes frames in any order with the batches of
`df_merge_count`, `MergeRest` is what follows the loop. `HasRows` of a frame is what the code's test for an empty
frame sees: files that were not selected give frames without rows. `began`
keeps how far the job was, so that `RowsKept` can say what an extraction that
started after the job has.

`Pareto` is the greedy search as the code does it: for each threshold and each
order of the statistics, minimise one after the other with the others fixed.
`ParetoListsCorners` compares it with the definition of a front: where the designs
are all combinations of some sizes and larger buffers never make one less
efficient (`Regular`), what it lists are the corners of the front, the designs
that are smallest in one statistic, among these in a second and then in the
third. With two sizes per statistic these are the whole front; with three they
are not: of (1,3), (2,2) and (3,1) it never finds the one in the middle.

Which rows `pareto()` gets is `Grouped`. The sliders fix every parameter that the
selection is grouped by, so it is one group, and `x.loc[x[target].idxmax()]` takes
the label of its best row (`pareto.py:213`). Labels are not unique: each simulation
numbers the rows of its frame from 0, one for each run of the kernel
(`multi-isa-nanogemm.py:391-419`, `:440`), and neither the sweep nor the extraction
concatenates with new labels. So `loc` takes every row with that label: with one run
per simulation the whole selection, with several the rows of that run in all
simulations, though other designs may have done better in another run. With several
best rows, the first decides; as frames come in any order, any of them may be.
`ParetoListsCorners` also says what can be relied on there: nothing selected is more
efficient than all that `pareto()` is given, and where all labels are the same it is
given all that is selected.

### 2.5 ToolchainBuild

The scripts are sequences of steps (`fetch`, `verify`, `unpack`, `patch`,
`check`, `prerequisites`, `build`); `Leave` is what happens when a script aborts or
ends (the next begins whatever the status was). `disk` is what survives a run. Faults: a
download that leaves a bad archive or none, a full disk while unpacking, a
failing build that leaves part of an installation, the user's Ctrl-C.

Five packages are downloaded, verified and unpacked by the scripts themselves.
`Prerequisites` is different: `./contrib/download_prerequisites`
(`build_gcc_and_glibc.sh:332`), a script inside the GCC tree, downloads GMP, MPFR, MPC
and ISL and unpacks them into that tree. The build verifies no signature of these, and
does not look at the script's status, so `prereqs` is what the first and the final GCC
are then configured with: all of the libraries, some or none. `Lacking` says when a
build may fail because an earlier step has left something in part, or these libraries
missing; it may succeed all the same, where the machine has them. `Inv` therefore says
two things: the packages are only unpacked verified (`PackagesAreVerified`), and the
unverified libraries are only in the tree of a GCC that was (`PrerequisitesByGcc`).

`Refused` is an assumption about GLIBC: its configure, which the script gives the place
of the kernel headers (`--with-headers`, line 412) and whose status it looks at (420),
ends with an error when there are none. No script checks for the headers, so it is
this, and nothing in the repository, that keeps a toolchain from being completed
without them.

### 2.6 BenchmarkBuild

The loop over two architectures and three benchmarks, command by command.
`objects` and `exe` are what `make` finds in a directory. `ResetTree` is the
user's `git checkout` (and `git clean`) in a submodule.

### 2.7 SimulationRun and LibraryExamples

One action per call of `m5.simulate()` with what the code does until the next.
`Simulate(n)` lets the guest return early for every reason. `Init` ranges over
all command lines of `MCOptions` that do not end in `fatal()`.

A script of the standard library is a record: what it requires, its cores
before and after the switch, its calls of `simulate()` with the causes each
accepts and what the script then does, and what its guest does stage after
stage.
`region` is the history of what was executed in the region of interest;
`dumps` are the statistics that were saved, as sets of what they count.
`RegionIsMeasured` relates the two.

### 2.8 RubyProtocols, RubyTopology, MemoryRanges, RubySystem

`CreateControllers`, `MakeTopology` and `SetupMemory` are the three phases of
`Ruby.create_system()`. Command lines that the code refuses, or on which it
fails, end in phase `failed`. Once the system is built, `Send`, `Forward` and
`Deliver` move packets by routing tables made of the link weights, in the way
the comments of the two mesh topologies describe gem5's routers: the routers
are external, the weights are the code's.

A network is a number of routers and two lists of links, for controllers
(`ext`) and between routers (`int`), each link with its number. `makeTopology()`
appends to such lists in loops; the mesh topologies and the two simple ones are
the lists that come out, `Cluster` attaches its controllers one after the other
(`AttachControllers`), and `CustomMesh` is a fold of `Distribute` over the
placed nodes, because whether a node gets a router of its own depends on what
was attached before. `Layers` are the pairs of routers within each distance,
`RoutingTables` the links that begin a lightest way. `DeadlockFree` removes, as
often as there are links, those which wait for none that is left.

A memory range is a start, a size, the masks of bits whose parity selects a
bank, and the bank's number. `OneHomeIn` says of a family of controllers that
every line of their ranges has one owner among them; `pow2` is a recursive
function because proofs speak of it. For the lists that the loops of
`config_mem()` append to, `PlaceOf` says at which place the interface of a
channel of a memory comes.

### 2.9 PortGraph, ClassicSystems and what is built from them

A script's system is a graph: pairs of a name and a number, bindings between
them, and the address ranges of what answers. `PortGraph` says what gem5
accepts and which way a request takes; each of the modules above it turns the
options of its scripts into graphs with the branches of the code, including
the checks that end in `fatal()` or in an exception. `Build` makes one system,
`Send` puts a request for any address next to a boundary of a range on any
source, and `Forward` moves it. `Refused` lists, in terms of the options, the
systems that gem5 refuses although the scripts let them through: a memory
checker together with caches binds a port twice, and some memory cubes have
objects that nothing is bound to.

`HpiTimings` runs beside them: instructions of every pattern, made by setting
the bits the pattern leaves open, are offered to the units of HPI in order.
The orders that the comments ask for hold (`TimingOrder`); the property also
names the four encodings whose timing is shadowed by another.

## 3. Runs

Nine runs must hold and three must fail. Deadlock checking is off where the
modelled program ends.

| Run | What it covers | Bounds, and why they are enough |
|---|---|---|
| `sweep_safety` | types, rows in one place, nothing dropped, losses only behind the end, processors leave empty-handed, failures strand the processors, memory bounds, refinement of `ResultSink` | 4 combinations, 2 workers, 2 data processors, pipe and limits of one frame, symmetric in combinations and workers. Four frames are the fewest that fill `stat_df`, `df_list` past its limit, split a file and leave a rest; two workers and two queues give every pairing of a new process with a queue. Simulations deliver rows, raise or die; SIGINT and failing writes are included |
| `sweep_liveness` | the sweep completes, processors stop, `main` ends unless a feeder is stuck | 4 combinations, 1 worker, 1 processor, no symmetry, rows or empty frames, no faults. One pipe of one frame is already full with one message behind a departed reader |
| `worker` | what runs was built; rotation closes, no empty loop, panels fit; the core has the sweep's numbers; types and alignment of the columns; the frame is rectangular and its sums add up | kernels: every `mr` 1-8 and `nr` 1-30, all four SIMD widths, 3 associativities, 3 sizes, the complete lists; the simulation of one of them (`Followed`) on both drivers and instruction sets with 2 buckets of sizes 1 and 2, counts up to 1, 3 rows: a column can appear in the second row, be absent from the third, and come back |
| `kernel_c_array` | fails: C is stored into B's array | same |
| `n1_core` | fails: the simulated core is not the N1 | same |
| `cluster` | sweeps apart, losses only to siblings; the extraction keeps every row; `pareto()` lists the corners of the front | one sweep, a sibling and two more that differ in another loop variable each, checked against all 36; one file each, at most one failing sweep; an extraction that starts while the job runs finds at most one file and sees three sweeps start; batches of one frame (100 in the code) and 2 processes, so that four files make a first, a full and a last batch; all regular tables of the 8 designs of two sizes each with efficiencies 0-2 (up to the order of the statistics), and with one design missing; tables of 9 designs of three sizes in two statistics and of 27 in three, whose fronts have more than corners; nine tables of two runs per design, and an empty one; from any of them to any other; three thresholds, one of them twice |
| `toolchain` | packages unpacked verified, libraries of GCC only in a verified tree, complete GCC, patched tree blocks, bad archive stays | 0 to 3 patches, the GCC version built having 3; without patches later runs get to the libraries and builds over what earlier ones left; 3 faults of any kind at any step, 2 counted runs, then more of them |
| `benchmarks` | directories left clean and own architecture, undisturbed runs complete, patched tree blocks, repaired build completes | 2 architectures, 3 benchmarks as in the script, 3 faults, resets any time the script is idle |
| `simulation_run` | driver: checkpoints on schedule, guest gets its own, active CPUs are switched out, `maxtick`; library scripts: the region is measured; all runs end | time 0-10, 2 ticks before the switch, 2 guest checkpoints at any ticks, all combinations of the options in `MCOptions`; stages of 2 units, so that a limit falls before, within and after the region; every script with every command line |
| `simulation_guest_checkpoint` | fails: guest checkpoints end the loop | same |
| `ruby_system` | construction is consistent, no cyclic waits; one home per line, sets used; packets arrive | every protocol on every topology, with and without DMA, full-system mode and boot memory; meshes with 2, 6 and 8 CPUs and 0, 1 or 3 rows; 1-4 directories with every hashing option; CHI placements; 2x2 and 2x3 meshes with 4 packets in flight, the fewest that can wait for each other in a cycle |
| `classic_systems` | exactly the refused systems are refused; requests reach what they should; order of the timings; no instruction is kept off all units | 1 to 3 CPUs (the third is the first that repeats a loop), every other option of the scripts with each value that takes another branch; 7 lists of caches and 11 of testers, one for every refusal and trees of 64 testers and more; memories up to, at and above each limit of the memory maps; 15 operands of divisions |

The bounds `MaxFaults`, `MaxRuns`, `MaxRuns` and `MaxCount` of statistics,
`Followed`, `MaxFiles`, `MaxFailures`, `MaxEarlyFiles`, `MaxEarlySweeps` (the three in
the constraint `Bounded`), `MaxGuest`, `MaxPackets`, `StageUnits` and `Forever` are
constants that appear in guards. `spawned` and `serial` of the sweep are
bounded by the number of combinations. `DfMergeCount` is 100 in the code.
Some runs put components side by side that share no state (`part` in the MC
modules chooses one at the start); they interleave with nothing.

### 3.1 Fairness

* Sweep: weak fairness of each worker, feeder thread, data processor and
  `main`: they are processes and threads of an operating system, blocked only
  where the guards say so. Faults are not fair.
* Benchmark build: the script continues and is started again; strong fairness
  of resets says that a user who is in the habit of repairing a directory does
  so at some time when the script is idle. The property that needs it is
  conditional on exactly this user.
* Simulation driver and library scripts: weak fairness of their steps:
  `simulate()` returns and the guest executes. `EveryRunEnds` excludes
  `riscv-fs`, which boots Linux and is meant to run for good.
* Ruby: weak fairness of the routers; senders need not send.

### 3.2 What the failing runs show

* `kernel_c_array`: `gemmbench_gem5.cpp.in` resizes `cdata` for C and then
  stores C through `bdata.data()` (line 62). For small iteration counts C is
  larger than B's array.
* `n1_core`: `O3_ARM_Neoverse_N1` inherits from gem5's `BaseO3CPU`, not from
  `O3_ARM_Neoverse_N1_Base`, which holds the numbers of the N1 and which nothing
  uses.
* `simulation_guest_checkpoint`: the inner loop of `scriptCheckpoints` updates
  `exit_event` but not `exit_cause`, which the outer loop tests: a checkpoint
  requested by the guest ends the loop that was to ignore it.

What the passing runs state precisely about known weaknesses:

* Rows of the last simulations may stay in a pipe that a data processor has
  already found empty (`LostOnlyBehindTheEnd`), one exception strands every
  data processor (`FailureLeavesProcessorsWaiting`), and `pool.join()` may wait
  for ever behind a full pipe (`MainEndsUnlessStuck`).
* Three sweeps of one job write the same files (`LostOnlyToSibling`); a killed
  sweep or a shared file makes the whole extraction fail (`RowsKept`).
* A patched tree and a bad archive block every later build
  (`PatchedTreeBlocks`, `BadArchiveStays`).
* Loads get `ld_count + st_count` ports and stores `2 * st_count`
  (`CoreTakesParameters`).
* Probe filters of `MOESI_hammer` with several directories use half of their
  sets (`ProbeFiltersUseHalf` in `MemoryIsReached`).
* VCEQ, VREV, VSWP and VTRN are timed as VADDL or VADDW in some encodings
  (`TimingOrder`).
* `spec2006` counts the copying of the logs in the simulated time of its region
  (`RegionIsMeasured`).

Reading the code for the models also showed behaviour that no property judges,
because no document says otherwise:

* `pareto()` lists only the corners of a front, six designs at most for a threshold, although its
  option asks for "stats to do pareto analysis for" (`pareto.py:108`).
* where simulations have several runs, the Pareto plot is not of the best run of each
  design, as `reduce_params` (`pareto.py:40`, `:128`) may be
  meant, but of the run that the most efficient row of all designs has.
* GMP, MPFR, MPC and ISL, which `download_prerequisites` puts into the GCC tree, are
  used without a verification by the scripts, although those verify a GMP of their own
  (`build_gcc_and_glibc.sh:194`), and nothing notices when they are missing but the
  configure scripts (`:332`).
* `interactive_ukr_map.py:54` passes a target statistic where a list of
  statistics is expected. Without a varying parameter `pareto.py:136` divides by
  zero. `extract_gemm_data.py` prints that it is done when the name of its
  output has an ending it does not know, and saves nothing.
* With classic memory, SMT, simpoints and KVM always end in `config_cache()`,
  which knows L3 caches of the Neoverse types only; for the same reason an
  uncached N1 never comes about.
* The library scripts for GAPBS, PARSEC and NPB announce that the rest of the
  benchmark is executed, and stop after its region; those for SPEC cannot tell a
  benchmark that failed, because the guest leaves by the same exit.
* Where a script gives a range by an end that is its size minus one, the models
  take the end to belong to the range, as the scripts mean it.

## 4. Proofs

All theorems hold for every value of the constants that satisfies the ASSUME of
the module, and these are as weak as the code allows:

* the sweep: any finite sets of combinations and workers, any number of data
  processors from one on, any limits and outcomes;
* kernels: `mr` 1-8 and `nr` 1-30 as the generator's loops, vectors of any
  multiple of 128 bits up to 1024, four ways and more, caches from 32 KiB, and
  ways that divide the cache (`WaysAssumption`; gem5 refuses other caches);
* cores: every setting of the options, whose counts are integers from 0 on;
* frames: any number of buckets, set of bucket sizes, counts and rows;
* the job: any subset of its 36 sweeps and any number of files; the extraction:
  any batch size and number of processes;
* the Pareto plot: any finite tables with sizes and efficiencies that are integers
  (numbers in the order of the values) and any labels, any thresholds from one on, repeated or
  not;
* the driver: any set of command lines that do not end in `fatal()`, any number
  of ticks and of requests of the guest, with option ticks up to the largest
  tick there is; the library scripts: stages of any length, any `--ticks`;
* the toolchain: any number of patches, faults and runs; the benchmark build:
  any number of faults and either habit of the user;
* Ruby: any set of configurations with any numbers of CPUs, clusters, banks,
  directories, DMA ports, compute units and memories, the boot memory apart from
  the others, on any of the topologies with any rows and columns. Where CHI is
  placed on a mesh by hand, the lists of routers name routers of that mesh
  (`ConfigAssumption`); whether they suit the number of nodes is not assumed but
  checked by the code, and with it by `CustomMeshFits`. Bits, sizes and row
  buffers are natural numbers, and there is a channel and a bank of GPU caches
  (of none, the code would take the logarithm).

| Theorem | Module | Statement |
|---|---|---|
| `TypeCorrect` | `NanogemmSweepProofs` | `Spec => []TypeOK` |
| `ReturnsEmptyHanded` | | `Spec => []ExitedIsEmptyHanded` |
| `FailureStrandsProcessors` | | `Spec => []FailureLeavesProcessorsWaiting` |
| `RowsStoredOnce` | | `Spec => []AtMostOnce` |
| `NothingIsDropped` | | `Spec => []NothingDropped` |
| `SweepImplementsSink` | | `Spec => SinkSpec` |
| `MemoryIsBounded` | | `Spec => []MemoryBounded` |
| `LossesAreBehindTheEnd` | | `Spec => []LostOnlyBehindTheEnd` |
| `StatisticsAreKept` | `NanogemmWorkerProofs` | `WorkerSpec => []StatsInv` |
| `FramesAreRectangular` | | `WorkerSpec => []Rectangular` |
| `FramesAreComplete` | | `WorkerSpec => []FrameIsComplete` |
| `WhatIsBuiltRuns` | | `WorkerSpec => []RunsWhatIsBuilt` |
| `KernelNumbersAreRight` | | `WorkerSpec => []KernelNumbers` |
| `CoresTakeParameters` | | `WorkerSpec => []CoreTakesParameters` |
| `SweepsRunApart` | `ClusterSweepProofs` | `Spec => []RunApart` |
| `RowsLostOnlyToSiblings` | | `Spec => []LostOnlyToSibling` |
| `ExtractionKeepsRows` | | `MCSpec => []RowsKept` |
| `CornersAreListed` | | `MCSpec => []ParetoListsCorners` |
| `DriverIsSafe` | `SimulationRunProofs` | `MCSpec => []MCInv` |
| `CheckpointsAreTaken` | | `MCSpec => []CheckpointsAsAsked` |
| `RegionsAreMeasured` | | `MCSpec => []RegionIsMeasured` |
| `EveryLineHasOneHome` | `RubySystemProofs` | once a system is built, every family of its homes is `OneHomeIn` |
| `RoundMemoriesAreReached` | | `Spec => [](RoundMemories(cfg) => MemoryIsReached)` |
| `ControllersAreNumbered` | | once a system is built, `VersionsAreContiguous` (the first part of `Consistent`) |
| `NetworksAreConsistent` | `RubyNetworkProofs` | `Spec => []Consistent` |
| `NetworksAreDeadlockFree` | | `Spec => []DeadlockFree` |
| `DirectoriesAreKept` | `BenchmarkBuildProofs` | `Spec => []Inv` |
| `PatchedDirectoriesBlock` | | `Spec => PatchedTreeBlocks` |
| `UndisturbedBuildCompletes` | | `Spec => []UndisturbedRunsComplete` |
| `PackagesUnpackedVerified` | `ToolchainBuildProofs` | `Spec => []Inv` |
| `BadArchivesStay` | | `Spec => BadArchiveStays` |
| `PatchedTreesBlock` | | `Spec => []PatchedTreeBlocks` |
| `FinalGccIsComplete` | | `Spec => []GccIsComplete` |

**The end of the sweep.** None of the properties is inductive. `SweepInv` adds
`OneFate` (a combination waits, runs in one worker, succeeded or failed, and
only one of these) and `EndOrder` (`end_event` means that all succeeded; the
places of a data processor's loop behind the test mean that `end_event` is
set). Then a failed combination can never have succeeded, so `end_event` is
never set and nobody leaves the loop.

**The rows.** `RowsInv` strengthens `SweepInv` with
`Once` (a combination's rows are in one buffer, or with one data processor
there in one pipe position, one of the two lists, or one file),
`Produced` (rows are only where a simulation delivered them, and what is
running or waiting has not delivered), `Numbered` (the next file number of a
data processor that may still write is above all it has written) and
`Kept`. Each action moves rows of at most one buffer, pipe and data processor:
`OwnRowsOnly` reduces a data processor's step to its own rows, `QueueShifts`
and `AppendQueue` say what a get and a put do to positions, and
`WriteMovesHeld` that a write to a free number moves what was held and nothing
else. `Numbered` is what makes `mode='w'` harmless within one sweep, and the
reason why the refinement holds: without the increment of `out_file_count`
the proof fails at that step, and with file names shared between sweeps (the
job scripts) rows are replaced (`LostOnlyToSibling`). For the
refinement, `Simulate` maps to `Produce`, `Save` and `SaveLast` to `Store` of
the rows held, and everything else to a stutter.

**The toolchain.** `ArchiveInv` says that what the running script has
verified is still as it was signed and that the trees of all packages come from such
archives; it needs that an archive that is there never changes (`ArchivesStay`). That
the unverified libraries are only in the tree of such a GCC needs that the script has a
GCC tree past its seventh line (`GccUnpacked`) and that no tree goes away (`TreesStay`).
`PatchInv` says that a run that found patches in the GCC tree has applied none
and is not past its eighth line, however many patches there are: the first one
is refused. `CompleteInv` says of every line of the GCC script which products
are installed when it is reached, and needs that no step takes away what is
installed (`InstalledStays`). That kernel headers are there is not checked by any line;
it comes from `GlibcHasHeaders`, that is, from the assumption about GLIBC's configure
(`Refused`).

**The limits of the sweep.** `LimitsInv` says of each data processor what it
may hold at each place of its loop: below both limits while it waits, above
the split size only while it saves, and every file but the last above it. The
loss property joins it with `EndOrder` and `RowsInv`: at the end each produced
row is in a file or in a pipe whose reader has left.

**One frame.** `FrameInv` is `Aligned`, `NeverTooLong`, `Rectangular` and
`RowsKnown` (a bucket that was ever there has a column). Alignment alone is not
inductive: a column that is late is filled up to the length of `min_value`, so
that length must be the number of rows, which is `NeverTooLong`; and the
zeroes it is filled with must be what was measured, which needs that a row
whose distribution had the bucket has made its column. `SamplesKnown` (the
number of samples of a row is the sum over the buckets it was measured with)
then gives `RowsAddUp`: the columns of other sizes hold zeroes in that row, and
zeroes add nothing to a sum (`NoughtsAddNothing`, `SameSums`).

**Kernels.** `SmallestUnrollIs` finds the factor by which the kernel unrolls
from the greatest common divisor of `mr` and twice the registers; `Rotates`
says that the rotation closes, `Fits` bounds registers, and `FiltersAgree` that
the filters of both drivers are the generator's loop. `WaysForA` and `KcIs`
bound the quotients that must not be zero, `Panels` that the panels lie in
their ways. `SetUpInv` carries the combination's cache from the filter through
the core to the system, where the iterations are computed.

**Cores.** `CoreInv` says that the core that was built is `Core` of the setting
that is remembered, so the property is about the folds of `SetUnit` and `Core`.
A fold is a recursive function over sets; `After` and `Total` are its values in
closed form, shown to satisfy the recursion and to be the only ones that do.
`MadeFor` then reads off each unit of the default pool, and `PortsAre` what all
units for loads, stores and fused operations add up to.

**The job.** `RunApart` is arithmetic: node numbers and parameter points are
injective in the three loop variables (`NodesApart`, `PointsApart`). For
`LostOnlyToSibling`, `NamesInv` says that a file with a name of a sweep was
written by a sweep of that name that has got as far; two sweeps of one name
agree in everything but their issue queue sizes.

**The extraction.** `RowsKept` follows from `JobInv` (why a file is not whole:
it is being written, shared, or left by a failed sweep) and four parts that say
where each file's frame is: `Listed` (found, taken by one process, read),
`Batches` (nothing waits behind a frame without rows, so that the test for an
empty `stat_df` never drops a batch), `Kept` (each selected file that is no
longer pending has one frame, and no two frames are of one file) and
`AfterTheJob` (what is read from then on is what the files hold). Without the
condition on empty frames in `Batches` the merge of a batch is not inductive.

**The Pareto plot.** `ParetoInv` says that what is listed is `Pareto` of the rows
last given, also after an update that raised, that the plot shows the part of
its threshold, and that the rows given are those of one label of the selection, which
a best row has (`OneLabel`). The rest is about the search. Designs above a threshold are an
`UpSet`: with two designs it has one that takes any statistic from the larger
(`Raise`), so that a search which fixes the other statistics at their largest
values finds the same least value as one among all designs. `MinimiseIs` is one
step of it, and says that the row with the least efficiency that the code asks
for is the smallest; `DatapointIs` joins three. Two designs cannot be smaller
than each other in one order (`SmallerOneWay`), so each order has one corner
(`CornersAre`). Finite sets have extremes by minimal counterexample
(`FiniteIsBounded`).

**The driver and the scripts.** `DriverInv` names for each place of `run()`
what the counters hold: `Counted` and `Limited` (the number of checkpoints, and
that a loop only goes on below the maximum), `Scheduled` (`sim_ticks` is a tick
of the schedule also while checkpoints of the guest are skipped), `Answered`,
`Within` and `Switched` (which CPUs are active). One lemma per place shows that
a return of `simulate()` for any reason keeps them. `LibInv` says of a script
how far its guest is (`Paced`), what the region holds before, in and after it
(`Reached`, `Measured`) and what the dumps hold (`Saved`); `Kind` classifies the
scripts by their calls, so that the proof is about four kinds and not about
each script.

**Controllers.** `SystemInv` says that a system that runs was not refused and has
the list of its protocol. `Lists(s, S)` says that a list has each controller of
a set once; concatenation (`ListsConcat`) and flattening (`ListsFlatten`) join
lists of disjoint sets, and `Contiguous` sets of different types stay contiguous
together. What has to be shown for each protocol is then where its loops begin
to count: with clusters the numbers are the quotients and remainders of one
count (`PlacesInClusters`), in CHI the second caches of the CPUs, the home nodes
and the io nodes go on where the class was left (`CpuNodes`, `ChiIsInLine`), and
in GPU_VIPER scalar caches and command processors share two counts
(`CommandProcessors`). With the number of the boot memory's directory one too
low, the lists are no longer disjoint and `DirectoriesAndDmas` fails.

**Networks.** `NetInv` adds to `SystemInv` that a system past its network has the
network of its topology and the routing tables of that network; the rest is
about networks. `WellMade` says of one that it is `Sound` (between any two
routers there is a way, and links can be ranked so that a packet that waits on
one always waits for one of a lower rank), that each controller is `Attached`
once, and that `IdsUnique`. There is one lemma of this kind for each topology.

Distances are known before they are computed: if a function of two routers is 0
for a router and itself, grows along no link by more than the link's weight, and
for any two routers there is a link into the second along which it grows by
exactly that weight, then it is the distance (`Distances`) and `Layers` finds it
(`LayersAreRight`); routing tables have a link for every pair
(`SomeWayIsLightest`). On a grid, the distance
is the sum of the ways along both axes (`Far`), with leaves, that is routers
which hang on one of the grid, one further. `LastLink` and `FirstLink` give
the links on which it falls, and `NearerIsToward` that a lightest way never
takes a column's link before it is done with the links westwards, or, with the
weights of `Mesh_XY`, with all of its row. Hence `Rank`: links to leaves are
lowest and from leaves highest; in between, a link to the west ranks the higher
the farther east it is, and those of columns and to the east lie below, by the
column and the direction. `RankFalls` goes through every turn; those that the
weights forbid are the ones on which rank would rise. If rank falls wherever a
link waits for another, `Prune` has an empty set after as many rounds as there
are links (`PruneEmpties`).

A mesh is shown to be such a grid by arithmetic of quotients and remainders
(`MeshPairsHold`, `MeshIsGrid`), a crossbar and `Cluster` to be a star, `Pt2Pt` to
have all links; in these, a packet that waits only waits for its last link.
`MeshDirCorners_XY` attaches what it picks from the list by type: `OnlyLists`
says what is picked, `NodesAreTaken` that every type but `L0Cache` is picked by one
of the loops. There, `Consistent` allows what the code does: L0 caches are left
out and the links of DMA controllers have numbers of others. For `CustomMesh`,
`PairsFit` shows that the rounds of `distributeNodes()` place every CHI node on
one router of the mesh. `OnMeshNow` (a mesh with leaves), `IdsBelow` (numbers of
links are below the counter) and `Carries` (what is attached is what was placed,
in order) hold before the first round, and each round keeps them (`RoundOnMesh`,
`RoundKeepsIds`, `RoundCarries`).

**Homes.** `SystemInv` also says that gem5 has accepted the ranges. The rest is
about addresses: the bits of an address between two positions are the digits of
one number below a power of two
(`BitsOfOneNumber`), the parity with a hashed bit permutes these numbers, so
exactly one bank matches (`WaysDivide`); accepted ranges do not overlap, so one
range decides (`OneIsEnough`). Ranges that gem5 would refuse, of more banks than
the masks have values, are excluded by `AllAccepted`, which is
what gem5 checks, and not by an assumption.

**Equal parts and sets.** `MemoryIsReached` cannot hold of every memory: one of
three lines has no two equal parts, and one that is smaller than a bank does not
fill it. `RoundMemories` says which ones are meant: memories are disjoint, start
at and are of whole multiples of what is interleaved, from cache lines
upwards, and one has room for all sets of a bank. Real memories start at large
powers of two and are of whole megabytes; that the small ones of the run are such memories
is an assumption TLC evaluates (`RoundAssumption` in `MCRubySystem`). Nothing is
asked of the hashing bits, which may lie below, within or above the interleaved ones.

An address is then its `Digits`: what is above the interleaved bits, these, and what is
below (`LinesHaveDigits`, `DigitsOfLines`). Numbers that differ only within the
interleaved bits differ in a parity (`ParitiesTellDigits`): if higher bits are
mixed in, at the highest place where they differ, if lower ones are, at the
lowest, because what is mixed in there is the same for both. So each
bank has exactly one number of such a window (`EveryWayHasDigit`, by counting), its lines
are as many as there are windows (`SizeOfPart`), and that times the number of
banks is the memory (`SizeOfMemory`). For sets, `BankHasSet` gives a line for every
bank and set; in MOESI_hammer the set index overlaps the bank by one bit, which
is that bank's own (`WayTellsBits`), and half of the numbers have it
(`HalfOfThem`). In classic systems, the channels of a memory come behind those of
the memories before it on the same list (`PlacesAreTheirs`), and disjoint memories
(`RangesApart`) give each line one channel.

**The benchmark build.** `LeftClean` is not inductive. `AtCommand` says for
each command what the directory it works in holds: which patches are applied
and for whom objects and programs were made; `Blocked` that a run which found
a directory patched does not get to its `make`; `Programs` that, unless the
user has interfered, a program lies in a directory only between `make` and `mv`
or where an interruption has left it, in which case the directory is patched
and the next run stops there. For `UndisturbedRunsComplete`, `Undisturbed` says that as long as
nothing has failed all directories behind the current one are done for this
architecture and for all before it.

What recursive functions compute is not shown with the induction theorems of the
library, which take an operator, but by minimal counterexample: a set of
numbers, or of finite sets, that is not empty has a least element because the
order is well-founded (`LeastNumber` with `DoublesExist` and `FlattensExist`;
`SumsExist`, `SetUnitDoes`, `FiveAddUp`). The folds over networks are treated alike:
`FoldsExist` shows that what `FoldLeft` computes on a list is there and goes on
place by place (`FoldGoesOn`), and `RoundsOnMesh`, `PruneEmpties` and `OnlyLists`
look at the first place at which something would be wrong.

What is only model-checked:

* All liveness properties: the provers at hand treat neither fairness nor
  ENABLED.
* `TimingOrder` and `SuppressedIssueElsewhere`: finite tables without constants,
  which TLC goes through in full.
* `GraphIsSound` and `PacketsArrive`: classic systems are concrete graphs with a
  recursive search.

## 5. Not modelled

`PROJECT.json` gives the reason for every component. In short:

* Data and text: patches, binaries, boot scripts, guest programs, look-up
  tables of classes and options; the conversion of result files, which is one
  read and one write; plots and tables, which select and draw with pandas and
  matplotlib.
* gem5 itself (classes, routing, event queue), which appears only as the
  environment of the modelled code.
* Systems not built yet: GPU systems, Arm's `devices.py`, saved configurations,
  the memory sweeps of `dram/`, distributed simulation, other examples.
* In modelled components: caches, sequencers, message buffers, clocks,
  latencies and port names of Ruby systems; branch predictors and pipeline
  delays of cores; device trees, disks and kernel command lines of full
  systems; checkpoints by instruction counts, simpoints and the search for
  checkpoint directories in the simulation driver; three of the four job
  scripts, which have the pattern of the first.
* `splash2/cluster.py` and the test systems of RISC-V full systems never come
  about, and are modelled as that.

## 6. Plan

Done, in this order: the sweep (the program's core) with its abstract
specification and proofs; the statistics, parameters and cores that feed it;
the job scripts that multiply it, the extraction and analysis of what they
write; the build scripts, whose state survives runs; the simulation driver and
the library scripts; construction of Ruby and classic systems.

What remains, the most important first: the remaining checkpoint modes of
`Simulation.py`; `read_config.py`, whose phases create, fill and connect the
objects of a saved configuration; the memory map of `arm/devices.py`; the
dispatchers of the GPU systems; the state graphs of the traffic generators in
`low_power_sweep.py`.
