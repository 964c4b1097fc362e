---------------------------- MODULE ClusterSweep ----------------------------
(***************************************************************************)
(* benchmarks/run_benchmarks_jusuf.sh: one sweep of multi-isa-nanogemm.py  *)
(* per vector length, number of SIMD units and range of issue queue sizes, *)
(* each started in the background on a node of its own.  All sweeps of a   *)
(* job write to one directory; the files of a sweep are named after its    *)
(* --stat_filename, the data processor and the number of the file.         *)
(***************************************************************************)
EXTENDS Integers, FiniteSets, Sequences

CONSTANTS
  Jobs,        \* the sweeps that are started, by the indices of the three loops
  MaxFiles     \* files a sweep writes at most

Vlens     == <<128, 256, 512, 1024>>
Vcnts     == <<1, 2, 4>>
IqOffsets == <<8, 16, 24>>
IqSteps   == <<2, 2, 4>>
Nodes     == 36      \* #SBATCH -N

AllJobs == (0 .. Len(Vlens) - 1) \X (0 .. Len(Vcnts) - 1) \X (0 .. Len(IqOffsets) - 1)

ASSUME ClusterAssumption ==
  /\ Jobs \subseteq AllJobs
  /\ MaxFiles \in Nat \ {0}

VARIABLES
  script,   \* looping, waiting, done
  state,    \* per sweep: unstarted, running, done, failed
  written,  \* per sweep: files it has written
  writing,  \* per sweep: whether it is writing one
  files     \* files in the directory: name -> the sweep that opened it last,
            \* whether it can be read, and whether it was opened twice

vars == <<script, state, written, writing, files>>

(* The node of a sweep. *)
NodeIdx(j) == j[1] * 3 * 3 + j[2] * 3 + j[3]

(* The issue queue sizes of a sweep; the mutant has one step for all.      *)
IqSizesOneStep(j) == {IqOffsets[j[3] + 1] + k * 4 : k \in 0 .. 3}
IqSizes(j) == {IqOffsets[j[3] + 1] + k * IqSteps[j[3] + 1] : k \in 0 .. 3}

(* What a sweep simulates, as far as sweeps differ. *)
Points(j) == {Vlens[j[1] + 1]} \X {Vcnts[j[2] + 1]} \X IqSizes(j)

(* The file that sweep j writes as number n: vlen and vcnt, but not the    *)
(* issue queue sizes, are in --stat_filename.  The mutant has no vlen.     *)
FileNameShort(j, n) == <<Vcnts[j[2] + 1], n>>
FileName(j, n) == <<Vlens[j[1] + 1], Vcnts[j[2] + 1], n>>

Before(i, j) == NodeIdx(i) < NodeIdx(j)

Init ==
  /\ script = "looping"
  /\ state = [j \in Jobs |-> "unstarted"]
  /\ written = [j \in Jobs |-> 0]
  /\ writing = [j \in Jobs |-> FALSE]
  /\ files = <<>>

(* The innermost loop body: srun ... & *)
Start(j) ==
  /\ script = "looping"
  /\ state[j] = "unstarted"
  /\ \A i \in Jobs : Before(i, j) => state[i] # "unstarted"
  /\ state' = [state EXCEPT ![j] = "running"]
  /\ UNCHANGED <<script, written, writing, files>>

LoopEnds ==
  /\ script = "looping"
  /\ \A j \in Jobs : state[j] # "unstarted"
  /\ script' = "waiting"
  /\ UNCHANGED <<state, written, writing, files>>

(* A data processor of the sweep opens its next file: to_hdf(mode='w')     *)
(* empties a file of that name.                                            *)
Save(j) ==
  /\ state[j] = "running" /\ ~writing[j] /\ written[j] < MaxFiles
  /\ writing' = [writing EXCEPT ![j] = TRUE]
  /\ LET f == FileName(j, written[j])
         open == \E i \in Jobs : i # j /\ writing[i] /\ FileName(i, written[i]) = f
     IN files' = [g \in DOMAIN files \cup {f} |-> IF g = f THEN [sweep |-> j, whole |-> FALSE, shared |-> open] ELSE files[g]]
  /\ UNCHANGED <<script, state, written>>

(* ... and has written it.  What two writers leave may or may not be read. *)
Saved(j) ==
  /\ state[j] = "running" /\ writing[j]
  /\ LET f == FileName(j, written[j])
     IN \E ok \in IF files[f].shared \/ files[f].sweep # j THEN BOOLEAN ELSE {TRUE} : files' = [files EXCEPT ![f].whole = ok]
  /\ writing' = [writing EXCEPT ![j] = FALSE]
  /\ written' = [written EXCEPT ![j] = @ + 1]
  /\ UNCHANGED <<script, state>>

(* A sweep that fails may leave a file it has not finished. *)
End(j) ==
  /\ state[j] = "running"
  /\ \E s \in (IF writing[j] THEN {"failed"} ELSE {"done", "failed"}) : state' = [state EXCEPT ![j] = s]
  /\ writing' = [writing EXCEPT ![j] = FALSE]
  /\ UNCHANGED <<script, written, files>>

(* "wait": for every background job, however it ended. *)
Wait ==
  /\ script = "waiting"
  /\ \A j \in Jobs : state[j] \in {"done", "failed"}
  /\ script' = "done"
  /\ UNCHANGED <<state, written, writing, files>>

Next == (\E j \in Jobs : Start(j) \/ Save(j) \/ Saved(j) \/ End(j)) \/ LoopEnds \/ Wait

Spec == Init /\ [][Next]_vars
-----------------------------------------------------------------------------
(* A sweep runs on a node that the job has reserved, and shares neither it *)
(* nor a parameter point with any other sweep of the full job: with        *)
(* offsets and steps in two arrays, ranges of issue queue sizes could      *)
(* overlap.                                                                *)
RunApart ==
  \A i \in {k \in Jobs : state[k] = "running"}, j \in AllJobs :
    /\ NodeIdx(j) \in 0 .. Nodes - 1
    /\ i # j => NodeIdx(i) # NodeIdx(j) /\ Points(i) \cap Points(j) = {}

(* Rows of a sweep are lost only to a sweep that differs in nothing but    *)
(* its issue queue sizes.                                                  *)
LostOnlyToSibling ==
  \A j \in Jobs : \A n \in 0 .. written[j] - 1 :
    /\ FileName(j, n) \in DOMAIN files
    /\ LET i == files[FileName(j, n)].sweep
       IN i # j => i[1] = j[1] /\ i[2] = j[2] /\ IqSizes(i) # IqSizes(j) /\ written[i] >= n
=============================================================================
