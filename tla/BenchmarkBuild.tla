--------------------------- MODULE BenchmarkBuild ---------------------------
(***************************************************************************)
(* scripts/build_benchmarks.sh: for every architecture in turn the three   *)
(* benchmarks are patched, built, moved to binaries/<arch>, cleaned and    *)
(* unpatched, all in one source directory per benchmark.  The first        *)
(* command that fails ends the script and leaves the directory as it is.   *)
(* The user starts the script again and may reset a patched directory.     *)
(***************************************************************************)
EXTENDS Integers, Sequences

CONSTANTS
  Faults,    \* what may go wrong: make, interrupt
  MaxFaults, \* how often
  Repair     \* what the user does to a patched directory: nothing, reset, clean

ASSUME BenchmarkAssumption ==
  /\ Faults \subseteq {"make", "interrupt"}
  /\ MaxFaults \in Nat
  /\ Repair \in {"nothing", "reset", "clean"}

ArchList   == <<"aarch64", "riscv64">>
Benchmarks == <<"STREAM", "tinymembench", "npb">>

Archs == {ArchList[i] : i \in 1 .. Len(ArchList)}
Trees == {Benchmarks[i] : i \in 1 .. Len(Benchmarks)}

(* stream_patches, tinymembench_patches and npb_patches *)
PatchesOf(b, a) ==
  CASE b = "STREAM"       -> IF a = "aarch64" THEN <<"STREAM-aarch64-static">>
                                              ELSE <<"STREAM-riscv64-static">>
    [] b = "tinymembench" -> <<"tinymembench-static">>
    [] b = "npb"          -> <<>>

VARIABLES
  pc,        \* idle, or the command that is next
  archNo,    \* the architecture the loop is at
  benchNo,   \* the benchmark
  patchNo,   \* the patch to apply or to reverse
  applied,   \* per directory: the patches in it, in the order of application
  objects,   \* per directory: architecture of the object files in it, or none
  exe,       \* per directory: architecture of the program in it, or none
  binaries,  \* per architecture and benchmark: what binaries/<arch> holds
  faults,    \* faults so far
  blocked,   \* history: directories that were patched when this run began
  repaired,  \* history: the user has reset a directory
  begun      \* history: the script has been started

trees == <<applied, objects, exe>>
hist  == <<blocked, repaired, begun>>
vars  == <<pc, archNo, benchNo, patchNo, trees, binaries, faults, hist>>

arch    == ArchList[archNo]
bench   == Benchmarks[benchNo]
patches == PatchesOf(bench, arch)

ArchOrNone == Archs \cup {"none"}

TypeOK ==
  /\ pc \in {"idle", "patch", "make", "move", "clean", "reverse"}
  /\ archNo \in 1 .. Len(ArchList) /\ benchNo \in 1 .. Len(Benchmarks)
  /\ patchNo \in 0 .. Len(patches) + 1
  /\ DOMAIN applied = Trees
  /\ \A b \in Trees : \E a \in Archs : applied[b] \in {<<>>, PatchesOf(b, a)}
  /\ objects \in [Trees -> ArchOrNone] /\ exe \in [Trees -> ArchOrNone]
  /\ binaries \in [Archs -> [Trees -> ArchOrNone]]
  /\ faults \in 0 .. MaxFaults
  /\ blocked \subseteq Trees
  /\ repaired \in BOOLEAN /\ begun \in BOOLEAN

Init ==
  /\ pc = "idle" /\ archNo = 1 /\ benchNo = 1 /\ patchNo = 1
  /\ applied = [b \in Trees |-> <<>>]
  /\ objects = [b \in Trees |-> "none"]
  /\ exe = [b \in Trees |-> "none"]
  /\ binaries = [a \in Archs |-> [b \in Trees |-> "none"]]
  /\ faults = 0
  /\ blocked = {} /\ repaired = FALSE /\ begun = FALSE

Fault(f) == f \in Faults /\ faults < MaxFaults /\ faults' = faults + 1

(* build_benchmarks.sh is started, again and again. *)
Run ==
  /\ pc = "idle"
  /\ pc' = "patch" /\ archNo' = 1 /\ benchNo' = 1 /\ patchNo' = 1
  /\ blocked' = {b \in Trees : applied[b] # <<>>}
  /\ begun' = TRUE
  /\ UNCHANGED <<trees, binaries, faults, repaired>>

(* set -e ends the subshell, and check_success the script. *)
Fail == pc' = "idle" /\ UNCHANGED <<archNo, benchNo, patchNo>>

(* patch -p1: refuses a patch when the directory already has it or one for *)
(* the same lines.  The mutant passes over one that is refused.             *)
ApplyPatchOrSkip ==
  /\ pc = "patch" /\ patchNo <= Len(patches)
  /\ applied' = [applied EXCEPT ![bench] = IF @ = <<>> THEN Append(@, patches[patchNo]) ELSE @]
  /\ patchNo' = patchNo + 1
  /\ UNCHANGED <<pc, archNo, benchNo, objects, exe, binaries, faults, hist>>

ApplyPatch ==
  /\ pc = "patch" /\ patchNo <= Len(patches)
  /\ IF applied[bench] = SubSeq(patches, 1, patchNo - 1)
     THEN /\ applied' = [applied EXCEPT ![bench] = Append(@, patches[patchNo])]
          /\ patchNo' = patchNo + 1
          /\ UNCHANGED <<pc, archNo, benchNo>>
     ELSE Fail /\ UNCHANGED applied
  /\ UNCHANGED <<objects, exe, binaries, faults, hist>>

Patched ==
  /\ pc = "patch" /\ patchNo > Len(patches)
  /\ pc' = "make"
  /\ UNCHANGED <<archNo, benchNo, patchNo, trees, binaries, faults, hist>>

(* make: a program that is there is up to date, and object files that are  *)
(* there are linked as they are, which fails when they are of another      *)
(* architecture.  The NPB programs are written to binaries/<arch>.  The    *)
(* loop over their classes is one step.                                    *)
Make ==
  /\ pc = "make"
  /\ IF objects[bench] \notin {"none", arch} /\ exe[bench] = "none"
     THEN Fail /\ UNCHANGED <<objects, exe, binaries, faults>>
     ELSE \/ /\ objects' = [objects EXCEPT ![bench] = IF @ = "none" THEN arch ELSE @]
             /\ IF bench = "npb"
                THEN pc' = "clean" /\ binaries' = [binaries EXCEPT ![arch][bench] = arch]
                                   /\ UNCHANGED exe
                ELSE pc' = "move" /\ exe' = [exe EXCEPT ![bench] = IF @ = "none" THEN arch ELSE @]
                                  /\ UNCHANGED binaries
             /\ UNCHANGED <<archNo, benchNo, patchNo, faults>>
          \/ /\ Fault("make") /\ Fail
             /\ objects' \in {objects, [objects EXCEPT ![bench] = arch]}
             /\ UNCHANGED <<exe, binaries>>
  /\ UNCHANGED <<applied, hist>>

(* mv. *)
Move ==
  /\ pc = "move"
  /\ binaries' = [binaries EXCEPT ![arch][bench] = exe[bench]]
  /\ exe' = [exe EXCEPT ![bench] = "none"]
  /\ pc' = "clean"
  /\ UNCHANGED <<archNo, benchNo, patchNo, applied, objects, faults, hist>>

(* make clean.  The mutant is the script without it.                       *)
NoClean ==
  /\ pc = "clean"
  /\ pc' = "reverse" /\ patchNo' = Len(patches)
  /\ UNCHANGED <<archNo, benchNo, trees, binaries, faults, hist>>

Clean ==
  /\ pc = "clean"
  /\ objects' = [objects EXCEPT ![bench] = "none"]
  /\ exe' = [exe EXCEPT ![bench] = "none"]
  /\ pc' = "reverse" /\ patchNo' = Len(patches)
  /\ UNCHANGED <<archNo, benchNo, applied, binaries, faults, hist>>

(* patch -R, for the patches in the reverse order.  The mutant is the      *)
(* script without it.                                                      *)
NoReverse ==
  /\ pc = "reverse" /\ patchNo > 0
  /\ patchNo' = patchNo - 1
  /\ UNCHANGED <<pc, archNo, benchNo, trees, binaries, faults, hist>>

ReversePatch ==
  /\ pc = "reverse" /\ patchNo > 0
  /\ IF applied[bench] = SubSeq(patches, 1, patchNo)
     THEN /\ applied' = [applied EXCEPT ![bench] = SubSeq(patches, 1, patchNo - 1)]
          /\ patchNo' = patchNo - 1
          /\ UNCHANGED <<pc, archNo, benchNo>>
     ELSE Fail /\ UNCHANGED applied
  /\ UNCHANGED <<objects, exe, binaries, faults, hist>>

(* The next benchmark, the next architecture, or the end of the script. *)
NextBenchmark ==
  /\ pc = "reverse" /\ patchNo = 0
  /\ IF benchNo < Len(Benchmarks)
     THEN pc' = "patch" /\ benchNo' = benchNo + 1 /\ UNCHANGED archNo
     ELSE /\ benchNo' = 1
          /\ IF archNo < Len(ArchList)
             THEN pc' = "patch" /\ archNo' = archNo + 1
             ELSE pc' = "idle" /\ UNCHANGED archNo
  /\ patchNo' = 1
  /\ UNCHANGED <<trees, binaries, faults, hist>>

(* The user interrupts the script; make may have written object files.     *)
Interrupt ==
  /\ pc # "idle" /\ Fault("interrupt") /\ Fail
  /\ objects' \in {objects} \cup
       (IF pc = "make" /\ objects[bench] = "none"
        THEN {[objects EXCEPT ![bench] = arch]} ELSE {})
  /\ UNCHANGED <<applied, exe, binaries, hist>>

(* git checkout of a patched directory, which leaves the files make has    *)
(* written, or git clean as well.                                          *)
ResetTree(b) ==
  /\ Repair # "nothing"
  /\ pc = "idle"
  /\ applied' = [applied EXCEPT ![b] = <<>>]
  /\ IF Repair = "clean"
     THEN /\ objects' = [objects EXCEPT ![b] = "none"]
          /\ exe' = [exe EXCEPT ![b] = "none"]
     ELSE UNCHANGED <<objects, exe>>
  /\ trees' # trees
  /\ repaired' = TRUE
  /\ UNCHANGED <<pc, archNo, benchNo, patchNo, binaries, faults, blocked, begun>>

Command ==
  \/ Run \/ ApplyPatch \/ Patched \/ Make \/ Move \/ Clean \/ ReversePatch \/ NextBenchmark

Next == Command \/ Interrupt \/ \E b \in Trees : ResetTree(b)

Spec == Init /\ [][Next]_vars

(* The script runs on by itself and is started again; the user resets a    *)
(* directory a stopped run has left behind before long.                    *)
FairSpec ==
  /\ Spec
  /\ WF_vars(Command)
  /\ \A b \in Trees : SF_vars(ResetTree(b))
-----------------------------------------------------------------------------
Complete == \A a \in Archs, b \in Trees : binaries[a][b] # "none"

(* A benchmark is only left behind with its directory unpatched and        *)
(* cleaned, so that what follows in the same run builds from the sources.  *)
LeftClean ==
  pc # "idle" =>
    \A i \in 1 .. Len(Benchmarks) :
      LET b == Benchmarks[i]
      IN  (i < benchNo \/ (archNo > 1 /\ i > benchNo)) =>
            applied[b] = <<>> /\ objects[b] = "none" /\ exe[b] = "none"

(* Both architectures are built in one source directory, and the second    *)
(* finds it as the first did: a run in which nothing goes wrong builds     *)
(* every benchmark for every architecture.                                 *)
UndisturbedRunsComplete == begun /\ pc = "idle" /\ faults = 0 => Complete

(* As long as nobody but the script touches the directories, whatever is   *)
(* interrupted and repeated, binaries/<arch> holds programs of that        *)
(* architecture.                                                           *)
OwnArchitecture ==
  ~repaired => \A a \in Archs, b \in Trees : binaries[a][b] \in {a, "none"}

(* The invariant of the directories: their types, what a finished          *)
(* benchmark leaves behind, and what ends up among the programs.           *)
Inv == TypeOK /\ LeftClean /\ OwnArchitecture

(* A directory that a stopped run has left patched is not built from again *)
(* until it is reset.                                                      *)
PatchedTreeBlocks ==
  [][\A a \in Archs, b \in blocked : binaries'[a][b] = binaries[a][b]]_vars

(* When every directory is reset and cleaned after a stopped run, the      *)
(* build completes.                                                        *)
RepairedBuildCompletes == <>Complete
=============================================================================
