------------------------ MODULE BenchmarkBuildProofs ------------------------
(***************************************************************************)
(* Proofs about BenchmarkBuild, for any number of faults, any number of    *)
(* runs and whatever the user does to the directories between them.        *)
(***************************************************************************)
EXTENDS BenchmarkBuild, SequenceTheorems, TLAPS

(* The lists of the script. *)
LEMMA Lists ==
  /\ Len(ArchList) = 2 /\ Archs = {"aarch64", "riscv64"}
  /\ ArchList[1] = "aarch64" /\ ArchList[2] = "riscv64"
  /\ Len(Benchmarks) = 3 /\ Trees = {"STREAM", "tinymembench", "npb"}
  /\ Benchmarks[1] = "STREAM" /\ Benchmarks[2] = "tinymembench" /\ Benchmarks[3] = "npb"
<1>1. Len(ArchList) = 2 /\ ArchList[1] = "aarch64" /\ ArchList[2] = "riscv64"
  BY DEF ArchList
<1>2. Len(Benchmarks) = 3 /\ Benchmarks[1] = "STREAM" /\ Benchmarks[2] = "tinymembench"
      /\ Benchmarks[3] = "npb"
  BY DEF Benchmarks
<1>3. 1 .. 2 = {1, 2} /\ 1 .. 3 = {1, 2, 3}
  OBVIOUS
<1> QED BY <1>1, <1>2, <1>3 DEF Archs, Trees

(* A benchmark has one patch per architecture, NPB none.                   *)
LEMMA OnePatch ==
  ASSUME NEW b \in Trees, NEW a \in Archs
  PROVE  /\ b = "npb" => PatchesOf(b, a) = <<>>
         /\ b # "npb" => \E p : PatchesOf(b, a) = <<p>>
  BY Lists DEF PatchesOf

LEMMA SubSeqOfOne ==
  ASSUME NEW p
  PROVE  /\ SubSeq(<<p>>, 1, 0) = <<>> /\ SubSeq(<<p>>, 1, 1) = <<p>>
         /\ Append(<<>>, <<p>>[1]) = <<p>> /\ Len(<<p>>) = 1 /\ <<p>> # <<>>
<1>1. <<p>> \in Seq({p}) /\ Len(<<p>>) = 1 /\ <<p>>[1] = p
  OBVIOUS
<1>2. SubSeq(<<p>>, 1, 0) = <<>>
  BY SubSeqEmpty
<1>3. SubSeq(<<p>>, 1, 1) = <<p>>
  BY <1>1, SubSeqFull
<1>4. <<p>> # <<>> /\ Append(<<>>, <<p>>[1]) = <<p>>
  OBVIOUS
<1> QED BY <1>1, <1>2, <1>3, <1>4

LEMMA Current ==
  ASSUME TypeOK
  PROVE  /\ bench \in Trees /\ arch \in Archs
         /\ bench = "npb" => patches = <<>> /\ applied[bench] = <<>>
         /\ bench # "npb" => /\ Len(patches) = 1 /\ patches # <<>>
                             /\ SubSeq(patches, 1, 0) = <<>> /\ SubSeq(patches, 1, 1) = patches
                             /\ Append(<<>>, patches[1]) = patches
<1>1. bench \in Trees /\ arch \in Archs
  BY Lists DEF TypeOK, bench, arch
<1>2. CASE bench = "npb"
  BY <1>1, <1>2, OnePatch DEF TypeOK, patches
<1>3. CASE bench # "npb"
  <2>1. PICK p : patches = <<p>>
    BY <1>1, <1>3, OnePatch DEF patches
  <2>2. /\ Len(patches) = 1 /\ patches # <<>>
        /\ SubSeq(patches, 1, 0) = <<>> /\ SubSeq(patches, 1, 1) = patches
        /\ Append(<<>>, patches[1]) = patches
    BY <2>1, SubSeqOfOne
  <2> QED BY <1>1, <1>3, <2>2
<1> QED BY <1>1, <1>2, <1>3

LEMMA SameBench ==
  ASSUME UNCHANGED <<archNo, benchNo>>
  PROVE  UNCHANGED <<arch, bench, patches>>
  BY DEF arch, bench, patches
-----------------------------------------------------------------------------
(* What the directory at hand is like at each command. *)
AtCommand ==
  /\ pc = "patch" => patchNo = 1 \/ (patchNo = 2 /\ bench # "npb" /\ applied[bench] = patches)
  /\ pc \in {"make", "move", "clean"} => applied[bench] = patches
  /\ pc = "move" => bench # "npb"
  /\ pc = "reverse" =>
       /\ objects[bench] = "none" /\ exe[bench] = "none"
       /\ \/ patchNo = 0 /\ applied[bench] = <<>>
          \/ patchNo = Len(patches) /\ applied[bench] = patches

(* A directory that was patched when the run began stays so, and the run   *)
(* does not get past its patches.                                          *)
Blocked ==
  /\ pc # "idle" => \A b \in blocked : applied[b] # <<>>
  /\ (pc = "patch" /\ patchNo = 2) \/ pc \in {"make", "move", "clean", "reverse"} => bench \notin blocked

(* A program is in a directory between make and mv, and where an           *)
(* interruption has left it: there the patch stops the next run.           *)
Programs ==
  ~repaired =>
    /\ \A b \in Trees : exe[b] # "none" =>
         \/ applied[b] # <<>> /\ (pc = "idle" \/ b \in blocked)
         \/ pc = "move" /\ b = bench /\ exe[b] = arch
    /\ \A a \in Archs, b \in Trees : binaries[a][b] \in {a, "none"}

LEMMA ApplyEffect ==
  ASSUME TypeOK, AtCommand, ApplyPatch
  PROVE  /\ pc = "patch" /\ patchNo = 1 /\ bench # "npb" /\ patches # <<>>
         /\ \/ /\ applied[bench] = <<>> /\ applied' = [applied EXCEPT ![bench] = patches]
               /\ patchNo' = 2 /\ UNCHANGED <<pc, archNo, benchNo>>
            \/ /\ applied[bench] # <<>> /\ pc' = "idle"
               /\ UNCHANGED <<applied, patchNo, archNo, benchNo>>
         /\ UNCHANGED <<objects, exe, binaries, faults, hist>>
<1>1. /\ pc = "patch" /\ patchNo <= Len(patches)
      /\ IF applied[bench] = SubSeq(patches, 1, patchNo - 1)
         THEN /\ applied' = [applied EXCEPT ![bench] = Append(@, patches[patchNo])]
              /\ patchNo' = patchNo + 1
              /\ UNCHANGED <<pc, archNo, benchNo>>
         ELSE pc' = "idle" /\ UNCHANGED <<applied, archNo, benchNo, patchNo>>
      /\ UNCHANGED <<objects, exe, binaries, faults, hist>>
  BY DEF ApplyPatch, Fail
<1>2. bench # "npb"
  <2>1. patches = <<>> => Len(patches) = 0
    OBVIOUS
  <2> QED BY <1>1, <2>1, Current DEF AtCommand
<1>3. patchNo = 1 /\ patches # <<>>
  <2>1. Len(patches) = 1 /\ patches # <<>>
    BY <1>2, Current
  <2>2. patchNo = 1 \/ patchNo = 2
    BY <1>1 DEF AtCommand
  <2> QED BY <1>1, <2>1, <2>2
<1>4. CASE applied[bench] = <<>>
  <2>1. SubSeq(patches, 1, patchNo - 1) = <<>> /\ Append(applied[bench], patches[patchNo]) = patches
    BY <1>2, <1>3, <1>4, Current
  <2> QED BY <1>1, <1>2, <1>3, <1>4, <2>1
<1>5. CASE applied[bench] # <<>>
  <2>1. SubSeq(patches, 1, patchNo - 1) = <<>>
    BY <1>2, <1>3, Current
  <2> QED BY <1>1, <1>2, <1>3, <1>5, <2>1
<1> QED BY <1>4, <1>5

LEMMA ReverseEffect ==
  ASSUME TypeOK, AtCommand, ReversePatch
  PROVE  /\ pc = "reverse" /\ pc' = "reverse" /\ patches # <<>> /\ bench # "npb"
         /\ applied[bench] = patches /\ applied' = [applied EXCEPT ![bench] = <<>>]
         /\ patchNo' = 0
         /\ UNCHANGED <<archNo, benchNo, objects, exe, binaries, faults, hist>>
<1>1. /\ pc = "reverse" /\ patchNo > 0
      /\ IF applied[bench] = SubSeq(patches, 1, patchNo)
         THEN /\ applied' = [applied EXCEPT ![bench] = SubSeq(patches, 1, patchNo - 1)]
              /\ patchNo' = patchNo - 1
              /\ UNCHANGED <<pc, archNo, benchNo>>
         ELSE pc' = "idle" /\ UNCHANGED <<applied, archNo, benchNo, patchNo>>
      /\ UNCHANGED <<objects, exe, binaries, faults, hist>>
  BY DEF ReversePatch, Fail
<1>2. patchNo = Len(patches) /\ applied[bench] = patches
  BY <1>1 DEF AtCommand
<1>3. bench # "npb"
  <2>1. patches = <<>> => Len(patches) = 0
    OBVIOUS
  <2> QED BY <1>1, <1>2, <2>1, Current
<1>4. patchNo = 1 /\ patches # <<>>
  BY <1>2, <1>3, Current
<1>5. SubSeq(patches, 1, patchNo) = patches /\ SubSeq(patches, 1, patchNo - 1) = <<>>
  BY <1>3, <1>4, Current
<1> QED BY <1>1, <1>2, <1>3, <1>4, <1>5
-----------------------------------------------------------------------------
LEMMA PatchCount ==
  ASSUME NEW i \in 1 .. Len(Benchmarks), NEW k \in 1 .. Len(ArchList)
  PROVE  Len(PatchesOf(Benchmarks[i], ArchList[k])) \in {0, 1}
<1>1. Benchmarks[i] \in Trees /\ ArchList[k] \in Archs
  BY Lists
<1>2. PatchesOf(Benchmarks[i], ArchList[k]) = <<>> \/ \E p : PatchesOf(Benchmarks[i], ArchList[k]) = <<p>>
  BY <1>1, OnePatch
<1> QED BY <1>2, SubSeqOfOne

LEMMA OneTree ==
  ASSUME NEW f \in [Trees -> ArchOrNone], NEW b \in Trees, NEW v \in ArchOrNone
  PROVE  [f EXCEPT ![b] = v] \in [Trees -> ArchOrNone]
  OBVIOUS

LEMMA OneBinary ==
  ASSUME TypeOK, NEW a \in Archs, NEW b \in Trees, NEW v \in ArchOrNone
  PROVE  [binaries EXCEPT ![a][b] = v] \in [Archs -> [Trees -> ArchOrNone]]
<1>1. binaries \in [Archs -> [Trees -> ArchOrNone]]
  BY DEF TypeOK
<1>2. [binaries[a] EXCEPT ![b] = v] \in [Trees -> ArchOrNone]
  BY <1>1
<1> QED BY <1>1, <1>2

LEMMA TypeStep == TypeOK /\ AtCommand /\ [Next]_vars => TypeOK'
<1> SUFFICES ASSUME TypeOK, AtCommand, [Next]_vars PROVE TypeOK'
  OBVIOUS
<1>1. /\ bench \in Trees /\ arch \in Archs /\ Len(patches) \in {0, 1} /\ patchNo \in 0 .. Len(patches) + 1
      /\ patches = PatchesOf(bench, arch)
  BY Current, PatchCount DEF TypeOK, patches, bench, arch
<1>2. /\ objects \in [Trees -> ArchOrNone] /\ exe \in [Trees -> ArchOrNone]
      /\ binaries \in [Archs -> [Trees -> ArchOrNone]]
      /\ bench \in Trees /\ arch \in Archs /\ arch \in ArchOrNone /\ "none" \in ArchOrNone
  BY <1>1 DEF TypeOK, ArchOrNone
<1>3. CASE Patched \/ Make \/ Move \/ Interrupt
  <2>0. UNCHANGED <<archNo, benchNo, patchNo, applied>> /\ pc' \in {"idle", "make", "move", "clean"}
    BY <1>3 DEF Patched, Make, Move, Interrupt, Fail, trees
  <2>1. UNCHANGED <<arch, bench, patches>>
    BY <2>0, SameBench
  <2>2. objects' \in [Trees -> ArchOrNone] /\ exe' \in [Trees -> ArchOrNone]
        /\ binaries' \in [Archs -> [Trees -> ArchOrNone]] /\ faults' \in 0 .. MaxFaults
        /\ blocked' = blocked /\ repaired' = repaired /\ begun' = begun
    <3>1. CASE Patched
      BY <3>1 DEF Patched, trees, hist, TypeOK
    <3>2. CASE Make
      <4>1. /\ objects' \in {objects, [objects EXCEPT ![bench] = arch],
                            [objects EXCEPT ![bench] = IF @ = "none" THEN arch ELSE @]}
            /\ exe' \in {exe, [exe EXCEPT ![bench] = IF @ = "none" THEN arch ELSE @]}
            /\ binaries' \in {binaries, [binaries EXCEPT ![arch][bench] = arch]}
        BY <3>2 DEF Make
      <4>2. faults' = faults \/ (faults < MaxFaults /\ faults' = faults + 1)
        BY <3>2 DEF Make, Fault
      <4>3. UNCHANGED hist
        BY <3>2 DEF Make
      <4>4. objects' \in [Trees -> ArchOrNone] /\ exe' \in [Trees -> ArchOrNone]
        <5>1. (IF objects[bench] = "none" THEN arch ELSE objects[bench]) \in ArchOrNone
              /\ (IF exe[bench] = "none" THEN arch ELSE exe[bench]) \in ArchOrNone
          BY <1>2
        <5> QED BY <1>2, <4>1, <5>1, OneTree
      <4>5. binaries' \in [Archs -> [Trees -> ArchOrNone]]
        <5>1. [binaries EXCEPT ![arch][bench] = arch] \in [Archs -> [Trees -> ArchOrNone]]
          BY <1>2, OneBinary
        <5> QED BY <1>2, <4>1, <5>1
      <4>6. faults' \in 0 .. MaxFaults
        BY <4>2, BenchmarkAssumption DEF TypeOK
      <4> QED BY <4>3, <4>4, <4>5, <4>6 DEF hist
    <3>3. CASE Move
      <4>1. exe[bench] \in ArchOrNone
        BY <1>2
      <4>2. exe' \in [Trees -> ArchOrNone] /\ binaries' \in [Archs -> [Trees -> ArchOrNone]]
        BY <1>2, <3>3, <4>1, OneTree, OneBinary DEF Move
      <4> QED BY <3>3, <4>2 DEF Move, hist, TypeOK
    <3>4. CASE Interrupt
      <4>1. objects' \in {objects, [objects EXCEPT ![bench] = arch]}
        <5>1. CASE pc = "make" /\ objects[bench] = "none"
          BY <3>4, <5>1 DEF Interrupt
        <5>2. CASE ~(pc = "make" /\ objects[bench] = "none")
          BY <3>4, <5>2 DEF Interrupt
        <5> QED BY <5>1, <5>2
      <4>2. faults < MaxFaults /\ faults' = faults + 1 /\ UNCHANGED <<exe, binaries, hist>>
        BY <3>4 DEF Interrupt, Fault
      <4>3. objects' \in [Trees -> ArchOrNone]
        BY <1>2, <4>1, OneTree
      <4> QED BY <4>2, <4>3, BenchmarkAssumption DEF TypeOK, hist
    <3> QED BY <1>3, <3>1, <3>2, <3>3, <3>4
  <2> QED BY <2>0, <2>1, <2>2 DEF TypeOK
<1>4. CASE Run
  <2>1. Len(patches') \in {0, 1}
    BY <1>4, Lists, PatchCount DEF Run, patches, bench, arch
  <2> QED BY <1>4, <2>1, Lists DEF Run, TypeOK, trees
<1>5. CASE ApplyPatch
  <2>1. UNCHANGED <<arch, bench, patches>>
    BY <1>5, SameBench, ApplyEffect
  <2>2. /\ Len(patches) = 1
        /\ \A b \in Trees : applied'[b] \in {applied[b], PatchesOf(b, arch)}
        /\ DOMAIN applied' = Trees /\ patchNo' \in {2, patchNo} /\ pc' \in {"patch", "idle"}
        /\ UNCHANGED <<archNo, benchNo, objects, exe, binaries, faults, hist>>
    <3>1. Len(patches) = 1
      BY <1>5, ApplyEffect, Current
    <3> QED BY <1>1, <1>5, <3>1, ApplyEffect DEF TypeOK
  <2> QED BY <1>1, <2>1, <2>2 DEF TypeOK, hist
<1>6. CASE Clean
  <2>1. UNCHANGED <<arch, bench, patches>>
    BY <1>6, SameBench DEF Clean
  <2> QED BY <1>1, <1>6, <2>1 DEF Clean, TypeOK, hist, ArchOrNone
<1>7. CASE ReversePatch
  <2>1. UNCHANGED <<arch, bench, patches>>
    BY <1>7, SameBench, ReverseEffect
  <2>2. /\ \A b \in Trees : applied'[b] \in {applied[b], <<>>}
        /\ DOMAIN applied' = Trees /\ patchNo' = 0 /\ pc' = "reverse"
        /\ UNCHANGED <<archNo, benchNo, objects, exe, binaries, faults, hist>>
    BY <1>1, <1>7, ReverseEffect DEF TypeOK
  <2> QED BY <1>1, <2>1, <2>2 DEF TypeOK, hist
<1>8. CASE NextBenchmark
  <2>1. archNo' \in 1 .. Len(ArchList) /\ benchNo' \in 1 .. Len(Benchmarks)
    BY <1>8, Lists DEF NextBenchmark, TypeOK
  <2>2. Len(patches') \in {0, 1}
    BY <2>1, PatchCount DEF patches, bench, arch
  <2> QED BY <1>8, <2>1, <2>2 DEF NextBenchmark, TypeOK, trees, hist
<1>9. ASSUME NEW b \in Trees, ResetTree(b) PROVE TypeOK'
  <2>1. UNCHANGED <<arch, bench, patches>>
    BY <1>9, SameBench DEF ResetTree
  <2>2. /\ \A c \in Trees : applied'[c] \in {applied[c], <<>>}
        /\ DOMAIN applied' = Trees
        /\ objects' \in [Trees -> ArchOrNone] /\ exe' \in [Trees -> ArchOrNone]
    BY <1>9 DEF ResetTree, TypeOK, ArchOrNone
  <2> QED BY <1>1, <1>9, <2>1, <2>2 DEF ResetTree, TypeOK
<1>10. CASE UNCHANGED vars
  <2>1. UNCHANGED <<arch, bench, patches>>
    BY <1>10, SameBench DEF vars
  <2> QED BY <1>10, <2>1 DEF TypeOK, vars, trees, hist
<1> QED BY <1>3, <1>4, <1>5, <1>6, <1>7, <1>8, <1>9, <1>10 DEF Next, Command
-----------------------------------------------------------------------------
LEMMA MakeEffect ==
  ASSUME TypeOK, Make
  PROVE  /\ pc = "make" /\ UNCHANGED <<applied, archNo, benchNo, patchNo, hist>>
         /\ \A b \in Trees \ {bench} : objects'[b] = objects[b] /\ exe'[b] = exe[b]
         /\ \/ pc' = "idle" /\ UNCHANGED <<exe, binaries>>
            \/ /\ bench = "npb" /\ pc' = "clean" /\ exe' = exe
               /\ binaries' = [binaries EXCEPT ![arch][bench] = arch]
            \/ /\ bench # "npb" /\ pc' = "move" /\ binaries' = binaries
               /\ exe'[bench] = IF exe[bench] = "none" THEN arch ELSE exe[bench]
         /\ faults' = faults \/ (pc' = "idle" /\ faults' = faults + 1)
         /\ objects[bench] \in {"none", arch} /\ faults' = faults => pc' # "idle"
<1>1. bench \in Trees /\ objects \in [Trees -> ArchOrNone] /\ exe \in [Trees -> ArchOrNone]
  BY Current DEF TypeOK
<1>2. pc = "make" /\ UNCHANGED <<applied, archNo, benchNo, patchNo, hist>>
  BY DEF Make, Fail
<1>3. CASE objects[bench] \notin {"none", arch} /\ exe[bench] = "none"
  BY <1>2, <1>3 DEF Make, Fail
<1>4. CASE ~(objects[bench] \notin {"none", arch} /\ exe[bench] = "none")
  <2>1. CASE /\ objects' = [objects EXCEPT ![bench] = IF @ = "none" THEN arch ELSE @]
             /\ bench = "npb" /\ pc' = "clean" /\ UNCHANGED <<exe, faults>>
             /\ binaries' = [binaries EXCEPT ![arch][bench] = arch]
    BY <1>1, <1>2, <2>1
  <2>2. CASE /\ objects' = [objects EXCEPT ![bench] = IF @ = "none" THEN arch ELSE @]
             /\ bench # "npb" /\ pc' = "move" /\ UNCHANGED <<binaries, faults>>
             /\ exe' = [exe EXCEPT ![bench] = IF @ = "none" THEN arch ELSE @]
    BY <1>1, <1>2, <2>2
  <2>3. CASE /\ faults < MaxFaults /\ faults' = faults + 1 /\ pc' = "idle"
             /\ objects' \in {objects, [objects EXCEPT ![bench] = arch]}
             /\ UNCHANGED <<exe, binaries>>
    <3>1. faults' # faults
      BY <2>3 DEF TypeOK
    <3> QED BY <1>1, <1>2, <2>3, <3>1
  <2> QED BY <1>2, <1>4, <2>1, <2>2, <2>3 DEF Make, Fail, Fault
<1> QED BY <1>3, <1>4

LEMMA AtCommandStep == TypeOK /\ AtCommand /\ [Next]_vars => AtCommand'
<1> SUFFICES ASSUME TypeOK, AtCommand, [Next]_vars PROVE AtCommand'
  OBVIOUS
<1>1. bench \in Trees /\ arch \in Archs /\ DOMAIN applied = Trees
      /\ objects \in [Trees -> ArchOrNone] /\ exe \in [Trees -> ArchOrNone]
  BY Current DEF TypeOK
<1>2. CASE pc' = "idle"
  BY <1>2 DEF AtCommand
<1>3. CASE Run \/ NextBenchmark
  BY <1>2, <1>3 DEF Run, NextBenchmark, AtCommand
<1>4. CASE ApplyPatch
  <2>1. UNCHANGED <<arch, bench, patches>>
    BY <1>4, SameBench, ApplyEffect
  <2> QED BY <1>1, <1>2, <1>4, <2>1, ApplyEffect DEF AtCommand
<1>5. CASE Patched
  <2>1. UNCHANGED <<arch, bench, patches>>
    BY <1>5, SameBench DEF Patched
  <2>2. applied[bench] = patches
    <3>1. patchNo = 1 \/ applied[bench] = patches
      BY <1>5 DEF Patched, AtCommand
    <3>2. bench # "npb" => patchNo # 1
      BY <1>5, Current DEF Patched
    <3> QED BY <3>1, <3>2, Current
  <2> QED BY <1>5, <2>1, <2>2 DEF Patched, AtCommand, trees
<1>6. CASE Make
  <2>1. UNCHANGED <<arch, bench, patches>>
    BY <1>6, SameBench, MakeEffect
  <2> QED BY <1>2, <1>6, <2>1, MakeEffect DEF AtCommand
<1>7. CASE Move
  <2>1. UNCHANGED <<arch, bench, patches>>
    BY <1>7, SameBench DEF Move
  <2> QED BY <1>7, <2>1 DEF Move, AtCommand
<1>8. CASE Clean
  <2>1. UNCHANGED <<arch, bench, patches>>
    BY <1>8, SameBench DEF Clean
  <2> QED BY <1>1, <1>8, <2>1 DEF Clean, AtCommand
<1>9. CASE ReversePatch
  <2>1. UNCHANGED <<arch, bench, patches>>
    BY <1>9, SameBench, ReverseEffect
  <2> QED BY <1>1, <1>9, <2>1, ReverseEffect DEF AtCommand
<1>10. CASE Interrupt \/ \E b \in Trees : ResetTree(b)
  BY <1>2, <1>10 DEF Interrupt, Fail, ResetTree
<1>11. CASE UNCHANGED vars
  <2>1. UNCHANGED <<arch, bench, patches>>
    BY <1>11, SameBench DEF vars
  <2> QED BY <1>11, <2>1 DEF AtCommand, vars, trees
<1> QED BY <1>3, <1>4, <1>5, <1>6, <1>7, <1>8, <1>9, <1>10, <1>11 DEF Next, Command

LEMMA BlockedStep == TypeOK /\ AtCommand /\ Blocked /\ [Next]_vars => Blocked'
<1> SUFFICES ASSUME TypeOK, AtCommand, Blocked, [Next]_vars PROVE Blocked'
  OBVIOUS
<1>1. bench \in Trees /\ DOMAIN applied = Trees /\ blocked \subseteq Trees
  BY Current DEF TypeOK
<1>2. CASE pc' = "idle"
  BY <1>2 DEF Blocked
<1>3. CASE Run
  BY <1>3 DEF Run, Blocked, trees
<1>4. CASE ApplyPatch
  <2>1. UNCHANGED bench
    BY <1>4, SameBench, ApplyEffect
  <2>2. CASE applied[bench] = <<>> /\ pc' = "patch" /\ applied' = [applied EXCEPT ![bench] = patches]
    <3>1. bench \notin blocked /\ blocked' = blocked
      BY <1>4, <2>2, ApplyEffect DEF Blocked, hist
    <3> QED BY <1>1, <1>4, <2>1, <2>2, <3>1, ApplyEffect DEF Blocked
  <2> QED BY <1>2, <1>4, <2>2, ApplyEffect
<1>5. CASE Patched
  <2>1. UNCHANGED bench
    BY <1>5, SameBench DEF Patched
  <2>2. bench \notin blocked
    <3>1. bench # "npb" => patchNo # 1
      BY <1>5, Current DEF Patched
    <3> QED BY <1>5, <3>1, Current DEF Patched, AtCommand, Blocked
  <2> QED BY <1>5, <2>1, <2>2 DEF Patched, Blocked, trees, hist
<1>6. CASE Make
  <2>1. UNCHANGED bench
    BY <1>6, SameBench, MakeEffect
  <2> QED BY <1>6, <2>1, MakeEffect DEF Blocked, hist
<1>7. CASE Move \/ Clean
  <2>1. UNCHANGED bench
    BY <1>7, SameBench DEF Move, Clean
  <2> QED BY <1>7, <2>1 DEF Move, Clean, Blocked, hist
<1>8. CASE ReversePatch
  <2>1. UNCHANGED bench
    BY <1>8, SameBench, ReverseEffect
  <2> QED BY <1>1, <1>8, <2>1, ReverseEffect DEF Blocked, hist
<1>9. CASE NextBenchmark
  BY <1>9 DEF NextBenchmark, Blocked, trees, hist
<1>10. CASE Interrupt \/ \E b \in Trees : ResetTree(b)
  BY <1>2, <1>10 DEF Interrupt, Fail, ResetTree
<1>11. CASE UNCHANGED vars
  <2>1. UNCHANGED bench
    BY <1>11, SameBench DEF vars
  <2> QED BY <1>11, <2>1 DEF Blocked, vars, trees, hist
<1> QED BY <1>3, <1>4, <1>5, <1>6, <1>7, <1>8, <1>9, <1>10, <1>11 DEF Next, Command

LEMMA ProgramsStep == TypeOK /\ AtCommand /\ Blocked /\ Programs /\ [Next]_vars => Programs'
<1> SUFFICES ASSUME TypeOK, AtCommand, Blocked, Programs, [Next]_vars, ~repaired' PROVE Programs'
  BY DEF Programs
<1>1. bench \in Trees /\ arch \in Archs /\ DOMAIN applied = Trees
      /\ exe \in [Trees -> ArchOrNone] /\ binaries \in [Archs -> [Trees -> ArchOrNone]]
  BY Current DEF TypeOK
<1>2. ~repaired
  BY DEF Next, Command, Run, ApplyPatch, Patched, Make, Move, Clean, ReversePatch, NextBenchmark,
         Interrupt, ResetTree, hist, vars
<1>3. bench \notin blocked /\ pc \notin {"idle", "move"} => exe[bench] = "none"
  BY <1>1, <1>2 DEF Programs
<1>4. CASE Run
  BY <1>2, <1>4 DEF Run, Programs, trees
<1>5. CASE ApplyPatch
  <2>1. UNCHANGED <<arch, bench>>
    BY <1>5, SameBench, ApplyEffect
  <2> QED BY <1>1, <1>2, <1>5, <2>1, ApplyEffect DEF Programs, hist
<1>6. CASE Patched
  BY <1>2, <1>6 DEF Patched, Programs, trees, hist
<1>7. CASE Make
  <2>1. UNCHANGED <<arch, bench>>
    BY <1>7, SameBench, MakeEffect
  <2>2. exe[bench] = "none"
    BY <1>3, <1>7, MakeEffect DEF Blocked
  <2>3. \A b \in Trees \ {bench} : exe'[b] = exe[b]
    BY <1>7, MakeEffect
  <2>4. CASE pc' = "idle" /\ UNCHANGED <<exe, binaries>>
    BY <1>2, <1>7, <2>4, MakeEffect DEF Programs, hist
  <2>5. CASE bench = "npb" /\ pc' = "clean" /\ exe' = exe /\ binaries' = [binaries EXCEPT ![arch][bench] = arch]
    <3>1. \A a \in Archs, b \in Trees : binaries'[a][b] \in {binaries[a][b], a}
      BY <1>1, <2>5
    <3> QED BY <1>2, <1>7, <2>5, <3>1, MakeEffect DEF Programs, hist
  <2>6. CASE bench # "npb" /\ pc' = "move" /\ binaries' = binaries /\ exe'[bench] = arch
    BY <1>2, <1>7, <2>1, <2>3, <2>6, MakeEffect DEF Programs, hist
  <2> QED BY <1>7, <2>2, <2>4, <2>5, <2>6, MakeEffect
<1>8. CASE Move
  <2>1. exe[bench] \in {arch, "none"}
    BY <1>1, <1>2, <1>8 DEF Programs, Move, Blocked
  <2>2. \A a \in Archs, b \in Trees :
          binaries'[a][b] = IF a = arch /\ b = bench THEN exe[bench] ELSE binaries[a][b]
    BY <1>1, <1>8 DEF Move
  <2>3. \A b \in Trees : exe'[b] = IF b = bench THEN "none" ELSE exe[b]
    BY <1>1, <1>8 DEF Move
  <2>4. \A a \in Archs, b \in Trees : binaries'[a][b] \in {a, "none"}
    BY <1>2, <2>1, <2>2 DEF Programs
  <2> QED BY <1>2, <1>8, <2>3, <2>4 DEF Move, Programs, hist
<1>9. CASE Clean
  <2>1. \A b \in Trees : exe'[b] = IF b = bench THEN "none" ELSE exe[b]
    BY <1>1, <1>9 DEF Clean
  <2> QED BY <1>2, <1>9, <2>1 DEF Clean, Programs, hist
<1>10. CASE ReversePatch
  <2>1. exe[bench] = "none"
    BY <1>10, ReverseEffect DEF AtCommand
  <2> QED BY <1>1, <1>2, <1>10, <2>1, ReverseEffect DEF Programs, hist
<1>11. CASE NextBenchmark
  BY <1>2, <1>11 DEF NextBenchmark, Programs, trees, hist
<1>12. CASE Interrupt
  <2>1. \A b \in Trees : exe[b] # "none" => applied[b] # <<>>
    <3>1. pc = "move" => applied[bench] # <<>>
      BY Current DEF AtCommand
    <3> QED BY <1>2, <3>1 DEF Programs
  <2> QED BY <1>2, <1>12, <2>1 DEF Interrupt, Fail, Programs, hist
<1>13. CASE UNCHANGED vars
  <2>1. UNCHANGED <<arch, bench>>
    BY <1>13, SameBench DEF vars
  <2> QED BY <1>2, <1>13, <2>1 DEF Programs, vars, trees, hist
<1>14. ASSUME NEW b \in Trees, ResetTree(b) PROVE FALSE
  BY <1>14 DEF ResetTree
<1> QED BY <1>4, <1>5, <1>6, <1>7, <1>8, <1>9, <1>10, <1>11, <1>12, <1>13, <1>14 DEF Next, Command

(* The benchmarks of a run that are done, of both architectures. *)
Passed(i) == i < benchNo \/ (archNo > 1 /\ i > benchNo)

LEMMA LeftCleanStep == TypeOK /\ AtCommand /\ LeftClean /\ [Next]_vars => LeftClean'
<1> SUFFICES ASSUME TypeOK, AtCommand, LeftClean, [Next]_vars, pc' # "idle",
                    NEW i \in 1 .. 3, Passed(i)'
             PROVE  /\ applied'[Benchmarks[i]] = <<>>
                    /\ objects'[Benchmarks[i]] = "none" /\ exe'[Benchmarks[i]] = "none"
  BY Lists DEF LeftClean, Passed
<1> DEFINE b == Benchmarks[i]
<1>1. /\ bench \in Trees /\ b \in Trees /\ DOMAIN applied = Trees
      /\ objects \in [Trees -> ArchOrNone] /\ exe \in [Trees -> ArchOrNone]
      /\ archNo \in 1 .. 2 /\ benchNo \in 1 .. 3
  BY Current, Lists DEF TypeOK
<1>2. pc # "idle" /\ Passed(i) => applied[b] = <<>> /\ objects[b] = "none" /\ exe[b] = "none"
  BY Lists DEF LeftClean, Passed
<1>3. CASE UNCHANGED <<archNo, benchNo>> /\ pc # "idle" /\ ~(\E c \in Trees : ResetTree(c))
  <2>1. Passed(i) /\ b # bench
    BY <1>1, <1>3, Lists DEF Passed, bench
  <2>2. applied'[b] = applied[b] /\ objects'[b] = objects[b] /\ exe'[b] = exe[b]
    <3>1. CASE ApplyPatch \/ ReversePatch
      BY <1>1, <2>1, <3>1, ApplyEffect, ReverseEffect
    <3>2. CASE Make
      BY <1>1, <2>1, <3>2, MakeEffect
    <3>3. CASE Patched \/ Move \/ Clean
      BY <1>1, <2>1, <3>3 DEF Patched, Move, Clean, trees
    <3>4. CASE UNCHANGED vars
      BY <3>4 DEF vars, trees
    <3>5. ~Run /\ ~Interrupt
      BY <1>3 DEF Run, Interrupt, Fail
    <3>6. CASE NextBenchmark
      BY <3>6 DEF NextBenchmark, trees
    <3> QED BY <1>3, <3>1, <3>2, <3>3, <3>4, <3>5, <3>6 DEF Next, Command
  <2> QED BY <1>2, <1>3, <2>1, <2>2
<1>4. CASE Run
  BY <1>1, <1>4 DEF Run, Passed
<1>5. CASE NextBenchmark
  <2>1. UNCHANGED trees /\ pc = "reverse" /\ patchNo = 0
    BY <1>5 DEF NextBenchmark
  <2>2. Passed(i) \/ i = benchNo
    BY <1>1, <1>5, Lists DEF NextBenchmark, Passed
  <2>3. CASE i = benchNo
    <3>1. Len(patches) = 0 => patches = <<>>
      BY Current
    <3> QED BY <2>1, <2>3, <3>1 DEF AtCommand, bench, trees
  <2> QED BY <1>2, <2>1, <2>2, <2>3 DEF trees
<1>6. ASSUME NEW c \in Trees, ResetTree(c) PROVE FALSE
  BY <1>6 DEF ResetTree
<1>7. CASE ApplyPatch
  BY <1>3, <1>6, <1>7, ApplyEffect
<1>8. CASE Make \/ ReversePatch
  BY <1>3, <1>6, <1>8, MakeEffect, ReverseEffect
<1>9. CASE Patched \/ Move \/ Clean
  BY <1>3, <1>6, <1>9 DEF Patched, Move, Clean
<1>10. CASE UNCHANGED vars
  BY <1>3, <1>6, <1>10 DEF vars
<1> QED BY <1>4, <1>5, <1>6, <1>7, <1>8, <1>9, <1>10 DEF Next, Command, Interrupt, Fail
-----------------------------------------------------------------------------
BuildInv == TypeOK /\ AtCommand /\ Blocked /\ Programs /\ LeftClean

LEMMA InitBuildInv == Init => BuildInv
<1> SUFFICES ASSUME Init PROVE BuildInv
  OBVIOUS
<1>1. archNo \in 1 .. Len(ArchList) /\ benchNo \in 1 .. Len(Benchmarks)
  BY Lists DEF Init
<1>2. Len(patches) \in {0, 1}
  BY <1>1, PatchCount DEF patches, bench, arch
<1>3. TypeOK
  <2>1. \A b \in Trees : \E a \in Archs : applied[b] \in {<<>>, PatchesOf(b, a)}
    BY Lists DEF Init
  <2>2. /\ objects \in [Trees -> ArchOrNone] /\ exe \in [Trees -> ArchOrNone]
        /\ binaries \in [Archs -> [Trees -> ArchOrNone]]
    BY DEF Init, ArchOrNone
  <2>3. pc = "idle" /\ patchNo = 1 /\ DOMAIN applied = Trees /\ faults = 0
        /\ blocked = {} /\ repaired = FALSE /\ begun = FALSE
    BY DEF Init
  <2>4. patchNo \in 0 .. Len(patches) + 1 /\ faults \in 0 .. MaxFaults
    BY <1>2, <2>3, BenchmarkAssumption
  <2> QED BY <1>1, <2>1, <2>2, <2>3, <2>4 DEF TypeOK
<1>4. AtCommand /\ Blocked /\ LeftClean
  BY DEF Init, AtCommand, Blocked, LeftClean
<1>5. Programs
  BY DEF Init, Programs
<1> QED BY <1>3, <1>4, <1>5 DEF BuildInv

LEMMA BuildInvStep == BuildInv /\ [Next]_vars => BuildInv'
  BY TypeStep, AtCommandStep, BlockedStep, ProgramsStep, LeftCleanStep DEF BuildInv

(* Whatever fails, is interrupted, repeated or reset, finished directories *)
(* are left as they were found and, while the user leaves the directories  *)
(* alone, binaries/<arch> holds programs of that architecture.             *)
THEOREM DirectoriesAreKept == Spec => []Inv
<1>1. BuildInv => Inv
  BY DEF BuildInv, Programs, Inv, OwnArchitecture
<1> QED BY <1>1, InitBuildInv, BuildInvStep, PTL DEF Spec

(* However often the script is started, it builds nothing in a directory   *)
(* that an earlier run has left patched.                                   *)
THEOREM PatchedDirectoriesBlock == Spec => PatchedTreeBlocks
<1>1. BuildInv /\ [Next]_vars => [\A a \in Archs, b \in blocked : binaries'[a][b] = binaries[a][b]]_vars
  <2> SUFFICES ASSUME BuildInv, Next, NEW a \in Archs, NEW b \in blocked
               PROVE  binaries'[a][b] = binaries[a][b]
    OBVIOUS
  <2>1. /\ bench \in Trees /\ arch \in Archs /\ b \in Trees
        /\ binaries \in [Archs -> [Trees -> ArchOrNone]]
        /\ pc \in {"make", "move"} => b # bench
    BY Current DEF BuildInv, TypeOK, Blocked
  <2>2. CASE Make
    BY <2>1, <2>2, MakeEffect DEF BuildInv
  <2>3. CASE Move
    BY <2>1, <2>3 DEF Move
  <2>4. CASE ~Make /\ ~Move
    BY <2>4 DEF Next, Command, Run, ApplyPatch, Patched, Clean, ReversePatch, NextBenchmark,
                Interrupt, ResetTree
  <2> QED BY <2>2, <2>3, <2>4
<1> QED BY <1>1, InitBuildInv, BuildInvStep, PTL DEF Spec, PatchedTreeBlocks
-----------------------------------------------------------------------------
Pristine(b) == applied[b] = <<>> /\ objects[b] = "none" /\ exe[b] = "none"

(* What the loops have been through. *)
Before(k, i) ==
  \/ k < archNo
  \/ k = archNo /\ (i < benchNo \/ (i = benchNo /\ pc \in {"clean", "reverse"}))

(* As long as nothing has gone wrong, directories are as they were found   *)
(* but for the one at hand, and programs are there for what is done.       *)
Undisturbed ==
  faults = 0 =>
    /\ \A b \in Trees : pc = "idle" \/ b # bench => Pristine(b)
    /\ pc = "patch" =>
         /\ objects[bench] = "none" /\ exe[bench] = "none"
         /\ patchNo = 1 => applied[bench] = <<>>
    /\ pc = "make" => objects[bench] = "none" /\ exe[bench] = "none"
    /\ pc = "move" => exe[bench] # "none"
    /\ pc # "idle" => \A k \in 1 .. 2, i \in 1 .. 3 :
                        Before(k, i) => binaries[ArchList[k]][Benchmarks[i]] # "none"
    /\ begun /\ pc = "idle" => Complete

LEMMA UndisturbedStep == BuildInv /\ Undisturbed /\ [Next]_vars => Undisturbed'
<1> SUFFICES ASSUME BuildInv, Undisturbed, [Next]_vars, faults' = 0 PROVE Undisturbed'
  BY DEF Undisturbed
<1>1. /\ bench \in Trees /\ arch \in Archs /\ DOMAIN applied = Trees
      /\ objects \in [Trees -> ArchOrNone] /\ exe \in [Trees -> ArchOrNone]
      /\ binaries \in [Archs -> [Trees -> ArchOrNone]] /\ arch # "none"
      /\ archNo \in 1 .. 2 /\ benchNo \in 1 .. 3 /\ faults \in Nat
  BY Current, Lists, BenchmarkAssumption DEF BuildInv, TypeOK
<1>2. faults = 0 /\ ~Interrupt
  BY <1>1 DEF Next, Command, Run, ApplyPatch, Patched, Make, Move, Clean, ReversePatch, NextBenchmark,
              Interrupt, ResetTree, Fault, Fail, vars
<1>3. CASE Run
  <2>1. \A k \in 1 .. 2, i \in 1 .. 3 : ~Before(k, i)'
    BY <1>3 DEF Run, Before
  <2>2. \A b \in Trees : Pristine(b)'
    BY <1>2, <1>3 DEF Run, Undisturbed, Pristine, trees
  <2>3. bench' \in Trees
    BY <1>3, Lists DEF Run, bench
  <2> QED BY <1>3, <2>1, <2>2, <2>3 DEF Run, Undisturbed, Pristine
<1>4. CASE ApplyPatch
  <2>1. UNCHANGED <<arch, bench, patches>>
    BY <1>4, SameBench, ApplyEffect DEF BuildInv
  <2>2. /\ applied' = [applied EXCEPT ![bench] = patches] /\ patchNo' = 2 /\ pc' = "patch" /\ pc = "patch"
        /\ UNCHANGED <<archNo, benchNo, objects, exe, binaries, begun>>
    BY <1>2, <1>4, ApplyEffect DEF BuildInv, Undisturbed, hist
  <2>3. \A k, i : Before(k, i)' <=> Before(k, i)
    BY <2>2 DEF Before
  <2> QED BY <1>1, <1>2, <2>1, <2>2, <2>3 DEF Undisturbed, Pristine
<1>5. CASE Patched
  <2>1. UNCHANGED <<arch, bench>>
    BY <1>5, SameBench DEF Patched
  <2>2. \A k, i : Before(k, i)' <=> Before(k, i)
    BY <1>5 DEF Before, Patched
  <2> QED BY <1>2, <1>5, <2>1, <2>2 DEF Patched, Undisturbed, Pristine, trees
<1>6. CASE Make
  <2>1. UNCHANGED <<arch, bench>> /\ UNCHANGED <<applied, archNo, benchNo, begun>>
    BY <1>6, SameBench, MakeEffect DEF BuildInv, hist
  <2>2. objects[bench] = "none" /\ exe[bench] = "none"
    BY <1>2, <1>6, MakeEffect DEF BuildInv, Undisturbed
  <2>3. \A b \in Trees \ {bench} : Pristine(b)'
    BY <1>2, <1>6, <2>1, MakeEffect DEF BuildInv, Undisturbed, Pristine
  <2>4. pc' # "idle"
    BY <1>2, <1>6, <2>2, MakeEffect DEF BuildInv
  <2>5. CASE /\ bench = "npb" /\ pc' = "clean"
             /\ binaries' = [binaries EXCEPT ![arch][bench] = arch]
    <3>1. \A a \in Archs, b \in Trees :
            binaries'[a][b] # "none" <=> binaries[a][b] # "none" \/ (a = arch /\ b = bench)
      BY <1>1, <2>5
    <3>2. \A k \in 1 .. 2, i \in 1 .. 3 :
            Before(k, i)' => Before(k, i) \/ (ArchList[k] = arch /\ Benchmarks[i] = bench)
      BY <1>1, <2>1, <2>5 DEF Before, arch, bench
    <3>3. \A k \in 1 .. 2, i \in 1 .. 3 : ArchList[k] \in Archs /\ Benchmarks[i] \in Trees
      BY Lists
    <3>4. pc = "make"
      BY <1>6, MakeEffect DEF BuildInv
    <3> QED BY <1>2, <2>1, <2>3, <2>5, <3>1, <3>2, <3>3, <3>4 DEF Undisturbed
  <2>6. CASE /\ pc' = "move" /\ binaries' = binaries /\ exe'[bench] = arch
    <3>1. \A k, i : Before(k, i)' => Before(k, i)
      BY <2>1, <2>6 DEF Before
    <3>2. pc = "make"
      BY <1>6, MakeEffect DEF BuildInv
    <3> QED BY <1>1, <1>2, <2>1, <2>3, <2>6, <3>1, <3>2 DEF Undisturbed
  <2> QED BY <1>6, <2>2, <2>4, <2>5, <2>6, MakeEffect DEF BuildInv
<1>7. CASE Move
  <2>1. UNCHANGED <<arch, bench>>
    BY <1>7, SameBench DEF Move
  <2>2. \A a \in Archs, b \in Trees :
          binaries'[a][b] # "none" <=> binaries[a][b] # "none" \/ (a = arch /\ b = bench)
    BY <1>1, <1>2, <1>7 DEF Move, Undisturbed
  <2>3. \A k \in 1 .. 2, i \in 1 .. 3 :
          Before(k, i)' => Before(k, i) \/ (ArchList[k] = arch /\ Benchmarks[i] = bench)
    BY <1>1, <1>7 DEF Before, arch, bench, Move
  <2>4. \A k \in 1 .. 2, i \in 1 .. 3 : ArchList[k] \in Archs /\ Benchmarks[i] \in Trees
    BY Lists
  <2>5. \A b \in Trees : b # bench => Pristine(b)'
    BY <1>1, <1>2, <1>7 DEF Move, Undisturbed, Pristine
  <2> QED BY <1>2, <1>7, <2>1, <2>2, <2>3, <2>4, <2>5 DEF Move, Undisturbed, hist
<1>8. CASE Clean
  <2>1. UNCHANGED <<arch, bench>>
    BY <1>8, SameBench DEF Clean
  <2>2. \A k, i : Before(k, i)' <=> Before(k, i)
    BY <1>8 DEF Before, Clean
  <2>3. \A b \in Trees : b # bench => Pristine(b)'
    BY <1>1, <1>2, <1>8 DEF Clean, Undisturbed, Pristine
  <2> QED BY <1>2, <1>8, <2>1, <2>2, <2>3 DEF Clean, Undisturbed, hist
<1>9. CASE ReversePatch
  <2>1. UNCHANGED <<arch, bench>>
    BY <1>9, SameBench, ReverseEffect DEF BuildInv
  <2>2. /\ pc = "reverse" /\ pc' = "reverse" /\ applied' = [applied EXCEPT ![bench] = <<>>]
        /\ UNCHANGED <<archNo, benchNo, objects, exe, binaries, begun>>
    BY <1>9, ReverseEffect DEF BuildInv, hist
  <2>3. \A k, i : Before(k, i)' <=> Before(k, i)
    BY <2>2 DEF Before
  <2> QED BY <1>1, <1>2, <2>1, <2>2, <2>3 DEF Undisturbed, Pristine
<1>10. CASE NextBenchmark
  <2>1. \A b \in Trees : Pristine(b)
    <3>1. Len(patches) = 0 => patches = <<>>
      BY Current DEF BuildInv
    <3>2. Pristine(bench)
      BY <1>10, <3>1 DEF NextBenchmark, BuildInv, AtCommand, Pristine
    <3> QED BY <1>2, <3>2 DEF Undisturbed
  <2>2. \A b \in Trees : Pristine(b)'
    BY <1>10, <2>1 DEF NextBenchmark, Pristine, trees
  <2>3. bench' \in Trees
    BY <1>1, <1>10, Lists DEF NextBenchmark, bench
  <2>4. \A k \in 1 .. 2, i \in 1 .. 3 : pc' # "idle" /\ Before(k, i)' => Before(k, i)
    BY <1>1, <1>10, Lists DEF NextBenchmark, Before
  <2>5. pc' = "idle" => Complete'
    <3>1. SUFFICES ASSUME pc' = "idle", NEW a \in Archs, NEW b \in Trees PROVE binaries[a][b] # "none"
      BY <1>10 DEF NextBenchmark, Complete
    <3>2. archNo = 2 /\ benchNo = 3 /\ pc = "reverse"
      BY <1>1, <1>10, <3>1, Lists DEF NextBenchmark
    <3>3. PICK k \in 1 .. 2, i \in 1 .. 3 : a = ArchList[k] /\ b = Benchmarks[i]
      BY Lists
    <3>4. Before(k, i)
      BY <3>2, <3>3 DEF Before
    <3> QED BY <1>2, <3>2, <3>3, <3>4 DEF Undisturbed
  <2> QED BY <1>2, <1>10, <2>2, <2>3, <2>4, <2>5 DEF NextBenchmark, Undisturbed, Pristine
<1>11. ASSUME NEW b \in Trees, ResetTree(b) PROVE Undisturbed'
  <2>1. pc = "idle" /\ pc' = "idle" /\ UNCHANGED <<binaries, begun>>
    BY <1>11 DEF ResetTree
  <2>2. \A c \in Trees : Pristine(c)'
    BY <1>1, <1>2, <1>11, <2>1 DEF ResetTree, Undisturbed, Pristine
  <2> QED BY <1>2, <2>1, <2>2 DEF Undisturbed, Complete
<1>12. CASE UNCHANGED vars
  <2>1. UNCHANGED <<arch, bench>>
    BY <1>12, SameBench DEF vars
  <2>2. \A k, i : Before(k, i)' <=> Before(k, i)
    BY <1>12 DEF Before, vars
  <2>3. Complete' <=> Complete
    BY <1>12 DEF Complete, vars
  <2> QED BY <1>2, <1>12, <2>1, <2>2, <2>3 DEF Undisturbed, Pristine, vars, trees, hist
<1> QED BY <1>2, <1>3, <1>4, <1>5, <1>6, <1>7, <1>8, <1>9, <1>10, <1>11, <1>12 DEF Next, Command

(* The second architecture finds every directory as the first did: a run   *)
(* in which nothing goes wrong builds every benchmark for both.            *)
THEOREM UndisturbedBuildCompletes == Spec => []UndisturbedRunsComplete
<1>1. Init => Undisturbed
  BY Lists DEF Init, Undisturbed, Pristine
<1>2. Undisturbed => UndisturbedRunsComplete
  BY DEF Undisturbed, UndisturbedRunsComplete
<1>3. BuildInv /\ Undisturbed /\ [Next]_vars => (BuildInv /\ Undisturbed)'
  BY BuildInvStep, UndisturbedStep
<1> QED BY <1>1, <1>2, <1>3, InitBuildInv, PTL DEF Spec
=============================================================================
