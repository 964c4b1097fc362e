------------------------- MODULE ClusterSweepProofs -------------------------
(***************************************************************************)
(* Proofs about ClusterSweep and the extraction of its results, for any    *)
(* choice of sweeps from the three loops and any numbers of files, of      *)
(* processes and of frames in a batch; and about the Pareto plot, for any  *)
(* tables and thresholds.                                                  *)
(***************************************************************************)
EXTENDS MCClusterSweep, FiniteSetTheorems, WellFoundedInduction, TLAPS

(* The loops count what the arrays hold. *)
LEMMA JobsBounded ==
  ASSUME NEW j \in AllJobs
  PROVE  j[1] \in 0 .. 3 /\ j[2] \in 0 .. 2 /\ j[3] \in 0 .. 2 /\ j = <<j[1], j[2], j[3]>>
  BY DEF AllJobs, Vlens, Vcnts, IqOffsets

(* Different indices stand for different vector lengths. *)
LEMMA VlensDiffer ==
  ASSUME NEW a \in 0 .. 3, NEW b \in 0 .. 3, Vlens[a + 1] = Vlens[b + 1]
  PROVE  a = b
  <1>1. (a = 0 \/ a = 1 \/ a = 2 \/ a = 3) /\ (b = 0 \/ b = 1 \/ b = 2 \/ b = 3)
    OBVIOUS
  <1> QED BY <1>1 DEF Vlens

(* ... and for different numbers of SIMD units. *)
LEMMA VcntsDiffer ==
  ASSUME NEW a \in 0 .. 2, NEW b \in 0 .. 2, Vcnts[a + 1] = Vcnts[b + 1]
  PROVE  a = b
  <1>1. (a = 0 \/ a = 1 \/ a = 2) /\ (b = 0 \/ b = 1 \/ b = 2)
    OBVIOUS
  <1> QED BY <1>1 DEF Vcnts

(* The ranges of issue queue sizes of the innermost loop do not meet. *)
LEMMA IqSizesApart ==
  ASSUME NEW i \in AllJobs, NEW j \in AllJobs, i[3] # j[3]
  PROVE  IqSizes(i) \cap IqSizes(j) = {} /\ IqSizes(i) # {}
  <1> DEFINE Size(c, k) == IqOffsets[c + 1] + k * IqSteps[c + 1]
  <1>1. i[3] \in 0 .. 2 /\ j[3] \in 0 .. 2
    BY JobsBounded
  <1>2. ASSUME NEW c \in 0 .. 2, NEW k \in 0 .. 3
        PROVE  Size(c, k) = CASE c = 0 -> 8 + 2 * k [] c = 1 -> 16 + 2 * k [] OTHER -> 24 + 4 * k
    <2>1. CASE c = 0 BY <2>1 DEF IqOffsets, IqSteps
    <2>2. CASE c = 1 BY <2>2 DEF IqOffsets, IqSteps
    <2>3. CASE c = 2 BY <2>3 DEF IqOffsets, IqSteps
    <2> QED BY <2>1, <2>2, <2>3
  <1>3. ASSUME NEW k \in 0 .. 3, NEW l \in 0 .. 3
        PROVE  Size(i[3], k) # Size(j[3], l)
    <2> HIDE DEF Size
    <2>1. i[3] = 0 \/ i[3] = 1 \/ i[3] = 2
      BY <1>1
    <2>2. j[3] = 0 \/ j[3] = 1 \/ j[3] = 2
      BY <1>1
    <2>3. /\ Size(0, k) = 8 + 2 * k /\ Size(1, k) = 16 + 2 * k /\ Size(2, k) = 24 + 4 * k
          /\ Size(0, l) = 8 + 2 * l /\ Size(1, l) = 16 + 2 * l /\ Size(2, l) = 24 + 4 * l
      BY <1>2
    <2> QED BY <2>1, <2>2, <2>3
  <1>4. Size(i[3], 0) \in IqSizes(i)
    BY DEF IqSizes
  <1> QED BY <1>3, <1>4 DEF IqSizes

(* Nodes are numbered without gaps or repetitions. *)
LEMMA NodesApart ==
  ASSUME NEW i \in AllJobs, NEW j \in AllJobs
  PROVE  /\ NodeIdx(j) \in 0 .. Nodes - 1
         /\ NodeIdx(i) = NodeIdx(j) => i = j
  BY JobsBounded DEF NodeIdx, Nodes

(* Sweeps that simulate a common point are one sweep. *)
LEMMA PointsApart ==
  ASSUME NEW i \in AllJobs, NEW j \in AllJobs, i # j
  PROVE  Points(i) \cap Points(j) = {}
  <1>1. SUFFICES ASSUME NEW p \in Points(i), p \in Points(j) PROVE FALSE
    OBVIOUS
  <1>2. p[1] = Vlens[i[1] + 1] /\ p[2] = Vcnts[i[2] + 1] /\ p[3] \in IqSizes(i)
    BY DEF Points
  <1>3. p[1] = Vlens[j[1] + 1] /\ p[2] = Vcnts[j[2] + 1] /\ p[3] \in IqSizes(j)
    BY <1>1 DEF Points
  <1>4. i[1] = j[1] /\ i[2] = j[2]
    BY <1>2, <1>3, JobsBounded, VlensDiffer, VcntsDiffer
  <1>5. i[3] # j[3]
    BY <1>4, JobsBounded
  <1> QED BY <1>2, <1>3, <1>5, IqSizesApart

(* Whatever runs, sweeps have nodes and points of their own: the formulas  *)
(* of run_benchmarks_jusuf.sh are right for all 36 sweeps.                 *)
THEOREM SweepsRunApart == Spec => []RunApart
  <1>1. RunApart
    <2>1. SUFFICES ASSUME NEW i \in Jobs, NEW j \in AllJobs
                   PROVE  /\ NodeIdx(j) \in 0 .. Nodes - 1
                          /\ i # j => NodeIdx(i) # NodeIdx(j) /\ Points(i) \cap Points(j) = {}
      BY DEF RunApart
    <2>2. i \in AllJobs
      BY ClusterAssumption
    <2> QED BY <2>2, NodesApart, PointsApart
  <1> QED BY <1>1, PTL
-----------------------------------------------------------------------------
File == [sweep: Jobs, whole: BOOLEAN, shared: BOOLEAN]

(* Every file has the name that the sweep which opened it last gave it,    *)
(* and what a sweep has written, or is writing, has a file.                *)
NamesInv ==
  /\ written \in [Jobs -> Nat] /\ writing \in [Jobs -> BOOLEAN]
  /\ files \in [DOMAIN files -> File]
  /\ \A g \in DOMAIN files : \E n \in 0 .. written[files[g].sweep] : g = FileName(files[g].sweep, n)
  /\ \A j \in Jobs : \A n \in 0 .. written[j] - 1 : FileName(j, n) \in DOMAIN files
  /\ \A j \in Jobs : writing[j] => FileName(j, written[j]) \in DOMAIN files

LEMMA NamesInit == Init => NamesInv
  <1>1. SUFFICES ASSUME Init PROVE NamesInv
    OBVIOUS
  <1>2. DOMAIN files = {} /\ files \in [{} -> File]
    BY <1>1 DEF Init
  <1> QED BY <1>1, <1>2 DEF Init, NamesInv

LEMMA NamesStep == NamesInv /\ [Next]_vars => NamesInv'
  <1> SUFFICES ASSUME NamesInv, [Next]_vars PROVE NamesInv'
    OBVIOUS
  <1> USE DEF NamesInv
  <1>1. CASE UNCHANGED <<written, writing, files>>
    BY <1>1
  <1>2. ASSUME NEW j \in Jobs, Start(j) PROVE NamesInv'
    BY <1>1, <1>2 DEF Start
  <1>3. ASSUME NEW j \in Jobs, Save(j) PROVE NamesInv'
    <2> DEFINE f == FileName(j, written[j])
    <2>1. /\ writing' \in [Jobs -> BOOLEAN] /\ written' = written
          /\ \A k \in Jobs : writing'[k] => writing[k] \/ k = j
      BY <1>3 DEF Save
    <2>2. PICK open \in BOOLEAN :
            files' = [g \in DOMAIN files \cup {f} |->
                        IF g = f THEN [sweep |-> j, whole |-> FALSE, shared |-> open] ELSE files[g]]
      <3> DEFINE o == \E i \in Jobs : i # j /\ writing[i] /\ FileName(i, written[i]) = f
      <3>1. files' = [g \in DOMAIN files \cup {f} |->
                        IF g = f THEN [sweep |-> j, whole |-> FALSE, shared |-> o] ELSE files[g]]
        BY <1>3 DEF Save
      <3>2. o \in BOOLEAN
        OBVIOUS
      <3> HIDE DEF o
      <3> QED BY <3>1, <3>2
    <2>3. DOMAIN files' = DOMAIN files \cup {f}
      BY <2>2
    <2>4. /\ files'[f].sweep = j
          /\ \A g \in DOMAIN files : g # f => files'[g] = files[g]
      BY <2>2
    <2>5. files' \in [DOMAIN files' -> File]
      BY <2>2, <2>3 DEF File
    <2>6. \A g \in DOMAIN files' : \E n \in 0 .. written'[files'[g].sweep] : g = FileName(files'[g].sweep, n)
      <3>1. SUFFICES ASSUME NEW g \in DOMAIN files'
                     PROVE  \E n \in 0 .. written[files'[g].sweep] : g = FileName(files'[g].sweep, n)
        BY <2>1
      <3>2. CASE g = f
        <4>1. written[j] \in 0 .. written[j]
          OBVIOUS
        <4> QED BY <3>2, <4>1, <2>4
      <3>3. CASE g # f
        BY <3>3, <2>3, <2>4
      <3> QED BY <3>2, <3>3
    <2>7. \A k \in Jobs : \A n \in 0 .. written'[k] - 1 : FileName(k, n) \in DOMAIN files'
      BY <2>1, <2>3
    <2>8. \A k \in Jobs : writing'[k] => FileName(k, written'[k]) \in DOMAIN files'
      BY <2>1, <2>3
    <2> QED BY <2>1, <2>5, <2>6, <2>7, <2>8
  <1>4. ASSUME NEW j \in Jobs, Saved(j) PROVE NamesInv'
    <2> DEFINE f == FileName(j, written[j])
    <2>1. /\ writing' \in [Jobs -> BOOLEAN] /\ written' = [written EXCEPT ![j] = @ + 1]
          /\ \A k \in Jobs : writing'[k] => writing[k] /\ k # j
          /\ writing[j]
      BY <1>4 DEF Saved
    <2>2. PICK ok \in BOOLEAN : files' = [files EXCEPT ![f].whole = ok]
      BY <1>4 DEF Saved
    <2>3. f \in DOMAIN files
      BY <2>1
    <2>4. files' \in [DOMAIN files -> File] /\ DOMAIN files' = DOMAIN files
      BY <2>2, <2>3 DEF File
    <2>5. \A g \in DOMAIN files : files'[g].sweep = files[g].sweep /\ files[g].sweep \in Jobs
      BY <2>2, <2>3 DEF File
    <2>6. /\ written' \in [Jobs -> Nat] /\ written'[j] = written[j] + 1
          /\ \A k \in Jobs : k # j => written'[k] = written[k]
      BY <2>1
    <2>7. \A g \in DOMAIN files' : \E n \in 0 .. written'[files'[g].sweep] : g = FileName(files'[g].sweep, n)
      <3>1. SUFFICES ASSUME NEW g \in DOMAIN files
                     PROVE  \E n \in 0 .. written'[files[g].sweep] : g = FileName(files[g].sweep, n)
        BY <2>4, <2>5
      <3>2. PICK n \in 0 .. written[files[g].sweep] : g = FileName(files[g].sweep, n)
        OBVIOUS
      <3>3. n \in 0 .. written'[files[g].sweep]
        BY <2>5, <2>6
      <3> QED BY <3>2, <3>3
    <2>8. \A k \in Jobs : \A n \in 0 .. written'[k] - 1 : FileName(k, n) \in DOMAIN files'
      <3>1. SUFFICES ASSUME NEW k \in Jobs, NEW n \in 0 .. written'[k] - 1
                     PROVE  FileName(k, n) \in DOMAIN files
        BY <2>4
      <3>2. CASE k = j /\ n = written[j]
        BY <3>2, <2>3
      <3>3. CASE ~(k = j /\ n = written[j])
        <4>1. written[k] \in Nat
          OBVIOUS
        <4>2. CASE k = j
          <5>1. written'[k] = written[k] + 1 /\ n # written[k]
            BY <3>3, <4>2, <2>6
          <5>2. n \in 0 .. written[k] - 1
            <6> HIDE DEF NamesInv
            <6> QED BY <4>1, <5>1
          <5> QED BY <5>2
        <4>3. CASE k # j
          BY <4>3, <2>6
        <4> QED BY <4>2, <4>3
      <3> QED BY <3>2, <3>3
    <2>9. \A k \in Jobs : writing'[k] => FileName(k, written'[k]) \in DOMAIN files'
      BY <2>1, <2>4, <2>6
    <2> QED BY <2>1, <2>4, <2>6, <2>7, <2>8, <2>9
  <1>5. ASSUME NEW j \in Jobs, End(j) PROVE NamesInv'
    BY <1>5 DEF End
  <1>6. CASE LoopEnds
    BY <1>1, <1>6 DEF LoopEnds
  <1>7. CASE Wait
    BY <1>1, <1>7 DEF Wait
  <1>8. CASE UNCHANGED vars
    BY <1>1, <1>8 DEF vars
  <1> QED BY <1>2, <1>3, <1>4, <1>5, <1>6, <1>7, <1>8 DEF Next

LEMMA NamesAreSiblings == NamesInv => LostOnlyToSibling
  <1> SUFFICES ASSUME NamesInv, NEW j \in Jobs, NEW n \in 0 .. written[j] - 1
               PROVE  /\ FileName(j, n) \in DOMAIN files
                      /\ LET i == files[FileName(j, n)].sweep
                         IN i # j => i[1] = j[1] /\ i[2] = j[2] /\ IqSizes(i) # IqSizes(j) /\ written[i] >= n
    BY DEF LostOnlyToSibling
  <1> DEFINE i == files[FileName(j, n)].sweep
  <1>1. FileName(j, n) \in DOMAIN files
    BY DEF NamesInv
  <1>2. i \in Jobs /\ i \in AllJobs /\ j \in AllJobs
    BY <1>1, ClusterAssumption DEF NamesInv, File
  <1>3. PICK k \in 0 .. written[i] : FileName(j, n) = FileName(i, k)
    BY <1>1 DEF NamesInv
  <1>4. Vlens[i[1] + 1] = Vlens[j[1] + 1] /\ Vcnts[i[2] + 1] = Vcnts[j[2] + 1] /\ k = n
    BY <1>3 DEF FileName
  <1> HIDE DEF i
  <1>5. i[1] = j[1] /\ i[2] = j[2]
    BY <1>2, <1>4, JobsBounded, VlensDiffer, VcntsDiffer
  <1>6. written[i] >= n
    BY <1>2, <1>3, <1>4 DEF NamesInv
  <1>7. i # j => IqSizes(i) # IqSizes(j)
    <2>1. SUFFICES ASSUME i # j PROVE IqSizes(i) # IqSizes(j)
      OBVIOUS
    <2>2. i[3] # j[3]
      BY <1>2, <1>5, <2>1, JobsBounded
    <2> QED BY <1>2, <2>2, IqSizesApart
  <1> QED BY <1>1, <1>5, <1>6, <1>7 DEF i

(* Of what a sweep has written, a sweep with other vector lengths or other *)
(* numbers of SIMD units overwrites nothing: only its siblings in the      *)
(* innermost loop can.                                                     *)
THEOREM RowsLostOnlyToSiblings == Spec => []LostOnlyToSibling
  BY NamesInit, NamesStep, NamesAreSiblings, PTL DEF Spec

-----------------------------------------------------------------------------
(* What the job leaves in the directory.                                   *)
States == {"unstarted", "running", "done", "failed"}

(* Another sweep takes a file over only as a shared one, and a file that   *)
(* cannot be read is being written, is shared, or is what a failed sweep   *)
(* has left.                                                               *)
JobInv ==
  /\ script = "done" => \A j \in Jobs : state[j] \in {"done", "failed"}
  /\ state \in [Jobs -> States]
  /\ IsFiniteSet(DOMAIN files)
  /\ \A j \in Jobs : writing[j] =>
       /\ state[j] = "running"
       /\ files[FileName(j, written[j])].sweep = j \/ files[FileName(j, written[j])].shared
  /\ \A g \in DOMAIN files :
       \/ files[g].whole \/ files[g].shared \/ state[files[g].sweep] = "failed"
       \/ writing[files[g].sweep] /\ g = FileName(files[g].sweep, written[files[g].sweep])

Names == {FileName(j, n) : j \in Jobs, n \in Nat}
Read  == [name : Names, sweep : Jobs, raised : BOOLEAN]

(* The name tells the vector length of the rows. *)
NamedByVlen(r) == r.name[1] = Vlens[r.sweep[1] + 1]

Pending == todo \cup {r.name : r \in reading}

(* Files that are found, taken and read. *)
Listed ==
  /\ todo \subseteq statfile_list /\ statfile_list \subseteq DOMAIN files
  /\ IsFiniteSet(reading) /\ Cardinality(reading) <= Cores
  /\ reading \subseteq Read
  /\ \A r \in reading : r.name \in statfile_list \ todo /\ NamedByVlen(r)
  /\ \A r, q \in reading : r.name = q.name => r = q

(* Frames that have come in; none waits behind a frame without rows. *)
Batches ==
  /\ stat_df \in Seq(Read) /\ df_list \in Seq(Read)
  /\ Len(df_list) <= DfMergeCount
  /\ IsEmpty(stat_df) => df_list = <<>>
  /\ phase = "idle" => Frames = <<>> /\ statfile_list = {} /\ reading = {}

Kept ==
  /\ \A i \in DOMAIN Frames : Frames[i].name \in statfile_list \ Pending /\ NamedByVlen(Frames[i])
  /\ \A i, k \in DOMAIN Frames : Frames[i].name = Frames[k].name => i = k
  /\ phase # "failed" =>
       \A f \in statfile_list \ Pending : f[1] \in select => \E i \in DOMAIN Frames : Frames[i].name = f

(* After the job, nothing changes any more what is read. *)
AfterTheJob ==
  /\ phase = "idle" => began = "none"
  /\ began = "done" =>
       /\ script = "done"
       /\ \A r \in reading : r.sweep = files[r.name].sweep /\ r.raised = ~files[r.name].whole
       /\ \A i \in DOMAIN Frames : Frames[i].sweep = files[Frames[i].name].sweep
       /\ phase = "failed" => statfile_list = {} \/ \E f \in statfile_list : ~files[f].whole

ExtractInv == NamesInv /\ JobInv /\ Listed /\ Batches /\ Kept /\ AfterTheJob

LEMMA JobInit == Init => JobInv
  <1>1. SUFFICES ASSUME Init PROVE JobInv
    OBVIOUS
  <1>2. DOMAIN files = {} /\ IsFiniteSet(DOMAIN files)
    BY <1>1, FS_EmptySet DEF Init
  <1> QED BY <1>1, <1>2 DEF Init, JobInv, States

(* What a step of the job does to one file: nothing, or it is opened, or   *)
(* it is finished.                                                         *)
Opened(j) ==
  LET f == FileName(j, written[j])
  IN /\ DOMAIN files' = DOMAIN files \cup {f}
     /\ files'[f].sweep = j /\ ~files'[f].whole
     /\ (\E i \in Jobs : i # j /\ writing[i] /\ FileName(i, written[i]) = f) => files'[f].shared
     /\ \A g \in DOMAIN files : g # f => files'[g] = files[g]

Finished(j) ==
  LET f == FileName(j, written[j])
  IN /\ f \in DOMAIN files /\ DOMAIN files' = DOMAIN files
     /\ \A g \in DOMAIN files : files'[g].sweep = files[g].sweep /\ files'[g].shared = files[g].shared
     /\ files[f].shared \/ files[f].sweep # j \/ files'[f].whole
     /\ \A g \in DOMAIN files : g # f => files'[g] = files[g]

LEMMA SaveOpens ==
  ASSUME NEW j \in Jobs, Save(j), NamesInv
  PROVE  Opened(j)
  <1> DEFINE f == FileName(j, written[j])
             o == \E i \in Jobs : i # j /\ writing[i] /\ FileName(i, written[i]) = f
  <1>1. files' = [g \in DOMAIN files \cup {f} |-> IF g = f THEN [sweep |-> j, whole |-> FALSE, shared |-> o] ELSE files[g]]
    BY DEF Save
  <1>2. files'[f].shared = o
    BY <1>1
  <1>3. /\ DOMAIN files' = DOMAIN files \cup {f}
        /\ files'[f].sweep = j /\ ~files'[f].whole
        /\ \A g \in DOMAIN files : g # f => files'[g] = files[g]
    <2> HIDE DEF o
    <2> QED BY <1>1
  <1>4. o => files'[f].shared
    BY <1>2
  <1> QED BY <1>3, <1>4 DEF Opened

LEMMA SavedFinishes ==
  ASSUME NEW j \in Jobs, Saved(j), NamesInv
  PROVE  Finished(j)
  <1> DEFINE f == FileName(j, written[j])
  <1>1. PICK ok \in BOOLEAN :
          files' = [files EXCEPT ![f].whole = ok] /\ (files[f].shared \/ files[f].sweep # j \/ ok)
    <2>1. CASE files[f].shared \/ files[f].sweep # j
      BY <2>1 DEF Saved
    <2>2. CASE ~(files[f].shared \/ files[f].sweep # j)
      BY <2>2 DEF Saved
    <2> QED BY <2>1, <2>2
  <1>2. f \in DOMAIN files /\ files \in [DOMAIN files -> File]
    BY DEF Saved, NamesInv
  <1>3. /\ DOMAIN files' = DOMAIN files
        /\ \A g \in DOMAIN files : g # f => files'[g] = files[g]
        /\ files'[f] = [files[f] EXCEPT !.whole = ok]
    BY <1>1, <1>2
  <1>4. /\ files'[f].sweep = files[f].sweep /\ files'[f].shared = files[f].shared
        /\ files'[f].whole = ok
    BY <1>2, <1>3 DEF File
  <1> QED BY <1>1, <1>2, <1>3, <1>4 DEF Finished

LEMMA JobStep == NamesInv /\ JobInv /\ [Next]_vars => JobInv'
  <1> SUFFICES ASSUME NamesInv, JobInv, [Next]_vars PROVE JobInv'
    OBVIOUS
  <1>1. /\ written \in [Jobs -> Nat] /\ writing \in [Jobs -> BOOLEAN]
        /\ files \in [DOMAIN files -> File]
        /\ \A g \in DOMAIN files : files[g].sweep \in Jobs
    BY DEF NamesInv, File
  <1>2. ASSUME NEW j \in Jobs, Start(j) PROVE JobInv'
    BY <1>1, <1>2 DEF Start, JobInv, States
  <1>3. ASSUME NEW j \in Jobs, Save(j) PROVE JobInv'
    <2> DEFINE f == FileName(j, written[j])
    <2>1. Opened(j)
      BY <1>3, SaveOpens
    <2>2. /\ UNCHANGED <<script, state, written>> /\ state[j] = "running" /\ ~writing[j]
          /\ writing' = [writing EXCEPT ![j] = TRUE]
      BY <1>3 DEF Save
    <2>3. writing'[j] /\ \A k \in Jobs : k # j => writing'[k] = writing[k]
      BY <1>1, <2>2
    <2>4. IsFiniteSet(DOMAIN files')
      BY <2>1, FS_AddElement DEF Opened, JobInv
    <2>5. \A k \in Jobs : writing'[k] =>
            /\ state[k] = "running"
            /\ files'[FileName(k, written[k])].sweep = k \/ files'[FileName(k, written[k])].shared
      <3>1. SUFFICES ASSUME NEW k \in Jobs, writing'[k]
                     PROVE  /\ state[k] = "running"
                            /\ files'[FileName(k, written[k])].sweep = k \/ files'[FileName(k, written[k])].shared
        OBVIOUS
      <3>2. CASE k = j
        BY <3>2, <2>1, <2>2 DEF Opened
      <3>3. CASE k # j /\ FileName(k, written[k]) = f
        BY <3>1, <3>3, <2>1, <2>3 DEF Opened, JobInv
      <3>4. CASE k # j /\ FileName(k, written[k]) # f
        <4>1. FileName(k, written[k]) \in DOMAIN files
          BY <3>1, <3>4, <2>3 DEF NamesInv
        <4> QED BY <4>1, <3>1, <3>4, <2>1, <2>3 DEF Opened, JobInv
      <3> QED BY <3>2, <3>3, <3>4
    <2>6. \A g \in DOMAIN files' :
            \/ files'[g].whole \/ files'[g].shared \/ state[files'[g].sweep] = "failed"
            \/ writing'[files'[g].sweep] /\ g = FileName(files'[g].sweep, written[files'[g].sweep])
      <3>1. SUFFICES ASSUME NEW g \in DOMAIN files'
                     PROVE  \/ files'[g].whole \/ files'[g].shared \/ state[files'[g].sweep] = "failed"
                            \/ writing'[files'[g].sweep] /\ g = FileName(files'[g].sweep, written[files'[g].sweep])
        OBVIOUS
      <3>2. CASE g = f
        BY <3>2, <2>1, <2>3 DEF Opened
      <3>3. CASE g # f
        <4>1. g \in DOMAIN files /\ files'[g] = files[g]
          BY <3>1, <3>3, <2>1 DEF Opened
        <4> QED BY <4>1, <2>2, <2>3, <1>1 DEF JobInv
      <3> QED BY <3>2, <3>3
    <2> QED BY <2>2, <2>4, <2>5, <2>6 DEF JobInv
  <1>4. ASSUME NEW j \in Jobs, Saved(j) PROVE JobInv'
    <2> DEFINE f == FileName(j, written[j])
    <2>1. Finished(j)
      BY <1>4, SavedFinishes
    <2>2. /\ UNCHANGED <<script, state>> /\ state[j] = "running" /\ writing[j]
          /\ writing' = [writing EXCEPT ![j] = FALSE] /\ written' = [written EXCEPT ![j] = @ + 1]
      BY <1>4 DEF Saved
    <2>3. ~writing'[j] /\ \A k \in Jobs : k # j => writing'[k] = writing[k] /\ written'[k] = written[k]
      BY <1>1, <2>2
    <2>4. IsFiniteSet(DOMAIN files')
      BY <2>1 DEF Finished, JobInv
    <2>5. \A k \in Jobs : writing'[k] =>
            /\ state[k] = "running"
            /\ files'[FileName(k, written'[k])].sweep = k \/ files'[FileName(k, written'[k])].shared
      <3>1. SUFFICES ASSUME NEW k \in Jobs, k # j, writing[k]
                     PROVE  /\ state[k] = "running"
                            /\ files'[FileName(k, written[k])].sweep = k \/ files'[FileName(k, written[k])].shared
        BY <2>3
      <3>2. FileName(k, written[k]) \in DOMAIN files
        BY <3>1 DEF NamesInv
      <3> QED BY <3>1, <3>2, <2>1 DEF Finished, JobInv
    <2>6. \A g \in DOMAIN files' :
            \/ files'[g].whole \/ files'[g].shared \/ state[files'[g].sweep] = "failed"
            \/ writing'[files'[g].sweep] /\ g = FileName(files'[g].sweep, written'[files'[g].sweep])
      <3>1. SUFFICES ASSUME NEW g \in DOMAIN files
                     PROVE  \/ files'[g].whole \/ files'[g].shared \/ state[files'[g].sweep] = "failed"
                            \/ writing'[files'[g].sweep] /\ g = FileName(files'[g].sweep, written'[files'[g].sweep])
        BY <2>1 DEF Finished
      <3>2. /\ files'[g].sweep = files[g].sweep /\ files'[g].shared = files[g].shared
            /\ files[g].sweep \in Jobs
        BY <1>1, <2>1 DEF Finished
      <3>3. CASE g = f
        <4>1. CASE files[f].sweep = j
          BY <3>2, <3>3, <4>1, <2>1 DEF Finished
        <4>2. CASE files[f].sweep # j
          BY <3>2, <3>3, <4>2, <2>2 DEF JobInv
        <4> QED BY <4>1, <4>2
      <3>4. CASE g # f
        <4>1. files'[g] = files[g]
          BY <3>4, <2>1 DEF Finished
        <4>2. CASE files[g].sweep = j
          BY <3>2, <3>4, <4>1, <4>2 DEF JobInv
        <4>3. CASE files[g].sweep # j
          BY <3>2, <4>1, <4>3, <2>3 DEF JobInv
        <4> QED BY <4>2, <4>3
      <3> QED BY <3>3, <3>4
    <2> QED BY <2>2, <2>4, <2>5, <2>6 DEF JobInv
  <1>5. ASSUME NEW j \in Jobs, End(j) PROVE JobInv'
    <2>1. PICK s \in {"done", "failed"} :
            state' = [state EXCEPT ![j] = s] /\ (writing[j] => s = "failed")
      <3>1. CASE writing[j]
        BY <1>5, <3>1 DEF End
      <3>2. CASE ~writing[j]
        BY <1>5, <3>2 DEF End
      <3> QED BY <3>1, <3>2
    <2>2. /\ UNCHANGED <<script, written, files>> /\ state[j] = "running"
          /\ writing' = [writing EXCEPT ![j] = FALSE]
      BY <1>5 DEF End
    <2>3. ~writing'[j] /\ \A k \in Jobs : k # j => writing'[k] = writing[k]
      BY <1>1, <2>2
    <2>4. /\ state' \in [Jobs -> States] /\ state'[j] = s
          /\ \A k \in Jobs : k # j => state'[k] = state[k]
      BY <2>1 DEF JobInv, States
    <2>5. \A k \in Jobs : writing'[k] =>
            /\ state'[k] = "running"
            /\ files[FileName(k, written[k])].sweep = k \/ files[FileName(k, written[k])].shared
      BY <2>3, <2>4 DEF JobInv
    <2>6. \A g \in DOMAIN files :
            \/ files[g].whole \/ files[g].shared \/ state'[files[g].sweep] = "failed"
            \/ writing'[files[g].sweep] /\ g = FileName(files[g].sweep, written[files[g].sweep])
      <3>1. SUFFICES ASSUME NEW g \in DOMAIN files, ~files[g].whole, ~files[g].shared
                     PROVE  \/ state'[files[g].sweep] = "failed"
                            \/ writing'[files[g].sweep] /\ g = FileName(files[g].sweep, written[files[g].sweep])
        OBVIOUS
      <3>2. files[g].sweep \in Jobs
        BY <1>1
      <3>3. CASE files[g].sweep = j
        BY <3>1, <3>3, <2>1, <2>2, <2>4 DEF JobInv
      <3>4. CASE files[g].sweep # j
        BY <3>1, <3>2, <3>4, <2>3, <2>4 DEF JobInv
      <3> QED BY <3>3, <3>4
    <2>7. script # "done"
      BY <2>2 DEF JobInv
    <2> QED BY <2>2, <2>4, <2>5, <2>6, <2>7 DEF JobInv
  <1>6. CASE LoopEnds
    BY <1>6 DEF LoopEnds, JobInv
  <1>7. CASE Wait
    BY <1>7 DEF Wait, JobInv
  <1>8. CASE UNCHANGED vars
    BY <1>8 DEF vars, JobInv
  <1> QED BY <1>2, <1>3, <1>4, <1>5, <1>6, <1>7, <1>8 DEF Next

(* Files are never removed, and when the job is over nothing moves. *)
LEMMA FilesStay ==
  ASSUME NamesInv, JobInv, [Next]_vars
  PROVE  /\ DOMAIN files \subseteq DOMAIN files'
         /\ script = "done" => UNCHANGED vars
  <1>1. ASSUME NEW j \in Jobs, Start(j) \/ Save(j) \/ Saved(j) \/ End(j)
        PROVE  DOMAIN files \subseteq DOMAIN files' /\ script # "done"
    <2>1. script # "done"
      BY <1>1 DEF Start, Save, Saved, End, JobInv
    <2>2. DOMAIN files \subseteq DOMAIN files'
      BY <1>1, SaveOpens, SavedFinishes DEF Start, End, Opened, Finished
    <2> QED BY <2>1, <2>2
  <1>2. CASE LoopEnds \/ Wait
    BY <1>2 DEF LoopEnds, Wait
  <1>3. CASE UNCHANGED vars
    BY <1>3 DEF vars
  <1> QED BY <1>1, <1>2, <1>3 DEF Next

(* What is in the directory when the job is over and cannot be read. *)
LEMMA WhyBroken ==
  ASSUME NamesInv, JobInv, script = "done", NEW f \in DOMAIN files, ~files[f].whole
  PROVE  files[f].shared \/ \E j \in Jobs : state[j] = "failed"
  <1>1. files[f].sweep \in Jobs
    BY DEF NamesInv, File
  <1> QED BY <1>1 DEF JobInv

(* Whatever sweep has written a file, it is one of its vector length. *)
LEMMA NamesOfFiles ==
  ASSUME NamesInv, NEW f \in DOMAIN files
  PROVE  f \in Names /\ files[f].sweep \in Jobs /\ f[1] = Vlens[files[f].sweep[1] + 1]
  <1>1. files[f].sweep \in Jobs /\ written[files[f].sweep] \in Nat
    BY DEF NamesInv, File
  <1>2. PICK n \in 0 .. written[files[f].sweep] : f = FileName(files[f].sweep, n)
    BY DEF NamesInv
  <1>3. n \in Nat
    BY <1>1
  <1> QED BY <1>1, <1>2, <1>3 DEF Names, FileName

-----------------------------------------------------------------------------
LEMMA ExtractInit == Init /\ ExInit => ExtractInv
  <1> SUFFICES ASSUME Init, ExInit PROVE ExtractInv
    OBVIOUS
  <1>1. /\ phase = "idle" /\ began = "none" /\ statfile_list = {} /\ todo = {} /\ reading = {}
        /\ stat_df = <<>> /\ df_list = <<>>
    BY DEF ExInit
  <1>2. Frames = <<>> /\ DOMAIN Frames = {}
    BY <1>1 DEF Frames
  <1>3. Cardinality(reading) = 0 /\ IsFiniteSet(reading)
    BY <1>1, FS_EmptySet
  <1>4. Listed
    BY <1>1, <1>3, ExtractionAssumption DEF Listed
  <1>5. Batches
    BY <1>1, <1>2, ExtractionAssumption DEF Batches
  <1>6. Kept
    BY <1>1, <1>2 DEF Kept
  <1>7. AfterTheJob
    BY <1>1 DEF AfterTheJob
  <1> QED BY <1>4, <1>5, <1>6, <1>7, NamesInit, JobInit DEF ExtractInv

(* The job goes on while the extraction stands still. *)
LEMMA ExtractJobStep ==
  ASSUME ExtractInv, [Next]_vars, UNCHANGED exVars
  PROVE  ExtractInv'
  <1>1. NamesInv' /\ JobInv'
    BY NamesStep, JobStep DEF ExtractInv
  <1>2. /\ DOMAIN files \subseteq DOMAIN files'
        /\ script = "done" => UNCHANGED vars
    BY FilesStay DEF ExtractInv
  <1> USE DEF exVars
  <1>3. Listed'
    BY <1>2 DEF ExtractInv, Listed, NamedByVlen
  <1>4. Batches'
    BY DEF ExtractInv, Batches, Frames, IsEmpty, HasRows
  <1>5. Kept'
    BY DEF ExtractInv, Kept, Frames, Pending, NamedByVlen
  <1>6. AfterTheJob'
    <2>1. CASE began = "done"
      BY <1>2, <2>1 DEF ExtractInv, AfterTheJob, Frames, vars
    <2>2. CASE began # "done"
      BY <2>2 DEF ExtractInv, AfterTheJob
    <2> QED BY <2>1, <2>2
  <1> QED BY <1>1, <1>3, <1>4, <1>5, <1>6 DEF ExtractInv

LEMMA ListKeeps ==
  ASSUME ExtractInv, NEW vlens, ListFiles(vlens), UNCHANGED vars
  PROVE  ExtractInv'
  <1>1. /\ phase = "idle" /\ reading = {} /\ reading' = {} /\ Frames = <<>>
        /\ UNCHANGED <<stat_df, df_list>>
    BY DEF ListFiles, ExtractInv, Batches
  <1>2. /\ statfile_list' = DOMAIN files /\ todo' = DOMAIN files /\ began' = script
        /\ phase' \in {"failed", "pool"} /\ (phase' = "failed" => files = <<>>)
    BY DEF ListFiles
  <1>3. /\ stat_df \in Seq(Read) /\ df_list \in Seq(Read)
        /\ Frames' = Frames /\ DOMAIN Frames = {}
    BY <1>1 DEF Frames, ExtractInv, Batches
  <1>4. stat_df = <<>> /\ df_list = <<>>
    BY <1>1, <1>3 DEF Frames
  <1>5. NamesInv' /\ JobInv'
    BY NamesStep, JobStep DEF ExtractInv
  <1>6. Listed'
    BY <1>1, <1>2 DEF ExtractInv, Listed, vars
  <1>7. Batches'
    BY <1>1, <1>2, <1>4 DEF ExtractInv, Batches
  <1>8. Kept'
    BY <1>2, <1>3 DEF Kept, Pending
  <1>9. AfterTheJob'
    <2>1. phase' = "failed" => DOMAIN files = {}
      BY <1>2
    <2> QED BY <1>1, <1>2, <1>3, <2>1 DEF AfterTheJob, vars
  <1> QED BY <1>5, <1>6, <1>7, <1>8, <1>9 DEF ExtractInv

LEMMA FewerReadersThanCores ==
  ASSUME IsFiniteSet(DOMAIN files), statfile_list \subseteq DOMAIN files
  PROVE  MaxWorkers \in Nat /\ MaxWorkers <= Cores
  <1>1. Cardinality(statfile_list) \in Nat
    BY FS_Subset, FS_CardinalityType
  <1> QED BY <1>1, ExtractionAssumption DEF MaxWorkers

LEMMA TakeKeeps ==
  ASSUME ExtractInv, NEW f \in todo, ExtractTarget(f), UNCHANGED vars
  PROVE  ExtractInv'
  <1> DEFINE r == [name |-> f, sweep |-> files[f].sweep, raised |-> ~files[f].whole]
  <1>1. /\ phase = "pool" /\ todo' = todo \ {f} /\ reading' = reading \cup {r}
        /\ Cardinality(reading) < MaxWorkers
        /\ UNCHANGED <<phase, began, select, statfile_list, stat_df, df_list>>
    BY DEF ExtractTarget
  <1>2. f \in statfile_list /\ f \in DOMAIN files
    BY DEF ExtractInv, Listed
  <1>3. r \in Read /\ NamedByVlen(r)
    <2>1. f \in Names /\ files[f].sweep \in Jobs /\ f[1] = Vlens[files[f].sweep[1] + 1]
      BY <1>2, NamesOfFiles DEF ExtractInv
    <2>2. (~files[f].whole) \in BOOLEAN
      OBVIOUS
    <2>3. r \in Read
      BY <2>1, <2>2 DEF Read
    <2> QED BY <2>1, <2>3 DEF NamedByVlen
  <1>4. NamesInv' /\ JobInv'
    BY NamesStep, JobStep DEF ExtractInv
  <1>5. IsFiniteSet(reading') /\ Cardinality(reading') <= Cores
    <2>1. IsFiniteSet(reading) /\ Cardinality(reading) \in Nat
      BY FS_CardinalityType DEF ExtractInv, Listed
    <2>2. MaxWorkers \in Nat /\ MaxWorkers <= Cores
      BY FewerReadersThanCores DEF ExtractInv, JobInv, Listed
    <2>3. IsFiniteSet(reading') /\ Cardinality(reading') <= Cardinality(reading) + 1
      <3>1. /\ IsFiniteSet(reading \cup {r})
            /\ Cardinality(reading \cup {r}) = IF r \in reading THEN Cardinality(reading) ELSE Cardinality(reading) + 1
        BY <2>1, FS_AddElement
      <3> HIDE DEF r
      <3> QED BY <1>1, <2>1, <3>1
    <2>4. Cores \in Nat
      BY ExtractionAssumption
    <2>5. Cardinality(reading') \in Nat
      BY <2>3, FS_CardinalityType
    <2>6. Cardinality(reading) + 1 <= Cores
      BY <1>1, <2>1, <2>2, <2>4
    <2> HIDE DEF r
    <2> QED BY <2>1, <2>3, <2>4, <2>5, <2>6
  <1>6. r.name = f
    OBVIOUS
  <1>7. Pending' = Pending
    BY <1>1, <1>6 DEF Pending
  <1>8. r.sweep = files[f].sweep /\ r.raised = ~files[f].whole
    OBVIOUS
  <1> HIDE DEF r
  <1>9. Listed'
    <2>1. reading' \subseteq Read
      BY <1>1, <1>3 DEF ExtractInv, Listed
    <2>2. \A q \in reading' : q.name \in statfile_list' \ todo' /\ NamedByVlen(q)
      BY <1>1, <1>2, <1>3, <1>6 DEF ExtractInv, Listed
    <2>3. \A p, q \in reading' : p.name = q.name => p = q
      BY <1>1, <1>6 DEF ExtractInv, Listed
    <2> QED BY <1>1, <1>5, <2>1, <2>2, <2>3 DEF ExtractInv, Listed, NamedByVlen, vars
  <1>10. Batches'
    BY <1>1 DEF ExtractInv, Batches, Frames, IsEmpty, HasRows
  <1>11. Kept'
    BY <1>1, <1>7 DEF ExtractInv, Kept, Frames, NamedByVlen
  <1>12. AfterTheJob'
    BY <1>1, <1>6, <1>8 DEF ExtractInv, AfterTheJob, Frames, vars
  <1> QED BY <1>4, <1>9, <1>10, <1>11, <1>12 DEF ExtractInv

(* A frame that comes in takes the place of a first one without rows, or   *)
(* comes behind all others; batches are merged or not.                     *)
LEMMA CameIn ==
  ASSUME Batches, NEW r \in reading, r \in Read, ~r.raised, Result(r)
  PROVE  /\ stat_df' \in Seq(Read) /\ df_list' \in Seq(Read) /\ Len(df_list') <= DfMergeCount
         /\ \/ IsEmpty(stat_df) /\ Frames = stat_df /\ stat_df' = <<r>> /\ df_list' = <<>> /\ Frames' = <<r>>
            \/ /\ ~IsEmpty(stat_df)
               /\ \A i \in DOMAIN stat_df : i \in DOMAIN stat_df' /\ stat_df'[i] = stat_df[i]
               /\ Frames' = Append(Frames, r)
  <1>1. /\ stat_df \in Seq(Read) /\ df_list \in Seq(Read) /\ Len(df_list) <= DfMergeCount
        /\ IsEmpty(stat_df) => df_list = <<>>
        /\ DfMergeCount \in Nat
    BY ExtractionAssumption DEF Batches
  <1>2. CASE IsEmpty(stat_df)
    <2>1. df_list = <<>> /\ Len(df_list) = 0
      BY <1>1, <1>2
    <2>2. stat_df' = <<r>> /\ df_list' = <<>>
      BY <1>1, <1>2, <2>1 DEF Result
    <2>3. <<r>> \in Seq(Read) /\ <<r>> \o <<>> = <<r>> /\ stat_df \o <<>> = stat_df
      BY <1>1
    <2> QED BY <1>1, <1>2, <2>1, <2>2, <2>3 DEF Frames
  <1>3. CASE ~IsEmpty(stat_df)
    <2> DEFINE list == Append(df_list, r)
    <2>1. list \in Seq(Read) /\ Len(list) = Len(df_list) + 1 /\ Len(list) \in Nat
      BY <1>1
    <2>2. stat_df \o list = Append(stat_df \o df_list, r)
      BY <1>1
    <2>3. IF Len(list) > DfMergeCount
          THEN stat_df' = stat_df \o list /\ df_list' = <<>>
          ELSE stat_df' = stat_df /\ df_list' = list
      BY <1>3 DEF Result, Merged
    <2> HIDE DEF list
    <2>4. CASE Len(list) > DfMergeCount
      <3>1. stat_df' = stat_df \o list /\ df_list' = <<>>
        BY <2>3, <2>4
      <3>2. /\ stat_df \o list \in Seq(Read) /\ (stat_df \o list) \o <<>> = stat_df \o list
            /\ \A i \in DOMAIN stat_df : i \in DOMAIN (stat_df \o list) /\ (stat_df \o list)[i] = stat_df[i]
        BY <1>1, <2>1
      <3> QED BY <1>1, <1>3, <2>2, <3>1, <3>2 DEF Frames
    <2>5. CASE ~(Len(list) > DfMergeCount)
      <3>1. stat_df' = stat_df /\ df_list' = list
        BY <2>3, <2>5
      <3>2. Len(list) <= DfMergeCount
        BY <1>1, <2>1, <2>5
      <3> QED BY <1>1, <1>3, <2>1, <2>2, <3>1, <3>2 DEF Frames
    <2> QED BY <2>4, <2>5
  <1> QED BY <1>2, <1>3

LEMMA ResultKeeps ==
  ASSUME ExtractInv, NEW r \in reading, Result(r), UNCHANGED vars
  PROVE  ExtractInv'
  <1>1. /\ phase = "pool" /\ reading' = reading \ {r}
        /\ UNCHANGED <<began, select, statfile_list, todo>>
    BY DEF Result
  <1>2. /\ r \in Read /\ r.name \in statfile_list \ todo /\ NamedByVlen(r)
        /\ \A q \in reading : q.name = r.name => q = r
        /\ r.raised \in BOOLEAN
    BY DEF ExtractInv, Listed, Read
  <1>3. NamesInv' /\ JobInv'
    BY NamesStep, JobStep DEF ExtractInv
  <1>4. Listed'
    <2>1. IsFiniteSet(reading) /\ IsFiniteSet(reading') /\ Cardinality(reading') <= Cardinality(reading)
      BY <1>1, FS_Subset DEF ExtractInv, Listed
    <2>2. Cardinality(reading) \in Nat /\ Cardinality(reading') \in Nat
      BY <2>1, FS_CardinalityType
    <2>3. Cardinality(reading') <= Cores
      BY <2>1, <2>2, ExtractionAssumption DEF ExtractInv, Listed
    <2> QED BY <1>1, <2>1, <2>3 DEF ExtractInv, Listed, NamedByVlen, vars
  <1>5. Pending' = Pending \ {r.name}
    BY <1>1, <1>2 DEF Pending
  <1>6. r.name \in Pending
    BY DEF Pending
  <1>7. CASE r.raised
    <2>1. phase' = "failed" /\ UNCHANGED <<stat_df, df_list>> /\ Frames' = Frames
      BY <1>7 DEF Result, Frames
    <2>2. Batches'
      BY <1>1, <2>1 DEF ExtractInv, Batches, IsEmpty, HasRows
    <2>3. Kept'
      BY <1>1, <1>5, <2>1 DEF ExtractInv, Kept, NamedByVlen
    <2>4. AfterTheJob'
      BY <1>1, <1>2, <1>7, <2>1 DEF ExtractInv, AfterTheJob, vars
    <2> QED BY <1>3, <1>4, <2>2, <2>3, <2>4 DEF ExtractInv
  <1>8. CASE ~r.raised
    <2> DEFINE Placed ==
          \/ IsEmpty(stat_df) /\ Frames = stat_df /\ stat_df' = <<r>> /\ df_list' = <<>> /\ Frames' = <<r>>
          \/ /\ ~IsEmpty(stat_df)
             /\ \A i \in DOMAIN stat_df : i \in DOMAIN stat_df' /\ stat_df'[i] = stat_df[i]
             /\ Frames' = Append(Frames, r)
    <2>1. /\ stat_df' \in Seq(Read) /\ df_list' \in Seq(Read) /\ Len(df_list') <= DfMergeCount
          /\ Placed
      BY <1>2, <1>8, CameIn DEF ExtractInv
    <2>2. phase' = phase
      BY <1>8 DEF Result
    <2>3. Frames \in Seq(Read)
      BY DEF ExtractInv, Batches, Frames
    <2>4. ASSUME NEW i \in DOMAIN Frames'
          PROVE  Frames'[i] = r \/ (i \in DOMAIN Frames /\ Frames'[i] = Frames[i])
      <3>1. CASE Frames' = <<r>>
        <4>1. DOMAIN Frames' = {1} /\ Frames'[1] = r
          BY <3>1
        <4> QED BY <4>1
      <3>2. CASE Frames' = Append(Frames, r)
        <4>1. Len(Frames) \in Nat /\ DOMAIN Frames = 1 .. Len(Frames)
          BY <2>3
        <4>2. /\ DOMAIN Frames' = 1 .. Len(Frames) + 1 /\ Frames'[Len(Frames) + 1] = r
              /\ \A k \in 1 .. Len(Frames) : Frames'[k] = Frames[k]
          BY <2>3, <3>2
        <4> QED BY <4>1, <4>2
      <3> QED BY <2>1, <3>1, <3>2
    <2>5. \/ Frames = stat_df /\ IsEmpty(stat_df)
          \/ \A i \in DOMAIN Frames : i \in DOMAIN Frames' /\ Frames'[i] = Frames[i]
      BY <2>1, <2>3, SMTT(30)
    <2>6. \E i \in DOMAIN Frames' : Frames'[i] = r
      <3>1. CASE Frames' = <<r>>
        BY <3>1
      <3>2. CASE Frames' = Append(Frames, r)
        <4>1. Len(Frames) + 1 \in DOMAIN Frames' /\ Frames'[Len(Frames) + 1] = r
          BY <2>3, <3>2
        <4> QED BY <4>1
      <3> QED BY <2>1, <3>1, <3>2
    <2>7. \A i, k \in DOMAIN Frames' : Frames'[i] = r /\ Frames'[k] = r => i = k
      <3>1. ASSUME NEW i \in DOMAIN Frames, Frames[i] = r
            PROVE  FALSE
        BY <1>6, <3>1 DEF ExtractInv, Kept
      <3>2. CASE Frames' = <<r>>
        BY <3>2
      <3>3. CASE Frames' = Append(Frames, r)
        BY <2>3, <3>1, <3>3
      <3> QED BY <2>1, <3>2, <3>3
    <2>8. Batches'
      <3>1. IsEmpty(stat_df)' => df_list' = <<>>
        <4>1. CASE IsEmpty(stat_df)
          BY <2>1, <4>1
        <4>2. CASE ~IsEmpty(stat_df)
          BY <1>1, <2>1, <4>2 DEF IsEmpty, HasRows
        <4> QED BY <4>1, <4>2
      <3> QED BY <1>1, <2>1, <2>2, <3>1 DEF Batches
    <2>9. Kept'
      <3>1. \A i \in DOMAIN Frames' : Frames'[i].name \in statfile_list \ Pending' /\ NamedByVlen(Frames'[i])
        BY <1>2, <1>5, <2>4 DEF ExtractInv, Kept, Pending
      <3>2. \A i, k \in DOMAIN Frames' : Frames'[i].name = Frames'[k].name => i = k
        <4>1. SUFFICES ASSUME NEW i \in DOMAIN Frames', NEW k \in DOMAIN Frames', Frames'[i].name = Frames'[k].name
                       PROVE  i = k
          OBVIOUS
        <4>2. CASE Frames'[i] = r /\ Frames'[k] = r
          BY <2>7, <4>2
        <4>3. CASE i \in DOMAIN Frames /\ Frames'[i] = Frames[i] /\ Frames'[k] = r
          BY <1>6, <4>1, <4>3 DEF ExtractInv, Kept
        <4>4. CASE k \in DOMAIN Frames /\ Frames'[k] = Frames[k] /\ Frames'[i] = r
          BY <1>6, <4>1, <4>4 DEF ExtractInv, Kept
        <4>5. CASE /\ i \in DOMAIN Frames /\ Frames'[i] = Frames[i]
                   /\ k \in DOMAIN Frames /\ Frames'[k] = Frames[k]
          BY <4>1, <4>5 DEF ExtractInv, Kept
        <4> QED BY <2>4, <4>2, <4>3, <4>4, <4>5
      <3>3. \A f \in statfile_list \ Pending' : f[1] \in select => \E i \in DOMAIN Frames' : Frames'[i].name = f
        <4>1. SUFFICES ASSUME NEW f \in statfile_list, f \notin Pending', f[1] \in select
                       PROVE  \E i \in DOMAIN Frames' : Frames'[i].name = f
          OBVIOUS
        <4>2. CASE f = r.name
          BY <2>6, <4>2
        <4>3. CASE f # r.name
          <5>1. PICK i \in DOMAIN Frames : Frames[i].name = f
            BY <1>1, <1>5, <4>1, <4>3 DEF ExtractInv, Kept
          <5>2. HasRows(Frames[i])
            BY <4>1, <5>1 DEF ExtractInv, Kept, NamedByVlen, HasRows
          <5>3. i \in DOMAIN Frames' /\ Frames'[i] = Frames[i]
            BY <2>5, <5>2 DEF IsEmpty
          <5> QED BY <5>1, <5>3
        <4> QED BY <4>2, <4>3
      <3> QED BY <1>1, <3>1, <3>2, <3>3 DEF Kept, NamedByVlen
    <2>10. AfterTheJob'
      <3>1. began = "done" => \A i \in DOMAIN Frames' : Frames'[i].sweep = files[Frames'[i].name].sweep
        BY <2>4 DEF ExtractInv, AfterTheJob
      <3> QED BY <1>1, <2>2, <3>1 DEF ExtractInv, AfterTheJob, vars
    <2> QED BY <1>3, <1>4, <2>8, <2>9, <2>10 DEF ExtractInv
  <1> QED BY <1>2, <1>7, <1>8

LEMMA RestKeeps ==
  ASSUME ExtractInv, MergeRest, UNCHANGED vars
  PROVE  ExtractInv'
  <1>1. /\ phase = "pool" /\ phase' = "extracted" /\ stat_df' = Frames /\ df_list' = <<>>
        /\ UNCHANGED <<began, select, statfile_list, todo, reading>>
    BY DEF MergeRest, Merged, Frames
  <1>2. stat_df \in Seq(Read) /\ df_list \in Seq(Read) /\ Frames \in Seq(Read)
    BY DEF ExtractInv, Batches, Frames
  <1>3. Frames' = Frames
    <2>1. Frames \o <<>> = Frames
      BY <1>2
    <2> QED BY <1>1, <2>1 DEF Frames
  <1>4. NamesInv' /\ JobInv'
    BY NamesStep, JobStep DEF ExtractInv
  <1>5. Listed'
    BY <1>1 DEF ExtractInv, Listed, NamedByVlen, vars
  <1>6. Batches'
    BY <1>1, <1>2, ExtractionAssumption DEF ExtractInv, Batches
  <1>7. Kept'
    BY <1>1, <1>3 DEF ExtractInv, Kept, Pending, NamedByVlen
  <1>8. AfterTheJob'
    BY <1>1, <1>3 DEF ExtractInv, AfterTheJob, vars
  <1> QED BY <1>4, <1>5, <1>6, <1>7, <1>8 DEF ExtractInv

LEMMA OutputKeeps ==
  ASSUME ExtractInv, WriteOutput, UNCHANGED vars
  PROVE  ExtractInv'
  <1>1. /\ phase = "extracted" /\ phase' = "ended"
        /\ UNCHANGED <<began, select, statfile_list, todo, reading, stat_df, df_list>>
    BY DEF WriteOutput
  <1>2. NamesInv' /\ JobInv'
    BY NamesStep, JobStep DEF ExtractInv
  <1>3. Listed' /\ Batches'
    BY <1>1 DEF ExtractInv, Listed, NamedByVlen, Batches, Frames, IsEmpty, HasRows, vars
  <1>4. Kept' /\ AfterTheJob'
    BY <1>1 DEF ExtractInv, Kept, AfterTheJob, Frames, Pending, NamedByVlen, vars
  <1> QED BY <1>2, <1>3, <1>4 DEF ExtractInv

LEMMA ExtractStep == ExtractInv /\ [MCNext]_mcVars => ExtractInv'
  <1> SUFFICES ASSUME ExtractInv, [MCNext]_mcVars PROVE ExtractInv'
    OBVIOUS
  <1>1. CASE Next /\ UNCHANGED exVars
    BY <1>1, ExtractJobStep
  <1>2. CASE ExNext /\ UNCHANGED vars
    BY <1>2, ListKeeps, TakeKeeps, ResultKeeps, RestKeeps, OutputKeeps DEF ExNext
  <1>3. CASE UNCHANGED <<vars, exVars>>
    BY <1>3, ExtractJobStep
  <1> QED BY <1>1, <1>2, <1>3 DEF MCNext, mcVars

LEMMA ExtractKeepsRows == ExtractInv => RowsKept
  <1> SUFFICES ASSUME ExtractInv PROVE RowsKept
    OBVIOUS
  <1> USE DEF ExtractInv
  <1>1. \A i \in DOMAIN Frames : Frames[i].name \in statfile_list \ todo
    BY DEF Kept, Pending
  <1>2. \A i, k \in DOMAIN Frames : Frames[i].name = Frames[k].name => i = k
    BY DEF Kept
  <1>3. Cardinality(reading) <= Cores /\ Len(df_list) <= DfMergeCount
    BY DEF Listed, Batches
  <1>4. phase \in {"pool", "extracted", "ended"} =>
          \A f \in statfile_list \ Pending :
            (\E i \in DOMAIN Frames : Frames[i].name = f /\ HasRows(Frames[i])) <=> f[1] \in select
    <2>1. \A i \in DOMAIN Frames : HasRows(Frames[i]) <=> Frames[i].name[1] \in select
      BY DEF Kept, HasRows, NamedByVlen
    <2> QED BY <2>1 DEF Kept
  <1>5. began = "done" =>
          /\ \A i \in DOMAIN Frames : Frames[i].sweep = files[Frames[i].name].sweep
          /\ phase = "failed" => statfile_list = {} \/ (\E j \in Jobs : state[j] = "failed") \/ (\E f \in statfile_list : files[f].shared)
    <2>1. SUFFICES ASSUME began = "done", phase = "failed", statfile_list # {}
                   PROVE  (\E j \in Jobs : state[j] = "failed") \/ (\E f \in statfile_list : files[f].shared)
      BY DEF AfterTheJob
    <2>2. PICK f \in statfile_list : ~files[f].whole
      BY <2>1 DEF AfterTheJob
    <2>3. script = "done" /\ f \in DOMAIN files
      BY <2>1 DEF AfterTheJob, Listed
    <2> QED BY <2>2, <2>3, WhyBroken
  <1> QED BY <1>1, <1>2, <1>3, <1>4, <1>5 DEF RowsKept, Pending

(* The extraction keeps the rows of every file it has read, at any time of *)
(* the job and whatever order and batches they come in, and after the job  *)
(* it fails only where a sweep has failed or two sweeps shared a file.     *)
THEOREM ExtractionKeepsRows == MCSpec => []RowsKept
  <1>1. MCInit => ExtractInv
    BY ExtractInit DEF MCInit
  <1> QED BY <1>1, ExtractStep, ExtractKeepsRows, PTL DEF MCSpec
-----------------------------------------------------------------------------
(* The Pareto plot.                                                        *)

(* A number that is the least of its kind, and a finite set's extremes.    *)
LEMMA LeastNumber ==
  ASSUME NEW T, T \subseteq Nat, T # {}
  PROVE  \E n \in T : \A m \in T : n <= m
  <1>1. PICK n \in T : \A m \in T : ~(<<m, n>> \in OpToRel(<, Nat))
    BY NatLessThanWellFounded, WFMin
  <1>2. ASSUME NEW m \in T PROVE n <= m
    <2>1. m \in Nat /\ n \in Nat
      BY <1>2
    <2>2. ASSUME m < n PROVE FALSE
      <3>1. <<m, n>> \in OpToRel(<, Nat)
        BY <2>1, <2>2 DEF OpToRel
      <3> QED BY <1>1, <1>2, <3>1
    <2> QED BY <2>1, <2>2
  <1> QED BY <1>1, <1>2

HasEnds(S) == (\E m \in S : \A x \in S : m <= x) /\ (\E m \in S : \A x \in S : x <= m)

LEMMA FiniteIsBounded ==
  ASSUME NEW T, IsFiniteSet(T), T \subseteq Int, T # {}
  PROVE  HasEnds(T)
  <1> DEFINE Bad == {n \in Nat : \E S \in SUBSET Int : /\ IsFiniteSet(S) /\ S # {}
                                                       /\ Cardinality(S) = n /\ ~HasEnds(S)}
  <1> SUFFICES ASSUME ~HasEnds(T) PROVE FALSE
    OBVIOUS
  <1>1. Cardinality(T) \in Bad
    BY FS_CardinalityType
  <1>2. PICK n \in Bad : \A m \in Bad : n <= m
    <2>1. Bad \subseteq Nat
      OBVIOUS
    <2> HIDE DEF Bad
    <2> QED BY <1>1, <2>1, LeastNumber
  <1>3. PICK S \in SUBSET Int : IsFiniteSet(S) /\ S # {} /\ Cardinality(S) = n /\ ~HasEnds(S)
    OBVIOUS
  <1>4. PICK x \in S : TRUE
    BY <1>3
  <1> DEFINE R == S \ {x}
  <1>5. IsFiniteSet(R) /\ Cardinality(R) = n - 1 /\ R \in SUBSET Int
    BY <1>3, <1>4, FS_RemoveElement
  <1>6. R # {}
    <2> SUFFICES ASSUME R = {} PROVE FALSE
      OBVIOUS
    <2>1. S = {x} /\ x \in Int
      BY <1>4
    <2> QED BY <1>3, <2>1 DEF HasEnds
  <1>7. n - 1 \in Nat /\ n \in Nat
    BY <1>5, FS_CardinalityType
  <1>8. HasEnds(R)
    <2> SUFFICES ASSUME ~HasEnds(R) PROVE FALSE
      OBVIOUS
    <2> HIDE DEF R
    <2>1. n - 1 \in Bad
      BY <1>5, <1>6, <1>7
    <2> HIDE DEF Bad
    <2> QED BY <1>2, <1>7, <2>1
  <1>9. PICK a \in R, b \in R : (\A y \in R : a <= y) /\ (\A y \in R : y <= b)
    BY <1>8 DEF HasEnds
  <1>10. a \in Int /\ b \in Int /\ x \in Int /\ \A y \in S : y \in Int
    BY <1>3, <1>4
  <1>11. \E m \in S : \A y \in S : m <= y
    <2>1. CASE a <= x
      <3>1. \A y \in S : a <= y
        BY <1>9, <2>1
      <3> QED BY <3>1
    <2>2. CASE x <= a
      <3>1. \A y \in S : x <= y
        BY <1>9, <1>10, <2>2
      <3> QED BY <3>1
    <2> QED BY <1>10, <2>1, <2>2
  <1>12. \E m \in S : \A y \in S : y <= m
    <2>1. CASE x <= b
      <3>1. \A y \in S : y <= b
        BY <1>9, <2>1
      <3> QED BY <3>1
    <2>2. CASE b <= x
      <3>1. \A y \in S : y <= x
        BY <1>9, <1>10, <2>2
      <3> QED BY <3>1
    <2> QED BY <1>10, <2>1, <2>2
  <1> QED BY <1>3, <1>11, <1>12 DEF HasEnds

LEMMA Extremes ==
  ASSUME NEW T, IsFiniteSet(T), T \subseteq Int, T # {}
  PROVE  /\ Min(T) \in T /\ \A x \in T : Min(T) <= x
         /\ Max(T) \in T /\ \A x \in T : x <= Max(T)
  <1>1. HasEnds(T)
    BY FiniteIsBounded
  <1>2. (\E m \in T : \A x \in T : m <= x) /\ (\E m \in T : \A x \in T : m >= x)
    BY <1>1 DEF HasEnds
  <1>3. Min(T) \in T /\ \A x \in T : Min(T) <= x
    BY <1>2 DEF Min
  <1>4. Max(T) \in T /\ \A x \in T : Max(T) >= x
    BY <1>2 DEF Max
  <1> QED BY <1>3, <1>4

(* Designs that exceed a threshold: with one of them, every design that is *)
(* at least as large.                                                      *)
Design == [at : [Stats -> Int], target : Int]
UpSet(A) ==
  /\ IsFiniteSet(A) /\ A \subseteq Design
  /\ \A r, q \in A : r.at = q.at => r = q
  /\ \A r, q \in A : (\A s \in Stats : r.at[s] <= q.at[s]) => r.target <= q.target
  /\ \A r, q \in A : \A s \in Stats :
       r.at[s] <= q.at[s] => \E p \in A : p.at = [r.at EXCEPT ![s] = q.at[s]]

LEMMA AboveIsUpSet ==
  ASSUME NEW rows, IsTable(rows), Regular(rows), NEW th \in Int
  PROVE  UpSet(Above(rows, th))
  <1> DEFINE A == Above(rows, th)
  <1>1. IsFiniteSet(A) /\ A \subseteq Design /\ A \subseteq rows /\ rows \subseteq Design
    BY FS_Subset DEF Above, IsTable, Design
  <1>2. ASSUME NEW r \in rows, NEW q \in rows, r.at = q.at PROVE r = q
    <2>1. r \in Design /\ q \in Design
      BY <1>1
    <2>2. \A s \in Stats : r.at[s] \in Int /\ r.at[s] <= q.at[s] /\ q.at[s] <= r.at[s]
      BY <1>2, <2>1 DEF Design
    <2>3. r.target <= q.target /\ q.target <= r.target
      BY <2>2 DEF Regular
    <2>4. r.target \in Int /\ q.target \in Int
      BY <2>1 DEF Design
    <2> QED BY <1>2, <2>1, <2>3, <2>4 DEF Design
  <1>3. ASSUME NEW r \in A, NEW q \in A, NEW s \in Stats, r.at[s] <= q.at[s]
        PROVE  \E p \in A : p.at = [r.at EXCEPT ![s] = q.at[s]]
    <2>1. PICK p \in rows : p.at = [r.at EXCEPT ![s] = q.at[s]]
      BY <1>1 DEF Regular
    <2>2. r \in Design /\ q \in Design /\ p \in Design
      BY <1>1
    <2>3. \A t \in Stats : r.at[t] <= p.at[t]
      BY <1>3, <2>1, <2>2 DEF Design
    <2>4. r.target <= p.target
      BY <1>1, <2>3 DEF Regular
    <2>5. r.target > th
      BY DEF Above
    <2>6. p.target > th
      BY <2>2, <2>4, <2>5 DEF Design
    <2> QED BY <2>1, <2>6 DEF Above
  <1>4. \A r, q \in A : (\A s \in Stats : r.at[s] <= q.at[s]) => r.target <= q.target
    BY <1>1 DEF Regular
  <1> QED BY <1>1, <1>2, <1>3, <1>4 DEF UpSet
(* A point that some design has but for one statistic gets the least value *)
(* of that statistic among such designs, and is a design then.             *)
AgreesOff(r, point, s) == \A t \in Stats \ {s} : r.at[t] = point[t]

LEMMA MinimiseIs ==
  ASSUME NEW A, UpSet(A), NEW point \in [Stats -> Int], NEW s \in Stats,
         \E r \in A : AgreesOff(r, point, s)
  PROVE  \E m \in Int : /\ Minimise(A, point, s) = [point EXCEPT ![s] = m]
                        /\ \E r \in A : r.at = [point EXCEPT ![s] = m]
                        /\ \A q \in A : AgreesOff(q, point, s) => m <= q.at[s]
  <1> DEFINE adf == {r \in A : AgreesOff(r, point, s)}
             sizes == {r.at[s] : r \in adf}
             m == Min(sizes)
             best == {r.at[s] : r \in Least(adf)}
  <1>1. IsFiniteSet(A) /\ A \subseteq Design
    BY DEF UpSet
  <1>2. IsFiniteSet(adf) /\ adf # {} /\ \A r \in adf : r \in Design
    <2>1. IsFiniteSet(adf)
      BY <1>1, FS_Subset
    <2> QED BY <1>1, <2>1
  <1>3. sizes \subseteq Int /\ sizes # {} /\ IsFiniteSet(sizes)
    <2>1. IsFiniteSet(sizes)
      <3> DEFINE f == [r \in adf |-> r.at[s]]
      <3>1. f \in Surjection(adf, sizes)
        BY DEF Surjection
      <3> HIDE DEF adf, sizes, f
      <3> QED BY <1>2, <3>1, FS_Surjection DEF ExistsSurjection
    <2> QED BY <1>2, <2>1 DEF Design
  <1>4. m \in sizes /\ \A x \in sizes : m <= x
    <2> HIDE DEF sizes
    <2> QED BY <1>3, Extremes
  <1>5. PICK r \in adf : r.at[s] = m
    BY <1>4
  <1>6. r \in Least(adf)
    <2> SUFFICES ASSUME NEW q \in adf PROVE r.target <= q.target
      BY DEF Least
    <2>1. q.at[s] \in sizes
      OBVIOUS
    <2>2. m <= q.at[s]
      BY <1>4, <2>1
    <2>3. ASSUME NEW t \in Stats PROVE r.at[t] <= q.at[t]
      <3>1. CASE t = s
        BY <1>5, <2>2, <3>1
      <3>2. CASE t # s
        <4>1. r.at[t] = point[t] /\ q.at[t] = point[t] /\ point[t] \in Int
          BY <3>2 DEF AgreesOff
        <4> QED BY <4>1
      <3> QED BY <3>1, <3>2
    <2> QED BY <2>3 DEF UpSet
  <1>7. Min(best) = m
    <2>1. best \subseteq sizes /\ m \in best
      BY <1>5, <1>6 DEF Least
    <2>2. best \subseteq Int /\ best # {} /\ IsFiniteSet(best)
      <3> HIDE DEF best, sizes
      <3> QED BY <1>3, <2>1, FS_Subset
    <2>3. Min(best) \in best /\ \A x \in best : Min(best) <= x
      <3> HIDE DEF best
      <3> QED BY <2>2, Extremes
    <2>4. Min(best) <= m /\ m <= Min(best) /\ Min(best) \in Int /\ m \in Int
      <3> HIDE DEF best, sizes, m
      <3> QED BY <1>3, <1>4, <2>1, <2>3
    <2> HIDE DEF m, best
    <2> QED BY <2>4
  <1>8. Minimise(A, point, s) = [point EXCEPT ![s] = Min(best)]
    BY <1>2, Zenon DEF Minimise, AgreesOff
  <1>9. r.at = [point EXCEPT ![s] = m]
    <2>1. r.at \in [Stats -> Int] /\ \A t \in Stats \ {s} : r.at[t] = point[t]
      BY <1>2 DEF Design, AgreesOff
    <2> HIDE DEF m
    <2> QED BY <1>5, <2>1
  <1>10. ASSUME NEW q \in A, AgreesOff(q, point, s) PROVE m <= q.at[s]
    <2>1. q.at[s] \in sizes
      BY <1>10
    <2> HIDE DEF sizes, m
    <2> QED BY <1>4, <2>1 DEF m
  <1>11. m \in Int
    <2> HIDE DEF m
    <2> QED BY <1>3, <1>4
  <1> HIDE DEF m, best
  <1> QED BY <1>5, <1>7, <1>8, <1>9, <1>10, <1>11

(* The orders of three statistics. *)
LEMMA OrdersAre ==
  ASSUME NEW o
  PROVE  o \in SetToSeqs(Stats) <=>
           /\ o \in [1 .. 3 -> Stats] /\ o[1] # o[2] /\ o[1] # o[3] /\ o[2] # o[3]
  <1>1. Cardinality(Stats) = 3
    <2>1. Cardinality(1 .. 3) = IF 1 > 3 THEN 0 ELSE 3 - 1 + 1
      BY 1 \in Int, 3 \in Int, FS_Interval, Zenon
    <2> QED BY <2>1 DEF Stats
  <1>2. SetToSeqs(Stats) = {f \in [1 .. 3 -> Stats] : \A i, j \in 1 .. 3 : i # j => f[i] # f[j]}
    BY <1>1 DEF SetToSeqs
  <1>3. \A i \in 1 .. 3 : i = 1 \/ i = 2 \/ i = 3
    OBVIOUS
  <1>4. 1 \in 1 .. 3 /\ 2 \in 1 .. 3 /\ 3 \in 1 .. 3
    OBVIOUS
  <1> QED BY <1>2, <1>3, <1>4
(* A design with one statistic raised to that of a larger one.             *)
LEMMA Raise ==
  ASSUME NEW A, UpSet(A), NEW r \in A, NEW s \in Stats,
         NEW v, \E q \in A : q.at[s] = v /\ \A p \in A : p.at[s] <= v
  PROVE  \E p \in A : p.at = [r.at EXCEPT ![s] = v]
  BY DEF UpSet

(* The search in one order ends at the design that is smallest in the      *)
(* first statistic, among these in the second, and then in the third.      *)
LEMMA DatapointIs ==
  ASSUME NEW A, UpSet(A), A # {}, NEW o \in SetToSeqs(Stats)
  PROVE  \E r \in A : r.at = Datapoint(A, o) /\ \A q \in A \ {r} : SmallerIn(o, r, q)
  <1> DEFINE a == o[1]
             b == o[2]
             c == o[3]
             largest == [s \in Stats |-> Max({r.at[s] : r \in A})]
             first   == Minimise(A, largest, a)
             second  == Minimise(A, first, b)
             third   == Minimise(A, second, c)
  <1>1. /\ a \in Stats /\ b \in Stats /\ c \in Stats /\ a # b /\ a # c /\ b # c
        /\ Stats = {a, b, c}
    <2>1. a \in Stats /\ b \in Stats /\ c \in Stats /\ a # b /\ a # c /\ b # c
      BY OrdersAre
    <2>2. Stats = {1, 2, 3}
      BY DEF Stats
    <2> HIDE DEF a, b, c
    <2> QED BY <2>1, <2>2
  <1>2. IsFiniteSet(A) /\ \A r \in A : r.at \in [Stats -> Int]
    BY DEF UpSet, Design
  <1>3. ASSUME NEW s \in Stats
        PROVE  largest[s] \in Int /\ (\E q \in A : q.at[s] = largest[s]) /\ \A p \in A : p.at[s] <= largest[s]
    <2> DEFINE sizes == {r.at[s] : r \in A}
               f == [r \in A |-> r.at[s]]
    <2>1. sizes \subseteq Int /\ sizes # {}
      BY <1>2
    <2>2. f \in Surjection(A, sizes)
      BY DEF Surjection
    <2>3. IsFiniteSet(sizes)
      <3> HIDE DEF sizes, f
      <3> QED BY <1>2, <2>2, FS_Surjection
    <2>4. Max(sizes) \in sizes /\ \A x \in sizes : x <= Max(sizes)
      <3> HIDE DEF sizes
      <3> QED BY <2>1, <2>3, Extremes
    <2>5. largest[s] = Max(sizes)
      OBVIOUS
    <2>6. \A p \in A : p.at[s] \in sizes
      OBVIOUS
    <2>7. \E q \in A : q.at[s] = Max(sizes)
      BY <2>4
    <2> HIDE DEF largest, sizes
    <2> QED BY <2>1, <2>4, <2>5, <2>6, <2>7
  <1>4. largest \in [Stats -> Int]
    <2> HIDE DEF largest
    <2>1. largest = [s \in Stats |-> largest[s]]
      BY DEF largest
    <2> QED BY <1>3, <2>1
  <1>5. Datapoint(A, o) = third
    BY DEF Datapoint
  <1> HIDE DEF a, b, c, largest, first, second, third
  <1>6. ASSUME NEW r \in A, NEW s \in Stats PROVE \E p \in A : p.at = [r.at EXCEPT ![s] = largest[s]]
    BY <1>3, Raise
  <1>7. ASSUME NEW r \in A
        PROVE  \E p \in A : p.at[a] = r.at[a] /\ p.at[b] = largest[b] /\ p.at[c] = largest[c]
    <2>1. PICK q \in A : q.at = [r.at EXCEPT ![b] = largest[b]]
      BY <1>1, <1>6
    <2>2. PICK p \in A : p.at = [q.at EXCEPT ![c] = largest[c]]
      BY <1>1, <1>6
    <2> QED BY <1>1, <1>2, <2>1, <2>2
  <1>8. PICK m \in Int : /\ first = [largest EXCEPT ![a] = m]
                         /\ \E r \in A : r.at = first
                         /\ \A q \in A : AgreesOff(q, largest, a) => m <= q.at[a]
    <2>1. \E r \in A : AgreesOff(r, largest, a)
      BY <1>1, <1>7 DEF AgreesOff
    <2>2. \E m \in Int : /\ first = [largest EXCEPT ![a] = m]
                         /\ \E r \in A : r.at = [largest EXCEPT ![a] = m]
                         /\ \A q \in A : AgreesOff(q, largest, a) => m <= q.at[a]
      BY <1>1, <1>4, <2>1, MinimiseIs DEF first
    <2> QED BY <2>2
  <1>9. \A q \in A : m <= q.at[a]
    <2> SUFFICES ASSUME NEW q \in A PROVE m <= q.at[a]
      OBVIOUS
    <2>1. PICK p \in A : p.at[a] = q.at[a] /\ p.at[b] = largest[b] /\ p.at[c] = largest[c]
      BY <1>7
    <2>2. AgreesOff(p, largest, a)
      BY <1>1, <2>1 DEF AgreesOff
    <2> QED BY <1>8, <2>1, <2>2
  <1>10. first \in [Stats -> Int] /\ first[a] = m /\ first[b] = largest[b] /\ first[c] = largest[c]
    BY <1>1, <1>4, <1>8
  <1>11. PICK k \in Int : /\ second = [first EXCEPT ![b] = k]
                          /\ \E r \in A : r.at = second
                          /\ \A q \in A : AgreesOff(q, first, b) => k <= q.at[b]
    <2>1. \E r \in A : AgreesOff(r, first, b)
      BY <1>8 DEF AgreesOff
    <2>2. \E k \in Int : /\ second = [first EXCEPT ![b] = k]
                         /\ \E r \in A : r.at = [first EXCEPT ![b] = k]
                         /\ \A q \in A : AgreesOff(q, first, b) => k <= q.at[b]
      BY <1>1, <1>10, <2>1, MinimiseIs DEF second
    <2> QED BY <2>2
  <1>12. \A q \in A : q.at[a] = m => k <= q.at[b]
    <2> SUFFICES ASSUME NEW q \in A, q.at[a] = m PROVE k <= q.at[b]
      OBVIOUS
    <2>1. PICK p \in A : p.at = [q.at EXCEPT ![c] = largest[c]]
      BY <1>1, <1>6
    <2>2. p.at[a] = m /\ p.at[b] = q.at[b] /\ p.at[c] = largest[c]
      BY <1>1, <1>2, <2>1
    <2>3. AgreesOff(p, first, b)
      BY <1>1, <1>10, <2>2 DEF AgreesOff
    <2> QED BY <1>11, <2>2, <2>3
  <1>13. second \in [Stats -> Int] /\ second[a] = m /\ second[b] = k
    BY <1>1, <1>10, <1>11
  <1>14. PICK l \in Int : /\ third = [second EXCEPT ![c] = l]
                          /\ \E r \in A : r.at = third
                          /\ \A q \in A : AgreesOff(q, second, c) => l <= q.at[c]
    <2>1. \E r \in A : AgreesOff(r, second, c)
      BY <1>11 DEF AgreesOff
    <2>2. \E l \in Int : /\ third = [second EXCEPT ![c] = l]
                         /\ \E r \in A : r.at = [second EXCEPT ![c] = l]
                         /\ \A q \in A : AgreesOff(q, second, c) => l <= q.at[c]
      BY <1>1, <1>13, <2>1, MinimiseIs DEF third
    <2> QED BY <2>2
  <1>15. \A q \in A : q.at[a] = m /\ q.at[b] = k => l <= q.at[c]
    <2> SUFFICES ASSUME NEW q \in A, q.at[a] = m /\ q.at[b] = k PROVE l <= q.at[c]
      OBVIOUS
    <2>1. AgreesOff(q, second, c)
      BY <1>1, <1>13 DEF AgreesOff
    <2> QED BY <1>14, <2>1
  <1>16. PICK r \in A : r.at = third
    BY <1>14
  <1>17. r.at[a] = m /\ r.at[b] = k /\ r.at[c] = l
    BY <1>1, <1>13, <1>14, <1>16
  <1>18. ASSUME NEW q \in A \ {r} PROVE SmallerIn(o, r, q)
    <2>1. q.at \in [Stats -> Int] /\ r.at \in [Stats -> Int] /\ q.at # r.at
      BY <1>2 DEF UpSet
    <2>2. q.at[a] # r.at[a] \/ q.at[b] # r.at[b] \/ q.at[c] # r.at[c]
      BY <1>1, <2>1
    <2>3. m <= q.at[a] /\ (q.at[a] = m => k <= q.at[b]) /\ (q.at[a] = m /\ q.at[b] = k => l <= q.at[c])
      BY <1>9, <1>12, <1>15
    <2>4. q.at[a] \in Int /\ q.at[b] \in Int /\ q.at[c] \in Int
      BY <1>1, <2>1
    <2>5. \/ r.at[a] < q.at[a]
          \/ r.at[a] = q.at[a] /\ r.at[b] < q.at[b]
          \/ r.at[a] = q.at[a] /\ r.at[b] = q.at[b] /\ r.at[c] < q.at[c]
      BY <1>17, <2>2, <2>3, <2>4
    <2>6. 1 \in Stats /\ 2 \in Stats /\ 3 \in Stats
      BY DEF Stats
    <2>7. 1 .. 1 - 1 = {} /\ 1 .. 2 - 1 = {1} /\ 1 .. 3 - 1 = {1, 2}
      OBVIOUS
    <2>8. CASE r.at[a] < q.at[a]
      BY <2>6, <2>7, <2>8 DEF SmallerIn, a
    <2>9. CASE r.at[a] = q.at[a] /\ r.at[b] < q.at[b]
      BY <2>6, <2>7, <2>9 DEF SmallerIn, a, b
    <2>10. CASE r.at[a] = q.at[a] /\ r.at[b] = q.at[b] /\ r.at[c] < q.at[c]
      BY <2>6, <2>7, <2>10 DEF SmallerIn, a, b, c
    <2> QED BY <2>5, <2>8, <2>9, <2>10
  <1> QED BY <1>5, <1>16, <1>18
(* No two designs are smaller than each other in one order.                *)
LEMMA SmallerOneWay ==
  ASSUME NEW o \in SetToSeqs(Stats), NEW r \in Design, NEW q \in Design,
         SmallerIn(o, r, q), SmallerIn(o, q, r)
  PROVE  FALSE
  <1>1. PICK i \in Stats : r.at[o[i]] < q.at[o[i]] /\ \A j \in 1 .. i - 1 : r.at[o[j]] = q.at[o[j]]
    BY DEF SmallerIn
  <1>2. PICK k \in Stats : q.at[o[k]] < r.at[o[k]] /\ \A j \in 1 .. k - 1 : q.at[o[j]] = r.at[o[j]]
    BY DEF SmallerIn
  <1>3. \A j \in Stats : r.at[o[j]] \in Int /\ q.at[o[j]] \in Int
    BY OrdersAre DEF Design, Stats
  <1>4. i \in Int /\ k \in Int /\ i >= 1 /\ k >= 1
    BY DEF Stats
  <1>5. CASE i < k
    <2>1. i \in 1 .. k - 1
      BY <1>4, <1>5
    <2> QED BY <1>1, <1>2, <1>3, <2>1
  <1>6. CASE k < i
    <2>1. k \in 1 .. i - 1
      BY <1>4, <1>6
    <2> QED BY <1>1, <1>2, <1>3, <2>1
  <1>7. CASE i = k
    BY <1>1, <1>2, <1>3, <1>7
  <1> QED BY <1>4, <1>5, <1>6, <1>7

(* The designs at the points that the search finds are the corners.        *)
LEMMA CornersAre ==
  ASSUME NEW rows, IsTable(rows), Regular(rows), NEW th \in Int
  PROVE  /\ Corners(rows, th) = {r \in Above(rows, th) : r.at \in Datapoints(Above(rows, th))}
         /\ \A x \in Datapoints(Above(rows, th)) : \E r \in Above(rows, th) : r.at = x
  <1> DEFINE A == Above(rows, th)
  <1>1. UpSet(A)
    BY AboveIsUpSet
  <1>2. A \subseteq Design
    BY <1>1 DEF UpSet
  <1> HIDE DEF A
  <1>3. ASSUME NEW r \in Corners(rows, th) PROVE r \in A /\ r.at \in Datapoints(A)
    <2>1. PICK o \in SetToSeqs(Stats) : r \in A /\ \A q \in A \ {r} : SmallerIn(o, r, q)
      BY DEF Corners, A
    <2>2. PICK p \in A : p.at = Datapoint(A, o) /\ \A q \in A \ {p} : SmallerIn(o, p, q)
      BY <1>1, <2>1, DatapointIs
    <2>3. p = r
      <3> SUFFICES ASSUME p # r PROVE FALSE
        OBVIOUS
      <3>1. SmallerIn(o, r, p) /\ SmallerIn(o, p, r)
        BY <2>1, <2>2
      <3> QED BY <1>2, <2>1, <3>1, SmallerOneWay
    <2>4. Datapoint(A, o) \in Datapoints(A)
      BY <2>1 DEF Datapoints
    <2> QED BY <2>1, <2>2, <2>3, <2>4
  <1>4. ASSUME NEW x \in Datapoints(A)
        PROVE  \E r \in Corners(rows, th) : r \in A /\ r.at = x
    <2>1. PICK o \in SetToSeqs(Stats) : A # {} /\ x = Datapoint(A, o)
      BY DEF Datapoints
    <2>2. PICK p \in A : p.at = Datapoint(A, o) /\ \A q \in A \ {p} : SmallerIn(o, p, q)
      BY <1>1, <2>1, DatapointIs
    <2>3. p \in Corners(rows, th)
      BY <2>2 DEF Corners, A
    <2> QED BY <2>1, <2>2, <2>3
  <1>5. ASSUME NEW r \in A, r.at \in Datapoints(A) PROVE r \in Corners(rows, th)
    <2>1. PICK p \in Corners(rows, th) : p \in A /\ p.at = r.at
      BY <1>4, <1>5
    <2>2. p = r
      BY <1>1, <2>1 DEF UpSet
    <2> QED BY <2>1, <2>2
  <1>6. Corners(rows, th) = {r \in A : r.at \in Datapoints(A)}
    BY <1>3, <1>5
  <1> QED BY <1>4, <1>6 DEF A

LEMMA CornersAreOnFront ==
  ASSUME NEW rows, IsTable(rows), NEW th, NEW r \in Corners(rows, th)
  PROVE  r \in ParetoFront(rows, th)
  <1>1. PICK o \in SetToSeqs(Stats) : r \in Above(rows, th) /\ \A q \in Above(rows, th) \ {r} : SmallerIn(o, r, q)
    BY DEF Corners
  <1>2. ASSUME NEW q \in Above(rows, th), q # r, \A s \in Stats : q.at[s] <= r.at[s] PROVE FALSE
    <2>1. PICK i \in Stats : r.at[o[i]] < q.at[o[i]]
      BY <1>1, <1>2 DEF SmallerIn
    <2>2. o[i] \in Stats
      BY OrdersAre DEF Stats
    <2>3. r.at[o[i]] \in Int /\ q.at[o[i]] \in Int
      BY <1>1, <2>2 DEF Above, IsTable
    <2> QED BY <1>2, <2>1, <2>2, <2>3
  <1> QED BY <1>1, <1>2 DEF ParetoFront

(* The rows that pareto() lists for a threshold, by the first place it has. *)
RowsAt(rows, i) ==
  {r \in Above(rows, Thresholds[i]) : r.at \in Found(rows, i) \ UNION {Found(rows, j) : j \in 1 .. i - 1}}

LEMMA ListedAt ==
  ASSUME NEW rows, NEW i \in DOMAIN Thresholds, Thresholds[i] \notin Earlier(i)
  PROVE  {p.row : p \in {q \in Pareto(rows) : q.pareto_threshold = Thresholds[i]}} = RowsAt(rows, i)
  <1> DEFINE Entry(k, r) == [row |-> r, pareto_threshold |-> Thresholds[k]]
             L == {p.row : p \in {q \in Pareto(rows) : q.pareto_threshold = Thresholds[i]}}
  <1>1. \A p : p \in Pareto(rows) <=> \E k \in DOMAIN Thresholds : \E r \in RowsAt(rows, k) : p = Entry(k, r)
    BY DEF Pareto, RowsAt
  <1>2. DOMAIN Thresholds = 1 .. Len(Thresholds) /\ Len(Thresholds) \in Nat
    BY ParetoAssumption
  <1>3. ASSUME NEW r \in RowsAt(rows, i) PROVE r \in L
    <2>1. Entry(i, r) \in Pareto(rows)
      BY <1>1
    <2> QED BY <2>1
  <1>4. ASSUME NEW r \in L PROVE r \in RowsAt(rows, i)
    <2>1. PICK p \in Pareto(rows) : p.pareto_threshold = Thresholds[i] /\ p.row = r
      OBVIOUS
    <2>2. PICK k \in DOMAIN Thresholds : \E q \in RowsAt(rows, k) : p = Entry(k, q)
      BY <1>1
    <2> PICK q \in RowsAt(rows, k) : p = Entry(k, q)
      BY <2>2
    <2>3. q = r /\ Thresholds[k] = Thresholds[i]
      BY <2>1, <2>2
    <2>4. k \in Nat /\ i \in Nat /\ k >= 1
      BY <1>2
    <2>5. CASE k < i
      <3>1. k \in 1 .. i - 1
        BY <2>4, <2>5
      <3>2. Thresholds[k] \in Earlier(i)
        BY <3>1 DEF Earlier
      <3> QED BY <2>3, <3>2
    <2>6. CASE i < k
      <3>1. i \in 1 .. k - 1
        BY <1>2, <2>4, <2>6
      <3>2. Found(rows, i) = Found(rows, k)
        BY <2>3 DEF Found
      <3>3. q.at \in Found(rows, k) /\ q.at \notin Found(rows, i)
        BY <3>1 DEF RowsAt
      <3> QED BY <3>2, <3>3
    <2>7. CASE i = k
      BY <2>2, <2>3, <2>7
    <2> QED BY <2>4, <2>5, <2>6, <2>7
  <1> HIDE DEF L
  <1>5. L = RowsAt(rows, i)
    BY <1>3, <1>4
  <1> QED BY <1>5 DEF L

LEMMA RowsAtAre ==
  ASSUME NEW rows, IsTable(rows), Regular(rows), NEW i \in DOMAIN Thresholds
  PROVE  RowsAt(rows, i)
           = Corners(rows, Thresholds[i]) \ UNION {Corners(rows, th) : th \in Earlier(i)}
  <1> DEFINE A(k) == Above(rows, Thresholds[k])
             C(k) == Corners(rows, Thresholds[k])
  <1>1. i \in Nat /\ \A k \in 1 .. i : k \in DOMAIN Thresholds /\ Thresholds[k] \in Int
    <2>1. DOMAIN Thresholds = 1 .. Len(Thresholds) /\ Len(Thresholds) \in Nat
      BY ParetoAssumption
    <2>2. \A k \in 1 .. Len(Thresholds) : Thresholds[k] \in Int
      BY <2>1, ParetoAssumption
    <2> QED BY <2>1, <2>2
  <1>2. ASSUME NEW k \in 1 .. i
        PROVE  /\ C(k) = {r \in A(k) : r.at \in Found(rows, k)}
               /\ \A x \in Found(rows, k) : \E r \in A(k) : r.at = x
    BY <1>1, CornersAre DEF Found
  <1>3. i \in 1 .. i /\ \A j \in 1 .. i - 1 : j \in 1 .. i
    <2>1. i >= 1
      BY ParetoAssumption
    <2> QED BY <1>1, <2>1
  <1>4. \A r, q \in rows : r.at = q.at => r = q
    <2>1. \A r \in rows : r \in Design
      BY DEF IsTable, Design
    <2>2. ASSUME NEW r \in rows, NEW q \in rows, r.at = q.at PROVE r = q
      <3>1. r.target <= q.target /\ q.target <= r.target
        <4>1. \A s \in Stats : r.at[s] <= q.at[s] /\ q.at[s] <= r.at[s]
          BY <2>1, <2>2 DEF Design
        <4> QED BY <4>1 DEF Regular
      <3>2. r.target = q.target
        BY <2>1, <3>1 DEF Design
      <3> QED BY <2>1, <2>2, <3>2 DEF Design
    <2> QED BY <2>2
  <1>5. ASSUME NEW r \in C(i), NEW j \in 1 .. i - 1 PROVE r.at \in Found(rows, j) <=> r \in C(j)
    <2>1. j \in 1 .. i /\ r \in A(i)
      BY <1>2, <1>3
    <2>2. ASSUME r.at \in Found(rows, j) PROVE r \in C(j)
      <3>1. PICK q \in A(j) : q.at = r.at
        BY <1>2, <2>1, <2>2
      <3>2. q = r
        BY <1>4, <2>1, <3>1 DEF Above
      <3> QED BY <1>2, <2>1, <2>2, <3>1, <3>2
    <2>3. ASSUME r \in C(j) PROVE r.at \in Found(rows, j)
      BY <1>2, <2>1, <2>3
    <2> QED BY <2>2, <2>3
  <1>6. RowsAt(rows, i) = {r \in C(i) : \A j \in 1 .. i - 1 : r.at \notin Found(rows, j)}
    BY <1>2, <1>3 DEF RowsAt
  <1>7. C(i) \ UNION {Corners(rows, th) : th \in Earlier(i)} = {r \in C(i) : \A j \in 1 .. i - 1 : r \notin C(j)}
    BY DEF Earlier
  <1> HIDE DEF C
  <1>8. {r \in C(i) : \A j \in 1 .. i - 1 : r.at \notin Found(rows, j)}
          = {r \in C(i) : \A j \in 1 .. i - 1 : r \notin C(j)}
    BY <1>5
  <1>9. C(i) = Corners(rows, Thresholds[i])
    BY DEF C
  <1> QED BY <1>6, <1>7, <1>8, <1>9
-----------------------------------------------------------------------------
(* The rows given to pareto() are those of one label of the selection,     *)
(* that of a best row.                                                     *)
OneLabel ==
  IF selected = {} THEN given = {}
  ELSE \E r \in Best(selected) : given = Unlabelled({q \in selected : q.label = r.label})

(* What was listed was listed for the rows given, and the plot shows the   *)
(* rows of its threshold.                                                  *)
ParetoInv ==
  /\ IsTable(given) /\ full = Pareto(given)
  /\ view = "plot" => shown = ListedFor(threshold)
  /\ OneLabel

LEMMA NothingListed ==
  ASSUME NEW rows, ParetoFails(rows)
  PROVE  Pareto(rows) = {}
  BY DEF ParetoFails, Pareto

LEMMA ParetoStart == ParetoInit => ParetoInv
  <1> SUFFICES ASSUME ParetoInit PROVE ParetoInv
    OBVIOUS
  <1>1. IsTable(given)
    BY FS_EmptySet DEF ParetoInit, IsTable
  <1>2. ParetoFails({})
    BY DEF ParetoFails, Above
  <1> QED BY <1>1, <1>2, NothingListed DEF ParetoInit, ParetoInv, OneLabel

(* What loc[] leaves of a selection is a table without labels. *)
LEMMA UnlabelledIsTable ==
  ASSUME NEW rows, IsSelection(rows)
  PROVE  IsTable(Unlabelled(rows))
  <1>1. IsFiniteSet(Unlabelled(rows))
    <2> DEFINE drop == [r \in rows |-> [at |-> r.at, target |-> r.target]]
    <2>1. drop \in Surjection(rows, Unlabelled(rows))
      BY DEF Surjection, Unlabelled
    <2> QED BY <2>1, FS_Surjection DEF IsSelection
  <1> QED BY <1>1 DEF IsSelection, IsTable, Unlabelled

LEMMA GroupedIsTable ==
  ASSUME NEW t \in Tables, NEW rows \in Grouped(t)
  PROVE  IsTable(rows)
  <1>1. CASE t = {}
    BY <1>1, FS_EmptySet DEF Grouped, IsTable
  <1>2. CASE t # {}
    <2>1. PICK r \in Best(t) : rows = Unlabelled({q \in t : q.label = r.label})
      BY <1>2 DEF Grouped
    <2>2. IsSelection({q \in t : q.label = r.label})
      BY ParetoAssumption, FS_Subset DEF IsSelection
    <2> QED BY <2>1, <2>2, UnlabelledIsTable
  <1> QED BY <1>1, <1>2

LEMMA ParetoStep == ParetoInv /\ [MCNext]_mcVars => ParetoInv'
  <1> SUFFICES ASSUME ParetoInv, [MCNext]_mcVars PROVE ParetoInv'
    OBVIOUS
  <1>1. CASE UNCHANGED paretoVars
    BY <1>1 DEF ParetoInv, OneLabel, ListedFor, paretoVars
  <1>2. ASSUME NEW t \in Tables, UpdatePlot(t) PROVE ParetoInv'
    <2>1. PICK rows \in Grouped(t) :
            IF ParetoFails(rows)
            THEN view' = (IF view = "none" THEN "over" ELSE "plot") /\ UNCHANGED <<selected, given, full, shown>>
            ELSE /\ view' = "plot" /\ selected' = t /\ given' = rows /\ full' = Pareto(rows)
                 /\ UpdateThreshold(full', threshold)
      BY <1>2 DEF UpdatePlot
    <2>2. UNCHANGED threshold /\ view \in {"none", "plot"}
      BY <1>2 DEF UpdatePlot
    <2>3. IsTable(rows)
      BY GroupedIsTable
    <2>4. CASE ParetoFails(rows)
      BY <2>1, <2>2, <2>4 DEF ParetoInv, OneLabel, ListedFor
    <2>5. CASE ~ParetoFails(rows)
      <3>1. OneLabel'
        BY <2>1, <2>5 DEF OneLabel, Grouped
      <3> QED BY <2>1, <2>2, <2>3, <2>5, <3>1 DEF ParetoInv, ListedFor, UpdateThreshold
    <2> QED BY <2>4, <2>5
  <1>3. CASE MoveThreshold
    BY <1>3 DEF MoveThreshold, ParetoInv, OneLabel, ListedFor, UpdateThreshold
  <1> QED BY <1>1, <1>2, <1>3 DEF MCNext, ParetoNext, mcVars

(* pareto() has the best row of the selection among its rows, and all of   *)
(* the selection where it has one label.                                   *)
LEMMA BestIsGiven ==
  ASSUME OneLabel
  PROVE  /\ \A q \in selected : \E r \in given : q.target <= r.target
         /\ (\A r, q \in selected : r.label = q.label) => given = Unlabelled(selected)
  <1>1. CASE selected = {}
    BY <1>1 DEF OneLabel, Unlabelled
  <1>2. CASE selected # {}
    <2>1. PICK r \in Best(selected) : given = Unlabelled({q \in selected : q.label = r.label})
      BY <1>2 DEF OneLabel
    <2>2. r \in selected /\ \A q \in selected : q.target <= r.target
      BY <2>1 DEF Best
    <2>3. [at |-> r.at, target |-> r.target] \in given
      BY <2>1, <2>2 DEF Unlabelled
    <2>4. ASSUME \A p, q \in selected : p.label = q.label
          PROVE  {q \in selected : q.label = r.label} = selected
      BY <2>2, <2>4
    <2> QED BY <2>1, <2>2, <2>3, <2>4
  <1> QED BY <1>1, <1>2

LEMMA ParetoInvLists == ParetoInv => ParetoListsCorners
  <1> SUFFICES ASSUME ParetoInv PROVE ParetoListsCorners
    OBVIOUS
  <1>1. IsTable(given) /\ full = Pareto(given) /\ (view = "plot" => shown = ListedFor(threshold))
    BY DEF ParetoInv
  <1>2. ASSUME Regular(given), NEW i \in DOMAIN Thresholds, Thresholds[i] \notin Earlier(i)
        PROVE  /\ ListedFor(Thresholds[i])
                    = Corners(given, Thresholds[i]) \ UNION {Corners(given, th) : th \in Earlier(i)}
               /\ ListedFor(Thresholds[i]) \subseteq ParetoFront(given, Thresholds[i])
    <2>1. ListedFor(Thresholds[i])
            = Corners(given, Thresholds[i]) \ UNION {Corners(given, th) : th \in Earlier(i)}
      BY <1>1, <1>2, ListedAt, RowsAtAre DEF ListedFor
    <2>2. Corners(given, Thresholds[i]) \subseteq ParetoFront(given, Thresholds[i])
      BY <1>1, CornersAreOnFront
    <2> QED BY <2>1, <2>2
  <1>3. ASSUME NEW p \in full PROVE p.row \in Above(given, p.pareto_threshold)
    BY <1>1 DEF Pareto
  <1>4. /\ \A q \in selected : \E r \in given : q.target <= r.target
        /\ (\A r, q \in selected : r.label = q.label) => given = Unlabelled(selected)
    BY BestIsGiven DEF ParetoInv
  <1> QED BY <1>1, <1>2, <1>3, <1>4 DEF ParetoListsCorners

(* For any tables and thresholds, pareto() lists the corners of the front  *)
(* of each threshold that no earlier one has listed, where designs are all *)
(* combinations of some sizes and larger ones are never less efficient,    *)
(* and only rows above the threshold in any case (pareto.py 44-96); the    *)
(* plot shows those of its slider (pareto.py 181-229).  The rows pareto()  *)
(* gets are all that are selected where simulations have one row, and      *)
(* among them is the best of the selection in any case (pareto.py 213).    *)
THEOREM CornersAreListed == MCSpec => []ParetoListsCorners
  <1>1. MCInit => ParetoInv
    BY ParetoStart DEF MCInit
  <1> QED BY <1>1, ParetoStep, ParetoInvLists, PTL DEF MCSpec
=============================================================================
