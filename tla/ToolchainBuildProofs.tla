------------------------ MODULE ToolchainBuildProofs ------------------------
(***************************************************************************)
(* Proofs about ToolchainBuild for any number of patches, faults and runs. *)
(***************************************************************************)
EXTENDS ToolchainBuild, TLAPS

(* The lengths of the scripts. *)
LEMMA ScriptLengths ==
  /\ Len(Scripts) = 3
  /\ Scripts[1] = BinutilsScript /\ Len(BinutilsScript) = 4
  /\ Scripts[2] = HeadersScript /\ Len(HeadersScript) = 4
  /\ Scripts[3] = GccScript /\ Len(GccScript) = 16
BY DEF Scripts, BinutilsScript, HeadersScript, GccScript

(* The lines of the short scripts, and of the long one. *)
LEMMA ShortScriptLines ==
  /\ BinutilsScript[1] = Step("fetch", "binutils") /\ BinutilsScript[2] = Step("verify", "binutils")
  /\ BinutilsScript[3] = Step("unpack", "binutils") /\ BinutilsScript[4] = Make("binutils", "binutils")
  /\ HeadersScript[1] = Step("fetch", "linux") /\ HeadersScript[2] = Step("verify", "linux")
  /\ HeadersScript[3] = Step("unpack", "linux") /\ HeadersScript[4] = Make("headers", "linux")
BY DEF BinutilsScript, HeadersScript

LEMMA GccScriptLines ==
  /\ GccScript[1] = Step("fetch", "gcc") /\ GccScript[2] = Step("verify", "gcc")
  /\ GccScript[3] = Step("fetch", "glibc") /\ GccScript[4] = Step("verify", "glibc")
  /\ GccScript[5] = Step("fetch", "gmp") /\ GccScript[6] = Step("verify", "gmp")
  /\ GccScript[7] = Step("unpack", "gcc") /\ GccScript[8] = Step("patch", "gcc")
  /\ GccScript[9] = Step("unpack", "glibc") /\ GccScript[10] = Step("unpack", "gmp")
  /\ GccScript[11] = Step("check", "binutils")
  /\ GccScript[12] = Make("gmp", "gmp") /\ GccScript[13] = Step("prerequisites", "gcc")
  /\ GccScript[14] = Make("stage1", "gcc") /\ GccScript[15] = Make("glibc", "glibc")
  /\ GccScript[16] = Make("gcc", "gcc")
BY DEF GccScript

OnLine == script # 0 /\ script \in 1 .. 3 /\ step \in 1 .. Len(Scripts[script])

(* A place in one of the scripts. *)
LEMMA Places ==
  ASSUME OnLine
  PROVE  \/ script = 1 /\ step \in {1, 2, 3, 4} /\ Scripts[script] = BinutilsScript
         \/ script = 2 /\ step \in {1, 2, 3, 4} /\ Scripts[script] = HeadersScript
         \/ script = 3 /\ step \in 1 .. 16 /\ Scripts[script] = GccScript
<1>1. CASE script = 1
  BY <1>1, ScriptLengths DEF OnLine
<1>2. CASE script = 2
  BY <1>2, ScriptLengths DEF OnLine
<1>3. CASE script = 3
  BY <1>3, ScriptLengths DEF OnLine
<1> QED BY <1>1, <1>2, <1>3 DEF OnLine

(* What the lines name. *)
LEMMA Arguments ==
  ASSUME OnLine
  PROVE  /\ At("fetch") \/ At("unpack") => Arg \in Packages
         /\ At("check") \/ At("build") => Arg \in Products
<1>1. CASE script = 1 \/ script = 2
  BY <1>1, Places, ShortScriptLines DEF At, Arg, Step, Make, Packages, Products
<1>2. CASE script = 3
  BY <1>2, Places, GccScriptLines DEF At, Arg, Step, Make, Packages, Products
<1> QED BY <1>1, <1>2, Places

(* A source is unpacked below the line that verifies its archive. *)
LEMMA UnpackAfterVerify ==
  ASSUME OnLine, At("unpack")
  PROVE  \E i \in 1 .. step - 1 : Scripts[script][i] = Step("verify", Arg)
<1>1. CASE script = 1 \/ script = 2
  <2>1. step = 3 /\ Scripts[script][2] = Step("verify", Arg)
    BY <1>1, Places, ShortScriptLines DEF At, Arg, Step, Make
  <2> QED BY <2>1
<1>2. CASE script = 3
  <2>1. \/ step = 7 /\ Scripts[script][2] = Step("verify", Arg)
        \/ step = 9 /\ Scripts[script][4] = Step("verify", Arg)
        \/ step = 10 /\ Scripts[script][6] = Step("verify", Arg)
    BY <1>2, Places, GccScriptLines DEF At, Arg, Step, Make
  <2> QED BY <2>1
<1> QED BY <1>1, <1>2, Places

(* Where the operations of the script for GCC are. *)
LEMMA GccPlaces ==
  ASSUME OnLine, script = GccRun
  PROVE  /\ At("patch") <=> step = 8
         /\ At("check") <=> step = 11
         /\ At("prerequisites") <=> step = 13
         /\ At("build") <=> step \in {12, 14, 15, 16}
         /\ step = 11 => Arg = "binutils"
         /\ step = 12 => Arg = "gmp"
         /\ step = 14 => Arg = "stage1"
         /\ step = 15 => Arg = "glibc"
         /\ step = 16 => Arg = "gcc"
BY Places, GccScriptLines DEF At, Arg, Step, Make, GccRun

(* GCC is patched and built by its own script only, and its libraries are  *)
(* fetched by it.                                                          *)
LEMMA OnlyGccScript ==
  ASSUME OnLine, script # GccRun
  PROVE  /\ ~At("patch") /\ ~At("check") /\ ~At("prerequisites")
         /\ At("build") => Arg \in {"binutils", "headers"}
BY Places, ShortScriptLines DEF At, Arg, Step, Make, GccRun

(* A script goes on or ends. *)
LEMMA ProceedOrLeave ==
  ASSUME OnLine, Proceed
  PROVE  \/ script' = script /\ step' = step + 1 /\ step < Len(Scripts[script])
         \/ Leave
BY Places, ScriptLengths DEF OnLine, Proceed

LEMMA LeaveType ==
  ASSUME OnLine, Leave
  PROVE  script' \in 0 .. 3 /\ step' = 1 /\ (script' # 0 => step' \in 1 .. Len(Scripts[script']))
<1>1. script' \in 0 .. 3 /\ step' = 1
  BY ScriptLengths DEF OnLine, Leave
<1>2. CASE script' = 1
  BY <1>1, <1>2, ScriptLengths
<1>3. CASE script' = 2
  BY <1>1, <1>3, ScriptLengths
<1>4. CASE script' = 3
  BY <1>1, <1>4, ScriptLengths
<1> QED BY <1>1, <1>2, <1>3, <1>4
-----------------------------------------------------------------------------
(* Types. *)

PositionOK == script \in 0 .. 3 /\ (script # 0 => step \in 1 .. Len(Scripts[script]))

LEMMA TypePosition == TypeOK => PositionOK /\ (script # 0 => OnLine)
BY ScriptLengths DEF TypeOK, PositionOK, OnLine

LEMMA ProceedPosition ==
  ASSUME OnLine, Proceed \/ Leave \/ UNCHANGED <<script, step>>
  PROVE  PositionOK'
BY ProceedOrLeave, LeaveType, Places, ScriptLengths DEF OnLine, PositionOK

LEMMA InitType == Init => TypeOK
BY ToolchainAssumption, ScriptLengths DEF Init, TypeOK

LEMMA TypeStep == TypeOK /\ [Next]_vars => TypeOK'
<1> SUFFICES ASSUME TypeOK, [Next]_vars PROVE TypeOK'
  OBVIOUS
<1> USE ToolchainAssumption
<1>0. /\ Len(Scripts) = 3
      /\ script # 0 => OnLine
      /\ script # 0 => (At("fetch") \/ At("unpack") => Arg \in Packages)
      /\ script # 0 => (At("check") \/ At("build") => Arg \in Products)
  BY ScriptLengths, TypePosition, Arguments
<1>1. CASE Run
  BY <1>1, ScriptLengths DEF Run, TypeOK, disk
<1>2. CASE Fetch
  <2>1. PositionOK'
    BY <1>0, <1>2, ProceedPosition DEF Fetch, At
  <2> QED BY <1>0, <1>2, <2>1 DEF Fetch, At, Fault, TypeOK, PositionOK
<1>3. CASE Verify
  <2>1. PositionOK'
    BY <1>0, <1>3, ProceedPosition DEF Verify, At
  <2> QED BY <1>0, <1>3, <2>1 DEF Verify, TypeOK, PositionOK, disk
<1>4. CASE Unpack
  <2>1. PositionOK'
    BY <1>0, <1>4, ProceedPosition DEF Unpack, At
  <2> QED BY <1>0, <1>4, <2>1 DEF Unpack, At, Fault, TypeOK, PositionOK
<1>5. CASE Patch
  <2>1. PositionOK'
    BY <1>0, <1>5, ProceedPosition DEF Patch, At
  <2> QED BY <1>0, <1>5, <2>1 DEF Patch, TypeOK, PositionOK
<1>6. CASE Check
  <2>1. PositionOK'
    BY <1>0, <1>6, ProceedPosition DEF Check, At
  <2> QED BY <1>0, <1>6, <2>1 DEF Check, TypeOK, PositionOK, disk
<1>7. CASE Build
  <2>1. PositionOK'
    BY <1>0, <1>7, ProceedPosition DEF Build, At
  <2> QED BY <1>0, <1>7, <2>1
          DEF Build, Builds, BuildFails, Installed, InstalledInPart, At, Fault, TypeOK, PositionOK
<1>8. CASE Prerequisites
  <2>1. PositionOK'
    BY <1>0, <1>8, ProceedPosition DEF Prerequisites, At
  <2> QED BY <1>0, <1>8, <2>1 DEF Prerequisites, Fault, TypeOK, PositionOK
<1>9. CASE Interrupt
  BY <1>0, <1>9 DEF Interrupt, HalfDone, InstalledInPart, Installed, At, Fault, TypeOK, disk
<1>10. CASE UNCHANGED vars
  BY <1>10 DEF vars, disk, TypeOK
<1> QED BY <1>1, <1>2, <1>3, <1>4, <1>5, <1>6, <1>7, <1>8, <1>9, <1>10 DEF Next

(* Every reachable state of the build is well-typed. *)
THEOREM TypeCorrect == Spec => []TypeOK
BY InitType, TypeStep, PTL DEF Spec

-----------------------------------------------------------------------------
(* Archives. *)

(* What the script that runs has verified is still what was signed. *)
Verified ==
  script # 0 =>
    \A p \in Packages : \A i \in 1 .. step - 1 :
      Scripts[script][i] = Step("verify", p) => archive[p] = "good"

(* Past its seventh line the script for GCC has a GCC tree. *)
GccUnpacked == script = GccRun /\ step > 7 => tree["gcc"] # "none"

(* The inductive invariant: types, what has been verified in this run,     *)
(* what all runs together have unpacked, and the libraries in a GCC tree.  *)
ArchiveInv == TypeOK /\ Verified /\ PackagesAreVerified /\ GccUnpacked /\ PrerequisitesByGcc

(* An archive that is there is never touched. *)
LEMMA ArchivesStay ==
  ASSUME TypeOK, [Next]_vars, NEW p \in Packages, archive[p] # "none"
  PROVE  archive'[p] = archive[p]
BY DEF TypeOK, Next, Run, Fetch, Verify, Unpack, Patch, Check, Prerequisites, Build, Interrupt, HalfDone, vars, disk

(* A tree only appears where its archive was verified in the same run. *)
LEMMA UnpackVerified ==
  ASSUME TypeOK, Verified, script # 0, At("unpack")
  PROVE  Arg \in Packages /\ archive[Arg] = "good"
<1>1. OnLine /\ step \in Nat
  BY TypePosition, Places
<1>2. PICK i \in 1 .. step - 1 : Scripts[script][i] = Step("verify", Arg)
  BY <1>1, UnpackAfterVerify
<1> QED BY <1>1, <1>2, Arguments DEF Verified, Step

LEMMA TreesVerified ==
  ASSUME TypeOK, Verified, [Next]_vars, NEW p \in Packages, tree'[p] # tree[p]
  PROVE  archive[p] = "good"
<1>1. At("unpack") /\ script # 0 /\ Arg = p
  BY DEF TypeOK, Next, Run, Fetch, Verify, Unpack, Patch, Check, Prerequisites, Build, Interrupt, HalfDone, At, vars, disk
<1> QED BY <1>1, UnpackVerified

(* How the place in the scripts changes. *)
LEMMA Moves ==
  ASSUME TypeOK, [Next]_vars
  PROVE  \/ UNCHANGED <<script, step>>
         \/ step' = 1
         \/ /\ OnLine /\ script' = script /\ step' = step + 1
            /\ step < Len(Scripts[script])
            /\ Fetch \/ Verify \/ Unpack \/ Patch \/ Check \/ Prerequisites \/ Build
<1>1. script # 0 => OnLine
  BY TypePosition
<1>2. CASE Run \/ Interrupt \/ UNCHANGED vars
  BY <1>2 DEF Run, Interrupt, vars
<1>3. CASE Fetch \/ Verify \/ Unpack \/ Patch \/ Check \/ Prerequisites \/ Build
  <2>1. OnLine
    BY <1>1, <1>3 DEF Fetch, Verify, Unpack, Patch, Check, Prerequisites, Build, At
  <2>2. Proceed \/ Leave \/ UNCHANGED <<script, step>>
    BY <1>3 DEF Fetch, Verify, Unpack, Patch, Check, Prerequisites, Build
  <2> QED BY <1>3, <2>1, <2>2, ProceedOrLeave DEF Leave
<1> QED BY <1>2, <1>3 DEF Next

(* A script only goes past a line that verifies when the archive is good. *)
LEMMA VerifiedStep ==
  ASSUME TypeOK, Verified, [Next]_vars
  PROVE  Verified'
<1> SUFFICES ASSUME script' # 0, NEW p \in Packages, NEW i \in 1 .. step' - 1,
                    Scripts[script'][i] = Step("verify", p)
             PROVE  archive'[p] = "good"
  BY DEF Verified
<1>1. CASE step' = 1
  BY <1>1
<1>2. CASE UNCHANGED <<script, step>>
  BY <1>2, ArchivesStay DEF Verified
<1>3. CASE /\ OnLine /\ script' = script /\ step' = step + 1
           /\ Fetch \/ Verify \/ Unpack \/ Patch \/ Check \/ Prerequisites \/ Build
  <2>1. step \in Nat
    BY <1>3, Places
  <2>2. CASE i = step
    <3>1. At("verify") /\ Arg = p
      BY <1>3, <2>2 DEF At, Arg, Step, OnLine
    <3>2. Verify
      BY <1>3, <3>1 DEF At, Fetch, Verify, Unpack, Patch, Check, Prerequisites, Build
    <3>3. archive[p] = "good"
      BY <1>3, <2>1, <3>1, <3>2 DEF Verify, Leave, OnLine
    <3> QED BY <3>3, ArchivesStay
  <2>3. CASE i # step
    BY <1>3, <2>1, <2>3, ArchivesStay DEF Verified, OnLine
  <2> QED BY <2>2, <2>3
<1> QED BY <1>1, <1>2, <1>3, Moves

(* No step takes away a tree. *)
LEMMA TreesStay ==
  ASSUME TypeOK, [Next]_vars, NEW p \in Packages, tree[p] # "none"
  PROVE  tree'[p] # "none"
BY DEF TypeOK, Next, Run, Fetch, Verify, Unpack, Patch, Check, Prerequisites, Build, Interrupt, HalfDone, vars, disk

LEMMA UnpackedStep ==
  ASSUME TypeOK, GccUnpacked, [Next]_vars
  PROVE  GccUnpacked'
<1> SUFFICES ASSUME script' = GccRun, step' > 7 PROVE tree'["gcc"] # "none"
  BY DEF GccUnpacked
<1>1. CASE step' = 1
  BY <1>1
<1>2. CASE UNCHANGED <<script, step>>
  BY <1>2, TreesStay DEF GccUnpacked, Packages
<1>3. CASE /\ OnLine /\ script' = script /\ step' = step + 1
           /\ Fetch \/ Verify \/ Unpack \/ Patch \/ Check \/ Prerequisites \/ Build
  <2>1. step \in Nat
    BY <1>3, Places
  <2>2. CASE step = 7
    <3>1. At("unpack") /\ Arg = "gcc"
      BY <1>3, <2>2, Places, GccScriptLines DEF At, Arg, Step, GccRun
    <3>2. Unpack
      BY <1>3, <3>1 DEF At, Fetch, Verify, Unpack, Patch, Check, Prerequisites, Build
    <3> QED BY <3>1, <3>2 DEF Unpack, TypeOK, Packages
  <2>3. CASE step # 7
    BY <1>3, <2>1, <2>3, TreesStay DEF GccUnpacked, Packages
  <2> QED BY <2>2, <2>3
<1> QED BY <1>1, <1>2, <1>3, Moves

(* Libraries only come where a GCC tree is. *)
LEMMA PrerequisitesStep ==
  ASSUME TypeOK, GccUnpacked, PrerequisitesByGcc, PackagesAreVerified, [Next]_vars
  PROVE  PrerequisitesByGcc'
<1> SUFFICES ASSUME prereqs' # "none" PROVE tree'["gcc"] # "none" /\ archive'["gcc"] = "good"
  BY DEF PrerequisitesByGcc
<1>1. script # 0 => OnLine
  BY TypePosition
<1>2. CASE prereqs # "none"
  BY <1>2, TreesStay, ArchivesStay DEF PrerequisitesByGcc, Packages
<1>3. CASE prereqs = "none"
  <2>1. script # 0 /\ At("prerequisites")
    BY <1>3 DEF Next, Run, Fetch, Verify, Unpack, Patch, Check, Prerequisites, Build, Interrupt, HalfDone, At, vars, disk
  <2>2. script = GccRun /\ step = 13
    BY <1>1, <2>1, OnlyGccScript, GccPlaces
  <2>3. tree["gcc"] # "none" /\ archive["gcc"] = "good"
    BY <2>2 DEF GccUnpacked, PackagesAreVerified, Packages
  <2> QED BY <2>3, TreesStay, ArchivesStay DEF Packages
<1> QED BY <1>2, <1>3

(* A tree that counts as unpacked came out of an archive whose signature   *)
(* was verified, a script only gets past a verification that held, and     *)
(* unverified libraries only stand in the tree of a verified GCC.          *)
THEOREM ArchiveInvariant == Spec => []ArchiveInv
<1>1. Init => ArchiveInv
  BY InitType DEF Init, ArchiveInv, Verified, PackagesAreVerified, GccUnpacked, PrerequisitesByGcc, GccRun
<1>2. ArchiveInv /\ [Next]_vars => ArchiveInv'
  <2> SUFFICES ASSUME ArchiveInv, [Next]_vars PROVE PackagesAreVerified'
    BY TypeStep, VerifiedStep, UnpackedStep, PrerequisitesStep DEF ArchiveInv
  <2> SUFFICES ASSUME NEW p \in Packages, tree'[p] # "none" PROVE archive'[p] = "good"
    BY DEF PackagesAreVerified
  <2> QED BY TreesVerified, ArchivesStay DEF ArchiveInv, PackagesAreVerified
<1> QED BY <1>1, <1>2, PTL DEF Spec

(* The types; that the five packages, whose archives gpg is to verify, are *)
(* only unpacked from verified ones, whatever downloads, interruptions and *)
(* runs went before; and that the libraries that download_prerequisites    *)
(* unpacks, which are not verified, only come into a tree of such a GCC    *)
(* (build_gcc_and_glibc.sh 144-206, 332).                                  *)
THEOREM PackagesUnpackedVerified == Spec => []Inv
BY ArchiveInvariant, PTL DEF ArchiveInv, Inv

(* A bad archive is neither replaced nor unpacked by any later run. *)
THEOREM BadArchivesStay == Spec => BadArchiveStays
<1>1. ArchiveInv /\ [Next]_vars =>
        [\A p \in Packages : archive[p] = "bad" => archive'[p] = "bad" /\ tree'[p] = tree[p]]_vars
  BY ArchivesStay, TreesVerified DEF ArchiveInv
<1> QED BY <1>1, ArchiveInvariant, PTL DEF Spec, BadArchiveStays

-----------------------------------------------------------------------------
(* A patched tree. *)

(* While a run goes on that found GCC patched, no patch is applied: the    *)
(* tree has more patches than the run, which has none, and the script for  *)
(* GCC is not past its line 8.                                             *)
Blocked ==
  (script # 0 /\ patchedAt > 0) =>
    /\ patchNo = 0 /\ patches > 0
    /\ script = GccRun => step <= 8

PatchInv == TypeOK /\ Blocked

LEMMA BlockedStep ==
  ASSUME TypeOK, Blocked, [Next]_vars
  PROVE  Blocked'
<1> SUFFICES ASSUME script' # 0, patchedAt' > 0
             PROVE  patchNo' = 0 /\ patches' > 0 /\ (script' = GccRun => step' <= 8)
  BY DEF Blocked
<1> USE ToolchainAssumption
<1>1. script # 0 => OnLine
  BY TypePosition
<1>2. CASE Run
  BY <1>2 DEF Run, disk, TypeOK, GccRun
<1>3. CASE Interrupt
  BY <1>3 DEF Interrupt
<1>4. CASE Patch
  <2>1. OnLine /\ script = GccRun
    BY <1>1, <1>4, OnlyGccScript DEF Patch, At
  <2>2. patchNo = 0 /\ patches > 0 /\ patches \in Nat /\ patchFiles > 0
    BY <1>4, <2>1 DEF Patch, Blocked, TypeOK, OnLine
  <2>3. Leave /\ UNCHANGED <<patchNo, patches>>
    BY <1>4, <2>2 DEF Patch
  <2> QED BY <2>2, <2>3 DEF Leave
<1>5. CASE Fetch \/ Verify \/ Unpack \/ Check \/ Prerequisites \/ Build
  <2>1. OnLine /\ patchedAt > 0 /\ UNCHANGED <<patchNo, patches>>
    BY <1>1, <1>5 DEF Fetch, Verify, Unpack, Check, Prerequisites, Build, At, disk
  <2>2. script = GccRun => step # 8
    BY <1>5, <2>1, GccPlaces DEF Fetch, Verify, Unpack, Check, Prerequisites, Build, At
  <2>3. script' = GccRun => step' <= 8
    BY <1>5, <2>1, <2>2, Moves, Places DEF Blocked, OnLine
  <2> QED BY <2>1, <2>3 DEF Blocked, OnLine
<1>6. CASE UNCHANGED vars
  BY <1>6 DEF vars, disk, Blocked
<1> QED BY <1>2, <1>3, <1>4, <1>5, <1>6 DEF Next

(* A run over a patched GCC tree never gets past the patches, for any      *)
(* number of patches (build_gcc_and_glibc.sh 215-225).                     *)
THEOREM PatchedTreesBlock == Spec => []PatchedTreeBlocks
<1>1. Init => PatchInv
  BY InitType DEF Init, PatchInv, Blocked
<1>2. PatchInv /\ [Next]_vars => PatchInv'
  BY TypeStep, BlockedStep DEF PatchInv
<1>3. PatchInv => PatchedTreeBlocks
  <2> SUFFICES ASSUME PatchInv, script = GccRun, patchedAt > 0
               PROVE  \E i \in step .. Len(GccScript) : GccScript[i].op = "patch"
    BY DEF PatchedTreeBlocks
  <2>1. OnLine /\ step \in 1 .. 16
    BY TypePosition, Places DEF PatchInv, GccRun
  <2>2. step <= 8
    BY <2>1 DEF PatchInv, Blocked, OnLine
  <2>3. GccScript[8].op = "patch"
    BY GccScriptLines DEF Step
  <2>4. 8 \in step .. Len(GccScript)
    BY <2>1, <2>2, ScriptLengths
  <2> QED BY <2>3, <2>4
<1> QED BY <1>1, <1>2, <1>3, PTL DEF Spec
-----------------------------------------------------------------------------
(* The final compiler. *)

(* What the script for GCC has passed is installed. *)
Behind ==
  script = GccRun =>
    /\ step > 11 => installed["binutils"] # "none"
    /\ step > 12 => installed["gmp"] = "full"
    /\ step > 14 => installed["stage1"] = "full"
    /\ step > 15 => installed["glibc"] = "full"

(* GLIBC is only built where kernel headers are. *)
GlibcHasHeaders == installed["glibc"] = "full" => installed["headers"] # "none"

CompleteInv == TypeOK /\ Behind /\ GlibcHasHeaders /\ GccIsComplete

(* No step takes away what is installed. *)
LEMMA InstalledStays ==
  ASSUME TypeOK, [Next]_vars, NEW q \in Products
  PROVE  /\ installed[q] = "full" => installed'[q] = "full"
         /\ installed[q] # "none" => installed'[q] # "none"
BY DEF TypeOK, Next, Run, Fetch, Verify, Unpack, Patch, Check, Prerequisites, Build, Interrupt, HalfDone,
   Builds, BuildFails, InstalledInPart, Installed, vars, disk

(* A build that the script goes past has installed its product. *)
LEMMA BuildInstalls ==
  ASSUME TypeOK, Build, script' = script, step' = step + 1
  PROVE  Arg \in Products /\ installed'[Arg] = "full"
<1>1. OnLine /\ step \in Nat
  BY TypePosition, Places DEF Build, At
<1>2. Arg \in Products
  BY <1>1, Arguments DEF Build
<1>3. ~Leave
  BY <1>1, ScriptLengths DEF Leave, OnLine
<1> QED BY <1>2, <1>3 DEF Build, Builds, Installed, TypeOK

LEMMA BehindStep ==
  ASSUME TypeOK, Behind, [Next]_vars
  PROVE  Behind'
<1> DEFINE Products4 == {"binutils", "gmp", "stage1", "glibc"}
<1>1. /\ Products4 \subseteq Products
      /\ \A q \in Products4 : installed[q] = "full" => installed'[q] = "full"
      /\ installed["binutils"] # "none" => installed'["binutils"] # "none"
  BY InstalledStays DEF Products
<1>2. CASE step' = 1
  BY <1>2 DEF Behind
<1>3. CASE UNCHANGED <<script, step>>
  BY <1>1, <1>3 DEF Behind
<1>4. CASE /\ OnLine /\ script' = script /\ step' = step + 1
           /\ Fetch \/ Verify \/ Unpack \/ Patch \/ Check \/ Prerequisites \/ Build
  <2> SUFFICES ASSUME script = GccRun PROVE Behind'
    BY <1>4 DEF Behind
  <2>1. step \in Nat
    BY <1>4, Places
  <2>2. CASE step = 11
    <3>1. Check /\ Arg = "binutils"
      BY <1>4, <2>2, GccPlaces DEF At, Fetch, Verify, Unpack, Patch, Check, Prerequisites, Build
    <3>2. installed["binutils"] # "none"
      BY <1>4, <2>1, <3>1, ScriptLengths DEF Check, Leave, OnLine
    <3> QED BY <1>1, <1>4, <2>2, <3>2 DEF Behind
  <2>3. CASE step \in {12, 14, 15}
    <3>1. Build
      BY <1>4, <2>3, GccPlaces DEF At, Fetch, Verify, Unpack, Patch, Check, Prerequisites, Build
    <3>2. installed'[Arg] = "full"
      BY <1>4, <3>1, BuildInstalls
    <3> QED BY <1>1, <1>4, <2>3, <3>2, GccPlaces DEF Behind
  <2>4. CASE step \notin {11, 12, 14, 15}
    BY <1>1, <1>4, <2>1, <2>4 DEF Behind
  <2> QED BY <2>2, <2>3, <2>4
<1> QED BY <1>2, <1>3, <1>4, Moves

LEMMA HeadersStep ==
  ASSUME TypeOK, GlibcHasHeaders, [Next]_vars
  PROVE  GlibcHasHeaders'
<1> SUFFICES ASSUME installed'["glibc"] = "full", installed["glibc"] # "full"
             PROVE  installed'["headers"] # "none"
  BY InstalledStays DEF GlibcHasHeaders, Products
<1>1. Build /\ Arg = "glibc" /\ ~Refused
  BY DEF TypeOK, Next, Run, Fetch, Verify, Unpack, Patch, Check, Prerequisites, Build, Interrupt, HalfDone,
     Builds, BuildFails, InstalledInPart, Installed, vars, disk, Products
<1>2. installed["headers"] # "none"
  BY <1>1 DEF Refused
<1> QED BY <1>2, InstalledStays DEF Products

LEMMA CompleteStep ==
  ASSUME TypeOK, Behind, GlibcHasHeaders, GccIsComplete, [Next]_vars
  PROVE  GccIsComplete'
<1> SUFFICES ASSUME installed'["gcc"] = "full", installed["gcc"] # "full"
             PROVE  GccIsComplete'
  BY InstalledStays DEF GccIsComplete, Products
<1>1. Build /\ Arg = "gcc"
  BY DEF TypeOK, Next, Run, Fetch, Verify, Unpack, Patch, Check, Prerequisites, Build, Interrupt, HalfDone,
     Builds, BuildFails, InstalledInPart, Installed, vars, disk, Products
<1>2. OnLine
  BY <1>1, TypePosition DEF Build, At
<1>3. script = GccRun /\ step = 16
  BY <1>1, <1>2, OnlyGccScript, GccPlaces DEF Build
<1>4. /\ installed["binutils"] # "none" /\ installed["headers"] # "none"
      /\ \A q \in {"gmp", "stage1", "glibc"} : installed[q] = "full"
  BY <1>3 DEF Behind, GlibcHasHeaders
<1> QED BY <1>4, InstalledStays DEF GccIsComplete, Products

(* A final GCC is there only with what it was to be built with, whatever   *)
(* earlier runs and scripts left unfinished.                               *)
THEOREM FinalGccIsComplete == Spec => []GccIsComplete
<1>1. Init => CompleteInv
  BY InitType DEF Init, CompleteInv, Behind, GlibcHasHeaders, GccIsComplete, Products, GccRun
<1>2. CompleteInv /\ [Next]_vars => CompleteInv'
  BY TypeStep, BehindStep, HeadersStep, CompleteStep DEF CompleteInv
<1> QED BY <1>1, <1>2, PTL DEF Spec, CompleteInv
=============================================================================
