--------------------------- MODULE ToolchainBuild ---------------------------
(***************************************************************************)
(* scripts/build_toolchains.sh and the three scripts it runs for one       *)
(* architecture, over the files they leave behind: archives, source trees  *)
(* and patches in the build directory, products in the output directory.   *)
(* The loop over the architectures repeats this with directories of its    *)
(* own.  A script ends at the first step it finds failed; the script that  *)
(* runs the three ignores how they ended.  Runs are repeated by the user.  *)
(***************************************************************************)
EXTENDS Integers, Sequences, FiniteSets

CONSTANTS
  GccPatches,  \* most files gcc-<version>*.patch in the patch directory
  Faults,      \* what may go wrong: download, unpack, build, interrupt
  MaxFaults,   \* how often
  MaxRuns      \* runs of the script that are counted

ASSUME ToolchainAssumption ==
  /\ GccPatches \in Nat
  /\ Faults \subseteq {"download", "unpack", "build", "interrupt"}
  /\ MaxFaults \in Nat /\ MaxRuns \in Nat \ {0}

Packages == {"binutils", "linux", "gcc", "glibc", "gmp"}
Products == {"binutils", "headers", "gmp", "stage1", "glibc", "gcc"}

(* A step, what it is about, and the tree it works in: GCC is built twice. *)
Step(op, arg)       == [op |-> op, arg |-> arg, from |-> arg]
Make(product, from) == [op |-> "build", arg |-> product, from |-> from]

BinutilsScript ==
  <<Step("fetch", "binutils"), Step("verify", "binutils"), Step("unpack", "binutils"),
    Make("binutils", "binutils")>>

HeadersScript ==
  <<Step("fetch", "linux"), Step("verify", "linux"), Step("unpack", "linux"),
    Make("headers", "linux")>>

GccScript ==
  <<Step("fetch", "gcc"), Step("verify", "gcc"),
    Step("fetch", "glibc"), Step("verify", "glibc"),
    Step("fetch", "gmp"), Step("verify", "gmp"),
    Step("unpack", "gcc"), Step("patch", "gcc"),
    Step("unpack", "glibc"), Step("unpack", "gmp"),
    Step("check", "binutils"),
    Make("gmp", "gmp"), Step("prerequisites", "gcc"),
    Make("stage1", "gcc"), Make("glibc", "glibc"), Make("gcc", "gcc")>>

Scripts == <<BinutilsScript, HeadersScript, GccScript>>
GccRun  == 3       \* the place of GccScript in Scripts

VARIABLES
  run,        \* runs of build_toolchains.sh so far, up to MaxRuns
  script,     \* 0 while no run is active, or the script that runs
  step,       \* its step
  patchFiles, \* patches there are for the version of GCC
  patchNo,    \* patches this run has applied to GCC
  archive,    \* per package: none, bad or good (with its signature)
  tree,       \* per package: none, partial or full source directory
  patches,    \* patches that are in the GCC tree
  prereqs,    \* none, partial or full: the libraries download_prerequisites
              \* has unpacked into the GCC tree
  installed,  \* per product: none, partial or full in its install directory
  faults,     \* faults so far
  patchedAt   \* history: patches in the GCC tree when this run began

disk == <<archive, tree, patches, prereqs, installed>>
vars == <<run, script, step, patchFiles, patchNo, disk, faults, patchedAt>>

TypeOK ==
  /\ run \in 0 .. MaxRuns
  /\ script \in 0 .. Len(Scripts)
  /\ script # 0 => step \in 1 .. Len(Scripts[script])
  /\ patchFiles \in 0 .. GccPatches
  /\ patchNo \in 0 .. patchFiles
  /\ archive \in [Packages -> {"none", "bad", "good"}]
  /\ tree \in [Packages -> {"none", "partial", "full"}]
  /\ patches \in 0 .. patchFiles
  /\ prereqs \in {"none", "partial", "full"}
  /\ installed \in [Products -> {"none", "partial", "full"}]
  /\ faults \in 0 .. MaxFaults
  /\ patchedAt \in 0 .. patchFiles

Init ==
  /\ run = 0 /\ script = 0 /\ step = 1 /\ patchNo = 0
  /\ patchFiles \in 0 .. GccPatches
  /\ archive = [p \in Packages |-> "none"]
  /\ tree = [p \in Packages |-> "none"]
  /\ patches = 0
  /\ prereqs = "none"
  /\ installed = [q \in Products |-> "none"]
  /\ faults = 0
  /\ patchedAt = 0

(* The user runs build_toolchains.sh, again and again. *)
Run ==
  /\ script = 0
  /\ run' = IF run < MaxRuns THEN run + 1 ELSE run
  /\ script' = 1 /\ step' = 1 /\ patchNo' = 0
  /\ patchedAt' = patches
  /\ UNCHANGED <<patchFiles, disk, faults>>

At(op) == script # 0 /\ Scripts[script][step].op = op
Arg    == Scripts[script][step].arg
From   == Scripts[script][step].from

(* The script ends, and the next one begins whatever its status was.       *)
Leave ==
  /\ script' = IF script = Len(Scripts) THEN 0 ELSE script + 1
  /\ step' = 1

(* The next line, or the end of the script. *)
Proceed ==
  IF step = Len(Scripts[script])
  THEN Leave
  ELSE step' = step + 1 /\ UNCHANGED script

Fault(f) == f \in Faults /\ faults < MaxFaults /\ faults' = faults + 1

(* curl -LO: an archive that exists is used as it is; curl's status is not *)
(* looked at, so an aborted or refused download leaves a bad file, and one *)
(* that reaches no server leaves none.  The mutant always downloads.       *)
FetchAlways ==
  /\ At("fetch")
  /\ \/ archive' = [archive EXCEPT ![Arg] = "good"] /\ UNCHANGED faults
     \/ archive' = [archive EXCEPT ![Arg] = "bad"] /\ Fault("download")
     \/ UNCHANGED archive /\ Fault("download")
  /\ Proceed
  /\ UNCHANGED <<run, patchFiles, patchNo, tree, patches, prereqs, installed, patchedAt>>

Fetch ==
  /\ At("fetch")
  /\ IF archive[Arg] # "none"
     THEN UNCHANGED <<archive, faults>>
     ELSE \/ archive' = [archive EXCEPT ![Arg] = "good"] /\ UNCHANGED faults
          \/ archive' = [archive EXCEPT ![Arg] = "bad"] /\ Fault("download")
          \/ UNCHANGED archive /\ Fault("download")
  /\ Proceed
  /\ UNCHANGED <<run, patchFiles, patchNo, tree, patches, prereqs, installed, patchedAt>>

(* gpg --verify: aborts unless the archive is what was signed.  The mutant *)
(* reports the failure and goes on.                                        *)
VerifyReportsOnly ==
  /\ At("verify")
  /\ Proceed
  /\ UNCHANGED <<run, patchFiles, patchNo, disk, faults, patchedAt>>

Verify ==
  /\ At("verify")
  /\ IF archive[Arg] = "good" THEN Proceed ELSE Leave
  /\ UNCHANGED <<run, patchFiles, patchNo, disk, faults, patchedAt>>

(* tar: a directory that exists is used as it is; the status of tar is not *)
(* looked at, so a full disk leaves a partial tree.                        *)
Unpack ==
  /\ At("unpack")
  /\ IF tree[Arg] # "none"
     THEN UNCHANGED <<tree, faults>>
     ELSE \/ tree' = [tree EXCEPT ![Arg] = "full"] /\ UNCHANGED faults
          \/ tree' = [tree EXCEPT ![Arg] = "partial"] /\ Fault("unpack")
  /\ Proceed
  /\ UNCHANGED <<run, patchFiles, patchNo, archive, patches, prereqs, installed, patchedAt>>

(* One pass of the loop over the patches of GCC, or its end; there are no  *)
(* patches of GLIBC and GMP.  patch writes to a log, so it asks nobody and *)
(* refuses a patch that is in the tree; it may also miss files in a        *)
(* partial tree.  The script aborts then.  The mutant skips a patch that   *)
(* is in the tree (patch -N).                                              *)
PatchNew ==
  /\ At("patch")
  /\ IF patchNo = patchFiles
     THEN Proceed /\ UNCHANGED <<patchNo, patches>>
     ELSE /\ patchNo' = patchNo + 1
          /\ patches' = IF patches > patchNo THEN patches ELSE patches + 1
          /\ UNCHANGED <<script, step>>
  /\ UNCHANGED <<run, patchFiles, archive, tree, prereqs, installed, faults, patchedAt>>

Patch ==
  /\ At("patch")
  /\ IF patchNo = patchFiles
     THEN Proceed /\ UNCHANGED <<patchNo, patches>>
     ELSE \/ /\ patches = patchNo
             /\ patchNo' = patchNo + 1 /\ patches' = patches + 1
             /\ UNCHANGED <<script, step>>
          \/ /\ patches # patchNo \/ tree["gcc"] = "partial"
             /\ Leave
             /\ UNCHANGED <<patchNo, patches>>
  /\ UNCHANGED <<run, patchFiles, archive, tree, prereqs, installed, faults, patchedAt>>

(* "Binutils are missing! Aborting": one file of them is enough.           *)
Check ==
  /\ At("check")
  /\ IF installed[Arg] # "none" THEN Proceed ELSE Leave
  /\ UNCHANGED <<run, patchFiles, patchNo, disk, faults, patchedAt>>

(* contrib/download_prerequisites, a script in the GCC tree, downloads GMP, *)
(* MPFR, MPC and ISL and unpacks them into the tree.  The build does not   *)
(* verify them, and does not look at the status: the script may have done  *)
(* nothing, or a part, which a repetition may or may not complete; it may  *)
(* be missing in a partial tree.                                           *)
Prerequisites ==
  /\ At("prerequisites")
  /\ \/ prereqs' = "full" /\ UNCHANGED faults
     \/ /\ prereqs # "full" /\ prereqs' \in {prereqs, "partial"}
        /\ \/ (prereqs = "partial" \/ tree[Arg] = "partial") /\ UNCHANGED faults
           \/ Fault("download") \/ Fault("unpack")
  /\ Proceed
  /\ UNCHANGED <<run, patchFiles, patchNo, archive, tree, patches, installed, patchedAt>>

Installed(state) == installed' = [installed EXCEPT ![Arg] = state]

(* make install stopped in its middle; files of an earlier install stay.   *)
InstalledInPart == IF installed[Arg] = "none" THEN Installed("partial") ELSE UNCHANGED installed

(* GLIBC's configure, told where the kernel headers are, ends with an error *)
(* when there are none.                                                    *)
Refused == Arg = "glibc" /\ installed["headers"] = "none"

(* A build may miss what an earlier step has left in part, or not at all.  *)
(* The machine may have the libraries that GCC is to be built with.        *)
Lacking ==
  \/ tree[From] = "partial"
  \/ From = "gcc" /\ prereqs # "full"
  \/ From \in {"gcc", "glibc"} /\ installed["binutils"] = "partial"
  \/ Arg = "glibc" /\ installed["headers"] = "partial"

(* The build fails before or in its install step, for a reason of its own  *)
(* or because something is lacking, or it is refused before anything.      *)
BuildFails ==
  \/ Refused /\ UNCHANGED <<installed, faults>>
  \/ /\ UNCHANGED installed \/ (~Refused /\ InstalledInPart)
     /\ Fault("build") \/ (Lacking /\ UNCHANGED faults)
Builds == ~Refused /\ Installed("full") /\ UNCHANGED faults

(* configure, make and make install of a product, the status of each of    *)
(* them looked at; what lacks something may build all the same.  The       *)
(* mutant does not look at the status.                                     *)
BuildUnchecked ==
  /\ At("build")
  /\ BuildFails \/ Builds
  /\ Proceed
  /\ UNCHANGED <<run, patchFiles, patchNo, archive, tree, patches, prereqs, patchedAt>>

Build ==
  /\ At("build")
  /\ (Builds /\ Proceed) \/ (BuildFails /\ Leave)
  /\ UNCHANGED <<run, patchFiles, patchNo, archive, tree, patches, prereqs, patchedAt>>

(* What a step in the middle of its work has written. *)
HalfDone ==
  /\ archive' = IF At("fetch") /\ archive[Arg] = "none"
                THEN [archive EXCEPT ![Arg] = "bad"] ELSE archive
  /\ tree' = IF At("unpack") /\ tree[Arg] = "none"
             THEN [tree EXCEPT ![Arg] = "partial"] ELSE tree
  /\ patches' = IF At("patch") /\ patches = patchNo /\ patchNo < patchFiles
                THEN patches + 1 ELSE patches
  /\ prereqs' = IF At("prerequisites") /\ prereqs = "none" THEN "partial" ELSE prereqs
  /\ IF At("build") /\ ~Refused THEN InstalledInPart ELSE UNCHANGED installed

(* The user interrupts the run in a step, or before it has written.        *)
Interrupt ==
  /\ script # 0 /\ Fault("interrupt")
  /\ script' = 0 /\ step' = 1
  /\ HalfDone \/ UNCHANGED disk
  /\ UNCHANGED <<run, patchFiles, patchNo, patchedAt>>

Next == Run \/ Fetch \/ Verify \/ Unpack \/ Patch \/ Check \/ Prerequisites \/ Build \/ Interrupt

Spec == Init /\ [][Next]_vars
-----------------------------------------------------------------------------
(* The five packages are only unpacked from archives that gpg has          *)
(* verified, whatever downloads and runs went before.                      *)
PackagesAreVerified == \A p \in Packages : tree[p] # "none" => archive[p] = "good"

(* What nobody verifies, the libraries in the GCC tree, is only there by   *)
(* the script of a GCC that was unpacked, from a verified archive, before. *)
PrerequisitesByGcc == prereqs # "none" => tree["gcc"] # "none" /\ archive["gcc"] = "good"

(* The invariant of the directories: their types, and what is unpacked. *)
Inv == TypeOK /\ PackagesAreVerified /\ PrerequisitesByGcc

(* A final GCC is only there with what it was to be built with, although   *)
(* no script looks at how the one before it ended: but the installations   *)
(* of binutils and of the kernel headers may have stopped in their middle, *)
(* and the libraries in its tree may be missing.                           *)
GccIsComplete ==
  installed["gcc"] = "full" =>
    /\ \A q \in {"binutils", "headers"} : installed[q] # "none"
    /\ \A q \in {"gmp", "stage1", "glibc"} : installed[q] = "full"

(* A run over a build directory whose GCC tree is patched never gets past  *)
(* the patches: what it has not installed by then it never will.           *)
PatchedTreeBlocks ==
  (script = GccRun /\ patchedAt > 0) =>
    \E i \in step .. Len(GccScript) : GccScript[i].op = "patch"

(* A bad archive of a package is never replaced, and the package is never  *)
(* unpacked.                                                               *)
BadArchiveStays ==
  [][\A p \in Packages : archive[p] = "bad" => archive'[p] = "bad" /\ tree'[p] = tree[p]]_vars

=============================================================================
