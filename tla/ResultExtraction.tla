-------------------------- MODULE ResultExtraction --------------------------
(***************************************************************************)
(* analysis/extract_gemm_data.py over build_df() of data_extraction.py:    *)
(* the files of a job's directory are read by a pool of processes, and     *)
(* their frames, which come in any order, are merged in batches.  Nothing  *)
(* keeps it from running while sweeps write, or after one was killed.  A   *)
(* frame is the name of its file and the sweep whose rows it has.          *)
(***************************************************************************)
EXTENDS ClusterSweep

CONSTANTS
  Cores,          \* processes the machine has cores and memory for
  DfMergeCount    \* df_merge_count

ASSUME ExtractionAssumption == Cores \in Nat \ {0} /\ DfMergeCount \in Nat

VARIABLES
  phase,          \* idle, pool, extracted, failed or ended
  began,          \* how far the job was when it started
  select,         \* vector lengths that --select asks for
  statfile_list,  \* all files that were found
  todo,           \* files no process has taken
  reading,        \* frames that processes have read and not yet returned
  stat_df,        \* frames that are merged
  df_list,        \* frames that wait to be
  output          \* what is saved in the end

exVars == <<phase, began, select, statfile_list, todo, reading, stat_df, df_list, output>>

ExInit ==
  /\ phase = "idle" /\ began = "none" /\ select = {} /\ statfile_list = {} /\ todo = {} /\ reading = {}
  /\ stat_df = <<>> /\ df_list = <<>> /\ output = <<>>

MaxWorkers == IF Cardinality(statfile_list) < Cores THEN Cardinality(statfile_list) ELSE Cores

(* A pool of no processes is refused. *)
ListFiles(vlens) ==
  /\ phase = "idle"
  /\ began' = script /\ select' = vlens /\ statfile_list' = DOMAIN files /\ todo' = DOMAIN files
  /\ phase' = IF files = <<>> THEN "failed" ELSE "pool"
  /\ UNCHANGED <<reading, stat_df, df_list, output>>

(* extract_target() in a process of the pool.  A file that cannot be read  *)
(* leaves df without a value, which the next line uses.                    *)
ExtractTarget(f) ==
  /\ phase = "pool" /\ f \in todo /\ Cardinality(reading) < MaxWorkers
  /\ todo' = todo \ {f}
  /\ reading' = reading \cup {[name |-> f, sweep |-> files[f].sweep, raised |-> ~files[f].whole]}
  /\ UNCHANGED <<phase, began, select, statfile_list, stat_df, df_list, output>>

(* The query keeps all rows of a frame or none. *)
HasRows(r) == Vlens[r.sweep[1] + 1] \in select

(* stat_df.empty *)
IsEmpty(df) == \A i \in DOMAIN df : ~HasRows(df[i])

(* Frames without rows add nothing to what is merged.  The mutant forgets  *)
(* the first frame when it merges.                                         *)
MergedForgets(df, list) == list
Merged(df, list) == df \o list

(* The loop over the results.  A frame without rows can be the first one,  *)
(* which the next replaces, or wait in the list.                           *)
Result(r) ==
  /\ phase = "pool" /\ r \in reading
  /\ reading' = reading \ {r}
  /\ IF r.raised THEN phase' = "failed" /\ UNCHANGED <<stat_df, df_list>>
     ELSE LET df == IF IsEmpty(stat_df) THEN <<r>> ELSE stat_df
              list == IF IsEmpty(stat_df) THEN df_list ELSE Append(df_list, r)
          IN /\ phase' = phase
             /\ IF Len(list) > DfMergeCount
                THEN stat_df' = Merged(df, list) /\ df_list' = <<>>
                ELSE stat_df' = df /\ df_list' = list
  /\ UNCHANGED <<began, select, statfile_list, todo, output>>

(* After the last result. *)
MergeRest ==
  /\ phase = "pool" /\ todo = {} /\ reading = {}
  /\ stat_df' = Merged(stat_df, df_list) /\ df_list' = <<>> /\ phase' = "extracted"
  /\ UNCHANGED <<began, select, statfile_list, todo, reading, output>>

(* With --list-stats, or an --output of any other ending, nothing is saved. *)
WriteOutput ==
  /\ phase = "extracted" /\ phase' = "ended"
  /\ \E saves \in BOOLEAN : output' = IF saves THEN stat_df ELSE <<>>
  /\ UNCHANGED <<began, select, statfile_list, todo, reading, stat_df, df_list>>

ExNext ==
  \/ \E vlens \in {{Vlens[1]}, {Vlens[i] : i \in DOMAIN Vlens}} : ListFiles(vlens)
  \/ \E f \in todo : ExtractTarget(f)
  \/ \E r \in reading : Result(r)
  \/ MergeRest
  \/ WriteOutput

-----------------------------------------------------------------------------
(* At every moment, and so in the result, each file that was found is yet  *)
(* to be taken, is being read, or has come in; what has come in is there   *)
(* once at most, merged or waiting, and its rows are there if and only if  *)
(* they are selected, under the order and batches in which it came.  An    *)
(* extraction that started when the job was over has the rows of the sweep *)
(* that wrote each file last, or has failed because a sweep failed or two  *)
(* sweeps shared a file; there are never more frames in flight than there  *)
(* are processes.                                                          *)
Frames == stat_df \o df_list

RowsKept ==
  /\ \A i, k \in DOMAIN Frames : Frames[i].name = Frames[k].name => i = k
  /\ \A i \in DOMAIN Frames : Frames[i].name \in statfile_list \ todo
  /\ Cardinality(reading) <= Cores /\ Len(df_list) <= DfMergeCount
  /\ phase \in {"pool", "extracted", "ended"} =>
       \A f \in statfile_list \ (todo \cup {r.name : r \in reading}) :
         (\E i \in DOMAIN Frames : Frames[i].name = f /\ HasRows(Frames[i])) <=> f[1] \in select
  /\ began = "done" =>
       /\ \A i \in DOMAIN Frames : Frames[i].sweep = files[Frames[i].name].sweep
       /\ phase = "failed" => statfile_list = {} \/ (\E j \in Jobs : state[j] = "failed") \/ (\E f \in statfile_list : files[f].shared)
=============================================================================
