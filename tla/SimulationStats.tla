-------------------------- MODULE SimulationStats --------------------------
(***************************************************************************)
(* How simrun() of configs/multi-isa-nanogemm.py turns the statistics of   *)
(* one simulation into a data frame: a column of values per statistic, one *)
(* row per "workend" event of the workload.                                *)
(*                                                                         *)
(* Every column but those of a distribution's buckets gets one value per   *)
(* row.  A distribution may change its bucket size between two rows, so    *)
(* its bucket columns come and go; append_stats() fills the gaps with      *)
(* zeroes and fix_stat_list() fills the ends.  One distribution stands for *)
(* all of them, and "cycles" for every scalar, formula and vector element. *)
(***************************************************************************)
EXTENDS Integers, Sequences, FiniteSetsExt, SequencesExt

CONSTANTS
  NumBuckets,  \* buckets of the distribution
  Sizes,       \* bucket sizes it may have
  MaxCount,    \* samples in a bucket and cycles of a run, at most
  MaxRuns      \* "workend" events of the workload, at most

ASSUME StatsAssumption ==
  /\ NumBuckets \in Nat \ {0}
  /\ Sizes \subseteq Nat \ {0} /\ Sizes # {}
  /\ MaxCount \in Nat \ {0}
  /\ MaxRuns \in Nat \ {0}

Indices == 0 .. NumBuckets - 1

VARIABLES
  size,     \* bucket size of the distribution now
  values,   \* samples per bucket now
  cycles,   \* value of the other statistics now
  fixed,    \* columns with one value per row: cycles, min_value, samples, run
  buckets,  \* bucket columns, by the bucket's first and last value
  run,      \* rows so far
  put,      \* the frame has been put on the queue
  rows      \* history: what the statistics were at every "workend"

stats   == <<size, values, cycles>>
columns == <<fixed, buckets>>
statsVars == <<stats, columns, run, put, rows>>

(* The name of bucket i: first and last value, the same for a bucket of    *)
(* one value.                                                              *)
Bucket(i, s) == <<i * s, (i + 1) * s - 1>>

Buckets(s) == {Bucket(i, s) : i \in Indices}

(* The value a bucket named k has in a distribution d. *)
ValueOf(d, k) == IF k \in Buckets(d.size)
                 THEN d.values[CHOOSE i \in Indices : Bucket(i, d.size) = k] ELSE 0

Zeroes(n) == [i \in 1 .. n |-> 0]

FixedColumns == {"cycles", "min_value", "samples", "run"}

StatsTypeOK ==
  /\ size \in Sizes
  /\ values \in [Indices -> 0 .. MaxCount]
  /\ cycles \in 0 .. MaxCount
  /\ run \in 0 .. MaxRuns
  /\ put \in BOOLEAN
  /\ DOMAIN fixed = FixedColumns
  /\ fixed["run"] \in Seq(0 .. MaxRuns - 1)
  /\ fixed["cycles"] \in Seq(0 .. MaxCount) /\ fixed["min_value"] \in Seq({0})
  /\ \A k \in DOMAIN buckets : k \in Nat \X Nat /\ buckets[k] \in Seq(0 .. MaxCount)

(* prepare_statdict(): empty columns, for the buckets there are at first. *)
StatsInit ==
  /\ size \in Sizes
  /\ values = [i \in Indices |-> 0]
  /\ cycles = 0
  /\ fixed = [k \in FixedColumns |-> <<>>]
  /\ buckets = [k \in Buckets(size) |-> <<>>]
  /\ run = 0
  /\ put = FALSE
  /\ rows = <<>>

(* The simulation goes on: statistics grow, buckets may be resized. *)
Simulate ==
  /\ ~put
  /\ size' \in Sizes
  /\ values' \in [Indices -> 0 .. MaxCount]
  /\ cycles' \in cycles .. MaxCount
  /\ stats' # stats
  /\ UNCHANGED <<columns, run, put, rows>>

(* "workbegin": statistics are reset. *)
WorkBegin ==
  /\ ~put
  /\ values' = [i \in Indices |-> 0]
  /\ cycles' = 0
  /\ UNCHANGED <<size, columns, run, put, rows>>

(* The bucket column k with zeroes for the rows it has missed.  The mutants *)
(* fill none, and as many as there are rows after this one.                *)
FilledNot(k)  == IF k \in DOMAIN buckets THEN buckets[k] ELSE <<>>
FilledMore(k) == IF k \in DOMAIN buckets
                 THEN buckets[k] \o Zeroes(Len(fixed["min_value"]) + 1 - Len(buckets[k]))
                 ELSE Zeroes(Len(fixed["min_value"]))
Filled(k) ==
  LET must_len == Len(fixed["min_value"])
  IN IF k \in DOMAIN buckets
     THEN buckets[k] \o Zeroes(must_len - Len(buckets[k]))
     ELSE Zeroes(must_len)

(* "samples": what is in all buckets now. *)
Samples == FoldFunction(+, 0, values)

(* The value of a statistic with one value per row. *)
StatValue(k, number) ==
  CASE k = "cycles"    -> cycles
    [] k = "min_value" -> 0
    [] k = "samples"   -> Samples
    [] k = "run"       -> number

(* append_stats(): one more value for every statistic there is now, and    *)
(* the columns of the parameters and the run number.                       *)
AppendStats(number) ==
  /\ buckets' = [k \in DOMAIN buckets \cup Buckets(size) |->
                   IF k \in Buckets(size)
                   THEN Append(Filled(k), ValueOf([size |-> size, values |-> values], k))
                   ELSE buckets[k]]
  /\ fixed' = [k \in FixedColumns |-> Append(fixed[k], StatValue(k, number))]

(* "workend": a row is added. *)
WorkEnd ==
  /\ ~put
  /\ run < MaxRuns
  /\ AppendStats(run)
  /\ run' = run + 1
  /\ rows' = Append(rows, [size |-> size, values |-> values, cycles |-> cycles])
  /\ UNCHANGED <<stats, put>>

(* fix_stat_list(): a column becomes must_len long; the mutant only cuts.  *)
FixStatListCuts(v, must_len) == IF Len(v) > must_len THEN SubSeq(v, 1, must_len) ELSE v
FixStatList(v, must_len) ==
  IF Len(v) < must_len THEN v \o Zeroes(must_len - Len(v)) ELSE SubSeq(v, 1, must_len)

(* Any other exit event ends the loop; the frame is completed and put. *)
Exit ==
  /\ ~put
  /\ put' = TRUE
  /\ LET must_len == Len(fixed["cycles"])
     IN /\ fixed' = [k \in FixedColumns |-> FixStatList(fixed[k], must_len)]
        /\ buckets' = [k \in DOMAIN buckets |-> FixStatList(buckets[k], must_len)]
  /\ UNCHANGED <<stats, run, rows>>

StatsNext == Simulate \/ WorkBegin \/ WorkEnd \/ Exit
-----------------------------------------------------------------------------
(* Every value stands in the row it was measured in, and rows a column     *)
(* does not reach yet are rows in which its bucket was empty or absent.    *)
Aligned ==
  \A k \in DOMAIN buckets : \A r \in 1 .. run :
    IF r <= Len(buckets[k]) THEN buckets[k][r] = ValueOf(rows[r], k)
                            ELSE ValueOf(rows[r], k) = 0

(* "This shouldn't happen, but who knows" (line 436) and "min_val should   *)
(* have been recorded every time" (line 131): no column is longer than the *)
(* rows there are, and only bucket columns are shorter.                    *)
NeverTooLong ==
  /\ \A k \in FixedColumns : Len(fixed[k]) = run
  /\ \A k \in DOMAIN buckets : Len(buckets[k]) <= run

(* The invariant: the types, and where the values stand. *)
StatsInv == StatsTypeOK /\ Aligned /\ NeverTooLong

(* The frame that is put is rectangular (a DataFrame of columns of unequal *)
(* length is an error), and has rows if the workload reached a "workend".  *)
Rectangular ==
  put => /\ \A k \in DOMAIN buckets : Len(buckets[k]) = run
         /\ \A k \in FixedColumns : Len(fixed[k]) = run

(* Row by row, the bucket columns of a distribution add up to its samples: *)
(* no sample is counted in two buckets, however often they are resized.    *)
RowsAddUp ==
  put => \A r \in 1 .. run :
    fixed["samples"][r] = MapThenSumSet(LAMBDA k : buckets[k][r], DOMAIN buckets)
=============================================================================
