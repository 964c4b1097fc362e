------------------------ MODULE NanogemmWorkerProofs ------------------------
(***************************************************************************)
(* The frame of one simulation is aligned and rectangular and its rows add *)
(* up, for any number of buckets and rows and any sequence of bucket       *)
(* sizes; the kernels that are built are those that run, with numbers that *)
(* suit the cache of their core, for every cache of the assumptions; and   *)
(* the core has what the options ask for, whatever they are.               *)
(***************************************************************************)
EXTENDS NanogemmWorker, SequenceTheorems, FiniteSetTheorems, WellFoundedInduction, TLAPS

Counts == 0 .. MaxCount

Column(v) == \E S : v \in Seq(S)

Row == [size : Sizes, values : [Indices -> 0 .. MaxCount], cycles : Nat]

(* What the rows are that the columns are compared with, and that a bucket *)
(* which has ever been there has a column.                                 *)
RowsKnown ==
  /\ size \in Sizes /\ values \in [Indices -> 0 .. MaxCount] /\ cycles \in Nat
  /\ run \in Nat
  /\ rows \in Seq(Row) /\ Len(rows) = run
  /\ \A k \in FixedColumns : Column(fixed[k])
  /\ \A k \in DOMAIN buckets : buckets[k] \in Seq(Counts)
  /\ \A r \in 1 .. run : Buckets(rows[r].size) \subseteq DOMAIN buckets

FrameInv == RowsKnown /\ Aligned /\ NeverTooLong /\ Rectangular

LEMMA LongerColumn ==
  ASSUME NEW v, Column(v), NEW x
  PROVE  Column(Append(v, x)) /\ Len(v) \in Nat /\ Len(Append(v, x)) = Len(v) + 1
<1>1. PICK S : v \in Seq(S)
  BY DEF Column
<1>2. v \in Seq(S \cup {x}) /\ x \in S \cup {x}
  BY <1>1
<1>3. Append(v, x) \in Seq(S \cup {x}) /\ Len(Append(v, x)) = Len(v) + 1 /\ Len(v) \in Nat
  BY <1>2
<1> QED BY <1>3 DEF Column

LEMMA ZeroesAreRows ==
  ASSUME NEW n \in Nat
  PROVE  Zeroes(n) \in Seq(Counts) /\ Len(Zeroes(n)) = n /\ \A i \in 1 .. n : Zeroes(n)[i] = 0
  BY StatsAssumption DEF Zeroes, Counts

LEMMA ValueOfRow ==
  ASSUME NEW d \in Row, NEW k
  PROVE  ValueOf(d, k) \in Counts /\ (k \notin Buckets(d.size) => ValueOf(d, k) = 0)
<1>1. CASE k \in Buckets(d.size)
  <2>1. PICK i \in Indices : Bucket(i, d.size) = k
    BY <1>1 DEF Buckets
  <2>2. (CHOOSE j \in Indices : Bucket(j, d.size) = k) \in Indices
    BY <2>1
  <2>3. d.values[CHOOSE j \in Indices : Bucket(j, d.size) = k] \in 0 .. MaxCount
    BY <2>2 DEF Row
  <2> QED BY <1>1, <2>3 DEF ValueOf, Counts
<1>2. CASE k \notin Buckets(d.size)
  BY <1>2, StatsAssumption DEF ValueOf, Counts
<1> QED BY <1>1, <1>2

(* A column extended by zeroes. *)
LEMMA Extended ==
  ASSUME NEW v \in Seq(Counts), NEW n \in Nat, Len(v) <= n
  PROVE  /\ v \o Zeroes(n - Len(v)) \in Seq(Counts)
         /\ Len(v \o Zeroes(n - Len(v))) = n
         /\ \A r \in 1 .. n : (v \o Zeroes(n - Len(v)))[r] = IF r <= Len(v) THEN v[r] ELSE 0
<1>1. n - Len(v) \in Nat
  OBVIOUS
<1>2. /\ Zeroes(n - Len(v)) \in Seq(Counts) /\ Len(Zeroes(n - Len(v))) = n - Len(v)
      /\ \A i \in 1 .. n - Len(v) : Zeroes(n - Len(v))[i] = 0
  BY <1>1, ZeroesAreRows
<1> DEFINE z == Zeroes(n - Len(v))
<1> HIDE DEF z
<1>3. z \in Seq(Counts) /\ Len(z) = n - Len(v) /\ \A i \in 1 .. n - Len(v) : z[i] = 0
  BY <1>2 DEF z
<1>4. /\ v \o z \in Seq(Counts) /\ Len(v \o z) = n
      /\ \A r \in 1 .. n : (v \o z)[r] = IF r <= Len(v) THEN v[r] ELSE z[r - Len(v)]
  BY <1>3
<1>5. \A r \in 1 .. n : r > Len(v) => z[r - Len(v)] = 0
  BY <1>3
<1> QED BY <1>4, <1>5 DEF z

LEMMA FilledColumn ==
  ASSUME FrameInv, NEW k
  PROVE  /\ Filled(k) \in Seq(Counts) /\ Len(Filled(k)) = run
         /\ \A r \in 1 .. run : Filled(k)[r] = ValueOf(rows[r], k)
<1>1. Len(fixed["min_value"]) = run /\ run \in Nat /\ \A r \in 1 .. run : rows[r] \in Row
  BY DEF FrameInv, NeverTooLong, FixedColumns, RowsKnown
<1>2. CASE k \in DOMAIN buckets
  <2>1. buckets[k] \in Seq(Counts) /\ Len(buckets[k]) <= run
    BY <1>2 DEF FrameInv, RowsKnown, NeverTooLong
  <2>2. Filled(k) = buckets[k] \o Zeroes(run - Len(buckets[k]))
    BY <1>1, <1>2 DEF Filled
  <2>3. \A r \in 1 .. run : ValueOf(rows[r], k) = IF r <= Len(buckets[k]) THEN buckets[k][r] ELSE 0
    BY <1>2 DEF FrameInv, Aligned
  <2>4. /\ Filled(k) \in Seq(Counts) /\ Len(Filled(k)) = run
        /\ \A r \in 1 .. run : Filled(k)[r] = IF r <= Len(buckets[k]) THEN buckets[k][r] ELSE 0
    <3> DEFINE v == buckets[k]
    <3> HIDE DEF v
    <3>1. v \in Seq(Counts) /\ Len(v) <= run /\ Filled(k) = v \o Zeroes(run - Len(v))
      BY <2>1, <2>2 DEF v
    <3>2. /\ Filled(k) \in Seq(Counts) /\ Len(Filled(k)) = run
          /\ \A r \in 1 .. run : Filled(k)[r] = IF r <= Len(v) THEN v[r] ELSE 0
      BY <1>1, <3>1, Extended
    <3> QED BY <3>2 DEF v
  <2> QED BY <2>3, <2>4
<1>3. CASE k \notin DOMAIN buckets
  <2>1. Filled(k) = Zeroes(run)
    BY <1>1, <1>3 DEF Filled
  <2>2. \A r \in 1 .. run : ValueOf(rows[r], k) = 0
    BY <1>1, <1>3, ValueOfRow DEF FrameInv, RowsKnown
  <2> QED BY <1>1, <2>1, <2>2, ZeroesAreRows
<1> QED BY <1>2, <1>3

LEMMA InitFrame == StatsInit => FrameInv
<1> SUFFICES ASSUME StatsInit PROVE FrameInv
  OBVIOUS
<1>1. RowsKnown
  <2>1. /\ \A k \in FixedColumns : fixed[k] = <<>>
        /\ \A k \in DOMAIN buckets : buckets[k] = <<>>
        /\ rows = <<>> /\ run = 0 /\ size \in Sizes /\ cycles = 0
    BY DEF StatsInit
  <2>2. values \in [Indices -> 0 .. MaxCount]
    BY StatsAssumption DEF StatsInit
  <2>3. Column(<<>>) /\ <<>> \in Seq(Counts) /\ <<>> \in Seq(Row) /\ Len(<<>>) = 0
    BY DEF Column
  <2>4. 1 .. run = {} /\ run \in Nat /\ cycles \in Nat /\ size \in Sizes
    BY <2>1
  <2>5. rows \in Seq(Row) /\ Len(rows) = run
    BY <2>1, <2>3
  <2> QED BY <2>1, <2>2, <2>3, <2>4, <2>5 DEF RowsKnown
<1>2. Aligned /\ NeverTooLong /\ Rectangular
  BY DEF StatsInit, Aligned, NeverTooLong, Rectangular
<1> QED BY <1>1, <1>2 DEF FrameInv

(* append_stats(): every column that has a value now gets it in the row of *)
(* this "workend", and the others stay behind.                             *)
LEMMA WorkEndKeepsFrame ==
  ASSUME FrameInv, WorkEnd
  PROVE  FrameInv'
<1> DEFINE d == [size |-> size, values |-> values, cycles |-> cycles]
           now == Buckets(size)
<1>1. /\ ~put /\ put' = put /\ run' = run + 1 /\ rows' = Append(rows, d)
      /\ UNCHANGED <<size, values, cycles>> /\ AppendStats(run)
  BY DEF WorkEnd, stats
<1>2. d \in Row /\ run \in Nat /\ rows \in Seq(Row) /\ Len(rows) = run
  BY DEF FrameInv, RowsKnown, Row
<1>3. /\ rows' \in Seq(Row) /\ Len(rows') = run + 1 /\ rows'[run + 1] = d
      /\ \A r \in 1 .. run : rows'[r] = rows[r]
  BY <1>1, <1>2
<1>4. /\ DOMAIN buckets' = DOMAIN buckets \cup now
      /\ \A k \in now : buckets'[k] = Append(Filled(k), ValueOf(d, k))
      /\ \A k \in DOMAIN buckets \ now : buckets'[k] = buckets[k]
  <2>1. buckets' = [k \in DOMAIN buckets \cup Buckets(size) |->
                      IF k \in Buckets(size)
                      THEN Append(Filled(k), ValueOf([size |-> size, values |-> values], k))
                      ELSE buckets[k]]
    BY <1>1 DEF AppendStats
  <2>2. \A k : ValueOf([size |-> size, values |-> values], k) = ValueOf(d, k)
    BY DEF ValueOf
  <2> HIDE DEF d
  <2> QED BY <2>1, <2>2
<1>5. \A k \in FixedColumns : Column(fixed'[k]) /\ Len(fixed'[k]) = run + 1
  <2>1. SUFFICES ASSUME NEW k \in FixedColumns PROVE Column(fixed'[k]) /\ Len(fixed'[k]) = run + 1
    OBVIOUS
  <2>2. fixed' = [j \in FixedColumns |-> Append(fixed[j], StatValue(j, run))]
    BY <1>1 DEF AppendStats
  <2>3. fixed'[k] = Append(fixed[k], StatValue(k, run)) /\ Column(fixed[k]) /\ Len(fixed[k]) = run
    BY <2>2 DEF FrameInv, RowsKnown, NeverTooLong
  <2> QED BY <2>3, LongerColumn
<1> HIDE DEF d, now
<1>6. \A k \in now : /\ buckets'[k] \in Seq(Counts) /\ Len(buckets'[k]) = run + 1
                     /\ buckets'[k][run + 1] = ValueOf(d, k)
                     /\ \A r \in 1 .. run : buckets'[k][r] = ValueOf(rows[r], k)
  <2>1. SUFFICES ASSUME NEW k \in now
                 PROVE  /\ buckets'[k] \in Seq(Counts) /\ Len(buckets'[k]) = run + 1
                        /\ buckets'[k][run + 1] = ValueOf(d, k)
                        /\ \A r \in 1 .. run : buckets'[k][r] = ValueOf(rows[r], k)
    OBVIOUS
  <2>2. /\ Filled(k) \in Seq(Counts) /\ Len(Filled(k)) = run
        /\ \A r \in 1 .. run : Filled(k)[r] = ValueOf(rows[r], k)
    BY FilledColumn
  <2>3. ValueOf(d, k) \in Counts
    BY <1>2, ValueOfRow
  <2>4. buckets'[k] = Append(Filled(k), ValueOf(d, k))
    BY <1>4
  <2> DEFINE v == Filled(k)
             x == ValueOf(d, k)
  <2> HIDE DEF v, x
  <2>5. /\ Append(v, x) \in Seq(Counts) /\ Len(Append(v, x)) = run + 1 /\ Append(v, x)[run + 1] = x
        /\ \A r \in 1 .. run : Append(v, x)[r] = v[r]
    BY <1>2, <2>2, <2>3 DEF v, x
  <2> QED BY <2>2, <2>4, <2>5 DEF v, x
<1>7. \A k \in DOMAIN buckets \ now :
        /\ buckets'[k] \in Seq(Counts) /\ Len(buckets'[k]) <= run
        /\ ValueOf(d, k) = 0
        /\ \A r \in 1 .. run : IF r <= Len(buckets'[k]) THEN buckets'[k][r] = ValueOf(rows[r], k)
                                                        ELSE ValueOf(rows[r], k) = 0
  <2>1. \A k \in DOMAIN buckets \ now : ValueOf(d, k) = 0
    BY <1>2, ValueOfRow DEF d, now
  <2> QED BY <1>4, <2>1 DEF FrameInv, RowsKnown, Aligned, NeverTooLong
<1>8. Aligned'
  <2>1. SUFFICES ASSUME NEW k \in DOMAIN buckets', NEW r \in 1 .. run + 1
                 PROVE  IF r <= Len(buckets'[k]) THEN buckets'[k][r] = ValueOf(rows'[r], k)
                                                 ELSE ValueOf(rows'[r], k) = 0
    BY <1>1 DEF Aligned, ValueOf, Buckets
  <2>2. r \in 1 .. run \/ r = run + 1
    BY <1>2
  <2>3. CASE k \in now
    BY <1>2, <1>3, <1>6, <2>2, <2>3
  <2>4. CASE k \in DOMAIN buckets \ now
    <3>1. Len(buckets'[k]) \in Nat
      BY <1>7, <2>4
    <3> QED BY <1>2, <1>3, <1>7, <2>2, <2>4, <3>1
  <2> QED BY <1>4, <2>3, <2>4
<1>9. NeverTooLong'
  <2>1. \A k \in DOMAIN buckets' : Len(buckets'[k]) <= run + 1
    <3>1. \A k \in DOMAIN buckets \ now : Len(buckets'[k]) \in Nat
      BY <1>7
    <3> QED BY <1>2, <1>4, <1>6, <1>7, <3>1
  <2> QED BY <1>1, <1>5, <2>1 DEF NeverTooLong
<1>10. RowsKnown'
  <2>1. \A r \in 1 .. run + 1 : Buckets(rows'[r].size) \subseteq DOMAIN buckets'
    <3>1. SUFFICES ASSUME NEW r \in 1 .. run + 1 PROVE Buckets(rows'[r].size) \subseteq DOMAIN buckets'
      OBVIOUS
    <3>2. CASE r \in 1 .. run
      BY <1>3, <1>4, <3>2 DEF FrameInv, RowsKnown
    <3>3. CASE r = run + 1
      BY <1>3, <1>4, <3>3 DEF d, now
    <3> QED BY <1>2, <3>2, <3>3
  <2>2. \A k \in DOMAIN buckets' : buckets'[k] \in Seq(Counts)
    BY <1>4, <1>6, <1>7
  <2>3. \A s : Buckets(s)' = Buckets(s)
    BY DEF Buckets
  <2> QED BY <1>1, <1>2, <1>3, <1>5, <2>1, <2>2, <2>3 DEF RowsKnown, FrameInv
<1> QED BY <1>1, <1>8, <1>9, <1>10 DEF FrameInv, Rectangular

LEMMA FixedList ==
  ASSUME NEW v, Column(v), NEW n \in Nat
  PROVE  /\ Len(v) = n => FixStatList(v, n) = v
         /\ v \in Seq(Counts) /\ Len(v) < n => FixStatList(v, n) = v \o Zeroes(n - Len(v))
<1>1. PICK S : v \in Seq(S)
  BY DEF Column
<1>2. ASSUME Len(v) = n PROVE FixStatList(v, n) = v
  <2>1. SubSeq(v, 1, Len(v)) = v
    BY <1>1, SubSeqFull
  <2>2. ~(Len(v) < n)
    BY <1>2
  <2> QED BY <1>2, <2>1, <2>2 DEF FixStatList
<1>3. ASSUME Len(v) < n PROVE FixStatList(v, n) = v \o Zeroes(n - Len(v))
  BY <1>3 DEF FixStatList
<1> QED BY <1>2, <1>3

(* fix_stat_list(): rows a column does not reach get the zeroes that their *)
(* buckets had then, and all columns become as long as there are rows.     *)
LEMMA ExitKeepsFrame ==
  ASSUME FrameInv, Exit
  PROVE  FrameInv'
<1>1. /\ run \in Nat /\ Len(fixed["cycles"]) = run
      /\ \A k \in FixedColumns : Column(fixed[k]) /\ Len(fixed[k]) = run
      /\ \A k \in DOMAIN buckets : buckets[k] \in Seq(Counts) /\ Len(buckets[k]) <= run
  BY DEF FrameInv, RowsKnown, NeverTooLong, FixedColumns
<1>2. /\ put' = TRUE /\ UNCHANGED <<size, values, cycles, run, rows>>
      /\ fixed' = [k \in FixedColumns |-> FixStatList(fixed[k], run)]
      /\ buckets' = [k \in DOMAIN buckets |-> FixStatList(buckets[k], run)]
  BY <1>1 DEF Exit, stats
<1>3. \A k \in FixedColumns : fixed'[k] = fixed[k]
  BY <1>1, <1>2, FixedList
<1>4. \A k \in DOMAIN buckets :
        /\ buckets'[k] \in Seq(Counts) /\ Len(buckets'[k]) = run
        /\ \A r \in 1 .. run : buckets'[k][r] = IF r <= Len(buckets[k]) THEN buckets[k][r] ELSE 0
  <2>1. SUFFICES ASSUME NEW k \in DOMAIN buckets
                 PROVE  /\ buckets'[k] \in Seq(Counts) /\ Len(buckets'[k]) = run
                        /\ \A r \in 1 .. run : buckets'[k][r] = IF r <= Len(buckets[k]) THEN buckets[k][r] ELSE 0
    OBVIOUS
  <2> DEFINE v == buckets[k]
  <2>2. buckets'[k] = FixStatList(v, run) /\ v \in Seq(Counts) /\ Len(v) <= run
    BY <1>1, <1>2
  <2> HIDE DEF v
  <2>3. Column(v) /\ Len(v) \in Nat
    BY <2>2 DEF Column
  <2>4. CASE Len(v) = run
    <3>1. buckets'[k] = v
      BY <1>1, <2>2, <2>3, <2>4, FixedList
    <3> QED BY <1>1, <2>2, <2>4, <3>1 DEF v
  <2>5. CASE Len(v) < run
    <3>1. buckets'[k] = v \o Zeroes(run - Len(v))
      BY <1>1, <2>2, <2>3, <2>5, FixedList
    <3> DEFINE w == v \o Zeroes(run - Len(v))
    <3>2. v \in Seq(Counts) /\ run \in Nat /\ Len(v) <= run
      BY <1>1, <2>2
    <3>3. /\ w \in Seq(Counts) /\ Len(w) = run
          /\ \A r \in 1 .. run : w[r] = IF r <= Len(v) THEN v[r] ELSE 0
      BY <3>2, Extended
    <3> HIDE DEF w
    <3> QED BY <3>1, <3>3 DEF v, w
  <2> QED BY <1>1, <2>2, <2>3, <2>4, <2>5
<1>5. DOMAIN buckets' = DOMAIN buckets
  BY <1>2
<1>6. \A s, k : Buckets(s)' = Buckets(s) /\ (\A r : ValueOf(rows[r], k)' = ValueOf(rows[r], k))
  BY <1>2 DEF Buckets, ValueOf
<1>7. RowsKnown'
  BY <1>2, <1>3, <1>4, <1>5, <1>6 DEF FrameInv, RowsKnown
<1>8. Aligned'
  BY <1>1, <1>2, <1>4, <1>5, <1>6 DEF FrameInv, Aligned
<1>9. NeverTooLong' /\ Rectangular'
  BY <1>1, <1>2, <1>3, <1>4, <1>5 DEF NeverTooLong, Rectangular
<1> QED BY <1>7, <1>8, <1>9 DEF FrameInv

LEMMA StillFrame ==
  ASSUME FrameInv, UNCHANGED <<columns, run, rows, put>>,
         size' \in Sizes, values' \in [Indices -> 0 .. MaxCount], cycles' \in Nat
  PROVE  FrameInv'
<1>1. \A s, k : Buckets(s)' = Buckets(s) /\ (\A r : ValueOf(rows[r], k)' = ValueOf(rows[r], k))
  BY DEF Buckets, ValueOf
<1>2. RowsKnown'
  BY <1>1 DEF FrameInv, RowsKnown, columns
<1>3. Aligned' /\ NeverTooLong' /\ Rectangular'
  BY <1>1 DEF FrameInv, Aligned, NeverTooLong, Rectangular, columns
<1> QED BY <1>2, <1>3 DEF FrameInv

LEMMA StatsKeepFrame ==
  ASSUME FrameInv, StatsNext
  PROVE  FrameInv'
<1>1. CASE Simulate
  <2>1. cycles' \in Nat
    BY <1>1, StatsAssumption DEF Simulate, FrameInv, RowsKnown
  <2> QED BY <1>1, <2>1, StillFrame DEF Simulate
<1>2. CASE WorkBegin
  <2>1. values' \in [Indices -> 0 .. MaxCount] /\ cycles' \in Nat /\ size' \in Sizes
    BY <1>2, StatsAssumption DEF WorkBegin, FrameInv, RowsKnown
  <2> QED BY <1>2, <2>1, StillFrame DEF WorkBegin
<1> QED BY <1>1, <1>2, WorkEndKeepsFrame, ExitKeepsFrame DEF StatsNext
-----------------------------------------------------------------------------
(* Sums over finite sets, as the folds of the library compute them.        *)

First(s) == CHOOSE x \in s : TRUE

(* h sums g over every subset of S, as the folds of the library do. *)
SumsOver(h, g, S) ==
  h = [s \in SUBSET S |-> IF s = {} THEN 0 ELSE g[First(s)] + h[s \ {First(s)}]]

LEMMA FirstIsOne == ASSUME NEW s, s # {} PROVE First(s) \in s
  BY DEF First

(* A recursion over the subsets of a finite set has a solution. *)
LEMMA SumsExist ==
  ASSUME NEW S, IsFiniteSet(S), NEW g \in [S -> Int]
  PROVE  \E h \in [SUBSET S -> Int] : SumsOver(h, g, S)
<1> DEFINE Small(n) == {s \in SUBSET S : Cardinality(s) <= n}
           Step(h, s) == IF s = {} THEN 0 ELSE g[First(s)] + h[s \ {First(s)}]
           Good(n) == \E h \in [Small(n) -> Int] : \A s \in Small(n) : h[s] = Step(h, s)
           Bad == {n \in Nat : ~Good(n)}
<1>1. \A s \in SUBSET S : IsFiniteSet(s) /\ Cardinality(s) \in Nat
  BY FS_Subset, FS_CardinalityType
<1>2. \A n \in Nat : \A s \in Small(n + 1) :
        s # {} => First(s) \in S /\ s \ {First(s)} \in Small(n)
  <2> SUFFICES ASSUME NEW n \in Nat, NEW s \in Small(n + 1), s # {}
               PROVE  First(s) \in S /\ s \ {First(s)} \in Small(n)
    OBVIOUS
  <2>1. First(s) \in s
    BY FirstIsOne
  <2>2. Cardinality(s \ {First(s)}) = Cardinality(s) - 1
    BY <1>1, <2>1, FS_RemoveElement
  <2> QED BY <1>1, <2>1, <2>2
<1>3. Good(0)
  <2> DEFINE h == [s \in Small(0) |-> 0]
  <2>1. \A s \in Small(0) : s = {}
    <3>1. \A s \in Small(0) : Cardinality(s) = 0
      BY <1>1
    <3> QED BY <1>1, <3>1, FS_EmptySet
  <2>2. h \in [Small(0) -> Int] /\ \A s \in Small(0) : h[s] = Step(h, s)
    BY <2>1
  <2> HIDE DEF h
  <2> QED BY <2>2
<1>4. ASSUME NEW n \in Nat, Good(n) PROVE Good(n + 1)
  <2>1. PICK h \in [Small(n) -> Int] : \A s \in Small(n) : h[s] = Step(h, s)
    BY <1>4
  <2> DEFINE k == [s \in Small(n + 1) |-> Step(h, s)]
  <2> HIDE DEF Small
  <2>2. \A s \in Small(n + 1) : k[s] = Step(h, s)
    OBVIOUS
  <2>3. k \in [Small(n + 1) -> Int]
    <3>1. \A s \in Small(n + 1) : Step(h, s) \in Int
      BY <1>2, <2>1
    <3> HIDE DEF Step
    <3> QED BY <3>1
  <2>4. Small(n) \subseteq Small(n + 1)
    BY <1>1 DEF Small
  <2> HIDE DEF k
  <2>5. \A s \in Small(n) : k[s] = h[s]
    BY <2>1, <2>2, <2>4
  <2>6. \A s \in Small(n + 1) : k[s] = Step(k, s)
    BY <1>2, <2>2, <2>5
  <2> HIDE DEF Step
  <2> QED BY <2>3, <2>6
<1>5. Bad = {}
  <2> SUFFICES ASSUME Bad # {} PROVE FALSE
    OBVIOUS
  <2> HIDE DEF Good
  <2>1. Bad \subseteq Nat
    OBVIOUS
  <2>2. PICK n \in Bad : \A m \in Bad : ~(<<m, n>> \in OpToRel(<, Nat))
    <3> HIDE DEF Bad
    <3> QED BY <2>1, NatLessThanWellFounded, WFMin
  <2>3. n \in Nat /\ ~Good(n)
    OBVIOUS
  <2>4. n # 0
    BY <1>3, <2>3
  <2>5. n - 1 \in Nat /\ n = (n - 1) + 1
    BY <2>3, <2>4
  <2>6. ~Good(n - 1)
    BY <1>4, <2>3, <2>5
  <2>7. <<n - 1, n>> \in OpToRel(<, Nat)
    BY <2>3, <2>5 DEF OpToRel
  <2> QED BY <2>2, <2>5, <2>6, <2>7
<1>6. Small(Cardinality(S)) = SUBSET S
  <2>1. \A s \in SUBSET S : Cardinality(s) <= Cardinality(S)
    BY FS_Subset
  <2> QED BY <2>1
<1>7. Good(Cardinality(S))
  <2> HIDE DEF Good
  <2> QED BY <1>1, <1>5
<1>8. PICK h \in [SUBSET S -> Int] : \A s \in SUBSET S : h[s] = Step(h, s)
  <2> HIDE DEF Small, Step
  <2> QED BY <1>6, <1>7
<1>9. h = [s \in SUBSET S |-> Step(h, s)]
  <2> HIDE DEF Step
  <2> QED BY <1>8
<1> QED BY <1>9 DEF SumsOver

(* The solution the folds take. *)
TheSums(g, S) == CHOOSE h : SumsOver(h, g, S)

(* The two folds of the model. *)
SumOf(v)     == FoldFunction(+, 0, v)
RowSum(b, r) == MapThenSumSet(LAMBDA k : b[k][r], DOMAIN b)

LEMMA SumIs ==
  ASSUME NEW v
  PROVE  SumOf(v) = TheSums(v, DOMAIN v)[DOMAIN v]
  BY Zenon DEF SumOf, FoldFunction, FoldFunctionOnSet, MapThenFoldSet, TheSums, SumsOver, First

LEMMA RowSumIs ==
  ASSUME NEW b, NEW r, NEW g, g = [k \in DOMAIN b |-> b[k][r]]
  PROVE  RowSum(b, r) = TheSums(g, DOMAIN b)[DOMAIN b]
  BY Zenon DEF RowSum, MapThenSumSet, MapThenFoldSet, TheSums, SumsOver, First

(* h sums integers g over every subset of a finite S. *)
Sums(h, g, S) == /\ IsFiniteSet(S) /\ g \in [S -> Int] /\ h \in [SUBSET S -> Int]
                 /\ SumsOver(h, g, S)

(* The sum of a subset, whichever element is taken first. *)
LEMMA SumsOneMore ==
  ASSUME NEW S, NEW g, NEW h, Sums(h, g, S), NEW T \in SUBSET S, NEW x \in T
  PROVE  h[T] = g[x] + h[T \ {x}]
<1>0. IsFiniteSet(S) /\ g \in [S -> Int] /\ h \in [SUBSET S -> Int] /\ SumsOver(h, g, S)
  BY DEF Sums
<1> DEFINE Bad == {U \in SUBSET S : \E y \in U : h[U] # g[y] + h[U \ {y}]}
<1>1. \A U \in SUBSET S : IsFiniteSet(U)
  BY <1>0, FS_Subset
<1>2. Bad = {}
  <2> SUFFICES ASSUME Bad # {} PROVE FALSE
    OBVIOUS
  <2>1. Bad \subseteq FiniteSubsetsOf(S)
    BY <1>1 DEF FiniteSubsetsOf
  <2>2. PICK U \in Bad : \A V \in Bad : ~(<<V, U>> \in StrictSubsetOrdering(S))
    <3> HIDE DEF Bad
    <3> QED BY <2>1, FS_StrictSubsetOrderingWellFounded, WFMin
  <2>3. PICK y \in U : h[U] # g[y] + h[U \ {y}]
    OBVIOUS
  <2> DEFINE c == First(U)
  <2>4. c \in U /\ U \in SUBSET S
    BY <2>3, FirstIsOne
  <2>5. h[U] = g[c] + h[U \ {c}]
    BY <1>0, <2>3 DEF SumsOver
  <2> HIDE DEF c
  <2>6. c # y
    BY <2>3, <2>5
  <2>7. \A V \in SUBSET U : V # U => \A z \in V : h[V] = g[z] + h[V \ {z}]
    <3> SUFFICES ASSUME NEW V \in SUBSET U, V # U PROVE V \notin Bad
      BY <2>4
    <3>1. <<V, U>> \in StrictSubsetOrdering(S)
      BY <2>4 DEF StrictSubsetOrdering
    <3> QED BY <2>2, <3>1
  <2>8. h[U \ {c}] = g[y] + h[(U \ {c}) \ {y}]
    BY <2>4, <2>6, <2>7
  <2>9. h[U \ {y}] = g[c] + h[(U \ {y}) \ {c}]
    BY <2>4, <2>6, <2>7
  <2>10. (U \ {c}) \ {y} = (U \ {y}) \ {c}
    OBVIOUS
  <2>11. /\ g[c] \in Int /\ g[y] \in Int /\ h[U \ {c}] \in Int /\ h[U \ {y}] \in Int
         /\ h[(U \ {y}) \ {c}] \in Int
    <3>1. U \ {c} \in SUBSET S /\ U \ {y} \in SUBSET S /\ (U \ {y}) \ {c} \in SUBSET S /\ y \in S /\ c \in S
      BY <2>4
    <3> QED BY <1>0, <3>1
  <2> DEFINE u == h[U]
             uc == h[U \ {c}]
             uy == h[U \ {y}]
             uyc == h[(U \ {y}) \ {c}]
  <2>12. h[(U \ {c}) \ {y}] = uyc
    BY <2>10
  <2>13. u = g[c] + uc /\ uc = g[y] + uyc /\ uy = g[c] + uyc /\ u # g[y] + uy
    BY <2>3, <2>5, <2>8, <2>9, <2>12
  <2>14. g[c] \in Int /\ g[y] \in Int /\ uyc \in Int
    BY <2>11
  <2> HIDE DEF Bad, u, uc, uy, uyc
  <2> QED BY <2>13, <2>14
<1> QED BY <1>2

LEMMA SumsAreInts ==
  ASSUME NEW S, IsFiniteSet(S), NEW g \in [S -> Int]
  PROVE  Sums(TheSums(g, S), g, S)
<1> DEFINE h == TheSums(g, S)
<1>1. SumsOver(h, g, S)
  BY SumsExist DEF TheSums
<1>2. PICK f \in [SUBSET S -> Int] : SumsOver(f, g, S)
  BY SumsExist
<1> HIDE DEF h
<1> DEFINE Bad == {U \in SUBSET S : h[U] # f[U]}
<1>3. Bad = {}
  <2> SUFFICES ASSUME Bad # {} PROVE FALSE
    OBVIOUS
  <2>1. Bad \subseteq FiniteSubsetsOf(S)
    BY FS_Subset DEF FiniteSubsetsOf
  <2>2. PICK U \in Bad : \A V \in Bad : ~(<<V, U>> \in StrictSubsetOrdering(S))
    <3> HIDE DEF Bad
    <3> QED BY <2>1, FS_StrictSubsetOrderingWellFounded, WFMin
  <2>3. U \in SUBSET S /\ h[U] # f[U]
    OBVIOUS
  <2>4. U # {} /\ h[U] = g[First(U)] + h[U \ {First(U)}] /\ f[U] = g[First(U)] + f[U \ {First(U)}]
    BY <1>1, <1>2, <2>3 DEF SumsOver
  <2>5. First(U) \in U
    BY <2>4, FirstIsOne
  <2>6. <<U \ {First(U)}, U>> \in StrictSubsetOrdering(S)
    BY <2>3, <2>5 DEF StrictSubsetOrdering
  <2>7. U \ {First(U)} \notin Bad
    BY <2>2, <2>6
  <2> QED BY <2>3, <2>4, <2>7
<1>4. h = [s \in SUBSET S |-> h[s]]
  BY <1>1 DEF SumsOver
<1>5. \A s \in SUBSET S : h[s] = f[s]
  BY <1>3
<1> QED BY <1>1, <1>4, <1>5 DEF h, Sums

(* What is nought adds nothing. *)
LEMMA NoughtsAddNothing ==
  ASSUME NEW S, NEW g, NEW h, Sums(h, g, S), NEW T \in SUBSET S, \A x \in S \ T : g[x] = 0
  PROVE  h[S] = h[T]
<1>0. IsFiniteSet(S) /\ g \in [S -> Int] /\ h \in [SUBSET S -> Int]
  BY DEF Sums
<1> DEFINE Bad == {U \in SUBSET S : T \subseteq U /\ h[U] # h[T]}
<1>1. Bad = {}
  <2> SUFFICES ASSUME Bad # {} PROVE FALSE
    OBVIOUS
  <2>1. Bad \subseteq FiniteSubsetsOf(S)
    BY <1>0, FS_Subset DEF FiniteSubsetsOf
  <2>2. PICK U \in Bad : \A V \in Bad : ~(<<V, U>> \in StrictSubsetOrdering(S))
    <3> HIDE DEF Bad
    <3> QED BY <2>1, FS_StrictSubsetOrderingWellFounded, WFMin
  <2>3. U \in SUBSET S /\ T \subseteq U /\ h[U] # h[T]
    OBVIOUS
  <2>4. PICK x \in U : x \notin T
    BY <2>3
  <2>5. h[U] = g[x] + h[U \ {x}] /\ g[x] = 0
    BY <2>3, <2>4, SumsOneMore
  <2>6. h[U \ {x}] \in Int
    BY <1>0, <2>3
  <2>7. <<U \ {x}, U>> \in StrictSubsetOrdering(S)
    BY <2>3, <2>4 DEF StrictSubsetOrdering
  <2>8. U \ {x} \notin Bad
    BY <2>2, <2>7
  <2>9. T \subseteq U \ {x} /\ U \ {x} \in SUBSET S
    BY <2>3, <2>4
  <2> QED BY <2>3, <2>5, <2>6, <2>8, <2>9
<1> QED BY <1>1

(* Values carried to other places, one place for each, have the same sum. *)
LEMMA SameSums ==
  ASSUME NEW S, NEW g, NEW h, Sums(h, g, S), NEW R, NEW v, NEW f, Sums(f, v, R),
         NEW place \in [R -> S],
         \A i, j \in R : place[i] = place[j] => i = j,
         \A i \in R : g[place[i]] = v[i]
  PROVE  f[R] = h[{place[i] : i \in R}]
<1>0. IsFiniteSet(R) /\ SumsOver(f, v, R) /\ SumsOver(h, g, S)
  BY DEF Sums
<1> DEFINE Image(U) == {place[i] : i \in U}
           Bad == {U \in SUBSET R : f[U] # h[Image(U)]}
<1>1. Bad = {}
  <2> SUFFICES ASSUME Bad # {} PROVE FALSE
    OBVIOUS
  <2>1. Bad \subseteq FiniteSubsetsOf(R)
    BY <1>0, FS_Subset DEF FiniteSubsetsOf
  <2>2. PICK U \in Bad : \A V \in Bad : ~(<<V, U>> \in StrictSubsetOrdering(R))
    <3> HIDE DEF Bad
    <3> QED BY <2>1, FS_StrictSubsetOrderingWellFounded, WFMin
  <2>3. U \in SUBSET R /\ f[U] # h[Image(U)]
    OBVIOUS
  <2>4. CASE U = {}
    <3>1. Image(U) = {} /\ f[U] = 0 /\ h[{}] = 0
      BY <1>0, <2>4 DEF SumsOver
    <3> QED BY <2>3, <3>1
  <2>5. CASE U # {}
    <3>1. PICK i \in U : TRUE
      BY <2>5
    <3>2. f[U] = v[i] + f[U \ {i}]
      BY <2>3, SumsOneMore
    <3>3. Image(U) \in SUBSET S /\ place[i] \in Image(U)
      BY <2>3
    <3>4. Image(U \ {i}) = Image(U) \ {place[i]}
      BY <2>3
    <3> HIDE DEF Image
    <3>5. h[Image(U)] = g[place[i]] + h[Image(U) \ {place[i]}]
      BY <3>3, SumsOneMore
    <3>6. <<U \ {i}, U>> \in StrictSubsetOrdering(R)
      BY <2>3 DEF StrictSubsetOrdering
    <3>7. U \ {i} \notin Bad /\ U \ {i} \in SUBSET R
      BY <2>2, <2>3, <3>6
    <3> QED BY <2>3, <3>2, <3>4, <3>5, <3>7
  <2> QED BY <2>4, <2>5
<1> QED BY <1>1
-----------------------------------------------------------------------------
(* The rows of a frame add up.                                             *)

(* The samples of a row are those of the buckets then. *)
SamplesKnown ==
  /\ IsFiniteSet(DOMAIN buckets)
  /\ \A r \in 1 .. run : fixed["samples"][r] = SumOf(rows[r].values)

LEMMA FiniteBuckets == \A s : IsFiniteSet(Buckets(s)) /\ IsFiniteSet(Indices)
<1> SUFFICES ASSUME NEW s PROVE IsFiniteSet(Buckets(s)) /\ IsFiniteSet(Indices)
  OBVIOUS
<1>1. IsFiniteSet(Indices)
  BY StatsAssumption, FS_Interval DEF Indices
<1> DEFINE f == [i \in Indices |-> Bucket(i, s)]
<1>2. f \in Surjection(Indices, Buckets(s))
  BY DEF Buckets, Surjection
<1> HIDE DEF f
<1> QED BY <1>1, <1>2, FS_Surjection

LEMMA BucketsApart ==
  ASSUME NEW s \in Sizes, NEW i \in Indices, NEW j \in Indices, Bucket(i, s) = Bucket(j, s)
  PROVE  i = j
<1>1. s \in Nat \ {0} /\ i \in Nat /\ j \in Nat /\ i * s = j * s
  BY StatsAssumption DEF Indices, Bucket
<1> QED BY <1>1

(* A row's bucket columns, of which some may be of other bucket sizes, add *)
(* up to what was in the buckets.                                          *)
LEMMA RowAddsUp ==
  ASSUME NEW d \in Row, NEW D, IsFiniteSet(D), Buckets(d.size) \subseteq D,
         NEW g, g = [k \in D |-> ValueOf(d, k)]
  PROVE  SumOf(d.values) = TheSums(g, D)[D]
<1> DEFINE v == d.values
           place == [i \in Indices |-> Bucket(i, d.size)]
           h == TheSums(g, D)
           f == TheSums(v, Indices)
<1>1. d.size \in Sizes /\ v \in [Indices -> Int] /\ DOMAIN v = Indices
  BY StatsAssumption DEF Row
<1>2. g \in [D -> Int]
  <2>1. \A k \in D : ValueOf(d, k) \in Int
    BY ValueOfRow, StatsAssumption DEF Counts
  <2> QED BY <2>1
<1>3. Sums(h, g, D) /\ Sums(f, v, Indices)
  BY <1>1, <1>2, FiniteBuckets, SumsAreInts
<1>4. place \in [Indices -> D] /\ \A i, j \in Indices : place[i] = place[j] => i = j
  BY <1>1, BucketsApart DEF Buckets
<1>5. \A i \in Indices : g[place[i]] = v[i]
  <2> SUFFICES ASSUME NEW i \in Indices PROVE g[place[i]] = v[i]
    OBVIOUS
  <2>1. Bucket(i, d.size) \in Buckets(d.size)
    BY DEF Buckets
  <2> DEFINE c == CHOOSE j \in Indices : Bucket(j, d.size) = Bucket(i, d.size)
  <2>2. c \in Indices /\ Bucket(c, d.size) = Bucket(i, d.size)
    OBVIOUS
  <2>3. ValueOf(d, Bucket(i, d.size)) = d.values[c]
    BY <2>1 DEF ValueOf
  <2> HIDE DEF c
  <2>4. c = i
    BY <1>1, <2>2, BucketsApart
  <2> QED BY <2>1, <2>3, <2>4
<1>6. {place[i] : i \in Indices} = Buckets(d.size)
  BY DEF Buckets
<1>7. \A k \in D \ Buckets(d.size) : g[k] = 0
  BY ValueOfRow
<1>8. SumOf(v) = f[Indices]
  BY <1>1, SumIs
<1> HIDE DEF v, place, h, f
<1>9. f[Indices] = h[{place[i] : i \in Indices}]
  BY <1>3, <1>4, <1>5, SameSums
<1>10. h[D] = h[Buckets(d.size)]
  BY <1>3, <1>7, NoughtsAddNothing
<1> QED BY <1>6, <1>8, <1>9, <1>10 DEF v, h

LEMMA FrameAddsUp == FrameInv /\ SamplesKnown => RowsAddUp
<1> SUFFICES ASSUME FrameInv, SamplesKnown, put, NEW r \in 1 .. run
             PROVE  fixed["samples"][r] = RowSum(buckets, r)
  BY Zenon DEF RowsAddUp, RowSum
<1> DEFINE D == DOMAIN buckets
           g == [k \in D |-> buckets[k][r]]
<1>1. rows[r] \in Row /\ Buckets(rows[r].size) \subseteq D /\ IsFiniteSet(D)
  BY DEF FrameInv, RowsKnown, SamplesKnown
<1>2. \A k \in D : buckets[k][r] = ValueOf(rows[r], k)
  <2>1. \A k \in D : Len(buckets[k]) = run /\ r <= run
    BY DEF FrameInv, Rectangular, RowsKnown
  <2> QED BY <2>1 DEF FrameInv, Aligned
<1>3. g = [k \in D |-> ValueOf(rows[r], k)]
  BY <1>2
<1>4. RowSum(buckets, r) = TheSums(g, D)[D]
  BY RowSumIs
<1> HIDE DEF D, g
<1>5. SumOf(rows[r].values) = TheSums(g, D)[D]
  BY <1>1, <1>3, RowAddsUp
<1>6. fixed["samples"][r] = SumOf(rows[r].values)
  BY DEF SamplesKnown
<1> QED BY <1>4, <1>5, <1>6 DEF D

LEMMA SamplesInit == StatsInit => SamplesKnown
<1> SUFFICES ASSUME StatsInit PROVE SamplesKnown
  OBVIOUS
<1>1. DOMAIN buckets = Buckets(size) /\ run = 0
  BY DEF StatsInit
<1> QED BY <1>1, FiniteBuckets DEF SamplesKnown

LEMMA WorkEndKeepsSamples ==
  ASSUME FrameInv, SamplesKnown, WorkEnd
  PROVE  SamplesKnown'
<1>1. /\ run' = run + 1 /\ rows' = Append(rows, [size |-> size, values |-> values, cycles |-> cycles])
      /\ fixed'["samples"] = Append(fixed["samples"], SumOf(values))
      /\ DOMAIN buckets' = DOMAIN buckets \cup Buckets(size)
  <2>1. StatValue("samples", run) = SumOf(values)
    <3>1. StatValue("samples", run) = Samples
      BY DEF StatValue
    <3> QED BY <3>1 DEF Samples, SumOf
  <2> QED BY <2>1 DEF WorkEnd, AppendStats, FixedColumns
<1>2. IsFiniteSet(DOMAIN buckets')
  BY <1>1, FiniteBuckets, FS_Union DEF SamplesKnown
<1> DEFINE c == fixed["samples"]
           sum == SumOf(values)
<1>3. Column(c) /\ Len(c) = run /\ run \in Nat /\ rows \in Seq(Row) /\ Len(rows) = run
  BY DEF FrameInv, RowsKnown, NeverTooLong, FixedColumns
<1>4. \A r \in 1 .. run : c[r] = SumOf(rows[r].values)
  BY DEF SamplesKnown
<1>5. fixed'["samples"] = Append(c, sum)
  BY <1>1
<1> HIDE DEF c, sum
<1>6. \A r \in 1 .. run + 1 : Append(c, sum)[r] = IF r = run + 1 THEN sum ELSE c[r]
  <2>1. PICK S : c \in Seq(S)
    BY <1>3 DEF Column
  <2> QED BY <1>3, <2>1
<1>7. \A r \in 1 .. run + 1 : rows'[r].values = IF r = run + 1 THEN values ELSE rows[r].values
  BY <1>1, <1>3
<1>8. \A r \in 1 .. run + 1 : fixed'["samples"][r] = SumOf(rows'[r].values)
  <2> SUFFICES ASSUME NEW r \in 1 .. run + 1
               PROVE  fixed'["samples"][r] = SumOf(rows'[r].values)
    OBVIOUS
  <2>1. CASE r = run + 1
    BY <1>5, <1>6, <1>7, <2>1 DEF sum
  <2>2. CASE r # run + 1
    <3>1. r \in 1 .. run /\ rows'[r].values = rows[r].values /\ fixed'["samples"][r] = c[r]
      BY <1>3, <1>5, <1>6, <1>7, <2>2
    <3> QED BY <1>4, <3>1
  <2> QED BY <2>1, <2>2
<1> QED BY <1>1, <1>2, <1>8 DEF SamplesKnown

LEMMA SamplesStep ==
  ASSUME FrameInv, SamplesKnown, StatsNext
  PROVE  SamplesKnown'
<1>1. CASE Simulate \/ WorkBegin
  BY <1>1 DEF Simulate, WorkBegin, SamplesKnown, columns
<1>2. CASE Exit
  <2>1. UNCHANGED <<run, rows>> /\ DOMAIN buckets' = DOMAIN buckets
        /\ fixed'["samples"] = FixStatList(fixed["samples"], Len(fixed["cycles"]))
    BY <1>2 DEF Exit, FixedColumns
  <2>2. Column(fixed["samples"]) /\ Len(fixed["samples"]) = run /\ Len(fixed["cycles"]) = run /\ run \in Nat
    BY DEF FrameInv, RowsKnown, NeverTooLong, FixedColumns
  <2>3. fixed'["samples"] = fixed["samples"]
    BY <2>1, <2>2, FixedList
  <2> QED BY <2>1, <2>3 DEF SamplesKnown
<1> QED BY <1>1, <1>2, WorkEndKeepsSamples DEF StatsNext

-----------------------------------------------------------------------------
(* aarch64-nanogemm.py leaves the statistics to gem5: it gathers no rows.  *)
NoRows == driver = "aarch64-nanogemm" => run = 0

LEMMA WorkerStep == FrameInv /\ NoRows /\ [WorkerNext]_workerVars => FrameInv' /\ NoRows'
<1> SUFFICES ASSUME FrameInv, NoRows, [WorkerNext]_workerVars PROVE FrameInv' /\ NoRows'
  OBVIOUS
<1>1. CASE UNCHANGED <<statsVars, driver>>
  BY <1>1, StillFrame DEF statsVars, stats, FrameInv, RowsKnown, NoRows
<1>2. CASE RunSimulation
  BY <1>2, StatsKeepFrame DEF RunSimulation, NoRows, kernelVars
<1>3. CASE RunOneSimulation
  <2>1. run = 0 /\ driver' = driver /\ run' = run
    BY <1>3 DEF RunOneSimulation, NoRows, kernelVars, Simulate, WorkBegin, statsVars
  <2>2. CASE Simulate \/ WorkBegin
    BY <2>1, <2>2, StatsKeepFrame DEF StatsNext, NoRows
  <2>3. CASE UNCHANGED statsVars
    BY <1>1, <2>1, <2>3
  <2>4. CASE put' = TRUE /\ UNCHANGED <<stats, columns, run, rows>>
    <3>1. RowsKnown' /\ Aligned' /\ NeverTooLong'
      <4>1. \A s, k : Buckets(s)' = Buckets(s) /\ (\A r : ValueOf(rows[r], k)' = ValueOf(rows[r], k))
        BY <2>4 DEF Buckets, ValueOf
      <4>2. UNCHANGED <<size, values, cycles, fixed, buckets, run, rows>>
        BY <2>4 DEF stats, columns
      <4>3. RowsKnown'
        BY <4>1, <4>2 DEF FrameInv, RowsKnown
      <4> QED BY <4>1, <4>2, <4>3 DEF FrameInv, Aligned, NeverTooLong
    <3>2. Rectangular'
      BY <2>1, <2>4 DEF FrameInv, RowsKnown, NeverTooLong, Rectangular, columns
    <3> QED BY <2>1, <3>1, <3>2 DEF FrameInv, NoRows
  <2> QED BY <1>3, <2>2, <2>3, <2>4 DEF RunOneSimulation
<1>4. CASE FilterCombination \/ BuildCore \/ BuildOneCore \/ BuildSystem
  BY <1>1, <1>4 DEF FilterCombination, Filter, BuildCore, BuildOneCore, BuildSystem, kernelVars
<1>5. CASE UNCHANGED workerVars
  BY <1>1, <1>5 DEF workerVars, kernelVars
<1> QED BY <1>2, <1>3, <1>4, <1>5 DEF WorkerNext

LEMMA InitWorkerFrame == WorkerInit => FrameInv /\ NoRows
  BY InitFrame DEF WorkerInit, StatsInit, NoRows

LEMMA BucketNames == \A s \in Sizes : Buckets(s) \subseteq Nat \X Nat
<1> SUFFICES ASSUME NEW s \in Sizes, NEW i \in Indices PROVE Bucket(i, s) \in Nat \X Nat
  BY DEF Buckets
<1>1. i \in Nat /\ s \in Nat \ {0}
  BY StatsAssumption DEF Indices
<1>2. i * s \in Nat /\ (i + 1) * s = i * s + s
  BY <1>1
<1>3. (i + 1) * s - 1 \in Nat
  BY <1>1, <1>2
<1> QED BY <1>2, <1>3 DEF Bucket

LEMMA InitTypes == StatsInit => StatsTypeOK
<1> SUFFICES ASSUME StatsInit PROVE StatsTypeOK
  OBVIOUS
<1>1. DOMAIN fixed = FixedColumns /\ \A k \in FixedColumns : fixed[k] = <<>>
  BY DEF StatsInit
<1>2. \A k \in DOMAIN buckets : k \in Nat \X Nat /\ buckets[k] \in Seq(0 .. MaxCount)
  <2>1. buckets = [k \in Buckets(size) |-> <<>>] /\ size \in Sizes
    BY DEF StatsInit
  <2>2. <<>> \in Seq(0 .. MaxCount)
    OBVIOUS
  <2> QED BY <2>1, <2>2, BucketNames
<1>3. values \in [Indices -> 0 .. MaxCount] /\ cycles \in 0 .. MaxCount /\ run \in 0 .. MaxRuns
  BY StatsAssumption DEF StatsInit
<1>4. fixed["run"] = <<>> /\ fixed["cycles"] = <<>> /\ fixed["min_value"] = <<>>
  BY <1>1 DEF FixedColumns
<1>5. <<>> \in Seq(0 .. MaxRuns - 1) /\ <<>> \in Seq(0 .. MaxCount) /\ <<>> \in Seq({0})
  OBVIOUS
<1>6. size \in Sizes /\ put \in BOOLEAN
  BY DEF StatsInit
<1> QED BY <1>1, <1>2, <1>3, <1>4, <1>5, <1>6 DEF StatsTypeOK

LEMMA WorkEndKeepsTypes ==
  ASSUME FrameInv, StatsTypeOK, WorkEnd
  PROVE  StatsTypeOK'
<1>1. /\ UNCHANGED <<size, values, cycles, put>> /\ run < MaxRuns /\ run' = run + 1
      /\ fixed' = [k \in FixedColumns |-> Append(fixed[k], StatValue(k, run))]
      /\ DOMAIN buckets' = DOMAIN buckets \cup Buckets(size)
  BY DEF WorkEnd, AppendStats, stats
<1>2. /\ size \in Sizes /\ run \in 0 .. MaxRuns - 1 /\ cycles \in 0 .. MaxCount
      /\ run' \in 0 .. MaxRuns
  BY <1>1, StatsAssumption DEF StatsTypeOK
<1>3. StatValue("cycles", run) = cycles /\ StatValue("min_value", run) = 0 /\ StatValue("run", run) = run
  BY DEF StatValue
<1>4. /\ fixed'["run"] = Append(fixed["run"], run)
      /\ fixed'["cycles"] = Append(fixed["cycles"], cycles)
      /\ fixed'["min_value"] = Append(fixed["min_value"], 0)
  BY <1>1, <1>3 DEF FixedColumns
<1>5. /\ fixed'["run"] \in Seq(0 .. MaxRuns - 1)
      /\ fixed'["cycles"] \in Seq(0 .. MaxCount) /\ fixed'["min_value"] \in Seq({0})
  BY <1>2, <1>4 DEF StatsTypeOK
<1>6. \A k \in DOMAIN buckets' : k \in Nat \X Nat /\ buckets'[k] \in Seq(0 .. MaxCount)
  <2>1. \A k \in DOMAIN buckets' : buckets'[k] \in Seq(0 .. MaxCount)
    BY WorkEndKeepsFrame DEF FrameInv, RowsKnown, Counts
  <2> QED BY <1>1, <1>2, <2>1, BucketNames DEF StatsTypeOK
<1> QED BY <1>1, <1>2, <1>5, <1>6 DEF StatsTypeOK

LEMMA ExitKeepsTypes ==
  ASSUME FrameInv, StatsTypeOK, Exit
  PROVE  StatsTypeOK'
<1>1. /\ UNCHANGED <<size, values, cycles, run>> /\ put' = TRUE
      /\ fixed' = [k \in FixedColumns |-> FixStatList(fixed[k], run)]
      /\ DOMAIN buckets' = DOMAIN buckets
  BY DEF Exit, stats, FrameInv, NeverTooLong, FixedColumns
<1>2. \A k \in FixedColumns : fixed'[k] = fixed[k]
  BY <1>1, FixedList DEF FrameInv, RowsKnown, NeverTooLong
<1>3. \A k \in DOMAIN buckets' : k \in Nat \X Nat /\ buckets'[k] \in Seq(0 .. MaxCount)
  BY <1>1, ExitKeepsFrame DEF FrameInv, RowsKnown, Counts, StatsTypeOK
<1> QED BY <1>1, <1>2, <1>3 DEF StatsTypeOK, FixedColumns

LEMMA WorkerTypes ==
  ASSUME FrameInv, NoRows, StatsTypeOK, [WorkerNext]_workerVars
  PROVE  StatsTypeOK'
<1>1. CASE Simulate \/ WorkBegin
  BY <1>1, StatsAssumption DEF Simulate, WorkBegin, StatsTypeOK, columns
<1>2. CASE UNCHANGED <<size, values, cycles, fixed, buckets, run>> /\ put' \in BOOLEAN
  BY <1>2 DEF StatsTypeOK
<1>3. CASE UNCHANGED statsVars
  BY <1>2, <1>3 DEF statsVars, stats, columns, StatsTypeOK
<1>4. CASE RunSimulation
  BY <1>1, <1>4, WorkEndKeepsTypes, ExitKeepsTypes DEF RunSimulation, StatsNext
<1>5. CASE RunOneSimulation
  BY <1>1, <1>2, <1>3, <1>5 DEF RunOneSimulation, stats, columns
<1>6. CASE FilterCombination \/ BuildCore \/ BuildOneCore \/ BuildSystem
  BY <1>3, <1>6 DEF FilterCombination, Filter, BuildCore, BuildOneCore, BuildSystem, kernelVars
<1>7. CASE UNCHANGED workerVars
  BY <1>3, <1>7 DEF workerVars, kernelVars
<1> QED BY <1>4, <1>5, <1>6, <1>7 DEF WorkerNext

(* The columns have their types, and however often a distribution changes  *)
(* its bucket size, every value stands in the row it was measured in       *)
(* (append_stats 101-165, fix_stat_list 430-440).                          *)
THEOREM StatisticsAreKept == WorkerSpec => []StatsInv
<1> DEFINE I == FrameInv /\ NoRows /\ StatsTypeOK
<1>1. WorkerInit => I
  BY InitWorkerFrame, InitTypes DEF WorkerInit
<1>2. I /\ [WorkerNext]_workerVars => I'
  BY WorkerStep, WorkerTypes
<1>3. I => StatsInv
  BY DEF FrameInv, StatsInv
<1> QED BY <1>1, <1>2, <1>3, PTL DEF WorkerSpec

(* However often a distribution changes its bucket size, every value       *)
(* stands in the row it was measured in, and no column is longer than the  *)
(* rows there are (append_stats 101-165).                                  *)
THEOREM ColumnsAreAligned == WorkerSpec => [](Aligned /\ NeverTooLong)
<1>1. FrameInv => Aligned /\ NeverTooLong
  BY DEF FrameInv
<1> QED BY <1>1, InitWorkerFrame, WorkerStep, PTL DEF WorkerSpec

(* The frame that is put on the queue is rectangular (fix_stat_list 430-440). *)
THEOREM FramesAreRectangular == WorkerSpec => []Rectangular
<1>1. FrameInv => Rectangular
  BY DEF FrameInv
<1> QED BY <1>1, InitWorkerFrame, WorkerStep, PTL DEF WorkerSpec
-----------------------------------------------------------------------------
(* Kernels: registers, unrolling and panels.                               *)
LEMMA Quotient ==
  ASSUME NEW a \in Nat, NEW d \in Nat \ {0}
  PROVE  /\ a \div d \in Nat /\ d * (a \div d) <= a /\ a < d * (a \div d) + d
         /\ a % d = 0 => a = d * (a \div d)
  OBVIOUS

LEMMA Multiple ==
  ASSUME NEW d \in Nat \ {0}, NEW q \in Nat
  PROVE  (d * q) \div d = q /\ (d * q) % d = 0
  OBVIOUS

(* The greatest common divisor is one. *)
LEMMA GcdDivides ==
  ASSUME NEW a \in Nat, NEW b \in Nat \ {0}
  PROVE  Gcd(a, b) \in 1 .. b /\ a % Gcd(a, b) = 0 /\ b % Gcd(a, b) = 0
<1> DEFINE D == {e \in 1 .. b : a % e = 0 /\ b % e = 0}
           T == {b - e : e \in D}
<1>1. 1 \in D
  OBVIOUS
<1>2. T \subseteq Nat /\ T # {}
  BY <1>1
<1>3. PICK t \in T : \A s \in T : ~(<<s, t>> \in OpToRel(<, Nat))
  BY <1>2, NatLessThanWellFounded, WFMin
<1>4. PICK d \in D : t = b - d
  BY <1>3
<1>5. ASSUME NEW e \in d + 1 .. b, a % e = 0, b % e = 0
      PROVE  FALSE
  <2>1. e \in D /\ b - e \in T
    BY <1>4, <1>5
  <2>2. b - e \in Nat /\ b - d \in Nat /\ b - e < b - d
    BY <1>4, <1>5
  <2>3. <<b - e, t>> \in OpToRel(<, Nat)
    BY <1>4, <2>2 DEF OpToRel
  <2> QED BY <1>3, <2>1, <2>3
<1>6. d \in 1 .. b /\ a % d = 0 /\ b % d = 0 /\ \A e \in d + 1 .. b : a % e # 0 \/ b % e # 0
  BY <1>4, <1>5
<1> QED BY <1>6 DEF Gcd

Fits(mr, nr) == mr * nr + 2 * mr + 1 <= 32

(* The registers for B and the columns of C, by their greatest common      *)
(* divisor: after q columns' worth of iterations the rotation is closed.   *)
LEMMA SmallestUnrollIs ==
  ASSUME NEW mr \in 1 .. 8, NEW nr \in 1 .. 30, Fits(mr, nr)
  PROVE  \E d \in 1 .. nr, q \in Nat, r \in Nat :
           BRegs(mr, nr) = d * q /\ nr = d * r /\ SmallestUnroll(mr, nr) = q
<1> DEFINE a == BRegs(mr, nr)
           d == Gcd(a, nr)
<1>1. a \in Nat
  <2>1. mr * nr \in Nat
    OBVIOUS
  <2> QED BY <2>1 DEF Fits, BRegs, MaxVregs
<1>2. SmallestUnroll(mr, nr) = ((a * nr) \div d) \div nr
  BY DEF SmallestUnroll, Lcm
<1> HIDE DEF a
<1>3. d \in 1 .. nr /\ a % d = 0 /\ nr % d = 0
  BY <1>1, GcdDivides
<1> HIDE DEF d
<1>4. \E q \in Nat, r \in Nat : a = d * q /\ nr = d * r
  <2>1. d \in Nat \ {0} /\ nr \in Nat
    BY <1>3
  <2>2. a \div d \in Nat /\ a = d * (a \div d) /\ nr \div d \in Nat /\ nr = d * (nr \div d)
    BY <1>1, <1>3, <2>1, Quotient
  <2> QED BY <2>2
<1> PICK q \in Nat, r \in Nat : a = d * q /\ nr = d * r
  BY <1>4
<1>5. a * nr = d * (q * nr) /\ q * nr \in Nat /\ q * nr = nr * q
  BY <1>3, <1>4
<1>6. (a * nr) \div d = q * nr
  BY <1>3, <1>5, Multiple
<1>7. (q * nr) \div nr = q
  BY <1>5, Multiple
<1> QED BY <1>2, <1>3, <1>4, <1>6, <1>7 DEF a

(* What the three if statements make of it. *)
LEMMA UnrollFactorIs ==
  ASSUME NEW mr, NEW nr, NEW q \in Nat, SmallestUnroll(mr, nr) = q
  PROVE  UnrollFactor(mr, nr) = IF q <= 2 \/ q = 4 THEN 8 ELSE IF q = 6 THEN 12 ELSE q
<1>1. q < 3 <=> q <= 2
  OBVIOUS
<1>2. UnrollFactor(mr, nr) =
        LET u2 == IF q < 3 THEN 4 ELSE q
            u3 == IF u2 = 4 THEN 8 ELSE u2
        IN IF u3 = 6 THEN 12 ELSE u3
  BY DEF UnrollFactor
<1> QED BY <1>1, <1>2

LEMMA Rotates ==
  ASSUME NEW mr \in 1 .. 8, NEW nr \in 1 .. 30, Fits(mr, nr)
  PROVE  (UnrollFactor(mr, nr) * nr) % BRegs(mr, nr) = 0
<1>1. PICK d \in 1 .. nr, q \in Nat, r \in Nat :
        BRegs(mr, nr) = d * q /\ nr = d * r /\ SmallestUnroll(mr, nr) = q
  BY SmallestUnrollIs
<1>2. BRegs(mr, nr) \in Nat \ {0}
  <2>1. mr * nr \in Nat
    OBVIOUS
  <2> QED BY <2>1 DEF Fits, BRegs, MaxVregs
<1>3. q # 0
  BY <1>1, <1>2
<1>4. \E m \in Nat : UnrollFactor(mr, nr) = q * m
  <2>1. CASE q = 1 \/ q = 2 \/ q = 4 \/ q = 6
    <3>1. q * (IF q = 6 THEN 2 ELSE 8 \div q) = UnrollFactor(mr, nr)
      BY <1>1, <2>1, UnrollFactorIs
    <3> QED BY <2>1, <3>1
  <2>2. CASE ~(q = 1 \/ q = 2 \/ q = 4 \/ q = 6)
    <3>1. UnrollFactor(mr, nr) = q /\ q = q * 1
      BY <1>1, <1>3, <2>2, UnrollFactorIs
    <3> QED BY <3>1
  <2> QED BY <2>1, <2>2
<1>5. PICK m \in Nat : UnrollFactor(mr, nr) = q * m
  BY <1>4
<1>6. (q * m) * (d * r) = (d * q) * (m * r) /\ m * r \in Nat
  OBVIOUS
<1>7. UnrollFactor(mr, nr) * nr = BRegs(mr, nr) * (m * r)
  BY <1>1, <1>5, <1>6
<1> QED BY <1>2, <1>6, <1>7, Multiple

(* The unrolled loop is short enough for the panels of the widest vectors. *)
LEMMA UnrollBounded ==
  ASSUME NEW mr \in 1 .. 8, NEW nr \in 1 .. 30, Fits(mr, nr)
  PROVE  /\ UnrollFactor(mr, nr) \in 1 .. 29
         /\ UnrollFactor(mr, nr) * (16 * mr + nr) <= 1536
<1>1. PICK d \in 1 .. nr, q \in Nat, r \in Nat :
        BRegs(mr, nr) = d * q /\ nr = d * r /\ SmallestUnroll(mr, nr) = q
  BY SmallestUnrollIs
<1> DEFINE U == UnrollFactor(mr, nr)
<1>2. U = IF q <= 2 \/ q = 4 THEN 8 ELSE IF q = 6 THEN 12 ELSE q
  BY <1>1, UnrollFactorIs
<1> HIDE DEF U
<1>3. d * q = 32 - mr * nr - 2 * mr /\ q <= d * q /\ mr * nr >= mr
  BY <1>1 DEF BRegs, MaxVregs
<1>4. U \in Nat \ {0} /\ (U <= 12 \/ U <= 32 - 3 * mr)
  <2>1. q <= 32 - 3 * mr
    BY <1>3
  <2> QED BY <1>2, <2>1
<1>5. mr * nr + 2 * mr + 1 <= 32
  BY DEF Fits
<1>6. CASE mr = 8
  <2>1. nr = 1 /\ d = 1 /\ q = 8
    BY <1>1, <1>3, <1>5, <1>6
  <2> QED BY <1>2, <1>6, <2>1 DEF U
<1>7. CASE mr # 8
  <2>1. mr = 1 \/ mr = 2 \/ mr = 3 \/ mr = 4 \/ mr = 5 \/ mr = 6 \/ mr = 7
    BY <1>7
  <2>2. U <= 29
    BY <1>4
  <2>3. U * (16 * mr + nr) <= 1536
    <3>1. CASE mr = 1 BY <1>4, <1>5, <3>1
    <3>2. CASE mr = 2 BY <1>4, <1>5, <3>2
    <3>3. CASE mr = 3 BY <1>4, <1>5, <3>3
    <3>4. CASE mr = 4 BY <1>4, <1>5, <3>4
    <3>5. CASE mr = 5 BY <1>4, <1>5, <3>5
    <3>6. CASE mr = 6 BY <1>4, <1>5, <3>6
    <3>7. CASE mr = 7 BY <1>4, <1>5, <3>7
    <3> QED BY <2>1, <3>1, <3>2, <3>3, <3>4, <3>5, <3>6, <3>7
  <2> QED BY <1>4, <2>2, <2>3 DEF U
<1> QED BY <1>6, <1>7

(* The sizes of a kernel that fits the registers: m elements in a column,  *)
(* n columns, ways of w bytes, all but one of which are for the panels.    *)
KernelSizes(c, m, n, a, w) ==
  /\ m \in Nat \ {0} /\ n \in Nat \ {0} /\ a \in Nat /\ w \in Nat \ {0}
  /\ MrElem(c) = m /\ c.nr = n /\ c.assoc = a /\ Way(c) = w
  /\ a >= 4 /\ a * w >= 32768
  /\ m <= 16 * c.mr /\ n <= 29

LEMMA SizesOfKernel ==
  ASSUME NEW c \in Combinations, Fits(c.mr, c.nr)
  PROVE  /\ c.mr \in 1 .. 8 /\ c.nr \in 1 .. 30
         /\ KernelSizes(c, MrElem(c), c.nr, c.assoc, Way(c))
<1>1. /\ c.mr \in 1 .. 8 /\ c.nr \in 1 .. 30 /\ c.assoc \in Nat /\ c.assoc >= 4
      /\ c.l1 \in Nat /\ c.l1 >= 32
      /\ (c.l1 * 1024) % c.assoc = 0
  <2>1. c.mr \in Mrs /\ c.nr \in Nrs /\ c.assoc \in Assocs /\ c.l1 \in L1Sizes
    BY DEF Combinations
  <2>2. c.mr \in 1 .. 8 /\ c.nr \in 1 .. 30 /\ c.assoc \in Nat \ (0 .. 3) /\ c.l1 \in Nat \ (0 .. 31)
    BY <2>1, KernelAssumption
  <2>3. (c.l1 * 1024) % c.assoc = 0
    BY <2>1, WaysAssumption
  <2> QED BY <2>2, <2>3
<1>2. PICK i \in 1 .. 8 : c.simd_width = 128 * i
  BY KernelAssumption DEF Combinations
<1>3. MrElem(c) = 2 * (c.mr * i) /\ c.mr * i \in Nat \ {0} /\ c.mr * i <= 8 * c.mr
  <2>1. c.mr * (128 * i) = 64 * (2 * (c.mr * i)) /\ c.mr * i \in Nat \ {0} /\ c.mr * i <= 8 * c.mr
    BY <1>1
  <2> DEFINE x == c.mr * i
  <2> HIDE DEF x
  <2>2. x \in Nat /\ c.mr * c.simd_width = 64 * (2 * x)
    BY <1>2, <2>1 DEF x
  <2>3. (64 * (2 * x)) \div 64 = 2 * x
    BY <2>2
  <2> QED BY <2>1, <2>2, <2>3 DEF MrElem, DataSize, x
<1>4. c.nr <= 29
  <2>1. c.mr * c.nr >= c.nr
    BY <1>1
  <2> QED BY <1>1, <2>1 DEF Fits
<1>5. Way(c) \in Nat /\ c.l1 * 1024 = c.assoc * Way(c) /\ c.l1 * 1024 >= 32768
  <2> DEFINE b == c.l1 * 1024
  <2>1. b \in Nat /\ c.assoc \in Nat \ {0} /\ b % c.assoc = 0 /\ b >= 32768
    BY <1>1
  <2>2. Way(c) = b \div c.assoc
    BY DEF Way
  <2> HIDE DEF b
  <2>3. Way(c) \in Nat /\ b = c.assoc * Way(c)
    BY <2>1, <2>2, Quotient
  <2> QED BY <2>1, <2>3 DEF b
<1>6. Way(c) # 0
  BY <1>1, <1>5
<1> QED BY <1>1, <1>3, <1>4, <1>5, <1>6, SMTT(30) DEF KernelSizes

(* The ways for A: with those that B needs, all but one. *)
LEMMA WaysForA ==
  ASSUME NEW c, NEW m, NEW n, NEW a, NEW w, KernelSizes(c, m, n, a, w)
  PROVE  /\ Ca(c) \in Nat \ {0}
         /\ CaFloor(c) >= 1 => Ca(c) = CaFloor(c) /\ Ca(c) * (m + n) <= (a - 1) * m
                               /\ (a - 1) * m < (2 * Ca(c)) * (m + n)
         /\ ~(CaFloor(c) >= 1) => Ca(c) = 1 /\ (a - 1) * m < m + n
<1> DEFINE x == (a - 1) * m
           f == CaFloor(c)
<1>1. x \in Nat /\ m + n \in Nat \ {0} /\ f = x \div (m + n)
  BY DEF CaFloor, KernelSizes
<1> HIDE DEF x, f
<1>2. f \in Nat /\ (m + n) * f <= x /\ x < (m + n) * f + (m + n)
  BY <1>1, Quotient
<1>3. Ca(c) = IF f < 1 THEN 1 ELSE f
  BY DEF Ca, f
<1>4. CASE f >= 1
  <2>1. Ca(c) = f
    BY <1>2, <1>3, <1>4
  <2>2. f * (m + n) = (m + n) * f /\ (2 * f) * (m + n) = (m + n) * f + (m + n) * f /\ (m + n) * f >= m + n
    BY <1>1, <1>2, <1>4
  <2>3. x < (2 * f) * (m + n)
    BY <1>1, <1>2, <2>2
  <2> QED BY <1>2, <1>4, <2>1, <2>2, <2>3 DEF f, x
<1>5. CASE f = 0
  <2>1. Ca(c) = 1 /\ x < m + n
    BY <1>1, <1>2, <1>3, <1>5
  <2>2. ~(CaFloor(c) >= 1)
    BY <1>5 DEF f
  <2> QED BY <2>1, <2>2 DEF x
<1> QED BY <1>2, <1>4, <1>5

(* Kc elements in each of m columns are what fits the ways for A. *)
LEMMA KcIs ==
  ASSUME NEW c, NEW m, NEW n, NEW a, NEW w, KernelSizes(c, m, n, a, w)
  PROVE  /\ Kc(c) \in Nat /\ (8 * m) * Kc(c) <= Ca(c) * w
         /\ \A u \in Nat : (8 * m) * u <= Ca(c) * w => u <= Kc(c)
<1> DEFINE x == Ca(c) * w
           d == m * 8
<1>1. x \in Nat /\ d \in Nat \ {0} /\ Kc(c) = x \div d /\ d = 8 * m
  BY WaysForA DEF Kc, KernelSizes, DataSize
<1> HIDE DEF x, d
<1>2. Kc(c) \in Nat /\ d * Kc(c) <= x /\ x < d * Kc(c) + d
  BY <1>1, Quotient
<1>3. ASSUME NEW u \in Nat, d * u <= x PROVE u <= Kc(c)
  <2>1. d * u < d * (Kc(c) + 1)
    BY <1>1, <1>2, <1>3
  <2> QED BY <1>1, <1>2, <2>1
<1> QED BY <1>1, <1>2, <1>3 DEF x

LEMMA Measures ==
  ASSUME NEW c \in Combinations, Fits(c.mr, c.nr)
  PROVE  Iterations(c) \in Nat /\ Iterations(c) >= 1
<1> DEFINE m == MrElem(c)
           n == c.nr
           a == c.assoc
           w == Way(c)
           U == UnrollFactor(c.mr, c.nr)
           C == Ca(c)
<1>1. KernelSizes(c, m, n, a, w) /\ c.mr \in 1 .. 8 /\ c.nr \in 1 .. 30
  BY SizesOfKernel
<1>2. U \in 1 .. 29 /\ U * (16 * c.mr + n) <= 1536
  BY <1>1, UnrollBounded
<1> HIDE DEF m, n, a, w, U, C
<1>3. /\ m \in Nat \ {0} /\ n \in 1 .. 29 /\ a \in Nat /\ w \in Nat \ {0}
      /\ a >= 4 /\ a * w >= 32768 /\ m <= 16 * c.mr
  BY <1>1 DEF KernelSizes
<1>4. C \in Nat \ {0}
  BY <1>1, WaysForA DEF C
<1>5. U * (m + n) <= 1536
  <2>1. U * (m + n) <= U * (16 * c.mr + n)
    BY <1>1, <1>2, <1>3
  <2>2. U * (m + n) \in Nat /\ U * (16 * c.mr + n) \in Nat
    BY <1>1, <1>2, <1>3
  <2> QED BY <1>2, <2>1, <2>2
<1>6. (8 * m) * U <= C * w
  <2>1. CASE CaFloor(c) >= 1
    <3>1. (a - 1) * m < (2 * C) * (m + n)
      BY <1>1, <2>1, WaysForA DEF C
    <3>2. (a - 1) * w >= 24576
      <4>1. 4 * ((a - 1) * w) >= 3 * (a * w)
        BY <1>3
      <4>2. (a - 1) * w \in Nat /\ a * w \in Nat
        BY <1>3
      <4> QED BY <1>3, <4>1, <4>2
    <3>3. ((a - 1) * m) * w = m * ((a - 1) * w) /\ m * ((a - 1) * w) >= m * 24576
      BY <1>3, <3>2
    <3>4. ((2 * C) * (m + n)) * w >= ((a - 1) * m) * w
      BY <1>3, <1>4, <3>1
    <3>5. ((2 * C) * (m + n)) * w = (2 * (C * w)) * (m + n)
      BY <1>3, <1>4
    <3>6. m * 24576 >= (16 * m) * (U * (m + n))
      BY <1>2, <1>3, <1>5
    <3>7. (16 * m) * (U * (m + n)) = (2 * ((8 * m) * U)) * (m + n)
      BY <1>2, <1>3
    <3> DEFINE x == C * w
               y == (8 * m) * U
               s == m + n
               g == m * 24576
               h == ((a - 1) * m) * w
    <3>8. x \in Nat /\ y \in Nat /\ s \in Nat \ {0} /\ g \in Nat /\ h \in Nat
      BY <1>2, <1>3, <1>4
    <3>9. (2 * x) * s >= h /\ h >= g /\ g >= (2 * y) * s
      BY <3>3, <3>4, <3>5, <3>6, <3>7
    <3> HIDE DEF x, y, s, g, h
    <3>10. (2 * x) * s >= (2 * y) * s
      <4>1. (2 * x) * s \in Nat /\ (2 * y) * s \in Nat
        BY <3>8
      <4> QED BY <3>8, <3>9, <4>1
    <3>11. y <= x
      BY <3>8, <3>10
    <3> QED BY <3>11 DEF x, y
  <2>2. CASE ~(CaFloor(c) >= 1)
    <3>1. C = 1 /\ (a - 1) * m < m + n
      BY <1>1, <2>2, WaysForA DEF C
    <3>2. (a - 1) * m = a * m - m /\ a * m >= 4 * m
      BY <1>3
    <3>3. a * m \in Nat /\ a * m < 2 * m + n
      BY <1>3, <3>1, <3>2
    <3>4. a * m <= 57
      BY <1>3, <3>2, <3>3
    <3>5. a * ((8 * m) * U) = (8 * U) * (a * m) /\ (8 * U) * (a * m) <= 32768
      BY <1>2, <1>3, <3>3, <3>4
    <3>6. a * ((8 * m) * U) <= a * w
      BY <1>2, <1>3, <3>5
    <3> DEFINE y == (8 * m) * U
    <3>7. y \in Nat /\ a * y <= a * w
      BY <1>2, <1>3, <3>6
    <3> HIDE DEF y
    <3>8. y <= w
      BY <1>3, <3>7
    <3> QED BY <1>3, <3>1, <3>8 DEF y
  <2> QED BY <2>1, <2>2
<1>7. Kc(c) \in Nat /\ U <= Kc(c)
  BY <1>1, <1>2, <1>6, KcIs DEF C
<1>8. Iterations(c) = Kc(c) \div U
  BY DEF Iterations, U
<1> QED BY <1>2, <1>7, <1>8

(* A number of bytes that fits n ways needs no more of them. *)
LEMMA WaysNeeded ==
  ASSUME NEW x \in Nat, NEW w \in Nat \ {0}, NEW n \in Nat, x <= n * w
  PROVE  (x + w - 1) \div w \in Nat /\ (x + w - 1) \div w <= n
<1> DEFINE q == (x + w - 1) \div w
<1>1. q \in Nat /\ w * q <= x + w - 1
  <2>1. x + w - 1 \in Nat
    OBVIOUS
  <2> QED BY <2>1, Quotient
<1> HIDE DEF q
<1>2. w * q < (n + 1) * w /\ (n + 1) * w = w * (n + 1)
  BY <1>1
<1>3. q < n + 1
  BY <1>1, <1>2
<1> QED BY <1>1, <1>3 DEF q

LEMMA Panels ==
  ASSUME NEW c \in Combinations, Fits(c.mr, c.nr), CaFloor(c) >= 1
  PROVE  (AData(c) * DataSize + Way(c) - 1) \div Way(c)
           + (BData(c) * DataSize + Way(c) - 1) \div Way(c) <= c.assoc - 1
<1> DEFINE m == MrElem(c)
           n == c.nr
           a == c.assoc
           w == Way(c)
           U == UnrollFactor(c.mr, c.nr)
           C == Ca(c)
           K == Kc(c)
           I == Iterations(c)
<1>1. KernelSizes(c, m, n, a, w) /\ c.mr \in 1 .. 8 /\ c.nr \in 1 .. 30
  BY SizesOfKernel
<1>2. U \in 1 .. 29
  BY <1>1, UnrollBounded
<1>3. AData(c) = m * I * U /\ BData(c) = n * I * U /\ I = K \div U
  BY DEF AData, BData, Iterations
<1> HIDE DEF m, n, a, w, U, C, K, I
<1>4. m \in Nat \ {0} /\ n \in Nat \ {0} /\ a \in Nat /\ w \in Nat \ {0} /\ a >= 4
  BY <1>1 DEF KernelSizes
<1>5. C \in Nat \ {0} /\ C * (m + n) <= (a - 1) * m
  BY <1>1, WaysForA DEF C
<1>6. K \in Nat /\ (8 * m) * K <= C * w
  BY <1>1, KcIs DEF C, K
<1> DEFINE P == I * U
<1>7. P \in Nat /\ P <= K /\ m * I * U = m * P /\ n * I * U = n * P
  <2>1. I \in Nat /\ U * I <= K
    BY <1>2, <1>3, <1>6, Quotient
  <2> QED BY <1>2, <1>4, <2>1
<1> HIDE DEF P
<1>8. (m * P) * 8 <= C * w
  <2>1. (m * P) * 8 <= (8 * m) * K
    BY <1>4, <1>6, <1>7
  <2>2. (m * P) * 8 \in Nat /\ (8 * m) * K \in Nat /\ C * w \in Nat
    BY <1>4, <1>5, <1>6, <1>7
  <2> QED BY <1>6, <2>1, <2>2
<1>9. a - 1 - C \in Nat /\ C * n <= (a - 1 - C) * m
  <2>1. (a - 1) * m = C * m + (a - 1 - C) * m /\ C * (m + n) = C * m + C * n
    BY <1>4, <1>5
  <2>2. C * m \in Nat /\ C * n \in Nat \ {0} /\ (a - 1 - C) * m \in Int
    BY <1>4, <1>5
  <2>3. C * n <= (a - 1 - C) * m
    BY <1>5, <2>1, <2>2
  <2>4. a - 1 - C >= 0
    BY <1>4, <1>5, <2>2, <2>3
  <2> QED BY <1>4, <1>5, <2>3, <2>4
<1>10. (n * P) * 8 <= (a - 1 - C) * w
  <2> DEFINE b == a - 1 - C
  <2>1. b \in Nat /\ C * n <= b * m
    BY <1>9
  <2> HIDE DEF b
  <2>2. m * ((n * P) * 8) = n * ((m * P) * 8)
    BY <1>4, <1>7
  <2>3. n * ((m * P) * 8) <= n * (C * w)
    BY <1>4, <1>5, <1>7, <1>8
  <2>4. n * (C * w) = (C * n) * w /\ (C * n) * w <= (b * m) * w /\ (b * m) * w = m * (b * w)
    BY <1>4, <1>5, <2>1
  <2> DEFINE x == (n * P) * 8
             y == b * w
  <2>5. x \in Nat /\ y \in Nat
    BY <1>4, <1>7, <2>1
  <2>6. m * x <= m * y
    BY <1>4, <1>5, <1>7, <2>1, <2>2, <2>3, <2>4
  <2> HIDE DEF x, y
  <2>7. x <= y
    BY <1>4, <2>5, <2>6
  <2> QED BY <2>7 DEF x, y, b
<1>11. /\ ((m * P) * 8 + w - 1) \div w \in Nat /\ ((m * P) * 8 + w - 1) \div w <= C
       /\ ((n * P) * 8 + w - 1) \div w \in Nat /\ ((n * P) * 8 + w - 1) \div w <= a - 1 - C
  <2>1. (m * P) * 8 \in Nat /\ (n * P) * 8 \in Nat
    BY <1>4, <1>7
  <2> QED BY <1>4, <1>5, <1>8, <1>9, <1>10, <2>1, WaysNeeded
<1> DEFINE x == ((m * P) * 8 + w - 1) \div w
           y == ((n * P) * 8 + w - 1) \div w
<1>12. x \in Nat /\ y \in Nat /\ x <= C /\ y <= a - 1 - C
  BY <1>11
<1>13. /\ (AData(c) * DataSize + Way(c) - 1) \div Way(c) = x
       /\ (BData(c) * DataSize + Way(c) - 1) \div Way(c) = y
  BY <1>3, <1>7 DEF DataSize, w
<1> HIDE DEF x, y
<1>14. x + y <= a - 1
  BY <1>4, <1>5, <1>12
<1> QED BY <1>13, <1>14 DEF a

-----------------------------------------------------------------------------
(* One combination, from the filter to the simulation.                     *)

(* The three ways in which the code asks for the registers. *)
LEMMA FiltersAgree ==
  ASSUME NEW mr \in 1 .. 8, NEW nr \in 1 .. 30
  PROVE  /\ Generated(mr, nr) <=> Fits(mr, nr)
         /\ Skipped(mr, nr) <=> ~Fits(mr, nr)
         /\ Accepted(mr, nr) <=> Fits(mr, nr) /\ ~(mr = 1 /\ nr = 29)
<1> DEFINE q == (32 - 2 * mr - 1) \div mr
<1>1. q \in Nat /\ mr * q <= 31 - 2 * mr /\ 31 - 2 * mr < mr * q + mr
  <2>1. 32 - 2 * mr - 1 \in Nat /\ mr \in Nat \ {0} /\ 32 - 2 * mr - 1 = 31 - 2 * mr
    OBVIOUS
  <2> QED BY <2>1, Quotient
<1>2. Generated(mr, nr) <=> nr <= q
  BY <1>1 DEF Generated
<1>3. Skipped(mr, nr) <=> nr > q
  BY DEF Skipped
<1> HIDE DEF q
<1>4. nr <= q <=> mr * nr + 2 * mr + 1 <= 32
  <2>1. ASSUME nr <= q PROVE mr * nr + 2 * mr + 1 <= 32
    <3>1. mr * nr <= mr * q
      BY <1>1, <2>1
    <3> QED BY <1>1, <3>1
  <2>2. ASSUME nr > q PROVE mr * nr + 2 * mr + 1 > 32
    <3>1. mr * nr >= mr * q + mr
      BY <1>1, <2>2
    <3> QED BY <1>1, <3>1
  <2> QED BY <1>1, <2>1, <2>2
<1>5. Accepted(mr, nr) <=> mr * nr + 2 * mr + 1 < 32
  BY DEF Accepted, Registers, MaxVregs
<1>6. mr * nr + 2 * mr + 1 = 32 <=> mr = 1 /\ nr = 29
  <2>1. mr = 1 \/ mr = 2 \/ mr = 3 \/ mr = 4 \/ mr = 5 \/ mr = 6 \/ mr = 7 \/ mr = 8
    OBVIOUS
  <2> QED BY <2>1
<1> QED BY <1>1, <1>2, <1>3, <1>4, <1>5, <1>6 DEF Fits

(* The core has the data cache of the combination, from which the system   *)
(* computes the iterations; rows come from nothing else.                   *)
SetUpInv ==
  /\ driver \in Drivers /\ combo \in Combinations
  /\ RunsWhatIsBuilt
  /\ core # None => fate = "run" /\ core.dcache = [assoc |-> combo.assoc, size |-> combo.l1 * 1024]
  /\ simulating => core # None /\ iterations = Iterations(combo)
  /\ put \/ run > 0 => simulating

LEMMA SetUpInit == WorkerInit => SetUpInv
  BY DEF WorkerInit, KernelInit, CoreInit, StatsInit, SetUpInv, RunsWhatIsBuilt

LEMMA FilterKeepsSetUp ==
  ASSUME SetUpInv, FilterCombination
  PROVE  SetUpInv'
<1>1. /\ fate = "product" /\ UNCHANGED <<driver, combo, core, put, run, simulating, iterations>>
      /\ fate' = IF \/ driver = "multi-isa-nanogemm" /\ ~Accepted(combo.mr, combo.nr)
                    \/ driver = "aarch64-nanogemm" /\ Skipped(combo.mr, combo.nr)
                 THEN "filtered" ELSE "run"
  BY DEF FilterCombination, Filter, coreVars, statsVars
<1>2. combo.mr \in 1 .. 8 /\ combo.nr \in 1 .. 30
  <2>1. combo.mr \in Mrs /\ combo.nr \in Nrs
    BY DEF SetUpInv, Combinations
  <2> QED BY <2>1, KernelAssumption
<1>3. RunsWhatIsBuilt'
  BY <1>1, <1>2, FiltersAgree DEF RunsWhatIsBuilt, SetUpInv, Drivers
<1> QED BY <1>1, <1>3 DEF SetUpInv

LEMMA BuildKeepsSetUp ==
  ASSUME SetUpInv, BuildCore \/ BuildOneCore
  PROVE  SetUpInv'
<1>1. /\ UNCHANGED <<driver, combo, fate, put, run, simulating, iterations>>
      /\ fate = "run" /\ core = None
  BY DEF BuildCore, BuildOneCore, kernelVars, statsVars
<1>2. core'.dcache = [assoc |-> combo.assoc, size |-> combo.l1 * 1024]
  <2>1. \A x, p : Core(x, p, combo.assoc, combo.l1).dcache = [assoc |-> combo.assoc, size |-> combo.l1 * 1024]
    BY DEF Core
  <2> QED BY <2>1 DEF BuildCore, BuildOneCore, SetUpCpu, SetUpOneCpu
<1> QED BY <1>1, <1>2 DEF SetUpInv, RunsWhatIsBuilt

LEMMA SystemKeepsSetUp ==
  ASSUME SetUpInv, BuildSystem
  PROVE  SetUpInv'
<1>1. /\ core # None /\ simulating' = TRUE
      /\ iterations' = Iterations([combo EXCEPT !.assoc = core.dcache.assoc, !.l1 = core.dcache.size \div 1024])
      /\ UNCHANGED <<driver, combo, fate, core, put, run>>
  BY DEF BuildSystem, kernelVars, coreVars, statsVars
<1>2. core.dcache.assoc = combo.assoc /\ core.dcache.size = combo.l1 * 1024
  BY <1>1 DEF SetUpInv
<1>3. (combo.l1 * 1024) \div 1024 = combo.l1
  <2>1. combo.l1 \in L1Sizes
    BY DEF SetUpInv, Combinations
  <2>2. combo.l1 \in Nat
    BY <2>1, KernelAssumption
  <2> QED BY <2>2
<1>4. [combo EXCEPT !.assoc = core.dcache.assoc, !.l1 = core.dcache.size \div 1024] = combo
  <2>1. core.dcache.size \div 1024 = combo.l1
    BY <1>2, <1>3
  <2>2. [combo EXCEPT !.assoc = combo.assoc, !.l1 = combo.l1] = combo
    BY DEF SetUpInv, Combinations
  <2> QED BY <1>2, <2>1, <2>2, ZenonT(30)
<1>5. iterations' = Iterations(combo)
  <2> DEFINE c == [combo EXCEPT !.assoc = core.dcache.assoc, !.l1 = core.dcache.size \div 1024]
  <2>1. iterations' = Iterations(c) /\ c = combo
    BY <1>1, <1>4
  <2> HIDE DEF c
  <2> QED BY <2>1
<1> QED BY <1>1, <1>5 DEF SetUpInv, RunsWhatIsBuilt

LEMMA SetUpStep == SetUpInv /\ [WorkerNext]_workerVars => SetUpInv'
<1> SUFFICES ASSUME SetUpInv, [WorkerNext]_workerVars PROVE SetUpInv'
  OBVIOUS
<1>1. CASE RunSimulation \/ RunOneSimulation
  BY <1>1 DEF RunSimulation, RunOneSimulation, kernelVars, coreVars, SetUpInv, RunsWhatIsBuilt
<1>2. CASE UNCHANGED workerVars
  BY <1>2 DEF workerVars, kernelVars, coreVars, statsVars, SetUpInv, RunsWhatIsBuilt
<1> QED BY <1>1, <1>2, FilterKeepsSetUp, BuildKeepsSetUp, SystemKeepsSetUp DEF WorkerNext

LEMMA SetUpNumbers == SetUpInv => KernelNumbers
<1> SUFFICES ASSUME SetUpInv PROVE KernelNumbers
  OBVIOUS
<1>1. combo \in Combinations /\ combo.mr \in 1 .. 8 /\ combo.nr \in 1 .. 30
  <2>1. combo.mr \in Mrs /\ combo.nr \in Nrs
    BY DEF SetUpInv, Combinations
  <2>2. Mrs \subseteq 1 .. 8 /\ Nrs \subseteq 1 .. 30
    BY KernelAssumption
  <2>3. combo.mr \in 1 .. 8 /\ combo.nr \in 1 .. 30
    BY <2>1, <2>2
  <2> QED BY <2>3 DEF SetUpInv
<1>2. fate = "run" => Fits(combo.mr, combo.nr)
  BY <1>1, FiltersAgree DEF SetUpInv, RunsWhatIsBuilt
<1>3. UnrollRotatesFully
  BY <1>1, <1>2, Rotates DEF UnrollRotatesFully
<1>4. MeasuresSomething
  BY <1>1, <1>2, Measures DEF MeasuresSomething
<1>5. PanelsFitL1
  BY <1>1, <1>2, Panels DEF PanelsFitL1
<1>6. simulating => iterations = Iterations(combo) /\ iterations >= 1
  BY <1>1, <1>2, Measures DEF SetUpInv
<1> QED BY <1>3, <1>4, <1>5, <1>6 DEF KernelNumbers

(* The generator and the two filters agree on every kernel but 1 x 29,     *)
(* whatever --mr and --nr ask for (multi-isa-nanogemm.py 640-650).         *)
THEOREM WhatIsBuiltRuns == WorkerSpec => []RunsWhatIsBuilt
<1>1. SetUpInv => RunsWhatIsBuilt
  BY DEF SetUpInv
<1> QED BY <1>1, SetUpInit, SetUpStep, PTL DEF WorkerSpec

(* For every kernel, every width and every cache of the assumption, the    *)
(* unrolled loop closes, is not empty, and its panels leave a way of the   *)
(* cache to C (setup_system 299-326).                                      *)
THEOREM KernelNumbersAreRight == WorkerSpec => []KernelNumbers
  BY SetUpInit, SetUpStep, SetUpNumbers, PTL DEF WorkerSpec

LEMMA SamplesWorkerStep ==
  FrameInv /\ SamplesKnown /\ [WorkerNext]_workerVars => SamplesKnown'
<1> SUFFICES ASSUME FrameInv, SamplesKnown, [WorkerNext]_workerVars PROVE SamplesKnown'
  OBVIOUS
<1>1. CASE UNCHANGED <<columns, run, rows>>
  BY <1>1 DEF SamplesKnown, columns
<1>2. CASE RunSimulation
  BY <1>2, SamplesStep DEF RunSimulation
<1>3. CASE RunOneSimulation
  BY <1>1, <1>3 DEF RunOneSimulation, Simulate, WorkBegin, statsVars
<1>4. CASE FilterCombination \/ BuildCore \/ BuildOneCore \/ BuildSystem
  BY <1>1, <1>4 DEF FilterCombination, BuildCore, BuildOneCore, BuildSystem, statsVars
<1>5. CASE UNCHANGED workerVars
  BY <1>1, <1>5 DEF workerVars, statsVars
<1> QED BY <1>2, <1>3, <1>4, <1>5 DEF WorkerNext

(* A frame that is put on the queue comes from a simulation of a kernel    *)
(* that was built, on a core that was set up; it is rectangular, and each  *)
(* row's bucket columns add up to its samples, however often buckets were  *)
(* resized (append_stats 101-165, fix_stat_list 430-437).                  *)
THEOREM FramesAreComplete == WorkerSpec => []FrameIsComplete
<1> DEFINE I == FrameInv /\ NoRows /\ SamplesKnown /\ SetUpInv
<1>1. WorkerInit => I
  BY InitWorkerFrame, SamplesInit, SetUpInit DEF WorkerInit
<1>2. I /\ [WorkerNext]_workerVars => I'
  BY WorkerStep, SamplesWorkerStep, SetUpStep
<1>3. I => FrameIsComplete
  <2> SUFFICES ASSUME I PROVE FrameIsComplete
    OBVIOUS
  <2>1. put \/ run > 0 => simulating /\ fate = "run" /\ core # None
    BY DEF SetUpInv
  <2> QED BY <2>1, FrameAddsUp DEF FrameIsComplete, FrameInv
<1> QED BY <1>1, <1>2, <1>3, PTL DEF WorkerSpec
-----------------------------------------------------------------------------
(* The core.  setup_cpu() goes through the operation classes of each unit, *)
(* a fold over their places: an explicit solution of the recursion behind  *)
(* the fold is its only one.                                               *)

(* The greatest of some numbers up to n. *)
LEMMA MaxIsGreatest ==
  ASSUME NEW n \in Nat, NEW s \in SUBSET (1 .. n), s # {}
  PROVE  Max(s) \in s /\ \A x \in s : x <= Max(s)
<1> DEFINE Above == {n - x : x \in s}
<1>1. Above \subseteq Nat /\ Above # {}
  OBVIOUS
<1>2. PICK k \in Above : \A m \in Above : ~(<<m, k>> \in OpToRel(<, Nat))
  <2> HIDE DEF Above
  <2> QED BY <1>1, NatLessThanWellFounded, WFMin
<1>3. PICK x \in s : k = n - x
  OBVIOUS
<1>4. ASSUME NEW y \in s PROVE y <= x
  <2>1. n - y \in Nat /\ n - x \in Nat /\ x \in Nat /\ y \in Nat
    BY <1>3, <1>4
  <2>2. ASSUME n - y < n - x PROVE FALSE
    <3>1. <<n - y, n - x>> \in OpToRel(<, Nat)
      BY <2>1, <2>2 DEF OpToRel
    <3> QED BY <1>2, <1>3, <1>4, <3>1
  <2> QED BY <2>1, <2>2
<1>5. \E z \in s : \A y \in s : z >= y
  BY <1>3, <1>4
<1> QED BY <1>5 DEF Max

(* An operation class whose unit setup_cpu() changes. *)
Known == {"SimdFloatMultAcc", "VectorFloatArith", "MemWrite", "MemRead"}
CountOf(c, p) == CASE c \in {"SimdFloatMultAcc", "VectorFloatArith"} -> p.simd_count
                   [] c = "MemWrite" -> p.st_count
                   [] c = "MemRead" -> p.ld_count

(* A unit: a count and a list of operation classes. *)
IsUnit(unit) ==
  /\ unit = [count |-> unit.count, ops |-> unit.ops]
  /\ \E n \in Nat : unit.ops = [i \in 1 .. n |-> unit.ops[i]]

(* A unit after the operation classes in s have had their turn. *)
After(unit, p, s) ==
  LET known == {i \in s : unit.ops[i].class \in Known}
  IN [count |-> IF known = {} THEN unit.count ELSE CountOf(unit.ops[Max(known)].class, p),
      ops   |-> [i \in DOMAIN unit.ops |->
                   IF i \in s /\ unit.ops[i].class \in {"SimdFloatMultAcc", "VectorFloatArith"}
                   THEN [unit.ops[i] EXCEPT !.lat = p.simd_lat] ELSE unit.ops[i]]]

(* h gives the operation classes of every subset of the places s their     *)
(* turn, as the fold of SetUnit does.                                      *)
TurnsOver(h, unit, p, seq) ==
  h = [s \in SUBSET (DOMAIN seq) |->
         IF s = {} THEN unit ELSE SetOp(h[s \ {Max(s)}], seq[Max(s)], p)]
TheTurns(unit, p, seq) == CHOOSE h : TurnsOver(h, unit, p, seq)
Places(unit) == [i \in DOMAIN unit.ops |-> i]

(* What setup_cpu() makes of a unit is what the fold makes of all places.  *)
LEMMA SetUnitIs ==
  ASSUME NEW unit, NEW p
  PROVE  SetUnit(unit, p) = TheTurns(unit, p, Places(unit))[DOMAIN Places(unit)]
  BY Zenon DEF SetUnit, FoldLeft, MapThenFoldSet, TheTurns, TurnsOver, Places
LEMMA AfterNone ==
  ASSUME NEW unit, IsUnit(unit), NEW p
  PROVE  After(unit, p, {}) = unit
<1>1. unit = [count |-> unit.count, ops |-> unit.ops] /\ unit.ops = [i \in DOMAIN unit.ops |-> unit.ops[i]]
  BY DEF IsUnit
<1>2. {i \in {} : unit.ops[i].class \in Known} = {}
  OBVIOUS
<1> QED BY <1>1, <1>2 DEF After

LEMMA AfterOneMore ==
  ASSUME NEW unit, IsUnit(unit), NEW p, NEW s \in SUBSET DOMAIN unit.ops, s # {}
  PROVE  After(unit, p, s) = SetOp(After(unit, p, s \ {Max(s)}), Max(s), p)
<1> DEFINE m == Max(s)
           t == s \ {m}
           u == After(unit, p, t)
           K(r) == {i \in r : unit.ops[i].class \in Known}
<1>1. PICK n \in Nat : DOMAIN unit.ops = 1 .. n
  BY DEF IsUnit
<1>2. m \in s /\ (\A x \in s : x <= m) /\ m \in DOMAIN unit.ops
  BY <1>1, MaxIsGreatest
<1> HIDE DEF m
<1>3. u.ops[m] = unit.ops[m] /\ u.count = (IF K(t) = {} THEN unit.count ELSE CountOf(unit.ops[Max(K(t))].class, p))
  BY <1>2 DEF After
<1>4. unit.ops[m].class \in Known => K(s) # {} /\ Max(K(s)) = m
  <2> SUFFICES ASSUME unit.ops[m].class \in Known PROVE K(s) # {} /\ Max(K(s)) = m
    OBVIOUS
  <2>1. m \in K(s) /\ K(s) \in SUBSET (1 .. n) /\ K(s) \subseteq s
    BY <1>1, <1>2
  <2>2. Max(K(s)) \in K(s) /\ m <= Max(K(s))
    <3> HIDE DEF K
    <3> QED BY <2>1, MaxIsGreatest
  <2>3. Max(K(s)) <= m /\ Max(K(s)) \in 1 .. n /\ m \in 1 .. n
    BY <1>2, <2>1, <2>2
  <2> HIDE DEF K
  <2> QED BY <2>1, <2>2, <2>3
<1>5. unit.ops[m].class \notin Known => K(s) = K(t)
  BY <1>2
<1> DEFINE fused == unit.ops[m].class \in {"SimdFloatMultAcc", "VectorFloatArith"}
           count == IF unit.ops[m].class \in Known THEN CountOf(unit.ops[m].class, p) ELSE u.count
<1>6. After(unit, p, s).count = count
  <2>1. After(unit, p, s).count = IF K(s) = {} THEN unit.count ELSE CountOf(unit.ops[Max(K(s))].class, p)
    BY DEF After
  <2> HIDE DEF K, u
  <2> QED BY <1>3, <1>4, <1>5, <2>1
<1>7. After(unit, p, s).ops = [u.ops EXCEPT ![m] = IF fused THEN [unit.ops[m] EXCEPT !.lat = p.simd_lat] ELSE unit.ops[m]]
  <2> DEFINE F(r, i) == IF i \in r /\ unit.ops[i].class \in {"SimdFloatMultAcc", "VectorFloatArith"}
                        THEN [unit.ops[i] EXCEPT !.lat = p.simd_lat] ELSE unit.ops[i]
  <2>1. After(unit, p, s).ops = [i \in DOMAIN unit.ops |-> F(s, i)] /\ u.ops = [i \in DOMAIN unit.ops |-> F(t, i)]
    BY DEF After
  <2>2. \A i \in DOMAIN unit.ops : i # m => F(s, i) = F(t, i)
    OBVIOUS
  <2>3. F(s, m) = IF fused THEN [unit.ops[m] EXCEPT !.lat = p.simd_lat] ELSE unit.ops[m]
    BY <1>2
  <2> HIDE DEF F, u, fused
  <2> QED BY <1>2, <2>1, <2>2, <2>3
<1>8. u = [count |-> u.count, ops |-> u.ops] /\ After(unit, p, s) = [count |-> After(unit, p, s).count, ops |-> After(unit, p, s).ops]
  BY DEF After
<1>9. u.ops = [i \in DOMAIN unit.ops |-> u.ops[i]]
  BY DEF After
<1>10. SetOp(u, m, p) = [count |-> count, ops |-> [u.ops EXCEPT ![m] = IF fused THEN [unit.ops[m] EXCEPT !.lat = p.simd_lat] ELSE unit.ops[m]]]
  <2> HIDE DEF u
  <2>1. CASE fused
    <3>2. SetOp(u, m, p) = [count |-> p.simd_count, ops |-> [u.ops EXCEPT ![m].lat = p.simd_lat]]
      BY <1>3, <2>1 DEF SetOp
    <3>3. [u.ops EXCEPT ![m].lat = p.simd_lat] = [u.ops EXCEPT ![m] = [unit.ops[m] EXCEPT !.lat = p.simd_lat]]
      BY <1>3
    <3> QED BY <2>1, <3>2, <3>3 DEF CountOf, Known
  <2>2. CASE unit.ops[m].class = "MemWrite"
    BY <1>2, <1>3, <1>8, <1>9, <2>2 DEF SetOp, CountOf, Known
  <2>3. CASE unit.ops[m].class = "MemRead"
    BY <1>2, <1>3, <1>8, <1>9, <2>3 DEF SetOp, CountOf, Known
  <2>4. CASE unit.ops[m].class \notin Known
    BY <1>2, <1>3, <1>8, <1>9, <2>4 DEF SetOp, CountOf, Known
  <2> QED BY <2>1, <2>2, <2>3, <2>4 DEF Known
<1> HIDE DEF u, count, fused
<1> QED BY <1>6, <1>7, <1>8, <1>10 DEF m, u

(* Whatever the order of its operation classes, the last known one gives a *)
(* unit its count, and the fused operation alone its latency.              *)
LEMMA SetUnitDoes ==
  ASSUME NEW unit, IsUnit(unit), NEW p
  PROVE  SetUnit(unit, p) = After(unit, p, DOMAIN unit.ops)
<1> DEFINE D == DOMAIN unit.ops
           h == TheTurns(unit, p, Places(unit))
           f == [s \in SUBSET D |-> After(unit, p, s)]
<1>1. DOMAIN Places(unit) = D /\ \A i \in D : Places(unit)[i] = i
  BY DEF Places
<1>2. PICK n \in Nat : D = 1 .. n
  BY DEF IsUnit
<1>3. \A s \in SUBSET D : s # {} => Max(s) \in s
  BY <1>2, MaxIsGreatest
<1>4. TurnsOver(f, unit, p, Places(unit))
  <2>1. \A s \in SUBSET D : f[s] = IF s = {} THEN unit ELSE SetOp(f[s \ {Max(s)}], Places(unit)[Max(s)], p)
    <3> SUFFICES ASSUME NEW s \in SUBSET D
                 PROVE  f[s] = IF s = {} THEN unit ELSE SetOp(f[s \ {Max(s)}], Places(unit)[Max(s)], p)
      OBVIOUS
    <3>1. f[s] = After(unit, p, s) /\ f[s \ {Max(s)}] = After(unit, p, s \ {Max(s)})
      OBVIOUS
    <3>2. s # {} => Places(unit)[Max(s)] = Max(s)
      BY <1>1, <1>3
    <3> HIDE DEF f
    <3> QED BY <3>1, <3>2, AfterNone, AfterOneMore
  <2>2. f = [s \in SUBSET D |-> f[s]]
    OBVIOUS
  <2> HIDE DEF f
  <2> QED BY <1>1, <2>1, <2>2 DEF TurnsOver
<1>5. TurnsOver(h, unit, p, Places(unit))
  BY <1>4 DEF TheTurns
<1> HIDE DEF h, f
<1> DEFINE Bad == {s \in SUBSET D : h[s] # f[s]}
<1>6. Bad = {}
  <2> SUFFICES ASSUME Bad # {} PROVE FALSE
    OBVIOUS
  <2>1. Bad \subseteq FiniteSubsetsOf(D)
    BY <1>2, FS_Interval, FS_Subset DEF FiniteSubsetsOf
  <2>2. PICK s \in Bad : \A t \in Bad : ~(<<t, s>> \in StrictSubsetOrdering(D))
    <3> HIDE DEF Bad
    <3> QED BY <2>1, FS_StrictSubsetOrderingWellFounded, WFMin
  <2>3. s \in SUBSET D /\ h[s] # f[s]
    OBVIOUS
  <2>4. h[s] = IF s = {} THEN unit ELSE SetOp(h[s \ {Max(s)}], Places(unit)[Max(s)], p)
    BY <1>1, <1>5, <2>3 DEF TurnsOver
  <2>5. f[s] = IF s = {} THEN unit ELSE SetOp(f[s \ {Max(s)}], Places(unit)[Max(s)], p)
    BY <1>1, <1>4, <2>3 DEF TurnsOver
  <2>6. s # {} /\ Max(s) \in s
    BY <1>3, <2>3, <2>4, <2>5
  <2>7. <<s \ {Max(s)}, s>> \in StrictSubsetOrdering(D)
    BY <2>3, <2>6 DEF StrictSubsetOrdering
  <2>8. s \ {Max(s)} \notin Bad /\ s \ {Max(s)} \in SUBSET D
    BY <2>2, <2>3, <2>7
  <2>9. h[s \ {Max(s)}] = f[s \ {Max(s)}]
    BY <2>8
  <2> HIDE DEF Bad
  <2> QED BY <2>3, <2>4, <2>5, <2>9
<1>7. h[D] = f[D]
  BY <1>6
<1> QED BY <1>1, <1>7, SetUnitIs DEF h, f
(* The sum of five numbers. *)
Total(seq) == FoldLeft(+, 0, seq)
TotalsOver(h, seq) ==
  h = [s \in SUBSET (DOMAIN seq) |-> IF s = {} THEN 0 ELSE h[s \ {Max(s)}] + seq[Max(s)]]
TheTotals(seq) == CHOOSE h : TotalsOver(h, seq)

LEMMA TotalIs ==
  ASSUME NEW seq
  PROVE  Total(seq) = TheTotals(seq)[DOMAIN seq]
  BY Zenon DEF Total, FoldLeft, MapThenFoldSet, TheTotals, TotalsOver

LEMMA FiveAddUp ==
  ASSUME NEW seq \in [1 .. 5 -> Nat]
  PROVE  Total(seq) = seq[1] + seq[2] + seq[3] + seq[4] + seq[5]
<1> DEFINE D == 1 .. 5
           h == TheTotals(seq)
           P(i, s) == IF i \in s THEN seq[i] ELSE 0
           F(s) == P(1, s) + P(2, s) + P(3, s) + P(4, s) + P(5, s)
           f == [s \in SUBSET D |-> F(s)]
<1>1. \A s \in SUBSET D : s # {} => Max(s) \in s
  BY MaxIsGreatest
<1>2. \A s \in SUBSET D : \A m \in s : F(s) = F(s \ {m}) + seq[m]
  <2> SUFFICES ASSUME NEW s \in SUBSET D, NEW m \in s PROVE F(s) = F(s \ {m}) + seq[m]
    OBVIOUS
  <2>1. /\ \A i \in D : i # m => P(i, s \ {m}) = P(i, s)
        /\ P(m, s \ {m}) = 0 /\ P(m, s) = seq[m]
    OBVIOUS
  <2>2. \A i \in D : P(i, s) \in Nat
    OBVIOUS
  <2>3. m = 1 \/ m = 2 \/ m = 3 \/ m = 4 \/ m = 5
    OBVIOUS
  <2> HIDE DEF P
  <2> QED BY <2>1, <2>2, <2>3
<1>3. F({}) = 0
  OBVIOUS
<1>4. F(D) = seq[1] + seq[2] + seq[3] + seq[4] + seq[5]
  OBVIOUS
<1> HIDE DEF F
<1>5. TotalsOver(f, seq)
  <2>1. \A s \in SUBSET D : F(s) = IF s = {} THEN 0 ELSE f[s \ {Max(s)}] + seq[Max(s)]
    BY <1>1, <1>2, <1>3
  <2>2. DOMAIN seq = D
    OBVIOUS
  <2> QED BY <2>1, <2>2 DEF TotalsOver
<1>6. TotalsOver(h, seq)
  BY <1>5 DEF TheTotals
<1> HIDE DEF h, f
<1> DEFINE Bad == {s \in SUBSET D : h[s] # f[s]}
<1>7. Bad = {}
  <2> SUFFICES ASSUME Bad # {} PROVE FALSE
    OBVIOUS
  <2>1. Bad \subseteq FiniteSubsetsOf(D)
    <3>1. \A n \in Nat : IsFiniteSet(1 .. n)
      BY FS_Interval
    <3>2. 5 \in Nat
      OBVIOUS
    <3>3. IsFiniteSet(D)
      BY <3>1, <3>2, Zenon
    <3> QED BY <3>3, FS_Subset DEF FiniteSubsetsOf
  <2>2. PICK s \in Bad : \A t \in Bad : ~(<<t, s>> \in StrictSubsetOrdering(D))
    <3> HIDE DEF Bad
    <3> QED BY <2>1, FS_StrictSubsetOrderingWellFounded, WFMin
  <2>3. s \in SUBSET D /\ h[s] # f[s] /\ DOMAIN seq = D
    OBVIOUS
  <2>4. /\ h[s] = IF s = {} THEN 0 ELSE h[s \ {Max(s)}] + seq[Max(s)]
        /\ f[s] = IF s = {} THEN 0 ELSE f[s \ {Max(s)}] + seq[Max(s)]
    BY <1>5, <1>6, <2>3 DEF TotalsOver
  <2>5. s # {} /\ Max(s) \in s
    BY <1>1, <2>3, <2>4
  <2>6. <<s \ {Max(s)}, s>> \in StrictSubsetOrdering(D)
    BY <2>3, <2>5 DEF StrictSubsetOrdering
  <2>7. s \ {Max(s)} \notin Bad /\ s \ {Max(s)} \in SUBSET D
    BY <2>2, <2>3, <2>6
  <2>8. h[s \ {Max(s)}] = f[s \ {Max(s)}]
    BY <2>7
  <2> QED BY <2>3, <2>4, <2>5, <2>8
<1>8. Total(seq) = h[D] /\ h[D] = f[D]
  BY <1>7, TotalIs DEF h
<1> QED BY <1>4, <1>8 DEF f
-----------------------------------------------------------------------------
(* The two models of the sweep have gem5's pool. *)
Models == {"O3_ARM_Neoverse_N1", "O3_ARM_Neoverse_N1_but_RISCV"}

LEMMA PoolOfModels == \A c \in Models : FuPool(c) = DefaultFUPool
<1> SUFFICES ASSUME NEW c \in Models PROVE FuPool(c) = DefaultFUPool
  OBVIOUS
<1>1. /\ Classes[c].bases = <<"BaseO3CPU">> /\ Classes[c].pool = <<>>
      /\ Classes["BaseO3CPU"].pool = DefaultFUPool
  BY DEF Models, Classes, N1Class, N1RiscvClass, Inherited, Class
<1>2. DOMAIN Lineage(c) = 1 .. 2 /\ Lineage(c)[1] = c /\ Lineage(c)[2] = "BaseO3CPU"
  <2> DEFINE S == {c, "BaseO3CPU"}
  <2>1. <<c>> \in Seq(S) /\ <<"BaseO3CPU">> \in Seq(S)
    OBVIOUS
  <2>2. Lineage(c) = <<c>> \o <<"BaseO3CPU">>
    BY <1>1 DEF Lineage
  <2> QED BY <2>1, <2>2, ConcatProperties
<1>3. DefaultFUPool # <<>>
  BY DEF DefaultFUPool
<1> DEFINE D(i) == Classes[Lineage(c)[i]].pool # <<>> /\ \A k \in 1 .. i - 1 : ~(Classes[Lineage(c)[k]].pool # <<>>)
<1>4. \A i \in DOMAIN Lineage(c) : D(i) <=> i = 2
  <2>1. ~D(1)
    BY <1>1, <1>2
  <2>2. D(2)
    BY <1>1, <1>2, <1>3
  <2>3. \A i \in DOMAIN Lineage(c) : i = 1 \/ i = 2
    BY <1>2
  <2> HIDE DEF D
  <2> QED BY <2>1, <2>2, <2>3
<1>5. FuPool(c) = Classes[Lineage(c)[CHOOSE i \in DOMAIN Lineage(c) : D(i)]].pool
  BY Zenon DEF FuPool, Owner
<1> HIDE DEF D
<1>6. (CHOOSE i \in DOMAIN Lineage(c) : D(i)) = 2
  <2>1. 2 \in DOMAIN Lineage(c)
    BY <1>2
  <2> QED BY <1>4, <2>1
<1> QED BY <1>1, <1>2, <1>5, <1>6

(* The classes of the vector unit: one of the twenty is known. *)
LEMMA VectorClasses ==
  \A i \in 1 .. 20 : /\ SimdClasses[i] \in Known <=> i = 19
                     /\ SimdClasses[i] = "SimdFloatMultAcc" <=> i = 19
<1>1. \A i \in 1 .. 20 : \/ i = 1 \/ i = 2 \/ i = 3 \/ i = 4 \/ i = 5 \/ i = 6 \/ i = 7 \/ i = 8 \/ i = 9 \/ i = 10
                         \/ i = 11 \/ i = 12 \/ i = 13 \/ i = 14 \/ i = 15 \/ i = 16 \/ i = 17 \/ i = 18 \/ i = 19 \/ i = 20
  OBVIOUS
<1>2. /\ SimdClasses[1] = "SimdAdd" /\ SimdClasses[2] = "SimdAddAcc" /\ SimdClasses[3] = "SimdAlu"
      /\ SimdClasses[4] = "SimdCmp" /\ SimdClasses[5] = "SimdCvt" /\ SimdClasses[6] = "SimdMisc"
      /\ SimdClasses[7] = "SimdMult" /\ SimdClasses[8] = "SimdMultAcc" /\ SimdClasses[9] = "SimdShift"
      /\ SimdClasses[10] = "SimdShiftAcc" /\ SimdClasses[11] = "SimdSqrt" /\ SimdClasses[12] = "SimdFloatAdd"
      /\ SimdClasses[13] = "SimdFloatAlu" /\ SimdClasses[14] = "SimdFloatCmp" /\ SimdClasses[15] = "SimdFloatCvt"
      /\ SimdClasses[16] = "SimdFloatDiv" /\ SimdClasses[17] = "SimdFloatMisc" /\ SimdClasses[18] = "SimdFloatMult"
      /\ SimdClasses[19] = "SimdFloatMultAcc" /\ SimdClasses[20] = "SimdFloatSqrt"
  BY DEF SimdClasses
<1> QED BY <1>1, <1>2, SMTT(60) DEF Known

(* The units of gem5's pool, one by one. *)
LEMMA DefaultUnits ==
  /\ DOMAIN DefaultFUPool = 1 .. 5
  /\ \A i \in 1 .. 5 : IsUnit(DefaultFUPool[i])
  /\ DefaultFUPool[1] = [count |-> 6, ops |-> <<Op("IntAlu", 1)>>]
  /\ DefaultFUPool[2] = [count |-> 0, ops |-> <<Op("MemRead", 1), Op("FloatMemRead", 1)>>]
  /\ DefaultFUPool[3] = [count |-> 4, ops |-> [i \in 1 .. 20 |-> Op(SimdClasses[i], 1)]]
  /\ DefaultFUPool[4] = [count |-> 0, ops |-> <<Op("MemWrite", 1), Op("FloatMemWrite", 1)>>]
  /\ DefaultFUPool[5] = [count |-> 4, ops |-> <<Op("MemRead", 1), Op("MemWrite", 1), Op("FloatMemRead", 1), Op("FloatMemWrite", 1)>>]
<1>1. /\ DOMAIN DefaultFUPool = 1 .. 5
      /\ DefaultFUPool[1] = Unit(6, <<Op("IntAlu", 1)>>)
      /\ DefaultFUPool[2] = Unit(0, <<Op("MemRead", 1), Op("FloatMemRead", 1)>>)
      /\ DefaultFUPool[3] = Unit(4, [i \in 1 .. 20 |-> Op(SimdClasses[i], 1)])
      /\ DefaultFUPool[4] = Unit(0, <<Op("MemWrite", 1), Op("FloatMemWrite", 1)>>)
      /\ DefaultFUPool[5] = Unit(4, <<Op("MemRead", 1), Op("MemWrite", 1), Op("FloatMemRead", 1), Op("FloatMemWrite", 1)>>)
  BY DEF DefaultFUPool
<1>3. \A n, o : (\E k \in Nat : o = [i \in 1 .. k |-> o[i]]) => IsUnit(Unit(n, o))
  BY DEF Unit, IsUnit
<1>4. \A n, a, b, c, d : IsUnit(Unit(n, <<a>>)) /\ IsUnit(Unit(n, <<a, b>>)) /\ IsUnit(Unit(n, <<a, b, c, d>>))
  <2> TAKE n, a, b, c, d
  <2>1. /\ <<a>> = [i \in 1 .. 1 |-> <<a>>[i]] /\ <<a, b>> = [i \in 1 .. 2 |-> <<a, b>>[i]]
        /\ <<a, b, c, d>> = [i \in 1 .. 4 |-> <<a, b, c, d>>[i]]
        /\ 1 \in Nat /\ 2 \in Nat /\ 4 \in Nat
    OBVIOUS
  <2> DEFINE s == <<a>>
             t == <<a, b>>
             u == <<a, b, c, d>>
  <2>2. /\ \E k \in Nat : s = [i \in 1 .. k |-> s[i]]
        /\ \E k \in Nat : t = [i \in 1 .. k |-> t[i]]
        /\ \E k \in Nat : u = [i \in 1 .. k |-> u[i]]
    BY <2>1
  <2> HIDE DEF s, t, u
  <2>3. IsUnit(Unit(n, s)) /\ IsUnit(Unit(n, t)) /\ IsUnit(Unit(n, u))
    BY <1>3, <2>2
  <2> QED BY <2>3 DEF s, t, u
<1>5. IsUnit(DefaultFUPool[3])
  <2> DEFINE s == [i \in 1 .. 20 |-> Op(SimdClasses[i], 1)]
  <2>1. s = [i \in 1 .. 20 |-> s[i]] /\ 20 \in Nat
    OBVIOUS
  <2> HIDE DEF s
  <2>2. IsUnit(Unit(4, s))
    BY <1>3, <2>1
  <2> QED BY <1>1, <2>2 DEF s
<1>7. \A i \in 1 .. 5 : i = 1 \/ i = 2 \/ i = 3 \/ i = 4 \/ i = 5
  OBVIOUS
<1>6. IsUnit(DefaultFUPool[1]) /\ IsUnit(DefaultFUPool[2]) /\ IsUnit(DefaultFUPool[4]) /\ IsUnit(DefaultFUPool[5])
  BY <1>1, <1>4, Zenon
<1>8. \A i \in 1 .. 5 : IsUnit(DefaultFUPool[i])
  BY <1>5, <1>6, <1>7
<1> QED BY <1>1, <1>8 DEF Unit
(* What setup_cpu() makes of the pool: the last operation class of a unit  *)
(* decides how many there are, and a class is neither added nor lost.      *)
Made(p) == [i \in 1 .. 5 |-> SetUnit(DefaultFUPool[i], p)]

Retimed(op, p) ==
  IF op.class \in {"SimdFloatMultAcc", "VectorFloatArith"} THEN [op EXCEPT !.lat = p.simd_lat] ELSE op

LEMMA MadeOps ==
  ASSUME NEW p, NEW i \in 1 .. 5
  PROVE  /\ DOMAIN Made(p)[i].ops = DOMAIN DefaultFUPool[i].ops
         /\ \A j \in DOMAIN DefaultFUPool[i].ops : Made(p)[i].ops[j] = Retimed(DefaultFUPool[i].ops[j], p)
<1>1. IsUnit(DefaultFUPool[i])
  BY DefaultUnits
<1>2. Made(p)[i] = After(DefaultFUPool[i], p, DOMAIN DefaultFUPool[i].ops)
  BY <1>1, SetUnitDoes DEF Made
<1> QED BY <1>2 DEF After, Retimed

LEMMA MadeCounts ==
  ASSUME NEW p
  PROVE  /\ Made(p)[1].count = 6 /\ Made(p)[2].count = p.ld_count /\ Made(p)[3].count = p.simd_count
         /\ Made(p)[4].count = p.st_count /\ Made(p)[5].count = p.st_count
<1> DEFINE K(i) == {j \in DOMAIN DefaultFUPool[i].ops : DefaultFUPool[i].ops[j].class \in Known}
<1>1. \A i \in 1 .. 5 : Made(p)[i].count = IF K(i) = {} THEN DefaultFUPool[i].count
                                           ELSE CountOf(DefaultFUPool[i].ops[Max(K(i))].class, p)
  <2> SUFFICES ASSUME NEW i \in 1 .. 5
               PROVE  Made(p)[i].count = IF K(i) = {} THEN DefaultFUPool[i].count
                                           ELSE CountOf(DefaultFUPool[i].ops[Max(K(i))].class, p)
    OBVIOUS
  <2>1. IsUnit(DefaultFUPool[i])
    BY DefaultUnits
  <2>2. Made(p)[i] = After(DefaultFUPool[i], p, DOMAIN DefaultFUPool[i].ops)
    BY <2>1, SetUnitDoes DEF Made
  <2> QED BY <2>2 DEF After
<1>2. /\ K(1) = {} /\ DefaultFUPool[1].count = 6
      /\ K(2) = {1} /\ DefaultFUPool[2].ops[1].class = "MemRead"
      /\ K(4) = {1} /\ DefaultFUPool[4].ops[1].class = "MemWrite"
      /\ K(5) = {1, 2} /\ DefaultFUPool[5].ops[2].class = "MemWrite"
  BY DefaultUnits DEF Op, Known
<1>3. K(3) = {19} /\ DefaultFUPool[3].ops[19].class = "SimdFloatMultAcc"
  <2>1. \A i \in 1 .. 20 : DefaultFUPool[3].ops[i].class = SimdClasses[i]
    BY DefaultUnits DEF Op
  <2>2. DOMAIN DefaultFUPool[3].ops = 1 .. 20
    BY DefaultUnits
  <2> QED BY <2>1, <2>2, VectorClasses
<1> HIDE DEF K
<1>4. Max({1}) = 1 /\ Max({19}) = 19 /\ Max({1, 2}) = 2
  <2>1. {1} \in SUBSET (1 .. 20) /\ {19} \in SUBSET (1 .. 20) /\ {1, 2} \in SUBSET (1 .. 20) /\ 20 \in Nat
    OBVIOUS
  <2> QED BY <2>1, MaxIsGreatest
<1>5. \A i \in 1 .. 5 : K(i) # {} => Made(p)[i].count = CountOf(DefaultFUPool[i].ops[Max(K(i))].class, p)
  BY <1>1
<1>6. Made(p)[1].count = 6
  BY <1>1, <1>2
<1>7. Made(p)[2].count = p.ld_count
  <2>1. Made(p)[2].count = CountOf(DefaultFUPool[2].ops[Max(K(2))].class, p)
    BY <1>2, <1>5, SMTT(30)
  <2> QED BY <1>2, <1>4, <2>1 DEF CountOf
<1>8. Made(p)[3].count = p.simd_count
  <2>1. Made(p)[3].count = CountOf(DefaultFUPool[3].ops[Max(K(3))].class, p)
    BY <1>3, <1>5
  <2> QED BY <1>3, <1>4, <2>1 DEF CountOf
<1>9. Made(p)[4].count = p.st_count
  <2>1. Made(p)[4].count = CountOf(DefaultFUPool[4].ops[Max(K(4))].class, p)
    BY <1>2, <1>5
  <2> QED BY <1>2, <1>4, <2>1 DEF CountOf
<1>10. Made(p)[5].count = p.st_count
  <2>1. Made(p)[5].count = CountOf(DefaultFUPool[5].ops[Max(K(5))].class, p)
    BY <1>2, <1>5
  <2> QED BY <1>2, <1>4, <2>1 DEF CountOf
<1> QED BY <1>6, <1>7, <1>8, <1>9, <1>10

LEMMA DefaultOps ==
  \A i \in 1 .. 5 : \A j \in DOMAIN DefaultFUPool[i].ops :
    DefaultFUPool[i].ops[j] = Op(DefaultFUPool[i].ops[j].class, 1)
<1>1. \A i \in 1 .. 5 : i = 1 \/ i = 2 \/ i = 3 \/ i = 4 \/ i = 5
  OBVIOUS
<1>2. \A c : Op(c, 1) = Op(Op(c, 1).class, 1)
  BY DEF Op
<1>3. ASSUME NEW j \in DOMAIN DefaultFUPool[3].ops
      PROVE  DefaultFUPool[3].ops[j] = Op(SimdClasses[j], 1)
  BY <1>3, DefaultUnits
<1>4. \A i \in {1, 2, 4, 5} : \A j \in DOMAIN DefaultFUPool[i].ops : \E c : DefaultFUPool[i].ops[j] = Op(c, 1)
  <2>1. ASSUME NEW a, NEW b, NEW c, NEW d
        PROVE  /\ \A j \in DOMAIN <<a>> : <<a>>[j] = a
               /\ \A j \in DOMAIN <<a, b>> : <<a, b>>[j] = a \/ <<a, b>>[j] = b
               /\ \A j \in DOMAIN <<a, b, c, d>> : LET t == <<a, b, c, d>>[j] IN t = a \/ t = b \/ t = c \/ t = d
    OBVIOUS
  <2>2. ASSUME NEW j \in DOMAIN DefaultFUPool[1].ops PROVE \E c : DefaultFUPool[1].ops[j] = Op(c, 1)
    BY <2>1, <2>2, DefaultUnits
  <2>3. ASSUME NEW j \in DOMAIN DefaultFUPool[2].ops PROVE \E c : DefaultFUPool[2].ops[j] = Op(c, 1)
    BY <2>1, <2>3, DefaultUnits
  <2>4. ASSUME NEW j \in DOMAIN DefaultFUPool[4].ops PROVE \E c : DefaultFUPool[4].ops[j] = Op(c, 1)
    BY <2>1, <2>4, DefaultUnits
  <2>5. ASSUME NEW j \in DOMAIN DefaultFUPool[5].ops PROVE \E c : DefaultFUPool[5].ops[j] = Op(c, 1)
    BY <2>1, <2>5, DefaultUnits
  <2> QED BY <2>2, <2>3, <2>4, <2>5
<1>5. \A i \in 1 .. 5 : \A j \in DOMAIN DefaultFUPool[i].ops : \E c : DefaultFUPool[i].ops[j] = Op(c, 1)
  BY <1>1, <1>3, <1>4
<1> QED BY <1>2, <1>5

(* The units that take the operation classes of the property. *)
LEMMA MadeFor ==
  ASSUME NEW p
  PROVE  /\ UnitsFor(Made(p), "SimdFloatMultAcc") = {3}
         /\ UnitsFor(Made(p), "MemRead") = {2, 5}
         /\ UnitsFor(Made(p), "MemWrite") = {4, 5}
<1> DEFINE C(i) == {DefaultFUPool[i].ops[j].class : j \in DOMAIN DefaultFUPool[i].ops}
<1>1. \A i \in 1 .. 5 : \A j \in DOMAIN DefaultFUPool[i].ops :
        Made(p)[i].ops[j].class = DefaultFUPool[i].ops[j].class
  <2>1. \A c : Retimed(Op(c, 1), p).class = Op(c, 1).class
    BY DEF Op, Retimed
  <2> QED BY <2>1, DefaultOps, MadeOps
<1>2. \A c : UnitsFor(Made(p), c) = {i \in 1 .. 5 : c \in C(i)}
  <2> TAKE c
  <2>1. DOMAIN Made(p) = 1 .. 5
    BY DEF Made
  <2>2. \A i \in 1 .. 5 : DOMAIN Made(p)[i].ops = DOMAIN DefaultFUPool[i].ops
    BY MadeOps
  <2>3. \A i \in 1 .. 5 : (\E j \in DOMAIN Made(p)[i].ops : Made(p)[i].ops[j].class = c) <=> c \in C(i)
    BY <1>1, <2>2
  <2> HIDE DEF C
  <2> QED BY <2>1, <2>3 DEF UnitsFor
<1>3. /\ C(1) = {"IntAlu"} /\ C(2) = {"MemRead", "FloatMemRead"} /\ C(4) = {"MemWrite", "FloatMemWrite"}
      /\ C(5) = {"MemRead", "MemWrite", "FloatMemRead", "FloatMemWrite"}
  BY DefaultUnits DEF Op
<1>4. "SimdFloatMultAcc" \in C(3) /\ "MemRead" \notin C(3) /\ "MemWrite" \notin C(3)
  <2>1. \A i \in 1 .. 20 : DefaultFUPool[3].ops[i].class = SimdClasses[i]
    BY DefaultUnits DEF Op
  <2>2. DOMAIN DefaultFUPool[3].ops = 1 .. 20
    BY DefaultUnits
  <2> QED BY <2>1, <2>2, VectorClasses DEF Known
<1>5. \A i \in 1 .. 5 : i = 1 \/ i = 2 \/ i = 3 \/ i = 4 \/ i = 5
  OBVIOUS
<1> HIDE DEF C
<1> QED BY <1>2, <1>3, <1>4, <1>5
(* Their ports: the load ports of the common unit are given the stores'    *)
(* count, too.                                                             *)
LEMMA PortsAre ==
  ASSUME NEW p, p.simd_count \in Nat, p.ld_count \in Nat, p.st_count \in Nat
  PROVE  /\ PortsFor(Made(p), "SimdFloatMultAcc") = p.simd_count
         /\ PortsFor(Made(p), "MemRead") = p.ld_count + p.st_count
         /\ PortsFor(Made(p), "MemWrite") = 2 * p.st_count
<1> DEFINE Seq5(c) == [i \in 1 .. 5 |-> IF i \in UnitsFor(Made(p), c) THEN Made(p)[i].count ELSE 0]
<1>1. \A c : PortsFor(Made(p), c) = Total([i \in DOMAIN Made(p) |-> IF i \in UnitsFor(Made(p), c) THEN Made(p)[i].count ELSE 0])
  BY Zenon DEF PortsFor, Total
<1>2. DOMAIN Made(p) = 1 .. 5
  BY DEF Made
<1>3. \A c : PortsFor(Made(p), c) = Total(Seq5(c))
  BY <1>1, <1>2, Zenon
<1>4. \A i \in 1 .. 5 : Made(p)[i].count \in Nat
  <2>1. \A i \in 1 .. 5 : i = 1 \/ i = 2 \/ i = 3 \/ i = 4 \/ i = 5
    OBVIOUS
  <2> QED BY <2>1, MadeCounts
<1>5. \A c : Seq5(c) \in [1 .. 5 -> Nat]
  BY <1>4
<1>6. \A c : Total(Seq5(c)) = Seq5(c)[1] + Seq5(c)[2] + Seq5(c)[3] + Seq5(c)[4] + Seq5(c)[5]
  <2> HIDE DEF Seq5
  <2> QED BY <1>5, FiveAddUp
<1>7. \A c : \A i \in 1 .. 5 : Seq5(c)[i] = IF i \in UnitsFor(Made(p), c) THEN Made(p)[i].count ELSE 0
  OBVIOUS
<1> HIDE DEF Seq5
<1>8. /\ Seq5("SimdFloatMultAcc")[1] = 0 /\ Seq5("SimdFloatMultAcc")[2] = 0 /\ Seq5("SimdFloatMultAcc")[3] = p.simd_count
      /\ Seq5("SimdFloatMultAcc")[4] = 0 /\ Seq5("SimdFloatMultAcc")[5] = 0
  BY <1>7, MadeFor, MadeCounts
<1>9. /\ Seq5("MemRead")[1] = 0 /\ Seq5("MemRead")[2] = p.ld_count /\ Seq5("MemRead")[3] = 0
      /\ Seq5("MemRead")[4] = 0 /\ Seq5("MemRead")[5] = p.st_count
  <2>1. \A i \in 1 .. 5 : Seq5("MemRead")[i] = IF i \in {2, 5} THEN Made(p)[i].count ELSE 0
    BY <1>7, MadeFor
  <2> QED BY <2>1, MadeCounts
<1>10. /\ Seq5("MemWrite")[1] = 0 /\ Seq5("MemWrite")[2] = 0 /\ Seq5("MemWrite")[3] = 0
       /\ Seq5("MemWrite")[4] = p.st_count /\ Seq5("MemWrite")[5] = p.st_count
  <2>1. \A i \in 1 .. 5 : Seq5("MemWrite")[i] = IF i \in {4, 5} THEN Made(p)[i].count ELSE 0
    BY <1>7, MadeFor
  <2> QED BY <2>1, MadeCounts
<1> QED BY <1>3, <1>6, <1>8, <1>9, <1>10

(* What was built was built with the setting that is remembered. *)
CoreInv ==
  core # None =>
    /\ core.model \in Models
    /\ core.attributes = Core(core.model, setting, 1, 1).attributes
    /\ core.units = Core(core.model, setting, 1, 1).units
    /\ setting.simd_count \in Nat /\ setting.ld_count \in Nat /\ setting.st_count \in Nat

LEMMA CoreInvInit == WorkerInit => CoreInv
  BY DEF WorkerInit, CoreInit, CoreInv

LEMMA CoreIs ==
  ASSUME NEW c, NEW p, NEW assoc, NEW l1
  PROVE  /\ Core(c, p, assoc, l1).model = c
         /\ Core(c, p, assoc, l1).attributes = Core(c, p, 1, 1).attributes
         /\ Core(c, p, assoc, l1).units = Core(c, p, 1, 1).units
  BY DEF Core

LEMMA CoreStep == CoreInv /\ [WorkerNext]_workerVars => CoreInv'
<1> SUFFICES ASSUME CoreInv, [WorkerNext]_workerVars PROVE CoreInv'
  OBVIOUS
<1>1. CASE BuildCore
  <2>1. PICK isa \in Isas, p \in CoreSettings : core' = Core(ModelOf(isa), p, combo.assoc, combo.l1) /\ setting' = p
    BY <1>1 DEF BuildCore, SetUpCpu
  <2>2. ModelOf(isa) \in Models
    BY DEF ModelOf, Models
  <2>3. p.simd_count \in Nat /\ p.ld_count \in Nat /\ p.st_count \in Nat
    BY CoreAssumption
  <2> QED BY <2>1, <2>2, <2>3, CoreIs DEF CoreInv
<1>2. CASE BuildOneCore
  <2>1. PICK p \in CoreSettings : /\ core' = Core("O3_ARM_Neoverse_N1", OneSetting(p), combo.assoc, combo.l1)
                                  /\ setting' = OneSetting(p)
    BY <1>2 DEF BuildOneCore, SetUpOneCpu
  <2>2. "O3_ARM_Neoverse_N1" \in Models
    BY DEF Models
  <2>3. p.simd_count \in Nat /\ p.ld_count \in Nat /\ p.st_count \in Nat
    BY CoreAssumption
  <2>4. /\ OneSetting(p).simd_count = p.simd_count /\ OneSetting(p).ld_count = p.ld_count
        /\ OneSetting(p).st_count = p.st_count
    <3>1. {"simd_count", "ld_count", "st_count"} \subseteq DOMAIN p
      BY CoreAssumption
    <3> QED BY <3>1 DEF OneSetting
  <2> QED BY <2>1, <2>2, <2>3, <2>4, CoreIs DEF CoreInv
<1>3. CASE UNCHANGED coreVars
  BY <1>3 DEF coreVars, CoreInv
<1> QED BY <1>1, <1>2, <1>3 DEF WorkerNext, workerVars, FilterCombination, BuildSystem, RunSimulation, RunOneSimulation

LEMMA CoreHasSetting == CoreInv => CoreTakesParameters
<1> SUFFICES ASSUME CoreInv, core # None PROVE CoreTakesParameters
  BY DEF CoreTakesParameters
<1> DEFINE p == setting
<1>1. core.model \in Models /\ p.simd_count \in Nat /\ p.ld_count \in Nat /\ p.st_count \in Nat
  BY DEF CoreInv
<1>2. core.attributes = [a \in DOMAIN BaseO3CPU |-> IF a \in DOMAIN Assigned(p) THEN Assigned(p)[a] ELSE Attribute(core.model, a)]
  BY DEF CoreInv, Core
<1>3. \A a \in {"fetchWidth", "decodeWidth", "numROBEntries", "numIQEntries", "numPhysVecRegs", "commitWidth"} :
        a \in DOMAIN BaseO3CPU /\ a \in DOMAIN Assigned(p)
  BY DEF BaseO3CPU, Assigned
<1>4. \A a \in {"fetchWidth", "decodeWidth", "numROBEntries", "numIQEntries", "numPhysVecRegs", "commitWidth"} :
        core.attributes[a] = Assigned(p)[a]
  BY <1>2, <1>3
<1>5. core.attributes.fetchWidth = core.attributes.decodeWidth
  <2>1. Assigned(p).fetchWidth = Assigned(p).decodeWidth
    BY DEF Assigned
  <2> QED BY <1>4, <2>1
<1>6. FuPool(core.model) = DefaultFUPool
  BY <1>1, PoolOfModels
<1>7. core.units = Made(p)
  <2>1. core.units = [i \in DOMAIN FuPool(core.model) |-> SetUnit(FuPool(core.model)[i], p)]
    BY DEF CoreInv, Core
  <2>2. DOMAIN DefaultFUPool = 1 .. 5
    BY DefaultUnits
  <2> QED BY <1>6, <2>1, <2>2 DEF Made
<1>8. \A j \in DOMAIN Made(p)[3].ops :
        Made(p)[3].ops[j] = IF Made(p)[3].ops[j].class = "SimdFloatMultAcc" THEN Op("SimdFloatMultAcc", p.simd_lat)
                            ELSE DefaultFUPool[3].ops[j]
  <2> TAKE j \in DOMAIN Made(p)[3].ops
  <2>1. j \in DOMAIN DefaultFUPool[3].ops /\ Made(p)[3].ops[j] = Retimed(DefaultFUPool[3].ops[j], p)
    BY MadeOps
  <2>2. j \in 1 .. 20 /\ DefaultFUPool[3].ops[j] = Op(SimdClasses[j], 1)
    BY <2>1, DefaultUnits
  <2>3. SimdClasses[j] # "VectorFloatArith"
    BY <2>2, VectorClasses DEF Known
  <2>4. \A c : Op(c, 1).class = c
    BY DEF Op
  <2>6. \A c, l : [Op(c, 1) EXCEPT !.lat = l] = Op(c, l)
    <3> TAKE c, l
    <3> DEFINE r == [Op(c, 1) EXCEPT !.lat = l]
               q == Op(c, l)
    <3>1. DOMAIN r = {"class", "lat", "pipelined"} /\ DOMAIN q = {"class", "lat", "pipelined"}
      BY DEF Op
    <3>2. r["class"] = q["class"] /\ r["lat"] = q["lat"] /\ r["pipelined"] = q["pipelined"]
      BY DEF Op
    <3>3. r = [x \in DOMAIN r |-> r[x]] /\ q = [x \in DOMAIN q |-> q[x]]
      BY DEF Op
    <3> HIDE DEF r, q
    <3>4. \A x \in DOMAIN r : r[x] = q[x]
      BY <3>1, <3>2
    <3>5. r = q
      BY <3>1, <3>3, <3>4
    <3> QED BY <3>5 DEF r, q
  <2>5. Op("SimdFloatMultAcc", p.simd_lat).class = "SimdFloatMultAcc"
    BY DEF Op
  <2> QED BY <2>1, <2>2, <2>3, <2>4, <2>5, <2>6 DEF Retimed
<1> HIDE DEF p
<1>9. UnitsFor(core.units, "SimdFloatMultAcc") = {3}
  BY <1>7, MadeFor
<1>10. /\ PortsFor(core.units, "SimdFloatMultAcc") = p.simd_count
       /\ PortsFor(core.units, "MemRead") = p.ld_count + p.st_count
       /\ PortsFor(core.units, "MemWrite") = 2 * p.st_count
  BY <1>1, <1>7, PortsAre
<1>11. \A i \in UnitsFor(core.units, "SimdFloatMultAcc") : \A j \in DOMAIN core.units[i].ops :
         core.units[i].ops[j] = IF core.units[i].ops[j].class = "SimdFloatMultAcc"
                                THEN Op("SimdFloatMultAcc", p.simd_lat)
                                ELSE FuPool(core.model)[i].ops[j]
  BY <1>6, <1>7, <1>8, <1>9
<1> QED BY <1>4, <1>5, <1>9, <1>10, <1>11 DEF CoreTakesParameters, p

(* Whatever the options are, the core is given them, but for the ports of  *)
(* loads and stores, which are those of a unit's last operation class      *)
(* (setup_cpu 221-231).                                                    *)
THEOREM CoresTakeParameters == WorkerSpec => []CoreTakesParameters
  BY CoreInvInit, CoreStep, CoreHasSetting, PTL DEF WorkerSpec
=============================================================================
