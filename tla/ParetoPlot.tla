----------------------------- MODULE ParetoPlot -----------------------------
(***************************************************************************)
(* analysis/pareto.py: the designs that reach a threshold of efficiency    *)
(* with the smallest buffers, in a plot with a slider per parameter and    *)
(* one for the threshold.  A row is a tuple of three sizes and the         *)
(* efficiency of the design; what the sliders select also has row labels.  *)
(* A frame numbers the rows of its simulation from 0, a row for each run   *)
(* of the kernel, and no concatenation numbers them anew: a label is the   *)
(* number of a run, and repeats for every design that was simulated.       *)
(***************************************************************************)
EXTENDS Integers, Sequences, FiniteSets, SequencesExt, FiniteSetsExt

CONSTANTS
  Tables,       \* what the slider selects
  Thresholds    \* --target-thresholds

Stats == 1 .. 3

(* Tables are finite; efficiencies are numbered in their order, and        *)
(* --target-thresholds takes at least one.                                 *)
IsTable(rows) == IsFiniteSet(rows) /\ rows \subseteq [at : [Stats -> Int], target : Int]
IsSelection(rows) == IsFiniteSet(rows) /\ rows \subseteq [at : [Stats -> Int], target : Int, label : Nat]

ASSUME ParetoAssumption == (\A t \in Tables : IsSelection(t)) /\ Thresholds \in Seq(Int) \ {<<>>}

VARIABLES
  view,         \* none, plot or over
  selected,     \* history: the selection that the plot was made of
  given,        \* the rows pareto() was last called with
  full,         \* full_pareto_df: rows with the threshold they are listed for
  shown,        \* the rows in the plot
  threshold     \* where its slider is

paretoVars == <<view, selected, given, full, shown, threshold>>

(* Rows with the smallest target; the mutant has the largest.              *)
LeastIsLargest(rows) == {r \in rows : \A q \in rows : r.target >= q.target}
Least(rows) == {r \in rows : \A q \in rows : r.target <= q.target}

(* One statistic is minimised, the others being fixed. *)
Minimise(rows, point, stat) ==
  LET adf == {r \in rows : \A s \in Stats \ {stat} : r.at[s] = point[s]}
  IN IF adf = {} THEN point ELSE [point EXCEPT ![stat] = Min({r.at[stat] : r \in Least(adf)})]

(* From the largest values, in every order of the statistics. *)
Datapoint(rows, order) ==
  LET largest == [s \in Stats |-> Max({r.at[s] : r \in rows})]
      first   == Minimise(rows, largest, order[1])
      second  == Minimise(rows, first, order[2])
  IN Minimise(rows, second, order[3])
Datapoints(rows) == IF rows = {} THEN {} ELSE {Datapoint(rows, order) : order \in SetToSeqs(Stats)}

Above(rows, th) == {r \in rows : r.target > th}

(* pareto(): a datapoint is listed for the first threshold it is found for. *)
Found(rows, i) == Datapoints(Above(rows, Thresholds[i]))
Pareto(rows) ==
  UNION {LET new == Found(rows, i) \ UNION {Found(rows, j) : j \in 1 .. i - 1}
         IN {[row |-> r, pareto_threshold |-> Thresholds[i]] : r \in {q \in Above(rows, Thresholds[i]) : q.at \in new}} :
         i \in DOMAIN Thresholds}

(* Nothing to concatenate: every row is at or below every threshold. *)
ParetoFails(rows) == \A i \in DOMAIN Thresholds : Above(rows, Thresholds[i]) = {}

(* The selection is one group: the sliders have fixed all parameters that  *)
(* are neither analysed nor runs.  loc[] takes the label of its best row   *)
(* (the first of several, in any order), and so takes every row with this  *)
(* label, the rows of one run; then the labels are dropped.                *)
Best(table) == {r \in table : \A q \in table : q.target <= r.target}
Unlabelled(rows) == {[at |-> r.at, target |-> r.target] : r \in rows}
Grouped(table) ==
  IF table = {} THEN {{}}
  ELSE {Unlabelled({q \in table : q.label = r.label}) : r \in Best(table)}

UpdateThreshold(df, th) == shown' = {p.row : p \in {q \in df : q.pareto_threshold = th}}
-----------------------------------------------------------------------------
ParetoInit ==
  /\ view = "none" /\ threshold = Head(Thresholds)
  /\ selected = {} /\ given = {} /\ full = {} /\ shown = {}

(* update_plot(), first from main(), then from a slider, where what it     *)
(* raises is printed and the plot stays as it is.                          *)
UpdatePlot(table) ==
  /\ view \in {"none", "plot"}
  /\ \E rows \in Grouped(table) :
       IF ParetoFails(rows)
       THEN view' = (IF view = "none" THEN "over" ELSE "plot") /\ UNCHANGED <<selected, given, full, shown>>
       ELSE /\ view' = "plot" /\ selected' = table /\ given' = rows /\ full' = Pareto(rows)
            /\ UpdateThreshold(full', threshold)
  /\ UNCHANGED threshold

MoveThreshold ==
  /\ view = "plot"
  /\ \E i \in DOMAIN Thresholds : threshold' = Thresholds[i]
  /\ UpdateThreshold(full, threshold')
  /\ UNCHANGED <<view, selected, given, full>>

ParetoNext == (\E t \in Tables : UpdatePlot(t)) \/ MoveThreshold
-----------------------------------------------------------------------------
(* All combinations of some sizes, larger ones never less efficient.       *)
Regular(rows) ==
  \A r, q \in rows :
    /\ \A s \in Stats : \E p \in rows : p.at = [r.at EXCEPT ![s] = q.at[s]]
    /\ (\A s \in Stats : r.at[s] <= q.at[s]) => r.target <= q.target

(* The Pareto front of a threshold: designs above it such that no other is *)
(* as small in every size.  Its corners are the designs that are smallest  *)
(* in one statistic, among these in a second, and among these in the third. *)
ParetoFront(rows, th) ==
  {r \in Above(rows, th) : ~\E q \in Above(rows, th) : q # r /\ \A s \in Stats : q.at[s] <= r.at[s]}

SmallerIn(order, r, q) ==
  \E i \in Stats : /\ r.at[order[i]] < q.at[order[i]]
                  /\ \A j \in 1 .. i - 1 : r.at[order[j]] = q.at[order[j]]
Corners(rows, th) ==
  {r \in Above(rows, th) : \E order \in SetToSeqs(Stats) :
                              \A q \in Above(rows, th) \ {r} : SmallerIn(order, r, q)}

ListedFor(th) == {p.row : p \in {q \in full : q.pareto_threshold = th}}
Earlier(i) == {Thresholds[j] : j \in 1 .. i - 1}

(* What pareto() lists for a threshold are the corners of its front, which *)
(* are on the front, but for those it has listed for an earlier one, where *)
(* designs are regular.  Whatever they are, a row is only listed for a     *)
(* threshold that it exceeds, and the plot shows the rows of its threshold. *)
(* Nothing selected is more efficient than all that pareto() is given, and *)
(* where every simulation has one row pareto() is given all of them.       *)
ParetoListsCorners ==
  /\ Regular(given) => \A i \in DOMAIN Thresholds :
       Thresholds[i] \notin Earlier(i) =>
         /\ ListedFor(Thresholds[i])
              = Corners(given, Thresholds[i]) \ UNION {Corners(given, th) : th \in Earlier(i)}
         /\ ListedFor(Thresholds[i]) \subseteq ParetoFront(given, Thresholds[i])
  /\ \A p \in full : p.row \in Above(given, p.pareto_threshold)
  /\ view = "plot" => shown = ListedFor(threshold)
  /\ \A q \in selected : \E r \in given : q.target <= r.target
  /\ (\A r, q \in selected : r.label = q.label) => given = Unlabelled(selected)
=============================================================================
