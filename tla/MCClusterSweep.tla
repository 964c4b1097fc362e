-------------------------- MODULE MCClusterSweep --------------------------
EXTENDS ResultExtraction, ParetoPlot

VARIABLE part   \* a job with its extraction, or a plot

mcVars == <<part, vars, exVars, paretoVars>>

MCInit == part \in {"job", "plot"} /\ Init /\ ExInit /\ ParetoInit

MCNext ==
  \/ part = "job" /\ Next /\ UNCHANGED <<part, exVars, paretoVars>>
  \/ part = "job" /\ ExNext /\ UNCHANGED <<part, vars, paretoVars>>
  \/ part = "plot" /\ ParetoNext /\ UNCHANGED <<part, vars, exVars>>

MCSpec == MCInit /\ [][MCNext]_mcVars

MCJobs == {<<0, 0, 0>>, <<0, 0, 1>>, <<0, 1, 0>>, <<1, 0, 0>>}

(* Designs of two sizes in each of three statistics, where what is larger  *)
(* is never less efficient (up to the order of the statistics, all of      *)
(* which are tried), or one is missing; of three sizes in two or three     *)
(* statistics, with the number of given designs that are as small.  Each   *)
(* design has one run, or two, in which its efficiency differs; or nothing *)
(* is selected.                                                            *)
Rows(designs, f) == {[at |-> d, target |-> f[d]] : d \in designs}
AsSmall(d, e) == \A s \in Stats : d[s] <= e[s]

Cube == [Stats -> {1, 2}]
Monotone == {g \in [Cube -> 0 .. 2] : \A d, e \in Cube : AsSmall(d, e) => g[d] <= g[e]}
Cubes == {Rows(Cube, f) : f \in {g \in Monotone : g[<<1, 1, 2>>] <= g[<<1, 2, 1>>] /\ g[<<1, 2, 1>>] <= g[<<2, 1, 1>>]}}
Gaps == {[at |-> d, target |-> 1] : d \in {<<1, 2, 2>>, <<2, 1, 2>>, <<2, 2, 1>>}} \cup {[at |-> <<2, 2, 2>>, target |-> 2]}
WithGap == {t \ {r} : t \in Cubes, r \in Gaps}

Reaching(designs, S) == Rows(designs, [d \in designs |-> Cardinality({e \in S : AsSmall(e, d)})])
Square == (1 .. 3) \X (1 .. 3) \X {1}
Squares == {Reaching(Square, S) : S \in UNION {kSubset(k, Square) : k \in 1 .. 2}}
LargeCube == [Stats -> 1 .. 3]
Labelled(rows, run) == {[at |-> r.at, target |-> r.target, label |-> run] : r \in rows}
OneRun == {Labelled(t, 0) : t \in Cubes \cup WithGap \cup Squares \cup {Reaching(LargeCube, SetToSeqs(1 .. 3) \cup {<<2, 2, 2>>})}}
Measured == {Reaching(Square, {<<1, 1, 1>>}), Reaching(Square, {<<2, 1, 1>>, <<1, 3, 1>>}), Reaching(Square, {<<1, 2, 1>>, <<3, 1, 1>>})}
TwoRuns == {Labelled(t, 0) \cup Labelled(u, 1) : t, u \in Measured}
MCTables == OneRun \cup TwoRuns \cup {{}}
MCThresholds == <<0, 1, 0>>

(* Bounds: sweeps that fail; files found by an extraction that starts while *)
(* the job runs, and sweeps started until such a one is over.              *)
MaxFailures == 1
MaxEarlyFiles == 1
MaxEarlySweeps == 3
Bounded ==
  /\ Cardinality({j \in Jobs : state[j] = "failed"}) <= MaxFailures
  /\ began \in {"looping", "waiting"} =>
       /\ Cardinality(statfile_list) <= MaxEarlyFiles
       /\ Cardinality({j \in Jobs : state[j] # "unstarted"}) <= MaxEarlySweeps
=============================================================================
