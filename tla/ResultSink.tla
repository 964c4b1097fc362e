----------------------------- MODULE ResultSink -----------------------------
(***************************************************************************)
(* What a parameter sweep promises about its results, whatever processes,  *)
(* queues and buffers carry them: a simulation produces the rows of a      *)
(* parameter combination at most once, and rows are only ever added to the *)
(* stored files, each combination at most once.                            *)
(***************************************************************************)
CONSTANT Tasks      \* the parameter combinations of the sweep

VARIABLES produced, \* combinations whose simulation has delivered rows
          stored    \* combinations whose rows are in a closed result file

vars == <<produced, stored>>

TypeOK == produced \subseteq Tasks /\ stored \subseteq Tasks

Init == produced = {} /\ stored = {}

Produce(t) ==
  /\ t \notin produced
  /\ produced' = produced \cup {t}
  /\ UNCHANGED stored

Store(S) ==
  /\ S # {}
  /\ S \subseteq produced \ stored
  /\ stored' = stored \cup S
  /\ UNCHANGED produced

Next == (\E t \in Tasks : Produce(t)) \/ (\E S \in SUBSET Tasks : Store(S))

Spec == Init /\ [][Next]_vars
=============================================================================
