----------------------------- MODULE PortGraph -----------------------------
(***************************************************************************)
(* Systems as gem5 sees them: objects whose ports are bound to each other, *)
(* and requests that travel from port to port.  gem5 is not part of the    *)
(* repository; this is what its configuration scripts rely on.             *)
(*                                                                         *)
(* An object is a pair of the name a script gives it and a number.  A      *)
(* binding <<a, b>> lets a send requests to b.  Address ranges are sets of *)
(* half-open intervals.                                                    *)
(***************************************************************************)
EXTENDS Integers, Sequences, FiniteSets, TLC

Obj(name) == <<name, 0>>
Objs(name, is) == {<<name, i>> : i \in is}

(* Crossbars have any number of ports on each side, responders one above,  *)
(* sources one below; any other object has one above and one below.        *)
XBars == {"membus", "iobus", "toL2Bus", "tol3Bus", "l2bus", "xbar"}
Sources == {"system_port", "icache_port", "dcache_port", "itb_walker", "dtb_walker", "int_requestor", "tester", "tgen", "dma"}

(* Objects that pass requests on and are given the ranges they answer to;  *)
(* all others pass on what the objects below them answer to.               *)
Bridges == {"bridge", "apicbridge", "iobridge", "iocache", "seriallink", "buffer"}

(* Chain(<<a, b, c>>) binds a to b and b to c. *)
Chain(path) == {<<path[i], path[i + 1]>> : i \in 1 .. Len(path) - 1}
AllTo(objects, b) == objects \X {b}
ToAll(a, objects) == {a} \X objects

(* Objects that are created and perhaps never bound are spare. *)
Graph(binds, ranges, spare) ==
  [objects |-> {b[1] : b \in binds} \cup {b[2] : b \in binds} \cup DOMAIN ranges \cup spare,
   binds |-> binds, ranges |-> ranges]

Merge(g, h) == [objects |-> g.objects \cup h.objects, binds |-> g.binds \cup h.binds, ranges |-> g.ranges @@ h.ranges]
-----------------------------------------------------------------------------
Up(g, o)   == {b[1] : b \in {c \in g.binds : c[2] = o}}
Down(g, o) == {b[2] : b \in {c \in g.binds : c[1] = o}}

IsXBar(o)         == o[1] \in XBars
IsSource(o)       == o[1] \in Sources
IsResponder(g, o) == o \in DOMAIN g.ranges /\ o[1] \notin Bridges

(* Both sides of every end of a range, for all ranges of the system. *)
Probes(g) == UNION {UNION {{r[1], r[2] - 1, r[2]} : r \in g.ranges[o]} : o \in DOMAIN g.ranges}

InRanges(a, ranges) == \E r \in ranges : r[1] <= a /\ a < r[2]

(* The probes an object answers to. *)
Answers(g) ==
  LET probes == Probes(g)
      answers[o \in g.objects] ==
        IF o \in DOMAIN g.ranges THEN {a \in probes : InRanges(a, g.ranges[o])}
        ELSE UNION {answers[b] : b \in Down(g, o)}
  IN [o \in g.objects |-> answers[o]]

(* Every port that needs one has exactly one partner. *)
PortsBound(g) ==
  \A o \in g.objects :
    /\ IsSource(o)       => Cardinality(Down(g, o)) = 1 /\ Up(g, o) = {}
    /\ IsResponder(g, o) => Cardinality(Up(g, o)) = 1 /\ Down(g, o) = {}
    /\ ~IsSource(o) /\ ~IsResponder(g, o) /\ ~IsXBar(o) => Cardinality(Up(g, o)) = 1 /\ Cardinality(Down(g, o)) = 1

(* No two ports of a crossbar answer to the same address. *)
RangesApart(g, answers) ==
  \A x \in {o \in g.objects : IsXBar(o)} : \A p, q \in Down(g, x) : p # q => answers[p] \cap answers[q] = {}

(* What gem5 checks before it simulates. *)
Accepts(g, answers) == PortsBound(g) /\ RangesApart(g, answers)

(* Where a request goes next: a crossbar looks the address up and, if      *)
(* nothing answers, takes its default responder.                           *)
NextHop(g, answers, o, a) ==
  IF ~IsXBar(o) THEN Down(g, o)
  ELSE LET claimed == {b \in Down(g, o) : a \in answers[b]}
       IN IF claimed # {} THEN claimed ELSE Down(g, o) \cap {Obj("badaddr")}
=============================================================================
