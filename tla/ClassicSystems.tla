--------------------------- MODULE ClassicSystems ---------------------------
(***************************************************************************)
(* The systems the scripts build with gem5's classic memory system, one at *)
(* a time: what the options make of it, whether gem5 accepts it, and the   *)
(* way of a request from any of its sources to any address.  Beside them   *)
(* the HPI core's issue of one instruction, which shares nothing with them.*)
(***************************************************************************)
EXTENDS FullSystems, CacheTrees, HybridMemoryCube, HpiTimings

VARIABLES
  part,      \* what is looked at: nothing yet, "graph" or "issue"
  system,    \* the script and its options
  outcome,   \* failed (in Python), refused (by gem5) or built
  graph,     \* objects, bindings and ranges of a system that is built
  answers,   \* the addresses each object answers to
  request,   \* the address a request asks for
  path       \* the objects it has visited

graphVars == <<part, system, outcome, graph, answers, request, path>>
csVars == <<graphVars, hpiVars>>

Systems == SeSystems \cup SimpleSystems \cup SplashSystems \cup TreeSystems \cup HmcSystems \cup FsSystems \cup DriveSystems

SplashScripts == {"splash2/run", "splash2/cluster"}
TreeScripts   == {"memtest", "memcheck"}
HmcScripts    == {"hmctest", "hmc_hello"}
FsScripts     == {"fs", "drive"}

Fails(s) ==
  \/ s.script = "se" /\ SeFails(s)
  \/ s.script \in SplashScripts /\ (SplashFails(s) \/ ClusterFails(s))
  \/ s.script = "memtest" /\ MemtestFails(s)
  \/ s.script = "memcheck" /\ TreeFails(s)
  \/ s.script \in HmcScripts /\ HmcFails(s)
  \/ s.script \in FsScripts /\ FsFails(s)

GraphOf(s) ==
  CASE s.script = "se" -> SeGraph(s)
    [] s.script \in SimpleScripts -> SimpleGraph(s)
    [] s.script = "two_level" -> TwoLevelGraph(s)
    [] s.script \in SplashScripts -> SplashGraph(s)
    [] s.script \in TreeScripts -> TreeGraph(s)
    [] s.script \in HmcScripts -> HmcGraph(s)
    [] s.script \in FsScripts -> FsGraph(s)

CsInit ==
  /\ part = "none" /\ system = [script |-> "none"] /\ outcome = "none"
  /\ graph = NoGraph /\ answers = <<>> /\ request = 0 /\ path = <<>>
  /\ HpiInit

Build(s) ==
  /\ part = "none" /\ part' = "graph" /\ system' = s
  /\ IF Fails(s) THEN outcome' = "failed" /\ UNCHANGED <<graph, answers>>
     ELSE /\ graph' = GraphOf(s)
          /\ answers' = Answers(graph')
          /\ outcome' = IF Accepts(graph', answers') THEN "built" ELSE "refused"
  /\ UNCHANGED <<request, path, hpiVars>>

Send(source, a) ==
  /\ outcome = "built" /\ path = <<>>
  /\ path' = <<source>> /\ request' = a
  /\ UNCHANGED <<part, system, outcome, graph, answers, hpiVars>>

Forward ==
  /\ path # <<>>
  /\ \E o \in NextHop(graph, answers, Last(path), request) : path' = Append(path, o)
  /\ UNCHANGED <<part, system, outcome, graph, answers, request, hpiVars>>

(* The HPI core's part. *)
IssueStep ==
  /\ part \in {"none", "issue"} /\ part' = "issue"
  /\ HpiNext
  /\ UNCHANGED <<system, outcome, graph, answers, request, path>>

CsNext ==
  \/ \E s \in Systems : Build(s)
  \/ \E o \in {p \in graph.objects : IsSource(p)} : \E a \in Probes(graph) : Send(o, a)
  \/ Forward
  \/ IssueStep

CsSpec == CsInit /\ [][CsNext]_csVars
-----------------------------------------------------------------------------
(* Systems that no script should have built: a monitor whose lower port is *)
(* bound twice, and cubes with objects that nothing is bound to.           *)
Refused(s) ==
  \/ s.script \in {"se", "fs"} /\ s.memchecker /\ s.caches
  \/ s.script \in HmcScripts /\ HmcRefused(s)

(* Exactly these systems, of all that get through the scripts' own checks, *)
(* are refused by gem5: all ports of all others have their one partner,    *)
(* and no two objects below a crossbar answer to one address.  A tree has  *)
(* as many testers as numtesters() counts, and a full system the memory    *)
(* that was asked for and tables that describe it.                         *)
GraphIsSound ==
  part = "graph" /\ path = <<>> /\ outcome # "failed" =>
    /\ outcome = "refused" <=> Refused(system)
    /\ system.script \in TreeScripts => Cardinality({o \in graph.objects : o[1] = "tester"}) = NumTesters(system)
    /\ system.script \in FsScripts => MemoryIsAsked(system)
    /\ system.script = "drive" /\ system.isa = "x86" => TablesSound(system)

(* Caches and buses of one CPU. *)
Private == {"icache", "dcache"} \cup (IF system.script \in {"se", "fs"} THEN {"toL2Bus", "l2cache"} ELSE {})

(* What a source reaches: everything that something answers to, but for    *)
(* DMA and the sources of a memory cube.                                   *)
Owners(a) == {o \in graph.objects : IsResponder(graph, o) /\ a \in answers[o]}
Reaches(source, a) ==
  IF system.script \in HmcScripts THEN a \in HmcReaches(system, source)
  ELSE \E o \in Owners(a) : source[1] = "dma" => o[1] \in DmaTargets

(* Caches a request of a tester passes: its own and those of the levels    *)
(* below, or those of all levels.                                          *)
CacheOnPath(o) == o[1] \in {"tree_cache", "tester_cache"}
CachesOf(tester) ==
  LET d == tester[2] \div 1000 IN IF d = Len(system.caches) THEN d ELSE d + 1

(* A request visits nothing twice and no other CPU's caches, passes caches *)
(* in order of their size, and ends at the one object that answers to its  *)
(* address, exactly if its source is to reach that; otherwise it ends at   *)
(* the responder for bad addresses or is lost at a crossbar.               *)
PacketsArrive ==
  path # <<>> =>
    LET o == Last(path) IN
    /\ \A i, j \in DOMAIN path : path[i] = path[j] => i = j
    /\ \A i \in DOMAIN path : path[i][1] \in Private => path[i][2] = path[1][2]
    /\ system.script = "memtest" => \A i, j \in DOMAIN path :
         i < j /\ CacheOnPath(path[i]) /\ CacheOnPath(path[j]) => SizeOf(system, path[i]) <= SizeOf(system, path[j])
    /\ NextHop(graph, answers, o, request) = {} =>
         /\ (request \in answers[o] /\ IsResponder(graph, o)) <=> Reaches(path[1], request)
         /\ path[1][1] = "tester" /\ request \in answers[o] => Len(SelectSeq(path, CacheOnPath)) = CachesOf(path[1])
=============================================================================
