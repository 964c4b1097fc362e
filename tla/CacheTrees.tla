----------------------------- MODULE CacheTrees -----------------------------
(***************************************************************************)
(* Trees of caches whose users check the memory system: example/memtest.py *)
(* and example/memcheck.py.  A specification is a list of caches and a     *)
(* list of testers, first those next to memory.  A subsystem of depth d    *)
(* has a crossbar, cachespec[d + 1] caches that fan out to subsystems of   *)
(* depth d + 1, and testers with a cache each; at the last depth the       *)
(* testers share the cache below them.  The subsystems of a depth are      *)
(* numbered over all of the tree.                                          *)
(***************************************************************************)
EXTENDS PortGraph, SequencesExt

CONSTANTS
  CacheSpecs,    \* values of --caches
  TesterSpecs    \* values of --testers

ASSUME TreeAssumption == CacheSpecs \cup TesterSpecs \subseteq Seq(Int)

TreeSystems == [script : {"memtest"}, caches : CacheSpecs, testers : TesterSpecs, noncoherent : BOOLEAN]
               \cup [script : {"memcheck"}, caches : CacheSpecs, testers : TesterSpecs, noncoherent : {FALSE}]

BlockSize == 64

(* Subsystems of depth d; multiplier in numtesters(). *)
Subsystems(caches, d) == FoldLeft(LAMBDA m, c : m * c, 1, SubSeq(caches, 1, d))

NumTesters(s) == FoldLeftDomain(LAMBDA n, i : n + s.testers[i] * Subsystems(s.caches, i - 1), 0, s.testers)

(* What both scripts check.  The mutant allows trees without testers on    *)
(* top.                                                                    *)
TreeFailsNoTop(s) ==
  \/ s.caches = <<>>
  \/ Len(s.testers) # Len(s.caches) + 1
  \/ \E t \in ToSet(s.testers) : t < 0
  \/ \E c \in ToSet(s.caches) : c < 1
TreeFails(s) ==
  \/ s.caches = <<>>
  \/ Len(s.testers) # Len(s.caches) + 1
  \/ Last(s.testers) = 0
  \/ \E t \in ToSet(s.testers) : t < 0
  \/ \E c \in ToSet(s.caches) : c < 1

(* Only memtest limits the number of testers: each has a byte of a block.  *)
MemtestFails(s) == TreeFails(s) \/ NumTesters(s) > BlockSize

Id(d, i) == 1000 * d + i

(* A tester above the rest of a path; in memcheck a checker is between.    *)
WithChecker(id, path) == Chain(<<<<"tester", id>>, <<"checker", id>>>> \o path)
WithTester(s, id, path) ==
  IF s.script = "memcheck" THEN WithChecker(id, path) ELSE Chain(<<<<"tester", id>>>> \o path)

(* make_cache_level() for the k-th subsystem of depth d, from 0.           *)
MakeCacheLevel(s, d, k) ==
  LET depth   == Len(s.caches)
      xbar    == <<"xbar", Id(d, k)>>
      testers == {Id(d, k * s.testers[d + 1] + i) : i \in 0 .. s.testers[d + 1] - 1}
      next_cache == IF d = 0 THEN {} ELSE {<<"tree_cache", Id(d - 1, k)>>}
  IN IF d # depth
     THEN AllTo({<<"tree_cache", Id(d, k * s.caches[d + 1] + i)>> : i \in 0 .. s.caches[d + 1] - 1}, xbar) \cup ToAll(xbar, next_cache)
          \cup UNION {WithTester(s, t, <<<<"tester_cache", t>>, xbar>>) : t \in testers}
     ELSE IF Cardinality(testers) > 1
          THEN UNION {WithTester(s, t, <<xbar>>) : t \in testers} \cup ToAll(xbar, next_cache)
          ELSE UNION {WithTester(s, t, <<c>>) : t \in testers, c \in next_cache}

TreeGraph(s) ==
  LET bottom == <<"xbar", Id(0, 0)>>
  IN Graph(UNION {MakeCacheLevel(s, d, k) : <<d, k>> \in {<<e, l>> \in (0 .. Len(s.caches)) \X (0 .. 999) : l < Subsystems(s.caches, e)}}
           \cup Chain(IF s.noncoherent THEN <<bottom, Obj("llc"), Obj("mem")>> ELSE <<bottom, Obj("mem")>>)
           \cup Chain(<<Obj("system_port"), bottom>>),
           Obj("mem") :> {<<0, 128>>}, {})

(* The size of a tree cache of depth d in L1 caches, from the prototypes:  *)
(* each is the one before times the next element, from the front.          *)
TreeCacheSize(s, d) == Subsystems(s.caches, Len(s.caches) - 1 - d)

SizeOf(s, o) == IF o[1] = "tree_cache" THEN TreeCacheSize(s, o[2] \div 1000) ELSE 1
=============================================================================
