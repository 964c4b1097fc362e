-------------------------- MODULE RubyNetworkProofs --------------------------
(***************************************************************************)
(* The networks of Ruby systems are consistent and free of deadlocks, for  *)
(* any number of controllers and routers, any mesh, any placement and      *)
(* every topology.                                                         *)
(***************************************************************************)
EXTENDS RubySystemProofs

-----------------------------------------------------------------------------
(* Folds.  A step of the fold that F names, with what it needs besides. *)
FoldStep(F, t, x) ==
  CASE F.fold = "Extend"     -> Extend(F.with, t, x)
    [] F.fold = "Prune"      -> Prune(F.with, t)
    [] F.fold = "Only"       -> IF x \in F.with THEN Append(t, x) ELSE t
    [] F.fold = "Distribute" -> Distribute(t, x)

(* h folds every subset of the first n places, as FoldLeft() does. *)
FoldsUpTo(h, F, base, seq, n) ==
  h = [s \in SUBSET (1 .. n) |->
         IF s = {} THEN base ELSE FoldStep(F, h[s \ {Max(s)}], seq[Max(s)])]

FoldsOver(h, F, base, seq) ==
  h = [s \in SUBSET (DOMAIN seq) |->
         IF s = {} THEN base ELSE FoldStep(F, h[s \ {Max(s)}], seq[Max(s)])]
Folded(F, base, seq) == (CHOOSE h : FoldsOver(h, F, base, seq))[DOMAIN seq]

LEMMA GreatestPlace ==
  ASSUME NEW n \in Nat, NEW s \in SUBSET (1 .. n), s # {}
  PROVE  Max(s) \in s /\ \A x \in s : x <= Max(s)
<1> DEFINE Above == {n - x : x \in s}
<1>1. Above \subseteq Nat /\ Above # {}
  OBVIOUS
<1>2. PICK k \in Above : \A m \in Above : k <= m
  <2> HIDE DEF Above
  <2> QED BY <1>1, LeastNumber
<1>3. PICK x \in s : k = n - x
  OBVIOUS
<1>4. ASSUME NEW y \in s PROVE y <= x
  <2>1. n - x <= n - y
    BY <1>2, <1>3
  <2> QED BY <1>3, <2>1
<1>5. \E z \in s : \A y \in s : z >= y
  BY <1>3, <1>4
<1> QED BY <1>5 DEF Max

LEMMA FoldsExist ==
  ASSUME NEW F, NEW base, NEW seq
  PROVE  \A n \in Nat : \E h : FoldsUpTo(h, F, base, seq, n)
<1> DEFINE Bad == {n \in Nat : ~\E h : FoldsUpTo(h, F, base, seq, n)}
<1> SUFFICES ASSUME Bad # {} PROVE FALSE
  OBVIOUS
<1>1. PICK n \in Bad : \A m \in Bad : n <= m
  <2>1. Bad \subseteq Nat
    OBVIOUS
  <2> HIDE DEF Bad
  <2> QED BY <2>1, LeastNumber
<1>2. n \in Nat /\ ~\E h : FoldsUpTo(h, F, base, seq, n)
  OBVIOUS
<1>3. CASE n = 0
  <2> DEFINE h == [s \in SUBSET (1 .. 0) |-> base]
  <2>1. \A s \in SUBSET (1 .. 0) : s = {}
    OBVIOUS
  <2>2. h = [s \in SUBSET (1 .. 0) |->
               IF s = {} THEN base ELSE FoldStep(F, h[s \ {Max(s)}], seq[Max(s)])]
    BY <2>1
  <2>3. FoldsUpTo(h, F, base, seq, 0)
    BY <2>2 DEF FoldsUpTo
  <2> QED BY <1>2, <1>3, <2>3
<1>4. CASE n # 0
  <2>1. n - 1 \in Nat /\ n - 1 \notin Bad
    BY <1>1, <1>2, <1>4
  <2>2. PICK f : FoldsUpTo(f, F, base, seq, n - 1)
    BY <2>1
  <2> DEFINE h == [s \in SUBSET (1 .. n) |->
                     IF n \in s THEN FoldStep(F, f[s \ {n}], seq[n]) ELSE f[s]]
  <2>3. ASSUME NEW s \in SUBSET (1 .. n)
        PROVE  h[s] = IF s = {} THEN base ELSE FoldStep(F, h[s \ {Max(s)}], seq[Max(s)])
    <3>1. \A r \in SUBSET (1 .. n - 1) :
            f[r] = IF r = {} THEN base ELSE FoldStep(F, f[r \ {Max(r)}], seq[Max(r)])
      BY <2>2 DEF FoldsUpTo
    <3>2. CASE n \in s
      <4>1. Max(s) \in s /\ \A x \in s : x <= Max(s)
        BY <1>2, <3>2, GreatestPlace
      <4>2. Max(s) = n
        <5>1. Max(s) \in 1 .. n /\ n <= Max(s)
          BY <3>2, <4>1
        <5> QED BY <1>2, <5>1
      <4>3. s \ {n} \in SUBSET (1 .. n) /\ n \notin s \ {n}
        OBVIOUS
      <4>4. h[s] = FoldStep(F, f[s \ {n}], seq[n]) /\ h[s \ {n}] = f[s \ {n}]
        BY <3>2, <4>3
      <4> HIDE DEF h
      <4> QED BY <3>2, <4>2, <4>4
    <3>3. CASE n \notin s
      <4>1. s \in SUBSET (1 .. n - 1)
        BY <1>2, <3>3
      <4>2. s \ {Max(s)} \in SUBSET (1 .. n) /\ n \notin s \ {Max(s)}
        BY <3>3
      <4>3. h[s] = f[s] /\ h[s \ {Max(s)}] = f[s \ {Max(s)}]
        BY <3>3, <4>2
      <4> HIDE DEF h
      <4> QED BY <3>1, <4>1, <4>3
    <3> QED BY <3>2, <3>3
  <2>4. h = [s \in SUBSET (1 .. n) |-> h[s]]
    OBVIOUS
  <2> HIDE DEF h
  <2>5. FoldsUpTo(h, F, base, seq, n)
    BY <2>3, <2>4 DEF FoldsUpTo
  <2> QED BY <1>2, <2>5
<1> QED BY <1>2, <1>3, <1>4

(* g goes from the base of a fold to its result, in n steps. *)
GoesOn(g, F, base, seq, n) ==
  /\ g[0] = base /\ g[n] = Folded(F, base, seq)
  /\ \A k \in 1 .. n : g[k] = FoldStep(F, g[k - 1], seq[k])

LEMMA FoldGoesOn ==
  ASSUME NEW F, NEW base, NEW n \in Nat, NEW seq, DOMAIN seq = 1 .. n
  PROVE  \E g : GoesOn(g, F, base, seq, n)
<1> DEFINE h == CHOOSE f : FoldsOver(f, F, base, seq)
           g == [k \in 0 .. n |-> h[1 .. k]]
<1>1. \E f : FoldsUpTo(f, F, base, seq, n)
  BY FoldsExist
<1>2. FoldsOver(h, F, base, seq)
  <2>1. \E f : FoldsOver(f, F, base, seq)
    BY <1>1 DEF FoldsOver, FoldsUpTo
  <2> QED BY <2>1
<1>3. Folded(F, base, seq) = h[1 .. n]
  BY DEF Folded
<1> HIDE DEF h
<1>4. \A s \in SUBSET (1 .. n) :
        h[s] = IF s = {} THEN base ELSE FoldStep(F, h[s \ {Max(s)}], seq[Max(s)])
  BY <1>2 DEF FoldsOver
<1>5. g[0] = base
  <2>1. 1 .. 0 = {} /\ 0 \in 0 .. n
    OBVIOUS
  <2> QED BY <1>4, <2>1
<1>6. g[n] = Folded(F, base, seq)
  BY <1>3
<1>7. ASSUME NEW k \in 1 .. n PROVE g[k] = FoldStep(F, g[k - 1], seq[k])
  <2>1. 1 .. k \in SUBSET (1 .. n) /\ 1 .. k # {} /\ k \in 1 .. k
    <3>1. k \in 1 .. k /\ \A x \in 1 .. k : x \in 1 .. n
      OBVIOUS
    <3> QED BY <3>1
  <2>2. Max(1 .. k) = k
    <3>1. Max(1 .. k) \in 1 .. k /\ \A x \in 1 .. k : x <= Max(1 .. k)
      BY <2>1, GreatestPlace
    <3> QED BY <2>1, <3>1
  <2>3. (1 .. k) \ {k} = 1 .. k - 1
    OBVIOUS
  <2>4. k \in 0 .. n /\ k - 1 \in 0 .. n
    OBVIOUS
  <2> QED BY <1>4, <2>1, <2>2, <2>3, <2>4
<1>8. GoesOn(g, F, base, seq, n)
  BY <1>5, <1>6, <1>7 DEF GoesOn
<1> QED BY <1>8

LEMMA FoldsOfModel ==
  /\ \A n : LET links == {n.int[l] : l \in DOMAIN n.int}
            IN Layers(n) = Folded([fold |-> "Extend", with |-> links],
                                  <<{<<r, r>> : r \in 0 .. n.routers - 1}>>, [w \in 1 .. MaxWeight(n) |-> w])
  /\ \A waits, left, seq : FoldLeft(LAMBDA t, x : Prune(waits, t), left, seq)
                             = Folded([fold |-> "Prune", with |-> waits], left, seq)
  /\ \A s, S : Only(s, S) = Folded([fold |-> "Only", with |-> S], <<>>, s)
  /\ \A base, seq : FoldLeft(Distribute, base, seq) = Folded([fold |-> "Distribute"], base, seq)
<1>1. ASSUME NEW n
      PROVE  LET links == {n.int[l] : l \in DOMAIN n.int}
             IN Layers(n) = Folded([fold |-> "Extend", with |-> links],
                                  <<{<<r, r>> : r \in 0 .. n.routers - 1}>>, [w \in 1 .. MaxWeight(n) |-> w])
  BY Zenon DEF Layers, FoldLeft, MapThenFoldSet, Folded, FoldsOver, FoldStep
<1>2. ASSUME NEW waits, NEW left, NEW seq
      PROVE  FoldLeft(LAMBDA t, x : Prune(waits, t), left, seq)
                             = Folded([fold |-> "Prune", with |-> waits], left, seq)
  BY Zenon DEF FoldLeft, MapThenFoldSet, Folded, FoldsOver, FoldStep
<1>3. ASSUME NEW s, NEW S
      PROVE  Only(s, S) = Folded([fold |-> "Only", with |-> S], <<>>, s)
  BY Zenon DEF Only, FoldLeft, MapThenFoldSet, Folded, FoldsOver, FoldStep
<1>4. ASSUME NEW base, NEW seq
      PROVE  FoldLeft(Distribute, base, seq) = Folded([fold |-> "Distribute"], base, seq)
  BY Zenon DEF FoldLeft, MapThenFoldSet, Folded, FoldsOver, FoldStep
<1> QED BY <1>1, <1>2, <1>3, <1>4
-----------------------------------------------------------------------------
(* Routing tables.                                                         *)
Routers(n) == 0 .. n.routers - 1

IsNetwork(n) ==
  /\ n.routers \in Nat
  /\ \E k \in Nat : DOMAIN n.int = 1 .. k
  /\ \A l \in DOMAIN n.int :
       n.int[l].src \in Routers(n) /\ n.int[l].dst \in Routers(n) /\ n.int[l].weight \in Nat \ {0}

(* D has the weights of the lightest paths: no link shortens one, and the  *)
(* last link of one comes from where a lightest path leads.                *)
Distances(n, D) ==
  /\ D \in [Routers(n) \X Routers(n) -> 0 .. MaxWeight(n)]
  /\ \A s \in Routers(n) : D[<<s, s>>] = 0
  /\ \A s \in Routers(n), l \in DOMAIN n.int :
       D[<<s, n.int[l].dst>>] <= D[<<s, n.int[l].src>>] + n.int[l].weight
  /\ \A s, t \in Routers(n) : s # t =>
       \E l \in DOMAIN n.int : n.int[l].dst = t /\ D[<<s, n.int[l].src>>] + n.int[l].weight = D[<<s, t>>]

Within(n, D, w) == {p \in Routers(n) \X Routers(n) : D[p] <= w}

(* The first k layers are right. *)
LayersUpTo(n, D, layers, k) ==
  /\ layers \in Seq(SUBSET (Routers(n) \X Routers(n))) /\ Len(layers) = k
  /\ \A j \in 1 .. k : layers[j] = Within(n, D, j - 1)

LEMMA ExtendAddsLayer ==
  ASSUME NEW n, IsNetwork(n), NEW D, Distances(n, D), NEW layers, NEW w \in Nat \ {0},
         LayersUpTo(n, D, layers, w)
  PROVE  LayersUpTo(n, D, Extend({n.int[l] : l \in DOMAIN n.int}, layers, w), w + 1)
<1> DEFINE R == Routers(n)
           L == DOMAIN n.int
           links == {n.int[l] : l \in L}
           By(l) == {<<p[1], l.dst>> : p \in {q \in layers[w + 1 - l.weight] : q[2] = l.src}}
           new == layers[w] \cup UNION {By(l) : l \in {k \in links : k.weight <= w}}
<1>1. /\ \A l \in L : n.int[l].src \in R /\ n.int[l].dst \in R /\ n.int[l].weight \in Nat \ {0}
      /\ D \in [R \X R -> 0 .. MaxWeight(n)]
      /\ \A s \in R : D[<<s, s>>] = 0
      /\ \A s \in R, l \in L : D[<<s, n.int[l].dst>>] <= D[<<s, n.int[l].src>>] + n.int[l].weight
      /\ \A s, t \in R : s # t =>
           \E l \in L : n.int[l].dst = t /\ D[<<s, n.int[l].src>>] + n.int[l].weight = D[<<s, t>>]
  BY DEF IsNetwork, Distances
<1>2. \A p \in R \X R : D[p] \in Nat
  <2>1. MaxWeight(n) \in Nat
    BY DEF MaxWeight, IsNetwork
  <2> QED BY <1>1, <2>1
<1>3. layers[w] = Within(n, D, w - 1)
  BY DEF LayersUpTo
<1>4. ASSUME NEW l \in L, n.int[l].weight <= w
      PROVE  \A s, t : <<s, t>> \in By(n.int[l]) <=>
               s \in R /\ t = n.int[l].dst /\ D[<<s, n.int[l].src>>] <= w - n.int[l].weight
  <2>1. w + 1 - n.int[l].weight \in 1 .. w /\ w + 1 - n.int[l].weight - 1 = w - n.int[l].weight
    BY <1>1, <1>4
  <2>2. layers[w + 1 - n.int[l].weight] = Within(n, D, w - n.int[l].weight)
    <3> DEFINE j == w + 1 - n.int[l].weight
    <3>1. j \in 1 .. w /\ j - 1 = w - n.int[l].weight
      BY <1>1, <1>4, <2>1
    <3> HIDE DEF j
    <3>2. layers[j] = Within(n, D, j - 1)
      BY <3>1 DEF LayersUpTo
    <3>3. layers[j] = Within(n, D, w - n.int[l].weight)
      BY <3>1, <3>2
    <3> QED BY <3>3 DEF j
  <2>3. \A q : q \in Within(n, D, w - n.int[l].weight) /\ q[2] = n.int[l].src <=>
               \E s \in R : q = <<s, n.int[l].src>> /\ D[q] <= w - n.int[l].weight
    BY <1>1 DEF Within
  <2> QED BY <2>2, <2>3
<1>5. new = Within(n, D, w)
  <2>1. ASSUME NEW p \in new PROVE p \in Within(n, D, w)
    <3>1. CASE p \in layers[w]
      BY <1>2, <1>3, <3>1 DEF Within
    <3>2. CASE p \notin layers[w]
      <4>1. PICK l \in L : n.int[l].weight <= w /\ p \in By(n.int[l])
        BY <3>2
      <4>2. PICK q : p = <<q, n.int[l].dst>>
        BY <4>1
      <4>3. q \in R /\ D[<<q, n.int[l].src>>] <= w - n.int[l].weight
        BY <1>4, <4>1, <4>2
      <4>4. D[<<q, n.int[l].dst>>] <= D[<<q, n.int[l].src>>] + n.int[l].weight
        BY <1>1, <4>3
      <4>5. D[<<q, n.int[l].dst>>] \in Nat /\ D[<<q, n.int[l].src>>] \in Nat /\ n.int[l].weight \in Nat
        BY <1>1, <1>2, <4>3
      <4>6. D[<<q, n.int[l].dst>>] <= w
        BY <4>3, <4>4, <4>5
      <4> QED BY <1>1, <4>2, <4>3, <4>6 DEF Within
    <3> QED BY <3>1, <3>2
  <2>2. ASSUME NEW p \in Within(n, D, w) PROVE p \in new
    <3>1. p \in R \X R /\ D[p] <= w /\ D[p] \in Nat
      BY <1>2 DEF Within
    <3>2. CASE D[p] <= w - 1
      BY <1>3, <3>1, <3>2 DEF Within
    <3>3. CASE ~(D[p] <= w - 1)
      <4>1. PICK s \in R, t \in R : p = <<s, t>>
        BY <3>1
      <4>2. D[<<s, t>>] = w /\ s # t
        BY <1>1, <3>1, <3>3, <4>1
      <4>3. PICK l \in L : n.int[l].dst = t /\ D[<<s, n.int[l].src>>] + n.int[l].weight = w
        BY <1>1, <4>2
      <4>4. D[<<s, n.int[l].src>>] \in Nat /\ n.int[l].weight \in Nat
        BY <1>1, <1>2
      <4>5. n.int[l].weight <= w /\ D[<<s, n.int[l].src>>] <= w - n.int[l].weight
        BY <4>3, <4>4
      <4>6. <<s, t>> \in By(n.int[l])
        BY <1>4, <4>3, <4>5
      <4> HIDE DEF By
      <4>7. By(n.int[l]) \in {By(k) : k \in {k \in links : k.weight <= w}}
        BY <4>5
      <4> QED BY <4>1, <4>6, <4>7
    <3> QED BY <3>2, <3>3
  <2> QED BY <2>1, <2>2
<1>6. Extend(links, layers, w) = Append(layers, new)
  BY DEF Extend
<1> HIDE DEF new, links
<1>7. layers \in Seq(SUBSET (R \X R)) /\ Len(layers) = w /\ new \in SUBSET (R \X R)
  BY <1>5 DEF LayersUpTo, Within
<1>8. /\ Append(layers, new) \in Seq(SUBSET (R \X R)) /\ Len(Append(layers, new)) = w + 1
      /\ \A j \in 1 .. w : Append(layers, new)[j] = layers[j]
      /\ Append(layers, new)[w + 1] = new
  BY <1>7, AppendProperties
<1>9. ASSUME NEW j \in 1 .. w + 1 PROVE Append(layers, new)[j] = Within(n, D, j - 1)
  <2>1. CASE j \in 1 .. w
    BY <1>8, <2>1 DEF LayersUpTo
  <2>2. CASE j = w + 1
    <3>1. j - 1 = w
      BY <2>2
    <3> QED BY <1>5, <1>8, <2>2, <3>1
  <2>3. j \in 1 .. w \/ j = w + 1
    OBVIOUS
  <2> QED BY <2>1, <2>2, <2>3
<1>10. LayersUpTo(n, D, Extend(links, layers, w), w + 1)
  BY <1>6, <1>8, <1>9 DEF LayersUpTo
<1> QED BY <1>10 DEF links

LEMMA LayersAreRight ==
  ASSUME NEW n, IsNetwork(n), NEW D, Distances(n, D)
  PROVE  LayersUpTo(n, D, Layers(n), MaxWeight(n) + 1)
<1> DEFINE R == Routers(n)
           M == MaxWeight(n)
           links == {n.int[l] : l \in DOMAIN n.int}
           F == [fold |-> "Extend", with |-> links]
           base == <<{<<r, r>> : r \in 0 .. n.routers - 1}>>
           seq == [w \in 1 .. M |-> w]
<1>1. M \in Nat
  BY DEF MaxWeight, IsNetwork
<1>2. Layers(n) = Folded(F, base, seq)
  BY FoldsOfModel
<1>3. \A t, x : FoldStep(F, t, x) = Extend(links, t, x)
  BY DEF FoldStep
<1>4. LayersUpTo(n, D, base, 1)
  <2>1. {<<r, r>> : r \in R} = Within(n, D, 0)
    <3>1. MaxWeight(n) \in Nat
      BY <1>1
    <3>2. \A p \in R \X R : D[p] \in Nat
      BY <3>1 DEF Distances
    <3>3. ASSUME NEW s \in R PROVE <<s, s>> \in Within(n, D, 0)
      <4>1. D[<<s, s>>] = 0 /\ <<s, s>> \in R \X R
        BY DEF Distances
      <4> QED BY <4>1 DEF Within
    <3>4. ASSUME NEW s \in R, NEW t \in R, D[<<s, t>>] <= 0 PROVE s = t
      <4> SUFFICES ASSUME s # t PROVE FALSE
        OBVIOUS
      <4>1. PICK l \in DOMAIN n.int : n.int[l].dst = t /\ D[<<s, n.int[l].src>>] + n.int[l].weight = D[<<s, t>>]
        BY DEF Distances
      <4>2. n.int[l].src \in R /\ n.int[l].weight \in Nat \ {0}
        BY DEF IsNetwork
      <4>3. D[<<s, n.int[l].src>>] \in Nat /\ D[<<s, t>>] \in Nat
        BY <3>2, <4>2
      <4> QED BY <3>4, <4>1, <4>2, <4>3
    <3>5. ASSUME NEW p \in Within(n, D, 0) PROVE p \in {<<r, r>> : r \in R}
      <4>1. PICK s \in R, t \in R : p = <<s, t>> /\ D[<<s, t>>] <= 0
        BY DEF Within
      <4> QED BY <3>4, <4>1
    <3> QED BY <3>3, <3>5
  <2>2. {<<r, r>> : r \in 0 .. n.routers - 1} \in SUBSET (R \X R)
    BY DEF Routers
  <2>3. base \in Seq(SUBSET (R \X R)) /\ Len(base) = 1 /\ base[1] = {<<r, r>> : r \in R}
    BY <2>2 DEF Routers
  <2> HIDE DEF base
  <2>4. ASSUME NEW j \in 1 .. 1 PROVE base[j] = Within(n, D, j - 1)
    <3>1. j = 1 /\ j - 1 = 0
      OBVIOUS
    <3> QED BY <2>1, <2>3, <3>1
  <2> QED BY <2>3, <2>4 DEF LayersUpTo
<1>5. DOMAIN seq = 1 .. M /\ \A w \in 1 .. M : seq[w] = w
  OBVIOUS
<1> HIDE DEF F, base, seq, M
<1>6. PICK g : GoesOn(g, F, base, seq, M)
  BY <1>1, <1>5, FoldGoesOn
<1>7. /\ g[0] = base /\ g[M] = Folded(F, base, seq)
      /\ \A k \in 1 .. M : g[k] = FoldStep(F, g[k - 1], seq[k])
  BY <1>6 DEF GoesOn
<1> DEFINE Bad == {k \in Nat : k <= M /\ ~LayersUpTo(n, D, g[k], k + 1)}
<1>8. Bad = {}
  <2> SUFFICES ASSUME Bad # {} PROVE FALSE
    OBVIOUS
  <2>1. PICK k \in Bad : \A j \in Bad : k <= j
    <3>1. Bad \subseteq Nat
      OBVIOUS
    <3> HIDE DEF Bad
    <3> QED BY <3>1, LeastNumber
  <2>2. k \in Nat /\ k <= M /\ ~LayersUpTo(n, D, g[k], k + 1)
    OBVIOUS
  <2>3. k # 0
    BY <1>4, <1>7, <2>2
  <2>4. k - 1 \in Nat /\ k - 1 <= M /\ k - 1 \notin Bad /\ k \in 1 .. M /\ (k - 1) + 1 = k
    BY <1>1, <2>1, <2>2, <2>3
  <2>5. LayersUpTo(n, D, g[k - 1], k)
    BY <2>4
  <2>6. g[k] = Extend(links, g[k - 1], k)
    BY <1>3, <1>5, <1>7, <2>4
  <2> QED BY <2>2, <2>3, <2>5, <2>6, ExtendAddsLayer
<1>9. LayersUpTo(n, D, g[M], M + 1)
  BY <1>1, <1>8
<1> QED BY <1>2, <1>7, <1>9 DEF M

(* The links of router s on lightest paths to router d. *)
OnWay(n, D, s, d) ==
  {l \in DOMAIN n.int : n.int[l].src = s /\ n.int[l].weight + D[<<n.int[l].dst, d>>] = D[<<s, d>>]}
LightestOnWay(n, D, s, d) ==
  {l \in OnWay(n, D, s, d) : \A m \in OnWay(n, D, s, d) : n.int[l].weight <= n.int[m].weight}

LEMMA RoutesAreLightest ==
  ASSUME NEW n, IsNetwork(n), NEW D, Distances(n, D), NEW s \in Routers(n), NEW d \in Routers(n)
  PROVE  RoutingTables(n)[<<s, d>>] = LightestOnWay(n, D, s, d)
<1> DEFINE R == 0 .. n.routers - 1
           layers == Layers(n)
           dist == [p \in R \X R |-> Cardinality({k \in DOMAIN layers : p \notin layers[k]})]
           Out == [r \in R |-> {l \in DOMAIN n.int : n.int[l].src = r}]
           OnPath(r, e) == {l \in Out[r] : n.int[l].weight + dist[n.int[l].dst, e] = dist[r, e]}
           Lightest(L) == {l \in L : \A m \in L : n.int[l].weight <= n.int[m].weight}
<1>1. R = Routers(n)
  BY DEF Routers
<1>2. RoutingTables(n) = [p \in R \X R |->
        IF dist[p] > MaxWeight(n) THEN {} ELSE Lightest(OnPath(p[1], p[2]))]
  BY DEF RoutingTables
<1>3. MaxWeight(n) \in Nat
  BY DEF MaxWeight, IsNetwork
<1>4. \A p \in R \X R : dist[p] = D[p] /\ D[p] \in 0 .. MaxWeight(n)
  <2> SUFFICES ASSUME NEW p \in R \X R PROVE dist[p] = D[p] /\ D[p] \in 0 .. MaxWeight(n)
    OBVIOUS
  <2>1. D[p] \in 0 .. MaxWeight(n)
    BY <1>1 DEF Distances
  <2>2. LayersUpTo(n, D, layers, MaxWeight(n) + 1)
    BY LayersAreRight
  <2>3. DOMAIN layers = 1 .. MaxWeight(n) + 1
    BY <2>2, LenProperties DEF LayersUpTo
  <2>4. \A k \in 1 .. MaxWeight(n) + 1 : p \notin layers[k] <=> ~(D[p] <= k - 1)
    BY <1>1, <2>2 DEF LayersUpTo, Within
  <2>5. {k \in DOMAIN layers : p \notin layers[k]} = 1 .. D[p]
    BY <1>3, <2>1, <2>3, <2>4
  <2>6. Cardinality(1 .. D[p]) = D[p]
    <3>1. 1 \in Int /\ D[p] \in Int
      BY <1>3, <2>1
    <3>2. Cardinality(1 .. D[p]) = IF 1 > D[p] THEN 0 ELSE D[p] - 1 + 1
      BY <3>1, FS_Interval
    <3> QED BY <1>3, <2>1, <3>2
  <2> HIDE DEF layers
  <2> QED BY <2>1, <2>5, <2>6
<1> HIDE DEF dist
<1>5. <<s, d>> \in R \X R /\ ~(dist[<<s, d>>] > MaxWeight(n))
  <2>1. <<s, d>> \in R \X R
    BY <1>1
  <2>2. dist[<<s, d>>] \in 0 .. MaxWeight(n)
    BY <1>4, <2>1
  <2> QED BY <1>3, <2>1, <2>2
<1>6. RoutingTables(n)[<<s, d>>] = Lightest(OnPath(s, d))
  <2> DEFINE T(p) == IF dist[p] > MaxWeight(n) THEN {} ELSE Lightest(OnPath(p[1], p[2]))
  <2>1. RoutingTables(n) = [p \in R \X R |-> T(p)]
    BY <1>2
  <2>2. T(<<s, d>>) = Lightest(OnPath(s, d))
    <3>1. <<s, d>>[1] = s /\ <<s, d>>[2] = d
      OBVIOUS
    <3> HIDE DEF Lightest, OnPath
    <3> QED BY <1>5, <3>1
  <2> HIDE DEF T
  <2>3. RoutingTables(n)[<<s, d>>] = T(<<s, d>>)
    BY <1>5, <2>1
  <2> QED BY <2>2, <2>3
<1>7. OnPath(s, d) = OnWay(n, D, s, d)
  <2>1. Out[s] = {l \in DOMAIN n.int : n.int[l].src = s}
    BY <1>1
  <2>2. \A l \in DOMAIN n.int : dist[n.int[l].dst, d] = D[<<n.int[l].dst, d>>]
    BY <1>1, <1>4 DEF IsNetwork
  <2>3. dist[s, d] = D[<<s, d>>]
    BY <1>1, <1>4
  <2> HIDE DEF Out
  <2> QED BY <2>1, <2>2, <2>3 DEF OnWay
<1> QED BY <1>6, <1>7 DEF LightestOnWay

LEMMA SomeWayIsLightest ==
  ASSUME NEW n, IsNetwork(n), NEW D, Distances(n, D), NEW s \in Routers(n), NEW d \in Routers(n),
         OnWay(n, D, s, d) # {}
  PROVE  RoutingTables(n)[<<s, d>>] # {}
<1> DEFINE W == {n.int[l].weight : l \in OnWay(n, D, s, d)}
<1>1. W \subseteq Nat /\ W # {}
  BY DEF IsNetwork, OnWay
<1>2. PICK w \in W : \A v \in W : w <= v
  <2> HIDE DEF W
  <2> QED BY <1>1, LeastNumber
<1>3. PICK l \in OnWay(n, D, s, d) : w = n.int[l].weight
  OBVIOUS
<1>4. \A m \in OnWay(n, D, s, d) : n.int[l].weight <= n.int[m].weight
  BY <1>2, <1>3
<1>5. l \in LightestOnWay(n, D, s, d)
  BY <1>3, <1>4 DEF LightestOnWay
<1>6. RoutingTables(n)[<<s, d>>] = LightestOnWay(n, D, s, d)
  BY RoutesAreLightest
<1> QED BY <1>5, <1>6
-----------------------------------------------------------------------------
(* Waiting.  If links only wait for links of a lower rank, taking away     *)
(* those that wait for none that is left takes all away.                   *)
LEMMA PruneLessens ==
  ASSUME NEW left, IsFiniteSet(left), NEW waits, NEW rank, left # {},
         \A l \in left : rank[l] \in Nat,
         \A l, m \in left : m \in waits[l] => rank[m] < rank[l]
  PROVE  Prune(waits, left) \subseteq left /\ Cardinality(Prune(waits, left)) <= Cardinality(left) - 1
<1> DEFINE ranks == {rank[l] : l \in left}
<1>1. ranks \subseteq Nat /\ ranks # {}
  OBVIOUS
<1>2. PICK r \in ranks : \A q \in ranks : r <= q
  <2> HIDE DEF ranks
  <2> QED BY <1>1, LeastNumber
<1>3. PICK l \in left : r = rank[l]
  OBVIOUS
<1>4. ASSUME NEW m \in left, m \in waits[l] PROVE FALSE
  <2>1. rank[m] \in Nat /\ rank[l] \in Nat /\ rank[m] < rank[l] /\ rank[l] <= rank[m]
    BY <1>2, <1>3, <1>4
  <2> QED BY <2>1
<1>5. Prune(waits, left) \subseteq left /\ l \notin Prune(waits, left)
  BY <1>3, <1>4 DEF Prune
<1>6. Prune(waits, left) \subseteq left \ {l}
  BY <1>5
<1>7. IsFiniteSet(left \ {l}) /\ Cardinality(left \ {l}) = Cardinality(left) - 1
  BY <1>3, FS_RemoveElement
<1>8. Cardinality(Prune(waits, left)) <= Cardinality(left \ {l})
  BY <1>6, <1>7, FS_Subset
<1> QED BY <1>5, <1>7, <1>8

LEMMA PruneEmpties ==
  ASSUME NEW k \in Nat, NEW seq, DOMAIN seq = 1 .. k, NEW waits, NEW rank \in [1 .. k -> Nat],
         \A l, m \in 1 .. k : m \in waits[l] => rank[m] < rank[l]
  PROVE  Folded([fold |-> "Prune", with |-> waits], 1 .. k, seq) = {}
<1> DEFINE F == [fold |-> "Prune", with |-> waits]
<1>1. \A t, x : FoldStep(F, t, x) = Prune(waits, t)
  BY DEF FoldStep
<1> HIDE DEF F
<1>2. PICK g : GoesOn(g, F, 1 .. k, seq, k)
  BY FoldGoesOn
<1>3. g[0] = 1 .. k /\ g[k] = Folded(F, 1 .. k, seq) /\ \A i \in 1 .. k : g[i] = Prune(waits, g[i - 1])
  BY <1>1, <1>2 DEF GoesOn
<1> DEFINE Few(i) == g[i] \subseteq 1 .. k /\ IsFiniteSet(g[i]) /\ Cardinality(g[i]) <= k - i
           Bad == {i \in Nat : i <= k /\ ~Few(i)}
<1>4. Few(0)
  <2>1. Cardinality(1 .. k) = k /\ IsFiniteSet(1 .. k)
    BY FS_Interval
  <2> QED BY <1>3, <2>1
<1>5. ASSUME NEW i \in 1 .. k, Few(i - 1) PROVE Few(i)
  <2> DEFINE left == g[i - 1]
  <2>1. left \subseteq 1 .. k /\ IsFiniteSet(left) /\ Cardinality(left) <= k - (i - 1)
    BY <1>5
  <2>2. g[i] = Prune(waits, left)
    BY <1>3
  <2> HIDE DEF left
  <2>3. CASE left = {}
    <3>1. g[i] = {}
      BY <2>2, <2>3 DEF Prune
    <3> QED BY <3>1, FS_EmptySet
  <2>4. CASE left # {}
    <3>1. (\A l \in left : rank[l] \in Nat) /\ \A l, m \in left : m \in waits[l] => rank[m] < rank[l]
      BY <2>1
    <3>2. g[i] \subseteq left /\ Cardinality(g[i]) <= Cardinality(left) - 1
      <4>1. IsFiniteSet(left)
        BY <2>1
      <4>2. Prune(waits, left) \subseteq left /\ Cardinality(Prune(waits, left)) <= Cardinality(left) - 1
        BY <2>4, <3>1, <4>1, PruneLessens
      <4> QED BY <2>2, <4>2
    <3>3. IsFiniteSet(g[i]) /\ Cardinality(g[i]) \in Nat /\ Cardinality(left) \in Nat
      BY <2>1, <3>2, FS_Subset, FS_CardinalityType
    <3>4. Cardinality(g[i]) <= k - i
      BY <2>1, <3>2, <3>3
    <3>5. g[i] \subseteq 1 .. k
      BY <2>1, <3>2
    <3> QED BY <3>3, <3>4, <3>5
  <2> QED BY <2>3, <2>4
<1> HIDE DEF Few
<1>6. Bad = {}
  <2> SUFFICES ASSUME Bad # {} PROVE FALSE
    OBVIOUS
  <2>1. PICK i \in Bad : \A j \in Bad : i <= j
    <3>1. Bad \subseteq Nat
      OBVIOUS
    <3> HIDE DEF Bad
    <3> QED BY <3>1, LeastNumber
  <2>2. i \in Nat /\ i <= k /\ ~Few(i)
    OBVIOUS
  <2>3. i # 0
    BY <1>4, <2>2
  <2>4. i - 1 \in Nat /\ i - 1 <= k /\ i \in 1 .. k /\ i - 1 \notin Bad
    BY <2>1, <2>2, <2>3
  <2> QED BY <1>5, <2>2, <2>4
<1>7. Few(k)
  BY <1>6
<1>8. IsFiniteSet(g[k]) /\ Cardinality(g[k]) <= 0
  BY <1>7 DEF Few
<1>9. g[k] = {}
  BY <1>8, FS_CardinalityType, FS_EmptySet
<1> QED BY <1>3, <1>9 DEF F
-----------------------------------------------------------------------------
(* Grids: g has columns and rows, the router at a place, and for a router  *)
(* its place and its hub, another router of the grid if it hangs on that   *)
(* one or itself.  Links to the east have a weight of 1 or 2.              *)
Grid(n, g) ==
  /\ n.routers \in Nat /\ g.cols \in Nat \ {0} /\ g.rows \in Nat \ {0}
  /\ g.cols + g.rows - 1 <= n.routers /\ g.east \in {1, 2}
  /\ \A r \in Routers(n) :
       /\ g.hub[r] \in Routers(n) /\ g.hub[g.hub[r]] = g.hub[r]
       /\ g.x[r] \in 0 .. g.cols - 1 /\ g.x[g.hub[r]] = g.x[r]
       /\ g.y[r] \in 0 .. g.rows - 1 /\ g.y[g.hub[r]] = g.y[r]
       /\ g.hub[r] = r => g.at[<<g.x[r], g.y[r]>>] = r
  /\ \A x \in 0 .. g.cols - 1, y \in 0 .. g.rows - 1 :
       LET r == g.at[<<x, y>>] IN r \in Routers(n) /\ g.hub[r] = r /\ g.x[r] = x /\ g.y[r] = y

(* The links from router s to router t, with weight w, that there are. *)
OnGrid(g, s, t)   == g.hub[s] = s /\ g.hub[t] = t
East(g, s, t, w)  == OnGrid(g, s, t) /\ g.y[s] = g.y[t] /\ g.x[t] = g.x[s] + 1 /\ w = g.east
West(g, s, t, w)  == OnGrid(g, s, t) /\ g.y[s] = g.y[t] /\ g.x[s] = g.x[t] + 1 /\ w = 1
North(g, s, t, w) == OnGrid(g, s, t) /\ g.x[s] = g.x[t] /\ g.y[t] = g.y[s] + 1 /\ w = 2
South(g, s, t, w) == OnGrid(g, s, t) /\ g.x[s] = g.x[t] /\ g.y[s] = g.y[t] + 1 /\ w = 2
Up(g, s, t, w)    == g.hub[s] # s /\ t = g.hub[s] /\ w = 1
Down(g, s, t, w)  == g.hub[t] # t /\ s = g.hub[t] /\ w = 1
Linked(g, s, t, w) ==
  \/ East(g, s, t, w) \/ West(g, s, t, w) \/ North(g, s, t, w) \/ South(g, s, t, w)
  \/ Up(g, s, t, w) \/ Down(g, s, t, w)

GridLinks(n, g) ==
  /\ \E k \in Nat : DOMAIN n.int = 1 .. k
  /\ \A l \in DOMAIN n.int :
       /\ n.int[l].src \in Routers(n) /\ n.int[l].dst \in Routers(n)
       /\ Linked(g, n.int[l].src, n.int[l].dst, n.int[l].weight)
  /\ \A s, t \in Routers(n), w \in {1, 2} : Linked(g, s, t, w) =>
       \E l \in DOMAIN n.int : n.int[l].src = s /\ n.int[l].dst = t /\ n.int[l].weight = w

OnAGrid(n, g) == Grid(n, g) /\ GridLinks(n, g)

LEMMA GridIsNetwork ==
  ASSUME NEW n, NEW g, OnAGrid(n, g)
  PROVE  IsNetwork(n)
<1>1. \A s, t, w : Linked(g, s, t, w) => w \in Nat \ {0}
  BY DEF OnAGrid, Grid, Linked, East, West, North, South, Up, Down
<1> QED BY <1>1 DEF OnAGrid, Grid, GridLinks, IsNetwork

(* The weight of a lightest path. *)
Across(e, p, q) == IF p <= q THEN (IF e = 2 THEN 2 * (q - p) ELSE q - p) ELSE p - q
Along(p, q)     == IF p <= q THEN 2 * (q - p) ELSE 2 * (p - q)
Off(g, r)       == IF g.hub[r] = r THEN 0 ELSE 1
Far(g, s, t) ==
  IF s = t THEN 0
  ELSE Off(g, s) + Off(g, t) + Across(g.east, g.x[s], g.x[t]) + Along(g.y[s], g.y[t])
FarOn(n, g) == [p \in Routers(n) \X Routers(n) |-> Far(g, p[1], p[2])]

LEMMA FarIs ==
  ASSUME NEW n, NEW g, NEW s \in Routers(n), NEW t \in Routers(n)
  PROVE  FarOn(n, g)[<<s, t>>] = Far(g, s, t)
  BY DEF FarOn

(* Routers of a grid, what they hang on and where they are. *)
LEMMA Places ==
  ASSUME NEW n, NEW g, Grid(n, g), NEW r \in Routers(n)
  PROVE  /\ g.hub[r] \in Routers(n) /\ g.hub[g.hub[r]] = g.hub[r]
         /\ g.x[r] \in Nat /\ g.x[r] < g.cols /\ g.x[g.hub[r]] = g.x[r]
         /\ g.y[r] \in Nat /\ g.y[r] < g.rows /\ g.y[g.hub[r]] = g.y[r]
         /\ Off(g, r) = (IF g.hub[r] = r THEN 0 ELSE 1) /\ Off(g, g.hub[r]) = 0
         /\ g.cols \in Nat /\ g.rows \in Nat /\ g.east \in {1, 2}
<1>1. /\ g.hub[r] \in Routers(n) /\ g.hub[g.hub[r]] = g.hub[r]
      /\ g.x[r] \in 0 .. g.cols - 1 /\ g.x[g.hub[r]] = g.x[r]
      /\ g.y[r] \in 0 .. g.rows - 1 /\ g.y[g.hub[r]] = g.y[r]
      /\ g.cols \in Nat /\ g.rows \in Nat /\ g.east \in {1, 2}
  BY DEF Grid
<1> QED BY <1>1 DEF Off

LEMMA SamePlace ==
  ASSUME NEW n, NEW g, Grid(n, g), NEW s \in Routers(n), NEW t \in Routers(n),
         g.hub[s] = s, g.hub[t] = t, g.x[s] = g.x[t], g.y[s] = g.y[t]
  PROVE  s = t
<1>1. g.at[<<g.x[s], g.y[s]>>] = s /\ g.at[<<g.x[t], g.y[t]>>] = t
  BY DEF Grid
<1> QED BY <1>1

(* The numbers of which the weights are made. *)
LEMMA AcrossIs ==
  ASSUME NEW e \in {1, 2}, NEW p \in Nat, NEW q \in Nat
  PROVE  /\ Across(e, p, q) \in Nat /\ Along(p, q) \in Nat
         /\ Across(e, p, p) = 0 /\ Along(p, p) = 0
         /\ Across(e, p, q + 1) <= Across(e, p, q) + e /\ Across(e, p, q) <= Across(e, p, q + 1) + 1
         /\ Along(p, q + 1) <= Along(p, q) + 2 /\ Along(p, q) <= Along(p, q + 1) + 2
<1>1. CASE e = 1
  BY <1>1 DEF Across, Along
<1>2. CASE e = 2
  BY <1>2 DEF Across, Along
<1> QED BY <1>1, <1>2

LEMMA FarIsMadeOf ==
  ASSUME NEW n, NEW g, Grid(n, g), NEW s \in Routers(n), NEW t \in Routers(n)
  PROVE  /\ Far(g, s, s) = 0 /\ Far(g, s, t) \in Nat
         /\ s # t => Far(g, s, t) = Off(g, s) + Off(g, t) + Across(g.east, g.x[s], g.x[t]) + Along(g.y[s], g.y[t])
         /\ Off(g, s) \in {0, 1} /\ Across(g.east, g.x[s], g.x[t]) \in Nat /\ Along(g.y[s], g.y[t]) \in Nat
<1>1. g.x[s] \in Nat /\ g.x[t] \in Nat /\ g.y[s] \in Nat /\ g.y[t] \in Nat /\ g.east \in {1, 2}
  BY Places
<1>2. Across(g.east, g.x[s], g.x[t]) \in Nat /\ Along(g.y[s], g.y[t]) \in Nat
  BY <1>1, AcrossIs
<1>3. Off(g, s) \in {0, 1} /\ Off(g, t) \in {0, 1}
  BY DEF Off
<1> QED BY <1>2, <1>3 DEF Far

(* No link shortens a path. *)
LEMMA FarAndOn ==
  ASSUME NEW n, NEW g, Grid(n, g), NEW s \in Routers(n), NEW a \in Routers(n), NEW b \in Routers(n),
         NEW w, Linked(g, a, b, w)
  PROVE  Far(g, s, b) <= Far(g, s, a) + w
<1> DEFINE A(r) == Across(g.east, g.x[s], g.x[r])
           B(r) == Along(g.y[s], g.y[r])
<1>1. /\ g.x[s] \in Nat /\ g.x[a] \in Nat /\ g.x[b] \in Nat /\ g.y[s] \in Nat /\ g.y[a] \in Nat /\ g.y[b] \in Nat
      /\ g.east \in {1, 2} /\ (g.x[a] = g.x[s] => A(a) = 0) /\ (g.y[a] = g.y[s] => B(a) = 0)
  <2>1. /\ g.x[s] \in Nat /\ g.x[a] \in Nat /\ g.x[b] \in Nat /\ g.y[s] \in Nat /\ g.y[a] \in Nat /\ g.y[b] \in Nat
        /\ g.east \in {1, 2}
    BY Places
  <2>2. g.x[a] = g.x[s] => A(a) = 0
    BY <2>1, AcrossIs
  <2>3. g.y[a] = g.y[s] => B(a) = 0
    BY <2>1, AcrossIs
  <2> QED BY <2>1, <2>2, <2>3
<1>2. /\ A(a) \in Nat /\ A(b) \in Nat /\ B(a) \in Nat /\ B(b) \in Nat
      /\ Off(g, s) \in {0, 1} /\ Off(g, a) \in {0, 1} /\ Off(g, b) \in {0, 1}
      /\ Far(g, s, s) = 0 /\ Far(g, s, a) \in Nat
      /\ s # a => Far(g, s, a) = Off(g, s) + Off(g, a) + A(a) + B(a)
      /\ s # b => Far(g, s, b) = Off(g, s) + Off(g, b) + A(b) + B(b)
  BY FarIsMadeOf
<1>3. ASSUME Off(g, a) = 0, Off(g, b) = 0, A(b) + B(b) <= A(a) + B(a) + w, w \in Nat
      PROVE  Far(g, s, b) <= Far(g, s, a) + w
  <2>1. CASE s = b
    BY <1>2, <1>3, <2>1
  <2>2. CASE s # b /\ s # a
    BY <1>2, <1>3, <2>2
  <2>3. CASE s # b /\ s = a
    BY <1>1, <1>2, <1>3, <2>3
  <2> QED BY <2>1, <2>2, <2>3
<1> HIDE DEF A, B
<1>4. CASE OnGrid(g, a, b)
  <2>1. Off(g, a) = 0 /\ Off(g, b) = 0
    BY <1>4 DEF Off, OnGrid
  <2>2. A(b) + B(b) <= A(a) + B(a) + w /\ w \in Nat
    <3>1. CASE East(g, a, b, w)
      <4>1. w = g.east /\ A(b) <= A(a) + g.east /\ B(b) = B(a)
        BY <1>1, <3>1, AcrossIs DEF East, A, B
      <4> QED BY <1>1, <1>2, <4>1
    <3>2. CASE West(g, a, b, w)
      <4>1. w = 1 /\ A(b) <= A(a) + 1 /\ B(b) = B(a)
        BY <1>1, <3>2, AcrossIs DEF West, A, B
      <4> QED BY <1>2, <4>1
    <3>3. CASE North(g, a, b, w)
      <4>1. w = 2 /\ B(b) <= B(a) + 2 /\ A(b) = A(a)
        BY <1>1, <3>3, AcrossIs DEF North, A, B
      <4> QED BY <1>2, <4>1
    <3>4. CASE South(g, a, b, w)
      <4>1. w = 2 /\ B(b) <= B(a) + 2 /\ A(b) = A(a)
        BY <1>1, <3>4, AcrossIs DEF South, A, B
      <4> QED BY <1>2, <4>1
    <3> QED BY <1>4, <3>1, <3>2, <3>3, <3>4 DEF OnGrid, Linked, Up, Down
  <2> QED BY <1>3, <2>1, <2>2
<1>5. CASE Up(g, a, b, w)
  <2>1. Off(g, a) = 1 /\ Off(g, b) = 0 /\ A(a) = A(b) /\ B(a) = B(b) /\ w = 1 /\ b # a
    BY <1>5, Places DEF Up, Off, A, B
  <2>2. g.hub[b] = b
    BY <1>5, Places DEF Up
  <2>3. CASE s = a
    BY <1>1, <1>2, <1>5, <2>1, <2>3, Places DEF Up
  <2>4. CASE s # a
    BY <1>2, <2>1, <2>4
  <2> QED BY <2>3, <2>4
<1>6. CASE Down(g, a, b, w)
  <2>1. Off(g, a) = 0 /\ Off(g, b) = 1 /\ A(a) = A(b) /\ B(a) = B(b) /\ w = 1
    BY <1>6, Places DEF Down, Off, A, B
  <2>2. CASE s = a
    BY <1>1, <1>2, <2>1, <2>2
  <2>3. CASE s # a
    BY <1>2, <2>1, <2>3
  <2> QED BY <2>2, <2>3
<1> QED BY <1>4, <1>5, <1>6 DEF Linked, East, West, North, South

(* The last and the first step of a way. *)
LEMMA AcrossSteps ==
  ASSUME NEW e \in {1, 2}, NEW p \in Nat, NEW q \in Nat
  PROVE  /\ p < q => /\ Across(e, p, q - 1) + e = Across(e, p, q) /\ Across(e, p + 1, q) + e = Across(e, p, q)
                     /\ Along(p, q - 1) + 2 = Along(p, q) /\ Along(p + 1, q) + 2 = Along(p, q)
         /\ q < p => /\ Across(e, p, q + 1) + 1 = Across(e, p, q) /\ Across(e, p - 1, q) + 1 = Across(e, p, q)
                     /\ Along(p, q + 1) + 2 = Along(p, q) /\ Along(p - 1, q) + 2 = Along(p, q)
<1>1. CASE e = 1
  BY <1>1 DEF Across, Along
<1>2. CASE e = 2
  BY <1>2 DEF Across, Along
<1> QED BY <1>1, <1>2

(* A link towards router t from the side of router s. *)
LEMMA LastLink ==
  ASSUME NEW n, NEW g, OnAGrid(n, g), NEW s \in Routers(n), NEW t \in Routers(n), s # t
  PROVE  \E a \in Routers(n), w \in {1, 2} : Linked(g, a, t, w) /\ Far(g, s, a) + w = Far(g, s, t)
<1> DEFINE A(r) == Across(g.east, g.x[s], g.x[r])
           B(r) == Along(g.y[s], g.y[r])
<1>1. Grid(n, g)
  BY DEF OnAGrid
<1>2. /\ Far(g, s, s) = 0 /\ Off(g, s) \in {0, 1} /\ Off(g, t) \in {0, 1}
      /\ Far(g, s, t) = Off(g, s) + Off(g, t) + A(t) + B(t)
      /\ \A a \in Routers(n) :
           /\ A(a) \in Nat /\ B(a) \in Nat /\ Off(g, a) \in {0, 1}
           /\ s # a => Far(g, s, a) = Off(g, s) + Off(g, a) + A(a) + B(a)
  BY <1>1, FarIsMadeOf
<1>3. /\ g.x[s] \in Nat /\ g.x[s] < g.cols /\ g.x[t] \in Nat /\ g.x[t] < g.cols
      /\ g.y[s] \in Nat /\ g.y[s] < g.rows /\ g.y[t] \in Nat /\ g.y[t] < g.rows
      /\ g.east \in {1, 2} /\ g.cols \in Nat /\ g.rows \in Nat
  BY <1>1, Places
<1>4. CASE g.hub[t] # t
  <2> DEFINE a == g.hub[t]
  <2>1. a \in Routers(n) /\ Down(g, a, t, 1) /\ A(a) = A(t) /\ B(a) = B(t) /\ Off(g, a) = 0 /\ Off(g, t) = 1
    BY <1>1, <1>4, Places DEF Down
  <2>2. Far(g, s, a) + 1 = Far(g, s, t)
    <3>1. CASE s = a
      <4>1. A(a) = 0 /\ B(a) = 0
        BY <1>3, <3>1, AcrossIs
      <4> HIDE DEF a, A, B
      <4> QED BY <1>2, <2>1, <3>1, <4>1
    <3>2. CASE s # a
      <4> HIDE DEF a, A, B
      <4> QED BY <1>2, <2>1, <3>2
    <3> QED BY <3>1, <3>2
  <2> QED BY <2>1, <2>2 DEF Linked
<1>5. ASSUME g.hub[t] = t, NEW x \in 0 .. g.cols - 1, NEW y \in 0 .. g.rows - 1, NEW w \in {1, 2},
             Linked(g, g.at[<<x, y>>], t, w),
             Across(g.east, g.x[s], x) + Along(g.y[s], y) + w = A(t) + B(t)
      PROVE  \E a \in Routers(n), v \in {1, 2} : Linked(g, a, t, v) /\ Far(g, s, a) + v = Far(g, s, t)
  <2> DEFINE a == g.at[<<x, y>>]
  <2>1. a \in Routers(n) /\ g.hub[a] = a /\ g.x[a] = x /\ g.y[a] = y
    BY <1>1 DEF Grid
  <2>2. Off(g, a) = 0 /\ Off(g, t) = 0 /\ A(a) + B(a) + w = A(t) + B(t)
    BY <1>5, <2>1 DEF Off
  <2>3. CASE s = a
    <3>1. A(a) = 0 /\ B(a) = 0
      BY <1>3, <2>3, AcrossIs
    <3> HIDE DEF a, A, B
    <3>2. Far(g, s, a) + w = Far(g, s, t)
      BY <1>2, <2>1, <2>2, <2>3, <3>1
    <3> QED BY <1>5, <2>1, <3>2 DEF a
  <2>4. CASE s # a
    <3> HIDE DEF a, A, B
    <3>2. Far(g, s, a) + w = Far(g, s, t)
      BY <1>2, <2>1, <2>2, <2>4
    <3> QED BY <1>5, <2>1, <3>2 DEF a
  <2> QED BY <2>3, <2>4
<1>6. CASE g.hub[t] = t /\ g.x[s] < g.x[t]
  <2> DEFINE x == g.x[t] - 1
             y == g.y[t]
             a == g.at[<<x, y>>]
  <2>1. x \in 0 .. g.cols - 1 /\ y \in 0 .. g.rows - 1
    BY <1>3, <1>6
  <2>2. g.hub[a] = a /\ g.x[a] = x /\ g.y[a] = y
    BY <1>1, <2>1 DEF Grid
  <2>3. Linked(g, a, t, g.east)
    BY <1>3, <1>6, <2>2 DEF Linked, East, OnGrid
  <2>4. Across(g.east, g.x[s], x) + Along(g.y[s], y) + g.east = A(t) + B(t)
    <3>1. Across(g.east, g.x[s], x) \in Nat /\ Along(g.y[s], y) \in Nat
      <4>1. x \in Nat /\ y \in Nat
        BY <1>3, <2>1
      <4> HIDE DEF x, y
      <4> QED BY <1>3, <4>1, AcrossIs
    <3>2. Across(g.east, g.x[s], x) + g.east = A(t) /\ Along(g.y[s], y) = B(t)
      BY <1>3, <1>6, AcrossSteps
    <3> HIDE DEF x, y, A, B
    <3> QED BY <1>2, <1>3, <3>1, <3>2
  <2> HIDE DEF x, y
  <2> QED BY <1>3, <1>5, <1>6, <2>1, <2>3, <2>4
<1>7. CASE g.hub[t] = t /\ g.x[t] < g.x[s]
  <2> DEFINE x == g.x[t] + 1
             y == g.y[t]
             a == g.at[<<x, y>>]
  <2>1. x \in 0 .. g.cols - 1 /\ y \in 0 .. g.rows - 1
    BY <1>3, <1>7
  <2>2. g.hub[a] = a /\ g.x[a] = x /\ g.y[a] = y
    BY <1>1, <2>1 DEF Grid
  <2>3. Linked(g, a, t, 1)
    BY <1>3, <1>7, <2>2 DEF Linked, West, OnGrid
  <2>4. Across(g.east, g.x[s], x) + Along(g.y[s], y) + 1 = A(t) + B(t)
    <3>1. Across(g.east, g.x[s], x) \in Nat /\ Along(g.y[s], y) \in Nat
      <4>1. x \in Nat /\ y \in Nat
        BY <1>3, <2>1
      <4> HIDE DEF x, y
      <4> QED BY <1>3, <4>1, AcrossIs
    <3>2. Across(g.east, g.x[s], x) + 1 = A(t) /\ Along(g.y[s], y) = B(t)
      BY <1>3, <1>7, AcrossSteps
    <3> HIDE DEF x, y, A, B
    <3> QED BY <1>2, <1>3, <3>1, <3>2
  <2> HIDE DEF x, y
  <2> QED BY <1>3, <1>5, <1>7, <2>1, <2>3, <2>4
<1>8. CASE g.hub[t] = t /\ g.y[s] < g.y[t]
  <2> DEFINE x == g.x[t]
             y == g.y[t] - 1
             a == g.at[<<x, y>>]
  <2>1. x \in 0 .. g.cols - 1 /\ y \in 0 .. g.rows - 1
    BY <1>3, <1>8
  <2>2. g.hub[a] = a /\ g.x[a] = x /\ g.y[a] = y
    BY <1>1, <2>1 DEF Grid
  <2>3. Linked(g, a, t, 2)
    BY <1>3, <1>8, <2>2 DEF Linked, North, OnGrid
  <2>4. Across(g.east, g.x[s], x) + Along(g.y[s], y) + 2 = A(t) + B(t)
    <3>1. Across(g.east, g.x[s], x) \in Nat /\ Along(g.y[s], y) \in Nat
      <4>1. x \in Nat /\ y \in Nat
        BY <1>3, <2>1
      <4> HIDE DEF x, y
      <4> QED BY <1>3, <4>1, AcrossIs
    <3>2. Across(g.east, g.x[s], x) = A(t) /\ Along(g.y[s], y) + 2 = B(t)
      BY <1>3, <1>8, AcrossSteps
    <3> HIDE DEF x, y, A, B
    <3> QED BY <1>2, <1>3, <3>1, <3>2
  <2> HIDE DEF x, y
  <2> QED BY <1>3, <1>5, <1>8, <2>1, <2>3, <2>4
<1>9. CASE g.hub[t] = t /\ g.y[t] < g.y[s]
  <2> DEFINE x == g.x[t]
             y == g.y[t] + 1
             a == g.at[<<x, y>>]
  <2>1. x \in 0 .. g.cols - 1 /\ y \in 0 .. g.rows - 1
    BY <1>3, <1>9
  <2>2. g.hub[a] = a /\ g.x[a] = x /\ g.y[a] = y
    BY <1>1, <2>1 DEF Grid
  <2>3. Linked(g, a, t, 2)
    BY <1>3, <1>9, <2>2 DEF Linked, South, OnGrid
  <2>4. Across(g.east, g.x[s], x) + Along(g.y[s], y) + 2 = A(t) + B(t)
    <3>1. Across(g.east, g.x[s], x) \in Nat /\ Along(g.y[s], y) \in Nat
      <4>1. x \in Nat /\ y \in Nat
        BY <1>3, <2>1
      <4> HIDE DEF x, y
      <4> QED BY <1>3, <4>1, AcrossIs
    <3>2. Across(g.east, g.x[s], x) = A(t) /\ Along(g.y[s], y) + 2 = B(t)
      BY <1>3, <1>9, AcrossSteps
    <3> HIDE DEF x, y, A, B
    <3> QED BY <1>2, <1>3, <3>1, <3>2
  <2> HIDE DEF x, y
  <2> QED BY <1>3, <1>5, <1>9, <2>1, <2>3, <2>4
<1>10. CASE g.hub[t] = t /\ g.x[s] = g.x[t] /\ g.y[s] = g.y[t]
  <2>1. g.hub[s] # s
    BY <1>1, <1>10, SamePlace
  <2>2. g.hub[s] = t
    BY <1>1, <1>10, Places, SamePlace
  <2>3. Linked(g, s, t, 1)
    BY <2>1, <2>2 DEF Linked, Up
  <2>4. Off(g, s) = 1 /\ Off(g, t) = 0 /\ A(t) = 0 /\ B(t) = 0
    <3>1. A(t) = 0 /\ B(t) = 0
      BY <1>3, <1>10, AcrossIs
    <3> QED BY <1>10, <2>1, <3>1 DEF Off
  <2> HIDE DEF A, B
  <2>5. Far(g, s, s) + 1 = Far(g, s, t)
    BY <1>2, <2>4
  <2> QED BY <2>3, <2>5
<1> QED BY <1>3, <1>4, <1>6, <1>7, <1>8, <1>9, <1>10

(* A link from router s to the side of router d, to the west if that is    *)
(* where it is.                                                            *)
FirstStep(g, s, d, b, w) ==
  /\ Linked(g, s, b, w) /\ w + Far(g, b, d) = Far(g, s, d)
  /\ g.hub[s] = s /\ g.x[d] < g.x[s] => w = 1

LEMMA FirstLink ==
  ASSUME NEW n, NEW g, OnAGrid(n, g), NEW s \in Routers(n), NEW d \in Routers(n), s # d
  PROVE  \E b \in Routers(n), w \in {1, 2} : FirstStep(g, s, d, b, w)
<1> DEFINE A(r) == Across(g.east, g.x[r], g.x[d])
           B(r) == Along(g.y[r], g.y[d])
<1>1. Grid(n, g)
  BY DEF OnAGrid
<1>2. /\ Far(g, d, d) = 0 /\ Off(g, s) \in {0, 1} /\ Off(g, d) \in {0, 1}
      /\ Far(g, s, d) = Off(g, s) + Off(g, d) + A(s) + B(s)
      /\ \A b \in Routers(n) :
           /\ A(b) \in Nat /\ B(b) \in Nat /\ Off(g, b) \in {0, 1}
           /\ b # d => Far(g, b, d) = Off(g, b) + Off(g, d) + A(b) + B(b)
  BY <1>1, FarIsMadeOf
<1>3. /\ g.x[s] \in Nat /\ g.x[s] < g.cols /\ g.x[d] \in Nat /\ g.x[d] < g.cols
      /\ g.y[s] \in Nat /\ g.y[s] < g.rows /\ g.y[d] \in Nat /\ g.y[d] < g.rows
      /\ g.east \in {1, 2} /\ g.cols \in Nat /\ g.rows \in Nat
  BY <1>1, Places
<1>4. CASE g.hub[s] # s
  <2> DEFINE b == g.hub[s]
  <2>1. b \in Routers(n) /\ Up(g, s, b, 1) /\ A(b) = A(s) /\ B(b) = B(s) /\ Off(g, b) = 0 /\ Off(g, s) = 1
    BY <1>1, <1>4, Places DEF Up
  <2>2. 1 + Far(g, b, d) = Far(g, s, d)
    <3>1. CASE b = d
      <4>1. A(b) = 0 /\ B(b) = 0
        BY <1>3, <3>1, AcrossIs
      <4> HIDE DEF b, A, B
      <4> QED BY <1>2, <2>1, <3>1, <4>1
    <3>2. CASE b # d
      <4> HIDE DEF b, A, B
      <4> QED BY <1>2, <2>1, <3>2
    <3> QED BY <3>1, <3>2
  <2> QED BY <1>4, <2>1, <2>2 DEF Linked, FirstStep
<1>5. ASSUME g.hub[s] = s, NEW x \in 0 .. g.cols - 1, NEW y \in 0 .. g.rows - 1, NEW w \in {1, 2},
             Linked(g, s, g.at[<<x, y>>], w),
             Across(g.east, x, g.x[d]) + Along(y, g.y[d]) + w = A(s) + B(s),
             g.x[d] < g.x[s] => w = 1
      PROVE  \E b \in Routers(n), v \in {1, 2} : FirstStep(g, s, d, b, v)
  <2> DEFINE b == g.at[<<x, y>>]
  <2>1. b \in Routers(n) /\ g.hub[b] = b /\ g.x[b] = x /\ g.y[b] = y
    BY <1>1 DEF Grid
  <2>2. Off(g, s) = 0 /\ Off(g, b) = 0 /\ A(b) + B(b) + w = A(s) + B(s)
    BY <1>5, <2>1 DEF Off
  <2>3. CASE b = d
    <3>1. A(b) = 0 /\ B(b) = 0
      BY <1>3, <2>3, AcrossIs
    <3>2. Off(g, d) = 0
      BY <2>2, <2>3
    <3> HIDE DEF b, A, B
    <3>3. w + Far(g, b, d) = Far(g, s, d)
      BY <1>2, <2>1, <2>2, <2>3, <3>1, <3>2
    <3> QED BY <1>5, <2>1, <3>3 DEF b, FirstStep
  <2>4. CASE b # d
    <3> HIDE DEF b, A, B
    <3>2. w + Far(g, b, d) = Far(g, s, d)
      BY <1>2, <2>1, <2>2, <2>4
    <3> QED BY <1>5, <2>1, <3>2 DEF b, FirstStep
  <2> QED BY <2>3, <2>4
<1>6. CASE g.hub[s] = s /\ g.x[s] < g.x[d]
  <2> DEFINE x == g.x[s] + 1
             y == g.y[s]
             b == g.at[<<x, y>>]
  <2>1. x \in 0 .. g.cols - 1 /\ y \in 0 .. g.rows - 1
    BY <1>3, <1>6
  <2>2. g.hub[b] = b /\ g.x[b] = x /\ g.y[b] = y
    BY <1>1, <2>1 DEF Grid
  <2>3. Linked(g, s, b, g.east)
    BY <1>3, <1>6, <2>2 DEF Linked, East, OnGrid
  <2>4. Across(g.east, x, g.x[d]) + Along(y, g.y[d]) + g.east = A(s) + B(s)
    <3>1. Across(g.east, x, g.x[d]) \in Nat /\ Along(y, g.y[d]) \in Nat
      <4>1. x \in Nat /\ y \in Nat
        BY <1>3, <2>1
      <4> HIDE DEF x, y
      <4> QED BY <1>3, <4>1, AcrossIs
    <3>2. Across(g.east, x, g.x[d]) + g.east = A(s) /\ Along(y, g.y[d]) = B(s)
      BY <1>3, <1>6, AcrossSteps
    <3> HIDE DEF x, y, A, B
    <3> QED BY <1>2, <1>3, <3>1, <3>2
  <2> HIDE DEF x, y
  <2> QED BY <1>3, <1>5, <1>6, <2>1, <2>3, <2>4
<1>7. CASE g.hub[s] = s /\ g.x[d] < g.x[s]
  <2> DEFINE x == g.x[s] - 1
             y == g.y[s]
             b == g.at[<<x, y>>]
  <2>1. x \in 0 .. g.cols - 1 /\ y \in 0 .. g.rows - 1
    BY <1>3, <1>7
  <2>2. g.hub[b] = b /\ g.x[b] = x /\ g.y[b] = y
    BY <1>1, <2>1 DEF Grid
  <2>3. Linked(g, s, b, 1)
    BY <1>3, <1>7, <2>2 DEF Linked, West, OnGrid
  <2>4. Across(g.east, x, g.x[d]) + Along(y, g.y[d]) + 1 = A(s) + B(s)
    <3>1. Across(g.east, x, g.x[d]) \in Nat /\ Along(y, g.y[d]) \in Nat
      <4>1. x \in Nat /\ y \in Nat
        BY <1>3, <2>1
      <4> HIDE DEF x, y
      <4> QED BY <1>3, <4>1, AcrossIs
    <3>2. Across(g.east, x, g.x[d]) + 1 = A(s) /\ Along(y, g.y[d]) = B(s)
      BY <1>3, <1>7, AcrossSteps
    <3> HIDE DEF x, y, A, B
    <3> QED BY <1>2, <1>3, <3>1, <3>2
  <2> HIDE DEF x, y
  <2> QED BY <1>3, <1>5, <1>7, <2>1, <2>3, <2>4
<1>8. CASE g.hub[s] = s /\ g.x[s] = g.x[d] /\ g.y[s] < g.y[d]
  <2> DEFINE x == g.x[s]
             y == g.y[s] + 1
             b == g.at[<<x, y>>]
  <2>1. x \in 0 .. g.cols - 1 /\ y \in 0 .. g.rows - 1
    BY <1>3, <1>8
  <2>2. g.hub[b] = b /\ g.x[b] = x /\ g.y[b] = y
    BY <1>1, <2>1 DEF Grid
  <2>3. Linked(g, s, b, 2)
    BY <1>3, <1>8, <2>2 DEF Linked, North, OnGrid
  <2>4. Across(g.east, x, g.x[d]) + Along(y, g.y[d]) + 2 = A(s) + B(s)
    <3>1. Across(g.east, x, g.x[d]) \in Nat /\ Along(y, g.y[d]) \in Nat
      <4>1. x \in Nat /\ y \in Nat
        BY <1>3, <2>1
      <4> HIDE DEF x, y
      <4> QED BY <1>3, <4>1, AcrossIs
    <3>2. Across(g.east, x, g.x[d]) = A(s) /\ Along(y, g.y[d]) + 2 = B(s)
      BY <1>3, <1>8, AcrossSteps
    <3> HIDE DEF x, y, A, B
    <3> QED BY <1>2, <1>3, <3>1, <3>2
  <2> HIDE DEF x, y
  <2> QED BY <1>3, <1>5, <1>8, <2>1, <2>3, <2>4
<1>9. CASE g.hub[s] = s /\ g.x[s] = g.x[d] /\ g.y[d] < g.y[s]
  <2> DEFINE x == g.x[s]
             y == g.y[s] - 1
             b == g.at[<<x, y>>]
  <2>1. x \in 0 .. g.cols - 1 /\ y \in 0 .. g.rows - 1
    BY <1>3, <1>9
  <2>2. g.hub[b] = b /\ g.x[b] = x /\ g.y[b] = y
    BY <1>1, <2>1 DEF Grid
  <2>3. Linked(g, s, b, 2)
    BY <1>3, <1>9, <2>2 DEF Linked, South, OnGrid
  <2>4. Across(g.east, x, g.x[d]) + Along(y, g.y[d]) + 2 = A(s) + B(s)
    <3>1. Across(g.east, x, g.x[d]) \in Nat /\ Along(y, g.y[d]) \in Nat
      <4>1. x \in Nat /\ y \in Nat
        BY <1>3, <2>1
      <4> HIDE DEF x, y
      <4> QED BY <1>3, <4>1, AcrossIs
    <3>2. Across(g.east, x, g.x[d]) = A(s) /\ Along(y, g.y[d]) + 2 = B(s)
      BY <1>3, <1>9, AcrossSteps
    <3> HIDE DEF x, y, A, B
    <3> QED BY <1>2, <1>3, <3>1, <3>2
  <2> HIDE DEF x, y
  <2> QED BY <1>3, <1>5, <1>9, <2>1, <2>3, <2>4
<1>10. CASE g.hub[s] = s /\ g.x[s] = g.x[d] /\ g.y[s] = g.y[d]
  <2>1. g.hub[d] # d
    BY <1>1, <1>10, SamePlace
  <2>2. g.hub[d] = s
    BY <1>1, <1>10, Places, SamePlace
  <2>3. Linked(g, s, d, 1)
    BY <2>1, <2>2 DEF Linked, Down
  <2>4. Off(g, d) = 1 /\ Off(g, s) = 0 /\ A(s) = 0 /\ B(s) = 0
    <3>1. A(s) = 0 /\ B(s) = 0
      BY <1>3, <1>10, AcrossIs
    <3> QED BY <1>10, <2>1, <3>1 DEF Off
  <2> HIDE DEF A, B
  <2>5. 1 + Far(g, d, d) = Far(g, s, d)
    BY <1>2, <2>4
  <2> QED BY <1>3, <1>10, <2>3, <2>5 DEF FirstStep
<1> QED BY <1>3, <1>4, <1>6, <1>7, <1>8, <1>9, <1>10

LEMMA GridDistances ==
  ASSUME NEW n, NEW g, OnAGrid(n, g)
  PROVE  /\ Distances(n, FarOn(n, g))
         /\ \A s, d \in Routers(n) : s # d => OnWay(n, FarOn(n, g), s, d) # {}
<1> DEFINE D == FarOn(n, g)
           R == Routers(n)
<1>1. Grid(n, g)
  BY DEF OnAGrid
<1>2. \A s, t \in R : D[<<s, t>>] = Far(g, s, t)
  BY FarIs
<1>3. ASSUME NEW s \in R, NEW t \in R PROVE Far(g, s, t) \in 0 .. MaxWeight(n)
  <2>1. /\ Off(g, s) \in {0, 1} /\ Off(g, t) \in {0, 1} /\ Far(g, s, t) \in Nat /\ Far(g, s, s) = 0
        /\ s # t => Far(g, s, t) = Off(g, s) + Off(g, t) + Across(g.east, g.x[s], g.x[t]) + Along(g.y[s], g.y[t])
    BY <1>1, FarIsMadeOf
  <2>2. /\ g.x[s] \in Nat /\ g.x[s] < g.cols /\ g.x[t] \in Nat /\ g.x[t] < g.cols
        /\ g.y[s] \in Nat /\ g.y[s] < g.rows /\ g.y[t] \in Nat /\ g.y[t] < g.rows
        /\ g.east \in {1, 2} /\ g.cols \in Nat /\ g.rows \in Nat
    BY <1>1, Places
  <2>3. ASSUME NEW e \in {1, 2}, NEW m \in Nat, NEW p \in Nat, NEW q \in Nat, p < m, q < m
        PROVE  Across(e, p, q) <= 2 * (m - 1) /\ Along(p, q) <= 2 * (m - 1)
    <3>1. CASE e = 1
      BY <2>3, <3>1 DEF Across, Along
    <3>2. CASE e = 2
      BY <2>3, <3>2 DEF Across, Along
    <3> QED BY <3>1, <3>2
  <2>4. /\ Across(g.east, g.x[s], g.x[t]) <= 2 * (g.cols - 1)
        /\ Along(g.y[s], g.y[t]) <= 2 * (g.rows - 1)
    BY <2>2, <2>3
  <2>5. /\ Across(g.east, g.x[s], g.x[t]) \in Nat /\ Along(g.y[s], g.y[t]) \in Nat
    BY <2>2, AcrossIs
  <2>6. n.routers \in Nat /\ g.cols + g.rows - 1 <= n.routers
    BY <1>1 DEF Grid
  <2>7. Far(g, s, t) <= 2 * n.routers
    BY <2>1, <2>2, <2>4, <2>5, <2>6
  <2> QED BY <2>1, <2>6, <2>7 DEF MaxWeight
<1>4. D \in [R \X R -> 0 .. MaxWeight(n)]
  <2>1. \A p \in R \X R : Far(g, p[1], p[2]) \in 0 .. MaxWeight(n)
    BY <1>3
  <2> QED BY <2>1 DEF FarOn
<1> HIDE DEF D
<1>5. \A s \in R : D[<<s, s>>] = 0
  BY <1>2 DEF Far
<1>6. ASSUME NEW s \in R, NEW l \in DOMAIN n.int
      PROVE  D[<<s, n.int[l].dst>>] <= D[<<s, n.int[l].src>>] + n.int[l].weight
  <2>1. /\ n.int[l].src \in R /\ n.int[l].dst \in R
        /\ Linked(g, n.int[l].src, n.int[l].dst, n.int[l].weight)
    BY DEF OnAGrid, GridLinks
  <2>2. Far(g, s, n.int[l].dst) <= Far(g, s, n.int[l].src) + n.int[l].weight
    BY <1>1, <2>1, FarAndOn
  <2> QED BY <1>2, <2>1, <2>2
<1>7. \A s, t \in R, w \in {1, 2} : Linked(g, s, t, w) =>
        \E l \in DOMAIN n.int : n.int[l].src = s /\ n.int[l].dst = t /\ n.int[l].weight = w
  BY DEF OnAGrid, GridLinks
<1>8. ASSUME NEW s \in R, NEW t \in R, s # t
      PROVE  \E l \in DOMAIN n.int : n.int[l].dst = t /\ D[<<s, n.int[l].src>>] + n.int[l].weight = D[<<s, t>>]
  <2>1. PICK a \in R, w \in {1, 2} : Linked(g, a, t, w) /\ Far(g, s, a) + w = Far(g, s, t)
    BY <1>8, LastLink
  <2> QED BY <1>2, <1>7, <2>1
<1>9. ASSUME NEW s \in R, NEW d \in R, s # d PROVE OnWay(n, D, s, d) # {}
  <2>1. PICK b \in R, w \in {1, 2} : Linked(g, s, b, w) /\ w + Far(g, b, d) = Far(g, s, d)
    BY <1>9, FirstLink DEF FirstStep
  <2>2. PICK l \in DOMAIN n.int : n.int[l].src = s /\ n.int[l].dst = b /\ n.int[l].weight = w
    BY <1>7, <2>1
  <2>3. l \in OnWay(n, D, s, d)
    BY <1>2, <2>1, <2>2 DEF OnWay
  <2> QED BY <2>3
<1>10. Distances(n, D)
  BY <1>4, <1>5, <1>6, <1>8 DEF Distances
<1> QED BY <1>9, <1>10 DEF D

(* A packet for router d that takes a link from s to t: it goes west until *)
(* it need not any more.                                                   *)
Toward(g, s, t, w, d) ==
  \/ East(g, s, t, w)  /\ g.x[s] < g.x[d]
  \/ West(g, s, t, w)  /\ g.x[d] < g.x[s]
  \/ North(g, s, t, w) /\ g.y[s] < g.y[d] /\ g.x[s] <= g.x[d]
  \/ South(g, s, t, w) /\ g.y[d] < g.y[s] /\ g.x[s] <= g.x[d]
  \/ Up(g, s, t, w)
  \/ Down(g, s, t, w)  /\ t = d

LEMMA NearerIsToward ==
  ASSUME NEW n, NEW g, Grid(n, g), NEW s \in Routers(n), NEW d \in Routers(n), s # d,
         NEW t \in Routers(n), NEW w \in {1, 2}, Linked(g, s, t, w), w + Far(g, t, d) = Far(g, s, d),
         g.hub[s] = s /\ g.x[d] < g.x[s] => w = 1
  PROVE  Toward(g, s, t, w, d)
<1> DEFINE A(r) == Across(g.east, g.x[r], g.x[d])
           B(r) == Along(g.y[r], g.y[d])
<1>1. /\ g.x[s] \in Nat /\ g.x[t] \in Nat /\ g.x[d] \in Nat /\ g.y[s] \in Nat /\ g.y[t] \in Nat /\ g.y[d] \in Nat
      /\ g.east \in {1, 2}
  BY Places
<1>2. /\ A(s) \in Nat /\ A(t) \in Nat /\ B(s) \in Nat /\ B(t) \in Nat
      /\ Off(g, s) \in {0, 1} /\ Off(g, t) \in {0, 1} /\ Off(g, d) \in {0, 1}
      /\ Far(g, s, d) = Off(g, s) + Off(g, d) + A(s) + B(s)
      /\ t # d => Far(g, t, d) = Off(g, t) + Off(g, d) + A(t) + B(t)
  BY FarIsMadeOf
<1>3. ASSUME OnGrid(g, s, t), t # d PROVE A(t) + B(t) < A(s) + B(s)
  <2>1. Off(g, s) = 0 /\ Off(g, t) = 0
    BY <1>3 DEF Off, OnGrid
  <2> HIDE DEF A, B
  <2> QED BY <1>2, <1>3, <2>1
<1>4. CASE East(g, s, t, w)
  <2> SUFFICES ASSUME ~(g.x[s] < g.x[d]) PROVE FALSE
    BY <1>4 DEF Toward
  <2>1. g.x[t] = g.x[s] + 1 /\ g.x[d] < g.x[t] /\ g.x[t] - 1 = g.x[s] /\ B(t) = B(s) /\ OnGrid(g, s, t)
    BY <1>1, <1>4 DEF East
  <2>2. A(s) + 1 = A(t)
    BY <1>1, <2>1, AcrossSteps
  <2>3. t # d
    BY <1>1, <2>1
  <2> HIDE DEF A, B
  <2> QED BY <1>2, <1>3, <2>1, <2>2, <2>3
<1>5. CASE West(g, s, t, w)
  <2> SUFFICES ASSUME ~(g.x[d] < g.x[s]) PROVE FALSE
    BY <1>5 DEF Toward
  <2>1. g.x[s] = g.x[t] + 1 /\ g.x[t] < g.x[d] /\ B(t) = B(s) /\ OnGrid(g, s, t)
    BY <1>1, <1>5 DEF West
  <2>2. A(s) + g.east = A(t)
    BY <1>1, <2>1, AcrossSteps
  <2>3. t # d
    BY <1>1, <2>1
  <2> HIDE DEF A, B
  <2> QED BY <1>1, <1>2, <1>3, <2>1, <2>2, <2>3
<1>6. CASE North(g, s, t, w)
  <2>1. g.x[s] <= g.x[d]
    BY <1>1, <1>6 DEF North, OnGrid
  <2> SUFFICES ASSUME ~(g.y[s] < g.y[d]) PROVE FALSE
    BY <1>6, <2>1 DEF Toward
  <2>2. g.y[t] = g.y[s] + 1 /\ g.y[d] < g.y[t] /\ g.y[t] - 1 = g.y[s] /\ A(t) = A(s) /\ OnGrid(g, s, t)
    BY <1>1, <1>6 DEF North
  <2>3. B(s) + 2 = B(t)
    BY <1>1, <2>2, AcrossSteps
  <2>4. t # d
    BY <1>1, <2>2
  <2> HIDE DEF A, B
  <2> QED BY <1>2, <1>3, <2>2, <2>3, <2>4
<1>7. CASE South(g, s, t, w)
  <2>1. g.x[s] <= g.x[d]
    BY <1>1, <1>7 DEF South, OnGrid
  <2> SUFFICES ASSUME ~(g.y[d] < g.y[s]) PROVE FALSE
    BY <1>7, <2>1 DEF Toward
  <2>2. g.y[s] = g.y[t] + 1 /\ g.y[t] < g.y[d] /\ A(t) = A(s) /\ OnGrid(g, s, t)
    BY <1>1, <1>7 DEF South
  <2>3. B(s) + 2 = B(t)
    BY <1>1, <2>2, AcrossSteps
  <2>4. t # d
    BY <1>1, <2>2
  <2> HIDE DEF A, B
  <2> QED BY <1>2, <1>3, <2>2, <2>3, <2>4
<1>8. CASE Up(g, s, t, w)
  BY <1>8 DEF Toward
<1>9. CASE Down(g, s, t, w)
  <2> SUFFICES ASSUME t # d PROVE FALSE
    BY <1>9 DEF Toward
  <2>1. Off(g, t) = 1 /\ Off(g, s) = 0 /\ A(t) = A(s) /\ B(t) = B(s)
    BY <1>9, Places DEF Down
  <2> HIDE DEF A, B
  <2> QED BY <1>2, <2>1
<1> QED BY <1>4, <1>5, <1>6, <1>7, <1>8, <1>9 DEF Linked

LEMMA RoutesGoToward ==
  ASSUME NEW n, NEW g, OnAGrid(n, g), NEW s \in Routers(n), NEW d \in Routers(n),
         NEW l, l \in RoutingTables(n)[<<s, d>>]
  PROVE  /\ s # d /\ l \in DOMAIN n.int /\ n.int[l].src = s /\ n.int[l].dst \in Routers(n)
         /\ Toward(g, s, n.int[l].dst, n.int[l].weight, d)
<1> DEFINE D == FarOn(n, g)
           R == Routers(n)
           t == n.int[l].dst
           w == n.int[l].weight
<1>1. IsNetwork(n) /\ Distances(n, D) /\ Grid(n, g)
  BY GridIsNetwork, GridDistances DEF OnAGrid
<1>2. l \in LightestOnWay(n, D, s, d)
  <2>1. RoutingTables(n)[<<s, d>>] = LightestOnWay(n, D, s, d)
    BY <1>1, RoutesAreLightest
  <2> QED BY <2>1
<1>3. l \in DOMAIN n.int /\ n.int[l].src = s /\ w + D[<<t, d>>] = D[<<s, d>>]
  BY <1>2 DEF LightestOnWay, OnWay
<1>4. t \in R /\ Linked(g, s, t, w) /\ w \in {1, 2}
  <2>1. t \in R /\ Linked(g, s, t, w)
    BY <1>3 DEF OnAGrid, GridLinks
  <2> QED BY <1>1, <2>1 DEF Grid, Linked, East, West, North, South, Up, Down
<1>5. \A r \in R : D[<<r, d>>] = Far(g, r, d) /\ Far(g, r, r) = 0 /\ Far(g, r, d) \in Nat
  BY <1>1, FarIs, FarIsMadeOf
<1>6. /\ \A a, b \in R, v \in {1, 2} : Linked(g, a, b, v) =>
           \E m \in DOMAIN n.int : n.int[m].src = a /\ n.int[m].dst = b /\ n.int[m].weight = v
      /\ OnWay(n, D, s, d)
           = {m \in DOMAIN n.int : n.int[m].src = s /\ n.int[m].weight + D[<<n.int[m].dst, d>>] = D[<<s, d>>]}
      /\ \A m \in OnWay(n, D, s, d) : w <= n.int[m].weight
  BY <1>2 DEF OnAGrid, GridLinks, OnWay, LightestOnWay
<1> HIDE DEF D, t, w
<1>7. w + Far(g, t, d) = Far(g, s, d) /\ s # d
  <2>1. w + Far(g, t, d) = Far(g, s, d)
    BY <1>3, <1>4, <1>5
  <2>2. Far(g, s, s) = 0 /\ Far(g, t, d) \in Nat
    BY <1>4, <1>5
  <2> QED BY <1>4, <2>1, <2>2
<1>8. ASSUME g.hub[s] = s, g.x[d] < g.x[s] PROVE w = 1
  <2>1. PICK b \in R, v \in {1, 2} : FirstStep(g, s, d, b, v)
    BY <1>7, FirstLink
  <2>2. Linked(g, s, b, v) /\ v + Far(g, b, d) = Far(g, s, d) /\ v = 1
    BY <1>8, <2>1 DEF FirstStep
  <2>3. PICK m \in DOMAIN n.int : n.int[m].src = s /\ n.int[m].dst = b /\ n.int[m].weight = v
    BY <1>6, <2>2
  <2>4. m \in OnWay(n, D, s, d)
    BY <1>5, <1>6, <2>2, <2>3
  <2>5. w <= 1
    BY <1>6, <2>2, <2>3, <2>4
  <2> QED BY <1>4, <2>5
<1>9. Toward(g, s, t, w, d)
  BY <1>1, <1>4, <1>7, <1>8, NearerIsToward
<1> QED BY <1>3, <1>4, <1>7, <1>9 DEF t, w

(* Ranks of the links of a grid: those to a lower rank come later on a     *)
(* way.  First up to the grid, then west, column after column, and within  *)
(* a column to the east last, because every packet that goes east may      *)
(* still have to go along the next column, and never west.                 *)
Columns(k, x) == (k - x) * (k + 2)
Rank(k, g, s, t) ==
  IF g.hub[s] # s THEN Columns(k, 0) + k + 2 + k
  ELSE IF g.hub[t] # t THEN 0
  ELSE IF g.x[t] < g.x[s] THEN Columns(k, 0) + k + 2 + g.x[s]
  ELSE IF g.x[s] < g.x[t] THEN Columns(k, g.x[s])
  ELSE IF g.y[s] < g.y[t] THEN Columns(k, g.x[s]) + 1 + (k - g.y[s])
  ELSE Columns(k, g.x[s]) + 1 + g.y[s]

LEMMA ColumnsFall ==
  ASSUME NEW k \in Nat, NEW x \in Nat, x < k
  PROVE  /\ Columns(k, x) \in Nat /\ Columns(k, x) >= k + 2
         /\ Columns(k, x) <= Columns(k, 0)
         /\ Columns(k, x + 1) \in Nat /\ Columns(k, x + 1) + k + 2 = Columns(k, x)
<1>1. PICK j \in Nat : k = x + 1 + j
  <2>1. k - x - 1 \in Nat /\ k = x + 1 + (k - x - 1)
    OBVIOUS
  <2> QED BY <2>1
<1>2. Columns(k, x) = (j + 1) * (k + 2) /\ Columns(k, x + 1) = j * (k + 2) /\ Columns(k, 0) = k * (k + 2)
  <2>1. k - x = j + 1 /\ k - (x + 1) = j /\ k - 0 = k
    BY <1>1
  <2> QED BY <2>1 DEF Columns
<1>3. j * (k + 2) \in Nat /\ (j + 1) * (k + 2) = j * (k + 2) + (k + 2)
  <2>1. j * (k + 2) = j * k + 2 * j /\ (j + 1) * (k + 2) = j * k + 2 * j + k + 2 /\ j * k \in Nat
    OBVIOUS
  <2> QED BY <2>1
<1>4. (j + 1) * (k + 2) <= k * (k + 2)
  <2>1. k * (k + 2) = (x + (j + 1)) * (k + 2)
    BY <1>1
  <2>2. \A a, b, c \in Nat : (a + b) * c = a * c + b * c /\ a * c \in Nat
    OBVIOUS
  <2>3. (x + (j + 1)) * (k + 2) = x * (k + 2) + (j + 1) * (k + 2) /\ x * (k + 2) \in Nat /\ (j + 1) * (k + 2) \in Nat
    BY <2>2
  <2> QED BY <2>1, <2>3
<1> QED BY <1>2, <1>3, <1>4

LEMMA RankIs ==
  ASSUME NEW n, NEW g, Grid(n, g), NEW s \in Routers(n), NEW t \in Routers(n), NEW w, NEW k
  PROVE  /\ East(g, s, t, w)  => Rank(k, g, s, t) = Columns(k, g.x[s])
         /\ West(g, s, t, w)  => Rank(k, g, s, t) = Columns(k, 0) + k + 2 + g.x[s]
         /\ North(g, s, t, w) => Rank(k, g, s, t) = Columns(k, g.x[s]) + 1 + (k - g.y[s])
         /\ South(g, s, t, w) => Rank(k, g, s, t) = Columns(k, g.x[s]) + 1 + g.y[s]
         /\ Up(g, s, t, w)    => Rank(k, g, s, t) = Columns(k, 0) + k + 2 + k
         /\ Down(g, s, t, w)  => Rank(k, g, s, t) = 0
<1>1. /\ g.x[s] \in Nat /\ g.x[t] \in Nat /\ g.y[s] \in Nat /\ g.y[t] \in Nat
      /\ g.hub[g.hub[t]] = g.hub[t]
  BY Places
<1>2. East(g, s, t, w) => Rank(k, g, s, t) = Columns(k, g.x[s])
  BY <1>1 DEF East, OnGrid, Rank
<1>3. West(g, s, t, w) => Rank(k, g, s, t) = Columns(k, 0) + k + 2 + g.x[s]
  BY <1>1 DEF West, OnGrid, Rank
<1>4. North(g, s, t, w) => Rank(k, g, s, t) = Columns(k, g.x[s]) + 1 + (k - g.y[s])
  BY <1>1 DEF North, OnGrid, Rank
<1>5. South(g, s, t, w) => Rank(k, g, s, t) = Columns(k, g.x[s]) + 1 + g.y[s]
  BY <1>1 DEF South, OnGrid, Rank
<1>6. Up(g, s, t, w) => Rank(k, g, s, t) = Columns(k, 0) + k + 2 + k
  BY DEF Up, Rank
<1>7. Down(g, s, t, w) => Rank(k, g, s, t) = 0
  BY <1>1 DEF Down, Rank
<1> QED BY <1>2, <1>3, <1>4, <1>5, <1>6, <1>7

(* What a rank is for a column x and a row y. *)
LEMMA RankBounds ==
  ASSUME NEW k \in Nat, NEW x \in Nat, NEW y \in Nat, x < k, y < k, NEW c \in Nat, NEW r,
         r \in {0, c, c + 1 + (k - y), c + 1 + y}
  PROVE  r \in Nat /\ r <= c + k + 1
  OBVIOUS

LEMMA RankFalls ==
  ASSUME NEW n, NEW g, Grid(n, g), NEW k \in Nat, g.cols <= k, g.rows <= k, NEW d \in Routers(n),
         NEW s \in Routers(n), NEW t \in Routers(n), NEW u \in Routers(n), NEW v, NEW w,
         Toward(g, s, t, v, d), Toward(g, t, u, w, d), t # d
  PROVE  Rank(k, g, t, u) < Rank(k, g, s, t)
<1> DEFINE C(x) == Columns(k, x)
           before == Rank(k, g, s, t)
           after == Rank(k, g, t, u)
<1>1. /\ g.x[s] \in Nat /\ g.x[s] < k /\ g.x[t] \in Nat /\ g.x[t] < k /\ g.x[d] \in Nat
      /\ g.y[s] \in Nat /\ g.y[s] < k /\ g.y[t] \in Nat /\ g.y[t] < k /\ g.y[d] \in Nat
      /\ g.hub[g.hub[s]] = g.hub[s] /\ g.x[g.hub[s]] = g.x[s] /\ g.y[g.hub[s]] = g.y[s]
  <2>1. /\ g.x[s] \in Nat /\ g.x[s] < g.cols /\ g.x[t] \in Nat /\ g.x[t] < g.cols /\ g.x[d] \in Nat
        /\ g.y[s] \in Nat /\ g.y[s] < g.rows /\ g.y[t] \in Nat /\ g.y[t] < g.rows /\ g.y[d] \in Nat
        /\ g.hub[g.hub[s]] = g.hub[s] /\ g.x[g.hub[s]] = g.x[s] /\ g.y[g.hub[s]] = g.y[s]
        /\ g.cols \in Nat /\ g.rows \in Nat
    BY Places
  <2> QED BY <2>1
<1>2. /\ C(g.x[s]) \in Nat /\ C(g.x[s]) >= k + 2 /\ C(g.x[s]) <= C(0)
      /\ C(g.x[s] + 1) \in Nat /\ C(g.x[s] + 1) + k + 2 = C(g.x[s])
  BY <1>1, ColumnsFall
<1>3. C(g.x[t]) \in Nat /\ C(g.x[t]) >= k + 2 /\ C(g.x[t]) <= C(0)
  BY <1>1, ColumnsFall
<1>4. C(0) \in Nat
  <2>1. 0 < k
    BY <1>1
  <2> QED BY <2>1, ColumnsFall
<1>5. /\ East(g, t, u, w)  => after = C(g.x[t])
      /\ West(g, t, u, w)  => after = C(0) + k + 2 + g.x[t]
      /\ North(g, t, u, w) => after = C(g.x[t]) + 1 + (k - g.y[t])
      /\ South(g, t, u, w) => after = C(g.x[t]) + 1 + g.y[t]
      /\ Down(g, t, u, w)  => after = 0
  BY RankIs
<1>6. \/ East(g, t, u, w)  /\ g.x[t] < g.x[d]
      \/ West(g, t, u, w)  /\ g.x[d] < g.x[t]
      \/ North(g, t, u, w) /\ g.y[t] < g.y[d]
      \/ South(g, t, u, w) /\ g.y[d] < g.y[t]
      \/ Up(g, t, u, w)
      \/ Down(g, t, u, w)
  BY DEF Toward
<1> SUFFICES after < before
  OBVIOUS
<1> HIDE DEF C, before, after
<1>7. ~West(g, t, u, w) /\ ~Up(g, t, u, w) => after \in Nat /\ after <= C(g.x[t]) + k + 1
  <2> SUFFICES ASSUME ~West(g, t, u, w) /\ ~Up(g, t, u, w) PROVE after \in Nat /\ after <= C(g.x[t]) + k + 1
    OBVIOUS
  <2>1. after \in {0, C(g.x[t]), C(g.x[t]) + 1 + (k - g.y[t]), C(g.x[t]) + 1 + g.y[t]}
    BY <1>5, <1>6
  <2> QED BY <1>1, <1>3, <2>1, RankBounds
<1>8. CASE East(g, s, t, v) /\ g.x[s] < g.x[d]
  <2>1. before = C(g.x[s]) /\ g.x[t] = g.x[s] + 1 /\ g.hub[t] = t
    BY <1>8, RankIs DEF East, OnGrid, before, C
  <2>2. ~Up(g, t, u, w) /\ g.x[t] <= g.x[d]
    BY <1>1, <1>8, <2>1 DEF Up
  <2>3. ~West(g, t, u, w)
    BY <1>1, <1>6, <2>2 DEF West, East, North, South, Down, OnGrid
  <2>4. after \in Nat /\ after <= C(g.x[t]) + k + 1
    BY <1>7, <2>2, <2>3
  <2>5. C(g.x[t]) + k + 2 = before /\ before \in Nat
    BY <1>2, <2>1
  <2> QED BY <1>3, <2>4, <2>5
<1>9. CASE West(g, s, t, v)
  <2>1. before = C(0) + k + 2 + g.x[s] /\ g.x[s] = g.x[t] + 1 /\ g.hub[t] = t
    BY <1>9, RankIs DEF West, OnGrid, before, C
  <2>2. ~Up(g, t, u, w)
    BY <2>1 DEF Up
  <2>3. CASE West(g, t, u, w)
    <3>1. after = C(0) + k + 2 + g.x[t]
      BY <1>5, <2>3
    <3> QED BY <1>1, <1>4, <2>1, <3>1
  <2>4. CASE ~West(g, t, u, w)
    <3>1. after \in Nat /\ after <= C(g.x[t]) + k + 1
      BY <1>7, <2>2, <2>4
    <3> QED BY <1>1, <1>3, <1>4, <2>1, <3>1
  <2> QED BY <2>3, <2>4
<1>10. ASSUME g.x[t] <= g.x[d], g.hub[t] = t, before \in Nat, before >= C(g.x[t]) + 1,
              East(g, t, u, w) \/ Down(g, t, u, w)
       PROVE  after < before
  <2>1. after = C(g.x[t]) \/ after = 0
    BY <1>5, <1>10
  <2> QED BY <1>3, <1>10, <2>1
<1>11. CASE North(g, s, t, v) /\ g.y[s] < g.y[d] /\ g.x[s] <= g.x[d]
  <2>1. before = C(g.x[s]) + 1 + (k - g.y[s]) /\ g.x[t] = g.x[s] /\ g.y[t] = g.y[s] + 1 /\ g.hub[t] = t
    BY <1>11, RankIs DEF North, OnGrid, before, C
  <2>2. before = C(g.x[t]) + 1 + (k - g.y[s]) /\ before \in Nat /\ before >= C(g.x[t]) + 1
    BY <1>1, <1>3, <2>1
  <2>3. ~Up(g, t, u, w) /\ g.x[t] <= g.x[d] /\ g.y[t] <= g.y[d]
    BY <1>1, <1>11, <2>1 DEF Up
  <2>4. East(g, t, u, w) \/ Down(g, t, u, w) \/ North(g, t, u, w)
    BY <1>1, <1>6, <2>3
  <2>5. CASE North(g, t, u, w)
    <3>1. after = C(g.x[t]) + 1 + (k - g.y[t])
      BY <1>5, <2>5
    <3> QED BY <1>1, <1>3, <2>1, <2>2, <3>1
  <2> QED BY <1>10, <2>1, <2>2, <2>3, <2>4, <2>5
<1>12. CASE South(g, s, t, v) /\ g.y[d] < g.y[s] /\ g.x[s] <= g.x[d]
  <2>1. before = C(g.x[s]) + 1 + g.y[s] /\ g.x[t] = g.x[s] /\ g.y[s] = g.y[t] + 1 /\ g.hub[t] = t
    BY <1>12, RankIs DEF South, OnGrid, before, C
  <2>2. before = C(g.x[t]) + 1 + g.y[s] /\ before \in Nat /\ before >= C(g.x[t]) + 1
    BY <1>1, <1>3, <2>1
  <2>3. ~Up(g, t, u, w) /\ g.x[t] <= g.x[d] /\ g.y[d] <= g.y[t]
    BY <1>1, <1>12, <2>1 DEF Up
  <2>4. East(g, t, u, w) \/ Down(g, t, u, w) \/ South(g, t, u, w)
    BY <1>1, <1>6, <2>3
  <2>5. CASE South(g, t, u, w)
    <3>1. after = C(g.x[t]) + 1 + g.y[t]
      BY <1>5, <2>5
    <3> QED BY <1>1, <1>3, <2>1, <2>2, <3>1
  <2> QED BY <1>10, <2>1, <2>2, <2>3, <2>4, <2>5
<1>13. CASE Up(g, s, t, v)
  <2>1. before = C(0) + k + 2 + k /\ g.hub[t] = t
    BY <1>1, <1>13, RankIs DEF Up, before, C
  <2>2. ~Up(g, t, u, w)
    BY <2>1 DEF Up
  <2>3. CASE West(g, t, u, w)
    <3>1. after = C(0) + k + 2 + g.x[t]
      BY <1>5, <2>3
    <3> QED BY <1>1, <1>4, <2>1, <3>1
  <2>4. CASE ~West(g, t, u, w)
    <3>1. after \in Nat /\ after <= C(g.x[t]) + k + 1
      BY <1>7, <2>2, <2>4
    <3> QED BY <1>1, <1>3, <1>4, <2>1, <3>1
  <2> QED BY <2>3, <2>4
<1>14. ~(Down(g, s, t, v) /\ t = d)
  OBVIOUS
<1> QED BY <1>8, <1>9, <1>11, <1>12, <1>13, <1>14 DEF Toward

LEMMA RankIsNumber ==
  ASSUME NEW n, NEW g, Grid(n, g), NEW k \in Nat, g.cols <= k, g.rows <= k,
         NEW s \in Routers(n), NEW t \in Routers(n), NEW w, Linked(g, s, t, w)
  PROVE  Rank(k, g, s, t) \in Nat
<1>1. g.x[s] \in Nat /\ g.x[s] < k /\ g.y[s] \in Nat /\ g.y[s] < k
  <2>1. g.x[s] \in Nat /\ g.x[s] < g.cols /\ g.y[s] \in Nat /\ g.y[s] < g.rows /\ g.cols \in Nat /\ g.rows \in Nat
    BY Places
  <2> QED BY <2>1
<1>2. Columns(k, g.x[s]) \in Nat /\ Columns(k, 0) \in Nat
  <2>1. 0 < k
    BY <1>1
  <2> QED BY <1>1, <2>1, ColumnsFall
<1> QED BY <1>1, <1>2, RankIs DEF Linked

(* In a sound network, packets get from any router to any other, and links *)
(* wait only for links of a lower rank.                                    *)
RankFallsOn(n, rank) ==
  \A s, d \in Routers(n) : \A l \in RoutingTables(n)[<<s, d>>] :
    n.int[l].dst # d =>
      \A m \in RoutingTables(n)[<<n.int[l].dst, d>>] : rank[m] < rank[l]

Sound(n) ==
  /\ \A l \in DOMAIN n.int : n.int[l].src \in Routers(n) /\ n.int[l].dst \in Routers(n)
  /\ \A s, d \in Routers(n) : s # d => RoutingTables(n)[<<s, d>>] # {}
  /\ \E k \in Nat : DOMAIN n.int = 1 .. k /\ \E rank \in [1 .. k -> Nat] : RankFallsOn(n, rank)

LEMMA GridIsSound ==
  ASSUME NEW n, NEW g, OnAGrid(n, g)
  PROVE  Sound(n)
<1> DEFINE R == Routers(n)
           D == FarOn(n, g)
<1>1. Grid(n, g) /\ IsNetwork(n) /\ Distances(n, D)
  BY GridIsNetwork, GridDistances DEF OnAGrid
<1>2. ASSUME NEW s \in R, NEW d \in R, s # d PROVE RoutingTables(n)[<<s, d>>] # {}
  <2>1. OnWay(n, D, s, d) # {}
    BY <1>2, GridDistances
  <2> HIDE DEF D
  <2> QED BY <1>1, <2>1, SomeWayIsLightest
<1>3. PICK k \in Nat : DOMAIN n.int = 1 .. k
  BY DEF OnAGrid, GridLinks
<1>4. \A l \in DOMAIN n.int : /\ n.int[l].src \in R /\ n.int[l].dst \in R
                             /\ Linked(g, n.int[l].src, n.int[l].dst, n.int[l].weight)
  BY DEF OnAGrid, GridLinks
<1>5. n.routers \in Nat /\ g.cols <= n.routers /\ g.rows <= n.routers
  BY <1>1 DEF Grid
<1> DEFINE rank == [l \in 1 .. k |-> Rank(n.routers, g, n.int[l].src, n.int[l].dst)]
<1>6. rank \in [1 .. k -> Nat]
  BY <1>1, <1>3, <1>4, <1>5, RankIsNumber
<1>7. ASSUME NEW s \in R, NEW d \in R, NEW l, l \in RoutingTables(n)[<<s, d>>], n.int[l].dst # d,
             NEW m, m \in RoutingTables(n)[<<n.int[l].dst, d>>]
      PROVE  rank[m] < rank[l]
  <2>1. /\ l \in DOMAIN n.int /\ n.int[l].src = s /\ n.int[l].dst \in R
        /\ Toward(g, s, n.int[l].dst, n.int[l].weight, d)
    BY <1>7, RoutesGoToward
  <2>2. /\ m \in DOMAIN n.int /\ n.int[m].src = n.int[l].dst /\ n.int[m].dst \in R
        /\ Toward(g, n.int[l].dst, n.int[m].dst, n.int[m].weight, d)
    BY <1>7, <2>1, RoutesGoToward
  <2>3. Rank(n.routers, g, n.int[l].dst, n.int[m].dst) < Rank(n.routers, g, s, n.int[l].dst)
    BY <1>1, <1>5, <1>7, <2>1, <2>2, RankFalls
  <2> QED BY <1>3, <2>1, <2>2, <2>3
<1> HIDE DEF rank
<1>8. RankFallsOn(n, rank)
  BY <1>7 DEF RankFallsOn
<1> QED BY <1>2, <1>3, <1>4, <1>6, <1>8 DEF Sound
-----------------------------------------------------------------------------
(* Meshes.  Sequences that have the elements of a set, perhaps repeatedly. *)
Holds(s, S) == s \in Seq(S) /\ \A x \in S : \E i \in 1 .. Len(s) : s[i] = x

LEMMA HoldsLoop ==
  ASSUME NEW n \in Nat, NEW S, NEW s, s = [k \in 1 .. n |-> s[k]],
         \A k \in 1 .. n : s[k] \in S, \A x \in S : \E k \in 1 .. n : s[k] = x
  PROVE  Holds(s, S) /\ Len(s) = n
<1>1. s \in Seq(S)
  BY IsASeq
<1>2. Len(s) = n
  OBVIOUS
<1> QED BY <1>1, <1>2 DEF Holds

LEMMA HoldsConcat ==
  ASSUME NEW s, NEW S, NEW t, NEW T, Holds(s, S), Holds(t, T)
  PROVE  Holds(s \o t, S \cup T)
<1> DEFINE U == S \cup T
<1>1. s \in Seq(S) /\ t \in Seq(T)
  BY DEF Holds
<1>2. s \in Seq(U) /\ t \in Seq(U)
  BY <1>1, SeqMonotonic
<1>3. Len(s) \in Nat /\ Len(t) \in Nat
  BY <1>2, LenProperties
<1>4. /\ s \o t \in Seq(U) /\ Len(s \o t) = Len(s) + Len(t)
      /\ \A i \in 1 .. Len(s) + Len(t) : (s \o t)[i] = IF i <= Len(s) THEN s[i] ELSE t[i - Len(s)]
  BY <1>2, ConcatProperties
<1>5. ASSUME NEW x \in U PROVE \E i \in 1 .. Len(s \o t) : (s \o t)[i] = x
  <2>1. CASE x \in S
    <3>1. PICK i \in 1 .. Len(s) : s[i] = x
      BY <2>1 DEF Holds
    <3> QED BY <1>3, <1>4, <3>1
  <2>2. CASE x \in T
    <3>1. PICK i \in 1 .. Len(t) : t[i] = x
      BY <2>2 DEF Holds
    <3>2. i + Len(s) \in 1 .. Len(s) + Len(t) /\ ~(i + Len(s) <= Len(s)) /\ i + Len(s) - Len(s) = i
      BY <1>3
    <3> QED BY <1>4, <3>1, <3>2
  <2> QED BY <1>5, <2>1, <2>2
<1> QED BY <1>4, <1>5 DEF Holds

(* Two nested loops, of a and of b rounds. *)
LEMMA Loops ==
  ASSUME NEW a \in Nat, NEW b \in Nat
  PROVE  /\ a * b \in Nat
         /\ \A k \in 1 .. a * b : (k - 1) \div b \in 0 .. a - 1 /\ (k - 1) % b \in 0 .. b - 1
         /\ \A i \in 0 .. a - 1, j \in 0 .. b - 1 :
              \E k \in 1 .. a * b : (k - 1) \div b = i /\ (k - 1) % b = j
<1>1. a * b \in Nat
  OBVIOUS
<1>2. ASSUME NEW k \in 1 .. a * b PROVE (k - 1) \div b \in 0 .. a - 1 /\ (k - 1) % b \in 0 .. b - 1
  <2>1. b \in Nat \ {0} /\ k - 1 \in Nat
    <3>1. b = 0 => a * b = 0
      OBVIOUS
    <3> QED BY <1>1, <3>1
  <2>2. PICK q \in Nat, r \in 0 .. b - 1 : (k - 1) \div b = q /\ (k - 1) % b = r /\ k - 1 = b * q + r
    BY <2>1, Quotient
  <2>3. q < a
    <3> SUFFICES ASSUME q >= a PROVE FALSE
      BY <2>1
    <3>1. PICK c \in Nat : q = a + c
      <4>1. q - a \in Nat /\ q = a + (q - a)
        OBVIOUS
      <4> QED BY <4>1
    <3>2. b * q = a * b + b * c /\ b * c \in Nat
      BY <3>1
    <3> QED BY <1>1, <2>2, <3>2
  <2> QED BY <2>2, <2>3
<1>3. ASSUME NEW i \in 0 .. a - 1, NEW j \in 0 .. b - 1
      PROVE  \E k \in 1 .. a * b : (k - 1) \div b = i /\ (k - 1) % b = j
  <2>1. b \in Nat \ {0}
    OBVIOUS
  <2>2. (b * i + j) \div b = i /\ b * i + j \in Nat
    <3>1. b * i \in Nat /\ i \in Nat
      OBVIOUS
    <3> QED BY <2>1, <3>1, QuotientIs
  <2>3. (b * i + j) % b = j
    <3> DEFINE m == b * i + j
    <3>1. m \in Nat /\ m \div b = i
      BY <2>2
    <3>2. m = b * (m \div b) + (m % b) /\ m % b \in 0 .. b - 1
      <4> HIDE DEF m
      <4> QED BY <2>1, <3>1, Quotient
    <3>3. m = b * i + (m % b) /\ b * i \in Nat
      <4> HIDE DEF m
      <4> QED BY <3>1, <3>2
    <3>4. m = b * i + j
      OBVIOUS
    <3> HIDE DEF m
    <3>5. m % b = j
      BY <3>2, <3>3, <3>4
    <3> QED BY <3>5 DEF m
  <2>4. b * i + j + 1 <= a * b
    <3>1. PICK c \in Nat : a = i + 1 + c
      <4>1. a - i - 1 \in Nat /\ a = i + 1 + (a - i - 1)
        OBVIOUS
      <4> QED BY <4>1
    <3>2. a * b = b * i + b + c * b /\ c * b \in Nat /\ b * i \in Nat
      BY <3>1
    <3> QED BY <3>2
  <2>5. b * i + j + 1 \in 1 .. a * b /\ (b * i + j + 1) - 1 = b * i + j
    BY <2>2, <2>4
  <2> QED BY <2>2, <2>3, <2>5
<1> QED BY <1>1, <1>2, <1>3

(* The router at a place. *)
LEMMA RouterAt ==
  ASSUME NEW rows \in Nat \ {0}, NEW cols \in Nat \ {0}
  PROVE  /\ rows * cols \in Nat \ {0} /\ cols + rows - 1 <= rows * cols
         /\ \A a \in 0 .. rows - 1, b \in 0 .. cols - 1 :
              a * cols + b \in 0 .. rows * cols - 1 /\ (a * cols + b) % cols = b /\ (a * cols + b) \div cols = a
         /\ \A r \in 0 .. rows * cols - 1 :
              r % cols \in 0 .. cols - 1 /\ r \div cols \in 0 .. rows - 1 /\ (r \div cols) * cols + (r % cols) = r
<1>1. rows * cols \in Nat \ {0} /\ cols + rows - 1 <= rows * cols
  <2>1. PICK c \in Nat, d \in Nat : rows = c + 1 /\ cols = d + 1
    <3>1. rows - 1 \in Nat /\ cols - 1 \in Nat /\ rows = (rows - 1) + 1 /\ cols = (cols - 1) + 1
      OBVIOUS
    <3> QED BY <3>1
  <2>2. (c + 1) * (d + 1) = c * d + c + d + 1 /\ c * d \in Nat
    OBVIOUS
  <2> QED BY <2>1, <2>2
<1>2. ASSUME NEW a \in 0 .. rows - 1, NEW b \in 0 .. cols - 1
      PROVE  a * cols + b \in 0 .. rows * cols - 1 /\ (a * cols + b) % cols = b /\ (a * cols + b) \div cols = a
  <2>1. PICK k \in 1 .. rows * cols : (k - 1) \div cols = a /\ (k - 1) % cols = b
    <3>1. \A i \in 0 .. rows - 1, j \in 0 .. cols - 1 :
            \E k \in 1 .. rows * cols : (k - 1) \div cols = i /\ (k - 1) % cols = j
      BY Loops
    <3> QED BY <3>1
  <2>2. k - 1 \in Nat /\ k - 1 = cols * a + b
    <3>1. k - 1 \in Nat
      BY <1>1
    <3> QED BY <2>1, <3>1, Quotient
  <2>3. k - 1 = a * cols + b
    BY <2>2
  <2> QED BY <1>1, <2>1, <2>3
<1>3. ASSUME NEW r \in 0 .. rows * cols - 1
      PROVE  r % cols \in 0 .. cols - 1 /\ r \div cols \in 0 .. rows - 1 /\ (r \div cols) * cols + (r % cols) = r
  <2>1. r + 1 \in 1 .. rows * cols /\ (r + 1) - 1 = r /\ r \in Nat
    BY <1>1
  <2>2. r \div cols \in 0 .. rows - 1 /\ r % cols \in 0 .. cols - 1
    BY <2>1, Loops
  <2>3. r = cols * (r \div cols) + (r % cols)
    BY <2>1, Quotient
  <2>4. \A q \in 0 .. rows - 1 : cols * q = q * cols
    OBVIOUS
  <2> QED BY <2>2, <2>3, <2>4
<1> QED BY <1>1, <1>2, <1>3

(* The links of a mesh: from router, to router, weight. *)
WithEast(rows, cols)  == {r \in 0 .. rows * cols - 1 : r % cols < cols - 1}
WithNorth(rows, cols) == {r \in 0 .. rows * cols - 1 : r \div cols < rows - 1}
EastOf(rows, cols, w)  == {<<r, r + 1, w>> : r \in WithEast(rows, cols)}
WestOf(rows, cols, w)  == {<<r + 1, r, w>> : r \in WithEast(rows, cols)}
NorthOf(rows, cols, w) == {<<r, r + cols, w>> : r \in WithNorth(rows, cols)}
SouthOf(rows, cols, w) == {<<r + cols, r, w>> : r \in WithNorth(rows, cols)}
MeshJoins(rows, cols, w) ==
  EastOf(rows, cols, w.east) \cup WestOf(rows, cols, w.west)
    \cup NorthOf(rows, cols, w.north) \cup SouthOf(rows, cols, w.south)

LEMMA MeshPairsHold ==
  ASSUME NEW rows \in Nat \ {0}, NEW cols \in Nat \ {0}, NEW w
  PROVE  Holds(MeshPairs(rows, cols, w), MeshJoins(rows, cols, w))
<1> DEFINE a1 == rows * (cols - 1)
           r1(k) == ((k - 1) \div (cols - 1)) * cols + ((k - 1) % (cols - 1))
           e == [k \in 1 .. a1 |-> <<r1(k), r1(k) + 1, w.east>>]
           eb == [k \in 1 .. a1 |-> <<r1(k) + 1, r1(k), w.west>>]
           a2 == cols * (rows - 1)
           r2(k) == ((k - 1) % (rows - 1)) * cols + ((k - 1) \div (rows - 1))
           n == [k \in 1 .. a2 |-> <<r2(k), r2(k) + cols, w.north>>]
           nb == [k \in 1 .. a2 |-> <<r2(k) + cols, r2(k), w.south>>]
<1>1. MeshPairs(rows, cols, w) = e \o eb \o n \o nb
  <2>1. /\ DOMAIN e = 1 .. a1 /\ DOMAIN n = 1 .. a2
        /\ \A k \in 1 .. a1 : e[k][1] = r1(k) /\ e[k][2] = r1(k) + 1
        /\ \A k \in 1 .. a2 : n[k][1] = r2(k) /\ n[k][2] = r2(k) + cols
    <3> HIDE DEF r1, r2
    <3> QED OBVIOUS
  <2>2. eb = [k \in DOMAIN e |-> <<e[k][2], e[k][1], w.west>>] /\ nb = [k \in DOMAIN n |-> <<n[k][2], n[k][1], w.south>>]
    <3> HIDE DEF e, n, r1, r2
    <3> QED BY <2>1
  <2> QED BY <2>2 DEF MeshPairs
<1>2. /\ a1 \in Nat /\ a2 \in Nat
      /\ \A k \in 1 .. a1 : r1(k) \in WithEast(rows, cols)
      /\ \A r \in WithEast(rows, cols) : \E k \in 1 .. a1 : r1(k) = r
      /\ \A k \in 1 .. a2 : r2(k) \in WithNorth(rows, cols)
      /\ \A r \in WithNorth(rows, cols) : \E k \in 1 .. a2 : r2(k) = r
  <2>1. rows \in Nat /\ cols \in Nat /\ rows - 1 \in Nat /\ cols - 1 \in Nat /\ (cols - 1) - 1 = cols - 2 /\ (rows - 1) - 1 = rows - 2
    OBVIOUS
  <2>2. /\ a1 \in Nat
        /\ \A k \in 1 .. a1 : (k - 1) \div (cols - 1) \in 0 .. rows - 1 /\ (k - 1) % (cols - 1) \in 0 .. cols - 2
        /\ \A i \in 0 .. rows - 1, j \in 0 .. cols - 2 :
             \E k \in 1 .. a1 : (k - 1) \div (cols - 1) = i /\ (k - 1) % (cols - 1) = j
    <3> DEFINE c == cols - 1
    <3>1. /\ rows * c \in Nat
          /\ \A k \in 1 .. rows * c : (k - 1) \div c \in 0 .. rows - 1 /\ (k - 1) % c \in 0 .. c - 1
          /\ \A i \in 0 .. rows - 1, j \in 0 .. c - 1 :
               \E k \in 1 .. rows * c : (k - 1) \div c = i /\ (k - 1) % c = j
      <4>1. c \in Nat
        BY <2>1
      <4> HIDE DEF c
      <4> QED BY <2>1, <4>1, Loops
    <3>2. c - 1 = cols - 2
      BY <2>1
    <3> QED BY <3>1, <3>2
  <2>3. /\ a2 \in Nat
        /\ \A k \in 1 .. a2 : (k - 1) \div (rows - 1) \in 0 .. cols - 1 /\ (k - 1) % (rows - 1) \in 0 .. rows - 2
        /\ \A i \in 0 .. cols - 1, j \in 0 .. rows - 2 :
             \E k \in 1 .. a2 : (k - 1) \div (rows - 1) = i /\ (k - 1) % (rows - 1) = j
    <3> DEFINE c == rows - 1
    <3>1. /\ cols * c \in Nat
          /\ \A k \in 1 .. cols * c : (k - 1) \div c \in 0 .. cols - 1 /\ (k - 1) % c \in 0 .. c - 1
          /\ \A i \in 0 .. cols - 1, j \in 0 .. c - 1 :
               \E k \in 1 .. cols * c : (k - 1) \div c = i /\ (k - 1) % c = j
      <4>1. c \in Nat
        BY <2>1
      <4> HIDE DEF c
      <4> QED BY <2>1, <4>1, Loops
    <3>2. c - 1 = rows - 2
      BY <2>1
    <3> QED BY <3>1, <3>2
  <2> HIDE DEF a1, a2
  <2>4. ASSUME NEW k \in 1 .. a1 PROVE r1(k) \in WithEast(rows, cols)
    <3>1. PICK i \in 0 .. rows - 1, j \in 0 .. cols - 2 : (k - 1) \div (cols - 1) = i /\ (k - 1) % (cols - 1) = j
      BY <2>2
    <3>2. r1(k) = i * cols + j /\ j \in 0 .. cols - 1
      BY <3>1
    <3>3. i * cols + j \in 0 .. rows * cols - 1 /\ (i * cols + j) % cols = j
      <4>1. \A a \in 0 .. rows - 1, b \in 0 .. cols - 1 :
              a * cols + b \in 0 .. rows * cols - 1 /\ (a * cols + b) % cols = b /\ (a * cols + b) \div cols = a
        BY RouterAt
      <4> QED BY <3>2, <4>1
    <3> HIDE DEF r1
    <3> QED BY <3>2, <3>3 DEF WithEast
  <2>5. ASSUME NEW r \in WithEast(rows, cols) PROVE \E k \in 1 .. a1 : r1(k) = r
    <3>1. r \in 0 .. rows * cols - 1 /\ r % cols < cols - 1
      BY DEF WithEast
    <3>2. r % cols \in 0 .. cols - 2 /\ r \div cols \in 0 .. rows - 1 /\ (r \div cols) * cols + (r % cols) = r
      <4>1. r % cols \in 0 .. cols - 1 /\ r \div cols \in 0 .. rows - 1 /\ (r \div cols) * cols + (r % cols) = r
        BY <3>1, RouterAt
      <4> QED BY <3>1, <4>1
    <3>3. PICK k \in 1 .. a1 : (k - 1) \div (cols - 1) = r \div cols /\ (k - 1) % (cols - 1) = r % cols
      BY <2>2, <3>2
    <3> QED BY <3>2, <3>3
  <2>6. ASSUME NEW k \in 1 .. a2 PROVE r2(k) \in WithNorth(rows, cols)
    <3>1. PICK i \in 0 .. cols - 1, j \in 0 .. rows - 2 : (k - 1) \div (rows - 1) = i /\ (k - 1) % (rows - 1) = j
      BY <2>3
    <3>2. r2(k) = j * cols + i /\ j \in 0 .. rows - 1
      BY <3>1
    <3>3. j * cols + i \in 0 .. rows * cols - 1 /\ (j * cols + i) \div cols = j
      <4>1. \A a \in 0 .. rows - 1, b \in 0 .. cols - 1 :
              a * cols + b \in 0 .. rows * cols - 1 /\ (a * cols + b) % cols = b /\ (a * cols + b) \div cols = a
        BY RouterAt
      <4> QED BY <3>2, <4>1
    <3> HIDE DEF r2
    <3> QED BY <3>2, <3>3 DEF WithNorth
  <2>7. ASSUME NEW r \in WithNorth(rows, cols) PROVE \E k \in 1 .. a2 : r2(k) = r
    <3>1. r \in 0 .. rows * cols - 1 /\ r \div cols < rows - 1
      BY DEF WithNorth
    <3>2. r % cols \in 0 .. cols - 1 /\ r \div cols \in 0 .. rows - 2 /\ (r \div cols) * cols + (r % cols) = r
      <4>1. r % cols \in 0 .. cols - 1 /\ r \div cols \in 0 .. rows - 1 /\ (r \div cols) * cols + (r % cols) = r
        BY <3>1, RouterAt
      <4> QED BY <3>1, <4>1
    <3>3. PICK k \in 1 .. a2 : (k - 1) \div (rows - 1) = r % cols /\ (k - 1) % (rows - 1) = r \div cols
      BY <2>3, <3>2
    <3> QED BY <3>2, <3>3
  <2> HIDE DEF r1, r2
  <2> QED BY <2>2, <2>3, <2>4, <2>5, <2>6, <2>7
<1> HIDE DEF a1, a2, r1, r2
<1>3. Holds(e, EastOf(rows, cols, w.east))
  <2>1. \A k \in 1 .. a1 : e[k] \in EastOf(rows, cols, w.east)
    BY <1>2 DEF EastOf
  <2>2. \A x \in EastOf(rows, cols, w.east) : \E k \in 1 .. a1 : e[k] = x
    BY <1>2 DEF EastOf
  <2>3. e = [k \in 1 .. a1 |-> e[k]]
    OBVIOUS
  <2> HIDE DEF e
  <2> QED BY <1>2, <2>1, <2>2, <2>3, HoldsLoop
<1>4. Holds(eb, WestOf(rows, cols, w.west))
  <2>1. \A k \in 1 .. a1 : eb[k] \in WestOf(rows, cols, w.west)
    BY <1>2 DEF WestOf
  <2>2. \A x \in WestOf(rows, cols, w.west) : \E k \in 1 .. a1 : eb[k] = x
    BY <1>2 DEF WestOf
  <2>3. eb = [k \in 1 .. a1 |-> eb[k]]
    OBVIOUS
  <2> HIDE DEF eb
  <2> QED BY <1>2, <2>1, <2>2, <2>3, HoldsLoop
<1>5. Holds(n, NorthOf(rows, cols, w.north))
  <2>1. \A k \in 1 .. a2 : n[k] \in NorthOf(rows, cols, w.north)
    BY <1>2 DEF NorthOf
  <2>2. \A x \in NorthOf(rows, cols, w.north) : \E k \in 1 .. a2 : n[k] = x
    BY <1>2 DEF NorthOf
  <2>3. n = [k \in 1 .. a2 |-> n[k]]
    OBVIOUS
  <2> HIDE DEF n
  <2> QED BY <1>2, <2>1, <2>2, <2>3, HoldsLoop
<1>6. Holds(nb, SouthOf(rows, cols, w.south))
  <2>1. \A k \in 1 .. a2 : nb[k] \in SouthOf(rows, cols, w.south)
    BY <1>2 DEF SouthOf
  <2>2. \A x \in SouthOf(rows, cols, w.south) : \E k \in 1 .. a2 : nb[k] = x
    BY <1>2 DEF SouthOf
  <2>3. nb = [k \in 1 .. a2 |-> nb[k]]
    OBVIOUS
  <2> HIDE DEF nb
  <2> QED BY <1>2, <2>1, <2>2, <2>3, HoldsLoop
<1> HIDE DEF e, eb, n, nb
<1>7. Holds(e \o eb, EastOf(rows, cols, w.east) \cup WestOf(rows, cols, w.west))
  BY <1>3, <1>4, HoldsConcat
<1>8. Holds(e \o eb \o n, EastOf(rows, cols, w.east) \cup WestOf(rows, cols, w.west) \cup NorthOf(rows, cols, w.north))
  BY <1>5, <1>7, HoldsConcat
<1>9. Holds(e \o eb \o n \o nb, MeshJoins(rows, cols, w))
  BY <1>6, <1>8, HoldsConcat DEF MeshJoins
<1> QED BY <1>1, <1>9

(* Neighbours in a mesh. *)
LEMMA Neighbours ==
  ASSUME NEW rows \in Nat \ {0}, NEW cols \in Nat \ {0}
  PROVE  /\ \A r \in WithEast(rows, cols) :
              /\ r \in 0 .. rows * cols - 1 /\ r + 1 \in 0 .. rows * cols - 1
              /\ (r + 1) % cols = (r % cols) + 1 /\ (r + 1) \div cols = r \div cols
         /\ \A r \in WithNorth(rows, cols) :
              /\ r \in 0 .. rows * cols - 1 /\ r + cols \in 0 .. rows * cols - 1
              /\ (r + cols) % cols = r % cols /\ (r + cols) \div cols = (r \div cols) + 1
         /\ \A s, t \in 0 .. rows * cols - 1 :
              /\ s \div cols = t \div cols /\ t % cols = (s % cols) + 1 => s \in WithEast(rows, cols) /\ t = s + 1
              /\ s % cols = t % cols /\ t \div cols = (s \div cols) + 1 => s \in WithNorth(rows, cols) /\ t = s + cols
<1>1. /\ \A a \in 0 .. rows - 1, b \in 0 .. cols - 1 :
           a * cols + b \in 0 .. rows * cols - 1 /\ (a * cols + b) % cols = b /\ (a * cols + b) \div cols = a
      /\ \A r \in 0 .. rows * cols - 1 :
           r % cols \in 0 .. cols - 1 /\ r \div cols \in 0 .. rows - 1 /\ (r \div cols) * cols + (r % cols) = r
  BY RouterAt
<1>2. ASSUME NEW r \in WithEast(rows, cols)
      PROVE  /\ r \in 0 .. rows * cols - 1 /\ r + 1 \in 0 .. rows * cols - 1
             /\ (r + 1) % cols = (r % cols) + 1 /\ (r + 1) \div cols = r \div cols
  <2> DEFINE a == r \div cols
             b == r % cols
  <2>1. r \in 0 .. rows * cols - 1 /\ b < cols - 1
    BY DEF WithEast
  <2>2. a \in 0 .. rows - 1 /\ b \in 0 .. cols - 1 /\ a * cols + b = r
    BY <1>1, <2>1
  <2> HIDE DEF a, b
  <2>3. b + 1 \in 0 .. cols - 1 /\ a * cols + (b + 1) = r + 1
    BY <2>1, <2>2
  <2>4. r + 1 \in 0 .. rows * cols - 1 /\ (r + 1) % cols = b + 1 /\ (r + 1) \div cols = a
    <3>1. a * cols + (b + 1) \in 0 .. rows * cols - 1 /\ (a * cols + (b + 1)) % cols = b + 1 /\ (a * cols + (b + 1)) \div cols = a
      BY <1>1, <2>2, <2>3
    <3> QED BY <2>3, <3>1
  <2> QED BY <2>1, <2>4 DEF a, b
<1>3. ASSUME NEW r \in WithNorth(rows, cols)
      PROVE  /\ r \in 0 .. rows * cols - 1 /\ r + cols \in 0 .. rows * cols - 1
             /\ (r + cols) % cols = r % cols /\ (r + cols) \div cols = (r \div cols) + 1
  <2> DEFINE a == r \div cols
             b == r % cols
  <2>1. r \in 0 .. rows * cols - 1 /\ a < rows - 1
    BY DEF WithNorth
  <2>2. a \in 0 .. rows - 1 /\ b \in 0 .. cols - 1 /\ a * cols + b = r
    BY <1>1, <2>1
  <2> HIDE DEF a, b
  <2>3. a + 1 \in 0 .. rows - 1 /\ (a + 1) * cols + b = r + cols
    BY <2>1, <2>2
  <2>4. r + cols \in 0 .. rows * cols - 1 /\ (r + cols) % cols = b /\ (r + cols) \div cols = a + 1
    <3>1. (a + 1) * cols + b \in 0 .. rows * cols - 1 /\ ((a + 1) * cols + b) % cols = b /\ ((a + 1) * cols + b) \div cols = a + 1
      BY <1>1, <2>2, <2>3
    <3> QED BY <2>3, <3>1
  <2> QED BY <2>1, <2>4 DEF a, b
<1>4. ASSUME NEW s \in 0 .. rows * cols - 1, NEW t \in 0 .. rows * cols - 1,
             s \div cols = t \div cols, t % cols = (s % cols) + 1
      PROVE  s \in WithEast(rows, cols) /\ t = s + 1
  <2> DEFINE a == s \div cols
             b == s % cols
  <2>1. a \in 0 .. rows - 1 /\ b \in 0 .. cols - 1 /\ a * cols + b = s /\ b + 1 \in 0 .. cols - 1 /\ a * cols + (b + 1) = t
    <3>1. a \in 0 .. rows - 1 /\ b \in 0 .. cols - 1 /\ a * cols + b = s
      BY <1>1
    <3>2. t % cols \in 0 .. cols - 1 /\ (t \div cols) * cols + (t % cols) = t
      BY <1>1
    <3> QED BY <1>4, <3>1, <3>2
  <2> HIDE DEF a
  <2>2. b < cols - 1
    BY <2>1
  <2>3. t = s + 1
    <3> HIDE DEF b
    <3> QED BY <2>1
  <2> QED BY <2>2, <2>3 DEF WithEast
<1>5. ASSUME NEW s \in 0 .. rows * cols - 1, NEW t \in 0 .. rows * cols - 1,
             s % cols = t % cols, t \div cols = (s \div cols) + 1
      PROVE  s \in WithNorth(rows, cols) /\ t = s + cols
  <2> DEFINE a == s \div cols
             b == s % cols
  <2>1. a \in 0 .. rows - 1 /\ b \in 0 .. cols - 1 /\ a * cols + b = s /\ a + 1 \in 0 .. rows - 1 /\ (a + 1) * cols + b = t
    <3>1. a \in 0 .. rows - 1 /\ b \in 0 .. cols - 1 /\ a * cols + b = s
      BY <1>1
    <3>2. t \div cols \in 0 .. rows - 1 /\ (t \div cols) * cols + (t % cols) = t
      BY <1>1
    <3> QED BY <1>5, <3>1, <3>2
  <2> HIDE DEF b
  <2>2. a < rows - 1
    BY <2>1
  <2>3. t = s + cols
    <3> HIDE DEF a
    <3> QED BY <2>1
  <2> QED BY <2>2, <2>3 DEF WithNorth
<1> QED BY <1>2, <1>3, <1>4, <1>5

(* A mesh, and routers that each hang on one of its routers. *)
Joins(n) == {<<n.int[l].src, n.int[l].dst, n.int[l].weight>> : l \in DOMAIN n.int}
Leaves(hub) == {r \in DOMAIN hub : hub[r] # r}
LeafJoins(hub) == {<<r, hub[r], 1>> : r \in Leaves(hub)} \cup {<<hub[r], r, 1>> : r \in Leaves(hub)}

MeshGrid(rows, cols, east, hub) ==
  [cols |-> cols, rows |-> rows, east |-> east, hub |-> hub,
   x  |-> [r \in DOMAIN hub |-> hub[r] % cols],
   y  |-> [r \in DOMAIN hub |-> hub[r] \div cols],
   at |-> [p \in (0 .. cols - 1) \X (0 .. rows - 1) |-> p[2] * cols + p[1]]]

OnMesh(n, rows, cols, hub) ==
  /\ rows \in Nat \ {0} /\ cols \in Nat \ {0} /\ n.routers \in Nat /\ rows * cols <= n.routers
  /\ hub \in [Routers(n) -> 0 .. rows * cols - 1] /\ \A r \in 0 .. rows * cols - 1 : hub[r] = r

LEMMA MeshIsGrid ==
  ASSUME NEW n, NEW rows, NEW cols, NEW hub, OnMesh(n, rows, cols, hub), NEW east \in {1, 2}
  PROVE  Grid(n, MeshGrid(rows, cols, east, hub))
<1> DEFINE g == MeshGrid(rows, cols, east, hub)
           R == Routers(n)
<1>1. /\ rows \in Nat \ {0} /\ cols \in Nat \ {0} /\ n.routers \in Nat /\ rows * cols <= n.routers
      /\ hub \in [R -> 0 .. rows * cols - 1] /\ \A r \in 0 .. rows * cols - 1 : hub[r] = r
  BY DEF OnMesh
<1>2. /\ rows * cols \in Nat \ {0} /\ cols + rows - 1 <= rows * cols
      /\ \A a \in 0 .. rows - 1, b \in 0 .. cols - 1 :
           a * cols + b \in 0 .. rows * cols - 1 /\ (a * cols + b) % cols = b /\ (a * cols + b) \div cols = a
      /\ \A r \in 0 .. rows * cols - 1 :
           r % cols \in 0 .. cols - 1 /\ r \div cols \in 0 .. rows - 1 /\ (r \div cols) * cols + (r % cols) = r
  BY <1>1, RouterAt
<1>3. cols + rows - 1 <= n.routers /\ \A r \in 0 .. rows * cols - 1 : r \in R
  <2> DEFINE m == rows * cols
  <2>1. m \in Nat /\ m <= n.routers /\ n.routers \in Nat /\ cols + rows - 1 <= m /\ cols \in Nat /\ rows \in Nat
    BY <1>1, <1>2
  <2> HIDE DEF m
  <2>2. cols + rows - 1 <= n.routers /\ \A r \in 0 .. m - 1 : r \in R
    BY <2>1 DEF Routers
  <2> QED BY <2>2 DEF m
<1>4. /\ g.cols = cols /\ g.rows = rows /\ g.east = east /\ g.hub = hub
      /\ \A r \in R : g.x[r] = hub[r] % cols /\ g.y[r] = hub[r] \div cols
      /\ \A x \in 0 .. cols - 1, y \in 0 .. rows - 1 : g.at[<<x, y>>] = y * cols + x
  BY <1>1 DEF MeshGrid
<1> HIDE DEF g
<1>5. ASSUME NEW r \in R
      PROVE  /\ g.hub[r] \in R /\ g.hub[g.hub[r]] = g.hub[r]
             /\ g.x[r] \in 0 .. g.cols - 1 /\ g.x[g.hub[r]] = g.x[r]
             /\ g.y[r] \in 0 .. g.rows - 1 /\ g.y[g.hub[r]] = g.y[r]
             /\ g.hub[r] = r => g.at[<<g.x[r], g.y[r]>>] = r
  <2>1. hub[r] \in 0 .. rows * cols - 1 /\ hub[r] \in R /\ hub[hub[r]] = hub[r]
    BY <1>1, <1>3
  <2>2. g.x[r] \in 0 .. cols - 1 /\ g.y[r] \in 0 .. rows - 1 /\ g.x[hub[r]] = g.x[r] /\ g.y[hub[r]] = g.y[r]
    BY <1>2, <1>4, <2>1
  <2>3. g.at[<<g.x[r], g.y[r]>>] = hub[r]
    <3>1. g.at[<<g.x[r], g.y[r]>>] = g.y[r] * cols + g.x[r]
      BY <1>4, <2>2
    <3>2. g.y[r] = hub[r] \div cols /\ g.x[r] = hub[r] % cols
      BY <1>4
    <3> QED BY <1>2, <2>1, <3>1, <3>2
  <2> QED BY <1>4, <2>1, <2>2, <2>3
<1>6. ASSUME NEW x \in 0 .. g.cols - 1, NEW y \in 0 .. g.rows - 1
      PROVE  LET r == g.at[<<x, y>>] IN r \in R /\ g.hub[r] = r /\ g.x[r] = x /\ g.y[r] = y
  <2> DEFINE r == y * cols + x
  <2>1. x \in 0 .. cols - 1 /\ y \in 0 .. rows - 1
    BY <1>4
  <2>2. g.at[<<x, y>>] = r /\ r \in 0 .. rows * cols - 1 /\ r % cols = x /\ r \div cols = y
    BY <1>2, <1>4, <2>1
  <2> HIDE DEF r
  <2>3. r \in R /\ hub[r] = r
    BY <1>1, <1>3, <2>2
  <2>4. g.x[r] = x /\ g.y[r] = y
    BY <1>4, <2>2, <2>3
  <2> QED BY <1>4, <2>2, <2>3, <2>4
<1>7. g.cols + g.rows - 1 <= n.routers /\ g.east \in {1, 2} /\ n.routers \in Nat /\ g.cols \in Nat \ {0} /\ g.rows \in Nat \ {0}
  BY <1>1, <1>3, <1>4
<1>8. Grid(n, g)
  BY <1>5, <1>6, <1>7 DEF Grid
<1> QED BY <1>8 DEF g

LEMMA MeshIsLinked ==
  ASSUME NEW n, NEW rows, NEW cols, NEW hub, OnMesh(n, rows, cols, hub), NEW east \in {1, 2},
         NEW s \in Routers(n), NEW t \in Routers(n), NEW w
  PROVE  <<s, t, w>> \in MeshJoins(rows, cols, Weights(east, 1, 2, 2)) \cup LeafJoins(hub)
           <=> Linked(MeshGrid(rows, cols, east, hub), s, t, w)
<1> DEFINE g == MeshGrid(rows, cols, east, hub)
           R == Routers(n)
           m == rows * cols
<1>1. /\ rows \in Nat \ {0} /\ cols \in Nat \ {0}
      /\ hub \in [R -> 0 .. m - 1] /\ \A r \in 0 .. m - 1 : hub[r] = r
  BY DEF OnMesh
<1>2. /\ g.east = east /\ g.hub = hub
      /\ \A r \in R : g.x[r] = hub[r] % cols /\ g.y[r] = hub[r] \div cols
  BY <1>1 DEF MeshGrid
<1>3. \A r \in R : hub[r] = r <=> r \in 0 .. m - 1
  BY <1>1
<1>4. /\ \A r \in WithEast(rows, cols) :
           /\ r \in 0 .. m - 1 /\ r + 1 \in 0 .. m - 1
           /\ (r + 1) % cols = (r % cols) + 1 /\ (r + 1) \div cols = r \div cols
      /\ \A r \in WithNorth(rows, cols) :
           /\ r \in 0 .. m - 1 /\ r + cols \in 0 .. m - 1
           /\ (r + cols) % cols = r % cols /\ (r + cols) \div cols = (r \div cols) + 1
      /\ \A a, b \in 0 .. m - 1 :
           /\ a \div cols = b \div cols /\ b % cols = (a % cols) + 1 => a \in WithEast(rows, cols) /\ b = a + 1
           /\ a % cols = b % cols /\ b \div cols = (a \div cols) + 1 => a \in WithNorth(rows, cols) /\ b = a + cols
  BY <1>1, Neighbours
<1> HIDE DEF g, m
<1>5. <<s, t, w>> \in EastOf(rows, cols, east) <=> East(g, s, t, w)
  <2>1. <<s, t, w>> \in EastOf(rows, cols, east) <=> s \in WithEast(rows, cols) /\ t = s + 1 /\ w = east
    BY DEF EastOf
  <2>2. East(g, s, t, w) <=> /\ s \in 0 .. m - 1 /\ t \in 0 .. m - 1 /\ w = east
                             /\ s \div cols = t \div cols /\ t % cols = (s % cols) + 1
    BY <1>2, <1>3 DEF East, OnGrid
  <2> QED BY <1>4, <2>1, <2>2
<1>6. <<s, t, w>> \in WestOf(rows, cols, 1) <=> West(g, s, t, w)
  <2>1. <<s, t, w>> \in WestOf(rows, cols, 1) <=> t \in WithEast(rows, cols) /\ s = t + 1 /\ w = 1
    BY DEF WestOf
  <2>2. West(g, s, t, w) <=> /\ s \in 0 .. m - 1 /\ t \in 0 .. m - 1 /\ w = 1
                             /\ t \div cols = s \div cols /\ s % cols = (t % cols) + 1
    BY <1>2, <1>3 DEF West, OnGrid
  <2> QED BY <1>4, <2>1, <2>2
<1>7. <<s, t, w>> \in NorthOf(rows, cols, 2) <=> North(g, s, t, w)
  <2>1. <<s, t, w>> \in NorthOf(rows, cols, 2) <=> s \in WithNorth(rows, cols) /\ t = s + cols /\ w = 2
    BY DEF NorthOf
  <2>2. North(g, s, t, w) <=> /\ s \in 0 .. m - 1 /\ t \in 0 .. m - 1 /\ w = 2
                              /\ s % cols = t % cols /\ t \div cols = (s \div cols) + 1
    BY <1>2, <1>3 DEF North, OnGrid
  <2> QED BY <1>4, <2>1, <2>2
<1>8. <<s, t, w>> \in SouthOf(rows, cols, 2) <=> South(g, s, t, w)
  <2>1. <<s, t, w>> \in SouthOf(rows, cols, 2) <=> t \in WithNorth(rows, cols) /\ s = t + cols /\ w = 2
    BY DEF SouthOf
  <2>2. South(g, s, t, w) <=> /\ s \in 0 .. m - 1 /\ t \in 0 .. m - 1 /\ w = 2
                              /\ t % cols = s % cols /\ s \div cols = (t \div cols) + 1
    BY <1>2, <1>3 DEF South, OnGrid
  <2> QED BY <1>4, <2>1, <2>2
<1>9. <<s, t, w>> \in LeafJoins(hub) <=> Up(g, s, t, w) \/ Down(g, s, t, w)
  <2>1. DOMAIN hub = R
    BY <1>1
  <2> QED BY <1>2, <2>1 DEF LeafJoins, Leaves, Up, Down
<1>10. MeshJoins(rows, cols, Weights(east, 1, 2, 2))
         = EastOf(rows, cols, east) \cup WestOf(rows, cols, 1) \cup NorthOf(rows, cols, 2) \cup SouthOf(rows, cols, 2)
  BY DEF MeshJoins, Weights
<1>11. <<s, t, w>> \in MeshJoins(rows, cols, Weights(east, 1, 2, 2)) \cup LeafJoins(hub) <=> Linked(g, s, t, w)
  BY <1>5, <1>6, <1>7, <1>8, <1>9, <1>10 DEF Linked
<1> QED BY <1>11 DEF g

(* Internal links between routers; numbered in their order. *)
IntEnds(n) ==
  \E k \in Nat : /\ DOMAIN n.int = 1 .. k
                /\ \A l \in 1 .. k : n.int[l].src \in Routers(n) /\ n.int[l].dst \in Routers(n)
IntIds(n, first) ==
  \E k \in Nat :
    /\ DOMAIN n.int = 1 .. k
    /\ \A l \in 1 .. k : /\ n.int[l].src \in Routers(n) /\ n.int[l].dst \in Routers(n)
                         /\ n.int[l].id = first + l - 1

LEMMA MeshIsSound ==
  ASSUME NEW n, NEW rows, NEW cols, NEW hub, OnMesh(n, rows, cols, hub), NEW east \in {1, 2},
         IntEnds(n), Joins(n) = MeshJoins(rows, cols, Weights(east, 1, 2, 2)) \cup LeafJoins(hub)
  PROVE  Sound(n)
<1> DEFINE g == MeshGrid(rows, cols, east, hub)
           J == MeshJoins(rows, cols, Weights(east, 1, 2, 2)) \cup LeafJoins(hub)
<1>1. Grid(n, g)
  BY MeshIsGrid
<1>2. \A s, t \in Routers(n) : \A w : <<s, t, w>> \in J <=> Linked(g, s, t, w)
  BY MeshIsLinked
<1> HIDE DEF g, J
<1>3. PICK k \in Nat : /\ DOMAIN n.int = 1 .. k
                      /\ \A l \in 1 .. k : n.int[l].src \in Routers(n) /\ n.int[l].dst \in Routers(n)
  BY DEF IntEnds
<1>4. Joins(n) = J
  BY DEF J
<1>5. \A l \in 1 .. k : <<n.int[l].src, n.int[l].dst, n.int[l].weight>> \in J
  BY <1>4, <1>3 DEF Joins
<1>6. ASSUME NEW s \in Routers(n), NEW t \in Routers(n), NEW w \in {1, 2}, Linked(g, s, t, w)
      PROVE  \E l \in DOMAIN n.int : n.int[l].src = s /\ n.int[l].dst = t /\ n.int[l].weight = w
  <2>1. <<s, t, w>> \in Joins(n)
    BY <1>2, <1>4, <1>6
  <2> QED BY <2>1 DEF Joins
<1>7. GridLinks(n, g)
  BY <1>2, <1>5, <1>6, <1>3 DEF GridLinks
<1> QED BY <1>1, <1>7, GridIsSound DEF OnAGrid

Triples(S, R) == \A p \in S : p = <<p[1], p[2], p[3]>> /\ p[1] \in R /\ p[2] \in R

LEMMA IntLinksJoin ==
  ASSUME NEW n, NEW first, NEW pairs, NEW S, Holds(pairs, S), n.int = IntLinks(first, pairs),
         Triples(S, Routers(n))
  PROVE  IntIds(n, first) /\ Joins(n) = S
<1>1. Len(pairs) \in Nat /\ DOMAIN pairs = 1 .. Len(pairs)
  BY LenProperties DEF Holds
<1>2. /\ DOMAIN n.int = 1 .. Len(pairs)
      /\ \A l \in 1 .. Len(pairs) : /\ n.int[l].src = pairs[l][1] /\ n.int[l].dst = pairs[l][2] /\ n.int[l].weight = pairs[l][3]
                                    /\ n.int[l].id = first + l - 1
  BY <1>1 DEF IntLinks
<1>3. \A l \in 1 .. Len(pairs) : pairs[l] \in S
  BY ElementOfSeq DEF Holds
<1>4. \A l \in 1 .. Len(pairs) : <<n.int[l].src, n.int[l].dst, n.int[l].weight>> = pairs[l]
  BY <1>2, <1>3 DEF Triples
<1>5. Joins(n) = {pairs[l] : l \in 1 .. Len(pairs)}
  <2>1. Joins(n) = {<<n.int[l].src, n.int[l].dst, n.int[l].weight>> : l \in 1 .. Len(pairs)}
    BY <1>2 DEF Joins
  <2>2. ASSUME NEW x \in Joins(n) PROVE x \in {pairs[l] : l \in 1 .. Len(pairs)}
    <3>1. PICK l \in 1 .. Len(pairs) : x = <<n.int[l].src, n.int[l].dst, n.int[l].weight>>
      BY <2>1
    <3>2. x = pairs[l]
      BY <1>4, <3>1
    <3> QED BY <3>2
  <2>3. ASSUME NEW l \in 1 .. Len(pairs) PROVE pairs[l] \in Joins(n)
    <3>1. <<n.int[l].src, n.int[l].dst, n.int[l].weight>> \in Joins(n)
      BY <2>1
    <3> QED BY <1>4, <3>1
  <2> QED BY <2>2, <2>3
<1>6. {pairs[l] : l \in 1 .. Len(pairs)} = S
  BY <1>3 DEF Holds
<1>7. IntIds(n, first)
  BY <1>1, <1>2, <1>3 DEF Triples, IntIds
<1> QED BY <1>5, <1>6, <1>7
-----------------------------------------------------------------------------
(* The topologies.  A network is well made for the controllers S if it is  *)
(* sound, has a link for each of them, and has unique numbers for its      *)
(* links: for the external ones in E, and together for all if `apart`.     *)
Attached(n, S) ==
  /\ \E len \in Nat : DOMAIN n.ext = 1 .. len
  /\ \A k \in DOMAIN n.ext : n.ext[k].router \in Routers(n)
  /\ \A x \in S : \E k \in DOMAIN n.ext : n.ext[k].node = x
  /\ \A j, k \in DOMAIN n.ext : n.ext[j].node = n.ext[k].node => j = k
  /\ \A k \in DOMAIN n.ext : n.ext[k].node \in S

IdsUnique(n, E, apart) ==
  /\ \A j, k \in E : n.ext[j].id = n.ext[k].id => j = k
  /\ \A j, k \in DOMAIN n.int : n.int[j].id = n.int[k].id => j = k
  /\ apart => \A j \in E, k \in DOMAIN n.int : n.ext[j].id # n.int[k].id

WellMade(n, S, E, apart) == Sound(n) /\ Attached(n, S) /\ IdsUnique(n, E, apart)

(* The first `len` elements of s on the routers that f has for them. *)
Spots(s, f, len) == [k \in 1 .. len |-> <<s[k], f[k]>>]

LEMMA ExtLinksAre ==
  ASSUME NEW first, NEW s, NEW len \in Nat, NEW f, NEW ext, ext = ExtLinks(first, Spots(s, f, len))
  PROVE  /\ DOMAIN ext = 1 .. len
         /\ \A k \in 1 .. len : ext[k].id = first + k - 1 /\ ext[k].node = s[k] /\ ext[k].router = f[k]
<1>1. /\ DOMAIN Spots(s, f, len) = 1 .. len
      /\ \A k \in 1 .. len : Spots(s, f, len)[k][1] = s[k] /\ Spots(s, f, len)[k][2] = f[k]
  BY DEF Spots
<1> QED BY <1>1 DEF ExtLinks

ExtIds(n, len) == DOMAIN n.ext = 1 .. len /\ \A k \in 1 .. len : n.ext[k].id = k - 1

LEMMA AttachedList ==
  ASSUME NEW n, NEW s, NEW S, Lists(s, S), DOMAIN n.ext = 1 .. Len(s),
         \A k \in 1 .. Len(s) : n.ext[k].node = s[k] /\ n.ext[k].router \in Routers(n)
  PROVE  Attached(n, S)
<1>1. Len(s) \in Nat /\ \A k \in 1 .. Len(s) : s[k] \in S
  BY LenProperties, ElementOfSeq DEF Lists
<1>2. (\A x \in S : \E k \in 1 .. Len(s) : s[k] = x) /\ \A j, k \in 1 .. Len(s) : s[j] = s[k] => j = k
  BY DEF Lists
<1>3. \A k \in DOMAIN n.ext : n.ext[k].router \in Routers(n) /\ n.ext[k].node \in S
  BY <1>1
<1>4. \A x \in S : \E k \in DOMAIN n.ext : n.ext[k].node = x
  BY <1>2
<1>5. \A j, k \in DOMAIN n.ext : n.ext[j].node = n.ext[k].node => j = k
  BY <1>2
<1> QED BY <1>1, <1>3, <1>4, <1>5 DEF Attached

LEMMA AttachedInOrder ==
  ASSUME NEW n, NEW s, NEW S, Lists(s, S), NEW f, \A k \in 1 .. Len(s) : f[k] \in Routers(n),
         n.ext = ExtLinks(0, Spots(s, f, Len(s)))
  PROVE  Attached(n, S) /\ ExtIds(n, Len(s))
<1>1. Len(s) \in Nat
  BY LenProperties DEF Lists
<1>2. /\ DOMAIN n.ext = 1 .. Len(s)
      /\ \A k \in 1 .. Len(s) : n.ext[k].id = 0 + k - 1 /\ n.ext[k].node = s[k] /\ n.ext[k].router = f[k]
  BY <1>1, ExtLinksAre
<1>3. Attached(n, S)
  BY <1>2, AttachedList
<1>4. ExtIds(n, Len(s))
  BY <1>1, <1>2 DEF ExtIds
<1> QED BY <1>3, <1>4

LEMMA IdsInOrder ==
  ASSUME NEW n, NEW e \in Nat, NEW first \in Nat, first >= e, ExtIds(n, e), IntIds(n, first)
  PROVE  IdsUnique(n, DOMAIN n.ext, TRUE)
<1>1. DOMAIN n.ext = 1 .. e /\ \A k \in 1 .. e : n.ext[k].id = k - 1
  BY DEF ExtIds
<1>2. PICK i \in Nat : DOMAIN n.int = 1 .. i /\ \A k \in 1 .. i : n.int[k].id = first + k - 1
  BY DEF IntIds
<1>3. ASSUME NEW j \in 1 .. e, NEW k \in 1 .. e, n.ext[j].id = n.ext[k].id PROVE j = k
  <2>1. j - 1 = k - 1
    BY <1>1, <1>3
  <2> QED BY <2>1
<1>4. ASSUME NEW j \in 1 .. i, NEW k \in 1 .. i, n.int[j].id = n.int[k].id PROVE j = k
  <2>1. first + j - 1 = first + k - 1
    BY <1>2, <1>4
  <2> QED BY <2>1
<1>5. ASSUME NEW j \in 1 .. e, NEW k \in 1 .. i PROVE n.ext[j].id # n.int[k].id
  <2>1. n.ext[j].id = j - 1 /\ n.int[k].id = first + k - 1 /\ j - 1 # first + k - 1
    BY <1>1, <1>2
  <2> QED BY <2>1
<1> QED BY <1>1, <1>2, <1>3, <1>4, <1>5 DEF IdsUnique

LEMMA MeshJoinsAre ==
  ASSUME NEW rows \in Nat \ {0}, NEW cols \in Nat \ {0}, NEW w, NEW p \in MeshJoins(rows, cols, w)
  PROVE  p = <<p[1], p[2], p[3]>> /\ p[1] \in 0 .. rows * cols - 1 /\ p[2] \in 0 .. rows * cols - 1
<1>1. /\ \A r \in WithEast(rows, cols) : r \in 0 .. rows * cols - 1 /\ r + 1 \in 0 .. rows * cols - 1
      /\ \A r \in WithNorth(rows, cols) : r \in 0 .. rows * cols - 1 /\ r + cols \in 0 .. rows * cols - 1
  BY Neighbours
<1>2. CASE p \in EastOf(rows, cols, w.east)
  BY <1>1, <1>2 DEF EastOf
<1>3. CASE p \in WestOf(rows, cols, w.west)
  BY <1>1, <1>3 DEF WestOf
<1>4. CASE p \in NorthOf(rows, cols, w.north)
  BY <1>1, <1>4 DEF NorthOf
<1>5. CASE p \in SouthOf(rows, cols, w.south)
  BY <1>1, <1>5 DEF SouthOf
<1> QED BY <1>2, <1>3, <1>4, <1>5 DEF MeshJoins

(* A mesh of rows of CPUs. *)
LEMMA RowsAreMesh ==
  ASSUME NEW c, c.rows \in Nat, c.cpus \in Nat, RowsFit(c), NEW n, n.routers = c.cpus, NEW east \in {1, 2},
         NEW first, n.int = IntLinks(first, MeshPairs(c.rows, c.cpus \div c.rows, Weights(east, 1, 2, 2)))
  PROVE  Sound(n) /\ n.routers \in Nat \ {0} /\ IntIds(n, first)
<1> DEFINE rows == c.rows
           cols == c.cpus \div c.rows
           w == Weights(east, 1, 2, 2)
           pairs == MeshPairs(rows, cols, w)
           hub == [r \in Routers(n) |-> r]
<1>1. rows \in Nat \ {0} /\ cols \in Nat \ {0} /\ rows * cols = n.routers /\ n.routers \in Nat \ {0}
  <2>1. rows \in Nat \ {0} /\ c.cpus \in Nat \ {0} /\ cols * rows = c.cpus
    BY DEF RowsFit
  <2>2. cols \in Nat
    BY <2>1, Quotient
  <2> HIDE DEF rows, cols
  <2>3. cols # 0 /\ cols * rows = rows * cols
    BY <2>1, <2>2
  <2> QED BY <2>1, <2>2, <2>3
<1> HIDE DEF rows, cols
<1>2. OnMesh(n, rows, cols, hub) /\ LeafJoins(hub) = {}
  <2>1. Routers(n) = 0 .. rows * cols - 1
    BY <1>1 DEF Routers
  <2>2. hub \in [Routers(n) -> 0 .. rows * cols - 1] /\ \A r \in 0 .. rows * cols - 1 : hub[r] = r
    BY <2>1
  <2>3. Leaves(hub) = {}
    BY DEF Leaves
  <2> HIDE DEF hub
  <2> QED BY <1>1, <2>2, <2>3 DEF OnMesh, LeafJoins
<1>3. Holds(pairs, MeshJoins(rows, cols, w))
  BY <1>1, MeshPairsHold
<1>4. Triples(MeshJoins(rows, cols, w), Routers(n))
  BY <1>1, MeshJoinsAre DEF Routers, Triples
<1>5. n.int = IntLinks(first, pairs)
  BY DEF rows, cols
<1> HIDE DEF pairs, hub
<1>6. IntIds(n, first) /\ Joins(n) = MeshJoins(rows, cols, w)
  <2> HIDE DEF w
  <2> QED BY <1>3, <1>4, <1>5, IntLinksJoin
<1>7. Joins(n) = MeshJoins(rows, cols, w) \cup LeafJoins(hub)
  BY <1>2, <1>6
<1>8. Sound(n)
  <2>1. IntEnds(n)
    BY <1>6 DEF IntIds, IntEnds
  <2> QED BY <1>2, <1>7, <2>1, MeshIsSound
<1> QED BY <1>1, <1>6, <1>8

LEMMA MeshWellMade ==
  ASSUME NEW c, c.rows \in Nat, c.cpus \in Nat, RowsFit(c), NEW s, NEW S, Lists(s, S),
         NEW east \in {1, 2}, NEW n, n = Mesh(c, s, Weights(east, 1, 2, 2))
  PROVE  WellMade(n, S, DOMAIN n.ext, TRUE)
<1> DEFINE f == [k \in 1 .. Len(s) |-> IF k <= Uniform(c, s) THEN (k - 1) % c.cpus ELSE 0]
           pairs == MeshPairs(c.rows, c.cpus \div c.rows, Weights(east, 1, 2, 2))
<1>1. Len(s) \in Nat /\ c.cpus \in Nat \ {0}
  <2>1. Len(s) \in Nat
    BY LenProperties DEF Lists
  <2> QED BY <2>1 DEF RowsFit
<1>2. n.routers = c.cpus /\ n.ext = ExtLinks(0, Spots(s, f, Len(s))) /\ n.int = IntLinks(Len(s), pairs)
  <2>1. Spots(s, f, Len(s)) = [k \in 1 .. Len(s) |-> <<s[k], IF k <= Uniform(c, s) THEN (k - 1) % c.cpus ELSE 0>>]
    BY DEF Spots
  <2> HIDE DEF f, pairs
  <2> QED BY <2>1 DEF Mesh, Network, pairs
<1>3. \A k \in 1 .. Len(s) : f[k] \in Routers(n)
  <2>1. 0 \in Routers(n) /\ Routers(n) = 0 .. c.cpus - 1
    BY <1>1, <1>2 DEF Routers
  <2>2. ASSUME NEW k \in 1 .. Len(s) PROVE (k - 1) % c.cpus \in Routers(n)
    <3>1. k - 1 \in Nat
      BY <1>1
    <3> QED BY <1>1, <2>1, <3>1, Quotient
  <2> QED BY <2>1, <2>2
<1> HIDE DEF f
<1>4. Attached(n, S) /\ ExtIds(n, Len(s))
  BY <1>2, <1>3, AttachedInOrder
<1>5. Sound(n) /\ IntIds(n, Len(s))
  BY <1>2, RowsAreMesh
<1>6. IdsUnique(n, DOMAIN n.ext, TRUE)
  <2>1. Len(s) >= Len(s)
    BY <1>1
  <2> QED BY <2>1, <1>1, <1>4, <1>5, IdsInOrder
<1> QED BY <1>4, <1>5, <1>6 DEF WellMade

(* A router in the middle. *)
StarJoins(n, hub) == {<<r, hub, 1>> : r \in Routers(n) \ {hub}} \cup {<<hub, r, 1>> : r \in Routers(n) \ {hub}}

LEMMA StarIsSound ==
  ASSUME NEW n, n.routers \in Nat, NEW hub \in Routers(n), NEW first, IntIds(n, first),
         Joins(n) = StarJoins(n, hub)
  PROVE  Sound(n)
<1> DEFINE R == Routers(n)
           g == [cols |-> 1, rows |-> 1, east |-> 1, hub |-> [r \in R |-> hub],
                 x |-> [r \in R |-> 0], y |-> [r \in R |-> 0], at |-> [p \in {<<0, 0>>} |-> hub]]
<1>1. /\ g.cols = 1 /\ g.rows = 1 /\ g.east = 1 /\ g.at[<<0, 0>>] = hub
      /\ \A r \in R : g.hub[r] = hub /\ g.x[r] = 0 /\ g.y[r] = 0
  OBVIOUS
<1> HIDE DEF g
<1>2. Grid(n, g)
  <2>1. n.routers >= 1
    BY DEF Routers
  <2>2. \A x \in 0 .. g.cols - 1, y \in 0 .. g.rows - 1 : x = 0 /\ y = 0
    BY <1>1
  <2>3. \A r \in R : /\ g.hub[r] \in R /\ g.hub[g.hub[r]] = g.hub[r]
                     /\ g.x[r] \in 0 .. g.cols - 1 /\ g.x[g.hub[r]] = g.x[r]
                     /\ g.y[r] \in 0 .. g.rows - 1 /\ g.y[g.hub[r]] = g.y[r]
                     /\ g.hub[r] = r => g.at[<<g.x[r], g.y[r]>>] = r
    BY <1>1
  <2>4. \A x \in 0 .. g.cols - 1, y \in 0 .. g.rows - 1 :
          LET r == g.at[<<x, y>>] IN r \in R /\ g.hub[r] = r /\ g.x[r] = x /\ g.y[r] = y
    BY <1>1, <2>2
  <2> QED BY <1>1, <2>1, <2>3, <2>4 DEF Grid
<1>3. ASSUME NEW s \in R, NEW t \in R, NEW w
      PROVE  <<s, t, w>> \in Joins(n) <=> Linked(g, s, t, w)
  <2>1. <<s, t, w>> \in StarJoins(n, hub) <=> w = 1 /\ ((s # hub /\ t = hub) \/ (t # hub /\ s = hub))
    <3> DEFINE A == {<<r, hub, 1>> : r \in R \ {hub}}
               B == {<<hub, r, 1>> : r \in R \ {hub}}
    <3>1. <<s, t, w>> \in A <=> w = 1 /\ s # hub /\ t = hub
      OBVIOUS
    <3>2. <<s, t, w>> \in B <=> w = 1 /\ t # hub /\ s = hub
      OBVIOUS
    <3>3. StarJoins(n, hub) = A \cup B
      BY DEF StarJoins
    <3> HIDE DEF A, B
    <3>4. <<s, t, w>> \in StarJoins(n, hub) <=> <<s, t, w>> \in A \/ <<s, t, w>> \in B
      BY <3>3
    <3> QED BY <3>1, <3>2, <3>4
  <2>2. Linked(g, s, t, w) <=> Up(g, s, t, w) \/ Down(g, s, t, w)
    BY <1>1 DEF Linked, East, West, North, South
  <2>3. Up(g, s, t, w) <=> s # hub /\ t = hub /\ w = 1
    BY <1>1 DEF Up
  <2>4. Down(g, s, t, w) <=> t # hub /\ s = hub /\ w = 1
    BY <1>1 DEF Down
  <2>5. <<s, t, w>> \in Joins(n) <=> <<s, t, w>> \in StarJoins(n, hub)
    OBVIOUS
  <2> QED BY <2>1, <2>2, <2>3, <2>4, <2>5
<1>4. PICK k \in Nat : /\ DOMAIN n.int = 1 .. k
                      /\ \A l \in 1 .. k : n.int[l].src \in R /\ n.int[l].dst \in R
  BY DEF IntIds
<1>5. \A l \in 1 .. k : <<n.int[l].src, n.int[l].dst, n.int[l].weight>> \in Joins(n)
  BY <1>4 DEF Joins
<1>6. ASSUME NEW s \in R, NEW t \in R, NEW w \in {1, 2}, Linked(g, s, t, w)
      PROVE  \E l \in DOMAIN n.int : n.int[l].src = s /\ n.int[l].dst = t /\ n.int[l].weight = w
  <2>1. <<s, t, w>> \in Joins(n)
    BY <1>3, <1>6
  <2> QED BY <2>1 DEF Joins
<1>7. GridLinks(n, g)
  BY <1>3, <1>4, <1>6, <1>5 DEF GridLinks
<1> QED BY <1>2, <1>7, GridIsSound DEF OnAGrid

LEMMA CrossbarWellMade ==
  ASSUME NEW s, NEW S, Lists(s, S), NEW n, n = Crossbar(s)
  PROVE  WellMade(n, S, DOMAIN n.ext, TRUE)
<1> DEFINE m == Len(s)
           f == [k \in 1 .. m |-> k - 1]
           up == [k \in 1 .. m |-> <<k - 1, m, 1>>]
           down == [k \in 1 .. m |-> <<m, k - 1, 1>>]
           R == Routers(n)
<1>1. m \in Nat /\ DOMAIN s = 1 .. m
  BY LenProperties DEF Lists
<1>2. n.routers = m + 1 /\ n.ext = ExtLinks(0, Spots(s, f, m)) /\ n.int = IntLinks(m, up \o down)
  <2>1. Spots(s, f, m) = OnItsOwn(s)
    BY <1>1 DEF Spots, OnItsOwn
  <2> HIDE DEF f
  <2> QED BY <2>1 DEF Crossbar, Network
<1> HIDE DEF m
<1>3. R = 0 .. m /\ m \in R /\ \A r \in R : r # m <=> \E k \in 1 .. m : r = k - 1
  <2>1. R = 0 .. m /\ m \in R
    BY <1>1, <1>2 DEF Routers
  <2>2. ASSUME NEW r \in R, r # m PROVE \E k \in 1 .. m : r = k - 1
    <3>1. r + 1 \in 1 .. m /\ r = (r + 1) - 1
      BY <1>1, <2>1, <2>2
    <3> QED BY <3>1
  <2>3. ASSUME NEW k \in 1 .. m PROVE k - 1 # m
    BY <1>1
  <2> QED BY <2>1, <2>2, <2>3
<1>4. Attached(n, S) /\ ExtIds(n, m)
  <2>1. \A k \in 1 .. Len(s) : f[k] \in Routers(n)
    BY <1>1, <1>3 DEF m
  <2>2. n.ext = ExtLinks(0, Spots(s, f, Len(s)))
    BY <1>2 DEF m
  <2> HIDE DEF f
  <2> QED BY <2>1, <2>2, AttachedInOrder DEF m
<1> DEFINE A == {<<r, m, 1>> : r \in R \ {m}}
           B == {<<m, r, 1>> : r \in R \ {m}}
<1>5. Holds(up \o down, A \cup B)
  <2>1. Holds(up, A)
    <3>1. up = [k \in 1 .. m |-> up[k]] /\ \A k \in 1 .. m : up[k] \in A
      BY <1>1, <1>3
    <3>2. \A x \in A : \E k \in 1 .. m : up[k] = x
      BY <1>3
    <3> HIDE DEF up, A
    <3> QED BY <1>1, <3>1, <3>2, HoldsLoop
  <2>2. Holds(down, B)
    <3>1. down = [k \in 1 .. m |-> down[k]] /\ \A k \in 1 .. m : down[k] \in B
      BY <1>1, <1>3
    <3>2. \A x \in B : \E k \in 1 .. m : down[k] = x
      BY <1>3
    <3> HIDE DEF down, B
    <3> QED BY <1>1, <3>1, <3>2, HoldsLoop
  <2> HIDE DEF up, down, A, B
  <2> QED BY <2>1, <2>2, HoldsConcat
<1>6. Triples(A \cup B, R)
  BY <1>3 DEF Triples
<1>7. StarJoins(n, m) = A \cup B
  BY DEF StarJoins
<1> DEFINE pairs == up \o down
<1> HIDE DEF A, B, pairs
<1>8. IntIds(n, m) /\ Joins(n) = A \cup B
  <2>1. n.int = IntLinks(m, pairs) /\ Holds(pairs, A \cup B)
    BY <1>2, <1>5 DEF pairs
  <2> QED BY <1>6, <2>1, IntLinksJoin
<1>9. Sound(n)
  <2>1. n.routers \in Nat
    BY <1>1, <1>2
  <2> QED BY <1>3, <1>7, <1>8, <2>1, StarIsSound
<1>10. IdsUnique(n, DOMAIN n.ext, TRUE)
  <2>1. m >= m
    BY <1>1
  <2> QED BY <2>1, <1>1, <1>4, <1>8, IdsInOrder
<1> QED BY <1>4, <1>9, <1>10 DEF WellMade

LEMMA CrossbarGarnetWellMade ==
  ASSUME NEW s, NEW S, Lists(s, S), NEW n, n = CrossbarGarnet(s)
  PROVE  WellMade(n, S, DOMAIN n.ext, TRUE)
<1> DEFINE f == [k \in 1 .. Len(s) |-> 0]
<1>1. Len(s) \in Nat /\ DOMAIN s = 1 .. Len(s)
  BY LenProperties DEF Lists
<1>2. n.routers = 1 /\ n.ext = ExtLinks(0, Spots(s, f, Len(s))) /\ n.int = <<>>
  <2>1. Spots(s, f, Len(s)) = [k \in DOMAIN s |-> <<s[k], 0>>]
    BY <1>1 DEF Spots
  <2> HIDE DEF f
  <2> QED BY <2>1 DEF CrossbarGarnet, Network
<1>3. Routers(n) = {0} /\ \A k \in 1 .. Len(s) : f[k] \in Routers(n)
  BY <1>2 DEF Routers
<1> HIDE DEF f
<1>4. Attached(n, S) /\ ExtIds(n, Len(s))
  BY <1>2, <1>3, AttachedInOrder
<1>5. IntIds(n, Len(s)) /\ Joins(n) = {} /\ StarJoins(n, 0) = {}
  <2>1. DOMAIN n.int = {}
    BY <1>2
  <2>2. Routers(n) \ {0} = {}
    BY <1>3
  <2>3. DOMAIN n.int = 1 .. 0
    BY <2>1
  <2> QED BY <2>1, <2>2, <2>3 DEF Joins, StarJoins, IntIds
<1>6. Sound(n)
  <2>1. 0 \in Routers(n) /\ n.routers \in Nat /\ Joins(n) = StarJoins(n, 0)
    BY <1>2, <1>3, <1>5
  <2> QED BY <1>5, <2>1, StarIsSound
<1>7. IdsUnique(n, DOMAIN n.ext, TRUE)
  <2>1. Len(s) >= Len(s)
    BY <1>1
  <2> QED BY <2>1, <1>1, <1>4, <1>5, IdsInOrder
<1> QED BY <1>4, <1>6, <1>7 DEF WellMade

(* Links from all routers to all others. *)
AllJoined(n) ==
  /\ \A l \in DOMAIN n.int : n.int[l].src # n.int[l].dst /\ n.int[l].weight = 1
  /\ \A s, t \in Routers(n) : s # t => \E l \in DOMAIN n.int : n.int[l].src = s /\ n.int[l].dst = t

LEMMA AllJoinedIsSound ==
  ASSUME NEW n, n.routers \in Nat, NEW first, IntIds(n, first), AllJoined(n)
  PROVE  Sound(n)
<1> DEFINE R == Routers(n)
           D == [p \in R \X R |-> IF p[1] = p[2] THEN 0 ELSE 1]
<1>1. PICK k \in Nat : /\ DOMAIN n.int = 1 .. k
                      /\ \A l \in 1 .. k : n.int[l].src \in R /\ n.int[l].dst \in R
  BY DEF IntIds
<1>2. \A l \in 1 .. k : n.int[l].src # n.int[l].dst /\ n.int[l].weight = 1
  BY <1>1 DEF AllJoined
<1>3. \A s, t \in R : D[<<s, t>>] = IF s = t THEN 0 ELSE 1
  OBVIOUS
<1>4. D \in [R \X R -> 0 .. MaxWeight(n)]
  <2>1. ASSUME NEW p \in R \X R PROVE D[p] \in 0 .. MaxWeight(n)
    <3>1. n.routers >= 1
      BY DEF Routers
    <3> QED BY <3>1 DEF MaxWeight
  <2> HIDE DEF D
  <2>2. D = [p \in R \X R |-> D[p]]
    BY DEF D
  <2> QED BY <2>1, <2>2
<1> HIDE DEF D
<1>5. IsNetwork(n)
  BY <1>1, <1>2 DEF IsNetwork
<1>6. Distances(n, D)
  <2>1. \A s \in R : D[<<s, s>>] = 0
    BY <1>3
  <2>2. \A s \in R, l \in DOMAIN n.int : D[<<s, n.int[l].dst>>] <= D[<<s, n.int[l].src>>] + n.int[l].weight
    BY <1>1, <1>2, <1>3
  <2>3. ASSUME NEW s \in R, NEW t \in R, s # t
        PROVE  \E l \in DOMAIN n.int : n.int[l].dst = t /\ D[<<s, n.int[l].src>>] + n.int[l].weight = D[<<s, t>>]
    <3>1. PICK l \in DOMAIN n.int : n.int[l].src = s /\ n.int[l].dst = t
      BY <2>3 DEF AllJoined
    <3>2. D[<<s, n.int[l].src>>] + n.int[l].weight = D[<<s, t>>]
      BY <1>1, <1>2, <1>3, <2>3, <3>1
    <3> QED BY <3>1, <3>2
  <2> QED BY <1>4, <2>1, <2>2, <2>3 DEF Distances
<1>7. ASSUME NEW s \in R, NEW d \in R, s # d PROVE RoutingTables(n)[<<s, d>>] # {}
  <2>1. PICK l \in DOMAIN n.int : n.int[l].src = s /\ n.int[l].dst = d
    BY <1>7 DEF AllJoined
  <2>2. n.int[l].weight + D[<<d, d>>] = D[<<s, d>>]
    BY <1>1, <1>2, <1>3, <1>7, <2>1
  <2>3. l \in OnWay(n, D, s, d)
    BY <2>1, <2>2 DEF OnWay
  <2> QED BY <1>5, <1>6, <2>3, SomeWayIsLightest
<1>8. ASSUME NEW s \in R, NEW d \in R, NEW l, l \in RoutingTables(n)[<<s, d>>]
      PROVE  n.int[l].dst = d
  <2>1. RoutingTables(n)[<<s, d>>] = LightestOnWay(n, D, s, d)
    BY <1>5, <1>6, RoutesAreLightest
  <2>2. l \in DOMAIN n.int /\ n.int[l].weight + D[<<n.int[l].dst, d>>] = D[<<s, d>>]
    BY <1>8, <2>1 DEF LightestOnWay, OnWay
  <2> QED BY <1>1, <1>2, <1>3, <2>2
<1> DEFINE rank == [l \in 1 .. k |-> 0]
<1>9. rank \in [1 .. k -> Nat]
  OBVIOUS
<1>10. RankFallsOn(n, rank)
  BY <1>8 DEF RankFallsOn
<1> QED BY <1>1, <1>7, <1>9, <1>10 DEF Sound

LEMMA Pt2PtWellMade ==
  ASSUME NEW s, NEW S, Lists(s, S), NEW n, n = Pt2Pt(s)
  PROVE  WellMade(n, S, DOMAIN n.ext, TRUE)
<1> DEFINE m == Len(s)
           f == [k \in 1 .. m |-> k - 1]
           i(k) == (k - 1) \div (m - 1)
           j(k) == (k - 1) % (m - 1)
           pairs == [k \in 1 .. m * (m - 1) |-> <<i(k), IF j(k) < i(k) THEN j(k) ELSE j(k) + 1, 1>>]
<1>1. m \in Nat /\ DOMAIN s = 1 .. m
  BY LenProperties DEF Lists
<1>2. n.routers = m /\ n.ext = ExtLinks(0, Spots(s, f, m)) /\ n.int = IntLinks(m + 1, pairs)
  <2>1. Spots(s, f, m) = OnItsOwn(s)
    BY <1>1 DEF Spots, OnItsOwn
  <2> HIDE DEF f
  <2> QED BY <2>1 DEF Pt2Pt, Network
<1>3. Attached(n, S) /\ ExtIds(n, m)
  <2>1. \A k \in 1 .. Len(s) : f[k] \in Routers(n)
    BY <1>1, <1>2 DEF Routers
  <2>2. n.ext = ExtLinks(0, Spots(s, f, Len(s)))
    BY <1>2
  <2> HIDE DEF f, m
  <2>3. Attached(n, S) /\ ExtIds(n, Len(s))
    BY <2>1, <2>2, AttachedInOrder
  <2> QED BY <2>3 DEF m
<1> HIDE DEF m
<1>4. /\ m * (m - 1) \in Nat
      /\ \A k \in 1 .. m * (m - 1) : i(k) \in 0 .. m - 1 /\ j(k) \in 0 .. m - 2
      /\ \A a \in 0 .. m - 1, b \in 0 .. m - 2 : \E k \in 1 .. m * (m - 1) : i(k) = a /\ j(k) = b
  <2>1. CASE m = 0
    <3>1. m * (m - 1) = 0 /\ 1 .. 0 = {} /\ 0 .. m - 1 = {}
      BY <2>1
    <3> HIDE DEF i, j
    <3> QED BY <3>1
  <2>2. CASE m # 0
    <3> DEFINE c == m - 1
    <3>1. c \in Nat /\ c - 1 = m - 2
      BY <1>1, <2>2
    <3>2. /\ m * c \in Nat
          /\ \A k \in 1 .. m * c : (k - 1) \div c \in 0 .. m - 1 /\ (k - 1) % c \in 0 .. c - 1
          /\ \A a \in 0 .. m - 1, b \in 0 .. c - 1 :
               \E k \in 1 .. m * c : (k - 1) \div c = a /\ (k - 1) % c = b
      <4> HIDE DEF c
      <4> QED BY <1>1, <3>1, Loops
    <3> QED BY <3>1, <3>2
  <2> QED BY <2>1, <2>2
<1> DEFINE M == m * (m - 1)
<1> HIDE DEF i, j
<1>5. DOMAIN n.int = 1 .. M /\ \A l \in 1 .. M :
        /\ n.int[l].id = m + 1 + l - 1 /\ n.int[l].src = i(l) /\ n.int[l].weight = 1
        /\ n.int[l].dst = IF j(l) < i(l) THEN j(l) ELSE j(l) + 1
  BY <1>2 DEF IntLinks
<1>6. M \in Nat /\ \A l \in 1 .. M : i(l) \in 0 .. m - 1 /\ j(l) \in 0 .. m - 2
  BY <1>4
<1>7. \A a \in 0 .. m - 1, b \in 0 .. m - 2 : \E l \in 1 .. M : i(l) = a /\ j(l) = b
  BY <1>4
<1> HIDE DEF M, pairs
<1>8. \A l \in 1 .. M : n.int[l].src \in Routers(n) /\ n.int[l].dst \in Routers(n) /\ n.int[l].src # n.int[l].dst
  <2> SUFFICES ASSUME NEW l \in 1 .. M
               PROVE  n.int[l].src \in Routers(n) /\ n.int[l].dst \in Routers(n) /\ n.int[l].src # n.int[l].dst
    OBVIOUS
  <2>1. Routers(n) = 0 .. m - 1
    BY <1>2 DEF Routers
  <2>2. PICK a \in 0 .. m - 1, b \in 0 .. m - 2 : i(l) = a /\ j(l) = b
    BY <1>6
  <2>3. n.int[l].src = a /\ n.int[l].dst = IF b < a THEN b ELSE b + 1
    BY <1>5, <2>2
  <2> QED BY <1>1, <2>1, <2>3
<1>9. IntIds(n, m + 1)
  BY <1>5, <1>6, <1>8 DEF IntIds
<1>10. AllJoined(n)
  <2>1. ASSUME NEW a \in Routers(n), NEW t \in Routers(n), a # t
        PROVE  \E l \in DOMAIN n.int : n.int[l].src = a /\ n.int[l].dst = t
    <3> DEFINE b == IF t < a THEN t ELSE t - 1
    <3>1. a \in 0 .. m - 1 /\ t \in 0 .. m - 1
      BY <1>2 DEF Routers
    <3>2. b \in 0 .. m - 2 /\ t = IF b < a THEN b ELSE b + 1
      BY <1>1, <2>1, <3>1
    <3> HIDE DEF b
    <3>3. PICK l \in 1 .. M : i(l) = a /\ j(l) = b
      BY <1>7, <3>1, <3>2
    <3> QED BY <1>5, <3>2, <3>3
  <2> QED BY <1>5, <1>8, <2>1 DEF AllJoined
<1>11. Sound(n)
  <2>1. n.routers \in Nat
    BY <1>1, <1>2
  <2> QED BY <2>1, <1>9, <1>10, AllJoinedIsSound
<1>12. IdsUnique(n, DOMAIN n.ext, TRUE)
  <2>1. m + 1 >= m /\ m + 1 \in Nat
    BY <1>1
  <2> QED BY <2>1, <1>1, <1>3, <1>9, IdsInOrder
<1> QED BY <1>3, <1>11, <1>12 DEF WellMade

(* Lists of anything. *)
IsList(s) == \E X : s \in Seq(X)

LEMMA LoopIsList ==
  ASSUME NEW m \in Nat, NEW f, f = [k \in 1 .. m |-> f[k]]
  PROVE  IsList(f) /\ Len(f) = m
<1> DEFINE X == {f[k] : k \in 1 .. m}
<1>1. \A k \in 1 .. m : f[k] \in X
  OBVIOUS
<1> HIDE DEF X
<1>2. f \in Seq(X)
  BY <1>1, IsASeq
<1>3. Len(f) = m
  OBVIOUS
<1> QED BY <1>2, <1>3 DEF IsList

LEMMA JoinedLists ==
  ASSUME NEW s, NEW t, IsList(s), IsList(t)
  PROVE  /\ IsList(s \o t)
         /\ Len(s) \in Nat /\ Len(t) \in Nat /\ Len(s \o t) = Len(s) + Len(t)
         /\ DOMAIN s = 1 .. Len(s) /\ DOMAIN t = 1 .. Len(t) /\ DOMAIN (s \o t) = 1 .. Len(s) + Len(t)
         /\ \A i \in 1 .. Len(s) + Len(t) : (s \o t)[i] = IF i <= Len(s) THEN s[i] ELSE t[i - Len(s)]
<1>1. PICK X : s \in Seq(X)
  BY DEF IsList
<1>2. PICK Y : t \in Seq(Y)
  BY DEF IsList
<1> DEFINE U == X \cup Y
<1>3. s \in Seq(U) /\ t \in Seq(U)
  BY <1>1, <1>2, SeqMonotonic
<1> HIDE DEF U
<1>4. /\ s \o t \in Seq(U) /\ Len(s \o t) = Len(s) + Len(t)
      /\ \A i \in 1 .. Len(s) + Len(t) : (s \o t)[i] = IF i <= Len(s) THEN s[i] ELSE t[i - Len(s)]
  BY <1>3, ConcatProperties
<1>5. /\ Len(s) \in Nat /\ Len(t) \in Nat /\ DOMAIN s = 1 .. Len(s) /\ DOMAIN t = 1 .. Len(t)
      /\ DOMAIN (s \o t) = 1 .. Len(s \o t)
  BY <1>3, <1>4, LenProperties
<1> QED BY <1>4, <1>5 DEF IsList

(* Links for the elements of s, numbered from 0. *)
OnRouter(t, r) == [k \in DOMAIN t |-> <<t[k], r>>]

InOrder(ext, s, R) ==
  /\ IsList(ext) /\ IsList(s) /\ Len(ext) = Len(s)
  /\ \A k \in 1 .. Len(s) : ext[k].id = k - 1 /\ ext[k].node = s[k] /\ ext[k].router \in R

LEMMA NothingInOrder == \A R : InOrder(<<>>, <<>>, R)
<1>1. <<>> \in Seq({}) /\ Len(<<>>) = 0
  BY EmptySeq
<1> QED BY <1>1 DEF InOrder, IsList

LEMMA MoreInOrder ==
  ASSUME NEW ext, NEW s, NEW R, InOrder(ext, s, R), NEW t, IsList(t), NEW r \in R,
         NEW more, more = ExtLinks(Len(ext), OnRouter(t, r))
  PROVE  InOrder(ext \o more, s \o t, R)
<1>1. IsList(ext) /\ IsList(s) /\ Len(ext) = Len(s)
  BY DEF InOrder
<1>2. /\ IsList(s \o t) /\ Len(s) \in Nat /\ Len(t) \in Nat /\ Len(s \o t) = Len(s) + Len(t) /\ DOMAIN t = 1 .. Len(t)
      /\ \A i \in 1 .. Len(s) + Len(t) : (s \o t)[i] = IF i <= Len(s) THEN s[i] ELSE t[i - Len(s)]
  BY <1>1, JoinedLists
<1>3. /\ DOMAIN more = 1 .. Len(t)
      /\ \A k \in 1 .. Len(t) : more[k].id = Len(s) + k - 1 /\ more[k].node = t[k] /\ more[k].router = r
      /\ more = [k \in 1 .. Len(t) |-> more[k]]
  BY <1>1, <1>2 DEF ExtLinks, OnRouter
<1>4. IsList(more) /\ Len(more) = Len(t)
  BY <1>2, <1>3, LoopIsList
<1>5. /\ IsList(ext \o more) /\ Len(ext \o more) = Len(s) + Len(t)
      /\ \A i \in 1 .. Len(s) + Len(t) : (ext \o more)[i] = IF i <= Len(s) THEN ext[i] ELSE more[i - Len(s)]
  <2>1. /\ IsList(ext \o more) /\ Len(ext \o more) = Len(ext) + Len(more)
        /\ \A i \in 1 .. Len(ext) + Len(more) : (ext \o more)[i] = IF i <= Len(ext) THEN ext[i] ELSE more[i - Len(ext)]
    BY <1>1, <1>4, JoinedLists
  <2> QED BY <1>1, <1>4, <2>1
<1>6. ASSUME NEW k \in 1 .. Len(s) + Len(t)
      PROVE  (ext \o more)[k].id = k - 1 /\ (ext \o more)[k].node = (s \o t)[k] /\ (ext \o more)[k].router \in R
  <2>1. CASE k <= Len(s)
    <3>1. k \in 1 .. Len(s)
      BY <1>2, <2>1
    <3>2. (ext \o more)[k] = ext[k] /\ (s \o t)[k] = s[k]
      BY <1>2, <1>5, <2>1
    <3> QED BY <3>1, <3>2 DEF InOrder
  <2>2. CASE ~(k <= Len(s))
    <3>1. k - Len(s) \in 1 .. Len(t) /\ Len(s) + (k - Len(s)) - 1 = k - 1
      BY <1>2, <2>2
    <3>2. (ext \o more)[k] = more[k - Len(s)] /\ (s \o t)[k] = t[k - Len(s)]
      BY <1>2, <1>5, <2>2
    <3> QED BY <1>3, <3>1, <3>2
  <2> QED BY <2>1, <2>2
<1> QED BY <1>2, <1>5, <1>6 DEF InOrder

LEMMA InOrderIsAttached ==
  ASSUME NEW n, NEW s, NEW S, Lists(s, S), InOrder(n.ext, s, Routers(n))
  PROVE  Attached(n, S) /\ ExtIds(n, Len(s))
<1>1. IsList(n.ext) /\ Len(n.ext) = Len(s)
  BY DEF InOrder
<1>2. DOMAIN n.ext = 1 .. Len(n.ext)
  BY <1>1, JoinedLists
<1>3. /\ DOMAIN n.ext = 1 .. Len(s)
      /\ \A k \in 1 .. Len(s) : n.ext[k].id = k - 1 /\ n.ext[k].node = s[k] /\ n.ext[k].router \in Routers(n)
  BY <1>1, <1>2 DEF InOrder
<1> QED BY <1>3, AttachedList DEF ExtIds

(* The controllers of a GPU system, cluster after cluster. *)
LEMMA GpuLists ==
  ASSUME NEW c, Counted(c), NEW main, main = GPU_VIPER(c)
  PROVE  IsList(main.controllers) /\ IsList(main.clusters[1].controllers) /\ IsList(main.clusters[2].controllers)
<1>1. /\ c.dirs \in Nat /\ (c.cpus + 1) \div 2 \in Nat /\ c.cus \in Nat /\ c.sqcs \in Nat /\ c.scalars \in Nat
      /\ c.tccs \in Nat /\ c.dmas \in Nat
  BY DEF Counted
<1>2. \A s, S : Lists(s, S) => IsList(s)
  BY DEF Lists, IsList
<1>3. IsList(construct_dirs(c)) /\ IsList(construct_tcps(c)) /\ IsList(construct_sqcs(c)) /\ IsList(construct_tccs(c))
  BY <1>1, <1>2, ListsNumbered DEF construct_dirs, construct_tcps, construct_sqcs, construct_tccs
<1>4. IsList(construct_corepairs(c))
  BY <1>1, <1>2, ListsNumbered DEF construct_corepairs
<1>5. IsList(construct_scalars(c))
  <2>1. Lists(construct_scalars(c), V("SQC", c.sqcs, c.sqcs + c.scalars))
    BY <1>1, ListsLoop DEF construct_scalars
  <2> QED BY <1>2, <2>1
<1>6. IsList(construct_cmdprocs(c))
  BY <1>2, CommandProcessors
<1>7. IsList(Numbered("DMA", c.dmas))
  BY <1>1, <1>2, ListsNumbered
<1>8. \A s, t : IsList(s) /\ IsList(t) => IsList(s \o t)
  BY JoinedLists
<1>9. IsList(construct_tcps(c) \o construct_sqcs(c) \o construct_scalars(c)
               \o construct_cmdprocs(c) \o construct_tccs(c) \o Numbered("DMA", c.dmas))
  BY <1>3, <1>5, <1>6, <1>7, <1>8
<1> QED BY <1>3, <1>4, <1>9 DEF GPU_VIPER, ClusterOf

(* The two links of a cluster. *)
LEMMA LinkPair ==
  ASSUME NEW first \in Nat, NEW a, NEW b, NEW l, l = IntLinks(first, <<<<a, b, 1>>, <<b, a, 1>>>>)
  PROVE  /\ IsList(l) /\ Len(l) = 2
         /\ l[1].id = first /\ l[1].src = a /\ l[1].dst = b /\ l[1].weight = 1
         /\ l[2].id = first + 1 /\ l[2].src = b /\ l[2].dst = a /\ l[2].weight = 1
<1> DEFINE p == <<<<a, b, 1>>, <<b, a, 1>>>>
<1>1. DOMAIN p = 1 .. 2 /\ p[1] = <<a, b, 1>> /\ p[2] = <<b, a, 1>>
  OBVIOUS
<1> HIDE DEF p
<1>2. l = IntLinks(first, p)
  BY DEF p
<1>3. /\ DOMAIN l = 1 .. 2 /\ l = [k \in 1 .. 2 |-> l[k]]
      /\ \A k \in 1 .. 2 : l[k].id = first + k - 1 /\ l[k].src = p[k][1] /\ l[k].dst = p[k][2] /\ l[k].weight = p[k][3]
  BY <1>1, <1>2 DEF IntLinks
<1>4. IsList(l) /\ Len(l) = 2
  BY <1>3, LoopIsList
<1>5. 1 \in 1 .. 2 /\ 2 \in 1 .. 2 /\ first + 1 - 1 = first /\ first + 2 - 1 = first + 1
  OBVIOUS
<1> QED BY <1>1, <1>3, <1>4, <1>5

LEMMA AttachIs ==
  /\ \A a, e, i, t, r :
       AttachControllers(Network(a, e, i), t, r) = Network(a, e \o ExtLinks(Len(e), OnRouter(t, r)), i)
  /\ \A a, e, i, q, r :
       AttachCluster(Network(a, e, i), q, r)
         = Network(a + 1, e \o ExtLinks(Len(e), OnRouter(q.controllers, a)),
                   i \o IntLinks(Len(i), <<<<r, a, 1>>, <<a, r, 1>>>>))
<1>1. ASSUME NEW a, NEW e, NEW i
      PROVE  /\ \A v : [Network(a, e, i) EXCEPT !.ext = v] = Network(a, v, i)
             /\ \A v : [Network(a, e, i) EXCEPT !.int = v] = Network(a, e, v)
             /\ \A v : [Network(a, e, i) EXCEPT !.routers = v] = Network(v, e, i)
             /\ Network(a, e, i).routers = a /\ Network(a, e, i).ext = e /\ Network(a, e, i).int = i
  BY DEF Network
<1>2. ASSUME NEW n, NEW t, NEW r
      PROVE  AttachControllers(n, t, r) = [n EXCEPT !.ext = n.ext \o ExtLinks(Len(n.ext), OnRouter(t, r))]
  BY DEF AttachControllers, OnRouter
<1>3. ASSUME NEW a, NEW e, NEW i, NEW t, NEW r
      PROVE  AttachControllers(Network(a, e, i), t, r) = Network(a, e \o ExtLinks(Len(e), OnRouter(t, r)), i)
  <2> DEFINE n == Network(a, e, i)
             v == e \o ExtLinks(Len(e), OnRouter(t, r))
  <2>1. AttachControllers(n, t, r) = [n EXCEPT !.ext = v]
    <3>1. n.ext = e
      BY <1>1
    <3>2. AttachControllers(n, t, r) = [n EXCEPT !.ext = n.ext \o ExtLinks(Len(n.ext), OnRouter(t, r))]
      BY <1>2
    <3> HIDE DEF n
    <3> QED BY <3>1, <3>2
  <2> HIDE DEF v
  <2>2. [n EXCEPT !.ext = v] = Network(a, v, i)
    BY <1>1
  <2>3. AttachControllers(n, t, r) = Network(a, v, i)
    BY <2>1, <2>2
  <2> QED BY <2>3 DEF v
<1>4. ASSUME NEW n, NEW q, NEW r
      PROVE  AttachCluster(n, q, r)
               = LET sub == AttachControllers([n EXCEPT !.routers = n.routers + 1], q.controllers, n.routers)
                 IN [sub EXCEPT !.int = sub.int \o IntLinks(Len(sub.int), <<<<r, n.routers, 1>>, <<n.routers, r, 1>>>>)]
  BY DEF AttachCluster
<1>5. ASSUME NEW a, NEW e, NEW i, NEW q, NEW r
      PROVE  AttachCluster(Network(a, e, i), q, r)
               = Network(a + 1, e \o ExtLinks(Len(e), OnRouter(q.controllers, a)),
                         i \o IntLinks(Len(i), <<<<r, a, 1>>, <<a, r, 1>>>>))
  <2> DEFINE n == Network(a, e, i)
             u == e \o ExtLinks(Len(e), OnRouter(q.controllers, a))
             v == i \o IntLinks(Len(i), <<<<r, a, 1>>, <<a, r, 1>>>>)
             sub == Network(a + 1, u, i)
  <2>1. n.routers = a /\ [n EXCEPT !.routers = n.routers + 1] = Network(a + 1, e, i)
    BY <1>1
  <2>2. AttachControllers(Network(a + 1, e, i), q.controllers, a) = sub
    BY <1>3
  <2> HIDE DEF n, u
  <2>3. sub.int = i
    BY <1>1
  <2> HIDE DEF sub
  <2>4. AttachCluster(n, q, r) = [sub EXCEPT !.int = v]
    BY <1>4, <2>1, <2>2, <2>3
  <2> HIDE DEF v
  <2>5. [sub EXCEPT !.int = v] = Network(a + 1, u, v)
    BY <1>1 DEF sub
  <2>6. AttachCluster(n, q, r) = Network(a + 1, u, v)
    BY <2>4, <2>5
  <2> QED BY <2>6 DEF n, u, v
<1> QED BY <1>3, <1>5

LEMMA ClusterWellMade ==
  ASSUME NEW c, Counted(c), c.protocol = "GPU_VIPER", NEW S, Lists(Flat(c), S), NEW n, n = Cluster(c)
  PROVE  WellMade(n, S, DOMAIN n.ext, FALSE)
<1> DEFINE main == GPU_VIPER(c)
           A == main.controllers
           B == main.clusters[1].controllers
           C == main.clusters[2].controllers
           e1 == <<>> \o ExtLinks(Len(<<>>), OnRouter(A, 0))
           e2 == e1 \o ExtLinks(Len(e1), OnRouter(B, 1))
           e3 == e2 \o ExtLinks(Len(e2), OnRouter(C, 2))
           i1 == <<>> \o IntLinks(Len(<<>>), <<<<0, 1, 1>>, <<1, 0, 1>>>>)
           i2 == i1 \o IntLinks(Len(i1), <<<<0, 2, 1>>, <<2, 0, 1>>>>)
<1>1. IsList(A) /\ IsList(B) /\ IsList(C) /\ Flat(c) = A \o B \o C
  BY GpuLists DEF Flat
<1>2. n = Network(3, e3, i2)
  <2>1. AttachControllers(Network(1, <<>>, <<>>), A, 0) = Network(1, e1, <<>>)
    <3> DEFINE z == <<>>
    <3>1. AttachControllers(Network(1, z, z), A, 0) = Network(1, z \o ExtLinks(Len(z), OnRouter(A, 0)), z)
      <4> HIDE DEF z, A
      <4> QED BY AttachIs
    <3> QED BY <3>1
  <2>2. AttachCluster(Network(1, e1, <<>>), main.clusters[1], 0) = Network(2, e2, i1)
    <3> DEFINE q == main.clusters[1]
               z == <<>>
    <3>1. AttachCluster(Network(1, e1, z), q, 0)
            = Network(1 + 1, e1 \o ExtLinks(Len(e1), OnRouter(q.controllers, 1)),
                      z \o IntLinks(Len(z), <<<<0, 1, 1>>, <<1, 0, 1>>>>))
      <4> HIDE DEF q, e1, z
      <4> QED BY AttachIs
    <3>2. i1 = z \o IntLinks(Len(z), <<<<0, 1, 1>>, <<1, 0, 1>>>>)
      OBVIOUS
    <3>3. 1 + 1 = 2
      OBVIOUS
    <3> HIDE DEF e1, i1, q
    <3>4. AttachCluster(Network(1, e1, z), q, 0)
            = Network(2, e1 \o ExtLinks(Len(e1), OnRouter(q.controllers, 1)), i1)
      BY <3>1, <3>2, <3>3, Zenon
    <3> QED BY <3>4, Zenon DEF q
  <2>3. AttachCluster(Network(2, e2, i1), main.clusters[2], 0) = Network(3, e3, i2)
    <3> DEFINE q == main.clusters[2]
    <3>1. AttachCluster(Network(2, e2, i1), q, 0)
            = Network(2 + 1, e2 \o ExtLinks(Len(e2), OnRouter(q.controllers, 2)), i2)
      <4> HIDE DEF q, e2, i1
      <4> QED BY AttachIs
    <3> HIDE DEF e2, i2
    <3> QED BY <3>1
  <2> HIDE DEF e1, e2, e3, i1, i2
  <2> QED BY <2>1, <2>2, <2>3 DEF Cluster
<1> HIDE DEF main
<1>3. n.routers = 3 /\ n.ext = e3 /\ n.int = i2 /\ Routers(n) = 0 .. 2
  <2> HIDE DEF e3, i2
  <2> QED BY <1>2 DEF Network, Routers
<1>4. InOrder(n.ext, A \o B \o C, Routers(n))
  <2>1. 0 \in Routers(n) /\ 1 \in Routers(n) /\ 2 \in Routers(n)
    BY <1>3
  <2>2. <<>> \o A = A
    BY <1>1, ConcatEmptySeq DEF IsList
  <2> HIDE DEF A, B, C
  <2>3. InOrder(e1, A, Routers(n))
    <3>1. InOrder(e1, <<>> \o A, Routers(n))
      BY <1>1, <2>1, NothingInOrder, MoreInOrder
    <3> QED BY <2>2, <3>1
  <2> HIDE DEF e1
  <2>4. InOrder(e2, A \o B, Routers(n))
    BY <1>1, <2>1, <2>3, MoreInOrder
  <2> HIDE DEF e2
  <2>5. InOrder(e3, A \o B \o C, Routers(n))
    BY <1>1, <2>1, <2>4, MoreInOrder
  <2> HIDE DEF e3
  <2> QED BY <1>3, <2>5
<1>5. Attached(n, S) /\ ExtIds(n, Len(Flat(c)))
  BY <1>1, <1>4, InOrderIsAttached
<1> HIDE DEF A, B, C, e3
<1>6. /\ DOMAIN n.int = 1 .. 4
      /\ n.int[1].id = 0 /\ n.int[1].src = 0 /\ n.int[1].dst = 1 /\ n.int[1].weight = 1
      /\ n.int[2].id = 1 /\ n.int[2].src = 1 /\ n.int[2].dst = 0 /\ n.int[2].weight = 1
      /\ n.int[3].id = 2 /\ n.int[3].src = 0 /\ n.int[3].dst = 2 /\ n.int[3].weight = 1
      /\ n.int[4].id = 3 /\ n.int[4].src = 2 /\ n.int[4].dst = 0 /\ n.int[4].weight = 1
  <2> DEFINE p == IntLinks(0, <<<<0, 1, 1>>, <<1, 0, 1>>>>)
             q == IntLinks(2, <<<<0, 2, 1>>, <<2, 0, 1>>>>)
  <2>1. /\ IsList(p) /\ Len(p) = 2
        /\ p[1].id = 0 /\ p[1].src = 0 /\ p[1].dst = 1 /\ p[1].weight = 1
        /\ p[2].id = 0 + 1 /\ p[2].src = 1 /\ p[2].dst = 0 /\ p[2].weight = 1
    BY LinkPair
  <2>2. /\ IsList(q) /\ Len(q) = 2
        /\ q[1].id = 2 /\ q[1].src = 0 /\ q[1].dst = 2 /\ q[1].weight = 1
        /\ q[2].id = 2 + 1 /\ q[2].src = 2 /\ q[2].dst = 0 /\ q[2].weight = 1
    BY LinkPair
  <2>3. i1 = p /\ i2 = p \o q
    <3>1. Len(<<>>) = 0
      BY EmptySeq
    <3>2. i1 = <<>> \o p
      BY <3>1
    <3> HIDE DEF p, q
    <3>3. i1 = p
      BY <2>1, <3>2, ConcatEmptySeq DEF IsList
    <3> HIDE DEF i1
    <3> QED BY <2>1, <3>3 DEF q
  <2> HIDE DEF p, q, i1, i2
  <2>4. /\ DOMAIN (p \o q) = 1 .. 4
        /\ \A i \in 1 .. 4 : (p \o q)[i] = IF i <= 2 THEN p[i] ELSE q[i - 2]
    <3>1. /\ DOMAIN (p \o q) = 1 .. Len(p) + Len(q)
          /\ \A i \in 1 .. Len(p) + Len(q) : (p \o q)[i] = IF i <= Len(p) THEN p[i] ELSE q[i - Len(p)]
      BY <2>1, <2>2, JoinedLists
    <3>2. Len(p) + Len(q) = 4 /\ Len(p) = 2
      BY <2>1, <2>2
    <3> QED BY <3>1, <3>2
  <2>5. (p \o q)[1] = p[1] /\ (p \o q)[2] = p[2] /\ (p \o q)[3] = q[1] /\ (p \o q)[4] = q[2]
    BY <2>4
  <2> QED BY <1>3, <2>1, <2>2, <2>3, <2>4, <2>5
<1> HIDE DEF i2
<1>7. IntIds(n, 0)
  <2>1. \A l \in 1 .. 4 : l = 1 \/ l = 2 \/ l = 3 \/ l = 4
    OBVIOUS
  <2>2. \A l \in 1 .. 4 : n.int[l].src \in Routers(n) /\ n.int[l].dst \in Routers(n) /\ n.int[l].id = 0 + l - 1
    BY <1>3, <1>6, <2>1
  <2> QED BY <1>6, <2>2 DEF IntIds
<1>8. Joins(n) = StarJoins(n, 0)
  <2>1. Joins(n) = {<<0, 1, 1>>, <<1, 0, 1>>, <<0, 2, 1>>, <<2, 0, 1>>}
    <3>1. DOMAIN n.int = {1, 2, 3, 4}
      BY <1>6
    <3>2. Joins(n) = {<<n.int[l].src, n.int[l].dst, n.int[l].weight>> : l \in {1, 2, 3, 4}}
      BY <3>1 DEF Joins
    <3> QED BY <1>6, <3>2
  <2>2. Routers(n) \ {0} = {1, 2}
    BY <1>3
  <2>3. StarJoins(n, 0) = {<<r, 0, 1>> : r \in {1, 2}} \cup {<<0, r, 1>> : r \in {1, 2}}
    BY <2>2 DEF StarJoins
  <2> QED BY <2>1, <2>3
<1>9. Sound(n)
  <2>1. n.routers \in Nat /\ 0 \in Routers(n)
    BY <1>3
  <2> QED BY <1>7, <1>8, <2>1, StarIsSound
<1>10. IdsUnique(n, DOMAIN n.ext, FALSE)
  <2>1. \A j, k \in DOMAIN n.ext : n.ext[j].id = n.ext[k].id => j = k
    <3>1. Len(Flat(c)) \in Nat /\ DOMAIN n.ext = 1 .. Len(Flat(c)) /\ \A k \in 1 .. Len(Flat(c)) : n.ext[k].id = k - 1
      BY <1>5, LenProperties DEF ExtIds, Lists
    <3>2. \A j, k \in 1 .. Len(Flat(c)) : j - 1 = k - 1 => j = k
      BY <3>1
    <3> QED BY <3>1, <3>2
  <2>2. \A j, k \in DOMAIN n.int : n.int[j].id = n.int[k].id => j = k
    <3>1. \A l \in 1 .. 4 : l = 1 \/ l = 2 \/ l = 3 \/ l = 4
      OBVIOUS
    <3>2. \A l \in 1 .. 4 : n.int[l].id = l - 1
      BY <1>6, <3>1
    <3> QED BY <1>6, <3>2
  <2> QED BY <2>1, <2>2 DEF IdsUnique
<1> QED BY <1>5, <1>9, <1>10 DEF WellMade

(* The elements of a list that are in A. *)
LEMMA OnlyLists ==
  ASSUME NEW s, NEW S, Lists(s, S), NEW A
  PROVE  Lists(Only(s, A), S \cap A)
<1> DEFINE F == [fold |-> "Only", with |-> A]
           B == S \cap A
           m == Len(s)
<1>1. /\ m \in Nat /\ DOMAIN s = 1 .. m /\ \A k \in 1 .. m : s[k] \in S
      /\ \A x \in S : \E i \in 1 .. m : s[i] = x
      /\ \A i, j \in 1 .. m : s[i] = s[j] => i = j
  BY LenProperties, ElementOfSeq DEF Lists
<1>2. \A t, x : FoldStep(F, t, x) = IF x \in A THEN Append(t, x) ELSE t
  BY DEF FoldStep
<1>3. Only(s, A) = Folded(F, <<>>, s)
  BY FoldsOfModel
<1> HIDE DEF F, m
<1>4. PICK g : GoesOn(g, F, <<>>, s, m)
  BY <1>1, FoldGoesOn
<1>5. g[0] = <<>> /\ g[m] = Only(s, A) /\ \A k \in 1 .. m : g[k] = IF s[k] \in A THEN Append(g[k - 1], s[k]) ELSE g[k - 1]
  BY <1>2, <1>3, <1>4 DEF GoesOn
<1> DEFINE Right(k) ==
             /\ g[k] \in Seq(B)
             /\ \A i \in 1 .. Len(g[k]) : \E j \in 1 .. k : g[k][i] = s[j]
             /\ \A j \in 1 .. k : s[j] \in A => \E i \in 1 .. Len(g[k]) : g[k][i] = s[j]
             /\ \A i, j \in 1 .. Len(g[k]) : g[k][i] = g[k][j] => i = j
           Bad == {k \in Nat : k <= m /\ ~Right(k)}
<1>6. Right(0)
  <2>1. g[0] \in Seq(B) /\ Len(g[0]) = 0
    BY <1>5, EmptySeq
  <2> QED BY <2>1
<1>7. ASSUME NEW k \in 1 .. m, Right(k - 1) PROVE Right(k)
  <2> DEFINE h == g[k - 1]
  <2>1. /\ h \in Seq(B)
        /\ \A i \in 1 .. Len(h) : \E j \in 1 .. k - 1 : h[i] = s[j]
        /\ \A j \in 1 .. k - 1 : s[j] \in A => \E i \in 1 .. Len(h) : h[i] = s[j]
        /\ \A i, j \in 1 .. Len(h) : h[i] = h[j] => i = j
    BY <1>7
  <2>2. Len(h) \in Nat /\ k \in 1 .. k /\ \A j \in 1 .. k : j \in 1 .. k - 1 \/ j = k
    BY <1>1, <2>1, LenProperties
  <2>3. CASE s[k] \in A
    <3>1. g[k] = Append(h, s[k]) /\ s[k] \in B
      BY <1>1, <1>5, <2>3
    <3> HIDE DEF h, B
    <3>2. /\ g[k] \in Seq(B) /\ Len(g[k]) = Len(h) + 1
          /\ \A i \in 1 .. Len(h) : g[k][i] = h[i]
          /\ g[k][Len(h) + 1] = s[k]
      BY <2>1, <3>1, AppendProperties
    <3>3. \A i \in 1 .. Len(g[k]) : i \in 1 .. Len(h) \/ i = Len(h) + 1
      BY <2>2, <3>2
    <3>4. ASSUME NEW i \in 1 .. Len(g[k]) PROVE \E j \in 1 .. k : g[k][i] = s[j]
      <4>1. \A j \in 1 .. k - 1 : j \in 1 .. k
        OBVIOUS
      <4> QED BY <2>1, <2>2, <3>2, <3>3, <4>1
    <3>5. ASSUME NEW j \in 1 .. k, s[j] \in A PROVE \E i \in 1 .. Len(g[k]) : g[k][i] = s[j]
      <4>1. Len(h) + 1 \in 1 .. Len(g[k]) /\ \A i \in 1 .. Len(h) : i \in 1 .. Len(g[k])
        BY <2>2, <3>2
      <4> QED BY <2>1, <2>2, <3>2, <3>5, <4>1
    <3>6. \A i \in 1 .. Len(h) : h[i] # s[k]
      <4> SUFFICES ASSUME NEW i \in 1 .. Len(h), h[i] = s[k] PROVE FALSE
        OBVIOUS
      <4>1. PICK j \in 1 .. k - 1 : h[i] = s[j]
        BY <2>1
      <4>2. j \in 1 .. m /\ j # k
        BY <1>1
      <4> QED BY <1>1, <4>1, <4>2
    <3>7. ASSUME NEW i \in 1 .. Len(g[k]), NEW j \in 1 .. Len(g[k]), g[k][i] = g[k][j] PROVE i = j
      BY <2>1, <3>2, <3>3, <3>6, <3>7
    <3> QED BY <3>2, <3>4, <3>5, <3>7
  <2>4. CASE s[k] \notin A
    <3>1. g[k] = h
      BY <1>5, <2>4
    <3>2. \A j \in 1 .. k - 1 : j \in 1 .. k
      OBVIOUS
    <3> HIDE DEF h, B
    <3> QED BY <2>1, <2>2, <2>4, <3>1, <3>2
  <2> QED BY <2>3, <2>4
<1> HIDE DEF Right, B
<1>8. Right(m)
  <2> SUFFICES ASSUME Bad # {} PROVE FALSE
    BY <1>1
  <2>1. PICK k \in Bad : \A j \in Bad : k <= j
    <3>1. Bad \subseteq Nat
      OBVIOUS
    <3> HIDE DEF Bad
    <3> QED BY <3>1, LeastNumber
  <2>2. k \in 1 .. m /\ k - 1 \in Nat /\ k - 1 <= m /\ ~(k <= k - 1)
    BY <1>1, <1>6
  <2>3. Right(k - 1)
    BY <2>1, <2>2
  <2> QED BY <1>7, <2>2, <2>3
<1>9. ASSUME NEW x \in B PROVE \E i \in 1 .. Len(g[m]) : g[m][i] = x
  <2>1. PICK j \in 1 .. m : s[j] = x
    BY <1>1, <1>9 DEF B
  <2> QED BY <1>8, <1>9, <2>1 DEF Right, B
<1>10. Lists(g[m], B)
  BY <1>8, <1>9 DEF Lists, Right
<1> QED BY <1>5, <1>10 DEF B

(* The controllers of the protocols that a mesh with directories on its    *)
(* corners takes.                                                          *)
Taken ==
  {Controller(type, v) : type \in {"L0Cache", "L1Cache", "L2Cache", "Directory", "DMA"}, v \in Nat}

LEMMA TakenTypes == \A x \in Taken : x.type \in {"L0Cache", "L1Cache", "L2Cache", "Directory", "DMA"}
  BY DEF Taken, Controller

LEMMA NodesAreTaken ==
  ASSUME NEW c, Counted(c), c.protocol \in Protocols \ {"CHI", "GPU_VIPER", "classic"}, ~Refused(c)
  PROVE  Nodes(c) \in Seq(Taken)
<1>1. \A type \in {"L0Cache", "L1Cache", "L2Cache", "Directory", "DMA"} : \A a \in Nat : V(type, 0, a) \subseteq Taken
  BY DEF V, Taken
<1>2. \A s, S : Lists(s, S) /\ S \subseteq Taken => s \in Seq(Taken)
  BY SeqMonotonic DEF Lists
<1>3. /\ c.cpus \in Nat /\ c.l2s \in Nat /\ c.clusters \in Nat \ {0}
      /\ Dirs(c) \in Nat /\ Lists(Directories(c), V("Directory", 0, Dirs(c)))
      /\ Ports(c) \in Nat /\ Lists(Dmas(c), V("DMA", 0, Ports(c)))
  BY DirectoriesAndDmas DEF Counted
<1>4. Directories(c) \in Seq(Taken) /\ Dmas(c) \in Seq(Taken)
  BY <1>1, <1>2, <1>3
<1>5. Numbered("L1Cache", c.cpus) \in Seq(Taken) /\ Numbered("L2Cache", c.l2s) \in Seq(Taken)
  BY <1>1, <1>2, <1>3, ListsNumbered
<1>6. \A s, t \in Seq(Taken) : s \o t \in Seq(Taken)
  BY ConcatProperties
<1>7. CASE c.protocol \in {"MESI_Three_Level", "MESI_Three_Level_HTM"}
  <2>1. c.cpus % c.clusters = 0 /\ c.l2s % c.clusters = 0
    BY <1>7 DEF Refused
  <2>2. Lists(OfClusters(c, "L0Cache", c.cpus), V("L0Cache", 0, c.cpus))
    BY <1>3, <2>1, ClustersList
  <2>3. Lists(OfClusters(c, "L1Cache", c.cpus), V("L1Cache", 0, c.cpus))
    BY <1>3, <2>1, ClustersList
  <2>4. Lists(OfClusters(c, "L2Cache", c.l2s), V("L2Cache", 0, c.l2s))
    BY <1>3, <2>1, ClustersList
  <2>5. /\ OfClusters(c, "L0Cache", c.cpus) \in Seq(Taken) /\ OfClusters(c, "L1Cache", c.cpus) \in Seq(Taken)
        /\ OfClusters(c, "L2Cache", c.l2s) \in Seq(Taken)
    BY <1>1, <1>2, <1>3, <2>2, <2>3, <2>4
  <2>6. Nodes(c) = OfClusters(c, "L0Cache", c.cpus) \o OfClusters(c, "L1Cache", c.cpus)
                     \o OfClusters(c, "L2Cache", c.l2s) \o Directories(c) \o Dmas(c)
    BY <1>7 DEF Nodes, MESI_Three_Level, MESI_Three_Level_HTM, OfClusters
  <2> QED BY <1>4, <1>6, <2>5, <2>6
<1>8. CASE c.protocol \in {"MI_example", "MOESI_hammer"}
  <2>1. Nodes(c) = Numbered("L1Cache", c.cpus) \o Directories(c) \o Dmas(c)
    BY <1>8 DEF Nodes, MI_example, MOESI_hammer
  <2> QED BY <1>4, <1>5, <1>6, <2>1
<1>9. CASE c.protocol = "Garnet_standalone"
  <2>1. Nodes(c) = Numbered("L1Cache", c.cpus) \o Directories(c)
    BY <1>9 DEF Nodes, Garnet_standalone
  <2> QED BY <1>4, <1>5, <1>6, <2>1
<1>10. CASE c.protocol \in {"MESI_Two_Level", "MOESI_CMP_directory", "MOESI_CMP_token"}
  <2>1. Nodes(c) = Numbered("L1Cache", c.cpus) \o Numbered("L2Cache", c.l2s) \o Directories(c) \o Dmas(c)
    BY <1>10 DEF Nodes, MESI_Two_Level, MOESI_CMP_directory, MOESI_CMP_token
  <2> QED BY <1>4, <1>5, <1>6, <2>1
<1>11. c.protocol # "MOESI_AMD_Base"
  BY DEF Refused
<1> QED BY <1>7, <1>8, <1>9, <1>10, <1>11 DEF Protocols

LEMMA TypesListed ==
  ASSUME NEW s, NEW S, Lists(s, S), NEW types
  PROVE  Lists(OfTypes(s, types), {x \in S : x.type \in types})
<1>1. ToSet(s) = S
  BY HowMany
<1>2. OfTypes(s, types) = Only(s, {x \in S : x.type \in types})
  BY <1>1 DEF OfTypes
<1>3. S \cap {x \in S : x.type \in types} = {x \in S : x.type \in types}
  OBVIOUS
<1> QED BY <1>2, <1>3, OnlyLists

LEMMA CornersAre ==
  ASSUME NEW c, c.rows \in Nat, c.cpus \in Nat, RowsFit(c), NEW cols, cols = c.cpus \div c.rows
  PROVE  {0, cols - 1, c.cpus - cols, c.cpus - 1} \subseteq 0 .. c.cpus - 1
<1>1. c.rows \in Nat \ {0} /\ c.cpus \in Nat \ {0} /\ cols * c.rows = c.cpus
  BY DEF RowsFit
<1>2. cols \in Nat
  BY <1>1, Quotient
<1>3. cols # 0 /\ cols <= c.cpus
  <2>1. PICK r \in Nat : c.rows = r + 1
    <3>1. c.rows - 1 \in Nat /\ c.rows = (c.rows - 1) + 1
      BY <1>1
    <3> QED BY <3>1
  <2>2. c.cpus = cols * r + cols /\ cols * r \in Nat
    BY <1>1, <1>2, <2>1
  <2>3. cols = 0 => c.cpus = 0
    BY <1>1
  <2> QED BY <1>1, <1>2, <2>2, <2>3
<1> QED BY <1>1, <1>2, <1>3

(* All but L0 caches are attached, and all but DMA links have a number. *)
ButL0s(S)  == {x \in S : x.type # "L0Cache"}
ButDmas(n) == {k \in DOMAIN n.ext : n.ext[k].node.type # "DMA"}

LEMMA MeshDirCornersWellMade ==
  ASSUME NEW c, c.rows \in Nat, c.cpus \in Nat, NEW s, NEW S, Lists(s, S), s \in Seq(Taken), DirCornersFits(c, s),
         NEW n, n = MeshDirCorners_XY(c, s)
  PROVE  WellMade(n, ButL0s(S), ButDmas(n), TRUE)
<1> DEFINE caches == CachesOf(s)
           dirs == OfTypes(s, {"Directory"})
           dmas == OfTypes(s, {"DMA"})
           C == {x \in S : x.type \in {"L1Cache", "L2Cache"}}
           D == {x \in S : x.type \in {"Directory"}}
           M == {x \in S : x.type \in {"DMA"}}
           R == Routers(n)
           a == Len(caches)
           m == Len(dmas)
           cols == c.cpus \div c.rows
           corners == <<0, cols - 1, c.cpus - cols, c.cpus - 1>>
           spread == [k \in DOMAIN caches |-> <<caches[k], (k - 1) % c.cpus>>]
           atCorners == [k \in 1 .. 4 |-> <<dirs[k], corners[k]>>]
           p == spread \o atCorners
           e == ExtLinks(0, p)
           d == [k \in DOMAIN dmas |-> [id |-> a + 4, node |-> dmas[k], router |-> 0]]
<1>1. Lists(caches, C) /\ Lists(dirs, D) /\ Lists(dmas, M) /\ RowsFit(c) /\ Len(dirs) = 4
  BY TypesListed DEF CachesOf, DirCornersFits
<1>2. n = Network(c.cpus, e \o d, IntLinks(a + 4, MeshPairs(c.rows, cols, Weights(1, 1, 2, 2))))
  BY DEF MeshDirCorners_XY
<1>3. /\ n.routers = c.cpus /\ n.ext = e \o d
      /\ n.int = IntLinks(a + 4, MeshPairs(c.rows, c.cpus \div c.rows, Weights(1, 1, 2, 2)))
  <2> HIDE DEF e, d, a, caches
  <2> QED BY <1>2 DEF Network
<1>4. Sound(n) /\ IntIds(n, a + 4) /\ c.cpus \in Nat \ {0}
  <2>1. Sound(n) /\ IntIds(n, a + 4)
    <3> HIDE DEF a
    <3> QED BY <1>1, <1>3, RowsAreMesh
  <2> QED BY <1>1, <2>1 DEF RowsFit
<1>5. R = 0 .. c.cpus - 1 /\ 0 \in R /\ {0, cols - 1, c.cpus - cols, c.cpus - 1} \subseteq R
  <2>1. R = 0 .. c.cpus - 1 /\ 0 \in R
    BY <1>3, <1>4 DEF Routers
  <2> HIDE DEF R
  <2>2. {0, cols - 1, c.cpus - cols, c.cpus - 1} \subseteq 0 .. c.cpus - 1
    BY <1>1, CornersAre
  <2> HIDE DEF cols
  <2> QED BY <2>1, <2>2
<1>6. corners[1] \in R /\ corners[2] \in R /\ corners[3] \in R /\ corners[4] \in R
  <2> HIDE DEF cols, R
  <2> QED BY <1>5
<1>7. /\ IsList(caches) /\ IsList(dirs) /\ IsList(dmas) /\ a \in Nat /\ m \in Nat
      /\ DOMAIN caches = 1 .. a /\ DOMAIN dirs = 1 .. 4 /\ DOMAIN dmas = 1 .. m
  <2>1. \A t, T : Lists(t, T) => IsList(t)
    BY DEF Lists, IsList
  <2> HIDE DEF caches, dirs, dmas, C, D, M
  <2>2. IsList(caches) /\ IsList(dirs) /\ IsList(dmas)
    BY <1>1, <2>1
  <2> QED BY <1>1, <2>2, JoinedLists
<1> HIDE DEF caches, dirs, dmas, R, corners, cols
<1>8. IsList(spread) /\ Len(spread) = a /\ \A k \in 1 .. a : spread[k] = <<caches[k], (k - 1) % c.cpus>>
  <2>1. spread = [k \in 1 .. a |-> spread[k]] /\ \A k \in 1 .. a : spread[k] = <<caches[k], (k - 1) % c.cpus>>
    BY <1>7
  <2> HIDE DEF spread, a
  <2> QED BY <1>7, <2>1, LoopIsList
<1>9. IsList(atCorners) /\ Len(atCorners) = 4 /\ \A k \in 1 .. 4 : atCorners[k] = <<dirs[k], corners[k]>>
  <2>1. atCorners = [k \in 1 .. 4 |-> atCorners[k]] /\ \A k \in 1 .. 4 : atCorners[k] = <<dirs[k], corners[k]>>
    OBVIOUS
  <2> HIDE DEF atCorners
  <2> QED BY <2>1, LoopIsList
<1> HIDE DEF spread, atCorners
<1>10. DOMAIN p = 1 .. a + 4 /\ \A k \in 1 .. a + 4 : p[k] = IF k <= a THEN spread[k] ELSE atCorners[k - a]
  <2>1. /\ DOMAIN p = 1 .. Len(spread) + Len(atCorners)
        /\ \A k \in 1 .. Len(spread) + Len(atCorners) :
             p[k] = IF k <= Len(spread) THEN spread[k] ELSE atCorners[k - Len(spread)]
    BY <1>8, <1>9, JoinedLists
  <2>2. Len(spread) = a /\ Len(atCorners) = 4
    BY <1>8, <1>9
  <2> HIDE DEF a, p
  <2> QED BY <2>1, <2>2
<1> HIDE DEF a, m
<1> DEFINE t == caches \o dirs
<1>11. /\ IsList(t) /\ Len(t) = a + 4
       /\ \A k \in 1 .. a + 4 : t[k] = IF k <= a THEN caches[k] ELSE dirs[k - a]
  <2>1. Len(caches) = a
    BY DEF a
  <2> QED BY <1>1, <1>7, <2>1, JoinedLists
<1> HIDE DEF p, t
<1>12. ASSUME NEW k \in 1 .. a + 4 PROVE p[k][1] = t[k] /\ p[k][2] \in R
  <2>1. CASE k <= a
    <3>1. k \in 1 .. a /\ k - 1 \in Nat
      BY <1>7, <2>1
    <3>2. p[k] = <<caches[k], (k - 1) % c.cpus>> /\ t[k] = caches[k]
      BY <1>8, <1>10, <1>11, <2>1, <3>1
    <3>3. (k - 1) % c.cpus \in 0 .. c.cpus - 1
      BY <1>4, <3>1, Quotient
    <3> QED BY <1>5, <3>2, <3>3
  <2>2. CASE ~(k <= a)
    <3>1. k - a \in 1 .. 4
      BY <1>7, <2>2
    <3>2. p[k] = <<dirs[k - a], corners[k - a]>> /\ t[k] = dirs[k - a]
      BY <1>9, <1>10, <1>11, <2>2, <3>1
    <3>3. \A i \in 1 .. 4 : corners[i] \in R
      <4>1. \A i \in 1 .. 4 : i = 1 \/ i = 2 \/ i = 3 \/ i = 4
        OBVIOUS
      <4> QED BY <1>6, <4>1
    <3> QED BY <3>1, <3>2, <3>3
  <2> QED BY <2>1, <2>2
<1>13. /\ IsList(e) /\ Len(e) = a + 4
       /\ \A k \in 1 .. a + 4 : e[k].id = k - 1 /\ e[k].node = t[k] /\ e[k].router \in R
  <2>1. /\ e = [k \in 1 .. a + 4 |-> e[k]]
        /\ \A k \in 1 .. a + 4 : e[k].id = 0 + k - 1 /\ e[k].node = p[k][1] /\ e[k].router = p[k][2]
    BY <1>10 DEF ExtLinks
  <2> HIDE DEF e
  <2>2. a + 4 \in Nat
    BY <1>7
  <2>3. IsList(e) /\ Len(e) = a + 4
    BY <2>1, <2>2, LoopIsList
  <2> QED BY <1>7, <1>12, <2>1, <2>3
<1>14. IsList(d) /\ Len(d) = m /\ \A k \in 1 .. m : d[k].node = dmas[k] /\ d[k].router = 0
  <2>1. d = [k \in 1 .. m |-> d[k]] /\ \A k \in 1 .. m : d[k].node = dmas[k] /\ d[k].router = 0
    BY <1>7
  <2> HIDE DEF d
  <2> QED BY <1>7, <2>1, LoopIsList
<1> HIDE DEF e, d
<1>15. /\ DOMAIN n.ext = 1 .. a + 4 + m
       /\ \A k \in 1 .. a + 4 + m : n.ext[k] = IF k <= a + 4 THEN e[k] ELSE d[k - (a + 4)]
  BY <1>3, <1>13, <1>14, JoinedLists
<1> DEFINE u == t \o dmas
<1>16. /\ Len(u) = a + 4 + m
       /\ \A k \in 1 .. a + 4 + m : u[k] = IF k <= a + 4 THEN t[k] ELSE dmas[k - (a + 4)]
  <2>1. Len(dmas) = m
    BY DEF m
  <2> QED BY <1>7, <1>11, <2>1, JoinedLists
<1>17. Lists(u, {x \in S : x.type # "L0Cache"})
  <2>1. C \cap D = {} /\ (C \cup D) \cap M = {}
    OBVIOUS
  <2>2. (C \cup D) \cup M = {x \in S : x.type # "L0Cache"}
    <3>1. S \subseteq Taken
      <4> SUFFICES ASSUME NEW x \in S PROVE x \in Taken
        OBVIOUS
      <4>1. PICK i \in 1 .. Len(s) : s[i] = x
        BY DEF Lists
      <4> QED BY <4>1, ElementOfSeq
    <3>2. \A x \in S : x.type \in {"L0Cache", "L1Cache", "L2Cache", "Directory", "DMA"}
      BY <3>1, TakenTypes
    <3> QED BY <3>2
  <2> HIDE DEF C, D, M
  <2>3. Lists(t, C \cup D)
    BY <1>1, <2>1, ListsConcat DEF t
  <2>4. Lists(u, (C \cup D) \cup M)
    BY <1>1, <2>1, <2>3, ListsConcat
  <2> QED BY <2>2, <2>4
<1> HIDE DEF u
<1>18. ASSUME NEW k \in 1 .. a + 4 + m
       PROVE  n.ext[k].node = u[k] /\ n.ext[k].router \in R
  <2>1. CASE k <= a + 4
    <3>1. k \in 1 .. a + 4
      BY <1>7, <2>1
    <3> QED BY <1>13, <1>15, <1>16, <2>1, <3>1
  <2>2. CASE ~(k <= a + 4)
    <3>1. k - (a + 4) \in 1 .. m
      BY <1>7, <2>2
    <3> QED BY <1>5, <1>14, <1>15, <1>16, <2>2, <3>1
  <2> QED BY <2>1, <2>2
<1>19. Attached(n, {x \in S : x.type # "L0Cache"})
  <2> DEFINE T == {x \in S : x.type # "L0Cache"}
  <2> HIDE DEF T
  <2>1. Lists(u, T)
    BY <1>17 DEF T
  <2>2. Attached(n, T)
    BY <1>15, <1>16, <1>18, <2>1, AttachedList DEF R
  <2> QED BY <2>2 DEF T
<1> DEFINE E == {k \in DOMAIN n.ext : n.ext[k].node.type # "DMA"}
<1>20. \A k \in E : k \in 1 .. a + 4 /\ n.ext[k].id = k - 1
  <2> SUFFICES ASSUME NEW k \in E PROVE k \in 1 .. a + 4 /\ n.ext[k].id = k - 1
    OBVIOUS
  <2>1. k \in 1 .. a + 4 + m /\ n.ext[k].node.type # "DMA"
    BY <1>15
  <2>2. CASE k <= a + 4
    <3>1. k \in 1 .. a + 4
      BY <1>7, <2>1, <2>2
    <3> QED BY <1>13, <1>15, <2>1, <2>2, <3>1
  <2>3. CASE ~(k <= a + 4)
    <3>1. k - (a + 4) \in 1 .. m
      BY <1>7, <2>1, <2>3
    <3>2. n.ext[k].node = dmas[k - (a + 4)]
      BY <1>14, <1>15, <2>1, <2>3, <3>1
    <3>3. dmas[k - (a + 4)] \in M
      <4> HIDE DEF M
      <4> QED BY <1>1, <3>1, ElementOfSeq DEF Lists, m
    <3> QED BY <2>1, <3>2, <3>3
  <2> QED BY <2>2, <2>3
<1>21. IdsUnique(n, E, TRUE)
  <2>1. PICK i \in Nat : DOMAIN n.int = 1 .. i /\ \A k \in 1 .. i : n.int[k].id = a + 4 + k - 1
    BY <1>4 DEF IntIds
  <2> HIDE DEF E
  <2>2. \A j, k \in E : n.ext[j].id = n.ext[k].id => j = k
    <3> SUFFICES ASSUME NEW j \in E, NEW k \in E, n.ext[j].id = n.ext[k].id PROVE j = k
      OBVIOUS
    <3>1. j - 1 = k - 1 /\ j \in Int /\ k \in Int
      BY <1>7, <1>20
    <3> QED BY <3>1
  <2>3. \A j, k \in 1 .. i : n.int[j].id = n.int[k].id => j = k
    <3> SUFFICES ASSUME NEW j \in 1 .. i, NEW k \in 1 .. i, n.int[j].id = n.int[k].id PROVE j = k
      OBVIOUS
    <3>1. a + 4 + j - 1 = a + 4 + k - 1
      BY <2>1
    <3> QED BY <1>7, <3>1
  <2>4. ASSUME NEW j \in E, NEW k \in 1 .. i PROVE n.ext[j].id # n.int[k].id
    <3>1. n.ext[j].id = j - 1 /\ j \in 1 .. a + 4 /\ n.int[k].id = a + 4 + k - 1
      BY <1>20, <2>1
    <3> QED BY <1>7, <3>1
  <2> QED BY <2>1, <2>2, <2>3, <2>4 DEF IdsUnique
<1>22. WellMade(n, {x \in S : x.type # "L0Cache"}, {k \in DOMAIN n.ext : n.ext[k].node.type # "DMA"}, TRUE)
  BY <1>4, <1>19, <1>21 DEF WellMade
<1> QED BY <1>22, Zenon DEF ButL0s, ButDmas
-----------------------------------------------------------------------------
(* The nodes of CHI and where CustomMesh puts them.                        *)
ChiNodeFits(v) == Len(v.controllers) >= 1 /\ \E i \in 1 .. 6 : ChiClasses[i] = v.class
AllFit(s) == IsList(s) /\ \A k \in 1 .. Len(s) : ChiNodeFits(s[k])

LEMMA ClassesDiffer ==
  /\ Len(ChiClasses) = 6
  /\ \A i, j \in 1 .. 6 : ChiClasses[i] = ChiClasses[j] => i = j
  /\ ChiClasses[1] = "RNF" /\ ChiClasses[2] = "HNF"
  BY DEF ChiClasses

LEMMA ChiNodeIs ==
  ASSUME NEW i \in 1 .. 6, NEW type, NEW m \in Nat, m >= 1, NEW versions, DOMAIN versions = 1 .. m
  PROVE  ChiNodeFits(ChiNode(ChiClasses[i], type, versions))
<1> DEFINE v == ChiNode(ChiClasses[i], type, versions)
           f == [k \in 1 .. m |-> Controller(type, versions[k])]
<1>1. v.controllers = f /\ v.class = ChiClasses[i]
  BY DEF ChiNode
<1>2. f = [k \in 1 .. m |-> f[k]]
  OBVIOUS
<1> HIDE DEF f, v
<1>3. Len(f) = m
  BY <1>2, LoopIsList
<1>4. ChiNodeFits(v)
  BY <1>1, <1>3 DEF ChiNodeFits
<1> QED BY <1>4 DEF v

LEMMA AllFitMore ==
  ASSUME NEW s, NEW t, AllFit(s), AllFit(t)
  PROVE  AllFit(s \o t)
<1>1. /\ IsList(s \o t) /\ Len(s \o t) = Len(s) + Len(t) /\ Len(s) \in Nat /\ Len(t) \in Nat
      /\ \A i \in 1 .. Len(s) + Len(t) : (s \o t)[i] = IF i <= Len(s) THEN s[i] ELSE t[i - Len(s)]
  BY JoinedLists DEF AllFit
<1>2. ASSUME NEW i \in 1 .. Len(s) + Len(t) PROVE ChiNodeFits((s \o t)[i])
  <2>1. CASE i <= Len(s)
    <3>1. i \in 1 .. Len(s)
      BY <1>1, <2>1
    <3> QED BY <1>1, <2>1, <3>1 DEF AllFit
  <2>2. CASE ~(i <= Len(s))
    <3>1. i - Len(s) \in 1 .. Len(t)
      BY <1>1, <2>2
    <3> QED BY <1>1, <2>2, <3>1 DEF AllFit
  <2> QED BY <2>1, <2>2
<1> QED BY <1>1, <1>2 DEF AllFit

LEMMA AllFitLoop ==
  ASSUME NEW m \in Nat, NEW f, f = [k \in 1 .. m |-> f[k]], \A k \in 1 .. m : ChiNodeFits(f[k])
  PROVE  AllFit(f)
  BY LoopIsList DEF AllFit

LEMMA AllFitOne ==
  ASSUME NEW v, ChiNodeFits(v)
  PROVE  AllFit(<<v>>)
<1> DEFINE f == <<v>>
<1>1. f = [k \in 1 .. 1 |-> f[k]] /\ \A k \in 1 .. 1 : f[k] = v
  OBVIOUS
<1> HIDE DEF f
<1>2. AllFit(f)
  BY <1>1, AllFitLoop
<1> QED BY <1>2 DEF f

LEMMA ChiFits ==
  ASSUME NEW c, Counted(c)
  PROVE  AllFit(CHI(c)) /\ (c.l3s >= 1 => \E k \in 1 .. Len(CHI(c)) : CHI(c)[k].class = "HNF")
<1>1. c.cpus \in Nat /\ c.l3s \in Nat /\ c.dirs \in Nat /\ c.dmas \in Nat
  BY DEF Counted
<1>2. /\ ChiClasses[1] = "RNF" /\ ChiClasses[2] = "HNF" /\ ChiClasses[3] = "SNF_MainMem"
      /\ ChiClasses[4] = "SNF_BootMem" /\ ChiClasses[5] = "RNI_DMA" /\ ChiClasses[6] = "RNI_IO"
  BY DEF ChiClasses
<1>3. /\ 1 \in 1 .. 6 /\ 2 \in 1 .. 6 /\ 3 \in 1 .. 6 /\ 4 \in 1 .. 6 /\ 5 \in 1 .. 6 /\ 6 \in 1 .. 6
  OBVIOUS
<1>4. \A class \in {"RNF", "HNF", "SNF_MainMem", "SNF_BootMem", "RNI_DMA", "RNI_IO"} : \A type :
        /\ \A a : ChiNodeFits(ChiNode(class, type, <<a>>))
        /\ \A a, b, d : ChiNodeFits(ChiNode(class, type, <<a, b, d>>))
  <2> SUFFICES ASSUME NEW class \in {"RNF", "HNF", "SNF_MainMem", "SNF_BootMem", "RNI_DMA", "RNI_IO"}, NEW type
               PROVE  /\ \A a : ChiNodeFits(ChiNode(class, type, <<a>>))
                      /\ \A a, b, d : ChiNodeFits(ChiNode(class, type, <<a, b, d>>))
    OBVIOUS
  <2>1. PICK i \in 1 .. 6 : class = ChiClasses[i]
    BY <1>2, <1>3
  <2>2. ASSUME NEW a PROVE ChiNodeFits(ChiNode(class, type, <<a>>))
    <3> DEFINE u == <<a>>
    <3>1. DOMAIN u = 1 .. 1 /\ 1 \in Nat /\ 1 >= 1
      OBVIOUS
    <3> HIDE DEF u
    <3>2. ChiNodeFits(ChiNode(ChiClasses[i], type, u))
      BY <3>1, ChiNodeIs
    <3> QED BY <2>1, <3>2, Zenon DEF u
  <2>3. ASSUME NEW a, NEW b, NEW d PROVE ChiNodeFits(ChiNode(class, type, <<a, b, d>>))
    <3> DEFINE u == <<a, b, d>>
    <3>1. DOMAIN u = 1 .. 3 /\ 3 \in Nat /\ 3 >= 1
      OBVIOUS
    <3> HIDE DEF u
    <3>2. ChiNodeFits(ChiNode(ChiClasses[i], type, u))
      BY <3>1, ChiNodeIs
    <3> QED BY <2>1, <3>2, Zenon DEF u
  <2> QED BY <2>2, <2>3
<1>5. AllFit(CHI_RNF(c))
  <2> DEFINE f == CHI_RNF(c)
  <2>1. f = [k \in 1 .. c.cpus |-> f[k]] /\ \A k \in 1 .. c.cpus : f[k] = ChiNode("RNF", "Cache", <<2 * k - 2, 2 * k - 1, 2 * c.cpus + k - 1>>)
    BY DEF CHI_RNF
  <2> HIDE DEF f
  <2>2. \A k \in 1 .. c.cpus : ChiNodeFits(f[k])
    BY <1>4, <2>1
  <2>3. AllFit(f)
    BY <1>1, <2>1, <2>2, AllFitLoop
  <2> QED BY <2>3 DEF f
<1>6. AllFit(CHI_HNF(c)) /\ Len(CHI_HNF(c)) = c.l3s /\ \A k \in 1 .. c.l3s : CHI_HNF(c)[k].class = "HNF"
  <2> DEFINE f == CHI_HNF(c)
  <2>1. f = [k \in 1 .. c.l3s |-> f[k]] /\ \A k \in 1 .. c.l3s : f[k] = ChiNode("HNF", "Cache", <<3 * c.cpus + k - 1>>)
    BY DEF CHI_HNF
  <2> HIDE DEF f
  <2>2. \A k \in 1 .. c.l3s : ChiNodeFits(f[k]) /\ f[k].class = "HNF"
    <3>1. \A a : ChiNode("HNF", "Cache", <<a>>).class = "HNF"
      BY DEF ChiNode
    <3> QED BY <1>4, <2>1, <3>1
  <2>3. AllFit(f) /\ Len(f) = c.l3s
    BY <1>1, <2>1, <2>2, AllFitLoop, LoopIsList
  <2> QED BY <2>2, <2>3 DEF f
<1>7. AllFit(<<>>)
  <2>1. <<>> \in Seq({}) /\ Len(<<>>) = 0
    BY EmptySeq
  <2> QED BY <2>1 DEF AllFit, IsList
<1>8. AllFit(CHI_SNF(c))
  <2> DEFINE f == [k \in 1 .. c.dirs |-> ChiNode("SNF_MainMem", "Memory", <<k - 1>>)]
             last == IF c.boot THEN <<ChiNode("SNF_BootMem", "Memory", <<c.dirs>>)>> ELSE <<>>
  <2>1. AllFit(last)
    <3>1. CASE c.boot
      BY <1>4, <3>1, AllFitOne
    <3>2. CASE ~c.boot
      BY <1>7, <3>2
    <3> QED BY <3>1, <3>2
  <2>2. CHI_SNF(c) = f \o last
    BY DEF CHI_SNF
  <2>3. f = [k \in 1 .. c.dirs |-> f[k]] /\ \A k \in 1 .. c.dirs : f[k] = ChiNode("SNF_MainMem", "Memory", <<k - 1>>)
    OBVIOUS
  <2> HIDE DEF f, last
  <2>4. \A k \in 1 .. c.dirs : ChiNodeFits(f[k])
    BY <1>4, <2>3
  <2>5. AllFit(f)
    BY <1>1, <2>3, <2>4, AllFitLoop
  <2> QED BY <2>1, <2>2, <2>5, AllFitMore
<1>9. AllFit(CHI_RNI(c))
  <2> DEFINE first == 3 * c.cpus + c.l3s
             f == [k \in 1 .. c.dmas |-> ChiNode("RNI_DMA", "Cache", <<first + k - 1>>)]
             last == IF c.full THEN <<ChiNode("RNI_IO", "Cache", <<first + c.dmas>>)>> ELSE <<>>
  <2>1. AllFit(last)
    <3>1. CASE c.full
      BY <1>4, <3>1, AllFitOne
    <3>2. CASE ~c.full
      BY <1>7, <3>2
    <3> QED BY <3>1, <3>2
  <2>2. CHI_RNI(c) = f \o last
    BY DEF CHI_RNI
  <2>3. f = [k \in 1 .. c.dmas |-> f[k]] /\ \A k \in 1 .. c.dmas : f[k] = ChiNode("RNI_DMA", "Cache", <<first + k - 1>>)
    OBVIOUS
  <2> HIDE DEF f, last, first
  <2>4. \A k \in 1 .. c.dmas : ChiNodeFits(f[k])
    BY <1>4, <2>3
  <2>5. AllFit(f)
    BY <1>1, <2>3, <2>4, AllFitLoop
  <2> QED BY <2>1, <2>2, <2>5, AllFitMore
<1>10. AllFit(CHI(c))
  <2>1. AllFit(CHI_RNF(c) \o CHI_HNF(c))
    BY <1>5, <1>6, AllFitMore
  <2>2. AllFit(CHI_RNF(c) \o CHI_HNF(c) \o CHI_SNF(c))
    BY <1>8, <2>1, AllFitMore
  <2> QED BY <1>9, <2>2, AllFitMore DEF CHI
<1>11. ASSUME c.l3s >= 1 PROVE \E k \in 1 .. Len(CHI(c)) : CHI(c)[k].class = "HNF"
  <2> DEFINE a == CHI_RNF(c)
             b == CHI_HNF(c)
             e == CHI_SNF(c)
             g == CHI_RNI(c)
             k == Len(a) + 1
  <2>1. IsList(a) /\ IsList(b) /\ IsList(e) /\ IsList(g) /\ CHI(c) = a \o b \o e \o g
    BY <1>5, <1>6, <1>8, <1>9 DEF AllFit, CHI
  <2>2. Len(b) >= 1 /\ b[1].class = "HNF"
    BY <1>1, <1>6, <1>11
  <2> HIDE DEF a, b, e, g
  <2>3. IsList(a \o b) /\ Len(a) \in Nat /\ Len(b) \in Nat /\ Len(a \o b) = Len(a) + Len(b) /\ (a \o b)[k] = b[1]
    BY <2>1, <2>2, JoinedLists
  <2>4. IsList(a \o b \o e) /\ Len(e) \in Nat /\ Len(a \o b \o e) = Len(a) + Len(b) + Len(e) /\ (a \o b \o e)[k] = b[1]
    BY <2>1, <2>2, <2>3, JoinedLists
  <2>5. Len(g) \in Nat /\ Len(a \o b \o e \o g) = Len(a) + Len(b) + Len(e) + Len(g) /\ (a \o b \o e \o g)[k] = b[1]
    BY <2>1, <2>2, <2>3, <2>4, JoinedLists
  <2>6. k \in 1 .. Len(a \o b \o e \o g)
    BY <2>2, <2>3, <2>4, <2>5
  <2> QED BY <2>1, <2>2, <2>5, <2>6
<1> QED BY <1>10, <1>11

(* The nodes, each of which has a controller, are all different. *)
LEMMA NodesDiffer ==
  ASSUME NEW s, NEW S, NodesOf(s, S), AllFit(s), NEW N, N = {s[i] : i \in 1 .. Len(s)}
  PROVE  Lists(s, N)
<1> DEFINE q == ControllersOf(s)
<1>1. ListsOf(q, S)
  BY DEF NodesOf
<1>2. PICK M : s \in Seq(M)
  BY DEF NodesOf
<1>3. Len(s) \in Nat /\ DOMAIN s = 1 .. Len(s) /\ s = [i \in 1 .. Len(s) |-> s[i]]
  <2>1. Len(s) \in Nat /\ s \in [1 .. Len(s) -> M]
    BY <1>2, LenProperties
  <2> QED BY <2>1
<1>4. Len(q) = Len(s) /\ \A i \in 1 .. Len(s) : q[i] = s[i].controllers
  BY <1>3 DEF ControllersOf
<1> HIDE DEF q
<1>5. s \in Seq(N)
  <2>1. \A i \in 1 .. Len(s) : s[i] \in N
    OBVIOUS
  <2> QED BY <1>3, <2>1, IsASeq
<1>6. ASSUME NEW i \in 1 .. Len(s), NEW j \in 1 .. Len(s), s[i] = s[j] PROVE i = j
  <2>1. q[i] = q[j] /\ Len(q[i]) >= 1
    BY <1>4, <1>6 DEF AllFit, ChiNodeFits
  <2>2. Len(q[i]) \in Nat
    <3>1. q \in Seq(Seq(S))
      BY <1>1 DEF ListsOf
    <3>2. q[i] \in Seq(S)
      BY <1>4, <3>1, ElementOfSeq
    <3> QED BY <3>2, LenProperties
  <2>3. 1 \in 1 .. Len(q[i]) /\ 1 \in 1 .. Len(q[j]) /\ q[i][1] = q[j][1]
    BY <2>1, <2>2
  <2> QED BY <1>1, <1>4, <2>3 DEF ListsOf
<1> QED BY <1>5, <1>6 DEF Lists

LEMMA ClassListed ==
  ASSUME NEW s, NEW N, Lists(s, N), NEW class
  PROVE  Lists(OfClass(s, class), {x \in N : x.class = class})
<1>1. ToSet(s) = N
  BY HowMany
<1>2. OfClass(s, class) = Only(s, {x \in N : x.class = class})
  BY <1>1 DEF OfClass
<1>3. N \cap {x \in N : x.class = class} = {x \in N : x.class = class}
  OBVIOUS
<1> QED BY <1>2, <1>3, OnlyLists

(* A placement of n nodes on the routers below m. *)
PlaceFits(place, n, m) ==
  /\ place.per \in Int /\ place.routers \in Seq(0 .. m - 1)
  /\ n # 0 => IF place.per # 0 THEN Len(place.routers) * place.per = n ELSE place.routers # <<>>

LEMMA PlacedOnMesh ==
  ASSUME NEW place, NEW n \in Nat, NEW m, PlaceFits(place, n, m), NEW k \in 1 .. n
  PROVE  MeshRouterOf(place, k) \in 0 .. m - 1
<1> DEFINE R == Len(place.routers)
           p == place.per
<1>1. /\ p \in Int /\ R \in Nat /\ \A i \in 1 .. R : place.routers[i] \in 0 .. m - 1
      /\ n # 0 /\ (p # 0 => R * p = n) /\ (p = 0 => R # 0)
  <2>1. n # 0 /\ place.routers \in Seq(0 .. m - 1)
    BY DEF PlaceFits
  <2>2. R \in Nat /\ \A i \in 1 .. R : place.routers[i] \in 0 .. m - 1
    BY <2>1, LenProperties, ElementOfSeq
  <2>3. place.routers # <<>> => R # 0
    BY <2>1, EmptySeq
  <2> QED BY <2>1, <2>2, <2>3 DEF PlaceFits
<1>2. MeshRouterOf(place, k) = place.routers[IF p # 0 THEN (k - 1) \div p + 1 ELSE ((k - 1) % R) + 1]
  BY DEF MeshRouterOf
<1> HIDE DEF R, p
<1>3. CASE p # 0
  <2>1. p > 0
    <3> SUFFICES ASSUME p < 0 PROVE FALSE
      BY <1>1, <1>3
    <3> DEFINE u == R * (0 - p)
    <3>1. u \in Nat
      BY <1>1
    <3>2. u = 0 - R * p
      BY <1>1
    <3> QED BY <1>1, <1>3, <3>1, <3>2
  <2>2. p \in Nat /\ k \in 1 .. R * p
    BY <1>1, <1>3, <2>1
  <2>3. (k - 1) \div p \in 0 .. R - 1
    BY <1>1, <2>2, Loops
  <2> DEFINE d == (k - 1) \div p
  <2>4. MeshRouterOf(place, k) = place.routers[d + 1]
    BY <1>2, <1>3
  <2>5. d \in 0 .. R - 1
    BY <2>3
  <2> HIDE DEF d
  <2>6. d + 1 \in 1 .. R
    BY <1>1, <2>5
  <2> QED BY <1>1, <2>4, <2>6
<1>4. CASE p = 0
  <2>1. R \in Nat \ {0} /\ k - 1 \in Nat
    BY <1>1, <1>4
  <2>2. (k - 1) % R \in 0 .. R - 1
    BY <2>1, Quotient
  <2>3. ((k - 1) % R) + 1 \in 1 .. R
    BY <1>1, <2>2
  <2> QED BY <1>1, <1>2, <1>4, <2>3
<1> QED BY <1>3, <1>4

(* The nodes of a class, and those of all classes, with their routers. *)
ClassPairs(c, i) ==
  LET nodesOf == OfClass(CHI(c), ChiClasses[i])
  IN [k \in DOMAIN nodesOf |-> <<nodesOf[k], MeshRouterOf(c.placement[ChiClasses[i]], k)>>]
PairsOf(c) == FlattenSeq([i \in 1 .. Len(ChiClasses) |-> ClassPairs(c, i)])

PlacementFits(c, m) ==
  \A i \in 1 .. 6 : PlaceFits(c.placement[ChiClasses[i]], Len(OfClass(CHI(c), ChiClasses[i])), m)

Pairing(p, N, m) ==
  /\ IsList(p)
  /\ \A k \in 1 .. Len(p) : p[k][1] \in N /\ p[k][2] \in 0 .. m - 1
  /\ \A x \in N : \E k \in 1 .. Len(p) : p[k][1] = x
  /\ \A j, k \in 1 .. Len(p) : p[j][1] = p[k][1] => j = k

LEMMA PairsFit ==
  ASSUME NEW c, NEW N, Lists(CHI(c), N), AllFit(CHI(c)), NEW m, PlacementFits(c, m)
  PROVE  Pairing(PairsOf(c), N, m)
<1> DEFINE t == [i \in 1 .. 6 |-> OfClass(CHI(c), ChiClasses[i])]
           q == [i \in 1 .. 6 |-> ClassPairs(c, i)]
<1>1. \A i \in 1 .. 6 : Lists(t[i], {x \in N : x.class = ChiClasses[i]})
  BY ClassListed
<1>2. \A i \in 1 .. 6 : /\ Len(t[i]) \in Nat /\ DOMAIN t[i] = 1 .. Len(t[i])
                        /\ \A k \in 1 .. Len(t[i]) : t[i][k] \in N /\ t[i][k].class = ChiClasses[i]
                        /\ \A k, l \in 1 .. Len(t[i]) : t[i][k] = t[i][l] => k = l
                        /\ \A x \in N : x.class = ChiClasses[i] => \E k \in 1 .. Len(t[i]) : t[i][k] = x
  <2> SUFFICES ASSUME NEW i \in 1 .. 6
               PROVE  /\ Len(t[i]) \in Nat /\ DOMAIN t[i] = 1 .. Len(t[i])
                      /\ \A k \in 1 .. Len(t[i]) : t[i][k] \in N /\ t[i][k].class = ChiClasses[i]
                      /\ \A k, l \in 1 .. Len(t[i]) : t[i][k] = t[i][l] => k = l
                      /\ \A x \in N : x.class = ChiClasses[i] => \E k \in 1 .. Len(t[i]) : t[i][k] = x
    OBVIOUS
  <2> DEFINE s == t[i]
             X == {x \in N : x.class = ChiClasses[i]}
  <2>1. Lists(s, X)
    BY <1>1
  <2> HIDE DEF t, s
  <2>2. /\ Len(s) \in Nat /\ DOMAIN s = 1 .. Len(s) /\ \A k \in 1 .. Len(s) : s[k] \in X
        /\ \A k, l \in 1 .. Len(s) : s[k] = s[l] => k = l
        /\ \A x \in X : \E k \in 1 .. Len(s) : s[k] = x
    BY <2>1, LenProperties, ElementOfSeq DEF Lists
  <2> QED BY <2>2 DEF s
<1>3. \A i \in 1 .. 6 : /\ q[i] = [k \in 1 .. Len(t[i]) |-> q[i][k]]
                        /\ \A k \in 1 .. Len(t[i]) :
                             q[i][k] = <<t[i][k], MeshRouterOf(c.placement[ChiClasses[i]], k)>>
  BY <1>2 DEF ClassPairs
<1>4. \A i \in 1 .. 6 : \A k \in 1 .. Len(t[i]) : MeshRouterOf(c.placement[ChiClasses[i]], k) \in 0 .. m - 1
  <2>1. \A i \in 1 .. 6 : PlaceFits(c.placement[ChiClasses[i]], Len(t[i]), m)
    BY DEF PlacementFits
  <2> SUFFICES ASSUME NEW i \in 1 .. 6, NEW k \in 1 .. Len(t[i])
               PROVE  MeshRouterOf(c.placement[ChiClasses[i]], k) \in 0 .. m - 1
    OBVIOUS
  <2> DEFINE place == c.placement[ChiClasses[i]]
             n == Len(t[i])
  <2>2. PlaceFits(place, n, m)
    BY <2>1
  <2>3. n \in Nat /\ k \in 1 .. n
    BY <1>2
  <2> HIDE DEF place, n
  <2>4. MeshRouterOf(place, k) \in 0 .. m - 1
    BY <2>2, <2>3, PlacedOnMesh
  <2> QED BY <2>4 DEF place
<1>5. PairsOf(c) = FlattenSeq(q)
  BY ClassesDiffer DEF PairsOf
<1>6. DOMAIN q = 1 .. 6 /\ q = [i \in 1 .. 6 |-> q[i]]
  OBVIOUS
<1> HIDE DEF q, t
<1> DEFINE P == N \X (0 .. m - 1)
<1>0. ASSUME NEW i \in 1 .. 6, NEW k \in 1 .. Len(t[i])
      PROVE  q[i][k] \in P /\ q[i][k][1] = t[i][k]
  <2> DEFINE r == MeshRouterOf(c.placement[ChiClasses[i]], k)
  <2>1. q[i][k] = <<t[i][k], r>> /\ t[i][k] \in N /\ r \in 0 .. m - 1
    BY <1>2, <1>3, <1>4
  <2> HIDE DEF r
  <2> QED BY <2>1
<1> HIDE DEF P
<1> DEFINE S == {e \in P : \E i \in 1 .. 6 : \E k \in 1 .. Len(t[i]) : q[i][k] = e}
<1>7. \A i \in 1 .. 6 : Len(q[i]) = Len(t[i]) /\ q[i] \in Seq(S)
  <2> SUFFICES ASSUME NEW i \in 1 .. 6 PROVE Len(q[i]) = Len(t[i]) /\ q[i] \in Seq(S)
    OBVIOUS
  <2>1. \A k \in 1 .. Len(t[i]) : q[i][k] \in P
    BY <1>0
  <2>2. \A k \in 1 .. Len(t[i]) : q[i][k] \in S
    BY <2>1
  <2> HIDE DEF S
  <2> DEFINE f == q[i]
             l == Len(t[i])
  <2>3. l \in Nat /\ f = [k \in 1 .. l |-> f[k]] /\ \A k \in 1 .. l : f[k] \in S
    BY <1>2, <1>3, <2>2
  <2> HIDE DEF f, l
  <2>4. f \in Seq(S)
    BY <2>3, IsASeq
  <2>5. Len(f) = l
    BY <2>3, LoopIsList
  <2> QED BY <2>4, <2>5 DEF f, l
<1>8. Len(q) = 6 /\ q \in Seq(Seq(S))
  <2> HIDE DEF S
  <2>1. \A i \in 1 .. 6 : q[i] \in Seq(S)
    BY <1>7
  <2>2. q \in Seq(Seq(S))
    BY <1>6, <2>1, IsASeq
  <2>3. Len(q) = 6
    BY <1>6, LoopIsList
  <2> QED BY <2>2, <2>3
<1>9. ASSUME NEW i \in 1 .. 6, NEW j \in 1 .. 6, NEW k \in 1 .. Len(t[i]), NEW l \in 1 .. Len(t[j]),
             q[i][k][1] = q[j][l][1]
      PROVE  i = j /\ k = l
  <2>1. t[i][k] = t[j][l]
    BY <1>0, <1>9
  <2>2. ChiClasses[i] = ChiClasses[j]
    <3>1. t[i][k].class = ChiClasses[i] /\ t[j][l].class = ChiClasses[j]
      BY <1>2
    <3> QED BY <2>1, <3>1
  <2>3. i = j
    BY <2>2, ClassesDiffer
  <2> QED BY <1>2, <2>1, <2>3
<1>10. ListsOf(q, S)
  <2>1. \A x \in S : \E i \in 1 .. 6 : \E k \in 1 .. Len(t[i]) : q[i][k] = x
    OBVIOUS
  <2> HIDE DEF S
  <2>2. \A i, j \in 1 .. 6 : \A k \in 1 .. Len(t[i]) : \A l \in 1 .. Len(t[j]) : q[i][k] = q[j][l] => i = j /\ k = l
    BY <1>9
  <2>3. \A x \in S : \E i \in 1 .. Len(q) : \E k \in 1 .. Len(q[i]) : q[i][k] = x
    BY <1>7, <1>8, <2>1
  <2>4. \A i, j \in 1 .. Len(q) : \A k \in 1 .. Len(q[i]) : \A l \in 1 .. Len(q[j]) :
          q[i][k] = q[j][l] => i = j /\ k = l
    BY <1>7, <1>8, <2>2
  <2> QED BY <1>8, <2>3, <2>4 DEF ListsOf
<1> DEFINE p == PairsOf(c)
<1>11. Lists(p, S)
  <2> HIDE DEF S
  <2> QED BY <1>5, <1>10, ListsFlatten
<1> HIDE DEF p
<1>12. /\ IsList(p) /\ Len(p) \in Nat /\ \A k \in 1 .. Len(p) : p[k] \in S
       /\ \A x \in S : \E k \in 1 .. Len(p) : p[k] = x
       /\ \A j, k \in 1 .. Len(p) : p[j] = p[k] => j = k
  <2> HIDE DEF S
  <2> QED BY <1>11, LenProperties, ElementOfSeq DEF Lists, IsList
<1>13. ASSUME NEW d \in S, NEW e \in S, d[1] = e[1] PROVE d = e
  <2>1. PICK i \in 1 .. 6 : \E k \in 1 .. Len(t[i]) : q[i][k] = d
    OBVIOUS
  <2>2. PICK j \in 1 .. 6 : \E l \in 1 .. Len(t[j]) : q[j][l] = e
    OBVIOUS
  <2>3. PICK k \in 1 .. Len(t[i]) : q[i][k] = d
    BY <2>1
  <2>4. PICK l \in 1 .. Len(t[j]) : q[j][l] = e
    BY <2>2
  <2>5. i = j /\ k = l
    <3>1. q[i][k][1] = q[j][l][1]
      BY <1>13, <2>3, <2>4
    <3> HIDE DEF S
    <3> QED BY <1>9, <3>1
  <2> QED BY <2>3, <2>4, <2>5
<1>14. ASSUME NEW x \in N PROVE \E k \in 1 .. Len(p) : p[k][1] = x
  <2>1. PICK i \in 1 .. 6 : x.class = ChiClasses[i]
    <3>1. PICK k \in 1 .. Len(CHI(c)) : CHI(c)[k] = x
      BY <1>14 DEF Lists
    <3>2. \E i \in 1 .. 6 : ChiClasses[i] = x.class
      BY <3>1 DEF AllFit, ChiNodeFits
    <3> QED BY <3>2
  <2>2. PICK k \in 1 .. Len(t[i]) : t[i][k] = x
    BY <1>2, <2>1
  <2>3. q[i][k] \in P /\ q[i][k][1] = x
    BY <1>0, <2>2
  <2>4. q[i][k] \in S
    BY <2>3
  <2> QED BY <1>12, <2>3, <2>4
<1>15. \A k \in 1 .. Len(p) : p[k][1] \in N /\ p[k][2] \in 0 .. m - 1
  BY <1>12 DEF P
<1>16. \A j, k \in 1 .. Len(p) : p[j][1] = p[k][1] => j = k
  <2> HIDE DEF S
  <2> QED BY <1>12, <1>13
<1>17. Pairing(p, N, m)
  BY <1>12, <1>14, <1>15, <1>16 DEF Pairing
<1> QED BY <1>17 DEF p

(* Numbers below a bound, and links whose numbers go on from it. *)
Ids(s, bound) ==
  /\ IsList(s) /\ bound \in Nat /\ \A k \in 1 .. Len(s) : s[k].id \in 0 .. bound - 1
  /\ \A j, k \in 1 .. Len(s) : s[j].id = s[k].id => j = k
ApartIds(s, t) == \A j \in 1 .. Len(s) : \A k \in 1 .. Len(t) : s[j].id # t[k].id
GoOn(s, bound) == IsList(s) /\ \A k \in 1 .. Len(s) : s[k].id = bound + k - 1

LEMMA MoreIds ==
  ASSUME NEW s, NEW t, NEW more, NEW bound, Ids(s, bound), Ids(t, bound), ApartIds(s, t), GoOn(more, bound)
  PROVE  /\ Ids(s \o more, bound + Len(more)) /\ Ids(t, bound + Len(more))
         /\ ApartIds(s \o more, t) /\ ApartIds(t, s \o more)
<1> DEFINE both == s \o more
           a == Len(s)
           b == Len(more)
<1>1. IsList(s) /\ IsList(t) /\ IsList(more) /\ bound \in Nat
  BY DEF Ids, GoOn
<1>2. /\ IsList(both) /\ a \in Nat /\ b \in Nat /\ Len(both) = a + b
      /\ \A i \in 1 .. a + b : both[i] = IF i <= a THEN s[i] ELSE more[i - a]
  BY <1>1, JoinedLists
<1>3. /\ \A k \in 1 .. a : s[k].id \in 0 .. bound - 1
      /\ \A j, k \in 1 .. a : s[j].id = s[k].id => j = k
      /\ \A k \in 1 .. b : more[k].id = bound + k - 1
      /\ \A k \in 1 .. Len(t) : t[k].id \in 0 .. bound - 1
      /\ \A j, k \in 1 .. Len(t) : t[j].id = t[k].id => j = k
      /\ \A j \in 1 .. a : \A k \in 1 .. Len(t) : s[j].id # t[k].id
  BY DEF Ids, GoOn, ApartIds
<1> HIDE DEF both, a, b
<1>4. ASSUME NEW i \in 1 .. a + b
      PROVE  /\ i <= a => i \in 1 .. a /\ both[i] = s[i] /\ both[i].id \in 0 .. bound - 1
             /\ ~(i <= a) => both[i].id = bound + (i - a) - 1
  <2>1. CASE i <= a
    <3>1. i \in 1 .. a
      BY <1>2, <2>1
    <3> QED BY <1>2, <1>3, <2>1, <3>1
  <2>2. CASE ~(i <= a)
    <3>1. i - a \in 1 .. b
      BY <1>2, <2>2
    <3> QED BY <1>2, <1>3, <2>2, <3>1
  <2> QED BY <2>1, <2>2
<1>5. \A i \in 1 .. a + b : both[i].id \in 0 .. bound + b - 1
  <2> SUFFICES ASSUME NEW i \in 1 .. a + b PROVE both[i].id \in 0 .. bound + b - 1
    OBVIOUS
  <2> DEFINE v == both[i].id
  <2>1. (i <= a => v \in 0 .. bound - 1) /\ (~(i <= a) => v = bound + (i - a) - 1)
    BY <1>4
  <2> HIDE DEF v
  <2>2. v \in 0 .. bound + b - 1
    BY <1>1, <1>2, <2>1
  <2> QED BY <2>2 DEF v
<1>6. ASSUME NEW i \in 1 .. a + b, NEW j \in 1 .. a + b, both[i].id = both[j].id PROVE i = j
  <2> DEFINE v == both[i].id
             w == both[j].id
  <2>1. /\ i <= a => v \in 0 .. bound - 1
        /\ ~(i <= a) => v = bound + (i - a) - 1
        /\ j <= a => w \in 0 .. bound - 1
        /\ ~(j <= a) => w = bound + (j - a) - 1
        /\ v = w
    BY <1>4, <1>6
  <2>2. (i <= a) /\ (j <= a) => s[i].id = s[j].id /\ i \in 1 .. a /\ j \in 1 .. a
    BY <1>4, <1>6
  <2> HIDE DEF v, w
  <2>3. \/ (i <= a) /\ (j <= a)
        \/ ~(i <= a) /\ ~(j <= a) /\ bound + (i - a) - 1 = bound + (j - a) - 1
    BY <1>1, <1>2, <2>1
  <2>4. CASE (i <= a) /\ (j <= a)
    BY <1>3, <2>2, <2>4
  <2>5. CASE bound + (i - a) - 1 = bound + (j - a) - 1
    BY <1>1, <1>2, <2>5
  <2> QED BY <2>3, <2>4, <2>5
<1>7. ASSUME NEW i \in 1 .. a + b, NEW k \in 1 .. Len(t) PROVE both[i].id # t[k].id
  <2>1. CASE i <= a
    BY <1>3, <1>4, <2>1
  <2>2. CASE ~(i <= a)
    <3>1. both[i].id = bound + (i - a) - 1 /\ t[k].id \in 0 .. bound - 1
      BY <1>3, <1>4, <2>2
    <3>2. \A v, w : v = bound + (i - a) - 1 /\ w \in 0 .. bound - 1 => v # w
      BY <1>1, <1>2, <2>2
    <3> QED BY <3>1, <3>2
  <2> QED BY <2>1, <2>2
<1>8. Ids(both, bound + b)
  <2>1. bound + b \in Nat
    BY <1>1, <1>2
  <2> QED BY <1>2, <1>5, <1>6, <2>1 DEF Ids
<1>9. Ids(t, bound + b)
  <2> DEFINE u == bound + b
  <2>1. u \in Nat /\ \A v \in 0 .. bound - 1 : v \in 0 .. u - 1
    BY <1>1, <1>2
  <2>2. \A k \in 1 .. Len(t) : t[k].id \in 0 .. u - 1
    BY <1>3, <2>1
  <2> HIDE DEF u
  <2>3. Ids(t, u)
    BY <1>1, <1>3, <2>1, <2>2 DEF Ids
  <2> QED BY <2>3 DEF u
<1>10. ApartIds(both, t) /\ ApartIds(t, both)
  BY <1>2, <1>7 DEF ApartIds
<1> QED BY <1>8, <1>9, <1>10 DEF both, b

(* The links of a network have numbers below how many they are. *)
IdsBelow(n) ==
  /\ Ids(n.ext, Len(n.ext) + Len(n.int)) /\ Ids(n.int, Len(n.ext) + Len(n.int))
  /\ ApartIds(n.ext, n.int)

LEMMA BelowIsUnique ==
  ASSUME NEW n, IdsBelow(n)
  PROVE  IdsUnique(n, DOMAIN n.ext, TRUE)
<1>1. IsList(n.ext) /\ IsList(n.int)
  BY DEF IdsBelow, Ids
<1>2. DOMAIN n.ext = 1 .. Len(n.ext) /\ DOMAIN n.int = 1 .. Len(n.int)
  BY <1>1, JoinedLists
<1> QED BY <1>2 DEF IdsBelow, Ids, ApartIds, IdsUnique

LEMMA IntLinksGoOn ==
  ASSUME NEW pairs, IsList(pairs), NEW bound, NEW l, l = IntLinks(bound, pairs)
  PROVE  /\ GoOn(l, bound) /\ Len(l) = Len(pairs)
         /\ \A k \in 1 .. Len(l) : l[k].src = pairs[k][1] /\ l[k].dst = pairs[k][2] /\ l[k].weight = pairs[k][3]
<1>1. DOMAIN pairs = 1 .. Len(pairs) /\ Len(pairs) \in Nat
  BY JoinedLists
<1>2. /\ l = [k \in 1 .. Len(pairs) |-> l[k]]
      /\ \A k \in 1 .. Len(pairs) : /\ l[k].src = pairs[k][1] /\ l[k].dst = pairs[k][2] /\ l[k].weight = pairs[k][3]
                                    /\ l[k].id = bound + k - 1
  BY <1>1 DEF IntLinks
<1>3. IsList(l) /\ Len(l) = Len(pairs)
  BY <1>1, <1>2, LoopIsList
<1> QED BY <1>2, <1>3 DEF GoOn

LEMMA ExtLinksGoOn ==
  ASSUME NEW t, IsList(t), NEW r, NEW bound, NEW l, l = ExtLinks(bound, OnRouter(t, r))
  PROVE  /\ GoOn(l, bound) /\ Len(l) = Len(t)
         /\ \A k \in 1 .. Len(l) : l[k].node = t[k] /\ l[k].router = r
<1>1. DOMAIN t = 1 .. Len(t) /\ Len(t) \in Nat
  BY JoinedLists
<1>2. /\ l = [k \in 1 .. Len(t) |-> l[k]]
      /\ \A k \in 1 .. Len(t) : l[k].node = t[k] /\ l[k].router = r /\ l[k].id = bound + k - 1
  BY <1>1 DEF ExtLinks, OnRouter
<1>3. IsList(l) /\ Len(l) = Len(t)
  BY <1>1, <1>2, LoopIsList
<1> QED BY <1>2, <1>3 DEF GoOn

(* A round of distributeNodes(): b are the links it makes between a new    *)
(* router and x, or none; the controllers t get the router r.              *)
Round(n, m, t, x, b, r) ==
  /\ IsList(b)
  /\ m.ext = n.ext \o ExtLinks(Len(n.ext) + Len(n.int) + Len(b), OnRouter(t, r))
  /\ m.int = n.int \o IntLinks(Len(n.ext) + Len(n.int), b)
  /\ \/ /\ Len(b) = 2 /\ b[1] = <<r, x, 1>> /\ b[2] = <<x, r, 1>>
        /\ r = n.routers /\ m.routers = n.routers + 1
     \/ Len(b) = 0 /\ r = x /\ m.routers = n.routers

LEMMA NetworkIs ==
  \A a, e, i : Network(a, e, i).routers = a /\ Network(a, e, i).ext = e /\ Network(a, e, i).int = i
  BY DEF Network

LEMMA DistributeIsRound ==
  ASSUME NEW n, n.routers \in Nat, NEW p, NEW m, m = Distribute(n, p)
  PROVE  \E b, r : Round(n, m, p[1].controllers, p[2], b, r)
<1> DEFINE t == p[1].controllers
           x == p[2]
           links == Len(n.ext) + Len(n.int)
<1>1. CASE p[1].class = "RNF"
  <2> DEFINE r == n.routers
             b == <<<<r, x, 1>>, <<x, r, 1>>>>
  <2>1. m = Network(n.routers + 1, n.ext \o ExtLinks(links + Len(b), OnRouter(t, r)), n.int \o IntLinks(links, b))
    BY <1>1 DEF Distribute, OnRouter
  <2>2. b = [k \in 1 .. 2 |-> b[k]] /\ b[1] = <<r, x, 1>> /\ b[2] = <<x, r, 1>>
    OBVIOUS
  <2> HIDE DEF b, x, t, links
  <2>3. IsList(b) /\ Len(b) = 2
    <3>1. 2 \in Nat
      OBVIOUS
    <3> QED BY <2>2, <3>1, LoopIsList
  <2> DEFINE e == n.ext \o ExtLinks(links + Len(b), OnRouter(t, r))
             i == n.int \o IntLinks(links, b)
  <2>4. m.routers = n.routers + 1 /\ m.ext = e /\ m.int = i
    <3>1. m = Network(n.routers + 1, e, i)
      BY <2>1
    <3> HIDE DEF e, i
    <3> QED BY <3>1, NetworkIs
  <2>5. Round(n, m, t, x, b, r)
    BY <2>2, <2>3, <2>4 DEF Round, links
  <2> QED BY <2>5 DEF x, t
<1>2. CASE p[1].class # "RNF"
  <2> DEFINE b == <<>>
  <2>1. m = Network(n.routers + 0, n.ext \o ExtLinks(links + Len(b), OnRouter(t, x)), n.int \o IntLinks(links, b))
    BY <1>2 DEF Distribute, OnRouter
  <2>2. IsList(b) /\ Len(b) = 0
    BY EmptySeq DEF IsList
  <2> HIDE DEF b, x, t, links
  <2> DEFINE e == n.ext \o ExtLinks(links + Len(b), OnRouter(t, x))
             i == n.int \o IntLinks(links, b)
  <2>3. m.routers = n.routers /\ m.ext = e /\ m.int = i
    <3>1. m = Network(n.routers, e, i)
      BY <2>1
    <3> HIDE DEF e, i
    <3> QED BY <3>1, NetworkIs
  <2>4. Round(n, m, t, x, b, x)
    BY <2>2, <2>3 DEF Round, links
  <2> QED BY <2>4 DEF x, t
<1> QED BY <1>1, <1>2

LEMMA RoundKeepsIds ==
  ASSUME NEW n, NEW m, NEW t, NEW x, NEW b, NEW r, Round(n, m, t, x, b, r), IdsBelow(n), IsList(t)
  PROVE  IdsBelow(m)
<1> DEFINE bound == Len(n.ext) + Len(n.int)
           int == IntLinks(bound, b)
           next == bound + Len(int)
           ext == ExtLinks(next, OnRouter(t, r))
<1>1. Ids(n.ext, bound) /\ Ids(n.int, bound) /\ ApartIds(n.ext, n.int)
  BY DEF IdsBelow
<1>2. ApartIds(n.int, n.ext)
  BY <1>1 DEF ApartIds
<1>3. IsList(b) /\ GoOn(int, bound) /\ Len(int) = Len(b)
  BY IntLinksGoOn DEF Round
<1>4. GoOn(ext, next) /\ Len(ext) = Len(t)
  <2> HIDE DEF next
  <2> QED BY ExtLinksGoOn
<1>5. m.int = n.int \o int /\ m.ext = n.ext \o ext
  BY <1>3 DEF Round
<1> HIDE DEF int
<1>6. /\ Ids(n.int \o int, next) /\ Ids(n.ext, next) /\ ApartIds(n.ext, n.int \o int)
  BY <1>1, <1>2, <1>3, MoreIds
<1> DEFINE last == next + Len(ext)
<1> HIDE DEF ext, next
<1>7. Ids(n.ext \o ext, last) /\ Ids(n.int \o int, last) /\ ApartIds(n.ext \o ext, n.int \o int)
  BY <1>4, <1>6, MoreIds
<1>8. last = Len(m.ext) + Len(m.int)
  <2>1. IsList(n.ext) /\ IsList(n.int) /\ IsList(ext) /\ IsList(int)
    BY <1>1, <1>3, <1>4 DEF Ids, GoOn
  <2>2. Len(n.ext \o ext) = Len(n.ext) + Len(ext) /\ Len(n.ext) \in Nat /\ Len(ext) \in Nat
    BY <2>1, JoinedLists
  <2>3. Len(n.int \o int) = Len(n.int) + Len(int) /\ Len(n.int) \in Nat /\ Len(int) \in Nat
    BY <2>1, JoinedLists
  <2>4. Len(m.ext) = Len(n.ext) + Len(ext) /\ Len(m.int) = Len(n.int) + Len(int)
    BY <1>5, <2>2, <2>3
  <2> DEFINE a == Len(n.ext)
             d == Len(n.int)
             e == Len(ext)
             i == Len(int)
  <2>5. a \in Nat /\ d \in Nat /\ e \in Nat /\ i \in Nat /\ Len(m.ext) = a + e /\ Len(m.int) = d + i
    BY <2>2, <2>3, <2>4
  <2>6. last = a + d + i + e
    BY DEF next
  <2> HIDE DEF a, d, e, i, last, bound
  <2> QED BY <2>5, <2>6
<1> HIDE DEF last
<1> QED BY <1>5, <1>7, <1>8 DEF IdsBelow

(* The external links of n are those of the controllers s. *)
Carries(n, s) ==
  /\ IsList(n.ext) /\ IsList(s) /\ Len(n.ext) = Len(s)
  /\ \A k \in 1 .. Len(s) : n.ext[k].node = s[k] /\ n.ext[k].router \in Routers(n)

LEMMA RoundCarries ==
  ASSUME NEW n, NEW m, NEW t, NEW x, NEW b, NEW r, Round(n, m, t, x, b, r), IsList(t), NEW s, Carries(n, s),
         n.routers \in Nat, x \in Routers(n)
  PROVE  Carries(m, s \o t)
<1> DEFINE first == Len(n.ext) + Len(n.int) + Len(b)
           ext == ExtLinks(first, OnRouter(t, r))
<1>1. /\ IsList(ext) /\ Len(ext) = Len(t)
      /\ \A k \in 1 .. Len(t) : ext[k].node = t[k] /\ ext[k].router = r
  <2> HIDE DEF first
  <2>1. GoOn(ext, first) /\ Len(ext) = Len(t) /\ \A k \in 1 .. Len(ext) : ext[k].node = t[k] /\ ext[k].router = r
    BY ExtLinksGoOn
  <2> HIDE DEF ext
  <2> QED BY <2>1 DEF GoOn
<1>2. m.ext = n.ext \o ext
  BY DEF Round
<1> HIDE DEF ext
<1>3. r \in Routers(m) /\ \A i \in Routers(n) : i \in Routers(m)
  BY DEF Round, Routers
<1>4. IsList(n.ext) /\ IsList(s) /\ Len(n.ext) = Len(s)
  BY DEF Carries
<1>5. /\ IsList(m.ext) /\ Len(m.ext) = Len(n.ext) + Len(ext)
      /\ \A k \in 1 .. Len(n.ext) + Len(ext) : m.ext[k] = IF k <= Len(n.ext) THEN n.ext[k] ELSE ext[k - Len(n.ext)]
  <2> DEFINE old == n.ext
  <2>1. IsList(old) /\ IsList(ext)
    BY <1>1, <1>4
  <2> HIDE DEF old
  <2>2. /\ IsList(old \o ext) /\ Len(old \o ext) = Len(old) + Len(ext)
        /\ \A k \in 1 .. Len(old) + Len(ext) : (old \o ext)[k] = IF k <= Len(old) THEN old[k] ELSE ext[k - Len(old)]
    BY <2>1, JoinedLists
  <2> QED BY <1>2, <2>2 DEF old
<1>6. /\ IsList(s \o t) /\ Len(s \o t) = Len(s) + Len(t) /\ Len(s) \in Nat /\ Len(t) \in Nat
      /\ \A k \in 1 .. Len(s) + Len(t) : (s \o t)[k] = IF k <= Len(s) THEN s[k] ELSE t[k - Len(s)]
  BY <1>4, JoinedLists
<1>7. ASSUME NEW k \in 1 .. Len(s) + Len(t)
      PROVE  m.ext[k].node = (s \o t)[k] /\ m.ext[k].router \in Routers(m)
  <2>1. k \in 1 .. Len(n.ext) + Len(ext)
    BY <1>1, <1>4
  <2>2. CASE k <= Len(s)
    <3>1. k \in 1 .. Len(s) /\ m.ext[k] = n.ext[k] /\ (s \o t)[k] = s[k]
      BY <1>4, <1>5, <1>6, <2>1, <2>2
    <3> QED BY <1>3, <3>1 DEF Carries
  <2>3. CASE ~(k <= Len(s))
    <3>1. k - Len(s) \in 1 .. Len(t) /\ m.ext[k] = ext[k - Len(s)] /\ (s \o t)[k] = t[k - Len(s)]
      BY <1>4, <1>5, <1>6, <2>1, <2>3
    <3> QED BY <1>1, <1>3, <3>1
  <2> QED BY <2>2, <2>3
<1> QED BY <1>1, <1>4, <1>5, <1>6, <1>7 DEF Carries

(* The mesh and the request nodes' routers so far. *)
OnMeshNow(n, rows, cols) ==
  /\ n.routers \in Nat /\ IntEnds(n)
  /\ \E hub : /\ OnMesh(n, rows, cols, hub)
              /\ Joins(n) = MeshJoins(rows, cols, Weights(1, 1, 2, 2)) \cup LeafJoins(hub)

(* A new router that hangs on x. *)
LEMMA NewLeaf ==
  ASSUME NEW n, NEW m, NEW rows, NEW cols, NEW hub, OnMesh(n, rows, cols, hub), m.routers = n.routers + 1,
         NEW x \in 0 .. rows * cols - 1, NEW r, r = n.routers
  PROVE  \E new : /\ OnMesh(m, rows, cols, new)
                  /\ LeafJoins(new) = LeafJoins(hub) \cup {<<r, x, 1>>, <<x, r, 1>>}
<1> DEFINE top == rows * cols
           new == [q \in Routers(m) |-> IF q = r THEN x ELSE hub[q]]
<1>1. /\ rows \in Nat \ {0} /\ cols \in Nat \ {0} /\ r \in Nat /\ top <= r
      /\ hub \in [Routers(n) -> 0 .. top - 1] /\ \A q \in 0 .. top - 1 : hub[q] = q
  BY DEF OnMesh
<1>2. top \in Nat /\ x \in 0 .. top - 1
  BY <1>1
<1> HIDE DEF top
<1>3. Routers(m) = Routers(n) \cup {r} /\ r \notin Routers(n) /\ r \in Routers(m) /\ x # r /\ m.routers \in Nat /\ top <= m.routers
  BY <1>1, <1>2 DEF Routers
<1>4. /\ new[r] = x /\ DOMAIN new = Routers(n) \cup {r}
      /\ \A q \in Routers(n) : new[q] = hub[q]
  BY <1>3
<1>5. new \in [Routers(m) -> 0 .. top - 1]
  <2>1. \A q \in Routers(m) : new[q] \in 0 .. top - 1
    BY <1>1, <1>2, <1>3, <1>4
  <2> QED BY <2>1
<1>6. \A q \in 0 .. top - 1 : new[q] = q
  <2> SUFFICES ASSUME NEW q \in 0 .. top - 1 PROVE new[q] = q
    OBVIOUS
  <2>1. q \in Routers(n)
    BY <1>1, <1>2 DEF Routers
  <2> QED BY <1>1, <1>4, <2>1
<1> HIDE DEF new
<1>7. OnMesh(m, rows, cols, new)
  BY <1>1, <1>3, <1>5, <1>6 DEF OnMesh, top
<1>8. DOMAIN hub = Routers(n)
  BY <1>1
<1>9. Leaves(new) = Leaves(hub) \cup {r} /\ new[r] = x /\ \A q \in Leaves(hub) : new[q] = hub[q]
  BY <1>3, <1>4, <1>8 DEF Leaves
<1>10. LeafJoins(new) = LeafJoins(hub) \cup {<<r, x, 1>>, <<x, r, 1>>}
  <2> DEFINE A == Leaves(hub)
  <2>1. {<<q, new[q], 1>> : q \in Leaves(new)} = {<<q, hub[q], 1>> : q \in A} \cup {<<r, x, 1>>}
    <3> HIDE DEF A
    <3>1. \A q \in A : <<q, new[q], 1>> = <<q, hub[q], 1>>
      BY <1>9 DEF A
    <3>2. Leaves(new) = A \cup {r}
      BY <1>9 DEF A
    <3> QED BY <1>9, <3>1, <3>2
  <2>2. {<<new[q], q, 1>> : q \in Leaves(new)} = {<<hub[q], q, 1>> : q \in A} \cup {<<x, r, 1>>}
    <3> HIDE DEF A
    <3>1. \A q \in A : <<new[q], q, 1>> = <<hub[q], q, 1>>
      BY <1>9 DEF A
    <3>2. Leaves(new) = A \cup {r}
      BY <1>9 DEF A
    <3> QED BY <1>9, <3>1, <3>2
  <2> QED BY <2>1, <2>2 DEF LeafJoins
<1> QED BY <1>7, <1>10

LEMMA RoundOnMesh ==
  ASSUME NEW n, NEW m, NEW t, NEW x, NEW b, NEW r, Round(n, m, t, x, b, r), IsList(n.int),
         NEW rows, NEW cols, OnMeshNow(n, rows, cols), x \in 0 .. rows * cols - 1
  PROVE  OnMeshNow(m, rows, cols)
<1> DEFINE first == Len(n.ext) + Len(n.int)
           new == IntLinks(first, b)
           k == Len(n.int)
           W == MeshJoins(rows, cols, Weights(1, 1, 2, 2))
<1>1. PICK hub : OnMesh(n, rows, cols, hub) /\ Joins(n) = W \cup LeafJoins(hub)
  BY DEF OnMeshNow
<1>2. /\ IsList(new) /\ Len(new) = Len(b)
      /\ \A j \in 1 .. Len(b) : new[j].src = b[j][1] /\ new[j].dst = b[j][2] /\ new[j].weight = b[j][3]
  <2>1. IsList(b)
    BY DEF Round
  <2> HIDE DEF first
  <2>2. /\ GoOn(new, first) /\ Len(new) = Len(b)
        /\ \A j \in 1 .. Len(new) : new[j].src = b[j][1] /\ new[j].dst = b[j][2] /\ new[j].weight = b[j][3]
    BY <2>1, IntLinksGoOn
  <2> HIDE DEF new
  <2> QED BY <2>2 DEF GoOn
<1>3. m.int = n.int \o new
  BY DEF Round
<1> HIDE DEF new
<1>4. /\ k \in Nat /\ DOMAIN n.int = 1 .. k /\ DOMAIN m.int = 1 .. k + Len(b)
      /\ \A i \in 1 .. k + Len(b) : m.int[i] = IF i <= k THEN n.int[i] ELSE new[i - k]
  <2> DEFINE old == n.int
  <2> HIDE DEF old
  <2>1. /\ Len(old) \in Nat /\ DOMAIN old = 1 .. Len(old) /\ DOMAIN (old \o new) = 1 .. Len(old) + Len(new)
        /\ \A i \in 1 .. Len(old) + Len(new) : (old \o new)[i] = IF i <= Len(old) THEN old[i] ELSE new[i - Len(old)]
    <3>1. IsList(old) /\ IsList(new)
      BY <1>2 DEF old
    <3> QED BY <3>1, JoinedLists
  <2> QED BY <1>2, <1>3, <2>1 DEF old
<1> HIDE DEF k
<1>5. \A i \in 1 .. k : n.int[i].src \in Routers(n) /\ n.int[i].dst \in Routers(n)
  <2>1. PICK l \in Nat : /\ DOMAIN n.int = 1 .. l
                         /\ \A i \in 1 .. l : n.int[i].src \in Routers(n) /\ n.int[i].dst \in Routers(n)
    BY DEF OnMeshNow, IntEnds
  <2>2. \A i \in 1 .. k : i \in 1 .. l
    BY <1>4, <2>1
  <2> QED BY <2>1, <2>2
<1>6. CASE Len(b) = 0
  <2>1. m.routers = n.routers /\ Routers(m) = Routers(n)
    BY <1>6 DEF Round, Routers
  <2>2. DOMAIN m.int = 1 .. k /\ \A i \in 1 .. k : m.int[i] = n.int[i]
    BY <1>4, <1>6
  <2>3. Joins(m) = Joins(n)
    BY <1>4, <2>2 DEF Joins
  <2>4. OnMesh(m, rows, cols, hub)
    BY <1>1, <2>1 DEF OnMesh
  <2>5. IntEnds(m)
    BY <1>4, <1>5, <2>1, <2>2 DEF IntEnds
  <2>6. m.routers \in Nat
    BY <2>1 DEF OnMeshNow
  <2> QED BY <1>1, <2>3, <2>4, <2>5, <2>6 DEF OnMeshNow
<1>7. CASE Len(b) = 2
  <2>1. /\ r = n.routers /\ m.routers = n.routers + 1 /\ b[1] = <<r, x, 1>> /\ b[2] = <<x, r, 1>>
        /\ n.routers \in Nat
    BY <1>7 DEF Round, OnMeshNow
  <2>2. PICK hub2 : /\ OnMesh(m, rows, cols, hub2)
                    /\ LeafJoins(hub2) = LeafJoins(hub) \cup {<<r, x, 1>>, <<x, r, 1>>}
    BY <1>1, <2>1, NewLeaf
  <2>3. /\ new[1].src = r /\ new[1].dst = x /\ new[1].weight = 1
        /\ new[2].src = x /\ new[2].dst = r /\ new[2].weight = 1
    <3>1. 1 \in 1 .. Len(b) /\ 2 \in 1 .. Len(b)
      BY <1>7
    <3> QED BY <1>2, <2>1, <3>1
  <2>4. /\ \A i \in 1 .. k : i \in 1 .. k + 2 /\ m.int[i] = n.int[i]
        /\ k + 1 \in 1 .. k + 2 /\ k + 2 \in 1 .. k + 2 /\ m.int[k + 1] = new[1] /\ m.int[k + 2] = new[2]
        /\ \A i \in 1 .. k + 2 : i \in 1 .. k \/ i = k + 1 \/ i = k + 2
        /\ DOMAIN m.int = 1 .. k + 2
    BY <1>4, <1>7
  <2>5. Joins(m) = Joins(n) \cup {<<r, x, 1>>, <<x, r, 1>>}
    <3> DEFINE f == [i \in DOMAIN m.int |-> <<m.int[i].src, m.int[i].dst, m.int[i].weight>>]
               g == [i \in DOMAIN n.int |-> <<n.int[i].src, n.int[i].dst, n.int[i].weight>>]
    <3>1. Joins(m) = {f[i] : i \in 1 .. k + 2} /\ Joins(n) = {g[i] : i \in 1 .. k}
      BY <1>4, <2>4 DEF Joins
    <3>2. (\A i \in 1 .. k : f[i] = g[i]) /\ f[k + 1] = <<r, x, 1>> /\ f[k + 2] = <<x, r, 1>>
      BY <1>4, <2>3, <2>4
    <3> HIDE DEF f, g
    <3>3. ASSUME NEW z \in Joins(m) PROVE z \in Joins(n) \cup {<<r, x, 1>>, <<x, r, 1>>}
      <4>1. PICK i \in 1 .. k + 2 : z = f[i]
        BY <3>1
      <4> QED BY <2>4, <3>1, <3>2, <4>1
    <3>4. ASSUME NEW z \in Joins(n) PROVE z \in Joins(m)
      <4>1. PICK i \in 1 .. k : z = g[i]
        BY <3>1
      <4> QED BY <2>4, <3>1, <3>2, <4>1
    <3>5. <<r, x, 1>> \in Joins(m) /\ <<x, r, 1>> \in Joins(m)
      BY <2>4, <3>1, <3>2
    <3> QED BY <3>3, <3>4, <3>5
  <2>6. Joins(m) = W \cup LeafJoins(hub2)
    <3> HIDE DEF W
    <3> QED BY <1>1, <2>2, <2>5
  <2>7. IntEnds(m)
    <3>1. r \in Routers(m) /\ x \in Routers(m) /\ \A q \in Routers(n) : q \in Routers(m)
      <4>1. r \in Routers(m) /\ \A q \in Routers(n) : q \in Routers(m)
        BY <2>1 DEF Routers
      <4> DEFINE top == rows * cols
      <4>2. rows \in Nat /\ cols \in Nat /\ top <= n.routers
        BY <1>1 DEF OnMesh
      <4>3. top \in Nat /\ x \in 0 .. top - 1
        BY <4>2
      <4> HIDE DEF top
      <4>4. x \in Routers(m)
        BY <2>1, <4>2, <4>3 DEF Routers
      <4> QED BY <4>1, <4>4
    <3>2. \A i \in 1 .. k + 2 : m.int[i].src \in Routers(m) /\ m.int[i].dst \in Routers(m)
      <4> SUFFICES ASSUME NEW i \in 1 .. k + 2 PROVE m.int[i].src \in Routers(m) /\ m.int[i].dst \in Routers(m)
        OBVIOUS
      <4>1. CASE i \in 1 .. k
        BY <1>5, <2>4, <3>1, <4>1
      <4>2. CASE i = k + 1
        BY <2>3, <2>4, <3>1, <4>2
      <4>3. CASE i = k + 2
        BY <2>3, <2>4, <3>1, <4>3
      <4> QED BY <2>4, <4>1, <4>2, <4>3
    <3>3. k + 2 \in Nat
      BY <1>4
    <3> QED BY <2>4, <3>2, <3>3 DEF IntEnds
  <2>8. m.routers \in Nat
    BY <2>1
  <2> QED BY <2>2, <2>6, <2>7, <2>8 DEF OnMeshNow
<1> QED BY <1>6, <1>7 DEF Round

(* The controllers of nodes, in the order in which they are placed. *)
PlacedControllers(p) == [k \in 1 .. Len(p) |-> p[k][1].controllers]

LEMMA PlacedList ==
  ASSUME NEW s, NEW S, NodesOf(s, S), NEW N, Lists(s, N), NEW p, NEW m, Pairing(p, N, m)
  PROVE  ListsOf(PlacedControllers(p), S)
<1> DEFINE q == ControllersOf(s)
           w == PlacedControllers(p)
<1>1. /\ q \in Seq(Seq(S))
      /\ \A x \in S : \E i \in 1 .. Len(q) : \E k \in 1 .. Len(q[i]) : q[i][k] = x
      /\ \A i, j \in 1 .. Len(q) : \A k \in 1 .. Len(q[i]) : \A l \in 1 .. Len(q[j]) :
           q[i][k] = q[j][l] => i = j /\ k = l
  BY DEF NodesOf, ListsOf
<1>2. Len(s) \in Nat /\ Len(q) = Len(s) /\ \A i \in 1 .. Len(s) : q[i] = s[i].controllers
  BY LenProperties DEF ControllersOf, Lists
<1>3. /\ IsList(p) /\ \A k \in 1 .. Len(p) : p[k][1] \in N
      /\ \A x \in N : \E k \in 1 .. Len(p) : p[k][1] = x
      /\ \A j, k \in 1 .. Len(p) : p[j][1] = p[k][1] => j = k
  BY DEF Pairing
<1>4. Len(p) \in Nat
  BY <1>3, JoinedLists
<1>5. /\ \A i \in 1 .. Len(s) : s[i] \in N
      /\ \A x \in N : \E i \in 1 .. Len(s) : s[i] = x
      /\ \A i, j \in 1 .. Len(s) : s[i] = s[j] => i = j
  BY ElementOfSeq DEF Lists
<1>6. w = [k \in 1 .. Len(p) |-> w[k]] /\ \A k \in 1 .. Len(p) : w[k] = p[k][1].controllers
  BY DEF PlacedControllers
<1> HIDE DEF q, w
<1>7. Len(w) = Len(p)
  BY <1>4, <1>6, LoopIsList
<1>8. ASSUME NEW k \in 1 .. Len(p) PROVE \E i \in 1 .. Len(s) : s[i] = p[k][1] /\ w[k] = q[i]
  BY <1>2, <1>3, <1>5, <1>6
<1>9. ASSUME NEW i \in 1 .. Len(s) PROVE \E k \in 1 .. Len(p) : s[i] = p[k][1] /\ w[k] = q[i]
  BY <1>2, <1>3, <1>5, <1>6
<1>10. w \in Seq(Seq(S))
  <2>1. \A i \in 1 .. Len(s) : q[i] \in Seq(S)
    BY <1>1, <1>2, ElementOfSeq
  <2>2. \A k \in 1 .. Len(p) : w[k] \in Seq(S)
    BY <1>8, <2>1
  <2> QED BY <1>4, <1>6, <2>2, IsASeq
<1>11. ASSUME NEW x \in S PROVE \E k \in 1 .. Len(w) : \E l \in 1 .. Len(w[k]) : w[k][l] = x
  <2>1. PICK i \in 1 .. Len(s) : \E l \in 1 .. Len(q[i]) : q[i][l] = x
    BY <1>1, <1>2
  <2>2. PICK k \in 1 .. Len(p) : w[k] = q[i]
    BY <1>9
  <2> QED BY <1>7, <2>1, <2>2
<1>12. ASSUME NEW j \in 1 .. Len(w), NEW k \in 1 .. Len(w), NEW a \in 1 .. Len(w[j]), NEW l \in 1 .. Len(w[k]),
              w[j][a] = w[k][l]
       PROVE  j = k /\ a = l
  <2>1. PICK i \in 1 .. Len(s) : s[i] = p[j][1] /\ w[j] = q[i]
    BY <1>7, <1>8
  <2>2. PICK h \in 1 .. Len(s) : s[h] = p[k][1] /\ w[k] = q[h]
    BY <1>7, <1>8
  <2>3. i = h /\ a = l
    <3>1. a \in 1 .. Len(q[i]) /\ l \in 1 .. Len(q[h]) /\ q[i][a] = q[h][l]
      BY <1>12, <2>1, <2>2
    <3>2. i \in 1 .. Len(q) /\ h \in 1 .. Len(q)
      BY <1>2
    <3>3. \A d \in 1 .. Len(q[i]) : \A e \in 1 .. Len(q[h]) : q[i][d] = q[h][e] => i = h /\ d = e
      BY <1>1, <3>2
    <3> QED BY <3>1, <3>3
  <2> QED BY <1>3, <1>7, <2>1, <2>2, <2>3
<1>13. ListsOf(w, S)
  BY <1>10, <1>11, <1>12 DEF ListsOf
<1> QED BY <1>13 DEF w

LEMMA MeshStart ==
  ASSUME NEW rows \in Nat \ {0}, NEW cols \in Nat \ {0}, NEW n,
         n = Network(rows * cols, <<>>, IntLinks(0, MeshPairs(rows, cols, Weights(1, 1, 2, 2))))
  PROVE  OnMeshNow(n, rows, cols) /\ IdsBelow(n) /\ Carries(n, <<>>)
<1> DEFINE w == Weights(1, 1, 2, 2)
           pairs == MeshPairs(rows, cols, w)
           hub == [r \in Routers(n) |-> r]
<1>1. rows * cols \in Nat \ {0}
  BY RouterAt
<1>2. n.routers = rows * cols /\ n.ext = <<>> /\ n.int = IntLinks(0, pairs)
  BY NetworkIs
<1>3. OnMesh(n, rows, cols, hub) /\ LeafJoins(hub) = {}
  <2>1. Routers(n) = 0 .. rows * cols - 1
    BY <1>2 DEF Routers
  <2>2. hub \in [Routers(n) -> 0 .. rows * cols - 1] /\ \A r \in 0 .. rows * cols - 1 : hub[r] = r
    BY <2>1
  <2>3. Leaves(hub) = {}
    BY DEF Leaves
  <2> HIDE DEF hub
  <2> QED BY <1>1, <1>2, <2>2, <2>3 DEF OnMesh, LeafJoins
<1>4. Holds(pairs, MeshJoins(rows, cols, w))
  BY MeshPairsHold
<1>5. Triples(MeshJoins(rows, cols, w), Routers(n))
  BY <1>2, MeshJoinsAre DEF Routers, Triples
<1>6. IsList(pairs)
  BY <1>4 DEF Holds, IsList
<1> HIDE DEF pairs, hub
<1>7. IntIds(n, 0) /\ Joins(n) = MeshJoins(rows, cols, w)
  <2> HIDE DEF w
  <2> QED BY <1>2, <1>4, <1>5, IntLinksJoin
<1>8. Joins(n) = MeshJoins(rows, cols, w) \cup LeafJoins(hub)
  BY <1>3, <1>7
<1>9. IntEnds(n)
  BY <1>7 DEF IntIds, IntEnds
<1>10. OnMeshNow(n, rows, cols)
  BY <1>1, <1>2, <1>3, <1>8, <1>9 DEF OnMeshNow
<1>11. IsList(n.ext) /\ Len(n.ext) = 0 /\ n.ext = <<>>
  BY <1>2, EmptySeq DEF IsList
<1>12. GoOn(n.int, 0) /\ IsList(n.int)
  BY <1>2, <1>6, IntLinksGoOn DEF GoOn
<1>13. IdsBelow(n)
  <2> DEFINE i == n.int
             e == n.ext
  <2>1. GoOn(i, 0) /\ IsList(i) /\ IsList(e) /\ Len(e) = 0
    BY <1>11, <1>12
  <2> HIDE DEF i, e
  <2>2. Len(i) \in Nat
    BY <2>1, JoinedLists
  <2>3. Ids(i, Len(i))
    <3>1. \A k \in 1 .. Len(i) : i[k].id = k - 1
      BY <2>1 DEF GoOn
    <3>2. \A k \in 1 .. Len(i) : i[k].id \in 0 .. Len(i) - 1
      BY <2>2, <3>1
    <3>3. \A j, k \in 1 .. Len(i) : i[j].id = i[k].id => j = k
      <4>1. \A j, k \in 1 .. Len(i) : j - 1 = k - 1 => j = k
        BY <2>2
      <4> QED BY <3>1, <4>1
    <3> QED BY <2>1, <2>2, <3>2, <3>3 DEF Ids
  <2>4. Ids(e, Len(i)) /\ ApartIds(e, i)
    BY <2>1, <2>2 DEF Ids, ApartIds
  <2>5. Len(e) + Len(i) = Len(i)
    BY <2>1, <2>2
  <2> QED BY <2>3, <2>4, <2>5 DEF IdsBelow, i, e
<1>14. Carries(n, <<>>)
  <2> DEFINE z == <<>>
  <2>1. IsList(z) /\ Len(z) = 0
    BY <1>11, <1>2
  <2> HIDE DEF z
  <2>2. Carries(n, z)
    BY <1>11, <2>1 DEF Carries
  <2> QED BY <2>2 DEF z
<1> QED BY <1>10, <1>13, <1>14

(* All rounds. *)
LEMMA RoundsOnMesh ==
  ASSUME NEW rows \in Nat \ {0}, NEW cols \in Nat \ {0}, NEW N, NEW p, Pairing(p, N, rows * cols),
         NEW S, ListsOf(PlacedControllers(p), S), NEW base,
         OnMeshNow(base, rows, cols), IdsBelow(base), Carries(base, <<>>),
         NEW n, n = FoldLeft(Distribute, base, p)
  PROVE  OnMeshNow(n, rows, cols) /\ IdsBelow(n) /\ Attached(n, S)
<1> DEFINE F == [fold |-> "Distribute"]
           w == PlacedControllers(p)
           m == Len(p)
<1>1. m \in Nat /\ DOMAIN p = 1 .. m /\ IsList(p) /\ \A k \in 1 .. m : p[k][2] \in 0 .. rows * cols - 1
  <2>1. IsList(p) /\ \A k \in 1 .. m : p[k][2] \in 0 .. rows * cols - 1
    BY DEF Pairing
  <2> QED BY <2>1, JoinedLists
<1>2. w = [k \in 1 .. m |-> w[k]] /\ \A k \in 1 .. m : w[k] = p[k][1].controllers
  BY DEF PlacedControllers
<1>3. Len(w) = m /\ w \in Seq(Seq(S))
  <2>1. w \in Seq(Seq(S))
    BY DEF ListsOf
  <2> HIDE DEF w, m
  <2> QED BY <1>1, <1>2, <2>1, LoopIsList
<1>4. \A k \in 1 .. m : IsList(w[k])
  <2>1. \A k \in 1 .. m : w[k] \in Seq(S)
    BY <1>3, ElementOfSeq
  <2> QED BY <2>1 DEF IsList
<1>5. Lists(FlattenSeq(w), S)
  BY ListsFlatten
<1>6. \A t, x : FoldStep(F, t, x) = Distribute(t, x)
  BY DEF FoldStep
<1>7. n = Folded(F, base, p)
  BY FoldsOfModel
<1> HIDE DEF F, m, w
<1>8. PICK g : GoesOn(g, F, base, p, m)
  BY <1>1, FoldGoesOn
<1>9. g[0] = base /\ g[m] = n /\ \A k \in 1 .. m : g[k] = Distribute(g[k - 1], p[k])
  BY <1>6, <1>7, <1>8 DEF GoesOn

(* f has the controllers of the first nodes. *)
<1>10. \E f : f[0] = <<>> /\ f[m] = FlattenSeq(w) /\ \A k \in 1 .. m : f[k] = f[k - 1] \o w[k]
  <2>1. CASE w = <<>>
    <3>1. m = 0 /\ FlattenSeq(w) = <<>>
      <4>1. Len(w) = 0
        BY <2>1, EmptySeq
      <4> QED BY <1>3, <2>1, <4>1 DEF FlattenSeq
    <3> DEFINE f == [k \in {0} |-> <<>>]
    <3>2. f[0] = <<>> /\ 1 .. 0 = {}
      OBVIOUS
    <3> HIDE DEF f
    <3>3. f[0] = <<>> /\ f[m] = FlattenSeq(w) /\ \A k \in 1 .. m : f[k] = f[k - 1] \o w[k]
      BY <3>1, <3>2
    <3> QED BY <3>3
  <2>2. CASE w # <<>>
    <3>1. PICK h : Flattens(h, w, m) /\ FlattenSeq(w) = h[m]
      BY <1>3, <2>2, FlattenIs
    <3>2. \A i \in 1 .. m : h[i] = IF i = 1 THEN w[i] ELSE h[i - 1] \o w[i]
      BY <3>1 DEF Flattens
    <3>3. m # 0
      BY <1>3, <2>2, EmptySeq
    <3> DEFINE f == [k \in 0 .. m |-> IF k = 0 THEN <<>> ELSE h[k]]
    <3>4. f[0] = <<>> /\ \A k \in 1 .. m : f[k] = h[k]
      BY <1>1
    <3> HIDE DEF f
    <3>5. ASSUME NEW k \in 1 .. m PROVE f[k] = f[k - 1] \o w[k]
      <4>1. CASE k = 1
        <5>1. f[k] = w[1] /\ f[k - 1] = <<>> /\ w[k] = w[1]
          BY <3>2, <3>4, <4>1
        <5>2. w[1] \in Seq(S)
          BY <1>3, <4>1, ElementOfSeq
        <5>3. <<>> \o w[1] = w[1]
          BY <5>2, ConcatEmptySeq
        <5> QED BY <5>1, <5>3
      <4>2. CASE k # 1
        <5>1. k - 1 \in 1 .. m
          BY <1>1, <4>2
        <5> QED BY <3>2, <3>4, <4>2, <5>1
      <4> QED BY <4>1, <4>2
    <3>6. f[m] = FlattenSeq(w)
      BY <1>1, <3>1, <3>3, <3>4
    <3> QED BY <3>4, <3>5, <3>6
  <2> QED BY <2>1, <2>2
<1>11. PICK f : f[0] = <<>> /\ f[m] = FlattenSeq(w) /\ \A k \in 1 .. m : f[k] = f[k - 1] \o w[k]
  BY <1>10
<1> DEFINE Right(k) == OnMeshNow(g[k], rows, cols) /\ IdsBelow(g[k]) /\ Carries(g[k], f[k])
           Bad == {k \in Nat : k <= m /\ ~Right(k)}
<1>12. Right(0)
  BY <1>9, <1>11
<1>13. ASSUME NEW k \in 1 .. m, Right(k - 1) PROVE Right(k)
  <2> DEFINE a == g[k - 1]
             d == g[k]
             t == w[k]
             x == p[k][2]
  <2>1. OnMeshNow(a, rows, cols) /\ IdsBelow(a) /\ Carries(a, f[k - 1]) /\ d = Distribute(a, p[k])
    BY <1>9, <1>13
  <2>2. t = p[k][1].controllers /\ IsList(t) /\ x \in 0 .. rows * cols - 1 /\ f[k] = f[k - 1] \o t
    BY <1>1, <1>2, <1>4, <1>11
  <2> HIDE DEF a, d, t
  <2>3. a.routers \in Nat /\ IsList(a.int)
    BY <2>1 DEF OnMeshNow, IdsBelow, Ids
  <2>4. PICK b, r : Round(a, d, p[k][1].controllers, p[k][2], b, r)
    BY <2>1, <2>3, DistributeIsRound
  <2>5. Round(a, d, t, x, b, r)
    BY <2>2, <2>4
  <2> HIDE DEF x
  <2>6. x \in Routers(a)
    <3> DEFINE top == rows * cols
    <3>1. top \in Nat /\ top <= a.routers /\ x \in 0 .. top - 1
      BY <2>1, <2>2 DEF OnMeshNow, OnMesh
    <3> HIDE DEF top
    <3> QED BY <2>3, <3>1 DEF Routers
  <2>7. OnMeshNow(d, rows, cols)
    BY <2>1, <2>2, <2>3, <2>5, RoundOnMesh
  <2>8. IdsBelow(d)
    BY <2>1, <2>2, <2>5, RoundKeepsIds
  <2>9. Carries(d, f[k - 1] \o t)
    BY <2>1, <2>2, <2>3, <2>5, <2>6, RoundCarries
  <2> QED BY <2>2, <2>7, <2>8, <2>9 DEF d
<1> HIDE DEF Right
<1>14. Right(m)
  <2> SUFFICES ASSUME Bad # {} PROVE FALSE
    BY <1>1
  <2>1. PICK k \in Bad : \A j \in Bad : k <= j
    <3>1. Bad \subseteq Nat
      OBVIOUS
    <3> HIDE DEF Bad
    <3> QED BY <3>1, LeastNumber
  <2>2. k \in 1 .. m /\ k - 1 \in Nat /\ k - 1 <= m /\ ~(k <= k - 1)
    BY <1>1, <1>12
  <2>3. Right(k - 1)
    BY <2>1, <2>2
  <2> QED BY <1>13, <2>2, <2>3
<1>15. OnMeshNow(n, rows, cols) /\ IdsBelow(n) /\ Carries(n, FlattenSeq(w))
  BY <1>9, <1>11, <1>14 DEF Right
<1>16. Attached(n, S)
  <2> DEFINE s == FlattenSeq(w)
  <2>1. Lists(s, S) /\ Carries(n, s)
    BY <1>5, <1>15
  <2> HIDE DEF s
  <2>2. IsList(n.ext) /\ Len(n.ext) = Len(s)
    BY <2>1 DEF Carries
  <2>3. DOMAIN n.ext = 1 .. Len(s)
    BY <2>2, JoinedLists
  <2>4. \A k \in 1 .. Len(s) : n.ext[k].node = s[k] /\ n.ext[k].router \in Routers(n)
    BY <2>1 DEF Carries
  <2> QED BY <2>1, <2>3, <2>4, AttachedList
<1> QED BY <1>15, <1>16

LEMMA CustomMeshWellMade ==
  ASSUME NEW c, Counted(c), c.protocol = "CHI", c.rows \in Nat, c.cols \in Nat, CustomMeshFits(c), c.l3s >= 1,
         NEW S, Lists(Flat(c), S), NEW n, n = CustomMesh(c),
         \A k \in 1 .. Len(ChiClasses) :
           LET place == c.placement[ChiClasses[k]]
           IN place.per \in Int /\ place.routers \in Seq(0 .. c.rows * c.cols - 1)
  PROVE  WellMade(n, S, DOMAIN n.ext, TRUE)
<1> DEFINE chi == CHI(c)
           rows == c.rows
           cols == c.cols
           N == {chi[i] : i \in 1 .. Len(chi)}
           p == PairsOf(c)
           base == Network(rows * cols, <<>>, IntLinks(0, MeshPairs(rows, cols, Weights(1, 1, 2, 2))))
<1>1. PICK T : NodesOf(chi, T)
  BY ChiNodes
<1>2. T = S
  <2>1. Lists(FlattenSeq(ControllersOf(chi)), T)
    BY <1>1, ListsFlatten DEF NodesOf
  <2>2. Flat(c) = FlattenSeq(ControllersOf(chi))
    BY DEF Flat, ControllersOf
  <2>3. Lists(Flat(c), T)
    BY <2>1, <2>2
  <2> QED BY <2>3, HowMany
<1>3. AllFit(chi) /\ \E k \in 1 .. Len(chi) : chi[k].class = "HNF"
  BY ChiFits
<1>4. Lists(chi, N)
  <2> HIDE DEF chi
  <2>1. NodesOf(chi, T) /\ AllFit(chi)
    BY <1>1, <1>3
  <2> QED BY <2>1, NodesDiffer
<1> HIDE DEF N
<1>5. PlacementFits(c, rows * cols)
  <2>1. \A k \in 1 .. 6 :
          LET place == c.placement[ChiClasses[k]]
              len   == Len(OfClass(CHI(c), ChiClasses[k]))
          IN /\ place.per \in Int /\ place.routers \in Seq(0 .. rows * cols - 1)
             /\ len # 0 => IF place.per # 0 THEN Len(place.routers) * place.per = len ELSE place.routers # <<>>
    BY ClassesDiffer DEF CustomMeshFits
  <2> QED BY <2>1 DEF PlacementFits, PlaceFits
<1>6. Pairing(p, N, rows * cols)
  <2> HIDE DEF p, rows, cols
  <2>1. Lists(CHI(c), N) /\ AllFit(CHI(c))
    BY <1>3, <1>4
  <2> QED BY <1>5, <2>1, PairsFit DEF p
<1> HIDE DEF p
<1>7. rows \in Nat \ {0} /\ cols \in Nat \ {0}
  <2>1. PICK x \in N : TRUE
    <3>1. PICK k \in 1 .. Len(chi) : TRUE
      BY <1>3
    <3>2. chi[k] \in N
      BY DEF N
    <3> QED BY <3>2
  <2>2. PICK k \in 1 .. Len(p) : p[k][2] \in 0 .. rows * cols - 1
    BY <1>6, <2>1 DEF Pairing
  <2> DEFINE top == rows * cols
             y == p[k][2]
  <2>3. rows \in Nat /\ cols \in Nat /\ (rows = 0 => top = 0) /\ (cols = 0 => top = 0) /\ top \in Nat
    OBVIOUS
  <2>4. y \in 0 .. top - 1
    BY <2>2
  <2> HIDE DEF top, y
  <2>5. top # 0
    BY <2>3, <2>4
  <2> QED BY <2>3, <2>5
<1>8. n = FoldLeft(Distribute, base, p)
  BY Zenon DEF CustomMesh, PairsOf, ClassPairs, p
<1>9. OnMeshNow(base, rows, cols) /\ IdsBelow(base) /\ Carries(base, <<>>)
  <2> HIDE DEF rows, cols
  <2> QED BY <1>7, MeshStart
<1>10. ListsOf(PlacedControllers(p), S)
  <2> HIDE DEF chi
  <2>1. NodesOf(chi, S)
    BY <1>1, <1>2
  <2> QED BY <1>4, <1>6, <2>1, PlacedList
<1> HIDE DEF base, rows, cols
<1>11. OnMeshNow(n, rows, cols) /\ IdsBelow(n) /\ Attached(n, S)
  BY <1>6, <1>7, <1>8, <1>9, <1>10, RoundsOnMesh
<1>12. Sound(n)
  <2>1. PICK hub : OnMesh(n, rows, cols, hub) /\ Joins(n) = MeshJoins(rows, cols, Weights(1, 1, 2, 2)) \cup LeafJoins(hub)
    BY <1>11 DEF OnMeshNow
  <2>2. IntEnds(n) /\ 1 \in {1, 2}
    BY <1>11 DEF OnMeshNow
  <2> QED BY <2>1, <2>2, MeshIsSound
<1> QED BY <1>11, <1>12, BelowIsUnique DEF WellMade
-----------------------------------------------------------------------------
(* The network of any command line.                                        *)
LEMMA ConfigFits ==
  ASSUME NEW c \in Configs
  PROVE  /\ Counted(c) /\ c.protocol \in Protocols /\ c.topology \in Topologies /\ c.rows \in Nat /\ c.cols \in Nat
         /\ c.protocol = "CHI" /\ c.topology = "CustomMesh" => \A k \in 1 .. Len(ChiClasses) :
              LET place == c.placement[ChiClasses[k]]
              IN place.per \in Int /\ place.routers \in Seq(0 .. c.rows * c.cols - 1)
<1>1. Counted(c) /\ c.protocol \in Protocols /\ c.topology \in Topologies /\ c.rows \in Nat /\ c.cols \in Nat
  BY ConfigAssumption DEF Counted
<1>2. c.protocol = "CHI" /\ c.topology = "CustomMesh" => \A k \in 1 .. Len(ChiClasses) :
        LET place == c.placement[ChiClasses[k]]
        IN place.per \in Int /\ place.routers \in Seq(0 .. c.rows * c.cols - 1)
  BY ConfigAssumption, Zenon
<1> QED BY <1>1, <1>2

(* What is attached to a network, and links with a number of their own. *)
Reached(c, S) ==
  IF TopologyOf(c) = "MeshDirCorners_XY" THEN ButL0s(S) ELSE S
OwnNumber(c, n) ==
  {k \in DOMAIN n.ext : TopologyOf(c) = "MeshDirCorners_XY" => n.ext[k].node.type # "DMA"}
MadeFor(c, n, S) == WellMade(n, Reached(c, S), OwnNumber(c, n), TopologyOf(c) # "Cluster")

LEMMA AllOfThem ==
  ASSUME NEW c, NEW n, NEW S, TopologyOf(c) \notin {"MeshDirCorners_XY", "Cluster"},
         WellMade(n, S, DOMAIN n.ext, TRUE)
  PROVE  MadeFor(c, n, S)
<1>1. Reached(c, S) = S /\ OwnNumber(c, n) = DOMAIN n.ext /\ (TopologyOf(c) # "Cluster") = TRUE
  BY DEF Reached, OwnNumber
<1> QED BY <1>1 DEF MadeFor

LEMMA NetworkWellMade ==
  ASSUME NEW c \in Configs, c.protocol # "classic", ~Refused(c), NEW s, s = Flat(c), NEW S, Lists(s, S),
         TopologyFits(c, s), NEW n, n = MakeNetwork(c, s)
  PROVE  MadeFor(c, n, S)
<1>1. /\ Counted(c) /\ c.protocol \in Protocols /\ c.topology \in Topologies
      /\ c.rows \in Nat /\ c.cols \in Nat /\ c.cpus \in Nat
  BY ConfigFits DEF Counted
<1>2. CASE TopologyOf(c) = "Mesh_XY"
  <2>1. n = Mesh(c, s, Weights(1, 1, 2, 2)) /\ RowsFit(c) /\ 1 \in {1, 2}
    BY <1>2 DEF MakeNetwork, Mesh_XY, TopologyFits, MeshFits
  <2>2. WellMade(n, S, DOMAIN n.ext, TRUE)
    BY <1>1, <2>1, MeshWellMade
  <2> QED BY <1>2, <2>2, AllOfThem
<1>3. CASE TopologyOf(c) = "Mesh_westfirst"
  <2>1. n = Mesh(c, s, Weights(2, 1, 2, 2)) /\ RowsFit(c) /\ 2 \in {1, 2}
    BY <1>3 DEF MakeNetwork, Mesh_westfirst, TopologyFits, MeshFits
  <2>2. WellMade(n, S, DOMAIN n.ext, TRUE)
    BY <1>1, <2>1, MeshWellMade
  <2> QED BY <1>3, <2>2, AllOfThem
<1>4. CASE TopologyOf(c) = "MeshDirCorners_XY"
  <2>1. n = MeshDirCorners_XY(c, s) /\ DirCornersFits(c, s)
    BY <1>4 DEF MakeNetwork, TopologyFits
  <2>2. c.protocol \in Protocols \ {"CHI", "GPU_VIPER", "classic"}
    BY <1>1, <1>4 DEF TopologyOf, Refused
  <2>3. s \in Seq(Taken)
    <3>1. Flat(c) = Nodes(c)
      BY <2>2 DEF Flat
    <3> QED BY <1>1, <2>2, <3>1, NodesAreTaken
  <2>4. WellMade(n, ButL0s(S), ButDmas(n), TRUE)
    BY <1>1, <2>1, <2>3, MeshDirCornersWellMade
  <2>5. Reached(c, S) = ButL0s(S) /\ OwnNumber(c, n) = ButDmas(n) /\ (TopologyOf(c) # "Cluster") = TRUE
    BY <1>4 DEF Reached, OwnNumber, ButL0s, ButDmas
  <2> QED BY <2>4, <2>5 DEF MadeFor
<1>5. CASE TopologyOf(c) = "Crossbar"
  <2>1. n = Crossbar(s)
    BY <1>5 DEF MakeNetwork
  <2> QED BY <1>5, <2>1, CrossbarWellMade, AllOfThem
<1>6. CASE TopologyOf(c) = "CrossbarGarnet"
  <2>1. n = CrossbarGarnet(s)
    BY <1>6 DEF MakeNetwork
  <2> QED BY <1>6, <2>1, CrossbarGarnetWellMade, AllOfThem
<1>7. CASE TopologyOf(c) = "Pt2Pt"
  <2>1. n = Pt2Pt(s)
    BY <1>7 DEF MakeNetwork
  <2> QED BY <1>7, <2>1, Pt2PtWellMade, AllOfThem
<1>8. CASE TopologyOf(c) = "CustomMesh"
  <2>1. n = CustomMesh(c) /\ CustomMeshFits(c)
    BY <1>8 DEF MakeNetwork, TopologyFits
  <2>2. c.protocol = "CHI" /\ c.topology = "CustomMesh"
    BY <1>8, <2>1 DEF CustomMeshFits, TopologyOf
  <2>3. c.l3s >= 1
    BY <1>1, <2>2 DEF Refused, Counted
  <2>4. \A k \in 1 .. Len(ChiClasses) :
          LET place == c.placement[ChiClasses[k]]
          IN place.per \in Int /\ place.routers \in Seq(0 .. c.rows * c.cols - 1)
    BY <2>2, ConfigFits, Zenon
  <2>5. WellMade(n, S, DOMAIN n.ext, TRUE)
    BY <1>1, <2>1, <2>2, <2>3, <2>4, CustomMeshWellMade
  <2> QED BY <1>8, <2>5, AllOfThem
<1>9. CASE TopologyOf(c) = "Cluster"
  <2>1. c.protocol = "GPU_VIPER"
    BY <1>1, <1>9 DEF TopologyOf, Topologies
  <2>2. n = Cluster(c)
    BY <1>9 DEF MakeNetwork
  <2>3. WellMade(n, S, DOMAIN n.ext, FALSE)
    BY <1>1, <2>1, <2>2, ClusterWellMade
  <2>4. Reached(c, S) = S /\ OwnNumber(c, n) = DOMAIN n.ext /\ (TopologyOf(c) # "Cluster") = FALSE
    BY <1>9 DEF Reached, OwnNumber
  <2> QED BY <2>3, <2>4 DEF MadeFor
<1> QED BY <1>1, <1>2, <1>3, <1>4, <1>5, <1>6, <1>7, <1>8, <1>9 DEF TopologyOf, Topologies
-----------------------------------------------------------------------------
(* What a system has built when its network is there. *)
NetInv ==
  /\ SystemInv
  /\ phase \in {"memory", "running"} /\ cfg.protocol # "classic" =>
       TopologyFits(cfg, nodes) /\ net = MakeNetwork(cfg, nodes) /\ routes = RoutingTables(net)

LEMMA NetInit == Init => NetInv
  BY SystemInit DEF Init, NetInv

LEMMA NetStep == NetInv /\ [Next]_vars => NetInv'
<1> SUFFICES ASSUME NetInv, [Next]_vars PROVE NetInv'
  OBVIOUS
<1>1. SystemInv'
  BY SystemStep DEF NetInv
<1> DEFINE Now == TopologyFits(cfg, nodes) /\ net = MakeNetwork(cfg, nodes) /\ routes = RoutingTables(net)
<1>2. phase \in {"memory", "running"} /\ cfg.protocol # "classic" => Now
  BY DEF NetInv
<1> SUFFICES (phase \in {"memory", "running"} /\ cfg.protocol # "classic" => Now)'
  BY <1>1 DEF NetInv
<1>3. CASE CreateControllers
  BY <1>3 DEF CreateControllers
<1>4. CASE MakeTopology
  BY <1>4 DEF MakeTopology
<1>5. CASE SetupMemory
  BY <1>2, <1>5 DEF SetupMemory
<1>6. CASE UNCHANGED <<cfg, phase, nodes, net, routes>>
  BY <1>2, <1>6
<1>7. CASE \E s, d \in Ends : Send(s, d)
  BY <1>6, <1>7 DEF Send
<1>8. CASE Route
  BY <1>6, <1>8 DEF Route, Deliver, Forward
<1>9. CASE UNCHANGED vars
  BY <1>6, <1>9 DEF vars
<1> QED BY <1>3, <1>4, <1>5, <1>7, <1>8, <1>9 DEF Next

LEMMA BuiltIsMade ==
  ASSUME NetInv, Built
  PROVE  MadeFor(cfg, net, ToSet(nodes)) /\ routes = RoutingTables(net)
<1>1. /\ cfg \in Configs /\ cfg.protocol # "classic" /\ ~Refused(cfg) /\ nodes = Flat(cfg)
      /\ TopologyFits(cfg, nodes) /\ net = MakeNetwork(cfg, nodes) /\ routes = RoutingTables(net)
  BY DEF NetInv, SystemInv, Built
<1>2. PICK S : Lists(Flat(cfg), S)
  BY <1>1, FlatIsInLine DEF InLine, Line
<1>3. MadeFor(cfg, net, S)
  BY <1>1, <1>2, NetworkWellMade
<1>4. ToSet(nodes) = S
  BY <1>1, <1>2, HowMany
<1> QED BY <1>1, <1>3, <1>4

(* The routers that controllers are attached to are routers. *)
LEMMA EndsAreRouters ==
  ASSUME NEW S, Attached(net, S)
  PROVE  Ends \subseteq Routers(net)
  BY DEF Ends, Attached

LEMMA BuiltIsConsistent == NetInv => Consistent
<1> SUFFICES ASSUME NetInv, Built
             PROVE  VersionsAreContiguous /\ AttachedOnce /\ LinkIdsUnique /\ Connected
  BY DEF Consistent
<1> DEFINE S == ToSet(nodes)
           T == Reached(cfg, S)
           E == OwnNumber(cfg, net)
<1>1. VersionsAreContiguous
  BY BuiltIsContiguous DEF NetInv
<1>2. /\ Sound(net) /\ Attached(net, T) /\ IdsUnique(net, E, TopologyOf(cfg) # "Cluster")
      /\ routes = RoutingTables(net)
  BY BuiltIsMade DEF MadeFor, WellMade
<1>3. AttachedOnce
  <2> SUFFICES ASSUME NEW c \in S
               PROVE  Cardinality({e \in DOMAIN net.ext : net.ext[e].node = c})
                        = IF TopologyOf(cfg) = "MeshDirCorners_XY" /\ c.type = "L0Cache" THEN 0 ELSE 1
    BY DEF AttachedOnce
  <2> DEFINE L == {e \in DOMAIN net.ext : net.ext[e].node = c}
  <2>1. CASE TopologyOf(cfg) = "MeshDirCorners_XY" /\ c.type = "L0Cache"
    <3>1. c \notin T
      BY <2>1 DEF Reached, ButL0s
    <3> HIDE DEF T
    <3>2. L = {}
      BY <1>2, <3>1 DEF Attached
    <3> QED BY <2>1, <3>2, FS_EmptySet
  <2>2. CASE ~(TopologyOf(cfg) = "MeshDirCorners_XY" /\ c.type = "L0Cache")
    <3>1. c \in T
      BY <2>2 DEF Reached, ButL0s
    <3> HIDE DEF T
    <3>2. PICK k \in DOMAIN net.ext : net.ext[k].node = c
      BY <1>2, <3>1 DEF Attached
    <3>3. L = {k}
      BY <1>2, <3>2 DEF Attached
    <3> QED BY <2>2, <3>3, FS_Singleton
  <2> QED BY <2>1, <2>2
<1>4. LinkIdsUnique
  BY <1>2 DEF LinkIdsUnique, IdsUnique, OwnNumber
<1>5. Connected
  <2> SUFFICES ASSUME NEW s \in Ends, NEW d \in Ends, s # d PROVE routes[s, d] # {}
    BY DEF Connected
  <2>1. s \in Routers(net) /\ d \in Routers(net)
    BY <1>2, EndsAreRouters
  <2>2. RoutingTables(net)[<<s, d>>] # {}
    BY <1>2, <2>1 DEF Sound
  <2> QED BY <1>2, <2>2, Zenon
<1> QED BY <1>1, <1>3, <1>4, <1>5

LEMMA BuiltIsDeadlockFree == NetInv => DeadlockFree
<1> SUFFICES ASSUME NetInv, Built
             PROVE  LET waits == [l \in DOMAIN net.int |-> WaitsFor(l)]
                    IN FoldLeft(LAMBDA left, link : Prune(waits, left), DOMAIN net.int, net.int) = {}
  BY DEF DeadlockFree
<1> DEFINE waits == [l \in DOMAIN net.int |-> WaitsFor(l)]
<1>1. Sound(net) /\ Attached(net, Reached(cfg, ToSet(nodes))) /\ routes = RoutingTables(net)
  BY BuiltIsMade DEF MadeFor, WellMade
<1>2. Ends \subseteq Routers(net)
  BY <1>1, EndsAreRouters
<1>3. PICK k \in Nat : DOMAIN net.int = 1 .. k /\ \E rank \in [1 .. k -> Nat] : RankFallsOn(net, rank)
  BY <1>1 DEF Sound
<1>4. PICK rank \in [1 .. k -> Nat] : RankFallsOn(net, rank)
  BY <1>3
<1>5. ASSUME NEW l \in 1 .. k, NEW m \in 1 .. k, m \in waits[l] PROVE rank[m] < rank[l]
  <2>1. m \in WaitsFor(l)
    BY <1>3, <1>5
  <2>2. PICK d \in Ends : /\ l \in routes[net.int[l].src, d] /\ d # net.int[l].dst
                          /\ m \in routes[net.int[l].dst, d]
    BY <2>1, Zenon DEF WaitsFor
  <2> DEFINE s == net.int[l].src
             t == net.int[l].dst
  <2>3. l \in RoutingTables(net)[<<s, d>>] /\ t # d /\ m \in RoutingTables(net)[<<t, d>>]
    BY <1>1, <2>2, Zenon
  <2>4. s \in Routers(net) /\ d \in Routers(net)
    BY <1>1, <1>2, <1>3 DEF Sound
  <2> QED BY <1>4, <2>3, <2>4 DEF RankFallsOn
<1> HIDE DEF waits
<1>6. Folded([fold |-> "Prune", with |-> waits], 1 .. k, net.int) = {}
  BY <1>3, <1>5, PruneEmpties
<1>7. FoldLeft(LAMBDA left, link : Prune(waits, left), DOMAIN net.int, net.int)
        = Folded([fold |-> "Prune", with |-> waits], DOMAIN net.int, net.int)
  BY FoldsOfModel, Zenon
<1>8. FoldLeft(LAMBDA left, link : Prune(waits, left), DOMAIN net.int, net.int) = {}
  BY <1>3, <1>6, <1>7, Zenon
<1> QED BY <1>8 DEF waits

(* Every Ruby system that is built is consistent: controllers of a type    *)
(* numbered from 0, each attached to the network once, links with numbers  *)
(* of their own and a way from every controller to every other, for any    *)
(* number of controllers, mesh and placement and all topologies (the loops *)
(* of makeTopology() in topologies/ and their counters, e.g. CustomMesh.py *)
(* and MeshDirCorners_XY.py).                                              *)
THEOREM NetworksAreConsistent == Spec => []Consistent
  BY NetInit, NetStep, BuiltIsConsistent, PTL DEF Spec

(* The link weights of the meshes, and the shape of the other networks,    *)
(* keep every network free of deadlocks, whatever its size: no cycle of    *)
(* links each of which may hold a packet that waits for the next (the      *)
(* comments in Mesh_XY.py 37 and Mesh_westfirst.py 35).                    *)
THEOREM NetworksAreDeadlockFree == Spec => []DeadlockFree
  BY NetInit, NetStep, BuiltIsDeadlockFree, PTL DEF Spec
=============================================================================
