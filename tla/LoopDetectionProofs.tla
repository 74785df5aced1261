------------------------ MODULE LoopDetectionProofs ------------------------
(***************************************************************************)
(* Proofs about LoopDetection, for every graph that Dominators accepts and *)
(* every order of its reversed pre-order: what discover_loop_and_sub_loops *)
(* collects is the natural loop, and the loops nest.                       *)
(***************************************************************************)
EXTENDS LoopDetection, CfgProofs, FiniteSetTheorems

USE EntryInBlocks, NullNotBlock

(* The inner of two loops comes first: no block of the reversed pre-order  *)
(* dominates a later one.                                                  *)
PassInv ==
  /\ cfg \in CFGs
  /\ dominates = {p \in Blocks \X Blocks : Dominates(cfg, p[1], p[2])}
  /\ dom_post_order \in Seq(Blocks)
  /\ \A k \in 1 .. Len(dom_post_order) : Reachable(cfg, dom_post_order[k])
  /\ \A j, k \in 1 .. Len(dom_post_order) :
       j < k => ~ Dominates(cfg, dom_post_order[j], dom_post_order[k])

(* The loop in hand, while it is filled.                                   *)
Filling == pc \in {"discover", "climb"}
Complete(l) == l \in Members(loops) /\ ~ (Filling /\ l = loop)

(* The loops made so far are those of the blocks passed, in their order.   *)
ListInv ==
  /\ Members(loops) =
       {dom_post_order[k] : k \in {k \in 1 .. Len(dom_post_order) :
          (k < pos \/ (Filling /\ k = pos)) /\ BackEdges(dom_post_order[k]) # {}}}
  /\ \A j, k \in 1 .. Len(loops) : j < k => ~ Dominates(cfg, loops[j], loops[k])
  /\ Filling => pos \in 1 .. Len(dom_post_order) /\ loop = dom_post_order[pos]
                  /\ loop \in Members(loops) /\ parent[loop] = nullptr
  /\ pc = "done" => pos > Len(dom_post_order)
  /\ \A l \in Members(loops) : latches[l] = BackEdges(l) /\ bb_to_loop[l] = l

(* A block is mapped to a loop that it is in, and a loop's parent is a     *)
(* larger one.                                                             *)
MapInv ==
  /\ \A b \in Blocks : bb_to_loop[b] # nullptr =>
       bb_to_loop[b] \in Members(loops) /\ b \in NaturalLoop(bb_to_loop[b])
  /\ \A l \in Blocks : parent[l] # nullptr =>
       /\ l \in Members(loops) /\ parent[l] \in Members(loops)
       /\ NaturalLoop(l) \subseteq NaturalLoop(parent[l])
       /\ parent[l] \notin NaturalLoop(l)
  /\ \A h \in Blocks : IsInjective(sub_loops[h])
                         /\ Members(sub_loops[h]) = {l \in Blocks : parent[l] = h}

(* Nothing is missing from a loop that is complete; and what is missing    *)
(* from the one in hand is reached from the work list, or from the loop    *)
(* whose outermost parent is sought.                                       *)
Pending(p) ==
  \/ p \in WithSubLoops(loop) \/ p \in Members(work_list)
  \/ pc = "climb" /\ p \in WithSubLoops(sub_loop)

FillInv ==
  /\ \A h \in Members(loops) : Complete(h) => NaturalLoop(h) \subseteq WithSubLoops(h)
  /\ Filling =>
       /\ Members(work_list) \subseteq NaturalLoop(loop)
       /\ \A p \in BackEdges(loop) : Pending(p)
       /\ \A x \in WithSubLoops(loop) \ {loop} : \A p \in Members(Pre(x)) : Pending(p)
  /\ pc = "climb" => /\ sub_loop \in Members(loops)
                     /\ NaturalLoop(loop) \cap NaturalLoop(sub_loop) # {}

Inv == TypeOK /\ PassInv /\ ListInv /\ MapInv /\ FillInv
-----------------------------------------------------------------------------
(***************************************************************************)
(* Natural loops.                                                          *)
(***************************************************************************)
LEMMA PassFacts ==
  ASSUME PassInv
  PROVE  /\ IsCfg(cfg)
         /\ \A x, y \in Blocks : Edge(cfg, x, y) /\ Reachable(cfg, y) => Reachable(cfg, x)
         /\ \A x, y \in Blocks : <<x, y>> \in dominates <=> Dominates(cfg, x, y)
         /\ \A x, y \in Blocks : x \in Members(Pre(y)) <=> Edge(cfg, x, y)
         /\ \A y \in Blocks : Pre(y) \in Seq(Blocks) /\ Members(Pre(y)) \subseteq Blocks
<1>1. IsCfg(cfg)
  BY CFGsAssumption DEF PassInv
<1>2. \A x, y \in Blocks : Edge(cfg, x, y) /\ Reachable(cfg, y) => Reachable(cfg, x)
  <2> DEFINE R == {b \in Blocks : Reachable(cfg, b)}
  <2>1. \A x \in Blocks \ R : \A y \in R : ~ Edge(cfg, x, y)
    BY CFGsAssumption DEF PassInv
  <2> QED BY <2>1
<1>3. \A x, y \in Blocks : <<x, y>> \in dominates <=> Dominates(cfg, x, y)
  BY DEF PassInv
<1>4. \A x, y \in Blocks : x \in Members(Pre(y)) <=> Edge(cfg, x, y)
  BY <1>1 DEF IsCfg, Edge, Pre
<1>5. \A y \in Blocks : Pre(y) \in Seq(Blocks) /\ Members(Pre(y)) \subseteq Blocks
  BY <1>1 DEF IsCfg, Pre, Members
<1> QED BY <1>1, <1>2, <1>3, <1>4, <1>5

LEMMA BackEdgeFacts ==
  ASSUME PassInv, NEW h \in Blocks
  PROVE  /\ BackEdges(h) = {p \in Blocks : Edge(cfg, p, h) /\ Dominates(cfg, h, p)}
         /\ Latches(h) = BackEdges(h)
BY PassFacts DEF BackEdges, Latches

(* A natural loop holds its header, its latches, and the predecessors of   *)
(* its other blocks; and it is the least such set.                         *)
IsBody(S, h) ==
  /\ {h} \cup BackEdges(h) \subseteq S
  /\ \A x \in S \ {h} : Members(cfg.pre[x]) \subseteq S

LEMMA LoopLeast ==
  ASSUME NEW h \in Blocks, NEW S \in SUBSET Blocks, IsBody(S, h)
  PROVE  NaturalLoop(h) \subseteq S
BY DEF NaturalLoop, IsBody

LEMMA LoopIsBody ==
  ASSUME PassInv, NEW h \in Blocks
  PROVE  IsBody(NaturalLoop(h), h) /\ NaturalLoop(h) \subseteq Blocks
<1> DEFINE Bodies == {S \in SUBSET Blocks : IsBody(S, h)}
<1>1. NaturalLoop(h) = {b \in Blocks : \A S \in Bodies : b \in S}
  BY DEF NaturalLoop, IsBody
<1>2. {h} \cup BackEdges(h) \subseteq NaturalLoop(h)
  <2>1. BackEdges(h) \subseteq Blocks
    BY DEF BackEdges
  <2> QED BY <1>1, <2>1 DEF IsBody
<1>3. ASSUME NEW x \in NaturalLoop(h) \ {h}, NEW p \in Members(cfg.pre[x]) PROVE p \in NaturalLoop(h)
  <2>1. x \in Blocks
    BY <1>1
  <2>2. p \in Blocks
    BY <1>3, <2>1, PassFacts DEF Pre
  <2>3. \A S \in Bodies : p \in S
    BY <1>1, <1>3 DEF IsBody
  <2> QED BY <1>1, <2>2, <2>3
<1> QED BY <1>1, <1>2, <1>3 DEF IsBody

(* The header dominates its loop.                                          *)
LEMMA HeaderDominates ==
  ASSUME PassInv, NEW h \in Blocks, Reachable(cfg, h), NEW b \in NaturalLoop(h)
  PROVE  b \in Blocks /\ Reachable(cfg, b) /\ Dominates(cfg, h, b)
<1> DEFINE S == {x \in Blocks : Reachable(cfg, x) /\ Dominates(cfg, h, x)}
<1>1. h \in S
  BY DomRefl
<1>2. BackEdges(h) \subseteq S
  BY BackEdgeFacts, PassFacts
<1>3. ASSUME NEW x \in S \ {h}, NEW p \in Members(cfg.pre[x]) PROVE p \in S
  <2>1. p \in Blocks /\ Edge(cfg, p, x)
    BY <1>3, PassFacts DEF Pre
  <2>2. Reachable(cfg, p)
    BY <1>3, <2>1, PassFacts
  <2>3. Dominates(cfg, h, p)
    BY <1>3, <2>1, DominatesPred DEF StrictlyDominates
  <2> QED BY <2>1, <2>2, <2>3
<1>4. S \in SUBSET Blocks /\ IsBody(S, h)
  BY <1>1, <1>2, <1>3 DEF IsBody
<1> HIDE DEF S
<1>5. b \in S
  BY <1>4, LoopLeast
<1> QED BY <1>5 DEF S

(* Of two loops that meet, the one whose header strictly dominates the     *)
(* other's contains the other, all but its header.                         *)
LEMMA HeaderInside ==
  ASSUME PassInv, NEW h \in Blocks, NEW r \in Blocks, Reachable(cfg, h),
         StrictlyDominates(cfg, h, r), NEW b \in NaturalLoop(h), Dominates(cfg, r, b)
  PROVE  r \in NaturalLoop(h)
<1> DEFINE L == NaturalLoop(h)
<1> SUFFICES ASSUME r \notin L PROVE FALSE
  OBVIOUS
<1>1. IsBody(L, h) /\ L \subseteq Blocks
  BY LoopIsBody
<1>2. b \in Blocks /\ Reachable(cfg, b) /\ b # r
  BY HeaderDominates
<1>3. PICK S \in SUBSET (Blocks \ {r, b}) : AvoidSet(cfg, r, S)
  BY <1>2 DEF Dominates
<1>4. h \in S
  <2> SUFFICES ASSUME h \notin S PROVE FALSE
    OBVIOUS
  <2>1. S \in SUBSET (Blocks \ {r, h})
    BY <1>3
  <2>2. Dominates(cfg, r, h)
    BY <1>3, <2>1 DEF Dominates
  <2> QED BY <2>2, DomAntisym DEF StrictlyDominates
<1>5. r # Entry
  BY DominatesEntry DEF StrictlyDominates
<1> DEFINE T == {x \in Blocks : x \in L => x \in S}
<1>6. Entry \in T
  BY <1>3, <1>5 DEF AvoidSet
<1>7. ASSUME NEW x \in T, NEW y \in Blocks, Edge(cfg, x, y) PROVE y \in T
  <2> SUFFICES ASSUME y \in L, y # h PROVE y \in S
    BY <1>4
  <2>1. x \in Members(cfg.pre[y])
    BY <1>7, PassFacts DEF Pre
  <2>2. x \in L
    BY <1>1, <2>1 DEF IsBody
  <2> QED BY <1>3, <1>7, <2>2 DEF AvoidSet
<1>8. Closed(cfg, T) /\ T \in SUBSET Blocks
  BY <1>7 DEF Closed
<1> HIDE DEF T
<1>9. b \in T
  BY <1>2, <1>6, <1>8 DEF Reachable
<1> QED BY <1>3, <1>9 DEF T

LEMMA LoopInside ==
  ASSUME PassInv, NEW h \in Blocks, NEW r \in Blocks, Reachable(cfg, h), Reachable(cfg, r),
         StrictlyDominates(cfg, h, r), NaturalLoop(h) \cap NaturalLoop(r) # {}
  PROVE  /\ r \in NaturalLoop(h) /\ h \notin NaturalLoop(r)
         /\ NaturalLoop(r) \subseteq NaturalLoop(h)
<1>1. PICK b \in NaturalLoop(h) : b \in NaturalLoop(r)
  OBVIOUS
<1>2. Dominates(cfg, r, b)
  BY <1>1, HeaderDominates
<1>3. r \in NaturalLoop(h)
  BY <1>2, HeaderInside
<1>4. ~ Dominates(cfg, r, h)
  BY DomAntisym DEF StrictlyDominates
<1>5. h \notin NaturalLoop(r)
  BY <1>4, HeaderDominates
<1> DEFINE S == {x \in NaturalLoop(h) : Dominates(cfg, r, x)}
<1>6. IsBody(NaturalLoop(h), h) /\ NaturalLoop(h) \subseteq Blocks
  BY LoopIsBody
<1>7. r \in S
  BY <1>3, DomRefl
<1>8. BackEdges(r) \subseteq S
  <2>1. BackEdges(r) \subseteq Members(cfg.pre[r]) /\ \A p \in BackEdges(r) : Dominates(cfg, r, p)
    BY BackEdgeFacts, PassFacts DEF Pre
  <2>2. r # h
    BY DEF StrictlyDominates
  <2> QED BY <1>3, <1>6, <2>1, <2>2 DEF IsBody
<1>9. ASSUME NEW x \in S \ {r}, NEW p \in Members(cfg.pre[x]) PROVE p \in S
  <2>1. x \in Blocks /\ x # h
    BY <1>4, <1>6
  <2>2. p \in NaturalLoop(h)
    BY <1>6, <1>9, <2>1 DEF IsBody
  <2>3. p \in Blocks /\ Edge(cfg, p, x)
    BY <1>9, <2>1, PassFacts DEF Pre
  <2>4. Dominates(cfg, r, p)
    BY <1>9, <2>1, <2>3, DominatesPred DEF StrictlyDominates
  <2> QED BY <2>2, <2>4
<1>10. S \in SUBSET Blocks /\ IsBody(S, r)
  BY <1>6, <1>7, <1>8, <1>9 DEF IsBody
<1> HIDE DEF S
<1>11. NaturalLoop(r) \subseteq S
  BY <1>10, LoopLeast
<1> QED BY <1>3, <1>5, <1>11 DEF S
-----------------------------------------------------------------------------
(***************************************************************************)
(* The orders the pass is given, and the initial states.                   *)
(***************************************************************************)
(* A listing of a set lists all of it.                                    *)
LEMMA ListingFacts ==
  ASSUME NEW S \in SUBSET Blocks, NEW s \in Listings(S)
  PROVE  s \in Seq(S) /\ s \in Seq(Blocks) /\ Members(s) = S /\ IsInjective(s)
<1> DEFINE n == Cardinality(S)
<1>1. IsFiniteSet(Blocks)
  BY FS_Interval, NAssumption DEF Blocks
<1>2. IsFiniteSet(S) /\ n \in Nat
  BY <1>1, FS_Subset, FS_CardinalityType
<1>3. s \in [1 .. n -> S] /\ IsInjective(s)
  BY DEF Listings
<1>4. s \in Injection(1 .. n, S)
  BY <1>3 DEF Injection
<1>5. Cardinality(1 .. n) = n
  BY <1>2, FS_Interval
<1>6. s \in Surjection(1 .. n, S)
  BY <1>2, <1>4, <1>5, FS_Injection
<1> HIDE DEF n
<1>7. s \in Seq(S) /\ s \in Seq(Blocks) /\ Len(s) = n
  BY <1>2, <1>3
<1>8. Members(s) = S
  BY <1>3, <1>6, <1>7 DEF Members, Surjection
<1> QED BY <1>3, <1>7, <1>8

(* A pre-order meets a block's dominators before the block.                *)
LEMMA PreOrderFacts ==
  ASSUME NEW g, NEW R, R = {b \in Blocks : Reachable(g, b)},
         NEW dom, dom = {p \in Blocks \X Blocks : Dominates(g, p[1], p[2])},
         NEW s \in PreOrders(R, dom)
  PROVE  /\ s \in Seq(Blocks) /\ \A k \in 1 .. Len(s) : Reachable(g, s[k])
         /\ \A j, k \in 1 .. Len(s) : j < k => ~ Dominates(g, s[k], s[j])
<1> DEFINE n == Len(s)
<1>1. s \in Listings(R) /\ R \in SUBSET Blocks
  BY DEF PreOrders
<1>2. s \in Seq(R) /\ s \in Seq(Blocks) /\ IsInjective(s)
  BY <1>1, ListingFacts
<1>3. n \in Nat /\ DOMAIN s = 1 .. n /\ \A k \in 1 .. n : s[k] \in R
  BY <1>2
<1>4. s[1] = Entry
  BY DEF PreOrders
<1>5. \A k \in 2 .. n : \A d \in R \ {s[k]} : <<d, s[k]>> \in dom => <<d, s[k - 1]>> \in dom
  BY DEF PreOrders
<1> HIDE DEF n
<1> DEFINE Bad == {j \in 1 .. n : \E d \in Blocks : Dominates(g, d, s[j])
                                              /\ \A k \in 1 .. j : s[k] # d}
<1>6. Bad = {}
  <2> SUFFICES ASSUME Bad # {} PROVE FALSE
    OBVIOUS
  <2>1. Bad \in SUBSET Nat
    BY <1>3
  <2>2. PICK j \in Bad : \A m \in Bad : j <= m
    BY <2>1, LeastNat
  <2>3. PICK d \in Blocks : Dominates(g, d, s[j]) /\ \A k \in 1 .. j : s[k] # d
    OBVIOUS
  <2>4. j \in 1 .. n /\ j \in 1 .. j /\ s[j] \in Blocks /\ Reachable(g, s[j])
    BY <1>1, <1>3
  <2>5. d # s[j] /\ Reachable(g, d)
    BY <2>3, <2>4, DominatorReachable
  <2>6. CASE j = 1
    BY <1>4, <2>3, <2>5, <2>6, DominatesEntry
  <2>7. CASE j # 1
    <3>1. j \in 2 .. n /\ j - 1 \in 1 .. n /\ ~ (j <= j - 1) /\ \A k \in 1 .. j - 1 : k \in 1 .. j
      BY <1>3, <2>4, <2>7
    <3>2. <<d, s[j]>> \in dom /\ d \in R \ {s[j]}
      BY <2>3, <2>4, <2>5
    <3>3. Dominates(g, d, s[j - 1])
      BY <1>5, <3>1, <3>2
    <3>4. j - 1 \in Bad
      BY <2>3, <3>1, <3>3
    <3> QED BY <2>2, <3>1, <3>4
  <2> QED BY <2>6, <2>7
<1>7. ASSUME NEW j \in 1 .. n, NEW k \in 1 .. n, j < k, Dominates(g, s[k], s[j]) PROVE FALSE
  <2>1. s[k] \in Blocks
    BY <1>1, <1>3
  <2>2. j \notin Bad
    BY <1>6
  <2> HIDE DEF Bad
  <2>3. PICK i \in 1 .. j : s[i] = s[k]
    BY <1>7, <2>1, <2>2 DEF Bad
  <2>4. i \in 1 .. n /\ i # k
    BY <1>3, <1>7
  <2> QED BY <1>2, <1>3, <2>3, <2>4 DEF IsInjective
<1> QED BY <1>1, <1>2, <1>3, <1>7 DEF n

LEMMA InitPass == Init => PassInv
<1> SUFFICES ASSUME Init PROVE PassInv
  OBVIOUS
<1> DEFINE R == {b \in Blocks : Reachable(cfg, b)}
<1>1. /\ cfg \in CFGs
      /\ dominates = {p \in Blocks \X Blocks : Dominates(cfg, p[1], p[2])}
      /\ dom_post_order \in PostOrders(R, dominates)
  BY DEF Init
<1> HIDE DEF R
<1>2. PICK s \in PreOrders(R, dominates) :
        dom_post_order = [k \in 1 .. Len(s) |-> s[Len(s) + 1 - k]]
  BY <1>1 DEF PostOrders
<1>3. /\ s \in Seq(Blocks) /\ \A k \in 1 .. Len(s) : Reachable(cfg, s[k])
      /\ \A j, k \in 1 .. Len(s) : j < k => ~ Dominates(cfg, s[k], s[j])
  BY <1>1, PreOrderFacts DEF R
<1> DEFINE n == Len(s)
<1>4. n \in Nat /\ \A k \in 1 .. n : s[k] \in Blocks
  BY <1>3
<1>5. dom_post_order = [k \in 1 .. n |-> s[n + 1 - k]]
  BY <1>2
<1> HIDE DEF n
<1>6. \A k \in 1 .. n : n + 1 - k \in 1 .. n
  BY <1>4
<1>7. dom_post_order \in Seq(Blocks) /\ Len(dom_post_order) = n
      /\ \A k \in 1 .. n : dom_post_order[k] = s[n + 1 - k]
  BY <1>4, <1>5, <1>6
<1>8. \A k \in 1 .. n : Reachable(cfg, dom_post_order[k])
  BY <1>3, <1>6, <1>7 DEF n
<1>9. \A j, k \in 1 .. n : j < k => ~ Dominates(cfg, dom_post_order[j], dom_post_order[k])
  <2> SUFFICES ASSUME NEW j \in 1 .. n, NEW k \in 1 .. n, j < k
               PROVE  ~ Dominates(cfg, dom_post_order[j], dom_post_order[k])
    OBVIOUS
  <2>1. n + 1 - k < n + 1 - j
    BY <1>4
  <2> QED BY <1>3, <1>6, <1>7, <2>1 DEF n
<1> QED BY <1>1, <1>7, <1>8, <1>9 DEF PassInv

LEMMA InitInv == Init => Inv
<1> SUFFICES ASSUME Init PROVE Inv
  OBVIOUS
<1>1. PassInv
  BY InitPass
<1>2. /\ pc = "scan" /\ pos = 1 /\ loop = nullptr /\ sub_loop = nullptr
      /\ work_list = << >> /\ loops = << >>
      /\ bb_to_loop = [b \in Blocks |-> nullptr] /\ blocks = [b \in Blocks |-> << >>]
      /\ parent = [b \in Blocks |-> nullptr] /\ sub_loops = [b \in Blocks |-> << >>]
      /\ latches = [b \in Blocks |-> {}]
  BY DEF Init
<1>3. Members(loops) = {} /\ Len(loops) = 0 /\ \A h \in Blocks : Members(sub_loops[h]) = {}
  BY <1>2 DEF Members
<1>4. TypeOK
  <2>1. Len(dom_post_order) \in Nat
    BY <1>1 DEF PassInv
  <2>2. pos \in 1 .. Len(dom_post_order) + 1
    BY <1>2, <2>1
  <2>3. nullptr \in BlockOrNull
    BY DEF BlockOrNull
  <2>4. work_list \in Seq(Blocks) /\ loops \in Seq(Blocks)
    BY <1>2
  <2> QED BY <1>2, <2>2, <2>3, <2>4 DEF TypeOK
<1>5. ListInv
  <2>1. \A k \in 1 .. Len(dom_post_order) : ~ (k < pos) /\ ~ Filling
    BY <1>1, <1>2 DEF PassInv, Filling
  <2> QED BY <1>2, <1>3, <2>1 DEF ListInv, Filling
<1>6. MapInv
  BY <1>2, <1>3 DEF MapInv, IsInjective
<1>7. FillInv
  BY <1>2, <1>3 DEF FillInv, Filling
<1> QED BY <1>1, <1>4, <1>5, <1>6, <1>7 DEF Inv
-----------------------------------------------------------------------------
(***************************************************************************)
(* The loops around a loop.                                                *)
(***************************************************************************)
LEMMA EnclosingSelf ==
  ASSUME NEW l \in Members(loops)
  PROVE  l \in Enclosing(l)
BY DEF Enclosing

LEMMA EnclosingStep ==
  ASSUME NEW l, NEW x \in Enclosing(l), parent[x] # nullptr, parent[x] \in Members(loops)
  PROVE  parent[x] \in Enclosing(l)
BY DEF Enclosing

(* Nothing outside a set that is closed under parents.                     *)
LEMMA EnclosingLeast ==
  ASSUME NEW l, NEW S \in SUBSET Blocks, l \in S,
         \A x \in S : parent[x] # nullptr => parent[x] \in S
  PROVE  Enclosing(l) \subseteq S
BY DEF Enclosing

LEMMA ListFacts ==
  ASSUME TypeOK, PassInv, ListInv
  PROVE  /\ Members(loops) \subseteq Blocks
         /\ \A l \in Members(loops) : Reachable(cfg, l)
<1>1. \A l \in Members(loops) : \E k \in 1 .. Len(dom_post_order) : l = dom_post_order[k]
  BY DEF ListInv
<1>2. \A k \in 1 .. Len(dom_post_order) : dom_post_order[k] \in Blocks /\ Reachable(cfg, dom_post_order[k])
  BY DEF PassInv
<1> QED BY <1>1, <1>2

(* A block is in every loop around the one it is mapped to, and those      *)
(* contain that one.                                                       *)
LEMMA EnclosingContains ==
  ASSUME TypeOK, PassInv, ListInv, MapInv, NEW l \in Members(loops), NEW h \in Enclosing(l)
  PROVE  h \in Members(loops) /\ NaturalLoop(l) \subseteq NaturalLoop(h)
<1> DEFINE S == {x \in Members(loops) : NaturalLoop(l) \subseteq NaturalLoop(x)}
<1>1. l \in S /\ S \in SUBSET Blocks
  BY ListFacts
<1>2. \A x \in S : parent[x] # nullptr => parent[x] \in S
  BY <1>1 DEF MapInv
<1> HIDE DEF S
<1>3. h \in S
  BY <1>1, <1>2, EnclosingLeast
<1> QED BY <1>3 DEF S

LEMMA WithSubLoopsInside ==
  ASSUME TypeOK, PassInv, ListInv, MapInv, NEW h
  PROVE  WithSubLoops(h) \subseteq NaturalLoop(h)
<1> SUFFICES ASSUME NEW b \in WithSubLoops(h) PROVE b \in NaturalLoop(h)
  OBVIOUS
<1>1. b \in Blocks /\ bb_to_loop[b] # nullptr /\ h \in Enclosing(bb_to_loop[b])
  BY DEF WithSubLoops
<1>2. bb_to_loop[b] \in Members(loops) /\ b \in NaturalLoop(bb_to_loop[b])
  BY <1>1 DEF MapInv
<1> QED BY <1>1, <1>2, EnclosingContains

(* The loop in hand lies around every complete loop that it meets.         *)
LEMMA MeetsInside ==
  ASSUME Inv, Filling, NEW r \in Members(loops), r # loop,
         NaturalLoop(loop) \cap NaturalLoop(r) # {}
  PROVE  /\ r \in NaturalLoop(loop) /\ loop \notin NaturalLoop(r)
         /\ NaturalLoop(r) \subseteq NaturalLoop(loop)
<1>1. PassInv /\ ListInv /\ TypeOK
  BY DEF Inv
<1>2. /\ pos \in 1 .. Len(dom_post_order) /\ loop = dom_post_order[pos]
      /\ loop \in Members(loops)
  BY <1>1 DEF ListInv
<1>3. loop \in Blocks /\ r \in Blocks /\ Reachable(cfg, loop) /\ Reachable(cfg, r)
  BY <1>1, <1>2, ListFacts
<1>4. PICK k \in 1 .. Len(dom_post_order) : k < pos /\ r = dom_post_order[k]
  <2>1. PICK k \in 1 .. Len(dom_post_order) : (k < pos \/ k = pos) /\ r = dom_post_order[k]
    BY <1>1 DEF ListInv
  <2> QED BY <1>2, <2>1
<1>5. ~ Dominates(cfg, r, loop)
  BY <1>1, <1>2, <1>4 DEF PassInv
<1>6. PICK b \in NaturalLoop(loop) : b \in NaturalLoop(r)
  OBVIOUS
<1>7. /\ b \in Blocks /\ Reachable(cfg, b)
      /\ Dominates(cfg, loop, b) /\ Dominates(cfg, r, b)
  BY <1>1, <1>3, <1>6, HeaderDominates
<1>8. StrictlyDominates(cfg, loop, r)
  BY <1>3, <1>5, <1>7, DomTotal DEF StrictlyDominates
<1> QED BY <1>1, <1>3, <1>8, LoopInside
-----------------------------------------------------------------------------
(***************************************************************************)
(* The steps.                                                              *)
(***************************************************************************)
LEMMA StepPass ==
  ASSUME PassInv, [Next]_vars
  PROVE  /\ PassInv' /\ UNCHANGED passVars
         /\ \A h : NaturalLoop(h)' = NaturalLoop(h) /\ BackEdges(h)' = BackEdges(h) /\ Pre(h)' = Pre(h)
<1>1. UNCHANGED passVars
  BY DEF Next, vars, PassOver, CreateLoop, ClaimBlock, MeetLoop, SeenBlock, Climb, Nest, EndLoop,
         Finish, Finished
<1>2. \A h : BackEdges(h)' = BackEdges(h) /\ Pre(h)' = Pre(h)
  BY <1>1 DEF passVars, BackEdges, Pre
<1>3. \A h : NaturalLoop(h)' = NaturalLoop(h)
  BY <1>1, <1>2 DEF passVars, NaturalLoop
<1>4. PassInv'
  BY <1>1 DEF passVars, PassInv
<1> QED BY <1>1, <1>2, <1>3, <1>4

(* Nothing is ever taken out of a loop.                                    *)
LEMMA WithSubLoopsGrow ==
  ASSUME Members(loops) \subseteq Members(loops'),
         \A b \in Blocks : bb_to_loop[b] # nullptr => bb_to_loop'[b] = bb_to_loop[b],
         \A l \in Blocks : parent[l] # nullptr => parent'[l] = parent[l]
  PROVE  /\ \A h, l : h \in Enclosing(l) => h \in Enclosing(l)'
         /\ \A h : WithSubLoops(h) \subseteq WithSubLoops(h)'
<1>1. ASSUME NEW h, NEW l, h \in Enclosing(l) PROVE h \in Enclosing(l)'
  <2>1. h \in Members(loops')
    BY <1>1 DEF Enclosing
  <2>2. ASSUME NEW S \in SUBSET Blocks, l \in S, \A x \in S : parent'[x] # nullptr => parent'[x] \in S
        PROVE  h \in S
    <3>1. \A x \in S : parent[x] # nullptr => parent[x] \in S
      BY <2>2
    <3> QED BY <1>1, <2>2, <3>1 DEF Enclosing
  <2> QED BY <2>1, <2>2 DEF Enclosing
<1>2. \A h : WithSubLoops(h) \subseteq WithSubLoops(h)'
  BY <1>1 DEF WithSubLoops
<1> QED BY <1>1, <1>2

LEMMA WithSubLoopsSame ==
  ASSUME UNCHANGED <<loops, bb_to_loop, parent>>
  PROVE  \A h : WithSubLoops(h)' = WithSubLoops(h)
BY DEF WithSubLoops, Enclosing

(* What the branches that leave the loops alone keep.                      *)
LEMMA LoopsAlone ==
  ASSUME Inv, [Next]_vars, UNCHANGED loopVars
  PROVE  /\ MapInv'
         /\ \A h : WithSubLoops(h)' = WithSubLoops(h)
         /\ \A j, k \in 1 .. Len(loops') : j < k => ~ Dominates(cfg', loops'[j], loops'[k])
         /\ \A l \in Members(loops') : latches'[l] = BackEdges(l)' /\ bb_to_loop'[l] = l
<1>1. /\ UNCHANGED passVars
      /\ \A h : NaturalLoop(h)' = NaturalLoop(h) /\ BackEdges(h)' = BackEdges(h)
  BY StepPass DEF Inv
<1>2. MapInv'
  BY <1>1 DEF loopVars, Inv, MapInv
<1>3. \A h : WithSubLoops(h)' = WithSubLoops(h)
  BY WithSubLoopsSame DEF loopVars
<1> QED BY <1>1, <1>2, <1>3 DEF loopVars, passVars, Inv, ListInv

LEMMA PassOverInv == Inv /\ PassOver => ListInv' /\ MapInv' /\ FillInv'
<1> SUFFICES ASSUME Inv, PassOver PROVE ListInv' /\ MapInv' /\ FillInv'
  OBVIOUS
<1>0. [Next]_vars /\ UNCHANGED loopVars /\ TypeOK /\ PassInv /\ ListInv
  BY DEF Next, PassOver, Inv
<1>1. /\ UNCHANGED passVars
      /\ \A h : NaturalLoop(h)' = NaturalLoop(h) /\ BackEdges(h)' = BackEdges(h)
  BY <1>0, StepPass
<1>2. /\ MapInv' /\ \A h : WithSubLoops(h)' = WithSubLoops(h)
      /\ \A j, k \in 1 .. Len(loops') : j < k => ~ Dominates(cfg', loops'[j], loops'[k])
      /\ \A l \in Members(loops') : latches'[l] = BackEdges(l)' /\ bb_to_loop'[l] = l
  BY <1>0, LoopsAlone
<1>3. /\ pc = "scan" /\ pc' = pc /\ pos' = pos + 1 /\ ~ Filling /\ ~ Filling' /\ UNCHANGED <<loop, loops>>
  BY DEF PassOver, Filling, loopVars
<1> DEFINE n == Len(dom_post_order)
<1>4. n \in Nat /\ pos \in Nat /\ pos \in 1 .. n
  BY <1>0 DEF PassInv, TypeOK, PassOver
<1>5. BackEdges(dom_post_order[pos]) = {}
  <2>1. dom_post_order[pos] \in Blocks
    BY <1>0, <1>4 DEF PassInv
  <2> QED BY <1>0, <2>1, BackEdgeFacts DEF PassOver
<1>6. Members(loops') =
       {dom_post_order[k] : k \in {k \in 1 .. n :
          (k < pos' \/ (Filling' /\ k = pos')) /\ BackEdges(dom_post_order[k]) # {}}}
  <2>1. \A k \in 1 .. n : BackEdges(dom_post_order[k]) # {} =>
          (k < pos + 1 <=> k < pos)
    BY <1>4, <1>5
  <2> QED BY <1>0, <1>3, <2>1 DEF ListInv
<1>7. ListInv'
  BY <1>1, <1>2, <1>3, <1>6 DEF ListInv, passVars
<1>8. FillInv'
  BY <1>1, <1>2, <1>3 DEF Inv, FillInv, Complete
<1> QED BY <1>2, <1>7, <1>8

(* What the branches that keep the list of loops and fill the one in hand  *)
(* keep.                                                                   *)
LEMMA ListKept ==
  ASSUME Inv, [Next]_vars, Filling, Filling', UNCHANGED <<pos, loop, loops, latches>>,
         parent'[loop] = nullptr, \A l \in Members(loops) : bb_to_loop'[l] = bb_to_loop[l]
  PROVE  ListInv'
<1>1. /\ UNCHANGED passVars
      /\ \A h : NaturalLoop(h)' = NaturalLoop(h) /\ BackEdges(h)' = BackEdges(h)
  BY StepPass DEF Inv
<1>2. pc' # "done"
  BY DEF Filling
<1>3. ListInv /\ UNCHANGED <<dom_post_order, cfg>>
  BY <1>1 DEF Inv, passVars
<1>4. Members(loops') =
       {dom_post_order[k] : k \in {k \in 1 .. Len(dom_post_order) :
          (k < pos' \/ (Filling' /\ k = pos')) /\ BackEdges(dom_post_order[k]) # {}}}
  BY <1>1, <1>3 DEF ListInv
<1>5. \A j, k \in 1 .. Len(loops') : j < k => ~ Dominates(cfg', loops'[j], loops'[k])
  BY <1>3 DEF ListInv
<1>6. /\ pos' \in 1 .. Len(dom_post_order') /\ loop' = dom_post_order'[pos']
      /\ loop' \in Members(loops') /\ parent'[loop'] = nullptr
  BY <1>3 DEF ListInv
<1>7. \A l \in Members(loops') : latches'[l] = BackEdges(l)' /\ bb_to_loop'[l] = l
  BY <1>1, <1>3 DEF ListInv
<1>8. (Members(loops) =
       {dom_post_order[k] : k \in {k \in 1 .. Len(dom_post_order) :
          (k < pos \/ (Filling /\ k = pos)) /\ BackEdges(dom_post_order[k]) # {}}})'
  BY <1>1, <1>3, <1>4
<1> QED BY <1>2, <1>5, <1>6, <1>7, <1>8 DEF ListInv

(* The block at the back of the work list is in the loop.                  *)
LEMMA BackFacts ==
  ASSUME Inv, Filling, work_list # << >>
  PROVE  /\ loop \in Members(loops) /\ loop \in Blocks /\ Reachable(cfg, loop)
         /\ Back \in Blocks /\ Back \in NaturalLoop(loop)
         /\ Popped \in Seq(Blocks)
         /\ Members(work_list) = Members(Popped) \cup {Back}
<1>1. loop \in Members(loops) /\ loop \in Blocks /\ Reachable(cfg, loop)
  BY ListFacts DEF Inv, ListInv
<1>2. work_list \in Seq(Blocks)
  BY DEF Inv, TypeOK
<1>3. /\ Popped \in Seq(Blocks) /\ Back \in Blocks
      /\ Members(work_list) = Members(Popped) \cup {Back}
  BY <1>2, PopFacts DEF Back, Popped
<1>4. Back \in NaturalLoop(loop)
  BY <1>3 DEF Inv, FillInv
<1> QED BY <1>1, <1>3, <1>4

LEMMA SeenBlockInv == Inv /\ SeenBlock => ListInv' /\ MapInv' /\ FillInv'
<1> SUFFICES ASSUME Inv, SeenBlock PROVE ListInv' /\ MapInv' /\ FillInv'
  OBVIOUS
<1>0. /\ [Next]_vars /\ UNCHANGED loopVars /\ UNCHANGED <<pc, pos, loop, loops, latches, parent, bb_to_loop>>
      /\ pc = "discover" /\ Filling /\ Filling' /\ work_list # << >> /\ work_list' = Popped
      /\ bb_to_loop[Back] = loop
  BY DEF Next, SeenBlock, Filling, loopVars
<1>1. \A h : /\ NaturalLoop(h)' = NaturalLoop(h) /\ BackEdges(h)' = BackEdges(h)
             /\ Pre(h)' = Pre(h)
  BY <1>0, StepPass DEF Inv
<1>2. MapInv' /\ \A h : WithSubLoops(h)' = WithSubLoops(h)
  BY <1>0, LoopsAlone
<1>3. ListInv'
  BY <1>0, ListKept DEF Inv, ListInv
<1>4. /\ loop \in Members(loops) /\ Back \in Blocks
      /\ Members(work_list) = Members(Popped) \cup {Back}
  BY <1>0, BackFacts
<1>5. Back \in WithSubLoops(loop)
  BY <1>0, <1>4, EnclosingSelf, NullNotBlock, ListFacts DEF WithSubLoops, Inv
<1>6. \A p : Pending(p) => Pending(p)'
  BY <1>0, <1>2, <1>4, <1>5 DEF Pending
<1>7. FillInv'
  BY <1>0, <1>1, <1>2, <1>4, <1>6 DEF Inv, FillInv, Complete
<1> QED BY <1>2, <1>3, <1>7

LEMMA MeetLoopInv == Inv /\ MeetLoop => ListInv' /\ MapInv' /\ FillInv'
<1> SUFFICES ASSUME Inv, MeetLoop PROVE ListInv' /\ MapInv' /\ FillInv'
  OBVIOUS
<1>0. /\ [Next]_vars /\ UNCHANGED loopVars /\ UNCHANGED <<pos, loop, loops, latches, parent, bb_to_loop>>
      /\ pc = "discover" /\ pc' = "climb" /\ Filling /\ Filling' /\ work_list # << >> /\ work_list' = Popped
      /\ bb_to_loop[Back] # nullptr /\ bb_to_loop[Back] # loop /\ sub_loop' = bb_to_loop[Back]
  BY DEF Next, MeetLoop, Filling, loopVars
<1>1. \A h : /\ NaturalLoop(h)' = NaturalLoop(h) /\ BackEdges(h)' = BackEdges(h)
             /\ Pre(h)' = Pre(h)
  BY <1>0, StepPass DEF Inv
<1>2. MapInv' /\ \A h : WithSubLoops(h)' = WithSubLoops(h)
  BY <1>0, LoopsAlone
<1>3. ListInv'
  BY <1>0, ListKept DEF Inv, ListInv
<1>4. /\ loop \in Members(loops) /\ Back \in Blocks /\ Back \in NaturalLoop(loop)
      /\ Members(work_list) = Members(Popped) \cup {Back}
  BY <1>0, BackFacts
<1>5. sub_loop' \in Members(loops) /\ Back \in NaturalLoop(sub_loop')
  BY <1>0, <1>4 DEF Inv, MapInv
<1>6. Back \in WithSubLoops(sub_loop')
  BY <1>0, <1>4, <1>5, EnclosingSelf DEF WithSubLoops
<1>7. WithSubLoops(loop)' = WithSubLoops(loop) /\ WithSubLoops(sub_loop)' = WithSubLoops(sub_loop')
  BY <1>0, WithSubLoopsSame DEF WithSubLoops, Enclosing
<1>8. \A p : Pending(p) => Pending(p)'
  BY <1>0, <1>4, <1>6, <1>7 DEF Pending
<1>9. NaturalLoop(loop)' \cap NaturalLoop(sub_loop)' # {}
  <2>1. NaturalLoop(loop)' = NaturalLoop(loop)
    BY <1>0, <1>1
  <2>2. NaturalLoop(sub_loop)' = NaturalLoop(sub_loop')
    BY <1>0, StepPass DEF NaturalLoop, BackEdges, Inv, passVars
  <2> QED BY <1>4, <1>5, <2>1, <2>2
<1>10. FillInv'
  BY <1>0, <1>1, <1>2, <1>4, <1>5, <1>7, <1>8, <1>9 DEF Inv, FillInv, Complete
<1> QED BY <1>2, <1>3, <1>10

LEMMA ClimbInv == Inv /\ Climb => ListInv' /\ MapInv' /\ FillInv'
<1> SUFFICES ASSUME Inv, Climb PROVE ListInv' /\ MapInv' /\ FillInv'
  OBVIOUS
<1>0. /\ [Next]_vars /\ UNCHANGED loopVars
      /\ UNCHANGED <<pc, pos, loop, loops, latches, parent, bb_to_loop, work_list>>
      /\ pc = "climb" /\ Filling /\ Filling'
      /\ parent[sub_loop] # nullptr /\ sub_loop' = parent[sub_loop]
  BY DEF Next, Climb, Filling, loopVars
<1>1. \A h : /\ NaturalLoop(h)' = NaturalLoop(h) /\ BackEdges(h)' = BackEdges(h)
             /\ Pre(h)' = Pre(h)
  BY <1>0, StepPass DEF Inv
<1>2. MapInv' /\ \A h : WithSubLoops(h)' = WithSubLoops(h)
  BY <1>0, LoopsAlone
<1>3. ListInv'
  BY <1>0, ListKept DEF Inv, ListInv
<1>4. sub_loop \in Members(loops) /\ sub_loop \in Blocks
  BY <1>0, ListFacts DEF Inv, FillInv
<1>5. sub_loop' \in Members(loops) /\ NaturalLoop(sub_loop) \subseteq NaturalLoop(sub_loop')
  BY <1>0, <1>4 DEF Inv, MapInv
<1>6. WithSubLoops(sub_loop) \subseteq WithSubLoops(sub_loop')
  BY <1>0, <1>5, EnclosingStep DEF WithSubLoops
<1>7. WithSubLoops(loop)' = WithSubLoops(loop) /\ WithSubLoops(sub_loop)' = WithSubLoops(sub_loop')
  BY <1>0 DEF WithSubLoops, Enclosing
<1>8. \A p : Pending(p) => Pending(p)'
  BY <1>0, <1>6, <1>7 DEF Pending
<1>9. NaturalLoop(loop)' \cap NaturalLoop(sub_loop)' # {}
  <2>1. NaturalLoop(loop)' = NaturalLoop(loop)
    BY <1>0, <1>1
  <2>2. NaturalLoop(sub_loop)' = NaturalLoop(sub_loop')
    BY <1>0, StepPass DEF NaturalLoop, BackEdges, Inv, passVars
  <2> QED BY <1>0, <1>5, <2>1, <2>2 DEF Inv, FillInv
<1>10. FillInv'
  BY <1>0, <1>1, <1>2, <1>5, <1>7, <1>8, <1>9 DEF Inv, FillInv, Complete
<1> QED BY <1>2, <1>3, <1>10

LEMMA ClaimBlockInv == Inv /\ ClaimBlock => ListInv' /\ MapInv' /\ FillInv'
<1> SUFFICES ASSUME Inv, ClaimBlock PROVE ListInv' /\ MapInv' /\ FillInv'
  OBVIOUS
<1>0. /\ [Next]_vars /\ UNCHANGED <<pc, pos, loop, loops, latches, parent, sub_loops>>
      /\ pc = "discover" /\ Filling /\ Filling' /\ work_list # << >>
      /\ bb_to_loop[Back] = nullptr /\ bb_to_loop' = [bb_to_loop EXCEPT ![Back] = loop]
      /\ work_list' = Popped \o Pre(Back)
  BY DEF Next, ClaimBlock, Filling
<1>1. \A h : /\ NaturalLoop(h)' = NaturalLoop(h) /\ BackEdges(h)' = BackEdges(h)
             /\ Pre(h)' = Pre(h)
  BY <1>0, StepPass DEF Inv
<1>2. /\ loop \in Members(loops) /\ loop \in Blocks /\ Back \in Blocks /\ Back \in NaturalLoop(loop)
      /\ Popped \in Seq(Blocks) /\ Members(work_list) = Members(Popped) \cup {Back}
  BY <1>0, BackFacts
<1>3. \A l \in Members(loops) : bb_to_loop[l] = l /\ l \in Blocks
  BY ListFacts DEF Inv, ListInv
<1>4. /\ bb_to_loop'[Back] = loop
      /\ \A b \in Blocks \ {Back} : bb_to_loop'[b] = bb_to_loop[b]
  BY <1>0, <1>2 DEF Inv, TypeOK
<1>5. \A l \in Members(loops) : l # Back /\ bb_to_loop'[l] = bb_to_loop[l]
  BY <1>0, <1>3, <1>4
<1>6. ListInv'
  BY <1>0, <1>5, ListKept DEF Inv, ListInv
<1>7. \A b \in Blocks : bb_to_loop[b] # nullptr => bb_to_loop'[b] = bb_to_loop[b]
  BY <1>0, <1>4
<1>8. \A h : WithSubLoops(h) \subseteq WithSubLoops(h)'
  BY <1>0, <1>7, WithSubLoopsGrow
<1>9. \A l : Enclosing(l)' = Enclosing(l)
  BY <1>0 DEF Enclosing
<1>10. Back \in WithSubLoops(loop)'
  BY <1>0, <1>2, <1>4, <1>9, EnclosingSelf DEF WithSubLoops
<1>11. ASSUME NEW x \in WithSubLoops(loop)', x # Back PROVE x \in WithSubLoops(loop)
  BY <1>0, <1>4, <1>9, <1>11 DEF WithSubLoops
<1>12. MapInv'
  <2>1. \A b \in Blocks : bb_to_loop'[b] # nullptr =>
          bb_to_loop'[b] \in Members(loops) /\ b \in NaturalLoop(bb_to_loop'[b])
    BY <1>2, <1>4 DEF Inv, MapInv
  <2>2. \A b \in Blocks : NaturalLoop(bb_to_loop'[b]) = NaturalLoop(bb_to_loop[b])'
    BY <1>0, StepPass DEF NaturalLoop, BackEdges, Inv, passVars
  <2> QED BY <1>0, <1>1, <2>1, <2>2 DEF Inv, MapInv
<1>13. /\ Members(work_list') = Members(Popped) \cup Members(Pre(Back))
       /\ Members(Pre(Back)) \subseteq NaturalLoop(loop)
  <2>1. Pre(Back) \in Seq(Blocks)
    BY <1>2, PassFacts DEF Inv
  <2>2. Back # loop
    BY <1>2, <1>5
  <2> QED BY <1>0, <1>2, <2>1, <2>2, MembersConcat, LoopIsBody DEF Inv, IsBody, Pre
<1>14. \A p : Pending(p) => Pending(p)'
  BY <1>0, <1>2, <1>8, <1>10, <1>13 DEF Pending
<1>15. \A x \in WithSubLoops(loop)' \ {loop} : \A p \in Members(Pre(x)) : Pending(p)'
  <2> TAKE x \in WithSubLoops(loop)' \ {loop}
  <2> TAKE p \in Members(Pre(x))
  <2>1. CASE x = Back
    BY <1>13, <2>1 DEF Pending
  <2>2. CASE x # Back
    <3>1. Pending(p)
      BY <1>0, <1>11, <2>2 DEF Inv, FillInv
    <3> QED BY <1>14, <3>1
  <2> QED BY <2>1, <2>2
<1>16. Members(work_list') \subseteq NaturalLoop(loop) /\ \A p \in BackEdges(loop) : Pending(p)'
  BY <1>0, <1>2, <1>13, <1>14 DEF Inv, FillInv
<1>17. \A h \in Members(loops) : Complete(h)' => NaturalLoop(h) \subseteq WithSubLoops(h)'
  BY <1>0, <1>8 DEF Inv, FillInv, Complete
<1>18. FillInv'
  BY <1>0, <1>1, <1>15, <1>16, <1>17 DEF FillInv
<1> QED BY <1>6, <1>12, <1>18

LEMMA EndLoopInv == Inv /\ EndLoop => ListInv' /\ MapInv' /\ FillInv'
<1> SUFFICES ASSUME Inv, EndLoop PROVE ListInv' /\ MapInv' /\ FillInv'
  OBVIOUS
<1>0. /\ [Next]_vars /\ UNCHANGED loopVars /\ UNCHANGED <<loop, loops>>
      /\ pc = "discover" /\ pc' = "scan" /\ Filling /\ ~ Filling'
      /\ work_list = << >> /\ pos' = pos + 1
  BY DEF Next, EndLoop, Filling, loopVars
<1>1. /\ UNCHANGED passVars
      /\ \A h : NaturalLoop(h)' = NaturalLoop(h) /\ BackEdges(h)' = BackEdges(h)
  BY <1>0, StepPass DEF Inv
<1>2. /\ MapInv' /\ \A h : WithSubLoops(h)' = WithSubLoops(h)
      /\ \A j, k \in 1 .. Len(loops') : j < k => ~ Dominates(cfg', loops'[j], loops'[k])
      /\ \A l \in Members(loops') : latches'[l] = BackEdges(l)' /\ bb_to_loop'[l] = l
  BY <1>0, LoopsAlone
<1> DEFINE n == Len(dom_post_order)
<1>3. n \in Nat /\ pos \in 1 .. n
  BY <1>0 DEF Inv, PassInv, ListInv
<1>4. Members(loops') =
       {dom_post_order[k] : k \in {k \in 1 .. n :
          (k < pos' \/ (Filling' /\ k = pos')) /\ BackEdges(dom_post_order[k]) # {}}}
  <2>1. \A k \in 1 .. n : k < pos + 1 <=> (k < pos \/ k = pos)
    BY <1>3
  <2> QED BY <1>0, <2>1 DEF Inv, ListInv
<1>5. ListInv'
  BY <1>0, <1>1, <1>2, <1>4 DEF ListInv, passVars
<1>6. loop \in Members(loops) /\ loop \in Blocks /\ bb_to_loop[loop] = loop
  BY <1>0, ListFacts DEF Inv, ListInv
<1>7. loop \in WithSubLoops(loop) /\ WithSubLoops(loop) \in SUBSET Blocks
  BY <1>6, EnclosingSelf, NullNotBlock DEF WithSubLoops
<1>8. \A p : Pending(p) => p \in WithSubLoops(loop)
  BY <1>0 DEF Pending, Members
<1>9. IsBody(WithSubLoops(loop), loop)
  BY <1>0, <1>7, <1>8 DEF Inv, FillInv, IsBody, Pre
<1>10. NaturalLoop(loop) \subseteq WithSubLoops(loop)
  BY <1>6, <1>7, <1>9, LoopLeast
<1>11. FillInv'
  BY <1>0, <1>1, <1>2, <1>10 DEF Inv, FillInv, Complete
<1> QED BY <1>2, <1>5, <1>11

LEMMA FinishInv == Inv /\ (Finish \/ Finished \/ UNCHANGED vars) => ListInv' /\ MapInv' /\ FillInv'
<1> SUFFICES ASSUME Inv, Finish \/ Finished \/ UNCHANGED vars PROVE ListInv' /\ MapInv' /\ FillInv'
  OBVIOUS
<1>0. /\ [Next]_vars /\ UNCHANGED loopVars
      /\ UNCHANGED <<pos, loop, sub_loop, loops, work_list, parent>>
      /\ pc' = pc \/ (pc = "scan" /\ pos > Len(dom_post_order) /\ pc' = "done")
  BY DEF Next, Finish, Finished, vars, loopVars
<1>1. /\ UNCHANGED passVars
      /\ \A h : /\ NaturalLoop(h)' = NaturalLoop(h) /\ BackEdges(h)' = BackEdges(h)
                /\ Pre(h)' = Pre(h)
  BY <1>0, StepPass DEF Inv
<1>2. /\ MapInv' /\ \A h : WithSubLoops(h)' = WithSubLoops(h)
      /\ \A j, k \in 1 .. Len(loops') : j < k => ~ Dominates(cfg', loops'[j], loops'[k])
      /\ \A l \in Members(loops') : latches'[l] = BackEdges(l)' /\ bb_to_loop'[l] = l
  BY <1>0, LoopsAlone
<1>3. Filling' = Filling
  BY <1>0 DEF Filling
<1>4. ListInv'
  <2>1. Members(loops') =
       {dom_post_order[k] : k \in {k \in 1 .. Len(dom_post_order) :
          (k < pos' \/ (Filling' /\ k = pos')) /\ BackEdges(dom_post_order[k]) # {}}}
    BY <1>0, <1>3 DEF Inv, ListInv
  <2>2. Filling' => pos' \in 1 .. Len(dom_post_order') /\ loop' = dom_post_order'[pos']
                      /\ loop' \in Members(loops') /\ parent'[loop'] = nullptr
    BY <1>0, <1>1, <1>3 DEF Inv, ListInv, passVars
  <2>3. pc' = "done" => pos' > Len(dom_post_order')
    BY <1>0, <1>1 DEF Inv, ListInv, passVars
  <2>4. (Members(loops) =
           {dom_post_order[k] : k \in {k \in 1 .. Len(dom_post_order) :
              (k < pos \/ (Filling /\ k = pos)) /\ BackEdges(dom_post_order[k]) # {}}})'
    BY <1>1, <2>1 DEF passVars
  <2> QED BY <1>2, <2>2, <2>3, <2>4 DEF ListInv
<1>5. FillInv'
  <2>1. WithSubLoops(loop)' = WithSubLoops(loop) /\ WithSubLoops(sub_loop)' = WithSubLoops(sub_loop)
    BY <1>0, <1>2
  <2>2. pc' = "climb" <=> pc = "climb"
    BY <1>0
  <2>3. \A p : Pending(p)' <=> Pending(p)
    BY <1>0, <2>1, <2>2 DEF Pending
  <2> QED BY <1>0, <1>1, <1>2, <1>3, <2>1, <2>2, <2>3 DEF Inv, FillInv, Complete
<1> QED BY <1>2, <1>4, <1>5

LEMMA CreateLoopInv == Inv /\ CreateLoop => ListInv' /\ MapInv' /\ FillInv'
<1> SUFFICES ASSUME Inv, CreateLoop PROVE ListInv' /\ MapInv' /\ FillInv'
  OBVIOUS
<1> DEFINE h == dom_post_order[pos]
           n == Len(dom_post_order)
<1>0. /\ [Next]_vars /\ UNCHANGED <<pos, parent, sub_loops, sub_loop>>
      /\ pc = "scan" /\ pc' = "discover" /\ ~ Filling /\ Filling' /\ pos <= n
      /\ Latches(h) # {} /\ loop' = h
      /\ bb_to_loop' = [bb_to_loop EXCEPT ![h] = h]
      /\ latches' = [latches EXCEPT ![h] = Latches(h)]
      /\ loops' = Append(loops, h) /\ work_list' \in Listings(Latches(h))
  BY DEF Next, CreateLoop, Filling
<1>1. /\ UNCHANGED passVars
      /\ \A x : /\ NaturalLoop(x)' = NaturalLoop(x) /\ BackEdges(x)' = BackEdges(x)
                /\ Pre(x)' = Pre(x)
  BY <1>0, StepPass DEF Inv
<1>2. n \in Nat /\ pos \in 1 .. n /\ h \in Blocks /\ Reachable(cfg, h)
  BY <1>0 DEF Inv, PassInv, TypeOK
<1>3. BackEdges(h) = Latches(h) /\ BackEdges(h) # {} /\ BackEdges(h) \in SUBSET Blocks
  BY <1>0, <1>2, BackEdgeFacts DEF Inv, BackEdges
<1>4. \A l \in Members(loops) : \E k \in 1 .. n : k < pos /\ l = dom_post_order[k]
  BY <1>0 DEF Inv, ListInv
<1>5. \A l \in Members(loops) : ~ Dominates(cfg, l, h) /\ l # h
  BY <1>2, <1>4, DomRefl DEF Inv, PassInv
<1>6. parent[h] = nullptr /\ bb_to_loop[h] = nullptr
  <2>1. \A l \in Members(loops) : l \in Blocks /\ Reachable(cfg, l) /\ h \notin NaturalLoop(l)
    BY <1>5, ListFacts, HeaderDominates DEF Inv
  <2> QED BY <1>2, <1>5, <2>1 DEF Inv, MapInv
<1>7. /\ bb_to_loop'[h] = h /\ latches'[h] = BackEdges(h)
      /\ \A b \in Blocks \ {h} : bb_to_loop'[b] = bb_to_loop[b] /\ latches'[b] = latches[b]
  BY <1>0, <1>2, <1>3 DEF Inv, TypeOK
<1>8. loops \in Seq(Blocks) /\ Members(loops) \subseteq Blocks /\ Members(loops') = Members(loops) \cup {h}
  BY <1>0, <1>2, MembersAppend, ListFacts DEF Inv, TypeOK
<1>9. \A l \in Members(loops') : latches'[l] = BackEdges(l)' /\ bb_to_loop'[l] = l
  <2>1. \A l \in Members(loops) : l \in Blocks \ {h} /\ latches[l] = BackEdges(l) /\ bb_to_loop[l] = l
    BY <1>5, <1>8 DEF Inv, ListInv
  <2> QED BY <1>1, <1>7, <1>8, <2>1
<1>10. \A j, k \in 1 .. Len(loops') : j < k => ~ Dominates(cfg, loops'[j], loops'[k])
  <2> DEFINE m == Len(loops)
  <2>1. /\ m \in Nat /\ Len(loops') = m + 1 /\ loops'[m + 1] = h
        /\ \A j \in 1 .. m : loops'[j] = loops[j] /\ loops[j] \in Members(loops)
    BY <1>0, <1>8 DEF Members
  <2>2. \A j, k \in 1 .. m : j < k => ~ Dominates(cfg, loops[j], loops[k])
    BY DEF Inv, ListInv
  <2> HIDE DEF m
  <2> SUFFICES ASSUME NEW j \in 1 .. m + 1, NEW k \in 1 .. m + 1, j < k
               PROVE  ~ Dominates(cfg, loops'[j], loops'[k])
    BY <2>1
  <2>3. j \in 1 .. m /\ (k \in 1 .. m \/ k = m + 1)
    BY <2>1
  <2> QED BY <1>5, <2>1, <2>2, <2>3
<1>11. Members(loops') =
       {dom_post_order[k] : k \in {k \in 1 .. n :
          (k < pos' \/ (Filling' /\ k = pos')) /\ BackEdges(dom_post_order[k]) # {}}}
  <2>1. Members(loops) =
       {dom_post_order[k] : k \in {k \in 1 .. n : k < pos /\ BackEdges(dom_post_order[k]) # {}}}
    BY <1>0 DEF Inv, ListInv
  <2> QED BY <1>0, <1>2, <1>3, <1>8, <2>1
<1>12. ListInv'
  <2>1. UNCHANGED <<dom_post_order, cfg>>
    BY <1>1 DEF passVars
  <2>2. (Members(loops) =
       {dom_post_order[k] : k \in {k \in 1 .. Len(dom_post_order) :
          (k < pos \/ (Filling /\ k = pos)) /\ BackEdges(dom_post_order[k]) # {}}})'
    BY <1>1, <1>11, <2>1
  <2>3. /\ pos' \in 1 .. Len(dom_post_order') /\ loop' = dom_post_order'[pos']
        /\ loop' \in Members(loops') /\ parent'[loop'] = nullptr
    BY <1>0, <1>2, <1>6, <1>8, <2>1
  <2>4. pc' # "done"
    BY <1>0
  <2> QED BY <1>9, <1>10, <2>1, <2>2, <2>3, <2>4 DEF ListInv
<1>13. h \in NaturalLoop(h) /\ BackEdges(h) \subseteq NaturalLoop(h)
  BY <1>2, LoopIsBody DEF Inv, IsBody
<1>14. MapInv'
  <2>1. \A b \in Blocks : bb_to_loop'[b] # nullptr =>
          bb_to_loop'[b] \in Members(loops') /\ b \in NaturalLoop(bb_to_loop'[b])
    BY <1>7, <1>8, <1>13 DEF Inv, MapInv
  <2>2. \A b \in Blocks : /\ NaturalLoop(bb_to_loop'[b]) = NaturalLoop(bb_to_loop[b])'
                          /\ NaturalLoop(parent'[b]) = NaturalLoop(parent[b])'
    BY <1>0, StepPass DEF NaturalLoop, BackEdges, Inv, passVars
  <2> QED BY <1>0, <1>1, <1>8, <2>1, <2>2 DEF Inv, MapInv
<1>15. \A x : WithSubLoops(x) \subseteq WithSubLoops(x)'
  BY <1>0, <1>6, <1>7, <1>8, WithSubLoopsGrow
<1>16. WithSubLoops(h)' \subseteq {h}
  <2> SUFFICES ASSUME NEW x \in WithSubLoops(h)', x # h PROVE FALSE
    OBVIOUS
  <2>0. h' = h
    BY <1>0, <1>1 DEF passVars
  <2>1. /\ x \in Blocks /\ bb_to_loop'[x] # nullptr /\ bb_to_loop'[x] = bb_to_loop[x]
        /\ (h \in Enclosing(bb_to_loop[x]))'
    BY <1>7, <2>0 DEF WithSubLoops
  <2>2. bb_to_loop[x] \in Members(loops)
    BY <2>1 DEF Inv, MapInv
  <2>3. \A y \in Members(loops) : parent'[y] # nullptr => parent'[y] \in Members(loops)
    BY <1>0, <1>8 DEF Inv, MapInv
  <2>4. h \in Members(loops)
    BY <1>8, <2>0, <2>1, <2>2, <2>3 DEF Enclosing
  <2> QED BY <1>5, <2>4
<1>17. Members(work_list') = BackEdges(h)
  BY <1>0, <1>3, ListingFacts
<1>18. \A l \in Members(loops') : Complete(l)' => NaturalLoop(l) \subseteq WithSubLoops(l)'
  BY <1>0, <1>8, <1>15 DEF Inv, FillInv, Complete
<1>19. WithSubLoops(loop)' \ {h} = {}
  <2>1. h' = loop'
    BY <1>0, <1>1 DEF passVars
  <2> QED BY <1>16, <2>1 DEF WithSubLoops, Enclosing
<1>20. \A p \in BackEdges(h) : Pending(p)'
  BY <1>17 DEF Pending
<1>21. BackEdges(loop)' = BackEdges(h) /\ NaturalLoop(loop)' = NaturalLoop(h)
  BY <1>0, StepPass DEF NaturalLoop, BackEdges, Inv, passVars
<1>22. FillInv'
  BY <1>0, <1>1, <1>13, <1>17, <1>18, <1>19, <1>20, <1>21 DEF FillInv
<1> QED BY <1>12, <1>14, <1>22

LEMMA AppendNewInjective ==
  ASSUME NEW S, NEW s \in Seq(S), IsInjective(s), NEW e \in S, e \notin Members(s)
  PROVE  IsInjective(Append(s, e))
<1> DEFINE n == Len(s)
           t == Append(s, e)
<1>1. /\ n \in Nat /\ DOMAIN s = 1 .. n /\ DOMAIN t = 1 .. n + 1
      /\ t[n + 1] = e /\ \A j \in 1 .. n : t[j] = s[j]
  OBVIOUS
<1>2. \A j \in 1 .. n : s[j] # e
  BY DEF Members
<1> HIDE DEF n, t
<1>3. ASSUME NEW j \in 1 .. n + 1, NEW k \in 1 .. n + 1, t[j] = t[k] PROVE j = k
  <2>1. (j \in 1 .. n \/ j = n + 1) /\ (k \in 1 .. n \/ k = n + 1)
    BY <1>1
  <2> QED BY <1>1, <1>2, <1>3, <2>1 DEF IsInjective
<1> QED BY <1>1, <1>3 DEF IsInjective, t

LEMMA NestSameInv ==
  Inv /\ Nest /\ sub_loop = loop => ListInv' /\ MapInv' /\ FillInv'
<1> SUFFICES ASSUME Inv, Nest, sub_loop = loop PROVE ListInv' /\ MapInv' /\ FillInv'
  OBVIOUS
<1>0. /\ [Next]_vars /\ UNCHANGED loopVars
      /\ UNCHANGED <<pos, loop, sub_loop, loops, latches, parent, bb_to_loop, work_list>>
      /\ pc = "climb" /\ pc' = "discover" /\ Filling /\ Filling'
  BY DEF Next, Nest, Filling, loopVars
<1>1. \A h : /\ NaturalLoop(h)' = NaturalLoop(h) /\ BackEdges(h)' = BackEdges(h)
             /\ Pre(h)' = Pre(h)
  BY <1>0, StepPass DEF Inv
<1>2. MapInv' /\ \A h : WithSubLoops(h)' = WithSubLoops(h)
  BY <1>0, LoopsAlone
<1>3. ListInv'
  BY <1>0, ListKept DEF Inv, ListInv
<1>4. \A p : Pending(p) => Pending(p)'
  BY <1>0, <1>2 DEF Pending
<1>5. FillInv'
  BY <1>0, <1>1, <1>2, <1>4 DEF Inv, FillInv, Complete
<1> QED BY <1>2, <1>3, <1>5

(* The blocks of the loop in hand, after another has been nested in it.    *)
LEMMA NestedBlocks ==
  ASSUME Inv, NEW r \in Members(loops), loop \in Members(loops), r # loop,
         parent[r] = nullptr, UNCHANGED <<loop, loops, bb_to_loop>>,
         parent' = [parent EXCEPT ![r] = loop]
  PROVE  WithSubLoops(loop)' = WithSubLoops(loop) \cup WithSubLoops(r)
<1>1. r \in Blocks /\ loop \in Blocks
  BY ListFacts DEF Inv
<1>2. parent'[r] = loop /\ \A l \in Blocks \ {r} : parent'[l] = parent[l]
  BY <1>1 DEF Inv, TypeOK
<1>3. /\ \A h, l : h \in Enclosing(l) => (h \in Enclosing(l))'
      /\ \A h : WithSubLoops(h) \subseteq WithSubLoops(h)'
  BY <1>2, WithSubLoopsGrow
<1>4. ASSUME NEW l, r \in Enclosing(l) PROVE (loop \in Enclosing(l))'
  <2>1. (r \in Enclosing(l))'
    BY <1>3, <1>4
  <2> QED BY <1>1, <1>2, <2>1, NullNotBlock DEF Enclosing
<1>5. ASSUME NEW l, l \in Members(loops), r \notin Enclosing(l), NEW h, (h \in Enclosing(l))'
      PROVE  h \in Enclosing(l)
  <2>1. l \in Enclosing(l) /\ Enclosing(l) \in SUBSET Blocks
    BY <1>5, EnclosingSelf, ListFacts DEF Enclosing, Inv
  <2>2. \A x \in Enclosing(l) : parent[x] # nullptr => parent[x] \in Enclosing(l)
    BY <2>1, EnclosingStep DEF Inv, MapInv
  <2>3. \A x \in Enclosing(l) : parent'[x] # nullptr => parent'[x] \in Enclosing(l)
    BY <1>2, <1>5, <2>1, <2>2
  <2> QED BY <1>5, <2>1, <2>3 DEF Enclosing
<1> QED BY <1>3, <1>4, <1>5 DEF WithSubLoops, Inv, MapInv

LEMMA NestOtherInv ==
  Inv /\ Nest /\ sub_loop # loop => ListInv' /\ MapInv' /\ FillInv'
<1> SUFFICES ASSUME Inv, Nest, sub_loop # loop PROVE ListInv' /\ MapInv' /\ FillInv'
  OBVIOUS
<1> DEFINE r == sub_loop
<1>0. /\ [Next]_vars /\ UNCHANGED <<pos, loop, sub_loop, loops, latches, bb_to_loop>>
      /\ pc = "climb" /\ pc' = "discover" /\ Filling /\ Filling' /\ parent[r] = nullptr
      /\ parent' = [parent EXCEPT ![r] = loop]
      /\ sub_loops' = [sub_loops EXCEPT ![loop] = Append(@, r)]
      /\ work_list' = work_list \o Pre(r)
  BY DEF Next, Nest, Filling
<1>1. \A h : /\ NaturalLoop(h)' = NaturalLoop(h) /\ BackEdges(h)' = BackEdges(h)
             /\ Pre(h)' = Pre(h)
  BY <1>0, StepPass DEF Inv
<1>2. /\ r \in Members(loops) /\ loop \in Members(loops) /\ r \in Blocks /\ loop \in Blocks
      /\ parent[loop] = nullptr
  BY <1>0, ListFacts DEF Inv, ListInv, FillInv
<1>3. /\ r \in NaturalLoop(loop) /\ loop \notin NaturalLoop(r)
      /\ NaturalLoop(r) \subseteq NaturalLoop(loop)
  BY <1>0, <1>2, MeetsInside DEF Inv, FillInv
<1>4. /\ parent'[r] = loop /\ \A l \in Blocks \ {r} : parent'[l] = parent[l]
      /\ sub_loops'[loop] = Append(sub_loops[loop], r)
      /\ \A h \in Blocks \ {loop} : sub_loops'[h] = sub_loops[h]
  BY <1>0, <1>2 DEF Inv, TypeOK
<1>5. ListInv'
  BY <1>0, <1>2, <1>4, ListKept
<1>6. WithSubLoops(loop)' = WithSubLoops(loop) \cup WithSubLoops(r)
  BY <1>0, <1>2, NestedBlocks
<1>7. \A h : WithSubLoops(h) \subseteq WithSubLoops(h)'
  BY <1>0, <1>4, WithSubLoopsGrow
<1>8. MapInv'
  <2>1. \A b \in Blocks : /\ NaturalLoop(bb_to_loop'[b]) = NaturalLoop(bb_to_loop[b])'
                          /\ NaturalLoop(parent'[b]) = NaturalLoop(parent[b])'
    BY <1>0, StepPass DEF NaturalLoop, BackEdges, Inv, passVars
  <2>2. \A b \in Blocks : bb_to_loop'[b] # nullptr =>
          bb_to_loop'[b] \in Members(loops') /\ b \in NaturalLoop(bb_to_loop[b])'
    BY <1>0, <2>1 DEF Inv, MapInv
  <2>3. \A l \in Blocks : parent'[l] # nullptr =>
          /\ l \in Members(loops') /\ parent'[l] \in Members(loops')
          /\ NaturalLoop(l)' \subseteq NaturalLoop(parent[l])'
          /\ parent'[l] \notin NaturalLoop(l)'
    BY <1>0, <1>1, <1>2, <1>3, <1>4, <2>1 DEF Inv, MapInv
  <2>4. ASSUME NEW h \in Blocks
        PROVE  IsInjective(sub_loops'[h]) /\ Members(sub_loops'[h]) = {l \in Blocks : parent'[l] = h}
    <3>1. /\ sub_loops[h] \in Seq(Blocks) /\ IsInjective(sub_loops[h])
          /\ Members(sub_loops[h]) = {l \in Blocks : parent[l] = h}
      BY DEF Inv, TypeOK, MapInv
    <3>2. r \notin Members(sub_loops[h])
      BY <1>0, <3>1, NullNotBlock
    <3>3. CASE h = loop
      <4>1. /\ IsInjective(sub_loops'[h])
            /\ Members(sub_loops'[h]) = Members(sub_loops[h]) \cup {r}
        <5>1. sub_loops'[h] = Append(sub_loops[h], r)
          BY <1>4, <3>3
        <5>2. IsInjective(Append(sub_loops[h], r))
          BY <1>2, <3>1, <3>2, AppendNewInjective
        <5>3. Members(Append(sub_loops[h], r)) = Members(sub_loops[h]) \cup {r}
          BY <1>2, <3>1, MembersAppend
        <5> QED BY <5>1, <5>2, <5>3
      <4> QED BY <1>2, <1>4, <3>1, <3>3, <4>1
    <3>4. CASE h # loop
      BY <1>2, <1>4, <3>1, <3>2, <3>4
    <3> QED BY <3>3, <3>4
  <2> QED BY <2>2, <2>3, <2>4 DEF MapInv
<1>9. \A p : Pending(p) => Pending(p)' /\ p \in WithSubLoops(loop)' \cup Members(work_list)
  BY <1>0, <1>6, MembersConcat, <1>2, PassFacts DEF Pending, Inv, TypeOK
<1>10. /\ Members(work_list') = Members(work_list) \cup Members(Pre(r))
       /\ Members(Pre(r)) \subseteq NaturalLoop(loop)
  <2>1. work_list \in Seq(Blocks) /\ Pre(r) \in Seq(Blocks)
    BY <1>2, PassFacts DEF Inv, TypeOK
  <2>2. Members(Pre(r)) \subseteq NaturalLoop(loop)
    BY <1>2, <1>3, LoopIsBody DEF Inv, IsBody, Pre
  <2> QED BY <1>0, <2>1, <2>2, MembersConcat
<1>11. ASSUME NEW x \in WithSubLoops(loop)' \ {loop}, NEW p \in Members(Pre(x)) PROVE Pending(p)'
  <2>1. CASE x \in WithSubLoops(loop)
    <3>1. Pending(p)
      BY <1>0, <1>11, <2>1 DEF Inv, FillInv
    <3> QED BY <1>9, <3>1
  <2>2. CASE x = r
    BY <1>10, <1>11, <2>2 DEF Pending
  <2>3. CASE x \in WithSubLoops(r) \ {r}
    <3>1. x \in NaturalLoop(r)
      BY <2>3, WithSubLoopsInside DEF Inv
    <3>2. p \in NaturalLoop(r)
      BY <1>2, <1>11, <2>3, <3>1, LoopIsBody DEF Inv, IsBody, Pre
    <3>3. NaturalLoop(r) \subseteq WithSubLoops(r)
      BY <1>2 DEF Inv, FillInv, Complete
    <3> QED BY <1>6, <3>2, <3>3 DEF Pending
  <2> QED BY <1>6, <1>11, <2>1, <2>2, <2>3
<1>12. Members(work_list') \subseteq NaturalLoop(loop) /\ \A p \in BackEdges(loop) : Pending(p)'
  BY <1>0, <1>9, <1>10 DEF Inv, FillInv
<1>13. \A h \in Members(loops) : Complete(h)' => NaturalLoop(h) \subseteq WithSubLoops(h)'
  BY <1>0, <1>7 DEF Inv, FillInv, Complete
<1>14. FillInv'
  BY <1>0, <1>1, <1>11, <1>12, <1>13 DEF FillInv
<1> QED BY <1>5, <1>8, <1>14

LEMMA StepType == Inv /\ [Next]_vars => TypeOK'
<1> SUFFICES ASSUME Inv, [Next]_vars PROVE TypeOK'
  OBVIOUS
<1> DEFINE n == Len(dom_post_order)
<1>0. /\ TypeOK /\ dom_post_order' = dom_post_order /\ n \in Nat
      /\ \A k \in 1 .. n : dom_post_order[k] \in Blocks
      /\ \A y \in Blocks : Pre(y) \in Seq(Blocks)
      /\ nullptr \in BlockOrNull /\ Blocks \subseteq BlockOrNull
  BY StepPass, PassFacts DEF Inv, PassInv, passVars, BlockOrNull
<1>1. CASE PassOver
  <2>1. pos' \in 1 .. n + 1
    BY <1>0, <1>1 DEF PassOver, TypeOK
  <2> QED BY <1>0, <1>1, <2>1 DEF PassOver, TypeOK, loopVars
<1>2. CASE CreateLoop
  <2> DEFINE h == dom_post_order[pos]
  <2>1. h \in Blocks
    BY <1>0, <1>2 DEF CreateLoop, TypeOK
  <2>2. Latches(h) \in SUBSET Blocks
    BY <1>0, <2>1, PassFacts DEF Latches, Inv
  <2>3. work_list' \in Seq(Blocks)
    BY <1>2, <2>2, ListingFacts DEF CreateLoop
  <2>4. loops' \in Seq(Blocks) /\ <<h>> \in Seq(Blocks)
    BY <1>0, <1>2, <2>1 DEF CreateLoop, TypeOK
  <2>5. /\ pc' = "discover" /\ UNCHANGED <<pos, sub_loop, parent, sub_loops>>
        /\ loop' = h /\ blocks' = [blocks EXCEPT ![h] = <<h>>]
        /\ bb_to_loop' = [bb_to_loop EXCEPT ![h] = h]
        /\ latches' = [latches EXCEPT ![h] = Latches(h)]
    BY <1>2 DEF CreateLoop
  <2> HIDE DEF h
  <2> QED BY <1>0, <2>1, <2>2, <2>3, <2>4, <2>5 DEF TypeOK
<1>3. CASE ClaimBlock
  <2>1. loop \in Blocks /\ Back \in Blocks /\ Popped \in Seq(Blocks)
    BY <1>3, BackFacts DEF ClaimBlock, Filling
  <2>2. work_list' \in Seq(Blocks)
    BY <1>0, <1>3, <2>1, MembersConcat DEF ClaimBlock
  <2>3. blocks' \in [Blocks -> Seq(Blocks)]
    <3>1. Append(blocks[loop], Back) \in Seq(Blocks)
      BY <1>0, <2>1 DEF TypeOK
    <3> QED BY <1>0, <1>3, <3>1 DEF ClaimBlock, TypeOK
  <2>4. bb_to_loop' \in [Blocks -> BlockOrNull]
    BY <1>0, <1>3, <2>1 DEF ClaimBlock, TypeOK
  <2> QED BY <1>0, <1>3, <2>2, <2>3, <2>4 DEF ClaimBlock, TypeOK
<1>4. CASE MeetLoop
  <2>1. Back \in Blocks /\ Popped \in Seq(Blocks)
    BY <1>4, BackFacts DEF MeetLoop, Filling
  <2>2. sub_loop' \in BlockOrNull
    BY <1>0, <1>4, <2>1 DEF MeetLoop, TypeOK
  <2> QED BY <1>0, <1>4, <2>1, <2>2 DEF MeetLoop, TypeOK, loopVars
<1>5. CASE SeenBlock
  <2>1. Popped \in Seq(Blocks)
    BY <1>5, BackFacts DEF SeenBlock, Filling
  <2> QED BY <1>0, <1>5, <2>1 DEF SeenBlock, TypeOK, loopVars
<1>6. CASE Climb
  <2>1. sub_loop \in Blocks
    BY <1>6, ListFacts DEF Climb, Inv, FillInv
  <2>2. sub_loop' \in BlockOrNull
    BY <1>0, <1>6, <2>1 DEF Climb, TypeOK
  <2> QED BY <1>0, <1>6, <2>2 DEF Climb, TypeOK, loopVars
<1>7. CASE Nest
  <2>1. sub_loop \in Blocks /\ loop \in Blocks
    BY <1>7, ListFacts DEF Nest, Inv, FillInv, ListInv, Filling
  <2>2. /\ parent' \in [Blocks -> BlockOrNull] /\ sub_loops' \in [Blocks -> Seq(Blocks)]
        /\ work_list' \in Seq(Blocks)
    <3>1. Append(sub_loops[loop], sub_loop) \in Seq(Blocks) /\ Pre(sub_loop) \in Seq(Blocks)
      BY <1>0, <2>1 DEF TypeOK
    <3>2. parent' \in [Blocks -> BlockOrNull]
      BY <1>0, <1>7, <2>1 DEF Nest, TypeOK
    <3>3. sub_loops' \in [Blocks -> Seq(Blocks)]
      BY <1>0, <1>7, <2>1, <3>1 DEF Nest, TypeOK
    <3>4. work_list' \in Seq(Blocks)
      <4>1. work_list' = work_list \/ work_list' = work_list \o Pre(sub_loop)
        BY <1>7 DEF Nest
      <4>2. work_list \in Seq(Blocks)
        BY <1>0 DEF TypeOK
      <4>3. work_list \o Pre(sub_loop) \in Seq(Blocks)
        BY <3>1, <4>2
      <4> QED BY <4>1, <4>2, <4>3
    <3> QED BY <3>2, <3>3, <3>4
  <2> QED BY <1>0, <1>7, <2>2 DEF Nest, TypeOK
<1>8. CASE EndLoop
  <2>1. pos \in 1 .. n
    BY <1>8 DEF EndLoop, Inv, ListInv, Filling
  <2>2. pos' \in 1 .. n + 1
    BY <1>0, <1>8, <2>1 DEF EndLoop
  <2> QED BY <1>0, <1>8, <2>2 DEF EndLoop, TypeOK, loopVars
<1>9. CASE Finish
  BY <1>0, <1>9 DEF Finish, TypeOK, loopVars
<1>10. CASE Finished \/ UNCHANGED vars
  BY <1>0, <1>10 DEF Finished, vars, TypeOK, loopVars
<1> QED BY <1>1, <1>2, <1>3, <1>4, <1>5, <1>6, <1>7, <1>8, <1>9, <1>10 DEF Next

LEMMA StepInv == Inv /\ [Next]_vars => Inv'
<1> SUFFICES ASSUME Inv, [Next]_vars PROVE Inv'
  OBVIOUS
<1>1. TypeOK' /\ PassInv'
  BY StepType, StepPass DEF Inv
<1>2. ListInv' /\ MapInv' /\ FillInv'
  BY PassOverInv, CreateLoopInv, ClaimBlockInv, MeetLoopInv, SeenBlockInv, ClimbInv, NestSameInv,
     NestOtherInv, EndLoopInv, FinishInv DEF Next
<1> QED BY <1>1, <1>2 DEF Inv

LEMMA Invariance == Spec => []Inv
<1>1. Init => Inv
  BY InitInv
<1>2. Inv /\ [Next]_vars => Inv'
  BY StepInv
<1> QED BY <1>1, <1>2, PTL DEF Spec
-----------------------------------------------------------------------------
(***************************************************************************)
(* The outcome.                                                            *)
(***************************************************************************)
LEMMA DoneFacts ==
  ASSUME Inv, pc = "done"
  PROVE  /\ Members(loops) = Headers /\ Headers \subseteq Blocks
         /\ \A h \in Headers : WithSubLoops(h) = NaturalLoop(h)
<1>1. /\ \A k \in 1 .. Len(dom_post_order) : k < pos
      /\ ~ Filling
  BY DEF Inv, ListInv, PassInv, TypeOK, Filling
<1>2. Members(loops) = Headers
  BY <1>1 DEF Inv, ListInv, Headers, Members
<1>3. Headers \subseteq Blocks
  BY <1>2, ListFacts DEF Inv
<1>4. \A h \in Headers : NaturalLoop(h) \subseteq WithSubLoops(h)
  BY <1>1, <1>2 DEF Inv, FillInv, Complete
<1> QED BY <1>2, <1>3, <1>4, WithSubLoopsInside DEF Inv

(* One loop for each target of back edges, with their sources for latches; *)
(* a loop's blocks and those of its sub-loops are its natural loop; and    *)
(* bb_to_loop_ is the innermost loop around a block                        *)
(* (LoopDetection::run_on_func, discover_loop_and_sub_loops).              *)
THEOREM LoopsAreNaturalAlways == Spec => []LoopsAreNatural
<1>1. Inv => LoopsAreNatural
  <2> SUFFICES ASSUME Inv, pc = "done", NEW h \in Headers
               PROVE  /\ Members(loops) = Headers
                      /\ latches[h] = BackEdges(h)
                      /\ WithSubLoops(h) = NaturalLoop(h)
                      /\ \A b \in NaturalLoop(h) : NaturalLoop(bb_to_loop[b]) \subseteq NaturalLoop(h)
    BY DoneFacts DEF LoopsAreNatural
  <2>1. Members(loops) = Headers /\ WithSubLoops(h) = NaturalLoop(h)
    BY DoneFacts
  <2>2. latches[h] = BackEdges(h)
    BY <2>1 DEF Inv, ListInv
  <2>3. ASSUME NEW b \in NaturalLoop(h) PROVE NaturalLoop(bb_to_loop[b]) \subseteq NaturalLoop(h)
    <3>1. b \in Blocks /\ bb_to_loop[b] # nullptr /\ h \in Enclosing(bb_to_loop[b])
      BY <2>1, <2>3 DEF WithSubLoops
    <3>2. bb_to_loop[b] \in Members(loops)
      BY <3>1 DEF Inv, MapInv
    <3> QED BY <3>1, <3>2, EnclosingContains DEF Inv
  <2> QED BY <2>1, <2>2, <2>3
<1> QED BY <1>1, Invariance, PTL

(* The way outwards from a loop goes through its parent.                   *)
LEMMA EnclosingParent ==
  ASSUME Inv, NEW l \in Members(loops), parent[l] # nullptr, NEW m \in Enclosing(l), m # l
  PROVE  m \in Enclosing(parent[l])
<1> DEFINE h == parent[l]
           S == Enclosing(h) \cup {l}
<1>1. l \in Blocks /\ h \in Members(loops)
  BY ListFacts DEF Inv, MapInv
<1>2. h \in Enclosing(h) /\ S \in SUBSET Blocks
  BY <1>1, EnclosingSelf, ListFacts DEF Enclosing, Inv
<1>3. \A x \in Enclosing(h) : parent[x] # nullptr => parent[x] \in Enclosing(h)
  BY <1>2, EnclosingStep DEF Inv, MapInv
<1>4. \A x \in S : parent[x] # nullptr => parent[x] \in S
  BY <1>2, <1>3
<1>5. l \in S
  OBVIOUS
<1> HIDE DEF S
<1>6. m \in S
  BY <1>2, <1>4, <1>5, EnclosingLeast
<1> QED BY <1>6 DEF S

(* The sub-loops of a loop are the loops whose parent it is, each once; a  *)
(* parent properly contains its sub-loop, with no loop between; and loops_ *)
(* has inner loops first: what LICM takes for granted of the loops.        *)
THEOREM LoopsNestedAlways == Spec => []LoopsNested
<1>1. Inv => InnerLoopsFirst
  <2> SUFFICES ASSUME Inv, NEW k \in 1 .. Len(loops), NEW l \in 1 .. Len(loops), k < l,
                      loops[l] \in NaturalLoop(loops[k])
               PROVE  FALSE
    BY DEF InnerLoopsFirst
  <2>1. loops[k] \in Blocks /\ Reachable(cfg, loops[k])
    BY ListFacts DEF Inv, Members
  <2>2. Dominates(cfg, loops[k], loops[l])
    BY <2>1, HeaderDominates DEF Inv
  <2> QED BY <2>2 DEF Inv, ListInv
<1>2. Inv => SubLoopsMirrorParents
  <2> SUFFICES ASSUME Inv, pc = "done", NEW h \in Headers
               PROVE  /\ IsInjective(sub_loops[h])
                      /\ Members(sub_loops[h]) = {l \in Headers : parent[l] = h}
                      /\ \A l \in Members(sub_loops[h]) :
                           /\ NaturalLoop(l) \subseteq NaturalLoop(h) \ {h}
                           /\ \A m \in Headers \ {l, h} :
                                NaturalLoop(l) \subseteq NaturalLoop(m) =>
                                  NaturalLoop(h) \subseteq NaturalLoop(m)
    BY DEF SubLoopsMirrorParents
  <2>1. /\ Members(loops) = Headers /\ Headers \subseteq Blocks
        /\ \A x \in Headers : WithSubLoops(x) = NaturalLoop(x)
    BY DoneFacts
  <2>2. /\ IsInjective(sub_loops[h])
        /\ Members(sub_loops[h]) = {l \in Headers : parent[l] = h}
    <3>1. \A l \in Blocks : parent[l] = h => l \in Headers
      BY <2>1, NullNotBlock DEF Inv, MapInv
    <3> QED BY <2>1, <3>1 DEF Inv, MapInv
  <2>3. ASSUME NEW l \in Members(sub_loops[h])
        PROVE  /\ NaturalLoop(l) \subseteq NaturalLoop(h) \ {h}
               /\ \A m \in Headers \ {l, h} :
                    NaturalLoop(l) \subseteq NaturalLoop(m) => NaturalLoop(h) \subseteq NaturalLoop(m)
    <3>1. /\ l \in Headers /\ parent[l] = h /\ l \in Blocks /\ l \in Members(loops)
          /\ parent[l] # nullptr
      BY <2>1, <2>2, NullNotBlock
    <3>2. NaturalLoop(l) \subseteq NaturalLoop(h) \ {h}
      BY <3>1 DEF Inv, MapInv
    <3>3. ASSUME NEW m \in Headers \ {l, h}, NaturalLoop(l) \subseteq NaturalLoop(m)
          PROVE  NaturalLoop(h) \subseteq NaturalLoop(m)
      <4>1. l \in NaturalLoop(l)
        BY <3>1, LoopIsBody DEF Inv, IsBody
      <4>2. l \in WithSubLoops(m)
        BY <2>1, <3>3, <4>1
      <4>3. m \in Enclosing(l)
        BY <3>1, <4>2 DEF WithSubLoops, Inv, ListInv
      <4>4. m \in Enclosing(h)
        BY <3>1, <3>3, <4>3, EnclosingParent
      <4> QED BY <2>1, <4>4, EnclosingContains DEF Inv
    <3> QED BY <3>2, <3>3
  <2> QED BY <2>2, <2>3
<1>3. Inv => LoopsNested
  BY <1>1, <1>2 DEF LoopsNested, Inv
<1> QED BY <1>3, Invariance, PTL
=============================================================================
