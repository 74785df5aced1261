----------------------------- MODULE LICMProofs -----------------------------
(***************************************************************************)
(* Proofs about LICM, for every function and every loops that satisfy the  *)
(* module's assumptions: the graph and the phis stay consistent, a load    *)
(* never leaves a loop whose own blocks store through its pointer, and SSA *)
(* form breaks only behind an inner loop, within a loop around it.         *)
(***************************************************************************)
EXTENDS LICM, CfgProofs, FiniteSetTheorems

-----------------------------------------------------------------------------
(***************************************************************************)
(* Sequences: what Kept keeps.                                             *)
(***************************************************************************)
(* The equations of Kept's recursive function.                             *)
LEMMA KeptSteps ==
  ASSUME NEW T, NEW s \in Seq(T), NEW S
  PROVE  \E H : /\ H[0] = << >>
                /\ \A l \in 1 .. Len(s) :
                     H[l] = IF s[l] \in S THEN Append(H[l - 1], s[l]) ELSE H[l - 1]
                /\ Kept(s, S) = H[Len(s)]
<1> DEFINE Body(F, m) == [l \in 0 .. m |->
             IF l = 0 THEN << >> ELSE IF s[l] \in S THEN Append(F[l - 1], s[l]) ELSE F[l - 1]]
           Good == {m \in Nat : \E F : F = Body(F, m)}
<1>1. 0 \in Good
  <2>1. [l \in 0 .. 0 |-> << >>] = Body([l \in 0 .. 0 |-> << >>], 0)
    OBVIOUS
  <2> QED BY <2>1
<1>2. ASSUME NEW m \in Nat, m \in Good PROVE m + 1 \in Good
  <2>1. PICK F : F = Body(F, m)
    BY <1>2
  <2> DEFINE G == [l \in 0 .. m + 1 |->
                IF l <= m THEN F[l]
                ELSE IF s[l] \in S THEN Append(F[m], s[l]) ELSE F[m]]
  <2>2. \A l \in 0 .. m + 1 : G[l] = Body(G, m + 1)[l]
    <3>1. \A l \in 0 .. m : F[l] = IF l = 0 THEN << >>
                                   ELSE IF s[l] \in S THEN Append(F[l - 1], s[l]) ELSE F[l - 1]
      BY <2>1
    <3> SUFFICES ASSUME NEW l \in 0 .. m + 1 PROVE G[l] = Body(G, m + 1)[l]
      OBVIOUS
    <3>2. CASE l = m + 1
      BY <3>2
    <3>3. CASE l \in 0 .. m
      <4>1. l # 0 => l - 1 \in 0 .. m
        BY <3>3
      <4> QED BY <3>1, <3>3, <4>1
    <3> QED BY <3>2, <3>3
  <2>3. G = Body(G, m + 1)
    BY <2>2
  <2>4. m + 1 \in Nat
    OBVIOUS
  <2> QED BY <2>3, <2>4
<1> DEFINE n == Len(s)
<1>3. n \in Nat
  OBVIOUS
<1> HIDE DEF Good
<1>4. n \in Good
  BY <1>1, <1>2, <1>3, NatSetInduction
<1>5. \E F : F = Body(F, n)
  BY <1>4 DEF Good
<1> DEFINE H == CHOOSE F : F = Body(F, n)
<1>6. Kept(s, S) = H[n]
  BY DEF Kept
<1>7. H = Body(H, n)
  BY <1>5
<1> HIDE DEF H, n
<1>8. \A l \in 0 .. n : H[l] = IF l = 0 THEN << >>
                               ELSE IF s[l] \in S THEN Append(H[l - 1], s[l]) ELSE H[l - 1]
  BY <1>7
<1>9. H[0] = << >> /\ \A l \in 1 .. n :
                 H[l] = IF s[l] \in S THEN Append(H[l - 1], s[l]) ELSE H[l - 1]
  BY <1>3, <1>8
<1> QED BY <1>6, <1>9 DEF n

LEMMA AppendNewInjective ==
  ASSUME NEW S, NEW s \in Seq(S), IsInjective(s), NEW e \in S, e \notin Members(s)
  PROVE  IsInjective(Append(s, e))
<1> DEFINE n == Len(s)
           t == Append(s, e)
<1>1. /\ n \in Nat /\ DOMAIN s = 1 .. n /\ DOMAIN t = 1 .. n + 1
      /\ t[n + 1] = e /\ \A j \in 1 .. n : t[j] = s[j]
  OBVIOUS
<1>2. \A j \in 1 .. n : s[j] # e
  BY DEF Members
<1> HIDE DEF n, t
<1>3. ASSUME NEW i \in 1 .. n + 1, NEW j \in 1 .. n + 1, t[i] = t[j] PROVE i = j
  <2>1. (i \in 1 .. n \/ i = n + 1) /\ (j \in 1 .. n \/ j = n + 1)
    BY <1>1
  <2> QED BY <1>1, <1>2, <1>3, <2>1 DEF IsInjective
<1> QED BY <1>1, <1>3 DEF IsInjective, t

(* What is kept is what s and S share, and no more often than s has it.    *)
LEMMA KeptMembers ==
  ASSUME NEW T, NEW s \in Seq(T), NEW S
  PROVE  /\ Kept(s, S) \in Seq(T)
         /\ Members(Kept(s, S)) = Members(s) \cap S
         /\ IsInjective(s) => IsInjective(Kept(s, S))
<1>1. PICK H : /\ H[0] = << >>
               /\ \A l \in 1 .. Len(s) :
                    H[l] = IF s[l] \in S THEN Append(H[l - 1], s[l]) ELSE H[l - 1]
               /\ Kept(s, S) = H[Len(s)]
  BY KeptSteps
<1> DEFINE n == Len(s)
           First(l) == {s[i] : i \in 1 .. l}
           Good == {l \in Nat : l <= n =>
                      /\ H[l] \in Seq(T) /\ Members(H[l]) = First(l) \cap S
                      /\ IsInjective(s) => IsInjective(H[l])}
<1>2. n \in Nat /\ (\A l \in 1 .. n : s[l] \in T) /\ DOMAIN s = 1 .. n
  OBVIOUS
<1>3. 0 \in Good
  <2>1. First(0) = {}
    OBVIOUS
  <2>2. << >> \in Seq(T) /\ Members(<< >>) = {} /\ IsInjective(<< >>)
    BY DEF Members, IsInjective
  <2> QED BY <1>1, <2>1, <2>2
<1>a. ASSUME NEW t \in Seq(T), IsInjective(t), NEW e \in T, e \notin Members(t)
      PROVE  IsInjective(Append(t, e))
  BY <1>a, AppendNewInjective
<1> HIDE DEF n
<1>4. ASSUME NEW l \in Nat, l \in Good PROVE l + 1 \in Good
  <2> SUFFICES ASSUME l + 1 <= n
               PROVE  /\ H[l + 1] \in Seq(T) /\ Members(H[l + 1]) = First(l + 1) \cap S
                      /\ IsInjective(s) => IsInjective(H[l + 1])
    BY <1>4
  <2>1. /\ H[l] \in Seq(T) /\ Members(H[l]) = First(l) \cap S
        /\ IsInjective(s) => IsInjective(H[l])
    BY <1>2, <1>4
  <2>2. l + 1 \in 1 .. n /\ (l + 1) - 1 = l
    BY <1>2
  <2>3. H[l + 1] = IF s[l + 1] \in S THEN Append(H[l], s[l + 1]) ELSE H[l]
    BY <1>1, <2>2 DEF n
  <2>4. First(l + 1) = First(l) \cup {s[l + 1]}
    <3>1. \A i \in 1 .. l + 1 : i \in 1 .. l \/ i = l + 1
      OBVIOUS
    <3>2. \A i \in 1 .. l : i \in 1 .. l + 1
      OBVIOUS
    <3>3. l + 1 \in 1 .. l + 1
      OBVIOUS
    <3> QED BY <3>1, <3>2, <3>3
  <2>5. s[l + 1] \in T
    BY <1>2, <2>2
  <2>6. IsInjective(s) => s[l + 1] \notin First(l)
    <3> SUFFICES ASSUME IsInjective(s), NEW i \in 1 .. l, s[l + 1] = s[i] PROVE FALSE
      OBVIOUS
    <3>1. i \in 1 .. n /\ i # l + 1
      BY <1>2
    <3> QED BY <1>2, <2>2, <3>1 DEF IsInjective
  <2> HIDE DEF First
  <2>7. CASE s[l + 1] \in S
    <3>1. H[l + 1] \in Seq(T) /\ Members(H[l + 1]) = Members(H[l]) \cup {s[l + 1]}
      BY <2>1, <2>3, <2>5, <2>7, MembersAppend
    <3>2. IsInjective(s) => IsInjective(H[l + 1])
      <4>1. IsInjective(s) => s[l + 1] \notin Members(H[l])
        BY <2>1, <2>6
      <4>2. H[l + 1] = Append(H[l], s[l + 1]) /\ H[l] \in Seq(T)
        BY <2>1, <2>3, <2>7
      <4>3. IsInjective(s) => IsInjective(Append(H[l], s[l + 1]))
        <5> SUFFICES ASSUME IsInjective(s) PROVE IsInjective(Append(H[l], s[l + 1]))
          OBVIOUS
        <5>1. H[l] \in Seq(T) /\ IsInjective(H[l]) /\ s[l + 1] \in T /\ s[l + 1] \notin Members(H[l])
          BY <2>1, <2>5, <4>1
        <5> QED BY <1>a, <5>1
      <4> QED BY <4>2, <4>3
    <3> QED BY <2>1, <2>4, <2>7, <3>1, <3>2
  <2>8. CASE s[l + 1] \notin S
    BY <2>1, <2>3, <2>4, <2>8
  <2> QED BY <2>7, <2>8
<1>5. n \in Good
  <2> HIDE DEF Good
  <2> QED BY <1>2, <1>3, <1>4, NatSetInduction
<1>6. First(n) = Members(s)
  BY DEF Members, n
<1>7. H[n] = Kept(s, S)
  BY <1>1 DEF n
<1> HIDE DEF First
<1> QED BY <1>2, <1>5, <1>6, <1>7

(* What is kept for one of two complementary sets or the other is all of   *)
(* the sequence.                                                           *)
LEMMA KeptLengths ==
  ASSUME NEW T, NEW s \in Seq(T), NEW S, NEW R,
         \A l \in 1 .. Len(s) : s[l] \in S <=> s[l] \notin R
  PROVE  Len(Kept(s, S)) + Len(Kept(s, R)) = Len(s)
<1>1. PICK H : /\ H[0] = << >>
               /\ \A l \in 1 .. Len(s) :
                    H[l] = IF s[l] \in S THEN Append(H[l - 1], s[l]) ELSE H[l - 1]
               /\ Kept(s, S) = H[Len(s)]
  BY KeptSteps
<1>2. PICK G : /\ G[0] = << >>
               /\ \A l \in 1 .. Len(s) :
                    G[l] = IF s[l] \in R THEN Append(G[l - 1], s[l]) ELSE G[l - 1]
               /\ Kept(s, R) = G[Len(s)]
  BY KeptSteps
<1> DEFINE n == Len(s)
           Sum(t, u, l) == t \in Seq(T) /\ u \in Seq(T) /\ Len(t) + Len(u) = l
           Good == {l \in Nat : l <= n => Sum(H[l], G[l], l)}
<1>3. n \in Nat /\ (\A l \in 1 .. n : s[l] \in T)
  OBVIOUS
<1>4. ASSUME NEW t, NEW u, NEW l \in Nat, NEW e \in T, Sum(t, u, l)
      PROVE  Sum(Append(t, e), u, l + 1) /\ Sum(t, Append(u, e), l + 1)
  <2>1. t \in Seq(T) /\ u \in Seq(T) /\ Len(t) + Len(u) = l
    BY <1>4
  <2>2. Append(t, e) \in Seq(T) /\ Len(Append(t, e)) = Len(t) + 1 /\ Len(t) \in Nat
    BY <2>1
  <2>3. Append(u, e) \in Seq(T) /\ Len(Append(u, e)) = Len(u) + 1 /\ Len(u) \in Nat
    BY <2>1
  <2> QED BY <2>1, <2>2, <2>3
<1>5. Sum(<< >>, << >>, 0)
  OBVIOUS
<1> HIDE DEF n, Sum
<1>6. 0 \in Good
  BY <1>1, <1>2, <1>5
<1>7. ASSUME NEW l \in Nat, l \in Good PROVE l + 1 \in Good
  <2> SUFFICES ASSUME l + 1 <= n PROVE Sum(H[l + 1], G[l + 1], l + 1)
    OBVIOUS
  <2>1. Sum(H[l], G[l], l)
    BY <1>3, <1>7
  <2>2. l + 1 \in 1 .. n /\ (l + 1) - 1 = l
    BY <1>3
  <2>3. /\ H[l + 1] = IF s[l + 1] \in S THEN Append(H[l], s[l + 1]) ELSE H[l]
        /\ G[l + 1] = IF s[l + 1] \in R THEN Append(G[l], s[l + 1]) ELSE G[l]
        /\ s[l + 1] \in S <=> s[l + 1] \notin R
        /\ s[l + 1] \in T
    BY <1>1, <1>2, <1>3, <2>2 DEF n
  <2> QED BY <1>4, <2>1, <2>3
<1>8. n \in Good
  <2> HIDE DEF Good
  <2> QED BY <1>3, <1>6, <1>7, NatSetInduction
<1>9. Sum(H[n], G[n], n)
  BY <1>3, <1>8
<1> QED BY <1>1, <1>2, <1>9 DEF n, Sum

(* A sequence without repetition is no longer than the interval it is in.  *)
LEMMA InjectiveLength ==
  ASSUME NEW n \in Nat, NEW s \in Seq(1 .. n), IsInjective(s)
  PROVE  Len(s) <= n
<1> DEFINE m == Len(s)
<1>1. m \in Nat /\ s \in [1 .. m -> 1 .. n]
  OBVIOUS
<1>2. s \in Injection(1 .. m, 1 .. n)
  BY <1>1 DEF Injection
<1> HIDE DEF m
<1>3. IsFiniteSet(1 .. n) /\ Cardinality(1 .. n) = n /\ Cardinality(1 .. m) = m
  BY <1>1, FS_Interval
<1>4. Cardinality(1 .. m) <= n
  BY <1>2, <1>3, FS_Injection
<1> QED BY <1>3, <1>4 DEF m
-----------------------------------------------------------------------------
(***************************************************************************)
(* The invariant of the pass over the graph.  Each part says what holds    *)
(* between two loops, and what is different while one loop is rewired.     *)
(***************************************************************************)
Ph == Preheader(loop)
GivenInv == prog \in Programs /\ addr \in [Instrs -> Instrs]

(* Successors and predecessors are the branches, but for the branch the    *)
(* new preheader does not have yet.                                        *)
EdgesInv ==
  \A b \in AllBlocks :
    /\ (pc = "move" /\ b = Ph) \/ Members(succ[b]) = Members(br[b])
    /\ IsInjective(pre[b])
    /\ \A p \in AllBlocks :
         p \in Members(pre[b]) <=> b \in Members(succ[p]) /\ ~ (pc = "move" /\ p = Ph /\ b = loop)
    /\ b \notin terminated =>
         b \notin Blocks /\ ((pc = "move" /\ b = Ph) \/ (pre[b] = << >> /\ succ[b] = << >>))

(* What of loop_invariant is in the preheader.                             *)
Moved == {loop_invariant[l] : l \in 1 .. k - 1}

(* The headers of the loops still to come have the predecessors they had,  *)
(* and their preheaders nothing in them.                                   *)
PendingInv ==
  \A i \in pos .. Len(prog.loops) :
    LET h == prog.loops[i] IN
    /\ Preheader(h) \notin terminated
    /\ pre[h] = IF pc = "move" /\ i = pos THEN Kept(prog.cfg.pre[h], prog.latches[h])
                                          ELSE prog.cfg.pre[h]
    /\ Members(instrs[Preheader(h)]) =
         IF pc = "move" /\ i = pos THEN Moved ELSE {}

(* The phis of the header are ahead of its predecessors.                   *)
PhiInv ==
  /\ \A j \in Instrs : Len(phis[j]) = Len(prog.phis[j])
  /\ \A b \in AllBlocks : \A j \in Members(instrs[b]) : prog.op[j] = "phi" =>
       /\ IsInjective(Sources(phis[j]))
       /\ Members(Sources(phis[j])) \subseteq
            IF pc \in {"rewire", "move"} /\ b = loop THEN prog.latches[loop] \cup {Ph}
                                                     ELSE Members(pre[b])

(* Every instruction is in one place.                                      *)
PlaceInv ==
  /\ \A j \in Instrs : \E b \in AllBlocks : j \in Members(instrs[b])
  /\ \A b \in AllBlocks : IsInjective(instrs[b])
  /\ \A b, c \in AllBlocks : b # c => Members(instrs[b]) \cap Members(instrs[c]) = {}

HoistInv ==
  /\ IsInjective(loop_invariant)
  /\ Members(loop_invariant) \subseteq loop_instructions
  /\ \A j \in Members(loop_invariant) : prog.op[j] \notin {"store", "phi", "impure_call"}

PhaseInv ==
  /\ pc \notin {"collect", "done"} => pos <= Len(prog.loops)
  /\ pc \in {"phis", "rewire", "move"} => preheader[loop] = Ph
  /\ pc \in {"phis", "rewire"} => k = 1
  /\ pc = "move" => succ[Ph] = <<loop>>

(* A loop gains no blocks but preheaders.                                  *)
BlocksInv == \A h \in Blocks : Members(blocks[h]) \cap Blocks = Members(prog.blocks[h])

LicmInv ==
  GivenInv /\ TypeOK /\ EdgesInv /\ PendingInv /\ PhiInv /\ PlaceInv /\ HoistInv /\ PhaseInv /\ BlocksInv

LEMMA BlockSets ==
  /\ Blocks \subseteq AllBlocks /\ N \in Nat
  /\ \A h \in Blocks : Preheader(h) \in AllBlocks \ Blocks
  /\ \A h, l \in Blocks : Preheader(h) = Preheader(l) => h = l
  /\ nullptr \notin AllBlocks
BY NAssumption DEF Blocks, AllBlocks, Preheader, nullptr

(* What the pass is given.                                                 *)
LEMMA CodeFacts ==
  ASSUME GivenInv
  PROVE  /\ prog.cfg.succ \in [Blocks -> Seq(Blocks)] /\ prog.cfg.pre \in [Blocks -> Seq(Blocks)]
         /\ \A x, y \in Blocks : y \in Members(prog.cfg.succ[x]) <=> x \in Members(prog.cfg.pre[y])
         /\ \A b \in Blocks : IsInjective(prog.cfg.succ[b]) /\ IsInjective(prog.cfg.pre[b])
         /\ prog.op \in [Instrs -> Operations] /\ prog.args \in [Instrs -> Seq(Values)]
         /\ prog.phis \in [Instrs -> Seq(Values \X Blocks)]
         /\ prog.instrs \in [Blocks -> Seq(Instrs)]
         /\ \A j \in Instrs : \E b \in Blocks : j \in Members(prog.instrs[b])
         /\ \A b \in Blocks : IsInjective(prog.instrs[b])
         /\ \A b, c \in Blocks : b # c => Members(prog.instrs[b]) \cap Members(prog.instrs[c]) = {}
         /\ PhisOf(prog.instrs, prog.cfg.pre, prog.phis, prog)
<1>1. IsCode(prog)
  BY ProgramsAssumption DEF GivenInv
<1>2. IsCfg(prog.cfg)
  BY <1>1 DEF IsCode
<1>3. /\ prog.cfg.succ \in [Blocks -> Seq(Blocks)] /\ prog.cfg.pre \in [Blocks -> Seq(Blocks)]
      /\ \A x, y \in Blocks : y \in Members(prog.cfg.succ[x]) <=> x \in Members(prog.cfg.pre[y])
  BY <1>2 DEF IsCfg
<1> QED BY <1>1, <1>3 DEF IsCode

(* Its loops, and the one in hand.                                         *)
LEMMA LoopsFacts ==
  ASSUME GivenInv
  PROVE  /\ prog.loops \in Seq(Blocks) /\ IsInjective(prog.loops) /\ Len(prog.loops) \in Nat
         /\ prog.blocks \in [Blocks -> Seq(Blocks)] /\ prog.latches \in [Blocks -> SUBSET Blocks]
         /\ prog.parent \in [Blocks -> BlockOrNull]
         /\ \A h \in Members(prog.loops) :
              /\ h \in Blocks /\ h \in Members(prog.blocks[h])
              /\ prog.latches[h] = Members(prog.cfg.pre[h]) \cap Members(prog.blocks[h])
              /\ \E q \in Blocks : Members(prog.cfg.pre[h]) \ prog.latches[h] = {q}
         /\ \A i \in 1 .. Len(prog.loops) : prog.loops[i] \in Members(prog.loops)
<1>1. HasLoops(prog)
  BY ProgramsAssumption DEF GivenInv
<1>2. prog.loops \in Seq(Blocks)
  BY <1>1 DEF HasLoops
<1>3. \A h \in Members(prog.loops) : h \in Blocks
  BY <1>2 DEF Members
<1>4. \A i \in 1 .. Len(prog.loops) : prog.loops[i] \in Members(prog.loops)
  BY DEF Members
<1>5. Len(prog.loops) \in Nat
  BY <1>2
<1> QED BY <1>1, <1>3, <1>4, <1>5 DEF HasLoops

LEMMA InHand ==
  ASSUME GivenInv, TypeOK, pos <= Len(prog.loops)
  PROVE  /\ pos \in 1 .. Len(prog.loops) /\ pos \in pos .. Len(prog.loops)
         /\ loop \in Members(prog.loops) /\ loop \in Blocks /\ loop \in AllBlocks
         /\ Ph \in AllBlocks /\ Ph \notin Blocks
         /\ \A i \in pos + 1 .. Len(prog.loops) :
              /\ prog.loops[i] \in Blocks /\ prog.loops[i] # loop
              /\ Preheader(prog.loops[i]) # Ph
<1>1. pos \in 1 .. Len(prog.loops) /\ pos \in pos .. Len(prog.loops) /\ Len(prog.loops) \in Nat
  BY LoopsFacts DEF TypeOK
<1>2. loop \in Members(prog.loops) /\ loop \in Blocks
  BY <1>1, LoopsFacts DEF loop
<1>3. ASSUME NEW i \in pos + 1 .. Len(prog.loops)
      PROVE  prog.loops[i] \in Blocks /\ prog.loops[i] # loop
  <2>1. i \in 1 .. Len(prog.loops) /\ i # pos
    BY <1>1
  <2>2. DOMAIN prog.loops = 1 .. Len(prog.loops)
    BY LoopsFacts
  <2> QED BY <1>1, <2>1, <2>2, LoopsFacts DEF IsInjective, loop
<1> QED BY <1>1, <1>2, <1>3, BlockSets DEF Ph

(* A step that leaves the graph alone, outside of the rewiring.            *)
LEMMA GraphAlone ==
  ASSUME LicmInv, UNCHANGED <<progVars, br, succ, pre, terminated, instrs, phis, blocks>>,
         pos' = pos \/ pos' = pos + 1,
         pc \notin {"rewire", "move"}, pc' \notin {"rewire", "move"}
  PROVE  GivenInv' /\ EdgesInv' /\ PendingInv' /\ PhiInv' /\ PlaceInv' /\ BlocksInv'
<1> USE DEF LicmInv, progVars
<1>1. GivenInv' /\ PlaceInv' /\ BlocksInv'
  BY DEF GivenInv, PlaceInv, BlocksInv
<1>2. EdgesInv'
  BY DEF EdgesInv
<1>3. PendingInv'
  <2>1. pos \in Nat /\ Len(prog.loops) \in Nat
    BY LoopsFacts DEF TypeOK
  <2>2. \A i \in pos' .. Len(prog.loops) : i \in pos .. Len(prog.loops)
    BY <2>1
  <2> QED BY <2>2 DEF PendingInv
<1>4. PhiInv'
  BY DEF PhiInv
<1> QED BY <1>1, <1>2, <1>3, <1>4

-----------------------------------------------------------------------------
(***************************************************************************)
(* The invariant holds at the start.                                       *)
(***************************************************************************)
LEMMA SeqWider ==
  ASSUME NEW S, NEW T, S \subseteq T, NEW s \in Seq(S)
  PROVE  s \in Seq(T)
OBVIOUS

LEMMA PaddedFacts ==
  ASSUME NEW S, NEW T, S \subseteq T, NEW f \in [Blocks -> Seq(S)]
  PROVE  /\ Padded(f) \in [AllBlocks -> Seq(T)]
         /\ \A b \in Blocks : Padded(f)[b] = f[b]
         /\ \A b \in AllBlocks \ Blocks : Padded(f)[b] = << >>
<1>1. \A b \in Blocks : f[b] \in Seq(T)
  BY SeqWider
<1>2. << >> \in Seq(T)
  OBVIOUS
<1> QED BY <1>1, <1>2, BlockSets DEF Padded

LEMMA NothingInEmpty == Members(<< >>) = {} /\ IsInjective(<< >>)
BY DEF Members, IsInjective

LEMMA InitInv == ASSUME Init PROVE LicmInv
<1>1. GivenInv
  BY DEF Init, GivenInv
<1> USE <1>1
<1>2. /\ succ \in [AllBlocks -> Seq(AllBlocks)] /\ succ = br
      /\ pre \in [AllBlocks -> Seq(AllBlocks)]
      /\ instrs \in [AllBlocks -> Seq(Instrs)]
      /\ \A b \in Blocks : /\ succ[b] = prog.cfg.succ[b] /\ pre[b] = prog.cfg.pre[b]
                           /\ instrs[b] = prog.instrs[b]
      /\ \A b \in AllBlocks \ Blocks : succ[b] = << >> /\ pre[b] = << >> /\ instrs[b] = << >>
  <2>1. /\ succ = Padded(prog.cfg.succ) /\ br = succ /\ pre = Padded(prog.cfg.pre)
        /\ instrs = Padded(prog.instrs)
    BY DEF Init
  <2>2. /\ prog.cfg.succ \in [Blocks -> Seq(Blocks)] /\ prog.cfg.pre \in [Blocks -> Seq(Blocks)]
        /\ prog.instrs \in [Blocks -> Seq(Instrs)]
    BY CodeFacts
  <2>3. Blocks \subseteq AllBlocks
    BY BlockSets
  <2>4. /\ succ \in [AllBlocks -> Seq(AllBlocks)]
        /\ \A b \in Blocks : succ[b] = prog.cfg.succ[b]
        /\ \A b \in AllBlocks \ Blocks : succ[b] = << >>
    BY <2>1, <2>2, <2>3, PaddedFacts
  <2>5. /\ pre \in [AllBlocks -> Seq(AllBlocks)]
        /\ \A b \in Blocks : pre[b] = prog.cfg.pre[b]
        /\ \A b \in AllBlocks \ Blocks : pre[b] = << >>
    BY <2>1, <2>2, <2>3, PaddedFacts
  <2>6. /\ instrs \in [AllBlocks -> Seq(Instrs)]
        /\ \A b \in Blocks : instrs[b] = prog.instrs[b]
        /\ \A b \in AllBlocks \ Blocks : instrs[b] = << >>
    BY <2>1, <2>2, PaddedFacts
  <2> QED BY <2>1, <2>4, <2>5, <2>6
<1>3. /\ phis \in [Instrs -> Seq(Values \X AllBlocks)] /\ blocks \in [Blocks -> Seq(AllBlocks)]
  <2>1. Values \X Blocks \subseteq Values \X AllBlocks
    BY BlockSets
  <2>2. \A j \in Instrs : prog.phis[j] \in Seq(Values \X AllBlocks)
    BY <2>1, CodeFacts, SeqWider
  <2>3. \A h \in Blocks : prog.blocks[h] \in Seq(AllBlocks)
    BY BlockSets, LoopsFacts, SeqWider
  <2>4. phis = prog.phis /\ blocks = prog.blocks
    BY DEF Init
  <2> QED BY <2>2, <2>3, <2>4, CodeFacts, LoopsFacts
<1>4. TypeOK
  <2>1. pos \in 1 .. Len(prog.loops) + 1 /\ k \in 1 .. NInstr + 1
    BY LoopsFacts, NInstrAssumption DEF Init
  <2>2. << >> \in Seq(Instrs)
    OBVIOUS
  <2> QED BY <1>2, <1>3, <2>1, <2>2, BlockSets DEF Init, TypeOK
<1>5. EdgesInv
  <2> SUFFICES ASSUME NEW b \in AllBlocks
               PROVE  /\ IsInjective(pre[b])
                      /\ \A p \in AllBlocks : p \in Members(pre[b]) <=> b \in Members(succ[p])
                      /\ b \notin Blocks => pre[b] = << >> /\ succ[b] = << >>
    BY <1>2 DEF EdgesInv, Init
  <2>1. CASE b \in Blocks
    <3>1. IsInjective(pre[b])
      BY <1>2, <2>1, CodeFacts
    <3>2. ASSUME NEW p \in AllBlocks PROVE p \in Members(pre[b]) <=> b \in Members(succ[p])
      <4>1. CASE p \in Blocks
        BY <1>2, <2>1, <4>1, CodeFacts
      <4>2. CASE p \notin Blocks
        <5>1. Members(succ[p]) = {}
          BY <1>2, <4>2, NothingInEmpty
        <5>2. Members(pre[b]) \subseteq Blocks
          <6>1. pre[b] \in Seq(Blocks)
            BY <1>2, <2>1, CodeFacts
          <6> QED BY <6>1 DEF Members
        <5> QED BY <4>2, <5>1, <5>2
      <4> QED BY <4>1, <4>2
    <3> QED BY <2>1, <3>1, <3>2
  <2>2. CASE b \notin Blocks
    <3>1. pre[b] = << >> /\ succ[b] = << >> /\ IsInjective(pre[b]) /\ Members(pre[b]) = {}
      BY <1>2, <2>2, NothingInEmpty
    <3>2. ASSUME NEW p \in AllBlocks PROVE b \notin Members(succ[p])
      <4>1. CASE p \in Blocks
        <5>1. succ[p] \in Seq(Blocks)
          BY <1>2, <4>1, CodeFacts
        <5> QED BY <2>2, <5>1 DEF Members
      <4>2. CASE p \notin Blocks
        BY <1>2, <4>2, NothingInEmpty
      <4> QED BY <4>1, <4>2
    <3> QED BY <3>1, <3>2
  <2> QED BY <2>1, <2>2
<1>6. PendingInv
  <2> SUFFICES ASSUME NEW i \in 1 .. Len(prog.loops)
               PROVE  /\ Preheader(prog.loops[i]) \notin Blocks
                      /\ pre[prog.loops[i]] = prog.cfg.pre[prog.loops[i]]
                      /\ Members(instrs[Preheader(prog.loops[i])]) = {}
    BY DEF PendingInv, Init
  <2>1. prog.loops[i] \in Blocks /\ Preheader(prog.loops[i]) \in AllBlocks \ Blocks
    BY LoopsFacts, BlockSets
  <2> QED BY <1>2, <2>1, NothingInEmpty
<1>7. PlaceInv
  <2>1. \A b \in AllBlocks \ Blocks : Members(instrs[b]) = {} /\ IsInjective(instrs[b])
    BY <1>2, NothingInEmpty
  <2> QED BY <1>2, <2>1, CodeFacts, BlockSets DEF PlaceInv
<1>8. PhiInv
  <2>1. \A b \in AllBlocks \ Blocks : Members(instrs[b]) = {}
    BY <1>2, NothingInEmpty
  <2>2. \A b \in Blocks : \A j \in Members(instrs[b]) : prog.op[j] = "phi" =>
          /\ IsInjective(Sources(phis[j])) /\ Members(Sources(phis[j])) \subseteq Members(pre[b])
    <3>1. PhisOf(prog.instrs, prog.cfg.pre, prog.phis, prog) /\ DOMAIN prog.instrs = Blocks
      BY CodeFacts
    <3> QED BY <1>2, <3>1 DEF PhisOf, Init
  <2>3. pc = "collect" /\ phis = prog.phis
    BY DEF Init
  <2> QED BY <2>1, <2>2, <2>3 DEF PhiInv
<1>9. HoistInv /\ PhaseInv /\ BlocksInv
  <2>1. HoistInv
    BY NothingInEmpty DEF HoistInv, Init
  <2>2. PhaseInv
    BY DEF PhaseInv, Init
  <2>3. BlocksInv
    <3> SUFFICES ASSUME NEW h \in Blocks PROVE Members(prog.blocks[h]) \subseteq Blocks
      BY DEF BlocksInv, Init
    <3>1. prog.blocks[h] \in Seq(Blocks)
      BY LoopsFacts
    <3> QED BY <3>1 DEF Members
  <2> QED BY <2>1, <2>2, <2>3
<1> QED BY <1>1, <1>4, <1>5, <1>6, <1>7, <1>8, <1>9 DEF LicmInv
-----------------------------------------------------------------------------
(***************************************************************************)
(* The steps that only look: they leave the graph alone.                   *)
(***************************************************************************)
LEMMA ArgsFacts ==
  ASSUME GivenInv, NEW j \in Instrs
  PROVE  /\ prog.op[j] = "load" => prog.args[j][1] \in Values
         /\ prog.op[j] = "store" => prog.args[j][2] \in Values
<1>1. /\ prog.args[j] \in Seq(Values)
      /\ prog.op[j] = "load" => Len(prog.args[j]) = 1
      /\ prog.op[j] = "store" => Len(prog.args[j]) = 2
  BY ProgramsAssumption DEF GivenInv, IsCode
<1>2. ASSUME prog.op[j] = "load" PROVE prog.args[j][1] \in Values
  <2>1. Len(prog.args[j]) = 1
    BY <1>1, <1>2
  <2> QED BY <1>1, <2>1
<1>3. ASSUME prog.op[j] = "store" PROVE prog.args[j][2] \in Values
  <2>1. Len(prog.args[j]) = 2
    BY <1>1, <1>3
  <2> QED BY <1>1, <2>1
<1> QED BY <1>2, <1>3

LEMMA CollectStep == ASSUME LicmInv, CollectLoopInfo PROVE LicmInv'
<1> USE DEF LicmInv, CollectLoopInfo
<1>1. GivenInv' /\ EdgesInv' /\ PendingInv' /\ PhiInv' /\ PlaceInv' /\ BlocksInv'
  BY GraphAlone DEF graphVars
<1>2. loop_instructions' \subseteq Instrs
  <2>1. ASSUME NEW b \in Members(blocks[loop]) PROVE Members(instrs[b]) \subseteq Instrs
    <3>1. blocks[loop] \in Seq(AllBlocks)
      BY InHand DEF TypeOK
    <3>2. b \in AllBlocks
      BY <3>1, <2>1 DEF Members
    <3>3. instrs[b] \in Seq(Instrs)
      BY <3>2 DEF TypeOK
    <3> QED BY <3>3 DEF Members
  <2> QED BY <2>1
<1>3. updated_global' \subseteq Values
  BY <1>2, ArgsFacts
<1>4. << >> \in Seq(Instrs) /\ 1 \in 1 .. NInstr + 1
  BY NInstrAssumption
<1>5. TypeOK'
  BY <1>2, <1>3, <1>4 DEF TypeOK, graphVars, progVars
<1>6. HoistInv' /\ PhaseInv'
  BY NothingInEmpty DEF HoistInv, PhaseInv, progVars, loop
<1> QED BY <1>1, <1>5, <1>6

LEMMA ExamineStep == ASSUME LicmInv, Examine PROVE LicmInv'
<1> USE DEF LicmInv
<1>1. GivenInv' /\ EdgesInv' /\ PendingInv' /\ PhiInv' /\ PlaceInv' /\ BlocksInv'
  BY GraphAlone DEF Examine, graphVars, progVars
<1> DEFINE j == addr[k]
<1>2. k \in 1 .. NInstr /\ k' \in 1 .. NInstr + 1 /\ j \in Instrs
  BY NInstrAssumption DEF Examine, TypeOK, GivenInv, Instrs
<1>3. \/ UNCHANGED <<loop_invariant, changed>>
      \/ /\ j \in loop_instructions /\ j \notin Members(loop_invariant) /\ IsInvariant(j)
         /\ loop_invariant' = Append(loop_invariant, j) /\ changed' = TRUE
  BY DEF Examine
<1>4. IsInvariant(j) => prog.op[j] \notin {"store", "phi", "impure_call"}
  BY DEF IsInvariant
<1>5. UNCHANGED <<progVars, pc, pos, graphVars, loop_instructions, updated_global>>
  BY DEF Examine
<1> HIDE DEF j
<1>6. loop_invariant' \in Seq(Instrs) /\ changed' \in BOOLEAN /\ HoistInv'
  <2>1. CASE UNCHANGED <<loop_invariant, changed>>
    BY <1>5, <2>1 DEF HoistInv, TypeOK, progVars
  <2>2. CASE /\ j \in loop_instructions /\ j \notin Members(loop_invariant) /\ IsInvariant(j)
             /\ loop_invariant' = Append(loop_invariant, j) /\ changed' = TRUE
    <3>1. loop_invariant \in Seq(Instrs) /\ IsInjective(loop_invariant)
      BY DEF TypeOK, HoistInv
    <3>2. loop_invariant' \in Seq(Instrs) /\ Members(loop_invariant') = Members(loop_invariant) \cup {j}
      BY <1>2, <2>2, <3>1, MembersAppend
    <3>3. IsInjective(loop_invariant')
      BY <1>2, <2>2, <3>1, AppendNewInjective
    <3> QED BY <1>4, <1>5, <2>2, <3>2, <3>3 DEF HoistInv, progVars
  <2> QED BY <1>3, <2>1, <2>2
<1>7. TypeOK'
  BY <1>2, <1>5, <1>6 DEF TypeOK, graphVars, progVars
<1>8. PhaseInv'
  <2>1. pc = "examine" /\ pc' = "examine"
    BY DEF Examine
  <2> QED BY <1>5, <2>1 DEF PhaseInv, progVars
<1> QED BY <1>1, <1>6, <1>7, <1>8

LEMMA ExamineAgainStep == ASSUME LicmInv, ExamineAgain PROVE LicmInv'
<1> USE DEF LicmInv, ExamineAgain, graphVars, progVars
<1>1. GivenInv' /\ EdgesInv' /\ PendingInv' /\ PhiInv' /\ PlaceInv' /\ BlocksInv'
  BY GraphAlone
<1>2. TypeOK'
  <2>1. 1 \in 1 .. NInstr + 1
    BY NInstrAssumption
  <2> QED BY <2>1 DEF TypeOK
<1>3. HoistInv' /\ PhaseInv'
  BY DEF HoistInv, PhaseInv, loop, Ph
<1> QED BY <1>1, <1>2, <1>3

LEMMA CreateStep == ASSUME LicmInv, CreatePreheader PROVE LicmInv'
<1> USE DEF LicmInv, CreatePreheader, scanVars, progVars
<1>1. GivenInv' /\ EdgesInv' /\ PendingInv' /\ PhiInv' /\ PlaceInv' /\ BlocksInv'
  BY GraphAlone
<1>2. /\ pos <= Len(prog.loops) /\ pos \in 1 .. Len(prog.loops) /\ pos \in Nat
      /\ loop \in Blocks /\ Preheader(loop) \in AllBlocks
  BY InHand, BlockSets DEF PhaseInv, Ph
<1>3. preheader' \in [Blocks -> AllBlocks \cup {nullptr}] /\ preheader'[loop] = Preheader(loop)
  BY <1>2 DEF TypeOK
<1>4. pos' \in 1 .. Len(prog.loops) + 1 /\ pc' \in {"collect", "phis"} /\ k' \in 1 .. NInstr + 1
  <2>1. Len(prog.loops) \in Nat /\ 1 \in 1 .. NInstr + 1
    BY NInstrAssumption, LoopsFacts
  <2>2. pos' \in {pos, pos + 1} /\ k' = 1 /\ pc' \in {"collect", "phis"}
    BY DEF CreatePreheader
  <2> QED BY <1>2, <2>1, <2>2
<1>5. TypeOK'
  BY <1>3, <1>4 DEF TypeOK
<1>6. HoistInv'
  BY DEF HoistInv
<1>7. PhaseInv'
  BY <1>2, <1>3 DEF PhaseInv, loop, Ph
<1> QED BY <1>1, <1>5, <1>6, <1>7

LEMMA EndStep == ASSUME LicmInv, Finish \/ UNCHANGED vars PROVE LicmInv'
<1> USE DEF LicmInv, Finish, vars, graphVars, progVars, scanVars
<1>1. CASE Finish
  <2>1. GivenInv' /\ EdgesInv' /\ PendingInv' /\ PhiInv' /\ PlaceInv' /\ BlocksInv'
    BY <1>1, GraphAlone
  <2>2. TypeOK' /\ HoistInv' /\ PhaseInv'
    BY <1>1 DEF TypeOK, HoistInv, PhaseInv
  <2> QED BY <2>1, <2>2
<1>2. CASE UNCHANGED vars
  <2>1. GivenInv' /\ TypeOK' /\ PlaceInv' /\ HoistInv' /\ BlocksInv'
    BY <1>2 DEF GivenInv, TypeOK, PlaceInv, HoistInv, BlocksInv
  <2>2. loop' = loop /\ Ph' = Ph /\ Moved' = Moved
    BY <1>2 DEF loop, Ph, Moved
  <2>3. EdgesInv' /\ PhaseInv'
    BY <1>2, <2>2 DEF EdgesInv, PhaseInv
  <2>4. PendingInv' /\ PhiInv'
    BY <1>2, <2>2 DEF PendingInv, PhiInv
  <2> QED BY <2>1, <2>3, <2>4
<1> QED BY <1>1, <1>2
-----------------------------------------------------------------------------
(***************************************************************************)
(* The header's phis: own pairs first, and the one that enters renamed.    *)
(***************************************************************************)
Renamed(s, p) == [l \in 1 .. Len(s) |-> <<s[l][1], p>>]

LEMMA SourcesFacts ==
  ASSUME NEW s \in Seq(Values \X AllBlocks)
  PROVE  /\ Len(s) \in Nat /\ Sources(s) \in Seq(AllBlocks) /\ Len(Sources(s)) = Len(s)
         /\ DOMAIN Sources(s) = 1 .. Len(s)
         /\ \A l \in 1 .. Len(s) : Sources(s)[l] = s[l][2] /\ s[l] \in Values \X AllBlocks
                                /\ Sources(s)[l] \in Members(Sources(s))
<1>1. Len(s) \in Nat /\ \A l \in 1 .. Len(s) : s[l] \in Values \X AllBlocks
  OBVIOUS
<1>2. \A l \in 1 .. Len(s) : s[l][2] \in AllBlocks
  BY <1>1
<1>3. Sources(s) \in Seq(AllBlocks) /\ Len(Sources(s)) = Len(s) /\ DOMAIN Sources(s) = 1 .. Len(s)
  BY <1>1, <1>2 DEF Sources
<1>4. \A l \in 1 .. Len(s) : Sources(s)[l] = s[l][2]
  BY DEF Sources
<1>5. \A l \in 1 .. Len(s) : Sources(s)[l] \in Members(Sources(s))
  BY <1>3 DEF Members
<1> QED BY <1>1, <1>3, <1>4, <1>5

(* Pairs kept of s have sources of s, each at most once.                   *)
LEMMA KeptSources ==
  ASSUME NEW s \in Seq(Values \X AllBlocks), IsInjective(Sources(s)), NEW S
  PROVE  LET a == Kept(s, S) IN
         /\ a \in Seq(Values \X AllBlocks)
         /\ \A l \in 1 .. Len(a) : a[l] \in S /\ a[l][2] \in Members(Sources(s))
         /\ \A l, m \in 1 .. Len(a) : a[l][2] = a[m][2] => l = m
<1> DEFINE a == Kept(s, S)
<1>1. IsInjective(s)
  BY SourcesFacts DEF IsInjective
<1>2. a \in Seq(Values \X AllBlocks) /\ IsInjective(a) /\ Members(a) = Members(s) \cap S
  BY <1>1, KeptMembers
<1> HIDE DEF a
<1>3. \A l \in 1 .. Len(a) : a[l] \in S /\ \E i \in 1 .. Len(s) : a[l] = s[i]
  BY <1>2 DEF Members
<1>4. ASSUME NEW l \in 1 .. Len(a) PROVE a[l][2] \in Members(Sources(s))
  <2>1. PICK i \in 1 .. Len(s) : a[l] = s[i]
    BY <1>3
  <2>2. Sources(s)[i] = s[i][2] /\ Sources(s)[i] \in Members(Sources(s))
    BY SourcesFacts
  <2> QED BY <2>1, <2>2
<1>5. ASSUME NEW l \in 1 .. Len(a), NEW m \in 1 .. Len(a), a[l][2] = a[m][2] PROVE l = m
  <2>1. PICK i \in 1 .. Len(s) : a[l] = s[i]
    BY <1>3
  <2>2. PICK j \in 1 .. Len(s) : a[m] = s[j]
    BY <1>3
  <2>3. Sources(s)[i] = Sources(s)[j]
    BY <1>5, <2>1, <2>2, SourcesFacts
  <2>4. i = j
    BY <2>3, SourcesFacts DEF IsInjective
  <2>5. DOMAIN a = 1 .. Len(a)
    BY <1>2
  <2> QED BY <1>2, <2>1, <2>2, <2>4, <2>5 DEF IsInjective
<1> QED BY <1>2, <1>3, <1>4, <1>5 DEF a

(* The pairs s of a phi in the header of a loop with the blocks B, when    *)
(* the preheader is p.                                                     *)
Entered(s, B, p) ==
  LET Own == Values \X B
  IN  Kept(s, Own) \o Renamed(Kept(s, (Values \X AllBlocks) \ Own), p)

LEMMA PhiRenamed ==
  ASSUME NEW s \in Seq(Values \X AllBlocks), IsInjective(Sources(s)),
         NEW B, NEW p \in AllBlocks, p \notin Members(Sources(s)),
         \A x, y \in Members(Sources(s)) \ B : x = y
  PROVE  /\ Entered(s, B, p) \in Seq(Values \X AllBlocks) /\ Len(Entered(s, B, p)) = Len(s)
         /\ IsInjective(Sources(Entered(s, B, p)))
         /\ Members(Sources(Entered(s, B, p))) \subseteq (Members(Sources(s)) \cap B) \cup {p}
<1> DEFINE Own == Values \X B
           Ent == (Values \X AllBlocks) \ Own
           a == Kept(s, Own)
           b == Kept(s, Ent)
           r == Renamed(b, p)
           t == a \o r
<1>1. /\ a \in Seq(Values \X AllBlocks)
      /\ \A l \in 1 .. Len(a) : a[l] \in Own /\ a[l][2] \in Members(Sources(s))
      /\ \A l, m \in 1 .. Len(a) : a[l][2] = a[m][2] => l = m
  BY KeptSources
<1>2. /\ b \in Seq(Values \X AllBlocks)
      /\ \A l \in 1 .. Len(b) : b[l] \in Ent /\ b[l][2] \in Members(Sources(s))
      /\ \A l, m \in 1 .. Len(b) : b[l][2] = b[m][2] => l = m
  BY KeptSources
<1>3. \A l \in 1 .. Len(a) : a[l][2] \in B
  BY <1>1
<1>4. ASSUME NEW l \in 1 .. Len(b) PROVE b[l][2] \in Members(Sources(s)) \ B
  <2>1. b[l] \in Values \X AllBlocks /\ b[l] \notin Own
    BY <1>2
  <2>2. b[l][2] \notin B
    BY <2>1
  <2> QED BY <1>2, <2>2
<1>5. Len(a) + Len(b) = Len(s)
  <2>1. \A l \in 1 .. Len(s) : s[l] \in Own <=> s[l] \notin Ent
    BY SourcesFacts
  <2> QED BY <2>1, KeptLengths
<1> HIDE DEF a, b, Own, Ent
<1>6. Len(a) \in Nat /\ Len(b) \in Nat /\ \A l \in 1 .. Len(b) : b[l] \in Values \X AllBlocks
  BY <1>1, <1>2
<1>7. r \in Seq(Values \X AllBlocks) /\ Len(r) = Len(b) /\ \A l \in 1 .. Len(b) : r[l][2] = p
  BY <1>6 DEF Renamed
<1>8. \A l, m \in 1 .. Len(b) : l = m
  BY <1>2, <1>4
<1> HIDE DEF r
<1>9. /\ t \in Seq(Values \X AllBlocks) /\ Len(t) = Len(a) + Len(b)
      /\ \A l \in 1 .. Len(a) : t[l] = a[l]
      /\ \A l \in Len(a) + 1 .. Len(a) + Len(b) : t[l] = r[l - Len(a)]
  BY <1>1, <1>6, <1>7
<1> HIDE DEF t
<1> DEFINE IsOwn(l) == /\ l \in 1 .. Len(a) /\ t[l][2] = a[l][2]
                       /\ t[l][2] \in Members(Sources(s)) \cap B
           IsRenamed(l) == l \notin 1 .. Len(a) /\ l - Len(a) \in 1 .. Len(b) /\ t[l][2] = p
<1>10. ASSUME NEW l \in 1 .. Len(t) PROVE IsOwn(l) \/ IsRenamed(l)
  <2>1. CASE l \in 1 .. Len(a)
    BY <1>1, <1>3, <1>9, <2>1
  <2>2. CASE l \notin 1 .. Len(a)
    <3>1. l \in Len(a) + 1 .. Len(a) + Len(b) /\ l - Len(a) \in 1 .. Len(b)
      BY <1>6, <1>9, <2>2
    <3> QED BY <1>7, <1>9, <2>2, <3>1
  <2> QED BY <2>1, <2>2
<1>11. ASSUME NEW l \in 1 .. Len(t), NEW m \in 1 .. Len(t), t[l][2] = t[m][2] PROVE l = m
  <2>1. CASE l \in 1 .. Len(a)
    <3>1. t[l][2] # p
      BY <1>10, <2>1
    <3>2. m \in 1 .. Len(a) /\ t[m][2] = a[m][2] /\ t[l][2] = a[l][2]
      BY <1>10, <1>11, <2>1, <3>1
    <3> QED BY <1>1, <1>11, <2>1, <3>2
  <2>2. CASE l \notin 1 .. Len(a)
    <3>1. l - Len(a) \in 1 .. Len(b) /\ t[l][2] = p
      BY <1>10, <2>2
    <3>2. m - Len(a) \in 1 .. Len(b)
      BY <1>10, <1>11, <3>1
    <3>3. l - Len(a) = m - Len(a)
      BY <1>8, <3>1, <3>2
    <3> QED BY <1>6, <1>9, <3>3
  <2> QED BY <2>1, <2>2
<1>12. /\ DOMAIN Sources(t) = 1 .. Len(t) /\ Len(Sources(t)) = Len(t)
       /\ \A l \in 1 .. Len(t) : Sources(t)[l] = t[l][2]
  BY <1>9, SourcesFacts
<1>13. IsInjective(Sources(t))
  BY <1>11, <1>12 DEF IsInjective
<1>14. Members(Sources(t)) \subseteq (Members(Sources(s)) \cap B) \cup {p}
  BY <1>10, <1>12 DEF Members
<1> QED BY <1>5, <1>9, <1>13, <1>14 DEF t, r, a, b, Own, Ent, Entered

LEMMA UpdatePhisStep == ASSUME LicmInv, UpdatePhis PROVE LicmInv'
<1> USE DEF LicmInv
<1>1. /\ pc = "phis" /\ pc' = "rewire"
      /\ UNCHANGED <<prog, addr, pos, k, br, succ, pre, terminated, instrs, blocks, preheader>>
      /\ UNCHANGED <<loop_instructions, updated_global, loop_invariant, changed>>
  BY DEF UpdatePhis, progVars, scanVars
<1>2. /\ pos <= Len(prog.loops) /\ preheader[loop] = Ph
      /\ pos \in pos .. Len(prog.loops) /\ loop \in Members(prog.loops) /\ loop \in Blocks
      /\ loop \in AllBlocks /\ Ph \in AllBlocks /\ Ph \notin Blocks
  BY <1>1, InHand DEF PhaseInv
<1>3. pre[loop] = prog.cfg.pre[loop]
  BY <1>1, <1>2 DEF PendingInv, loop
<1>4. PICK q \in Blocks : Members(prog.cfg.pre[loop]) \ prog.latches[loop] = {q}
  BY <1>2, LoopsFacts
<1> DEFINE B == Members(blocks[loop])
           Now(s) == Entered(s, B, Ph)
           Mine(j) == j \in Members(instrs[loop]) /\ prog.op[j] = "phi"
<1>5. phis' = [j \in Instrs |-> IF Mine(j) THEN Now(phis[j]) ELSE phis[j]]
  BY <1>2 DEF UpdatePhis, Renamed, Entered
<1>6. Members(pre[loop]) \subseteq Blocks /\ Members(pre[loop]) \cap B = prog.latches[loop]
      /\ Members(pre[loop]) \subseteq B \cup {q}
  <2>1. prog.cfg.pre[loop] \in Seq(Blocks)
    BY <1>2, CodeFacts
  <2>2. Members(pre[loop]) \subseteq Blocks
    BY <1>3, <2>1 DEF Members
  <2>3. B \cap Blocks = Members(prog.blocks[loop])
    BY <1>2 DEF BlocksInv
  <2>4. prog.latches[loop] = Members(pre[loop]) \cap Members(prog.blocks[loop])
    BY <1>2, <1>3, LoopsFacts
  <2> QED BY <1>3, <1>4, <2>2, <2>3, <2>4
<1> HIDE DEF B
<1>7. ASSUME NEW j \in Instrs, Mine(j)
      PROVE  /\ Now(phis[j]) \in Seq(Values \X AllBlocks) /\ Len(Now(phis[j])) = Len(phis[j])
             /\ IsInjective(Sources(Now(phis[j])))
             /\ Members(Sources(Now(phis[j]))) \subseteq prog.latches[loop] \cup {Ph}
  <2>1. /\ phis[j] \in Seq(Values \X AllBlocks)
        /\ IsInjective(Sources(phis[j])) /\ Members(Sources(phis[j])) \subseteq Members(pre[loop])
    BY <1>1, <1>2, <1>7 DEF PhiInv, TypeOK
  <2>2. Ph \notin Members(Sources(phis[j])) /\ \A x, y \in Members(Sources(phis[j])) \ B : x = y
    BY <1>2, <1>6, <2>1
  <2>3. /\ Now(phis[j]) \in Seq(Values \X AllBlocks) /\ Len(Now(phis[j])) = Len(phis[j])
        /\ IsInjective(Sources(Now(phis[j])))
        /\ Members(Sources(Now(phis[j]))) \subseteq (Members(Sources(phis[j])) \cap B) \cup {Ph}
    <3> DEFINE s == phis[j]
    <3>1. /\ s \in Seq(Values \X AllBlocks) /\ IsInjective(Sources(s))
          /\ Ph \notin Members(Sources(s)) /\ \A x, y \in Members(Sources(s)) \ B : x = y
      BY <2>1, <2>2
    <3> HIDE DEF s
    <3>2. /\ Entered(s, B, Ph) \in Seq(Values \X AllBlocks) /\ Len(Entered(s, B, Ph)) = Len(s)
          /\ IsInjective(Sources(Entered(s, B, Ph)))
          /\ Members(Sources(Entered(s, B, Ph))) \subseteq (Members(Sources(s)) \cap B) \cup {Ph}
      BY ONLY <3>1, <1>2, PhiRenamed
    <3> QED BY <3>2 DEF s
  <2> QED BY <1>6, <2>1, <2>3
<1> HIDE DEF Now
<1>8. phis' \in [Instrs -> Seq(Values \X AllBlocks)]
  BY <1>5, <1>7 DEF TypeOK
<1>9. TypeOK'
  BY <1>1, <1>8 DEF TypeOK
<1>10. \A b \in AllBlocks : Members(instrs[b]) \subseteq Instrs
  BY DEF TypeOK, Members
<1>11. PhiInv'
  <2>1. \A j \in Instrs : Len(phis'[j]) = Len(prog.phis[j])
    BY <1>5, <1>7 DEF PhiInv
  <2>2. ASSUME NEW b \in AllBlocks, NEW j \in Members(instrs[b]), prog.op[j] = "phi"
        PROVE  /\ IsInjective(Sources(phis'[j]))
               /\ Members(Sources(phis'[j])) \subseteq
                    IF b = loop THEN prog.latches[loop] \cup {Ph} ELSE Members(pre[b])
    <3>1. j \in Instrs
      BY <1>10
    <3>2. CASE b = loop
      BY <1>5, <1>7, <2>2, <3>1, <3>2
    <3>3. CASE b # loop
      <4>1. j \notin Members(instrs[loop])
        BY <1>2, <3>3 DEF PlaceInv
      <4>2. phis'[j] = phis[j]
        BY <1>5, <3>1, <4>1
      <4> QED BY <1>1, <2>2, <3>3, <4>2 DEF PhiInv
    <3> QED BY <3>2, <3>3
  <2>3. loop' = loop /\ Ph' = Ph
    BY <1>1 DEF loop, Ph
  <2> QED BY <1>1, <2>1, <2>2, <2>3 DEF PhiInv
<1>12. GivenInv' /\ EdgesInv' /\ PendingInv' /\ PlaceInv' /\ HoistInv' /\ BlocksInv'
  BY <1>1 DEF GivenInv, EdgesInv, PendingInv, PlaceInv, HoistInv, BlocksInv
<1>13. PhaseInv'
  BY <1>1, <1>2 DEF PhaseInv, loop, Ph
<1> QED BY <1>9, <1>11, <1>12, <1>13
-----------------------------------------------------------------------------
(***************************************************************************)
(* The edge into the header is cut, with the preheader on it.              *)
(***************************************************************************)
Redirected(s, h, p) == [l \in 1 .. Len(s) |-> IF s[l] = h THEN p ELSE s[l]]

LEMMA RedirectedFacts ==
  ASSUME NEW s \in Seq(AllBlocks), NEW h \in Members(s), NEW p \in AllBlocks
  PROVE  /\ Redirected(s, h, p) \in Seq(AllBlocks)
         /\ Members(Redirected(s, h, p)) = (Members(s) \ {h}) \cup {p}
<1> DEFINE n == Len(s)
           r == Redirected(s, h, p)
<1>1. n \in Nat /\ \A l \in 1 .. n : s[l] \in AllBlocks /\ s[l] \in Members(s)
  BY DEF Members
<1>2. r \in Seq(AllBlocks) /\ Len(r) = n /\ \A l \in 1 .. n : r[l] = IF s[l] = h THEN p ELSE s[l]
  BY <1>1 DEF Redirected
<1>3. PICK i \in 1 .. n : s[i] = h
  BY DEF Members
<1>4. \A x \in Members(s) : \E l \in 1 .. n : s[l] = x
  BY DEF Members
<1> HIDE DEF r, n
<1>5. Members(r) = {r[l] : l \in 1 .. n}
  BY <1>2 DEF Members
<1>6. \A x \in Members(r) : x \in (Members(s) \ {h}) \cup {p}
  BY <1>1, <1>2, <1>5
<1>7. ASSUME NEW x \in Members(s), x # h PROVE x \in Members(r)
  <2>1. PICK l \in 1 .. n : s[l] = x
    BY <1>4
  <2>2. r[l] = x
    BY <1>2, <1>7, <2>1
  <2> QED BY <1>5, <2>2
<1>8. p \in Members(r)
  BY <1>2, <1>3, <1>5
<1> QED BY <1>2, <1>6, <1>7, <1>8 DEF r

(* The loop in hand while it is rewired: q enters it, the rest are its     *)
(* latches.                                                                *)
LEMMA Entrance ==
  ASSUME LicmInv, pc = "rewire"
  PROVE  \E q \in Blocks :
           /\ q \notin prog.latches[loop] /\ prog.latches[loop] \subseteq Blocks
           /\ Members(pre[loop]) = prog.latches[loop] \cup {q}
           /\ pre[loop] = prog.cfg.pre[loop] /\ pre[loop] \in Seq(AllBlocks) /\ IsInjective(pre[loop])
<1> USE DEF LicmInv
<1>1. /\ pos <= Len(prog.loops) /\ pos \in pos .. Len(prog.loops)
      /\ loop \in Members(prog.loops) /\ loop \in Blocks /\ loop \in AllBlocks
  BY InHand DEF PhaseInv
<1>2. pre[loop] = prog.cfg.pre[loop]
  BY <1>1 DEF PendingInv, loop
<1>3. PICK q \in Blocks : Members(prog.cfg.pre[loop]) \ prog.latches[loop] = {q}
  BY <1>1, LoopsFacts
<1>4. prog.latches[loop] \subseteq Blocks /\ prog.latches[loop] \subseteq Members(prog.cfg.pre[loop])
  BY <1>1, LoopsFacts
<1>5. pre[loop] \in Seq(AllBlocks) /\ IsInjective(pre[loop])
  BY <1>1 DEF TypeOK, EdgesInv
<1> QED BY <1>2, <1>3, <1>4, <1>5

LEMMA RewireStep == ASSUME LicmInv, RewirePreds PROVE LicmInv'
<1> USE DEF LicmInv
<1> DEFINE h == loop
           ph == Ph
           latches == prog.latches[h]
           entering == Kept(pre[h], AllBlocks \ latches)
<1>1. /\ pc = "rewire" /\ pc' = "move"
      /\ UNCHANGED <<prog, addr, pos, k, terminated, instrs, phis, blocks, preheader>>
      /\ UNCHANGED <<loop_instructions, updated_global, loop_invariant, changed>>
  BY DEF RewirePreds, progVars, scanVars
<1>2. /\ pos <= Len(prog.loops) /\ preheader[h] = ph
      /\ pos \in pos .. Len(prog.loops) /\ pos \in 1 .. Len(prog.loops)
      /\ h \in Members(prog.loops) /\ h \in Blocks
      /\ h \in AllBlocks /\ ph \in AllBlocks /\ ph \notin Blocks
      /\ \A i \in pos + 1 .. Len(prog.loops) :
           prog.loops[i] \in Blocks /\ prog.loops[i] # h /\ prog.loops[i] \in AllBlocks
  BY <1>1, InHand, BlockSets DEF PhaseInv
<1>3. PICK q \in Blocks :
           /\ q \notin latches /\ latches \subseteq Blocks
           /\ Members(pre[h]) = latches \cup {q}
           /\ pre[h] = prog.cfg.pre[h] /\ pre[h] \in Seq(AllBlocks) /\ IsInjective(pre[h])
  BY <1>1, Entrance
<1>4. /\ entering \in Seq(AllBlocks) /\ Members(entering) = {q} /\ IsInjective(entering)
  <2>1. /\ entering \in Seq(AllBlocks) /\ Members(entering) = Members(pre[h]) \cap (AllBlocks \ latches)
        /\ IsInjective(entering)
    BY <1>3, KeptMembers
  <2> QED BY <1>3, <2>1, BlockSets
<1>5. /\ Kept(pre[h], latches) \in Seq(AllBlocks) /\ Members(Kept(pre[h], latches)) = latches
      /\ IsInjective(Kept(pre[h], latches))
  <2>1. /\ Kept(pre[h], latches) \in Seq(AllBlocks)
        /\ Members(Kept(pre[h], latches)) = Members(pre[h]) \cap latches
        /\ IsInjective(Kept(pre[h], latches))
    BY <1>3, KeptMembers
  <2> QED BY <1>3, <2>1
<1>6. /\ succ' = [b \in AllBlocks |->
                  CASE b = q -> Append(Kept(succ[b], AllBlocks \ {h}), ph)
                    [] b = ph -> <<h>>
                    [] OTHER  -> succ[b]]
      /\ br' = [b \in AllBlocks |-> IF b = q THEN Redirected(br[b], h, ph) ELSE br[b]]
      /\ pre' = [pre EXCEPT ![ph] = entering, ![h] = Kept(@, latches)]
  <2>1. \A b : b \in Members(entering) <=> b = q
    BY <1>4
  <2> HIDE DEF entering
  <2>2. /\ succ' = [b \in AllBlocks |->
                  CASE b \in Members(entering) -> Append(Kept(succ[b], AllBlocks \ {h}), ph)
                    [] b = ph -> <<h>>
                    [] OTHER  -> succ[b]]
        /\ br' = [b \in AllBlocks |-> IF b \in Members(entering) THEN Redirected(br[b], h, ph) ELSE br[b]]
        /\ pre' = [pre EXCEPT ![ph] = entering, ![h] = Kept(@, latches)]
    BY <1>2 DEF RewirePreds, Redirected, entering
  <2> QED BY <2>1, <2>2
<1>7. /\ succ \in [AllBlocks -> Seq(AllBlocks)] /\ br \in [AllBlocks -> Seq(AllBlocks)]
      /\ pre \in [AllBlocks -> Seq(AllBlocks)] /\ q \in AllBlocks /\ q # ph /\ h # ph
  BY <1>2, BlockSets DEF TypeOK
<1>8. pre[ph] = << >> /\ succ[ph] = << >> /\ Members(pre[ph]) = {} /\ Members(succ[ph]) = {}
  <2>1. ph \notin terminated
    BY <1>2 DEF PendingInv, loop, Ph
  <2> QED BY <1>1, <1>2, <2>1, NothingInEmpty DEF EdgesInv
<1>9. /\ h \in Members(succ[q]) /\ h \in Members(br[q])
      /\ \A b \in AllBlocks : Members(succ[b]) = Members(br[b])
      /\ \A b, p \in AllBlocks : p \in Members(pre[b]) <=> b \in Members(succ[p])
      /\ \A p \in AllBlocks : ph \notin Members(succ[p]) /\ ph \notin Members(pre[p])
      /\ \A b \in AllBlocks : IsInjective(pre[b])
      /\ \A b \in AllBlocks \ terminated : b \notin Blocks /\ pre[b] = << >> /\ succ[b] = << >>
  <2>1. \A b, p \in AllBlocks : p \in Members(pre[b]) <=> b \in Members(succ[p])
    BY <1>1 DEF EdgesInv
  <2>2. \A b \in AllBlocks : Members(succ[b]) = Members(br[b])
    BY <1>1 DEF EdgesInv
  <2>3. h \in Members(succ[q])
    BY <1>2, <1>3, <1>7, <2>1
  <2>4. /\ \A b \in AllBlocks : IsInjective(pre[b])
        /\ \A b \in AllBlocks \ terminated : b \notin Blocks /\ pre[b] = << >> /\ succ[b] = << >>
    BY <1>1 DEF EdgesInv
  <2> QED BY <1>2, <1>7, <1>8, <2>1, <2>2, <2>3, <2>4
<1> HIDE DEF entering, latches, h, ph
<1>10. /\ succ'[q] \in Seq(AllBlocks) /\ Members(succ'[q]) = (Members(succ[q]) \ {h}) \cup {ph}
       /\ succ'[ph] = <<h>> /\ <<h>> \in Seq(AllBlocks) /\ Members(<<h>>) = {h}
       /\ \A b \in AllBlocks \ {q, ph} : succ'[b] = succ[b]
  <2>1. succ[q] \in Seq(AllBlocks)
    BY <1>7
  <2>2. /\ Kept(succ[q], AllBlocks \ {h}) \in Seq(AllBlocks)
        /\ Members(Kept(succ[q], AllBlocks \ {h})) = Members(succ[q]) \cap (AllBlocks \ {h})
    BY <2>1, KeptMembers
  <2>3. Members(succ[q]) \subseteq AllBlocks
    BY <2>1 DEF Members
  <2>4. succ'[q] = Append(Kept(succ[q], AllBlocks \ {h}), ph)
    BY <1>6, <1>7
  <2>5. /\ succ'[q] \in Seq(AllBlocks)
        /\ Members(succ'[q]) = Members(Kept(succ[q], AllBlocks \ {h})) \cup {ph}
    <3>1. ASSUME NEW s \in Seq(AllBlocks)
          PROVE  Append(s, ph) \in Seq(AllBlocks) /\ Members(Append(s, ph)) = Members(s) \cup {ph}
      BY <1>2, MembersAppend
    <3> QED BY <2>2, <2>4, <3>1
  <2>6. <<h>> \in Seq(AllBlocks) /\ Members(<<h>>) = {h}
    <3>1. Members(<<h>>) = {h}
      BY DEF Members
    <3> QED BY <1>2, <3>1
  <2> QED BY <1>2, <1>6, <1>7, <2>2, <2>3, <2>5, <2>6
<1>11. /\ br'[q] \in Seq(AllBlocks) /\ Members(br'[q]) = (Members(br[q]) \ {h}) \cup {ph}
       /\ \A b \in AllBlocks \ {q} : br'[b] = br[b]
  <2>1. br[q] \in Seq(AllBlocks) /\ br'[q] = Redirected(br[q], h, ph)
    BY <1>6, <1>7
  <2>2. h \in Members(br[q]) /\ ph \in AllBlocks
    BY <1>2, <1>9
  <2>3. \A b \in AllBlocks \ {q} : br'[b] = br[b]
    BY <1>6, <1>7
  <2>4. ASSUME NEW s \in Seq(AllBlocks), h \in Members(s)
        PROVE  /\ Redirected(s, h, ph) \in Seq(AllBlocks)
               /\ Members(Redirected(s, h, ph)) = (Members(s) \ {h}) \cup {ph}
    BY <1>2, <2>4, RedirectedFacts
  <2> QED BY <2>1, <2>2, <2>3, <2>4
<1>12. /\ pre'[ph] = entering /\ pre'[h] = Kept(pre[h], latches)
       /\ \A b \in AllBlocks \ {h, ph} : pre'[b] = pre[b]
  BY <1>2, <1>6, <1>7
<1>13. h' = h /\ ph' = ph /\ loop = h /\ loop' = h /\ Ph = ph /\ Ph' = ph
  BY <1>1 DEF h, ph, loop, Ph
<1>14. TypeOK'
  <2>1. /\ succ' \in [AllBlocks -> Seq(AllBlocks)] /\ br' \in [AllBlocks -> Seq(AllBlocks)]
        /\ pre' \in [AllBlocks -> Seq(AllBlocks)]
    BY <1>4, <1>5, <1>6, <1>7, <1>10, <1>11, <1>12
  <2> QED BY <1>1, <2>1 DEF TypeOK
<1>15. EdgesInv'
  <2>1. ASSUME NEW b \in AllBlocks, b # ph PROVE Members(succ'[b]) = Members(br'[b])
    BY <1>9, <1>10, <1>11, <2>1
  <2>2. ASSUME NEW b \in AllBlocks PROVE IsInjective(pre'[b])
    BY <1>4, <1>5, <1>9, <1>12
  <2>3. ASSUME NEW b \in AllBlocks, NEW p \in AllBlocks
        PROVE  p \in Members(pre'[b]) <=> b \in Members(succ'[p]) /\ ~ (p = ph /\ b = h)
    <3>1. CASE b = ph
      <4>1. p \in Members(pre'[ph]) <=> p = q
        BY <1>4, <1>12
      <4>2. ph \in Members(succ'[p]) <=> p = q
        <5>1. CASE p = q
          BY <1>10, <5>1
        <5>2. CASE p = ph
          BY <1>7, <1>10, <5>2
        <5>3. CASE p # q /\ p # ph
          BY <1>9, <1>10, <5>3
        <5> QED BY <5>1, <5>2, <5>3
      <4> QED BY <1>7, <3>1, <4>1, <4>2
    <3>2. CASE b = h
      <4>1. p \in Members(pre'[h]) <=> p \in latches
        BY <1>5, <1>12
      <4>2. p # ph => (h \in Members(succ'[p]) <=> p \in latches)
        <5>1. CASE p = q
          BY <1>3, <1>7, <1>10, <5>1
        <5>2. CASE p # q /\ p # ph
          <6>1. p \in Members(pre[h]) <=> h \in Members(succ[p])
            BY <1>2, <1>9
          <6> QED BY <1>3, <1>10, <5>2, <6>1
        <5> QED BY <5>1, <5>2
      <4>3. ph \notin latches
        BY <1>2, <1>3
      <4> QED BY <3>2, <4>1, <4>2, <4>3
    <3>3. CASE b # h /\ b # ph
      BY <1>9, <1>10, <1>12, <3>3
    <3> QED BY <3>1, <3>2, <3>3
  <2>4. ASSUME NEW b \in AllBlocks, b \notin terminated
        PROVE  b \notin Blocks /\ (b = ph \/ (pre'[b] = << >> /\ succ'[b] = << >>))
    BY <1>2, <1>9, <1>10, <1>12, <2>4
  <2> QED BY <1>1, <1>13, <2>1, <2>2, <2>3, <2>4 DEF EdgesInv
<1>16. PendingInv'
  <2> SUFFICES ASSUME NEW i \in pos .. Len(prog.loops)
               PROVE  /\ Preheader(prog.loops[i]) \notin terminated
                      /\ pre'[prog.loops[i]] = IF i = pos THEN Kept(prog.cfg.pre[prog.loops[i]], prog.latches[prog.loops[i]])
                                                         ELSE prog.cfg.pre[prog.loops[i]]
                      /\ Members(instrs[Preheader(prog.loops[i])]) = {}
    <3>1. k = 1
      BY <1>1 DEF PhaseInv
    <3>2. Moved = {} /\ Moved' = {}
      BY <1>1, <3>1 DEF Moved
    <3> QED BY <1>1, <3>2 DEF PendingInv
  <2>1. /\ Preheader(prog.loops[i]) \notin terminated /\ pre[prog.loops[i]] = prog.cfg.pre[prog.loops[i]]
        /\ Members(instrs[Preheader(prog.loops[i])]) = {}
    BY <1>1 DEF PendingInv
  <2>2. CASE i = pos
    <3>1. prog.loops[i] = h
      BY <2>2 DEF h, loop
    <3> QED BY <1>3, <1>12, <2>1, <2>2, <3>1 DEF latches
  <2>3. CASE i # pos
    <3>1. i \in pos + 1 .. Len(prog.loops)
      BY <1>2, <2>3
    <3>2. prog.loops[i] \in AllBlocks \ {h, ph}
      BY <1>2, <3>1
    <3> QED BY <1>12, <2>1, <2>3, <3>2
  <2> QED BY <2>2, <2>3
<1>17. PhiInv'
  <2>1. ASSUME NEW b \in AllBlocks, NEW j \in Members(instrs[b]), prog.op[j] = "phi"
        PROVE  /\ IsInjective(Sources(phis[j]))
               /\ Members(Sources(phis[j])) \subseteq IF b = h THEN latches \cup {ph} ELSE Members(pre'[b])
    <3>1. /\ IsInjective(Sources(phis[j]))
          /\ Members(Sources(phis[j])) \subseteq IF b = h THEN latches \cup {ph} ELSE Members(pre[b])
      BY <1>1, <1>13, <2>1 DEF PhiInv, latches
    <3> QED BY <1>8, <1>12, <3>1
  <2>2. latches' = latches /\ prog.latches[h] = latches
    BY <1>1, <1>13 DEF latches
  <2> QED BY <1>1, <1>13, <2>1, <2>2 DEF PhiInv
<1>18. GivenInv' /\ PlaceInv' /\ HoistInv' /\ BlocksInv'
  BY <1>1 DEF GivenInv, PlaceInv, HoistInv, BlocksInv
<1>19. PhaseInv'
  BY <1>1, <1>2, <1>10, <1>13 DEF PhaseInv
<1> QED BY <1>14, <1>15, <1>16, <1>17, <1>18, <1>19
-----------------------------------------------------------------------------
(***************************************************************************)
(* The instructions move, and the preheader is closed.                     *)
(***************************************************************************)
LEMMA MoveStep == ASSUME LicmInv, MoveInstruction PROVE LicmInv'
<1> USE DEF LicmInv
<1> DEFINE j == loop_invariant[k]
<1>1. /\ pc = "move" /\ pc' = "move" /\ k <= Len(loop_invariant) /\ k' = k + 1
      /\ UNCHANGED <<prog, addr, pos, br, succ, pre, terminated, phis, blocks, preheader>>
      /\ UNCHANGED <<loop_instructions, updated_global, loop_invariant, changed>>
  BY DEF MoveInstruction, progVars, scanVars
<1>2. /\ pos <= Len(prog.loops) /\ preheader[loop] = Ph /\ Ph \in AllBlocks
      /\ pos \in 1 .. Len(prog.loops) /\ Len(prog.loops) \in Nat /\ pos \in pos .. Len(prog.loops)
      /\ \A i \in pos + 1 .. Len(prog.loops) : Preheader(prog.loops[i]) # Ph
      /\ \A i \in 1 .. Len(prog.loops) : Preheader(prog.loops[i]) \in AllBlocks
  BY <1>1, InHand, BlockSets, LoopsFacts DEF PhaseInv
<1>3. k \in Nat \ {0} /\ k \in 1 .. Len(loop_invariant) /\ loop_invariant \in Seq(Instrs)
  BY <1>1, NInstrAssumption DEF TypeOK
<1>4. j \in Instrs /\ j \in Members(loop_invariant) /\ prog.op[j] # "phi"
  BY <1>3 DEF HoistInv, Members
<1>5. k' \in 1 .. NInstr + 1
  <2>1. Len(loop_invariant) <= NInstr
    BY <1>3, NInstrAssumption, InjectiveLength DEF HoistInv, Instrs
  <2>2. Len(loop_invariant) \in Nat
    BY <1>3
  <2> QED BY <1>1, <1>3, <2>1, <2>2, NInstrAssumption
<1>6. j \notin Members(instrs[Ph])
  <2>1. Members(instrs[Ph]) = Moved
    BY <1>1, <1>2 DEF PendingInv, Ph, loop
  <2>2. ASSUME NEW l \in 1 .. k - 1 PROVE loop_invariant[l] # j
    <3>1. l \in 1 .. Len(loop_invariant) /\ l # k
      BY <1>3
    <3>2. DOMAIN loop_invariant = 1 .. Len(loop_invariant)
      BY <1>3
    <3> QED BY <1>3, <3>1, <3>2 DEF HoistInv, IsInjective
  <2> QED BY <2>1, <2>2 DEF Moved
<1>7. instrs' = [b \in AllBlocks |->
                   IF b = Ph THEN Append(instrs[b], j) ELSE Kept(instrs[b], Instrs \ {j})]
  BY <1>2 DEF MoveInstruction
<1> HIDE DEF j
<1>8. \A b \in AllBlocks : /\ instrs[b] \in Seq(Instrs) /\ Members(instrs[b]) \subseteq Instrs
                          /\ IsInjective(instrs[b])
  <2>1. \A b \in AllBlocks : instrs[b] \in Seq(Instrs)
    BY DEF TypeOK
  <2>2. \A b \in AllBlocks : IsInjective(instrs[b])
    BY DEF PlaceInv
  <2>3. \A s \in Seq(Instrs) : Members(s) \subseteq Instrs
    BY DEF Members
  <2> QED BY <2>1, <2>2, <2>3
<1>9. /\ instrs'[Ph] \in Seq(Instrs) /\ Members(instrs'[Ph]) = Members(instrs[Ph]) \cup {j}
      /\ IsInjective(instrs'[Ph])
  <2>1. ASSUME NEW s \in Seq(Instrs), IsInjective(s), j \notin Members(s)
        PROVE  /\ Append(s, j) \in Seq(Instrs) /\ Members(Append(s, j)) = Members(s) \cup {j}
               /\ IsInjective(Append(s, j))
    BY <1>4, <2>1, MembersAppend, AppendNewInjective
  <2>2. instrs'[Ph] = Append(instrs[Ph], j)
    BY <1>2, <1>7
  <2> QED BY <1>2, <1>6, <1>8, <2>1, <2>2
<1>10. ASSUME NEW b \in AllBlocks, b # Ph
       PROVE  /\ instrs'[b] \in Seq(Instrs) /\ Members(instrs'[b]) = Members(instrs[b]) \ {j}
              /\ IsInjective(instrs'[b])
  <2>1. instrs'[b] = Kept(instrs[b], Instrs \ {j})
    BY <1>7, <1>10
  <2>2. /\ instrs'[b] \in Seq(Instrs) /\ Members(instrs'[b]) = Members(instrs[b]) \cap (Instrs \ {j})
        /\ IsInjective(instrs'[b])
    BY <1>8, <2>1, KeptMembers
  <2> QED BY <1>8, <2>2
<1>11. TypeOK'
  <2>1. instrs' \in [AllBlocks -> Seq(Instrs)]
    BY <1>7, <1>9, <1>10
  <2> QED BY <1>1, <1>5, <2>1 DEF TypeOK
<1>12. PlaceInv'
  <2>1. ASSUME NEW i \in Instrs PROVE \E b \in AllBlocks : i \in Members(instrs'[b])
    <3>1. PICK b \in AllBlocks : i \in Members(instrs[b])
      BY DEF PlaceInv
    <3> QED BY <1>2, <1>9, <1>10, <3>1
  <2>2. \A b \in AllBlocks : IsInjective(instrs'[b])
    BY <1>9, <1>10
  <2>3. ASSUME NEW b \in AllBlocks, NEW c \in AllBlocks, b # c
        PROVE  Members(instrs'[b]) \cap Members(instrs'[c]) = {}
    <3>1. Members(instrs[b]) \cap Members(instrs[c]) = {}
      BY <2>3 DEF PlaceInv
    <3>2. \A x \in AllBlocks : x # Ph => Members(instrs'[x]) \subseteq Members(instrs[x]) \ {j}
      BY <1>10
    <3>3. Members(instrs'[Ph]) = Members(instrs[Ph]) \cup {j}
      BY <1>9
    <3> HIDE DEF PlaceInv
    <3> QED BY <2>3, <3>1, <3>2, <3>3
  <2> QED BY <2>1, <2>2, <2>3 DEF PlaceInv
<1>13. loop' = loop /\ Ph' = Ph
  BY <1>1 DEF loop, Ph
<1>14. PhiInv'
  <2>1. ASSUME NEW b \in AllBlocks, NEW i \in Members(instrs'[b]), prog.op[i] = "phi"
        PROVE  i \in Members(instrs[b])
    BY <1>4, <1>9, <1>10, <2>1
  <2> QED BY <1>1, <1>13, <2>1 DEF PhiInv
<1>15. PendingInv'
  <2> SUFFICES ASSUME NEW i \in pos .. Len(prog.loops)
               PROVE  Members(instrs'[Preheader(prog.loops[i])]) = IF i = pos THEN Moved' ELSE {}
    BY <1>1 DEF PendingInv
  <2>1. CASE i = pos
    <3>1. Members(instrs[Ph]) = Moved
      BY <1>1, <1>2 DEF PendingInv, Ph, loop
    <3>2. Moved' = Moved \cup {j}
      <4>0. Moved' = {loop_invariant[l] : l \in 1 .. (k + 1) - 1}
        BY <1>1 DEF Moved
      <4>1. \A l \in 1 .. (k + 1) - 1 : l \in 1 .. k - 1 \/ l = k
        BY <1>3
      <4>2. k \in 1 .. (k + 1) - 1 /\ \A l \in 1 .. k - 1 : l \in 1 .. (k + 1) - 1
        BY <1>3
      <4> QED BY <4>0, <4>1, <4>2 DEF j, Moved
    <3> QED BY <1>9, <2>1, <3>1, <3>2 DEF Ph, loop
  <2>2. CASE i # pos
    <3>1. i \in pos + 1 .. Len(prog.loops) /\ i \in 1 .. Len(prog.loops)
      BY <1>2, <2>2
    <3>2. Members(instrs[Preheader(prog.loops[i])]) = {}
      BY <1>1, <2>2 DEF PendingInv
    <3> QED BY <1>2, <1>10, <2>2, <3>1, <3>2
  <2> QED BY <2>1, <2>2
<1>16. GivenInv' /\ EdgesInv' /\ HoistInv' /\ BlocksInv'
  BY <1>1, <1>13 DEF GivenInv, EdgesInv, HoistInv, BlocksInv
<1>17. PhaseInv'
  BY <1>1, <1>13 DEF PhaseInv
<1> QED BY <1>11, <1>12, <1>14, <1>15, <1>16, <1>17

LEMMA CloseStep == ASSUME LicmInv, ClosePreheader PROVE LicmInv'
<1> USE DEF LicmInv
<1> DEFINE h == loop
           ph == Ph
           parent == prog.parent[h]
<1>1. /\ pc = "move" /\ pc' = "collect" /\ pos' = pos + 1
      /\ UNCHANGED <<prog, addr, k, instrs, phis, preheader>>
      /\ UNCHANGED <<loop_instructions, updated_global, loop_invariant, changed>>
  BY DEF ClosePreheader, progVars, scanVars
<1>2. /\ pos <= Len(prog.loops) /\ preheader[h] = ph /\ succ[ph] = <<h>>
      /\ pos \in 1 .. Len(prog.loops) /\ Len(prog.loops) \in Nat /\ pos \in pos .. Len(prog.loops)
      /\ h \in Members(prog.loops) /\ h \in Blocks
      /\ h \in AllBlocks /\ ph \in AllBlocks /\ ph \notin Blocks /\ h # ph
      /\ \A i \in pos + 1 .. Len(prog.loops) :
           /\ prog.loops[i] \in Blocks /\ prog.loops[i] \in AllBlocks
           /\ prog.loops[i] # h /\ Preheader(prog.loops[i]) # ph
  BY <1>1, InHand, BlockSets, LoopsFacts DEF PhaseInv
<1>3. /\ br' = [br EXCEPT ![ph] = <<h>>]
      /\ succ' = [succ EXCEPT ![ph] = Append(@, h)]
      /\ pre' = [pre EXCEPT ![h] = Append(@, ph)]
      /\ terminated' = terminated \cup {ph}
      /\ blocks' = IF parent = nullptr THEN blocks ELSE [blocks EXCEPT ![parent] = Append(@, ph)]
  BY <1>2 DEF ClosePreheader
<1>4. parent # nullptr => parent \in Blocks
  BY <1>2, LoopsFacts DEF BlockOrNull
<1>5. /\ succ \in [AllBlocks -> Seq(AllBlocks)] /\ br \in [AllBlocks -> Seq(AllBlocks)]
      /\ pre \in [AllBlocks -> Seq(AllBlocks)] /\ blocks \in [Blocks -> Seq(AllBlocks)]
  BY DEF TypeOK
<1>6. Members(pre[h]) = prog.latches[h] /\ ph \notin Members(pre[h]) /\ IsInjective(pre[h])
  <2>1. pre[h] = Kept(prog.cfg.pre[h], prog.latches[h])
    BY <1>1, <1>2 DEF PendingInv, loop
  <2>2. prog.cfg.pre[h] \in Seq(Blocks) /\ prog.latches[h] \subseteq Members(prog.cfg.pre[h])
    BY <1>2, CodeFacts, LoopsFacts
  <2>3. Members(pre[h]) = Members(prog.cfg.pre[h]) \cap prog.latches[h]
    BY <2>1, <2>2, KeptMembers
  <2>4. prog.latches[h] \subseteq Blocks
    BY <1>2, LoopsFacts
  <2> QED BY <1>2, <2>2, <2>3, <2>4 DEF EdgesInv
<1>7. Members(<<h>>) = {h} /\ <<h>> \in Seq(AllBlocks)
  <2>1. Members(<<h>>) = {h}
    BY DEF Members
  <2> QED BY <1>2, <2>1
<1>8. h' = loop' /\ \A b \in AllBlocks : prog.op' = prog.op
  BY <1>1
<1> HIDE DEF h, ph, parent
<1>9. ASSUME NEW s \in Seq(AllBlocks), NEW e \in AllBlocks
      PROVE  Append(s, e) \in Seq(AllBlocks) /\ Members(Append(s, e)) = Members(s) \cup {e}
  BY MembersAppend
<1>10. /\ succ'[ph] \in Seq(AllBlocks) /\ Members(succ'[ph]) = {h} /\ br'[ph] = <<h>>
       /\ \A b \in AllBlocks \ {ph} : succ'[b] = succ[b] /\ br'[b] = br[b]
  <2>1. succ'[ph] = Append(<<h>>, h) /\ br'[ph] = <<h>>
    BY <1>2, <1>3, <1>5
  <2>2. \A b \in AllBlocks \ {ph} : succ'[b] = succ[b] /\ br'[b] = br[b]
    BY <1>2, <1>3, <1>5
  <2>3. Append(<<h>>, h) \in Seq(AllBlocks) /\ Members(Append(<<h>>, h)) = {h}
    BY <1>2, <1>7, <1>9
  <2> QED BY <2>1, <2>2, <2>3
<1>11. /\ pre'[h] \in Seq(AllBlocks) /\ Members(pre'[h]) = prog.latches[h] \cup {ph}
       /\ IsInjective(pre'[h])
       /\ \A b \in AllBlocks \ {h} : pre'[b] = pre[b]
  <2>1. pre'[h] = Append(pre[h], ph) /\ pre[h] \in Seq(AllBlocks)
    BY <1>2, <1>3, <1>5
  <2>2. \A b \in AllBlocks \ {h} : pre'[b] = pre[b]
    BY <1>2, <1>3, <1>5
  <2>3. ASSUME NEW s \in Seq(AllBlocks), IsInjective(s), ph \notin Members(s)
        PROVE  IsInjective(Append(s, ph))
    BY <1>2, <2>3, AppendNewInjective
  <2> QED BY <1>2, <1>6, <1>9, <2>1, <2>2, <2>3
<1>12. TypeOK'
  <2>1. /\ succ' \in [AllBlocks -> Seq(AllBlocks)] /\ br' \in [AllBlocks -> Seq(AllBlocks)]
        /\ pre' \in [AllBlocks -> Seq(AllBlocks)]
    <3>1. \A b \in AllBlocks : /\ succ'[b] \in Seq(AllBlocks) /\ br'[b] \in Seq(AllBlocks)
                              /\ pre'[b] \in Seq(AllBlocks)
      BY <1>5, <1>7, <1>10, <1>11
    <3> QED BY <1>3, <1>5, <3>1
  <2>2. blocks' \in [Blocks -> Seq(AllBlocks)]
    <3>1. CASE parent = nullptr
      BY <1>3, <1>5, <3>1
    <3>2. CASE parent # nullptr
      <4>1. Append(blocks[parent], ph) \in Seq(AllBlocks)
        BY <1>2, <1>4, <1>5, <1>9, <3>2
      <4> QED BY <1>3, <1>4, <1>5, <3>2, <4>1
    <3> QED BY <3>1, <3>2
  <2>3. pos' \in 1 .. Len(prog.loops) + 1 /\ terminated' \in SUBSET AllBlocks
    <3>1. Len(prog.loops) \in Nat /\ pos' = pos + 1
      BY <1>1, LoopsFacts
    <3>2. pos' \in 1 .. Len(prog.loops) + 1
      BY <1>2, <3>1
    <3>3. terminated \in SUBSET AllBlocks
      BY DEF TypeOK
    <3> QED BY <1>2, <1>3, <3>2, <3>3
  <2> QED BY <1>1, <2>1, <2>2, <2>3 DEF TypeOK
<1>13. loop = h /\ Ph = ph
  BY DEF h, ph
<1>14. EdgesInv'
  <2>1. ASSUME NEW b \in AllBlocks PROVE Members(succ'[b]) = Members(br'[b]) /\ IsInjective(pre'[b])
    <3>1. b # ph => Members(succ[b]) = Members(br[b])
      BY <1>13 DEF EdgesInv
    <3>2. IsInjective(pre[b])
      BY DEF EdgesInv
    <3> QED BY <1>7, <1>10, <1>11, <3>1, <3>2
  <2>2. ASSUME NEW b \in AllBlocks, NEW p \in AllBlocks
        PROVE  p \in Members(pre'[b]) <=> b \in Members(succ'[p])
    <3>1. p \in Members(pre[b]) <=> b \in Members(succ[p]) /\ ~ (p = ph /\ b = h)
      BY <1>1, <1>13 DEF EdgesInv
    <3>2. b \in Members(succ'[p]) <=> b \in Members(succ[p])
      BY <1>2, <1>7, <1>10
    <3>3. ph \in AllBlocks /\ h \in Members(succ[ph])
      BY <1>2, <1>7
    <3>4. p \in Members(pre'[b]) <=> p \in Members(pre[b]) \/ (p = ph /\ b = h)
      BY <1>6, <1>11
    <3> QED BY <3>1, <3>2, <3>3, <3>4
  <2>3. ASSUME NEW b \in AllBlocks, b \notin terminated'
        PROVE  b \notin Blocks /\ pre'[b] = << >> /\ succ'[b] = << >>
    <3>1. b # ph /\ b \notin terminated
      BY <1>3, <2>3
    <3>2. b \notin Blocks /\ pre[b] = << >> /\ succ[b] = << >>
      BY <1>13, <3>1 DEF EdgesInv
    <3> QED BY <1>2, <1>10, <1>11, <3>1, <3>2
  <2> QED BY <1>1, <2>1, <2>2, <2>3 DEF EdgesInv
<1>15. PendingInv'
  <2> SUFFICES ASSUME NEW i \in pos + 1 .. Len(prog.loops)
               PROVE  /\ Preheader(prog.loops[i]) \notin terminated'
                      /\ pre'[prog.loops[i]] = prog.cfg.pre[prog.loops[i]]
                      /\ Members(instrs[Preheader(prog.loops[i])]) = {}
    BY <1>1 DEF PendingInv
  <2>1. i \in pos .. Len(prog.loops) /\ i # pos
    BY <1>2
  <2>2. /\ Preheader(prog.loops[i]) \notin terminated
        /\ pre[prog.loops[i]] = prog.cfg.pre[prog.loops[i]]
        /\ Members(instrs[Preheader(prog.loops[i])]) = {}
    BY <2>1 DEF PendingInv
  <2> QED BY <1>2, <1>3, <1>11, <2>2
<1>16. PhiInv'
  <2>1. ASSUME NEW b \in AllBlocks, NEW j \in Members(instrs[b]), prog.op[j] = "phi"
        PROVE  IsInjective(Sources(phis[j])) /\ Members(Sources(phis[j])) \subseteq Members(pre'[b])
    <3>1. /\ IsInjective(Sources(phis[j]))
          /\ Members(Sources(phis[j])) \subseteq IF b = h THEN prog.latches[h] \cup {ph} ELSE Members(pre[b])
      BY <1>1, <1>13, <2>1 DEF PhiInv
    <3> QED BY <1>11, <3>1
  <2> QED BY <1>1, <2>1 DEF PhiInv
<1>17. BlocksInv'
  <2> SUFFICES ASSUME NEW l \in Blocks PROVE Members(blocks'[l]) \cap Blocks = Members(prog.blocks[l])
    BY <1>1 DEF BlocksInv
  <2>1. Members(blocks[l]) \cap Blocks = Members(prog.blocks[l])
    BY DEF BlocksInv
  <2>2. blocks'[l] = blocks[l] \/ blocks'[l] = Append(blocks[l], ph)
    BY <1>3, <1>5
  <2>3. Members(Append(blocks[l], ph)) = Members(blocks[l]) \cup {ph}
    BY <1>2, <1>5, <1>9
  <2> QED BY <1>2, <2>1, <2>2, <2>3
<1>18. GivenInv' /\ PlaceInv' /\ HoistInv' /\ PhaseInv'
  BY <1>1 DEF GivenInv, PlaceInv, HoistInv, PhaseInv
<1> QED BY <1>12, <1>14, <1>15, <1>16, <1>17, <1>18
-----------------------------------------------------------------------------
LEMMA LicmInvStep == ASSUME LicmInv, [Next]_vars PROVE LicmInv'
<1>1. CASE Next
  BY <1>1, CollectStep, ExamineStep, ExamineAgainStep, CreateStep, UpdatePhisStep, RewireStep,
     MoveStep, CloseStep, EndStep DEF Next, Finished
<1>2. CASE UNCHANGED vars
  BY <1>2, EndStep
<1> QED BY <1>1, <1>2

LEMMA LicmInvAlways == Spec => []LicmInv
<1>1. Init => LicmInv
  BY InitInv
<1>2. LicmInv /\ [Next]_vars => LicmInv'
  BY LicmInvStep
<1> QED BY <1>1, <1>2, PTL DEF Spec

(* Between two loops the branches, the successors and the predecessors of  *)
(* the blocks are the same edges, and the phis name predecessors: for      *)
(* every function, every loops and whatever is moved (LICM.cpp:166-283).   *)
THEOREM GraphStaysConsistent == Spec => []GraphConsistent
<1>1. LicmInv => GraphConsistent
  <2> SUFFICES ASSUME LicmInv PROVE GraphConsistent
    OBVIOUS
  <2> USE DEF LicmInv
  <2>1. ASSUME Idle, NEW b \in AllBlocks
        PROVE  /\ Members(succ[b]) = Members(br[b])
               /\ IsInjective(pre[b])
               /\ Members(pre[b]) = {p \in AllBlocks : b \in Members(succ[p])}
               /\ b \notin terminated => pre[b] = << >> /\ succ[b] = << >>
    <3>1. pc # "move"
      BY <2>1 DEF Idle
    <3>2. /\ Members(succ[b]) = Members(br[b]) /\ IsInjective(pre[b])
          /\ \A p \in AllBlocks : p \in Members(pre[b]) <=> b \in Members(succ[p])
          /\ b \notin terminated => pre[b] = << >> /\ succ[b] = << >>
      BY <3>1 DEF EdgesInv
    <3>3. pre[b] \in Seq(AllBlocks)
      BY DEF TypeOK
    <3>4. Members(pre[b]) \subseteq AllBlocks
      BY <3>3 DEF Members
    <3> QED BY <3>2, <3>4
  <2>2. ASSUME Idle PROVE PhisOf(instrs, pre, phis, prog)
    <3>1. DOMAIN instrs = AllBlocks /\ pc \notin {"rewire", "move"}
      BY <2>2 DEF TypeOK, Idle
    <3> QED BY <3>1 DEF PhisOf, PhiInv
  <2>3. TypeOK /\ \A j \in Instrs : Len(phis[j]) = Len(prog.phis[j])
    BY DEF PhiInv
  <2> QED BY <2>1, <2>2, <2>3 DEF GraphConsistent
<1> QED BY <1>1, LicmInvAlways, PTL
-----------------------------------------------------------------------------
(***************************************************************************)
(* How loops nest: the loops around one are a chain.                       *)
(***************************************************************************)
LoopSet == Members(prog.loops)

LEMMA ParentFacts ==
  ASSUME GivenInv, NEW c \in LoopSet
  PROVE  /\ c \in Blocks /\ \E i \in 1 .. Len(prog.loops) : prog.loops[i] = c
         /\ \A i \in 1 .. Len(prog.loops) : prog.loops[i] = c /\ prog.parent[c] # nullptr =>
              \E l \in i + 1 .. Len(prog.loops) : prog.loops[l] = prog.parent[c]
         /\ prog.parent[c] # nullptr => prog.parent[c] \in LoopSet
<1>1. HasLoops(prog)
  BY ProgramsAssumption DEF GivenInv
<1>2. c \in Blocks
  BY LoopsFacts DEF LoopSet
<1>3. PICK i \in 1 .. Len(prog.loops) : prog.loops[i] = c
  BY DEF LoopSet, Members
<1>4. \A l \in 1 .. Len(prog.loops) : prog.loops[l] = c /\ prog.parent[c] # nullptr =>
              \E m \in l + 1 .. Len(prog.loops) : prog.loops[m] = prog.parent[c]
  BY <1>1 DEF HasLoops
<1>5. ASSUME prog.parent[c] # nullptr PROVE prog.parent[c] \in LoopSet
  <2>1. PICK m \in i + 1 .. Len(prog.loops) : prog.loops[m] = prog.parent[c]
    BY <1>3, <1>4, <1>5
  <2>2. m \in 1 .. Len(prog.loops)
    BY LoopsFacts
  <2> QED BY <2>1, <2>2, LoopsFacts DEF LoopSet
<1> QED BY <1>2, <1>3, <1>4, <1>5

LEMMA EnclosesSelf == ASSUME NEW h \in LoopSet PROVE Encloses(h, h)
BY DEF Encloses, Around

(* A loop around c other than c is around c's parent.                      *)
LEMMA EnclosesParent ==
  ASSUME GivenInv, NEW h \in LoopSet, NEW c \in LoopSet, Encloses(h, c), h # c
  PROVE  prog.parent[c] # nullptr /\ prog.parent[c] \in LoopSet /\ Encloses(h, prog.parent[c])
<1> DEFINE ClosedUp(S) == \A x \in S : prog.parent[x] # nullptr => prog.parent[x] \in S
<1>1. \A S \in SUBSET LoopSet : c \in S /\ ClosedUp(S) => h \in S
  BY DEF Encloses, Around, LoopSet
<1>2. prog.parent[c] # nullptr
  <2> SUFFICES ASSUME prog.parent[c] = nullptr PROVE FALSE
    OBVIOUS
  <2>1. ClosedUp({c}) /\ {c} \in SUBSET LoopSet
    OBVIOUS
  <2> QED BY <1>1, <2>1
<1>3. prog.parent[c] \in LoopSet
  BY <1>2, ParentFacts
<1>4. ASSUME NEW S \in SUBSET LoopSet, prog.parent[c] \in S, ClosedUp(S) PROVE h \in S
  <2>1. ClosedUp(S \cup {c}) /\ S \cup {c} \in SUBSET LoopSet
    BY <1>4
  <2> HIDE DEF ClosedUp
  <2> QED BY <1>1, <2>1
<1>5. Encloses(h, prog.parent[c])
  BY <1>4 DEF Encloses, Around, LoopSet
<1> QED BY <1>2, <1>3, <1>5

(* An enclosing loop is listed later.                                      *)
LEMMA EnclosesLater ==
  ASSUME GivenInv, NEW i \in 1 .. Len(prog.loops), NEW l \in 1 .. Len(prog.loops),
         Encloses(prog.loops[l], prog.loops[i])
  PROVE  i <= l
<1> DEFINE S == {prog.loops[m] : m \in i .. Len(prog.loops)}
<1>1. Len(prog.loops) \in Nat /\ DOMAIN prog.loops = 1 .. Len(prog.loops) /\ IsInjective(prog.loops)
  BY LoopsFacts
<1>2. S \in SUBSET LoopSet /\ prog.loops[i] \in S
  BY <1>1 DEF LoopSet, Members
<1>3. ASSUME NEW x \in S, prog.parent[x] # nullptr PROVE prog.parent[x] \in S
  <2>1. PICK m \in i .. Len(prog.loops) : x = prog.loops[m]
    OBVIOUS
  <2>2. m \in 1 .. Len(prog.loops) /\ x \in LoopSet
    BY <1>1, <1>2
  <2>3. PICK n \in m + 1 .. Len(prog.loops) : prog.loops[n] = prog.parent[x]
    BY <1>3, <2>1, <2>2, ParentFacts
  <2>4. n \in i .. Len(prog.loops)
    BY <1>1, <2>2
  <2> QED BY <2>3, <2>4
<1>4. prog.loops[l] \in S
  <2> HIDE DEF S
  <2> QED BY <1>2, <1>3 DEF Encloses, Around, LoopSet
<1>5. PICK m \in i .. Len(prog.loops) : prog.loops[l] = prog.loops[m]
  BY <1>4
<1>6. m \in 1 .. Len(prog.loops)
  BY <1>1
<1>7. l = m
  BY <1>1, <1>5, <1>6 DEF IsInjective
<1> QED BY <1>1, <1>7

LEMMA EnclosesBoth ==
  ASSUME GivenInv, NEW h \in LoopSet, NEW l \in LoopSet, Encloses(h, l), Encloses(l, h)
  PROVE  h = l
<1>1. PICK i \in 1 .. Len(prog.loops) : prog.loops[i] = h
  BY ParentFacts
<1>2. PICK m \in 1 .. Len(prog.loops) : prog.loops[m] = l
  BY ParentFacts
<1>3. i <= m /\ m <= i
  BY <1>1, <1>2, EnclosesLater
<1>4. Len(prog.loops) \in Nat
  BY LoopsFacts
<1>5. i = m
  BY <1>3, <1>4
<1> QED BY <1>1, <1>2, <1>5

(* Of two loops around m, one is around the other.                         *)
LEMMA EnclosesChain ==
  ASSUME GivenInv, NEW h \in LoopSet, NEW c \in LoopSet, NEW m \in LoopSet,
         Encloses(h, m), Encloses(c, m)
  PROVE  Encloses(h, c) \/ Encloses(c, h)
<1> DEFINE n == Len(prog.loops)
           Both(i) == Encloses(h, prog.loops[i]) /\ Encloses(c, prog.loops[i])
           T == {d \in Nat : \E i \in 1 .. n : d = n - i /\ Both(i)}
<1>1. n \in Nat
  BY LoopsFacts
<1>2. PICK i0 \in 1 .. n : prog.loops[i0] = m
  BY ParentFacts
<1>3. n - i0 \in T
  BY <1>1, <1>2
<1>4. PICK d \in T : \A e \in T : d <= e
  <2>1. T \in SUBSET Nat /\ T # {}
    BY <1>3
  <2> HIDE DEF T
  <2> QED BY <2>1, LeastNat
<1>5. PICK i \in 1 .. n : d = n - i /\ Both(i)
  OBVIOUS
<1>6. prog.loops[i] \in LoopSet
  BY LoopsFacts DEF LoopSet
<1>7. CASE h = prog.loops[i] \/ c = prog.loops[i]
  BY <1>5, <1>7
<1>8. CASE h # prog.loops[i] /\ c # prog.loops[i]
  <2>1. /\ prog.parent[prog.loops[i]] # nullptr
        /\ Encloses(h, prog.parent[prog.loops[i]]) /\ Encloses(c, prog.parent[prog.loops[i]])
    BY <1>5, <1>6, <1>8, EnclosesParent
  <2>2. PICK l \in i + 1 .. n : prog.loops[l] = prog.parent[prog.loops[i]]
    BY <1>6, <2>1, ParentFacts
  <2>3. Both(l)
    BY <2>1, <2>2
  <2>4. l \in 1 .. n /\ n - l \in Nat /\ n - l < n - i
    BY <1>1
  <2> HIDE DEF Both
  <2>5. n - l \in T
    BY <2>3, <2>4
  <2> HIDE DEF T
  <2>6. d <= n - l
    BY <1>4, <2>5
  <2> QED BY <1>1, <1>5, <2>4, <2>6
<1> QED BY <1>7, <1>8
-----------------------------------------------------------------------------
(***************************************************************************)
(* Loads and the stores of the loops they leave.                           *)
(***************************************************************************)
IsLoad(j) == prog.op[j] = "load"

(* The own blocks of h do not store through j's pointer.                   *)
Unstored(h, j) ==
  \A l \in Instrs : prog.op[l] = "store" /\ prog.args[l][2] = prog.args[j][1] =>
    OldHome(l) \notin Members(prog.blocks[h])

(* j may be in the preheader of x: it leaves no loop that stores.          *)
MayLeave(x, j) ==
  /\ OldHome(j) \in Region(x)
  /\ \A h \in LoopSet : Encloses(x, h) /\ OldHome(j) \in Region(h) => Unstored(h, j)

(* Nothing comes into a block of the given function, stores stay, and a    *)
(* loop gains the preheaders of its sub-loops only.                        *)
StayInv ==
  /\ \A b \in Blocks : Members(instrs[b]) \subseteq Members(prog.instrs[b])
  /\ \A b \in Blocks : \A j \in Members(prog.instrs[b]) :
       prog.op[j] = "store" => j \in Members(instrs[b])
  /\ \A h \in Blocks : \A b \in Members(blocks[h]) :
       b \in Blocks \/ \E c \in LoopSet : prog.parent[c] = h /\ b = Preheader(c)

LeftInv == \A x \in LoopSet : \A j \in Members(instrs[Preheader(x)]) : IsLoad(j) => MayLeave(x, j)

(* What is known of the loop in hand once its instructions are collected.  *)
CollectedInv ==
  pc \notin {"collect", "done"} =>
    /\ \A j \in loop_instructions : IsLoad(j) =>
         \/ OldHome(j) \in Members(prog.blocks[loop])
         \/ \E c \in LoopSet : prog.parent[c] = loop /\ MayLeave(c, j)
    /\ \A l \in Instrs : prog.op[l] = "store" /\ OldHome(l) \in Members(prog.blocks[loop]) =>
         prog.args[l][2] \in updated_global
    /\ \A j \in Members(loop_invariant) : IsLoad(j) => prog.args[j][1] \notin updated_global

LoadInv == LicmInv /\ StayInv /\ LeftInv /\ CollectedInv

(* Homes are unique, in the given function and now.                        *)
LEMMA OldHomeIs ==
  ASSUME GivenInv, NEW j \in Instrs
  PROVE  /\ OldHome(j) \in Blocks /\ j \in Members(prog.instrs[OldHome(j)])
         /\ \A b \in Blocks : j \in Members(prog.instrs[b]) => OldHome(j) = b
<1> DEFINE In(b) == j \in Members(Padded(prog.instrs)[b])
<1>0. /\ \A b \in Blocks : Padded(prog.instrs)[b] = prog.instrs[b]
      /\ \A b \in AllBlocks \ Blocks : Padded(prog.instrs)[b] = << >>
  <2>1. prog.instrs \in [Blocks -> Seq(Instrs)]
    BY CodeFacts
  <2> QED BY <2>1, PaddedFacts
<1>1. \A b \in Blocks : In(b) <=> j \in Members(prog.instrs[b])
  BY <1>0
<1>2. \A b \in AllBlocks \ Blocks : ~ In(b)
  BY <1>0, NothingInEmpty
<1>3. \E b \in Blocks : j \in Members(prog.instrs[b])
  BY CodeFacts
<1>4. \A b, c \in Blocks : j \in Members(prog.instrs[b]) /\ j \in Members(prog.instrs[c]) => b = c
  BY CodeFacts
<1>5. OldHome(j) = CHOOSE b \in AllBlocks : In(b)
  BY DEF OldHome, Home
<1> HIDE DEF In
<1>6. \E b \in AllBlocks : In(b)
  BY <1>1, <1>3, BlockSets
<1>7. OldHome(j) \in AllBlocks /\ In(OldHome(j))
  BY <1>5, <1>6
<1> QED BY <1>1, <1>2, <1>4, <1>7

LEMMA HomeIs ==
  ASSUME TypeOK, PlaceInv, NEW j \in Instrs
  PROVE  Home(instrs, j) \in AllBlocks /\ j \in Members(instrs[Home(instrs, j)])
<1>1. \E b \in AllBlocks : j \in Members(instrs[b])
  BY DEF PlaceInv
<1> QED BY <1>1 DEF Home

(* The loop that lists a block of h's region is in h.                      *)
LEMMA RegionOwner ==
  ASSUME GivenInv, NEW h \in LoopSet, NEW b \in Region(h)
  PROVE  \E m \in LoopSet : Encloses(h, m) /\ b \in Members(prog.blocks[m])
BY DEF Region, Inside, Encloses, LoopSet

LEMMA OneOwner ==
  ASSUME GivenInv, NEW m \in LoopSet, NEW n \in LoopSet, NEW b,
         b \in Members(prog.blocks[m]), b \in Members(prog.blocks[n])
  PROVE  m = n
<1>1. HasLoops(prog)
  BY ProgramsAssumption DEF GivenInv
<1> QED BY <1>1 DEF HasLoops, LoopSet

(* What may leave the loop in hand: it is one of its own instructions, or  *)
(* comes from the preheader of a sub-loop, and nothing here stores to it.  *)
LEMMA MayLeaveNext ==
  ASSUME GivenInv, NEW x \in LoopSet, NEW j \in Instrs, Unstored(x, j),
         \/ OldHome(j) \in Members(prog.blocks[x])
         \/ \E c \in LoopSet : prog.parent[c] = x /\ MayLeave(c, j)
  PROVE  MayLeave(x, j)
<1>1. CASE OldHome(j) \in Members(prog.blocks[x])
  <2>1. OldHome(j) \in Region(x)
    BY <1>1, EnclosesSelf DEF Region, Inside, Encloses, LoopSet
  <2>2. ASSUME NEW h \in LoopSet, Encloses(x, h), OldHome(j) \in Region(h) PROVE Unstored(h, j)
    <3>1. PICK m \in LoopSet : Encloses(h, m) /\ OldHome(j) \in Members(prog.blocks[m])
      BY <2>2, RegionOwner
    <3>2. m = x
      BY <1>1, <3>1, OneOwner
    <3>3. h = x
      BY <2>2, <3>1, <3>2, EnclosesBoth
    <3> QED BY <3>3
  <2> QED BY <2>1, <2>2 DEF MayLeave
<1>2. CASE \E c \in LoopSet : prog.parent[c] = x /\ MayLeave(c, j)
  <2>1. PICK c \in LoopSet : prog.parent[c] = x /\ MayLeave(c, j)
    BY <1>2
  <2>2. x # nullptr /\ nullptr \notin LoopSet
    BY BlockSets, LoopsFacts DEF LoopSet
  <2>3. PICK m \in LoopSet : Encloses(c, m) /\ OldHome(j) \in Members(prog.blocks[m])
    BY <2>1, RegionOwner DEF MayLeave
  <2>4. Encloses(x, m)
    <3> SUFFICES ASSUME NEW S \in SUBSET LoopSet, m \in S,
                        \A y \in S : prog.parent[y] # nullptr => prog.parent[y] \in S
                 PROVE  x \in S
      BY DEF Encloses, Around, LoopSet
    <3>1. c \in S
      BY <2>3 DEF Encloses, Around, LoopSet
    <3> QED BY <2>1, <2>2, <3>1
  <2>5. OldHome(j) \in Region(x)
    BY <2>3, <2>4 DEF Region, Inside, Encloses, LoopSet
  <2>6. ASSUME NEW h \in LoopSet, Encloses(x, h), OldHome(j) \in Region(h) PROVE Unstored(h, j)
    <3>1. PICK n \in LoopSet : Encloses(h, n) /\ OldHome(j) \in Members(prog.blocks[n])
      BY <2>6, RegionOwner
    <3>2. n = m
      BY <2>3, <3>1, OneOwner
    <3>3. CASE Encloses(c, h)
      BY <2>1, <2>6, <3>3 DEF MayLeave
    <3>4. CASE Encloses(h, c) /\ h # c
      <4>1. Encloses(h, x)
        BY <2>1, <3>4, EnclosesParent
      <4>2. h = x
        BY <2>6, <4>1, EnclosesBoth
      <4> QED BY <4>2
    <3>5. Encloses(h, c) \/ Encloses(c, h)
      BY <2>3, <3>1, <3>2, EnclosesChain
    <3> QED BY <3>3, <3>4, <3>5, EnclosesSelf
  <2> QED BY <2>5, <2>6 DEF MayLeave
<1> QED BY <1>1, <1>2

(* These speak of the given function only.                                 *)
LEMMA GivenSame ==
  ASSUME UNCHANGED prog
  PROVE  /\ LoopSet' = LoopSet
         /\ \A j : OldHome(j)' = OldHome(j) /\ (IsLoad(j)' <=> IsLoad(j))
         /\ \A h, j : (Unstored(h, j)' <=> Unstored(h, j)) /\ (MayLeave(h, j)' <=> MayLeave(h, j))
<1>1. LoopSet' = LoopSet
  BY DEF LoopSet
<1>2. \A j : OldHome(j)' = OldHome(j)
  BY DEF OldHome, Home, Padded
<1>3. \A j : IsLoad(j)' <=> IsLoad(j)
  BY DEF IsLoad
<1>4. \A h, l : Encloses(h, l)' <=> Encloses(h, l)
  BY DEF Encloses, Around
<1>5. \A h : Region(h)' = Region(h)
  BY DEF Region, Inside, Around
<1>6. \A h, j : Unstored(h, j)' <=> Unstored(h, j)
  BY <1>2 DEF Unstored
<1>7. \A h, j : MayLeave(h, j)' <=> MayLeave(h, j)
  BY <1>1, <1>2, <1>4, <1>5, <1>6 DEF MayLeave
<1> QED BY <1>1, <1>2, <1>3, <1>6, <1>7

LEMMA LoadInvInit == ASSUME Init PROVE LoadInv
<1>1. LicmInv /\ GivenInv
  BY InitInv DEF LicmInv
<1>2. prog.instrs \in [Blocks -> Seq(Instrs)] /\ instrs = Padded(prog.instrs)
  BY <1>1, CodeFacts DEF Init
<1>3. /\ \A b \in Blocks : instrs[b] = prog.instrs[b]
      /\ \A b \in AllBlocks \ Blocks : instrs[b] = << >>
  BY <1>2, PaddedFacts
<1>4. StayInv
  <2>1. ASSUME NEW h \in Blocks PROVE Members(blocks[h]) \subseteq Blocks
    <3>1. blocks[h] \in Seq(Blocks)
      BY <1>1, LoopsFacts DEF Init
    <3> QED BY <3>1 DEF Members
  <2> QED BY <1>3, <2>1 DEF StayInv
<1>5. LeftInv
  <2> SUFFICES ASSUME NEW x \in LoopSet PROVE Members(instrs[Preheader(x)]) = {}
    BY DEF LeftInv
  <2>1. Preheader(x) \in AllBlocks \ Blocks
    BY <1>1, LoopsFacts, BlockSets DEF LoopSet
  <2> QED BY <1>3, <2>1, NothingInEmpty
<1>6. CollectedInv
  BY DEF CollectedInv, Init
<1> QED BY <1>1, <1>4, <1>5, <1>6 DEF LoadInv

LEMMA LoadInvCollect == ASSUME LoadInv, CollectLoopInfo PROVE LoadInv'
<1> USE DEF LoadInv
<1>1. LicmInv' /\ UNCHANGED <<prog, pos, instrs, blocks>> /\ pos <= Len(prog.loops)
  BY CollectStep DEF CollectLoopInfo, progVars, graphVars
<1>2. GivenInv /\ TypeOK /\ BlocksInv
  BY DEF LicmInv
<1>3. loop \in LoopSet /\ loop \in Blocks /\ loop' = loop
  BY <1>1, <1>2, InHand DEF LoopSet, loop
<1>4. /\ \A j : j \in loop_instructions' <=> \E b \in Members(blocks[loop]) : j \in Members(instrs[b])
      /\ \A l \in loop_instructions' : prog.op[l] = "store" => prog.args[l][2] \in updated_global'
      /\ loop_invariant' = << >>
  BY DEF CollectLoopInfo
<1>5. Members(prog.blocks[loop]) = Members(blocks[loop]) \cap Blocks
  BY <1>2, <1>3 DEF BlocksInv
<1>6. ASSUME NEW b \in Blocks PROVE Members(prog.instrs[b]) \subseteq Instrs
  <2>1. prog.instrs[b] \in Seq(Instrs)
    BY <1>2, CodeFacts
  <2> QED BY <2>1 DEF Members
<1>7. ASSUME NEW j \in loop_instructions', IsLoad(j)
      PROVE  \/ OldHome(j) \in Members(prog.blocks[loop])
             \/ \E c \in LoopSet : prog.parent[c] = loop /\ MayLeave(c, j)
  <2>1. PICK b \in Members(blocks[loop]) : j \in Members(instrs[b])
    BY <1>4, <1>7
  <2>2. CASE b \in Blocks
    <3>1. j \in Members(prog.instrs[b]) /\ j \in Instrs
      BY <1>6, <2>1, <2>2 DEF StayInv
    <3>2. OldHome(j) = b
      BY <1>2, <2>2, <3>1, OldHomeIs
    <3> QED BY <1>5, <2>2, <3>2
  <2>3. CASE b \notin Blocks
    <3>1. PICK c \in LoopSet : prog.parent[c] = loop /\ b = Preheader(c)
      BY <1>3, <2>3 DEF StayInv
    <3>2. MayLeave(c, j)
      BY <1>7, <2>1, <3>1 DEF LeftInv
    <3> QED BY <3>1, <3>2
  <2> QED BY <2>2, <2>3
<1>8. ASSUME NEW l \in Instrs, prog.op[l] = "store", OldHome(l) \in Members(prog.blocks[loop])
      PROVE  prog.args[l][2] \in updated_global'
  <2>1. OldHome(l) \in Blocks /\ l \in Members(prog.instrs[OldHome(l)])
    BY <1>2, OldHomeIs
  <2>2. l \in Members(instrs[OldHome(l)])
    BY <1>8, <2>1 DEF StayInv
  <2>3. OldHome(l) \in Members(blocks[loop])
    BY <1>5, <1>8
  <2>4. l \in loop_instructions'
    BY <1>4, <2>2, <2>3
  <2> QED BY <1>4, <1>8, <2>4
<1>9. CollectedInv'
  BY <1>1, <1>3, <1>4, <1>7, <1>8, GivenSame, NothingInEmpty DEF CollectedInv
<1>10. StayInv' /\ LeftInv'
  BY <1>1, GivenSame DEF StayInv, LeftInv
<1> QED BY <1>1, <1>9, <1>10

LEMMA LoadInvExamine == ASSUME LoadInv, Examine PROVE LoadInv'
<1> USE DEF LoadInv
<1>1. /\ LicmInv' /\ UNCHANGED <<prog, pos, instrs, blocks, loop_instructions, updated_global>>
      /\ pc = "examine" /\ pc' = "examine"
  BY ExamineStep DEF Examine, progVars, graphVars
<1>2. StayInv' /\ LeftInv' /\ loop' = loop
  BY <1>1, GivenSame DEF StayInv, LeftInv, loop
<1>3. ASSUME NEW j \in Members(loop_invariant'), IsLoad(j) PROVE prog.args[j][1] \notin updated_global
  <2>1. CASE loop_invariant' = loop_invariant
    BY <1>1, <1>3, <2>1 DEF CollectedInv
  <2>2. CASE IsInvariant(addr[k]) /\ loop_invariant' = Append(loop_invariant, addr[k])
    <3>1. loop_invariant \in Seq(Instrs) /\ addr[k] \in Instrs
      BY NInstrAssumption DEF Examine, LicmInv, TypeOK, GivenInv, Instrs
    <3>2. Members(loop_invariant') = Members(loop_invariant) \cup {addr[k]}
      BY <2>2, <3>1, MembersAppend
    <3>3. j \in Members(loop_invariant) => prog.args[j][1] \notin updated_global
      BY <1>1, <1>3 DEF CollectedInv
    <3>4. j = addr[k] => prog.args[j][1] \notin updated_global
      BY <1>3, <2>2 DEF IsInvariant, IsLoad
    <3> QED BY <1>3, <3>2, <3>3, <3>4
  <2> QED BY <2>1, <2>2 DEF Examine
<1>4. CollectedInv'
  BY <1>1, <1>2, <1>3, GivenSame DEF CollectedInv
<1> QED BY <1>1, <1>2, <1>4

LEMMA LoadInvLook ==
  ASSUME LoadInv, LicmInv', UNCHANGED <<prog, instrs, blocks>>,
         \/ pc' \in {"collect", "done"}
         \/ /\ UNCHANGED <<pos, loop_instructions, updated_global, loop_invariant>>
            /\ pc \in {"collect", "done"} => pc' \in {"collect", "done"}
  PROVE  LoadInv'
<1> USE DEF LoadInv
<1>1. StayInv' /\ LeftInv'
  BY GivenSame DEF StayInv, LeftInv
<1>2. CollectedInv'
  BY GivenSame DEF CollectedInv, loop
<1> QED BY <1>1, <1>2

LEMMA LoadInvMove == ASSUME LoadInv, MoveInstruction PROVE LoadInv'
<1> USE DEF LoadInv
<1> DEFINE j == loop_invariant[k]
<1>1. /\ LicmInv' /\ UNCHANGED <<prog, pos, blocks, loop_instructions, updated_global, loop_invariant>>
      /\ pc = "move" /\ pc' = "move" /\ k <= Len(loop_invariant)
  BY MoveStep DEF MoveInstruction, progVars, scanVars
<1>2. GivenInv /\ TypeOK /\ HoistInv /\ pos <= Len(prog.loops) /\ preheader[loop] = Ph
  BY <1>1 DEF LicmInv, PhaseInv
<1>3. loop \in LoopSet /\ loop \in Blocks /\ Ph \in AllBlocks /\ Ph \notin Blocks /\ loop' = loop
  BY <1>1, <1>2, InHand DEF LoopSet, loop
<1>4. loop_invariant \in Seq(Instrs) /\ k \in 1 .. Len(loop_invariant)
  BY <1>1, <1>2, NInstrAssumption DEF TypeOK
<1>5. j \in Instrs /\ j \in Members(loop_invariant) /\ j \in loop_instructions /\ prog.op[j] # "store"
  <2>1. j \in Instrs /\ j \in Members(loop_invariant)
    BY <1>4 DEF Members
  <2> QED BY <1>2, <2>1 DEF HoistInv
<1>6. instrs' = [b \in AllBlocks |->
                   IF b = Ph THEN Append(instrs[b], j) ELSE Kept(instrs[b], Instrs \ {j})]
  BY <1>2 DEF MoveInstruction
<1>7. IsLoad(j) => MayLeave(loop, j)
  <2> SUFFICES ASSUME IsLoad(j) PROVE MayLeave(loop, j)
    OBVIOUS
  <2>1. prog.args[j][1] \notin updated_global
    BY <1>1, <1>5 DEF CollectedInv
  <2>2. Unstored(loop, j)
    BY <1>1, <2>1 DEF CollectedInv, Unstored
  <2>3. \/ OldHome(j) \in Members(prog.blocks[loop])
        \/ \E c \in LoopSet : prog.parent[c] = loop /\ MayLeave(c, j)
    BY <1>1, <1>5 DEF CollectedInv
  <2> QED BY <1>2, <1>3, <1>5, <2>2, <2>3, MayLeaveNext
<1> HIDE DEF j
<1>8. ASSUME NEW b \in AllBlocks
      PROVE  /\ b # Ph => Members(instrs'[b]) = Members(instrs[b]) \ {j}
             /\ b = Ph => Members(instrs'[b]) = Members(instrs[b]) \cup {j}
  <2>1. instrs[b] \in Seq(Instrs)
    BY <1>2 DEF TypeOK
  <2>2. Members(Append(instrs[b], j)) = Members(instrs[b]) \cup {j}
    BY <1>5, <2>1, MembersAppend
  <2>3. Members(Kept(instrs[b], Instrs \ {j})) = Members(instrs[b]) \cap (Instrs \ {j})
    BY <2>1, KeptMembers
  <2>4. Members(instrs[b]) \subseteq Instrs
    BY <2>1 DEF Members
  <2> QED BY <1>6, <2>2, <2>3, <2>4
<1>9. StayInv'
  <2>1. \A b \in Blocks : Members(instrs'[b]) = Members(instrs[b]) \ {j}
    BY <1>3, <1>8, BlockSets
  <2>2. \A b \in Blocks : \A l \in Members(prog.instrs[b]) : prog.op[l] = "store" => l \in Members(instrs'[b])
    BY <1>5, <2>1 DEF StayInv
  <2> QED BY <1>1, <2>1, <2>2, GivenSame DEF StayInv
<1>10. LeftInv'
  <2> SUFFICES ASSUME NEW x \in LoopSet, NEW l \in Members(instrs'[Preheader(x)]), IsLoad(l)
               PROVE  MayLeave(x, l)
    BY <1>1, GivenSame DEF LeftInv
  <2>1. x \in Blocks /\ Preheader(x) \in AllBlocks
    BY <1>2, LoopsFacts, BlockSets DEF LoopSet
  <2>2. CASE l \in Members(instrs[Preheader(x)])
    BY <2>2 DEF LeftInv
  <2>3. CASE l \notin Members(instrs[Preheader(x)])
    <3>1. Preheader(x) = Ph /\ l = j
      BY <1>8, <2>1, <2>3
    <3>2. x = loop
      BY <1>3, <2>1, <3>1, BlockSets DEF Ph
    <3> QED BY <1>7, <3>1, <3>2
  <2> QED BY <2>2, <2>3
<1>11. CollectedInv'
  BY <1>1, <1>3, GivenSame DEF CollectedInv
<1> QED BY <1>1, <1>9, <1>10, <1>11

LEMMA LoadInvClose == ASSUME LoadInv, ClosePreheader PROVE LoadInv'
<1> USE DEF LoadInv
<1>1. /\ LicmInv' /\ UNCHANGED <<prog, instrs>> /\ pc = "move" /\ pc' = "collect"
  BY CloseStep DEF ClosePreheader, progVars
<1>2. GivenInv /\ TypeOK /\ pos <= Len(prog.loops) /\ preheader[loop] = Ph
  BY <1>1 DEF LicmInv, PhaseInv
<1>3. loop \in LoopSet /\ loop \in Blocks /\ Ph \in AllBlocks
  BY <1>2, InHand DEF LoopSet
<1>4. blocks' = IF prog.parent[loop] = nullptr THEN blocks
                ELSE [blocks EXCEPT ![prog.parent[loop]] = Append(@, Ph)]
  BY <1>2 DEF ClosePreheader
<1>5. ASSUME NEW h \in Blocks, NEW b \in Members(blocks'[h])
      PROVE  b \in Blocks \/ \E c \in LoopSet : prog.parent[c] = h /\ b = Preheader(c)
  <2>1. blocks \in [Blocks -> Seq(AllBlocks)]
    BY <1>2 DEF TypeOK
  <2>2. blocks'[h] = blocks[h] \/ (prog.parent[loop] = h /\ blocks'[h] = Append(blocks[h], Ph))
    BY <1>4, <2>1
  <2>3. Members(Append(blocks[h], Ph)) = Members(blocks[h]) \cup {Ph}
    BY <1>3, <2>1, MembersAppend
  <2>4. b \in Members(blocks[h]) \/ (b = Ph /\ prog.parent[loop] = h)
    BY <1>5, <2>2, <2>3
  <2> QED BY <1>3, <2>4 DEF StayInv, Ph
<1>6. StayInv'
  BY <1>1, <1>5, GivenSame DEF StayInv
<1>7. LeftInv' /\ CollectedInv'
  BY <1>1, GivenSame DEF LeftInv, CollectedInv
<1> QED BY <1>1, <1>6, <1>7

LEMMA LoadInvStep == ASSUME LoadInv, [Next]_vars PROVE LoadInv'
<1>1. LicmInv'
  BY LicmInvStep DEF LoadInv
<1>2. CASE ExamineAgain \/ CreatePreheader \/ Finish
  BY <1>1, <1>2, LoadInvLook DEF ExamineAgain, CreatePreheader, Finish, progVars, graphVars, scanVars
<1>3. CASE UpdatePhis \/ RewirePreds
  BY <1>1, <1>3, LoadInvLook DEF UpdatePhis, RewirePreds, progVars, scanVars
<1>4. CASE UNCHANGED vars
  BY <1>1, <1>4, LoadInvLook DEF vars, progVars, graphVars, scanVars
<1> QED BY <1>2, <1>3, <1>4, LoadInvCollect, LoadInvExamine, LoadInvMove, LoadInvClose
        DEF Next, Finished

(* A load never leaves a loop whose own blocks store through its pointer,  *)
(* nor a loop in it whose blocks do (LICM.cpp:57-66, 122-132).             *)
THEOREM LoadsStay == Spec => []LoadsStayWithStores
<1>1. Init => LoadInv
  BY LoadInvInit
<1>2. LoadInv /\ [Next]_vars => LoadInv'
  BY LoadInvStep
<1>3. LoadInv => LoadsStayWithStores
  <2> SUFFICES ASSUME LoadInv, NEW h \in LoopSet, NEW j \in Instrs, NEW l \in Instrs,
                      prog.op[j] = "load", prog.op[l] = "store",
                      prog.args[l][2] = prog.args[j][1],
                      OldHome(l) \in Members(prog.blocks[h]), MovedOut(j, h)
               PROVE  FALSE
    BY DEF LoadsStayWithStores, LoopSet
  <2>1. GivenInv /\ TypeOK /\ PlaceInv
    BY DEF LoadInv, LicmInv
  <2>2. PICK x \in LoopSet : Encloses(x, h) /\ Home(instrs, j) = Preheader(x)
    BY EnclosesSelf DEF MovedOut, LoopSet
  <2>3. j \in Members(instrs[Preheader(x)])
    BY <2>1, <2>2, HomeIs
  <2>4. MayLeave(x, j)
    BY <2>3 DEF LoadInv, LeftInv, IsLoad
  <2>5. OldHome(j) \in Region(h)
    BY DEF MovedOut
  <2>6. Unstored(h, j)
    BY <2>2, <2>4, <2>5 DEF MayLeave
  <2> QED BY <2>6 DEF Unstored
<1> QED BY <1>1, <1>2, <1>3, PTL DEF Spec

(***************************************************************************)
(* What stands before what: appending and keeping leave it so.             *)
(***************************************************************************)
LEMMA BeforeAppend ==
  ASSUME NEW T, NEW s \in Seq(T), NEW e \in T
  PROVE  /\ \A x, y : Before(s, x, y) => Before(Append(s, e), x, y)
         /\ \A x \in Members(s) : Before(Append(s, e), x, e)
<1> DEFINE n == Len(s)
           t == Append(s, e)
<1>1. /\ n \in Nat /\ Len(t) = n + 1 /\ t[n + 1] = e /\ \A l \in 1 .. n : t[l] = s[l]
  OBVIOUS
<1>2. /\ n + 1 \in 1 .. n + 1 /\ \A l \in 1 .. n : l \in 1 .. n + 1 /\ l < n + 1
  BY <1>1
<1> HIDE DEF n, t
<1>3. ASSUME NEW x, NEW y, Before(s, x, y) PROVE Before(t, x, y)
  <2>1. PICK a \in 1 .. n, b \in 1 .. n : a < b /\ s[a] = x /\ s[b] = y
    BY <1>3 DEF Before, n
  <2> QED BY <1>1, <1>2, <2>1 DEF Before
<1>4. ASSUME NEW x \in Members(s) PROVE Before(t, x, e)
  <2>1. PICK a \in 1 .. n : s[a] = x
    BY DEF Members, n
  <2> QED BY <1>1, <1>2, <2>1 DEF Before
<1> QED BY <1>3, <1>4 DEF t

LEMMA KeptOrder ==
  ASSUME NEW T, NEW s \in Seq(T), NEW S, NEW x \in S, NEW y \in S, Before(s, x, y)
  PROVE  Before(Kept(s, S), x, y)
<1>1. PICK H : /\ H[0] = << >>
               /\ \A l \in 1 .. Len(s) :
                    H[l] = IF s[l] \in S THEN Append(H[l - 1], s[l]) ELSE H[l - 1]
               /\ Kept(s, S) = H[Len(s)]
  BY KeptSteps
<1> DEFINE n == Len(s)
           Ordered(h, l) ==
             /\ h \in Seq(T) /\ \A i \in 1 .. l : s[i] \in S => s[i] \in Members(h)
             /\ \A i, m \in 1 .. l : i < m /\ s[i] \in S /\ s[m] \in S => Before(h, s[i], s[m])
           Good == {l \in Nat : l <= n => Ordered(H[l], l)}
<1>2. n \in Nat /\ (\A l \in 1 .. n : s[l] \in T)
  OBVIOUS
<1>3. 0 \in Good
  <2>1. Ordered(<< >>, 0)
    OBVIOUS
  <2> QED BY <1>1, <2>1
<1> HIDE DEF n
<1>4. ASSUME NEW l \in Nat, l \in Good PROVE l + 1 \in Good
  <2> SUFFICES ASSUME l + 1 <= n PROVE Ordered(H[l + 1], l + 1)
    OBVIOUS
  <2>1. Ordered(H[l], l)
    BY <1>2, <1>4
  <2>2. l + 1 \in 1 .. n /\ (l + 1) - 1 = l
    BY <1>2
  <2>3. H[l + 1] = IF s[l + 1] \in S THEN Append(H[l], s[l + 1]) ELSE H[l]
    BY <1>1, <2>2 DEF n
  <2>4. s[l + 1] \in T
    BY <1>2, <2>2
  <2>5. \A i \in 1 .. l + 1 : i \in 1 .. l \/ i = l + 1
    OBVIOUS
  <2>6. CASE s[l + 1] \in S
    <3> DEFINE e == s[l + 1]
               h == H[l]
    <3>1. /\ h \in Seq(T) /\ \A i \in 1 .. l : s[i] \in S => s[i] \in Members(h)
          /\ \A i, m \in 1 .. l : i < m /\ s[i] \in S /\ s[m] \in S => Before(h, s[i], s[m])
      BY <2>1
    <3>2. H[l + 1] = Append(h, e) /\ e \in T
      BY <2>3, <2>4, <2>6
    <3> HIDE DEF h, Ordered
    <3>3. /\ Append(h, e) \in Seq(T) /\ Members(Append(h, e)) = Members(h) \cup {e}
          /\ \A u, w : Before(h, u, w) => Before(Append(h, e), u, w)
          /\ \A u \in Members(h) : Before(Append(h, e), u, e)
      BY <3>1, <3>2, MembersAppend, BeforeAppend
    <3>4. ASSUME NEW i \in 1 .. l + 1, s[i] \in S PROVE s[i] \in Members(Append(h, e))
      BY <2>5, <3>1, <3>3, <3>4
    <3>5. ASSUME NEW i \in 1 .. l + 1, NEW m \in 1 .. l + 1, i < m, s[i] \in S, s[m] \in S
          PROVE  Before(Append(h, e), s[i], s[m])
      <4>1. i \in 1 .. l
        BY <3>5
      <4>2. CASE m \in 1 .. l
        BY <3>1, <3>3, <3>5, <4>1, <4>2
      <4>3. CASE m = l + 1
        BY <3>1, <3>3, <3>5, <4>1, <4>3
      <4> QED BY <2>5, <4>2, <4>3
    <3> QED BY <3>2, <3>3, <3>4, <3>5 DEF Ordered
  <2>7. CASE s[l + 1] \notin S
    <3>1. \A i \in 1 .. l + 1 : s[i] \in S => i \in 1 .. l
      BY <2>5, <2>7
    <3> QED BY <2>1, <2>3, <2>7, <3>1
  <2> QED BY <2>6, <2>7
<1>5. n \in Good
  <2> HIDE DEF Good
  <2> QED BY <1>2, <1>3, <1>4, NatSetInduction
<1>6. PICK a \in 1 .. n, b \in 1 .. n : a < b /\ s[a] = x /\ s[b] = y
  BY DEF Before, n
<1>7. Before(H[n], x, y)
  BY <1>2, <1>5, <1>6
<1> QED BY <1>1, <1>7 DEF n

(***************************************************************************)
(* More of how loops nest.                                                 *)
(***************************************************************************)
LEMMA ParentEncloses ==
  ASSUME GivenInv, NEW x \in LoopSet, NEW c \in LoopSet, prog.parent[c] = x
  PROVE  Encloses(x, c) /\ x # c
<1>1. x # nullptr
  BY LoopsFacts, BlockSets DEF LoopSet
<1>2. Encloses(x, c)
  BY <1>1 DEF Encloses, Around, LoopSet
<1>3. x # c
  <2> SUFFICES ASSUME x = c PROVE FALSE
    OBVIOUS
  <2>1. PICK i \in 1 .. Len(prog.loops) : prog.loops[i] = c
    BY ParentFacts
  <2>a. prog.parent[c] = c /\ prog.parent[c] # nullptr
    BY <1>1
  <2>2. PICK l \in i + 1 .. Len(prog.loops) : prog.loops[l] = prog.parent[c]
    BY <2>1, <2>a, ParentFacts
  <2>3. l \in 1 .. Len(prog.loops) /\ l # i /\ DOMAIN prog.loops = 1 .. Len(prog.loops)
    BY LoopsFacts
  <2> QED BY <2>1, <2>a, <2>2, <2>3, LoopsFacts DEF IsInjective
<1> QED BY <1>2, <1>3

LEMMA EnclosesTrans ==
  ASSUME NEW x, NEW y, NEW z, Encloses(x, y), Encloses(y, z)
  PROVE  Encloses(x, z)
BY DEF Encloses, Around

LEMMA RegionFacts ==
  ASSUME GivenInv, NEW h \in LoopSet
  PROVE  /\ \A b \in Members(prog.blocks[h]) : b \in Region(h)
         /\ \A l \in LoopSet : Encloses(h, l) => Region(l) \subseteq Region(h)
         /\ h \in Region(h) /\ Entry \notin Region(h)
         /\ \A b \in Region(h) :
              /\ Reachable(prog.cfg, b)
              /\ b # h => Members(prog.cfg.pre[b]) \subseteq Region(h)
         /\ \E q \in Blocks \ Region(h) : Members(prog.cfg.pre[h]) \ prog.latches[h] = {q}
         /\ prog.latches[h] = Members(prog.cfg.pre[h]) \cap Members(prog.blocks[h])
<1>1. HasLoops(prog)
  BY ProgramsAssumption DEF GivenInv
<1>2. \A b \in Members(prog.blocks[h]) : b \in Region(h)
  BY EnclosesSelf DEF Region, Inside, Encloses, LoopSet
<1>3. ASSUME NEW l \in LoopSet, Encloses(h, l), NEW b \in Region(l) PROVE b \in Region(h)
  <2>1. PICK m \in LoopSet : Encloses(l, m) /\ b \in Members(prog.blocks[m])
    BY <1>3, RegionOwner
  <2>2. Encloses(h, m)
    BY <1>3, <2>1, EnclosesTrans
  <2> QED BY <2>1, <2>2 DEF Region, Inside, Encloses, LoopSet
<1>4. h \in Members(prog.blocks[h])
  BY LoopsFacts DEF LoopSet
<1>5. ASSUME NEW b \in Region(h) PROVE Reachable(prog.cfg, b)
  <2>1. \A S \in SUBSET Blocks : Entry \in S /\ Closed(prog.cfg, S) => Inside(prog, h) \subseteq S
    BY <1>1 DEF HasLoops, LoopSet
  <2> QED BY <1>5, <2>1 DEF Reachable, Region
<1>6. /\ Entry \notin Inside(prog, h)
      /\ \A b \in Inside(prog, h) \ {h} : Members(prog.cfg.pre[b]) \subseteq Inside(prog, h)
      /\ \E q \in Blocks \ Inside(prog, h) : Members(prog.cfg.pre[h]) \ prog.latches[h] = {q}
      /\ prog.latches[h] = Members(prog.cfg.pre[h]) \cap Members(prog.blocks[h])
  BY <1>1 DEF HasLoops, LoopSet
<1> QED BY <1>2, <1>3, <1>4, <1>5, <1>6 DEF Region

-----------------------------------------------------------------------------
(***************************************************************************)
(* Where definitions stand when their uses move.                           *)
(***************************************************************************)
Uses(j) == Members(prog.args[j]) \cap Instrs

(* j uses v, which x computes too, and not behind an inner loop of v's.    *)
Needs(x, j, v) == v \in Uses(j) /\ OldHome(v) \in Region(x) /\ ~ LeavesLoop(v, j)

(* The loops with a preheader that control passes through.                 *)
WiredLoops == {t \in LoopSet : Preheader(t) \in terminated \/ (pc = "move" /\ t = loop)}

(* What was moved has what it needs of that loop before it, or in the      *)
(* preheader of a loop further out.                                        *)
MovedInv ==
  \A x \in LoopSet : \A j \in Members(instrs[Preheader(x)]) :
    /\ OldHome(j) \in Region(x)
    /\ \A v \in Instrs : Needs(x, j, v) =>
         \/ Before(instrs[Preheader(x)], v, j)
         \/ \E y \in LoopSet \ {x} : Encloses(y, x) /\ v \in Members(instrs[Preheader(y)])

(* What stays keeps its order.                                             *)
OrderInv ==
  \A b \in Blocks : \A i, l \in Members(instrs[b]) :
    Before(prog.instrs[b], i, l) => Before(instrs[b], i, l)

(* The loop in hand: what its instructions need of it is among them, and   *)
(* what an invariant one uses of them was found before it.                 *)
ScanInv ==
  pc \notin {"collect", "done"} =>
    /\ \A j \in loop_instructions :
         /\ OldHome(j) \in Region(loop)
         /\ \A v \in Instrs : Needs(loop, j, v) => v \in loop_instructions
         /\ \E b \in Members(blocks[loop]) \cup {Ph} : j \in Members(instrs[b])
    /\ \A l \in 1 .. Len(loop_invariant) : \A v \in Uses(loop_invariant[l]) \cap loop_instructions :
         \E a \in 1 .. l - 1 : v = loop_invariant[a]

(* Every branch leads where it led, by the preheader where there is one.   *)
BranchInv ==
  /\ \A b \in Blocks : \A c \in Members(br[b]) : \E t \in Members(prog.cfg.succ[b]) :
       c = IF t \in WiredLoops /\ b \notin prog.latches[t] THEN Preheader(t) ELSE t
  /\ \A t \in Blocks : Members(br[Preheader(t)]) \subseteq {t}

FilledInv ==
  \A b \in AllBlocks \ Blocks : Members(instrs[b]) # {} => \E x \in WiredLoops : b = Preheader(x)

(* A pair of a phi is one it had, or comes from the preheader instead of   *)
(* from outside the loop.                                                  *)
PairFrom(pair, given) ==
  /\ pair[1] = given[1]
  /\ \/ pair[2] = given[2]
     \/ \E h \in LoopSet : /\ pair[2] = Preheader(h)
                           /\ given[2] \in Members(prog.cfg.pre[h]) \ prog.latches[h]

PhiSourceInv ==
  \A j \in Instrs : \A l \in 1 .. Len(phis[j]) : \E m \in 1 .. Len(prog.phis[j]) :
    PairFrom(phis[j][l], prog.phis[j][m])

UsesInv ==
  LoadInv /\ MovedInv /\ OrderInv /\ ScanInv /\ BranchInv /\ FilledInv /\ PhiSourceInv

LEMMA GivenUses ==
  ASSUME UNCHANGED prog
  PROVE  /\ \A x : Region(x)' = Region(x)
         /\ \A x, y : Encloses(x, y)' <=> Encloses(x, y)
         /\ \A j : Uses(j)' = Uses(j)
         /\ \A x, j, v : Needs(x, j, v)' <=> Needs(x, j, v)
<1>1. \A x : Region(x)' = Region(x)
  BY DEF Region, Inside, Around
<1>2. \A x, y : Encloses(x, y)' <=> Encloses(x, y)
  BY DEF Encloses, Around
<1>3. \A j : Uses(j)' = Uses(j)
  BY DEF Uses
<1>4. \A j : OldHome(j)' = OldHome(j)
  BY GivenSame
<1>5. \A v, j : LeavesLoop(v, j)' <=> LeavesLoop(v, j)
  BY <1>1, <1>2, <1>4 DEF LeavesLoop
<1>6. \A x, j, v : Needs(x, j, v)' <=> Needs(x, j, v)
  BY <1>1, <1>3, <1>4, <1>5 DEF Needs
<1> QED BY <1>1, <1>2, <1>3, <1>6

LEMMA PlacesSame ==
  ASSUME MovedInv, OrderInv, UNCHANGED <<prog, instrs>>
  PROVE  MovedInv' /\ OrderInv'
<1>1. MovedInv'
  BY GivenSame, GivenUses DEF MovedInv
<1>2. OrderInv'
  BY DEF OrderInv
<1> QED BY <1>1, <1>2

LEMMA ScanSame ==
  ASSUME ScanInv, UNCHANGED prog,
         \/ pc' \in {"collect", "done"}
         \/ /\ UNCHANGED <<pos, loop_instructions, loop_invariant, instrs, blocks>>
            /\ pc \notin {"collect", "done"}
  PROVE  ScanInv'
<1>1. CASE pc' \in {"collect", "done"}
  BY <1>1 DEF ScanInv
<1>2. CASE /\ UNCHANGED <<pos, loop_instructions, loop_invariant, instrs, blocks>>
           /\ pc \notin {"collect", "done"}
  <2>1. loop' = loop /\ Ph' = Ph
    BY <1>2 DEF loop, Ph
  <2>2. /\ \A j \in loop_instructions :
             /\ OldHome(j) \in Region(loop)
             /\ \A v \in Instrs : Needs(loop, j, v) => v \in loop_instructions
             /\ \E b \in Members(blocks[loop]) \cup {Ph} : j \in Members(instrs[b])
        /\ \A l \in 1 .. Len(loop_invariant) : \A v \in Uses(loop_invariant[l]) \cap loop_instructions :
             \E a \in 1 .. l - 1 : v = loop_invariant[a]
    BY <1>2 DEF ScanInv
  <2>3. \A j \in loop_instructions :
             /\ OldHome(j)' \in Region(loop)'
             /\ \A v \in Instrs : Needs(loop, j, v)' => v \in loop_instructions
             /\ \E b \in Members(blocks[loop]) \cup {Ph} : j \in Members(instrs[b])
    <3>1. Region(loop)' = Region(loop)
      BY <2>1 DEF Region, Inside, Around
    <3>2. ASSUME NEW j, NEW v PROVE Needs(loop, j, v)' <=> Needs(loop, j, v)
      BY <2>1, <3>1, GivenUses, GivenSame DEF Needs, LeavesLoop, Region, Encloses, Inside, Around
    <3> QED BY <2>2, <3>1, <3>2, GivenSame
  <2> QED BY <1>2, <2>1, <2>2, <2>3, GivenUses DEF ScanInv
<1> QED BY <1>1, <1>2

LEMMA WiredSame ==
  ASSUME UNCHANGED <<prog, terminated>>,
         (pc # "move" /\ pc' # "move") \/ UNCHANGED <<pc, pos>>
  PROVE  WiredLoops' = WiredLoops
BY GivenSame DEF WiredLoops, loop

LEMMA BranchesSame ==
  ASSUME BranchInv, UNCHANGED <<prog, br>>, WiredLoops' = WiredLoops
  PROVE  BranchInv'
BY DEF BranchInv

LEMMA FilledSame ==
  ASSUME FilledInv, UNCHANGED instrs, WiredLoops' = WiredLoops
  PROVE  FilledInv'
BY DEF FilledInv

LEMMA PhiSourcesSame ==
  ASSUME PhiSourceInv, UNCHANGED <<prog, phis>>
  PROVE  PhiSourceInv'
BY GivenSame DEF PhiSourceInv, PairFrom

(* The preheaders of the loop in hand and of those around it are empty.    *)
LEMMA PendingEmpty ==
  ASSUME LicmInv, pos <= Len(prog.loops), NEW x \in LoopSet, Encloses(x, loop),
         pc # "move" \/ x # loop
  PROVE  Members(instrs[Preheader(x)]) = {}
<1>1. GivenInv /\ TypeOK /\ PendingInv
  BY DEF LicmInv
<1>2. pos \in 1 .. Len(prog.loops) /\ Len(prog.loops) \in Nat
  BY <1>1, InHand, LoopsFacts
<1>3. PICK l \in 1 .. Len(prog.loops) : prog.loops[l] = x
  BY <1>1, ParentFacts
<1>4. pos <= l
  <2>1. Encloses(prog.loops[l], prog.loops[pos])
    BY <1>3 DEF loop
  <2> QED BY <1>1, <1>2, <2>1, EnclosesLater
<1>5. l \in pos .. Len(prog.loops)
  BY <1>2, <1>4
<1>6. ~ (pc = "move" /\ l = pos)
  BY <1>3 DEF loop
<1> QED BY <1>1, <1>3, <1>5, <1>6 DEF PendingInv

(* An instruction is where it was, or in a preheader.                      *)
LEMMA NowAt ==
  ASSUME LoadInv, FilledInv, NEW v \in Instrs
  PROVE  \/ v \in Members(instrs[OldHome(v)])
         \/ \E x \in WiredLoops : v \in Members(instrs[Preheader(x)])
<1>1. GivenInv /\ PlaceInv /\ StayInv
  BY DEF LoadInv, LicmInv
<1>2. PICK b \in AllBlocks : v \in Members(instrs[b])
  BY <1>1 DEF PlaceInv
<1>3. CASE b \in Blocks
  <2>1. v \in Members(prog.instrs[b])
    BY <1>1, <1>2, <1>3 DEF StayInv
  <2> QED BY <1>1, <1>2, <1>3, <2>1, OldHomeIs
<1>4. CASE b \notin Blocks
  BY <1>2, <1>4 DEF FilledInv
<1> QED BY <1>3, <1>4

LEMMA UsesInvInit == ASSUME Init PROVE UsesInv
<1>1. LoadInv /\ GivenInv
  BY LoadInvInit, InitInv DEF LicmInv
<1>2. /\ prog.instrs \in [Blocks -> Seq(Instrs)] /\ instrs = Padded(prog.instrs)
      /\ prog.cfg.succ \in [Blocks -> Seq(Blocks)] /\ br = Padded(prog.cfg.succ)
  BY <1>1, CodeFacts DEF Init
<1>3. /\ \A b \in Blocks : instrs[b] = prog.instrs[b] /\ br[b] = prog.cfg.succ[b]
      /\ \A b \in AllBlocks \ Blocks : instrs[b] = << >> /\ br[b] = << >>
  BY <1>2, PaddedFacts
<1>4. /\ \A b \in AllBlocks \ Blocks : Members(instrs[b]) = {} /\ Members(br[b]) = {}
      /\ \A x \in LoopSet : x \in Blocks
      /\ \A x \in Blocks : Preheader(x) \in AllBlocks \ Blocks
  BY <1>1, <1>3, LoopsFacts, BlockSets, NothingInEmpty DEF LoopSet
<1>5. WiredLoops = {}
  BY <1>4 DEF WiredLoops, Init
<1>6. MovedInv /\ OrderInv /\ FilledInv
  BY <1>3, <1>4 DEF MovedInv, OrderInv, FilledInv
<1>7. ScanInv
  BY DEF ScanInv, Init
<1>8. BranchInv
  BY <1>3, <1>4, <1>5 DEF BranchInv
<1>9. PhiSourceInv
  BY DEF PhiSourceInv, PairFrom, Init
<1> QED BY <1>1, <1>6, <1>7, <1>8, <1>9 DEF UsesInv

(* What j of the loop in hand needs of it is in its blocks: a value of an  *)
(* inner loop is in the preheader that j is in, or j is behind that loop.  *)
LEMMA CollectedNeeds ==
  ASSUME UsesInv, pc = "collect", pos <= Len(prog.loops),
         NEW b \in Members(blocks[loop]), NEW j \in Members(instrs[b])
  PROVE  /\ OldHome(j) \in Region(loop)
         /\ \A v \in Instrs : Needs(loop, j, v) => \E c \in Members(blocks[loop]) : v \in Members(instrs[c])
<1>1. /\ LoadInv /\ LicmInv /\ GivenInv /\ TypeOK /\ BlocksInv /\ StayInv /\ MovedInv /\ FilledInv
  BY DEF UsesInv, LoadInv, LicmInv
<1>2. loop \in LoopSet /\ loop \in Blocks
  BY <1>1, InHand DEF LoopSet
<1>3. Members(prog.blocks[loop]) = Members(blocks[loop]) \cap Blocks
  BY <1>1, <1>2 DEF BlocksInv
<1>4. j \in Instrs
  <2>1. blocks[loop] \in Seq(AllBlocks)
    BY <1>1, <1>2 DEF TypeOK
  <2>2. b \in AllBlocks
    BY <2>1 DEF Members
  <2>3. instrs[b] \in Seq(Instrs)
    BY <1>1, <2>2 DEF TypeOK
  <2> QED BY <2>3 DEF Members
<1>5. ASSUME NEW v \in Instrs, OldHome(v) \in Members(prog.blocks[loop])
      PROVE  \E c \in Members(blocks[loop]) : v \in Members(instrs[c])
  <2>1. CASE v \in Members(instrs[OldHome(v)])
    BY <1>3, <1>5, <2>1
  <2>2. CASE \E x \in WiredLoops : v \in Members(instrs[Preheader(x)])
    <3>1. PICK x \in LoopSet : v \in Members(instrs[Preheader(x)])
      BY <2>2 DEF WiredLoops
    <3>2. OldHome(v) \in Region(x)
      BY <1>1, <3>1 DEF MovedInv
    <3>3. PICK n \in LoopSet : Encloses(x, n) /\ OldHome(v) \in Members(prog.blocks[n])
      BY <1>1, <3>2, RegionOwner
    <3>4. n = loop
      BY <1>1, <1>2, <1>5, <3>3, OneOwner
    <3>5. Members(instrs[Preheader(x)]) = {}
      BY <1>1, <3>3, <3>4, PendingEmpty
    <3> QED BY <3>1, <3>5
  <2> QED BY <1>1, <2>1, <2>2, NowAt
<1>6. CASE b \in Blocks
  <2>1. j \in Members(prog.instrs[b])
    BY <1>1, <1>6 DEF StayInv
  <2>2. OldHome(j) = b /\ OldHome(j) \in Members(prog.blocks[loop])
    BY <1>1, <1>3, <1>4, <1>6, <2>1, OldHomeIs
  <2>3. OldHome(j) \in Region(loop)
    BY <1>1, <1>2, <2>2, RegionFacts
  <2>4. ASSUME NEW v \in Instrs, Needs(loop, j, v)
        PROVE  \E c \in Members(blocks[loop]) : v \in Members(instrs[c])
    <3>1. OldHome(v) \in Region(loop) /\ ~ LeavesLoop(v, j)
      BY <2>4 DEF Needs
    <3>2. PICK m \in LoopSet : Encloses(loop, m) /\ OldHome(v) \in Members(prog.blocks[m])
      BY <1>1, <1>2, <3>1, RegionOwner
    <3>3. OldHome(j) \in Region(m)
      BY <1>2, <2>3, <3>1, <3>2 DEF LeavesLoop, LoopSet
    <3>4. PICK n \in LoopSet : Encloses(m, n) /\ OldHome(j) \in Members(prog.blocks[n])
      BY <1>1, <3>2, <3>3, RegionOwner
    <3>5. n = loop
      BY <1>1, <1>2, <2>2, <3>4, OneOwner
    <3>6. m = loop
      BY <1>1, <1>2, <3>2, <3>4, <3>5, EnclosesBoth
    <3> QED BY <1>5, <3>2, <3>6
  <2> QED BY <2>3, <2>4
<1>7. CASE b \notin Blocks
  <2>1. PICK c \in LoopSet : prog.parent[c] = loop /\ b = Preheader(c)
    BY <1>1, <1>2, <1>7 DEF StayInv
  <2>2. Encloses(loop, c) /\ loop # c
    BY <1>1, <1>2, <2>1, ParentEncloses
  <2>3. OldHome(j) \in Region(c) /\ OldHome(j) \in Region(loop)
    <3>1. OldHome(j) \in Region(c)
      BY <1>1, <2>1 DEF MovedInv
    <3> QED BY <1>1, <1>2, <2>2, <3>1, RegionFacts
  <2>4. ASSUME NEW v \in Instrs, Needs(loop, j, v)
        PROVE  \E d \in Members(blocks[loop]) : v \in Members(instrs[d])
    <3>1. v \in Uses(j) /\ OldHome(v) \in Region(loop) /\ ~ LeavesLoop(v, j)
      BY <2>4 DEF Needs
    <3>2. PICK m \in LoopSet : Encloses(loop, m) /\ OldHome(v) \in Members(prog.blocks[m])
      BY <1>1, <1>2, <3>1, RegionOwner
    <3>3. CASE Encloses(c, m)
      <4>1. OldHome(v) \in Region(c)
        BY <3>2, <3>3 DEF Region, Inside, Encloses, LoopSet
      <4>2. Needs(c, j, v)
        BY <3>1, <4>1 DEF Needs
      <4>3. \/ Before(instrs[Preheader(c)], v, j)
            \/ \E y \in LoopSet \ {c} : Encloses(y, c) /\ v \in Members(instrs[Preheader(y)])
        BY <1>1, <2>1, <4>2 DEF MovedInv
      <4>4. ASSUME NEW y \in LoopSet \ {c}, Encloses(y, c) PROVE Members(instrs[Preheader(y)]) = {}
        <5>1. Encloses(y, loop)
          BY <1>1, <2>1, <4>4, EnclosesParent
        <5> QED BY <1>1, <5>1, PendingEmpty
      <4>5. Before(instrs[b], v, j)
        BY <2>1, <4>3, <4>4
      <4>6. v \in Members(instrs[b])
        BY <4>5 DEF Before, Members
      <4> QED BY <4>6
    <3>4. CASE ~ Encloses(c, m)
      <4>1. OldHome(j) \in Region(m)
        BY <1>2, <2>3, <3>1, <3>2 DEF LeavesLoop, LoopSet
      <4>2. PICK n \in LoopSet : Encloses(c, n) /\ OldHome(j) \in Members(prog.blocks[n])
        BY <1>1, <2>3, RegionOwner
      <4>3. PICK o \in LoopSet : Encloses(m, o) /\ OldHome(j) \in Members(prog.blocks[o])
        BY <1>1, <3>2, <4>1, RegionOwner
      <4>4. o = n
        BY <1>1, <4>2, <4>3, OneOwner
      <4>5. Encloses(m, c)
        BY <1>1, <3>2, <3>4, <4>2, <4>3, <4>4, EnclosesChain
      <4>6. Encloses(m, loop)
        <5>1. m # c
          BY <3>4, EnclosesSelf
        <5> QED BY <1>1, <2>1, <3>2, <4>5, <5>1, EnclosesParent
      <4>7. m = loop
        BY <1>1, <1>2, <3>2, <4>6, EnclosesBoth
      <4> QED BY <1>5, <3>2, <4>7
    <3> QED BY <3>3, <3>4
  <2> QED BY <2>3, <2>4
<1> QED BY <1>6, <1>7

LEMMA UsesInvCollect == ASSUME UsesInv, CollectLoopInfo PROVE UsesInv'
<1>1. LoadInv /\ LicmInv /\ GivenInv /\ TypeOK /\ LoadInv'
  BY LoadInvCollect DEF UsesInv, LoadInv, LicmInv
<1>2. /\ UNCHANGED <<prog, pos, instrs, blocks, br, terminated, phis>>
      /\ pc = "collect" /\ pc' = "examine" /\ pos <= Len(prog.loops)
      /\ \A j : j \in loop_instructions' <=> \E b \in Members(blocks[loop]) : j \in Members(instrs[b])
      /\ loop_invariant' = << >>
  BY DEF CollectLoopInfo, progVars, graphVars
<1>3. MovedInv' /\ OrderInv'
  BY <1>2, PlacesSame DEF UsesInv
<1>4. WiredLoops' = WiredLoops
  BY <1>2, WiredSame
<1>5. BranchInv' /\ FilledInv' /\ PhiSourceInv'
  BY <1>2, <1>4, BranchesSame, FilledSame, PhiSourcesSame DEF UsesInv
<1>6. loop' = loop /\ Ph' = Ph
  BY <1>2 DEF loop, Ph
<1>7. ScanInv'
  <2>1. ASSUME NEW j \in loop_instructions'
        PROVE  /\ OldHome(j)' \in Region(loop)'
               /\ \A v \in Instrs : Needs(loop, j, v)' => v \in loop_instructions'
               /\ \E b \in Members(blocks[loop]) \cup {Ph} : j \in Members(instrs[b])
    <3>1. PICK b \in Members(blocks[loop]) : j \in Members(instrs[b])
      BY <1>2, <2>1
    <3>2. /\ OldHome(j) \in Region(loop)
          /\ \A v \in Instrs : Needs(loop, j, v) => \E c \in Members(blocks[loop]) : v \in Members(instrs[c])
      BY <1>2, <3>1, CollectedNeeds
    <3>3. Region(loop)' = Region(loop) /\ OldHome(j)' = OldHome(j)
      BY <1>2, <1>6, GivenSame DEF Region, Inside, Around
    <3>4. \A v : Needs(loop, j, v)' <=> Needs(loop, j, v)
      BY <1>2, <1>6, <3>3, GivenUses, GivenSame DEF Needs, LeavesLoop, Region, Encloses, Inside, Around
    <3> QED BY <1>2, <3>1, <3>2, <3>3, <3>4
  <2> QED BY <1>2, <1>6, <2>1 DEF ScanInv
<1> QED BY <1>1, <1>3, <1>5, <1>7 DEF UsesInv

LEMMA UsesInvExamine == ASSUME UsesInv, Examine PROVE UsesInv'
<1>1. LoadInv /\ TypeOK /\ GivenInv /\ LoadInv'
  BY LoadInvExamine DEF UsesInv, LoadInv, LicmInv
<1>2. /\ UNCHANGED <<prog, pos, instrs, blocks, br, terminated, phis, loop_instructions>>
      /\ pc = "examine" /\ pc' = "examine"
  BY DEF Examine, progVars, graphVars
<1>3. MovedInv' /\ OrderInv'
  BY <1>2, PlacesSame DEF UsesInv
<1>4. WiredLoops' = WiredLoops
  BY <1>2, WiredSame
<1>5. BranchInv' /\ FilledInv' /\ PhiSourceInv'
  BY <1>2, <1>4, BranchesSame, FilledSame, PhiSourcesSame DEF UsesInv
<1>6. /\ \A l \in 1 .. Len(loop_invariant) : \A v \in Uses(loop_invariant[l]) \cap loop_instructions :
           \E a \in 1 .. l - 1 : v = loop_invariant[a]
      /\ ScanInv
  BY <1>2 DEF UsesInv, ScanInv
<1>7. \A l \in 1 .. Len(loop_invariant') : \A v \in Uses(loop_invariant'[l]) \cap loop_instructions :
           \E a \in 1 .. l - 1 : v = loop_invariant'[a]
  <2>1. CASE loop_invariant' = loop_invariant
    BY <1>6, <2>1
  <2>2. CASE IsInvariant(addr[k]) /\ loop_invariant' = Append(loop_invariant, addr[k])
    <3> DEFINE n == Len(loop_invariant)
               j == addr[k]
    <3>1. loop_invariant \in Seq(Instrs) /\ j \in Instrs
      BY <1>1, NInstrAssumption DEF Examine, TypeOK, GivenInv, Instrs
    <3>2. /\ n \in Nat /\ Len(loop_invariant') = n + 1 /\ loop_invariant'[n + 1] = j
          /\ \A l \in 1 .. n : loop_invariant'[l] = loop_invariant[l]
      BY <2>2, <3>1
    <3>3. ASSUME NEW v \in Uses(j), v \in loop_instructions PROVE \E a \in 1 .. n : v = loop_invariant[a]
      <4>1. v \in Members(prog.args[j]) /\ v \in Instrs
        BY DEF Uses
      <4>2. CASE prog.op[j] = "load" /\ prog.args[j][1] = global
        <5>1. Len(prog.args[j]) = 1
          BY <1>1, <3>1, <4>2, ProgramsAssumption DEF GivenInv, IsCode
        <5>2. v = global
          BY <4>1, <4>2, <5>1 DEF Members
        <5> QED BY <4>1, <5>2, OperandsAssumption
      <4>3. CASE \A u \in Members(prog.args[j]) : Fixed(u)
        BY <3>3, <4>1, <4>3 DEF Fixed, Members
      <4> QED BY <2>2, <4>2, <4>3 DEF IsInvariant
    <3> HIDE DEF n, j
    <3>4. ASSUME NEW l \in 1 .. n + 1, NEW v \in Uses(loop_invariant'[l]) \cap loop_instructions
          PROVE  \E a \in 1 .. l - 1 : v = loop_invariant'[a]
      <4>1. CASE l = n + 1
        <5>1. PICK a \in 1 .. n : v = loop_invariant[a]
          BY <3>2, <3>3, <3>4, <4>1
        <5>2. a \in 1 .. l - 1
          BY <3>2, <4>1
        <5> QED BY <3>2, <5>1, <5>2
      <4>2. CASE l # n + 1
        <5>1. l \in 1 .. n
          BY <3>2, <4>2
        <5>2. v \in Uses(loop_invariant[l]) \cap loop_instructions
          BY <3>2, <3>4, <5>1
        <5>3. PICK a \in 1 .. l - 1 : v = loop_invariant[a]
          BY <1>6, <5>1, <5>2 DEF n
        <5>4. a \in 1 .. n
          BY <3>2, <5>1
        <5> QED BY <3>2, <5>3, <5>4
      <4> QED BY <4>1, <4>2
    <3> QED BY <3>2, <3>4
  <2> QED BY <2>1, <2>2 DEF Examine
<1>8. ScanInv'
  <2>1. loop' = loop /\ Ph' = Ph
    BY <1>2 DEF loop, Ph
  <2>2. \A j \in loop_instructions :
             /\ OldHome(j) \in Region(loop)
             /\ \A v \in Instrs : Needs(loop, j, v) => v \in loop_instructions
             /\ \E b \in Members(blocks[loop]) \cup {Ph} : j \in Members(instrs[b])
    BY <1>2, <1>6 DEF ScanInv
  <2>3. Region(loop)' = Region(loop) /\ \A j : OldHome(j)' = OldHome(j)
    BY <1>2, <2>1, GivenSame DEF Region, Inside, Around
  <2>4. \A j, v : Needs(loop, j, v)' <=> Needs(loop, j, v)
    BY <1>2, <2>1, <2>3, GivenUses DEF Needs, LeavesLoop, Region, Encloses, Inside, Around
  <2>5. \A j : Uses(j)' = Uses(j)
    BY <1>2, GivenUses
  <2> QED BY <1>2, <1>7, <2>1, <2>2, <2>3, <2>4, <2>5 DEF ScanInv
<1> QED BY <1>1, <1>3, <1>5, <1>8 DEF UsesInv

LEMMA UsesInvLook ==
  ASSUME UsesInv, ExamineAgain \/ CreatePreheader \/ Finish \/ UNCHANGED vars
  PROVE  UsesInv'
<1>1. LoadInv'
  BY LoadInvStep DEF UsesInv, Next
<1>2. /\ UNCHANGED <<prog, instrs, blocks, br, terminated, phis>>
      /\ (pc # "move" /\ pc' # "move") \/ UNCHANGED <<pc, pos>>
      /\ \/ pc' \in {"collect", "done"}
         \/ UNCHANGED <<pos, loop_instructions, loop_invariant>> /\ pc \notin {"collect", "done"}
  BY DEF ExamineAgain, CreatePreheader, Finish, vars, progVars, graphVars, scanVars
<1>3. MovedInv' /\ OrderInv'
  BY <1>2, PlacesSame DEF UsesInv
<1>4. WiredLoops' = WiredLoops
  BY <1>2, WiredSame
<1>5. BranchInv' /\ FilledInv' /\ PhiSourceInv'
  BY <1>2, <1>4, BranchesSame, FilledSame, PhiSourcesSame DEF UsesInv
<1>6. ScanInv'
  BY <1>2, ScanSame DEF UsesInv
<1> QED BY <1>1, <1>3, <1>5, <1>6 DEF UsesInv

(* Each pair of a phi that was entered is one of its pairs, renamed if it  *)
(* comes from outside of the blocks B.                                     *)
LEMMA EnteredPairs ==
  ASSUME NEW s \in Seq(Values \X AllBlocks), NEW B, NEW p \in AllBlocks
  PROVE  \A l \in 1 .. Len(Entered(s, B, p)) : \E i \in 1 .. Len(s) :
           /\ Entered(s, B, p)[l][1] = s[i][1]
           /\ \/ Entered(s, B, p)[l][2] = s[i][2]
              \/ Entered(s, B, p)[l][2] = p /\ s[i][2] \notin B
<1> DEFINE Own == Values \X B
           Ent == (Values \X AllBlocks) \ Own
           a == Kept(s, Own)
           b == Kept(s, Ent)
           r == Renamed(b, p)
           t == a \o r
<1>1. a \in Seq(Values \X AllBlocks) /\ Members(a) = Members(s) \cap Own
  BY KeptMembers
<1>2. b \in Seq(Values \X AllBlocks) /\ Members(b) = Members(s) \cap Ent
  BY KeptMembers
<1> HIDE DEF a, b
<1>3. \A l \in 1 .. Len(a) : \E i \in 1 .. Len(s) : a[l] = s[i]
  BY <1>1 DEF Members
<1>4. ASSUME NEW l \in 1 .. Len(b) PROVE \E i \in 1 .. Len(s) : b[l] = s[i] /\ s[i][2] \notin B
  <2>1. b[l] \in Members(b)
    BY DEF Members
  <2>2. b[l] \in Values \X AllBlocks /\ b[l] \notin Own /\ b[l] \in Members(s)
    BY <1>2, <2>1
  <2>3. b[l][2] \notin B
    BY <2>2
  <2> QED BY <2>2, <2>3 DEF Members
<1> HIDE DEF Own, Ent
<1>5. Len(a) \in Nat /\ Len(b) \in Nat /\ \A l \in 1 .. Len(b) : b[l] \in Values \X AllBlocks
  BY <1>1, <1>2
<1>6. /\ r \in Seq(Values \X AllBlocks) /\ Len(r) = Len(b)
      /\ \A l \in 1 .. Len(b) : r[l][1] = b[l][1] /\ r[l][2] = p
  BY <1>5 DEF Renamed
<1> HIDE DEF r
<1>7. /\ t \in Seq(Values \X AllBlocks) /\ Len(t) = Len(a) + Len(b)
      /\ \A l \in 1 .. Len(a) : t[l] = a[l]
      /\ \A l \in Len(a) + 1 .. Len(a) + Len(b) : t[l] = r[l - Len(a)]
  <2> DEFINE V == Values \X AllBlocks
  <2> HIDE DEF V
  <2>1. ASSUME NEW u \in Seq(V), NEW w \in Seq(V)
        PROVE  /\ u \o w \in Seq(V) /\ Len(u \o w) = Len(u) + Len(w)
               /\ \A l \in 1 .. Len(u) : (u \o w)[l] = u[l]
               /\ \A l \in Len(u) + 1 .. Len(u) + Len(w) : (u \o w)[l] = w[l - Len(u)]
    OBVIOUS
  <2>2. a \in Seq(V) /\ r \in Seq(V)
    BY <1>1, <1>6 DEF V
  <2>3. t \in Seq(V) /\ Len(t) = Len(a) + Len(r)
    BY <2>1, <2>2
  <2>4. /\ \A l \in 1 .. Len(a) : t[l] = a[l]
        /\ \A l \in Len(a) + 1 .. Len(a) + Len(r) : t[l] = r[l - Len(a)]
    BY <2>1, <2>2
  <2> QED BY <1>6, <2>3, <2>4 DEF V
<1> HIDE DEF t
<1>8. ASSUME NEW l \in 1 .. Len(t)
      PROVE  \E i \in 1 .. Len(s) : /\ t[l][1] = s[i][1]
                                    /\ t[l][2] = s[i][2] \/ (t[l][2] = p /\ s[i][2] \notin B)
  <2>1. CASE l \in 1 .. Len(a)
    BY <1>3, <1>7, <2>1
  <2>2. CASE l \notin 1 .. Len(a)
    <3>1. l \in Len(a) + 1 .. Len(a) + Len(b) /\ l - Len(a) \in 1 .. Len(b)
      BY <1>5, <1>7, <2>2
    <3>2. PICK i \in 1 .. Len(s) : b[l - Len(a)] = s[i] /\ s[i][2] \notin B
      BY <1>4, <3>1
    <3>3. t[l][1] = s[i][1] /\ t[l][2] = p
      <4>1. t[l] = r[l - Len(a)]
        BY <1>7, <3>1
      <4> QED BY <1>6, <3>1, <3>2, <4>1
    <3> QED BY <3>2, <3>3
  <2> QED BY <2>1, <2>2
<1> QED BY <1>8 DEF t, r, a, b, Own, Ent, Entered

LEMMA UsesInvPhis == ASSUME UsesInv, UpdatePhis PROVE UsesInv'
<1>1. /\ LicmInv /\ GivenInv /\ TypeOK /\ PhaseInv /\ PendingInv /\ BlocksInv /\ PhiInv
      /\ StayInv /\ LoadInv' /\ PhiSourceInv
  BY LoadInvStep DEF UsesInv, LoadInv, LicmInv, Next
<1>2. /\ UNCHANGED <<prog, pos, instrs, blocks, br, terminated, loop_instructions, loop_invariant>>
      /\ pc = "phis" /\ pc' = "rewire"
  BY DEF UpdatePhis, progVars, scanVars
<1>3. MovedInv' /\ OrderInv' /\ ScanInv'
  BY <1>2, PlacesSame, ScanSame DEF UsesInv
<1>4. WiredLoops' = WiredLoops
  BY <1>2, WiredSame
<1>5. BranchInv' /\ FilledInv'
  BY <1>2, <1>4, BranchesSame, FilledSame DEF UsesInv
<1>6. /\ pos <= Len(prog.loops) /\ preheader[loop] = Ph /\ pos \in pos .. Len(prog.loops)
      /\ loop \in LoopSet /\ loop \in Blocks /\ loop \in AllBlocks /\ Ph \in AllBlocks
  BY <1>1, <1>2, InHand DEF PhaseInv, LoopSet
<1> DEFINE B == Members(blocks[loop])
           Now(s) == Entered(s, B, Ph)
           Mine(j) == j \in Members(instrs[loop]) /\ prog.op[j] = "phi"
<1>7. phis' = [j \in Instrs |-> IF Mine(j) THEN Now(phis[j]) ELSE phis[j]]
  BY <1>6 DEF UpdatePhis, Renamed, Entered
<1>8. /\ pre[loop] = prog.cfg.pre[loop] /\ Members(pre[loop]) \subseteq Blocks
      /\ \A b \in Members(pre[loop]) \ B : b \notin prog.latches[loop]
  <2>1. pre[loop] = prog.cfg.pre[loop]
    BY <1>1, <1>2, <1>6 DEF PendingInv, loop
  <2>2. prog.cfg.pre[loop] \in Seq(Blocks)
    BY <1>1, <1>6, CodeFacts
  <2>3. B \cap Blocks = Members(prog.blocks[loop])
    BY <1>1, <1>6 DEF BlocksInv
  <2>4. prog.latches[loop] \subseteq Members(prog.blocks[loop])
    BY <1>1, <1>6, LoopsFacts DEF LoopSet
  <2>5. Members(prog.cfg.pre[loop]) \subseteq Blocks
    BY <2>2 DEF Members
  <2> HIDE DEF B
  <2> QED BY <2>1, <2>3, <2>4, <2>5
<1> HIDE DEF B
<1>9. ASSUME NEW j \in Instrs, Mine(j), NEW l \in 1 .. Len(Now(phis[j]))
      PROVE  \E m \in 1 .. Len(prog.phis[j]) : PairFrom(Now(phis[j])[l], prog.phis[j][m])
  <2>1. phis[j] \in Seq(Values \X AllBlocks)
    BY <1>1 DEF TypeOK
  <2>2. PICK i \in 1 .. Len(phis[j]) :
          /\ Now(phis[j])[l][1] = phis[j][i][1]
          /\ \/ Now(phis[j])[l][2] = phis[j][i][2]
             \/ Now(phis[j])[l][2] = Ph /\ phis[j][i][2] \notin B
    <3> DEFINE s == phis[j]
    <3>1. s \in Seq(Values \X AllBlocks)
      BY <2>1
    <3> HIDE DEF s
    <3>2. \A e \in 1 .. Len(Entered(s, B, Ph)) : \E i \in 1 .. Len(s) :
           /\ Entered(s, B, Ph)[e][1] = s[i][1]
           /\ \/ Entered(s, B, Ph)[e][2] = s[i][2]
              \/ Entered(s, B, Ph)[e][2] = Ph /\ s[i][2] \notin B
      BY ONLY <1>6, <3>1, EnteredPairs
    <3> QED BY <1>9, <3>2 DEF s
  <2>3. PICK m \in 1 .. Len(prog.phis[j]) : PairFrom(phis[j][i], prog.phis[j][m])
    BY <1>1 DEF PhiSourceInv
  <2>4. phis[j][i][2] \in Members(pre[loop]) /\ phis[j][i][2] \in Blocks
    <3>1. Members(Sources(phis[j])) \subseteq Members(pre[loop])
      BY <1>2, <1>1, <1>6, <1>9 DEF PhiInv
    <3>2. Sources(phis[j])[i] = phis[j][i][2] /\ Sources(phis[j])[i] \in Members(Sources(phis[j]))
      BY <2>1, SourcesFacts
    <3> QED BY <1>8, <3>1, <3>2
  <2>5. prog.phis[j][m][1] = phis[j][i][1] /\ prog.phis[j][m][2] = phis[j][i][2]
    <3>1. \A h \in LoopSet : Preheader(h) \notin Blocks
      BY <1>1, LoopsFacts, BlockSets DEF LoopSet
    <3> QED BY <2>3, <2>4, <3>1 DEF PairFrom
  <2> HIDE DEF Now
  <2>6. CASE Now(phis[j])[l][2] = phis[j][i][2]
    <3>1. PairFrom(Now(phis[j])[l], prog.phis[j][m])
      BY <2>2, <2>5, <2>6 DEF PairFrom
    <3> QED BY <3>1
  <2>7. CASE Now(phis[j])[l][2] = Ph /\ phis[j][i][2] \notin B
    <3>1. prog.phis[j][m][2] \in Members(prog.cfg.pre[loop]) \ prog.latches[loop]
      BY <1>8, <2>4, <2>5, <2>7
    <3>2. PairFrom(Now(phis[j])[l], prog.phis[j][m])
      BY <1>6, <2>2, <2>5, <2>7, <3>1 DEF PairFrom, Ph
    <3> QED BY <3>2
  <2> QED BY <2>2, <2>6, <2>7
<1> HIDE DEF Now
<1>10. PhiSourceInv'
  <2>1. ASSUME NEW j \in Instrs, NEW l \in 1 .. Len(phis'[j])
        PROVE  \E m \in 1 .. Len(prog.phis[j]) : PairFrom(phis'[j][l], prog.phis[j][m])
    <3>1. CASE Mine(j)
      <4>1. phis'[j] = Now(phis[j])
        BY <1>7, <3>1
      <4> QED BY <1>9, <2>1, <3>1, <4>1
    <3>2. CASE ~ Mine(j)
      <4>1. phis'[j] = phis[j]
        BY <1>7, <3>2
      <4> QED BY <1>1, <2>1, <4>1 DEF PhiSourceInv
    <3> QED BY <3>1, <3>2
  <2>2. \A x, y : PairFrom(x, y)' <=> PairFrom(x, y)
    BY <1>2, GivenSame DEF PairFrom
  <2> QED BY <1>2, <2>1, <2>2 DEF PhiSourceInv
<1> QED BY <1>1, <1>3, <1>5, <1>10 DEF UsesInv

LEMMA UsesInvRewire == ASSUME UsesInv, RewirePreds PROVE UsesInv'
<1>1. /\ LicmInv /\ GivenInv /\ TypeOK /\ PhaseInv /\ PendingInv /\ EdgesInv /\ LoadInv'
      /\ BranchInv /\ FilledInv
  BY LoadInvStep DEF UsesInv, LoadInv, LicmInv, Next
<1>2. /\ UNCHANGED <<prog, pos, instrs, blocks, phis, terminated, loop_instructions, loop_invariant>>
      /\ pc = "rewire" /\ pc' = "move"
  BY DEF RewirePreds, progVars, scanVars
<1>3. MovedInv' /\ OrderInv' /\ ScanInv' /\ PhiSourceInv'
  BY <1>2, PlacesSame, ScanSame, PhiSourcesSame DEF UsesInv
<1>4. /\ pos <= Len(prog.loops) /\ preheader[loop] = Ph /\ pos \in pos .. Len(prog.loops)
      /\ loop \in LoopSet /\ loop \in Blocks /\ loop \in AllBlocks /\ Ph \in AllBlocks /\ Ph \notin Blocks
  BY <1>1, <1>2, InHand DEF PhaseInv, LoopSet
<1>5. loop' = loop /\ loop \notin WiredLoops /\ WiredLoops' = WiredLoops \cup {loop}
  <2>1. Preheader(loop) \notin terminated
    BY <1>1, <1>4 DEF PendingInv, loop
  <2>2. loop' = loop
    BY <1>2 DEF loop
  <2>3. WiredLoops = {t \in LoopSet : Preheader(t) \in terminated}
    BY <1>2 DEF WiredLoops
  <2>4. WiredLoops' = {t \in LoopSet : Preheader(t) \in terminated \/ t = loop}
    BY <1>2, <2>2, GivenSame DEF WiredLoops
  <2> QED BY <1>4, <2>1, <2>2, <2>3, <2>4
<1>6. FilledInv'
  BY <1>1, <1>2, <1>5 DEF FilledInv
<1>7. PICK q \in Blocks :
           /\ q \notin prog.latches[loop] /\ prog.latches[loop] \subseteq Blocks
           /\ Members(pre[loop]) = prog.latches[loop] \cup {q}
           /\ pre[loop] = prog.cfg.pre[loop] /\ pre[loop] \in Seq(AllBlocks) /\ IsInjective(pre[loop])
  BY <1>1, <1>2, Entrance
<1>8. Members(Kept(pre[loop], AllBlocks \ prog.latches[loop])) = {q}
  <2>1. Members(Kept(pre[loop], AllBlocks \ prog.latches[loop])) =
          Members(pre[loop]) \cap (AllBlocks \ prog.latches[loop])
    BY <1>7, KeptMembers
  <2> QED BY <1>7, <2>1, BlockSets
<1>9. br' = [b \in AllBlocks |-> IF b = q THEN Redirected(br[b], loop, Ph) ELSE br[b]]
  <2> DEFINE E == Members(Kept(pre[loop], AllBlocks \ prog.latches[loop]))
  <2>1. br' = [b \in AllBlocks |-> IF b \in E THEN Redirected(br[b], loop, Ph) ELSE br[b]]
    BY <1>4 DEF RewirePreds, Redirected
  <2>2. \A b : b \in E <=> b = q
    BY <1>8
  <2> HIDE DEF E
  <2> QED BY <2>1, <2>2
<1>10. loop \in Members(br[q]) /\ br[q] \in Seq(AllBlocks) /\ q \in AllBlocks
  <2>1. q \in AllBlocks /\ q \in Members(pre[loop])
    BY <1>7, BlockSets
  <2>2. loop \in Members(succ[q]) /\ Members(succ[q]) = Members(br[q])
    BY <1>1, <1>2, <1>4, <2>1 DEF EdgesInv
  <2> QED BY <1>1, <2>1, <2>2 DEF TypeOK
<1>11. Members(br'[q]) = (Members(br[q]) \ {loop}) \cup {Ph}
  <2>1. br'[q] = Redirected(br[q], loop, Ph)
    BY <1>9, <1>10
  <2> DEFINE s == br[q]
  <2>2. s \in Seq(AllBlocks) /\ loop \in Members(s)
    BY <1>10
  <2> HIDE DEF s
  <2>3. Members(Redirected(s, loop, Ph)) = (Members(s) \ {loop}) \cup {Ph}
    BY <1>4, <2>2, RedirectedFacts
  <2> QED BY <2>1, <2>3 DEF s
<1>12. \A b \in AllBlocks : b # q => br'[b] = br[b]
  BY <1>9
<1>13. \A b \in Blocks : loop \in Members(prog.cfg.succ[b]) <=> b \in prog.latches[loop] \cup {q}
  BY <1>1, <1>4, <1>7, CodeFacts
<1> DEFINE Led(b, t, W) == IF t \in W /\ b \notin prog.latches[t] THEN Preheader(t) ELSE t
<1>14. ASSUME NEW b \in Blocks, NEW c \in Members(br'[b])
       PROVE  \E t \in Members(prog.cfg.succ[b]) : c = Led(b, t, WiredLoops')
  <2>1. \A d \in Members(br[b]) : \E t \in Members(prog.cfg.succ[b]) : d = Led(b, t, WiredLoops)
    BY <1>1 DEF BranchInv
  <2>2. CASE b = q /\ c = Ph
    <3>1. loop \in Members(prog.cfg.succ[b]) /\ c = Led(b, loop, WiredLoops')
      BY <1>5, <1>7, <1>13, <2>2 DEF Ph
    <3> QED BY <3>1
  <2>3. CASE b = q /\ c # Ph
    <3>1. c \in Members(br[b]) /\ c # loop
      BY <1>11, <1>14, <2>3
    <3>2. PICK t \in Members(prog.cfg.succ[b]) : c = Led(b, t, WiredLoops)
      BY <2>1, <3>1
    <3>3. t # loop
      BY <1>5, <3>1, <3>2
    <3> QED BY <1>5, <3>2, <3>3
  <2>4. CASE b # q
    <3>1. c \in Members(br[b])
      BY <1>12, <1>14, <2>4, BlockSets
    <3>2. PICK t \in Members(prog.cfg.succ[b]) : c = Led(b, t, WiredLoops)
      BY <2>1, <3>1
    <3>3. CASE t = loop
      BY <1>5, <1>13, <2>4, <3>2, <3>3
    <3>4. CASE t # loop
      BY <1>5, <3>2, <3>4
    <3> QED BY <3>3, <3>4
  <2> QED BY <2>2, <2>3, <2>4
<1>15. ASSUME NEW t \in Blocks PROVE Members(br'[Preheader(t)]) \subseteq {t}
  <2>1. Preheader(t) \in AllBlocks /\ Preheader(t) # q
    BY <1>7, BlockSets
  <2> QED BY <1>1, <1>12, <2>1 DEF BranchInv
<1>16. BranchInv'
  BY <1>2, <1>14, <1>15 DEF BranchInv
<1> QED BY <1>1, <1>3, <1>6, <1>16 DEF UsesInv

LEMMA UsesInvClose == ASSUME UsesInv, ClosePreheader PROVE UsesInv'
<1>1. /\ LicmInv /\ GivenInv /\ TypeOK /\ PhaseInv /\ LoadInv' /\ BranchInv /\ FilledInv
  BY LoadInvClose DEF UsesInv, LoadInv, LicmInv
<1>2. /\ UNCHANGED <<prog, instrs, phis>> /\ pc = "move" /\ pc' = "collect"
  BY DEF ClosePreheader, progVars, scanVars
<1>3. MovedInv' /\ OrderInv' /\ ScanInv' /\ PhiSourceInv'
  BY <1>2, PlacesSame, ScanSame, PhiSourcesSame DEF UsesInv
<1>4. /\ pos <= Len(prog.loops) /\ preheader[loop] = Ph
      /\ loop \in LoopSet /\ loop \in Blocks /\ Ph \in AllBlocks /\ Ph \notin Blocks
  BY <1>1, <1>2, InHand DEF PhaseInv, LoopSet
<1>5. br' = [br EXCEPT ![Ph] = <<loop>>] /\ terminated' = terminated \cup {Ph}
  BY <1>4 DEF ClosePreheader
<1>6. WiredLoops' = WiredLoops
  <2>1. \A t \in LoopSet : Preheader(t) = Ph <=> t = loop
    BY <1>1, <1>4, LoopsFacts, BlockSets DEF LoopSet, Ph
  <2>2. WiredLoops = {t \in LoopSet : Preheader(t) \in terminated \/ t = loop}
    BY <1>2 DEF WiredLoops
  <2>3. WiredLoops' = {t \in LoopSet : Preheader(t) \in terminated \/ Preheader(t) = Ph}
    BY <1>2, <1>5, GivenSame DEF WiredLoops
  <2> QED BY <2>1, <2>2, <2>3
<1>7. FilledInv'
  BY <1>1, <1>2, <1>6, FilledSame
<1>8. br \in [AllBlocks -> Seq(AllBlocks)] /\ Members(<<loop>>) = {loop}
  BY <1>1 DEF TypeOK, Members
<1>9. \A b \in Blocks : br'[b] = br[b]
  BY <1>4, <1>5, <1>8, BlockSets
<1>10. ASSUME NEW t \in Blocks PROVE Members(br'[Preheader(t)]) \subseteq {t}
  <2>1. CASE t = loop
    BY <1>4, <1>5, <1>8, <2>1 DEF Ph
  <2>2. CASE t # loop
    <3>1. Preheader(t) # Ph /\ Preheader(t) \in AllBlocks
      BY <1>4, <2>2, BlockSets DEF Ph
    <3>2. br'[Preheader(t)] = br[Preheader(t)]
      BY <1>5, <1>8, <3>1
    <3> QED BY <1>1, <3>2 DEF BranchInv
  <2> QED BY <2>1, <2>2
<1>11. BranchInv'
  BY <1>1, <1>2, <1>6, <1>9, <1>10 DEF BranchInv
<1> QED BY <1>1, <1>3, <1>7, <1>11 DEF UsesInv

LEMMA UsesInvMove == ASSUME UsesInv, MoveInstruction PROVE UsesInv'
<1> DEFINE j == loop_invariant[k]
<1>1. /\ LicmInv /\ GivenInv /\ TypeOK /\ PhaseInv /\ PendingInv /\ HoistInv /\ PlaceInv /\ StayInv
      /\ LoadInv' /\ MovedInv /\ OrderInv /\ ScanInv /\ FilledInv
  BY LoadInvMove DEF UsesInv, LoadInv, LicmInv
<1>2. /\ UNCHANGED <<prog, pos, br, terminated, phis, blocks, loop_instructions, loop_invariant>>
      /\ pc = "move" /\ pc' = "move" /\ k <= Len(loop_invariant)
  BY DEF MoveInstruction, progVars, scanVars
<1>3. /\ pos <= Len(prog.loops) /\ preheader[loop] = Ph /\ pos \in pos .. Len(prog.loops)
      /\ loop \in LoopSet /\ loop \in Blocks /\ Ph \in AllBlocks /\ Ph \notin Blocks
      /\ \A x \in LoopSet : /\ x \in Blocks /\ Preheader(x) \in AllBlocks \ Blocks
                            /\ Preheader(x) = Ph <=> x = loop
  BY <1>1, <1>2, InHand, LoopsFacts, BlockSets DEF PhaseInv, LoopSet, Ph
<1>4. loop_invariant \in Seq(Instrs) /\ k \in 1 .. Len(loop_invariant) /\ k \in Nat
  BY <1>1, <1>2, NInstrAssumption DEF TypeOK
<1>5. j \in Instrs /\ j \in loop_instructions
  <2>1. j \in Instrs /\ j \in Members(loop_invariant)
    BY <1>4 DEF Members
  <2> QED BY <1>1, <2>1 DEF HoistInv
<1>6. Members(instrs[Ph]) = Moved /\ j \notin Members(instrs[Ph])
  <2>1. Members(instrs[Ph]) = Moved
    BY <1>1, <1>2, <1>3 DEF PendingInv, Ph, loop
  <2>2. ASSUME NEW l \in 1 .. k - 1 PROVE loop_invariant[l] # j
    <3>1. l \in 1 .. Len(loop_invariant) /\ l # k
      BY <1>4
    <3>2. DOMAIN loop_invariant = 1 .. Len(loop_invariant)
      BY <1>4
    <3> QED BY <1>1, <1>4, <3>1, <3>2 DEF HoistInv, IsInjective
  <2> QED BY <2>1, <2>2 DEF Moved
<1>7. instrs' = [b \in AllBlocks |->
                   IF b = Ph THEN Append(instrs[b], j) ELSE Kept(instrs[b], Instrs \ {j})]
  BY <1>3 DEF MoveInstruction
<1>8. /\ OldHome(j) \in Region(loop)
      /\ \A v \in Instrs : Needs(loop, j, v) => v \in Members(instrs[Ph])
  <2>1. /\ OldHome(j) \in Region(loop)
        /\ \A v \in Instrs : Needs(loop, j, v) => v \in loop_instructions
        /\ \A v \in Uses(j) \cap loop_instructions : \E a \in 1 .. k - 1 : v = loop_invariant[a]
    BY <1>1, <1>2, <1>4, <1>5 DEF ScanInv
  <2>2. ASSUME NEW v \in Instrs, Needs(loop, j, v) PROVE v \in Moved
    <3>1. v \in Uses(j) \cap loop_instructions
      BY <2>1, <2>2 DEF Needs
    <3> QED BY <2>1, <3>1 DEF Moved
  <2> QED BY <1>6, <2>1, <2>2
(* j leaves a block of the loop or the preheader of a loop in it.          *)
<1>9. ASSUME NEW y \in LoopSet, j \in Members(instrs[Preheader(y)])
      PROVE  Encloses(loop, y) /\ loop # y
  <2>1. PICK b \in Members(blocks[loop]) \cup {Ph} : j \in Members(instrs[b])
    BY <1>1, <1>2, <1>5 DEF ScanInv
  <2>2. b \in Members(blocks[loop]) /\ b \in AllBlocks
    <3>1. blocks[loop] \in Seq(AllBlocks)
      BY <1>1, <1>3 DEF TypeOK
    <3> QED BY <1>6, <2>1, <3>1 DEF Members
  <2>3. b = Preheader(y) /\ b \notin Blocks
    BY <1>1, <1>3, <1>9, <2>1, <2>2 DEF PlaceInv
  <2>4. PICK c \in LoopSet : prog.parent[c] = loop /\ b = Preheader(c)
    BY <1>1, <1>3, <2>2, <2>3 DEF StayInv
  <2>5. c = y
    BY <1>3, <2>3, <2>4, BlockSets
  <2> QED BY <1>1, <1>3, <2>4, <2>5, ParentEncloses
<1> HIDE DEF j
<1>10. \A b \in AllBlocks : instrs[b] \in Seq(Instrs) /\ Members(instrs[b]) \subseteq Instrs
  <2>1. \A b \in AllBlocks : instrs[b] \in Seq(Instrs)
    BY <1>1 DEF TypeOK
  <2> QED BY <2>1 DEF Members
<1>11. /\ Members(instrs'[Ph]) = Members(instrs[Ph]) \cup {j}
       /\ \A u, w : Before(instrs[Ph], u, w) => Before(instrs'[Ph], u, w)
       /\ \A u \in Members(instrs[Ph]) : Before(instrs'[Ph], u, j)
  <2>1. instrs'[Ph] = Append(instrs[Ph], j) /\ instrs[Ph] \in Seq(Instrs)
    BY <1>3, <1>7, <1>10
  <2>2. ASSUME NEW s \in Seq(Instrs)
        PROVE  /\ Members(Append(s, j)) = Members(s) \cup {j}
               /\ \A u, w : Before(s, u, w) => Before(Append(s, j), u, w)
               /\ \A u \in Members(s) : Before(Append(s, j), u, j)
    BY <1>5, MembersAppend, BeforeAppend
  <2> QED BY <2>1, <2>2
<1>12. ASSUME NEW b \in AllBlocks, b # Ph
       PROVE  /\ Members(instrs'[b]) = Members(instrs[b]) \ {j}
              /\ \A u, w \in Instrs \ {j} : Before(instrs[b], u, w) => Before(instrs'[b], u, w)
  <2>1. instrs'[b] = Kept(instrs[b], Instrs \ {j}) /\ instrs[b] \in Seq(Instrs)
    BY <1>7, <1>10, <1>12
  <2>2. Members(instrs'[b]) = Members(instrs[b]) \cap (Instrs \ {j})
    BY <2>1, KeptMembers
  <2>3. ASSUME NEW u \in Instrs \ {j}, NEW w \in Instrs \ {j}, Before(instrs[b], u, w)
        PROVE  Before(instrs'[b], u, w)
    BY <2>1, <2>3, KeptOrder
  <2> QED BY <1>10, <1>12, <2>2, <2>3
<1>13. MovedInv'
  <2> SUFFICES ASSUME NEW x \in LoopSet, NEW i \in Members(instrs'[Preheader(x)])
               PROVE  /\ OldHome(i) \in Region(x)
                      /\ \A v \in Instrs : Needs(x, i, v) =>
                           \/ Before(instrs'[Preheader(x)], v, i)
                           \/ \E y \in LoopSet \ {x} : Encloses(y, x) /\ v \in Members(instrs'[Preheader(y)])
    BY <1>2, GivenSame, GivenUses DEF MovedInv
  <2>1. CASE i = j
    <3>1. x = loop /\ Preheader(x) = Ph
      BY <1>3, <1>12, <2>1
    <3> QED BY <1>8, <1>11, <2>1, <3>1
  <2>2. CASE i # j
    <3>1. i \in Members(instrs[Preheader(x)]) /\ i \in Instrs
      <4>1. i \in Members(instrs[Preheader(x)])
        BY <1>3, <1>11, <1>12, <2>2
      <4> QED BY <1>3, <1>10, <4>1
    <3>2. OldHome(i) \in Region(x)
      BY <1>1, <3>1 DEF MovedInv
    <3>3. ASSUME NEW v \in Instrs, Needs(x, i, v)
          PROVE  \/ Before(instrs'[Preheader(x)], v, i)
                 \/ \E y \in LoopSet \ {x} : Encloses(y, x) /\ v \in Members(instrs'[Preheader(y)])
      <4>1. \/ Before(instrs[Preheader(x)], v, i)
            \/ \E y \in LoopSet \ {x} : Encloses(y, x) /\ v \in Members(instrs[Preheader(y)])
        BY <1>1, <3>1, <3>3 DEF MovedInv
      <4>2. CASE Before(instrs[Preheader(x)], v, i)
        <5>1. CASE v = j
          <6>1. v \in Members(instrs[Preheader(x)])
            BY <4>2 DEF Before, Members
          <6>2. Encloses(loop, x) /\ loop # x
            BY <1>9, <5>1, <6>1
          <6>3. v \in Members(instrs'[Preheader(loop)])
            BY <1>11, <5>1 DEF Ph
          <6> QED BY <1>3, <6>2, <6>3
        <5>2. CASE v # j
          <6>1. CASE x = loop
            BY <1>3, <1>11, <4>2, <6>1
          <6>2. CASE x # loop
            BY <1>3, <1>12, <2>2, <3>1, <4>2, <5>2, <6>2
          <6> QED BY <6>1, <6>2
        <5> QED BY <5>1, <5>2
      <4>3. CASE \E y \in LoopSet \ {x} : Encloses(y, x) /\ v \in Members(instrs[Preheader(y)])
        <5>1. PICK y \in LoopSet \ {x} : Encloses(y, x) /\ v \in Members(instrs[Preheader(y)])
          BY <4>3
        <5>2. CASE v = j
          <6>1. Encloses(loop, y) /\ loop # y
            BY <1>9, <5>1, <5>2
          <6>2. Encloses(loop, x)
            BY <5>1, <6>1, EnclosesTrans
          <6>3. loop # x
            BY <1>1, <1>3, <5>1, <6>1, EnclosesBoth
          <6>4. v \in Members(instrs'[Preheader(loop)])
            BY <1>11, <5>2 DEF Ph
          <6> QED BY <1>3, <6>2, <6>3, <6>4
        <5>3. CASE v # j
          <6>1. v \in Members(instrs'[Preheader(y)])
            BY <1>3, <1>11, <1>12, <5>1, <5>3
          <6> QED BY <5>1, <6>1
        <5> QED BY <5>2, <5>3
      <4> QED BY <4>1, <4>2, <4>3
    <3> QED BY <3>2, <3>3
  <2> QED BY <2>1, <2>2
<1>14. OrderInv'
  <2> SUFFICES ASSUME NEW b \in Blocks, NEW i \in Members(instrs'[b]), NEW l \in Members(instrs'[b]),
                      Before(prog.instrs[b], i, l)
               PROVE  Before(instrs'[b], i, l)
    BY <1>2 DEF OrderInv
  <2>1. b \in AllBlocks /\ b # Ph
    BY <1>3, BlockSets
  <2>2. i \in Members(instrs[b]) /\ l \in Members(instrs[b]) /\ i # j /\ l # j
    BY <1>12, <2>1
  <2>3. Before(instrs[b], i, l)
    BY <1>1, <2>2 DEF OrderInv
  <2> QED BY <1>10, <1>12, <2>1, <2>2, <2>3
<1>15. WiredLoops' = WiredLoops
  BY <1>2, WiredSame
<1>16. FilledInv'
  <2> SUFFICES ASSUME NEW b \in AllBlocks \ Blocks, Members(instrs'[b]) # {}
               PROVE  \E x \in WiredLoops : b = Preheader(x)
    BY <1>15 DEF FilledInv
  <2>1. CASE b = Ph
    BY <1>2, <1>3, <2>1 DEF WiredLoops, Ph
  <2>2. CASE b # Ph
    BY <1>1, <1>12, <2>2 DEF FilledInv
  <2> QED BY <2>1, <2>2
<1>17. BranchInv' /\ PhiSourceInv'
  BY <1>2, <1>15, BranchesSame, PhiSourcesSame DEF UsesInv
<1>18. ScanInv'
  <2>1. loop' = loop /\ Ph' = Ph
    BY <1>2 DEF loop, Ph
  <2>2. /\ \A i \in loop_instructions :
             /\ OldHome(i) \in Region(loop)
             /\ \A v \in Instrs : Needs(loop, i, v) => v \in loop_instructions
             /\ \E b \in Members(blocks[loop]) \cup {Ph} : i \in Members(instrs[b])
        /\ \A l \in 1 .. Len(loop_invariant) : \A v \in Uses(loop_invariant[l]) \cap loop_instructions :
             \E a \in 1 .. l - 1 : v = loop_invariant[a]
    BY <1>1, <1>2 DEF ScanInv
  <2>3. ASSUME NEW i \in loop_instructions
        PROVE  \E b \in Members(blocks[loop]) \cup {Ph} : i \in Members(instrs'[b])
    <3>1. PICK b \in Members(blocks[loop]) \cup {Ph} : i \in Members(instrs[b])
      BY <2>2
    <3>2. b \in AllBlocks
      <4>1. blocks[loop] \in Seq(AllBlocks)
        BY <1>1, <1>3 DEF TypeOK
      <4> QED BY <1>3, <4>1 DEF Members
    <3> QED BY <1>11, <1>12, <3>1, <3>2
  <2>4. Region(loop)' = Region(loop) /\ \A i : OldHome(i)' = OldHome(i)
    BY <1>2, <2>1, GivenSame DEF Region, Inside, Around
  <2>5. \A i, v : Needs(loop, i, v)' <=> Needs(loop, i, v)
    BY <1>2, <2>1, <2>4, GivenUses DEF Needs, LeavesLoop, Region, Encloses, Inside, Around
  <2>6. \A i : Uses(i)' = Uses(i)
    BY <1>2, GivenUses
  <2> QED BY <1>2, <2>1, <2>2, <2>3, <2>4, <2>5, <2>6 DEF ScanInv
<1> QED BY <1>1, <1>13, <1>14, <1>16, <1>17, <1>18 DEF UsesInv

LEMMA UsesInvStep == ASSUME UsesInv, [Next]_vars PROVE UsesInv'
BY UsesInvCollect, UsesInvExamine, UsesInvLook, UsesInvPhis, UsesInvRewire, UsesInvMove, UsesInvClose
   DEF Next, Finished

-----------------------------------------------------------------------------
(***************************************************************************)
(* Paths of the rewired function are paths of the given one.               *)
(***************************************************************************)
(* A set that holds the entry and is closed under branches but into d      *)
(* holds all that is reached without d.                                    *)
LEMMA ReachStays ==
  ASSUME NEW g, NEW d, NEW S, Entry \in S \cup {d},
         \A b \in S : \A c \in Members(g[b]) : c \in S \cup {d}
  PROVE  ReachAvoiding(g, d) \subseteq S
<1> DEFINE Wider(R) == R \cup ((UNION {Members(g[b]) : b \in R}) \ {d})
           Body(F, m) == [n \in 0 .. m |-> IF n = 0 THEN {Entry} \ {d} ELSE Wider(F[n - 1])]
           Good == {m \in Nat : \E F : F = Body(F, m)}
<1>1. ASSUME NEW R, R \subseteq S, NEW c \in Wider(R) PROVE c \in S
  <2>1. CASE c \in R
    BY <1>1, <2>1
  <2>2. CASE c \notin R
    <3>a. c \in UNION {Members(g[b]) : b \in R} /\ c # d
      BY <1>1, <2>2
    <3>1. PICK b \in R : c \in Members(g[b]) /\ c # d
      BY <3>a
    <3> QED BY <1>1, <3>1
  <2> QED BY <2>1, <2>2
<1>2. ReachAvoiding(g, d) = (CHOOSE F : F = Body(F, 2 * N))[2 * N]
  BY DEF ReachAvoiding
<1> HIDE DEF Wider
<1>3. 0 \in Good
  <2>1. [n \in 0 .. 0 |-> {Entry} \ {d}] = Body([n \in 0 .. 0 |-> {Entry} \ {d}], 0)
    OBVIOUS
  <2> QED BY <2>1
<1>4. ASSUME NEW m \in Nat, m \in Good PROVE m + 1 \in Good
  <2>1. PICK F : F = Body(F, m)
    BY <1>4
  <2> DEFINE G == [n \in 0 .. m + 1 |-> IF n <= m THEN F[n] ELSE Wider(F[m])]
  <2>2. \A n \in 0 .. m : F[n] = IF n = 0 THEN {Entry} \ {d} ELSE Wider(F[n - 1])
    BY <2>1
  <2>3. ASSUME NEW n \in 0 .. m + 1 PROVE G[n] = Body(G, m + 1)[n]
    <3>1. CASE n = m + 1
      BY <3>1
    <3>2. CASE n \in 0 .. m
      <4>1. n # 0 => n - 1 \in 0 .. m /\ n - 1 \in 0 .. m + 1 /\ n - 1 <= m
        BY <3>2
      <4>2. G[n] = F[n] /\ (n # 0 => G[n - 1] = F[n - 1])
        BY <3>2, <4>1
      <4>3. Body(G, m + 1)[n] = IF n = 0 THEN {Entry} \ {d} ELSE Wider(G[n - 1])
        BY <3>2
      <4> QED BY <2>2, <3>2, <4>2, <4>3
    <3> QED BY <3>1, <3>2
  <2>4. G = Body(G, m + 1)
    BY <2>3
  <2>5. m + 1 \in Nat
    OBVIOUS
  <2> QED BY <2>4, <2>5
<1> DEFINE top == 2 * N
           Within == CHOOSE F : F = Body(F, top)
<1>5. top \in Nat /\ ReachAvoiding(g, d) = Within[top]
  BY <1>2, BlockSets
<1> HIDE DEF top
<1>6. Within = Body(Within, top)
  <2> HIDE DEF Good
  <2>1. top \in Good
    BY <1>3, <1>4, <1>5, NatSetInduction
  <2>2. \E F : F = Body(F, top)
    BY <2>1 DEF Good
  <2> QED BY <2>2
<1> HIDE DEF Within
<1>7. \A n \in 0 .. top : Within[n] = IF n = 0 THEN {Entry} \ {d} ELSE Wider(Within[n - 1])
  BY <1>6
<1> DEFINE Inner == {n \in Nat : n <= top => Within[n] \subseteq S}
<1>8. 0 \in Inner
  BY <1>5, <1>7
<1>9. ASSUME NEW n \in Nat, n \in Inner PROVE n + 1 \in Inner
  <2> SUFFICES ASSUME n + 1 <= top PROVE Within[n + 1] \subseteq S
    OBVIOUS
  <2>1. Within[n] \subseteq S
    BY <1>5, <1>9
  <2>2. n + 1 \in 0 .. top /\ n + 1 # 0 /\ (n + 1) - 1 = n
    BY <1>5
  <2>3. Within[n + 1] = Wider(Within[n])
    BY <1>7, <2>2
  <2> QED BY <1>1, <2>1, <2>3
<1>10. top \in Inner
  <2> HIDE DEF Inner
  <2> QED BY <1>5, <1>8, <1>9, NatSetInduction
<1> QED BY <1>5, <1>10

(* The blocks d does not dominate, and where a loop is entered.            *)
NotDom(d) == {b \in Blocks : Reachable(prog.cfg, b) /\ ~ Dominates(prog.cfg, d, b)}
Enters(t) == Members(prog.cfg.pre[t]) \ prog.latches[t]

LEMMA EdgeFacts ==
  ASSUME GivenInv, NEW b \in Blocks, NEW c \in Members(prog.cfg.succ[b])
  PROVE  c \in Blocks /\ Edge(prog.cfg, b, c) /\ b \in Members(prog.cfg.pre[c])
<1>1. prog.cfg.succ[b] \in Seq(Blocks)
  BY CodeFacts
<1>2. c \in Blocks
  BY <1>1 DEF Members
<1> QED BY <1>2, CodeFacts DEF Edge

LEMMA NotDomClosed ==
  ASSUME GivenInv, NEW d \in Blocks
  PROVE  /\ d # Entry => Entry \in NotDom(d)
         /\ \A b \in NotDom(d) : \A c \in Members(prog.cfg.succ[b]) : c # d => c \in NotDom(d)
<1>1. ASSUME d # Entry PROVE Entry \in NotDom(d)
  <2>1. Reachable(prog.cfg, Entry)
    BY DEF Reachable
  <2> QED BY <1>1, <2>1, EntryInBlocks, DominatesEntry DEF NotDom
<1>2. ASSUME NEW b \in NotDom(d), NEW c \in Members(prog.cfg.succ[b]), c # d PROVE c \in NotDom(d)
  <2>1. b \in Blocks /\ Reachable(prog.cfg, b) /\ ~ Dominates(prog.cfg, d, b)
    BY DEF NotDom
  <2>2. c \in Blocks /\ Edge(prog.cfg, b, c)
    BY <2>1, EdgeFacts
  <2>3. Reachable(prog.cfg, c)
    BY <2>1, <2>2, SuccReachable
  <2>4. ~ Dominates(prog.cfg, d, c)
    BY <1>2, <2>1, <2>2, DominatesPred DEF StrictlyDominates
  <2> QED BY <2>2, <2>3, <2>4 DEF NotDom
<1> QED BY <1>1, <1>2

LEMMA RegionInBlocks ==
  ASSUME GivenInv, NEW x \in LoopSet
  PROVE  Region(x) \subseteq Blocks
<1>1. ASSUME NEW m \in LoopSet PROVE Members(prog.blocks[m]) \subseteq Blocks
  <2>1. prog.blocks[m] \in Seq(Blocks)
    BY LoopsFacts DEF LoopSet
  <2> QED BY <2>1 DEF Members
<1> QED BY <1>1, RegionOwner

(* What is outside of a loop and dominates a block of it dominates the     *)
(* block that enters it.                                                   *)
LEMMA RegionThrough ==
  ASSUME GivenInv, NEW x \in LoopSet, NEW d \in Blocks, d \notin Region(x),
         NEW e \in Region(x), Dominates(prog.cfg, d, e), NEW q \in Enters(x)
  PROVE  q \notin NotDom(d)
<1> SUFFICES ASSUME q \in NotDom(d) PROVE FALSE
  OBVIOUS
<1> DEFINE T == {b \in Blocks : b \in Region(x) => b \in NotDom(d)}
<1>1. x \in Region(x) /\ x # d /\ x \in Blocks
  BY RegionFacts, LoopsFacts DEF LoopSet
<1>2. x \in NotDom(d)
  <2>1. x \in Members(prog.cfg.succ[q]) /\ q \in Blocks
    BY <1>1, CodeFacts DEF NotDom, Enters
  <2> QED BY <1>1, <2>1, NotDomClosed
<1>3. ASSUME NEW b \in T, NEW c \in Blocks, Edge(prog.cfg, b, c) PROVE c \in T
  <2>1. c \in Members(prog.cfg.succ[b]) /\ b \in Members(prog.cfg.pre[c])
    BY <1>3, EdgeFacts DEF Edge
  <2> SUFFICES ASSUME c \in Region(x) PROVE c \in NotDom(d)
    OBVIOUS
  <2>2. CASE b \in Region(x)
    BY <2>1, <2>2, NotDomClosed
  <2>3. CASE b \notin Region(x)
    <3>1. c = x
      BY <2>1, <2>3, RegionFacts
    <3> QED BY <1>2, <3>1
  <2> QED BY <2>2, <2>3
<1>4. Entry \in T
  BY EntryInBlocks, RegionFacts
<1>5. e \in T
  <2>1. Reachable(prog.cfg, e)
    BY RegionFacts
  <2>2. T \in SUBSET Blocks /\ Closed(prog.cfg, T)
    BY <1>3 DEF Closed
  <2> HIDE DEF T
  <2> QED BY <1>4, <2>1, <2>2 DEF Reachable
<1> QED BY <1>5 DEF NotDom

(* What can be reached without passing place D, which what was in block d  *)
(* has moved to, out of the region R: a preheader, if where it is entered  *)
(* from can be.                                                            *)
Free(D, R, d) ==
  ((NotDom(d) \ R) \cup {Preheader(t) : t \in {s \in LoopSet : Enters(s) \cap (NotDom(d) \ R) # {}}}) \ {D}

(* What was in block d is still there, or moved to the preheader of a loop *)
(* with the region R that d is in.                                         *)
Stands(D, R, d) ==
  \/ D = d /\ R = {}
  \/ \E y \in WiredLoops : D = Preheader(y) /\ R = Region(y) /\ d \in R

LEMMA FreeClosed ==
  ASSUME UsesInv, NEW d \in Blocks, NEW D, NEW R, Stands(D, R, d)
  PROVE  ReachAvoiding(br, D) \subseteq Free(D, R, d)
<1>1. GivenInv /\ BranchInv /\ TypeOK
  BY DEF UsesInv, LoadInv, LicmInv
<1>2. \A x \in LoopSet : x \in Blocks /\ Preheader(x) \notin Blocks
  BY <1>1, LoopsFacts, BlockSets DEF LoopSet
<1>3. Entry \in Free(D, R, d) \cup {D}
  <2>1. CASE D = d /\ R = {}
    BY <1>1, <2>1, NotDomClosed DEF Free
  <2>2. CASE \E y \in WiredLoops : D = Preheader(y) /\ R = Region(y) /\ d \in R
    <3>1. PICK y \in LoopSet : D = Preheader(y) /\ R = Region(y) /\ d \in R
      BY <2>2 DEF WiredLoops
    <3>2. Entry \notin R /\ d # Entry
      BY <1>1, <3>1, RegionFacts
    <3> QED BY <1>1, <3>2, NotDomClosed DEF Free
  <2> QED BY <2>1, <2>2 DEF Stands
(* An edge of the given function out of what is free.                      *)
<1>4. ASSUME NEW b \in NotDom(d) \ R, NEW t \in Members(prog.cfg.succ[b]), t # D,
             t \in WiredLoops => Preheader(t) # D \/ b \in prog.latches[t]
      PROVE  t \in NotDom(d) \ R
  <2>1. b \in Blocks /\ t \in Blocks /\ b \in Members(prog.cfg.pre[t])
    BY <1>1, EdgeFacts DEF NotDom
  <2>2. CASE D = d /\ R = {}
    BY <1>1, <1>4, <2>2, NotDomClosed
  <2>3. CASE \E y \in WiredLoops : D = Preheader(y) /\ R = Region(y) /\ d \in R
    <3>1. PICK y \in WiredLoops : D = Preheader(y) /\ R = Region(y) /\ d \in R
      BY <2>3
    <3>2. y \in LoopSet
      BY DEF WiredLoops
    <3>3. t \notin R
      <4> SUFFICES ASSUME t \in R PROVE FALSE
        OBVIOUS
      <4>1. t = y
        BY <1>1, <2>1, <3>1, <3>2, RegionFacts
      <4>2. b \in prog.latches[y]
        BY <1>4, <3>1, <4>1
      <4>3. b \in Region(y)
        BY <1>1, <3>2, <4>2, RegionFacts
      <4> QED BY <3>1, <4>3
    <3> QED BY <1>1, <3>1, <3>3, NotDomClosed
  <2> QED BY <2>2, <2>3 DEF Stands
<1>5. ASSUME NEW b \in Free(D, R, d), NEW c \in Members(br[b]), c # D PROVE c \in Free(D, R, d)
  <2>1. CASE b \in NotDom(d) \ R
    <3>1. b \in Blocks
      BY <2>1 DEF NotDom
    <3>2. PICK t \in Members(prog.cfg.succ[b]) :
            c = IF t \in WiredLoops /\ b \notin prog.latches[t] THEN Preheader(t) ELSE t
      BY <1>1, <3>1 DEF BranchInv
    <3>3. CASE t \in WiredLoops /\ b \notin prog.latches[t]
      <4>1. t \in LoopSet /\ b \in Enters(t)
        BY <1>1, <3>1, <3>3, EdgeFacts DEF WiredLoops, Enters
      <4> QED BY <1>5, <2>1, <3>2, <3>3, <4>1 DEF Free
    <3>4. CASE ~ (t \in WiredLoops /\ b \notin prog.latches[t])
      <4>1. t \in NotDom(d) \ R
        BY <1>4, <1>5, <2>1, <3>2, <3>4
      <4> QED BY <1>5, <3>2, <3>4, <4>1 DEF Free
    <3> QED BY <3>3, <3>4
  <2>2. CASE b \notin NotDom(d) \ R
    <3>1. PICK t \in LoopSet : b = Preheader(t) /\ Enters(t) \cap (NotDom(d) \ R) # {}
      BY <2>2 DEF Free
    <3>2. PICK q : q \in Enters(t) /\ q \in NotDom(d) \ R
      BY <3>1
    <3>3. c = t
      BY <1>1, <1>2, <3>1 DEF BranchInv
    <3>4. q \in Blocks /\ t \in Members(prog.cfg.succ[q])
      BY <1>1, <1>2, <3>2, CodeFacts DEF Enters, NotDom
    <3>5. Preheader(t) # D
      BY <3>1 DEF Free
    <3>6. t \in NotDom(d) \ R
      BY <1>4, <1>5, <3>2, <3>3, <3>4, <3>5
    <3> QED BY <1>5, <3>3, <3>6 DEF Free
  <2> QED BY <2>1, <2>2
<1> QED BY <1>3, <1>5, ReachStays

(* Where an instruction is.                                                *)
LEMMA PlaceOf ==
  ASSUME UsesInv, NEW j \in Instrs
  PROVE  /\ Home(instrs, j) \in AllBlocks /\ j \in Members(instrs[Home(instrs, j)])
         /\ \A b \in AllBlocks : j \in Members(instrs[b]) => Home(instrs, j) = b
         /\ OldHome(j) \in Blocks /\ j \in Members(prog.instrs[OldHome(j)])
         /\ \E R : Stands(Home(instrs, j), R, OldHome(j))
<1>1. GivenInv /\ TypeOK /\ PlaceInv /\ LoadInv /\ FilledInv /\ MovedInv
  BY DEF UsesInv, LoadInv, LicmInv
<1>2. Home(instrs, j) \in AllBlocks /\ j \in Members(instrs[Home(instrs, j)])
  BY <1>1, HomeIs
<1>3. \A b \in AllBlocks : j \in Members(instrs[b]) => Home(instrs, j) = b
  BY <1>1, <1>2 DEF PlaceInv
<1>4. OldHome(j) \in Blocks /\ OldHome(j) \in AllBlocks /\ j \in Members(prog.instrs[OldHome(j)])
  BY <1>1, OldHomeIs, BlockSets
<1>5. CASE j \in Members(instrs[OldHome(j)])
  BY <1>3, <1>4, <1>5, <1>2 DEF Stands
<1>6. CASE \E x \in WiredLoops : j \in Members(instrs[Preheader(x)])
  <2>1. PICK x \in WiredLoops : j \in Members(instrs[Preheader(x)])
    BY <1>6
  <2>2. x \in LoopSet /\ Preheader(x) \in AllBlocks
    BY <1>1, LoopsFacts, BlockSets DEF WiredLoops, LoopSet
  <2>3. Home(instrs, j) = Preheader(x) /\ OldHome(j) \in Region(x)
    BY <1>1, <1>3, <2>1, <2>2 DEF MovedInv
  <2> QED BY <1>2, <1>3, <1>4, <2>3 DEF Stands
<1> QED BY <1>1, <1>5, <1>6, NowAt

LEMMA FreeFacts ==
  ASSUME GivenInv, NEW D, NEW R, NEW d
  PROVE  /\ \A b \in Blocks : b \in Free(D, R, d) => b \in NotDom(d) \ R
         /\ \A x \in LoopSet : Preheader(x) \in Free(D, R, d) => Enters(x) \cap (NotDom(d) \ R) # {}
<1>1. \A x \in LoopSet : x \in Blocks /\ Preheader(x) \notin Blocks
  BY LoopsFacts, BlockSets DEF LoopSet
<1>2. \A x, y \in LoopSet : Preheader(x) = Preheader(y) => x = y
  BY <1>1, BlockSets
<1>3. NotDom(d) \subseteq Blocks
  BY DEF NotDom
<1> QED BY <1>1, <1>2, <1>3 DEF Free

(* What SSA form says of the given function.                               *)
LEMMA SsaFacts ==
  ASSUME GivenInv, NEW v \in Instrs, NEW j \in Instrs
  PROVE  /\ prog.op[j] # "phi" /\ v \in Members(prog.args[j]) =>
              IF OldHome(v) = OldHome(j) THEN Before(prog.instrs[OldHome(v)], v, j)
                                         ELSE Dominates(prog.cfg, OldHome(v), OldHome(j))
         /\ prog.op[j] = "phi" => \A m \in 1 .. Len(prog.phis[j]) :
              prog.phis[j][m][1] = v => Dominates(prog.cfg, OldHome(v), prog.phis[j][m][2])
<1>1. IsSsa(prog)
  BY ProgramsAssumption DEF GivenInv, IsCode
<1>2. /\ OldHome(v) \in Blocks /\ v \in Members(prog.instrs[OldHome(v)])
      /\ OldHome(j) \in Blocks /\ j \in Members(prog.instrs[OldHome(j)])
  BY OldHomeIs
<1> DEFINE d == OldHome(v)
           e == OldHome(j)
<1> HIDE DEF d, e
<1>3. d \in Blocks /\ v \in Members(prog.instrs[d]) /\ e \in Blocks /\ j \in Members(prog.instrs[e])
  BY <1>2 DEF d, e
<1>4. IF prog.op[j] = "phi"
        THEN \A l \in 1 .. Len(prog.phis[j]) : prog.phis[j][l][1] = v => Dominates(prog.cfg, d, prog.phis[j][l][2])
        ELSE v \in Members(prog.args[j]) =>
               IF d = e THEN Before(prog.instrs[d], v, j) ELSE Dominates(prog.cfg, d, e)
  BY <1>1, <1>3 DEF IsSsa
<1> QED BY <1>4 DEF d, e

(* An operand that is not behind the loop that computes it.                *)
LEMMA StaysAvailable ==
  ASSUME UsesInv, NEW v \in Instrs, NEW j \in Instrs,
         prog.op[j] # "phi", v \in Members(prog.args[j]), ~ LeavesLoop(v, j)
  PROVE  Available(br, instrs, phis, j, v)
<1> DEFINE d == OldHome(v)
           e == OldHome(j)
           D == Home(instrs, v)
           U == Home(instrs, j)
<1>1. GivenInv /\ MovedInv /\ OrderInv
  BY DEF UsesInv, LoadInv, LicmInv
<1>2. /\ d \in Blocks /\ D \in AllBlocks /\ v \in Members(instrs[D])
      /\ \A b \in AllBlocks : v \in Members(instrs[b]) => D = b
  BY PlaceOf
<1>3. /\ e \in Blocks /\ U \in AllBlocks /\ j \in Members(instrs[U])
  BY PlaceOf
<1>4. PICK R : Stands(D, R, d)
  BY PlaceOf
<1>5. PICK Q : Stands(U, Q, e)
  BY PlaceOf
<1>6. IF d = e THEN Before(prog.instrs[d], v, j) ELSE Dominates(prog.cfg, d, e)
  BY <1>1, SsaFacts
<1>7. Available(br, instrs, phis, j, v) <=>
        IF D = U THEN Before(instrs[U], v, j) ELSE U = D \/ U \notin ReachAvoiding(br, D)
  BY DEF Available
<1>8. \A x \in WiredLoops : x \in LoopSet /\ Preheader(x) \in AllBlocks \ Blocks
  BY <1>1, LoopsFacts, BlockSets DEF WiredLoops, LoopSet
<1> HIDE DEF d, e, D, U
<1>9. ReachAvoiding(br, D) \subseteq Free(D, R, d)
  BY <1>2, <1>4, FreeClosed
<1>10. /\ \A b \in Blocks : b \in Free(D, R, d) => b \in NotDom(d) \ R
       /\ \A x \in LoopSet : Preheader(x) \in Free(D, R, d) => Enters(x) \cap (NotDom(d) \ R) # {}
  BY <1>1, FreeFacts
(* j is where it was.                                                      *)
<1>11. CASE U = e
  <2>1. CASE d = e
    <3>1. CASE D = d
      <4>1. Before(instrs[d], v, j)
        BY <1>1, <1>2, <1>3, <1>6, <1>11, <2>1, <3>1 DEF OrderInv
      <4> QED BY <1>7, <1>11, <2>1, <3>1, <4>1
    <3>2. CASE D # d
      <4>1. d \in R
        BY <1>4, <3>2 DEF Stands
      <4>2. U \notin Free(D, R, d)
        BY <1>3, <1>10, <1>11, <2>1, <4>1
      <4> QED BY <1>7, <1>9, <1>11, <2>1, <3>2, <4>2
    <3> QED BY <3>1, <3>2
  <2>2. CASE d # e
    <3>1. e \notin NotDom(d)
      BY <1>6, <2>2 DEF NotDom
    <3>2. U \notin Free(D, R, d)
      BY <1>3, <1>10, <1>11, <3>1
    <3>3. D # U
      BY <1>3, <1>4, <1>8, <1>11, <2>2 DEF Stands
    <3> QED BY <1>7, <1>9, <3>2, <3>3
  <2> QED BY <2>1, <2>2
(* j is in the preheader of a loop.                                        *)
<1>12. CASE \E x \in WiredLoops : U = Preheader(x) /\ Q = Region(x) /\ e \in Q
  <2>1. PICK x \in WiredLoops : U = Preheader(x) /\ e \in Region(x)
    BY <1>12
  <2>2. x \in LoopSet /\ U \notin Blocks
    BY <1>8, <2>1
  <2>3. CASE d \in Region(x)
    <3>1. Needs(x, j, v)
      BY <2>3 DEF Needs, Uses, d
    <3>2. \/ Before(instrs[U], v, j)
          \/ \E y \in LoopSet \ {x} : Encloses(y, x) /\ v \in Members(instrs[Preheader(y)])
      BY <1>1, <1>3, <2>1, <2>2, <3>1 DEF MovedInv
    <3>3. CASE Before(instrs[U], v, j)
      <4>1. v \in Members(instrs[U])
        BY <3>3 DEF Before, Members
      <4>2. D = U
        BY <1>2, <1>3, <4>1
      <4> QED BY <1>7, <3>3, <4>2
    <3>4. CASE \E y \in LoopSet \ {x} : Encloses(y, x) /\ v \in Members(instrs[Preheader(y)])
      <4>1. PICK y \in LoopSet \ {x} : Encloses(y, x) /\ v \in Members(instrs[Preheader(y)])
        BY <3>4
      <4>2. y \in Blocks /\ x \in Blocks /\ Preheader(y) \in AllBlocks \ Blocks
        BY <1>1, <2>2, LoopsFacts, BlockSets DEF LoopSet
      <4>3. D = Preheader(y)
        BY <1>2, <4>1, <4>2
      <4>4. D # U
        BY <2>1, <4>1, <4>2, <4>3, BlockSets
      <4>5. R = Region(y)
        <5>1. PICK z \in WiredLoops : D = Preheader(z) /\ R = Region(z) /\ d \in R
          BY <1>2, <1>4, <4>2, <4>3 DEF Stands
        <5>2. z = y
          BY <1>1, <1>8, <4>2, <4>3, <5>1, LoopsFacts, BlockSets DEF LoopSet
        <5> QED BY <5>1, <5>2
      <4>6. Enters(x) \subseteq Region(y)
        <5>1. x \in Region(x) /\ Region(x) \subseteq Region(y)
          BY <1>1, <2>2, <4>1, RegionFacts
        <5>2. Members(prog.cfg.pre[x]) \subseteq Region(y)
          BY <1>1, <4>1, <5>1, RegionFacts
        <5> QED BY <5>2 DEF Enters
      <4>7. U \notin Free(D, R, d)
        BY <1>10, <2>1, <2>2, <4>5, <4>6
      <4> QED BY <1>7, <1>9, <4>4, <4>7
    <3> QED BY <3>2, <3>3, <3>4
  <2>4. CASE d \notin Region(x)
    <3>1. Dominates(prog.cfg, d, e)
      BY <1>6, <2>1, <2>4
    <3>2. Enters(x) \cap NotDom(d) = {}
      BY <1>1, <1>2, <2>1, <2>2, <2>4, <3>1, RegionThrough
    <3>3. U \notin Free(D, R, d)
      BY <1>10, <2>1, <2>2, <3>2
    <3>4. D # U
      <4> SUFFICES ASSUME D = U PROVE FALSE
        OBVIOUS
      <4>1. PICK z \in WiredLoops : D = Preheader(z) /\ R = Region(z) /\ d \in R
        BY <1>2, <1>4, <2>2 DEF Stands
      <4>2. z = x
        BY <1>1, <1>8, <2>1, <2>2, <4>1, LoopsFacts, BlockSets DEF LoopSet
      <4> QED BY <2>4, <4>1, <4>2
    <3> QED BY <1>7, <1>9, <3>3, <3>4
  <2> QED BY <2>3, <2>4
<1> QED BY <1>5, <1>11, <1>12 DEF Stands

(* A phi stays in its block, and the branches its pairs name come from the *)
(* same side.                                                              *)
LEMMA PhiStaysAvailable ==
  ASSUME UsesInv, NEW v \in Instrs, NEW j \in Instrs, prog.op[j] = "phi"
  PROVE  Available(br, instrs, phis, j, v)
<1> DEFINE d == OldHome(v)
           D == Home(instrs, v)
<1>1. GivenInv /\ PhiSourceInv
  BY DEF UsesInv, LoadInv, LicmInv
<1>2. d \in Blocks
  BY PlaceOf
<1>3. PICK R : Stands(D, R, d)
  BY PlaceOf
<1>4. \A m \in 1 .. Len(prog.phis[j]) : prog.phis[j][m][1] = v =>
        prog.phis[j][m][2] \notin NotDom(d)
  BY <1>1, SsaFacts DEF NotDom
<1> HIDE DEF d
<1>5. ReachAvoiding(br, D) \subseteq Free(D, R, d)
  BY <1>2, <1>3, FreeClosed
<1>6. /\ \A b \in Blocks : b \in Free(D, R, d) => b \in NotDom(d) \ R
      /\ \A x \in LoopSet : Preheader(x) \in Free(D, R, d) => Enters(x) \cap (NotDom(d) \ R) # {}
  BY <1>1, FreeFacts
<1>7. ASSUME NEW l \in 1 .. Len(phis[j]), phis[j][l][1] = v
      PROVE  phis[j][l][2] \notin ReachAvoiding(br, D)
  <2>1. PICK m \in 1 .. Len(prog.phis[j]) : PairFrom(phis[j][l], prog.phis[j][m])
    BY <1>1 DEF PhiSourceInv
  <2>2. prog.phis[j][m][2] \in Blocks
    <3>1. prog.phis[j] \in Seq(Values \X Blocks)
      BY <1>1, CodeFacts
    <3>2. prog.phis[j][m] \in Values \X Blocks
      BY <3>1
    <3> QED BY <3>2
  <2>3. prog.phis[j][m][1] = v /\ prog.phis[j][m][2] \notin NotDom(d)
    BY <1>4, <1>7, <2>1 DEF PairFrom
  <2>4. CASE phis[j][l][2] = prog.phis[j][m][2]
    BY <1>5, <1>6, <2>2, <2>3, <2>4
  <2>5. CASE \E h \in LoopSet : phis[j][l][2] = Preheader(h) /\ prog.phis[j][m][2] \in Enters(h)
    <3>1. PICK h \in LoopSet : phis[j][l][2] = Preheader(h) /\ prog.phis[j][m][2] \in Enters(h)
      BY <2>5
    <3>2. PICK q : Enters(h) = {q}
      BY <1>1, RegionFacts DEF Enters
    <3>3. Enters(h) = {prog.phis[j][m][2]}
      BY <3>1, <3>2
    <3> QED BY <1>5, <1>6, <2>3, <3>1, <3>3
  <2> QED BY <2>1, <2>4, <2>5 DEF PairFrom, Enters
<1> QED BY <1>7 DEF Available

(* Moving breaks SSA form nowhere but behind an inner loop whose value is  *)
(* used there: for every function in SSA form (LICM.cpp:47-48, 96).        *)
THEOREM NestedUsesOnly == Spec => []OnlyNestedUsesBreak
<1>1. Init => UsesInv
  BY UsesInvInit
<1>2. UsesInv /\ [Next]_vars => UsesInv'
  BY UsesInvStep
<1>3. UsesInv => OnlyNestedUsesBreak
  <2> SUFFICES ASSUME UsesInv, NEW j \in Instrs, NEW v \in Operands(j), ~ LeavesLoop(v, j)
               PROVE  Available(br, instrs, phis, j, v)
    BY DEF OnlyNestedUsesBreak
  <2>1. CASE prog.op[j] = "phi"
    BY <2>1, PhiStaysAvailable DEF Operands
  <2>2. CASE prog.op[j] # "phi"
    BY <2>2, StaysAvailable DEF Operands
  <2> QED BY <2>1, <2>2
<1> QED BY <1>1, <1>2, <1>3, PTL DEF Spec
=============================================================================
