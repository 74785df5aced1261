----------------------------- MODULE CfgProofs -----------------------------
(***************************************************************************)
(* Control flow graphs: what follows from the definition of dominance, for *)
(* every graph, with the facts about numbers and sequences that the proofs *)
(* about the passes share.                                                 *)
(***************************************************************************)
EXTENDS Cfg, SequenceTheorems, WellFoundedInduction, TLAPS

-----------------------------------------------------------------------------
(* Numbers and sequences.                                                  *)

LEMMA LeastNat ==
  ASSUME NEW T \in SUBSET Nat, T # {}
  PROVE  \E n \in T : \A m \in T : n <= m
<1> DEFINE R == OpToRel(<, Nat)
<1>1. \A x, y \in Nat : <<x, y>> \in R <=> x < y
  BY DEF OpToRel
<1>2. IsWellFoundedOn(R, Nat)
  BY NatLessThanWellFounded
<1> HIDE DEF R
<1>3. PICK n \in T : \A m \in T : ~ (<<m, n>> \in R)
  BY <1>2, WFMin
<1>4. ASSUME NEW m \in T PROVE n <= m
  <2>1. m \in Nat /\ n \in Nat
    OBVIOUS
  <2>2. ~ (m < n)
    BY <1>1, <1>3, <2>1
  <2> QED BY <2>1, <2>2
<1> QED BY <1>4

(* Induction on the natural numbers, for a set.                            *)
LEMMA NatSetInduction ==
  ASSUME NEW S, 0 \in S, \A n \in Nat : n \in S => n + 1 \in S
  PROVE  Nat \subseteq S
<1> DEFINE T == Nat \ S
<1> SUFFICES ASSUME T # {} PROVE FALSE
  OBVIOUS
<1>1. PICK n \in T : \A m \in T : n <= m
  BY LeastNat
<1>2. n # 0 /\ n - 1 \in Nat /\ n - 1 \notin T
  BY <1>1
<1>3. n - 1 + 1 \in S
  BY <1>2
<1> QED BY <1>1, <1>2, <1>3

LEMMA MembersAppend ==
  ASSUME NEW S, NEW s \in Seq(S), NEW e \in S
  PROVE  /\ Append(s, e) \in Seq(S)
         /\ Members(Append(s, e)) = Members(s) \cup {e}
<1>1. /\ Len(Append(s, e)) = Len(s) + 1
      /\ \A j \in 1 .. Len(s) : Append(s, e)[j] = s[j]
      /\ Append(s, e)[Len(s) + 1] = e
      /\ Len(s) \in Nat
  OBVIOUS
<1>2. ASSUME NEW x \in Members(Append(s, e)) PROVE x \in Members(s) \cup {e}
  <2>1. PICK j \in 1 .. Len(s) + 1 : x = Append(s, e)[j]
    BY <1>1, <1>2 DEF Members
  <2>2. CASE j = Len(s) + 1
    BY <1>1, <2>1, <2>2
  <2>3. CASE j # Len(s) + 1
    BY <1>1, <2>1, <2>3 DEF Members
  <2> QED BY <2>2, <2>3
<1>3. ASSUME NEW x \in Members(s) PROVE x \in Members(Append(s, e))
  <2>1. PICK j \in 1 .. Len(s) : x = s[j]
    BY <1>3 DEF Members
  <2>2. j \in 1 .. Len(Append(s, e)) /\ x = Append(s, e)[j]
    BY <1>1, <2>1
  <2> QED BY <2>2 DEF Members
<1>4. e \in Members(Append(s, e))
  <2>1. Len(s) + 1 \in 1 .. Len(Append(s, e))
    BY <1>1
  <2> QED BY <1>1, <2>1 DEF Members
<1> QED BY <1>2, <1>3, <1>4

LEMMA MembersConcat ==
  ASSUME NEW S, NEW s \in Seq(S), NEW t \in Seq(S)
  PROVE  s \o t \in Seq(S) /\ Members(s \o t) = Members(s) \cup Members(t)
<1> DEFINE m == Len(s)
           n == Len(t)
<1>1. /\ m \in Nat /\ n \in Nat /\ s \o t \in Seq(S) /\ Len(s \o t) = m + n
      /\ \A j \in 1 .. m : (s \o t)[j] = s[j]
      /\ \A j \in 1 .. n : (s \o t)[m + j] = t[j]
  OBVIOUS
<1> HIDE DEF m, n
<1>2. \A j \in 1 .. m : j \in 1 .. m + n
  BY <1>1
<1>3. \A j \in 1 .. n : m + j \in 1 .. m + n
  BY <1>1
<1>4. \A j \in 1 .. m + n : j \in 1 .. m \/ (j - m \in 1 .. n /\ m + (j - m) = j)
  BY <1>1
<1>5. Members(s) \cup Members(t) \subseteq Members(s \o t)
  BY <1>1, <1>2, <1>3 DEF Members, m, n
<1>6. ASSUME NEW x \in Members(s \o t) PROVE x \in Members(s) \cup Members(t)
  <2>1. PICK j \in 1 .. m + n : x = (s \o t)[j]
    BY <1>1, <1>6 DEF Members
  <2>2. CASE j \in 1 .. m
    BY <1>1, <2>1, <2>2 DEF Members, m
  <2>3. CASE j - m \in 1 .. n /\ m + (j - m) = j
    <3>1. x = t[j - m]
      BY <1>1, <2>1, <2>3
    <3> QED BY <2>3, <3>1 DEF Members, n
  <2> QED BY <1>4, <2>2, <2>3
<1> QED BY <1>1, <1>5, <1>6

LEMMA PopFacts ==
  ASSUME NEW S, NEW s \in Seq(S), s # << >>
  PROVE  LET t == SubSeq(s, 1, Len(s) - 1)
         IN  /\ t \in Seq(S)
             /\ Len(t) = Len(s) - 1
             /\ Len(s) \in Nat \ {0}
             /\ \A j \in 1 .. Len(s) - 1 : t[j] = s[j]
             /\ s[Len(s)] \in S
             /\ Members(s) = Members(t) \cup {s[Len(s)]}
<1> DEFINE t == SubSeq(s, 1, Len(s) - 1)
<1>1. Len(s) \in Nat \ {0}
  OBVIOUS
<1>2. /\ t \in Seq(S)
      /\ Len(t) = Len(s) - 1
      /\ \A j \in 1 .. Len(s) - 1 : t[j] = s[j]
      /\ s[Len(s)] \in S
  <2>1. \A j \in 1 .. Len(s) - 1 : s[j] \in S
    BY <1>1
  <2>2. s[Len(s)] \in S
    BY <1>1
  <2> DEFINE n == Len(s) - 1
  <2>3. n \in Nat /\ 1 \in Int /\ n \in Int
    BY <1>1
  <2>4. \A j \in 1 .. n : s[j] \in S
    BY <2>1
  <2> HIDE DEF n
  <2>5. /\ SubSeq(s, 1, n) \in Seq(S)
        /\ Len(SubSeq(s, 1, n)) = IF 1 <= n THEN n - 1 + 1 ELSE 0
        /\ \A j \in 1 .. n - 1 + 1 : SubSeq(s, 1, n)[j] = s[1 + j - 1]
    BY <2>3, <2>4, SubSeqProperties
  <2>6. /\ SubSeq(s, 1, n) \in Seq(S)
        /\ Len(SubSeq(s, 1, n)) = n
        /\ \A j \in 1 .. n : SubSeq(s, 1, n)[j] = s[j]
    BY <2>3, <2>5
  <2> QED BY <2>2, <2>6 DEF n
<1> HIDE DEF t
<1>3. ASSUME NEW x \in Members(s) PROVE x \in Members(t) \cup {s[Len(s)]}
  <2>1. PICK j \in 1 .. Len(s) : x = s[j]
    BY <1>3 DEF Members
  <2>2. CASE j = Len(s)
    BY <2>1, <2>2
  <2>3. CASE j # Len(s)
    <3>1. j \in 1 .. Len(t) /\ x = t[j]
      BY <1>1, <1>2, <2>1, <2>3
    <3> QED BY <3>1 DEF Members
  <2> QED BY <2>2, <2>3
<1>4. ASSUME NEW x \in Members(t) PROVE x \in Members(s)
  <2>1. PICK j \in 1 .. Len(t) : x = t[j]
    BY <1>4 DEF Members
  <2>2. j \in 1 .. Len(s) /\ x = s[j]
    BY <1>1, <1>2, <2>1
  <2> QED BY <2>2 DEF Members
<1>5. s[Len(s)] \in Members(s)
  BY <1>1 DEF Members
<1> QED BY <1>1, <1>2, <1>3, <1>4, <1>5 DEF t
-----------------------------------------------------------------------------
(* Dominance.                                                              *)

LEMMA EntryInBlocks == Entry \in Blocks
BY NAssumption DEF Entry, Blocks

LEMMA NullNotBlock == nullptr \notin Blocks
BY NAssumption DEF nullptr, Blocks

(* Nothing but the entry dominates the entry.                              *)
LEMMA DominatesEntry ==
  ASSUME NEW g, NEW d \in Blocks, Dominates(g, d, Entry)
  PROVE  d = Entry
BY DEF Dominates, AvoidSet

(* A strict dominator of a block dominates each of its predecessors.       *)
LEMMA DominatesPred ==
  ASSUME NEW g, NEW x \in Blocks, NEW y \in Blocks, Edge(g, x, y),
         NEW d \in Blocks, StrictlyDominates(g, d, y)
  PROVE  Dominates(g, d, x)
<1>1. PICK S \in SUBSET (Blocks \ {d, y}) : AvoidSet(g, d, S)
  BY DEF StrictlyDominates, Dominates
<1>2. x \notin S
  BY <1>1 DEF AvoidSet, StrictlyDominates
<1>3. S \in SUBSET (Blocks \ {d, x})
  BY <1>1, <1>2
<1> QED BY <1>1, <1>3 DEF Dominates

LEMMA PredEdge ==
  ASSUME NEW g, IsCfg(g), NEW y \in Blocks, NEW j \in 1 .. Len(g.pre[y])
  PROVE  g.pre[y][j] \in Blocks /\ Edge(g, g.pre[y][j], y)
<1>1. g.pre[y] \in Seq(Blocks)
  BY DEF IsCfg
<1>2. g.pre[y][j] \in Blocks /\ g.pre[y][j] \in Members(g.pre[y])
  BY <1>1 DEF Members
<1> QED BY <1>2 DEF IsCfg, Edge

LEMMA SuccEdge ==
  ASSUME NEW g, IsCfg(g), NEW x \in Blocks, NEW j \in 1 .. Len(g.succ[x])
  PROVE  g.succ[x][j] \in Blocks /\ Edge(g, x, g.succ[x][j])
<1>1. g.succ[x] \in Seq(Blocks)
  BY DEF IsCfg
<1> QED BY <1>1 DEF Members, Edge

USE EntryInBlocks, NullNotBlock

(* Dominance is a partial order on the reachable blocks.                   *)
LEMMA DomRefl ==
  ASSUME NEW g, NEW b \in Blocks
  PROVE  Dominates(g, b, b)
BY DEF Dominates

LEMMA DomTrans ==
  ASSUME NEW g, NEW a \in Blocks, NEW c \in Blocks, NEW b \in Blocks,
         Dominates(g, a, c), Dominates(g, c, b)
  PROVE  Dominates(g, a, b)
<1>1. CASE a = b \/ a = c \/ c = b
  BY <1>1 DEF Dominates
<1>2. CASE a # b /\ a # c /\ c # b
  <2>1. PICK S1 \in SUBSET (Blocks \ {a, c}) : AvoidSet(g, a, S1)
    BY <1>2 DEF Dominates
  <2>2. PICK S2 \in SUBSET (Blocks \ {c, b}) : AvoidSet(g, c, S2)
    BY <1>2 DEF Dominates
  <2> DEFINE S == S1 \cap S2
  <2>3. S \in SUBSET (Blocks \ {a, b})
    OBVIOUS
  <2>4. AvoidSet(g, a, S)
    BY <1>2, <2>1, <2>2 DEF AvoidSet
  <2> QED BY <2>3, <2>4 DEF Dominates
<1> QED BY <1>1, <1>2

LEMMA DomAntisym ==
  ASSUME NEW g, NEW a \in Blocks, NEW b \in Blocks, Reachable(g, b),
         Dominates(g, a, b), Dominates(g, b, a)
  PROVE  a = b
<1> SUFFICES ASSUME a # b PROVE FALSE
  OBVIOUS
<1>1. PICK S1 \in SUBSET (Blocks \ {a, b}) : AvoidSet(g, a, S1)
  BY DEF Dominates
<1>2. PICK S2 \in SUBSET (Blocks \ {b, a}) : AvoidSet(g, b, S2)
  BY DEF Dominates
<1>3. Entry \in S1 /\ Entry \in S2
  BY <1>1, <1>2, DominatesEntry DEF AvoidSet
<1>4. Closed(g, S1 \cap S2)
  BY <1>1, <1>2 DEF AvoidSet, Closed
<1>5. b \in S1 \cap S2
  <2>1. S1 \cap S2 \in SUBSET Blocks
    OBVIOUS
  <2> QED BY <1>3, <1>4, <2>1 DEF Reachable
<1> QED BY <1>1, <1>5

(* Two dominators of a reachable block: one dominates the other.           *)
LEMMA DomTotal ==
  ASSUME NEW g, NEW a \in Blocks, NEW c \in Blocks, NEW b \in Blocks, Reachable(g, b),
         Dominates(g, a, b), Dominates(g, c, b)
  PROVE  Dominates(g, a, c) \/ Dominates(g, c, a)
<1> SUFFICES ASSUME ~ Dominates(g, a, c), ~ Dominates(g, c, a) PROVE FALSE
  OBVIOUS
<1>1. a # b /\ c # b
  OBVIOUS
<1>2. PICK S1 \in SUBSET (Blocks \ {a, b}) : AvoidSet(g, a, S1)
  BY <1>1 DEF Dominates
<1>3. PICK S2 \in SUBSET (Blocks \ {c, b}) : AvoidSet(g, c, S2)
  BY <1>1 DEF Dominates
<1>4. c \in S1
  <2> SUFFICES ASSUME c \notin S1 PROVE FALSE
    OBVIOUS
  <2>1. S1 \in SUBSET (Blocks \ {a, c})
    BY <1>2
  <2> QED BY <1>2, <2>1 DEF Dominates
<1>5. a \in S2
  <2> SUFFICES ASSUME a \notin S2 PROVE FALSE
    OBVIOUS
  <2>1. S2 \in SUBSET (Blocks \ {c, a})
    BY <1>3
  <2> QED BY <1>3, <2>1 DEF Dominates
<1> DEFINE S == S1 \cup S2
<1>6. Entry \in S /\ Closed(g, S) /\ S \in SUBSET Blocks
  BY <1>2, <1>3, <1>4, <1>5 DEF AvoidSet, Closed
<1>7. b \notin S
  BY <1>2, <1>3
<1> HIDE DEF S
<1> QED BY <1>6, <1>7 DEF Reachable

LEMMA SuccReachable ==
  ASSUME NEW g, NEW x \in Blocks, NEW y \in Blocks, Reachable(g, x), Edge(g, x, y)
  PROVE  Reachable(g, y)
BY DEF Reachable, Closed

LEMMA DominatorReachable ==
  ASSUME NEW g, NEW d \in Blocks, NEW b \in Blocks, Reachable(g, b), Dominates(g, d, b)
  PROVE  Reachable(g, d)
<1> SUFFICES ASSUME ~ Reachable(g, d) PROVE FALSE
  OBVIOUS
<1>1. PICK S \in SUBSET (Blocks \ {d, b}) : AvoidSet(g, d, S)
  BY DEF Dominates
<1>2. Reachable(g, Entry)
  BY DEF Reachable
<1> DEFINE T == {x \in S : Reachable(g, x)}
<1>3. Entry \in T
  BY <1>1, <1>2 DEF AvoidSet
<1>4. Closed(g, T)
  <2> SUFFICES ASSUME NEW x \in T, NEW y \in Blocks, Edge(g, x, y) PROVE y \in T
    BY DEF Closed
  <2>1. Reachable(g, y)
    BY SuccReachable
  <2>2. y # d
    BY <2>1
  <2> QED BY <1>1, <2>1, <2>2 DEF AvoidSet
<1>5. T \in SUBSET Blocks
  BY <1>1
<1> HIDE DEF T
<1>6. b \in T
  BY <1>3, <1>4, <1>5 DEF Reachable
<1> QED BY <1>1, <1>6 DEF T

(* A reachable block with one predecessor: what dominates that dominates   *)
(* it strictly.                                                            *)
LEMMA OnePred ==
  ASSUME NEW g, NEW p \in Blocks, NEW b \in Blocks \ {Entry}, Reachable(g, b),
         \A x \in Blocks : Edge(g, x, b) => x = p,
         NEW d \in Blocks, Dominates(g, d, p)
  PROVE  StrictlyDominates(g, d, b)
<1>1. p # b
  <2> SUFFICES ASSUME p = b PROVE FALSE
    OBVIOUS
  <2> DEFINE S == Blocks \ {b}
  <2>1. Entry \in S /\ S \in SUBSET Blocks
    OBVIOUS
  <2>2. Closed(g, S)
    BY DEF Closed
  <2>3. b \in S
    BY <2>1, <2>2 DEF Reachable
  <2> QED BY <2>3
<1>2. Reachable(g, p)
  <2> SUFFICES ASSUME ~ Reachable(g, p) PROVE FALSE
    OBVIOUS
  <2> DEFINE S == {x \in Blocks \ {b} : Reachable(g, x)}
  <2>1. Entry \in S /\ S \in SUBSET Blocks
    BY DEF Reachable
  <2>2. Closed(g, S)
    <3> SUFFICES ASSUME NEW x \in S, NEW y \in Blocks, Edge(g, x, y) PROVE y \in S
      BY DEF Closed
    <3>1. Reachable(g, y)
      BY SuccReachable
    <3>2. y # b
      OBVIOUS
    <3> QED BY <3>1, <3>2
  <2> HIDE DEF S
  <2>3. b \in S
    BY <2>1, <2>2 DEF Reachable
  <2> QED BY <2>3 DEF S
<1>3. CASE d = p
  <2> DEFINE S == Blocks \ {p, b}
  <2>1. AvoidSet(g, p, S)
    BY DEF AvoidSet
  <2>2. Dominates(g, d, b)
    BY <1>3, <2>1 DEF Dominates
  <2> QED BY <1>1, <1>3, <2>2 DEF StrictlyDominates
<1>4. CASE d # p
  <2>1. PICK S \in SUBSET (Blocks \ {d, p}) : AvoidSet(g, d, S)
    BY <1>4 DEF Dominates
  <2>2. d # b
    <3> SUFFICES ASSUME d = b PROVE FALSE
      OBVIOUS
    <3>1. Entry \in S /\ Closed(g, S)
      BY <2>1 DEF AvoidSet, Closed
    <3> QED BY <1>2, <2>1, <3>1 DEF Reachable
  <2>3. AvoidSet(g, d, S \ {b})
    BY <2>1 DEF AvoidSet
  <2>4. S \ {b} \in SUBSET (Blocks \ {d, b})
    BY <2>1
  <2> QED BY <2>2, <2>3, <2>4 DEF Dominates, StrictlyDominates
<1> QED BY <1>3, <1>4
=============================================================================
