---------------------------- MODULE DeadCodeProofs ----------------------------
(***************************************************************************)
(* What DeadCode and FuncInfo promise, for every function and every module *)
(* of every size.  DeadCode comes first; FuncInfo, whose answer it asks    *)
(* for (is_critical), follows as an instance.                              *)
(*                                                                         *)
(* The argument: a block with an origin is never unused, so what is        *)
(* deleted with a block has none.  Within a round, marked is closed under  *)
(* operands but for the work list, and it is the least set that is, so     *)
(* the sweep takes neither an operand of what stays nor leaves anything    *)
(* that nothing needs, once a round deletes nothing.                       *)
(***************************************************************************)
EXTENDS DeadCode, Purity, CfgProofs

(***************************************************************************)
(* The inductive invariant, in named parts.                                *)
(***************************************************************************)
Origins == {b \in Blocks : HasOrigin(b)}

(* The graph: only blocks without an origin are gone.                      *)
GraphInv ==
  /\ Origins \subseteq blocks
  /\ \A x \in blocks : /\ succ[x] = Members(prog.cfg.succ[x])
                       /\ pre[x] = Members(prog.cfg.pre[x]) \cap blocks

(* The code: what is left is in the blocks that are left; its operands are *)
(* what they were, or null if deleted; only what can be reached from no    *)
(* origin is missing from them.                                            *)
CodeInv ==
  /\ \A i \in instrs : prog.at[i] \in blocks
  /\ \A i \in Instrs : is_critical(i) /\ prog.at[i] \in Origins => i \in instrs
  /\ \A i \in instrs : Len(operands[i]) = Len(prog.ops[i])
  /\ \A i \in instrs : \A l \in 1 .. Len(prog.ops[i]) :
       LET d == prog.ops[i][l]
       IN  /\ operands[i][l] = IF d \in instrs THEN d ELSE nullptr
           /\ prog.at[d] \in Origins => d \in instrs

(* The operands of i from position from on need no more marking.           *)
Followed(i, upto) == \A l \in 1 .. Len(operands[i]) :
  l < upto => operands[i][l] \in marked \cup {nullptr}

(* The least set of instructions a round can keep.                         *)
Keeps(S) ==
  /\ Critical \subseteq S
  /\ \A i \in S : \A l \in 1 .. Len(operands[i]) : operands[i][l] \in S \cup {nullptr}

Quiet == pc \in {"again", "done"} /\ ~ changed

MarkInv ==
  /\ pc \in {"mark", "operands", "sweep"} \/ Quiet =>
       /\ marked \subseteq instrs
       /\ Critical \subseteq marked
       /\ Members(work_list) \subseteq marked
       /\ \A S \in SUBSET instrs : Keeps(S) => marked \subseteq S
       /\ \A i \in marked :
            \/ i \in Members(work_list)
            \/ pc = "operands" /\ i = ins /\ Followed(i, k)
            \/ Followed(i, Len(operands[i]) + 1)
  /\ pc = "operands" => ins \in marked
  /\ pc = "sweep" => work_list = << >>

(* A round that changes nothing found nothing to delete.                   *)
RoundInv ==
  /\ pc = "clear" => ~ changed
  /\ pc # "clear" /\ ~ changed => Unused = {}
  /\ Quiet => instrs = marked /\ work_list = << >>
  /\ pc = "done" => ~ changed

IInv == prog \in Programs /\ TypeOK /\ GraphInv /\ CodeInv /\ MarkInv /\ RoundInv
-----------------------------------------------------------------------------
(***************************************************************************)
(* Sequences.                                                              *)
(***************************************************************************)
LEMMA MembersTail ==
  ASSUME NEW S, NEW s \in Seq(S), s # << >>
  PROVE  /\ Head(s) \in S /\ Tail(s) \in Seq(S)
         /\ Members(s) = Members(Tail(s)) \cup {Head(s)}
<1>1. /\ Len(s) \in Nat \ {0} /\ Head(s) = s[1] /\ s[1] \in S
      /\ Len(Tail(s)) = Len(s) - 1
      /\ \A j \in 1 .. Len(Tail(s)) : Tail(s)[j] = s[j + 1]
  OBVIOUS
<1>2. ASSUME NEW x \in Members(s) PROVE x \in Members(Tail(s)) \cup {Head(s)}
  <2>1. PICK j \in 1 .. Len(s) : x = s[j]
    BY <1>2 DEF Members
  <2>2. CASE j = 1
    BY <1>1, <2>1, <2>2
  <2>3. CASE j # 1
    <3>1. j - 1 \in 1 .. Len(Tail(s)) /\ Tail(s)[j - 1] = s[(j - 1) + 1]
      BY <1>1, <2>1, <2>3
    <3>2. (j - 1) + 1 = j
      BY <1>1, <2>1
    <3> QED BY <2>1, <3>1, <3>2 DEF Members
  <2> QED BY <2>2, <2>3
<1>3. ASSUME NEW x \in Members(Tail(s)) PROVE x \in Members(s)
  <2>1. PICK j \in 1 .. Len(Tail(s)) : x = Tail(s)[j]
    BY <1>3 DEF Members
  <2>2. j + 1 \in 1 .. Len(s) /\ x = s[j + 1]
    BY <1>1, <2>1
  <2> QED BY <2>2 DEF Members
<1>4. Head(s) \in Members(s)
  BY <1>1 DEF Members
<1> QED BY <1>1, <1>2, <1>3, <1>4

(* InOrder lists the members of the set, and nothing else.                 *)
LEMMA InOrderMembers ==
  ASSUME NEW I \in SUBSET Instrs
  PROVE  InOrder(I) \in Seq(Instrs) /\ Members(InOrder(I)) = I
<1> USE NInstrAssumption
<1> DEFINE Body(F, m) == [n \in 0 .. m |->
             IF n = 0 THEN << >> ELSE IF n \in I THEN Append(F[n - 1], n) ELSE F[n - 1]]
           Good == {m \in Nat : \E F : F = Body(F, m)}
<1>1. 0 \in Good
  <2>1. [n \in 0 .. 0 |-> << >>] = Body([n \in 0 .. 0 |-> << >>], 0)
    OBVIOUS
  <2> QED BY <2>1
<1>2. ASSUME NEW m \in Nat, m \in Good PROVE m + 1 \in Good
  <2>1. PICK F : F = Body(F, m)
    BY <1>2
  <2> DEFINE G == [n \in 0 .. m + 1 |->
                IF n <= m THEN F[n] ELSE IF n \in I THEN Append(F[m], n) ELSE F[m]]
  <2>2. \A n \in 0 .. m + 1 : G[n] = Body(G, m + 1)[n]
    <3>1. \A n \in 0 .. m : F[n] = IF n = 0 THEN << >>
                                   ELSE IF n \in I THEN Append(F[n - 1], n) ELSE F[n - 1]
      BY <2>1
    <3> SUFFICES ASSUME NEW n \in 0 .. m + 1 PROVE G[n] = Body(G, m + 1)[n]
      OBVIOUS
    <3>2. CASE n = m + 1
      BY <3>2
    <3>3. CASE n \in 0 .. m
      <4>1. n # 0 => n - 1 \in 0 .. m
        BY <3>3
      <4> QED BY <3>1, <3>3, <4>1
    <3> QED BY <3>2, <3>3
  <2>3. G = Body(G, m + 1)
    BY <2>2
  <2>4. m + 1 \in Nat
    OBVIOUS
  <2> QED BY <2>3, <2>4
<1> HIDE DEF Good
<1>3. NInstr \in Good
  BY <1>1, <1>2, NatSetInduction
<1>4. \E F : F = Body(F, NInstr)
  BY <1>3 DEF Good
<1> DEFINE H == CHOOSE F : F = Body(F, NInstr)
<1>5. InOrder(I) = H[NInstr]
  BY DEF InOrder
<1>6. H = Body(H, NInstr)
  BY <1>4
<1> HIDE DEF H
<1>7. /\ H[0] = << >>
      /\ \A n \in 1 .. NInstr : H[n] = IF n \in I THEN Append(H[n - 1], n) ELSE H[n - 1]
  <2>1. \A n \in 0 .. NInstr : H[n] = IF n = 0 THEN << >>
                                      ELSE IF n \in I THEN Append(H[n - 1], n) ELSE H[n - 1]
    BY <1>6
  <2> QED BY <2>1
<1> DEFINE Listed == {n \in Nat : n <= NInstr =>
             H[n] \in Seq(Instrs) /\ Members(H[n]) = I \cap (1 .. n)}
<1>8. 0 \in Listed
  <2>1. H[0] = << >> /\ << >> \in Seq(Instrs) /\ Members(<< >>) = {}
    BY <1>7 DEF Members
  <2>2. I \cap (1 .. 0) = {}
    OBVIOUS
  <2> QED BY <2>1, <2>2
<1>9. ASSUME NEW n \in Nat, n \in Listed PROVE n + 1 \in Listed
  <2> SUFFICES ASSUME n + 1 <= NInstr
               PROVE  H[n + 1] \in Seq(Instrs) /\ Members(H[n + 1]) = I \cap (1 .. n + 1)
    OBVIOUS
  <2>1. n + 1 \in Instrs /\ H[n] \in Seq(Instrs) /\ Members(H[n]) = I \cap (1 .. n)
    BY <1>9 DEF Instrs
  <2>2. H[n + 1] = IF n + 1 \in I THEN Append(H[n], n + 1) ELSE H[n]
    <3>1. n + 1 \in 1 .. NInstr /\ (n + 1) - 1 = n
      OBVIOUS
    <3> QED BY <1>7, <3>1
  <2>3. I \cap (1 .. n + 1) = IF n + 1 \in I THEN (I \cap (1 .. n)) \cup {n + 1} ELSE I \cap (1 .. n)
    OBVIOUS
  <2>4. CASE n + 1 \in I
    BY <2>1, <2>2, <2>3, <2>4, MembersAppend
  <2>5. CASE n + 1 \notin I
    BY <2>1, <2>2, <2>3, <2>5
  <2> QED BY <2>4, <2>5
<1> HIDE DEF Listed
<1>10. NInstr \in Listed
  BY <1>8, <1>9, NatSetInduction
<1>11. I \cap (1 .. NInstr) = I
  BY DEF Instrs
<1>12. H[NInstr] \in Seq(Instrs) /\ Members(H[NInstr]) = I \cap (1 .. NInstr)
  BY <1>10 DEF Listed
<1> QED BY <1>5, <1>11, <1>12
-----------------------------------------------------------------------------
(***************************************************************************)
(* The graph.                                                              *)
(***************************************************************************)
LEMMA ProgramFacts ==
  ASSUME prog \in Programs
  PROVE  /\ IsCfg(prog.cfg)
         /\ prog.at \in [Instrs -> Blocks]
         /\ prog.op \in [Instrs -> Operations]
         /\ prog.ops \in [Instrs -> Seq(Instrs)]
BY ProgramsAssumption DEF IsProgram

LEMMA NullNotInstr == nullptr \notin Instrs
BY DEF nullptr, Instrs

(* A block with an origin is the entry or has a predecessor with one.      *)
LEMMA OriginBehind ==
  ASSUME prog \in Programs, NEW b \in Origins, b # Entry
  PROVE  \E p \in Origins : p \in Members(prog.cfg.pre[b])
<1>1. b \in Blocks
  BY DEF Origins
<1>2. PICK S \in SUBSET Blocks :
        b \in S /\ \A x \in S : x = Entry \/ \E p \in S : Edge(prog.cfg, p, x)
  BY DEF Origins, HasOrigin
<1>3. PICK p \in S : Edge(prog.cfg, p, b)
  BY <1>2
<1>4. p \in Origins
  BY <1>2 DEF Origins, HasOrigin
<1>5. p \in Members(prog.cfg.pre[b])
  BY <1>1, <1>3, ProgramFacts DEF IsCfg, Edge
<1> QED BY <1>4, <1>5

LEMMA UnusedHasNoOrigin ==
  ASSUME prog \in Programs, GraphInv
  PROVE  Unused \cap Origins = {}
<1> SUFFICES ASSUME NEW b \in Unused, b \in Origins PROVE FALSE
  OBVIOUS
<1>1. b \in blocks /\ pre[b] = {} /\ b # Entry
  BY DEF Unused
<1>2. PICK p \in Origins : p \in Members(prog.cfg.pre[b])
  BY <1>1, OriginBehind
<1>3. p \in pre[b]
  BY <1>1, <1>2 DEF GraphInv
<1> QED BY <1>1, <1>3

(* Once nothing is unused, the blocks left are each other's origin.        *)
LEMMA AllUsed ==
  ASSUME prog \in Programs, TypeOK, GraphInv, Unused = {}
  PROVE  blocks = Origins
<1>1. ASSUME NEW b \in blocks PROVE b \in Origins
  <2>1. ASSUME NEW x \in blocks, x # Entry
        PROVE  \E p \in blocks : Edge(prog.cfg, p, x)
    <3>1. pre[x] # {}
      BY <2>1 DEF Unused
    <3>2. PICK p : p \in pre[x]
      BY <3>1
    <3>3. p \in blocks /\ p \in Members(prog.cfg.pre[x])
      BY <3>2 DEF GraphInv
    <3>4. p \in Blocks /\ x \in Blocks
      BY <3>3 DEF TypeOK
    <3> QED BY <3>3, <3>4, ProgramFacts DEF IsCfg, Edge
  <2>2. blocks \in SUBSET Blocks
    BY DEF TypeOK
  <2>3. HasOrigin(b)
    BY <2>1, <2>2 DEF HasOrigin
  <2> QED BY <2>2, <2>3 DEF Origins
<1> QED BY <1>1 DEF GraphInv

(* What can be reached has an origin.                                      *)
LEMMA ReachableHasOrigin ==
  ASSUME NEW b \in Blocks, Reachable(prog.cfg, b)
  PROVE  b \in Origins
<1> DEFINE R == {x \in Blocks : Reachable(prog.cfg, x)}
           S == {x \in R : x = Entry \/ \E p \in R : Edge(prog.cfg, p, x)}
<1>1. \A x \in R, y \in Blocks : Edge(prog.cfg, x, y) => y \in R
  BY DEF Reachable, Closed
<1>2. Entry \in S
  BY NAssumption DEF Reachable, Entry, Blocks
<1>3. Closed(prog.cfg, S)
  BY <1>1 DEF Closed
<1>4. R \subseteq S
  <2>1. S \in SUBSET Blocks
    OBVIOUS
  <2> QED BY <1>2, <1>3, <2>1 DEF Reachable
<1>5. HasOrigin(b)
  <2>1. b \in R /\ R \in SUBSET Blocks
    OBVIOUS
  <2>2. \A x \in R : x = Entry \/ \E p \in R : Edge(prog.cfg, p, x)
    BY <1>4
  <2> HIDE DEF R
  <2> QED BY <2>1, <2>2 DEF HasOrigin
<1> QED BY <1>5 DEF Origins
-----------------------------------------------------------------------------
(***************************************************************************)
(* Deleting the instructions D.                                            *)
(***************************************************************************)
LEMMA NulledFacts ==
  ASSUME TypeOK, NEW D
  PROVE  /\ Nulled(D) \in [Instrs -> Seq(Instrs \cup {nullptr})]
         /\ \A i \in Instrs \ D :
              /\ Len(Nulled(D)[i]) = Len(operands[i])
              /\ \A l \in 1 .. Len(operands[i]) :
                   Nulled(D)[i][l] = IF operands[i][l] \in D THEN nullptr ELSE operands[i][l]
<1>1. \A i \in Instrs :
        /\ operands[i] \in Seq(Instrs \cup {nullptr})
        /\ Len(operands[i]) \in Nat
        /\ DOMAIN operands[i] = 1 .. Len(operands[i])
  BY DEF TypeOK
<1>2. ASSUME NEW i \in Instrs \ D
      PROVE  /\ Nulled(D)[i] \in Seq(Instrs \cup {nullptr})
             /\ Len(Nulled(D)[i]) = Len(operands[i])
             /\ \A l \in 1 .. Len(operands[i]) :
                  Nulled(D)[i][l] = IF operands[i][l] \in D THEN nullptr ELSE operands[i][l]
  <2>1. Nulled(D)[i] = [l \in 1 .. Len(operands[i]) |->
                         IF operands[i][l] \in D THEN nullptr ELSE operands[i][l]]
    BY <1>1, <1>2 DEF Nulled
  <2>2. \A l \in 1 .. Len(operands[i]) : operands[i][l] \in Instrs \cup {nullptr}
    BY <1>1, <1>2
  <2> QED BY <1>1, <1>2, <2>1, <2>2
<1>3. ASSUME NEW i \in Instrs \cap D
      PROVE  Nulled(D)[i] \in Seq(Instrs \cup {nullptr})
  BY <1>3 DEF Nulled
<1>4. Nulled(D) = [i \in Instrs |-> Nulled(D)[i]]
  BY DEF Nulled
<1>5. \A i \in Instrs : Nulled(D)[i] \in Seq(Instrs \cup {nullptr})
  BY <1>2, <1>3
<1> QED BY <1>2, <1>4, <1>5

LEMMA NothingNulled ==
  ASSUME TypeOK
  PROVE  Nulled({}) = operands
<1>1. \A i \in Instrs : operands[i] = [l \in DOMAIN operands[i] |-> operands[i][l]]
  BY DEF TypeOK
<1>2. operands = [i \in Instrs |-> operands[i]]
  BY DEF TypeOK
<1>3. Nulled({}) = [i \in Instrs |-> [l \in DOMAIN operands[i] |-> operands[i][l]]]
  BY DEF Nulled
<1> QED BY <1>1, <1>2, <1>3

LEMMA DeleteCode ==
  ASSUME prog \in Programs, TypeOK, CodeInv, NEW D \in SUBSET instrs,
         prog' = prog, instrs' = instrs \ D, operands' = Nulled(D),
         \A i \in instrs \ D : prog.at[i] \in blocks',
         \A i \in D : is_critical(i) => prog.at[i] \notin Origins,
         \A i \in instrs \ D : \A l \in 1 .. Len(prog.ops[i]) :
           prog.at[prog.ops[i][l]] \in Origins => prog.ops[i][l] \notin D
  PROVE  CodeInv'
<1>1. Origins' = Origins /\ \A i \in Instrs : is_critical(i)' = is_critical(i)
  BY DEF Origins, HasOrigin, is_critical
<1>2. instrs \subseteq Instrs /\ instrs' \subseteq instrs /\ nullptr \notin instrs
  BY NullNotInstr DEF TypeOK
<1>3. ASSUME NEW i \in instrs', NEW l \in 1 .. Len(prog.ops[i])
      PROVE  LET d == prog.ops[i][l]
             IN  /\ operands'[i][l] = IF d \in instrs' THEN d ELSE nullptr
                 /\ prog.at[d] \in Origins => d \in instrs'
  <2> DEFINE d == prog.ops[i][l]
  <2>1. i \in Instrs \ D /\ i \in instrs
    BY <1>2, <1>3
  <2>2. /\ Len(operands[i]) = Len(prog.ops[i])
        /\ operands[i][l] = IF d \in instrs THEN d ELSE nullptr
        /\ prog.at[d] \in Origins => d \in instrs
    BY <2>1, <1>3 DEF CodeInv
  <2>3. operands'[i][l] = IF operands[i][l] \in D THEN nullptr ELSE operands[i][l]
    BY <1>3, <2>1, <2>2, NulledFacts
  <2>4. prog.at[d] \in Origins => d \notin D
    BY <1>3, <2>1
  <2> HIDE DEF d
  <2>5. nullptr \notin D
    BY <1>2
  <2>6. operands'[i][l] = IF d \in instrs' THEN d ELSE nullptr
    BY <2>2, <2>3, <2>5
  <2>7. prog.at[d] \in Origins => d \in instrs'
    BY <2>2, <2>4
  <2> QED BY <2>6, <2>7 DEF d
<1>4. \A i \in instrs' : Len(operands'[i]) = Len(prog.ops[i])
  BY <1>2, NulledFacts DEF CodeInv
<1>5. \A i \in Instrs : is_critical(i) /\ prog.at[i] \in Origins => i \in instrs'
  BY DEF CodeInv
<1>6. \A i \in instrs' : prog.at[i] \in blocks'
  OBVIOUS
<1> QED BY <1>1, <1>2, <1>3, <1>4, <1>5, <1>6 DEF CodeInv
-----------------------------------------------------------------------------
(***************************************************************************)
(* The first state and every step.                                         *)
(***************************************************************************)
LEMMA InitInv == Init => IInv
<1> SUFFICES ASSUME Init PROVE IInv
  OBVIOUS
<1>0. prog \in Programs /\ pc = "clear" /\ changed = FALSE
  BY DEF Init
<1>1. /\ IsCfg(prog.cfg) /\ prog.at \in [Instrs -> Blocks]
      /\ prog.ops \in [Instrs -> Seq(Instrs)]
  BY <1>0, ProgramFacts
<1>2. \A b \in Blocks : /\ Members(prog.cfg.succ[b]) \subseteq Blocks
                        /\ Members(prog.cfg.pre[b]) \subseteq Blocks
  <2>1. \A b \in Blocks : prog.cfg.succ[b] \in Seq(Blocks) /\ prog.cfg.pre[b] \in Seq(Blocks)
    BY <1>1 DEF IsCfg
  <2> QED BY <2>1 DEF Members
<1>3. \A i \in Instrs : operands[i] = prog.ops[i] /\ operands[i] \in Seq(Instrs \cup {nullptr})
  <2>1. operands = prog.ops
    BY DEF Init
  <2>2. \A i \in Instrs : prog.ops[i] \in Seq(Instrs \cup {nullptr})
    BY <1>1
  <2> QED BY <2>1, <2>2
<1>4. TypeOK
  <2>1. blocks \in SUBSET Blocks /\ instrs \in SUBSET Instrs /\ marked \in SUBSET Instrs
    BY DEF Init
  <2>2. pre \in [Blocks -> SUBSET Blocks] /\ succ \in [Blocks -> SUBSET Blocks]
    BY <1>2 DEF Init
  <2>3. operands \in [Instrs -> Seq(Instrs \cup {nullptr})]
    BY <1>1, <1>3 DEF Init
  <2>4. work_list \in Seq(Instrs) /\ ins \in Instrs \cup {nullptr} /\ k \in Nat \ {0}
    BY DEF Init
  <2> QED BY <1>0, <2>1, <2>2, <2>3, <2>4 DEF TypeOK
<1>5. GraphInv
  BY <1>2 DEF Init, GraphInv, Origins
<1>6. CodeInv
  <2>1. instrs = Instrs /\ blocks = Blocks
    BY DEF Init
  <2>2. \A i \in Instrs : \A l \in 1 .. Len(prog.ops[i]) : prog.ops[i][l] \in Instrs
    BY <1>1
  <2> QED BY <1>1, <1>3, <2>1, <2>2 DEF CodeInv
<1>7. MarkInv /\ RoundInv
  BY <1>0 DEF MarkInv, RoundInv, Quiet
<1> QED BY <1>0, <1>4, <1>5, <1>6, <1>7 DEF IInv

LEMMA StepType == IInv /\ [Next]_vars => TypeOK'
<1> SUFFICES ASSUME IInv, [Next]_vars PROVE TypeOK'
  OBVIOUS
<1>0. TypeOK
  BY DEF IInv
<1>1. CASE clear_basic_blocks
  <2> DEFINE D == {i \in instrs : prog.at[i] \in Unused}
  <2>1. Nulled(D) \in [Instrs -> Seq(Instrs \cup {nullptr})]
    BY <1>0, NulledFacts
  <2>2. /\ blocks' = blocks \ Unused /\ instrs' = instrs \ D /\ operands' = Nulled(D)
        /\ pre' = [b \in Blocks |-> pre[b] \ Unused]
        /\ succ' = [b \in Blocks |-> IF b \in Unused THEN {} ELSE succ[b]]
        /\ pc' = "critical" /\ changed' \in BOOLEAN
        /\ UNCHANGED <<marked, work_list, ins, k>>
    BY <1>0, <1>1 DEF clear_basic_blocks, TypeOK
  <2> HIDE DEF D
  <2> QED BY <1>0, <2>1, <2>2 DEF TypeOK
<1>2. CASE MarkCritical
  <2>1. Critical \in SUBSET Instrs
    BY <1>0 DEF TypeOK, Critical
  <2> QED BY <1>0, <1>2, <2>1, InOrderMembers DEF MarkCritical, TypeOK, code
<1>3. CASE PopFront
  <2>1. Head(work_list) \in Instrs /\ Tail(work_list) \in Seq(Instrs)
    BY <1>0, <1>3, MembersTail DEF PopFront, TypeOK
  <2> QED BY <1>0, <1>3, <2>1 DEF PopFront, TypeOK, code
<1>4. CASE mark
  <2>1. ins \in Instrs
    BY <1>4 DEF IInv, MarkInv, mark, TypeOK
  <2>2. operands[ins][k] \in Instrs \cup {nullptr} /\ k + 1 \in Nat \ {0}
    BY <1>0, <1>4, <2>1 DEF mark, TypeOK
  <2> DEFINE def == operands[ins][k]
  <2>3. marked' \in SUBSET Instrs /\ work_list' \in Seq(Instrs)
    <3>1. marked \in SUBSET Instrs /\ work_list \in Seq(Instrs)
      BY <1>0 DEF TypeOK
    <3>2. CASE def # nullptr /\ def \notin marked
      <4>1. marked' = marked \cup {def} /\ work_list' = Append(work_list, def)
        BY <1>4, <3>2 DEF mark
      <4>2. def \in Instrs
        BY <2>2, <3>2
      <4> HIDE DEF def
      <4> QED BY <3>1, <4>1, <4>2
    <3>3. CASE ~ (def # nullptr /\ def \notin marked)
      BY <1>4, <3>1, <3>3 DEF mark
    <3> QED BY <3>2, <3>3
  <2> QED BY <1>0, <1>4, <2>2, <2>3 DEF mark, TypeOK, code
<1>5. CASE sweep
  <2>1. Nulled(instrs \ marked) \in [Instrs -> Seq(Instrs \cup {nullptr})]
    BY <1>0, NulledFacts
  <2> QED BY <1>0, <1>5, <2>1 DEF sweep, TypeOK
<1>6. CASE EndOperands \/ EndMark
  BY <1>0, <1>6 DEF EndOperands, EndMark, TypeOK, code
<1>7. CASE Again \/ Finish
  BY <1>0, <1>7 DEF Again, Finish, TypeOK, code
<1>8. CASE UNCHANGED vars
  BY <1>0, <1>8 DEF TypeOK, vars
<1> QED BY <1>1, <1>2, <1>3, <1>4, <1>5, <1>6, <1>7, <1>8 DEF Next, Finished

LEMMA ClearInv ==
  ASSUME IInv, clear_basic_blocks
  PROVE  GraphInv' /\ CodeInv' /\ MarkInv' /\ RoundInv'
<1> DEFINE D == {i \in instrs : prog.at[i] \in Unused}
<1>0. /\ prog \in Programs /\ prog' = prog /\ TypeOK /\ GraphInv /\ CodeInv /\ RoundInv
      /\ pc = "clear" /\ pc' = "critical"
      /\ blocks' = blocks \ Unused /\ instrs' = instrs \ D /\ operands' = Nulled(D)
      /\ pre' = [b \in Blocks |-> pre[b] \ Unused]
      /\ succ' = [b \in Blocks |-> IF b \in Unused THEN {} ELSE succ[b]]
      /\ changed' = (changed \/ Unused # {})
  BY DEF IInv, clear_basic_blocks
<1>1. Unused \cap Origins = {} /\ Origins' = Origins /\ blocks \subseteq Blocks
  BY <1>0, UnusedHasNoOrigin DEF Origins, HasOrigin, TypeOK
<1>2. GraphInv'
  <2>1. \A x \in blocks \ Unused : pre'[x] = pre[x] \ Unused /\ succ'[x] = succ[x]
    BY <1>0, <1>1
  <2> QED BY <1>0, <1>1, <2>1 DEF GraphInv
<1>3. CodeInv'
  <2>1. \A i \in instrs \ D : prog.at[i] \in blocks'
    BY <1>0 DEF CodeInv
  <2>2. \A i \in D : prog.at[i] \notin Origins
    BY <1>1
  <2>3. D \in SUBSET instrs
    OBVIOUS
  <2> HIDE DEF D
  <2> QED BY <1>0, <2>1, <2>2, <2>3, DeleteCode
<1>4. MarkInv'
  BY <1>0 DEF MarkInv, Quiet
<1>5. RoundInv'
  <2>1. ASSUME ~ changed' PROVE Unused' = {}
    <3>1. Unused = {}
      BY <1>0, <2>1
    <3>2. blocks' = blocks /\ \A b \in blocks : pre'[b] = pre[b]
      BY <1>0, <1>1, <3>1
    <3> QED BY <3>1, <3>2 DEF Unused
  <2> QED BY <1>0, <2>1 DEF RoundInv, Quiet
<1> QED BY <1>2, <1>3, <1>4, <1>5

(* Steps that delete nothing keep what is said of the graph and the code.  *)
LEMMA CodeKept ==
  ASSUME GraphInv, CodeInv, UNCHANGED <<prog, code>>
  PROVE  /\ GraphInv' /\ CodeInv' /\ Critical' = Critical /\ Unused' = Unused
         /\ \A S : Keeps(S)' <=> Keeps(S)
<1>1. Origins' = Origins
  BY DEF Origins, HasOrigin
<1> QED BY <1>1 DEF GraphInv, CodeInv, Critical, Unused, Keeps, is_critical, code

LEMMA MarkingInv ==
  ASSUME IInv, MarkCritical \/ PopFront \/ mark \/ EndOperands \/ EndMark
  PROVE  GraphInv' /\ CodeInv' /\ MarkInv' /\ RoundInv'
<1>0. /\ prog \in Programs /\ TypeOK /\ GraphInv /\ CodeInv /\ MarkInv /\ RoundInv
      /\ UNCHANGED <<prog, code, changed>>
  BY DEF IInv, MarkCritical, PopFront, mark, EndOperands, EndMark
<1>1. /\ GraphInv' /\ CodeInv' /\ Critical' = Critical /\ Unused' = Unused
      /\ \A S : Keeps(S)' <=> Keeps(S)
      /\ instrs' = instrs /\ operands' = operands
  BY <1>0, CodeKept DEF code
<1>2. RoundInv'
  BY <1>0, <1>1 DEF RoundInv, Quiet, MarkCritical, PopFront, mark, EndOperands, EndMark
<1>3. CASE MarkCritical
  <2>1. Critical \subseteq instrs /\ Critical \in SUBSET Instrs
    BY <1>0 DEF Critical, TypeOK
  <2>2. marked' = Critical /\ Members(work_list') = Critical /\ pc' = "mark"
    BY <1>3, <2>1, InOrderMembers DEF MarkCritical
  <2>3. \A S : Keeps(S) => Critical \subseteq S
    BY DEF Keeps
  <2> QED BY <1>1, <1>2, <2>1, <2>2, <2>3 DEF MarkInv
<1>4. CASE PopFront
  <2>1. /\ pc = "mark" /\ pc' = "operands" /\ ins' = Head(work_list) /\ k' = 1
        /\ work_list' = Tail(work_list) /\ marked' = marked
        /\ Members(work_list) = Members(work_list') \cup {ins'}
    BY <1>0, <1>4, MembersTail DEF PopFront, TypeOK
  <2>2. Followed(ins, k)'
    <3>1. \A l \in 1 .. Len(operands'[ins']) : ~ (l < k')
      BY <2>1
    <3> QED BY <1>1, <2>1, <3>1 DEF Followed
  <2>3. \A i \in marked : Followed(i, Len(operands[i]) + 1) =>
          Followed(i, Len(operands[i]) + 1)'
    BY <1>1, <2>1 DEF Followed
  <2>4. ASSUME NEW i \in marked
        PROVE  \/ i \in Members(work_list')
               \/ i = ins' /\ Followed(i, k)'
               \/ Followed(i, Len(operands[i]) + 1)'
    <3>1. i \in Members(work_list) \/ Followed(i, Len(operands[i]) + 1)
      BY <1>0, <2>1, <2>4 DEF MarkInv
    <3>2. i = ins' => Followed(i, k)'
      BY <2>1, <2>2 DEF Followed
    <3> QED BY <2>1, <2>3, <2>4, <3>1, <3>2
  <2>5. /\ marked \subseteq instrs /\ Critical \subseteq marked /\ Members(work_list) \subseteq marked
        /\ \A S \in SUBSET instrs : Keeps(S) => marked \subseteq S
    BY <1>0, <2>1 DEF MarkInv
  <2> QED BY <1>1, <1>2, <2>1, <2>4, <2>5 DEF MarkInv
<1>5. CASE mark
  <2> DEFINE def == operands[ins][k]
  <2>1. /\ pc = "operands" /\ pc' = "operands" /\ k <= Len(operands[ins])
        /\ k' = k + 1 /\ ins' = ins
        /\ IF def # nullptr /\ def \notin marked
             THEN marked' = marked \cup {def} /\ work_list' = Append(work_list, def)
             ELSE UNCHANGED <<marked, work_list>>
    BY <1>5 DEF mark
  <2>2. ins \in marked /\ ins \in instrs /\ ins \in Instrs /\ k \in 1 .. Len(operands[ins])
    BY <1>0, <2>1 DEF MarkInv, TypeOK
  <2>3. def \in instrs \cup {nullptr}
    <3>1. k \in 1 .. Len(prog.ops[ins])
      BY <1>0, <2>2 DEF CodeInv
    <3> QED BY <1>0, <2>2, <3>1 DEF CodeInv
  <2> HIDE DEF def
  <2>4. /\ marked' = marked \cup ({def} \ {nullptr})
        /\ Members(work_list') = Members(work_list) \cup (marked' \ marked)
    <3>1. work_list \in Seq(instrs)
      <4>1. \A l \in 1 .. Len(work_list) : work_list[l] \in marked
        BY <1>0, <2>1 DEF MarkInv, Members
      <4>2. marked \subseteq instrs /\ work_list \in Seq(Instrs)
        BY <1>0, <2>1 DEF MarkInv, TypeOK
      <4> QED BY <4>1, <4>2
    <3>2. CASE def # nullptr /\ def \notin marked
      <4>1. def \in instrs /\ marked' = marked \cup {def} /\ work_list' = Append(work_list, def)
        BY <2>1, <2>3, <3>2
      <4>2. Members(Append(work_list, def)) = Members(work_list) \cup {def}
        BY <3>1, <4>1, MembersAppend
      <4> QED BY <3>2, <4>1, <4>2
    <3>3. CASE ~ (def # nullptr /\ def \notin marked)
      BY <2>1, <3>3
    <3> QED BY <3>2, <3>3
  <2>5. ASSUME NEW S \in SUBSET instrs, Keeps(S) PROVE marked' \subseteq S
    <3>1. marked \subseteq S
      BY <1>0, <2>1, <2>5 DEF MarkInv
    <3>2. def \in S \cup {nullptr}
      BY <2>2, <2>5, <3>1 DEF Keeps, def
    <3> QED BY <2>4, <3>1, <3>2
  <2>6. ASSUME Followed(ins, k) PROVE Followed(ins, k)'
    <3> SUFFICES ASSUME NEW l \in 1 .. Len(operands[ins]), l < k + 1
                 PROVE  operands[ins][l] \in marked' \cup {nullptr}
      BY <1>1, <2>1 DEF Followed
    <3>1. CASE l = k
      BY <2>4, <3>1 DEF def
    <3>2. CASE l # k
      <4>1. l < k
        BY <2>2, <3>2
      <4> QED BY <2>4, <2>6, <4>1 DEF Followed
    <3> QED BY <3>1, <3>2
  <2>7. \A i \in marked : Followed(i, Len(operands[i]) + 1) =>
          Followed(i, Len(operands[i]) + 1)'
    BY <1>1, <2>4 DEF Followed
  <2>8. ASSUME NEW i \in marked'
        PROVE  \/ i \in Members(work_list')
               \/ i = ins' /\ Followed(i, k)'
               \/ Followed(i, Len(operands[i]) + 1)'
    <3>1. CASE i \notin marked
      BY <2>4, <2>8, <3>1
    <3>2. CASE i \in marked /\ i \in Members(work_list)
      BY <2>4, <3>2
    <3>3. CASE i = ins /\ Followed(i, k)
      BY <2>1, <2>6, <3>3
    <3>4. CASE i \in marked /\ Followed(i, Len(operands[i]) + 1)
      BY <2>7, <3>4
    <3> QED BY <1>0, <2>1, <3>1, <3>2, <3>3, <3>4 DEF MarkInv
  <2>9. Critical \subseteq marked /\ marked \subseteq instrs /\ Members(work_list) \subseteq marked
    BY <1>0, <2>1 DEF MarkInv
  <2> QED BY <1>1, <1>2, <2>1, <2>2, <2>3, <2>4, <2>5, <2>8, <2>9 DEF MarkInv
<1>6. CASE EndOperands
  <2>1. /\ pc = "operands" /\ pc' = "mark" /\ k > Len(operands[ins])
        /\ UNCHANGED <<marked, work_list, ins, k>>
    BY <1>6 DEF EndOperands
  <2>2. ins \in Instrs /\ Len(operands[ins]) \in Nat /\ k \in Nat
    BY <1>0, <2>1 DEF MarkInv, TypeOK
  <2>3. Followed(ins, k) => Followed(ins, Len(operands[ins]) + 1)
    BY <2>1, <2>2 DEF Followed
  <2>4. \A i, n : Followed(i, n)' <=> Followed(i, n)
    BY <1>1, <2>1 DEF Followed
  <2> QED BY <1>0, <1>1, <1>2, <2>1, <2>3, <2>4 DEF MarkInv
<1>7. CASE EndMark
  <2>1. pc = "mark" /\ pc' = "sweep" /\ work_list = << >> /\ UNCHANGED <<marked, work_list, ins, k>>
    BY <1>7 DEF EndMark
  <2>2. \A i, n : Followed(i, n)' <=> Followed(i, n)
    BY <1>1, <2>1 DEF Followed
  <2> QED BY <1>0, <1>1, <1>2, <2>1, <2>2 DEF MarkInv
<1> QED BY <1>1, <1>2, <1>3, <1>4, <1>5, <1>6, <1>7

(* The sweep deletes what is not marked.  What is left is closed under     *)
(* operands, and when nothing is deleted it is the least set that is.      *)
LEMMA SweepInv ==
  ASSUME IInv, sweep
  PROVE  GraphInv' /\ CodeInv' /\ MarkInv' /\ RoundInv'
<1> DEFINE D == instrs \ marked
<1>0. /\ prog \in Programs /\ TypeOK /\ GraphInv /\ CodeInv /\ MarkInv /\ RoundInv
      /\ pc = "sweep" /\ pc' = "again" /\ instrs' = instrs \ D /\ operands' = Nulled(D)
      /\ changed' = (changed \/ D # {})
      /\ UNCHANGED <<prog, blocks, pre, succ, marked, work_list, ins, k>>
  BY DEF IInv, sweep
<1>1. /\ marked \subseteq instrs /\ Critical \subseteq marked /\ work_list = << >>
      /\ \A i \in marked : Followed(i, Len(operands[i]) + 1)
  <2>1. Members(<< >>) = {}
    BY DEF Members
  <2> QED BY <1>0, <2>1 DEF MarkInv
<1>2. instrs \ D = marked /\ marked \subseteq Instrs
  BY <1>0, <1>1 DEF TypeOK
<1>3. ASSUME NEW i \in marked, NEW l \in 1 .. Len(prog.ops[i]),
             prog.at[prog.ops[i][l]] \in Origins
      PROVE  prog.ops[i][l] \notin D
  <2>1. /\ Len(operands[i]) = Len(prog.ops[i]) /\ prog.ops[i][l] \in instrs
        /\ operands[i][l] = prog.ops[i][l]
    BY <1>0, <1>1, <1>3 DEF CodeInv
  <2>2. Len(operands[i]) \in Nat
    BY <1>0, <1>2 DEF TypeOK
  <2>3. operands[i][l] \in marked \cup {nullptr}
    BY <1>1, <2>1, <2>2 DEF Followed
  <2>4. nullptr \notin instrs
    BY <1>0, NullNotInstr DEF TypeOK
  <2> QED BY <2>1, <2>3, <2>4
<1>4. CodeInv'
  <2>1. \A i \in D : ~ is_critical(i)
    BY <1>1 DEF Critical
  <2>2. \A i \in instrs \ D : prog.at[i] \in blocks'
    BY <1>0 DEF CodeInv
  <2>3. D \in SUBSET instrs /\ prog' = prog
    BY <1>0
  <2> HIDE DEF D
  <2> QED BY <1>0, <1>2, <1>3, <2>1, <2>2, <2>3, DeleteCode
<1>5. GraphInv'
  <2>1. Origins' = Origins
    BY <1>0 DEF Origins, HasOrigin
  <2> QED BY <1>0, <2>1 DEF GraphInv
<1>6. Unused' = Unused
  BY <1>0 DEF Unused
<1>7. RoundInv'
  BY <1>0, <1>1, <1>6 DEF RoundInv, Quiet
<1>8. MarkInv'
  <2>1. CASE changed'
    BY <1>0, <2>1 DEF MarkInv, Quiet
  <2>2. CASE ~ changed'
    <3>1. D = {} /\ changed' = FALSE
      BY <1>0, <2>2 DEF TypeOK
    <3>2. instrs' = instrs /\ operands' = operands
      BY <1>0, <3>1, NothingNulled
    <3>3. UNCHANGED <<prog, code>>
      BY <1>0, <3>2 DEF code
    <3>4. Critical' = Critical /\ \A S : Keeps(S)' <=> Keeps(S)
      BY <1>0, <3>3, CodeKept
    <3>5. \A i, n : Followed(i, n)' <=> Followed(i, n)
      BY <1>0, <3>2 DEF Followed
    <3>6. \A S \in SUBSET instrs : Keeps(S) => marked \subseteq S
      BY <1>0 DEF MarkInv
    <3> QED BY <1>0, <1>1, <3>2, <3>4, <3>5, <3>6 DEF MarkInv
  <2> QED BY <2>1, <2>2
<1> QED BY <1>4, <1>5, <1>7, <1>8

LEMMA RestInv ==
  ASSUME IInv, Again \/ Finish \/ UNCHANGED vars
  PROVE  GraphInv' /\ CodeInv' /\ MarkInv' /\ RoundInv'
<1>0. /\ prog \in Programs /\ TypeOK /\ GraphInv /\ CodeInv /\ MarkInv /\ RoundInv
      /\ UNCHANGED <<prog, code, marked, work_list, ins, k>>
  BY DEF IInv, Again, Finish, vars, code
<1>1. /\ GraphInv' /\ CodeInv' /\ Critical' = Critical /\ Unused' = Unused
      /\ \A S : Keeps(S)' <=> Keeps(S)
      /\ instrs' = instrs /\ operands' = operands
  BY <1>0, CodeKept DEF code
<1>2. \A i, n : Followed(i, n)' <=> Followed(i, n)
  BY <1>0, <1>1 DEF Followed
<1>3. RoundInv'
  BY <1>0, <1>1 DEF RoundInv, Quiet, Again, Finish, vars
<1>4. CASE Again
  <2>1. pc' = "clear"
    BY <1>4 DEF Again
  <2> QED BY <1>1, <1>3, <2>1 DEF MarkInv, Quiet
<1>5. CASE Finish
  <2>1. pc = "again" /\ pc' = "done" /\ ~ changed /\ changed' = changed
    BY <1>5 DEF Finish
  <2> QED BY <1>0, <1>1, <1>2, <1>3, <2>1 DEF MarkInv, Quiet
<1>6. CASE UNCHANGED vars
  <2>1. pc' = pc /\ changed' = changed
    BY <1>6 DEF vars
  <2> QED BY <1>0, <1>1, <1>2, <1>3, <2>1 DEF MarkInv, Quiet
<1> QED BY <1>4, <1>5, <1>6

LEMMA StepInv == IInv /\ [Next]_vars => IInv'
<1> SUFFICES ASSUME IInv, [Next]_vars PROVE IInv'
  OBVIOUS
<1>1. prog' \in Programs
  BY DEF IInv, Next, vars, clear_basic_blocks, MarkCritical, PopFront, mark,
         EndOperands, EndMark, sweep, Again, Finish, Finished
<1>2. TypeOK'
  BY StepType
<1>3. GraphInv' /\ CodeInv' /\ MarkInv' /\ RoundInv'
  <2>1. CASE clear_basic_blocks
    BY <2>1, ClearInv
  <2>2. CASE MarkCritical \/ PopFront \/ mark \/ EndOperands \/ EndMark
    BY <2>2, MarkingInv
  <2>3. CASE sweep
    BY <2>3, SweepInv
  <2>4. CASE Again \/ Finish \/ UNCHANGED vars
    BY <2>4, RestInv
  <2> QED BY <2>1, <2>2, <2>3, <2>4 DEF Next, Finished
<1> QED BY <1>1, <1>2, <1>3 DEF IInv

LEMMA InvAlways == Spec => []IInv
<1> QED BY InitInv, StepInv, PTL DEF Spec
-----------------------------------------------------------------------------
(***************************************************************************)
(* What the invariant says of the program the pass was given.              *)
(***************************************************************************)
Running == {i \in Instrs : Reachable(prog.cfg, prog.at[i])}

LEMMA RunningHasOrigin ==
  ASSUME prog \in Programs, NEW i \in Running
  PROVE  i \in Instrs /\ prog.at[i] \in Origins
<1>1. i \in Instrs /\ prog.at[i] \in Blocks /\ Reachable(prog.cfg, prog.at[i])
  BY ProgramFacts DEF Running
<1> QED BY <1>1, ReachableHasOrigin

(* What is left feeds itself, in any part of the code that has an origin.  *)
LEMMA LeftFeeds ==
  ASSUME prog \in Programs, TypeOK, CodeInv, NEW I \in SUBSET Instrs,
         \A i \in I : prog.at[i] \in Origins
  PROVE  Needed(I) \subseteq instrs
<1> DEFINE S == instrs \cap I
<1>1. \A i \in I : prog.op[i] \notin {"pure_call", "other"} => i \in S
  <2>1. \A i \in I : prog.op[i] \notin {"pure_call", "other"} => is_critical(i)
    BY ProgramFacts DEF Operations, is_critical
  <2> QED BY <2>1 DEF CodeInv
<1>2. ASSUME NEW i \in S \cap I, NEW d \in Members(prog.ops[i]) \cap I PROVE d \in S
  <2>1. PICK l \in 1 .. Len(prog.ops[i]) : d = prog.ops[i][l]
    BY DEF Members
  <2> QED BY <2>1 DEF CodeInv
<1>3. Feeds(S, I)
  <2>1. \A i \in S \cap I : Members(prog.ops[i]) \cap I \subseteq S
    BY <1>2
  <2> HIDE DEF S
  <2> QED BY <1>1, <2>1 DEF Feeds
<1>4. S \in SUBSET I
  OBVIOUS
<1> HIDE DEF S
<1>5. Needed(I) \subseteq S
  BY <1>3, <1>4 DEF Needed
<1> QED BY <1>5 DEF S

LEMMA NeededKeptHolds == IInv => NeededKept
<1> SUFFICES ASSUME IInv PROVE Needed(Running) \subseteq instrs
  BY DEF NeededKept, Running
<1>1. prog \in Programs /\ TypeOK /\ CodeInv
  BY DEF IInv
<1>2. Running \in SUBSET Instrs /\ \A i \in Running : prog.at[i] \in Origins
  BY <1>1, RunningHasOrigin DEF Running
<1> QED BY <1>1, <1>2, LeftFeeds

LEMMA OperandsKeptHolds == IInv => OperandsKept
<1> SUFFICES ASSUME IInv, NEW i \in instrs, Reachable(prog.cfg, prog.at[i])
             PROVE  operands[i] = prog.ops[i]
  BY DEF OperandsKept
<1>1. prog \in Programs /\ TypeOK /\ CodeInv
  BY DEF IInv
<1>2. i \in Running /\ i \in Instrs
  BY <1>1 DEF Running, TypeOK
<1>3. Members(prog.ops[i]) \subseteq Running
  BY <1>1, <1>2, ProgramsAssumption DEF IsProgram, Running
<1>4. ASSUME NEW l \in 1 .. Len(prog.ops[i]) PROVE operands[i][l] = prog.ops[i][l]
  <2>1. prog.ops[i][l] \in Running
    BY <1>3 DEF Members
  <2>2. prog.at[prog.ops[i][l]] \in Origins
    BY <1>1, <2>1, RunningHasOrigin
  <2> QED BY <1>1, <2>2 DEF CodeInv
<1>5. /\ operands[i] \in Seq(Instrs \cup {nullptr}) /\ prog.ops[i] \in Seq(Instrs)
      /\ Len(operands[i]) = Len(prog.ops[i])
  BY <1>1, <1>2, ProgramFacts DEF CodeInv, TypeOK
<1> DEFINE s == operands[i]
           t == prog.ops[i]
<1>6. \A l \in 1 .. Len(t) : s[l] = t[l]
  BY <1>4
<1>7. s \in Seq(Instrs \cup {nullptr}) /\ t \in Seq(Instrs) /\ Len(s) = Len(t)
  BY <1>5
<1> HIDE DEF s, t
<1>8. s = t
  BY <1>6, <1>7
<1> QED BY <1>8 DEF s, t

LEMMA GraphConsistentHolds == IInv => GraphConsistent
<1> SUFFICES ASSUME IInv PROVE GraphConsistent
  OBVIOUS
<1>1. prog \in Programs /\ TypeOK /\ GraphInv /\ RoundInv
  BY DEF IInv
<1>2. pc = "done" => blocks = Origins
  BY <1>1, AllUsed DEF RoundInv
<1> QED BY <1>1, <1>2 DEF GraphConsistent, GraphInv, Origins

LEMMA NothingDeadLeftHolds == IInv => NothingDeadLeft
<1> DEFINE I == {i \in Instrs : prog.at[i] \in Origins}
<1> SUFFICES ASSUME IInv, pc = "done" PROVE instrs = Needed(I)
  <2>1. prog \in Programs => I = {i \in Instrs : HasOrigin(prog.at[i])}
    BY ProgramFacts DEF Origins
  <2> QED BY <2>1 DEF NothingDeadLeft, IInv
<1>1. prog \in Programs /\ TypeOK /\ GraphInv /\ CodeInv /\ MarkInv /\ RoundInv
  BY DEF IInv
<1>2. ~ changed /\ Quiet /\ Unused = {} /\ instrs = marked
  BY <1>1 DEF RoundInv, Quiet
<1>3. blocks = Origins
  BY <1>1, <1>2, AllUsed
<1>4. instrs \subseteq I /\ instrs \subseteq Instrs
  BY <1>1, <1>3 DEF CodeInv, TypeOK
<1>5. Needed(I) \subseteq instrs
  BY <1>1, LeftFeeds
<1>6. ASSUME NEW S \in SUBSET I, Feeds(S, I) PROVE instrs \subseteq S
  <2> DEFINE K == S \cap instrs
  <2>1. Critical \subseteq K
    <3>1. ASSUME NEW i \in Critical PROVE i \in S
      <4>1. i \in instrs /\ is_critical(i)
        BY DEF Critical
      <4> QED BY <1>4, <1>6, <4>1 DEF Feeds, is_critical
    <3> QED BY <3>1 DEF Critical
  <2>2. ASSUME NEW i \in K, NEW l \in 1 .. Len(operands[i])
        PROVE  operands[i][l] \in K \cup {nullptr}
    <3>1. l \in 1 .. Len(prog.ops[i])
      BY <1>1 DEF CodeInv
    <3>2. operands[i][l] = IF prog.ops[i][l] \in instrs THEN prog.ops[i][l] ELSE nullptr
      BY <1>1, <3>1 DEF CodeInv
    <3>3. prog.ops[i][l] \in instrs => prog.ops[i][l] \in Members(prog.ops[i]) \cap I
      BY <1>4, <3>1 DEF Members
    <3>4. prog.ops[i][l] \in instrs => prog.ops[i][l] \in S
      <4>1. i \in S \cap I
        OBVIOUS
      <4> HIDE DEF K, I
      <4> QED BY <1>6, <3>3, <4>1 DEF Feeds
    <3> QED BY <3>2, <3>4
  <2>3. Keeps(K)
    <3> HIDE DEF K
    <3> QED BY <2>1, <2>2 DEF Keeps
  <2>4. K \in SUBSET instrs
    OBVIOUS
  <2>5. marked \subseteq K
    <3> HIDE DEF K
    <3> QED BY <1>1, <1>2, <2>3, <2>4 DEF MarkInv
  <2> QED BY <1>2, <2>5
<1>7. instrs \subseteq Needed(I)
  <2> HIDE DEF I
  <2> QED BY <1>4, <1>6 DEF Needed
<1> QED BY <1>5, <1>7
-----------------------------------------------------------------------------
(***************************************************************************)
(* The theorems.                                                           *)
(***************************************************************************)
(* clear_basic_blocks and sweep never delete an instruction that runs and  *)
(* has an effect, nor one such an instruction needs, in any round.         *)
THEOREM NeededKeptAlways == Spec => []NeededKept
<1> QED BY InvAlways, NeededKeptHolds, PTL

(* When run stops, what is left is what is needed and nothing else: the    *)
(* do-while really repeats until a sweep would find nothing.               *)
THEOREM NothingDeadLeftAlways == Spec => []NothingDeadLeft
<1> QED BY InvAlways, NothingDeadLeftHolds, PTL

(* Removing a block leaves its neighbours' lists as the graph without it,  *)
(* and in the end only blocks with an origin are left.                     *)
THEOREM GraphConsistentAlways == Spec => []GraphConsistent
<1> QED BY InvAlways, GraphConsistentHolds, PTL

(* No deletion puts a null operand into code that can be reached.          *)
THEOREM OperandsKeptAlways == Spec => []OperandsKept
<1> QED BY InvAlways, OperandsKeptHolds, PTL
-----------------------------------------------------------------------------
(***************************************************************************)
(* The purity DeadCode relies on for its pure calls: FuncInfo's analysis   *)
(* is exact for every module, for any number of functions and any call     *)
(* graph, recursive ones included.                                         *)
(***************************************************************************)
VARIABLES pos, worklist, now, use

Analysis == INSTANCE FuncInfo WITH k <- use

(* An instance has definitions of its own of what FuncInfo has from Purity. *)
LEMMA AnalysisOfPurity ==
  /\ \A m \in Modules : Analysis!IsModule(m)
  /\ PurityExact <=> Analysis!PurityExact
  /\ ImpureForAReason <=> Analysis!ImpureForAReason
<1>1. \A m \in Modules : Analysis!IsModule(m)
  BY ModulesAssumption DEF IsModule, Analysis!IsModule, Addresses, Analysis!Addresses, Funcs, Analysis!Funcs
<1>2. \A f \in Funcs : Analysis!Pure(f) <=> Pure(f)
  BY DEF Pure, Analysis!Pure, Funcs, Analysis!Funcs, HoldsCallees, Analysis!HoldsCallees, Calls, Analysis!Calls,
         TriviallyPure, Analysis!TriviallyPure, is_side_effect_inst, Analysis!is_side_effect_inst
<1> QED BY <1>1, <1>2
        DEF PurityExact, Analysis!PurityExact, ImpureForAReason, Analysis!ImpureForAReason, Funcs, Analysis!Funcs

USE NFuncsAssumption DEF Analysis!Funcs

(* While the list is marked: what was looked at is settled by its body     *)
(* alone, and is queued if it is impure.                                   *)
Marking ==
  \A f \in Analysis!Funcs :
    f < pos => /\ is_pure[f] <=> Analysis!TriviallyPure(f)
               /\ ~ is_pure[f] => \E l \in 1 .. Len(worklist) : worklist[l] = f

(* The users of g that have been told: all, or those before use k.         *)
Told(g, n) == \A l \in 1 .. n - 1 : ~ is_pure[module.users[g][l]]

Queued(f) == \E l \in 1 .. Len(worklist) : worklist[l] = f

(* An impure function is queued, being processed, or has told its callers. *)
Spreading ==
  \A g \in Analysis!Funcs : ~ is_pure[g] =>
    \/ Queued(g)
    \/ stage = "use" /\ now = g /\ Told(g, use)
    \/ Told(g, Len(module.users[g]) + 1)

QueuedImpure ==
  \A l \in 1 .. Len(worklist) : ~ is_pure[worklist[l]] /\ (stage = "mark" => worklist[l] < pos)

PurityInv ==
  /\ module \in Modules
  /\ Analysis!TypeOK
  /\ QueuedImpure
  /\ stage = "mark" => Marking
  /\ stage # "mark" => /\ Spreading
                       /\ \A f \in Analysis!Funcs : is_pure[f] => Analysis!TriviallyPure(f)
                       /\ \A f \in Analysis!Funcs : Analysis!Pure(f) => is_pure[f]
  /\ stage = "use" => now \in Analysis!Funcs /\ ~ is_pure[now]
  /\ stage = "done" => worklist = << >>

(* A module's use lists hold functions.                                    *)
LEMMA UsersAreFuncs ==
  ASSUME module \in Modules, NEW g \in Analysis!Funcs
  PROVE  module.users[g] \in Seq(Analysis!Funcs)
BY AnalysisOfPurity DEF Analysis!IsModule

(* Whoever calls an impure function is not Pure, nor is a function that is *)
(* impure by itself.                                                       *)
LEMMA PureCallees ==
  ASSUME NEW f \in Analysis!Funcs, Analysis!Pure(f)
  PROVE  /\ Analysis!TriviallyPure(f)
         /\ \A h \in Analysis!Funcs : Analysis!Calls(f, h) => Analysis!Pure(h)
BY DEF Analysis!Pure, Analysis!HoldsCallees

(* Elements of sequences, and sequences with an element more.              *)
LEMMA ElementIn == ASSUME NEW S, NEW s \in Seq(S), NEW l \in 1 .. Len(s) PROVE s[l] \in S
OBVIOUS

LEMMA AppendIn == ASSUME NEW S, NEW s \in Seq(S), NEW e \in S PROVE Append(s, e) \in Seq(S)
OBVIOUS

LEMMA PurityInitInv == Analysis!Init => PurityInv
BY DEF Analysis!Init, PurityInv, Analysis!TypeOK, QueuedImpure, Marking, Queued

(* Pure speaks only of the module, which no step changes.                  *)
LEMMA PureSame ==
  ASSUME UNCHANGED module
  PROVE  /\ \A f \in Analysis!Funcs : Analysis!Pure(f)' <=> Analysis!Pure(f)
         /\ \A f \in Analysis!Funcs : Analysis!TriviallyPure(f)' <=> Analysis!TriviallyPure(f)
         /\ \A f, h \in Analysis!Funcs : Analysis!Calls(f, h)' <=> Analysis!Calls(f, h)
BY DEF Analysis!Pure, Analysis!HoldsCallees, Analysis!Calls, Analysis!TriviallyPure, Analysis!is_side_effect_inst

LEMMA PurityTypeNext == ASSUME PurityInv, [Analysis!Next]_(Analysis!vars) PROVE (module \in Modules /\ Analysis!TypeOK)'
<1> USE DEF PurityInv, Analysis!TypeOK
<1>1. CASE Analysis!trivial_mark
  <2>1. pos \in Analysis!Funcs
    BY <1>1 DEF Analysis!trivial_mark
  <2>2. Analysis!TriviallyPure(pos) \in BOOLEAN
    BY DEF Analysis!TriviallyPure
  <2>3. worklist' \in Seq(Analysis!Funcs)
    <3>1. worklist' = worklist \/ worklist' = Append(worklist, pos)
      BY <1>1 DEF Analysis!trivial_mark
    <3>2. worklist \in Seq(Analysis!Funcs)
      OBVIOUS
    <3>3. Append(worklist, pos) \in Seq(Analysis!Funcs)
      BY <2>1, <3>2
    <3> HIDE DEF PurityInv, Analysis!TypeOK, Analysis!Funcs
    <3> QED BY <3>1, <3>2, <3>3
  <2>4. is_pure' \in [Analysis!Funcs -> BOOLEAN]
    BY <1>1, <2>2 DEF Analysis!trivial_mark
  <2> QED BY <1>1, <2>1, <2>3, <2>4 DEF Analysis!trivial_mark
<1>2. CASE Analysis!process
  <2>1. now \in Analysis!Funcs /\ Analysis!Users \in Seq(Analysis!Funcs)
    BY <1>2, UsersAreFuncs DEF Analysis!process, Analysis!Users
  <2>2. Analysis!Users[use] \in Analysis!Funcs
    BY <1>2, <2>1 DEF Analysis!process
  <2>3. /\ worklist' = worklist \/ worklist' = Append(worklist, Analysis!Users[use])
        /\ is_pure' = is_pure \/ is_pure' = [is_pure EXCEPT ![Analysis!Users[use]] = FALSE]
        /\ UNCHANGED <<module, stage, pos, now>> /\ use' = use + 1
    BY <1>2 DEF Analysis!process
  <2>4. worklist' \in Seq(Analysis!Funcs)
    <3>1. worklist \in Seq(Analysis!Funcs)
      OBVIOUS
    <3> HIDE DEF PurityInv, Analysis!TypeOK, Analysis!Funcs
    <3>2. Append(worklist, Analysis!Users[use]) \in Seq(Analysis!Funcs)
      BY <2>2, <3>1, AppendIn
    <3> QED BY <2>3, <3>1, <3>2
  <2>5. is_pure' \in [Analysis!Funcs -> BOOLEAN]
    BY <2>2, <2>3
  <2> QED BY <1>2, <2>3, <2>4, <2>5
<1>3. CASE Analysis!PopFront
  <2>1. now' = worklist[1] /\ worklist[1] \in Analysis!Funcs /\ worklist' \in Seq(Analysis!Funcs)
    BY <1>3 DEF Analysis!PopFront
  <2> QED BY <1>3, <2>1 DEF Analysis!PopFront
<1>4. CASE Analysis!StartProcess \/ Analysis!EndProcess \/ Analysis!Finish
  BY <1>4 DEF Analysis!StartProcess, Analysis!EndProcess, Analysis!Finish
<1>5. CASE Analysis!Finished \/ UNCHANGED Analysis!vars
  BY <1>5 DEF Analysis!Finished, Analysis!vars
<1> QED BY <1>1, <1>2, <1>3, <1>4, <1>5 DEF Analysis!Next

(* One more function is marked.                                            *)
LEMMA MarkStep == ASSUME PurityInv, Analysis!trivial_mark PROVE PurityInv'
<1> USE DEF PurityInv, Analysis!TypeOK
<1>1. (module \in Modules /\ Analysis!TypeOK)'
  BY PurityTypeNext DEF Analysis!Next
<1>2. /\ stage = "mark" /\ stage' = "mark" /\ pos \in Analysis!Funcs /\ pos' = pos + 1 /\ UNCHANGED module
      /\ Marking /\ QueuedImpure
      /\ is_pure' = [is_pure EXCEPT ![pos] = Analysis!TriviallyPure(pos)]
      /\ worklist' = IF Analysis!TriviallyPure(pos) THEN worklist ELSE Append(worklist, pos)
  BY DEF Analysis!trivial_mark
<1>3. Analysis!TriviallyPure(pos) \in BOOLEAN
  BY DEF Analysis!TriviallyPure
<1>4. QueuedImpure'
  <2>1. CASE Analysis!TriviallyPure(pos)
    BY <1>2, <2>1 DEF QueuedImpure
  <2>2. CASE ~ Analysis!TriviallyPure(pos)
    BY <1>2, <2>2 DEF QueuedImpure
  <2> QED BY <2>1, <2>2
<1>5. Marking'
  <2> SUFFICES ASSUME NEW f \in Analysis!Funcs, f < pos'
               PROVE  /\ is_pure'[f] <=> Analysis!TriviallyPure(f)
                      /\ ~ is_pure'[f] => \E l \in 1 .. Len(worklist') : worklist'[l] = f
    BY <1>2, PureSame DEF Marking
  <2>1. CASE f = pos
    <3>1. is_pure'[f] <=> Analysis!TriviallyPure(f)
      BY <1>2, <1>3, <2>1
    <3>2. CASE ~ Analysis!TriviallyPure(pos)
      <4>1. worklist'[Len(worklist) + 1] = f /\ Len(worklist) + 1 \in 1 .. Len(worklist')
        BY <1>2, <2>1, <3>2
      <4> QED BY <3>1, <4>1
    <3> QED BY <3>1, <3>2, <2>1
  <2>2. CASE f # pos
    <3>1. f < pos /\ is_pure'[f] = is_pure[f]
      BY <1>2, <2>2
    <3>2. \A l \in 1 .. Len(worklist) : l \in 1 .. Len(worklist') /\ worklist'[l] = worklist[l]
      BY <1>2
    <3> QED BY <1>2, <3>1, <3>2 DEF Marking
  <2> QED BY <2>1, <2>2
<1> QED BY <1>1, <1>2, <1>4, <1>5

(* The list is marked: everything impure is queued.                        *)
LEMMA StartStep == ASSUME PurityInv, Analysis!StartProcess PROVE PurityInv'
<1> USE DEF PurityInv, Analysis!TypeOK
<1>1. (module \in Modules /\ Analysis!TypeOK)'
  BY PurityTypeNext DEF Analysis!Next
<1>2. /\ stage' = "process" /\ UNCHANGED <<module, is_pure, worklist, now, use>>
      /\ Marking /\ \A f \in Analysis!Funcs : f < pos
  BY DEF Analysis!StartProcess
<1>3. Spreading'
  BY <1>2 DEF Spreading, Marking, Queued
<1>4. \A f \in Analysis!Funcs : (is_pure[f] => Analysis!TriviallyPure(f)) /\ (Analysis!Pure(f) => is_pure[f])
  BY <1>2, PureCallees DEF Marking
<1>5. QueuedImpure'
  BY <1>2 DEF QueuedImpure
<1> QED BY <1>1, <1>2, <1>3, <1>4, <1>5, PureSame

LEMMA PopStep == ASSUME PurityInv, Analysis!PopFront PROVE PurityInv'
<1> USE DEF PurityInv, Analysis!TypeOK
<1>1. (module \in Modules /\ Analysis!TypeOK)'
  BY PurityTypeNext DEF Analysis!Next
<1>2. /\ stage = "process" /\ stage' = "use" /\ UNCHANGED <<module, is_pure>>
      /\ worklist # << >> /\ worklist' = Tail(worklist)
      /\ now' = worklist[1] /\ use' = 1 /\ worklist[1] \in Analysis!Funcs /\ 1 \in 1 .. Len(worklist)
  BY DEF Analysis!PopFront
<1>3. \A l \in 1 .. Len(worklist') : l + 1 \in 1 .. Len(worklist) /\ worklist'[l] = worklist[l + 1]
  BY <1>2
<1>4. QueuedImpure'
  BY <1>2, <1>3 DEF QueuedImpure
<1>5. Spreading'
  <2> SUFFICES ASSUME NEW g \in Analysis!Funcs, ~ is_pure'[g]
               PROVE  (\/ Queued(g)
                       \/ stage = "use" /\ now = g /\ Told(g, use)
                       \/ Told(g, Len(module.users[g]) + 1))'
    BY DEF Spreading
  <2>1. Queued(g) \/ Told(g, Len(module.users[g]) + 1)
    BY <1>2 DEF Spreading
  <2>2. CASE Told(g, Len(module.users[g]) + 1)
    BY <1>2, <2>2 DEF Told
  <2>3. CASE Queued(g)
    <3>1. PICK l \in 1 .. Len(worklist) : worklist[l] = g
      BY <2>3 DEF Queued
    <3>2. CASE l = 1
      <4>1. Told(g, 1)'
        BY DEF Told
      <4> QED BY <1>2, <3>1, <3>2, <4>1
    <3>3. CASE l # 1
      <4>1. l - 1 \in 1 .. Len(worklist') /\ worklist'[l - 1] = g
        BY <1>2, <3>1, <3>3
      <4> QED BY <4>1 DEF Queued
    <3> QED BY <3>2, <3>3
  <2> QED BY <2>1, <2>2, <2>3
<1>6. now' \in Analysis!Funcs /\ ~ is_pure'[now']
  BY <1>2 DEF QueuedImpure
<1> QED BY <1>1, <1>2, <1>4, <1>5, <1>6, PureSame

(* A caller is told: if it was called pure, it is no longer, and queued.   *)
LEMMA ProcessStep == ASSUME PurityInv, Analysis!process PROVE PurityInv'
<1> USE DEF PurityInv, Analysis!TypeOK
<1> DEFINE func == Analysis!Users[use]
<1>1. (module \in Modules /\ Analysis!TypeOK)'
  BY PurityTypeNext DEF Analysis!Next
<1>2. /\ stage = "use" /\ stage' = "use" /\ UNCHANGED <<module, now>> /\ use' = use + 1
      /\ now \in Analysis!Funcs /\ ~ is_pure[now]
  BY DEF Analysis!process
<1>3. /\ Analysis!Users = module.users[now] /\ Analysis!Users \in Seq(Analysis!Funcs)
      /\ use \in 1 .. Len(Analysis!Users) /\ func \in Analysis!Funcs
  <2>1. Analysis!Users = module.users[now] /\ Analysis!Users \in Seq(Analysis!Funcs)
    BY <1>2, UsersAreFuncs DEF Analysis!Users
  <2>2. use \in 1 .. Len(Analysis!Users)
    BY <2>1 DEF Analysis!process
  <2> HIDE DEF PurityInv, Analysis!TypeOK, Analysis!Funcs
  <2>3. Analysis!Users[use] \in Analysis!Funcs
    BY <2>1, <2>2, ElementIn
  <2> QED BY <2>1, <2>2, <2>3
<1>4. Analysis!Calls(func, now)
  BY <1>3 DEF Analysis!Calls
<1>5. CASE ~ is_pure[func]
  <2>1. UNCHANGED <<is_pure, worklist>>
    BY <1>5 DEF Analysis!process
  <2>2. Spreading'
    <3> SUFFICES ASSUME NEW g \in Analysis!Funcs, ~ is_pure[g]
                 PROVE  (\/ Queued(g)
                         \/ stage = "use" /\ now = g /\ Told(g, use)
                         \/ Told(g, Len(module.users[g]) + 1))'
      BY <2>1 DEF Spreading
    <3>1. \/ Queued(g)
          \/ now = g /\ Told(g, use)
          \/ Told(g, Len(module.users[g]) + 1)
      BY <1>2 DEF Spreading
    <3>2. CASE Queued(g)
      BY <2>1, <3>2 DEF Queued
    <3>3. CASE now = g /\ Told(g, use)
      <4>1. ASSUME NEW l \in 1 .. use' - 1
            PROVE  ~ is_pure'[module'.users[g][l]]
        <5>1. CASE l = use
          BY <1>2, <1>3, <1>5, <2>1, <3>3, <5>1
        <5>2. CASE l # use
          <6>1. l \in 1 .. use - 1
            BY <1>2, <1>3, <5>2
          <6> QED BY <1>2, <2>1, <3>3, <6>1 DEF Told
        <5> QED BY <5>1, <5>2
      <4>2. Told(g, use)'
        BY <4>1 DEF Told
      <4> QED BY <1>2, <3>3, <4>2
    <3>4. CASE Told(g, Len(module.users[g]) + 1)
      BY <1>2, <2>1, <3>4 DEF Told
    <3> QED BY <3>1, <3>2, <3>3, <3>4
  <2> QED BY <1>1, <1>2, <2>1, <2>2, PureSame DEF QueuedImpure
<1>6. CASE is_pure[func]
  <2>1. /\ is_pure' = [is_pure EXCEPT ![func] = FALSE]
        /\ worklist' = Append(worklist, func)
    BY <1>6 DEF Analysis!process
  <2>2. QueuedImpure'
    <3> SUFFICES ASSUME NEW l \in 1 .. Len(worklist') PROVE ~ is_pure'[worklist'[l]]
      BY <1>2 DEF QueuedImpure
    <3>1. CASE l = Len(worklist) + 1
      BY <1>3, <2>1, <3>1
    <3>2. CASE l # Len(worklist) + 1
      <4>1. l \in 1 .. Len(worklist) /\ worklist'[l] = worklist[l] /\ worklist[l] \in Analysis!Funcs
        BY <1>3, <2>1, <3>2
      <4>2. ~ is_pure[worklist[l]]
        BY <4>1 DEF QueuedImpure
      <4> QED BY <1>3, <2>1, <4>1, <4>2
    <3> QED BY <3>1, <3>2
  <2>3. \A f \in Analysis!Funcs : is_pure'[f] => is_pure[f]
    BY <1>3, <2>1
  <2>4. ~ is_pure'[func]
    BY <1>3, <2>1
  <2>5. Spreading'
    <3> SUFFICES ASSUME NEW g \in Analysis!Funcs, ~ is_pure'[g]
                 PROVE  (\/ Queued(g)
                         \/ stage = "use" /\ now = g /\ Told(g, use)
                         \/ Told(g, Len(module.users[g]) + 1))'
      BY DEF Spreading
    <3>1. module.users[g] \in Seq(Analysis!Funcs)
      BY UsersAreFuncs
    <3>2. CASE g = func
      <4>1. Len(worklist) + 1 \in 1 .. Len(worklist') /\ worklist'[Len(worklist) + 1] = func
        BY <1>3, <2>1
      <4> QED BY <3>2, <4>1 DEF Queued
    <3>3. CASE g # func
      <4>1. ~ is_pure[g]
        BY <1>3, <2>1, <3>3
      <4>2. \/ Queued(g)
            \/ now = g /\ Told(g, use)
            \/ Told(g, Len(module.users[g]) + 1)
        BY <1>2, <4>1 DEF Spreading
      <4>3. CASE Queued(g)
        <5>1. \A l \in 1 .. Len(worklist) : l \in 1 .. Len(worklist') /\ worklist'[l] = worklist[l]
          BY <1>3, <2>1
        <5> QED BY <4>3, <5>1 DEF Queued
      <4>4. CASE now = g /\ Told(g, use)
        <5>1. ASSUME NEW l \in 1 .. use' - 1
              PROVE  ~ is_pure'[module'.users[g][l]]
          <6>1. l \in 1 .. use /\ l \in 1 .. Len(Analysis!Users)
            BY <1>2, <1>3
          <6>4. Analysis!Users[l] \in Analysis!Funcs
            <7> HIDE DEF PurityInv, Analysis!TypeOK, Analysis!Funcs
            <7> QED BY <1>3, <6>1, ElementIn
          <6>2. CASE l = use
            BY <1>2, <1>3, <2>4, <4>4, <6>2
          <6>3. CASE l # use
            <7>1. l \in 1 .. use - 1
              BY <1>3, <6>1, <6>3
            <7>2. ~ is_pure[Analysis!Users[l]]
              BY <1>3, <4>4, <7>1 DEF Told
            <7> QED BY <1>2, <1>3, <2>3, <4>4, <6>4, <7>2
          <6> QED BY <6>2, <6>3
        <5>2. Told(g, use)'
          BY <5>1 DEF Told
        <5> QED BY <1>2, <4>4, <5>2
      <4>5. CASE Told(g, Len(module.users[g]) + 1)
        <5>1. ASSUME NEW l \in 1 .. Len(module.users[g])
              PROVE  ~ is_pure'[module.users[g][l]]
          <6>1. module.users[g][l] \in Analysis!Funcs /\ l \in 1 .. (Len(module.users[g]) + 1) - 1
            <7> HIDE DEF PurityInv, Analysis!TypeOK, Analysis!Funcs
            <7>1. module.users[g][l] \in Analysis!Funcs
              BY <3>1, ElementIn
            <7>2. Len(module.users[g]) \in Nat
              BY <3>1
            <7> QED BY <7>1, <7>2
          <6>2. ~ is_pure[module.users[g][l]]
            BY <4>5, <6>1 DEF Told
          <6> QED BY <2>3, <6>1, <6>2
        <5> QED BY <1>2, <3>1, <5>1 DEF Told
      <4> QED BY <4>2, <4>3, <4>4, <4>5
    <3> QED BY <3>2, <3>3
  <2>6. \A f \in Analysis!Funcs : Analysis!Pure(f) => is_pure'[f]
    <3>1. ~ Analysis!Pure(func)
      BY <1>2, <1>3, <1>4, PureCallees
    <3>2. \A f \in Analysis!Funcs : Analysis!Pure(f) => is_pure[f]
      BY <1>2
    <3> QED BY <1>3, <2>1, <3>1, <3>2
  <2>7. \A f \in Analysis!Funcs : is_pure'[f] => Analysis!TriviallyPure(f)
    BY <1>2, <2>3
  <2>8. ~ is_pure'[now]
    BY <1>2, <2>3
  <2>9. \A f \in Analysis!Funcs : (is_pure'[f] => Analysis!TriviallyPure(f)') /\ (Analysis!Pure(f)' => is_pure'[f])
    BY <1>2, <2>6, <2>7, PureSame
  <2> QED BY <1>1, <1>2, <2>2, <2>5, <2>8, <2>9
<1> QED BY <1>5, <1>6

LEMMA EndProcessStep == ASSUME PurityInv, Analysis!EndProcess PROVE PurityInv'
<1> USE DEF PurityInv, Analysis!TypeOK
<1>1. (module \in Modules /\ Analysis!TypeOK)'
  BY PurityTypeNext DEF Analysis!Next
<1>2. /\ stage = "use" /\ stage' = "process" /\ UNCHANGED <<module, is_pure, worklist, now, use>>
      /\ now \in Analysis!Funcs /\ use > Len(module.users[now])
  BY DEF Analysis!EndProcess, Analysis!Users
<1>3. Told(now, use) => Told(now, Len(module.users[now]) + 1)
  <2>1. use \in Nat /\ Len(module.users[now]) \in Nat
    BY <1>2, UsersAreFuncs
  <2> HIDE DEF PurityInv, Analysis!TypeOK, Analysis!Funcs
  <2>2. 1 .. (Len(module.users[now]) + 1) - 1 \subseteq 1 .. use - 1
    BY <1>2, <2>1
  <2> QED BY <2>2 DEF Told
<1>4. Spreading'
  <2> HIDE DEF PurityInv, Analysis!TypeOK, Analysis!Funcs
  <2> SUFFICES ASSUME NEW g \in Analysis!Funcs, ~ is_pure[g]
               PROVE  Queued(g) \/ Told(g, Len(module.users[g]) + 1)
    BY <1>2 DEF Spreading, Queued, Told
  <2>1. Spreading /\ stage = "use"
    BY <1>2 DEF PurityInv
  <2>2. \/ Queued(g) \/ (now = g /\ Told(g, use)) \/ Told(g, Len(module.users[g]) + 1)
    BY <2>1 DEF Spreading
  <2> QED BY <1>3, <2>2
<1>5. QueuedImpure'
  BY <1>2 DEF QueuedImpure
<1> QED BY <1>1, <1>2, <1>4, <1>5, PureSame

LEMMA PurityFinishStep ==
  ASSUME PurityInv, Analysis!Finish \/ Analysis!Finished \/ UNCHANGED Analysis!vars
  PROVE  PurityInv'
<1> USE DEF PurityInv, Analysis!TypeOK
<1>1. (module \in Modules /\ Analysis!TypeOK)'
  BY PurityTypeNext DEF Analysis!Next
<1>2. CASE Analysis!Finish
  <2>1. /\ stage = "process" /\ stage' = "done" /\ worklist = << >>
        /\ UNCHANGED <<module, pos, is_pure, worklist, now, use>>
    BY <1>2 DEF Analysis!Finish
  <2>2. Spreading' /\ QueuedImpure'
    BY <2>1 DEF Spreading, Queued, Told, QueuedImpure
  <2> QED BY <1>1, <2>1, <2>2, PureSame
<1>3. CASE Analysis!Finished \/ UNCHANGED Analysis!vars
  <2>1. UNCHANGED <<module, stage, pos, is_pure, worklist, now, use>>
    BY <1>3 DEF Analysis!Finished, Analysis!vars
  <2>2. /\ Spreading' <=> Spreading
        /\ QueuedImpure' <=> QueuedImpure
    BY <2>1 DEF Spreading, Queued, Told, QueuedImpure
  <2>3. Marking' <=> Marking
    BY <2>1, PureSame DEF Marking
  <2> QED BY <1>1, <2>1, <2>2, <2>3, PureSame
<1> QED BY <1>2, <1>3

LEMMA PurityInvNext ==
  PurityInv /\ [Analysis!Next]_(Analysis!vars) => PurityInv'
BY MarkStep, StartStep, PopStep, ProcessStep, EndProcessStep, PurityFinishStep DEF Analysis!Next

THEOREM PurityInvAlways == Analysis!Spec => []PurityInv
BY PurityInitInv, PurityInvNext, PTL DEF Analysis!Spec

(* Every variable keeps its type.                                          *)
THEOREM PurityTypeCorrect == Analysis!Spec => []Analysis!TypeOK
<1>1. PurityInv => Analysis!TypeOK
  BY DEF PurityInv
<1> QED BY <1>1, PurityInvAlways, PTL

(* No function is called impure without a reason.                          *)
THEOREM ImpureForAReasonAlways == Analysis!Spec => []ImpureForAReason
<1>1. PurityInv => ImpureForAReason
  BY AnalysisOfPurity DEF PurityInv, Analysis!ImpureForAReason
<1> QED BY <1>1, PurityInvAlways, PTL

(* Where the pass ends its answer is exact: the functions called pure are  *)
(* closed under calls and none of them is impure by itself.                *)
THEOREM PurityExactAlways == Analysis!Spec => []PurityExact
<1>1. PurityInv => PurityExact
  <2> SUFFICES ASSUME PurityInv, stage = "done", NEW f \in Analysis!Funcs
               PROVE  is_pure[f] <=> Analysis!Pure(f)
    BY AnalysisOfPurity DEF Analysis!PurityExact
  <2>1. Analysis!Pure(f) => is_pure[f]
    BY DEF PurityInv
  <2>2. ASSUME is_pure[f] PROVE Analysis!Pure(f)
    <3> DEFINE S == {g \in Analysis!Funcs : is_pure[g]}
    <3>1. ASSUME NEW g \in S, NEW h \in Analysis!Funcs, Analysis!Calls(g, h)
          PROVE  h \in S
      <4> SUFFICES ASSUME ~ is_pure[h] PROVE FALSE
        OBVIOUS
      <4>1. Told(h, Len(module.users[h]) + 1)
        BY DEF PurityInv, Spreading, Queued
      <4>2. PICK l \in 1 .. Len(module.users[h]) : module.users[h][l] = g
        BY <3>1 DEF Analysis!Calls
      <4>3. module.users[h] \in Seq(Analysis!Funcs)
        BY UsersAreFuncs DEF PurityInv
      <4>4. Len(module.users[h]) \in Nat
        BY <4>3
      <4>5. ~ is_pure[g]
        BY <4>1, <4>2, <4>4 DEF Told
      <4> QED BY <4>5
    <3>2. S \in SUBSET Analysis!Funcs /\ Analysis!HoldsCallees(S, f)
      BY <2>2, <3>1 DEF Analysis!HoldsCallees
    <3>3. \A g \in S : Analysis!TriviallyPure(g)
      BY DEF PurityInv
    <3> QED BY <3>2, <3>3 DEF Analysis!Pure
  <2> QED BY <2>1, <2>2
<1> QED BY <1>1, PurityInvAlways, PTL
=============================================================================
