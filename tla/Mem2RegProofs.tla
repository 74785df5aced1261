--------------------------- MODULE Mem2RegProofs ---------------------------
(***************************************************************************)
(* Proofs about Mem2Reg, for every program: what the pass keeps on its     *)
(* stacks while rename walks the dominator tree, and that the function it  *)
(* leaves computes what the old one did.                                   *)
(***************************************************************************)
EXTENDS Mem2RegRuns, CfgProofs, FiniteSetTheorems

(* The stores to v in front of position i of a block; x is the last        *)
(* definition of v there in the block itself, where r is what is stored.   *)
StoresIn(b, i, v) ==
  {k \in 1 .. Len(prog.body[b]) :
     k < i /\ prog.op[prog.body[b][k]] = "store" /\ prog.var[prog.body[b][k]] = v}

LastOf(r, x, b, i, v) ==
  \/ \E k \in StoresIn(b, i, v) :
       (\A l \in StoresIn(b, i, v) : l <= k) /\ x = r[prog.body[b][k]]
  \/ StoresIn(b, i, v) = {} /\ i > 0 /\ HasPhi(b, v) /\ x = Phi(b, v)

LastIn(x, b, i, v) == LastOf(rval, x, b, i, v)

(* What a call of rename has pushed for v so far.                          *)
PushedBy(f, v) ==
  Cardinality(StoresIn(f.bb, f.at, v)) + (IF f.at > 0 /\ HasPhi(f.bb, v) THEN 1 ELSE 0)

EndOf(b) == Len(prog.body[b]) + 1

(* The active calls are a path of the dominator tree from the entry, and   *)
(* every call but the innermost has come to its children.                  *)
FramesInv ==
  /\ pc = "rename" <=> frames # << >>
  /\ frames # << >> => frames[1].bb = Entry
  /\ \A k \in 1 .. Len(frames) :
       /\ frames[k].children \subseteq DomTree[prog.cfg][frames[k].bb]
       /\ k > 1 => IsIdom(prog.cfg, frames[k - 1].bb, frames[k].bb)
       /\ k < Len(frames) => frames[k].at > Len(prog.body[frames[k].bb]) + 1

(* A call still has all its children until it has filled the phis, and the *)
(* child that is active is no longer among them.                           *)
ChildrenInv ==
  \A k \in 1 .. Len(frames) :
    /\ frames[k].at <= EndOf(frames[k].bb) =>
         frames[k].children = DomTree[prog.cfg][frames[k].bb]
    /\ \A j \in 1 .. Len(frames) : j = k + 1 => frames[j].bb \notin frames[k].children

(* rename has not come to block b yet; it has passed position i of b,      *)
(* where position 0 stands for the phis and EndOf(b) for the successors.   *)
Waiting(b) ==
  \/ pc = "phi"
  \/ \E k \in 1 .. Len(frames) : \E c \in frames[k].children : Dominates(prog.cfg, c, b)

Passed(b, i) == ~ Waiting(b) /\ (frames # << >> /\ b = bb => i < Top.at)

Seen(j) ==
  \A b \in Blocks : \A i \in 1 .. Len(prog.body[b]) : prog.body[b][i] = j => Passed(b, i)

(* A load is itself until rename passes it, and what it is replaced by is  *)
(* never a load that will be replaced in turn.  Stores follow their loads. *)
LoadsInv ==
  /\ \A j \in Instrs : ~ Seen(j) => uses[j] = Load(j)
  /\ \A j, m \in Instrs : Seen(j) /\ uses[j] = Load(m) => Seen(m)
  /\ \A j \in Instrs : prog.rval[j] = Const(j) => rval[j] = Const(j)
  /\ \A j, m \in Instrs : prog.rval[j] = Load(m) => rval[j] = uses[m]

(* h tells how high v's stack was after the pushes of each call: exactly   *)
(* what the calls up to it have pushed, all of it from blocks that         *)
(* dominate the call's block, and on top the last definition there.        *)
Heights(h, v) ==
  /\ h \in [0 .. Len(frames) -> Nat]
  /\ h[0] = 0 /\ h[Len(frames)] = Len(var_val_stack[v])
  /\ \A j, k \in 0 .. Len(frames) : j <= k => h[j] <= h[k]
  /\ \A k \in 1 .. Len(frames) :
       /\ h[k] = h[k - 1] + PushedBy(frames[k], v)
       /\ \A l \in 1 .. h[k] : \A d \in DefinedIn(var_val_stack[v][l]) :
            Dominates(prog.cfg, d, frames[k].bb)
       /\ PushedBy(frames[k], v) > 0 =>
            LastIn(var_val_stack[v][h[k]], frames[k].bb, frames[k].at, v)

StackInv == \A v \in Vars : \E h : Heights(h, v)

(* Operands are defined in dominating blocks, also after loads have been   *)
(* replaced by what stood on a stack.                                      *)
OperandsInv ==
  \A j \in Instrs : \A b \in Blocks :
    j \in Members(prog.body[b]) =>
      \A d \in DefinedIn(rval[j]) \cup DefinedIn(uses[j]) : Dominates(prog.cfg, d, b)

Inv ==
  /\ prog \in Programs /\ TypeOK
  /\ FramesInv /\ ChildrenInv /\ LoadsInv /\ StackInv /\ OperandsInv
-----------------------------------------------------------------------------
USE EntryInBlocks, NullNotBlock

LEMMA ProgramFacts ==
  ASSUME prog \in Programs
  PROVE  /\ IsProgram(prog) /\ IsCfg(prog.cfg) /\ prog.cfg \in CfgsOfPrograms
         /\ \A b \in Blocks : Reachable(prog.cfg, b)
BY ProgramsAssumption DEF CfgsOfPrograms

LEMMA BlocksFinite == IsFiniteSet(Blocks)
BY FS_Interval, NAssumption DEF Blocks

(* The lists of a set of blocks that the code may meet.                    *)
LEMMA ListFacts ==
  ASSUME NEW S \in SUBSET Blocks, NEW s \in SetToSeqs(S)
  PROVE  s \in Seq(Blocks) /\ Members(s) = S
<1> DEFINE n == Cardinality(S)
<1>1. IsFiniteSet(S) /\ n \in Nat
  BY BlocksFinite, FS_Subset, FS_CardinalityType
<1>2. s \in [1 .. n -> S] /\ \A i, j \in 1 .. n : i # j => s[i] # s[j]
  BY DEF SetToSeqs
<1>3. s \in Injection(1 .. n, S)
  BY <1>2 DEF Injection, IsInjective
<1>4. Cardinality(1 .. n) = n
  BY <1>1, FS_Interval
<1>5. s \in Surjection(1 .. n, S)
  BY <1>1, <1>3, <1>4, FS_Injection
<1> HIDE DEF n
<1>6. s \in Seq(Blocks) /\ Len(s) = n
  BY <1>1, <1>2
<1> QED BY <1>2, <1>5, <1>6 DEF Members, Surjection

LEMMA TopFacts ==
  ASSUME Inv, Renaming
  PROVE  /\ frames \in Seq(Frames) /\ Len(frames) \in Nat \ {0}
         /\ Top = frames[Len(frames)] /\ Top \in Frames
         /\ bb \in Blocks /\ Top.at \in Nat
         /\ Body \in Seq(Instrs) /\ Len(Body) \in Nat
         /\ Top.at \in 1 .. Len(Body) => Instr \in Instrs /\ Instr \in Members(Body)
<1>1. frames \in Seq(Frames) /\ frames # << >>
  BY DEF Inv, TypeOK, Renaming
<1>2. Len(frames) \in Nat \ {0} /\ Top \in Frames
  BY <1>1 DEF Top
<1>3. bb \in Blocks /\ Top.at \in Nat
  BY <1>2 DEF bb, Frames
<1>4. Body \in Seq(Instrs)
  BY <1>3, ProgramFacts DEF Inv, Body, IsProgram
<1>5. Len(Body) \in Nat
  BY <1>4
<1>6. Top.at \in 1 .. Len(Body) => Instr \in Instrs /\ Instr \in Members(Body)
  BY <1>4 DEF Instr, Members
<1> QED BY <1>1, <1>2, <1>3, <1>4, <1>5, <1>6 DEF Top

LEMMA SetTopFacts ==
  ASSUME frames \in Seq(Frames), frames # << >>, NEW f \in Frames
  PROVE  /\ SetTop(f) \in Seq(Frames) /\ Len(SetTop(f)) = Len(frames)
         /\ SetTop(f)[Len(frames)] = f
         /\ \A k \in 1 .. Len(frames) - 1 : SetTop(f)[k] = frames[k]
BY DEF SetTop

(* Every branch of rename that stays in its call.                          *)
LEMMA TopSteps ==
  ASSUME Inv, PushPhis \/ RenameLoad \/ RenameStore \/ FillPhis
  PROVE  \E f \in Frames :
           /\ frames' = SetTop(f) /\ f.bb = bb /\ f.at = Top.at + 1
           /\ f.children = Top.children
           /\ Top.at <= Len(Body) + 1
<1>1. Renaming
  BY DEF PushPhis, RenameLoad, RenameStore, FillPhis
<1>2. /\ Top \in Frames /\ Top.at \in Nat /\ Len(Body) \in Nat
      /\ Top.at \in 1 .. Len(Body) => Instr \in Instrs
  BY <1>1, TopFacts
<1> DEFINE F(del) == [bb |-> bb, at |-> Top.at + 1, children |-> Top.children,
                      wait_delete |-> Top.wait_delete \cup del]
<1>3. ASSUME NEW del \in SUBSET Instrs
      PROVE  F(del) \in Frames /\ F(del).bb = bb /\ F(del).at = Top.at + 1
             /\ F(del).children = Top.children
  BY <1>2 DEF Frames, bb
<1>4. /\ Top.at <= Len(Body) + 1
      /\ \E del \in SUBSET Instrs : frames' = SetTop(F(del))
  <2>1. frames' = Advance({}) \/ (Top.at \in 1 .. Len(Body) /\ frames' = Advance({Instr}))
    BY DEF PushPhis, RenameLoad, RenameStore, FillPhis
  <2>2. Top.at <= Len(Body) + 1
    BY <1>2 DEF PushPhis, RenameLoad, RenameStore, FillPhis
  <2>3. \A del : Advance(del) = SetTop(F(del))
    BY DEF Advance
  <2> HIDE DEF F
  <2> QED BY <1>2, <2>1, <2>2, <2>3
<1> HIDE DEF F
<1> QED BY <1>3, <1>4

LEMMA CallFacts ==
  ASSUME prog \in Programs, NEW b \in Blocks
  PROVE  /\ Call(b) \in Frames /\ Call(b).bb = b /\ Call(b).at = 0
         /\ Call(b).children = DomTree[prog.cfg][b]
<1>1. DomTree[prog.cfg][b] \in SUBSET Blocks
  BY ProgramFacts DEF DomTree
<1> QED BY <1>1 DEF Call, Frames

(* What Recurse and Return do to the calls.                                *)
LEMMA RecurseFacts ==
  ASSUME Inv, Recurse
  PROVE  \E c \in Top.children, f \in Frames :
           /\ c \in Blocks /\ IsIdom(prog.cfg, bb, c)
           /\ f.bb = bb /\ f.at = Top.at /\ f.children = Top.children \ {c}
           /\ frames' \in Seq(Frames) /\ Len(frames') = Len(frames) + 1
           /\ \A k \in 1 .. Len(frames) - 1 : frames'[k] = frames[k]
           /\ frames'[Len(frames)] = f /\ frames'[Len(frames) + 1] = Call(c)
<1>1. Renaming /\ frames # << >>
  BY DEF Recurse, Renaming
<1>2. /\ frames \in Seq(Frames) /\ Len(frames) \in Nat \ {0}
      /\ Top = frames[Len(frames)] /\ Top \in Frames /\ bb \in Blocks
  BY <1>1, TopFacts
<1> DEFINE F(c) == [Top EXCEPT !.children = @ \ {c}]
<1>3. PICK c \in Top.children : frames' = Append(SetTop(F(c)), Call(c))
  BY DEF Recurse
<1>4. F(c) \in Frames /\ F(c).bb = bb /\ F(c).at = Top.at /\ F(c).children = Top.children \ {c}
  BY <1>2 DEF Frames, bb
<1>5. c \in DomTree[prog.cfg][bb]
  BY <1>2, <1>3 DEF Inv, FramesInv, bb
<1>6. c \in Blocks /\ IsIdom(prog.cfg, bb, c)
  BY <1>2, <1>5, ProgramFacts DEF Inv, DomTree
<1>7. Call(c) \in Frames
  BY <1>6, CallFacts DEF Inv
<1> DEFINE f == F(c)
           s == SetTop(f)
<1>8. /\ s \in Seq(Frames) /\ Len(s) = Len(frames) /\ s[Len(frames)] = f
      /\ \A k \in 1 .. Len(frames) - 1 : s[k] = frames[k]
  BY <1>1, <1>2, <1>4, SetTopFacts
<1>9. frames' = Append(s, Call(c))
  BY <1>3
<1> HIDE DEF f, s
<1>10. /\ frames' \in Seq(Frames) /\ Len(frames') = Len(frames) + 1
       /\ \A k \in 1 .. Len(frames) - 1 : frames'[k] = frames[k]
       /\ frames'[Len(frames)] = f /\ frames'[Len(frames) + 1] = Call(c)
  BY <1>2, <1>7, <1>8, <1>9
<1> QED BY <1>4, <1>6, <1>10 DEF f

LEMMA ReturnFacts ==
  ASSUME Inv, Return
  PROVE  /\ frames' \in Seq(Frames) /\ Len(frames') = Len(frames) - 1
         /\ \A k \in 1 .. Len(frames) - 1 : frames'[k] = frames[k]
<1>1. frames \in Seq(Frames) /\ frames # << >> /\ frames' = SubSeq(frames, 1, Len(frames) - 1)
  BY DEF Return, Renaming, Inv, TypeOK
<1> QED BY <1>1, PopFacts
-----------------------------------------------------------------------------
(***************************************************************************)
(* The initial states.                                                     *)
(***************************************************************************)
LEMMA OnePlace ==
  ASSUME prog \in Programs, NEW j, NEW b \in Blocks, NEW c \in Blocks,
         j \in Members(prog.body[b]), j \in Members(prog.body[c])
  PROVE  b = c
<1>1. PICK k \in 1 .. Len(prog.body[b]) : j = prog.body[b][k]
  BY DEF Members
<1>2. PICK l \in 1 .. Len(prog.body[c]) : j = prog.body[c][l]
  BY DEF Members
<1> QED BY <1>1, <1>2, ProgramFacts DEF IsProgram

LEMMA InitOperands == Init => OperandsInv
<1> SUFFICES ASSUME Init, NEW j \in Instrs, NEW b \in Blocks, j \in Members(prog.body[b]),
                    NEW d \in DefinedIn(rval[j]) \cup DefinedIn(uses[j])
             PROVE  Dominates(prog.cfg, d, b)
  BY DEF OperandsInv
<1>0. prog \in Programs /\ IsProgram(prog) /\ rval[j] = prog.rval[j] /\ uses[j] = Load(j)
  BY ProgramFacts DEF Init
<1>1. CASE d \in Blocks /\ j \in Members(prog.body[d])
  <2>1. d = b
    BY <1>0, <1>1, OnePlace
  <2> QED BY <2>1, DomRefl
<1>2. CASE ~ (d \in Blocks /\ j \in Members(prog.body[d]))
  <2>1. d \in DefinedIn(rval[j]) /\ rval[j] # Const(j)
    BY <1>0, <1>2 DEF DefinedIn, Const, Load
  <2>2. PICK k \in Instrs : prog.rval[j] = Load(k) /\ Precedes(prog, k, j)
    BY <1>0, <2>1 DEF IsProgram
  <2>3. d \in Blocks /\ k \in Members(prog.body[d])
    BY <1>0, <2>1, <2>2 DEF DefinedIn, Load
  <2> QED BY <2>2, <2>3 DEF Precedes, Members
<1> QED BY <1>1, <1>2

LEMMA InitInv == Init => Inv
<1> SUFFICES ASSUME Init PROVE Inv
  OBVIOUS
<1>1. prog \in Programs /\ IsProgram(prog)
  BY ProgramFacts DEF Init
<1>2. TypeOK
  <2>1. \A b \in Blocks : IsInjective(phis[b])
    BY DEF Init, IsInjective
  <2>2. rval \in [Instrs -> Values] /\ uses \in [Instrs -> Values]
    BY <1>1 DEF Init, IsProgram, Values
  <2>3. /\ pc = "phi" /\ todo \in SUBSET Vars
        /\ work_list = << >> /\ work_list \in Seq(Blocks) /\ var \in 0 .. NVars
        /\ phis \in [Blocks -> Seq(Vars)]
    BY SizesAssumption DEF Init
  <2>4. /\ pairs \in [Blocks \X Vars -> Seq(Values \X Blocks)]
        /\ var_val_stack \in [Vars -> Seq(Values)]
        /\ frames \in Seq(Frames) /\ erased \in SUBSET Instrs
    BY DEF Init
  <2> QED BY <2>1, <2>2, <2>3, <2>4 DEF TypeOK
<1>3. FramesInv
  BY DEF Init, FramesInv
<1>4. StackInv
  <2> SUFFICES ASSUME NEW v \in Vars PROVE \E h : Heights(h, v)
    BY DEF StackInv
  <2> DEFINE h == [k \in 0 .. 0 |-> 0]
  <2>1. Len(frames) = 0 /\ Len(var_val_stack[v]) = 0
    BY DEF Init
  <2>2. Heights(h, v)
    BY <2>1 DEF Heights
  <2> QED BY <2>2
<1>5. ChildrenInv
  <2>1. Len(frames) = 0
    BY DEF Init
  <2> QED BY <2>1 DEF ChildrenInv
<1>6. LoadsInv
  <2>1. \A b \in Blocks : \A i : ~ Passed(b, i)
    BY DEF Init, Passed, Waiting
  <2>2. ASSUME NEW j \in Instrs, NEW m \in Instrs, uses[j] = Load(m) PROVE j = m
    BY <2>2 DEF Init, Load
  <2>3. /\ \A j \in Instrs : uses[j] = Load(j)
        /\ rval = prog.rval
    BY DEF Init
  <2> QED BY <2>2, <2>3 DEF LoadsInv
<1> QED BY <1>1, <1>2, <1>3, <1>4, <1>5, <1>6, InitOperands DEF Inv
-----------------------------------------------------------------------------
(***************************************************************************)
(* The active calls.                                                       *)
(***************************************************************************)
LEMMA StepFrames == Inv /\ [Next]_vars => FramesInv'
<1> SUFFICES ASSUME Inv, [Next]_vars PROVE FramesInv'
  OBVIOUS
<1>0. prog \in Programs /\ FramesInv /\ prog' = prog
  BY DEF Inv, Next, vars, NextVar, PlacePhis, StartRename, PushPhis, RenameLoad, RenameStore,
         FillPhis, Recurse, Return
<1>1. CASE NextVar \/ PlacePhis \/ UNCHANGED vars
  <2>1. UNCHANGED <<prog, pc, frames>>
    BY <1>1 DEF NextVar, PlacePhis, vars
  <2> QED BY <1>0, <2>1 DEF FramesInv
<1>2. CASE StartRename
  <2>1. pc' = "rename" /\ frames' = <<Call(Entry)>>
    BY <1>2 DEF StartRename
  <2>2. Len(frames') = 1 /\ frames'[1] = Call(Entry)
    BY <2>1
  <2> QED BY <1>0, <2>1, <2>2, CallFacts DEF FramesInv
<1>3. CASE PushPhis \/ RenameLoad \/ RenameStore \/ FillPhis
  <2>1. Renaming /\ pc' = pc /\ pc = "rename"
    BY <1>3 DEF PushPhis, RenameLoad, RenameStore, FillPhis, Renaming
  <2> DEFINE n == Len(frames)
  <2>2. /\ frames \in Seq(Frames) /\ n \in Nat \ {0} /\ frames[n].bb = bb /\ frames[n] = Top
    BY <2>1, TopFacts DEF bb
  <2>3. PICK f \in Frames : frames' = SetTop(f) /\ f.bb = bb /\ f.children = Top.children
    BY <1>3, TopSteps
  <2>4. /\ Len(frames') = n /\ frames'[n] = f /\ frames' # << >>
        /\ \A k \in 1 .. n - 1 : frames'[k] = frames[k]
    BY <2>2, <2>3, SetTopFacts
  <2> HIDE DEF n
  <2>5. \A k \in 1 .. n : frames'[k].bb = frames[k].bb /\ frames'[k].children = frames[k].children
    BY <2>2, <2>3, <2>4
  <2>6. \A k \in 1 .. n : k < n => frames'[k].at = frames[k].at
    BY <2>2, <2>4
  <2>7. \A k \in 1 .. n : k > 1 => k - 1 \in 1 .. n
    BY <2>2
  <2>8. ASSUME NEW k \in 1 .. n
        PROVE  /\ frames'[k].children \subseteq DomTree[prog'.cfg][frames'[k].bb]
               /\ k > 1 => IsIdom(prog'.cfg, frames'[k - 1].bb, frames'[k].bb)
               /\ k < n => frames'[k].at > Len(prog'.body[frames'[k].bb]) + 1
    BY <1>0, <2>5, <2>6, <2>7 DEF FramesInv, n
  <2>9. frames'[1].bb = Entry
    BY <1>0, <2>1, <2>2, <2>5 DEF FramesInv
  <2> QED BY <2>1, <2>4, <2>8, <2>9 DEF FramesInv
<1>4. CASE Recurse
  <2>1. Renaming /\ pc' = pc /\ pc = "rename" /\ Top.at > Len(Body) + 1
    BY <1>4 DEF Recurse, Renaming
  <2> DEFINE n == Len(frames)
  <2>2. /\ frames \in Seq(Frames) /\ n \in Nat \ {0} /\ frames[n].bb = bb /\ frames[n] = Top
    BY <2>1, TopFacts DEF bb
  <2>3. PICK c \in Top.children, f \in Frames :
           /\ c \in Blocks /\ IsIdom(prog.cfg, bb, c)
           /\ f.bb = bb /\ f.at = Top.at /\ f.children = Top.children \ {c}
           /\ frames' \in Seq(Frames) /\ Len(frames') = n + 1
           /\ \A k \in 1 .. n - 1 : frames'[k] = frames[k]
           /\ frames'[n] = f /\ frames'[n + 1] = Call(c)
    BY <1>4, RecurseFacts
  <2>4. Call(c).bb = c /\ Call(c).children = DomTree[prog.cfg][c]
    BY <1>0, <2>3, CallFacts
  <2>5. Body = prog.body[bb]
    BY DEF Body
  <2> HIDE DEF n
  <2>6. \A k \in 1 .. n : frames'[k].bb = frames[k].bb /\ frames'[k].at = frames[k].at
                          /\ frames'[k].children \subseteq frames[k].children
    BY <2>2, <2>3
  <2>7. ASSUME NEW k \in 1 .. n + 1
        PROVE  /\ frames'[k].children \subseteq DomTree[prog.cfg][frames'[k].bb]
               /\ k > 1 => IsIdom(prog.cfg, frames'[k - 1].bb, frames'[k].bb)
               /\ k < n + 1 => frames'[k].at > Len(prog.body[frames'[k].bb]) + 1
    <3>1. CASE k = n + 1
      <4>1. frames'[k] = Call(c) /\ k - 1 = n /\ frames'[k - 1].bb = bb
        BY <2>2, <2>3, <3>1
      <4> QED BY <2>2, <2>3, <2>4, <3>1, <4>1
    <3>2. CASE k # n + 1
      <4>1. k \in 1 .. n /\ (k > 1 => k - 1 \in 1 .. n) /\ (k < n \/ k = n)
        BY <2>2, <3>2
      <4>2. /\ frames[k].children \subseteq DomTree[prog.cfg][frames[k].bb]
            /\ k > 1 => IsIdom(prog.cfg, frames[k - 1].bb, frames[k].bb)
            /\ k < n => frames[k].at > Len(prog.body[frames[k].bb]) + 1
        BY <1>0, <4>1 DEF FramesInv, n
      <4>3. frames[k].at > Len(prog.body[frames[k].bb]) + 1
        BY <2>1, <2>2, <2>5, <4>1, <4>2
      <4> QED BY <2>6, <4>1, <4>2, <4>3
    <3> QED BY <3>1, <3>2
  <2>8. frames' # << >> /\ frames'[1].bb = Entry /\ n + 1 > n
    <3>1. 1 \in 1 .. n
      BY <2>2
    <3>2. frames[1].bb = Entry
      BY <1>0, <2>1 DEF FramesInv
    <3>3. Len(frames') # 0
      BY <2>2, <2>3
    <3> QED BY <2>2, <2>6, <3>1, <3>2, <3>3
  <2>9. Len(frames') = n + 1
    BY <2>3
  <2> QED BY <1>0, <2>1, <2>7, <2>8, <2>9 DEF FramesInv
<1>5. CASE Return
  <2>1. Renaming /\ pc = "rename" /\ pc' = IF Len(frames) = 1 THEN "done" ELSE "rename"
    BY <1>5 DEF Return, Renaming
  <2> DEFINE n == Len(frames)
  <2>2. frames \in Seq(Frames) /\ n \in Nat \ {0}
    BY <2>1, TopFacts
  <2>3. /\ frames' \in Seq(Frames) /\ Len(frames') = n - 1
        /\ \A k \in 1 .. n - 1 : frames'[k] = frames[k]
    BY <1>5, ReturnFacts
  <2>4. frames' # << >> <=> n # 1
    <3>1. frames' = << >> <=> Len(frames') = 0
      BY <2>3
    <3> HIDE DEF n
    <3> QED BY <2>2, <2>3, <3>1
  <2>5. pc' = "rename" <=> frames' # << >>
    BY <2>1, <2>4
  <2>6. \A k \in 1 .. n :
           /\ frames[k].children \subseteq DomTree[prog.cfg][frames[k].bb]
           /\ k > 1 => IsIdom(prog.cfg, frames[k - 1].bb, frames[k].bb)
           /\ k < n => frames[k].at > Len(prog.body[frames[k].bb]) + 1
    BY <1>0 DEF FramesInv
  <2>7. frames[1].bb = Entry
    BY <1>0, <2>1 DEF FramesInv
  <2> HIDE DEF n
  <2>8. ASSUME NEW k \in 1 .. n - 1
        PROVE  /\ frames'[k].children \subseteq DomTree[prog.cfg][frames'[k].bb]
               /\ k > 1 => IsIdom(prog.cfg, frames'[k - 1].bb, frames'[k].bb)
               /\ k < n - 1 => frames'[k].at > Len(prog.body[frames'[k].bb]) + 1
    <3>1. k \in 1 .. n /\ (k > 1 => k - 1 \in 1 .. n - 1) /\ k < n /\ frames'[k] = frames[k]
      BY <2>2, <2>3
    <3> QED BY <2>3, <2>6, <3>1
  <2>9. frames' # << >> => frames'[1].bb = Entry
    <3>1. frames' # << >> => 1 \in 1 .. n - 1
      BY <2>2, <2>4
    <3> QED BY <2>3, <2>7, <3>1
  <2>10. Len(frames') = n - 1
    BY <2>3
  <2> QED BY <1>0, <2>5, <2>8, <2>9, <2>10 DEF FramesInv
<1> QED BY <1>1, <1>2, <1>3, <1>4, <1>5 DEF Next
-----------------------------------------------------------------------------
(***************************************************************************)
(* What rename has passed.                                                 *)
(***************************************************************************)
(* The dominator tree leads from a block to all that it dominates.         *)
LEMMA ChildOn ==
  ASSUME NEW g, NEW a \in Blocks, NEW b \in Blocks, Reachable(g, b), StrictlyDominates(g, a, b)
  PROVE  \E c \in Blocks : IsIdom(g, a, c) /\ Dominates(g, c, b)
<1> DEFINE C == {c \in Blocks : StrictlyDominates(g, a, c) /\ Dominates(g, c, b)}
           Above(c) == {x \in C : Dominates(g, x, c)}
           T == {Cardinality(Above(c)) : c \in C}
<1>1. b \in C
  BY DomRefl
<1>2. \A c \in C : IsFiniteSet(Above(c)) /\ Cardinality(Above(c)) \in Nat
  BY BlocksFinite, FS_Subset, FS_CardinalityType
<1>3. T \in SUBSET Nat /\ T # {}
  BY <1>1, <1>2
<1>4. PICK c \in C : \A m \in T : Cardinality(Above(c)) <= m
  <2>1. PICK n \in T : \A m \in T : n <= m
    <3> HIDE DEF T
    <3> QED BY <1>3, LeastNat
  <2>2. PICK c \in C : n = Cardinality(Above(c))
    BY <2>1
  <2> HIDE DEF Above, C
  <2> QED BY <2>1, <2>2
<1>5. c \in Blocks /\ StrictlyDominates(g, a, c) /\ Dominates(g, c, b) /\ Reachable(g, c)
  BY <1>4, DominatorReachable
<1>6. ASSUME NEW e \in Blocks, StrictlyDominates(g, e, c), ~ Dominates(g, e, a) PROVE FALSE
  <2>1. Dominates(g, e, c) /\ e # c /\ Dominates(g, a, c)
    BY <1>5, <1>6 DEF StrictlyDominates
  <2>2. Dominates(g, a, e) /\ a # e
    BY <1>5, <1>6, <2>1, DomTotal, DomRefl
  <2>3. e \in C
    BY <1>5, <2>1, <2>2, DomTrans DEF StrictlyDominates
  <2>4. Above(e) \subseteq Above(c)
    BY <1>5, <2>1, <2>3, DomTrans
  <2>5. c \in Above(c) /\ c \notin Above(e)
    BY <1>4, <1>5, <2>1, <2>3, DomRefl, DomAntisym
  <2>6. Cardinality(Above(e)) < Cardinality(Above(c))
    <3> HIDE DEF Above
    <3>1. Cardinality(Above(e)) <= Cardinality(Above(c))
          /\ (Cardinality(Above(e)) = Cardinality(Above(c)) => Above(c) = Above(e))
      BY <1>2, <1>4, <2>4, FS_Subset
    <3> QED BY <1>2, <1>4, <2>3, <2>5, <3>1
  <2> HIDE DEF Above
  <2> QED BY <1>2, <1>4, <2>3, <2>6
<1> QED BY <1>5, <1>6 DEF IsIdom

LEMMA PathFacts ==
  ASSUME Inv
  PROVE  /\ prog \in Programs /\ Len(frames) \in Nat /\ frames \in Seq(Frames)
         /\ frames # << >> <=> Len(frames) # 0
         /\ Len(frames) # 0 => frames[1].bb = Entry
         /\ \A i \in 1 .. Len(frames) :
              /\ frames[i] \in Frames /\ frames[i].bb \in Blocks
              /\ \A c \in frames[i].children : c \in Blocks /\ IsIdom(prog.cfg, frames[i].bb, c)
              /\ i < Len(frames) => frames[i].at > EndOf(frames[i].bb)
              /\ frames[i].at <= EndOf(frames[i].bb) =>
                   frames[i].children = {c \in Blocks : IsIdom(prog.cfg, frames[i].bb, c)}
         /\ \A i \in 2 .. Len(frames) : IsIdom(prog.cfg, frames[i - 1].bb, frames[i].bb)
         /\ \A i, j \in 1 .. Len(frames) : j = i + 1 => frames[j].bb \notin frames[i].children
<1>1. /\ prog \in Programs /\ frames \in Seq(Frames) /\ FramesInv /\ ChildrenInv
      /\ prog.cfg \in CfgsOfPrograms
  BY ProgramFacts DEF Inv, TypeOK
<1>2. Len(frames) \in Nat /\ (frames # << >> <=> Len(frames) # 0)
  BY <1>1
<1>3. ASSUME NEW i \in 1 .. Len(frames)
      PROVE  /\ frames[i] \in Frames /\ frames[i].bb \in Blocks
             /\ \A c \in frames[i].children : c \in Blocks /\ IsIdom(prog.cfg, frames[i].bb, c)
             /\ i < Len(frames) => frames[i].at > EndOf(frames[i].bb)
             /\ frames[i].at <= EndOf(frames[i].bb) =>
                  frames[i].children = {c \in Blocks : IsIdom(prog.cfg, frames[i].bb, c)}
  <2>1. frames[i] \in Frames
    BY <1>1
  <2>2. frames[i].bb \in Blocks
    BY <2>1 DEF Frames
  <2>3. DomTree[prog.cfg][frames[i].bb] = {c \in Blocks : IsIdom(prog.cfg, frames[i].bb, c)}
    BY <1>1, <2>2 DEF DomTree
  <2>4. /\ frames[i].children \subseteq DomTree[prog.cfg][frames[i].bb]
        /\ i < Len(frames) => frames[i].at > EndOf(frames[i].bb)
    BY <1>1 DEF FramesInv, EndOf
  <2>5. frames[i].at <= EndOf(frames[i].bb) => frames[i].children = DomTree[prog.cfg][frames[i].bb]
    BY <1>1 DEF ChildrenInv
  <2> QED BY <2>1, <2>2, <2>3, <2>4, <2>5
<1>4. ASSUME NEW i \in 2 .. Len(frames) PROVE IsIdom(prog.cfg, frames[i - 1].bb, frames[i].bb)
  <2>1. i \in 1 .. Len(frames) /\ i > 1
    BY <1>2
  <2> QED BY <1>1, <2>1 DEF FramesInv
<1>5. \A i, j \in 1 .. Len(frames) : j = i + 1 => frames[j].bb \notin frames[i].children
  BY <1>1 DEF ChildrenInv
<1>6. Len(frames) # 0 => frames[1].bb = Entry
  BY <1>1, <1>2 DEF FramesInv
<1> QED BY <1>1, <1>2, <1>3, <1>4, <1>5, <1>6

(* The active calls: each block strictly dominates the later ones, and     *)
(* what dominates one of them is the block of an active call.              *)
LEMMA PathDown ==
  ASSUME Inv, NEW k \in 1 .. Len(frames), NEW j \in 1 .. Len(frames), j < k
  PROVE  StrictlyDominates(prog.cfg, frames[j].bb, frames[k].bb)
<1> DEFINE n == Len(frames)
           B(i) == frames[i].bb
           S == {i \in Nat : i \in j + 1 .. n => StrictlyDominates(prog.cfg, B(j), B(i))}
<1>1. /\ prog \in Programs /\ n \in Nat
      /\ \A i \in 1 .. n : B(i) \in Blocks
      /\ \A i \in 2 .. n : StrictlyDominates(prog.cfg, B(i - 1), B(i))
  BY PathFacts DEF IsIdom
<1>2. 0 \in S
  OBVIOUS
<1>3. ASSUME NEW i \in Nat, i \in S PROVE i + 1 \in S
  <2> SUFFICES ASSUME i + 1 \in j + 1 .. n
               PROVE  StrictlyDominates(prog.cfg, B(j), B(i + 1))
    OBVIOUS
  <2> HIDE DEF B, n
  <2>1. i \in 1 .. n /\ i + 1 \in 2 .. n /\ i + 1 - 1 = i /\ j \in 1 .. n /\ i + 1 \in 1 .. n
    BY <1>1 DEF n
  <2>2. StrictlyDominates(prog.cfg, B(i), B(i + 1))
    BY <1>1, <2>1
  <2>3. CASE i = j
    BY <2>2, <2>3
  <2>4. CASE i # j
    <3>1. StrictlyDominates(prog.cfg, B(j), B(i))
      BY <1>3, <2>1, <2>4
    <3>2. B(i) \in Blocks /\ B(j) \in Blocks /\ B(i + 1) \in Blocks
      BY <1>1, <2>1
    <3>3. Dominates(prog.cfg, B(j), B(i + 1))
      BY <2>2, <3>1, <3>2, DomTrans DEF StrictlyDominates
    <3>4. B(j) # B(i + 1)
      <4> SUFFICES ASSUME B(j) = B(i + 1) PROVE FALSE
        OBVIOUS
      <4>1. Reachable(prog.cfg, B(i))
        BY <1>1, <3>2, ProgramFacts
      <4> QED BY <2>2, <3>1, <3>2, <4>1, DomAntisym DEF StrictlyDominates
    <3> QED BY <3>3, <3>4 DEF StrictlyDominates
  <2> QED BY <2>3, <2>4
<1> HIDE DEF S
<1>4. Nat \subseteq S
  BY <1>2, <1>3, NatSetInduction
<1> QED BY <1>1, <1>4 DEF S

LEMMA PathUp ==
  ASSUME Inv, NEW k \in 1 .. Len(frames), NEW c \in Blocks,
         Dominates(prog.cfg, c, frames[k].bb)
  PROVE  \E j \in 1 .. k : c = frames[j].bb
<1> DEFINE n == Len(frames)
           B(i) == frames[i].bb
           S == {i \in Nat : i \in 1 .. n /\ Dominates(prog.cfg, c, B(i)) =>
                                \E j \in 1 .. i : c = B(j)}
<1>1. /\ n \in Nat /\ B(1) = Entry
      /\ \A i \in 1 .. n : B(i) \in Blocks
      /\ \A i \in 2 .. n : IsIdom(prog.cfg, B(i - 1), B(i))
  <2>1. n # 0
    BY PathFacts
  <2> QED BY <2>1, PathFacts
<1>2. 0 \in S
  OBVIOUS
<1>3. ASSUME NEW i \in Nat, i \in S PROVE i + 1 \in S
  <2> SUFFICES ASSUME i + 1 \in 1 .. n, Dominates(prog.cfg, c, B(i + 1)), c # B(i + 1)
               PROVE  \E j \in 1 .. i + 1 : c = B(j)
    OBVIOUS
  <2> HIDE DEF B, n
  <2>1. i # 0
    BY <1>1, DominatesEntry
  <2>2. i \in 1 .. n /\ i + 1 \in 2 .. n /\ i + 1 - 1 = i
    BY <1>1, <2>1
  <2>3. Dominates(prog.cfg, c, B(i))
    BY <1>1, <2>2 DEF IsIdom, StrictlyDominates
  <2>4. PICK j \in 1 .. i : c = B(j)
    BY <1>3, <2>2, <2>3
  <2> QED BY <2>4
<1> HIDE DEF S
<1>4. Nat \subseteq S
  BY <1>2, <1>3, NatSetInduction
<1> QED BY <1>1, <1>4 DEF S

(* rename is at the block of each active call: none is waiting.            *)
LEMMA NotWaiting ==
  ASSUME Inv, Renaming, NEW k \in 1 .. Len(frames)
  PROVE  ~ Waiting(frames[k].bb)
<1> DEFINE n == Len(frames)
           B(i) == frames[i].bb
<1>1. /\ n \in Nat /\ pc # "phi" /\ prog \in Programs
      /\ \A i \in 1 .. n : B(i) \in Blocks
      /\ \A i \in 1 .. n : \A c \in frames[i].children : c \in Blocks /\ IsIdom(prog.cfg, B(i), c)
      /\ \A i \in 2 .. n : IsIdom(prog.cfg, B(i - 1), B(i))
      /\ \A i, j \in 1 .. n : j = i + 1 => B(j) \notin frames[i].children
  BY PathFacts DEF Renaming
<1> SUFFICES ASSUME NEW i \in 1 .. n, NEW c \in frames[i].children,
                    Dominates(prog.cfg, c, B(k))
             PROVE  FALSE
  BY <1>1 DEF Waiting
<1>2. c \in Blocks /\ IsIdom(prog.cfg, B(i), c)
  BY <1>1
<1>3. PICK j \in 1 .. k : c = B(j)
  BY <1>2, PathUp
<1>4. j \in 1 .. n
  BY <1>1
<1>5. StrictlyDominates(prog.cfg, B(i), B(j)) /\ Reachable(prog.cfg, B(j)) /\ B(i) # B(j)
  BY <1>1, <1>2, <1>3, <1>4, ProgramFacts DEF IsIdom, StrictlyDominates
<1>6. ~ (j < i)
  <2> SUFFICES ASSUME j < i PROVE FALSE
    OBVIOUS
  <2>1. StrictlyDominates(prog.cfg, B(j), B(i))
    BY <1>4, PathDown
  <2> QED BY <1>1, <1>4, <1>5, <2>1, DomAntisym DEF StrictlyDominates
<1>7. i < j /\ j \in 2 .. n /\ j - 1 \in 1 .. n
  <2> HIDE DEF n, B
  <2> QED BY <1>1, <1>4, <1>5, <1>6
<1>8. IsIdom(prog.cfg, B(j - 1), c)
  BY <1>1, <1>3, <1>7
<1>9. CASE j = i + 1
  BY <1>1, <1>3, <1>4, <1>9
<1>10. CASE j # i + 1
  <2>1. i < j - 1
    <3> HIDE DEF n, B
    <3> QED BY <1>1, <1>4, <1>7, <1>10
  <2>2. StrictlyDominates(prog.cfg, B(i), B(j - 1))
    BY <1>7, <2>1, PathDown
  <2>3. Dominates(prog.cfg, B(j - 1), B(i))
    BY <1>1, <1>2, <1>7, <1>8 DEF IsIdom
  <2>4. Reachable(prog.cfg, B(i)) /\ B(i) \in Blocks /\ B(j - 1) \in Blocks
    BY <1>1, <1>7, ProgramFacts
  <2> QED BY <2>2, <2>3, <2>4, DomAntisym DEF StrictlyDominates
<1> QED BY <1>9, <1>10

(* What dominates a passed position has been passed.                       *)
LEMMA PassedDom ==
  ASSUME Inv, NEW b \in Blocks, NEW i \in Nat, Passed(b, i),
         NEW c \in Blocks, NEW l \in 0 .. EndOf(c), Dominates(prog.cfg, c, b), c = b => l <= i
  PROVE  Passed(c, l)
<1>1. prog \in Programs /\ \A k \in 1 .. Len(frames) : \A e \in frames[k].children : e \in Blocks
  BY PathFacts
<1>2. ~ Waiting(c)
  BY <1>1, DomTrans DEF Passed, Waiting
<1>3. ASSUME frames # << >>, c = bb PROVE l < Top.at
  <2>1. Renaming
    BY <1>3 DEF Inv, FramesInv, Renaming
  <2> DEFINE n == Len(frames)
  <2>2. n \in 1 .. n /\ frames[n] = Top /\ Top.bb = bb /\ Top.at \in Nat
    BY <2>1, TopFacts DEF bb
  <2>3. EndOf(c) \in Nat
    BY <1>3, <2>1, TopFacts DEF EndOf, Body
  <2>4. CASE c = b
    <3>1. i < Top.at
      BY <1>3, <2>4 DEF Passed
    <3> QED BY <2>2, <2>3, <2>4, <3>1
  <2>5. CASE c # b
    <3>1. PICK e \in Blocks : IsIdom(prog.cfg, c, e) /\ Dominates(prog.cfg, e, b)
      BY <1>1, <2>5, ProgramFacts, ChildOn DEF StrictlyDominates
    <3>2. e \notin Top.children
      BY <2>2, <3>1 DEF Passed, Waiting
    <3>3. Top.at <= EndOf(c) => e \in Top.children
      BY <1>3, <2>2, <3>1, PathFacts
    <3> QED BY <2>2, <2>3, <3>2, <3>3
  <2> QED BY <2>4, <2>5
<1> QED BY <1>2, <1>3 DEF Passed

(* All that stands in front of an active call has been passed.             *)
LEMMA FramePassed ==
  ASSUME Inv, Renaming, NEW k \in 1 .. Len(frames), NEW i \in Nat, i < frames[k].at
  PROVE  Passed(frames[k].bb, i)
<1> DEFINE n == Len(frames)
<1>1. n \in Nat /\ frames[n] = Top /\ Top.bb = bb /\ bb \in Blocks
  BY TopFacts DEF bb
<1>2. ~ Waiting(frames[k].bb)
  BY NotWaiting
<1>3. k # n => frames[k].bb # bb
  <2> SUFFICES ASSUME k # n PROVE frames[k].bb # frames[n].bb
    BY <1>1
  <2>1. k < n /\ n \in 1 .. n
    BY <1>1
  <2> HIDE DEF n
  <2> QED BY <2>1, PathDown DEF StrictlyDominates, n
<1> QED BY <1>1, <1>2, <1>3 DEF Passed

LEMMA StepChildren == Inv /\ [Next]_vars => ChildrenInv'
<1> SUFFICES ASSUME Inv, [Next]_vars PROVE ChildrenInv'
  OBVIOUS
<1>0. prog \in Programs /\ ChildrenInv /\ prog' = prog /\ \A b : EndOf(b)' = EndOf(b')
  BY DEF Inv, Next, vars, NextVar, PlacePhis, StartRename, PushPhis, RenameLoad, RenameStore,
         FillPhis, Recurse, Return, EndOf
<1>1. CASE NextVar \/ PlacePhis \/ UNCHANGED vars
  <2>1. frames' = frames
    BY <1>1 DEF NextVar, PlacePhis, vars
  <2> QED BY <1>0, <2>1 DEF ChildrenInv
<1>2. CASE StartRename
  <2>1. frames' = <<Call(Entry)>>
    BY <1>2 DEF StartRename
  <2>2. Len(frames') = 1 /\ frames'[1] = Call(Entry) /\ \A k \in 1 .. 1 : k = 1 /\ k + 1 \notin 1 .. 1
    BY <2>1
  <2> QED BY <1>0, <2>2, CallFacts DEF ChildrenInv
<1>3. CASE PushPhis \/ RenameLoad \/ RenameStore \/ FillPhis
  <2>1. Renaming
    BY <1>3 DEF PushPhis, RenameLoad, RenameStore, FillPhis
  <2> DEFINE n == Len(frames)
  <2>2. /\ frames \in Seq(Frames) /\ n \in Nat \ {0} /\ frames[n].bb = bb /\ frames[n] = Top
        /\ Top.at \in Nat /\ Len(Body) \in Nat /\ EndOf(bb) = Len(Body) + 1
    BY <2>1, TopFacts DEF bb, EndOf, Body
  <2>3. PICK f \in Frames : /\ frames' = SetTop(f) /\ f.bb = bb /\ f.children = Top.children
                           /\ f.at = Top.at + 1 /\ Top.at <= Len(Body) + 1
    BY <1>3, TopSteps
  <2>4. /\ Len(frames') = n /\ frames'[n] = f
        /\ \A k \in 1 .. n - 1 : frames'[k] = frames[k]
    BY <2>2, <2>3, SetTopFacts
  <2> HIDE DEF n
  <2>5. \A k \in 1 .. n : frames'[k].bb = frames[k].bb /\ frames'[k].children = frames[k].children
    BY <2>2, <2>3, <2>4
  <2>6. \A k \in 1 .. n : frames'[k].at <= EndOf(frames[k].bb) => frames[k].at <= EndOf(frames[k].bb)
    BY <2>2, <2>3, <2>4
  <2> QED BY <1>0, <2>4, <2>5, <2>6 DEF ChildrenInv, n
<1>4. CASE Recurse
  <2>1. Renaming /\ Top.at > Len(Body) + 1
    BY <1>4 DEF Recurse, Renaming
  <2> DEFINE n == Len(frames)
  <2>2. /\ n \in Nat \ {0} /\ frames[n].bb = bb /\ frames[n] = Top
        /\ Top.at \in Nat /\ Len(Body) \in Nat /\ EndOf(bb) = Len(Body) + 1
    BY <2>1, TopFacts DEF bb, EndOf, Body
  <2>3. PICK c \in Top.children, f \in Frames :
           /\ c \in Blocks
           /\ f.bb = bb /\ f.at = Top.at /\ f.children = Top.children \ {c}
           /\ Len(frames') = n + 1
           /\ \A k \in 1 .. n - 1 : frames'[k] = frames[k]
           /\ frames'[n] = f /\ frames'[n + 1] = Call(c)
    BY <1>4, RecurseFacts
  <2>4. Call(c).bb = c /\ Call(c).children = DomTree[prog.cfg][c]
    BY <1>0, <2>3, CallFacts
  <2> HIDE DEF n
  <2>5. ASSUME NEW k \in 1 .. n + 1, frames'[k].at <= EndOf(frames'[k].bb)
        PROVE  frames'[k].children = DomTree[prog.cfg][frames'[k].bb]
    <3>1. k \in 1 .. n - 1 \/ k = n \/ k = n + 1
      BY <2>2
    <3>2. k # n
      BY <2>1, <2>2, <2>3, <2>5
    <3>3. k \in 1 .. n - 1 => k \in 1 .. n
      BY <2>2
    <3> QED BY <1>0, <2>3, <2>4, <2>5, <3>1, <3>2, <3>3 DEF ChildrenInv, n
  <2>6. ASSUME NEW k \in 1 .. n + 1, NEW j \in 1 .. n + 1, j = k + 1
        PROVE  frames'[j].bb \notin frames'[k].children
    <3>1. CASE k = n
      BY <2>2, <2>3, <2>4, <2>6, <3>1
    <3>2. CASE k # n
      <4>1. k \in 1 .. n - 1 /\ k \in 1 .. n /\ j \in 1 .. n /\ (j = n \/ j \in 1 .. n - 1)
        BY <2>2, <2>6, <3>2
      <4>2. frames[j].bb \notin frames[k].children
        BY <1>0, <2>6, <4>1 DEF ChildrenInv, n
      <4> QED BY <2>2, <2>3, <4>1, <4>2
    <3> QED BY <3>1, <3>2
  <2> QED BY <1>0, <2>3, <2>5, <2>6 DEF ChildrenInv
<1>5. CASE Return
  <2> DEFINE n == Len(frames)
  <2>1. n \in Nat /\ Len(frames') = n - 1 /\ \A k \in 1 .. n - 1 : frames'[k] = frames[k]
    BY <1>5, ReturnFacts, PathFacts
  <2>2. \A k \in 1 .. n - 1 : k \in 1 .. n
    BY <2>1
  <2> HIDE DEF n
  <2> QED BY <1>0, <2>1, <2>2 DEF ChildrenInv, n
<1> QED BY <1>1, <1>2, <1>3, <1>4, <1>5 DEF Next

(* The branches of rename that deal with one position pass just that one;  *)
(* no other step passes anything, and nothing is taken back.               *)
Passing == PushPhis \/ RenameLoad \/ RenameStore \/ FillPhis

LEMMA PassedTop ==
  ASSUME Inv, Passing, NEW b \in Blocks, NEW i \in 0 .. EndOf(b)
  PROVE  /\ Renaming /\ Top.at \in 0 .. EndOf(bb) /\ bb \in Blocks
         /\ (Passed(b, i))' <=> Passed(b, i) \/ (b = bb /\ i = Top.at)
<1>1. Renaming /\ pc' = pc /\ pc = "rename" /\ prog' = prog
  BY DEF Passing, PushPhis, RenameLoad, RenameStore, FillPhis, Renaming
<1> DEFINE n == Len(frames)
<1>2. /\ frames \in Seq(Frames) /\ frames # << >> /\ n \in Nat \ {0}
      /\ frames[n].bb = bb /\ frames[n] = Top /\ Top.at \in Nat /\ bb \in Blocks
      /\ Len(Body) \in Nat /\ EndOf(bb) = Len(Body) + 1
  BY <1>1, TopFacts DEF bb, EndOf, Body, Renaming
<1>3. PICK f \in Frames : /\ frames' = SetTop(f) /\ f.bb = bb /\ f.children = Top.children
                         /\ f.at = Top.at + 1 /\ Top.at <= Len(Body) + 1
  BY TopSteps DEF Passing
<1>4. /\ Len(frames') = n /\ frames'[n] = f /\ frames' # << >>
      /\ \A k \in 1 .. n - 1 : frames'[k] = frames[k]
  BY <1>2, <1>3, SetTopFacts
<1> HIDE DEF n
<1>5. \A k \in 1 .. n : frames'[k].bb = frames[k].bb /\ frames'[k].children = frames[k].children
  BY <1>2, <1>3, <1>4
<1>6. (Waiting(b))' <=> Waiting(b)
  BY <1>1, <1>4, <1>5 DEF Waiting, n
<1>7. Top' = f /\ bb' = bb
  BY <1>2, <1>3, <1>4 DEF Top, bb
<1>8. n \in 1 .. n
  BY <1>2
<1>9. ~ Waiting(bb)
  BY <1>1, <1>2, <1>8, NotWaiting DEF n
<1>10. EndOf(b) \in Nat
  <2>1. prog.body[b] \in Seq(Instrs)
    BY ProgramFacts DEF Inv, IsProgram
  <2> QED BY <2>1 DEF EndOf
<1>11. i < Top.at + 1 <=> i < Top.at \/ i = Top.at
  BY <1>2, <1>10
<1>12. Top.at \in 0 .. EndOf(bb)
  BY <1>2, <1>3
<1>13. (Passed(b, i))' <=> ~ Waiting(b) /\ (b = bb => i < Top.at + 1)
  BY <1>3, <1>4, <1>6, <1>7 DEF Passed
<1>14. Passed(b, i) <=> ~ Waiting(b) /\ (b = bb => i < Top.at)
  BY <1>2 DEF Passed
<1> QED BY <1>1, <1>2, <1>9, <1>11, <1>12, <1>13, <1>14

LEMMA PassedRecurse ==
  ASSUME Inv, Recurse, NEW b \in Blocks, NEW i \in 0 .. EndOf(b)
  PROVE  (Passed(b, i))' <=> Passed(b, i)
<1>1. Renaming /\ pc' = pc /\ pc = "rename" /\ prog' = prog /\ Top.at > Len(Body) + 1
  BY DEF Recurse, Renaming
<1> DEFINE n == Len(frames)
<1>2. /\ frames # << >> /\ n \in Nat \ {0} /\ prog \in Programs
      /\ frames[n].bb = bb /\ frames[n] = Top /\ Top.at \in Nat /\ bb \in Blocks
      /\ Len(Body) \in Nat /\ EndOf(bb) = Len(Body) + 1
  BY <1>1, TopFacts DEF bb, EndOf, Body, Renaming, Inv
<1>3. PICK c \in Top.children, f \in Frames :
         /\ c \in Blocks /\ IsIdom(prog.cfg, bb, c)
         /\ f.bb = bb /\ f.at = Top.at /\ f.children = Top.children \ {c}
         /\ frames' \in Seq(Frames) /\ Len(frames') = n + 1
         /\ \A k \in 1 .. n - 1 : frames'[k] = frames[k]
         /\ frames'[n] = f /\ frames'[n + 1] = Call(c)
  BY RecurseFacts
<1>4. /\ Call(c).bb = c /\ Call(c).at = 0 /\ prog.cfg \in CfgsOfPrograms
      /\ Call(c).children = {e \in Blocks : IsIdom(prog.cfg, c, e)}
  BY <1>2, <1>3, CallFacts, ProgramFacts DEF DomTree
<1>5. EndOf(b) \in Nat
  <2>1. prog.body[b] \in Seq(Instrs)
    BY <1>2, ProgramFacts DEF IsProgram
  <2> QED BY <2>1 DEF EndOf
<1>6. frames' # << >> /\ Top' = Call(c) /\ bb' = c
  <2> HIDE DEF n
  <2>1. Len(frames') # 0
    BY <1>2, <1>3
  <2> QED BY <1>3, <1>4, <2>1 DEF Top, bb
<1> HIDE DEF n
<1>7. CASE b = c
  <2>1. ~ (Passed(b, i))'
    BY <1>4, <1>5, <1>6, <1>7 DEF Passed
  <2>2. Waiting(b)
    <3>1. n \in 1 .. Len(frames) /\ c \in frames[n].children /\ Dominates(prog.cfg, c, c)
      BY <1>2, <1>3, DomRefl DEF n
    <3> QED BY <1>7, <3>1 DEF Waiting
  <2> QED BY <2>1, <2>2 DEF Passed
<1>8. CASE b # c
  <2>1. ASSUME NEW k \in 1 .. n, NEW e \in frames[k].children, Dominates(prog.cfg, e, b)
        PROVE  \E m \in 1 .. n + 1 : \E x \in frames'[m].children : Dominates(prog.cfg, x, b)
    <3>1. CASE k = n /\ e = c
      <4>1. PICK x \in Blocks : IsIdom(prog.cfg, c, x) /\ Dominates(prog.cfg, x, b)
        BY <1>2, <1>3, <1>8, <2>1, <3>1, ProgramFacts, ChildOn DEF StrictlyDominates
      <4>2. n + 1 \in 1 .. n + 1 /\ x \in frames'[n + 1].children
        BY <1>2, <1>3, <1>4, <4>1
      <4> QED BY <4>1, <4>2
    <3>2. CASE k = n /\ e # c
      <4>1. n \in 1 .. n + 1 /\ e \in frames'[n].children
        BY <1>2, <1>3, <2>1, <3>2
      <4> QED BY <2>1, <4>1
    <3>3. CASE k # n
      <4>1. k \in 1 .. n - 1 /\ k \in 1 .. n + 1
        BY <1>2, <3>3
      <4> QED BY <1>3, <2>1, <4>1
    <3> QED BY <3>1, <3>2, <3>3
  <2>2. ASSUME NEW m \in 1 .. n + 1, NEW x \in frames'[m].children, Dominates(prog.cfg, x, b)
        PROVE  \E k \in 1 .. n : \E e \in frames[k].children : Dominates(prog.cfg, e, b)
    <3>1. CASE m = n + 1
      <4>1. x \in Blocks /\ Dominates(prog.cfg, c, x)
        BY <1>3, <1>4, <2>2, <3>1 DEF IsIdom, StrictlyDominates
      <4>2. n \in 1 .. n /\ c \in frames[n].children /\ Dominates(prog.cfg, c, b)
        BY <1>2, <1>3, <2>2, <4>1, DomTrans
      <4> QED BY <4>2
    <3>2. CASE m # n + 1
      <4>1. m \in 1 .. n /\ (m = n \/ m \in 1 .. n - 1)
        BY <1>2, <3>2
      <4>2. frames'[m].children \subseteq frames[m].children
        BY <1>2, <1>3, <4>1
      <4> QED BY <2>2, <4>1, <4>2
    <3> QED BY <3>1, <3>2
  <2>3. (Waiting(b))' <=> Waiting(b)
    BY <1>1, <1>3, <2>1, <2>2 DEF Waiting, n
  <2>4. b = bb => i < Top.at
    BY <1>1, <1>2, <1>5
  <2> QED BY <1>2, <1>6, <1>8, <2>3, <2>4 DEF Passed
<1> QED BY <1>7, <1>8

LEMMA PassedReturn ==
  ASSUME Inv, Return, NEW b \in Blocks, NEW i \in 0 .. EndOf(b)
  PROVE  (Passed(b, i))' <=> Passed(b, i)
<1>1. /\ Renaming /\ prog' = prog /\ Top.at > Len(Body) + 1 /\ Top.children = {}
      /\ pc = "rename" /\ pc' # "phi"
  BY DEF Return, Renaming
<1> DEFINE n == Len(frames)
           m == n - 1
<1>2. /\ frames # << >> /\ n \in Nat \ {0} /\ frames[n] = Top /\ Top.bb = bb
      /\ Top.at \in Nat /\ Len(Body) \in Nat /\ EndOf(bb) = Len(Body) + 1
  BY <1>1, TopFacts DEF bb, EndOf, Body, Renaming
<1>3. frames' \in Seq(Frames) /\ Len(frames') = m /\ \A k \in 1 .. m : frames'[k] = frames[k]
  BY ReturnFacts
<1>4. EndOf(b) \in Nat
  <2>1. prog.body[b] \in Seq(Instrs)
    BY ProgramFacts DEF Inv, IsProgram
  <2> QED BY <2>1 DEF EndOf
<1> HIDE DEF n, m
<1>5. /\ m \in Nat /\ \A k \in 1 .. m : k \in 1 .. n /\ k < n
      /\ \A k \in 1 .. n : k = n \/ k \in 1 .. m
  BY <1>2 DEF m
<1>6. (Waiting(b))' <=> Waiting(b)
  <2>1. Waiting(b) <=> \E k \in 1 .. m : \E c \in frames[k].children : Dominates(prog.cfg, c, b)
    BY <1>1, <1>2, <1>5 DEF Waiting, n
  <2>2. (Waiting(b))' <=> \E k \in 1 .. m : \E c \in frames'[k].children : Dominates(prog.cfg, c, b)
    BY <1>1, <1>3 DEF Waiting
  <2> QED BY <1>3, <2>1, <2>2
<1>7. b = bb => i < Top.at
  BY <1>1, <1>2, <1>4
<1>8. ASSUME frames' # << >>, b = bb' PROVE i < Top'.at
  <2>1. m # 0 /\ m \in 1 .. m
    BY <1>3, <1>5, <1>8
  <2>2. Top' = frames[m] /\ b = frames[m].bb
    BY <1>3, <1>8, <2>1 DEF Top, bb
  <2>3. frames[m].at > EndOf(b) /\ frames[m].at \in Nat
    BY <1>5, <2>1, <2>2, PathFacts DEF n, Frames
  <2> QED BY <1>4, <2>2, <2>3
<1> QED BY <1>6, <1>7, <1>8 DEF Passed

LEMMA PassedStep ==
  ASSUME Inv, [Next]_vars, NEW b \in Blocks, NEW i \in 0 .. EndOf(b)
  PROVE  (Passed(b, i))' <=> Passed(b, i) \/ (Passing /\ b = bb /\ i = Top.at)
<1>1. CASE NextVar \/ PlacePhis \/ UNCHANGED vars
  <2>1. UNCHANGED <<prog, pc, frames>>
    BY <1>1 DEF NextVar, PlacePhis, vars
  <2>2. ~ Passing \/ ~ (NextVar \/ PlacePhis)
    BY DEF Passing, PushPhis, RenameLoad, RenameStore, FillPhis, Renaming, NextVar, PlacePhis
  <2>3. (Passed(b, i))' <=> Passed(b, i)
    BY <2>1 DEF Passed, Waiting, bb, Top
  <2>4. ASSUME Passing, UNCHANGED vars PROVE FALSE
    <3>1. PICK f \in Frames : frames' = SetTop(f) /\ f.at = Top.at + 1
      BY <2>4, TopSteps DEF Passing
    <3>2. frames \in Seq(Frames) /\ frames # << >> /\ frames[Len(frames)] = Top /\ Top.at \in Nat
      BY <2>4, TopFacts DEF Passing, PushPhis, RenameLoad, RenameStore, FillPhis, Renaming
    <3>3. SetTop(f)[Len(frames)] = f
      BY <3>2, SetTopFacts
    <3> QED BY <2>1, <3>1, <3>2, <3>3
  <2> QED BY <1>1, <2>2, <2>3, <2>4
<1>2. CASE StartRename
  <2>1. /\ pc = "phi" /\ pc' = "rename" /\ frames' = <<Call(Entry)>> /\ prog' = prog
        /\ prog \in Programs
    BY <1>2 DEF StartRename, Inv
  <2>2. ~ Passing /\ ~ Passed(b, i)
    BY <2>1 DEF Passing, PushPhis, RenameLoad, RenameStore, FillPhis, Renaming, Passed, Waiting
  <2>3. /\ Len(frames') = 1 /\ frames'[1] = Call(Entry) /\ frames' # << >>
        /\ Call(Entry).bb = Entry /\ Call(Entry).at = 0
        /\ Call(Entry).children = {e \in Blocks : IsIdom(prog.cfg, Entry, e)}
    BY <2>1, CallFacts, ProgramFacts DEF DomTree
  <2>4. i >= 0
    OBVIOUS
  <2>5. CASE b = Entry
    <3>1. Top' = Call(Entry) /\ bb' = Entry
      BY <2>3 DEF Top, bb
    <3> QED BY <2>2, <2>3, <2>4, <2>5, <3>1 DEF Passed
  <2>6. CASE b # Entry
    <3>1. StrictlyDominates(prog.cfg, Entry, b)
      <4>1. AvoidSet(prog.cfg, Entry, {}) /\ {} \in SUBSET (Blocks \ {Entry, b})
        BY DEF AvoidSet
      <4> QED BY <2>6, <4>1 DEF StrictlyDominates, Dominates
    <3>2. PICK e \in Blocks : IsIdom(prog.cfg, Entry, e) /\ Dominates(prog.cfg, e, b)
      BY <2>1, <3>1, ProgramFacts, ChildOn
    <3>3. 1 \in 1 .. Len(frames') /\ e \in frames'[1].children
      BY <2>3, <3>2
    <3>4. (Waiting(b))'
      BY <2>1, <3>2, <3>3 DEF Waiting
    <3> QED BY <2>2, <3>4 DEF Passed
  <2> QED BY <2>5, <2>6
<1>3. CASE Passing
  BY <1>3, PassedTop
<1>4. CASE Recurse \/ Return
  <2>1. Top.at > Len(Body) + 1
    BY <1>4 DEF Recurse, Return
  <2>2. Passing => Top.at <= Len(Body) + 1 /\ Renaming
    BY TopSteps DEF Passing, PushPhis, RenameLoad, RenameStore, FillPhis
  <2>3. Renaming => Top.at \in Nat /\ Len(Body) \in Nat
    BY TopFacts
  <2>4. ~ Passing
    BY <2>1, <2>2, <2>3
  <2> QED BY <1>4, <2>4, PassedRecurse, PassedReturn
<1> QED BY <1>1, <1>2, <1>3, <1>4 DEF Next, Passing
-----------------------------------------------------------------------------
(***************************************************************************)
(* Loads that have been seen.                                              *)
(***************************************************************************)
LEMMA PlaceFacts ==
  ASSUME prog \in Programs, NEW b \in Blocks
  PROVE  /\ Len(prog.body[b]) \in Nat /\ EndOf(b) = Len(prog.body[b]) + 1 /\ EndOf(b) \in Nat
         /\ \A i \in 1 .. Len(prog.body[b]) :
              /\ prog.body[b][i] \in Instrs /\ i \in Nat /\ i \in 0 .. EndOf(b) /\ i < EndOf(b)
              /\ prog.body[b][i] \in Members(prog.body[b])
              /\ prog.op[prog.body[b][i]] \in {"load", "store"}
              /\ prog.var[prog.body[b][i]] \in Vars
              /\ \A c \in Blocks : \A l \in 1 .. Len(prog.body[c]) :
                   prog.body[c][l] = prog.body[b][i] => c = b /\ l = i
<1>1. prog.body[b] \in Seq(Instrs) /\ IsProgram(prog)
  BY ProgramFacts DEF IsProgram
<1>2. Len(prog.body[b]) \in Nat /\ \A i \in 1 .. Len(prog.body[b]) : prog.body[b][i] \in Instrs
  BY <1>1
<1> DEFINE n == Len(prog.body[b])
<1>3. \A i \in 1 .. n : prog.body[b][i] \in Members(prog.body[b])
  BY DEF Members
<1>4. EndOf(b) = n + 1
  BY DEF EndOf
<1>5. \A i \in 1 .. n : \A c \in Blocks : \A l \in 1 .. Len(prog.body[c]) :
         prog.body[c][l] = prog.body[b][i] => c = b /\ l = i
  BY <1>1 DEF IsProgram
<1>6. \A j \in Instrs : prog.op[j] \in {"load", "store"} /\ prog.var[j] \in Vars
  BY <1>1 DEF IsProgram
<1> HIDE DEF n
<1>7. n \in Nat
  BY <1>2 DEF n
<1>8. \A i \in 1 .. n : i \in Nat /\ i \in 0 .. n + 1 /\ i < n + 1
  BY <1>7
<1> QED BY <1>2, <1>3, <1>4, <1>5, <1>6, <1>7, <1>8 DEF n

LEMMA SeenAt ==
  ASSUME prog \in Programs, NEW b \in Blocks, NEW i \in 1 .. Len(prog.body[b])
  PROVE  Seen(prog.body[b][i]) <=> Passed(b, i)
BY PlaceFacts DEF Seen

(* Whatever stands before a passed position on every path has been seen.   *)
LEMMA SeenBefore ==
  ASSUME Inv, NEW b \in Blocks, NEW i \in 1 .. Len(prog.body[b]), Passed(b, i),
         NEW m \in Instrs, Precedes(prog, m, prog.body[b][i])
  PROVE  Seen(m)
<1> SUFFICES ASSUME NEW c \in Blocks, NEW l \in 1 .. Len(prog.body[c]), prog.body[c][l] = m
             PROVE  Passed(c, l)
  BY DEF Seen
<1>1. Dominates(prog.cfg, c, b) /\ (c = b => l < i)
  BY DEF Precedes
<1>2. i \in Nat /\ l \in Nat /\ l \in 0 .. EndOf(c)
  BY PlaceFacts DEF Inv
<1>3. c = b => l <= i
  BY <1>1, <1>2
<1> QED BY <1>1, <1>2, <1>3, PassedDom

(* The operand of a store: its constant, or what a load before it gives.   *)
LEMMA OperandIs ==
  ASSUME Inv, NEW j \in Instrs
  PROVE  \/ prog.rval[j] = Const(j) /\ rval[j] = Const(j)
         \/ \E m \in Instrs : /\ prog.rval[j] = Load(m) /\ prog.op[m] = "load"
                             /\ Precedes(prog, m, j) /\ rval[j] = uses[m]
BY ProgramFacts DEF Inv, LoadsInv, IsProgram

(* No seen load stands for one that has not been seen: nothing that a step *)
(* replaces is in what rename has passed.                                  *)
LEMMA NotPending ==
  ASSUME Inv, NEW b \in Blocks, NEW i \in 1 .. Len(prog.body[b]), Passed(b, i),
         NEW m \in Instrs, rval[prog.body[b][i]] = Load(m) \/ uses[prog.body[b][i]] = Load(m)
  PROVE  Seen(m)
<1> DEFINE j == prog.body[b][i]
<1>1. j \in Instrs /\ Seen(j) /\ prog \in Programs
  BY PlaceFacts, SeenAt DEF Inv
<1>2. CASE uses[j] = Load(m)
  BY <1>1, <1>2 DEF Inv, LoadsInv
<1>3. CASE rval[j] = Load(m)
  <2>1. PICK k \in Instrs : Precedes(prog, k, j) /\ rval[j] = uses[k]
    BY <1>1, <1>3, OperandIs DEF Const, Load
  <2>2. Seen(k)
    BY <2>1, SeenBefore
  <2> QED BY <1>3, <2>1, <2>2 DEF Inv, LoadsInv
<1> QED BY <1>2, <1>3

LEMMA InstrNotSeen ==
  ASSUME Inv, Renaming, Top.at \in 1 .. Len(Body)
  PROVE  Instr \in Instrs /\ ~ Seen(Instr)
<1>1. bb \in Blocks /\ Instr \in Instrs /\ Instr = prog.body[bb][Top.at] /\ Top.at \in Nat
  BY TopFacts DEF Instr, Body
<1>2. ~ Passed(bb, Top.at)
  BY <1>1 DEF Passed, Renaming
<1> QED BY <1>1, <1>2 DEF Seen, Body

(* What a load is replaced by in a step.                                   *)
LEMMA StepValues ==
  ASSUME Inv, [Next]_vars
  PROVE  \/ UNCHANGED <<rval, uses>>
         \/ /\ RenameLoad /\ Renaming /\ Top.at \in 1 .. Len(Body)
            /\ Instr \in Instrs /\ ~ Seen(Instr)
            /\ prog.var[Instr] \in Vars /\ var_val_stack[prog.var[Instr]] # << >>
            /\ \A j \in Instrs :
                 /\ rval'[j] = Replaced(rval[j], Instr, Back(prog.var[Instr]))
                 /\ uses'[j] = Replaced(uses[j], Instr, Back(prog.var[Instr]))
<1>1. CASE RenameLoad
  <2>1. Renaming /\ Top.at \in 1 .. Len(Body)
    BY <1>1 DEF RenameLoad
  <2>2. Instr \in Instrs /\ ~ Seen(Instr)
    BY <2>1, InstrNotSeen
  <2>3. prog.var[Instr] \in Vars
    BY <2>2, ProgramFacts DEF Inv, IsProgram
  <2>4. CASE var_val_stack[prog.var[Instr]] # << >>
    BY <1>1, <2>1, <2>2, <2>3, <2>4 DEF RenameLoad
  <2>5. CASE var_val_stack[prog.var[Instr]] = << >>
    BY <1>1, <2>5 DEF RenameLoad
  <2> QED BY <2>4, <2>5
<1>2. ~ RenameLoad => UNCHANGED <<rval, uses>>
  BY DEF Next, vars, irVars, NextVar, PlacePhis, StartRename, PushPhis, RenameStore,
         FillPhis, Recurse, Return
<1> QED BY <1>1, <1>2

LEMMA ValuesKept ==
  ASSUME Inv, [Next]_vars, NEW b \in Blocks, NEW i \in 1 .. Len(prog.body[b]), Passed(b, i)
  PROVE  /\ rval'[prog.body[b][i]] = rval[prog.body[b][i]]
         /\ uses'[prog.body[b][i]] = uses[prog.body[b][i]]
<1>1. prog.body[b][i] \in Instrs
  BY PlaceFacts DEF Inv
<1> QED BY <1>1, NotPending, StepValues DEF Replaced

(* So what reaches a position from within its block stays what it is.      *)
LEMMA LastKept ==
  ASSUME Inv, [Next]_vars, NEW b \in Blocks, NEW i, NEW v,
         \A l \in StoresIn(b, i, v) : Passed(b, l), NEW x
  PROVE  LastIn(x, b, i, v) <=> LastOf(rval', x, b, i, v)
<1>1. \A l \in StoresIn(b, i, v) : rval'[prog.body[b][l]] = rval[prog.body[b][l]]
  BY ValuesKept DEF StoresIn
<1> QED BY <1>1 DEF LastIn, LastOf

LEMMA CallKept ==
  ASSUME Inv, [Next]_vars, Renaming, NEW k \in 1 .. Len(frames), NEW v, NEW x
  PROVE  LastIn(x, frames[k].bb, frames[k].at, v) <=>
           LastOf(rval', x, frames[k].bb, frames[k].at, v)
<1>1. frames[k].bb \in Blocks /\ prog \in Programs
  BY PathFacts
<1>2. \A l \in StoresIn(frames[k].bb, frames[k].at, v) : Passed(frames[k].bb, l)
  BY <1>1, PlaceFacts, FramePassed DEF StoresIn
<1> QED BY <1>1, <1>2, LastKept
-----------------------------------------------------------------------------
(***************************************************************************)
(* What a call has pushed.                                                 *)
(***************************************************************************)
LEMMA DefinedInBlocks ==
  ASSUME NEW x \in Values
  PROVE  DefinedIn(x) \subseteq Blocks
BY DEF Values, DefinedIn, Const, Load, Phi

LEMMA StoresFinite ==
  ASSUME prog \in Programs, NEW b \in Blocks, NEW i, NEW v
  PROVE  IsFiniteSet(StoresIn(b, i, v)) /\ Cardinality(StoresIn(b, i, v)) \in Nat
<1> DEFINE n == Len(prog.body[b])
<1>1. n \in Nat
  <2>1. prog.body[b] \in Seq(Instrs)
    BY ProgramFacts DEF IsProgram
  <2> QED BY <2>1
<1>2. IsFiniteSet(1 .. n)
  BY <1>1, FS_Interval
<1>3. StoresIn(b, i, v) \subseteq 1 .. n
  BY DEF StoresIn
<1> QED BY <1>2, <1>3, FS_Subset, FS_CardinalityType

(* One position further: only a store to v there makes a difference.       *)
LEMMA StoresMore ==
  ASSUME prog \in Programs, NEW b \in Blocks, NEW i \in 1 .. Len(prog.body[b]), NEW v,
         prog.op[prog.body[b][i]] = "store", prog.var[prog.body[b][i]] = v
  PROVE  /\ StoresIn(b, i + 1, v) = StoresIn(b, i, v) \cup {i}
         /\ i \notin StoresIn(b, i, v)
         /\ \A l \in StoresIn(b, i + 1, v) : l <= i
<1> DEFINE n == Len(prog.body[b])
<1>1. n \in Nat
  BY PlaceFacts
<1>2. \A k \in 1 .. n : (k < i + 1 <=> k < i \/ k = i) /\ (k < i + 1 => k <= i) /\ ~ (i < i)
  <2> HIDE DEF n
  <2> QED BY <1>1 DEF n
<1> QED BY <1>2 DEF StoresIn

LEMMA StoresSame ==
  ASSUME prog \in Programs, NEW b \in Blocks, NEW i \in Nat, NEW v,
         ~ (/\ i \in 1 .. Len(prog.body[b]) /\ prog.op[prog.body[b][i]] = "store"
            /\ prog.var[prog.body[b][i]] = v)
  PROVE  StoresIn(b, i + 1, v) = StoresIn(b, i, v)
<1> DEFINE n == Len(prog.body[b])
<1>1. n \in Nat
  BY PlaceFacts
<1>2. \A k \in 1 .. n : k < i + 1 <=> k < i \/ k = i
  <2> HIDE DEF n
  <2> QED BY <1>1
<1> QED BY <1>2 DEF StoresIn

LEMMA PushedType ==
  ASSUME prog \in Programs, NEW f \in Frames, NEW v
  PROVE  PushedBy(f, v) \in Nat
BY StoresFinite DEF PushedBy, Frames

LEMMA PushedCall ==
  ASSUME prog \in Programs, NEW b \in Blocks, NEW v
  PROVE  PushedBy(Call(b), v) = 0
<1>1. Call(b) \in Frames /\ Call(b).at = 0 /\ Call(b).bb = b
  BY CallFacts
<1>2. StoresIn(Call(b).bb, Call(b).at, v) = {}
  BY <1>1 DEF StoresIn
<1> QED BY <1>1, <1>2, FS_EmptySet DEF PushedBy

(* The phis are pushed on the way to the first instruction.                *)
LEMMA PushedPhi ==
  ASSUME NEW f \in Frames, NEW g \in Frames, NEW v,
         f.bb = g.bb, f.at = 0, g.at = 1
  PROVE  PushedBy(f, v) = 0 /\ PushedBy(g, v) = IF HasPhi(g.bb, v) THEN 1 ELSE 0
<1>1. StoresIn(f.bb, f.at, v) = {} /\ StoresIn(g.bb, g.at, v) = {}
  BY DEF StoresIn
<1> QED BY <1>1, FS_EmptySet DEF PushedBy

(* Every store pushes its variable, and nothing else is pushed.            *)
LEMMA PushedNext ==
  ASSUME prog \in Programs, NEW f \in Frames, NEW g \in Frames, NEW v,
         f.bb = g.bb, f.at >= 1, g.at = f.at + 1
  PROVE  LET body == prog.body[f.bb]
             j == body[f.at]
         IN  PushedBy(g, v) = PushedBy(f, v) +
               IF f.at \in 1 .. Len(body) /\ prog.op[j] = "store" /\ prog.var[j] = v THEN 1 ELSE 0
<1> DEFINE b == f.bb
           i == f.at
           j == prog.body[b][i]
<1>1. b \in Blocks /\ i \in Nat /\ i > 0 /\ i + 1 > 0
  BY DEF Frames
<1>2. IsFiniteSet(StoresIn(b, i, v)) /\ Cardinality(StoresIn(b, i, v)) \in Nat
  BY <1>1, StoresFinite
<1>3. /\ PushedBy(f, v) = Cardinality(StoresIn(b, i, v)) + (IF HasPhi(b, v) THEN 1 ELSE 0)
      /\ PushedBy(g, v) = Cardinality(StoresIn(b, i + 1, v)) + (IF HasPhi(b, v) THEN 1 ELSE 0)
  BY <1>1 DEF PushedBy
<1> HIDE DEF b, i
<1>4. CASE i \in 1 .. Len(prog.body[b]) /\ prog.op[j] = "store" /\ prog.var[j] = v
  <2>1. StoresIn(b, i + 1, v) = StoresIn(b, i, v) \cup {i} /\ i \notin StoresIn(b, i, v)
    BY <1>1, <1>4, StoresMore
  <2>2. Cardinality(StoresIn(b, i + 1, v)) = Cardinality(StoresIn(b, i, v)) + 1
    BY <1>2, <2>1, FS_AddElement
  <2> QED BY <1>2, <1>3, <1>4, <2>2 DEF b, i
<1>5. CASE ~ (i \in 1 .. Len(prog.body[b]) /\ prog.op[j] = "store" /\ prog.var[j] = v)
  <2>1. StoresIn(b, i + 1, v) = StoresIn(b, i, v)
    BY <1>1, <1>5, StoresSame
  <2> QED BY <1>2, <1>3, <1>5, <2>1 DEF b, i
<1> QED BY <1>4, <1>5

(* At the end of the block a call has pushed what Return pops.             *)
LEMMA PushedAll ==
  ASSUME Inv, Renaming, Top.at > Len(Body) + 1, NEW v
  PROVE  PushedBy(Top, v) = Pushed(v)
<1>1. Top.at \in Nat /\ Len(Body) \in Nat
  BY TopFacts
<1>2. StoresIn(Top.bb, Top.at, v) = Stores(v)
  BY <1>1 DEF StoresIn, Stores, Body, bb
<1>3. Top.at > 0
  BY <1>1
<1> QED BY <1>2, <1>3 DEF PushedBy, Pushed, bb
-----------------------------------------------------------------------------
(***************************************************************************)
(* The stacks.                                                             *)
(***************************************************************************)
LEMMA HeightsNext ==
  ASSUME UNCHANGED <<prog, phis>>, NEW h, NEW v,
         LET n == Len(frames')
             s == var_val_stack'[v]
         IN  /\ h \in [0 .. n -> Nat] /\ h[0] = 0 /\ h[n] = Len(s)
             /\ \A j, k \in 0 .. n : j <= k => h[j] <= h[k]
             /\ \A k \in 1 .. n :
                  /\ h[k] = h[k - 1] + PushedBy(frames'[k], v)
                  /\ \A l \in 1 .. h[k] : \A d \in DefinedIn(s[l]) :
                       Dominates(prog.cfg, d, frames'[k].bb)
                  /\ PushedBy(frames'[k], v) > 0 =>
                       LastOf(rval', s[h[k]], frames'[k].bb, frames'[k].at, v)
  PROVE  \E x : Heights(x, v)'
<1>1. /\ \A f : PushedBy(f, v)' = PushedBy(f', v)
      /\ \A x : DefinedIn(x)' = DefinedIn(x')
  BY DEF PushedBy, StoresIn, HasPhi, DefinedIn
<1>2. \A x, b, i : LastIn(x, b, i, v)' <=> LastOf(rval', x', b', i', v)
  BY DEF StoresIn, HasPhi, LastIn, LastOf
<1>3. Heights(h, v)'
  BY <1>1, <1>2 DEF Heights
<1> QED BY <1>3

(* A branch that stays in its call: what is pushed is counted, and comes   *)
(* from a block that dominates this one.                                   *)
LEMMA TopPush ==
  ASSUME Inv, [Next]_vars, Renaming, UNCHANGED <<prog, phis>>,
         NEW f \in Frames, frames' = SetTop(f), f.bb = bb, NEW v \in Vars,
         \/ /\ var_val_stack'[v] = var_val_stack[v]
            /\ PushedBy(f, v) = PushedBy(Top, v)
            /\ \A x : LastIn(x, bb, Top.at, v) => LastOf(rval', x, bb, f.at, v)
         \/ /\ PushedBy(f, v) = PushedBy(Top, v) + 1
            /\ \E x \in Values :
                 /\ var_val_stack'[v] = Append(var_val_stack[v], x)
                 /\ \A d \in DefinedIn(x) : Dominates(prog.cfg, d, bb)
                 /\ LastOf(rval', x, bb, f.at, v)
  PROVE  \E h : Heights(h, v)'
<1> DEFINE n == Len(frames)
           s == var_val_stack[v]
           t == var_val_stack'[v]
<1>1. /\ frames \in Seq(Frames) /\ n \in Nat \ {0} /\ frames[n] = Top /\ bb = Top.bb
      /\ prog \in Programs
  BY TopFacts DEF bb, Inv
<1>2. /\ Len(frames') = n /\ frames'[n] = f
      /\ \A k \in 1 .. n - 1 : frames'[k] = frames[k]
  BY <1>1, SetTopFacts
<1>3. s \in Seq(Values) /\ Len(s) \in Nat
  BY DEF Inv, TypeOK
<1>4. PICK h : Heights(h, v)
  BY DEF Inv, StackInv
<1>5. /\ h \in [0 .. n -> Nat] /\ h[0] = 0 /\ h[n] = Len(s)
      /\ \A j, k \in 0 .. n : j <= k => h[j] <= h[k]
      /\ \A k \in 1 .. n :
           /\ h[k] = h[k - 1] + PushedBy(frames[k], v)
           /\ \A l \in 1 .. h[k] : \A d \in DefinedIn(s[l]) : Dominates(prog.cfg, d, frames[k].bb)
           /\ PushedBy(frames[k], v) > 0 =>
                LastOf(rval', s[h[k]], frames[k].bb, frames[k].at, v)
  BY <1>4, CallKept DEF Heights
<1>6. PushedBy(Top, v) \in Nat /\ PushedBy(f, v) \in Nat
  BY <1>1, TopFacts, PushedType
<1>7. CASE /\ t = s /\ PushedBy(f, v) = PushedBy(Top, v)
           /\ \A x : LastIn(x, bb, Top.at, v) => LastOf(rval', x, bb, f.at, v)
  <2> HIDE DEF n, s, t
  <2>1. ASSUME NEW k \in 1 .. n
        PROVE  /\ h[k] = h[k - 1] + PushedBy(frames'[k], v)
               /\ \A l \in 1 .. h[k] : \A d \in DefinedIn(t[l]) :
                    Dominates(prog.cfg, d, frames'[k].bb)
               /\ PushedBy(frames'[k], v) > 0 =>
                    LastOf(rval', t[h[k]], frames'[k].bb, frames'[k].at, v)
    <3>1. CASE k = n
      <4>1. n \in 1 .. n
        BY <1>1
      <4>2. PushedBy(Top, v) > 0 => LastIn(s[h[n]], bb, Top.at, v)
        BY <1>1, <1>4, <4>1 DEF Heights, n, s
      <4>3. h[n] = h[n - 1] + PushedBy(f, v)
        BY <1>1, <1>5, <1>7, <4>1
      <4>4. \A l \in 1 .. h[n] : \A d \in DefinedIn(t[l]) : Dominates(prog.cfg, d, bb)
        BY <1>1, <1>5, <1>7, <4>1
      <4>5. PushedBy(f, v) > 0 => LastOf(rval', t[h[n]], bb, f.at, v)
        BY <1>7, <4>2
      <4> QED BY <1>2, <3>1, <4>3, <4>4, <4>5
    <3>2. CASE k # n
      <4>1. frames'[k] = frames[k]
        BY <1>1, <1>2, <3>2
      <4> QED BY <1>5, <1>7, <4>1
    <3> QED BY <3>1, <3>2
  <2> QED BY <1>2, <1>5, <1>7, <2>1, HeightsNext DEF t
<1>8. CASE /\ PushedBy(f, v) = PushedBy(Top, v) + 1
           /\ \E x \in Values : /\ t = Append(s, x)
                               /\ \A d \in DefinedIn(x) : Dominates(prog.cfg, d, bb)
                               /\ LastOf(rval', x, bb, f.at, v)
  <2>1. PICK x \in Values : /\ t = Append(s, x) /\ LastOf(rval', x, bb, f.at, v)
                            /\ \A d \in DefinedIn(x) : Dominates(prog.cfg, d, bb)
    BY <1>8
  <2> DEFINE g == [h EXCEPT ![n] = h[n] + 1]
             m == Len(s)
  <2>2. /\ m \in Nat /\ Len(t) = m + 1 /\ t[m + 1] = x /\ \A l \in 1 .. m : t[l] = s[l]
    BY <1>3, <2>1
  <2> HIDE DEF n, s, t, m
  <2>3. /\ g \in [0 .. n -> Nat] /\ g[n] = h[n] + 1
        /\ \A k \in 0 .. n - 1 : g[k] = h[k]
    BY <1>1, <1>5
  <2> HIDE DEF g
  <2>4. n - 1 \in 0 .. n - 1 /\ n \in 0 .. n /\ 0 \in 0 .. n - 1 /\ n \in 1 .. n
    BY <1>1
  <2>5. g[0] = 0 /\ g[n] = Len(t)
    BY <1>5, <2>2, <2>3, <2>4 DEF m
  <2>6. ASSUME NEW j \in 0 .. n, NEW k \in 0 .. n, j <= k PROVE g[j] <= g[k]
    <3>1. h[j] <= h[k] /\ h[j] \in Nat /\ h[k] \in Nat
      BY <1>5, <2>6
    <3>2. CASE k = n
      <4>1. g[j] = h[j] \/ g[j] = h[n] + 1
        BY <1>1, <2>3
      <4> QED BY <2>3, <3>1, <3>2, <4>1
    <3>3. CASE k # n
      <4>1. j \in 0 .. n - 1 /\ k \in 0 .. n - 1
        BY <1>1, <2>6, <3>3
      <4> QED BY <2>3, <3>1, <4>1
    <3> QED BY <3>2, <3>3
  <2>7. \A k \in 1 .. n : h[k] <= m /\ h[k] \in Nat
    <3> SUFFICES ASSUME NEW k \in 1 .. n PROVE h[k] <= m /\ h[k] \in Nat
      OBVIOUS
    <3>1. k \in 0 .. n /\ n \in 0 .. n /\ k <= n
      BY <1>1
    <3> QED BY <1>5, <3>1 DEF m
  <2>8. ASSUME NEW k \in 1 .. n
        PROVE  /\ g[k] = g[k - 1] + PushedBy(frames'[k], v)
               /\ \A l \in 1 .. g[k] : \A d \in DefinedIn(t[l]) :
                    Dominates(prog.cfg, d, frames'[k].bb)
               /\ PushedBy(frames'[k], v) > 0 =>
                    LastOf(rval', t[g[k]], frames'[k].bb, frames'[k].at, v)
    <3>1. CASE k = n
      <4>1. g[n] = g[n - 1] + PushedBy(f, v)
        <5>1. h[n] = h[n - 1] + PushedBy(Top, v) /\ h[n - 1] \in Nat
          BY <1>1, <1>5, <2>4
        <5>2. g[n] = h[n] + 1 /\ g[n - 1] = h[n - 1]
          BY <2>3, <2>4
        <5>3. PushedBy(f, v) = PushedBy(Top, v) + 1
          BY <1>8
        <5> QED BY <1>6, <5>1, <5>2, <5>3
      <4>2. ASSUME NEW l \in 1 .. g[n], NEW d \in DefinedIn(t[l]) PROVE Dominates(prog.cfg, d, bb)
        <5>1. h[n] = m /\ g[n] = m + 1
          BY <1>5, <2>3 DEF m
        <5>2. CASE l = m + 1
          BY <2>1, <2>2, <4>2, <5>2
        <5>3. CASE l # m + 1
          <6>1. l \in 1 .. m
            BY <2>2, <5>1, <5>3
          <6> QED BY <1>1, <1>5, <2>2, <2>4, <4>2, <5>1, <6>1
        <5> QED BY <5>2, <5>3
      <4>3. t[g[n]] = x
        BY <1>5, <2>2, <2>3 DEF m
      <4> QED BY <1>2, <2>1, <3>1, <4>1, <4>2, <4>3
    <3>2. CASE k # n
      <4>1. /\ k \in 1 .. n - 1 /\ k \in 0 .. n - 1 /\ k - 1 \in 0 .. n - 1
        BY <1>1, <3>2
      <4>2. frames'[k] = frames[k] /\ g[k] = h[k] /\ g[k - 1] = h[k - 1]
        BY <1>2, <2>3, <4>1
      <4>3. \A l \in 1 .. h[k] : t[l] = s[l]
        BY <2>2, <2>7
      <4>4. PushedBy(frames[k], v) > 0 => t[h[k]] = s[h[k]]
        <5>1. h[k] = h[k - 1] + PushedBy(frames[k], v) /\ h[k - 1] \in Nat
          BY <1>1, <1>5, <4>1
        <5>2. PushedBy(frames[k], v) \in Nat
          BY <1>1, PathFacts, PushedType DEF n
        <5>3. PushedBy(frames[k], v) > 0 => h[k] \in 1 .. h[k]
          BY <5>1, <5>2
        <5> QED BY <4>3, <5>3
      <4> QED BY <1>5, <4>2, <4>3, <4>4
    <3> QED BY <3>1, <3>2
  <2> QED BY <1>2, <2>3, <2>5, <2>6, <2>8, HeightsNext DEF t
<1> QED BY <1>7, <1>8

LEMMA StackTop == Inv /\ (PushPhis \/ RenameLoad \/ RenameStore \/ FillPhis) => StackInv'
<1> SUFFICES ASSUME Inv, PushPhis \/ RenameLoad \/ RenameStore \/ FillPhis, NEW v \in Vars
             PROVE  \E h : Heights(h, v)'
  BY DEF StackInv
<1>1. Renaming /\ UNCHANGED <<prog, phis>>
  BY DEF PushPhis, RenameLoad, RenameStore, FillPhis, phiVars
<1>0. Next
  BY DEF Next
<1>2. prog \in Programs /\ IsProgram(prog) /\ var_val_stack \in [Vars -> Seq(Values)]
      /\ rval \in [Instrs -> Values]
  BY ProgramFacts DEF Inv, TypeOK
<1>3. /\ Top \in Frames /\ bb \in Blocks /\ Top.at \in Nat /\ Len(Body) \in Nat
      /\ Top.at \in 1 .. Len(Body) => Instr \in Instrs /\ Instr \in Members(Body)
  BY <1>1, TopFacts
<1>4. Top.bb = bb /\ Body = prog.body[bb] /\ Instr = Body[Top.at]
  BY DEF bb, Body, Instr
<1>5. PICK f \in Frames : frames' = SetTop(f) /\ f.bb = bb /\ f.at = Top.at + 1
  BY TopSteps
<1> DEFINE Same == /\ var_val_stack'[v] = var_val_stack[v]
                   /\ PushedBy(f, v) = PushedBy(Top, v)
                   /\ \A x : LastIn(x, bb, Top.at, v) => LastOf(rval', x, bb, f.at, v)
           More == /\ PushedBy(f, v) = PushedBy(Top, v) + 1
                   /\ \E x \in Values :
                        /\ var_val_stack'[v] = Append(var_val_stack[v], x)
                        /\ \A d \in DefinedIn(x) : Dominates(prog.cfg, d, bb)
                        /\ LastOf(rval', x, bb, f.at, v)
<1>10. ASSUME ~ (Top.at \in 1 .. Len(Body) /\ prog.op[Instr] = "store" /\ prog.var[Instr] = v),
             NEW x, LastIn(x, bb, Top.at, v)
      PROVE  LastOf(rval', x, bb, f.at, v)
  <2>1. LastOf(rval', x, bb, Top.at, v)
    <3>1. Len(frames) \in 1 .. Len(frames) /\ frames[Len(frames)] = Top
      BY <1>1, TopFacts
    <3> QED BY <1>0, <1>1, <1>4, <1>10, <3>1, CallKept
  <2>2. StoresIn(bb, Top.at + 1, v) = StoresIn(bb, Top.at, v)
    BY <1>2, <1>3, <1>4, <1>10, StoresSame
  <2>3. Top.at + 1 > 0
    BY <1>3
  <2> QED BY <1>5, <2>1, <2>2, <2>3 DEF LastOf
<1>6. CASE PushPhis
  <2>1. /\ Top.at = 0
        /\ var_val_stack'[v] = IF HasPhi(bb, v) THEN Append(var_val_stack[v], Phi(bb, v))
                                                ELSE var_val_stack[v]
    BY <1>6 DEF PushPhis
  <2>2. PushedBy(Top, v) = 0 /\ PushedBy(f, v) = IF HasPhi(bb, v) THEN 1 ELSE 0
    BY <1>3, <1>4, <1>5, <2>1, PushedPhi
  <2>3. Phi(bb, v) \in Values /\ DefinedIn(Phi(bb, v)) = {bb} /\ Dominates(prog.cfg, bb, bb)
    BY <1>3, DomRefl DEF Values, DefinedIn, Phi
  <2>4. CASE HasPhi(bb, v)
    <3>1. StoresIn(bb, 1, v) = {} /\ f.at = 1
      BY <1>5, <2>1 DEF StoresIn
    <3>2. LastOf(rval', Phi(bb, v), bb, f.at, v)
      BY <2>4, <3>1 DEF LastOf
    <3>3. More
      BY <2>1, <2>2, <2>3, <2>4, <3>2
    <3> QED BY <1>0, <1>1, <1>5, <3>3, TopPush
  <2>5. CASE ~ HasPhi(bb, v)
    <3>1. Top.at \notin 1 .. Len(Body)
      BY <2>1
    <3>2. Same
      BY <1>10, <2>1, <2>2, <2>5, <3>1
    <3> QED BY <1>0, <1>1, <1>5, <3>2, TopPush
  <2> QED BY <2>4, <2>5
<1>7. CASE RenameLoad
  <2>1. Top.at \in 1 .. Len(Body) /\ prog.op[Instr] = "load" /\ var_val_stack' = var_val_stack
    BY <1>7 DEF RenameLoad
  <2>2. PushedBy(f, v) = PushedBy(Top, v) + 0
    BY <1>2, <1>3, <1>4, <1>5, <2>1, PushedNext
  <2>3. Same
    BY <1>2, <1>3, <1>10, <2>1, <2>2, PushedType
  <2> QED BY <1>0, <1>1, <1>5, <2>3, TopPush
<1>8. CASE RenameStore
  <2>1. /\ Top.at \in 1 .. Len(Body) /\ prog.op[Instr] = "store"
        /\ var_val_stack' = Push(prog.var[Instr], rval[Instr])
    BY <1>8 DEF RenameStore
  <2>2. PushedBy(f, v) = PushedBy(Top, v) + IF prog.var[Instr] = v THEN 1 ELSE 0
    <3>1. PushedBy(f, v) = PushedBy(Top, v) +
            IF Top.at \in 1 .. Len(Body) /\ prog.op[Instr] = "store" /\ prog.var[Instr] = v
              THEN 1 ELSE 0
      <4>1. prog \in Programs /\ Top.bb = f.bb /\ Top.at >= 1 /\ f.at = Top.at + 1
        BY <1>2, <1>3, <1>4, <1>5, <2>1
      <4> QED BY <1>3, <1>5, <4>1, PushedNext DEF Instr, Body, bb
    <3> QED BY <2>1, <3>1
  <2>3. CASE prog.var[Instr] = v
    <3>1. var_val_stack'[v] = Append(var_val_stack[v], rval[Instr])
      BY <1>2, <2>1, <2>3 DEF Push
    <3>2. \A d \in DefinedIn(rval[Instr]) : Dominates(prog.cfg, d, bb)
      BY <1>3, <1>4, <2>1 DEF Inv, OperandsInv
    <3>3. rval[Instr] \in Values
      BY <1>2, <1>3, <2>1
    <3>4. LastOf(rval', rval[Instr], bb, f.at, v)
      <4>1. /\ StoresIn(bb, f.at, v) = StoresIn(bb, Top.at, v) \cup {Top.at}
            /\ \A l \in StoresIn(bb, f.at, v) : l <= Top.at
        <5>1. /\ prog.body[bb][Top.at] = Instr /\ Top.at \in 1 .. Len(prog.body[bb])
              /\ prog.op[prog.body[bb][Top.at]] = "store" /\ prog.var[prog.body[bb][Top.at]] = v
          BY <1>4, <2>1, <2>3
        <5>2. /\ StoresIn(bb, Top.at + 1, v) = StoresIn(bb, Top.at, v) \cup {Top.at}
              /\ \A l \in StoresIn(bb, Top.at + 1, v) : l <= Top.at
          BY <1>2, <1>3, <5>1, StoresMore
        <5> QED BY <1>5, <5>2
      <4>2. rval' = rval
        BY <1>8 DEF RenameStore, irVars
      <4> QED BY <1>4, <4>1, <4>2 DEF LastOf
    <3>5. More
      BY <2>2, <2>3, <3>1, <3>2, <3>3, <3>4
    <3> QED BY <1>0, <1>1, <1>5, <3>5, TopPush
  <2>4. CASE prog.var[Instr] # v
    <3>1. var_val_stack'[v] = var_val_stack[v]
      BY <1>2, <2>1, <2>4 DEF Push
    <3>2. Same
      BY <1>2, <1>3, <1>10, <2>2, <2>4, <3>1, PushedType
    <3> QED BY <1>0, <1>1, <1>5, <3>2, TopPush
  <2> QED BY <2>3, <2>4
<1>9. CASE FillPhis
  <2>1. Top.at = Len(Body) + 1 /\ var_val_stack' = var_val_stack
    BY <1>9 DEF FillPhis
  <2>2. Top.at >= 1 /\ Top.at \notin 1 .. Len(Body)
    BY <1>3, <2>1
  <2>3. PushedBy(f, v) = PushedBy(Top, v) + 0
    BY <1>2, <1>3, <1>4, <1>5, <2>2, PushedNext
  <2>4. Same
    BY <1>2, <1>3, <1>10, <2>1, <2>2, <2>3, PushedType
  <2> QED BY <1>0, <1>1, <1>5, <2>4, TopPush
<1> QED BY <1>6, <1>7, <1>8, <1>9

(* The child sees the stacks as they stand: dominance is transitive.       *)
LEMMA StackRecurse == Inv /\ Recurse => StackInv'
<1> SUFFICES ASSUME Inv, Recurse, NEW v \in Vars PROVE \E h : Heights(h, v)'
  BY DEF StackInv
<1> DEFINE n == Len(frames)
           s == var_val_stack[v]
<1>1. Renaming /\ UNCHANGED <<prog, phis, var_val_stack>> /\ Top.at > Len(Body) + 1
  BY DEF Recurse, phiVars
<1>0. Next
  BY DEF Next
<1>2. prog \in Programs /\ s \in Seq(Values)
  BY DEF Inv, TypeOK
<1>3. n \in Nat \ {0} /\ frames[n] = Top /\ Top \in Frames /\ bb = Top.bb /\ bb \in Blocks
  BY <1>1, TopFacts DEF bb
<1>4. PICK c \in Top.children, f \in Frames :
           /\ c \in Blocks /\ IsIdom(prog.cfg, bb, c)
           /\ f.bb = bb /\ f.at = Top.at
           /\ Len(frames') = n + 1
           /\ \A k \in 1 .. n - 1 : frames'[k] = frames[k]
           /\ frames'[n] = f /\ frames'[n + 1] = Call(c)
  BY RecurseFacts
<1>5. PICK h : Heights(h, v)
  BY DEF Inv, StackInv
<1>6. /\ h \in [0 .. n -> Nat] /\ h[0] = 0 /\ h[n] = Len(s)
      /\ \A j, k \in 0 .. n : j <= k => h[j] <= h[k]
      /\ \A k \in 1 .. n :
           /\ h[k] = h[k - 1] + PushedBy(frames[k], v)
           /\ \A l \in 1 .. h[k] : \A d \in DefinedIn(s[l]) : Dominates(prog.cfg, d, frames[k].bb)
           /\ PushedBy(frames[k], v) > 0 =>
                LastOf(rval', s[h[k]], frames[k].bb, frames[k].at, v)
  BY <1>0, <1>1, <1>5, CallKept DEF Heights
<1>7. PushedBy(f, v) = PushedBy(Top, v)
  BY <1>3, <1>4 DEF PushedBy, bb
<1>8. PushedBy(Call(c), v) = 0 /\ Call(c).bb = c
  BY <1>2, <1>4, PushedCall, CallFacts
<1>9. ASSUME NEW l \in 1 .. Len(s), NEW d \in DefinedIn(s[l]), Dominates(prog.cfg, d, bb)
      PROVE  Dominates(prog.cfg, d, c)
  <2>1. s[l] \in Values
    BY <1>2
  <2>2. d \in Blocks
    BY <2>1, DefinedInBlocks
  <2>3. Dominates(prog.cfg, bb, c)
    BY <1>4 DEF IsIdom, StrictlyDominates
  <2> QED BY <1>3, <1>4, <1>9, <2>2, <2>3, DomTrans
<1> DEFINE g == [k \in 0 .. n + 1 |-> IF k = n + 1 THEN h[n] ELSE h[k]]
<1> HIDE DEF n, s
<1>10. n \in 0 .. n /\ n \in 1 .. n /\ 0 \in 0 .. n
  BY <1>3
<1>11. /\ g \in [0 .. n + 1 -> Nat] /\ g[n + 1] = h[n] /\ \A k \in 0 .. n : g[k] = h[k]
  BY <1>3, <1>6, <1>10
<1> HIDE DEF g
<1>12. ASSUME NEW j \in 0 .. n + 1, NEW k \in 0 .. n + 1, j <= k PROVE g[j] <= g[k]
  <2> DEFINE Cut(x) == IF x = n + 1 THEN n ELSE x
  <2>1. Cut(j) \in 0 .. n /\ Cut(k) \in 0 .. n /\ Cut(j) <= Cut(k)
    BY <1>3, <1>12
  <2>2. g[j] = h[Cut(j)] /\ g[k] = h[Cut(k)]
    BY <1>3, <1>11
  <2> HIDE DEF Cut
  <2> QED BY <1>6, <2>1, <2>2
<1>13. ASSUME NEW k \in 1 .. n + 1
       PROVE  /\ g[k] = g[k - 1] + PushedBy(frames'[k], v)
              /\ \A l \in 1 .. g[k] : \A d \in DefinedIn(s[l]) :
                   Dominates(prog.cfg, d, frames'[k].bb)
              /\ PushedBy(frames'[k], v) > 0 =>
                   LastOf(rval', s[g[k]], frames'[k].bb, frames'[k].at, v)
  <2>1. CASE k = n + 1
    <3>1. g[k] = h[n] /\ k - 1 = n /\ g[k - 1] = h[n] /\ h[n] \in Nat
      BY <1>3, <1>6, <1>10, <1>11, <2>1
    <3>2. frames'[k] = Call(c)
      BY <1>4, <2>1
    <3>3. g[k] = g[k - 1] + PushedBy(frames'[k], v)
      BY <1>8, <3>1, <3>2
    <3>4. ASSUME NEW l \in 1 .. g[k], NEW d \in DefinedIn(s[l]) PROVE Dominates(prog.cfg, d, c)
      <4>1. l \in 1 .. h[n] /\ l \in 1 .. Len(s)
        BY <1>6, <3>1
      <4>2. Dominates(prog.cfg, d, bb)
        BY <1>3, <1>6, <1>10, <3>4, <4>1
      <4> QED BY <1>9, <3>4, <4>1, <4>2
    <3> QED BY <1>8, <3>2, <3>3, <3>4
  <2>2. CASE k = n
    <3>1. g[k] = h[n] /\ g[k - 1] = h[n - 1] /\ frames'[k] = f
      BY <1>3, <1>4, <1>11, <2>2
    <3> QED BY <1>3, <1>4, <1>6, <1>7, <1>10, <2>2, <3>1
  <2>3. CASE k # n + 1 /\ k # n
    <3>1. k \in 1 .. n - 1 /\ k \in 0 .. n /\ k - 1 \in 0 .. n /\ k \in 1 .. n
      BY <1>3, <2>3
    <3>2. g[k] = h[k] /\ g[k - 1] = h[k - 1] /\ frames'[k] = frames[k]
      BY <1>4, <1>11, <3>1
    <3> QED BY <1>6, <3>1, <3>2
  <2> QED BY <2>1, <2>2, <2>3
<1>14. g[0] = 0 /\ g[n + 1] = Len(s)
  BY <1>6, <1>10, <1>11
<1>15. Len(frames') = n + 1 /\ var_val_stack'[v] = s
  BY <1>1, <1>4 DEF s
<1> QED BY <1>1, <1>11, <1>12, <1>13, <1>14, <1>15, HeightsNext

(* Return pops what its call has pushed.                                   *)
LEMMA StackReturn == Inv /\ Return => StackInv'
<1> SUFFICES ASSUME Inv, Return, NEW v \in Vars PROVE \E h : Heights(h, v)'
  BY DEF StackInv
<1> DEFINE n == Len(frames)
           s == var_val_stack[v]
           t == var_val_stack'[v]
<1>1. /\ Renaming /\ UNCHANGED <<prog, phis>> /\ Top.at > Len(Body) + 1
      /\ t = SubSeq(s, 1, Len(s) - Pushed(v))
  BY DEF Return, phiVars, Popped
<1>0. Next
  BY DEF Next
<1>2. prog \in Programs /\ s \in Seq(Values)
  BY DEF Inv, TypeOK
<1>3. n \in Nat \ {0} /\ frames[n] = Top /\ Top \in Frames
  BY <1>1, TopFacts
<1>4. Len(frames') = n - 1 /\ \A k \in 1 .. n - 1 : frames'[k] = frames[k]
  BY ReturnFacts
<1>5. PICK h : Heights(h, v)
  BY DEF Inv, StackInv
<1>6. /\ h \in [0 .. n -> Nat] /\ h[0] = 0 /\ h[n] = Len(s)
      /\ \A j, k \in 0 .. n : j <= k => h[j] <= h[k]
      /\ \A k \in 1 .. n :
           /\ h[k] = h[k - 1] + PushedBy(frames[k], v)
           /\ \A l \in 1 .. h[k] : \A d \in DefinedIn(s[l]) : Dominates(prog.cfg, d, frames[k].bb)
           /\ PushedBy(frames[k], v) > 0 =>
                LastOf(rval', s[h[k]], frames[k].bb, frames[k].at, v)
  BY <1>0, <1>1, <1>5, CallKept DEF Heights
<1>7. PushedBy(Top, v) = Pushed(v) /\ PushedBy(Top, v) \in Nat
  BY <1>1, <1>2, <1>3, PushedAll, PushedType
<1> HIDE DEF n
<1>8. n \in 1 .. n /\ n - 1 \in 0 .. n /\ n \in 0 .. n /\ n - 1 <= n
  BY <1>3
<1>9. h[n] - Pushed(v) = h[n - 1] /\ h[n - 1] \in Nat /\ h[n - 1] <= h[n]
  <2>1. h[n] = h[n - 1] + Pushed(v) /\ h[n - 1] \in Nat /\ h[n] \in Nat /\ Pushed(v) \in Nat
    BY <1>3, <1>6, <1>7, <1>8
  <2> QED BY <2>1
<1>10. Len(t) = h[n - 1] /\ \A l \in 1 .. h[n - 1] : t[l] = s[l]
  <2> DEFINE m == h[n - 1]
  <2>1. t = SubSeq(s, 1, m) /\ m \in Nat /\ m <= Len(s)
    BY <1>1, <1>6, <1>9
  <2> HIDE DEF m, s, t
  <2>2. Len(s) \in Nat
    BY <1>2
  <2>3. \A l \in 1 .. m : s[l] \in Values
    BY <1>2, <2>1, <2>2
  <2>4. Len(t) = m /\ \A l \in 1 .. m : t[l] = s[l]
    <3>1. /\ Len(SubSeq(s, 1, m)) = IF 1 <= m THEN m - 1 + 1 ELSE 0
          /\ \A l \in 1 .. m - 1 + 1 : SubSeq(s, 1, m)[l] = s[1 + l - 1]
      BY <2>1, <2>3, SubSeqProperties
    <3> QED BY <2>1, <3>1
  <2> QED BY <2>4 DEF m
<1> DEFINE g == [k \in 0 .. n - 1 |-> h[k]]
<1>11. /\ g \in [0 .. n - 1 -> Nat] /\ \A k \in 0 .. n - 1 : g[k] = h[k]
       /\ 0 \in 0 .. n - 1 /\ n - 1 \in 0 .. n - 1
  BY <1>3, <1>6
<1> HIDE DEF g, s, t
<1>12. g[0] = 0 /\ g[n - 1] = Len(t)
  BY <1>6, <1>10, <1>11
<1>13. \A j, k \in 0 .. n - 1 : j <= k => g[j] <= g[k]
  <2>1. \A j \in 0 .. n - 1 : j \in 0 .. n
    BY <1>3
  <2> QED BY <1>6, <1>11, <2>1
<1>14. ASSUME NEW k \in 1 .. n - 1
       PROVE  /\ g[k] = g[k - 1] + PushedBy(frames'[k], v)
              /\ \A l \in 1 .. g[k] : \A d \in DefinedIn(t[l]) :
                   Dominates(prog.cfg, d, frames'[k].bb)
              /\ PushedBy(frames'[k], v) > 0 =>
                   LastOf(rval', t[g[k]], frames'[k].bb, frames'[k].at, v)
  <2>1. /\ k \in 0 .. n - 1 /\ k - 1 \in 0 .. n - 1 /\ k \in 1 .. n /\ k \in 0 .. n
        /\ k <= n - 1
    BY <1>3
  <2>2. g[k] = h[k] /\ g[k - 1] = h[k - 1] /\ frames'[k] = frames[k]
    BY <1>4, <1>11, <2>1
  <2>3. h[k] \in Nat /\ h[k] <= h[n - 1]
    BY <1>6, <1>8, <2>1
  <2>4. \A l \in 1 .. h[k] : t[l] = s[l]
    BY <1>9, <1>10, <2>3
  <2>5. PushedBy(frames[k], v) > 0 => h[k] \in 1 .. h[k]
    <3>1. h[k] = h[k - 1] + PushedBy(frames[k], v) /\ h[k - 1] \in Nat
      BY <1>3, <1>6, <2>1
    <3>2. PushedBy(frames[k], v) \in Nat
      BY <1>2, <2>1, PathFacts, PushedType DEF n
    <3> QED BY <3>1, <3>2
  <2> QED BY <1>6, <2>1, <2>2, <2>4, <2>5
<1> QED BY <1>1, <1>4, <1>11, <1>12, <1>13, <1>14, HeightsNext DEF t

LEMMA StepStack == Inv /\ [Next]_vars => StackInv'
<1> SUFFICES ASSUME Inv, [Next]_vars PROVE StackInv'
  OBVIOUS
<1>1. CASE NextVar \/ UNCHANGED vars
  <2>1. UNCHANGED <<prog, phis, frames, var_val_stack, rval>>
    BY <1>1 DEF NextVar, vars, phiVars, irVars
  <2> SUFFICES ASSUME NEW v \in Vars PROVE \E h : Heights(h, v)'
    BY DEF StackInv
  <2>2. PICK h : Heights(h, v)
    BY DEF Inv, StackInv
  <2> QED BY <2>1, <2>2, HeightsNext DEF Heights, LastIn
<1>2. CASE PlacePhis \/ StartRename
  <2> SUFFICES ASSUME NEW v \in Vars PROVE \E h : Heights(h, v)'
    BY DEF StackInv
  <2>1. /\ pc = "phi" /\ UNCHANGED <<prog, var_val_stack>>
        /\ \/ PlacePhis /\ frames' = frames
           \/ StartRename /\ phis' = phis /\ frames' = <<Call(Entry)>>
    BY <1>2 DEF PlacePhis, StartRename, phiVars
  <2>2. frames = << >> /\ prog \in Programs
    BY <2>1 DEF Inv, FramesInv
  <2>3. PICK h : Heights(h, v)
    BY DEF Inv, StackInv
  <2>4. h[0] = 0 /\ h \in [0 .. 0 -> Nat] /\ Len(var_val_stack'[v]) = 0
    BY <2>1, <2>2, <2>3 DEF Heights
  <2>5. CASE PlacePhis /\ frames' = frames
    <3>1. Len(frames') = 0
      BY <2>2, <2>5
    <3> QED BY <2>4, <3>1 DEF Heights
  <2>6. CASE StartRename /\ phis' = phis /\ frames' = <<Call(Entry)>>
    <3> DEFINE g == [k \in 0 .. 1 |-> 0]
    <3>1. Len(frames') = 1 /\ frames'[1] = Call(Entry)
      BY <2>6
    <3>2. PushedBy(Call(Entry), v) = 0
      BY <2>2, PushedCall
    <3>3. /\ g \in [0 .. 1 -> Nat] /\ g[0] = 0 /\ g[1] = 0
          /\ \A j, k \in 0 .. 1 : j <= k => g[j] <= g[k]
      OBVIOUS
    <3> HIDE DEF g
    <3>4. \A k \in 1 .. 1 : k = 1 /\ k - 1 = 0
      OBVIOUS
    <3>5. \A k \in 1 .. 1 : /\ g[k] = g[k - 1] + PushedBy(frames'[k], v) /\ 1 .. g[k] = {}
                            /\ ~ (PushedBy(frames'[k], v) > 0)
      BY <3>1, <3>2, <3>3, <3>4
    <3> QED BY <2>1, <2>4, <2>6, <3>1, <3>3, <3>5, HeightsNext
  <2> QED BY <2>1, <2>5, <2>6
<1> QED BY <1>1, <1>2, StackTop, StackRecurse, StackReturn DEF Next
-----------------------------------------------------------------------------
(***************************************************************************)
(* The operands.                                                           *)
(***************************************************************************)
(* What a load is replaced by is defined in blocks that dominate its own.  *)
LEMMA BackFacts ==
  ASSUME Inv, Renaming, NEW v \in Vars, var_val_stack[v] # << >>
  PROVE  /\ Back(v) \in Values
         /\ \A d \in DefinedIn(Back(v)) : d \in Blocks /\ Dominates(prog.cfg, d, bb)
<1> DEFINE s == var_val_stack[v]
<1>1. s \in Seq(Values) /\ Len(s) \in Nat \ {0} /\ Back(v) = s[Len(s)]
  BY DEF Inv, TypeOK, Back
<1>2. Back(v) \in Values
  BY <1>1
<1>3. Len(frames) \in Nat \ {0} /\ frames[Len(frames)].bb = bb
  BY TopFacts DEF bb
<1>4. PICK h : Heights(h, v)
  BY DEF Inv, StackInv
<1>5. h[Len(frames)] = Len(s) /\ Len(s) \in 1 .. Len(s)
  BY <1>1, <1>4 DEF Heights
<1>6. \A d \in DefinedIn(s[Len(s)]) : Dominates(prog.cfg, d, bb)
  <2>1. Len(frames) \in 1 .. Len(frames)
    BY <1>3
  <2> QED BY <1>3, <1>4, <1>5, <2>1 DEF Heights
<1> QED BY <1>1, <1>2, <1>6, DefinedInBlocks

(* It was pushed by an active call, as the last definition there, and the  *)
(* calls after that one have pushed nothing; an empty stack has no pushes. *)
LEMMA BackFrom ==
  ASSUME Inv, Renaming, NEW v \in Vars
  PROVE  IF var_val_stack[v] = << >>
           THEN \A k \in 1 .. Len(frames) : PushedBy(frames[k], v) = 0
           ELSE \E k \in 1 .. Len(frames) :
                  /\ PushedBy(frames[k], v) > 0
                  /\ LastIn(Back(v), frames[k].bb, frames[k].at, v)
                  /\ \A j \in k + 1 .. Len(frames) : PushedBy(frames[j], v) = 0
<1> DEFINE n == Len(frames)
           s == var_val_stack[v]
           P(k) == PushedBy(frames[k], v)
<1>1. n \in Nat /\ s \in Seq(Values) /\ Back(v) = s[Len(s)] /\ Len(s) \in Nat
      /\ (s = << >> <=> Len(s) = 0)
  BY PathFacts DEF Inv, TypeOK, Back
<1>2. PICK h : Heights(h, v)
  BY DEF Inv, StackInv
<1>3. /\ h \in [0 .. n -> Nat] /\ h[0] = 0 /\ h[n] = Len(s)
      /\ \A j, k \in 0 .. n : j <= k => h[j] <= h[k]
      /\ \A k \in 1 .. n :
           /\ h[k] = h[k - 1] + P(k)
           /\ P(k) > 0 => LastIn(s[h[k]], frames[k].bb, frames[k].at, v)
  BY <1>2 DEF Heights
<1>4. \A k \in 1 .. n : P(k) \in Nat
  BY PathFacts, PushedType
<1> HIDE DEF n, s, P
<1>5. \A k \in 1 .. n : k \in 0 .. n /\ k - 1 \in 0 .. n /\ k \in Nat /\ k <= n /\ k - 1 <= n
  BY <1>1
<1>6. n \in 0 .. n /\ 0 \in 0 .. n
  BY <1>1
<1>7. ASSUME NEW k \in 1 .. n, h[k - 1] = h[n] PROVE P(k) = 0
  <2>1. h[k] <= h[n] /\ h[k] = h[k - 1] + P(k) /\ h[k] \in Nat /\ h[n] \in Nat
    BY <1>3, <1>5, <1>6
  <2> QED BY <1>4, <1>7, <2>1
<1>8. CASE s = << >>
  <2>1. ASSUME NEW k \in 1 .. n PROVE P(k) = 0
    <3>1. h[k - 1] \in Nat /\ h[k - 1] <= h[n] /\ h[n] = 0
      BY <1>1, <1>3, <1>5, <1>6, <1>8
    <3> QED BY <1>7, <3>1
  <2> QED BY <1>8, <2>1 DEF n, s, P
<1>9. CASE s # << >>
  <2> DEFINE T == {k \in 0 .. n : h[k] = h[n]}
  <2>1. T \in SUBSET Nat /\ T # {}
    BY <1>1, <1>6
  <2>2. PICK k \in T : \A m \in T : k <= m
    <3> HIDE DEF T
    <3> QED BY <2>1, LeastNat
  <2>3. k \in 0 .. n /\ h[k] = h[n] /\ k # 0
    BY <1>1, <1>3, <1>9, <2>2
  <2>4. k \in 1 .. n /\ k - 1 \in 0 .. n /\ k \in 0 .. n
    BY <1>1, <2>3
  <2>5. h[k - 1] # h[n]
    <3>1. k - 1 \notin T
      <4>1. ~ (k <= k - 1)
        BY <1>1, <2>4
      <4> QED BY <2>2, <4>1
    <3> QED BY <2>4, <3>1
  <2>6. P(k) > 0
    BY <1>3, <1>4, <2>3, <2>4, <2>5
  <2>7. ASSUME NEW j \in k + 1 .. n PROVE P(j) = 0
    <3>1. j \in 1 .. n /\ j - 1 \in 0 .. n /\ k <= j - 1 /\ j - 1 <= n
      BY <1>1, <2>4
    <3>2. h[k] <= h[j - 1] /\ h[j - 1] <= h[n] /\ h[j - 1] \in Nat /\ h[k] \in Nat
      BY <1>3, <1>6, <2>4, <3>1
    <3> QED BY <1>7, <2>3, <3>1, <3>2
  <2>8. LastIn(Back(v), frames[k].bb, frames[k].at, v)
    BY <1>1, <1>3, <2>3, <2>4, <2>6
  <2> QED BY <1>9, <2>4, <2>6, <2>7, <2>8 DEF n, s, P
<1> QED BY <1>8, <1>9

LEMMA StepOperands == Inv /\ [Next]_vars => OperandsInv'
<1> SUFFICES ASSUME Inv, [Next]_vars PROVE OperandsInv'
  OBVIOUS
<1>0. prog \in Programs /\ prog' = prog /\ \A x : DefinedIn(x)' = DefinedIn(x')
  BY DEF Inv, Next, vars, NextVar, PlacePhis, StartRename, PushPhis, RenameLoad, RenameStore,
         FillPhis, Recurse, Return, DefinedIn
<1>1. CASE UNCHANGED <<rval, uses>>
  BY <1>0, <1>1 DEF Inv, OperandsInv
<1>2. CASE ~ UNCHANGED <<rval, uses>>
  <2> DEFINE v == prog.var[Instr]
  <2>1. /\ Renaming /\ Top.at \in 1 .. Len(Body) /\ v \in Vars /\ var_val_stack[v] # << >>
        /\ \A j \in Instrs : /\ rval'[j] = Replaced(rval[j], Instr, Back(v))
                             /\ uses'[j] = Replaced(uses[j], Instr, Back(v))
    BY <1>2, StepValues
  <2>2. bb \in Blocks /\ Instr \in Instrs /\ Instr \in Members(prog.body[bb])
    BY <1>0, <2>1, TopFacts, ProgramFacts DEF Body, IsProgram
  <2>3. \A d \in DefinedIn(Back(v)) : d \in Blocks /\ Dominates(prog.cfg, d, bb)
    BY <2>1, BackFacts
  <2> HIDE DEF v
  <2>4. ASSUME NEW x, NEW b \in Blocks,
               \A d \in DefinedIn(x) : Dominates(prog.cfg, d, b),
               NEW d \in DefinedIn(Replaced(x, Instr, Back(v)))
        PROVE  Dominates(prog.cfg, d, b)
    <3>1. CASE x # Load(Instr)
      BY <2>4, <3>1 DEF Replaced
    <3>2. CASE x = Load(Instr)
      <4>1. bb \in DefinedIn(x)
        BY <2>2, <3>2 DEF DefinedIn, Load
      <4>2. d \in DefinedIn(Back(v)) /\ Dominates(prog.cfg, bb, b)
        BY <2>4, <3>2, <4>1 DEF Replaced
      <4> QED BY <2>2, <2>3, <4>2, DomTrans
    <3> QED BY <3>1, <3>2
  <2>5. ASSUME NEW j \in Instrs, NEW b \in Blocks, j \in Members(prog.body[b]),
               NEW d \in DefinedIn(rval'[j]) \cup DefinedIn(uses'[j])
        PROVE  Dominates(prog.cfg, d, b)
    <3>1. /\ \A e \in DefinedIn(rval[j]) : Dominates(prog.cfg, e, b)
          /\ \A e \in DefinedIn(uses[j]) : Dominates(prog.cfg, e, b)
      BY <2>5 DEF Inv, OperandsInv
    <3> QED BY <2>1, <2>4, <2>5, <3>1
  <2> QED BY <1>0, <2>5 DEF OperandsInv
<1> QED BY <1>1, <1>2

LEMMA LoadInjective ==
  ASSUME NEW j, NEW m, Load(j) = Load(m)
  PROVE  j = m
BY DEF Load

LEMMA LastSeen ==
  ASSUME Inv, NEW b \in Blocks, NEW i, NEW v, \A l \in StoresIn(b, i, v) : Passed(b, l),
         NEW m \in Instrs, LastIn(Load(m), b, i, v)
  PROVE  Seen(m)
<1>1. PICK k \in StoresIn(b, i, v) : Load(m) = rval[prog.body[b][k]]
  BY DEF LastIn, LastOf, Load, Phi
<1> QED BY <1>1, NotPending DEF StoresIn

(* What a load is replaced by is not a load that is replaced later.        *)
LEMMA BackSeen ==
  ASSUME Inv, Renaming, NEW v \in Vars, var_val_stack[v] # << >>, NEW m \in Instrs, Back(v) = Load(m)
  PROVE  Seen(m)
<1>1. PICK k \in 1 .. Len(frames) : LastIn(Back(v), frames[k].bb, frames[k].at, v)
  BY BackFrom
<1>2. frames[k].bb \in Blocks /\ prog \in Programs
  BY PathFacts
<1>3. \A l \in StoresIn(frames[k].bb, frames[k].at, v) : Passed(frames[k].bb, l)
  BY <1>2, PlaceFacts, FramePassed DEF StoresIn
<1> QED BY <1>1, <1>2, <1>3, LastSeen

LEMMA StepLoads == Inv /\ [Next]_vars => LoadsInv'
<1> SUFFICES ASSUME Inv, [Next]_vars PROVE LoadsInv'
  OBVIOUS
<1>0. prog \in Programs /\ prog' = prog
  BY DEF Inv, Next, vars, NextVar, PlacePhis, StartRename, PushPhis, RenameLoad, RenameStore,
         FillPhis, Recurse, Return
<1>1. \A j : Seen(j) => (Seen(j))'
  <2>1. \A b \in Blocks : \A i \in 1 .. Len(prog.body[b]) : Passed(b, i) => (Passed(b, i))'
    BY <1>0, PlaceFacts, PassedStep
  <2> QED BY <1>0, <2>1 DEF Seen
<1>2. ASSUME ~ UNCHANGED <<rval, uses>>, NEW j, j = Instr PROVE (Seen(j))'
  <2>1. RenameLoad /\ Renaming /\ Top.at \in 1 .. Len(Body)
    BY <1>2, StepValues
  <2>2. bb \in Blocks /\ Top.at \in 1 .. Len(prog.body[bb]) /\ j = prog.body[bb][Top.at]
    BY <1>2, <2>1, TopFacts DEF Body, Instr
  <2> SUFFICES ASSUME NEW b \in Blocks, NEW i \in 1 .. Len(prog.body[b]), prog.body[b][i] = j
               PROVE  (Passed(b, i))'
    BY <1>0 DEF Seen
  <2>3. b = bb /\ i = Top.at /\ i \in 0 .. EndOf(b)
    BY <1>0, <2>2, PlaceFacts
  <2> QED BY <2>1, <2>3, PassedStep DEF Passing
<1>3. ASSUME NEW j \in Instrs, ~ (Seen(j))' PROVE uses'[j] = Load(j)
  <2>1. uses[j] = Load(j) /\ (~ UNCHANGED <<rval, uses>> => j # Instr)
    BY <1>1, <1>2, <1>3 DEF Inv, LoadsInv
  <2> QED BY <2>1, StepValues, LoadInjective DEF Replaced
<1>4. ASSUME NEW j \in Instrs, NEW m \in Instrs, (Seen(j))', uses'[j] = Load(m) PROVE (Seen(m))'
  <2>1. CASE uses'[j] = uses[j]
    <3>1. CASE Seen(j)
      BY <1>1, <1>4, <2>1, <3>1 DEF Inv, LoadsInv
    <3>2. CASE ~ Seen(j)
      <4>1. Load(j) = Load(m)
        BY <1>4, <2>1, <3>2 DEF Inv, LoadsInv
      <4> QED BY <1>4, <4>1, LoadInjective
    <3> QED BY <3>1, <3>2
  <2>2. CASE uses'[j] # uses[j]
    <3> DEFINE v == prog.var[Instr]
    <3>1. Renaming /\ v \in Vars /\ var_val_stack[v] # << >> /\ Back(v) = Load(m)
      BY <1>4, <2>2, StepValues DEF Replaced
    <3> QED BY <1>1, <3>1, BackSeen
  <2> QED BY <2>1, <2>2
<1>5. ASSUME NEW j \in Instrs, prog.rval[j] = Const(j) PROVE rval'[j] = Const(j)
  <2>1. rval[j] = Const(j) /\ \A m : Const(j) # Load(m)
    BY <1>5 DEF Inv, LoadsInv, Const, Load
  <2> QED BY <2>1, StepValues DEF Replaced
<1>6. ASSUME NEW j \in Instrs, NEW m \in Instrs, prog.rval[j] = Load(m) PROVE rval'[j] = uses'[m]
  <2>1. rval[j] = uses[m]
    BY <1>6 DEF Inv, LoadsInv
  <2> QED BY <2>1, StepValues DEF Replaced
<1> QED BY <1>0, <1>3, <1>4, <1>5, <1>6 DEF LoadsInv
-----------------------------------------------------------------------------
(***************************************************************************)
(* The types.                                                              *)
(***************************************************************************)
LEMMA StepVarType ==
  ASSUME Inv, [Next]_vars
  PROVE  /\ todo' \in SUBSET Vars /\ work_list' \in Seq(Blocks)
         /\ var' \in 0 .. NVars /\ (work_list' # << >> => var' \in Vars)
         /\ prog' = prog /\ pc' \in {"phi", "rename", "done"}
<1>1. /\ todo \in SUBSET Vars /\ work_list \in Seq(Blocks) /\ pc \in {"phi", "rename", "done"}
      /\ var \in 0 .. NVars /\ (work_list # << >> => var \in Vars)
  BY DEF Inv, TypeOK
<1>2. CASE NextVar
  <2>1. PICK v \in todo : /\ var' = v /\ todo' = todo \ {v}
                         /\ \E s \in SetToSeqs(StoredIn(v)) : work_list' = s
    BY <1>2 DEF NextVar
  <2>2. StoredIn(v) \in SUBSET Blocks
    BY DEF StoredIn
  <2>3. work_list' \in Seq(Blocks)
    BY <2>1, <2>2, ListFacts
  <2>4. v \in Vars /\ v \in 0 .. NVars
    BY <1>1, <2>1, SizesAssumption DEF Vars
  <2> QED BY <1>1, <1>2, <2>1, <2>3, <2>4 DEF NextVar
<1>3. CASE PlacePhis
  <2> DEFINE new == {c \in Frontier[prog.cfg][Head(work_list)] : ~ HasPhi(c, var)}
  <2>1. work_list # << >> /\ \E s \in SetToSeqs(new) : work_list' = Tail(work_list) \o s
    BY <1>3 DEF PlacePhis
  <2>2. Head(work_list) \in Blocks /\ Tail(work_list) \in Seq(Blocks)
    BY <1>1, <2>1
  <2>3. new \in SUBSET Blocks
    BY <2>2, ProgramFacts DEF Frontier, Inv
  <2> HIDE DEF new
  <2>4. work_list' \in Seq(Blocks)
    BY <2>1, <2>2, <2>3, ListFacts
  <2> QED BY <1>1, <1>3, <2>1, <2>4 DEF PlacePhis
<1>4. CASE UNCHANGED <<todo, var, work_list>>
  BY <1>1, <1>4 DEF Next, vars, NextVar, PlacePhis, StartRename, PushPhis, RenameLoad, RenameStore,
         FillPhis, Recurse, Return
<1> QED BY <1>2, <1>3, <1>4 DEF Next, vars, phiVars, StartRename, PushPhis, RenameLoad, RenameStore,
         FillPhis, Recurse, Return

(* A block gets at most one phi for a variable.                            *)
LEMMA StepPhisType ==
  ASSUME Inv, [Next]_vars
  PROVE  phis' \in [Blocks -> Seq(Vars)] /\ \A b \in Blocks : IsInjective(phis'[b])
<1>1. phis \in [Blocks -> Seq(Vars)] /\ \A b \in Blocks : IsInjective(phis[b])
  BY DEF Inv, TypeOK
<1>2. CASE PlacePhis
  <2> DEFINE new == {c \in Frontier[prog.cfg][Head(work_list)] : ~ HasPhi(c, var)}
  <2>1. /\ phis' = [c \in Blocks |-> IF c \in new THEN <<var>> \o phis[c] ELSE phis[c]]
        /\ var \in Vars
    BY <1>2 DEF PlacePhis, Inv, TypeOK
  <2> SUFFICES ASSUME NEW b \in Blocks
               PROVE  phis'[b] \in Seq(Vars) /\ IsInjective(phis'[b])
    BY <2>1
  <2>2. CASE b \notin new
    BY <1>1, <2>1, <2>2
  <2>3. CASE b \in new
    <3> DEFINE s == phis[b]
               t == <<var>> \o s
               n == Len(s)
    <3>1. s \in Seq(Vars) /\ IsInjective(s) /\ var \notin Members(s) /\ phis'[b] = t
      BY <1>1, <2>1, <2>3 DEF HasPhi
    <3> HIDE DEF s, new
    <3>2. /\ t \in Seq(Vars) /\ n \in Nat /\ Len(t) = n + 1 /\ DOMAIN t = 1 .. n + 1
          /\ t[1] = var /\ \A k \in 2 .. n + 1 : t[k] = s[k - 1]
          /\ DOMAIN s = 1 .. n
      BY <2>1, <3>1
    <3> HIDE DEF t
    <3>3. \A k \in 2 .. n + 1 : t[k] # var
      <4> SUFFICES ASSUME NEW k \in 2 .. n + 1 PROVE s[k - 1] # var
        BY <3>2
      <4>1. k - 1 \in 1 .. Len(s)
        BY <3>2
      <4> QED BY <3>1, <4>1 DEF Members
    <3> HIDE DEF n
    <3>4. ASSUME NEW j \in 1 .. n + 1, NEW k \in 1 .. n + 1, t[j] = t[k] PROVE j = k
      <4>1. (j = 1 \/ j \in 2 .. n + 1) /\ (k = 1 \/ k \in 2 .. n + 1)
        BY <3>2
      <4>2. CASE j \in 2 .. n + 1 /\ k \in 2 .. n + 1
        <5>1. j - 1 \in 1 .. n /\ k - 1 \in 1 .. n /\ s[j - 1] = s[k - 1]
          BY <3>2, <3>4, <4>2
        <5>2. j - 1 = k - 1
          BY <3>1, <3>2, <5>1 DEF IsInjective
        <5> QED BY <3>2, <4>2, <5>2
      <4> QED BY <3>2, <3>3, <3>4, <4>1, <4>2
    <3> QED BY <3>1, <3>2, <3>4 DEF IsInjective
  <2> QED BY <2>2, <2>3
<1>3. CASE phis' = phis
  BY <1>1, <1>3
<1> QED BY <1>2, <1>3 DEF Next, vars, phiVars, NextVar, StartRename, PushPhis, RenameLoad,
         RenameStore, FillPhis, Recurse, Return

LEMMA StepStackType == Inv /\ [Next]_vars => var_val_stack' \in [Vars -> Seq(Values)]
<1> SUFFICES ASSUME Inv, [Next]_vars PROVE var_val_stack' \in [Vars -> Seq(Values)]
  OBVIOUS
<1>1. /\ var_val_stack \in [Vars -> Seq(Values)] /\ rval \in [Instrs -> Values]
      /\ prog \in Programs
  BY DEF Inv, TypeOK
<1>2. CASE PushPhis
  <2>1. bb \in Blocks
    BY <1>2, TopFacts DEF PushPhis
  <2>2. \A v \in Vars : Phi(bb, v) \in Values
    BY <2>1 DEF Values
  <2> QED BY <1>1, <1>2, <2>2 DEF PushPhis
<1>3. CASE RenameStore
  <2>1. Instr \in Instrs
    BY <1>3, TopFacts DEF RenameStore
  <2>2. prog.var[Instr] \in Vars /\ rval[Instr] \in Values
    BY <1>1, <2>1, ProgramFacts DEF IsProgram
  <2> QED BY <1>1, <1>3, <2>2 DEF RenameStore, Push
<1>4. CASE Return
  <2> SUFFICES ASSUME NEW v \in Vars PROVE Popped(v) \in Seq(Values)
    BY <1>4 DEF Return
  <2> DEFINE s == var_val_stack[v]
             n == Len(s)
             m == n - Pushed(v)
  <2>1. Renaming /\ Top.at > Len(Body) + 1
    BY <1>4 DEF Return
  <2>2. Top \in Frames
    BY <2>1, TopFacts
  <2>3. Pushed(v) \in Nat
    BY <1>1, <2>1, <2>2, PushedAll, PushedType
  <2>4. s \in Seq(Values) /\ n \in Nat /\ \A l \in 1 .. n : s[l] \in Values
    BY <1>1
  <2>5. m \in Int /\ \A l \in 1 .. m : s[l] \in Values
    BY <2>3, <2>4
  <2> HIDE DEF s, m
  <2>6. SubSeq(s, 1, m) \in Seq(Values)
    BY <2>5, SubSeqProperties
  <2> QED BY <2>6 DEF Popped, s, m
<1>5. CASE var_val_stack' = var_val_stack
  BY <1>1, <1>5
<1> QED BY <1>2, <1>3, <1>4, <1>5 DEF Next, vars, NextVar, PlacePhis, StartRename, RenameLoad,
         FillPhis, Recurse

LEMMA StepFramesType == Inv /\ [Next]_vars => frames' \in Seq(Frames)
<1> SUFFICES ASSUME Inv, [Next]_vars PROVE frames' \in Seq(Frames)
  OBVIOUS
<1>1. frames \in Seq(Frames) /\ prog \in Programs
  BY DEF Inv, TypeOK
<1>2. CASE PushPhis \/ RenameLoad \/ RenameStore \/ FillPhis
  <2>1. frames # << >>
    BY <1>2 DEF PushPhis, RenameLoad, RenameStore, FillPhis, Renaming
  <2> QED BY <1>1, <1>2, <2>1, TopSteps, SetTopFacts
<1>3. CASE StartRename
  BY <1>1, <1>3, CallFacts DEF StartRename
<1>4. CASE frames' = frames
  BY <1>1, <1>4
<1> QED BY <1>2, <1>3, <1>4, RecurseFacts, ReturnFacts DEF Next, vars, NextVar, PlacePhis

LEMMA StepIRType ==
  ASSUME Inv, [Next]_vars
  PROVE  /\ pairs' \in [Blocks \X Vars -> Seq(Values \X Blocks)]
         /\ rval' \in [Instrs -> Values] /\ uses' \in [Instrs -> Values]
         /\ erased' \in SUBSET Instrs
<1>1. /\ pairs \in [Blocks \X Vars -> Seq(Values \X Blocks)]
      /\ rval \in [Instrs -> Values] /\ uses \in [Instrs -> Values]
      /\ erased \in SUBSET Instrs /\ prog \in Programs
  BY DEF Inv, TypeOK
<1>2. CASE RenameLoad /\ ~ UNCHANGED <<rval, uses, pairs>>
  <2> DEFINE v == prog.var[Instr]
             x == Back(v)
  <2>1. /\ Renaming /\ Top.at \in 1 .. Len(Body) /\ var_val_stack[v] # << >>
        /\ rval' = [j \in Instrs |-> Replaced(rval[j], Instr, x)]
        /\ uses' = [j \in Instrs |-> Replaced(uses[j], Instr, x)]
        /\ pairs' = [p \in Blocks \X Vars |->
                       [l \in 1 .. Len(pairs[p]) |->
                          <<Replaced(pairs[p][l][1], Instr, x), pairs[p][l][2]>>]]
        /\ erased' = erased
    BY <1>2 DEF RenameLoad
  <2>2. v \in Vars
    BY <1>1, <2>1, TopFacts, ProgramFacts DEF IsProgram
  <2>3. x \in Values
    BY <2>1, <2>2, BackFacts
  <2> HIDE DEF x, v
  <2>4. \A y \in Values : Replaced(y, Instr, x) \in Values
    BY <2>3 DEF Replaced
  <2>5. ASSUME NEW p \in Blocks \X Vars PROVE pairs'[p] \in Seq(Values \X Blocks)
    <3> DEFINE s == pairs[p]
               n == Len(s)
    <3>1. s \in Seq(Values \X Blocks) /\ n \in Nat
      BY <1>1
    <3>2. \A l \in 1 .. n : s[l] \in Values \X Blocks
      BY <3>1
    <3>3. \A l \in 1 .. n : <<Replaced(s[l][1], Instr, x), s[l][2]>> \in Values \X Blocks
      BY <2>4, <3>2
    <3>4. pairs'[p] = [l \in 1 .. n |-> <<Replaced(s[l][1], Instr, x), s[l][2]>>]
      BY <2>1
    <3> HIDE DEF s, n
    <3> QED BY <3>1, <3>3, <3>4
  <2>6. pairs' \in [Blocks \X Vars -> Seq(Values \X Blocks)]
    BY <2>1, <2>5
  <2> QED BY <1>1, <2>1, <2>4, <2>6
<1>3. CASE FillPhis
  <2>1. bb \in Blocks /\ Renaming
    BY <1>3, TopFacts DEF FillPhis
  <2>2. ASSUME NEW p \in Blocks \X Vars PROVE pairs'[p] \in Seq(Values \X Blocks)
    <3> DEFINE e == <<Back(p[2]), bb>>
               s == pairs[p]
               t == pairs'[p]
               T == Values \X Blocks
               some == var_val_stack[p[2]] # << >>
    <3>1. t = s \/ (some /\ t = Append(s, e))
      BY <1>3 DEF FillPhis
    <3>2. some => Back(p[2]) \in Values
      BY <2>1, BackFacts
    <3>3. some => e \in T
      BY <2>1, <3>2
    <3>4. s \in Seq(T)
      BY <1>1
    <3> HIDE DEF e, s, T, t, some
    <3>5. t \in Seq(T)
      BY <3>1, <3>3, <3>4
    <3> QED BY <3>5 DEF t, T
  <2>3. pairs' \in [Blocks \X Vars -> Seq(Values \X Blocks)]
    BY <1>3, <2>2 DEF FillPhis
  <2> QED BY <1>1, <1>3, <2>3 DEF FillPhis
<1>4. CASE Return
  <2>1. Top.wait_delete \in SUBSET Instrs
    BY <1>4, TopFacts DEF Return, Frames
  <2> QED BY <1>1, <1>4, <2>1 DEF Return
<1>5. CASE UNCHANGED <<rval, uses, pairs, erased>>
  BY <1>1, <1>5
<1>6. RenameLoad => erased' = erased
  BY DEF RenameLoad
<1> QED BY <1>2, <1>3, <1>4, <1>5, <1>6 DEF Next, vars, irVars, NextVar, PlacePhis, StartRename,
          PushPhis, RenameStore, Recurse
-----------------------------------------------------------------------------
LEMMA StepInv == Inv /\ [Next]_vars => Inv'
BY StepFrames, StepChildren, StepLoads, StepStack, StepOperands, StepVarType, StepPhisType, StepStackType, StepFramesType,
   StepIRType DEF Inv, TypeOK

LEMMA Invariance == Spec => []Inv
<1>1. Init => Inv
  BY InitInv
<1>2. Inv /\ [Next]_vars => Inv'
  BY StepInv
<1> QED BY <1>1, <1>2, PTL DEF Spec

(* No state of the pass leaves the sets of values its variables range      *)
(* over; in particular no block gets two phis for one variable.            *)
THEOREM TypeCorrect == Spec => []TypeOK
<1>1. Inv => TypeOK
  BY DEF Inv
<1> QED BY <1>1, Invariance, PTL

(* Whatever the program, a block of the dominator tree is entered with     *)
(* stacks that hold definitions of its strict dominators only: what a      *)
(* sibling pushed has been popped; and in the end nothing is left.         *)
THEOREM StacksFollowDominatorsAlways == Spec => []StacksFollowDominators
<1>1. Inv => StacksFollowDominators
  <2> SUFFICES ASSUME Inv PROVE StacksFollowDominators
    OBVIOUS
  <2>0. prog \in Programs /\ FramesInv
    BY DEF Inv
  <2>1. ASSUME pc = "rename", Top.at = 0, NEW v \in Vars, NEW l \in 1 .. Len(var_val_stack[v]),
               NEW d \in DefinedIn(var_val_stack[v][l])
        PROVE  StrictlyDominates(prog.cfg, d, bb)
    <3> DEFINE n == Len(frames)
               s == var_val_stack[v]
    <3>1. Renaming
      BY <2>0, <2>1 DEF Renaming, FramesInv
    <3>2. /\ frames \in Seq(Frames) /\ n \in Nat \ {0} /\ frames[n] = Top /\ Top \in Frames
          /\ Top.bb = bb /\ bb \in Blocks
      BY <3>1, TopFacts DEF bb
    <3>3. PICK h : Heights(h, v)
      BY DEF Inv, StackInv
    <3>4. /\ h \in [0 .. n -> Nat] /\ h[0] = 0 /\ h[n] = Len(s)
          /\ \A k \in 1 .. n :
               /\ h[k] = h[k - 1] + PushedBy(frames[k], v)
               /\ \A x \in 1 .. h[k] : \A y \in DefinedIn(s[x]) :
                    Dominates(prog.cfg, y, frames[k].bb)
      BY <3>3 DEF Heights
    <3>5. PushedBy(Top, v) = 0
      <4>1. StoresIn(Top.bb, Top.at, v) = {}
        BY <2>1, <3>2 DEF StoresIn
      <4>2. Cardinality(StoresIn(Top.bb, Top.at, v)) = 0
        BY <4>1, FS_EmptySet
      <4>3. ~ (Top.at > 0)
        BY <2>1
      <4> QED BY <4>2, <4>3 DEF PushedBy
    <3>6. s[l] \in Values
      BY <2>1 DEF Inv, TypeOK
    <3>7. d \in Blocks
      BY <2>1, <3>6, DefinedInBlocks
    <3>8. n > 1 => /\ frames[n - 1] \in Frames
                   /\ IsIdom(prog.cfg, frames[n - 1].bb, frames[n].bb)
      BY <2>0, <3>2 DEF FramesInv
    <3> HIDE DEF n
    <3>9. n \in 1 .. n /\ n - 1 \in 0 .. n
      BY <3>2
    <3>10. h[n - 1] = Len(s) /\ h[n - 1] \in Nat
      BY <3>2, <3>4, <3>5, <3>9
    <3>11. n > 1
      BY <2>1, <3>2, <3>4, <3>10
    <3>12. n - 1 \in 1 .. n /\ l \in 1 .. h[n - 1]
      BY <2>1, <3>2, <3>10, <3>11
    <3> DEFINE p == frames[n - 1].bb
    <3>13. Dominates(prog.cfg, d, p) /\ p \in Blocks
      BY <2>1, <3>4, <3>8, <3>11, <3>12 DEF Frames
    <3>14. StrictlyDominates(prog.cfg, p, bb)
      BY <3>2, <3>8, <3>11 DEF IsIdom
    <3> HIDE DEF p
    <3>15. Dominates(prog.cfg, d, bb)
      BY <3>2, <3>7, <3>13, <3>14, DomTrans DEF StrictlyDominates
    <3>16. d # bb
      <4> SUFFICES ASSUME d = bb PROVE FALSE
        OBVIOUS
      <4>1. Reachable(prog.cfg, bb)
        BY <2>0, <3>2, ProgramFacts
      <4> QED BY <3>2, <3>13, <3>14, <4>1, DomAntisym DEF StrictlyDominates
    <3> QED BY <3>15, <3>16 DEF StrictlyDominates
  <2>2. ASSUME pc = "done", NEW v \in Vars PROVE var_val_stack[v] = << >>
    <3>1. frames = << >>
      BY <2>0, <2>2 DEF FramesInv
    <3>2. PICK h : Heights(h, v)
      BY DEF Inv, StackInv
    <3>3. Len(var_val_stack[v]) = 0
      BY <3>1, <3>2 DEF Heights
    <3> QED BY <3>3 DEF Inv, TypeOK
  <2> QED BY <2>1, <2>2 DEF StacksFollowDominators
<1> QED BY <1>1, Invariance, PTL
-----------------------------------------------------------------------------
(***************************************************************************)
(* What reaches a load.                                                    *)
(***************************************************************************)
Defines(b, v) == b \in StoredIn(v) \/ HasPhi(b, v)

(* d has the last definition of v on every path to b.                      *)
AtEntry(d, b, v) ==
  /\ Defines(d, v) /\ StrictlyDominates(prog.cfg, d, b)
  /\ \A c \in Blocks : Defines(c, v) /\ StrictlyDominates(prog.cfg, c, b) =>
       Dominates(prog.cfg, c, d)

(* x is the definition of v that reaches position i of b.                  *)
Reaches(x, b, i, v) ==
  \/ LastIn(x, b, i, v)
  \/ /\ StoresIn(b, i, v) = {} /\ ~ (i > 0 /\ HasPhi(b, v))
     /\ \E d \in Blocks : AtEntry(d, b, v) /\ LastIn(x, d, EndOf(d), v)

(* The phis of v are closed: where the dominance of a definition ends      *)
(* there is one, or the block is still on the work list.                   *)
Covered(b, v) == \A c \in Frontier[prog.cfg][b] : HasPhi(c, v)

PhiInv ==
  /\ pc # "phi" => todo = {} /\ work_list = << >>
  /\ var \notin todo
  /\ \A v \in todo : \A b \in Blocks : ~ HasPhi(b, v)
  /\ \A v \in Vars \ todo : \A b \in Blocks :
       Defines(b, v) => Covered(b, v) \/ (v = var /\ b \in Members(work_list))

(* A load that was passed has been replaced by what reaches it.            *)
UsesReach ==
  \A b \in Blocks : \A i \in 1 .. Len(prog.body[b]) :
    Passed(b, i) /\ prog.op[prog.body[b][i]] = "load" =>
      \A x : Reaches(x, b, i, prog.var[prog.body[b][i]]) => uses[prog.body[b][i]] = x

(* The operands of a phi are what reaches the ends of the predecessors     *)
(* that were passed, and none of them is missing.                          *)
IsOperand(c, v, e) == \E l \in 1 .. Len(pairs[<<c, v>>]) : pairs[<<c, v>>][l] = e

PairsReach ==
  \A c \in Blocks : \A v \in Vars : \A e : IsOperand(c, v, e) =>
    Passed(e[2], EndOf(e[2])) /\ Reaches(e[1], e[2], EndOf(e[2]), v)

PairsThere ==
  \A c, p \in Blocks : \A v \in Vars : \A x :
    /\ Edge(prog.cfg, p, c) /\ HasPhi(c, v)
    /\ Passed(p, EndOf(p)) /\ Reaches(x, p, EndOf(p), v)
    => IsOperand(c, v, <<x, p>>)

PairsInv == PairsReach /\ PairsThere

FlowInv == Inv /\ PhiInv /\ UsesReach /\ PairsInv

LEMMA DefinesEnd ==
  ASSUME prog \in Programs, NEW b \in Blocks, NEW v
  PROVE  Defines(b, v) <=> StoresIn(b, EndOf(b), v) # {} \/ HasPhi(b, v)
<1>1. b \in StoredIn(v) <=> \E k \in 1 .. Len(prog.body[b]) :
         prog.op[prog.body[b][k]] = "store" /\ prog.var[prog.body[b][k]] = v
  BY DEF StoredIn, Members
<1>2. \A k \in 1 .. Len(prog.body[b]) : k < EndOf(b)
  BY PlaceFacts
<1> QED BY <1>1, <1>2 DEF Defines, StoresIn

(* Past the end of a block nothing more happens in it.                     *)
LEMMA LastEnd ==
  ASSUME prog \in Programs, NEW b \in Blocks, NEW i \in Nat, i >= EndOf(b), NEW v
  PROVE  /\ StoresIn(b, i, v) = StoresIn(b, EndOf(b), v)
         /\ \A x : LastIn(x, b, i, v) <=> LastIn(x, b, EndOf(b), v)
         /\ i > 0 /\ EndOf(b) > 0
<1> DEFINE n == Len(prog.body[b])
<1>1. n \in Nat /\ EndOf(b) = n + 1
  BY PlaceFacts
<1>2. (\A k \in 1 .. n : k < i /\ k < EndOf(b)) /\ i > 0 /\ EndOf(b) > 0
  <2> HIDE DEF n
  <2> QED BY <1>1
<1>3. StoresIn(b, i, v) = StoresIn(b, EndOf(b), v)
  BY <1>2 DEF StoresIn
<1> QED BY <1>2, <1>3 DEF LastIn, LastOf

LEMMA PushedNone ==
  ASSUME prog \in Programs, NEW f \in Frames, NEW v
  PROVE  PushedBy(f, v) = 0 <=> StoresIn(f.bb, f.at, v) = {} /\ ~ (f.at > 0 /\ HasPhi(f.bb, v))
<1>1. f.bb \in Blocks
  BY DEF Frames
<1>2. /\ IsFiniteSet(StoresIn(f.bb, f.at, v)) /\ Cardinality(StoresIn(f.bb, f.at, v)) \in Nat
      /\ Cardinality(StoresIn(f.bb, f.at, v)) = 0 <=> StoresIn(f.bb, f.at, v) = {}
  BY <1>1, StoresFinite, FS_EmptySet
<1> QED BY <1>2 DEF PushedBy

LEMMA LastUnique ==
  ASSUME NEW b, NEW i, NEW v, NEW x, NEW y, LastIn(x, b, i, v), LastIn(y, b, i, v)
  PROVE  x = y
<1>1. CASE StoresIn(b, i, v) = {}
  BY <1>1 DEF LastIn, LastOf
<1>2. CASE StoresIn(b, i, v) # {}
  <2>1. PICK k \in StoresIn(b, i, v) :
          (\A l \in StoresIn(b, i, v) : l <= k) /\ x = rval[prog.body[b][k]]
    BY <1>2 DEF LastIn, LastOf
  <2>2. PICK m \in StoresIn(b, i, v) :
          (\A l \in StoresIn(b, i, v) : l <= m) /\ y = rval[prog.body[b][m]]
    BY <1>2 DEF LastIn, LastOf
  <2>3. k \in Int /\ m \in Int /\ k <= m /\ m <= k
    <3>1. \A l \in StoresIn(b, i, v) : l \in Int
      BY DEF StoresIn
    <3> QED BY <2>1, <2>2, <3>1
  <2>4. k = m
    BY <2>3
  <2> QED BY <2>1, <2>2, <2>4
<1> QED BY <1>1, <1>2

LEMMA LastSome ==
  ASSUME NEW b, NEW i, NEW v, NEW x, LastIn(x, b, i, v)
  PROVE  StoresIn(b, i, v) # {} \/ (i > 0 /\ HasPhi(b, v))
BY DEF LastIn, LastOf

LEMMA ReachesUnique ==
  ASSUME prog \in Programs, NEW b \in Blocks, NEW i, NEW v,
         NEW x, NEW y, Reaches(x, b, i, v), Reaches(y, b, i, v)
  PROVE  x = y
<1>1. CASE StoresIn(b, i, v) # {} \/ (i > 0 /\ HasPhi(b, v))
  <2>1. LastIn(x, b, i, v) /\ LastIn(y, b, i, v)
    BY <1>1 DEF Reaches
  <2> QED BY <2>1, LastUnique
<1>2. CASE ~ (StoresIn(b, i, v) # {} \/ (i > 0 /\ HasPhi(b, v)))
  <2>1. PICK d \in Blocks : AtEntry(d, b, v) /\ LastIn(x, d, EndOf(d), v)
    BY <1>2, LastSome DEF Reaches
  <2>2. PICK e \in Blocks : AtEntry(e, b, v) /\ LastIn(y, e, EndOf(e), v)
    BY <1>2, LastSome DEF Reaches
  <2>3. d = e
    <3>1. Dominates(prog.cfg, d, e) /\ Dominates(prog.cfg, e, d) /\ Reachable(prog.cfg, e)
      BY <2>1, <2>2, ProgramFacts DEF AtEntry
    <3> QED BY <3>1, DomAntisym
  <2> QED BY <2>1, <2>2, <2>3, LastUnique
<1> QED BY <1>1, <1>2

(* What a block defines last is a value, made of what dominates the block. *)
LEMMA LastFacts ==
  ASSUME Inv, NEW b \in Blocks, NEW i, NEW v \in Vars, NEW x, LastIn(x, b, i, v)
  PROVE  x \in Values /\ \A d \in DefinedIn(x) : d \in Blocks /\ Dominates(prog.cfg, d, b)
<1>1. prog \in Programs /\ rval \in [Instrs -> Values]
  BY DEF Inv, TypeOK
<1>2. CASE StoresIn(b, i, v) = {}
  <2>1. x = Phi(b, v)
    BY <1>2 DEF LastIn, LastOf
  <2>2. x \in Values /\ DefinedIn(x) = {b}
    BY <2>1 DEF Values, DefinedIn, Phi
  <2> QED BY <2>2, DomRefl
<1>3. CASE StoresIn(b, i, v) # {}
  <2>1. PICK k \in StoresIn(b, i, v) : x = rval[prog.body[b][k]]
    BY <1>3 DEF LastIn, LastOf
  <2>2. prog.body[b][k] \in Instrs /\ prog.body[b][k] \in Members(prog.body[b])
    BY <1>1, PlaceFacts DEF StoresIn
  <2>3. x \in Values /\ \A d \in DefinedIn(x) : Dominates(prog.cfg, d, b)
    BY <1>1, <2>1, <2>2 DEF Inv, OperandsInv
  <2> QED BY <2>3, DefinedInBlocks
<1> QED BY <1>2, <1>3

(* Where rename stands, the top of the stack is what reaches the position. *)
LEMMA BackReaches ==
  ASSUME Inv, Renaming, NEW v \in Vars
  PROVE  IF var_val_stack[v] = << >> THEN \A x : ~ Reaches(x, bb, Top.at, v)
                                     ELSE Reaches(Back(v), bb, Top.at, v)
<1> DEFINE n == Len(frames)
           B(k) == frames[k].bb
<1>1. /\ prog \in Programs /\ n \in Nat \ {0} /\ n \in 1 .. n /\ frames[n] = Top
      /\ B(n) = bb /\ bb \in Blocks /\ Top.bb = bb
      /\ \A k \in 1 .. n : frames[k] \in Frames /\ B(k) \in Blocks
  BY TopFacts, PathFacts DEF bb
<1>2. ASSUME NEW k \in 1 .. n, k # n
      PROVE  /\ StrictlyDominates(prog.cfg, B(k), bb)
             /\ PushedBy(frames[k], v) = 0 <=> ~ Defines(B(k), v)
             /\ \A x : LastIn(x, B(k), frames[k].at, v) <=> LastIn(x, B(k), EndOf(B(k)), v)
  <2>1. k < n
    BY <1>1, <1>2
  <2>2. frames[k].at > EndOf(B(k)) /\ frames[k].at \in Nat
    BY <1>1, <2>1, PathFacts DEF Frames
  <2>3. EndOf(B(k)) \in Nat
    BY <1>1, PlaceFacts
  <2>4. frames[k].at >= EndOf(B(k))
    BY <2>2, <2>3
  <2>5. /\ StoresIn(B(k), frames[k].at, v) = StoresIn(B(k), EndOf(B(k)), v)
        /\ \A x : LastIn(x, B(k), frames[k].at, v) <=> LastIn(x, B(k), EndOf(B(k)), v)
        /\ frames[k].at > 0
    BY <1>1, <2>2, <2>4, LastEnd
  <2>6. PushedBy(frames[k], v) = 0 <=> ~ Defines(B(k), v)
    <3>1. PushedBy(frames[k], v) = 0 <=>
            StoresIn(B(k), frames[k].at, v) = {} /\ ~ (frames[k].at > 0 /\ HasPhi(B(k), v))
      BY <1>1, PushedNone
    <3>2. Defines(B(k), v) <=> StoresIn(B(k), EndOf(B(k)), v) # {} \/ HasPhi(B(k), v)
      BY <1>1, DefinesEnd
    <3> HIDE DEF B
    <3> QED BY <2>5, <3>1, <3>2
  <2>7. StrictlyDominates(prog.cfg, B(k), bb)
    BY <1>1, <2>1, PathDown
  <2> QED BY <2>5, <2>6, <2>7
<1>3. ASSUME NEW c \in Blocks, StrictlyDominates(prog.cfg, c, bb)
      PROVE  \E k \in 1 .. n : k # n /\ c = B(k)
  <2>1. PICK k \in 1 .. n : c = B(k)
    BY <1>1, <1>3, PathUp DEF StrictlyDominates
  <2> QED BY <1>1, <1>3, <2>1 DEF StrictlyDominates
<1>4. PushedBy(Top, v) = 0 <=> StoresIn(bb, Top.at, v) = {} /\ ~ (Top.at > 0 /\ HasPhi(bb, v))
  BY <1>1, PushedNone
<1>5. CASE var_val_stack[v] = << >>
  <2>1. \A k \in 1 .. n : PushedBy(frames[k], v) = 0
    BY <1>5, BackFrom
  <2>2. ASSUME NEW x, LastIn(x, bb, Top.at, v) PROVE FALSE
    BY <1>1, <1>4, <2>1, <2>2, LastSome
  <2>3. ASSUME NEW d \in Blocks, AtEntry(d, bb, v) PROVE FALSE
    BY <1>2, <1>3, <2>1, <2>3 DEF AtEntry
  <2> QED BY <1>5, <2>2, <2>3 DEF Reaches
<1>6. CASE var_val_stack[v] # << >>
  <2>1. PICK k \in 1 .. n : /\ PushedBy(frames[k], v) > 0
                           /\ LastIn(Back(v), B(k), frames[k].at, v)
                           /\ \A j \in k + 1 .. n : PushedBy(frames[j], v) = 0
    BY <1>6, BackFrom
  <2>2. CASE k = n
    BY <1>1, <1>6, <2>1, <2>2 DEF Reaches
  <2>3. CASE k # n
    <3>1. n \in k + 1 .. n /\ PushedBy(frames[k], v) # 0
      <4> HIDE DEF n
      <4> QED BY <1>1, <2>1, <2>3
    <3>2. StoresIn(bb, Top.at, v) = {} /\ ~ (Top.at > 0 /\ HasPhi(bb, v))
      BY <1>1, <1>4, <2>1, <3>1
    <3>3. /\ Defines(B(k), v) /\ StrictlyDominates(prog.cfg, B(k), bb)
          /\ LastIn(Back(v), B(k), EndOf(B(k)), v)
      BY <1>2, <2>1, <2>3, <3>1
    <3>4. ASSUME NEW c \in Blocks, Defines(c, v), StrictlyDominates(prog.cfg, c, bb)
          PROVE  Dominates(prog.cfg, c, B(k))
      <4>1. PICK j \in 1 .. n : j # n /\ c = B(j)
        BY <1>3, <3>4
      <4>2. PushedBy(frames[j], v) # 0
        BY <1>2, <3>4, <4>1
      <4>3. j \notin k + 1 .. n
        BY <2>1, <4>2
      <4>4. j < k \/ j = k
        <5> HIDE DEF n
        <5> QED BY <1>1, <4>3
      <4>5. CASE j < k
        BY <4>1, <4>5, PathDown DEF StrictlyDominates
      <4>6. CASE j = k
        BY <4>1, <4>6, DomRefl
      <4> QED BY <4>4, <4>5, <4>6
    <3>5. AtEntry(B(k), bb, v) /\ B(k) \in Blocks
      BY <1>1, <3>3, <3>4 DEF AtEntry
    <3> QED BY <1>6, <3>2, <3>3, <3>5 DEF Reaches
  <2> QED BY <2>2, <2>3
<1> QED BY <1>5, <1>6

(* A position that was passed, or where rename stands: all that is in      *)
(* front of it on some path through dominators has been passed.            *)
Reached(b, i) == Passed(b, i) \/ (Renaming /\ b = bb /\ i = Top.at)

LEMMA Behind ==
  ASSUME Inv, NEW b \in Blocks, NEW i \in 0 .. EndOf(b), Reached(b, i), NEW v
  PROVE  /\ \A l \in StoresIn(b, i, v) : Passed(b, l)
         /\ \A d \in Blocks : StrictlyDominates(prog.cfg, d, b) =>
              d # b /\ \A l \in 0 .. EndOf(d) : Passed(d, l)
         /\ pc # "phi"
<1>1. /\ prog \in Programs /\ i \in Nat
      /\ \A l \in StoresIn(b, i, v) : l \in 0 .. EndOf(b) /\ l \in Nat /\ l < i /\ l <= i
  BY PlaceFacts DEF StoresIn, Inv
<1>2. CASE Passed(b, i)
  <2>1. \A l \in StoresIn(b, i, v) : Passed(b, l)
    BY <1>1, <1>2, PassedDom, DomRefl
  <2>2. ASSUME NEW d \in Blocks, StrictlyDominates(prog.cfg, d, b), NEW l \in 0 .. EndOf(d)
        PROVE  Passed(d, l)
    BY <1>1, <1>2, <2>2, PassedDom DEF StrictlyDominates
  <2> QED BY <1>2, <2>1, <2>2 DEF StrictlyDominates, Passed, Waiting
<1>3. CASE Renaming /\ b = bb /\ i = Top.at
  <2> DEFINE n == Len(frames)
  <2>1. n \in 1 .. n /\ n \in Nat /\ frames[n] = Top /\ frames[n].bb = b /\ frames[n].at = i
    BY <1>3, TopFacts DEF bb
  <2>2. \A l \in StoresIn(b, i, v) : Passed(b, l)
    BY <1>1, <1>3, <2>1, FramePassed
  <2>3. ASSUME NEW d \in Blocks, StrictlyDominates(prog.cfg, d, b), NEW l \in 0 .. EndOf(d)
        PROVE  Passed(d, l)
    <3>1. PICK k \in 1 .. n : d = frames[k].bb
      BY <2>1, <2>3, PathUp DEF StrictlyDominates
    <3>2. k # n
      BY <2>1, <2>3, <3>1 DEF StrictlyDominates
    <3>3. k < n /\ k \in 1 .. Len(frames)
      <4> HIDE DEF n
      <4> QED BY <2>1, <3>2 DEF n
    <3>4. frames[k].at > EndOf(d) /\ frames[k].at \in Nat /\ EndOf(d) \in Nat
      BY <1>1, <3>1, <3>3, PathFacts, PlaceFacts DEF Frames
    <3>5. l \in Nat /\ l < frames[k].at
      BY <3>4
    <3> QED BY <1>3, <3>1, <3>3, <3>5, FramePassed
  <2> QED BY <1>3, <2>2, <2>3 DEF StrictlyDominates, Renaming
<1> QED BY <1>2, <1>3 DEF Reached

(* What reaches such a position stays what it is.                          *)
LEMMA ReachesKept ==
  ASSUME Inv, [Next]_vars, NEW b \in Blocks, NEW i \in 0 .. EndOf(b), Reached(b, i),
         NEW v, NEW x
  PROVE  (Reaches(x, b, i, v))' <=> Reaches(x, b, i, v)
<1>1. /\ prog \in Programs /\ pc # "phi"
      /\ \A l \in StoresIn(b, i, v) : Passed(b, l)
      /\ \A d \in Blocks : StrictlyDominates(prog.cfg, d, b) => \A l \in 0 .. EndOf(d) : Passed(d, l)
  BY Behind DEF Inv
<1>2. prog' = prog /\ phis' = phis
  BY <1>1 DEF Next, vars, phiVars, NextVar, PlacePhis, StartRename, PushPhis, RenameLoad,
         RenameStore, FillPhis, Recurse, Return
<1>3. /\ (StoresIn(b, i, v))' = StoresIn(b, i, v)
      /\ (HasPhi(b, v))' <=> HasPhi(b, v)
      /\ \A d : (AtEntry(d, b, v))' <=> AtEntry(d, b, v)
  BY <1>2 DEF StoresIn, HasPhi, AtEntry, Defines, StoredIn
<1>4. \A y, d, k : (LastIn(y, d, k, v))' <=> LastOf(rval', y, d, k, v)
  BY <1>2 DEF LastIn, LastOf, StoresIn, HasPhi
<1>5. (LastIn(x, b, i, v))' <=> LastIn(x, b, i, v)
  BY <1>1, <1>4, LastKept
<1>6. ASSUME NEW d \in Blocks, StrictlyDominates(prog.cfg, d, b)
      PROVE  (LastIn(x, d, EndOf(d), v))' <=> LastIn(x, d, EndOf(d), v)
  <2>1. \A l \in StoresIn(d, EndOf(d), v) : Passed(d, l)
    BY <1>1, <1>6, PlaceFacts DEF StoresIn
  <2>2. LastIn(x, d, EndOf(d), v) <=> LastOf(rval', x, d, EndOf(d), v)
    BY <2>1, LastKept
  <2>3. (LastIn(x, d, EndOf(d), v))' <=> LastOf(rval', x, d, EndOf(d), v)
    BY <1>2 DEF LastIn, LastOf, StoresIn, HasPhi, EndOf
  <2> QED BY <2>2, <2>3
<1>7. \A d : AtEntry(d, b, v) => StrictlyDominates(prog.cfg, d, b)
  BY DEF AtEntry
<1> QED BY <1>3, <1>5, <1>6, <1>7 DEF Reaches

(* A load that reaches such a position has been seen.                      *)
LEMMA ReachesSeen ==
  ASSUME Inv, NEW b \in Blocks, NEW i \in 0 .. EndOf(b), Reached(b, i), NEW v,
         NEW m \in Instrs, Reaches(Load(m), b, i, v)
  PROVE  Seen(m)
<1>1. CASE LastIn(Load(m), b, i, v)
  BY <1>1, Behind, LastSeen
<1>2. CASE \E d \in Blocks : AtEntry(d, b, v) /\ LastIn(Load(m), d, EndOf(d), v)
  <2>1. PICK d \in Blocks : AtEntry(d, b, v) /\ LastIn(Load(m), d, EndOf(d), v)
    BY <1>2
  <2>2. \A l \in 0 .. EndOf(d) : Passed(d, l)
    BY <2>1, Behind DEF AtEntry
  <2>3. \A l \in StoresIn(d, EndOf(d), v) : Passed(d, l)
    BY <2>2, PlaceFacts DEF StoresIn, Inv
  <2> QED BY <2>1, <2>3, LastSeen
<1> QED BY <1>1, <1>2 DEF Reaches

LEMMA InitFlow == Init => FlowInv
<1> SUFFICES ASSUME Init PROVE FlowInv
  OBVIOUS
<1>1. Inv
  BY InitInv
<1>2. \A b, i : ~ Passed(b, i)
  BY DEF Init, Passed, Waiting
<1>3. \A b \in Blocks : \A v : ~ HasPhi(b, v)
  BY DEF Init, HasPhi, Members
<1>4. PhiInv
  <2>1. 0 \notin Vars
    BY DEF Vars
  <2>2. ASSUME NEW v \in Vars \ todo, NEW b \in Blocks PROVE ~ Defines(b, v)
    BY <1>3, <2>2 DEF Init, Defines
  <2>3. pc = "phi" /\ var \notin todo
    BY <2>1 DEF Init
  <2> QED BY <1>3, <2>2, <2>3 DEF PhiInv
<1>5. UsesReach
  BY <1>2 DEF UsesReach
<1>6. PairsInv
  <2>1. \A c \in Blocks, v \in Vars : pairs[<<c, v>>] = << >>
    BY DEF Init
  <2>2. \A c \in Blocks, v \in Vars : \A l \in 1 .. Len(pairs[<<c, v>>]) : FALSE
    BY <2>1
  <2> QED BY <1>2, <2>2 DEF PairsInv, PairsReach, PairsThere, IsOperand
<1> QED BY <1>1, <1>4, <1>5, <1>6 DEF FlowInv

LEMMA StepPhi == FlowInv /\ [Next]_vars => PhiInv'
<1> SUFFICES ASSUME FlowInv, [Next]_vars PROVE PhiInv'
  OBVIOUS
<1>0. /\ prog \in Programs /\ PhiInv /\ prog' = prog
      /\ phis \in [Blocks -> Seq(Vars)] /\ work_list \in Seq(Blocks)
      /\ todo \in SUBSET Vars
  BY DEF FlowInv, Inv, TypeOK, Next, vars, NextVar, PlacePhis, StartRename, PushPhis, RenameLoad,
         RenameStore, FillPhis, Recurse, Return
<1>1. \A b, v : (b \in StoredIn(v))' <=> b \in StoredIn(v)
  BY <1>0 DEF StoredIn
<1>2. CASE NextVar
  <2>1. PICK v \in todo : /\ var' = v /\ todo' = todo \ {v}
                         /\ \E s \in SetToSeqs(StoredIn(v)) : work_list' = s
    BY <1>2 DEF NextVar
  <2>2. pc' = "phi" /\ phis' = phis /\ work_list = << >>
    BY <1>2 DEF NextVar
  <2>3. Members(work_list') = StoredIn(v)
    <3>1. StoredIn(v) \in SUBSET Blocks
      BY DEF StoredIn
    <3> QED BY <2>1, <3>1, ListFacts
  <2>4. \A b, w : /\ (HasPhi(b, w))' <=> HasPhi(b, w)
                  /\ (Defines(b, w))' <=> Defines(b, w)
                  /\ (Covered(b, w))' <=> Covered(b, w)
    BY <1>0, <1>1, <2>2 DEF HasPhi, Defines, Covered
  <2>5. Members(work_list) = {}
    BY <2>2 DEF Members
  <2>6. ASSUME NEW w \in Vars \ todo', NEW b \in Blocks, Defines(b, w)
        PROVE  Covered(b, w) \/ (w = var' /\ b \in Members(work_list'))
    <3>1. CASE w = v
      BY <1>0, <2>1, <2>3, <2>6, <3>1 DEF PhiInv, Defines
    <3>2. CASE w # v
      BY <1>0, <2>1, <2>5, <2>6, <3>2 DEF PhiInv
    <3> QED BY <3>1, <3>2
  <2>7. \A w \in todo' : \A b \in Blocks : ~ HasPhi(b, w)
    BY <1>0, <2>1 DEF PhiInv
  <2> QED BY <2>1, <2>2, <2>4, <2>6, <2>7 DEF PhiInv
<1>3. CASE PlacePhis
  <2> DEFINE h == Head(work_list)
             new == {c \in Frontier[prog.cfg][h] : ~ HasPhi(c, var)}
  <2>1. /\ pc = "phi" /\ pc' = "phi" /\ work_list # << >> /\ todo' = todo /\ var' = var
        /\ phis' = [c \in Blocks |-> IF c \in new THEN <<var>> \o phis[c] ELSE phis[c]]
        /\ \E s \in SetToSeqs(new) : work_list' = Tail(work_list) \o s
        /\ var \in Vars /\ var \notin todo
    BY <1>0, <1>3 DEF PlacePhis, FlowInv, Inv, TypeOK, PhiInv
  <2>2. h \in Blocks /\ Tail(work_list) \in Seq(Blocks)
    BY <1>0, <2>1
  <2>3. Frontier[prog.cfg][h] \in SUBSET Blocks /\ new \in SUBSET Blocks
    BY <1>0, <2>2, ProgramFacts DEF Frontier
  <2> HIDE DEF new, h
  <2>4. PICK s \in SetToSeqs(new) : work_list' = Tail(work_list) \o s
    BY <2>1
  <2>5. s \in Seq(Blocks) /\ Members(s) = new
    BY <2>3, <2>4, ListFacts
  <2>6. \A b \in Members(work_list) : b = h \/ b \in Members(Tail(work_list))
    <3> SUFFICES ASSUME NEW k \in 1 .. Len(work_list), k # 1
                 PROVE  work_list[k] \in Members(Tail(work_list))
      BY <1>0, <2>1 DEF Members, h
    <3>1. k - 1 \in 1 .. Len(Tail(work_list)) /\ Tail(work_list)[k - 1] = work_list[k]
      BY <1>0, <2>1
    <3> QED BY <3>1 DEF Members
  <2>7. \A b \in Members(Tail(work_list)) \cup new : b \in Members(work_list')
    <3> DEFINE t == Tail(work_list)
    <3>1. t \in Seq(Blocks) /\ work_list' = t \o s
      BY <2>2, <2>4
    <3> HIDE DEF t
    <3>2. Members(t \o s) = Members(t) \cup Members(s)
      BY <2>5, <3>1, MembersConcat
    <3> QED BY <2>5, <3>1, <3>2 DEF t
  <2>8. ASSUME NEW b \in Blocks, NEW w
        PROVE  (HasPhi(b, w))' <=> HasPhi(b, w) \/ (w = var /\ b \in new)
    <3>1. CASE b \notin new
      BY <2>1, <3>1 DEF HasPhi
    <3>2. CASE b \in new
      <4>1. phis'[b] = <<var>> \o phis[b] /\ phis[b] \in Seq(Vars) /\ <<var>> \in Seq(Vars)
        BY <1>0, <2>1, <3>2
      <4>2. Members(phis'[b]) = Members(<<var>>) \cup Members(phis[b])
        <5> DEFINE u == <<var>>
                   t == phis[b]
        <5>1. u \in Seq(Vars) /\ t \in Seq(Vars) /\ phis'[b] = u \o t
          BY <4>1
        <5> HIDE DEF u, t
        <5>2. Members(u \o t) = Members(u) \cup Members(t)
          BY <5>1, MembersConcat
        <5> QED BY <5>1, <5>2 DEF u, t
      <4>3. Members(<<var>>) = {var}
        BY DEF Members
      <4> QED BY <3>2, <4>2, <4>3 DEF HasPhi
    <3> QED BY <3>1, <3>2
  <2>9. \A b \in Blocks : \A w : (Defines(b, w))' <=> Defines(b, w) \/ (w = var /\ b \in new)
    BY <1>1, <2>8 DEF Defines
  <2>10. \A b \in Blocks : Frontier[prog.cfg][b] \in SUBSET Blocks
    BY <1>0, ProgramFacts DEF Frontier
  <2>11. \A b \in Blocks : \A w : Covered(b, w) => (Covered(b, w))'
    BY <1>0, <2>8, <2>10 DEF Covered
  <2>12. ASSUME NEW b \in Blocks, b = h, NEW w, w = var PROVE (Covered(b, w))'
    <3>1. \A c \in Frontier[prog.cfg][b] : HasPhi(c, w) \/ c \in new
      BY <2>12 DEF new
    <3>2. \A c \in Frontier[prog.cfg][b] : (HasPhi(c, w))'
      BY <2>8, <2>10, <2>12, <3>1
    <3> QED BY <1>0, <3>2 DEF Covered
  <2>13. ASSUME NEW w \in Vars \ todo, NEW b \in Blocks, (Defines(b, w))'
         PROVE  (Covered(b, w))' \/ (w = var /\ b \in Members(work_list'))
    <3>1. CASE w = var /\ b \in new
      BY <2>7, <3>1
    <3>2. CASE Defines(b, w)
      <4>1. Covered(b, w) \/ (w = var /\ b \in Members(work_list))
        BY <1>0, <2>13, <3>2 DEF PhiInv
      <4> QED BY <2>6, <2>7, <2>11, <2>12, <4>1
    <3> QED BY <2>9, <2>13, <3>1, <3>2
  <2>14. \A w \in todo : \A b \in Blocks : ~ (HasPhi(b, w))'
    BY <1>0, <2>1, <2>8 DEF PhiInv
  <2> QED BY <2>1, <2>13, <2>14 DEF PhiInv
<1>4. CASE StartRename \/ UNCHANGED <<phiVars, pc>> \/ (UNCHANGED phiVars /\ pc # "phi")
  <2>1. UNCHANGED <<todo, var, work_list, phis>>
    BY <1>4 DEF StartRename, phiVars
  <2>2. \A b, w : /\ (HasPhi(b, w))' <=> HasPhi(b, w)
                  /\ (Defines(b, w))' <=> Defines(b, w)
                  /\ (Covered(b, w))' <=> Covered(b, w)
    BY <1>0, <1>1, <2>1 DEF HasPhi, Defines, Covered
  <2>3. pc' # "phi" => todo = {} /\ work_list = << >>
    BY <1>0, <1>4 DEF StartRename, PhiInv
  <2> QED BY <1>0, <2>1, <2>2, <2>3 DEF PhiInv
<1> QED BY <1>2, <1>3, <1>4 DEF Next, vars, PushPhis, RenameLoad, RenameStore,
         FillPhis, Recurse, Return, Renaming

LEMMA StepUses == FlowInv /\ [Next]_vars => UsesReach'
<1> SUFFICES ASSUME FlowInv, [Next]_vars PROVE UsesReach'
  OBVIOUS
<1>0. /\ prog \in Programs /\ Inv /\ UsesReach /\ prog' = prog
  BY DEF FlowInv, Inv, Next, vars, NextVar, PlacePhis, StartRename, PushPhis, RenameLoad,
         RenameStore, FillPhis, Recurse, Return
<1>1. ASSUME NEW b \in Blocks, NEW i \in 1 .. Len(prog.body[b]), (Passed(b, i))',
             prog.op[prog.body[b][i]] = "load", NEW v, v = prog.var[prog.body[b][i]],
             NEW x, (Reaches(x, b, i, v))'
      PROVE  uses'[prog.body[b][i]] = x
  <2>1. i \in 0 .. EndOf(b) /\ v \in Vars /\ prog.body[b][i] \in Instrs
    BY <1>0, <1>1, PlaceFacts
  <2>2. CASE Passed(b, i)
    <3>1. Reaches(x, b, i, v)
      BY <1>0, <1>1, <2>1, <2>2, ReachesKept DEF Reached
    <3>2. uses[prog.body[b][i]] = x
      BY <1>0, <1>1, <2>2, <3>1 DEF UsesReach
    <3> QED BY <1>0, <2>2, <3>2, ValuesKept
  <2>3. CASE Passing /\ b = bb /\ i = Top.at
    <3>1. Renaming /\ Body = prog.body[b] /\ Instr = prog.body[b][i]
      <4>1. Renaming
        BY <2>3 DEF Passing, PushPhis, RenameLoad, RenameStore, FillPhis
      <4> QED BY <2>3, <4>1 DEF Body, Instr
    <3>2. RenameLoad
      <4>1. i # 0 /\ i # Len(prog.body[b]) + 1
        BY <1>0, PlaceFacts
      <4> QED BY <1>1, <2>3, <3>1, <4>1 DEF Passing, PushPhis, RenameStore, FillPhis
    <3>3. Reaches(x, b, i, v)
      BY <1>0, <1>1, <2>1, <2>3, <3>1, ReachesKept DEF Reached
    <3>4. var_val_stack[v] # << >> /\ Reaches(Back(v), b, i, v)
      BY <1>0, <2>1, <2>3, <3>1, <3>3, BackReaches
    <3>5. x = Back(v)
      BY <1>0, <3>3, <3>4, ReachesUnique
    <3>6. uses[Instr] = Load(Instr) /\ Instr \in Instrs
      BY <1>0, <2>1, <2>3, <3>1, InstrNotSeen DEF Inv, LoadsInv
    <3>7. uses' = [j \in Instrs |-> Replaced(uses[j], Instr, Back(v))]
      BY <1>1, <3>1, <3>2, <3>4 DEF RenameLoad
    <3>8. uses'[Instr] = Back(v)
      BY <3>6, <3>7 DEF Replaced
    <3> QED BY <3>1, <3>5, <3>8
  <2> QED BY <1>0, <1>1, <2>1, <2>2, <2>3, PassedStep
<1> QED BY <1>0, <1>1 DEF UsesReach

LEMMA StepPairs == FlowInv /\ [Next]_vars => PairsInv'
<1> SUFFICES ASSUME FlowInv, [Next]_vars PROVE PairsInv'
  OBVIOUS
<1>0. /\ prog \in Programs /\ Inv /\ PairsInv /\ prog' = prog
      /\ pairs \in [Blocks \X Vars -> Seq(Values \X Blocks)]
  BY DEF FlowInv, Inv, TypeOK, Next, vars, NextVar, PlacePhis, StartRename, PushPhis, RenameLoad,
         RenameStore, FillPhis, Recurse, Return
<1>1. ASSUME NEW p \in Blocks
      PROVE  EndOf(p) \in 0 .. EndOf(p) /\ EndOf(p) # 0 /\ (EndOf(p))' = EndOf(p)
             /\ EndOf(p) \notin 1 .. Len(prog.body[p])
  <2>1. Len(prog.body[p]) \in Nat /\ EndOf(p) = Len(prog.body[p]) + 1
    BY <1>0, PlaceFacts
  <2> QED BY <1>0, <2>1 DEF EndOf
<1>2. ASSUME NEW p \in Blocks, Reached(p, EndOf(p)), NEW v, NEW x
      PROVE  (Reaches(x, p, EndOf(p), v))' <=> Reaches(x, p, EndOf(p), v)
  BY <1>0, <1>1, <1>2, ReachesKept
<1>3. ASSUME NEW p \in Blocks
      PROVE  (Passed(p, EndOf(p)))' <=> Passed(p, EndOf(p)) \/ (FillPhis /\ p = bb)
  <2>1. (Passed(p, EndOf(p)))' <=> Passed(p, EndOf(p)) \/ (Passing /\ p = bb /\ EndOf(p) = Top.at)
    BY <1>0, <1>1, PassedStep
  <2>2. p = bb /\ Passing /\ EndOf(p) = Top.at => FillPhis
    BY <1>1 DEF Passing, PushPhis, RenameLoad, RenameStore, Body
  <2>3. FillPhis /\ p = bb => Passing /\ EndOf(p) = Top.at
    BY DEF Passing, FillPhis, Body, EndOf
  <2> QED BY <2>1, <2>2, <2>3
<1>4. ASSUME NEW p \in Blocks, Passed(p, EndOf(p)) \/ FillPhis, NEW b, NEW v
      PROVE  (HasPhi(b, v))' <=> HasPhi(b, v)
  <2>1. pc # "phi"
    BY <1>4 DEF Passed, Waiting, FillPhis, Renaming
  <2>2. phis' = phis
    BY <2>1 DEF Next, vars, phiVars, NextVar, PlacePhis, StartRename, PushPhis, RenameLoad,
         RenameStore, FillPhis, Recurse, Return
  <2> QED BY <2>2 DEF HasPhi
<1>5. ASSUME NEW c \in Blocks, NEW v \in Vars
      PROVE  /\ <<c, v>> \in Blocks \X Vars /\ pairs[<<c, v>>] \in Seq(Values \X Blocks)
             /\ Len(pairs[<<c, v>>]) \in Nat
             /\ \A l \in 1 .. Len(pairs[<<c, v>>]) :
                  /\ pairs[<<c, v>>][l] \in Values \X Blocks
                  /\ Passed(pairs[<<c, v>>][l][2], EndOf(pairs[<<c, v>>][l][2]))
                  /\ Reaches(pairs[<<c, v>>][l][1], pairs[<<c, v>>][l][2],
                             EndOf(pairs[<<c, v>>][l][2]), v)
  <2>1. \A l \in 1 .. Len(pairs[<<c, v>>]) : IsOperand(c, v, pairs[<<c, v>>][l])
    BY DEF IsOperand
  <2>2. \A e : IsOperand(c, v, e) => Passed(e[2], EndOf(e[2])) /\ Reaches(e[1], e[2], EndOf(e[2]), v)
    BY <1>0 DEF PairsInv, PairsReach
  <2>3. /\ <<c, v>> \in Blocks \X Vars /\ pairs[<<c, v>>] \in Seq(Values \X Blocks)
        /\ Len(pairs[<<c, v>>]) \in Nat
        /\ \A l \in 1 .. Len(pairs[<<c, v>>]) : pairs[<<c, v>>][l] \in Values \X Blocks
    BY <1>0
  <2> QED BY <2>1, <2>2, <2>3
<1>6. CASE ~ FillPhis
  <2>1. ASSUME NEW c \in Blocks, NEW v \in Vars
        PROVE  /\ Len(pairs'[<<c, v>>]) = Len(pairs[<<c, v>>])
               /\ \A l \in 1 .. Len(pairs[<<c, v>>]) : pairs'[<<c, v>>][l] = pairs[<<c, v>>][l]
    <3>1. CASE pairs' = pairs
      BY <3>1
    <3>2. CASE pairs' # pairs
      <4> DEFINE w == prog.var[Instr]
                 s == pairs[<<c, v>>]
      <4>1. RenameLoad
        BY <1>6, <3>2 DEF Next, vars, irVars, NextVar, PlacePhis, StartRename, PushPhis,
               RenameStore, Recurse, Return
      <4>2. Renaming /\ Top.at \in 1 .. Len(Body)
        BY <4>1 DEF RenameLoad
      <4>3. Instr \in Instrs /\ ~ Seen(Instr)
        BY <1>0, <4>2, InstrNotSeen
      <4>4. pairs'[<<c, v>>] = [l \in 1 .. Len(s) |-> <<Replaced(s[l][1], Instr, Back(w)), s[l][2]>>]
        BY <1>5, <3>2, <4>1 DEF RenameLoad
      <4>5. ASSUME NEW l \in 1 .. Len(s)
            PROVE  <<Replaced(s[l][1], Instr, Back(w)), s[l][2]>> = s[l]
        <5>1. s[l][1] # Load(Instr)
          <6>1. /\ s[l][2] \in Blocks /\ Reached(s[l][2], EndOf(s[l][2]))
                /\ Reaches(s[l][1], s[l][2], EndOf(s[l][2]), v)
            BY <1>5 DEF Reached
          <6> HIDE DEF s
          <6> QED BY <1>0, <1>1, <4>3, <6>1, ReachesSeen
        <5>2. s[l] \in Values \X Blocks
          BY <1>5
        <5> HIDE DEF s, w
        <5> QED BY <5>1, <5>2 DEF Replaced
      <4>6. Len(s) \in Nat
        BY <1>5
      <4> HIDE DEF s, w
      <4>7. Len(pairs'[<<c, v>>]) = Len(s) /\ \A l \in 1 .. Len(s) : pairs'[<<c, v>>][l] = s[l]
        BY <4>4, <4>5, <4>6
      <4> QED BY <4>7 DEF s
    <3> QED BY <3>1, <3>2
  <2>2. ASSUME NEW c \in Blocks, NEW v \in Vars, NEW e
        PROVE  (IsOperand(c, v, e))' <=> IsOperand(c, v, e)
    <3> DEFINE n == Len(pairs[<<c, v>>])
               m == Len(pairs'[<<c, v>>])
    <3>1. m = n /\ \A l \in 1 .. n : pairs'[<<c, v>>][l] = pairs[<<c, v>>][l]
      BY <2>1
    <3>2. /\ IsOperand(c, v, e) <=> \E l \in 1 .. n : pairs[<<c, v>>][l] = e
          /\ (IsOperand(c, v, e))' <=> \E l \in 1 .. m : pairs'[<<c, v>>][l] = e
      BY DEF IsOperand
    <3> HIDE DEF n, m
    <3> QED BY <3>1, <3>2
  <2>3. ASSUME NEW c \in Blocks, NEW v \in Vars, NEW e, (IsOperand(c, v, e))'
        PROVE  /\ (Passed(e[2], EndOf(e[2])))'
               /\ (Reaches(e[1], e[2], EndOf(e[2]), v))'
    <3>1. e[2] \in Blocks /\ Passed(e[2], EndOf(e[2])) /\ Reaches(e[1], e[2], EndOf(e[2]), v)
      BY <1>5, <2>2, <2>3 DEF IsOperand
    <3> QED BY <1>2, <1>3, <3>1 DEF Reached
  <2>4. ASSUME NEW c \in Blocks, NEW v \in Vars, NEW p \in Blocks, Edge(prog.cfg, p, c),
               (HasPhi(c, v))', (Passed(p, EndOf(p)))', NEW x, (Reaches(x, p, EndOf(p), v))'
        PROVE  (IsOperand(c, v, <<x, p>>))'
    <3>1. Passed(p, EndOf(p)) /\ Reaches(x, p, EndOf(p), v) /\ HasPhi(c, v)
      BY <1>2, <1>3, <1>4, <1>6, <2>4 DEF Reached
    <3> QED BY <1>0, <2>2, <2>4, <3>1 DEF PairsInv, PairsThere
  <2>5. PairsReach'
    BY <2>3 DEF PairsReach
  <2>6. PairsThere'
    BY <1>0, <2>4 DEF PairsThere
  <2> QED BY <2>5, <2>6 DEF PairsInv
<1>7. CASE FillPhis
  <2>1. /\ Renaming /\ bb \in Blocks /\ Top.at = EndOf(bb) /\ Reached(bb, EndOf(bb))
    BY <1>0, <1>7, TopFacts DEF FillPhis, EndOf, Body, Reached
  <2>2. ASSUME NEW c \in Blocks, NEW v \in Vars
        PROVE  IF Edge(prog.cfg, bb, c) /\ HasPhi(c, v) /\ var_val_stack[v] # << >>
                 THEN pairs'[<<c, v>>] = Append(pairs[<<c, v>>], <<Back(v), bb>>)
                 ELSE pairs'[<<c, v>>] = pairs[<<c, v>>]
    BY <1>5, <1>7 DEF FillPhis, Edge
  <2>3. ASSUME NEW c \in Blocks, NEW v \in Vars
        PROVE  /\ \A l \in 1 .. Len(pairs[<<c, v>>]) :
                    l \in 1 .. Len(pairs'[<<c, v>>]) /\ pairs'[<<c, v>>][l] = pairs[<<c, v>>][l]
               /\ \A l \in 1 .. Len(pairs'[<<c, v>>]) :
                    \/ l \in 1 .. Len(pairs[<<c, v>>]) /\ pairs'[<<c, v>>][l] = pairs[<<c, v>>][l]
                    \/ pairs'[<<c, v>>][l] = <<Back(v), bb>> /\ var_val_stack[v] # << >>
               /\ Edge(prog.cfg, bb, c) /\ HasPhi(c, v) /\ var_val_stack[v] # << >> =>
                    \E l \in 1 .. Len(pairs'[<<c, v>>]) : pairs'[<<c, v>>][l] = <<Back(v), bb>>
    <3> DEFINE s == pairs[<<c, v>>]
               t == pairs'[<<c, v>>]
               m == Len(s)
               y == <<Back(v), bb>>
    <3>1. CASE ~ (Edge(prog.cfg, bb, c) /\ HasPhi(c, v) /\ var_val_stack[v] # << >>)
      BY <2>2, <3>1
    <3>2. CASE Edge(prog.cfg, bb, c) /\ HasPhi(c, v) /\ var_val_stack[v] # << >>
      <4>1. t = Append(s, y) /\ s \in Seq(Values \X Blocks) /\ m \in Nat
        BY <1>5, <2>2, <3>2
      <4> HIDE DEF s, t, y
      <4>2. Len(t) = m + 1 /\ t[m + 1] = y /\ \A l \in 1 .. m : t[l] = s[l]
        BY <4>1
      <4> HIDE DEF m
      <4>3. /\ m + 1 \in 1 .. m + 1
            /\ \A l \in 1 .. m + 1 : l \in 1 .. m \/ l = m + 1
            /\ \A l \in 1 .. m : l \in 1 .. m + 1
        BY <4>1
      <4> QED BY <3>2, <4>2, <4>3 DEF s, t, m, y
    <3> QED BY <3>1, <3>2
  <2>4. ASSUME NEW v \in Vars, var_val_stack[v] # << >>
        PROVE  Reaches(Back(v), bb, EndOf(bb), v)
    BY <1>0, <2>1, <2>4, BackReaches
  <2>5. ASSUME NEW c \in Blocks, NEW v \in Vars, NEW e, (IsOperand(c, v, e))'
        PROVE  /\ (Passed(e[2], EndOf(e[2])))'
               /\ (Reaches(e[1], e[2], EndOf(e[2]), v))'
    <3>0. PICK l \in 1 .. Len(pairs'[<<c, v>>]) : e = pairs'[<<c, v>>][l]
      BY <2>5 DEF IsOperand
    <3>1. CASE l \in 1 .. Len(pairs[<<c, v>>]) /\ e = pairs[<<c, v>>][l]
      <4>1. e[2] \in Blocks /\ Passed(e[2], EndOf(e[2])) /\ Reaches(e[1], e[2], EndOf(e[2]), v)
        BY <1>5, <3>1
      <4> QED BY <1>2, <1>3, <4>1 DEF Reached
    <3>2. CASE e = <<Back(v), bb>> /\ var_val_stack[v] # << >>
      <4>1. e[2] = bb /\ e[2] \in Blocks /\ Reaches(e[1], e[2], EndOf(e[2]), v)
            /\ Reached(e[2], EndOf(e[2]))
        BY <2>1, <2>4, <3>2
      <4> QED BY <1>2, <1>3, <1>7, <4>1
    <3> QED BY <2>3, <3>0, <3>1, <3>2
  <2>6. ASSUME NEW c \in Blocks, NEW v \in Vars, NEW p \in Blocks, Edge(prog.cfg, p, c),
               (HasPhi(c, v))', (Passed(p, EndOf(p)))', NEW x, (Reaches(x, p, EndOf(p), v))'
        PROVE  (IsOperand(c, v, <<x, p>>))'
    <3>1. HasPhi(c, v)
      BY <1>4, <1>7, <2>6
    <3>2. CASE Passed(p, EndOf(p))
      <4>1. Reaches(x, p, EndOf(p), v)
        BY <1>2, <2>6, <3>2 DEF Reached
      <4>2. IsOperand(c, v, <<x, p>>)
        BY <1>0, <2>6, <3>1, <3>2, <4>1 DEF PairsInv, PairsThere
      <4> QED BY <2>3, <4>2 DEF IsOperand
    <3>3. CASE p = bb
      <4>1. Reaches(x, p, EndOf(p), v)
        BY <1>2, <2>1, <2>6, <3>3
      <4>2. var_val_stack[v] # << >>
        BY <1>0, <2>1, <3>3, <4>1, BackReaches
      <4>3. x = Back(v)
        BY <1>0, <2>4, <3>3, <4>1, <4>2, ReachesUnique
      <4>4. \E l \in 1 .. Len(pairs'[<<c, v>>]) : pairs'[<<c, v>>][l] = <<x, p>>
        BY <2>3, <2>6, <3>1, <3>3, <4>2, <4>3
      <4> QED BY <4>4 DEF IsOperand
    <3> QED BY <1>3, <2>6, <3>2, <3>3
  <2>7. PairsReach'
    BY <2>5 DEF PairsReach
  <2>8. PairsThere'
    BY <1>0, <2>6 DEF PairsThere
  <2> QED BY <2>7, <2>8 DEF PairsInv
<1> QED BY <1>6, <1>7

LEMMA StepFlow == FlowInv /\ [Next]_vars => FlowInv'
BY StepInv, StepPhi, StepUses, StepPairs DEF FlowInv
-----------------------------------------------------------------------------
(***************************************************************************)
(* The two runs: types.                                                    *)
(***************************************************************************)
LEMMA AfterType ==
  ASSUME NEW f \in [Phis -> Held], NEW x \in Values \cup {undef}
  PROVE  After(x, f) \in Held
<1>1. CASE \E j \in Instrs : x = Const(j) \/ x = Load(j)
  BY <1>1 DEF After, Const, Load, Held
<1>2. CASE \E b \in Blocks, v \in Vars : x = Phi(b, v)
  <2>1. PICK b \in Blocks, v \in Vars : x = Phi(b, v)
    BY <1>2
  <2>2. After(x, f) = f[<<b, v>>] /\ <<b, v>> \in Phis
    BY <2>1 DEF After, Phi, Phis
  <2> QED BY <2>2
<1>3. CASE x = undef
  BY <1>3 DEF After, undef, Held
<1> QED BY <1>1, <1>2, <1>3 DEF Values

LEMMA IncomingType ==
  ASSUME TypeOK, NEW c \in Blocks, NEW v \in Vars, NEW p
  PROVE  Incoming(c, v, p) \in Values \cup {undef}
<1> DEFINE s == pairs[<<c, v>>]
           found == {l \in 1 .. Len(s) : s[l][2] = p}
<1>1. s \in Seq(Values \X Blocks)
  BY DEF TypeOK
<1>2. \A l \in found : s[l][1] \in Values
  BY <1>1
<1>3. Incoming(c, v, p) = IF found = {} THEN undef ELSE s[CHOOSE l \in found : TRUE][1]
  BY DEF Incoming
<1>4. found # {} => (CHOOSE l \in found : TRUE) \in found
  OBVIOUS
<1> HIDE DEF found, s
<1> QED BY <1>2, <1>3, <1>4

LEMMA CopyPhiType ==
  ASSUME TypeOK, NEW s \in [Phis -> Held], NEW p, NEW c \in Blocks, NEW v \in Vars
  PROVE  CopyPhi(s, p, c, v) \in [Phis -> Held]
<1>1. Incoming(c, v, p) \in Values \cup {undef}
  BY IncomingType
<1>2. After(Incoming(c, v, p), s) \in Held
  BY <1>1, AfterType
<1> QED BY <1>2 DEF CopyPhi

LEMMA CopyPhisType ==
  ASSUME TypeOK, NEW s \in [Phis -> Held], NEW p, NEW c \in Blocks
  PROVE  CopyPhis(s, p, c) \in [Phis -> Held]
<1> DEFINE L == Len(phis[c])
           Copies(F, m) == [n \in 0 .. m |->
             IF n = 0 THEN s ELSE CopyPhi(F[n - 1], p, c, phis[c][n])]
           Good == {m \in Nat : \E F : F = Copies(F, m)}
<1>0. L \in Nat /\ \A n \in 1 .. L : phis[c][n] \in Vars
  <2>1. phis[c] \in Seq(Vars)
    BY DEF TypeOK
  <2> QED BY <2>1
<1>1. 0 \in Good
  <2>1. [n \in 0 .. 0 |-> s] = Copies([n \in 0 .. 0 |-> s], 0)
    OBVIOUS
  <2> QED BY <2>1
<1>2. ASSUME NEW m \in Nat, m \in Good PROVE m + 1 \in Good
  <2>1. PICK F : F = Copies(F, m)
    BY <1>2
  <2> DEFINE G == [n \in 0 .. m + 1 |->
                IF n <= m THEN F[n] ELSE CopyPhi(F[m], p, c, phis[c][n])]
  <2>2. \A n \in 0 .. m + 1 : G[n] = Copies(G, m + 1)[n]
    <3>1. \A n \in 0 .. m : F[n] = IF n = 0 THEN s ELSE CopyPhi(F[n - 1], p, c, phis[c][n])
      BY <2>1
    <3> SUFFICES ASSUME NEW n \in 0 .. m + 1 PROVE G[n] = Copies(G, m + 1)[n]
      OBVIOUS
    <3>2. CASE n = m + 1
      BY <3>2
    <3>3. CASE n \in 0 .. m
      <4>1. n # 0 => n - 1 \in 0 .. m
        BY <3>3
      <4> QED BY <3>1, <3>3, <4>1
    <3> QED BY <3>2, <3>3
  <2>3. G = Copies(G, m + 1)
    BY <2>2
  <2>4. m + 1 \in Nat
    OBVIOUS
  <2> QED BY <2>3, <2>4
<1> HIDE DEF Good, L
<1>3. L \in Good
  BY <1>0, <1>1, <1>2, NatSetInduction
<1>4. \E F : F = Copies(F, L)
  BY <1>3 DEF Good
<1> DEFINE H == CHOOSE F : F = Copies(F, L)
<1>5. CopyPhis(s, p, c) = H[L]
  BY DEF CopyPhis, L
<1>6. H = Copies(H, L)
  BY <1>4
<1> HIDE DEF H
<1>7. \A n \in 0 .. L : H[n] = IF n = 0 THEN s ELSE CopyPhi(H[n - 1], p, c, phis[c][n])
  BY <1>6
<1> DEFINE Typed == {n \in Nat : n <= L => H[n] \in [Phis -> Held]}
<1>8. 0 \in Typed
  BY <1>0, <1>7
<1>9. ASSUME NEW n \in Nat, n \in Typed PROVE n + 1 \in Typed
  <2> SUFFICES ASSUME n + 1 <= L PROVE H[n + 1] \in [Phis -> Held]
    OBVIOUS
  <2>1. H[n] \in [Phis -> Held] /\ n + 1 \in 0 .. L /\ n + 1 \in 1 .. L /\ n + 1 # 0
        /\ n + 1 - 1 = n
    BY <1>0, <1>9
  <2>2. H[n + 1] = CopyPhi(H[n], p, c, phis[c][n + 1])
    BY <1>7, <2>1
  <2>3. phis[c][n + 1] \in Vars
    BY <1>0, <2>1
  <2> HIDE DEF Typed
  <2>4. CopyPhi(H[n], p, c, phis[c][n + 1]) \in [Phis -> Held]
    BY <2>1, <2>3, CopyPhiType
  <2> QED BY <2>2, <2>4
<1>10. L \in Typed
  <2> HIDE DEF Typed
  <2> QED BY <1>0, <1>8, <1>9, NatSetInduction
<1> QED BY <1>0, <1>5, <1>10

LEMMA CopyStmtType ==
  ASSUME prog \in Programs, TypeOK, slots \in [Phis -> Held], NEW p \in Blocks
  PROVE  copy_stmt(p) \in [Phis -> Held]
<1> DEFINE L == Len(prog.cfg.succ[p])
           Copies(F, m) == [n \in 0 .. m |->
             IF n = 0 THEN slots ELSE CopyPhis(F[n - 1], p, prog.cfg.succ[p][n])]
           Good == {m \in Nat : \E F : F = Copies(F, m)}
<1>0. L \in Nat /\ \A n \in 1 .. L : prog.cfg.succ[p][n] \in Blocks
  <2>1. prog.cfg.succ[p] \in Seq(Blocks)
    BY ProgramFacts DEF IsCfg
  <2> QED BY <2>1
<1>1. 0 \in Good
  <2>1. [n \in 0 .. 0 |-> slots] = Copies([n \in 0 .. 0 |-> slots], 0)
    OBVIOUS
  <2> QED BY <2>1
<1>2. ASSUME NEW m \in Nat, m \in Good PROVE m + 1 \in Good
  <2>1. PICK F : F = Copies(F, m)
    BY <1>2
  <2> DEFINE G == [n \in 0 .. m + 1 |->
                IF n <= m THEN F[n] ELSE CopyPhis(F[m], p, prog.cfg.succ[p][n])]
  <2>2. \A n \in 0 .. m + 1 : G[n] = Copies(G, m + 1)[n]
    <3>1. \A n \in 0 .. m : F[n] = IF n = 0 THEN slots
                                   ELSE CopyPhis(F[n - 1], p, prog.cfg.succ[p][n])
      BY <2>1
    <3> SUFFICES ASSUME NEW n \in 0 .. m + 1 PROVE G[n] = Copies(G, m + 1)[n]
      OBVIOUS
    <3>2. CASE n = m + 1
      BY <3>2
    <3>3. CASE n \in 0 .. m
      <4>1. n # 0 => n - 1 \in 0 .. m
        BY <3>3
      <4> QED BY <3>1, <3>3, <4>1
    <3> QED BY <3>2, <3>3
  <2>3. G = Copies(G, m + 1)
    BY <2>2
  <2>4. m + 1 \in Nat
    OBVIOUS
  <2> QED BY <2>3, <2>4
<1> HIDE DEF Good, L
<1>3. L \in Good
  BY <1>0, <1>1, <1>2, NatSetInduction
<1>4. \E F : F = Copies(F, L)
  BY <1>3 DEF Good
<1> DEFINE H == CHOOSE F : F = Copies(F, L)
<1>5. copy_stmt(p) = H[L]
  BY DEF copy_stmt, L
<1>6. H = Copies(H, L)
  BY <1>4
<1> HIDE DEF H
<1>7. \A n \in 0 .. L : H[n] = IF n = 0 THEN slots
                               ELSE CopyPhis(H[n - 1], p, prog.cfg.succ[p][n])
  BY <1>6
<1> DEFINE Typed == {n \in Nat : n <= L => H[n] \in [Phis -> Held]}
<1>8. 0 \in Typed
  BY <1>0, <1>7
<1>9. ASSUME NEW n \in Nat, n \in Typed PROVE n + 1 \in Typed
  <2> SUFFICES ASSUME n + 1 <= L PROVE H[n + 1] \in [Phis -> Held]
    OBVIOUS
  <2>1. H[n] \in [Phis -> Held] /\ n + 1 \in 0 .. L /\ n + 1 \in 1 .. L /\ n + 1 # 0
        /\ n + 1 - 1 = n
    BY <1>0, <1>9
  <2>2. H[n + 1] = CopyPhis(H[n], p, prog.cfg.succ[p][n + 1])
    BY <1>7, <2>1
  <2> QED BY <1>0, <2>1, <2>2, CopyPhisType
<1>10. L \in Typed
  <2> HIDE DEF Typed
  <2> QED BY <1>0, <1>8, <1>9, NatSetInduction
<1> QED BY <1>0, <1>5, <1>10
-----------------------------------------------------------------------------
(***************************************************************************)
(* The two runs: both see the same values.                                 *)
(***************************************************************************)
(* Every path to where the runs are has passed position l of b since it    *)
(* entered b last.                                                         *)
Executed(b, l) == StrictlyDominates(prog.cfg, b, at[1]) \/ (b = at[1] /\ l < at[2])

AtInv ==
  /\ at[1] \in Blocks /\ at[2] \in 1 .. EndOf(at[1])
  /\ pc # "done" =>
       (\A v \in Vars : mem[v] = undef) /\ (\A k \in Instrs : orig[k] = undef)

(* What memory holds for an initialised local is what the definition that  *)
(* reaches this place is worth in the new function.                        *)
MemReaches ==
  \A v \in Vars : mem[v] # undef =>
    \E x : Reaches(x, at[1], at[2], v) /\ After(x, env) = mem[v]

(* What a load gave is still worth the same where that load dominates.     *)
LoadsGave ==
  \A k \in Instrs : orig[k] # undef =>
    /\ prog.op[k] = "load"
    /\ \E b \in Blocks : \E l \in 1 .. Len(prog.body[b]) :
         prog.body[b][l] = k /\ (Executed(b, l) => After(uses[k], env) = orig[k])

RunInv == FlowInv /\ RunTypeOK /\ AtInv /\ MemReaches /\ LoadsGave

LEMMA InitRun == RunInit => RunInv
<1> SUFFICES ASSUME RunInit PROVE RunInv
  OBVIOUS
<1>1. FlowInv /\ prog \in Programs /\ TypeOK /\ pc = "phi"
  BY InitFlow DEF RunInit, FlowInv, Inv, Init
<1>2. /\ at = <<Entry, 1>> /\ at[1] = Entry /\ at[2] = 1
      /\ \A v \in Vars : mem[v] = undef
      /\ \A k \in Instrs : orig[k] = undef
  BY DEF RunInit
<1>3. 1 \in 1 .. EndOf(Entry)
  <2>1. Len(prog.body[Entry]) \in Nat /\ EndOf(Entry) = Len(prog.body[Entry]) + 1
    BY <1>1, PlaceFacts
  <2> QED BY <2>1
<1>4. RunTypeOK
  <2>1. undef \in Held
    BY DEF Held
  <2>2. at \in Blocks \X (Nat \ {0})
    BY <1>2
  <2> QED BY <1>1, <2>1, <2>2 DEF RunTypeOK, RunInit
<1> QED BY <1>1, <1>2, <1>3, <1>4 DEF RunInv, AtInv, MemReaches, LoadsGave

(* When the pass is done it has passed everything and does nothing more.   *)
LEMMA DoneFacts ==
  ASSUME FlowInv, pc = "done"
  PROVE  /\ ~ Next /\ frames = << >> /\ todo = {} /\ work_list = << >>
         /\ \A b, i : Passed(b, i)
<1>1. frames = << >> /\ todo = {} /\ work_list = << >>
  BY DEF FlowInv, Inv, FramesInv, PhiInv
<1>2. ~ Next
  BY DEF Next, NextVar, PlacePhis, StartRename, PushPhis, RenameLoad, RenameStore,
         FillPhis, Recurse, Return, Renaming
<1> QED BY <1>1, <1>2 DEF Passed, Waiting

(* What reaches a load is what it has been replaced by.                    *)
LEMMA UseIs ==
  ASSUME FlowInv, pc = "done", NEW b \in Blocks, NEW i \in 1 .. Len(prog.body[b]),
         prog.op[prog.body[b][i]] = "load", NEW x, Reaches(x, b, i, prog.var[prog.body[b][i]])
  PROVE  uses[prog.body[b][i]] = x
BY DoneFacts DEF FlowInv, UsesReach

(* Where the runs are inside a block.                                      *)
LEMMA InsideFacts ==
  ASSUME RunInv, Inside
  PROVE  /\ prog \in Programs /\ at[1] \in Blocks /\ at[2] \in 1 .. Len(prog.body[at[1]])
         /\ at[2] + 1 \in 1 .. EndOf(at[1]) /\ at[2] \in Nat
         /\ NextInstr \in Instrs /\ prog.var[NextInstr] \in Vars
<1>1. prog \in Programs /\ at[1] \in Blocks
  BY DEF RunInv, FlowInv, Inv, AtInv
<1> DEFINE n == Len(prog.body[at[1]])
<1>2. n \in Nat /\ EndOf(at[1]) = n + 1 /\ at[2] \in 1 .. EndOf(at[1]) /\ at[2] <= n
  BY <1>1, PlaceFacts DEF RunInv, AtInv, Inside
<1> HIDE DEF n
<1>3. at[2] \in 1 .. n /\ at[2] + 1 \in 1 .. EndOf(at[1]) /\ at[2] \in Nat
  BY <1>2
<1> QED BY <1>1, <1>3, PlaceFacts DEF n, NextInstr

(* On inside a block: what reached the place in front of an instruction    *)
(* that does not store the variable reaches the next.                      *)
LEMMA ReachesOn ==
  ASSUME prog \in Programs, NEW b \in Blocks, NEW i \in 1 .. Len(prog.body[b]), NEW v,
         ~ (prog.op[prog.body[b][i]] = "store" /\ prog.var[prog.body[b][i]] = v),
         NEW x, Reaches(x, b, i, v)
  PROVE  Reaches(x, b, i + 1, v)
<1>1. i \in Nat /\ i > 0 /\ i + 1 > 0
  OBVIOUS
<1>2. StoresIn(b, i + 1, v) = StoresIn(b, i, v)
  BY <1>1, StoresSame
<1> QED BY <1>1, <1>2 DEF Reaches, LastIn, LastOf

LEMMA ReachesStore ==
  ASSUME prog \in Programs, NEW b \in Blocks, NEW i \in 1 .. Len(prog.body[b]), NEW v,
         prog.op[prog.body[b][i]] = "store", prog.var[prog.body[b][i]] = v
  PROVE  Reaches(rval[prog.body[b][i]], b, i + 1, v)
<1>1. i \in StoresIn(b, i + 1, v) /\ \A l \in StoresIn(b, i + 1, v) : l <= i
  BY StoresMore
<1> QED BY <1>1 DEF Reaches, LastIn, LastOf

(* Which positions are executed in addition, inside a block.               *)
LEMMA ExecutedOn ==
  ASSUME prog \in Programs, NEW b \in Blocks, NEW l \in 1 .. Len(prog.body[b]), at[2] \in Nat,
         prog' = prog, at' = <<at[1], at[2] + 1>>
  PROVE  (Executed(b, l))' <=> Executed(b, l) \/ (b = at[1] /\ l = at[2])
<1>1. l \in Nat
  OBVIOUS
<1>2. at'[1] = at[1] /\ at'[2] = at[2] + 1
  OBVIOUS
<1>3. l < at[2] + 1 <=> l < at[2] \/ l = at[2]
  BY <1>1
<1> QED BY <1>2, <1>3 DEF Executed

LEMMA SamePass ==
  ASSUME UNCHANGED vars
  PROVE  /\ \A b : (EndOf(b))' = EndOf(b)
         /\ \A x, b, i, v : (Reaches(x, b, i, v))' <=> Reaches(x, b, i, v)
         /\ UNCHANGED <<prog, pc, phis, pairs, rval, uses>>
BY DEF vars, phiVars, irVars, EndOf, Reaches, LastIn, LastOf, StoresIn, HasPhi, AtEntry, Defines,
       StoredIn

LEMMA StepLoad == RunInv /\ RunLoad => AtInv' /\ MemReaches' /\ LoadsGave'
<1> SUFFICES ASSUME RunInv, RunLoad PROVE AtInv' /\ MemReaches' /\ LoadsGave'
  OBVIOUS
<1> DEFINE b0 == at[1]
           i0 == at[2]
           j0 == NextInstr
           v0 == prog.var[NextInstr]
<1>1. /\ Inside /\ pc = "done" /\ prog.op[j0] = "load" /\ UNCHANGED <<vars, mem, env>>
      /\ at' = <<b0, i0 + 1>> /\ at'[1] = b0 /\ at'[2] = i0 + 1
      /\ orig \in [Instrs -> Held] /\ orig' = [orig EXCEPT ![j0] = mem[v0]]
  BY DEF RunLoad, Inside, RunInv, RunTypeOK
<1>2. /\ prog \in Programs /\ b0 \in Blocks /\ i0 \in 1 .. Len(prog.body[b0]) /\ i0 \in Nat
      /\ i0 + 1 \in 1 .. EndOf(b0) /\ j0 \in Instrs /\ v0 \in Vars /\ j0 = prog.body[b0][i0]
  <2>1. j0 = prog.body[b0][i0]
    BY DEF NextInstr
  <2>2. Inside
    BY <1>1
  <2>3. /\ prog \in Programs /\ at[1] \in Blocks /\ at[2] \in 1 .. Len(prog.body[at[1]])
        /\ at[2] + 1 \in 1 .. EndOf(at[1]) /\ at[2] \in Nat
        /\ NextInstr \in Instrs /\ prog.var[NextInstr] \in Vars
    BY <2>2, InsideFacts
  <2> QED BY <2>1, <2>3
<1>3. /\ UNCHANGED <<prog, pc, uses>> /\ (EndOf(b0))' = EndOf(b0) /\ FlowInv
      /\ \A x, b, i, v : (Reaches(x, b, i, v))' <=> Reaches(x, b, i, v)
  BY <1>1, SamePass DEF RunInv, EndOf
<1> HIDE DEF b0, i0, j0, v0
<1>4. AtInv'
  <2>1. (at[1] \in Blocks /\ at[2] \in 1 .. EndOf(at[1]))'
    BY <1>1, <1>2, <1>3 DEF EndOf
  <2> QED BY <1>1, <1>3, <2>1 DEF AtInv
<1>5. MemReaches'
  <2>1. ASSUME NEW v \in Vars, mem[v] # undef
        PROVE  \E x : (Reaches(x, at[1], at[2], v))' /\ After(x, env) = mem[v]
    <3>1. PICK x : Reaches(x, b0, i0, v) /\ After(x, env) = mem[v]
      BY <2>1 DEF RunInv, MemReaches, b0, i0
    <3>2. Reaches(x, b0, i0 + 1, v)
      BY <1>1, <1>2, <3>1, ReachesOn
    <3> QED BY <1>1, <1>3, <3>1, <3>2
  <2>2. \A x : (After(x, env))' = After(x', env')
    BY DEF After
  <2> QED BY <1>1, <2>1 DEF MemReaches, After
<1>6. LoadsGave'
  <2>1. ASSUME NEW k \in Instrs, orig'[k] # undef
        PROVE  /\ prog.op[k] = "load"
               /\ \E b \in Blocks : \E l \in 1 .. Len(prog.body[b]) :
                    prog.body[b][l] = k /\ ((Executed(b, l))' => After(uses[k], env) = orig'[k])
    <3>1. CASE k = j0
      <4>1. orig'[k] = mem[v0] /\ mem[v0] # undef
        BY <1>1, <1>2, <2>1, <3>1
      <4>2. PICK x : Reaches(x, b0, i0, v0) /\ After(x, env) = mem[v0]
        BY <1>2, <4>1 DEF RunInv, MemReaches, b0, i0
      <4>3. v0 = prog.var[prog.body[b0][i0]]
        BY <1>2 DEF v0, j0
      <4>4. uses[k] = x
        BY <1>1, <1>2, <1>3, <3>1, <4>2, <4>3, UseIs
      <4> QED BY <1>1, <1>2, <3>1, <4>1, <4>2, <4>4
    <3>2. CASE k # j0
      <4>1. orig'[k] = orig[k]
        BY <1>1, <3>2
      <4>2. PICK b \in Blocks : \E l \in 1 .. Len(prog.body[b]) :
              prog.body[b][l] = k /\ (Executed(b, l) => After(uses[k], env) = orig[k])
        BY <2>1, <4>1 DEF RunInv, LoadsGave
      <4>3. prog.op[k] = "load"
        BY <2>1, <4>1 DEF RunInv, LoadsGave
      <4>4. PICK l \in 1 .. Len(prog.body[b]) :
              prog.body[b][l] = k /\ (Executed(b, l) => After(uses[k], env) = orig[k])
        BY <4>2
      <4>5. (Executed(b, l))' <=> Executed(b, l) \/ (b = b0 /\ l = i0)
        BY <1>1, <1>2, <1>3, ExecutedOn DEF b0, i0
      <4>6. ~ (b = b0 /\ l = i0)
        BY <1>2, <3>2, <4>4
      <4> QED BY <4>1, <4>3, <4>4, <4>5, <4>6
    <3> QED BY <3>1, <3>2
  <2> QED BY <1>1, <1>3, <2>1 DEF LoadsGave, After
<1> QED BY <1>4, <1>5, <1>6

LEMMA StepStore == RunInv /\ RunStore => AtInv' /\ MemReaches' /\ LoadsGave'
<1> SUFFICES ASSUME RunInv, RunStore PROVE AtInv' /\ MemReaches' /\ LoadsGave'
  OBVIOUS
<1> DEFINE b0 == at[1]
           i0 == at[2]
           j0 == NextInstr
           v0 == prog.var[NextInstr]
<1>1. /\ Inside /\ pc = "done" /\ prog.op[j0] = "store" /\ UNCHANGED <<vars, orig, env>>
      /\ at' = <<b0, i0 + 1>> /\ at'[1] = b0 /\ at'[2] = i0 + 1
      /\ mem \in [Vars -> Held] /\ mem' = [mem EXCEPT ![v0] = Before(prog.rval[j0])]
  BY DEF RunStore, Inside, RunInv, RunTypeOK
<1>2. /\ prog \in Programs /\ b0 \in Blocks /\ i0 \in 1 .. Len(prog.body[b0]) /\ i0 \in Nat
      /\ i0 + 1 \in 1 .. EndOf(b0) /\ j0 \in Instrs /\ v0 \in Vars /\ j0 = prog.body[b0][i0]
  <2>1. j0 = prog.body[b0][i0]
    BY DEF NextInstr
  <2>2. Inside
    BY <1>1
  <2>3. /\ prog \in Programs /\ at[1] \in Blocks /\ at[2] \in 1 .. Len(prog.body[at[1]])
        /\ at[2] + 1 \in 1 .. EndOf(at[1]) /\ at[2] \in Nat
        /\ NextInstr \in Instrs /\ prog.var[NextInstr] \in Vars
    BY <2>2, InsideFacts
  <2> QED BY <2>1, <2>3
<1>3. /\ UNCHANGED <<prog, pc, uses>> /\ (EndOf(b0))' = EndOf(b0) /\ FlowInv /\ Inv
      /\ \A x, b, i, v : (Reaches(x, b, i, v))' <=> Reaches(x, b, i, v)
  BY <1>1, SamePass DEF RunInv, EndOf, FlowInv
<1>4. v0 = prog.var[j0]
  OBVIOUS
<1> HIDE DEF b0, i0, j0, v0
<1>5. AtInv'
  <2>1. (at[1] \in Blocks /\ at[2] \in 1 .. EndOf(at[1]))'
    BY <1>1, <1>2, <1>3 DEF EndOf
  <2> QED BY <1>1, <1>3, <2>1 DEF AtInv
<1>6. mem'[v0] # undef => After(rval[j0], env) = mem'[v0]
  <2>1. mem'[v0] = Before(prog.rval[j0])
    BY <1>1, <1>2
  <2>2. CASE prog.rval[j0] = Const(j0) /\ rval[j0] = Const(j0)
    BY <2>1, <2>2 DEF Before, After, Const
  <2>3. CASE \E m \in Instrs : /\ prog.rval[j0] = Load(m) /\ prog.op[m] = "load"
                              /\ Precedes(prog, m, j0) /\ rval[j0] = uses[m]
    <3>1. PICK m \in Instrs : /\ prog.rval[j0] = Load(m) /\ Precedes(prog, m, j0)
                             /\ rval[j0] = uses[m]
      BY <2>3
    <3>2. Before(prog.rval[j0]) = orig[m]
      BY <3>1 DEF Before, Load
    <3>3. CASE orig[m] # undef
      <4>1. PICK b \in Blocks : \E l \in 1 .. Len(prog.body[b]) :
              prog.body[b][l] = m /\ (Executed(b, l) => After(uses[m], env) = orig[m])
        BY <3>3 DEF RunInv, LoadsGave
      <4>2. PICK l \in 1 .. Len(prog.body[b]) :
              prog.body[b][l] = m /\ (Executed(b, l) => After(uses[m], env) = orig[m])
        BY <4>1
      <4>3. Dominates(prog.cfg, b, b0) /\ (b = b0 => l < i0)
        BY <1>2, <3>1, <4>2 DEF Precedes
      <4>4. Executed(b, l)
        BY <4>3 DEF Executed, StrictlyDominates, b0, i0
      <4> QED BY <2>1, <3>1, <3>2, <4>2, <4>4
    <3> QED BY <2>1, <3>2, <3>3
  <2> QED BY <1>2, <1>3, <2>2, <2>3, OperandIs
<1>7. MemReaches'
  <2>1. ASSUME NEW v \in Vars, mem'[v] # undef
        PROVE  \E x : (Reaches(x, at[1], at[2], v))' /\ After(x, env) = mem'[v]
    <3>1. CASE v = v0
      <4>1. Reaches(rval[j0], b0, i0 + 1, v)
        BY <1>1, <1>2, <1>4, <3>1, ReachesStore
      <4> QED BY <1>1, <1>3, <1>6, <2>1, <3>1, <4>1
    <3>2. CASE v # v0
      <4>1. mem'[v] = mem[v]
        BY <1>1, <3>2
      <4>2. PICK x : Reaches(x, b0, i0, v) /\ After(x, env) = mem[v]
        BY <2>1, <4>1 DEF RunInv, MemReaches, b0, i0
      <4>3. Reaches(x, b0, i0 + 1, v)
        BY <1>2, <1>4, <3>2, <4>2, ReachesOn
      <4> QED BY <1>1, <1>3, <4>1, <4>2, <4>3
    <3> QED BY <3>1, <3>2
  <2> QED BY <1>1, <2>1 DEF MemReaches, After
<1>8. LoadsGave'
  <2>1. ASSUME NEW k \in Instrs, orig[k] # undef
        PROVE  /\ prog.op[k] = "load"
               /\ \E b \in Blocks : \E l \in 1 .. Len(prog.body[b]) :
                    prog.body[b][l] = k /\ ((Executed(b, l))' => After(uses[k], env) = orig[k])
    <3>1. PICK b \in Blocks : \E l \in 1 .. Len(prog.body[b]) :
            prog.body[b][l] = k /\ (Executed(b, l) => After(uses[k], env) = orig[k])
      BY <2>1 DEF RunInv, LoadsGave
    <3>2. PICK l \in 1 .. Len(prog.body[b]) :
            prog.body[b][l] = k /\ (Executed(b, l) => After(uses[k], env) = orig[k])
      BY <3>1
    <3>3. (Executed(b, l))' <=> Executed(b, l) \/ (b = b0 /\ l = i0)
      BY <1>1, <1>2, <1>3, ExecutedOn DEF b0, i0
    <3>4. prog.op[k] = "load"
      BY <2>1 DEF RunInv, LoadsGave
    <3>5. ~ (b = b0 /\ l = i0)
      BY <1>1, <1>2, <3>2, <3>4
    <3> QED BY <3>2, <3>3, <3>4, <3>5
  <2> QED BY <1>1, <1>3, <2>1 DEF LoadsGave, After
<1> QED BY <1>5, <1>7, <1>8

(* The definition that reaches the end of p is the last on every path to   *)
(* p's end; a successor without a phi is then dominated by it too.         *)
LEMMA LastDefinition ==
  ASSUME prog \in Programs, NEW p \in Blocks, NEW v, NEW x, Reaches(x, p, EndOf(p), v)
  PROVE  \E d \in Blocks :
           /\ Defines(d, v) /\ Dominates(prog.cfg, d, p) /\ LastIn(x, d, EndOf(d), v)
           /\ \A e \in Blocks : Defines(e, v) /\ Dominates(prog.cfg, e, p) =>
                Dominates(prog.cfg, e, d)
<1>1. /\ Defines(p, v) <=> StoresIn(p, EndOf(p), v) # {} \/ HasPhi(p, v)
      /\ EndOf(p) > 0
  <2>1. Len(prog.body[p]) \in Nat /\ EndOf(p) = Len(prog.body[p]) + 1
    BY PlaceFacts
  <2> QED BY <2>1, DefinesEnd
<1>2. CASE LastIn(x, p, EndOf(p), v)
  BY <1>1, <1>2, LastSome, DomRefl
<1>3. CASE /\ ~ Defines(p, v)
           /\ \E d \in Blocks : AtEntry(d, p, v) /\ LastIn(x, d, EndOf(d), v)
  <2>1. PICK d \in Blocks : AtEntry(d, p, v) /\ LastIn(x, d, EndOf(d), v)
    BY <1>3
  <2>2. \A e \in Blocks : Defines(e, v) /\ Dominates(prog.cfg, e, p) => Dominates(prog.cfg, e, d)
    BY <1>3, <2>1 DEF AtEntry, StrictlyDominates
  <2> QED BY <2>1, <2>2 DEF AtEntry, StrictlyDominates
<1> QED BY <1>1, <1>2, <1>3 DEF Reaches

LEMMA ReachesSucc ==
  ASSUME FlowInv, pc = "done", NEW p \in Blocks, NEW c \in Blocks, Edge(prog.cfg, p, c),
         NEW v \in Vars, ~ HasPhi(c, v), NEW x, Reaches(x, p, EndOf(p), v)
  PROVE  /\ Reaches(x, c, 1, v) /\ x \in Values
         /\ \A b \in DefinedIn(x) : b \in Blocks /\ b # c
<1>1. prog \in Programs /\ Inv /\ PhiInv /\ IsCfg(prog.cfg) /\ prog.cfg \in CfgsOfPrograms
      /\ \A b \in Blocks : Reachable(prog.cfg, b)
  BY ProgramFacts DEF FlowInv, Inv
<1>2. PICK d \in Blocks :
        /\ Defines(d, v) /\ Dominates(prog.cfg, d, p) /\ LastIn(x, d, EndOf(d), v)
        /\ \A e \in Blocks : Defines(e, v) /\ Dominates(prog.cfg, e, p) => Dominates(prog.cfg, e, d)
  BY <1>1, LastDefinition
<1>3. StrictlyDominates(prog.cfg, d, c)
  <2>1. Covered(d, v)
    <3>1. v \in Vars \ todo /\ Members(work_list) = {}
      BY DoneFacts DEF Members
    <3> QED BY <1>1, <1>2, <3>1 DEF PhiInv
  <2>2. c \notin Frontier[prog.cfg][d]
    BY <2>1 DEF Covered
  <2>3. ~ InFrontier(prog.cfg, d, c)
    BY <1>1, <2>2 DEF Frontier
  <2>4. p \in Members(prog.cfg.pre[c])
    BY <1>1 DEF IsCfg, Edge
  <2> QED BY <1>2, <2>3, <2>4 DEF InFrontier
<1>4. AtEntry(d, c, v)
  <2>1. \A e \in Blocks : StrictlyDominates(prog.cfg, e, c) => Dominates(prog.cfg, e, p)
    BY DominatesPred
  <2> QED BY <1>2, <1>3, <2>1 DEF AtEntry
<1>5. StoresIn(c, 1, v) = {}
  BY DEF StoresIn
<1>6. Reaches(x, c, 1, v)
  BY <1>2, <1>4, <1>5 DEF Reaches
<1>7. x \in Values /\ \A b \in DefinedIn(x) : b \in Blocks /\ Dominates(prog.cfg, b, d)
  BY <1>1, <1>2, LastFacts
<1>8. ~ Dominates(prog.cfg, c, d)
  BY <1>1, <1>3, DomAntisym DEF StrictlyDominates
<1> QED BY <1>6, <1>7, <1>8

(* A phi takes on the edge from p what reaches the end of p.               *)
LEMMA IncomingIs ==
  ASSUME FlowInv, pc = "done", NEW p \in Blocks, NEW c \in Blocks, Edge(prog.cfg, p, c),
         NEW v \in Vars, HasPhi(c, v), NEW x, Reaches(x, p, EndOf(p), v)
  PROVE  Incoming(c, v, p) = x
<1> DEFINE s == pairs[<<c, v>>]
           found == {l \in 1 .. Len(s) : s[l][2] = p}
           m == CHOOSE l \in found : TRUE
<1>1. prog \in Programs /\ PairsReach /\ PairsThere /\ \A b, i : Passed(b, i)
  BY DoneFacts DEF FlowInv, Inv, PairsInv
<1>2. IsOperand(c, v, <<x, p>>)
  BY <1>1 DEF PairsThere
<1>3. found # {}
  BY <1>2 DEF IsOperand
<1>4. m \in found
  BY <1>3
<1>5. Incoming(c, v, p) = s[m][1]
  BY <1>3 DEF Incoming
<1> HIDE DEF m
<1>6. IsOperand(c, v, s[m]) /\ s[m][2] = p
  BY <1>4 DEF IsOperand
<1>7. Reaches(s[m][1], p, EndOf(p), v)
  BY <1>1, <1>6 DEF PairsReach
<1> HIDE DEF s
<1> QED BY <1>1, <1>5, <1>7, ReachesUnique

LEMMA StepBranch == RunInv /\ RunBranch => AtInv' /\ MemReaches' /\ LoadsGave'
<1> SUFFICES ASSUME RunInv, RunBranch PROVE AtInv' /\ MemReaches' /\ LoadsGave'
  OBVIOUS
<1> DEFINE p == at[1]
<1>1. /\ pc = "done" /\ at[2] > Len(prog.body[p]) /\ UNCHANGED <<vars, mem, orig>>
      /\ FlowInv /\ Inv /\ prog \in Programs /\ p \in Blocks /\ at[2] \in 1 .. EndOf(p)
  BY DEF RunBranch, RunInv, AtInv, FlowInv, Inv
<1>2. at[2] = EndOf(p) /\ EndOf(p) \in Nat
  <2> DEFINE n == Len(prog.body[p])
  <2>1. n \in Nat /\ EndOf(p) = n + 1
    BY <1>1, PlaceFacts
  <2> HIDE DEF n
  <2> QED BY <1>1, <2>1 DEF n
<1>3. PICK c \in Members(prog.cfg.succ[p]) : env' = PhisTakeValues(p, c) /\ at' = <<c, 1>>
  BY DEF RunBranch
<1>4. c \in Blocks /\ Edge(prog.cfg, p, c) /\ IsCfg(prog.cfg)
  <2>1. IsCfg(prog.cfg)
    BY <1>1, ProgramFacts
  <2>2. prog.cfg.succ[p] \in Seq(Blocks)
    BY <1>1, <2>1 DEF IsCfg
  <2> QED BY <1>3, <2>1, <2>2 DEF Members, Edge
<1>5. /\ UNCHANGED <<prog, pc, uses>> /\ at'[1] = c /\ at'[2] = 1
      /\ \A x, b, i, v : (Reaches(x, b, i, v))' <=> Reaches(x, b, i, v)
  BY <1>1, <1>3, SamePass
<1>6. env' = [q \in Phis |-> IF q[1] = c /\ HasPhi(c, q[2]) THEN After(Incoming(c, q[2], p), env)
                                                         ELSE env[q]]
  BY <1>3 DEF PhisTakeValues
<1> HIDE DEF p
<1>7. AtInv'
  <2>1. 1 \in 1 .. EndOf(c)
    <3>1. Len(prog.body[c]) \in Nat /\ EndOf(c) = Len(prog.body[c]) + 1
      BY <1>1, <1>4, PlaceFacts
    <3> QED BY <3>1
  <2>2. (at[1] \in Blocks /\ at[2] \in 1 .. EndOf(at[1]))'
    BY <1>4, <1>5, <2>1 DEF EndOf
  <2> QED BY <1>1, <1>5, <2>2 DEF AtInv
<1>8. ASSUME NEW x \in Values, \A b \in DefinedIn(x) : b # c
      PROVE  After(x, env') = After(x, env)
  <2>1. CASE \E b \in Blocks, v \in Vars : x = Phi(b, v)
    <3>1. PICK b \in Blocks, v \in Vars : x = Phi(b, v)
      BY <2>1
    <3>2. b # c /\ <<b, v>> \in Phis
      BY <1>8, <3>1 DEF DefinedIn, Phi, Phis
    <3>3. env'[<<b, v>>] = env[<<b, v>>]
      BY <1>6, <3>2
    <3> QED BY <3>1, <3>3 DEF After, Phi
  <2>2. CASE \E j \in Instrs : x = Const(j) \/ x = Load(j)
    BY <2>2 DEF After, Const, Load
  <2> QED BY <2>1, <2>2 DEF Values
<1>9. MemReaches'
  <2>1. ASSUME NEW v \in Vars, mem[v] # undef
        PROVE  \E y : Reaches(y, c, 1, v) /\ After(y, env') = mem[v]
    <3>1. PICK x : Reaches(x, p, EndOf(p), v) /\ After(x, env) = mem[v]
      BY <1>2, <2>1 DEF RunInv, MemReaches, p
    <3>2. CASE HasPhi(c, v)
      <4>1. Incoming(c, v, p) = x
        BY <1>1, <1>4, <3>1, <3>2, IncomingIs
      <4>2. <<c, v>> \in Phis /\ env'[<<c, v>>] = After(x, env)
        <5>1. <<c, v>> \in Phis
          BY <1>4 DEF Phis
        <5> QED BY <1>6, <3>2, <4>1, <5>1
      <4>3. After(Phi(c, v), env') = mem[v]
        BY <3>1, <4>2 DEF After, Phi
      <4>4. Reaches(Phi(c, v), c, 1, v)
        BY <3>2 DEF Reaches, LastIn, LastOf, StoresIn
      <4> QED BY <4>3, <4>4
    <3>3. CASE ~ HasPhi(c, v)
      <4>1. /\ Reaches(x, c, 1, v) /\ x \in Values
            /\ \A b \in DefinedIn(x) : b \in Blocks /\ b # c
        BY <1>1, <1>4, <3>1, <3>3, ReachesSucc
      <4> QED BY <1>8, <3>1, <4>1
    <3> QED BY <3>2, <3>3
  <2> QED BY <1>1, <1>5, <2>1 DEF MemReaches, After
<1>10. LoadsGave'
  <2>1. ASSUME NEW k \in Instrs, orig[k] # undef
        PROVE  /\ prog.op[k] = "load"
               /\ \E b \in Blocks : \E l \in 1 .. Len(prog.body[b]) :
                    prog.body[b][l] = k /\ ((Executed(b, l))' => After(uses[k], env') = orig[k])
    <3>1. PICK b \in Blocks : \E l \in 1 .. Len(prog.body[b]) :
            prog.body[b][l] = k /\ (Executed(b, l) => After(uses[k], env) = orig[k])
      BY <2>1 DEF RunInv, LoadsGave
    <3>2. PICK l \in 1 .. Len(prog.body[b]) :
            prog.body[b][l] = k /\ (Executed(b, l) => After(uses[k], env) = orig[k])
      BY <3>1
    <3>3. prog.op[k] = "load"
      BY <2>1 DEF RunInv, LoadsGave
    <3>4. ASSUME (Executed(b, l))' PROVE After(uses[k], env') = orig[k]
      <4>1. StrictlyDominates(prog.cfg, b, c)
        BY <1>5, <3>4 DEF Executed
      <4>2. Dominates(prog.cfg, b, p)
        BY <1>1, <1>4, <4>1, DominatesPred
      <4>3. l < EndOf(p) \/ b # p
        BY <1>1, PlaceFacts
      <4>4. Executed(b, l)
        BY <1>2, <4>2, <4>3 DEF Executed, StrictlyDominates, p
      <4>5. uses[k] \in Values /\ \A d \in DefinedIn(uses[k]) : d \in Blocks /\ Dominates(prog.cfg, d, b)
        <5>1. uses[k] \in Values /\ k \in Members(prog.body[b])
          BY <1>1, <3>2 DEF Inv, TypeOK, Members
        <5>2. \A d \in DefinedIn(uses[k]) : d \in Blocks
          BY <1>1, <5>1, DefinedInBlocks
        <5> QED BY <1>1, <5>1, <5>2 DEF Inv, OperandsInv
      <4>6. ~ Dominates(prog.cfg, c, b)
        <5>1. Reachable(prog.cfg, b)
          BY <1>1, ProgramFacts
        <5> QED BY <1>4, <4>1, <5>1, DomAntisym DEF StrictlyDominates
      <4>7. After(uses[k], env') = After(uses[k], env)
        BY <1>8, <4>5, <4>6
      <4> QED BY <3>2, <4>4, <4>7
    <3> QED BY <3>2, <3>3, <3>4
  <2> QED BY <1>1, <1>5, <2>1 DEF LoadsGave, After
<1> QED BY <1>7, <1>9, <1>10

LEMMA StepRunType == RunInv /\ [RunNext]_allVars => RunTypeOK'
<1> SUFFICES ASSUME RunInv, [RunNext]_allVars PROVE RunTypeOK'
  OBVIOUS
<1>0. /\ prog \in Programs /\ TypeOK /\ FlowInv /\ Inv
      /\ at \in Blocks \X (Nat \ {0})
      /\ mem \in [Vars -> Held] /\ orig \in [Instrs -> Held]
      /\ env \in [Phis -> Held] /\ slots \in [Phis -> Held]
  BY DEF RunInv, RunTypeOK, FlowInv, Inv
<1>1. CASE UNCHANGED runVars /\ [Next]_vars
  <2>1. TypeOK'
    BY <1>0, <1>1, StepInv DEF Inv
  <2> QED BY <1>0, <1>1, <2>1 DEF RunTypeOK, runVars
<1>2. ASSUME UNCHANGED vars PROVE TypeOK'
  BY <1>0, <1>2 DEF TypeOK, vars, phiVars, irVars
<1>3. CASE RunLoad
  <2>1. Inside /\ at \in Blocks \X (Nat \ {0}) /\ at[2] + 1 \in Nat \ {0} /\ at[1] \in Blocks
    BY <1>0, <1>3 DEF RunLoad
  <2>2. NextInstr \in Instrs /\ prog.var[NextInstr] \in Vars
    BY <2>1, InsideFacts
  <2>3. at' \in Blocks \X (Nat \ {0}) /\ orig' \in [Instrs -> Held]
    BY <1>0, <1>3, <2>1, <2>2 DEF RunLoad
  <2> QED BY <1>0, <1>2, <1>3, <2>3 DEF RunTypeOK, RunLoad
<1>4. CASE RunStore
  <2>1. Inside /\ at \in Blocks \X (Nat \ {0}) /\ at[2] + 1 \in Nat \ {0} /\ at[1] \in Blocks
    BY <1>0, <1>4 DEF RunStore
  <2>2. NextInstr \in Instrs /\ prog.var[NextInstr] \in Vars
    BY <2>1, InsideFacts
  <2>3. Before(prog.rval[NextInstr]) \in Held
    <3>1. \/ prog.rval[NextInstr] = Const(NextInstr)
          \/ \E m \in Instrs : prog.rval[NextInstr] = Load(m)
      BY <1>0, <2>2, OperandIs
    <3> QED BY <1>0, <2>2, <3>1 DEF Before, Const, Load, Held
  <2>4. at' \in Blocks \X (Nat \ {0}) /\ mem' \in [Vars -> Held]
    BY <1>0, <1>4, <2>1, <2>2, <2>3 DEF RunStore
  <2> QED BY <1>0, <1>2, <1>4, <2>4 DEF RunTypeOK, RunStore
<1>5. CASE RunBranch
  <2>1. at[1] \in Blocks /\ prog.cfg.succ[at[1]] \in Seq(Blocks)
    <3>1. at[1] \in Blocks
      BY <1>0
    <3> QED BY <1>0, <3>1, ProgramFacts DEF IsCfg
  <2>2. PICK c \in Members(prog.cfg.succ[at[1]]) :
          env' = PhisTakeValues(at[1], c) /\ at' = <<c, 1>>
    BY <1>5 DEF RunBranch
  <2>3. c \in Blocks
    BY <2>1, <2>2 DEF Members
  <2>4. env' \in [Phis -> Held]
    <3>1. ASSUME NEW q \in Phis, q[1] = c PROVE After(Incoming(c, q[2], at[1]), env) \in Held
      <4>1. q[2] \in Vars
        BY DEF Phis
      <4>2. Incoming(c, q[2], at[1]) \in Values \cup {undef}
        BY <1>0, <2>3, <4>1, IncomingType
      <4> QED BY <1>0, <4>2, AfterType
    <3> QED BY <1>0, <2>2, <3>1 DEF PhisTakeValues
  <2>5. slots' \in [Phis -> Held]
    BY <1>0, <1>5, <2>1, CopyStmtType DEF RunBranch
  <2>6. at' \in Blocks \X (Nat \ {0})
    BY <2>2, <2>3
  <2> QED BY <1>0, <1>2, <1>5, <2>4, <2>5, <2>6 DEF RunTypeOK, RunBranch
<1>6. CASE UNCHANGED allVars
  BY <1>0, <1>2, <1>6 DEF RunTypeOK, allVars, runVars
<1> QED BY <1>1, <1>3, <1>4, <1>5, <1>6 DEF RunNext

LEMMA StepRun == RunInv /\ [RunNext]_allVars => RunInv'
<1> SUFFICES ASSUME RunInv, [RunNext]_allVars PROVE RunInv'
  OBVIOUS
<1>1. RunTypeOK' /\ FlowInv
  BY StepRunType DEF RunInv
<1>2. FlowInv'
  <2>1. [Next]_vars
    BY DEF RunNext, RunLoad, RunStore, RunBranch, allVars
  <2> QED BY <1>1, <2>1, StepFlow
<1>3. CASE Next /\ UNCHANGED runVars
  <2>1. pc # "done" /\ UNCHANGED <<at, mem, orig, env>>
    BY <1>1, <1>3, DoneFacts DEF runVars
  <2>2. prog' = prog
    BY <1>3 DEF Next, NextVar, PlacePhis, StartRename, PushPhis, RenameLoad, RenameStore,
           FillPhis, Recurse, Return
  <2>3. (\A v \in Vars : mem[v] = undef) /\ (\A k \in Instrs : orig[k] = undef)
    BY <2>1 DEF RunInv, AtInv
  <2>4. AtInv'
    BY <2>1, <2>2, <2>3 DEF RunInv, AtInv, EndOf
  <2>5. MemReaches' /\ LoadsGave'
    BY <2>1, <2>3 DEF MemReaches, LoadsGave
  <2> QED BY <1>1, <1>2, <2>4, <2>5 DEF RunInv
<1>4. CASE RunLoad
  BY <1>1, <1>2, <1>4, StepLoad DEF RunInv
<1>5. CASE RunStore
  BY <1>1, <1>2, <1>5, StepStore DEF RunInv
<1>6. CASE RunBranch
  BY <1>1, <1>2, <1>6, StepBranch DEF RunInv
<1>7. CASE UNCHANGED allVars
  <2>1. UNCHANGED <<prog, pc, uses, at, mem, orig, env>>
    BY <1>7 DEF allVars, vars, runVars, irVars
  <2>2. \A x, b, i, v : (Reaches(x, b, i, v))' <=> Reaches(x, b, i, v)
    BY <1>7, SamePass DEF allVars
  <2>3. AtInv'
    BY <2>1 DEF RunInv, AtInv, EndOf
  <2>4. MemReaches'
    BY <2>1, <2>2 DEF RunInv, MemReaches, After
  <2>5. LoadsGave'
    BY <2>1 DEF RunInv, LoadsGave, After, Executed
  <2> QED BY <1>1, <1>2, <2>3, <2>4, <2>5 DEF RunInv
<1> QED BY <1>3, <1>4, <1>5, <1>6, <1>7 DEF RunNext

LEMMA RunInvariance == RunSpec => []RunInv
<1>1. RunInit => RunInv
  BY InitRun
<1>2. RunInv /\ [RunNext]_allVars => RunInv'
  BY StepRun
<1> QED BY <1>1, <1>2, PTL DEF RunSpec

(* Whatever the program, and whatever path it takes: in the function that  *)
(* the pass leaves, what uses a load gets the value that this load would   *)
(* have read from memory in the function before it, unless the local is    *)
(* uninitialised there.                                                    *)
THEOREM LoadsSeeMemoryAlways == RunSpec => []LoadsSeeMemory
<1>1. RunInv => LoadsSeeMemory
  <2> SUFFICES ASSUME RunInv PROVE LoadsSeeMemory
    OBVIOUS
  <2>1. RunTypeOK /\ FlowInv
    BY DEF RunInv
  <2>2. ASSUME Inside, prog.op[NextInstr] = "load", mem[prog.var[NextInstr]] # undef
        PROVE  After(uses[NextInstr], env) = mem[prog.var[NextInstr]]
    <3>1. /\ at[1] \in Blocks /\ at[2] \in 1 .. Len(prog.body[at[1]])
          /\ prog.var[NextInstr] \in Vars /\ pc = "done"
      BY <2>2, InsideFacts DEF Inside
    <3>2. PICK x : /\ Reaches(x, at[1], at[2], prog.var[NextInstr])
                   /\ After(x, env) = mem[prog.var[NextInstr]]
      BY <2>2, <3>1 DEF RunInv, MemReaches
    <3>3. uses[NextInstr] = x
      <4>1. NextInstr = prog.body[at[1]][at[2]]
        BY DEF NextInstr
      <4>2. /\ prog.op[prog.body[at[1]][at[2]]] = "load"
            /\ Reaches(x, at[1], at[2], prog.var[prog.body[at[1]][at[2]]])
        BY <2>2, <3>2, <4>1
      <4>3. uses[prog.body[at[1]][at[2]]] = x
        BY <2>1, <3>1, <4>2, UseIs
      <4> QED BY <4>1, <4>3
    <3> QED BY <3>2, <3>3
  <2> QED BY <2>1, <2>2 DEF LoadsSeeMemory
<1> QED BY <1>1, RunInvariance, PTL
=============================================================================
