-------------------------- MODULE DominatorsProofs --------------------------
(***************************************************************************)
(* Proofs about Dominators, for every number of blocks and every control   *)
(* flow graph, in three parts: the guesses of create_idom are never too    *)
(* deep; where it stops they are right; and so are the frontiers and the   *)
(* numbers made from them.                                                 *)
(***************************************************************************)
EXTENDS Dominators, CfgProofs

-----------------------------------------------------------------------------
(***************************************************************************)
(* The inductive invariant, in named parts.                                *)
(***************************************************************************)
InFold == pc \in {"fold", "intersect"}

(* What each phase knows of its own loop variables.                        *)
Control ==
  /\ InFold => /\ bb \in Blocks \ {Entry} /\ post_order[bb] # -1
               /\ new_idom \in Blocks /\ idom[new_idom] # nullptr
  /\ pc = "intersect" =>
       /\ b1 \in Blocks /\ idom[b1] # nullptr
       /\ b2 \in Blocks /\ idom[b2] # nullptr
  /\ pc = "runner" => bb \in Blocks
  /\ idom[Entry] \in {nullptr, Entry}
  /\ \A b \in Blocks : idom[b] # nullptr => idom[idom[b]] # nullptr

(* The depth-first search: a visited block is active or numbered, the      *)
(* strict dominators of an active block are active below it, and those of  *)
(* a numbered block are active or have a higher number.                    *)
Active == IF pc = "dfs" THEN Members(stack) ELSE {}

DfsInv ==
  /\ Entry \in visited
  /\ visited = Active \cup {b \in Blocks : post_order[b] # -1}
  /\ \A b \in Blocks : post_order[b] < Len(post_order_vec)
  /\ \A b, c \in Blocks : post_order[b] = post_order[c] /\ b # c => post_order[b] = -1
  /\ pc = "dfs" => \A k \in 1 .. Len(stack) : \A d \in Blocks :
       StrictlyDominates(cfg, d, stack[k]) => \E j \in 1 .. k - 1 : stack[j] = d
  /\ \A b, d \in Blocks : post_order[b] # -1 /\ StrictlyDominates(cfg, d, b) =>
       d \in Active \/ post_order[d] > post_order[b]
  /\ \A b \in visited : \A j \in 1 .. Len(cfg.succ[b]) :
       j < next[b] \/ post_order[b] # -1 => cfg.succ[b][j] \in visited
  /\ \A b \in Blocks \ visited : next[b] = 1

(* Only numbered blocks get an idom, and only after the search.            *)
IdomNumbered == \A b \in Blocks : idom[b] # nullptr => post_order[b] # -1 /\ pc # "dfs"

(* The strict dominators of the block in hand dominate the candidate and,  *)
(* while two fingers climb, both of them.                                  *)
FoldSound ==
  \A d \in Blocks : StrictlyDominates(cfg, d, bb) =>
    /\ InFold => Dominates(cfg, d, new_idom)
    /\ pc = "intersect" => Dominates(cfg, d, b1) /\ Dominates(cfg, d, b2)

Inv == TypeOK /\ Control /\ DfsInv /\ IdomNumbered /\ FoldSound /\ IdomSound
-----------------------------------------------------------------------------
USE EntryInBlocks, NullNotBlock

LEMMA InitInv == Init => Inv
<1> SUFFICES ASSUME Init PROVE Inv
  OBVIOUS
<1> USE NAssumption
<1>2. stack \in Seq(Blocks) /\ Len(stack) = 1 /\ stack[1] = Entry /\ Members(stack) = {Entry}
  <2>1. stack = <<Entry>>
    BY DEF Init
  <2> QED BY <2>1 DEF Members
<1>3. TypeOK
  <2>1. LoopTypeOK
    <3>1. bb \in 1 .. N + 1
      BY DEF Init
    <3>2. IsCfg(cfg)
      BY CFGsAssumption DEF Init
    <3>3. pc \in Phases
      BY DEF Init, Phases
    <3>4. i \in Nat \ {0} /\ dom_tree_succ \in [Blocks -> SUBSET Blocks]
      BY DEF Init
    <3> QED BY <1>2, <3>1, <3>2, <3>3, <3>4 DEF LoopTypeOK
  <2>2. DfsTypeOK
    BY DEF Init, DfsTypeOK
  <2>3. IdomTypeOK
    BY DEF Init, IdomTypeOK, BlockOrNull
  <2>4. FrontierTypeOK
    BY DEF Init, FrontierTypeOK, BlockOrNull
  <2>5. NumberTypeOK
    BY DEF Init, NumberTypeOK
  <2> QED BY <2>1, <2>2, <2>3, <2>4, <2>5 DEF TypeOK
<1>4. Control
  BY DEF Init, Control, InFold
<1>5. DfsInv
  <2>1. \A d \in Blocks : ~ StrictlyDominates(cfg, d, Entry)
    BY DominatesEntry DEF StrictlyDominates
  <2>2. \A k \in 1 .. Len(stack) : stack[k] = Entry
    BY <1>2
  <2> QED BY <1>2, <2>1, <2>2 DEF Init, DfsInv, Active
<1>6. IdomNumbered /\ FoldSound /\ IdomSound
  BY DEF Init, IdomNumbered, FoldSound, IdomSound, InFold
<1> QED BY <1>3, <1>4, <1>5, <1>6 DEF Inv

LEMMA TopFacts ==
  ASSUME TypeOK, stack # << >>
  PROVE  /\ Top \in Blocks
         /\ Pop \in Seq(Blocks)
         /\ Len(stack) \in Nat \ {0}
         /\ Len(Pop) = Len(stack) - 1
         /\ \A j \in 1 .. Len(stack) - 1 : Pop[j] = stack[j]
         /\ Members(stack) = Members(Pop) \cup {Top}
<1>1. stack \in Seq(Blocks)
  BY DEF TypeOK, LoopTypeOK
<1> QED BY <1>1, PopFacts DEF Top, Pop

LEMMA PreFacts ==
  ASSUME TypeOK, NEW b \in Blocks
  PROVE  /\ Pre(b) \in Seq(Blocks)
         /\ Len(Pre(b)) \in Nat
         /\ \A j \in 1 .. Len(Pre(b)) : Pre(b)[j] \in Blocks /\ Edge(cfg, Pre(b)[j], b)
<1>1. IsCfg(cfg)
  BY DEF TypeOK, LoopTypeOK
<1>2. Pre(b) \in Seq(Blocks)
  BY <1>1 DEF IsCfg, Pre
<1> QED BY <1>1, <1>2, PredEdge DEF Pre
-----------------------------------------------------------------------------
(***************************************************************************)
(* Which phase may change what.                                            *)
(***************************************************************************)
LEMMA Phase ==
  [Next]_vars =>
    \/ DfsSucc \/ DfsReturn \/ StartIdom
    \/ SkipBlock \/ StartBlock \/ FoldPred \/ ClimbFirst \/ ClimbSecond \/ Met
    \/ CommitBlock \/ EndSweep
    \/ FrontierBlock \/ RunnerClimb \/ RunnerLost \/ RunnerArrived
    \/ BuildTree \/ NumberChild \/ NumberReturn
    \/ UNCHANGED vars
BY DEF Next, DepthFirst, CreateIdom, CreateFrontier, CreateTree, Finished

(* The search's variables change in the search only.                       *)
LEMMA DfsFrame ==
  [Next]_vars =>
    \/ DfsSucc
    \/ DfsReturn
    \/ /\ UNCHANGED <<cfg, dfsVars>>
       /\ \/ StartIdom
          \/ pc # "dfs" /\ pc' # "dfs"
          \/ UNCHANGED <<pc, stack>>
<1> SUFFICES ASSUME [Next]_vars
             PROVE  \/ DfsSucc
                    \/ DfsReturn
                    \/ /\ UNCHANGED <<cfg, dfsVars>>
                       /\ \/ StartIdom
                          \/ pc # "dfs" /\ pc' # "dfs"
                          \/ UNCHANGED <<pc, stack>>
  OBVIOUS
<1>1. CASE StartIdom
  BY <1>1 DEF StartIdom
<1>2. CASE SkipBlock \/ StartBlock \/ FoldPred
  BY <1>2 DEF SkipBlock, StartBlock, FoldPred
<1>3. CASE ClimbFirst \/ ClimbSecond \/ Met \/ CommitBlock \/ EndSweep
  BY <1>3 DEF ClimbFirst, ClimbSecond, Met, CommitBlock, EndSweep
<1>4. CASE FrontierBlock \/ RunnerClimb \/ RunnerLost \/ RunnerArrived
  BY <1>4 DEF FrontierBlock, RunnerClimb, RunnerLost, RunnerArrived
<1>5. CASE BuildTree \/ NumberChild \/ NumberReturn
  BY <1>5 DEF BuildTree, NumberChild, NumberReturn
<1>6. CASE UNCHANGED vars
  BY <1>6 DEF vars
<1> QED BY <1>1, <1>2, <1>3, <1>4, <1>5, <1>6, Phase

(* idom and the fold's variables change in create_idom only.               *)
LEMMA IdomFrame ==
  [Next]_vars =>
    \/ StartIdom \/ StartBlock \/ FoldPred \/ ClimbFirst \/ ClimbSecond \/ Met
    \/ CommitBlock \/ EndSweep
    \/ UNCHANGED idomVars
<1> SUFFICES ASSUME [Next]_vars, ~ UNCHANGED idomVars
             PROVE  \/ StartIdom \/ StartBlock \/ FoldPred \/ ClimbFirst \/ ClimbSecond
                    \/ Met \/ CommitBlock \/ EndSweep
  OBVIOUS
<1>1. ~ (DfsSucc \/ DfsReturn \/ SkipBlock)
  BY DEF DfsSucc, DfsReturn, SkipBlock
<1>2. ~ (FrontierBlock \/ RunnerClimb \/ RunnerLost \/ RunnerArrived)
  BY DEF FrontierBlock, RunnerClimb, RunnerLost, RunnerArrived
<1>3. ~ (BuildTree \/ NumberChild \/ NumberReturn \/ UNCHANGED vars)
  BY DEF BuildTree, NumberChild, NumberReturn, vars
<1> QED BY <1>1, <1>2, <1>3, Phase
-----------------------------------------------------------------------------
(***************************************************************************)
(* Every step keeps the types.                                             *)
(***************************************************************************)
LEMMA StepDfsType == Inv /\ [Next]_vars => DfsTypeOK'
<1> SUFFICES ASSUME Inv, [Next]_vars PROVE DfsTypeOK'
  OBVIOUS
<1>0. TypeOK /\ DfsTypeOK
  BY DEF Inv, TypeOK
<1>1. CASE DfsSucc
  <2>1. Top \in Blocks
    BY <1>0, <1>1, TopFacts DEF DfsSucc
  <2>2. IsCfg(cfg) /\ next[Top] \in Nat \ {0}
    BY <1>0, <2>1 DEF TypeOK, LoopTypeOK, DfsTypeOK
  <2>3. cfg.succ[Top] \in Seq(Blocks)
    BY <2>1, <2>2 DEF IsCfg
  <2>4. next[Top] \in 1 .. Len(cfg.succ[Top])
    BY <1>1, <2>2, <2>3 DEF DfsSucc
  <2>5. cfg.succ[Top][next[Top]] \in Blocks
    BY <2>1, <2>2, <2>4, SuccEdge
  <2>6. visited' = visited \cup {cfg.succ[Top][next[Top]]} /\ next' = [next EXCEPT ![Top] = @ + 1]
    BY <1>1 DEF DfsSucc
  <2>7. visited' \in SUBSET Blocks
    BY <1>0, <2>5, <2>6 DEF DfsTypeOK
  <2>8. next' \in [Blocks -> Nat \ {0}]
    BY <1>0, <2>1, <2>6 DEF DfsTypeOK
  <2> QED BY <1>0, <1>1, <2>7, <2>8 DEF DfsSucc, DfsTypeOK
<1>2. CASE DfsReturn
  <2>1. Top \in Blocks
    BY <1>0, <1>2, TopFacts DEF DfsReturn
  <2>2. Len(post_order_vec) \in Nat /\ Append(post_order_vec, Top) \in Seq(Blocks)
    BY <1>0, <2>1 DEF DfsTypeOK
  <2> QED BY <1>0, <1>2, <2>1, <2>2 DEF DfsReturn, DfsTypeOK
<1>3. CASE UNCHANGED dfsVars
  BY <1>0, <1>3 DEF dfsVars, DfsTypeOK
<1> QED BY <1>1, <1>2, <1>3, DfsFrame

LEMMA StepIdomType == Inv /\ [Next]_vars => IdomTypeOK'
<1> SUFFICES ASSUME Inv, [Next]_vars PROVE IdomTypeOK'
  OBVIOUS
<1>0. TypeOK /\ IdomTypeOK /\ Control
  BY DEF Inv, TypeOK
<1> USE DEF IdomTypeOK, BlockOrNull
<1>1. CASE StartIdom
  BY <1>0, <1>1 DEF StartIdom
<1>2. CASE StartBlock
  BY <1>0, <1>2, PreFacts DEF StartBlock, Processed
<1>3. CASE FoldPred
  <2>1. bb \in Blocks /\ i \in Nat \ {0}
    BY <1>0, <1>3 DEF FoldPred, Control, InFold, TypeOK, LoopTypeOK
  <2>2. Pre(bb)[i] \in Blocks
    BY <1>0, <1>3, <2>1, PreFacts DEF FoldPred
  <2> QED BY <1>0, <1>3, <2>2 DEF FoldPred
<1>4. CASE ClimbFirst
  BY <1>0, <1>4 DEF ClimbFirst, Control
<1>5. CASE ClimbSecond
  BY <1>0, <1>5 DEF ClimbSecond, Control
<1>6. CASE Met
  BY <1>0, <1>6 DEF Met
<1>7. CASE CommitBlock
  BY <1>0, <1>7 DEF CommitBlock
<1>8. CASE EndSweep
  BY <1>0, <1>8 DEF EndSweep
<1>9. CASE UNCHANGED idomVars
  BY <1>0, <1>9 DEF idomVars
<1> QED BY <1>1, <1>2, <1>3, <1>4, <1>5, <1>6, <1>7, <1>8, <1>9, IdomFrame

LEMMA StepFrontierType == Inv /\ [Next]_vars => FrontierTypeOK'
<1> SUFFICES ASSUME Inv, [Next]_vars PROVE FrontierTypeOK'
  OBVIOUS
<1>0. TypeOK /\ IdomTypeOK /\ FrontierTypeOK /\ Control
  BY DEF Inv, TypeOK
<1>1. CASE FrontierBlock
  <2>1. Len(Pre(bb)) >= 2 => Pre(bb)[1] \in Blocks
    BY <1>0, <1>1, PreFacts DEF FrontierBlock
  <2>2. Len(Pre(bb)) \in Nat
    BY <1>0, <1>1, PreFacts DEF FrontierBlock
  <2> QED BY <1>0, <1>1, <2>1, <2>2 DEF FrontierBlock, FrontierTypeOK, BlockOrNull
<1>2. CASE RunnerClimb
  <2>1. runner \in Blocks /\ bb \in Blocks
    BY <1>0, <1>2 DEF RunnerClimb, FrontierTypeOK, Control, BlockOrNull
  <2> QED BY <1>0, <1>2, <2>1 DEF RunnerClimb, FrontierTypeOK, IdomTypeOK
<1>3. CASE RunnerArrived
  <2>1. bb \in Blocks /\ i + 1 \in Nat \ {0}
    BY <1>0, <1>3 DEF RunnerArrived, Control, TypeOK, LoopTypeOK
  <2>2. i < Len(Pre(bb)) => Pre(bb)[i + 1] \in Blocks
    BY <1>0, <2>1, PreFacts DEF TypeOK, LoopTypeOK
  <2> QED BY <1>0, <1>3, <2>2 DEF RunnerArrived, FrontierTypeOK, BlockOrNull
<1>4. CASE UNCHANGED dfVars
  BY <1>0, <1>4 DEF dfVars, FrontierTypeOK
<1>5. FrontierBlock \/ RunnerClimb \/ RunnerArrived \/ UNCHANGED dfVars
  <2>1. DfsSucc \/ DfsReturn \/ StartIdom \/ SkipBlock \/ StartBlock => UNCHANGED dfVars
    BY DEF DfsSucc, DfsReturn, StartIdom, SkipBlock, StartBlock
  <2>2. FoldPred \/ ClimbFirst \/ ClimbSecond \/ Met \/ CommitBlock \/ EndSweep => UNCHANGED dfVars
    BY DEF FoldPred, ClimbFirst, ClimbSecond, Met, CommitBlock, EndSweep
  <2>3. BuildTree \/ NumberChild \/ NumberReturn \/ RunnerLost \/ UNCHANGED vars => UNCHANGED dfVars
    BY DEF BuildTree, NumberChild, NumberReturn, RunnerLost, vars
  <2> QED BY <2>1, <2>2, <2>3, Phase
<1> QED BY <1>1, <1>2, <1>3, <1>4, <1>5

LEMMA StepNumberType == Inv /\ [Next]_vars => NumberTypeOK' /\ dom_tree_succ' \in [Blocks -> SUBSET Blocks]
<1> SUFFICES ASSUME Inv, [Next]_vars
             PROVE  NumberTypeOK' /\ dom_tree_succ' \in [Blocks -> SUBSET Blocks]
  OBVIOUS
<1>0. TypeOK /\ NumberTypeOK /\ dom_tree_succ \in [Blocks -> SUBSET Blocks]
  BY DEF Inv, TypeOK, LoopTypeOK
<1>1. CASE BuildTree
  <2>1. dom_tree_succ' \in [Blocks -> SUBSET Blocks]
    BY <1>1 DEF BuildTree
  <2>2. todo' \in [Blocks -> SUBSET Blocks]
    BY <1>0, <1>1, <2>1 DEF BuildTree, NumberTypeOK
  <2> QED BY <1>0, <1>1, <2>1, <2>2 DEF BuildTree, NumberTypeOK
<1>2. CASE NumberChild
  <2>1. Top \in Blocks
    BY <1>0, <1>2, TopFacts DEF NumberChild
  <2>2. PICK c \in todo[Top] :
          /\ todo' = [todo EXCEPT ![Top] = @ \ {c}, ![c] = dom_tree_succ[c]]
          /\ dom_tree_L' = [dom_tree_L EXCEPT ![c] = order + 1]
          /\ dom_dfs_order' = Append(dom_dfs_order, c)
    BY <1>2 DEF NumberChild
  <2>3. c \in Blocks
    BY <1>0, <2>1, <2>2 DEF NumberTypeOK
  <2>4. todo' \in [Blocks -> SUBSET Blocks]
    BY <1>0, <2>1, <2>2, <2>3 DEF NumberTypeOK
  <2>5. dom_dfs_order' \in Seq(Blocks) /\ dom_tree_L' \in [Blocks -> Nat]
    BY <1>0, <2>2, <2>3 DEF NumberTypeOK
  <2>6. order' = order + 1 /\ dom_tree_R' = dom_tree_R /\ dom_tree_succ' = dom_tree_succ
    BY <1>2 DEF NumberChild
  <2>7. order' \in Nat
    BY <1>0, <2>6 DEF NumberTypeOK
  <2> QED BY <1>0, <2>4, <2>5, <2>6, <2>7 DEF NumberTypeOK
<1>3. CASE NumberReturn
  <2>1. Top \in Blocks
    BY <1>0, <1>3, TopFacts DEF NumberReturn
  <2> QED BY <1>0, <1>3, <2>1 DEF NumberReturn, NumberTypeOK
<1>4. CASE UNCHANGED <<dom_tree_succ, numVars>>
  BY <1>0, <1>4 DEF numVars, NumberTypeOK
<1>5. BuildTree \/ NumberChild \/ NumberReturn \/ UNCHANGED <<dom_tree_succ, numVars>>
  <2>1. DfsSucc \/ DfsReturn \/ StartIdom \/ SkipBlock \/ StartBlock
          => UNCHANGED <<dom_tree_succ, numVars>>
    BY DEF DfsSucc, DfsReturn, StartIdom, SkipBlock, StartBlock
  <2>2. FoldPred \/ ClimbFirst \/ ClimbSecond \/ Met \/ CommitBlock \/ EndSweep
          => UNCHANGED <<dom_tree_succ, numVars>>
    BY DEF FoldPred, ClimbFirst, ClimbSecond, Met, CommitBlock, EndSweep
  <2>3. FrontierBlock \/ RunnerClimb \/ RunnerLost \/ RunnerArrived \/ UNCHANGED vars
          => UNCHANGED <<dom_tree_succ, numVars>>
    BY DEF FrontierBlock, RunnerClimb, RunnerLost, RunnerArrived, vars
  <2> QED BY <2>1, <2>2, <2>3, Phase
<1> QED BY <1>1, <1>2, <1>3, <1>4, <1>5

LEMMA StepStackType == Inv /\ [Next]_vars => cfg' = cfg /\ stack' \in Seq(Blocks)
<1> SUFFICES ASSUME Inv, [Next]_vars PROVE cfg' = cfg /\ stack' \in Seq(Blocks)
  OBVIOUS
<1>0. TypeOK /\ stack \in Seq(Blocks) /\ IsCfg(cfg)
  BY DEF Inv, TypeOK, LoopTypeOK
<1>1. CASE DfsSucc
  <2>1. Top \in Blocks /\ next[Top] \in Nat \ {0}
    BY <1>0, <1>1, TopFacts DEF DfsSucc, TypeOK, DfsTypeOK
  <2>2. cfg.succ[Top] \in Seq(Blocks)
    BY <1>0, <2>1 DEF IsCfg
  <2>3. next[Top] \in 1 .. Len(cfg.succ[Top])
    BY <1>1, <2>1, <2>2 DEF DfsSucc
  <2>4. cfg.succ[Top][next[Top]] \in Blocks
    BY <1>0, <2>1, <2>3, SuccEdge
  <2> QED BY <1>0, <1>1, <2>4 DEF DfsSucc
<1>2. CASE DfsReturn \/ NumberReturn
  BY <1>0, <1>2, TopFacts DEF DfsReturn, NumberReturn
<1>3. CASE StartIdom \/ SkipBlock \/ StartBlock \/ FoldPred
  BY <1>0, <1>3 DEF StartIdom, SkipBlock, StartBlock, FoldPred
<1>4. CASE ClimbFirst \/ ClimbSecond \/ Met \/ CommitBlock \/ EndSweep
  BY <1>0, <1>4 DEF ClimbFirst, ClimbSecond, Met, CommitBlock, EndSweep
<1>5. CASE FrontierBlock \/ RunnerClimb \/ RunnerLost \/ RunnerArrived
  BY <1>0, <1>5 DEF FrontierBlock, RunnerClimb, RunnerLost, RunnerArrived
<1>6. CASE BuildTree
  BY <1>0, <1>6 DEF BuildTree
<1>7. CASE NumberChild
  <2>1. Top \in Blocks
    BY <1>0, <1>7, TopFacts DEF NumberChild
  <2>2. todo[Top] \in SUBSET Blocks
    BY <1>0, <2>1 DEF TypeOK, NumberTypeOK
  <2> QED BY <1>0, <1>7, <2>2 DEF NumberChild
<1>8. CASE UNCHANGED vars
  BY <1>0, <1>8 DEF vars
<1> QED BY <1>1, <1>2, <1>3, <1>4, <1>5, <1>6, <1>7, <1>8, Phase

LEMMA StepPositions == Inv /\ [Next]_vars => pc' \in Phases /\ bb' \in 1 .. N + 1 /\ i' \in Nat \ {0}
<1> SUFFICES ASSUME Inv, [Next]_vars
             PROVE  pc' \in Phases /\ bb' \in 1 .. N + 1 /\ i' \in Nat \ {0}
  OBVIOUS
<1>0. TypeOK /\ Control /\ pc \in Phases /\ bb \in 1 .. N + 1 /\ i \in Nat \ {0} /\ N \in Nat \ {0}
  BY NAssumption DEF Inv, TypeOK, LoopTypeOK
<1> USE DEF Phases
<1>1. CASE DfsSucc \/ DfsReturn \/ StartIdom
  BY <1>0, <1>1 DEF DfsSucc, DfsReturn, StartIdom
<1>2. CASE SkipBlock \/ StartBlock \/ FoldPred
  BY <1>0, <1>2 DEF SkipBlock, StartBlock, FoldPred, Blocks
<1>3. CASE ClimbFirst \/ ClimbSecond \/ Met \/ EndSweep
  BY <1>0, <1>3 DEF ClimbFirst, ClimbSecond, Met, EndSweep
<1>4. CASE CommitBlock
  <2>1. bb \in 1 .. N
    BY <1>0, <1>4 DEF CommitBlock, Control, InFold, Blocks
  <2> QED BY <1>0, <1>4, <2>1 DEF CommitBlock
<1>5. CASE FrontierBlock \/ RunnerClimb \/ RunnerLost
  BY <1>0, <1>5 DEF FrontierBlock, RunnerClimb, RunnerLost, Blocks
<1>6. CASE RunnerArrived
  <2>1. bb \in 1 .. N
    BY <1>0, <1>6 DEF RunnerArrived, Control, Blocks
  <2> QED BY <1>0, <1>6, <2>1 DEF RunnerArrived
<1>7. CASE BuildTree \/ NumberChild \/ NumberReturn
  BY <1>0, <1>7 DEF BuildTree, NumberChild, NumberReturn
<1>8. CASE UNCHANGED vars
  BY <1>0, <1>8 DEF vars
<1> QED BY <1>1, <1>2, <1>3, <1>4, <1>5, <1>6, <1>7, <1>8, Phase

LEMMA StepTypeOK == Inv /\ [Next]_vars => TypeOK' /\ cfg' = cfg
<1> SUFFICES ASSUME Inv, [Next]_vars PROVE TypeOK' /\ cfg' = cfg
  OBVIOUS
<1>1. IsCfg(cfg)
  BY DEF Inv, TypeOK, LoopTypeOK
<1>2. LoopTypeOK'
  BY <1>1, StepStackType, StepPositions, StepNumberType DEF LoopTypeOK
<1> QED BY <1>2, StepStackType, StepDfsType, StepIdomType, StepFrontierType, StepNumberType DEF TypeOK
-----------------------------------------------------------------------------
(***************************************************************************)
(* Every step keeps the search's invariant.                                *)
(***************************************************************************)
LEMMA StepDfsInv == Inv /\ [Next]_vars => DfsInv'
<1> SUFFICES ASSUME Inv, [Next]_vars PROVE DfsInv'
  OBVIOUS
<1>0. TypeOK /\ DfsInv /\ IsCfg(cfg) /\ stack \in Seq(Blocks) /\ DfsTypeOK
  BY DEF Inv, TypeOK, LoopTypeOK
<1>1. CASE DfsSucc
  <2> DEFINE s == cfg.succ[Top][next[Top]]
  <2>1. /\ pc = "dfs" /\ pc' = "dfs" /\ cfg' = cfg
        /\ post_order' = post_order /\ post_order_vec' = post_order_vec
        /\ visited' = visited \cup {s}
        /\ stack' = IF s \in visited THEN stack ELSE Append(stack, s)
        /\ next' = [next EXCEPT ![Top] = @ + 1]
        /\ stack # << >>
        /\ next[Top] <= Len(cfg.succ[Top])
    BY <1>1 DEF DfsSucc, dfsVars
  <2>2. Top \in Blocks /\ Top \in Members(stack) /\ Len(stack) \in Nat \ {0} /\ Top = stack[Len(stack)]
    BY <1>0, <2>1, TopFacts DEF Top
  <2>3. cfg.succ[Top] \in Seq(Blocks) /\ next[Top] \in Nat \ {0}
    BY <1>0, <2>2 DEF DfsTypeOK, IsCfg
  <2>4. s \in Blocks /\ Edge(cfg, Top, s)
    <3>1. next[Top] \in 1 .. Len(cfg.succ[Top])
      BY <2>1, <2>3
    <3> QED BY <1>0, <2>2, <3>1, SuccEdge
  <2> HIDE DEF s
  <2>5. Active = Members(stack) /\ Active' = Members(stack') /\ Members(stack') \subseteq Members(stack) \cup {s}
        /\ Members(stack) \subseteq Members(stack') /\ (s \notin visited => s \in Members(stack'))
    BY <1>0, <2>1, <2>4, MembersAppend DEF Active
  <2>6. visited' = Active' \cup {b \in Blocks : post_order'[b] # -1}
    BY <1>0, <2>1, <2>4, <2>5 DEF DfsInv
  <2>7. \A k \in 1 .. Len(stack') : \A d \in Blocks :
          StrictlyDominates(cfg, d, stack'[k]) => \E j \in 1 .. k - 1 : stack'[j] = d
    <3>1. CASE s \in visited
      BY <1>0, <2>1, <3>1 DEF DfsInv
    <3>2. CASE s \notin visited
      <4>1. /\ Len(stack') = Len(stack) + 1
            /\ \A j \in 1 .. Len(stack) : stack'[j] = stack[j]
            /\ stack'[Len(stack) + 1] = s
        BY <1>0, <2>1, <2>4, <3>2
      <4>2. ASSUME NEW k \in 1 .. Len(stack'), NEW d \in Blocks,
                   StrictlyDominates(cfg, d, stack'[k])
            PROVE  \E j \in 1 .. k - 1 : stack'[j] = d
        <5>1. CASE k \in 1 .. Len(stack)
          <6>1. PICK j \in 1 .. k - 1 : stack[j] = d
            BY <1>0, <2>1, <4>1, <4>2, <5>1 DEF DfsInv
          <6>2. j \in 1 .. Len(stack)
            BY <2>2, <5>1, <6>1
          <6> QED BY <4>1, <6>1, <6>2
        <5>2. CASE k = Len(stack) + 1
          <6>1. Dominates(cfg, d, Top)
            BY <2>2, <2>4, <4>1, <4>2, <5>2, DominatesPred
          <6>2. CASE d = Top
            <7>1. Len(stack) \in 1 .. k - 1 /\ stack'[Len(stack)] = d
              BY <2>2, <4>1, <5>2, <6>2
            <7> QED BY <7>1
          <6>3. CASE d # Top
            <7>1. StrictlyDominates(cfg, d, stack[Len(stack)]) /\ Len(stack) \in 1 .. Len(stack)
              BY <2>2, <6>1, <6>3 DEF StrictlyDominates
            <7>2. PICK j \in 1 .. Len(stack) - 1 : stack[j] = d
              BY <1>0, <2>1, <7>1 DEF DfsInv
            <7>3. j \in 1 .. k - 1 /\ stack'[j] = d
              BY <2>2, <4>1, <5>2, <7>2
            <7> QED BY <7>3
          <6> QED BY <6>2, <6>3
        <5> QED BY <2>2, <4>1, <5>1, <5>2
      <4> QED BY <4>2
    <3> QED BY <3>1, <3>2
  <2>8. \A b, d \in Blocks : post_order'[b] # -1 /\ StrictlyDominates(cfg, d, b) =>
          d \in Active' \/ post_order'[d] > post_order'[b]
    BY <1>0, <2>1, <2>5 DEF DfsInv
  <2>9. ASSUME NEW b \in visited', NEW j \in 1 .. Len(cfg.succ[b]),
               j < next'[b] \/ post_order'[b] # -1
        PROVE  cfg.succ[b][j] \in visited'
    <3>0. b \in Blocks /\ cfg.succ[b] \in Seq(Blocks) /\ j \in Nat
      <4>1. b \in Blocks
        BY <1>0, <2>1, <2>4, <2>9 DEF DfsTypeOK
      <4>2. cfg.succ[b] \in Seq(Blocks)
        BY <1>0, <4>1 DEF IsCfg
      <4> QED BY <2>9, <4>1, <4>2
    <3>1. CASE b \in visited /\ (j < next[b] \/ post_order[b] # -1)
      BY <1>0, <2>1, <3>1 DEF DfsInv
    <3>2. CASE b = Top /\ j = next[Top]
      BY <2>1, <3>2 DEF s
    <3>3. CASE b \notin visited
      <4>1. next[b] = 1 /\ post_order[b] = -1 /\ b # Top
        BY <1>0, <2>1, <2>2, <2>5, <3>0, <3>3 DEF DfsInv
      <4>2. next'[b] = 1
        BY <1>0, <2>1, <3>0, <4>1 DEF DfsTypeOK
      <4> QED BY <2>1, <2>9, <4>1, <4>2
    <3>4. CASE b \in visited /\ b # Top
      BY <1>0, <2>1, <2>9, <3>0, <3>1, <3>4 DEF DfsTypeOK
    <3>5. CASE b = Top
      <4>1. next'[b] = next[b] + 1 /\ Top \in visited
        BY <1>0, <2>1, <2>2, <2>5, <3>5 DEF DfsTypeOK, DfsInv
      <4> QED BY <2>1, <2>3, <2>9, <3>1, <3>2, <3>5, <4>1
    <3> QED BY <3>3, <3>4, <3>5
  <2>10. \A b \in Blocks \ visited' : next'[b] = 1
    BY <1>0, <2>1, <2>2, <2>5 DEF DfsInv, DfsTypeOK
  <2>11. /\ Entry \in visited'
         /\ \A b \in Blocks : post_order'[b] < Len(post_order_vec')
         /\ \A b, c \in Blocks : post_order'[b] = post_order'[c] /\ b # c => post_order'[b] = -1
    BY <1>0, <2>1 DEF DfsInv
  <2>12. \A b \in visited' : \A j \in 1 .. Len(cfg'.succ[b]) :
           j < next'[b] \/ post_order'[b] # -1 => cfg'.succ[b][j] \in visited'
    BY <2>1, <2>9
  <2> QED BY <2>1, <2>6, <2>7, <2>8, <2>10, <2>11, <2>12 DEF DfsInv
<1>2. CASE DfsReturn
  <2>1. /\ pc = "dfs" /\ pc' = "dfs" /\ cfg' = cfg /\ visited' = visited /\ next' = next
        /\ post_order' = [post_order EXCEPT ![Top] = Len(post_order_vec)]
        /\ post_order_vec' = Append(post_order_vec, Top)
        /\ stack' = Pop
        /\ stack # << >>
        /\ next[Top] > Len(cfg.succ[Top])
    BY <1>2 DEF DfsReturn
  <2>2. /\ Top \in Blocks /\ Len(stack) \in Nat \ {0} /\ Top = stack[Len(stack)]
        /\ Pop \in Seq(Blocks) /\ Len(Pop) = Len(stack) - 1
        /\ \A j \in 1 .. Len(stack) - 1 : Pop[j] = stack[j]
        /\ Members(stack) = Members(Pop) \cup {Top}
    BY <1>0, <2>1, TopFacts DEF Top
  <2>3. Active = Members(stack) /\ Active' = Members(Pop)
    BY <2>1 DEF Active
  <2>4. /\ Len(post_order_vec') = Len(post_order_vec) + 1
        /\ Len(post_order_vec) \in Nat
        /\ post_order'[Top] = Len(post_order_vec)
        /\ \A b \in Blocks : post_order[b] \in Nat \cup {-1} /\ post_order[b] < Len(post_order_vec)
        /\ \A b \in Blocks \ {Top} : post_order'[b] = post_order[b]
    BY <1>0, <2>1, <2>2 DEF DfsTypeOK, DfsInv
  <2>5. visited' = Active' \cup {b \in Blocks : post_order'[b] # -1}
    BY <1>0, <2>1, <2>2, <2>3, <2>4 DEF DfsInv
  <2>6. /\ \A b \in Blocks : post_order'[b] < Len(post_order_vec')
        /\ \A b, c \in Blocks : post_order'[b] = post_order'[c] /\ b # c => post_order'[b] = -1
    BY <1>0, <2>2, <2>4 DEF DfsInv
  <2>7. ASSUME NEW k \in 1 .. Len(stack'), NEW d \in Blocks, StrictlyDominates(cfg, d, stack'[k])
        PROVE  \E j \in 1 .. k - 1 : stack'[j] = d
    <3>1. k \in 1 .. Len(stack) /\ stack'[k] = stack[k] /\ k - 1 <= Len(stack) - 1
      BY <2>1, <2>2
    <3>2. PICK j \in 1 .. k - 1 : stack[j] = d
      BY <1>0, <2>1, <2>7, <3>1 DEF DfsInv
    <3>3. j \in 1 .. Len(stack) - 1
      BY <2>2, <3>1, <3>2
    <3> QED BY <2>1, <2>2, <3>2, <3>3
  <2>8. ASSUME NEW b \in Blocks, NEW d \in Blocks, post_order'[b] # -1, StrictlyDominates(cfg, d, b)
        PROVE  d \in Active' \/ post_order'[d] > post_order'[b]
    <3>1. d # b
      BY <2>8 DEF StrictlyDominates
    <3>2. CASE b = Top
      <4>0. StrictlyDominates(cfg, d, stack[Len(stack)]) /\ Len(stack) \in 1 .. Len(stack)
        BY <2>1, <2>2, <2>8, <3>2
      <4>1. PICK j \in 1 .. Len(stack) - 1 : stack[j] = d
        <5>1. \A k \in 1 .. Len(stack) : \A c \in Blocks :
                StrictlyDominates(cfg, c, stack[k]) => \E j \in 1 .. k - 1 : stack[j] = c
          BY <1>0, <2>1 DEF DfsInv
        <5> QED BY <4>0, <5>1
      <4>2. Pop[j] = d /\ j \in 1 .. Len(Pop)
        BY <2>2, <4>1
      <4> QED BY <2>3, <4>2 DEF Members
    <3>3. CASE b # Top /\ d = Top
      BY <2>4, <3>3
    <3>4. CASE b # Top /\ d # Top
      <4>1. d \in Active \/ post_order[d] > post_order[b]
        BY <1>0, <2>4, <2>8, <3>4 DEF DfsInv
      <4> QED BY <2>2, <2>3, <2>4, <3>4, <4>1
    <3> QED BY <3>2, <3>3, <3>4
  <2>9. ASSUME NEW b \in visited, NEW j \in 1 .. Len(cfg.succ[b]),
               j < next[b] \/ post_order'[b] # -1
        PROVE  cfg.succ[b][j] \in visited
    <3>0. b \in Blocks /\ cfg.succ[b] \in Seq(Blocks) /\ next[b] \in Nat
      BY <1>0, <2>9 DEF DfsTypeOK, IsCfg
    <3>1. CASE b = Top
      BY <1>0, <2>1, <2>9, <3>0, <3>1 DEF DfsInv
    <3>2. CASE b # Top
      BY <1>0, <2>4, <2>9, <3>0, <3>2 DEF DfsInv
    <3> QED BY <3>1, <3>2
  <2>10. Entry \in visited /\ \A b \in Blocks \ visited : next[b] = 1
    BY <1>0 DEF DfsInv
  <2> QED BY <2>1, <2>5, <2>6, <2>7, <2>8, <2>9, <2>10 DEF DfsInv
<1>3. CASE UNCHANGED <<cfg, dfsVars>> /\ StartIdom
  <2>1. Members(stack) = {} /\ pc = "dfs" /\ pc' = "sweep"
    BY <1>3 DEF StartIdom, Members
  <2>2. Active = {} /\ Active' = {}
    BY <2>1 DEF Active
  <2> QED BY <1>0, <1>3, <2>1, <2>2 DEF DfsInv, dfsVars
<1>4. CASE UNCHANGED <<cfg, dfsVars>> /\ pc # "dfs" /\ pc' # "dfs"
  <2>1. Active = {} /\ Active' = {}
    BY <1>4 DEF Active
  <2> QED BY <1>0, <1>4, <2>1 DEF DfsInv, dfsVars
<1>5. CASE UNCHANGED <<cfg, dfsVars>> /\ UNCHANGED <<pc, stack>>
  <2>1. Active = Active'
    BY <1>5 DEF Active
  <2> QED BY <1>0, <1>5, <2>1 DEF DfsInv, dfsVars
<1> QED BY <1>1, <1>2, <1>3, <1>4, <1>5, DfsFrame
-----------------------------------------------------------------------------
(***************************************************************************)
(* Every step keeps the bookkeeping of create_idom.                        *)
(***************************************************************************)
LEMMA StepIdomNumbered == Inv /\ [Next]_vars => IdomNumbered'
<1> SUFFICES ASSUME Inv, [Next]_vars PROVE IdomNumbered'
  OBVIOUS
<1>0. TypeOK /\ IdomTypeOK /\ DfsInv /\ IdomNumbered /\ Control
  BY DEF Inv, TypeOK
<1>1. CASE StartIdom
  <2>1. Members(stack) = {} /\ Active = Members(stack)
    BY <1>1 DEF StartIdom, Members, Active
  <2>2. post_order[Entry] # -1
    BY <1>0, <2>1 DEF DfsInv
  <2> QED BY <1>0, <1>1, <2>2 DEF StartIdom, IdomNumbered, dfsVars, IdomTypeOK
<1>2. CASE CommitBlock
  BY <1>0, <1>2 DEF CommitBlock, IdomNumbered, Control, InFold, dfsVars, IdomTypeOK
<1>3. CASE UNCHANGED <<idom, post_order>> /\ (pc # "dfs" => pc' # "dfs")
  BY <1>0, <1>3 DEF IdomNumbered
<1>4. CASE DfsSucc \/ DfsReturn
  <2>1. UNCHANGED idom /\ pc = "dfs"
    BY <1>4 DEF DfsSucc, DfsReturn, idomVars
  <2> QED BY <1>0, <2>1 DEF IdomNumbered
<1>5. CASE SkipBlock \/ StartBlock \/ FoldPred
  BY <1>3, <1>5 DEF SkipBlock, StartBlock, FoldPred, dfsVars, idomVars
<1>6. CASE ClimbFirst \/ ClimbSecond \/ Met \/ EndSweep
  BY <1>3, <1>6 DEF ClimbFirst, ClimbSecond, Met, EndSweep, dfsVars
<1>7. CASE FrontierBlock \/ RunnerClimb \/ RunnerLost \/ RunnerArrived
  BY <1>3, <1>7 DEF FrontierBlock, RunnerClimb, RunnerLost, RunnerArrived, dfsVars, idomVars
<1>8. CASE BuildTree \/ NumberChild \/ NumberReturn
  BY <1>3, <1>8 DEF BuildTree, NumberChild, NumberReturn, dfsVars, idomVars
<1>9. CASE UNCHANGED vars
  BY <1>3, <1>9 DEF vars, dfsVars, idomVars
<1> QED BY <1>1, <1>2, <1>4, <1>5, <1>6, <1>7, <1>8, <1>9, Phase

(* A block with a processed predecessor was visited by the search.         *)
LEMMA ProcessedNumbered ==
  ASSUME Inv, pc # "dfs", NEW b \in Blocks, NEW j \in 1 .. Len(Pre(b)), idom[Pre(b)[j]] # nullptr
  PROVE  post_order[b] # -1
<1>1. TypeOK /\ DfsInv /\ IdomNumbered /\ IsCfg(cfg)
  BY DEF Inv, TypeOK, LoopTypeOK
<1> DEFINE p == Pre(b)[j]
<1>2. p \in Blocks /\ Edge(cfg, p, b)
  BY <1>1, PreFacts
<1>3. p \in visited /\ post_order[p] # -1
  BY <1>1, <1>2 DEF IdomNumbered, DfsInv
<1>4. PICK l \in 1 .. Len(cfg.succ[p]) : cfg.succ[p][l] = b
  BY <1>2 DEF Edge, Members
<1>5. b \in visited
  BY <1>1, <1>3, <1>4 DEF DfsInv
<1> QED BY <1>1, <1>5 DEF DfsInv, Active

LEMMA StepControl == Inv /\ [Next]_vars => Control'
<1> SUFFICES ASSUME Inv, [Next]_vars PROVE Control'
  OBVIOUS
<1>0. TypeOK /\ IdomTypeOK /\ FrontierTypeOK /\ Control /\ IdomNumbered
  BY DEF Inv, TypeOK
<1>1. CASE DfsSucc
  BY <1>0, <1>1 DEF DfsSucc, Control, InFold, idomVars
<1>2. CASE DfsReturn
  BY <1>0, <1>2 DEF DfsReturn, Control, InFold, idomVars
<1>3. CASE StartIdom
  <2>1. \A b \in Blocks : idom[b] = nullptr
    BY <1>0, <1>3 DEF StartIdom, IdomNumbered
  <2>2. idom' = [idom EXCEPT ![Entry] = Entry] /\ pc' = "sweep"
    BY <1>3 DEF StartIdom
  <2> QED BY <1>0, <2>1, <2>2 DEF Control, InFold, IdomTypeOK
<1>4. CASE SkipBlock
  BY <1>0, <1>4 DEF SkipBlock, Control, InFold, idomVars
<1>5. CASE StartBlock
  <2>1. PICK j \in Processed(bb) : new_idom' = Pre(bb)[j]
    BY <1>5 DEF StartBlock
  <2>2. bb \in Blocks \ {Entry} /\ pc = "sweep"
    BY <1>5 DEF StartBlock
  <2>3. j \in 1 .. Len(Pre(bb)) /\ idom[Pre(bb)[j]] # nullptr
    BY <2>1 DEF Processed
  <2>4. Pre(bb)[j] \in Blocks
    BY <1>0, <2>2, <2>3, PreFacts
  <2>5. post_order[bb] # -1
    BY <2>2, <2>3, ProcessedNumbered
  <2> QED BY <1>0, <1>5, <2>1, <2>2, <2>3, <2>4, <2>5
          DEF StartBlock, Control, InFold, dfsVars
<1>6. CASE FoldPred
  <2>1. bb \in Blocks /\ i \in 1 .. Len(Pre(bb))
    BY <1>0, <1>6, PreFacts DEF FoldPred, Control, InFold, TypeOK, LoopTypeOK
  <2>2. Pre(bb)[i] \in Blocks
    BY <1>0, <2>1, PreFacts
  <2> QED BY <1>0, <1>6, <2>2 DEF FoldPred, Control, InFold, dfsVars
<1>7. CASE ClimbFirst
  <2>1. idom[b1] \in Blocks /\ idom[idom[b1]] # nullptr
    BY <1>0, <1>7 DEF ClimbFirst, Control, IdomTypeOK, BlockOrNull
  <2> QED BY <1>0, <1>7, <2>1 DEF ClimbFirst, Control, InFold, dfsVars
<1>8. CASE ClimbSecond
  <2>1. idom[b2] \in Blocks /\ idom[idom[b2]] # nullptr
    BY <1>0, <1>8 DEF ClimbSecond, Control, IdomTypeOK, BlockOrNull
  <2> QED BY <1>0, <1>8, <2>1 DEF ClimbSecond, Control, InFold, dfsVars
<1>9. CASE Met
  BY <1>0, <1>9 DEF Met, Control, InFold, dfsVars
<1>10. CASE CommitBlock
  <2>1. idom' = [idom EXCEPT ![bb] = new_idom] /\ pc' = "sweep"
        /\ bb \in Blocks \ {Entry} /\ new_idom \in Blocks /\ idom[new_idom] # nullptr
    BY <1>0, <1>10 DEF CommitBlock, Control, InFold
  <2>2. \A b \in Blocks : idom[b] # nullptr => idom'[b] # nullptr
    BY <1>0, <2>1 DEF IdomTypeOK
  <2>3. \A b \in Blocks : idom'[b] # nullptr => idom'[idom'[b]] # nullptr
    BY <1>0, <2>1, <2>2 DEF IdomTypeOK, Control, BlockOrNull
  <2> QED BY <1>0, <2>1, <2>3 DEF Control, InFold, IdomTypeOK
<1>11. CASE EndSweep
  BY <1>0, <1>11 DEF EndSweep, Control, InFold
<1>12. CASE FrontierBlock
  BY <1>0, <1>12 DEF FrontierBlock, Control, InFold, idomVars
<1>13. CASE RunnerClimb \/ RunnerLost
  BY <1>0, <1>13 DEF RunnerClimb, RunnerLost, Control, InFold, idomVars
<1>14. CASE RunnerArrived
  BY <1>0, <1>14 DEF RunnerArrived, Control, InFold, idomVars
<1>15. CASE BuildTree \/ NumberChild \/ NumberReturn
  BY <1>0, <1>15 DEF BuildTree, NumberChild, NumberReturn, Control, InFold, idomVars
<1>16. CASE UNCHANGED vars
  BY <1>0, <1>16 DEF vars, Control, InFold, idomVars, dfsVars
<1> QED BY <1>1, <1>2, <1>3, <1>4, <1>5, <1>6, <1>7, <1>8, <1>9, <1>10, <1>11, <1>12,
           <1>13, <1>14, <1>15, <1>16, Phase
-----------------------------------------------------------------------------
(***************************************************************************)
(* Every step keeps the guess sound.                                       *)
(***************************************************************************)
(* The finger with the smaller number never stands on a common dominator,  *)
(* so it may climb.                                                        *)
LEMMA ClimbSound ==
  ASSUME Inv, NEW x \in Blocks, NEW y \in Blocks, x # y,
         idom[x] # nullptr, idom[y] # nullptr, post_order[x] < post_order[y],
         NEW d \in Blocks, Dominates(cfg, d, x), Dominates(cfg, d, y)
  PROVE  Dominates(cfg, d, idom[x])
<1>0. TypeOK /\ DfsInv /\ IdomNumbered /\ IdomSound /\ DfsTypeOK /\ Control
  BY DEF Inv, TypeOK
<1>1. post_order[x] # -1 /\ post_order[y] # -1 /\ pc # "dfs"
  BY <1>0 DEF IdomNumbered
<1>2. d # x
  <2> SUFFICES ASSUME d = x PROVE FALSE
    OBVIOUS
  <2>1. StrictlyDominates(cfg, x, y)
    BY DEF StrictlyDominates
  <2>2. post_order[x] > post_order[y]
    BY <1>0, <1>1, <2>1 DEF DfsInv, Active
  <2>3. post_order[x] \in Int /\ post_order[y] \in Int
    BY <1>0 DEF DfsTypeOK
  <2> QED BY <2>2, <2>3
<1>3. StrictlyDominates(cfg, d, x)
  BY <1>2 DEF StrictlyDominates
<1>4. x # Entry
  BY <1>2, DominatesEntry
<1> QED BY <1>0, <1>3, <1>4 DEF IdomSound

LEMMA StepFoldSound == Inv /\ [Next]_vars => FoldSound'
<1> SUFFICES ASSUME Inv, [Next]_vars PROVE FoldSound'
  OBVIOUS
<1>0. TypeOK /\ FoldSound /\ Control /\ IdomNumbered /\ IdomTypeOK /\ cfg' = cfg
  BY StepTypeOK DEF Inv, TypeOK
<1>1. CASE StartBlock
  <2>1. PICK j \in Processed(bb) : new_idom' = Pre(bb)[j]
    BY <1>1 DEF StartBlock
  <2>2. bb \in Blocks /\ bb' = bb /\ pc' = "fold"
    BY <1>1 DEF StartBlock
  <2>3. new_idom' \in Blocks /\ Edge(cfg, new_idom', bb)
    BY <1>0, <2>1, <2>2, PreFacts DEF Processed
  <2>4. \A d \in Blocks : StrictlyDominates(cfg, d, bb) => Dominates(cfg, d, new_idom')
    BY <2>2, <2>3, DominatesPred
  <2> QED BY <1>0, <2>2, <2>4 DEF FoldSound
<1>2. CASE FoldPred
  <2>1. bb \in Blocks /\ i \in 1 .. Len(Pre(bb)) /\ bb' = bb /\ new_idom' = new_idom /\ InFold
    BY <1>0, <1>2, PreFacts DEF FoldPred, Control, InFold, TypeOK, LoopTypeOK
  <2>2. Pre(bb)[i] \in Blocks /\ Edge(cfg, Pre(bb)[i], bb)
    BY <1>0, <2>1, PreFacts
  <2>3. \A d \in Blocks : StrictlyDominates(cfg, d, bb) =>
          Dominates(cfg, d, new_idom) /\ Dominates(cfg, d, Pre(bb)[i])
    BY <1>0, <2>1, <2>2, DominatesPred DEF FoldSound
  <2>4. pc' = "intersect" => b1' = new_idom /\ b2' = Pre(bb)[i]
    BY <1>2 DEF FoldPred
  <2> QED BY <1>0, <2>1, <2>3, <2>4 DEF FoldSound
<1>3. CASE ClimbFirst
  <2>1. /\ pc = "intersect" /\ pc' = "intersect" /\ bb' = bb /\ new_idom' = new_idom
        /\ b1 # b2 /\ post_order[b1] < post_order[b2] /\ b1' = idom[b1] /\ b2' = b2
    BY <1>3 DEF ClimbFirst, Below
  <2>2. /\ b1 \in Blocks /\ b2 \in Blocks /\ idom[b1] # nullptr /\ idom[b2] # nullptr
    BY <1>0, <2>1 DEF Control
  <2>3. \A d \in Blocks : StrictlyDominates(cfg, d, bb) => Dominates(cfg, d, idom[b1])
    BY <1>0, <2>1, <2>2, ClimbSound DEF FoldSound
  <2> QED BY <1>0, <2>1, <2>3 DEF FoldSound, InFold
<1>4. CASE ClimbSecond
  <2>1. /\ pc = "intersect" /\ pc' = "intersect" /\ bb' = bb /\ new_idom' = new_idom
        /\ b1 # b2 /\ post_order[b2] < post_order[b1] /\ b2' = idom[b2] /\ b1' = b1
    BY <1>4 DEF ClimbSecond, Below
  <2>2. /\ b1 \in Blocks /\ b2 \in Blocks /\ idom[b1] # nullptr /\ idom[b2] # nullptr
    BY <1>0, <2>1 DEF Control
  <2>3. \A d \in Blocks : StrictlyDominates(cfg, d, bb) => Dominates(cfg, d, idom[b2])
    BY <1>0, <2>1, <2>2, ClimbSound DEF FoldSound
  <2> QED BY <1>0, <2>1, <2>3 DEF FoldSound, InFold
<1>5. CASE Met
  <2>1. pc = "intersect" /\ pc' = "fold" /\ bb' = bb /\ new_idom' = b1
    BY <1>5 DEF Met
  <2> QED BY <1>0, <2>1 DEF FoldSound, InFold
<1>6. CASE ~ InFold' \/ UNCHANGED vars
  BY <1>0, <1>6 DEF FoldSound, InFold, vars, idomVars
<1>7. StartBlock \/ FoldPred \/ ClimbFirst \/ ClimbSecond \/ Met \/ ~ InFold' \/ UNCHANGED vars
  <2>1. DfsSucc \/ DfsReturn \/ StartIdom \/ SkipBlock \/ CommitBlock \/ EndSweep => ~ InFold'
    BY DEF DfsSucc, DfsReturn, StartIdom, SkipBlock, CommitBlock, EndSweep, InFold
  <2>2. FrontierBlock \/ RunnerClimb \/ RunnerLost \/ RunnerArrived => ~ InFold'
    BY DEF FrontierBlock, RunnerClimb, RunnerLost, RunnerArrived, InFold
  <2>3. BuildTree \/ NumberChild \/ NumberReturn => ~ InFold'
    BY DEF BuildTree, NumberChild, NumberReturn, InFold
  <2> QED BY <2>1, <2>2, <2>3, Phase
<1> QED BY <1>1, <1>2, <1>3, <1>4, <1>5, <1>6, <1>7

LEMMA StepIdomSound == Inv /\ [Next]_vars => IdomSound'
<1> SUFFICES ASSUME Inv, [Next]_vars PROVE IdomSound'
  OBVIOUS
<1>0. IdomSound /\ FoldSound /\ Control /\ IdomTypeOK /\ cfg' = cfg
  BY StepTypeOK DEF Inv, TypeOK
<1>1. CASE StartIdom
  <2>1. \A b \in Blocks \ {Entry} : idom'[b] = idom[b]
    BY <1>0, <1>1 DEF StartIdom, IdomTypeOK
  <2> QED BY <1>0, <2>1 DEF IdomSound
<1>2. CASE CommitBlock
  <2>1. idom' = [idom EXCEPT ![bb] = new_idom] /\ bb \in Blocks /\ InFold
    BY <1>0, <1>2 DEF CommitBlock, Control, InFold
  <2>2. \A d \in Blocks : StrictlyDominates(cfg, d, bb) => Dominates(cfg, d, new_idom)
    BY <1>0, <2>1 DEF FoldSound
  <2>3. \A b \in Blocks : idom'[b] = IF b = bb THEN new_idom ELSE idom[b]
    BY <1>0, <2>1 DEF IdomTypeOK
  <2> QED BY <1>0, <2>2, <2>3 DEF IdomSound
<1>3. CASE UNCHANGED idom
  BY <1>0, <1>3 DEF IdomSound
<1>4. StartIdom \/ CommitBlock \/ UNCHANGED idom
  <2>1. StartBlock \/ FoldPred \/ ClimbFirst \/ ClimbSecond \/ Met \/ EndSweep => UNCHANGED idom
    BY DEF StartBlock, FoldPred, ClimbFirst, ClimbSecond, Met, EndSweep
  <2> QED BY <2>1, IdomFrame DEF idomVars
<1> QED BY <1>1, <1>2, <1>3, <1>4
-----------------------------------------------------------------------------
LEMMA StepInv == Inv /\ [Next]_vars => Inv'
BY StepTypeOK, StepControl, StepDfsInv, StepIdomNumbered, StepFoldSound, StepIdomSound DEF Inv

LEMMA Invariance == Spec => []Inv
<1>1. Init => Inv
  BY InitInv
<1>2. Inv /\ [Next]_vars => Inv'
  BY StepInv
<1> QED BY <1>1, <1>2, PTL DEF Spec

(* Every variable keeps its type on every graph.                           *)
THEOREM TypeCorrect == Spec => []TypeOK
<1>1. Inv => TypeOK
  BY DEF Inv
<1> QED BY <1>1, Invariance, PTL

(* The guess of create_idom is never too deep.                             *)
THEOREM IdomSoundAlways == Spec => []IdomSound
<1>1. Inv => IdomSound
  BY DEF Inv
<1> QED BY <1>1, Invariance, PTL

(* intersect never throws and never spins on two blocks of equal number.   *)
THEOREM IntersectSafe == Spec => []FingersProcessed
<1>1. Inv => FingersProcessed
  BY DEF Inv, Control, IdomNumbered, DfsInv, FingersProcessed
<1> QED BY <1>1, Invariance, PTL
-----------------------------------------------------------------------------
(***************************************************************************)
(* Where create_idom stops it is right: the sweep that changes nothing     *)
(* leaves the immediate dominators, for every graph, in whatever order the *)
(* blocks stand in the list.                                               *)
(*                                                                         *)
(* The guess was shown never too deep.  Here: never too high either, once  *)
(* settled.  An ancestor of b is a block on the chain b, idom[b],          *)
(* idom[idom[b]] ...; a block is settled when its idom is an ancestor of   *)
(* each processed predecessor.                                             *)
(***************************************************************************)
(* The blocks that every set closed under f and holding b holds.           *)
AncOf(f, b) ==
  {a \in Blocks : \A T \in SUBSET Blocks :
     b \in T /\ (\A x \in T : f[x] # nullptr => f[x] \in T) => a \in T}

Settled(g, f, y) ==
  \A j \in 1 .. Len(g.pre[y]) :
    f[g.pre[y][j]] # nullptr => f[y] # nullptr /\ f[y] \in AncOf(f, g.pre[y][j])

FixedPoint(g, f) == f[Entry] = Entry /\ \A y \in Blocks \ {Entry} : Settled(g, f, y)
-----------------------------------------------------------------------------
(* Ancestors.                                                              *)

LEMMA AncRefl ==
  ASSUME NEW f, NEW b \in Blocks
  PROVE  b \in AncOf(f, b)
BY DEF AncOf

LEMMA AncStep ==
  ASSUME NEW f \in [Blocks -> BlockOrNull], NEW b \in Blocks, NEW a \in AncOf(f, b), f[a] # nullptr
  PROVE  f[a] \in AncOf(f, b)
<1>1. a \in Blocks
  BY DEF AncOf
<1>2. f[a] \in Blocks
  BY <1>1 DEF BlockOrNull
<1> QED BY <1>1, <1>2 DEF AncOf

LEMMA AncTrans ==
  ASSUME NEW f, NEW b \in Blocks, NEW c \in AncOf(f, b), NEW a \in AncOf(f, c)
  PROVE  a \in AncOf(f, b)
BY DEF AncOf

LEMMA AncUnfold ==
  ASSUME NEW f \in [Blocks -> BlockOrNull], NEW b \in Blocks, NEW a \in AncOf(f, b), a # b
  PROVE  f[b] \in Blocks /\ a \in AncOf(f, f[b])
<1>1. a \in Blocks
  BY DEF AncOf
<1>2. f[b] \in Blocks
  <2> SUFFICES ASSUME f[b] = nullptr PROVE FALSE
    BY DEF BlockOrNull
  <2>1. {b} \in SUBSET Blocks /\ b \in {b} /\ (\A x \in {b} : f[x] # nullptr => f[x] \in {b})
    OBVIOUS
  <2>2. a \in {b}
    BY <2>1 DEF AncOf
  <2> QED BY <2>2
<1>3. ASSUME NEW T \in SUBSET Blocks, f[b] \in T, \A x \in T : f[x] # nullptr => f[x] \in T
      PROVE  a \in T
  <2> DEFINE U == T \cup {b}
  <2>1. U \in SUBSET Blocks /\ b \in U /\ (\A x \in U : f[x] # nullptr => f[x] \in U)
    BY <1>3
  <2> HIDE DEF U
  <2>2. a \in U
    BY <2>1 DEF AncOf
  <2> QED BY <2>2 DEF U
<1> QED BY <1>1, <1>2, <1>3 DEF AncOf

LEMMA AncEntry ==
  ASSUME NEW f, f[Entry] = Entry, NEW a \in AncOf(f, Entry)
  PROVE  a = Entry
<1>1. {Entry} \in SUBSET Blocks
  OBVIOUS
<1>2. \A x \in {Entry} : f[x] # nullptr => f[x] \in {Entry}
  OBVIOUS
<1>3. Entry \in {Entry}
  OBVIOUS
<1>4. a \in {Entry}
  BY <1>1, <1>2, <1>3 DEF AncOf
<1> QED BY <1>4
-----------------------------------------------------------------------------
(* A fixed point is the dominator tree.                                    *)

LEMMA EdgeSettled ==
  ASSUME NEW g, IsCfg(g), NEW f, FixedPoint(g, f),
         NEW x \in Blocks, NEW y \in Blocks, Edge(g, x, y), f[x] # nullptr
  PROVE  y # Entry /\ f[y] # nullptr /\ f[y] \in AncOf(f, x)
<1>1. x \in Members(g.pre[y])
  BY DEF IsCfg, Edge
<1>2. y # Entry
  <2> SUFFICES ASSUME y = Entry PROVE FALSE
    OBVIOUS
  <2>1. Len(g.pre[y]) = 0
    BY DEF IsCfg
  <2> QED BY <1>1, <2>1 DEF Members
<1>3. PICK j \in 1 .. Len(g.pre[y]) : g.pre[y][j] = x
  BY <1>1 DEF Members
<1> QED BY <1>2, <1>3 DEF FixedPoint, Settled

LEMMA ReachableProcessed ==
  ASSUME NEW g, IsCfg(g), NEW f, FixedPoint(g, f), NEW b \in Blocks, Reachable(g, b)
  PROVE  f[b] # nullptr
<1> DEFINE S == {x \in Blocks : f[x] # nullptr}
<1>1. Entry \in S
  BY DEF FixedPoint
<1>2. Closed(g, S)
  <2>1. ASSUME NEW x \in S, NEW y \in Blocks, Edge(g, x, y) PROVE y \in S
    <3>1. x \in Blocks /\ f[x] # nullptr
      BY <2>1
    <3>2. f[y] # nullptr
      BY <2>1, <3>1, EdgeSettled
    <3> QED BY <3>2
  <2> QED BY <2>1 DEF Closed
<1>3. S \in SUBSET Blocks
  OBVIOUS
<1> HIDE DEF S
<1>4. b \in S
  BY <1>1, <1>2, <1>3 DEF Reachable
<1> QED BY <1>4 DEF S

(* The processed blocks below which d is no ancestor: paths that avoid d   *)
(* stay among them.                                                        *)
Without(f, d) == {x \in Blocks : f[x] # nullptr /\ d \notin AncOf(f, x)}

LEMMA WithoutAvoids ==
  ASSUME NEW g, IsCfg(g), NEW f \in [Blocks -> BlockOrNull], FixedPoint(g, f),
         NEW d \in Blocks \ {Entry}
  PROVE  /\ Entry \in Without(f, d)
         /\ \A x \in Without(f, d) : \A y \in Blocks :
              Edge(g, x, y) => y \in Without(f, d) \cup {d} /\ d # f[y]
<1>1. Entry \in Without(f, d)
  <2>1. f[Entry] = Entry
    BY DEF FixedPoint
  <2>2. d \notin AncOf(f, Entry)
    BY <2>1, AncEntry
  <2>3. f[Entry] # nullptr
    BY <2>1
  <2> QED BY <2>2, <2>3 DEF Without
<1>2. ASSUME NEW x \in Without(f, d), NEW y \in Blocks, Edge(g, x, y)
      PROVE  y \in Without(f, d) \cup {d} /\ d # f[y]
  <2>1. x \in Blocks /\ f[x] # nullptr /\ d \notin AncOf(f, x)
    BY DEF Without
  <2>2. f[y] # nullptr /\ f[y] \in AncOf(f, x)
    BY <1>2, <2>1, EdgeSettled
  <2>3. d \notin AncOf(f, f[y])
    BY <2>1, <2>2, AncTrans
  <2>4. d # y => d \notin AncOf(f, y)
    BY <2>3, AncUnfold
  <2> QED BY <2>1, <2>2, <2>4 DEF Without
<1> QED BY <1>1, <1>2

LEMMA AncestorDominates ==
  ASSUME NEW g, IsCfg(g), NEW f \in [Blocks -> BlockOrNull], FixedPoint(g, f),
         NEW b \in Blocks, NEW d \in AncOf(f, b)
  PROVE  Dominates(g, d, b)
<1>0. d \in Blocks
  BY DEF AncOf
<1>1. CASE d = b
  BY <1>1 DEF Dominates
<1>2. CASE d # b /\ d = Entry
  <2>1. AvoidSet(g, d, {}) /\ {} \in SUBSET (Blocks \ {d, b})
    BY <1>2 DEF AvoidSet
  <2> QED BY <2>1 DEF Dominates
<1>3. CASE d # b /\ d # Entry
  <2>1. d \notin Without(f, d) /\ b \notin Without(f, d)
    BY <1>0, AncRefl DEF Without
  <2>2. Without(f, d) \in SUBSET (Blocks \ {d, b})
    BY <2>1 DEF Without
  <2>3. AvoidSet(g, d, Without(f, d))
    BY <1>0, <1>3, WithoutAvoids DEF AvoidSet
  <2> QED BY <2>2, <2>3 DEF Dominates
<1> QED BY <1>1, <1>2, <1>3

LEMMA NotItsOwnIdom ==
  ASSUME NEW g, IsCfg(g), NEW f \in [Blocks -> BlockOrNull], FixedPoint(g, f),
         NEW b \in Blocks \ {Entry}, Reachable(g, b)
  PROVE  f[b] # b
<1> SUFFICES ASSUME f[b] = b PROVE FALSE
  OBVIOUS
<1>1. b \notin Without(f, b)
  BY AncRefl DEF Without
<1>2. \A x \in Without(f, b) : \A y \in Blocks : Edge(g, x, y) => y \in Without(f, b)
  BY WithoutAvoids
<1>3. Entry \in Without(f, b) /\ Without(f, b) \in SUBSET Blocks
  BY WithoutAvoids DEF Without
<1> QED BY <1>1, <1>2, <1>3 DEF Reachable, Closed
-----------------------------------------------------------------------------
(***************************************************************************)
(* The sweep that changes nothing leaves a fixed point.                    *)
(***************************************************************************)
InIdom == pc \in {"sweep", "fold", "intersect"}

FixInv ==
  /\ \A b \in visited : Reachable(cfg, b)
  /\ pc # "dfs" => idom[Entry] = Entry
  /\ InIdom /\ ~ changed => \A y \in Blocks \ {Entry} : y < bb => Settled(cfg, idom, y)
  /\ InFold => \A j \in 1 .. Len(Pre(bb)) : j < i /\ idom[Pre(bb)[j]] # nullptr =>
                 new_idom \in AncOf(idom, Pre(bb)[j])
  /\ pc = "intersect" => /\ i <= Len(Pre(bb))
                         /\ b1 \in AncOf(idom, new_idom)
                         /\ b2 \in AncOf(idom, Pre(bb)[i])
  /\ pc # "dfs" /\ ~ InIdom => \A y \in Blocks \ {Entry} : Settled(cfg, idom, y)

LEMMA InitFix == Init => FixInv
<1> SUFFICES ASSUME Init PROVE FixInv
  OBVIOUS
<1>1. visited = {Entry} /\ pc = "dfs"
  BY DEF Init
<1>2. Reachable(cfg, Entry)
  BY DEF Reachable
<1> QED BY <1>1, <1>2 DEF FixInv, InIdom, InFold

(* The search only visits what edges lead to.                              *)
LEMMA StepVisited == Inv /\ FixInv /\ [Next]_vars => \A b \in visited' : Reachable(cfg, b)'
<1> SUFFICES ASSUME Inv, FixInv, [Next]_vars PROVE \A b \in visited' : Reachable(cfg, b)'
  OBVIOUS
<1>0. TypeOK /\ IsCfg(cfg) /\ cfg' = cfg /\ \A b \in visited : Reachable(cfg, b)
  BY StepTypeOK DEF Inv, TypeOK, LoopTypeOK, FixInv
<1>1. ASSUME NEW b, Reachable(cfg, b) PROVE Reachable(cfg, b)'
  BY <1>0, <1>1
<1>2. CASE DfsSucc
  <2>1. Top \in Blocks /\ Top \in visited
    BY <1>0, <1>2, TopFacts DEF DfsSucc, Inv, DfsInv, Active
  <2>2. next[Top] \in 1 .. Len(cfg.succ[Top])
    BY <1>0, <1>2, <2>1 DEF DfsSucc, TypeOK, DfsTypeOK, IsCfg
  <2> DEFINE s == cfg.succ[Top][next[Top]]
  <2>3. s \in Blocks /\ Edge(cfg, Top, s)
    BY <1>0, <2>1, <2>2, SuccEdge
  <2>4. Reachable(cfg, Top)
    BY <1>0, <2>1
  <2>5. visited' = visited \cup {s}
    BY <1>2 DEF DfsSucc
  <2> HIDE DEF s
  <2>6. Reachable(cfg, s)
    BY <2>1, <2>3, <2>4 DEF Reachable, Closed
  <2> QED BY <1>0, <1>1, <2>5, <2>6
<1>3. CASE DfsReturn
  BY <1>0, <1>1, <1>3 DEF DfsReturn
<1>4. CASE UNCHANGED dfsVars
  BY <1>0, <1>1, <1>4 DEF dfsVars
<1> QED BY <1>2, <1>3, <1>4, DfsFrame

LEMMA StepFixInv == Inv /\ FixInv /\ [Next]_vars => FixInv'
<1> SUFFICES ASSUME Inv, FixInv, [Next]_vars PROVE FixInv'
  OBVIOUS
<1>0. /\ TypeOK /\ IdomTypeOK /\ LoopTypeOK /\ Control /\ cfg' = cfg
      /\ \A b \in visited' : Reachable(cfg, b)'
  BY StepTypeOK, StepVisited DEF Inv, TypeOK
<1>1. CASE DfsSucc \/ DfsReturn
  <2>1. pc' = "dfs"
    BY <1>1 DEF DfsSucc, DfsReturn
  <2> QED BY <1>0, <2>1 DEF FixInv, InIdom, InFold
<1>2. CASE StartIdom
  <2>1. /\ idom' = [idom EXCEPT ![Entry] = Entry]
        /\ pc' = "sweep" /\ bb' = 1 /\ changed' = FALSE
    BY <1>2 DEF StartIdom
  <2>2. idom'[Entry] = Entry
    BY <1>0, <2>1 DEF IdomTypeOK
  <2>3. \A y \in Blocks \ {Entry} : ~ (y < 1)
    BY DEF Blocks
  <2> QED BY <1>0, <2>1, <2>2, <2>3 DEF FixInv, InIdom, InFold
<1>3. CASE SkipBlock
  <2>1. /\ pc = "sweep" /\ pc' = "sweep" /\ bb \in Blocks /\ bb' = bb + 1
        /\ idom' = idom /\ changed' = changed
    BY <1>3 DEF SkipBlock, idomVars
  <2>2. bb # Entry => Settled(cfg, idom, bb)
    <3> SUFFICES ASSUME bb # Entry PROVE Settled(cfg, idom, bb)
      OBVIOUS
    <3>1. Processed(bb) = {}
      BY <1>3 DEF SkipBlock
    <3> QED BY <3>1 DEF Processed, Pre, Settled
  <2>3. \A y \in Blocks : y < bb + 1 => y < bb \/ y = bb
    BY <2>1 DEF Blocks
  <2> QED BY <1>0, <2>1, <2>2, <2>3 DEF FixInv, InIdom, InFold
<1>4. CASE StartBlock
  <2>1. /\ pc = "sweep" /\ pc' = "fold" /\ i' = 1 /\ bb' = bb
        /\ idom' = idom /\ changed' = changed /\ bb \in Blocks
    BY <1>4 DEF StartBlock
  <2>2. \A j \in 1 .. Len(Pre(bb)) : ~ (j < 1)
    BY <1>0, <2>1, PreFacts
  <2> QED BY <1>0, <2>1, <2>2 DEF FixInv, InIdom, InFold, Pre
<1>5. CASE FoldPred
  <2>1. /\ pc = "fold" /\ bb' = bb /\ idom' = idom /\ changed' = changed
        /\ new_idom' = new_idom /\ bb \in Blocks /\ new_idom \in Blocks
        /\ i \in 1 .. Len(Pre(bb)) /\ pc' \in {"fold", "intersect"}
    BY <1>0, <1>5, PreFacts DEF FoldPred, Control, InFold, LoopTypeOK
  <2>2. Pre(bb)[i] \in Blocks /\ Pre(bb)' = Pre(bb)
    BY <1>0, <2>1, PreFacts DEF Pre
  <2>3. \A j \in 1 .. Len(Pre(bb)) : j < i /\ idom[Pre(bb)[j]] # nullptr =>
          new_idom \in AncOf(idom, Pre(bb)[j])
    BY <2>1 DEF FixInv, InFold
  <2>4. CASE Pre(bb)[i] # new_idom /\ idom[Pre(bb)[i]] # nullptr
    <3>1. b1' = new_idom /\ b2' = Pre(bb)[i] /\ pc' = "intersect" /\ i' = i
      BY <1>5, <2>4 DEF FoldPred
    <3>2. b1' \in AncOf(idom, new_idom) /\ b2' \in AncOf(idom, Pre(bb)[i])
      BY <2>1, <2>2, <3>1, AncRefl
    <3> QED BY <1>0, <2>1, <2>2, <2>3, <3>1, <3>2 DEF FixInv, InIdom, InFold
  <2>5. CASE ~ (Pre(bb)[i] # new_idom /\ idom[Pre(bb)[i]] # nullptr)
    <3>1. pc' = "fold" /\ i' = i + 1
      BY <1>5, <2>1, <2>5 DEF FoldPred
    <3>2. idom[Pre(bb)[i]] # nullptr => new_idom \in AncOf(idom, Pre(bb)[i])
      BY <2>1, <2>5, AncRefl
    <3>3. \A j \in 1 .. Len(Pre(bb)) : j < i + 1 => j < i \/ j = i
      BY <2>1
    <3>4. \A j \in 1 .. Len(Pre(bb)) : j < i' /\ idom[Pre(bb)[j]] # nullptr =>
            new_idom \in AncOf(idom, Pre(bb)[j])
      BY <2>3, <3>1, <3>2, <3>3
    <3> QED BY <1>0, <2>1, <2>2, <3>1, <3>4 DEF FixInv, InIdom, InFold
  <2> QED BY <2>4, <2>5
<1>6. CASE ClimbFirst \/ ClimbSecond
  <2>1. /\ pc = "intersect" /\ pc' = "intersect" /\ bb' = bb /\ i' = i
        /\ idom' = idom /\ changed' = changed /\ new_idom' = new_idom
        /\ b1' \in {b1, idom[b1]} /\ b2' \in {b2, idom[b2]}
    BY <1>6 DEF ClimbFirst, ClimbSecond
  <2>2. /\ i <= Len(Pre(bb)) /\ b1 \in AncOf(idom, new_idom)
        /\ b2 \in AncOf(idom, Pre(bb)[i])
    BY <2>1 DEF FixInv
  <2>3. /\ idom[b1] # nullptr /\ idom[b2] # nullptr /\ new_idom \in Blocks
        /\ bb \in Blocks /\ i \in 1 .. Len(Pre(bb))
    BY <1>0, <2>1, <2>2, PreFacts DEF Control, InFold, LoopTypeOK
  <2>4. Pre(bb)[i] \in Blocks /\ Pre(bb)' = Pre(bb)
    BY <1>0, <2>1, <2>3, PreFacts DEF Pre
  <2>5. b1' \in AncOf(idom, new_idom) /\ b2' \in AncOf(idom, Pre(bb)[i])
    BY <1>0, <2>1, <2>2, <2>3, <2>4, AncStep DEF IdomTypeOK
  <2> QED BY <1>0, <2>1, <2>2, <2>4, <2>5 DEF FixInv, InIdom, InFold
<1>7. CASE Met
  <2>1. /\ pc = "intersect" /\ pc' = "fold" /\ bb' = bb /\ i' = i + 1
        /\ idom' = idom /\ changed' = changed /\ new_idom' = b1 /\ b1 = b2
    BY <1>7 DEF Met
  <2>2. /\ i <= Len(Pre(bb)) /\ b1 \in AncOf(idom, new_idom)
        /\ b1 \in AncOf(idom, Pre(bb)[i])
    BY <2>1 DEF FixInv
  <2>3. new_idom \in Blocks /\ bb \in Blocks /\ i \in 1 .. Len(Pre(bb)) /\ Pre(bb)' = Pre(bb)
    BY <1>0, <2>1, <2>2, PreFacts DEF Control, InFold, LoopTypeOK, Pre
  <2>4. \A j \in 1 .. Len(Pre(bb)) : j < i /\ idom[Pre(bb)[j]] # nullptr =>
          new_idom \in AncOf(idom, Pre(bb)[j])
    BY <2>1 DEF FixInv, InFold
  <2>5. \A j \in 1 .. Len(Pre(bb)) : j < i + 1 /\ idom[Pre(bb)[j]] # nullptr =>
          b1 \in AncOf(idom, Pre(bb)[j])
    <3> SUFFICES ASSUME NEW j \in 1 .. Len(Pre(bb)), j < i + 1, idom[Pre(bb)[j]] # nullptr
                 PROVE  b1 \in AncOf(idom, Pre(bb)[j])
      OBVIOUS
    <3>1. Pre(bb)[j] \in Blocks
      BY <1>0, <2>3, PreFacts
    <3>2. CASE j = i
      BY <2>2, <3>2
    <3>3. CASE j # i
      <4>1. j < i
        BY <2>3, <3>3
      <4> QED BY <2>2, <2>4, <3>1, <4>1, AncTrans
    <3> QED BY <3>2, <3>3
  <2> QED BY <1>0, <2>1, <2>3, <2>5 DEF FixInv, InIdom, InFold
<1>8. CASE CommitBlock
  <2>1. /\ pc = "fold" /\ pc' = "sweep" /\ bb' = bb + 1 /\ i > Len(Pre(bb))
        /\ idom' = [idom EXCEPT ![bb] = new_idom]
        /\ changed' = (changed \/ idom[bb] # new_idom)
    BY <1>8 DEF CommitBlock
  <2>2. bb \in Blocks \ {Entry} /\ new_idom \in Blocks
    BY <1>0, <2>1 DEF Control, InFold
  <2>3. idom'[Entry] = Entry
    BY <1>0, <2>1, <2>2 DEF FixInv, IdomTypeOK
  <2>4. ASSUME ~ changed', NEW y \in Blocks \ {Entry}, y < bb'
        PROVE  Settled(cfg, idom', y)
    <3>1. ~ changed /\ idom[bb] = new_idom /\ idom' = idom
      BY <1>0, <2>1, <2>2, <2>4 DEF IdomTypeOK
    <3>2. CASE y < bb
      BY <2>1, <2>4, <3>1, <3>2 DEF FixInv, InIdom
    <3>3. CASE ~ (y < bb)
      <4>1. y = bb
        BY <2>1, <2>2, <2>4, <3>3 DEF Blocks
      <4>2. \A j \in 1 .. Len(Pre(bb)) : j < i
        BY <1>0, <2>1, <2>2, PreFacts DEF LoopTypeOK
      <4>3. \A j \in 1 .. Len(Pre(bb)) : idom[Pre(bb)[j]] # nullptr =>
              new_idom \in AncOf(idom, Pre(bb)[j])
        BY <2>1, <4>2 DEF FixInv, InFold
      <4>4. idom[bb] # nullptr
        BY <2>2, <3>1
      <4>5. Settled(cfg, idom, bb)
        BY <3>1, <4>3, <4>4 DEF Settled, Pre
      <4> QED BY <3>1, <4>1, <4>5
    <3> QED BY <3>2, <3>3
  <2> QED BY <1>0, <2>1, <2>3, <2>4 DEF FixInv, InIdom, InFold
<1>9. CASE EndSweep
  <2>1. /\ pc = "sweep" /\ bb > N /\ bb' = 1 /\ idom' = idom
        /\ pc' = IF changed THEN "sweep" ELSE "frontier"
    BY <1>9 DEF EndSweep
  <2>2. \A y \in Blocks \ {Entry} : ~ (y < 1)
    BY DEF Blocks
  <2>3. \A y \in Blocks \ {Entry} : y < bb
    BY <1>0, <2>1, NAssumption DEF Blocks, LoopTypeOK
  <2>4. ~ changed => \A y \in Blocks \ {Entry} : Settled(cfg, idom, y)
    BY <2>1, <2>3 DEF FixInv, InIdom
  <2> QED BY <1>0, <2>1, <2>2, <2>4 DEF FixInv, InIdom, InFold
<1>10. CASE pc # "dfs" /\ ~ InIdom /\ pc' # "dfs" /\ ~ InIdom' /\ UNCHANGED idom
  BY <1>0, <1>10 DEF FixInv, InIdom, InFold
<1>11. CASE FrontierBlock \/ RunnerClimb \/ RunnerLost \/ RunnerArrived
  BY <1>10, <1>11 DEF FrontierBlock, RunnerClimb, RunnerLost, RunnerArrived, InIdom, idomVars
<1>12. CASE BuildTree \/ NumberChild \/ NumberReturn
  BY <1>10, <1>12 DEF BuildTree, NumberChild, NumberReturn, InIdom, idomVars
<1>13. CASE UNCHANGED vars
  BY <1>0, <1>13 DEF FixInv, InIdom, InFold, Pre, vars, idomVars
<1> QED BY <1>1, <1>2, <1>3, <1>4, <1>5, <1>6, <1>7, <1>8, <1>9, <1>11, <1>12, <1>13, Phase
-----------------------------------------------------------------------------
(* From there on the idoms do not change.                                  *)
IdomDone == pc \notin {"dfs", "sweep", "fold", "intersect"}

(* The immediate dominators of the reachable blocks, null for the others.  *)
IdomRight ==
  /\ idom[Entry] = Entry
  /\ \A b \in Blocks \ {Entry} :
       IF Reachable(cfg, b) THEN idom[b] # nullptr /\ IsIdom(cfg, idom[b], b)
                            ELSE idom[b] = nullptr

LEMMA IdomRightNow == Inv /\ FixInv /\ IdomDone => IdomRight
<1> SUFFICES ASSUME Inv, FixInv, IdomDone PROVE IdomRight
  OBVIOUS
<1>0. /\ IsCfg(cfg) /\ idom \in [Blocks -> BlockOrNull] /\ FixedPoint(cfg, idom)
      /\ DfsInv /\ IdomNumbered /\ IdomSound /\ \A x \in visited : Reachable(cfg, x)
  BY DEF Inv, TypeOK, LoopTypeOK, IdomTypeOK, FixInv, InIdom, FixedPoint, IdomDone
<1>1. ASSUME NEW b \in Blocks \ {Entry}, Reachable(cfg, b)
      PROVE  idom[b] # nullptr /\ IsIdom(cfg, idom[b], b)
  <2>1. idom[b] # nullptr
    BY <1>0, <1>1, ReachableProcessed
  <2>2. idom[b] \in Blocks
    BY <1>0, <2>1 DEF BlockOrNull
  <2>3. idom[b] \in AncOf(idom, b)
    BY <1>0, <2>1, AncRefl, AncStep
  <2>4. Dominates(cfg, idom[b], b)
    BY <1>0, <2>3, AncestorDominates
  <2>5. idom[b] # b
    BY <1>0, <1>1, NotItsOwnIdom
  <2>6. \A c \in Blocks : StrictlyDominates(cfg, c, b) => Dominates(cfg, c, idom[b])
    BY <1>0, <2>1 DEF IdomSound
  <2> QED BY <2>1, <2>4, <2>5, <2>6 DEF IsIdom, StrictlyDominates
<1>2. ASSUME NEW b \in Blocks \ {Entry}, ~ Reachable(cfg, b) PROVE idom[b] = nullptr
  <2>1. b \notin visited
    BY <1>0, <1>2
  <2> QED BY <1>0, <2>1 DEF IdomNumbered, DfsInv
<1> QED BY <1>0, <1>1, <1>2 DEF IdomRight, FixedPoint

LEMMA FixIdomCorrect == Inv /\ FixInv => IdomCorrect
BY IdomRightNow DEF IdomCorrect, IdomRight, IdomDone, ReachableIn

(* Where create_idom stops, every reachable block has its immediate        *)
(* dominator and no other block has one.                                   *)
THEOREM IdomCorrectAlways == Spec => []IdomCorrect
<1>1. Init => FixInv
  BY InitFix
<1>2. Inv /\ FixInv /\ [Next]_vars => FixInv'
  BY StepFixInv
<1>3. Inv /\ FixInv => IdomCorrect
  BY FixIdomCorrect
<1> QED BY <1>1, <1>2, <1>3, Invariance, PTL DEF Spec
-----------------------------------------------------------------------------
(***************************************************************************)
(* What follows once create_idom has stopped at the immediate dominators:  *)
(* the walks of create_dominance_frontier find the frontiers of the        *)
(* definition, and the numbers of create_dom_dfs_order answer for          *)
(* dominance, for every graph and every order of the children.             *)
(***************************************************************************)
(* d's frontier holds b before the walks of create_dominance_frontier end. *)
InDf(d, b) == b \in dom_frontier[d]

(* The walk of bb from its i-th predecessor: every block that dominates    *)
(* the predecessor is in the frontier set or still above the runner, which *)
(* itself is never above idom[bb].                                         *)
WalkInv ==
  pc = "runner" =>
    LET p == Pre(bb)[i]
    IN  /\ i \in 1 .. Len(Pre(bb)) /\ Len(Pre(bb)) >= 2
        /\ Reachable(cfg, bb) => \A j \in 1 .. i - 1 : Reachable(cfg, Pre(bb)[j])
        /\ \A j \in 1 .. i - 1 : \A d \in ReachableIn(cfg) :
             Reachable(cfg, bb) /\ Dominates(cfg, d, Pre(bb)[j])
               /\ ~ StrictlyDominates(cfg, d, bb) => InDf(d, bb)
        /\ IF Reachable(cfg, p)
             THEN /\ runner \in Blocks /\ Reachable(cfg, runner)
                  /\ Dominates(cfg, runner, p) /\ Dominates(cfg, idom[bb], runner)
                  /\ \A d \in ReachableIn(cfg) :
                       Dominates(cfg, d, p) /\ ~ StrictlyDominates(cfg, d, bb) =>
                         InDf(d, bb) \/ Dominates(cfg, d, runner)
             ELSE runner \in {p, nullptr}

(* What is entered is right, and the blocks passed are complete.           *)
FrontierInv ==
  /\ \A d, b \in ReachableIn(cfg) : InDf(d, b) => InFrontier(cfg, d, b)
  /\ IdomDone => \A d, b \in ReachableIn(cfg) :
       b < bb /\ InFrontier(cfg, d, b) /\ pc # "out_of_range" => InDf(d, b)
  /\ pc \in {"number", "done"} => bb > N
  /\ pc = "out_of_range" => bb \in ReachableIn(cfg) /\ Pre(bb)[i] \notin ReachableIn(cfg)

(* The tree's depth-first numbering: what is numbered is closed under      *)
(* dominators; an active block dominates what was numbered after it, and   *)
(* a finished one exactly what has its numbers.                            *)
Numbered == Members(dom_dfs_order)
DomFinished == Numbered \ Members(stack)

NumberInv ==
  pc \in {"number", "done"} =>
    /\ dom_tree_succ = [b \in Blocks |-> {c \in Blocks \ {b} : idom[c] = b}]
    /\ Len(dom_dfs_order) = order
    /\ \A k \in 1 .. order : dom_tree_L[dom_dfs_order[k]] = k
    /\ Entry \in Numbered /\ Numbered \subseteq ReachableIn(cfg)
    /\ Members(stack) \subseteq Numbered
    /\ \A j, k \in 1 .. Len(stack) : j < k => dom_tree_L[stack[j]] < dom_tree_L[stack[k]]
    /\ pc = "done" => stack = << >>
    /\ \A y \in Numbered : \A x \in Blocks :
         Dominates(cfg, x, y) => x \in Numbered /\ dom_tree_L[x] <= dom_tree_L[y]
    /\ \A x \in Members(stack) :
         /\ todo[x] = dom_tree_succ[x] \ Numbered
         /\ \A y \in Numbered : dom_tree_L[x] <= dom_tree_L[y] => Dominates(cfg, x, y)
    /\ \A x \in DomFinished :
         /\ dom_tree_R[x] <= order
         /\ \A y \in ReachableIn(cfg) : Dominates(cfg, x, y) => y \in Numbered
         /\ \A y \in Numbered : Dominates(cfg, x, y) <=> is_dominate(x, y)

TreeInv == WalkInv /\ FrontierInv /\ NumberInv
-----------------------------------------------------------------------------
(* What IdomRight says of one block.                                       *)
LEMMA IdomFacts ==
  ASSUME IdomRight, idom \in [Blocks -> BlockOrNull], NEW b \in Blocks, Reachable(cfg, b), b # Entry
  PROVE  /\ idom[b] \in Blocks /\ Reachable(cfg, idom[b])
         /\ StrictlyDominates(cfg, idom[b], b)
         /\ \A c \in Blocks : StrictlyDominates(cfg, c, b) => Dominates(cfg, c, idom[b])
         /\ \A x \in Blocks : Edge(cfg, x, b) => Dominates(cfg, idom[b], x)
<1>1. idom[b] # nullptr /\ IsIdom(cfg, idom[b], b)
  BY DEF IdomRight
<1>2. idom[b] \in Blocks
  BY <1>1 DEF BlockOrNull
<1>3. /\ StrictlyDominates(cfg, idom[b], b)
      /\ \A c \in Blocks : StrictlyDominates(cfg, c, b) => Dominates(cfg, c, idom[b])
  BY <1>1 DEF IsIdom
<1>4. Reachable(cfg, idom[b])
  BY <1>2, <1>3, DominatorReachable DEF StrictlyDominates
<1>5. \A x \in Blocks : Edge(cfg, x, b) => Dominates(cfg, idom[b], x)
  BY <1>2, <1>3, DominatesPred
<1> QED BY <1>2, <1>3, <1>4, <1>5
-----------------------------------------------------------------------------
(***************************************************************************)
(* The walks of create_dominance_frontier.                                 *)
(***************************************************************************)
(* A block passed over has no place in a frontier.                         *)
LEMMA NoJoin ==
  ASSUME TypeOK, NEW b \in Blocks, Reachable(cfg, b), Len(Pre(b)) < 2, NEW d \in Blocks
  PROVE  ~ InFrontier(cfg, d, b)
<1> SUFFICES ASSUME NEW p \in Members(cfg.pre[b]), Dominates(cfg, d, p)
             PROVE  StrictlyDominates(cfg, d, b)
  BY DEF InFrontier
<1>0. IsCfg(cfg)
  BY DEF TypeOK, LoopTypeOK
<1>1. PICK j \in 1 .. Len(Pre(b)) : p = Pre(b)[j]
  BY DEF Members, Pre
<1>2. Len(Pre(b)) = 1 /\ p = Pre(b)[1] /\ p \in Blocks
  <2>1. Len(Pre(b)) \in Nat /\ p \in Blocks
    BY <1>1, PreFacts
  <2> DEFINE n == Len(Pre(b))
  <2>2. n \in Nat /\ n < 2 /\ j \in 1 .. n
    BY <2>1
  <2> HIDE DEF n
  <2>3. j = 1 /\ n = 1
    BY <2>2
  <2> QED BY <1>1, <2>1, <2>3 DEF n
<1>3. b # Entry
  BY <1>0, <1>2 DEF IsCfg, Pre
<1>4. ASSUME NEW x \in Blocks, Edge(cfg, x, b) PROVE x = p
  <2>1. x \in Members(cfg.pre[b])
    BY <1>0, <1>4 DEF IsCfg, Edge
  <2> QED BY <1>2, <2>1 DEF Members, Pre
<1> QED BY <1>2, <1>3, <1>4, OnePred

(* The block whose predecessors are walked.                                *)
LEMMA JoinFacts ==
  ASSUME TypeOK, NEW b \in Blocks, NEW j \in 1 .. Len(Pre(b))
  PROVE  /\ b # Entry /\ Pre(b)[j] \in Blocks /\ Edge(cfg, Pre(b)[j], b)
         /\ Reachable(cfg, Pre(b)[j]) => Reachable(cfg, b)
         /\ Pre(b)[j] \in Members(cfg.pre[b])
<1>1. IsCfg(cfg) /\ Pre(b)[j] \in Blocks /\ Edge(cfg, Pre(b)[j], b)
  BY PreFacts DEF TypeOK, LoopTypeOK
<1>2. b # Entry
  <2> SUFFICES ASSUME b = Entry PROVE FALSE
    OBVIOUS
  <2>1. Len(Pre(b)) = 0
    BY <1>1 DEF IsCfg, Pre
  <2> QED BY <2>1
<1>3. Reachable(cfg, Pre(b)[j]) => Reachable(cfg, b)
  BY <1>1, SuccReachable
<1> QED BY <1>1, <1>2, <1>3 DEF Members, Pre

(* Where a walk begins, all that dominates the predecessor is ahead of it. *)
LEMMA WalkStart ==
  ASSUME TypeOK, IdomRight, NEW b \in Blocks, NEW j \in 1 .. Len(Pre(b)), Reachable(cfg, Pre(b)[j])
  PROVE  LET p == Pre(b)[j]
         IN  /\ p \in Blocks /\ Dominates(cfg, p, p) /\ Dominates(cfg, idom[b], p)
<1>1. /\ b # Entry /\ Pre(b)[j] \in Blocks /\ Edge(cfg, Pre(b)[j], b) /\ Reachable(cfg, b)
  BY JoinFacts
<1>2. idom \in [Blocks -> BlockOrNull]
  BY DEF TypeOK, IdomTypeOK
<1>3. Dominates(cfg, idom[b], Pre(b)[j])
  BY <1>1, <1>2, IdomFacts
<1> QED BY <1>1, <1>3, DomRefl

LEMMA StepFrontierBlock ==
  ASSUME Inv, IdomRight, FrontierInv, FrontierBlock
  PROVE  WalkInv' /\ FrontierInv'
<1>0. /\ TypeOK /\ IdomTypeOK /\ pc = "frontier" /\ bb \in Blocks
      /\ UNCHANGED <<cfg, idom, dom_frontier>>
  BY DEF Inv, TypeOK, FrontierBlock, idomVars
<1>1. Len(Pre(bb)) \in Nat /\ bb \in Nat /\ N \in Nat
  BY <1>0, PreFacts, NAssumption DEF Blocks
<1>2. CASE Len(Pre(bb)) < 2
  <2>1. pc' = "frontier" /\ bb' = bb + 1
    BY <1>0, <1>2 DEF FrontierBlock
  <2>2. \A b \in Blocks : b < bb + 1 => b < bb \/ b = bb
    BY <1>1 DEF Blocks
  <2>3. \A d \in Blocks : Reachable(cfg, bb) => ~ InFrontier(cfg, d, bb)
    BY <1>0, <1>2, NoJoin
  <2>4. \A d, b \in ReachableIn(cfg) : b < bb + 1 /\ InFrontier(cfg, d, b) => InDf(d, b)
    BY <1>0, <2>2, <2>3 DEF FrontierInv, ReachableIn, IdomDone
  <2>5. \A d, b \in ReachableIn(cfg) : InDf(d, b) => InFrontier(cfg, d, b)
    BY DEF FrontierInv
  <2> QED BY <1>0, <2>1, <2>4, <2>5 DEF WalkInv, FrontierInv, InDf
<1>3. CASE ~ (Len(Pre(bb)) < 2)
  <2>1. pc' = "runner" /\ bb' = bb /\ i' = 1 /\ runner' = Pre(bb)[1] /\ Len(Pre(bb)) >= 2
    BY <1>0, <1>1, <1>3 DEF FrontierBlock
  <2>2. 1 \in 1 .. Len(Pre(bb)) /\ Pre(bb)' = Pre(bb) /\ 1 .. (1 - 1) = {}
    BY <1>0, <1>1, <2>1 DEF Pre
  <2>3. Reachable(cfg, Pre(bb)[1]) =>
          /\ Pre(bb)[1] \in Blocks /\ Dominates(cfg, Pre(bb)[1], Pre(bb)[1])
          /\ Dominates(cfg, idom[bb], Pre(bb)[1])
    BY <1>0, <2>2, WalkStart
  <2>4. WalkInv'
    BY <1>0, <2>1, <2>2, <2>3 DEF WalkInv
  <2>5. FrontierInv'
    BY <1>0, <2>1 DEF FrontierInv, InDf, IdomDone
  <2> QED BY <2>4, <2>5
<1> QED BY <1>2, <1>3

LEMMA StepRunnerClimb ==
  ASSUME Inv, IdomRight, WalkInv, FrontierInv, RunnerClimb
  PROVE  WalkInv' /\ FrontierInv'
<1> DEFINE p == Pre(bb)[i]
<1>0. /\ TypeOK /\ IdomTypeOK /\ FrontierTypeOK /\ idom \in [Blocks -> BlockOrNull]
      /\ pc = "runner" /\ pc' = "runner" /\ bb \in Blocks
      /\ runner # idom[bb] /\ runner # nullptr /\ runner' = idom[runner]
      /\ dom_frontier' = [dom_frontier EXCEPT ![runner] = @ \cup {bb}]
      /\ UNCHANGED <<cfg, idom, bb, i>>
  BY DEF Inv, Control, TypeOK, IdomTypeOK, RunnerClimb, idomVars
<1>1. runner \in Blocks /\ dom_frontier \in [Blocks -> SUBSET Blocks]
  BY <1>0 DEF FrontierTypeOK, BlockOrNull
<1>2. \A d \in Blocks : \A b : InDf(d, b)' <=> InDf(d, b) \/ (d = runner /\ b = bb)
  BY <1>0, <1>1 DEF InDf
<1>3. /\ i \in 1 .. Len(Pre(bb)) /\ Len(Pre(bb)) >= 2
      /\ bb # Entry /\ p \in Blocks /\ (Reachable(cfg, p) => Reachable(cfg, bb))
      /\ p \in Members(cfg.pre[bb])
  BY <1>0, JoinFacts DEF WalkInv
<1> HIDE DEF p
<1>4. CASE Reachable(cfg, p)
  <2>1. /\ Reachable(cfg, runner) /\ Dominates(cfg, runner, p) /\ Dominates(cfg, idom[bb], runner)
        /\ \A d \in ReachableIn(cfg) :
             Dominates(cfg, d, p) /\ ~ StrictlyDominates(cfg, d, bb) =>
               InDf(d, bb) \/ Dominates(cfg, d, runner)
    BY <1>0, <1>4 DEF WalkInv, p
  <2>2. /\ idom[bb] \in Blocks /\ Reachable(cfg, bb)
        /\ \A c \in Blocks : StrictlyDominates(cfg, c, bb) => Dominates(cfg, c, idom[bb])
    BY <1>0, <1>3, <1>4, IdomFacts
  <2>3. runner # Entry
    BY <1>0, <2>1, <2>2, DominatesEntry
  <2>4. /\ idom[runner] \in Blocks /\ Reachable(cfg, idom[runner])
        /\ StrictlyDominates(cfg, idom[runner], runner)
        /\ \A c \in Blocks : StrictlyDominates(cfg, c, runner) => Dominates(cfg, c, idom[runner])
    BY <1>0, <1>1, <2>1, <2>3, IdomFacts
  <2>5. ~ StrictlyDominates(cfg, runner, bb)
    <3> SUFFICES ASSUME StrictlyDominates(cfg, runner, bb) PROVE FALSE
      OBVIOUS
    <3>1. Dominates(cfg, runner, idom[bb])
      BY <1>1, <2>2
    <3> QED BY <1>0, <1>1, <2>1, <2>2, <3>1, DomAntisym
  <2>6. InFrontier(cfg, runner, bb)
    BY <1>3, <2>1, <2>5 DEF InFrontier
  <2>7. Dominates(cfg, idom[runner], p)
    BY <1>1, <1>3, <2>1, <2>4, DomTrans DEF StrictlyDominates
  <2>8. Dominates(cfg, idom[bb], idom[runner])
    BY <1>0, <2>1, <2>2, <2>4 DEF StrictlyDominates
  <2>9. \A d \in ReachableIn(cfg) :
          Dominates(cfg, d, p) /\ ~ StrictlyDominates(cfg, d, bb) =>
            InDf(d, bb)' \/ Dominates(cfg, d, idom[runner])
    <3> SUFFICES ASSUME NEW d \in ReachableIn(cfg), Dominates(cfg, d, p),
                        ~ StrictlyDominates(cfg, d, bb)
                 PROVE  InDf(d, bb)' \/ Dominates(cfg, d, idom[runner])
      OBVIOUS
    <3>1. d \in Blocks
      BY DEF ReachableIn
    <3>2. InDf(d, bb) \/ Dominates(cfg, d, runner)
      BY <2>1
    <3>3. CASE InDf(d, bb) \/ d = runner
      BY <1>0, <1>2, <3>1, <3>3 DEF InDf
    <3>4. CASE ~ InDf(d, bb) /\ d # runner
      BY <2>4, <3>1, <3>2, <3>4 DEF StrictlyDominates
    <3> QED BY <3>3, <3>4
  <2>10. WalkInv'
    <3>1. Reachable(cfg, bb) => \A j \in 1 .. i - 1 : Reachable(cfg, Pre(bb)[j])
      BY <1>0 DEF WalkInv
    <3>2. \A j \in 1 .. i - 1 : \A d \in ReachableIn(cfg) :
            Reachable(cfg, bb) /\ Dominates(cfg, d, Pre(bb)[j])
              /\ ~ StrictlyDominates(cfg, d, bb) => InDf(d, bb)'
      BY <1>0, <1>2 DEF WalkInv, ReachableIn
    <3> QED BY <1>0, <1>3, <1>4, <2>4, <2>7, <2>8, <2>9, <3>1, <3>2 DEF WalkInv, p, Pre, ReachableIn
  <2>11. FrontierInv'
    <3>1. \A d, b \in ReachableIn(cfg) : InDf(d, b)' => InFrontier(cfg, d, b)
      BY <1>2, <2>6 DEF FrontierInv, ReachableIn
    <3>2. \A d, b \in ReachableIn(cfg) : b < bb /\ InFrontier(cfg, d, b) => InDf(d, b)'
      BY <1>0, <1>2 DEF FrontierInv, ReachableIn, IdomDone
    <3> QED BY <1>0, <3>1, <3>2 DEF FrontierInv, ReachableIn
  <2> QED BY <2>10, <2>11
<1>5. CASE ~ Reachable(cfg, p)
  <2>1. runner = p /\ p # Entry
    <3>1. Reachable(cfg, Entry)
      BY DEF Reachable
    <3> QED BY <1>0, <1>5, <3>1 DEF WalkInv, p
  <2>2. runner' = nullptr
    BY <1>0, <1>3, <1>5, <2>1 DEF IdomRight
  <2>3. \A d \in ReachableIn(cfg) : \A b : InDf(d, b)' <=> InDf(d, b)
    BY <1>2, <1>5, <2>1 DEF ReachableIn
  <2>4. WalkInv'
    <3>1. Reachable(cfg, bb) => \A j \in 1 .. i - 1 : Reachable(cfg, Pre(bb)[j])
      BY <1>0 DEF WalkInv
    <3>2. \A j \in 1 .. i - 1 : \A d \in ReachableIn(cfg) :
            Reachable(cfg, bb) /\ Dominates(cfg, d, Pre(bb)[j])
              /\ ~ StrictlyDominates(cfg, d, bb) => InDf(d, bb)'
      BY <1>0, <2>3 DEF WalkInv
    <3> QED BY <1>0, <1>3, <1>5, <2>2, <3>1, <3>2 DEF WalkInv, p, Pre, ReachableIn
  <2>5. FrontierInv'
    <3>1. \A d, b \in ReachableIn(cfg) : InDf(d, b)' => InFrontier(cfg, d, b)
      BY <2>3 DEF FrontierInv
    <3>2. \A d, b \in ReachableIn(cfg) : b < bb /\ InFrontier(cfg, d, b) => InDf(d, b)'
      BY <1>0, <2>3 DEF FrontierInv, IdomDone
    <3> QED BY <1>0, <3>1, <3>2 DEF FrontierInv, ReachableIn
  <2> QED BY <2>4, <2>5
<1> QED BY <1>4, <1>5

(* A walk that ends has entered all that dominates its predecessor.        *)
LEMMA StepRunnerArrived ==
  ASSUME Inv, IdomRight, WalkInv, FrontierInv, RunnerArrived
  PROVE  WalkInv' /\ FrontierInv'
<1> DEFINE p == Pre(bb)[i]
           Walked(j) == \A d \in ReachableIn(cfg) :
             Reachable(cfg, bb) /\ Dominates(cfg, d, Pre(bb)[j])
               /\ ~ StrictlyDominates(cfg, d, bb) => InDf(d, bb)
<1>0. /\ TypeOK /\ idom \in [Blocks -> BlockOrNull]
      /\ pc = "runner" /\ bb \in Blocks /\ runner = idom[bb]
      /\ UNCHANGED <<cfg, idom, dom_frontier>>
  BY DEF Inv, Control, TypeOK, IdomTypeOK, RunnerArrived, idomVars
<1>1. /\ i \in 1 .. Len(Pre(bb)) /\ Len(Pre(bb)) >= 2 /\ Len(Pre(bb)) \in Nat
      /\ bb # Entry /\ p \in Blocks /\ (Reachable(cfg, p) => Reachable(cfg, bb))
      /\ bb \in Nat
  BY <1>0, JoinFacts, PreFacts DEF WalkInv, Blocks
<1>2. Reachable(cfg, bb) => Reachable(cfg, p)
  <2> SUFFICES ASSUME Reachable(cfg, bb), ~ Reachable(cfg, p) PROVE FALSE
    OBVIOUS
  <2>1. runner \in {p, nullptr}
    BY <1>0 DEF WalkInv
  <2>2. idom[bb] # nullptr /\ Reachable(cfg, idom[bb])
    BY <1>0, <1>1, IdomFacts
  <2> QED BY <1>0, <2>1, <2>2
<1>3. Reachable(cfg, bb) => \A j \in 1 .. i : Reachable(cfg, Pre(bb)[j])
  BY <1>0, <1>1, <1>2 DEF WalkInv
<1>4. Walked(i)
  <2> SUFFICES ASSUME NEW d \in ReachableIn(cfg), Reachable(cfg, bb), Dominates(cfg, d, p),
                      ~ StrictlyDominates(cfg, d, bb), ~ InDf(d, bb)
               PROVE  FALSE
    OBVIOUS
  <2>1. d \in Blocks /\ Dominates(cfg, d, idom[bb])
    BY <1>0, <1>2 DEF WalkInv, ReachableIn
  <2>2. idom[bb] \in Blocks /\ StrictlyDominates(cfg, idom[bb], bb)
    BY <1>0, <1>1, IdomFacts
  <2>3. Dominates(cfg, d, bb)
    BY <1>0, <2>1, <2>2, DomTrans DEF StrictlyDominates
  <2>4. d = bb
    BY <2>3 DEF StrictlyDominates
  <2> QED BY <1>0, <2>1, <2>2, <2>4, DomAntisym DEF StrictlyDominates
<1>5. \A j \in 1 .. i : Walked(j)
  <2>1. \A j \in 1 .. i - 1 : Walked(j)
    BY <1>0 DEF WalkInv
  <2>2. \A j \in 1 .. i : j = i \/ j \in 1 .. i - 1
    BY <1>1
  <2> HIDE DEF Walked
  <2> QED BY <1>4, <2>1, <2>2
<1> HIDE DEF p, Walked
<1>6. CASE i < Len(Pre(bb))
  <2>1. pc' = "runner" /\ i' = i + 1 /\ runner' = Pre(bb)[i + 1] /\ bb' = bb
    BY <1>0, <1>6 DEF RunnerArrived
  <2>2. i + 1 \in 1 .. Len(Pre(bb)) /\ (i + 1) - 1 = i /\ Pre(bb)' = Pre(bb)
    BY <1>0, <1>1, <1>6, <2>1 DEF Pre
  <2>3. Reachable(cfg, Pre(bb)[i + 1]) =>
          /\ Pre(bb)[i + 1] \in Blocks /\ Dominates(cfg, Pre(bb)[i + 1], Pre(bb)[i + 1])
          /\ Dominates(cfg, idom[bb], Pre(bb)[i + 1])
    BY <1>0, <2>2, WalkStart
  <2>4. WalkInv'
    <3>1. \A j \in 1 .. i : \A d \in ReachableIn(cfg) :
            Reachable(cfg, bb) /\ Dominates(cfg, d, Pre(bb)[j])
              /\ ~ StrictlyDominates(cfg, d, bb) => InDf(d, bb)
      BY <1>5 DEF Walked
    <3> QED BY <1>0, <1>1, <1>3, <2>1, <2>2, <2>3, <3>1 DEF WalkInv, InDf, ReachableIn
  <2>5. FrontierInv'
    BY <1>0, <2>1 DEF FrontierInv, InDf, IdomDone
  <2> QED BY <2>4, <2>5
<1>7. CASE ~ (i < Len(Pre(bb)))
  <2>1. pc' = "frontier" /\ bb' = bb + 1 /\ i = Len(Pre(bb))
    BY <1>0, <1>1, <1>7 DEF RunnerArrived
  <2>2. \A b \in Blocks : b < bb + 1 => b < bb \/ b = bb
    BY <1>1 DEF Blocks
  <2>3. ASSUME NEW d \in ReachableIn(cfg), bb \in ReachableIn(cfg), InFrontier(cfg, d, bb)
        PROVE  InDf(d, bb)
    <3>1. PICK q \in Members(cfg.pre[bb]) : Dominates(cfg, d, q)
      BY <2>3 DEF InFrontier
    <3>2. PICK j \in 1 .. Len(Pre(bb)) : q = Pre(bb)[j]
      BY DEF Members, Pre
    <3>3. ~ StrictlyDominates(cfg, d, bb) /\ Reachable(cfg, bb)
      BY <2>3 DEF InFrontier, ReachableIn
    <3>4. Walked(j)
      BY <1>5, <2>1, <3>2
    <3> QED BY <2>3, <3>1, <3>2, <3>3, <3>4 DEF Walked
  <2>4. \A d, b \in ReachableIn(cfg) : b < bb + 1 /\ InFrontier(cfg, d, b) => InDf(d, b)
    BY <1>0, <2>2, <2>3 DEF FrontierInv, ReachableIn, IdomDone
  <2>5. \A d, b \in ReachableIn(cfg) : InDf(d, b) => InFrontier(cfg, d, b)
    BY DEF FrontierInv
  <2> QED BY <1>0, <2>1, <2>4, <2>5 DEF WalkInv, FrontierInv, InDf
<1> QED BY <1>6, <1>7

LEMMA StepFrontierInv ==
  ASSUME Inv, FixInv, WalkInv, FrontierInv, [Next]_vars
  PROVE  WalkInv' /\ FrontierInv'
<1>0. /\ TypeOK /\ IdomTypeOK /\ LoopTypeOK /\ cfg' = cfg /\ (IdomDone => IdomRight)
      /\ \A d, b \in ReachableIn(cfg) : InDf(d, b) => InFrontier(cfg, d, b)
  BY StepTypeOK, IdomRightNow DEF Inv, TypeOK, FrontierInv
<1>1. ASSUME UNCHANGED dom_frontier, ~ IdomDone' PROVE WalkInv' /\ FrontierInv'
  BY <1>0, <1>1 DEF WalkInv, FrontierInv, InDf, IdomDone
<1>2. CASE DfsSucc \/ DfsReturn \/ StartIdom \/ SkipBlock \/ StartBlock
  <2>1. UNCHANGED dom_frontier /\ ~ IdomDone'
    BY <1>2 DEF DfsSucc, DfsReturn, StartIdom, SkipBlock, StartBlock, dfVars, IdomDone
  <2> QED BY <1>1, <2>1
<1>3. CASE FoldPred \/ ClimbFirst \/ ClimbSecond \/ Met \/ CommitBlock
  <2>1. UNCHANGED dom_frontier /\ ~ IdomDone'
    BY <1>3 DEF FoldPred, ClimbFirst, ClimbSecond, Met, CommitBlock, dfVars, IdomDone
  <2> QED BY <1>1, <2>1
<1>4. CASE EndSweep
  <2>1. UNCHANGED dom_frontier /\ bb' = 1 /\ pc' \in {"sweep", "frontier"}
    BY <1>4 DEF EndSweep, dfVars
  <2>2. \A b \in Blocks : ~ (b < 1)
    BY DEF Blocks
  <2> QED BY <1>0, <2>1, <2>2 DEF WalkInv, FrontierInv, InDf, ReachableIn
<1>5. CASE FrontierBlock
  BY <1>0, <1>5, StepFrontierBlock DEF FrontierBlock, IdomDone
<1>6. CASE RunnerClimb
  BY <1>0, <1>6, StepRunnerClimb DEF RunnerClimb, IdomDone
<1>7. CASE RunnerArrived
  BY <1>0, <1>7, StepRunnerArrived DEF RunnerArrived, IdomDone
<1>8. CASE RunnerLost
  <2>1. /\ pc = "runner" /\ runner # idom[bb] /\ runner = nullptr /\ pc' = "out_of_range"
        /\ UNCHANGED <<cfg, bb, i, dom_frontier, idom>> /\ bb \in Blocks /\ IdomRight
    BY <1>0, <1>8 DEF RunnerLost, dfVars, idomVars, Inv, Control, IdomDone
  <2>2. ~ Reachable(cfg, Pre(bb)[i]) /\ i \in 1 .. Len(Pre(bb))
    BY <2>1 DEF WalkInv
  <2>3. bb # Entry
    BY <1>0, <2>1, <2>2, JoinFacts
  <2>4. Reachable(cfg, bb)
    BY <2>1, <2>3 DEF IdomRight
  <2> QED BY <1>0, <2>1, <2>2, <2>4 DEF WalkInv, FrontierInv, InDf, ReachableIn, Pre
<1>9. CASE BuildTree \/ NumberChild \/ NumberReturn
  <2>1. /\ UNCHANGED <<bb, i, dom_frontier, idom>> /\ pc' \in {"number", "done"}
        /\ IdomDone /\ bb > N /\ pc # "out_of_range"
    BY <1>9 DEF BuildTree, NumberChild, NumberReturn, dfVars, idomVars, IdomDone, FrontierInv
  <2> QED BY <1>0, <2>1 DEF WalkInv, FrontierInv, InDf
<1>10. CASE UNCHANGED vars
  <2>1. UNCHANGED <<cfg, bb, i, dom_frontier, idom, pc, runner>>
    BY <1>10 DEF vars, dfVars, idomVars
  <2> QED BY <2>1 DEF WalkInv, FrontierInv, InDf, IdomDone, Pre
<1> QED BY <1>2, <1>3, <1>4, <1>5, <1>6, <1>7, <1>8, <1>9, <1>10, Phase
-----------------------------------------------------------------------------
(***************************************************************************)
(* The numbers of create_dom_dfs_order.                                    *)
(***************************************************************************)
LEMMA NumberedFacts ==
  ASSUME TypeOK, NumberInv, pc \in {"number", "done"}
  PROVE  /\ order \in Nat
         /\ \A x \in Numbered : x \in Blocks /\ Reachable(cfg, x) /\ dom_tree_L[x] \in 1 .. order
         /\ \A k \in 1 .. order : dom_dfs_order[k] \in Numbered /\ dom_tree_L[dom_dfs_order[k]] = k
         /\ \A x, y \in Numbered : dom_tree_L[x] = dom_tree_L[y] => x = y
<1>1. order \in Nat /\ Len(dom_dfs_order) = order /\ Numbered \subseteq ReachableIn(cfg)
  BY DEF TypeOK, NumberTypeOK, NumberInv
<1>2. \A k \in 1 .. order : dom_dfs_order[k] \in Numbered /\ dom_tree_L[dom_dfs_order[k]] = k
  BY <1>1 DEF NumberInv, Numbered, Members
<1>3. ASSUME NEW x \in Numbered
      PROVE  /\ x \in Blocks /\ Reachable(cfg, x) /\ dom_tree_L[x] \in 1 .. order
             /\ dom_dfs_order[dom_tree_L[x]] = x
  <2>1. PICK k \in 1 .. order : x = dom_dfs_order[k]
    BY <1>1 DEF Numbered, Members
  <2>2. dom_tree_L[x] = k
    BY <1>2, <2>1
  <2> QED BY <1>1, <2>1, <2>2 DEF ReachableIn
<1>4. ASSUME NEW x \in Numbered, NEW y \in Numbered, dom_tree_L[x] = dom_tree_L[y] PROVE x = y
  BY <1>3, <1>4
<1> QED BY <1>1, <1>2, <1>3, <1>4

LEMMA ChildFacts ==
  ASSUME TypeOK, IdomRight, NumberInv, pc \in {"number", "done"},
         NEW q \in Blocks, NEW c \in dom_tree_succ[q]
  PROVE  /\ c \in Blocks \ {Entry} /\ idom[c] = q /\ Reachable(cfg, c)
         /\ StrictlyDominates(cfg, q, c)
         /\ \A x \in Blocks : StrictlyDominates(cfg, x, c) => Dominates(cfg, x, q)
<1>1. c \in Blocks \ {q} /\ idom[c] = q
  BY DEF NumberInv
<1>2. c # Entry
  BY <1>1 DEF IdomRight
<1>3. Reachable(cfg, c)
  BY <1>1, <1>2 DEF IdomRight
<1>4. idom \in [Blocks -> BlockOrNull]
  BY DEF TypeOK, IdomTypeOK
<1> QED BY <1>1, <1>2, <1>3, <1>4, IdomFacts

(* The active blocks were numbered in the order of the stack.              *)
LEMMA StackFacts ==
  ASSUME TypeOK, NumberInv, pc = "number", stack # << >>
  PROVE  /\ Top \in Numbered /\ Top \in Members(stack)
         /\ \A x \in Members(stack) : x \in Numbered /\ dom_tree_L[x] <= dom_tree_L[Top]
         /\ Top \notin Members(Pop)
<1>1. /\ Len(stack) \in Nat \ {0} /\ Len(Pop) = Len(stack) - 1 /\ Top \in Members(stack)
      /\ \A j \in 1 .. Len(stack) - 1 : Pop[j] = stack[j]
  BY TopFacts
<1>2. /\ Members(stack) \subseteq Numbered
      /\ \A j, k \in 1 .. Len(stack) : j < k => dom_tree_L[stack[j]] < dom_tree_L[stack[k]]
  BY DEF NumberInv
<1>3. Top \in Numbered /\ dom_tree_L[Top] \in Nat
  BY <1>1, <1>2, NumberedFacts
<1>4. ASSUME NEW x \in Members(stack)
      PROVE  x \in Numbered /\ dom_tree_L[x] <= dom_tree_L[Top]
  <2>1. PICK j \in 1 .. Len(stack) : x = stack[j]
    BY DEF Members
  <2>2. j = Len(stack) \/ dom_tree_L[stack[j]] < dom_tree_L[stack[Len(stack)]]
    BY <1>1, <1>2, <2>1
  <2>3. dom_tree_L[x] \in Nat
    BY <1>2, NumberedFacts
  <2> QED BY <1>2, <1>3, <2>1, <2>2, <2>3 DEF Top
<1>5. Top \notin Members(Pop)
  <2> SUFFICES ASSUME Top \in Members(Pop) PROVE FALSE
    OBVIOUS
  <2>1. PICK j \in 1 .. Len(Pop) : Top = Pop[j]
    BY DEF Members
  <2>2. j \in 1 .. Len(stack) /\ j < Len(stack) /\ Top = stack[j] /\ Len(stack) \in 1 .. Len(stack)
    BY <1>1, <2>1
  <2>3. dom_tree_L[stack[j]] < dom_tree_L[stack[Len(stack)]]
    BY <1>2, <2>2
  <2> QED BY <1>3, <2>2, <2>3 DEF Top
<1> QED BY <1>1, <1>3, <1>4, <1>5

LEMMA StepBuildTree ==
  ASSUME Inv, IdomRight, BuildTree
  PROVE  NumberInv'
<1>0. /\ TypeOK /\ pc' = "number" /\ stack' = <<Entry>> /\ order' = 1
      /\ dom_dfs_order' = <<Entry>> /\ UNCHANGED <<cfg, idom>>
      /\ dom_tree_succ' = [b \in Blocks |-> {c \in Blocks \ {b} : idom[c] = b}]
      /\ dom_tree_L' = [dom_tree_L EXCEPT ![Entry] = 1]
      /\ todo' = [todo EXCEPT ![Entry] = dom_tree_succ'[Entry]]
  BY DEF Inv, BuildTree, idomVars
<1>1. dom_tree_L'[Entry] = 1 /\ todo'[Entry] = dom_tree_succ'[Entry] \ {Entry}
  BY <1>0 DEF TypeOK, NumberTypeOK
<1>2. /\ Len(<<Entry>>) = 1 /\ <<Entry>>[1] = Entry /\ 1 .. 1 = {1}
      /\ Members(<<Entry>>) = {Entry}
  BY DEF Members
<1>3. Numbered' = {Entry} /\ Members(stack)' = {Entry} /\ DomFinished' = {}
  BY <1>0, <1>2 DEF Numbered, DomFinished
<1>4. Entry \in ReachableIn(cfg)
  BY DEF ReachableIn, Reachable
<1>5. \A x \in Blocks : Dominates(cfg, x, Entry) => x = Entry
  BY DominatesEntry
<1>6. Dominates(cfg, Entry, Entry)
  BY DomRefl
<1>7. ReachableIn(cfg)' = ReachableIn(cfg)
  BY <1>0 DEF ReachableIn
<1>8. \A j, k \in 1 .. Len(stack') : ~ (j < k)
  BY <1>0, <1>2
<1> QED BY <1>0, <1>1, <1>2, <1>3, <1>4, <1>5, <1>6, <1>7, <1>8 DEF NumberInv

LEMMA StepNumberChild ==
  ASSUME Inv, IdomRight, NumberInv, NumberChild
  PROVE  NumberInv'
<1>0. /\ TypeOK /\ pc = "number" /\ pc' = "number" /\ stack # << >> /\ order' = order + 1
      /\ stack \in Seq(Blocks) /\ dom_dfs_order \in Seq(Blocks)
      /\ dom_tree_L \in [Blocks -> Nat] /\ todo \in [Blocks -> SUBSET Blocks]
      /\ UNCHANGED <<cfg, idom, dom_tree_succ, dom_tree_R>>
  BY DEF Inv, TypeOK, LoopTypeOK, NumberTypeOK, NumberChild, idomVars
<1>1. PICK c \in todo[Top] :
        /\ todo' = [todo EXCEPT ![Top] = @ \ {c}, ![c] = dom_tree_succ[c]]
        /\ stack' = Append(stack, c)
        /\ dom_tree_L' = [dom_tree_L EXCEPT ![c] = order + 1]
        /\ dom_dfs_order' = Append(dom_dfs_order, c)
  BY DEF NumberChild
<1>2. /\ Top \in Numbered /\ Top \in Blocks /\ Top \in Members(stack)
      /\ \A x \in Members(stack) : x \in Numbered /\ dom_tree_L[x] <= dom_tree_L[Top]
      /\ Len(stack) \in Nat
  BY <1>0, StackFacts, TopFacts
<1>3. c \in dom_tree_succ[Top] /\ c \notin Numbered
  BY <1>0, <1>2 DEF NumberInv
<1>4. /\ c \in Blocks \ {Entry} /\ idom[c] = Top /\ Reachable(cfg, c)
      /\ StrictlyDominates(cfg, Top, c)
      /\ \A x \in Blocks : StrictlyDominates(cfg, x, c) => Dominates(cfg, x, Top)
  BY <1>0, <1>2, <1>3, ChildFacts
<1>5. /\ order \in Nat /\ Len(dom_dfs_order) = order
      /\ \A x \in Numbered : x \in Blocks /\ Reachable(cfg, x) /\ dom_tree_L[x] \in 1 .. order
      /\ \A k \in 1 .. order : dom_dfs_order[k] \in Numbered /\ dom_tree_L[dom_dfs_order[k]] = k
  BY <1>0, NumberedFacts DEF NumberInv
<1>6. Numbered' = Numbered \cup {c} /\ Members(stack)' = Members(stack) \cup {c}
  BY <1>0, <1>1, <1>4, MembersAppend DEF Numbered
<1>7. DomFinished' = DomFinished
  BY <1>3, <1>6 DEF DomFinished
<1>8. /\ dom_tree_L'[c] = order + 1
      /\ \A x \in Numbered : dom_tree_L'[x] = dom_tree_L[x]
  BY <1>0, <1>1, <1>3, <1>4, <1>5
<1>9. Len(dom_dfs_order') = order'
      /\ \A k \in 1 .. order' : dom_tree_L'[dom_dfs_order'[k]] = k
  <2>1. /\ Len(dom_dfs_order') = order + 1 /\ dom_dfs_order'[order + 1] = c
        /\ \A k \in 1 .. order : dom_dfs_order'[k] = dom_dfs_order[k]
    BY <1>0, <1>1, <1>5
  <2>2. \A k \in 1 .. order + 1 : k = order + 1 \/ k \in 1 .. order
    BY <1>5
  <2> QED BY <1>0, <1>5, <1>8, <2>1, <2>2
<1>10. \A j, k \in 1 .. Len(stack') : j < k => dom_tree_L'[stack'[j]] < dom_tree_L'[stack'[k]]
  <2>1. /\ Len(stack') = Len(stack) + 1 /\ stack'[Len(stack) + 1] = c
        /\ \A j \in 1 .. Len(stack) : stack'[j] = stack[j] /\ stack[j] \in Members(stack)
    BY <1>0, <1>1 DEF Members
  <2> SUFFICES ASSUME NEW j \in 1 .. Len(stack'), NEW k \in 1 .. Len(stack'), j < k
               PROVE  dom_tree_L'[stack'[j]] < dom_tree_L'[stack'[k]]
    OBVIOUS
  <2>2. j \in 1 .. Len(stack) /\ (k \in 1 .. Len(stack) \/ k = Len(stack) + 1)
    BY <1>2, <2>1
  <2>3. stack'[j] \in Numbered /\ stack'[j] = stack[j]
    BY <1>2, <2>1, <2>2
  <2>4. CASE k = Len(stack) + 1
    <3>1. dom_tree_L'[stack'[j]] \in 1 .. order /\ dom_tree_L'[stack'[k]] = order + 1
      BY <1>5, <1>8, <2>1, <2>3, <2>4
    <3> QED BY <1>5, <3>1
  <2>5. CASE k \in 1 .. Len(stack)
    <3>1. stack'[k] \in Numbered /\ stack'[k] = stack[k]
      BY <1>2, <2>1, <2>5
    <3>2. dom_tree_L[stack[j]] < dom_tree_L[stack[k]]
      BY <1>0, <2>2, <2>5 DEF NumberInv
    <3> QED BY <1>8, <2>3, <3>1, <3>2
  <2> QED BY <2>2, <2>4, <2>5
<1>11. ASSUME NEW y \in Numbered', NEW x \in Blocks, Dominates(cfg, x, y)
       PROVE  x \in Numbered' /\ dom_tree_L'[x] <= dom_tree_L'[y]
  <2>1. ASSUME NEW z \in Numbered, Dominates(cfg, x, z)
        PROVE  x \in Numbered /\ dom_tree_L[x] <= dom_tree_L[z]
    BY <1>0, <2>1 DEF NumberInv
  <2>2. CASE y \in Numbered
    BY <1>6, <1>8, <1>11, <2>1, <2>2
  <2>3. CASE y = c /\ x = c
    BY <1>5, <1>6, <1>8, <2>3
  <2>4. CASE y = c /\ x # c
    <3>1. Dominates(cfg, x, Top)
      BY <1>4, <1>11, <2>4 DEF StrictlyDominates
    <3>2. x \in Numbered
      BY <1>2, <2>1, <3>1
    <3>3. dom_tree_L'[x] \in 1 .. order
      BY <1>5, <1>8, <3>2
    <3> QED BY <1>5, <1>6, <1>8, <2>4, <3>2, <3>3
  <2> QED BY <1>6, <2>2, <2>3, <2>4
<1>12. ASSUME NEW x \in Members(stack)'
       PROVE  /\ todo'[x] = dom_tree_succ'[x] \ Numbered'
              /\ \A y \in Numbered' : dom_tree_L'[x] <= dom_tree_L'[y] => Dominates(cfg, x, y)
  <2>1. CASE x = c
    <3>1. todo'[c] = dom_tree_succ[c]
      BY <1>0, <1>1, <1>4
    <3>2. ASSUME NEW d \in dom_tree_succ[c] PROVE d \notin Numbered'
      <4>1. d # c /\ Dominates(cfg, c, d)
        BY <1>0, <1>4, <3>2, ChildFacts DEF StrictlyDominates
      <4>2. d \notin Numbered
        BY <1>0, <1>3, <1>4, <4>1 DEF NumberInv
      <4> QED BY <1>6, <4>1, <4>2
    <3>3. \A y \in Numbered : ~ (dom_tree_L'[c] <= dom_tree_L'[y])
      BY <1>5, <1>8
    <3>4. Dominates(cfg, c, c)
      BY <1>4, DomRefl
    <3> QED BY <1>0, <1>6, <2>1, <3>1, <3>2, <3>3, <3>4
  <2>2. CASE x # c
    <3>1. x \in Members(stack) /\ x \in Numbered /\ x \in Blocks /\ dom_tree_L[x] <= dom_tree_L[Top]
      BY <1>2, <1>5, <1>6, <2>2
    <3>2. /\ todo[x] = dom_tree_succ[x] \ Numbered
          /\ \A y \in Numbered : dom_tree_L[x] <= dom_tree_L[y] => Dominates(cfg, x, y)
      BY <1>0, <3>1 DEF NumberInv
    <3>3. todo'[x] = dom_tree_succ[x] \ Numbered'
      <4>1. CASE x = Top
        BY <1>0, <1>1, <1>2, <1>4, <1>6, <2>2, <3>2, <4>1
      <4>2. CASE x # Top
        <5>1. todo'[x] = todo[x]
          BY <1>0, <1>1, <2>2, <3>1, <4>2
        <5>2. c \notin dom_tree_succ[x]
          BY <1>0, <1>4, <3>1, <4>2, ChildFacts
        <5> QED BY <1>6, <3>2, <5>1, <5>2
      <4> QED BY <4>1, <4>2
    <3>4. Dominates(cfg, x, Top)
      BY <1>2, <3>1, <3>2
    <3>5. Dominates(cfg, x, c)
      BY <1>2, <1>4, <3>1, <3>4, DomTrans DEF StrictlyDominates
    <3> QED BY <1>0, <1>6, <1>8, <3>1, <3>2, <3>3, <3>5
  <2> QED BY <2>1, <2>2
<1>13. ASSUME NEW x \in DomFinished'
       PROVE  /\ dom_tree_R'[x] <= order'
              /\ \A y \in ReachableIn(cfg) : Dominates(cfg, x, y) => y \in Numbered'
              /\ \A y \in Numbered' : Dominates(cfg, x, y) <=> is_dominate(x, y)'
  <2>1. x \in DomFinished /\ x \in Numbered /\ x \in Blocks
    BY <1>5, <1>7 DEF DomFinished
  <2>2. /\ dom_tree_R[x] <= order
        /\ \A y \in ReachableIn(cfg) : Dominates(cfg, x, y) => y \in Numbered
        /\ \A y \in Numbered : Dominates(cfg, x, y) <=> is_dominate(x, y)
    BY <1>0, <2>1 DEF NumberInv
  <2>3. dom_tree_R[x] \in Nat
    BY <1>0, <2>1 DEF TypeOK, NumberTypeOK
  <2>4. ~ Dominates(cfg, x, c)
    BY <1>3, <1>4, <2>2 DEF ReachableIn
  <2>5. ~ is_dominate(x, c)'
    BY <1>0, <1>5, <1>8, <2>2, <2>3 DEF is_dominate
  <2>6. \A y \in Numbered : is_dominate(x, y)' <=> is_dominate(x, y)
    BY <1>0, <1>8, <2>1 DEF is_dominate
  <2>7. \A y \in Numbered' : Dominates(cfg, x, y) <=> is_dominate(x, y)'
    <3> SUFFICES ASSUME NEW y \in Numbered' PROVE Dominates(cfg, x, y) <=> is_dominate(x, y)'
      OBVIOUS
    <3>1. CASE y = c
      BY <2>4, <2>5, <3>1 DEF is_dominate
    <3>2. CASE y \in Numbered
      BY <2>2, <2>6, <3>2
    <3> QED BY <1>6, <3>1, <3>2
  <2> QED BY <1>0, <1>5, <1>6, <2>2, <2>3, <2>7
<1>14. /\ dom_tree_succ' = [b \in Blocks |-> {d \in Blocks \ {b} : idom'[d] = b}]
       /\ Entry \in Numbered' /\ Numbered' \subseteq ReachableIn(cfg)
       /\ Members(stack)' \subseteq Numbered'
  BY <1>0, <1>4, <1>6 DEF NumberInv, ReachableIn
<1>15. ReachableIn(cfg)' = ReachableIn(cfg)
  BY <1>0 DEF ReachableIn
<1> QED BY <1>0, <1>9, <1>10, <1>11, <1>12, <1>13, <1>14, <1>15 DEF NumberInv

(* What a block dominates is numbered by the time its call returns.        *)
LEMMA ReturnsLast ==
  ASSUME Inv, IdomRight, NumberInv, pc = "number", stack # << >>, todo[Top] = {},
         NEW y \in ReachableIn(cfg), Dominates(cfg, Top, y)
  PROVE  y \in Numbered
<1> DEFINE W == {z \in ReachableIn(cfg) : Dominates(cfg, Top, z) => z \in Numbered}
<1>0. /\ TypeOK /\ idom \in [Blocks -> BlockOrNull] /\ Top \in Numbered /\ Top \in Blocks
      /\ \A x \in Members(stack) : x \in Numbered /\ dom_tree_L[x] <= dom_tree_L[Top]
      /\ dom_tree_succ[Top] \subseteq Numbered
  BY StackFacts, TopFacts DEF Inv, TypeOK, IdomTypeOK, NumberInv
<1>1. Entry \in W
  BY DEF NumberInv, ReachableIn
<1>2. ASSUME NEW z \in W, NEW x \in Blocks, Edge(cfg, z, x) PROVE x \in W
  <2>1. z \in Blocks /\ Reachable(cfg, z) /\ Reachable(cfg, x)
    BY <1>2, SuccReachable DEF ReachableIn
  <2> SUFFICES ASSUME Dominates(cfg, Top, x), x \notin Numbered PROVE FALSE
    BY <2>1 DEF ReachableIn
  <2>2. x # Entry /\ x # Top
    BY <1>0 DEF NumberInv
  <2> DEFINE q == idom[x]
  <2>3. /\ q \in Blocks /\ StrictlyDominates(cfg, q, x) /\ Dominates(cfg, q, z)
        /\ Dominates(cfg, Top, q)
    BY <1>0, <1>2, <2>1, <2>2, IdomFacts DEF StrictlyDominates
  <2>4. Dominates(cfg, Top, z)
    BY <1>0, <2>1, <2>3, DomTrans
  <2>5. z \in Numbered
    BY <2>4
  <2>6. q \in Numbered /\ dom_tree_L[Top] <= dom_tree_L[q]
    BY <1>0, <2>3, <2>5 DEF NumberInv
  <2>7. q # Top
    <3> SUFFICES ASSUME q = Top PROVE FALSE
      OBVIOUS
    <3>1. x \in dom_tree_succ[Top]
      BY <1>0, <2>2 DEF NumberInv
    <3> QED BY <1>0, <3>1
  <2> HIDE DEF q
  <2>8. q \notin Members(stack)
    <3> SUFFICES ASSUME q \in Members(stack) PROVE FALSE
      OBVIOUS
    <3>1. dom_tree_L[q] <= dom_tree_L[Top] /\ dom_tree_L[q] \in Nat /\ dom_tree_L[Top] \in Nat
      BY <1>0, <2>6, NumberedFacts
    <3>2. dom_tree_L[q] = dom_tree_L[Top]
      BY <2>6, <3>1
    <3> QED BY <1>0, <2>6, <2>7, <3>2, NumberedFacts
  <2>9. q \in DomFinished /\ Dominates(cfg, q, x) /\ x \in ReachableIn(cfg)
    BY <2>1, <2>3, <2>6, <2>8 DEF DomFinished, StrictlyDominates, ReachableIn
  <2> QED BY <2>9 DEF NumberInv
<1>3. W \in SUBSET Blocks
  BY DEF ReachableIn
<1> HIDE DEF W
<1>4. Closed(cfg, W)
  BY <1>2 DEF Closed
<1>5. y \in W
  BY <1>1, <1>3, <1>4 DEF ReachableIn, Reachable
<1> QED BY <1>5 DEF W

LEMMA StepNumberReturn ==
  ASSUME Inv, IdomRight, NumberInv, NumberReturn
  PROVE  NumberInv'
<1>0. /\ TypeOK /\ pc = "number" /\ pc' \in {"number", "done"} /\ stack # << >>
      /\ stack' = Pop /\ todo[Top] = {} /\ (pc' = "done" => Len(stack) = 1)
      /\ dom_tree_R' = [dom_tree_R EXCEPT ![Top] = order]
      /\ dom_tree_R \in [Blocks -> Nat]
      /\ UNCHANGED <<cfg, idom, dom_tree_succ, todo, order, dom_tree_L, dom_dfs_order>>
  BY DEF Inv, TypeOK, NumberTypeOK, NumberReturn, idomVars
<1>1. /\ Top \in Numbered /\ Top \in Members(stack) /\ Top \notin Members(Pop) /\ Top \in Blocks
      /\ Members(stack) = Members(Pop) \cup {Top}
      /\ Len(stack) \in Nat \ {0} /\ Len(Pop) = Len(stack) - 1 /\ Pop \in Seq(Blocks)
      /\ \A j \in 1 .. Len(stack) - 1 : Pop[j] = stack[j]
  BY <1>0, StackFacts, TopFacts
<1>2. /\ order \in Nat
      /\ \A x \in Numbered : x \in Blocks /\ dom_tree_L[x] \in 1 .. order
  BY <1>0, NumberedFacts
<1>3. Numbered' = Numbered /\ Members(stack)' = Members(Pop) /\ DomFinished' = DomFinished \cup {Top}
  BY <1>0, <1>1 DEF Numbered, DomFinished
<1>4. pc' = "done" => stack' = << >>
  BY <1>0, <1>1
<1>5. \A j, k \in 1 .. Len(stack') : j < k => dom_tree_L'[stack'[j]] < dom_tree_L'[stack'[k]]
  <2>1. \A j \in 1 .. Len(Pop) : j \in 1 .. Len(stack) /\ Pop[j] = stack[j]
    BY <1>1
  <2> QED BY <1>0, <2>1 DEF NumberInv
<1>6. ASSUME NEW x \in DomFinished, NEW y \in Numbered
      PROVE  /\ dom_tree_R'[x] = dom_tree_R[x] /\ x # Top
             /\ is_dominate(x, y)' <=> is_dominate(x, y)
  <2>1. x # Top /\ x \in Blocks
    BY <1>1, <1>2, <1>6 DEF DomFinished
  <2>2. dom_tree_R'[x] = dom_tree_R[x]
    BY <1>0, <2>1
  <2> QED BY <1>0, <2>1, <2>2 DEF is_dominate
<1>7. dom_tree_R'[Top] = order
  BY <1>0, <1>1
<1>8. ASSUME NEW y \in Numbered
      PROVE  Dominates(cfg, Top, y) <=> dom_tree_L[Top] <= dom_tree_L[y] /\ order >= dom_tree_L[y]
  <2>1. dom_tree_L[y] \in 1 .. order
    BY <1>2
  <2>2. Dominates(cfg, Top, y) => dom_tree_L[Top] <= dom_tree_L[y]
    BY <1>0, <1>1 DEF NumberInv
  <2>3. dom_tree_L[Top] <= dom_tree_L[y] => Dominates(cfg, Top, y)
    BY <1>0, <1>1 DEF NumberInv
  <2> QED BY <1>2, <2>1, <2>2, <2>3
<1>9. \A y \in ReachableIn(cfg) : Dominates(cfg, Top, y) => y \in Numbered
  BY <1>0, ReturnsLast
<1>10. ASSUME NEW x \in DomFinished'
       PROVE  /\ dom_tree_R'[x] <= order
              /\ \A y \in ReachableIn(cfg) : Dominates(cfg, x, y) => y \in Numbered
              /\ \A y \in Numbered : Dominates(cfg, x, y) <=> is_dominate(x, y)'
  <2>1. CASE x \in DomFinished
    <3>1. /\ dom_tree_R[x] <= order
          /\ \A y \in ReachableIn(cfg) : Dominates(cfg, x, y) => y \in Numbered
          /\ \A y \in Numbered : Dominates(cfg, x, y) <=> is_dominate(x, y)
      BY <1>0, <2>1 DEF NumberInv
    <3>2. Top \in Numbered
      BY <1>1
    <3> QED BY <1>6, <2>1, <3>1, <3>2
  <2>2. CASE x = Top
    <3>1. ASSUME NEW y \in Numbered PROVE Dominates(cfg, x, y) <=> is_dominate(x, y)'
      <4>1. is_dominate(x, y)' <=> dom_tree_L[Top] <= dom_tree_L[y] /\ order >= dom_tree_L[y]
        BY <1>0, <1>7, <2>2 DEF is_dominate
      <4> QED BY <1>8, <2>2, <4>1
    <3>2. dom_tree_R'[x] <= order
      BY <1>2, <1>7, <2>2
    <3> QED BY <1>9, <2>2, <3>1, <3>2
  <2> QED BY <1>3, <2>1, <2>2
<1>11. ASSUME NEW x \in Members(Pop)
       PROVE  /\ todo[x] = dom_tree_succ[x] \ Numbered
              /\ \A y \in Numbered : dom_tree_L[x] <= dom_tree_L[y] => Dominates(cfg, x, y)
  BY <1>0, <1>1, <1>11 DEF NumberInv
<1>12. /\ dom_tree_succ = [b \in Blocks |-> {c \in Blocks \ {b} : idom[c] = b}]
       /\ Len(dom_dfs_order) = order
       /\ \A k \in 1 .. order : dom_tree_L[dom_dfs_order[k]] = k
       /\ Entry \in Numbered /\ Numbered \subseteq ReachableIn(cfg)
       /\ Members(Pop) \subseteq Numbered
       /\ \A y \in Numbered : \A x \in Blocks :
            Dominates(cfg, x, y) => x \in Numbered /\ dom_tree_L[x] <= dom_tree_L[y]
  BY <1>0, <1>1 DEF NumberInv
<1>13. ReachableIn(cfg)' = ReachableIn(cfg)
  BY <1>0 DEF ReachableIn
<1>14. dom_tree_succ' = [b \in Blocks |-> {c \in Blocks \ {b} : idom'[c] = b}]
  BY <1>0, <1>12
<1>15. \A x \in Members(stack)' :
         /\ todo'[x] = dom_tree_succ'[x] \ Numbered'
         /\ \A y \in Numbered' : dom_tree_L'[x] <= dom_tree_L'[y] => Dominates(cfg', x, y)
  BY <1>0, <1>3, <1>11
<1>16. \A x \in DomFinished' :
         /\ dom_tree_R'[x] <= order'
         /\ \A y \in ReachableIn(cfg)' : Dominates(cfg', x, y) => y \in Numbered'
         /\ \A y \in Numbered' : Dominates(cfg', x, y) <=> is_dominate(x, y)'
  BY <1>0, <1>3, <1>10, <1>13
<1>17. /\ \A k \in 1 .. order' : dom_tree_L'[dom_dfs_order'[k]] = k
       /\ \A y \in Numbered' : \A x \in Blocks :
            Dominates(cfg', x, y) => x \in Numbered' /\ dom_tree_L'[x] <= dom_tree_L'[y]
  BY <1>0, <1>3, <1>12
<1> QED BY <1>0, <1>3, <1>4, <1>5, <1>12, <1>13, <1>14, <1>15, <1>16, <1>17 DEF NumberInv

LEMMA StepNumberInv == Inv /\ FixInv /\ NumberInv /\ [Next]_vars => NumberInv'
<1> SUFFICES ASSUME Inv, FixInv, NumberInv, [Next]_vars PROVE NumberInv'
  OBVIOUS
<1>0. IdomDone => IdomRight
  BY IdomRightNow
<1>1. CASE DfsSucc \/ DfsReturn \/ StartIdom \/ SkipBlock \/ StartBlock
  BY <1>1 DEF DfsSucc, DfsReturn, StartIdom, SkipBlock, StartBlock, NumberInv
<1>2. CASE FoldPred \/ ClimbFirst \/ ClimbSecond \/ Met \/ CommitBlock \/ EndSweep
  BY <1>2 DEF FoldPred, ClimbFirst, ClimbSecond, Met, CommitBlock, EndSweep, NumberInv
<1>3. CASE FrontierBlock \/ RunnerClimb \/ RunnerLost \/ RunnerArrived
  BY <1>3 DEF FrontierBlock, RunnerClimb, RunnerLost, RunnerArrived, NumberInv
<1>4. CASE BuildTree
  BY <1>0, <1>4, StepBuildTree DEF BuildTree, IdomDone
<1>5. CASE NumberChild
  BY <1>0, <1>5, StepNumberChild DEF NumberChild, IdomDone
<1>6. CASE NumberReturn
  BY <1>0, <1>6, StepNumberReturn DEF NumberReturn, IdomDone
<1>7. CASE UNCHANGED vars
  BY <1>7 DEF vars, numVars, idomVars, NumberInv, Numbered, DomFinished, is_dominate
<1> QED BY <1>1, <1>2, <1>3, <1>4, <1>5, <1>6, <1>7, Phase

LEMMA NumbersRight == Inv /\ FixInv /\ NumberInv => TreeOrderCorrect
<1> SUFFICES ASSUME Inv, FixInv, NumberInv, pc = "done"
             PROVE  /\ \A x, y \in ReachableIn(cfg) : is_dominate(x, y) <=> Dominates(cfg, x, y)
                    /\ Members(dom_dfs_order) = ReachableIn(cfg)
                    /\ \A k, l \in 1 .. Len(dom_dfs_order) :
                         k < l => ~ Dominates(cfg, dom_dfs_order[l], dom_dfs_order[k])
  BY DEF TreeOrderCorrect
<1>1. TypeOK /\ IdomRight
  BY IdomRightNow DEF IdomDone, Inv
<1>2. DomFinished = Numbered
  <2>1. Members(<< >>) = {}
    BY DEF Members
  <2> QED BY <2>1 DEF NumberInv, DomFinished
<1>3. Numbered = ReachableIn(cfg)
  <2>1. Entry \in Numbered /\ Numbered \subseteq ReachableIn(cfg)
    BY DEF NumberInv
  <2>2. ASSUME NEW b \in ReachableIn(cfg) PROVE b \in Numbered
    <3>1. Dominates(cfg, Entry, b)
      <4>1. AvoidSet(cfg, Entry, {})
        BY DEF AvoidSet
      <4> QED BY <4>1 DEF Dominates
    <3> QED BY <1>2, <2>1, <3>1 DEF NumberInv
  <2> QED BY <2>1, <2>2
<1>4. \A x, y \in Numbered : is_dominate(x, y) <=> Dominates(cfg, x, y)
  BY <1>2 DEF NumberInv
<1>5. ASSUME NEW k \in 1 .. Len(dom_dfs_order), NEW l \in 1 .. Len(dom_dfs_order), k < l
      PROVE  ~ Dominates(cfg, dom_dfs_order[l], dom_dfs_order[k])
  <2>1. Len(dom_dfs_order) = order /\ order \in Nat
    BY <1>1, NumberedFacts DEF NumberInv
  <2>2. /\ dom_dfs_order[k] \in Numbered /\ dom_tree_L[dom_dfs_order[k]] = k
        /\ dom_dfs_order[l] \in Numbered /\ dom_tree_L[dom_dfs_order[l]] = l
    BY <1>1, <2>1, NumberedFacts
  <2>3. ~ (l <= k)
    BY <1>5, <2>1
  <2>4. ~ is_dominate(dom_dfs_order[l], dom_dfs_order[k])
    BY <2>2, <2>3 DEF is_dominate
  <2> QED BY <1>4, <2>2, <2>4
<1> QED BY <1>3, <1>4, <1>5 DEF Numbered
-----------------------------------------------------------------------------
(***************************************************************************)
(* The theorems.                                                           *)
(***************************************************************************)
LEMMA TreeAlways == Spec => [](Inv /\ FixInv /\ TreeInv)
<1>1. Init => FixInv /\ TreeInv
  <2>1. Init => TreeInv
    <3> SUFFICES ASSUME Init PROVE TreeInv
      OBVIOUS
    <3>1. pc = "dfs" /\ \A d \in Blocks : dom_frontier[d] = {}
      BY DEF Init
    <3> QED BY <3>1 DEF TreeInv, WalkInv, FrontierInv, NumberInv, InDf, ReachableIn, IdomDone
  <2> QED BY <2>1, InitFix
<1>2. Inv /\ FixInv /\ TreeInv /\ [Next]_vars => FixInv' /\ TreeInv'
  BY StepFixInv, StepFrontierInv, StepNumberInv DEF TreeInv
<1> QED BY <1>1, <1>2, Invariance, PTL DEF Spec

(* create_dominance_frontier: where no walk is lost the sets are those of  *)
(* the definition, and a walk is lost only at a reachable join from an     *)
(* unreachable predecessor.                                                *)
THEOREM FrontierCorrectAlways == Spec => []FrontierCorrect
<1>1. Inv /\ FixInv /\ TreeInv => FrontierCorrect
  <2> SUFFICES ASSUME Inv, TreeInv PROVE FrontierCorrect
    OBVIOUS
  <2>1. pc = "done" => \A b \in Blocks : b < bb
    <3>1. N \in Nat /\ bb \in 1 .. N + 1
      BY NAssumption DEF Inv, TypeOK, LoopTypeOK
    <3> QED BY <3>1 DEF TreeInv, FrontierInv, Blocks
  <2>2. FrontierInv
    BY DEF TreeInv
  <2> QED BY <2>1, <2>2 DEF FrontierInv, FrontierCorrect, InDf, IdomDone, ReachableIn
<1> QED BY <1>1, TreeAlways, PTL

(* create_dom_dfs_order: is_dominate is dominance on the reachable blocks, *)
(* and each of them is listed once, after all that dominate it.            *)
THEOREM TreeOrderCorrectAlways == Spec => []TreeOrderCorrect
<1>1. Inv /\ FixInv /\ TreeInv => TreeOrderCorrect
  BY NumbersRight DEF TreeInv
<1> QED BY <1>1, TreeAlways, PTL
=============================================================================
