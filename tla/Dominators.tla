----------------------------- MODULE Dominators -----------------------------
(***************************************************************************)
(* Dominators::run_on_func (src/src/passes/Dominators.cpp) on one function *)
(* of the module: post order by depth-first search, immediate dominators   *)
(* by sweeping the block list until nothing changes, dominance frontiers,  *)
(* the dominator tree and its depth-first numbering.                       *)
(*                                                                         *)
(* One step is one iteration of one of the code's loops, or one recursive  *)
(* call or return, so that idom_ is seen while it is still only a guess.   *)
(***************************************************************************)
EXTENDS Cfg, Integers

CONSTANT CFGs           \* the control flow graphs the pass may be given

ASSUME CFGsAssumption == \A g \in CFGs : IsCfg(g)

VARIABLES
  cfg,                  \* the function: read only to this pass
  pc,                   \* which loop of which create_* function is running
  visited, stack, next, \* dfs: visited set, active calls, succ index of each
  post_order,           \* post_order_; -1 for a block not in the map
  post_order_vec,       \* post_order_vec_: grows together with post_order_
  idom,                 \* idom_
  changed,              \* create_idom: the sweep changed something
  bb, i,                \* loop positions: block list, predecessor list
  new_idom, b1, b2,     \* create_idom's candidate, intersect's two fingers
  dom_frontier, runner, \* create_dominance_frontier
  dom_tree_succ,        \* dom_tree_succ_blocks_
  todo, order,          \* create_dom_dfs_order: children left, the counter
  dom_tree_L, dom_tree_R, dom_dfs_order

dfsVars  == <<visited, next, post_order, post_order_vec>>
idomVars == <<idom, changed, new_idom, b1, b2>>
dfVars   == <<dom_frontier, runner>>
numVars  == <<todo, order, dom_tree_L, dom_tree_R, dom_dfs_order>>
vars == <<cfg, pc, stack, bb, i, dom_tree_succ, dfsVars, idomVars, dfVars, numVars>>

Phases == {"dfs", "sweep", "fold", "intersect", "frontier", "runner",
           "number", "done", "out_of_range"}

DfsTypeOK ==
  /\ visited \in SUBSET Blocks
  /\ next \in [Blocks -> Nat \ {0}]
  /\ post_order \in [Blocks -> Nat \cup {-1}]
  /\ post_order_vec \in Seq(Blocks)

IdomTypeOK ==
  /\ idom \in [Blocks -> BlockOrNull]
  /\ changed \in BOOLEAN
  /\ new_idom \in BlockOrNull
  /\ b1 \in BlockOrNull
  /\ b2 \in BlockOrNull

FrontierTypeOK ==
  /\ dom_frontier \in [Blocks -> SUBSET Blocks]
  /\ runner \in BlockOrNull

NumberTypeOK ==
  /\ todo \in [Blocks -> SUBSET Blocks]
  /\ order \in Nat
  /\ dom_tree_L \in [Blocks -> Nat]
  /\ dom_tree_R \in [Blocks -> Nat]
  /\ dom_dfs_order \in Seq(Blocks)

LoopTypeOK ==
  /\ IsCfg(cfg)
  /\ pc \in Phases
  /\ stack \in Seq(Blocks)
  /\ bb \in 1 .. N + 1
  /\ i \in Nat \ {0}
  /\ dom_tree_succ \in [Blocks -> SUBSET Blocks]

TypeOK == LoopTypeOK /\ DfsTypeOK /\ IdomTypeOK /\ FrontierTypeOK /\ NumberTypeOK

(* run_on_func has inserted every block with a null idom, and              *)
(* create_reverse_post_order has called dfs on the entry.                  *)
Init ==
  /\ cfg \in CFGs
  /\ pc = "dfs"
  /\ visited = {Entry}
  /\ stack = <<Entry>>
  /\ next = [b \in Blocks |-> 1]
  /\ post_order = [b \in Blocks |-> -1]
  /\ post_order_vec = << >>
  /\ idom = [b \in Blocks |-> nullptr]
  /\ changed = FALSE
  /\ bb = 1 /\ i = 1
  /\ new_idom = nullptr /\ b1 = nullptr /\ b2 = nullptr /\ runner = nullptr
  /\ dom_frontier = [b \in Blocks |-> {}]
  /\ dom_tree_succ = [b \in Blocks |-> {}]
  /\ todo = [b \in Blocks |-> {}]
  /\ order = 0
  /\ dom_tree_L = [b \in Blocks |-> 0]
  /\ dom_tree_R = [b \in Blocks |-> 0]
  /\ dom_dfs_order = << >>

Top == stack[Len(stack)]
Pop == SubSeq(stack, 1, Len(stack) - 1)
-----------------------------------------------------------------------------
(* dfs: look at the next successor of the active block, calling dfs on it  *)
(* when it was not visited.                                                *)
DfsSucc ==
  /\ pc = "dfs" /\ stack # << >>
  /\ next[Top] <= Len(cfg.succ[Top])
  /\ LET s == cfg.succ[Top][next[Top]]
     IN  /\ visited' = visited \cup {s}
         /\ stack' = IF s \in visited THEN stack ELSE Append(stack, s)
  /\ next' = [next EXCEPT ![Top] = @ + 1]
  /\ UNCHANGED <<cfg, pc, bb, i, dom_tree_succ, post_order, post_order_vec,
                 idomVars, dfVars, numVars>>

(* dfs: the successors are exhausted; number the block with the size of    *)
(* post_order_ and return.                                                 *)
DfsReturn ==
  /\ pc = "dfs" /\ stack # << >>
  /\ next[Top] > Len(cfg.succ[Top])
  /\ post_order' = [post_order EXCEPT ![Top] = Len(post_order_vec)]
  /\ post_order_vec' = Append(post_order_vec, Top)
  /\ stack' = Pop
  /\ UNCHANGED <<cfg, pc, bb, i, dom_tree_succ, visited, next, idomVars, dfVars, numVars>>
-----------------------------------------------------------------------------
(* create_idom: the entry dominates itself; begin the first sweep.         *)
StartIdom ==
  /\ pc = "dfs" /\ stack = << >>
  /\ idom' = [idom EXCEPT ![Entry] = Entry]
  /\ changed' = FALSE
  /\ bb' = 1
  /\ pc' = "sweep"
  /\ UNCHANGED <<cfg, stack, i, dom_tree_succ, new_idom, b1, b2, dfsVars, dfVars, numVars>>

Pre(b) == cfg.pre[b]

Processed(b) == {j \in 1 .. Len(Pre(b)) : idom[Pre(b)[j]] # nullptr}

(* A sweep passes over the entry and over a block none of whose            *)
(* predecessors has an idom yet.                                           *)
SkipBlock ==
  /\ pc = "sweep" /\ bb \in Blocks
  /\ bb = Entry \/ Processed(bb) = {}
  /\ bb' = bb + 1
  /\ UNCHANGED <<cfg, pc, stack, i, dom_tree_succ, dfsVars, idomVars, dfVars, numVars>>

(* The first processed predecessor is the first candidate.                 *)
StartBlock ==
  /\ pc = "sweep" /\ bb \in Blocks \ {Entry}
  /\ \E j \in Processed(bb) :
       /\ \A l \in Processed(bb) : j <= l
       /\ new_idom' = Pre(bb)[j]
  /\ i' = 1
  /\ pc' = "fold"
  /\ UNCHANGED <<cfg, stack, bb, dom_tree_succ, idom, changed, b1, b2, dfsVars, dfVars, numVars>>

MutantFoldPred ==
  /\ pc = "fold" /\ i <= Len(Pre(bb))
  /\ LET pred == Pre(bb)[i]
     IN  IF pred # new_idom
           THEN /\ b1' = new_idom /\ b2' = pred
                /\ pc' = "intersect"
                /\ UNCHANGED i
           ELSE /\ i' = i + 1
                /\ UNCHANGED <<b1, b2, pc>>
  /\ UNCHANGED <<cfg, stack, bb, dom_tree_succ, idom, changed, new_idom, dfsVars, dfVars, numVars>>

(* Every processed predecessor other than the candidate is met with it.    *)
FoldPred ==
  /\ pc = "fold" /\ i <= Len(Pre(bb))
  /\ LET pred == Pre(bb)[i]
     IN  IF pred # new_idom /\ idom[pred] # nullptr
           THEN /\ b1' = new_idom /\ b2' = pred
                /\ pc' = "intersect"
                /\ UNCHANGED i
           ELSE /\ i' = i + 1
                /\ UNCHANGED <<b1, b2, pc>>
  /\ UNCHANGED <<cfg, stack, bb, dom_tree_succ, idom, changed, new_idom, dfsVars, dfVars, numVars>>

MutantBelow(x, y) == x > y

(* get_post_order(x) < get_post_order(y)                                   *)
Below(x, y) == post_order[x] < post_order[y]

(* intersect: the finger with the smaller post order climbs.               *)
ClimbFirst ==
  /\ pc = "intersect" /\ b1 # b2
  /\ Below(b1, b2)
  /\ b1' = idom[b1]
  /\ UNCHANGED <<cfg, pc, stack, bb, i, dom_tree_succ, idom, changed, new_idom, b2,
                 dfsVars, dfVars, numVars>>

ClimbSecond ==
  /\ pc = "intersect" /\ b1 # b2
  /\ Below(b2, b1)
  /\ b2' = idom[b2]
  /\ UNCHANGED <<cfg, pc, stack, bb, i, dom_tree_succ, idom, changed, new_idom, b1,
                 dfsVars, dfVars, numVars>>

Met ==
  /\ pc = "intersect" /\ b1 = b2
  /\ new_idom' = b1
  /\ i' = i + 1
  /\ pc' = "fold"
  /\ UNCHANGED <<cfg, stack, bb, dom_tree_succ, idom, changed, b1, b2, dfsVars, dfVars, numVars>>

MutantCommitBlock ==
  /\ pc = "fold" /\ i > Len(Pre(bb))
  /\ idom' = [idom EXCEPT ![bb] = new_idom]
  /\ changed' = TRUE
  /\ bb' = bb + 1
  /\ pc' = "sweep"
  /\ UNCHANGED <<cfg, stack, i, dom_tree_succ, new_idom, b1, b2, dfsVars, dfVars, numVars>>

(* All predecessors met: record the candidate if it differs.               *)
CommitBlock ==
  /\ pc = "fold" /\ i > Len(Pre(bb))
  /\ idom' = [idom EXCEPT ![bb] = new_idom]
  /\ changed' = (changed \/ idom[bb] # new_idom)
  /\ bb' = bb + 1
  /\ pc' = "sweep"
  /\ UNCHANGED <<cfg, stack, i, dom_tree_succ, new_idom, b1, b2, dfsVars, dfVars, numVars>>

MutantEndSweep ==
  /\ pc = "sweep" /\ bb > N
  /\ bb' = 1
  /\ changed' = FALSE
  /\ pc' = "frontier"
  /\ UNCHANGED <<cfg, stack, i, dom_tree_succ, idom, new_idom, b1, b2, dfsVars, dfVars, numVars>>

MutantEndSweepZero ==
  /\ pc = "sweep" /\ bb > N
  /\ bb' = 0
  /\ changed' = FALSE
  /\ pc' = IF changed THEN "sweep" ELSE "frontier"
  /\ UNCHANGED <<cfg, stack, i, dom_tree_succ, idom, new_idom, b1, b2, dfsVars, dfVars, numVars>>

(* while (changed): sweep again, or go on to create_dominance_frontier.    *)
EndSweep ==
  /\ pc = "sweep" /\ bb > N
  /\ bb' = 1
  /\ changed' = FALSE
  /\ pc' = IF changed THEN "sweep" ELSE "frontier"
  /\ UNCHANGED <<cfg, stack, i, dom_tree_succ, idom, new_idom, b1, b2, dfsVars, dfVars, numVars>>
-----------------------------------------------------------------------------
MutantFrontierBlock ==
  /\ pc = "frontier" /\ bb \in Blocks
  /\ IF Len(Pre(bb)) <= 2
       THEN bb' = bb + 1 /\ UNCHANGED <<pc, i, runner>>
       ELSE i' = 1 /\ runner' = Pre(bb)[1] /\ pc' = "runner" /\ UNCHANGED bb
  /\ UNCHANGED <<cfg, stack, dom_tree_succ, dom_frontier, dfsVars, idomVars, numVars>>

(* create_dominance_frontier: a block with fewer than two predecessors is  *)
(* passed over, a join starts a walk from its first predecessor.           *)
FrontierBlock ==
  /\ pc = "frontier" /\ bb \in Blocks
  /\ IF Len(Pre(bb)) < 2
       THEN bb' = bb + 1 /\ UNCHANGED <<pc, i, runner>>
       ELSE i' = 1 /\ runner' = Pre(bb)[1] /\ pc' = "runner" /\ UNCHANGED bb
  /\ UNCHANGED <<cfg, stack, dom_tree_succ, dom_frontier, dfsVars, idomVars, numVars>>

(* The runner climbs the dominator tree below idom(bb).                    *)
RunnerClimb ==
  /\ pc = "runner" /\ runner # idom[bb] /\ runner # nullptr
  /\ dom_frontier' = [dom_frontier EXCEPT ![runner] = @ \cup {bb}]
  /\ runner' = idom[runner]
  /\ UNCHANGED <<cfg, pc, stack, bb, i, dom_tree_succ, dfsVars, idomVars, numVars>>

(* get_idom(nullptr): idom_.at throws std::out_of_range, nothing catches.  *)
RunnerLost ==
  /\ pc = "runner" /\ runner # idom[bb] /\ runner = nullptr
  /\ pc' = "out_of_range"
  /\ UNCHANGED <<cfg, stack, bb, i, dom_tree_succ, dfsVars, idomVars, dfVars, numVars>>

RunnerArrived ==
  /\ pc = "runner" /\ runner = idom[bb]
  /\ IF i < Len(Pre(bb))
       THEN i' = i + 1 /\ runner' = Pre(bb)[i + 1] /\ UNCHANGED <<bb, pc>>
       ELSE bb' = bb + 1 /\ pc' = "frontier" /\ UNCHANGED <<i, runner>>
  /\ UNCHANGED <<cfg, stack, dom_tree_succ, dom_frontier, dfsVars, idomVars, numVars>>

(* create_dom_tree_succ, a loop that cannot fail; then                     *)
(* create_dom_dfs_order numbers the entry.                                 *)
BuildTree ==
  /\ pc = "frontier" /\ bb > N
  /\ dom_tree_succ' = [b \in Blocks |-> {c \in Blocks \ {b} : idom[c] = b}]
  /\ pc' = "number"
  /\ stack' = <<Entry>>
  /\ order' = 1
  /\ dom_tree_L' = [dom_tree_L EXCEPT ![Entry] = 1]
  /\ dom_dfs_order' = <<Entry>>
  /\ todo' = [todo EXCEPT ![Entry] = dom_tree_succ'[Entry]]
  /\ UNCHANGED <<cfg, bb, i, dom_tree_R, dfsVars, idomVars, dfVars>>

(* The children are a std::set of pointers: any order.                     *)
NumberChild ==
  /\ pc = "number" /\ stack # << >>
  /\ \E c \in todo[Top] :
       /\ todo' = [todo EXCEPT ![Top] = @ \ {c}, ![c] = dom_tree_succ[c]]
       /\ stack' = Append(stack, c)
       /\ dom_tree_L' = [dom_tree_L EXCEPT ![c] = order + 1]
       /\ dom_dfs_order' = Append(dom_dfs_order, c)
  /\ order' = order + 1
  /\ UNCHANGED <<cfg, pc, bb, i, dom_tree_succ, dom_tree_R, dfsVars, idomVars, dfVars>>

MutantNumberReturn ==
  /\ pc = "number" /\ stack # << >> /\ todo[Top] = {}
  /\ dom_tree_R' = [dom_tree_R EXCEPT ![Top] = dom_tree_L[Top]]
  /\ stack' = Pop
  /\ pc' = IF Len(stack) = 1 THEN "done" ELSE "number"
  /\ UNCHANGED <<cfg, bb, i, dom_tree_succ, todo, order, dom_tree_L, dom_dfs_order,
                 dfsVars, idomVars, dfVars>>

NumberReturn ==
  /\ pc = "number" /\ stack # << >> /\ todo[Top] = {}
  /\ dom_tree_R' = [dom_tree_R EXCEPT ![Top] = order]
  /\ stack' = Pop
  /\ pc' = IF Len(stack) = 1 THEN "done" ELSE "number"
  /\ UNCHANGED <<cfg, bb, i, dom_tree_succ, todo, order, dom_tree_L, dom_dfs_order,
                 dfsVars, idomVars, dfVars>>

Finished ==
  /\ pc \in {"done", "out_of_range"}
  /\ UNCHANGED vars
-----------------------------------------------------------------------------
DepthFirst == DfsSucc \/ DfsReturn \/ StartIdom
CreateIdom == SkipBlock \/ StartBlock \/ FoldPred \/ ClimbFirst \/ ClimbSecond
                \/ Met \/ CommitBlock \/ EndSweep
CreateFrontier == FrontierBlock \/ RunnerClimb \/ RunnerLost \/ RunnerArrived
CreateTree == BuildTree \/ NumberChild \/ NumberReturn

Next == DepthFirst \/ CreateIdom \/ CreateFrontier \/ CreateTree \/ Finished

Spec == Init /\ [][Next]_vars

(* The pass is one thread that never blocks.                               *)
FairSpec == Spec /\ WF_vars(Next)
-----------------------------------------------------------------------------
(***************************************************************************)
(* What the pass promises.                                                 *)
(***************************************************************************)
(* bool Dominators::is_dominate(bb1, bb2)                                  *)
is_dominate(x, y) ==
  /\ dom_tree_L[x] <= dom_tree_L[y]
  /\ dom_tree_R[x] >= dom_tree_L[y]

(* The blocks some path from the entry leads to.                           *)
ReachableIn(g) == {b \in Blocks : Reachable(g, b)}

(* create_idom never guesses too deep a block: at any moment, whichever    *)
(* order the sweep works in, every strict dominator of a block with an     *)
(* idom dominates that idom.                                               *)
IdomSound ==
  \A b \in Blocks \ {Entry} : idom[b] # nullptr =>
    \A d \in Blocks : StrictlyDominates(cfg, d, b) => Dominates(cfg, d, idom[b])

(* intersect (post_order_.at, get_idom) only ever meets blocks that have   *)
(* both a post order and an idom, and two different ones with different    *)
(* numbers: it neither throws nor spins.                                   *)
FingersProcessed ==
  pc = "intersect" =>
    /\ \A x \in {b1, b2} : x # nullptr /\ post_order[x] # -1 /\ idom[x] # nullptr
    /\ b1 # b2 => post_order[b1] # post_order[b2]

(* After create_idom the guess is right: the idom of each reachable block  *)
(* but the entry is its immediate dominator, an unreachable block has none.*)
IdomCorrect ==
  pc = "frontier" =>
    \A b \in Blocks \ {Entry} :
      IF b \in ReachableIn(cfg) THEN idom[b] # nullptr /\ IsIdom(cfg, idom[b], b)
                                ELSE idom[b] = nullptr

(* Where no walk is lost, the frontiers of the reachable blocks are those  *)
(* of the definition (Mem2Reg puts phis exactly there).  A walk is only    *)
(* lost at a reachable join with an unreachable predecessor.               *)
FrontierCorrect ==
  /\ pc = "done" =>
       \A d, b \in ReachableIn(cfg) : b \in dom_frontier[d] <=> InFrontier(cfg, d, b)
  /\ pc = "out_of_range" => bb \in ReachableIn(cfg) /\ Pre(bb)[i] \notin ReachableIn(cfg)

(* The numbers and the order of the tree answer for dominance: is_dominate *)
(* is the relation on reachable blocks (LoopDetection tells back edges by  *)
(* it), and dom_post_order_, the reverse of dom_dfs_order_, has each       *)
(* reachable block once, after all it dominates.                           *)
TreeOrderCorrect ==
  pc = "done" =>
    /\ \A x, y \in ReachableIn(cfg) : is_dominate(x, y) <=> Dominates(cfg, x, y)
    /\ Members(dom_dfs_order) = ReachableIn(cfg)
    /\ \A k, l \in 1 .. Len(dom_dfs_order) :
         k < l => ~ Dominates(cfg, dom_dfs_order[l], dom_dfs_order[k])

(* The pass always stops.                                                  *)
Termination == <>(pc \in {"done", "out_of_range"})

(* Dominators.cpp:148-150: every predecessor's walk ends at the join's     *)
(* immediate dominator.                                                    *)
WalkEndsAtIdom == pc # "out_of_range"
=============================================================================
