---------------------------- MODULE LoopDetection ----------------------------
(***************************************************************************)
(* LoopDetection::run_on_func (src/src/passes/LoopDetection.cpp): natural  *)
(* loops from the back edges, walked backwards from the latches, and their *)
(* nesting.  A Loop object is named by its header: run_on_func makes one   *)
(* per header.  One step is one iteration of one of the code's loops.      *)
(*                                                                         *)
(* Of Dominators it uses is_dominate and get_dom_post_order(), taken here  *)
(* as what Dominators is shown to give: the dominance relation, and a      *)
(* reversed pre-order of the dominator tree, children in any order.        *)
(***************************************************************************)
EXTENDS Cfg, Functions, FiniteSets

CONSTANT CFGs           \* the control flow graphs the pass may be given

(* Dominators returns only when no reachable block has an unreachable      *)
(* predecessor.                                                            *)
ASSUME CFGsAssumption ==
  \A g \in CFGs :
    /\ IsCfg(g)
    /\ LET R == {b \in Blocks : Reachable(g, b)}
       IN  \A x \in Blocks \ R : \A y \in R : ~ Edge(g, x, y)

VARIABLES
  cfg,                  \* the function: read only to this pass
  dominates,            \* dominators_: the pairs is_dominate accepts
  dom_post_order,       \* dominators_->get_dom_post_order()
  pc,                   \* scan: run_on_func's loop; discover, climb: of discover_...
  pos,                  \* position in dom_post_order
  loop,                 \* header of the loop being discovered
  sub_loop,             \* header of the loop whose outermost parent is sought
  work_list,
  bb_to_loop,           \* nullptr for a block not in the map
  loops,                \* loops_
  blocks, parent, sub_loops, latches    \* the members of every Loop

passVars == <<cfg, dominates, dom_post_order>>
loopVars == <<bb_to_loop, loops, blocks, parent, sub_loops, latches>>
vars == <<passVars, pc, pos, loop, sub_loop, work_list, loopVars>>

TypeOK ==
  /\ pc \in {"scan", "discover", "climb", "done"}
  /\ pos \in 1 .. Len(dom_post_order) + 1
  /\ loop \in BlockOrNull /\ sub_loop \in BlockOrNull
  /\ work_list \in Seq(Blocks)
  /\ bb_to_loop \in [Blocks -> BlockOrNull]
  /\ loops \in Seq(Blocks)
  /\ blocks \in [Blocks -> Seq(Blocks)]
  /\ parent \in [Blocks -> BlockOrNull]
  /\ sub_loops \in [Blocks -> Seq(Blocks)]
  /\ latches \in [Blocks -> SUBSET Blocks]

(* The sequences that list a set.                                          *)
Listings(S) == {s \in [1 .. Cardinality(S) -> S] : IsInjective(s)}

(* The pre-orders of the dominator tree over the blocks R: the entry       *)
(* first, and the strict dominators of a block dominate the one before it. *)
PreOrders(R, dom) ==
  {s \in Listings(R) :
     /\ s[1] = Entry
     /\ \A k \in 2 .. Len(s) : \A d \in R \ {s[k]} : <<d, s[k]>> \in dom => <<d, s[k - 1]>> \in dom}

PostOrders(R, dom) ==
  {[k \in 1 .. Len(s) |-> s[Len(s) + 1 - k]] : s \in PreOrders(R, dom)}

Init ==
  /\ cfg \in CFGs
  /\ dominates = {p \in Blocks \X Blocks : Dominates(cfg, p[1], p[2])}
  /\ \E R \in {{b \in Blocks : Reachable(cfg, b)}} :
       dom_post_order \in PostOrders(R, dominates)
  /\ pc = "scan" /\ pos = 1
  /\ loop = nullptr /\ sub_loop = nullptr
  /\ work_list = << >>
  /\ bb_to_loop = [b \in Blocks |-> nullptr]
  /\ loops = << >>
  /\ blocks = [b \in Blocks |-> << >>]
  /\ parent = [b \in Blocks |-> nullptr]
  /\ sub_loops = [b \in Blocks |-> << >>]
  /\ latches = [b \in Blocks |-> {}]

Pre(b) == cfg.pre[b]

(* The predecessors of b that b dominates.                                 *)
Latches(b) == {p \in Members(Pre(b)) : <<b, p>> \in dominates}

Back == work_list[Len(work_list)]
Popped == SubSeq(work_list, 1, Len(work_list) - 1)
-----------------------------------------------------------------------------
(* run_on_func: a block without back edges heads no loop.                  *)
PassOver ==
  /\ pc = "scan" /\ pos <= Len(dom_post_order)
  /\ Latches(dom_post_order[pos]) = {}
  /\ pos' = pos + 1
  /\ UNCHANGED <<passVars, pc, loop, sub_loop, work_list, loopVars>>

(* run_on_func: create the loop; its latches, a set of pointers, are the   *)
(* first work list.                                                        *)
CreateLoop ==
  /\ pc = "scan" /\ pos <= Len(dom_post_order)
  /\ LET bb == dom_post_order[pos]
     IN  /\ Latches(bb) # {}
         /\ loop' = bb
         /\ blocks' = [blocks EXCEPT ![bb] = <<bb>>]
         /\ bb_to_loop' = [bb_to_loop EXCEPT ![bb] = bb]
         /\ latches' = [latches EXCEPT ![bb] = Latches(bb)]
         /\ loops' = Append(loops, bb)
         /\ work_list' \in Listings(Latches(bb))
  /\ pc' = "discover"
  /\ UNCHANGED <<passVars, pos, sub_loop, parent, sub_loops>>

(* discover_loop_and_sub_loops: a block of no loop yet joins this one.     *)
ClaimBlock ==
  /\ pc = "discover" /\ work_list # << >>
  /\ bb_to_loop[Back] = nullptr
  /\ blocks' = [blocks EXCEPT ![loop] = Append(@, Back)]
  /\ bb_to_loop' = [bb_to_loop EXCEPT ![Back] = loop]
  /\ work_list' = Popped \o Pre(Back)
  /\ UNCHANGED <<passVars, pc, pos, loop, sub_loop, loops, parent, sub_loops, latches>>

(* A block of another loop: look for the outermost loop around that one.   *)
MeetLoop ==
  /\ pc = "discover" /\ work_list # << >>
  /\ bb_to_loop[Back] \notin {nullptr, loop}
  /\ sub_loop' = bb_to_loop[Back]
  /\ work_list' = Popped
  /\ pc' = "climb"
  /\ UNCHANGED <<passVars, pos, loop, loopVars>>

(* A block of this loop was seen before.                                   *)
SeenBlock ==
  /\ pc = "discover" /\ work_list # << >>
  /\ bb_to_loop[Back] = loop
  /\ work_list' = Popped
  /\ UNCHANGED <<passVars, pc, pos, loop, sub_loop, loopVars>>

Climb ==
  /\ pc = "climb" /\ parent[sub_loop] # nullptr
  /\ sub_loop' = parent[sub_loop]
  /\ UNCHANGED <<passVars, pc, pos, loop, work_list, loopVars>>

(* Mutant: the walk does not go on before the sub-loop's header.           *)
MutantNestStops ==
  /\ pc = "climb" /\ parent[sub_loop] = nullptr
  /\ IF sub_loop # loop
       THEN /\ parent' = [parent EXCEPT ![sub_loop] = loop]
            /\ sub_loops' = [sub_loops EXCEPT ![loop] = Append(@, sub_loop)]
            /\ work_list' = work_list
       ELSE UNCHANGED <<parent, sub_loops, work_list>>
  /\ pc' = "discover"
  /\ UNCHANGED <<passVars, pos, loop, sub_loop, bb_to_loop, loops, blocks, latches>>

(* Mutant: the inner loop itself is nested, not the outermost around it.   *)
MutantNestInner ==
  /\ pc = "climb"
  /\ IF sub_loop # loop
       THEN /\ parent' = [parent EXCEPT ![sub_loop] = loop]
            /\ sub_loops' = [sub_loops EXCEPT ![loop] = Append(@, sub_loop)]
            /\ work_list' = work_list \o Pre(sub_loop)
       ELSE UNCHANGED <<parent, sub_loops, work_list>>
  /\ pc' = "discover"
  /\ UNCHANGED <<passVars, pos, loop, sub_loop, bb_to_loop, loops, blocks, latches>>

(* The outermost loop is not this one: it becomes a sub-loop of this one,  *)
(* and the walk goes on before its header.                                 *)
Nest ==
  /\ pc = "climb" /\ parent[sub_loop] = nullptr
  /\ IF sub_loop # loop
       THEN /\ parent' = [parent EXCEPT ![sub_loop] = loop]
            /\ sub_loops' = [sub_loops EXCEPT ![loop] = Append(@, sub_loop)]
            /\ work_list' = work_list \o Pre(sub_loop)
       ELSE UNCHANGED <<parent, sub_loops, work_list>>
  /\ pc' = "discover"
  /\ UNCHANGED <<passVars, pos, loop, sub_loop, bb_to_loop, loops, blocks, latches>>

EndLoop ==
  /\ pc = "discover" /\ work_list = << >>
  /\ pos' = pos + 1
  /\ pc' = "scan"
  /\ UNCHANGED <<passVars, loop, sub_loop, work_list, loopVars>>

Finish ==
  /\ pc = "scan" /\ pos > Len(dom_post_order)
  /\ pc' = "done"
  /\ UNCHANGED <<passVars, pos, loop, sub_loop, work_list, loopVars>>

Finished == pc = "done" /\ UNCHANGED vars

Next ==
  \/ PassOver \/ CreateLoop \/ ClaimBlock \/ MeetLoop \/ SeenBlock
  \/ Climb \/ Nest \/ EndLoop \/ Finish \/ Finished

Spec == Init /\ [][Next]_vars
-----------------------------------------------------------------------------
(***************************************************************************)
(* What the pass promises, against natural loops defined from the graph.   *)
(***************************************************************************)
BackEdges(h) == {p \in Blocks : Edge(cfg, p, h) /\ <<h, p>> \in dominates}

Headers == {h \in Members(dom_post_order) : BackEdges(h) # {}}

(* The blocks from which a latch of h is reached without passing h: the    *)
(* least set with h and the latches that holds the predecessors of its     *)
(* blocks other than h.                                                    *)
NaturalLoop(h) ==
  LET Bodies == {S \in SUBSET Blocks :
                   /\ {h} \cup BackEdges(h) \subseteq S
                   /\ \A x \in S \ {h} : Members(cfg.pre[x]) \subseteq S}
  IN  {b \in Blocks : \A S \in Bodies : b \in S}

(* The loops on the way from l outwards, l included.                       *)
Enclosing(l) ==
  {h \in Members(loops) : \A S \in SUBSET Blocks :
     l \in S /\ (\A x \in S : parent[x] # nullptr => parent[x] \in S) => h \in S}

(* The blocks of a loop and of the loops nested in it.                     *)
WithSubLoops(h) == {b \in Blocks : bb_to_loop[b] # nullptr /\ h \in Enclosing(bb_to_loop[b])}

(* The outcome: one loop for each target of back edges, with their sources *)
(* for latches; the blocks of a loop and the loops nested in it are its    *)
(* natural loop; and bb_to_loop_ is the innermost loop around a block.     *)
LoopsAreNatural ==
  pc = "done" =>
    /\ Members(loops) = Headers
    /\ \A h \in Headers :
         /\ latches[h] = BackEdges(h)
         /\ WithSubLoops(h) = NaturalLoop(h)
         /\ \A b \in NaturalLoop(h) : NaturalLoop(bb_to_loop[b]) \subseteq NaturalLoop(h)

(* A loop's sub-loops are the loops whose parent it is, each listed once,  *)
(* and a parent properly contains its sub-loop with nothing between (LICM  *)
(* visits the sub-loops first, and once).                                  *)
SubLoopsMirrorParents ==
  pc = "done" =>
    \A h \in Headers :
      /\ IsInjective(sub_loops[h])
      /\ Members(sub_loops[h]) = {l \in Headers : parent[l] = h}
      /\ \A l \in Members(sub_loops[h]) :
           /\ NaturalLoop(l) \subseteq NaturalLoop(h) \ {h}
           /\ \A m \in Headers \ {l, h} :
                NaturalLoop(l) \subseteq NaturalLoop(m) =>
                  NaturalLoop(h) \subseteq NaturalLoop(m)

(* loops_ lists inner loops first: a preheader that LICM makes for an      *)
(* inner loop is there when the outer one is treated.                      *)
InnerLoopsFirst ==
  \A k, l \in 1 .. Len(loops) :
    k < l => loops[l] \notin NaturalLoop(loops[k])

(* What LICM relies on when it walks the loops: the tree and the list.     *)
LoopsNested == TypeOK /\ SubLoopsMirrorParents /\ InnerLoopsFirst
=============================================================================
