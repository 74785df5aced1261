-------------------------------- MODULE Cfg --------------------------------
(***************************************************************************)
(* Control flow graphs as the passes see them: a function's basic blocks   *)
(* in list order (Function::get_basic_blocks(); the entry is the first)    *)
(* and the two adjacency lists every BasicBlock keeps.  Parallel edges     *)
(* never occur: BranchInst is only built with two distinct targets.        *)
(*                                                                         *)
(* Dominance is defined once here, from paths, and not from any algorithm. *)
(***************************************************************************)
EXTENDS Naturals, Sequences

CONSTANT N              \* number of basic blocks of the function

ASSUME NAssumption == N \in Nat \ {0}

Blocks == 1 .. N
Entry  == 1
nullptr == 0
BlockOrNull == Blocks \cup {nullptr}

Members(s) == {s[j] : j \in 1 .. Len(s)}

(***************************************************************************)
(* succ_bbs_ and pre_bbs_ mirror each other, and nothing branches to the   *)
(* entry (every loop gets header blocks of its own).                       *)
(***************************************************************************)
IsCfg(g) ==
  /\ g \in [succ : [Blocks -> Seq(Blocks)], pre : [Blocks -> Seq(Blocks)]]
  /\ \A x, y \in Blocks : y \in Members(g.succ[x]) <=> x \in Members(g.pre[y])
  /\ g.pre[Entry] = << >>

Edge(g, x, y) == y \in Members(g.succ[x])

Closed(g, S) == \A x \in S : \A y \in Blocks : Edge(g, x, y) => y \in S

(* Every set that holds the entry and is closed under edges holds b.       *)
Reachable(g, b) == \A S \in SUBSET Blocks : Entry \in S /\ Closed(g, S) => b \in S

(***************************************************************************)
(* S certifies that paths from the entry which avoid d stay inside S.      *)
(***************************************************************************)
AvoidSet(g, d, S) ==
  /\ Entry \in S \cup {d}
  /\ \A x \in S : \A y \in Blocks : Edge(g, x, y) => y \in S \cup {d}

(* Every path from the entry to b goes through d.                          *)
Dominates(g, d, b) == d = b \/ \E S \in SUBSET (Blocks \ {d, b}) : AvoidSet(g, d, S)

StrictlyDominates(g, d, b) == d # b /\ Dominates(g, d, b)

(* The last strict dominator on every path to b.                           *)
IsIdom(g, d, b) ==
  /\ StrictlyDominates(g, d, b)
  /\ \A c \in Blocks : StrictlyDominates(g, c, b) => Dominates(g, c, d)

(* Where d's dominance ends: d dominates a predecessor of b, not b itself. *)
InFrontier(g, d, b) ==
  /\ \E p \in Members(g.pre[b]) : Dominates(g, d, p)
  /\ ~ StrictlyDominates(g, d, b)
=============================================================================
