------------------------------- MODULE UseDef -------------------------------
(***************************************************************************)
(* Values and their users (src/src/lightir/User.cpp, Value.cpp): a user    *)
(* lists its operands, a value lists its uses, and every change of one has *)
(* to be made in the other.  Loops that change a use list while walking it *)
(* are modelled one iteration at a time.                                   *)
(*                                                                         *)
(* A use list is kept as how often it holds a use; its order only decides  *)
(* which use replace_all_use_with takes next.  Positions count from 1.     *)
(***************************************************************************)
EXTENDS Naturals, Sequences

CONSTANTS
  Values,               \* every value there may be
  Users, Phis, Labels,  \* instructions, the phis of them; basic blocks
  nullptr,
  MaxOperands           \* bound on the operands of a user

ASSUME ValuesAssumption ==
  /\ Phis \subseteq Users /\ Users \subseteq Values /\ Labels \subseteq Values
  /\ Users \cap Labels = {} /\ nullptr \notin Values
ASSUME MaxOperandsAssumption == MaxOperands \in Nat

Positions == 1 .. MaxOperands

VARIABLES
  live,                 \* the values not deleted yet
  operands_, use_list_,
  pc,
  this, new_val,        \* replace_all_use_with: of what, by what
  phi, idx, i,          \* remove_operand: of whom, which, loop counter
  twice                 \* remove_phi_operand: the block operand is to go too

callVars == <<this, new_val, phi, idx, i, twice>>
vars == <<live, operands_, use_list_, pc, callVars>>

ValueOrNull == Values \cup {nullptr}

TypeOK ==
  /\ live \in SUBSET Values
  /\ operands_ \in [Users -> Seq(ValueOrNull)]
  /\ \A u \in Users : Len(operands_[u]) <= MaxOperands
  /\ use_list_ \in [Values -> [Users -> [Positions -> Nat]]]
  /\ pc \in {"idle", "replace", "shift"}
  /\ this \in ValueOrNull /\ new_val \in ValueOrNull
  /\ phi \in Users \cup {nullptr}
  /\ idx \in Nat \ {0} /\ i \in Nat \ {0}
  /\ twice \in BOOLEAN

Init ==
  /\ live = Values
  /\ operands_ = [u \in Users |-> << >>]
  /\ use_list_ = [v \in Values |-> [u \in Users |-> [l \in Positions |-> 0]]]
  /\ pc = "idle"
  /\ this = nullptr /\ new_val = nullptr
  /\ phi = nullptr /\ idx = 1 /\ i = 1 /\ twice = FALSE
-----------------------------------------------------------------------------
(* A use list with a use more; remove_use takes all equal ones (remove_if).*)
add_use(L, v, u, l) == [L EXCEPT ![v][u][l] = @ + 1]
remove_use(L, v, u, l) == [L EXCEPT ![v][u][l] = 0]

Len_(u) == Len(operands_[u])

add_operand(u, v) ==
  /\ pc = "idle" /\ u \in live \ Phis /\ v \in live
  /\ Len_(u) < MaxOperands
  /\ use_list_' = add_use(use_list_, v, u, Len_(u) + 1)
  /\ operands_' = [operands_ EXCEPT ![u] = Append(@, v)]
  /\ UNCHANGED <<live, pc, callVars>>

add_phi_pair_operand(p, v, b) ==
  /\ pc = "idle" /\ p \in live /\ v \in live \ Labels /\ b \in live
  /\ Len_(p) + 2 <= MaxOperands
  /\ use_list_' = add_use(add_use(use_list_, v, p, Len_(p) + 1), b, p, Len_(p) + 2)
  /\ operands_' = [operands_ EXCEPT ![p] = Append(Append(@, v), b)]
  /\ UNCHANGED <<live, pc, callVars>>

(* Mutant: the old operand keeps its use.                                  *)
MutantSetOperand(u, l, v) ==
  /\ operands_' = [operands_ EXCEPT ![u][l] = v]
  /\ use_list_' = IF v = nullptr THEN use_list_ ELSE add_use(use_list_, v, u, l)

(* User::set_operand, from wherever it is called.                          *)
SetOperand(u, l, v) ==
  LET old == operands_[u][l]
      removed == IF old = nullptr THEN use_list_ ELSE remove_use(use_list_, old, u, l)
  IN  /\ operands_' = [operands_ EXCEPT ![u][l] = v]
      /\ use_list_' = IF v = nullptr THEN removed ELSE add_use(removed, v, u, l)

set_operand(u, l, v) ==
  /\ pc = "idle" /\ u \in live \ Phis /\ v \in live
  /\ l <= Len_(u)
  /\ SetOperand(u, l, v)
  /\ UNCHANGED <<live, pc, callVars>>

(* The use lists when u has dropped its operands.                          *)
Dropped(u) ==
  [v \in Values |-> [use_list_[v] EXCEPT ![u] =
    [l \in Positions |-> IF l <= Len_(u) /\ operands_[u][l] = v THEN 0 ELSE @[l]]]]

remove_all_operands(u) ==
  /\ pc = "idle" /\ u \in live
  /\ use_list_' = Dropped(u)
  /\ operands_' = [operands_ EXCEPT ![u] = << >>]
  /\ UNCHANGED <<live, pc, callVars>>
-----------------------------------------------------------------------------
(* Mutant: a value may replace itself.                                     *)
MutantStartReplace(v, w) ==
  /\ pc = "idle" /\ v \in live \ Labels /\ w \in live \ Labels
  /\ pc' = "replace" /\ this' = v /\ new_val' = w
  /\ UNCHANGED <<live, operands_, use_list_, phi, idx, i, twice>>

(* replace_all_use_with: a value that replaces itself is left alone.       *)
StartReplace(v, w) ==
  /\ pc = "idle" /\ v \in live \ Labels /\ w \in live \ Labels /\ v # w
  /\ pc' = "replace" /\ this' = v /\ new_val' = w
  /\ UNCHANGED <<live, operands_, use_list_, phi, idx, i, twice>>

(* ~User drops the operands, then ~Value leaves its users a null.          *)
Delete(v) ==
  /\ pc = "idle" /\ v \in live
  /\ IF v \in Users
       THEN /\ use_list_' = Dropped(v)
            /\ operands_' = [operands_ EXCEPT ![v] = << >>]
       ELSE UNCHANGED <<operands_, use_list_>>
  /\ pc' = "replace" /\ this' = v /\ new_val' = nullptr
  /\ UNCHANGED <<live, phi, idx, i, twice>>

ReplaceUse(u, l) ==
  /\ pc = "replace" /\ use_list_[this][u][l] # 0
  /\ SetOperand(u, l, new_val)
  /\ UNCHANGED <<live, pc, callVars>>

EndReplace ==
  /\ pc = "replace" /\ \A u \in Users, l \in Positions : use_list_[this][u][l] = 0
  /\ live' = IF new_val = nullptr THEN live \ {this} ELSE live
  /\ pc' = "idle" /\ this' = nullptr /\ new_val' = nullptr
  /\ UNCHANGED <<operands_, use_list_, phi, idx, i, twice>>
-----------------------------------------------------------------------------
(* Mutant: the pair's place, counted from 0.                               *)
MutantStartRemove(p, b) ==
  /\ pc = "idle" /\ p \in live /\ b \in live
  /\ \A l \in 1 .. Len_(p) : operands_[p][l] # nullptr
  /\ \E l \in 1 .. Len_(p) :
       /\ l % 2 = 1 /\ operands_[p][l + 1] = b
       /\ \A m \in 1 .. l - 1 : m % 2 = 1 => operands_[p][m + 1] # b
       /\ idx' = l - 1 /\ i' = l + 1
  /\ pc' = "shift" /\ phi' = p /\ twice' = TRUE
  /\ UNCHANGED <<live, operands_, use_list_, this, new_val>>

(* remove_phi_operand: the first pair of this block, its value and then    *)
(* its block.  It is only called of phis without null operands.            *)
StartRemove(p, b) ==
  /\ pc = "idle" /\ p \in live /\ b \in live
  /\ \A l \in 1 .. Len_(p) : operands_[p][l] # nullptr
  /\ \E l \in 1 .. Len_(p) :
       /\ l % 2 = 1 /\ operands_[p][l + 1] = b
       /\ \A m \in 1 .. l - 1 : m % 2 = 1 => operands_[p][m + 1] # b
       /\ idx' = l /\ i' = l + 1
  /\ pc' = "shift" /\ phi' = p /\ twice' = TRUE
  /\ UNCHANGED <<live, operands_, use_list_, this, new_val>>

(* Mutant: the use is not put back.                                        *)
MutantShift ==
  /\ pc = "shift" /\ i <= Len_(phi)
  /\ use_list_' = remove_use(use_list_, operands_[phi][i], phi, i)
  /\ i' = i + 1
  /\ UNCHANGED <<live, operands_, pc, this, new_val, phi, idx, twice>>

(* remove_operand: a later operand's use moves down by one.                *)
Shift ==
  /\ pc = "shift" /\ i <= Len_(phi)
  /\ LET v == operands_[phi][i]
     IN  use_list_' = add_use(remove_use(use_list_, v, phi, i), v, phi, i - 1)
  /\ i' = i + 1
  /\ UNCHANGED <<live, operands_, pc, this, new_val, phi, idx, twice>>

(* A list of operands without one.                                         *)
Without(s, l) == [m \in 1 .. Len(s) - 1 |-> IF m < l THEN s[m] ELSE s[m + 1]]

(* Mutant: the block operand stays.                                        *)
MutantEndShift ==
  /\ pc = "shift" /\ i > Len_(phi)
  /\ use_list_' = remove_use(use_list_, operands_[phi][idx], phi, idx)
  /\ operands_' = [operands_ EXCEPT ![phi] = Without(@, idx)]
  /\ twice' = FALSE
  /\ i' = idx + 1
  /\ pc' = "idle"
  /\ UNCHANGED <<live, this, new_val, phi, idx>>

(* The operand itself goes; remove_phi_operand then removes its block.     *)
EndShift ==
  /\ pc = "shift" /\ i > Len_(phi)
  /\ use_list_' = remove_use(use_list_, operands_[phi][idx], phi, idx)
  /\ operands_' = [operands_ EXCEPT ![phi] = Without(@, idx)]
  /\ twice' = FALSE
  /\ i' = idx + 1
  /\ pc' = IF twice THEN "shift" ELSE "idle"
  /\ UNCHANGED <<live, this, new_val, phi, idx>>
-----------------------------------------------------------------------------
Client ==
  \/ \E u \in Users \ Phis, v \in Values : add_operand(u, v)
  \/ \E p \in Phis, v \in Values, b \in Labels : add_phi_pair_operand(p, v, b)
  \/ \E u \in Users \ Phis, l \in Positions, v \in Values : set_operand(u, l, v)
  \/ \E u \in Users : remove_all_operands(u)
  \/ \E v, w \in Values : StartReplace(v, w)
  \/ \E v \in Values : Delete(v)
  \/ \E p \in Phis, b \in Labels : StartRemove(p, b)

Call ==
  \/ \E u \in Users, l \in Positions : ReplaceUse(u, l)
  \/ EndReplace \/ Shift \/ EndShift

Next == Client \/ Call

Spec == Init /\ [][Next]_vars

(* A call runs to its end; whether there is another is the client's thing. *)
FairSpec == Spec /\ WF_vars(Call)
-----------------------------------------------------------------------------
HasOperand(v, u, l) == l <= Len_(u) /\ operands_[u][l] = v

(* Between calls a use list holds each use once, exactly as the operands   *)
(* have it: passes find users there, and deletion tells them from there.   *)
UsesMirrorOperands ==
  pc = "idle" =>
    \A v \in Values, u \in Users, l \in Positions :
      use_list_[v][u][l] = IF HasOperand(v, u, l) THEN 1 ELSE 0

(* No operand is ever a value that has been deleted.                       *)
NoDanglingOperand ==
  \A u \in Users : \A l \in 1 .. Len_(u) : operands_[u][l] \in live \cup {nullptr}

(* The operands of a phi stay value, block, value, block: what prints it   *)
(* and what copies it read them in pairs.                                  *)
PhisInPairs ==
  pc # "shift" =>
    \A p \in Phis :
      /\ Len_(p) % 2 = 0
      /\ \A l \in 1 .. Len_(p) : operands_[p][l] \in Labels => l % 2 = 0
      /\ \A l \in 1 .. Len_(p) : l % 2 = 0 => operands_[p][l] \in Labels \cup {nullptr}

(* replace_all_use_with and remove_operand come to an end, although the    *)
(* former's loop runs until a list is empty that its body may append to.   *)
CallsEnd == (pc # "idle") ~> (pc = "idle")
=============================================================================
