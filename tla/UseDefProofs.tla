---------------------------- MODULE UseDefProofs ----------------------------
(***************************************************************************)
(* Use lists mirror operands between calls, phis stay lists of pairs and   *)
(* no operand is a deleted value, whatever the instructions and however    *)
(* many operands they have.                                                *)
(***************************************************************************)
EXTENDS UseDef, TLAPS

Held(v, u, l) == IF HasOperand(v, u, l) THEN 1 ELSE 0

(* While remove_operand runs the uses of the places from idx to i - 1 have *)
(* moved down, on top of the one that is to go.                            *)
Moved(v, l) ==
  IF l < idx \/ l >= i THEN Held(v, phi, l)
  ELSE IF l = idx THEN Held(v, phi, l) + (IF l < i - 1 THEN Held(v, phi, l + 1) ELSE 0)
  ELSE IF l < i - 1 THEN Held(v, phi, l + 1) ELSE 0

UsesCounted ==
  \A v \in Values, u \in Users, l \in Positions :
    use_list_[v][u][l] = IF pc = "shift" /\ u = phi THEN Moved(v, l) ELSE Held(v, u, l)

(* Odd places of a phi hold values, even ones blocks; after the first      *)
(* remove_operand of remove_phi_operand it is the other way round from     *)
(* idx on, and then there is no null.                                      *)
Paired(p) ==
  /\ Len_(p) % 2 = 0
  /\ \A l \in 1 .. Len_(p) :
       /\ operands_[p][l] \in Labels => l % 2 = 0
       /\ l % 2 = 0 => operands_[p][l] \in Labels \cup {nullptr}

HalfPaired(p) ==
  /\ Len_(p) % 2 = 1
  /\ \A l \in 1 .. Len_(p) : operands_[p][l] \in Labels <=> (l % 2 = IF l < idx THEN 0 ELSE 1)

PairsKept ==
  \A p \in Phis : IF pc = "shift" /\ p = phi /\ ~ twice THEN HalfPaired(p) ELSE Paired(p)

ShiftSound ==
  pc = "shift" =>
    /\ phi \in Phis
    /\ idx % 2 = 1 /\ idx <= Len_(phi) /\ idx < i /\ i <= Len_(phi) + 1
    /\ \A l \in 1 .. Len_(phi) : operands_[phi][l] \in Values

ReplaceSound ==
  pc = "replace" =>
    /\ this \in live /\ new_val \in live \cup {nullptr} /\ this # new_val
    /\ new_val \notin Labels /\ (this \in Labels => new_val = nullptr)

Inv ==
  /\ TypeOK /\ UsesCounted /\ PairsKept /\ ShiftSound /\ ReplaceSound /\ NoDanglingOperand
-----------------------------------------------------------------------------
UseLists == [Values -> [Users -> [Positions -> Nat]]]

(* Every second number is odd.                                             *)
LEMMA Parity == \A n \in Nat : n % 2 \in {0, 1} /\ (n + 1) % 2 = 1 - (n % 2) /\ (n + 2) % 2 = n % 2
  BY SMT

(* What add_use and remove_use do to a count.                              *)
LEMMA AddUse ==
  ASSUME NEW L \in UseLists, NEW v \in Values, NEW u \in Users, NEW l \in Positions
  PROVE  /\ add_use(L, v, u, l) \in UseLists
         /\ \A w \in Values, x \in Users, k \in Positions :
              add_use(L, v, u, l)[w][x][k] =
                IF w = v /\ x = u /\ k = l THEN L[w][x][k] + 1 ELSE L[w][x][k]
<1> DEFINE C == [L[v][u] EXCEPT ![l] = L[v][u][l] + 1]
           M == [L[v] EXCEPT ![u] = C]
<1>1. L[v][u] \in [Positions -> Nat] /\ L[v] \in [Users -> [Positions -> Nat]]
  BY DEF UseLists
<1>2. /\ C \in [Positions -> Nat]
      /\ \A k \in Positions : C[k] = IF k = l THEN L[v][u][l] + 1 ELSE L[v][u][k]
  BY <1>1
<1> HIDE DEF C
<1>3. /\ M \in [Users -> [Positions -> Nat]]
      /\ \A x \in Users : M[x] = IF x = u THEN C ELSE L[v][x]
  BY <1>1, <1>2
<1>4. add_use(L, v, u, l) = [L EXCEPT ![v] = M]
  BY DEF add_use, C
<1> HIDE DEF M
<1>5. /\ [L EXCEPT ![v] = M] \in UseLists
      /\ \A w \in Values : [L EXCEPT ![v] = M][w] = IF w = v THEN M ELSE L[w]
  BY <1>3 DEF UseLists
<1> QED
  BY <1>2, <1>3, <1>4, <1>5

LEMMA RemoveUse ==
  ASSUME NEW L \in UseLists, NEW v \in Values, NEW u \in Users, NEW l \in Positions
  PROVE  /\ remove_use(L, v, u, l) \in UseLists
         /\ \A w \in Values, x \in Users, k \in Positions :
              remove_use(L, v, u, l)[w][x][k] =
                IF w = v /\ x = u /\ k = l THEN 0 ELSE L[w][x][k]
<1> DEFINE C == [L[v][u] EXCEPT ![l] = 0]
           M == [L[v] EXCEPT ![u] = C]
<1>1. L[v][u] \in [Positions -> Nat] /\ L[v] \in [Users -> [Positions -> Nat]]
  BY DEF UseLists
<1>2. /\ C \in [Positions -> Nat]
      /\ \A k \in Positions : C[k] = IF k = l THEN 0 ELSE L[v][u][k]
  BY <1>1
<1> HIDE DEF C
<1>3. /\ M \in [Users -> [Positions -> Nat]]
      /\ \A x \in Users : M[x] = IF x = u THEN C ELSE L[v][x]
  BY <1>1, <1>2
<1>4. remove_use(L, v, u, l) = [L EXCEPT ![v] = M]
  BY DEF remove_use, C
<1> HIDE DEF M
<1>5. /\ [L EXCEPT ![v] = M] \in UseLists
      /\ \A w \in Values : [L EXCEPT ![v] = M][w] = IF w = v THEN M ELSE L[w]
  BY <1>3 DEF UseLists
<1> QED
  BY <1>2, <1>3, <1>4, <1>5

-----------------------------------------------------------------------------
(* Inv outside remove_operand, apart from the call that runs.              *)
Data ==
  /\ live \in SUBSET Values
  /\ operands_ \in [Users -> Seq(ValueOrNull)]
  /\ \A u \in Users : Len(operands_[u]) <= MaxOperands
  /\ use_list_ \in UseLists
  /\ NoDanglingOperand

Settled ==
  /\ Data
  /\ \A v \in Values, u \in Users, l \in Positions : use_list_[v][u][l] = Held(v, u, l)
  /\ \A p \in Phis : Paired(p)

ControlTypeOK ==
  /\ pc \in {"idle", "replace", "shift"}
  /\ this \in ValueOrNull /\ new_val \in ValueOrNull
  /\ phi \in Users \cup {nullptr}
  /\ idx \in Nat \ {0} /\ i \in Nat \ {0}
  /\ twice \in BOOLEAN

LEMMA InvTypes == Inv => ControlTypeOK /\ Data
  BY DEF Inv, TypeOK, ControlTypeOK, Data, UseLists

LEMMA InvSettled == Inv /\ pc # "shift" => Settled
  BY InvTypes DEF Inv, Settled, UsesCounted, PairsKept

LEMMA SettledInv == ControlTypeOK /\ Settled /\ pc # "shift" /\ ReplaceSound => Inv
  BY DEF Inv, TypeOK, ControlTypeOK, Data, UseLists, Settled, UsesCounted, PairsKept, ShiftSound

LEMMA SettledInvNext == (ControlTypeOK /\ Settled /\ pc # "shift" /\ ReplaceSound)' => Inv'
  BY DEF Inv, TypeOK, ControlTypeOK, Data, UseLists, Settled, UsesCounted, PairsKept, ShiftSound

(* At the start there are neither operands nor uses.                       *)
LEMMA InvInit == Init => Inv
<1> SUFFICES ASSUME Init PROVE Inv
  OBVIOUS
<1>1. /\ operands_ \in [Users -> Seq(ValueOrNull)]
      /\ \A u \in Users : Len_(u) = 0
  BY DEF Init, Len_
<1>2. use_list_ \in UseLists
  BY DEF Init, UseLists
<1>3. NoDanglingOperand
  BY <1>1 DEF NoDanglingOperand
<1>4. Data
  BY <1>1, <1>2, <1>3, MaxOperandsAssumption DEF Data, Init, Len_
<1>5. \A v \in Values, u \in Users, l \in Positions : use_list_[v][u][l] = Held(v, u, l)
  BY <1>1 DEF Init, Held, HasOperand, Positions
<1>6. \A p \in Phis : Paired(p)
  BY <1>1, ValuesAssumption, Parity DEF Paired
<1>7. pc = "idle" /\ pc # "shift" /\ pc # "replace"
  BY DEF Init
<1>8. ControlTypeOK
  <2>1. 1 \in Nat \ {0}
    OBVIOUS
  <2>2. twice \in BOOLEAN
    BY Zenon DEF Init
  <2> QED
    BY <1>7, <2>1, <2>2 DEF Init, ControlTypeOK, ValueOrNull
<1> QED
  BY <1>4, <1>5, <1>6, <1>7, <1>8, SettledInv DEF Settled, ReplaceSound
-----------------------------------------------------------------------------
(* One operand becomes another: what set_operand does.                     *)
LEMMA SetOperandSettled ==
  ASSUME Settled, live' = live,
         NEW u \in Users, NEW l \in 1 .. Len_(u), NEW v \in live \cup {nullptr},
         SetOperand(u, l, v),
         u \in Phis => v \notin Labels /\ (l % 2 = 0 => v = nullptr)
  PROVE  Settled'
<1>0. operands_[u] \in Seq(ValueOrNull) /\ Len_(u) \in Nat /\ Len_(u) <= MaxOperands
  BY DEF Settled, Data, Len_
<1>1. operands_[u] \in Seq(ValueOrNull) /\ l \in Positions /\ v \in ValueOrNull
  <2>1. l \in Positions
    BY <1>0, MaxOperandsAssumption DEF Positions
  <2>2. v \in ValueOrNull
    BY DEF Settled, Data, ValueOrNull
  <2> QED
    BY <1>0, <2>1, <2>2
<1>2. operands_[u][l] \in ValueOrNull
  BY <1>1 DEF Len_
<1>3. /\ operands_' = [operands_ EXCEPT ![u] = [operands_[u] EXCEPT ![l] = v]]
      /\ use_list_' = LET old == operands_[u][l]
                          removed == IF old = nullptr THEN use_list_ ELSE remove_use(use_list_, old, u, l)
                      IN  IF v = nullptr THEN removed ELSE add_use(removed, v, u, l)
  BY DEF SetOperand
<1>4. /\ [operands_[u] EXCEPT ![l] = v] \in Seq(ValueOrNull)
      /\ Len([operands_[u] EXCEPT ![l] = v]) = Len_(u)
      /\ \A k \in 1 .. Len_(u) : [operands_[u] EXCEPT ![l] = v][k] = IF k = l THEN v ELSE operands_[u][k]
  BY <1>1 DEF Len_
<1>5. /\ operands_' \in [Users -> Seq(ValueOrNull)]
      /\ \A x \in Users : Len_(x)' = Len_(x)
      /\ \A x \in Users : \A k \in 1 .. Len_(x) :
           operands_'[x][k] = IF x = u /\ k = l THEN v ELSE operands_[x][k]
  BY <1>3, <1>4 DEF Settled, Data, Len_
<1>6. /\ use_list_' \in UseLists
      /\ \A w \in Values, x \in Users, k \in Positions :
           use_list_'[w][x][k] = IF x = u /\ k = l THEN (IF w = v THEN 1 ELSE 0) ELSE use_list_[w][x][k]
  <2> DEFINE old == operands_[u][l]
             removed == IF old = nullptr THEN use_list_ ELSE remove_use(use_list_, old, u, l)
  <2>1. use_list_ \in UseLists
    BY DEF Settled, Data
  <2>2. \A w \in Values : use_list_[w][u][l] = IF w = old THEN 1 ELSE 0
    BY <1>1 DEF Settled, Held, HasOperand
  <2>3. /\ removed \in UseLists
        /\ \A w \in Values, x \in Users, k \in Positions :
             removed[w][x][k] = IF x = u /\ k = l THEN 0 ELSE use_list_[w][x][k]
    <3>1. CASE old = nullptr
      BY <3>1, <2>1, <2>2, ValuesAssumption
    <3>2. CASE old # nullptr
      <4>1. old \in Values
        BY <3>2, <1>2 DEF ValueOrNull
      <4> HIDE DEF old
      <4>2. /\ remove_use(use_list_, old, u, l) \in UseLists
            /\ \A w \in Values, x \in Users, k \in Positions :
                 remove_use(use_list_, old, u, l)[w][x][k] =
                   IF w = old /\ x = u /\ k = l THEN 0 ELSE use_list_[w][x][k]
        BY <4>1, <2>1, <1>1, RemoveUse
      <4> QED
        BY <3>2, <4>2, <2>2
    <3> QED
      BY <3>1, <3>2
  <2>4. use_list_' = IF v = nullptr THEN removed ELSE add_use(removed, v, u, l)
    BY <1>3
  <2> HIDE DEF removed
  <2>5. CASE v = nullptr
    BY <2>3, <2>4, <2>5, ValuesAssumption
  <2>6. CASE v # nullptr
    <3>1. v \in Values
      BY <2>6, <1>1 DEF ValueOrNull
    <3>2. /\ add_use(removed, v, u, l) \in UseLists
          /\ \A w \in Values, x \in Users, k \in Positions :
               add_use(removed, v, u, l)[w][x][k] =
                 IF w = v /\ x = u /\ k = l THEN removed[w][x][k] + 1 ELSE removed[w][x][k]
      BY <3>1, <2>3, <1>1, AddUse
    <3> QED
      BY <2>3, <2>4, <2>6, <3>2
  <2> QED
    BY <2>5, <2>6
<1>7. \A w \in Values, x \in Users, k \in Positions : use_list_'[w][x][k] = Held(w, x, k)'
  <2> SUFFICES ASSUME NEW w \in Values, NEW x \in Users, NEW k \in Positions
               PROVE  use_list_'[w][x][k] = Held(w, x, k)'
    OBVIOUS
  <2>1. use_list_[w][x][k] = Held(w, x, k)
    BY DEF Settled
  <2>2. k \in Nat /\ k >= 1 /\ Len_(x) \in Nat
    BY DEF Positions, Settled, Data, Len_
  <2> QED
    BY <1>5, <1>6, <2>1, <2>2 DEF Held, HasOperand
<1>8. NoDanglingOperand'
  BY <1>5 DEF Settled, Data, NoDanglingOperand
<1>9. \A p \in Phis : Paired(p)'
  <2> SUFFICES ASSUME NEW p \in Phis PROVE Paired(p)'
    OBVIOUS
  <2>1. Paired(p) /\ p \in Users
    BY ValuesAssumption DEF Settled
  <2>2. \A k \in 1 .. Len_(p) :
          /\ operands_'[p][k] \in Labels => k % 2 = 0
          /\ k % 2 = 0 => operands_'[p][k] \in Labels \cup {nullptr}
    BY <1>5, <2>1 DEF Paired
  <2> QED
    BY <1>5, <2>1, <2>2 DEF Paired
<1>10. \A x \in Users : Len(operands_'[x]) <= MaxOperands
  BY <1>5 DEF Settled, Data, Len_
<1> QED
  BY <1>5, <1>6, <1>7, <1>8, <1>9, <1>10 DEF Settled, Data

(* Use lists L count the operands o.                                       *)
Counted(o, L) ==
  \A w \in Values, x \in Users, k \in Positions :
    L[w][x][k] = IF k <= Len(o[x]) /\ o[x][k] = w THEN 1 ELSE 0

Short(o) == \A x \in Users : Len(o[x]) <= MaxOperands

Longer(o, u, v) == [o EXCEPT ![u] = Append(o[u], v)]

(* One operand more, and its use.                                          *)
LEMMA AppendOperand ==
  ASSUME NEW o \in [Users -> Seq(ValueOrNull)], NEW L \in UseLists, Short(o), Counted(o, L),
         NEW u \in Users, NEW v \in Values, Len(o[u]) < MaxOperands
  PROVE  /\ Longer(o, u, v) \in [Users -> Seq(ValueOrNull)]
         /\ add_use(L, v, u, Len(o[u]) + 1) \in UseLists
         /\ Short(Longer(o, u, v))
         /\ \A x \in Users : Len(Longer(o, u, v)[x]) = IF x = u THEN Len(o[u]) + 1 ELSE Len(o[x])
         /\ \A x \in Users : \A k \in 1 .. Len(Longer(o, u, v)[x]) :
              Longer(o, u, v)[x][k] = IF k <= Len(o[x]) THEN o[x][k] ELSE v
         /\ Counted(Longer(o, u, v), add_use(L, v, u, Len(o[u]) + 1))
<1> DEFINE ops == Longer(o, u, v)
           more == add_use(L, v, u, Len(o[u]) + 1)
<1>1. \A x \in Users : Len(o[x]) \in Nat /\ Len(o[x]) <= MaxOperands
  BY DEF Short
<1>2. Len(o[u]) + 1 \in Positions
  BY <1>1, MaxOperandsAssumption DEF Positions
<1>3. /\ Append(o[u], v) \in Seq(ValueOrNull)
      /\ Len(Append(o[u], v)) = Len(o[u]) + 1
      /\ \A k \in 1 .. Len(o[u]) + 1 :
           Append(o[u], v)[k] = IF k <= Len(o[u]) THEN o[u][k] ELSE v
  <2>1. o[u] \in Seq(ValueOrNull) /\ v \in ValueOrNull
    BY DEF ValueOrNull
  <2> QED
    BY <2>1
<1>4. /\ ops \in [Users -> Seq(ValueOrNull)]
      /\ \A x \in Users : ops[x] = IF x = u THEN Append(o[u], v) ELSE o[x]
  BY <1>3 DEF Longer
<1> HIDE DEF ops
<1>5. /\ \A x \in Users : Len(ops[x]) = IF x = u THEN Len(o[u]) + 1 ELSE Len(o[x])
      /\ \A x \in Users : \A k \in 1 .. Len(ops[x]) :
           ops[x][k] = IF k <= Len(o[x]) THEN o[x][k] ELSE v
  <2> SUFFICES ASSUME NEW x \in Users
               PROVE  /\ Len(ops[x]) = IF x = u THEN Len(o[u]) + 1 ELSE Len(o[x])
                      /\ \A k \in 1 .. Len(ops[x]) :
                           ops[x][k] = IF k <= Len(o[x]) THEN o[x][k] ELSE v
    OBVIOUS
  <2>1. CASE x = u
    BY <1>1, <1>3, <1>4, <2>1
  <2>2. CASE x # u
    BY <1>1, <1>4, <2>2
  <2> QED
    BY <2>1, <2>2
<1>6. /\ more \in UseLists
      /\ \A w \in Values, x \in Users, k \in Positions :
           more[w][x][k] = IF w = v /\ x = u /\ k = Len(o[u]) + 1 THEN L[w][x][k] + 1 ELSE L[w][x][k]
  BY <1>2, AddUse
<1> HIDE DEF more
<1>7. Counted(ops, more)
  <2> SUFFICES ASSUME NEW w \in Values, NEW x \in Users, NEW k \in Positions
               PROVE  more[w][x][k] = IF k <= Len(ops[x]) /\ ops[x][k] = w THEN 1 ELSE 0
    BY DEF Counted
  <2>1. L[w][x][k] = IF k <= Len(o[x]) /\ o[x][k] = w THEN 1 ELSE 0
    BY DEF Counted
  <2>2. k \in Nat /\ k >= 1 /\ Len(o[x]) \in Nat /\ Len(o[u]) \in Nat
    BY <1>1 DEF Positions
  <2>3. Len(ops[x]) = IF x = u THEN Len(o[u]) + 1 ELSE Len(o[x])
    BY <1>5
  <2>4. k <= Len(ops[x]) => ops[x][k] = IF k <= Len(o[x]) THEN o[x][k] ELSE v
    BY <1>5, <2>2, <2>3
  <2> QED
    BY <1>6, <2>1, <2>2, <2>3, <2>4
<1>8. Short(ops)
  <2> SUFFICES ASSUME NEW x \in Users PROVE Len(ops[x]) <= MaxOperands
    BY DEF Short
  <2>1. Len(o[u]) + 1 <= MaxOperands
    BY <1>2 DEF Positions
  <2> QED
    BY <1>1, <1>5, <2>1
<1> QED
  BY <1>4, <1>5, <1>6, <1>7, <1>8 DEF ops, more

LEMMA SettledCounted ==
  Settled => /\ operands_ \in [Users -> Seq(ValueOrNull)] /\ use_list_ \in UseLists
             /\ Short(operands_) /\ Counted(operands_, use_list_)
  BY DEF Settled, Data, Short, Counted, Held, HasOperand, Len_

(* An instruction that is no phi gets an operand.                          *)
LEMMA AddOperandInv ==
  ASSUME Inv, NEW u \in Users \ Phis, NEW v \in Values, add_operand(u, v)
  PROVE  Inv'
<1>1. Settled /\ ControlTypeOK
  BY InvTypes, InvSettled DEF add_operand
<1>2. /\ v \in live /\ Len_(u) < MaxOperands /\ live' = live
      /\ use_list_' = add_use(use_list_, v, u, Len_(u) + 1)
      /\ operands_' = [operands_ EXCEPT ![u] = Append(operands_[u], v)]
  BY DEF add_operand
<1>3. /\ operands_' \in [Users -> Seq(ValueOrNull)] /\ use_list_' \in UseLists
      /\ Short(operands_')
      /\ \A x \in Users : Len_(x)' = IF x = u THEN Len_(u) + 1 ELSE Len_(x)
      /\ \A x \in Users : \A k \in 1 .. Len_(x)' :
           operands_'[x][k] = IF k <= Len_(x) THEN operands_[x][k] ELSE v
      /\ Counted(operands_', use_list_')
  <2>1. /\ u \in Users /\ operands_' = Longer(operands_, u, v)
        /\ use_list_' = add_use(use_list_, v, u, Len(operands_[u]) + 1)
        /\ Len(operands_[u]) < MaxOperands
    BY <1>2 DEF Longer, Len_
  <2>2. /\ operands_ \in [Users -> Seq(ValueOrNull)] /\ use_list_ \in UseLists
        /\ Short(operands_) /\ Counted(operands_, use_list_)
    BY <1>1, SettledCounted
  <2>3. /\ operands_' \in [Users -> Seq(ValueOrNull)] /\ use_list_' \in UseLists
        /\ Short(operands_')
        /\ \A x \in Users : Len(operands_'[x]) = IF x = u THEN Len(operands_[u]) + 1 ELSE Len(operands_[x])
        /\ \A x \in Users : \A k \in 1 .. Len(operands_'[x]) :
             operands_'[x][k] = IF k <= Len(operands_[x]) THEN operands_[x][k] ELSE v
        /\ Counted(operands_', use_list_')
    BY <2>1, <2>2, AppendOperand
  <2> QED
    BY <2>3 DEF Len_
<1>4. \A x \in Users : Len_(x) \in Nat /\ Len_(x) <= MaxOperands
  BY <1>1 DEF Settled, Data, Len_
<1>5. \A p \in Phis : Paired(p)'
  <2> SUFFICES ASSUME NEW p \in Phis PROVE Paired(p)'
    OBVIOUS
  <2>1. Paired(p) /\ p \in Users /\ p # u
    BY <1>1, ValuesAssumption DEF Settled
  <2>2. Len_(p)' = Len_(p) /\ \A k \in 1 .. Len_(p) : operands_'[p][k] = operands_[p][k]
    BY <1>3, <1>4, <2>1
  <2> QED
    BY <2>1, <2>2 DEF Paired
<1>6. NoDanglingOperand'
  <2> SUFFICES ASSUME NEW x \in Users, NEW k \in 1 .. Len_(x)'
               PROVE  operands_'[x][k] \in live \cup {nullptr}
    BY <1>2 DEF NoDanglingOperand
  <2>1. k <= Len_(x) => operands_[x][k] \in live \cup {nullptr}
    BY <1>1, <1>3, <1>4 DEF Settled, Data, NoDanglingOperand
  <2> QED
    BY <1>2, <1>3, <2>1
<1>7. \A w \in Values, x \in Users, k \in Positions : use_list_'[w][x][k] = Held(w, x, k)'
  BY <1>3 DEF Counted, Held, HasOperand, Len_
<1>8. Settled'
  BY <1>1, <1>2, <1>3, <1>5, <1>6, <1>7 DEF Settled, Data, Short
<1>9. ControlTypeOK' /\ pc' = "idle"
  BY <1>1 DEF add_operand, ControlTypeOK, callVars
<1> QED
  BY <1>8, <1>9, SettledInvNext DEF ReplaceSound

(* A phi gets a value and a block.                                         *)
LEMMA AddPairInv ==
  ASSUME Inv, NEW p \in Phis, NEW v \in Values, NEW b \in Labels, add_phi_pair_operand(p, v, b)
  PROVE  Inv'
<1>1. Settled /\ ControlTypeOK
  BY InvTypes, InvSettled DEF add_phi_pair_operand
<1> DEFINE n == Len(operands_[p])
           ops == Longer(operands_, p, v)
           once == add_use(use_list_, v, p, n + 1)
<1>2. /\ p \in Users /\ b \in Values /\ v \in live /\ v \notin Labels /\ b \in live /\ live' = live
      /\ n + 2 <= MaxOperands
      /\ operands_' = Longer(ops, p, b)
      /\ use_list_' = add_use(once, b, p, n + 2)
  <2>1. p \in Users /\ b \in Values
    BY ValuesAssumption
  <2>2. operands_' = [operands_ EXCEPT ![p] = Append(Append(operands_[p], v), b)]
    BY DEF add_phi_pair_operand
  <2>3. operands_ \in [Users -> Seq(ValueOrNull)]
    BY <1>1, SettledCounted
  <2>4. Longer(ops, p, b) = [operands_ EXCEPT ![p] = Append(Append(operands_[p], v), b)]
    BY <2>1, <2>3 DEF Longer
  <2> QED
    BY <2>1, <2>2, <2>4 DEF add_phi_pair_operand, Len_
<1>3. /\ operands_ \in [Users -> Seq(ValueOrNull)] /\ use_list_ \in UseLists
      /\ Short(operands_) /\ Counted(operands_, use_list_)
  BY <1>1, SettledCounted
<1>4. \A x \in Users : Len(operands_[x]) \in Nat
  BY <1>3
<1>5. /\ ops \in [Users -> Seq(ValueOrNull)] /\ once \in UseLists
      /\ Short(ops) /\ Counted(ops, once)
      /\ \A x \in Users : Len(ops[x]) = IF x = p THEN n + 1 ELSE Len(operands_[x])
      /\ \A x \in Users : \A k \in 1 .. Len(ops[x]) :
           ops[x][k] = IF k <= Len(operands_[x]) THEN operands_[x][k] ELSE v
  <2>1. n < MaxOperands
    BY <1>2, <1>4, MaxOperandsAssumption
  <2> QED
    BY <1>2, <1>3, <2>1, AppendOperand
<1> HIDE DEF ops, once
<1>6. /\ operands_' \in [Users -> Seq(ValueOrNull)] /\ use_list_' \in UseLists
      /\ Short(operands_') /\ Counted(operands_', use_list_')
      /\ \A x \in Users : Len(operands_'[x]) = IF x = p THEN n + 2 ELSE Len(operands_[x])
      /\ \A x \in Users : \A k \in 1 .. Len(operands_'[x]) :
           operands_'[x][k] = IF k <= Len(ops[x]) THEN ops[x][k] ELSE b
  <2>1. Len(ops[p]) = n + 1 /\ Len(ops[p]) < MaxOperands /\ Len(ops[p]) + 1 = n + 2
    BY <1>2, <1>4, <1>5, MaxOperandsAssumption
  <2>2. /\ Longer(ops, p, b) \in [Users -> Seq(ValueOrNull)]
        /\ add_use(once, b, p, Len(ops[p]) + 1) \in UseLists
        /\ Short(Longer(ops, p, b))
        /\ \A x \in Users : Len(Longer(ops, p, b)[x]) = IF x = p THEN Len(ops[p]) + 1 ELSE Len(ops[x])
        /\ \A x \in Users : \A k \in 1 .. Len(Longer(ops, p, b)[x]) :
             Longer(ops, p, b)[x][k] = IF k <= Len(ops[x]) THEN ops[x][k] ELSE b
        /\ Counted(Longer(ops, p, b), add_use(once, b, p, Len(ops[p]) + 1))
    BY <1>2, <1>5, <2>1, AppendOperand
  <2> QED
    BY <1>2, <1>5, <2>1, <2>2
<1>7. \A x \in Users : \A k \in 1 .. Len_(x)' :
        operands_'[x][k] = IF k <= Len_(x) THEN operands_[x][k] ELSE IF k = n + 1 THEN v ELSE b
  <2> SUFFICES ASSUME NEW x \in Users, NEW k \in 1 .. Len(operands_'[x])
               PROVE  operands_'[x][k] = IF k <= Len(operands_[x]) THEN operands_[x][k]
                                         ELSE IF k = n + 1 THEN v ELSE b
    BY DEF Len_
  <2>1. CASE x = p
    BY <1>4, <1>5, <1>6, <2>1
  <2>2. CASE x # p
    BY <1>4, <1>5, <1>6, <2>2
  <2> QED
    BY <2>1, <2>2
<1>8. /\ \A x \in Users : Len_(x)' = IF x = p THEN n + 2 ELSE Len_(x)
      /\ Len_(p) = n /\ n \in Nat
  BY <1>2, <1>4, <1>6 DEF Len_
<1> HIDE DEF n
<1>9. \A q \in Phis : Paired(q)'
  <2> SUFFICES ASSUME NEW q \in Phis PROVE Paired(q)'
    OBVIOUS
  <2>1. Paired(q) /\ q \in Users /\ Len_(q) \in Nat
    BY <1>1, <1>4, ValuesAssumption DEF Settled, Len_
  <2>2. CASE q = p
    <3>1. n % 2 = 0 /\ (n + 1) % 2 = 1 /\ (n + 2) % 2 = 0
      <4>1. n % 2 = 0
        BY <1>8, <2>1, <2>2 DEF Paired
      <4> QED
        BY <1>8, <4>1, Parity
    <3>2. \A k \in 1 .. n + 2 :
            /\ operands_'[q][k] \in Labels => k % 2 = 0
            /\ k % 2 = 0 => operands_'[q][k] \in Labels \cup {nullptr}
      <4> SUFFICES ASSUME NEW k \in 1 .. n + 2
                   PROVE  /\ operands_'[q][k] \in Labels => k % 2 = 0
                          /\ k % 2 = 0 => operands_'[q][k] \in Labels \cup {nullptr}
        OBVIOUS
      <4>1. CASE k <= n
        BY <1>7, <1>8, <2>1, <2>2, <4>1 DEF Paired
      <4>2. CASE k = n + 1
        <5>1. operands_'[q][k] = v
          BY <1>2, <1>7, <1>8, <2>2, <4>2
        <5> QED
          BY <1>2, <3>1, <4>2, <5>1
      <4>3. CASE k = n + 2
        <5>1. operands_'[q][k] = b
          BY <1>2, <1>7, <1>8, <2>2, <4>3
        <5> QED
          BY <3>1, <4>3, <5>1
      <4> QED
        BY <1>8, <4>1, <4>2, <4>3
    <3> QED
      BY <1>8, <2>1, <2>2, <3>1, <3>2 DEF Paired
  <2>3. CASE q # p
    <3>1. Len_(q)' = Len_(q) /\ \A k \in 1 .. Len_(q) : operands_'[q][k] = operands_[q][k]
      BY <1>7, <1>8, <2>1, <2>3
    <3> QED
      BY <2>1, <3>1 DEF Paired
  <2> QED
    BY <2>2, <2>3
<1>10. NoDanglingOperand'
  <2> SUFFICES ASSUME NEW x \in Users, NEW k \in 1 .. Len_(x)'
               PROVE  operands_'[x][k] \in live \cup {nullptr}
    BY <1>2 DEF NoDanglingOperand
  <2>0. k \in Nat /\ k >= 1 /\ Len_(x) \in Nat
    BY <1>4, <1>6 DEF Len_
  <2>1. k <= Len_(x) => operands_[x][k] \in live \cup {nullptr}
    BY <1>1, <2>0 DEF Settled, Data, NoDanglingOperand
  <2> QED
    BY <1>2, <1>7, <2>1
<1>11. \A w \in Values, x \in Users, k \in Positions : use_list_'[w][x][k] = Held(w, x, k)'
  BY <1>6 DEF Counted, Held, HasOperand, Len_
<1>12. Settled'
  BY <1>1, <1>2, <1>6, <1>9, <1>10, <1>11 DEF Settled, Data, Short
<1>13. ControlTypeOK' /\ pc' = "idle"
  BY <1>1 DEF add_phi_pair_operand, ControlTypeOK, callVars
<1> QED
  BY <1>12, <1>13, SettledInvNext DEF ReplaceSound

(* set_operand as a client calls it.                                       *)
LEMMA SetOperandInv ==
  ASSUME Inv, NEW u \in Users \ Phis, NEW l \in Positions, NEW v \in Values, set_operand(u, l, v)
  PROVE  Inv'
<1>1. Settled /\ ControlTypeOK
  BY InvTypes, InvSettled DEF set_operand
<1>2. /\ live' = live /\ u \in Users /\ u \notin Phis /\ v \in live \cup {nullptr}
      /\ SetOperand(u, l, v)
  BY DEF set_operand
<1>3. l \in 1 .. Len_(u)
  <2>1. Len_(u) \in Nat
    BY <1>1 DEF Settled, Data, Len_
  <2> QED
    BY <2>1 DEF set_operand, Positions
<1>4. Settled'
  BY <1>1, <1>2, <1>3, SetOperandSettled
<1>5. ControlTypeOK' /\ pc' = "idle"
  BY <1>1 DEF set_operand, ControlTypeOK, callVars
<1> QED
  BY <1>4, <1>5, SettledInvNext DEF ReplaceSound
-----------------------------------------------------------------------------
(* A user that drops its operands.                                         *)
LEMMA DropSettled ==
  ASSUME Settled, live' = live, NEW u \in Users,
         use_list_' = Dropped(u), operands_' = [operands_ EXCEPT ![u] = << >>]
  PROVE  Settled'
<1>1. /\ operands_ \in [Users -> Seq(ValueOrNull)] /\ use_list_ \in UseLists
      /\ \A x \in Users : Len_(x) \in Nat
  BY DEF Settled, Data, Len_
<1>2. /\ operands_' \in [Users -> Seq(ValueOrNull)]
      /\ \A x \in Users : x # u => operands_'[x] = operands_[x]
      /\ operands_'[u] = << >> /\ Len_(u)' = 0
  BY <1>1 DEF Len_
<1>3. /\ use_list_' \in UseLists
      /\ \A w \in Values, x \in Users, k \in Positions :
           use_list_'[w][x][k] = IF x = u /\ k <= Len_(u) /\ operands_[u][k] = w THEN 0
                                 ELSE use_list_[w][x][k]
  <2> DEFINE Row(w) == [k \in Positions |-> IF k <= Len_(u) /\ operands_[u][k] = w THEN 0
                                            ELSE use_list_[w][u][k]]
  <2>1. \A w \in Values : /\ use_list_[w] \in [Users -> [Positions -> Nat]]
                          /\ use_list_[w][u] \in [Positions -> Nat]
    BY <1>1 DEF UseLists
  <2>2. \A w \in Values : Row(w) \in [Positions -> Nat]
    BY <2>1
  <2>3. use_list_' = [w \in Values |-> [use_list_[w] EXCEPT ![u] = Row(w)]]
    BY DEF Dropped
  <2> HIDE DEF Row
  <2>4. \A w \in Values :
          /\ [use_list_[w] EXCEPT ![u] = Row(w)] \in [Users -> [Positions -> Nat]]
          /\ \A x \in Users : [use_list_[w] EXCEPT ![u] = Row(w)][x] =
                                IF x = u THEN Row(w) ELSE use_list_[w][x]
    BY <2>1, <2>2
  <2>5. /\ use_list_' \in UseLists
        /\ \A w \in Values, x \in Users : use_list_'[w][x] = IF x = u THEN Row(w) ELSE use_list_[w][x]
    BY <2>3, <2>4 DEF UseLists
  <2>6. \A w \in Values : \A k \in Positions :
          Row(w)[k] = IF k <= Len_(u) /\ operands_[u][k] = w THEN 0 ELSE use_list_[w][u][k]
    BY DEF Row
  <2> QED
    BY <2>5, <2>6
<1>4. \A w \in Values, x \in Users, k \in Positions : use_list_'[w][x][k] = Held(w, x, k)'
  <2> SUFFICES ASSUME NEW w \in Values, NEW x \in Users, NEW k \in Positions
               PROVE  use_list_'[w][x][k] = Held(w, x, k)'
    OBVIOUS
  <2>1. use_list_[w][x][k] = Held(w, x, k)
    BY DEF Settled
  <2>2. k >= 1 /\ k \in Nat
    BY DEF Positions
  <2>3. CASE x = u
    BY <1>2, <1>3, <2>1, <2>2, <2>3 DEF Held, HasOperand
  <2>4. CASE x # u
    BY <1>2, <1>3, <2>1, <2>4 DEF Held, HasOperand, Len_
  <2> QED
    BY <2>3, <2>4
<1>5. \A p \in Phis : Paired(p)'
  <2> SUFFICES ASSUME NEW p \in Phis PROVE Paired(p)'
    OBVIOUS
  <2>1. Paired(p) /\ p \in Users
    BY ValuesAssumption DEF Settled
  <2>2. CASE p = u
    BY <1>2, <2>2, Parity DEF Paired
  <2>3. CASE p # u
    BY <1>2, <2>1, <2>3 DEF Paired, Len_
  <2> QED
    BY <2>2, <2>3
<1>6. NoDanglingOperand'
  <2> SUFFICES ASSUME NEW x \in Users, NEW k \in 1 .. Len_(x)'
               PROVE  operands_'[x][k] \in live \cup {nullptr}
    BY DEF NoDanglingOperand
  <2>1. x # u
    BY <1>2
  <2>2. k \in 1 .. Len_(x) /\ operands_'[x] = operands_[x]
    BY <1>2, <2>1 DEF Len_
  <2> QED
    BY <2>2 DEF Settled, Data, NoDanglingOperand
<1>7. \A x \in Users : Len(operands_'[x]) <= MaxOperands
  BY <1>2, MaxOperandsAssumption DEF Settled, Data, Len_
<1> QED
  BY <1>2, <1>3, <1>4, <1>5, <1>6, <1>7 DEF Settled, Data

LEMMA RemoveAllInv ==
  ASSUME Inv, NEW u \in Users, remove_all_operands(u)
  PROVE  Inv'
<1>1. Settled /\ ControlTypeOK
  BY InvTypes, InvSettled DEF remove_all_operands
<1>2. Settled'
  BY <1>1, DropSettled DEF remove_all_operands
<1>3. ControlTypeOK' /\ pc' = "idle"
  BY <1>1 DEF remove_all_operands, ControlTypeOK, callVars
<1> QED
  BY <1>2, <1>3, SettledInvNext DEF ReplaceSound
-----------------------------------------------------------------------------
(* replace_all_use_with and deletion, one use after the other.             *)
LEMMA SettledUnchanged ==
  ASSUME Settled, UNCHANGED <<operands_, use_list_>>, live' \in SUBSET Values, NoDanglingOperand'
  PROVE  Settled'
<1>1. operands_' = operands_ /\ use_list_' = use_list_
  OBVIOUS
<1>2. \A u : Len_(u)' = Len_(u)
  BY <1>1 DEF Len_
<1>3. \A v, u, l : Held(v, u, l)' = Held(v, u, l)
  BY <1>1, <1>2 DEF Held, HasOperand
<1>4. \A p : Paired(p)' = Paired(p)
  BY <1>1, <1>2 DEF Paired
<1>5. Data'
  BY <1>1 DEF Settled, Data
<1> QED
  BY <1>1, <1>3, <1>4, <1>5 DEF Settled

LEMMA SettledSame ==
  ASSUME Settled, UNCHANGED <<live, operands_, use_list_>>
  PROVE  Settled'
<1>1. NoDanglingOperand'
  BY DEF Settled, Data, NoDanglingOperand, Len_
<1> QED
  BY <1>1, SettledUnchanged DEF Settled, Data

LEMMA StartReplaceInv ==
  ASSUME Inv, NEW v \in Values, NEW w \in Values, StartReplace(v, w)
  PROVE  Inv'
<1>1. Settled /\ ControlTypeOK
  BY InvTypes, InvSettled DEF StartReplace
<1>2. Settled'
  BY <1>1, SettledSame DEF StartReplace
<1>3. ControlTypeOK' /\ pc' # "shift"
  BY <1>1 DEF StartReplace, ControlTypeOK, ValueOrNull
<1>4. ReplaceSound'
  BY DEF StartReplace, ReplaceSound
<1> QED
  BY <1>2, <1>3, <1>4, SettledInvNext

LEMMA DeleteInv ==
  ASSUME Inv, NEW v \in Values, Delete(v)
  PROVE  Inv'
<1>1. Settled /\ ControlTypeOK
  BY InvTypes, InvSettled DEF Delete
<1>2. Settled'
  <2>1. CASE v \in Users
    BY <1>1, <2>1, DropSettled DEF Delete
  <2>2. CASE v \notin Users
    BY <1>1, <2>2, SettledSame DEF Delete
  <2> QED
    BY <2>1, <2>2
<1>3. ControlTypeOK' /\ pc' # "shift"
  BY <1>1 DEF Delete, ControlTypeOK, ValueOrNull
<1>4. ReplaceSound'
  BY ValuesAssumption DEF Delete, ReplaceSound
<1> QED
  BY <1>2, <1>3, <1>4, SettledInvNext

LEMMA ReplaceUseInv ==
  ASSUME Inv, NEW u \in Users, NEW l \in Positions, ReplaceUse(u, l)
  PROVE  Inv'
<1>1. Settled /\ ControlTypeOK /\ ReplaceSound
  BY InvTypes, InvSettled DEF ReplaceUse, Inv
<1>2. /\ pc = "replace" /\ use_list_[this][u][l] # 0 /\ SetOperand(u, l, new_val)
      /\ live' = live /\ pc' = pc /\ this' = this /\ new_val' = new_val
      /\ UNCHANGED <<phi, idx, i, twice>>
  BY DEF ReplaceUse, callVars
<1>3. /\ this \in live /\ new_val \in live \cup {nullptr} /\ this # new_val
      /\ new_val \notin Labels /\ (this \in Labels => new_val = nullptr)
      /\ this \in Values /\ this # nullptr
  BY <1>1, <1>2, ValuesAssumption DEF ReplaceSound, Settled, Data
<1>4. HasOperand(this, u, l)
  BY <1>1, <1>2, <1>3 DEF Settled, Held
<1>5. l \in 1 .. Len_(u) /\ operands_[u][l] = this
  <2>1. Len_(u) \in Nat
    BY <1>1 DEF Settled, Data, Len_
  <2> QED
    BY <1>4, <2>1 DEF HasOperand, Positions
<1>6. u \in Phis => new_val \notin Labels /\ (l % 2 = 0 => new_val = nullptr)
  BY <1>1, <1>3, <1>5 DEF Settled, Paired
<1>7. Settled'
  BY <1>1, <1>2, <1>3, <1>5, <1>6, SetOperandSettled
<1>8. ControlTypeOK' /\ pc' # "shift"
  BY <1>1, <1>2 DEF ControlTypeOK
<1>9. ReplaceSound'
  BY <1>2, <1>3 DEF ReplaceSound
<1> QED
  BY <1>7, <1>8, <1>9, SettledInvNext

(* A value without uses may go: nothing has it as an operand.              *)
LEMMA EndReplaceInv ==
  ASSUME Inv, EndReplace
  PROVE  Inv'
<1>1. Settled /\ ControlTypeOK /\ ReplaceSound
  BY InvTypes, InvSettled DEF EndReplace, Inv
<1>2. /\ pc = "replace" /\ operands_' = operands_ /\ use_list_' = use_list_
      /\ live' = live \/ live' = live \ {this}
      /\ \A u \in Users, l \in Positions : use_list_[this][u][l] = 0
      /\ pc' = "idle"
  BY DEF EndReplace
<1>3. this \in Values
  BY <1>1, <1>2 DEF ReplaceSound, Settled, Data
<1>4. \A u \in Users : \A l \in 1 .. Len_(u) : operands_[u][l] # this
  <2> SUFFICES ASSUME NEW u \in Users, NEW l \in 1 .. Len_(u), operands_[u][l] = this
               PROVE  FALSE
    OBVIOUS
  <2>1. Len_(u) \in Nat /\ Len_(u) <= MaxOperands
    BY <1>1 DEF Settled, Data, Len_
  <2>2. l \in Positions /\ l <= Len_(u)
    BY <2>1, MaxOperandsAssumption DEF Positions
  <2>3. use_list_[this][u][l] = 1
    BY <1>1, <1>3, <2>2 DEF Settled, Held, HasOperand
  <2> QED
    BY <1>2, <2>2, <2>3
<1>5. NoDanglingOperand'
  BY <1>1, <1>2, <1>4 DEF Settled, Data, NoDanglingOperand, Len_
<1>6. Settled'
  <2>1. live' \in SUBSET Values
    BY <1>1, <1>2 DEF Settled, Data
  <2> QED
    BY <1>1, <1>2, <1>5, <2>1, SettledUnchanged
<1>7. ControlTypeOK'
  BY <1>1 DEF EndReplace, ControlTypeOK, ValueOrNull
<1> QED
  BY <1>2, <1>6, <1>7, SettledInvNext DEF ReplaceSound
-----------------------------------------------------------------------------
(* remove_phi_operand starts at a pair.                                    *)
LEMMA StartRemoveInv ==
  ASSUME Inv, NEW p \in Phis, NEW b \in Labels, StartRemove(p, b)
  PROVE  Inv'
<1>1. Settled /\ ControlTypeOK
  BY InvTypes, InvSettled DEF StartRemove
<1>2. /\ pc' = "shift" /\ phi' = p /\ twice' = TRUE
      /\ UNCHANGED <<live, operands_, use_list_, this, new_val>>
      /\ \A l \in 1 .. Len_(p) : operands_[p][l] # nullptr
  BY DEF StartRemove
<1>4. p \in Users /\ operands_[p] \in Seq(ValueOrNull) /\ Len_(p) \in Nat
  BY <1>1, ValuesAssumption DEF Settled, Data, Len_
<1>3. PICK n \in 1 .. Len_(p) : n % 2 = 1 /\ idx' = n /\ i' = n + 1
  BY DEF StartRemove
<1> DEFINE m == n + 1
<1>n. n \in Nat /\ n >= 1 /\ n <= Len_(p) /\ m \in Nat /\ n < m /\ m <= Len_(p) + 1 /\ i' = m
  BY <1>3, <1>4
<1> HIDE DEF m
<1>5. Settled'
  BY <1>1, <1>2, SettledSame
<1>6. ControlTypeOK'
  <2>1. n \in Nat \ {0} /\ m \in Nat \ {0}
    BY <1>n
  <2>2. twice' \in BOOLEAN
    BY <1>2, Zenon
  <2> QED
    BY <1>1, <1>2, <1>3, <1>n, <1>4, <2>1, <2>2 DEF ControlTypeOK
<1>7. TypeOK'
  BY <1>5, <1>6 DEF Settled, Data, ControlTypeOK, TypeOK, UseLists
<1>8. UsesCounted'
  <2> SUFFICES ASSUME NEW v \in Values, NEW l \in Positions
               PROVE  Moved(v, l)' = Held(v, p, l)'
    BY <1>2, <1>5 DEF Settled, UsesCounted
  <2>1. l \in Nat
    BY DEF Positions
  <2>2. Moved(v, l)' = IF l < n \/ l >= m THEN Held(v, p, l)'
                       ELSE IF l = n THEN Held(v, p, l)' + (IF l < m - 1 THEN Held(v, p, l + 1)' ELSE 0)
                       ELSE IF l < m - 1 THEN Held(v, p, l + 1)' ELSE 0
    BY <1>2, <1>3, <1>n DEF Moved, Held, HasOperand, Len_
  <2>3. ~ (l > n /\ l < m) /\ ~ (n < m - 1)
    BY <1>n, <2>1 DEF m
  <2>4. Held(v, p, l)' \in {0, 1}
    BY DEF Held
  <2> QED
    BY <1>n, <2>1, <2>2, <2>3, <2>4
<1>9. PairsKept'
  BY <1>2, <1>5 DEF PairsKept, Settled
<1>10. ShiftSound'
  <2>1. \A l \in 1 .. Len_(p) : operands_[p][l] \in Values
    BY <1>2, <1>4 DEF ValueOrNull, Len_
  <2>2. Len_(p)' = Len_(p) /\ operands_'[p] = operands_[p]
    BY <1>2 DEF Len_
  <2>3. phi' \in Phis /\ Len_(phi)' = Len_(p) /\ operands_'[phi'] = operands_[p]
    BY <1>2 DEF Len_
  <2> QED
    BY <1>3, <1>n, <2>1, <2>3 DEF ShiftSound
<1> QED
  BY <1>2, <1>5, <1>7, <1>8, <1>9, <1>10 DEF Inv, ReplaceSound, Settled, Data

(* Facts about remove_operand while it runs.                               *)
LEMMA Shifting ==
  ASSUME Inv, pc = "shift"
  PROVE  /\ ControlTypeOK /\ Data
         /\ phi \in Phis /\ phi \in Users /\ operands_[phi] \in Seq(Values)
         /\ Len_(phi) \in Nat /\ Len_(phi) <= MaxOperands /\ MaxOperands \in Nat
         /\ idx \in Nat /\ i \in Nat /\ idx >= 1 /\ idx < i /\ idx <= Len_(phi) /\ i <= Len_(phi) + 1
         /\ idx % 2 = 1
         /\ \A l \in 1 .. Len_(phi) : operands_[phi][l] \in Values
<1>1. ControlTypeOK /\ Data /\ ShiftSound
  BY InvTypes DEF Inv
<1>2. /\ phi \in Phis /\ idx % 2 = 1 /\ idx <= Len_(phi) /\ idx < i /\ i <= Len_(phi) + 1
      /\ \A l \in 1 .. Len_(phi) : operands_[phi][l] \in Values
  BY <1>1 DEF ShiftSound
<1>3. phi \in Users
  BY <1>2, ValuesAssumption
<1>4. /\ operands_[phi] \in Seq(ValueOrNull)
      /\ Len_(phi) \in Nat /\ Len_(phi) <= MaxOperands
  BY <1>1, <1>3 DEF Data, Len_
<1>5. operands_[phi] \in Seq(Values)
  BY <1>2, <1>4 DEF Len_
<1>6. idx \in Nat /\ i \in Nat /\ idx >= 1
  BY <1>1 DEF ControlTypeOK
<1> QED
  BY <1>1, <1>2, <1>3, <1>4, <1>5, <1>6, MaxOperandsAssumption

(* remove_operand moves the use at i down.                                 *)
LEMMA ShiftInv ==
  ASSUME Inv, Shift
  PROVE  Inv'
<1> DEFINE v == operands_[phi][i]
           n == i + 1
<1>1. /\ pc = "shift" /\ i <= Len_(phi)
      /\ use_list_' = add_use(remove_use(use_list_, v, phi, i), v, phi, i - 1)
      /\ i' = n
      /\ UNCHANGED <<live, operands_, pc, this, new_val, phi, idx, twice>>
  BY DEF Shift
<1>2. /\ ControlTypeOK /\ Data
      /\ phi \in Phis /\ phi \in Users
      /\ Len_(phi) \in Nat /\ Len_(phi) <= MaxOperands /\ MaxOperands \in Nat
      /\ idx \in Nat /\ i \in Nat /\ idx >= 1 /\ idx < i /\ idx <= Len_(phi) /\ idx % 2 = 1
      /\ \A l \in 1 .. Len_(phi) : operands_[phi][l] \in Values
  BY <1>1, Shifting
<1>3. i \in Positions /\ i - 1 \in Positions /\ v \in Values
  BY <1>1, <1>2 DEF Positions
<1>n. n \in Nat /\ n >= 1 /\ idx < n /\ n <= Len_(phi) + 1 /\ n - 1 = i
  BY <1>1, <1>2
<1> HIDE DEF v, n
<1>4. /\ use_list_' \in UseLists
      /\ \A w \in Values, x \in Users, k \in Positions :
           use_list_'[w][x][k] =
             IF w = v /\ x = phi /\ k = i THEN 0
             ELSE IF w = v /\ x = phi /\ k = i - 1 THEN use_list_[w][x][k] + 1
             ELSE use_list_[w][x][k]
  <2> DEFINE R == remove_use(use_list_, v, phi, i)
  <2>1. /\ R \in UseLists
        /\ \A w \in Values, x \in Users, k \in Positions :
             R[w][x][k] = IF w = v /\ x = phi /\ k = i THEN 0 ELSE use_list_[w][x][k]
    BY <1>2, <1>3, RemoveUse DEF Data
  <2> HIDE DEF R
  <2>2. /\ add_use(R, v, phi, i - 1) \in UseLists
        /\ \A w \in Values, x \in Users, k \in Positions :
             add_use(R, v, phi, i - 1)[w][x][k] =
               IF w = v /\ x = phi /\ k = i - 1 THEN R[w][x][k] + 1 ELSE R[w][x][k]
    BY <1>2, <1>3, <2>1, AddUse
  <2>3. i # i - 1
    BY <1>2
  <2>4. use_list_' = add_use(R, v, phi, i - 1)
    BY <1>1 DEF R
  <2> QED
    BY <2>1, <2>2, <2>3, <2>4
<1>5. /\ \A w, x, k : Held(w, x, k)' = Held(w, x, k)
      /\ \A x : Len_(x)' = Len_(x)
  BY <1>1 DEF Held, HasOperand, Len_
<1>6. UsesCounted'
  <2> SUFFICES ASSUME NEW w \in Values, NEW x \in Users, NEW k \in Positions
               PROVE  use_list_'[w][x][k] = IF x = phi THEN Moved(w, k)' ELSE Held(w, x, k)
    BY <1>1, <1>5 DEF UsesCounted
  <2>1. use_list_[w][x][k] = IF x = phi THEN Moved(w, k) ELSE Held(w, x, k)
    BY <1>1 DEF Inv, UsesCounted
  <2>2. CASE x # phi
    BY <1>4, <2>1, <2>2
  <2>3. CASE x = phi
    <3>1. Moved(w, k)' = IF k < idx \/ k >= n THEN Held(w, phi, k)
                         ELSE IF k = idx THEN Held(w, phi, k) + (IF k < n - 1 THEN Held(w, phi, k + 1) ELSE 0)
                         ELSE IF k < n - 1 THEN Held(w, phi, k + 1) ELSE 0
      BY <1>1, <1>5 DEF Moved
    <3>2. Held(w, phi, i) = IF w = v THEN 1 ELSE 0
      BY <1>1 DEF Held, HasOperand, v
    <3>3. k \in Nat /\ \A l : Held(w, phi, l) \in {0, 1}
      BY DEF Positions, Held
    <3>4. CASE k = i
      BY <1>2, <1>4, <1>n, <2>1, <2>3, <3>1, <3>2, <3>4 DEF Moved
    <3>5. CASE k = i - 1
      <4>1. k + 1 = i /\ k < n - 1 /\ k # i /\ k >= idx /\ ~ (k < i - 1)
        BY <1>2, <1>n, <3>3, <3>5
      <4>2. use_list_'[w][x][k] = IF w = v THEN use_list_[w][x][k] + 1 ELSE use_list_[w][x][k]
        BY <1>4, <2>3, <3>5, <4>1
      <4>3. use_list_[w][x][k] = IF k = idx THEN Held(w, phi, k) ELSE 0
        BY <1>2, <2>1, <2>3, <3>3, <3>5, <4>1 DEF Moved
      <4>4. Moved(w, k)' = IF k = idx THEN Held(w, phi, k) + Held(w, phi, i) ELSE Held(w, phi, i)
        BY <1>2, <1>n, <3>1, <3>3, <4>1
      <4> QED
        BY <2>3, <3>2, <3>3, <4>2, <4>3, <4>4
    <3>6. CASE k # i /\ k # i - 1
      <4>1. use_list_'[w][x][k] = Moved(w, k)
        BY <1>4, <2>1, <2>3, <3>6
      <4>2. (k >= i <=> k >= n) /\ (k < i - 1 <=> k < n - 1)
        BY <1>2, <1>n, <3>3, <3>6
      <4> QED
        BY <2>3, <3>1, <4>1, <4>2 DEF Moved
    <3> QED
      BY <3>4, <3>5, <3>6
  <2> QED
    BY <2>2, <2>3
<1>7. PairsKept'
  BY <1>1, <1>5 DEF Inv, PairsKept, Paired, HalfPaired
<1>8. ShiftSound'
  BY <1>1, <1>2, <1>5, <1>n DEF ShiftSound
<1>9. NoDanglingOperand'
  BY <1>1, <1>2, <1>5 DEF Data, NoDanglingOperand
<1>10. ControlTypeOK'
  BY <1>1, <1>2, <1>n DEF ControlTypeOK
<1>11. TypeOK'
  BY <1>1, <1>2, <1>4, <1>10 DEF TypeOK, ControlTypeOK, Data, UseLists
<1> QED
  BY <1>1, <1>6, <1>7, <1>8, <1>9, <1>11 DEF Inv, ReplaceSound

(* remove_operand takes the operand out; two neighbours are never the same *)
(* value in a phi, so that the use moved onto the place of the one that    *)
(* goes does not go with it.                                               *)
LEMMA NeighboursDiffer ==
  ASSUME Inv, pc = "shift", idx < Len_(phi)
  PROVE  operands_[phi][idx] # operands_[phi][idx + 1]
<1>1. /\ phi \in Phis /\ Len_(phi) \in Nat /\ idx \in Nat /\ idx >= 1 /\ idx % 2 = 1
      /\ \A l \in 1 .. Len_(phi) : operands_[phi][l] \in Values
  BY Shifting
<1>2. (idx + 1) % 2 = 0
  BY <1>1, Parity
<1>3. idx \in 1 .. Len_(phi) /\ idx + 1 \in 1 .. Len_(phi)
  BY <1>1
<1>4. IF twice THEN Paired(phi) ELSE HalfPaired(phi)
  BY <1>1 DEF Inv, PairsKept
<1>5. CASE twice
  <2>1. operands_[phi][idx] \notin Labels
    BY <1>1, <1>3, <1>4, <1>5 DEF Paired
  <2>2. operands_[phi][idx + 1] \in Labels
    BY <1>1, <1>2, <1>3, <1>4, <1>5, ValuesAssumption DEF Paired
  <2> QED
    BY <2>1, <2>2
<1>6. CASE ~ twice
  <2>1. operands_[phi][idx] \in Labels
    BY <1>1, <1>3, <1>4, <1>6 DEF HalfPaired
  <2>2. operands_[phi][idx + 1] \notin Labels
    BY <1>1, <1>2, <1>3, <1>4, <1>6 DEF HalfPaired
  <2> QED
    BY <2>1, <2>2
<1> QED
  BY <1>5, <1>6

LEMMA WithoutOne ==
  ASSUME NEW S, NEW s \in Seq(S), NEW l \in 1 .. Len(s)
  PROVE  /\ Without(s, l) \in Seq(S) /\ Len(Without(s, l)) = Len(s) - 1
         /\ \A m \in 1 .. Len(s) - 1 : Without(s, l)[m] = IF m < l THEN s[m] ELSE s[m + 1]
<1>1. \A m \in 1 .. Len(s) - 1 : (IF m < l THEN s[m] ELSE s[m + 1]) \in S
  OBVIOUS
<1> QED
  BY <1>1 DEF Without

LEMMA EndShiftInv ==
  ASSUME Inv, EndShift
  PROVE  Inv'
<1> DEFINE v == operands_[phi][idx]
           n == idx + 1
           len == Len_(phi)
           rest == Without(operands_[phi], idx)
<1>1. /\ pc = "shift" /\ i > Len_(phi)
      /\ use_list_' = remove_use(use_list_, v, phi, idx)
      /\ operands_' = [operands_ EXCEPT ![phi] = rest]
      /\ twice' = FALSE /\ i' = n
      /\ pc' = IF twice THEN "shift" ELSE "idle"
      /\ UNCHANGED <<live, this, new_val, phi, idx>>
  BY DEF EndShift
<1>2. /\ ControlTypeOK /\ Data
      /\ phi \in Phis /\ phi \in Users /\ operands_[phi] \in Seq(Values)
      /\ len \in Nat /\ len <= MaxOperands /\ MaxOperands \in Nat
      /\ idx \in Nat /\ i \in Nat /\ idx >= 1 /\ idx <= len /\ idx % 2 = 1
      /\ i = len + 1
      /\ \A l \in 1 .. len : operands_[phi][l] \in Values
  <2>1. Len_(phi) \in Nat /\ i \in Nat /\ i <= Len_(phi) + 1
    BY <1>1, Shifting
  <2>2. i = Len_(phi) + 1
    BY <1>1, <2>1
  <2> QED
    BY <1>1, <2>2, Shifting
<1>3. idx \in Positions /\ v \in Values
  BY <1>1, <1>2 DEF Positions
<1>n. n \in Nat /\ n = idx + 1 /\ n >= 1 /\ len = Len(operands_[phi])
  BY <1>2 DEF Len_
<1>r. /\ rest \in Seq(Values) /\ Len(rest) = len - 1
      /\ \A m \in 1 .. len - 1 : rest[m] = IF m < idx THEN operands_[phi][m] ELSE operands_[phi][m + 1]
  <2>1. idx \in 1 .. Len(operands_[phi])
    BY <1>2, <1>n
  <2> QED
    BY <1>2, <1>n, <2>1, WithoutOne
<1>d. idx < len => v # operands_[phi][idx + 1]
  BY <1>1, NeighboursDiffer
<1> HIDE DEF v, n, rest, len
<1>4. /\ use_list_' \in UseLists
      /\ \A w \in Values, x \in Users, k \in Positions :
           use_list_'[w][x][k] = IF w = v /\ x = phi /\ k = idx THEN 0 ELSE use_list_[w][x][k]
  BY <1>1, <1>2, <1>3, RemoveUse DEF Data
<1>5. /\ operands_' \in [Users -> Seq(ValueOrNull)]
      /\ operands_'[phi] = rest
      /\ \A x \in Users : x # phi => operands_'[x] = operands_[x]
      /\ \A x \in Users : Len_(x)' = IF x = phi THEN len - 1 ELSE Len_(x)
  <2>1. rest \in Seq(ValueOrNull)
    BY <1>r DEF ValueOrNull
  <2> QED
    BY <1>1, <1>2, <1>r, <2>1 DEF Data, Len_
<1>6. \A w \in Values, x \in Users, k \in Positions : use_list_'[w][x][k] = Held(w, x, k)'
  <2> SUFFICES ASSUME NEW w \in Values, NEW x \in Users, NEW k \in Positions
               PROVE  use_list_'[w][x][k] = Held(w, x, k)'
    OBVIOUS
  <2>1. use_list_[w][x][k] = IF x = phi THEN Moved(w, k) ELSE Held(w, x, k)
    BY <1>1 DEF Inv, UsesCounted
  <2>2. CASE x # phi
    BY <1>4, <1>5, <2>1, <2>2 DEF Held, HasOperand
  <2>3. CASE x = phi
    <3>0. k \in Nat /\ k >= 1
      BY DEF Positions
    <3>1. Held(w, x, k)' = IF k <= len - 1 /\ rest[k] = w THEN 1 ELSE 0
      <4>1. Len_(x)' = len - 1 /\ operands_'[x] = rest
        BY <1>5, <2>3
      <4> QED
        BY <4>1 DEF Held, HasOperand
    <3>2. \A l : Held(w, phi, l) = IF l <= len /\ operands_[phi][l] = w THEN 1 ELSE 0
      BY DEF Held, HasOperand, len
    <3>3. Moved(w, k) = IF k < idx \/ k >= len + 1 THEN Held(w, phi, k)
                        ELSE IF k = idx THEN Held(w, phi, k) + (IF k < len THEN Held(w, phi, k + 1) ELSE 0)
                        ELSE IF k < len THEN Held(w, phi, k + 1) ELSE 0
      <4>1. i = len + 1 /\ i - 1 = len
        BY <1>2
      <4> QED
        BY <4>1 DEF Moved
    <3>4. CASE k < idx
      <4>1. k <= len - 1 /\ k <= len /\ k \in 1 .. len - 1 /\ k # idx
        BY <1>2, <3>0, <3>4
      <4>2. rest[k] = operands_[phi][k]
        BY <1>r, <3>4, <4>1
      <4> QED
        BY <1>4, <2>1, <2>3, <3>1, <3>2, <3>3, <3>4, <4>1, <4>2
    <3>5. CASE k = idx
      <4>1. CASE idx < len
        <5>1. k <= len - 1 /\ k \in 1 .. len - 1 /\ ~ (k < idx) /\ k + 1 <= len /\ k <= len
              /\ ~ (k >= len + 1) /\ k < len
          BY <1>2, <3>0, <3>5, <4>1
        <5>2. rest[k] = operands_[phi][k + 1] /\ v # operands_[phi][k + 1]
          BY <1>d, <1>r, <3>5, <4>1, <5>1
        <5>3. CASE w = v
          BY <1>4, <2>3, <3>1, <3>5, <5>2, <5>3
        <5>4. CASE w # v
          <6>1. Held(w, phi, k) = 0
            BY <3>2, <3>5, <5>4 DEF v
          <6>2. Held(w, phi, k + 1) = IF operands_[phi][k + 1] = w THEN 1 ELSE 0
            BY <3>2, <5>1
          <6>3. use_list_[w][x][k] = Held(w, phi, k + 1)
            BY <2>1, <2>3, <3>3, <3>5, <5>1, <6>1, <6>2
          <6> QED
            BY <1>4, <3>1, <5>1, <5>2, <5>4, <6>2, <6>3
        <5> QED
          BY <5>3, <5>4
      <4>2. CASE idx = len
        <5>1. ~ (k <= len - 1) /\ ~ (k < len) /\ ~ (k >= len + 1) /\ ~ (k < idx)
          BY <1>2, <3>5, <4>2
        <5>2. use_list_[w][x][k] = IF w = v THEN 1 ELSE 0
          BY <1>2, <2>1, <2>3, <3>2, <3>3, <3>5, <4>2, <5>1 DEF v
        <5> QED
          BY <1>4, <2>3, <3>1, <3>5, <5>1, <5>2
      <4> QED
        BY <1>2, <4>1, <4>2
    <3>6. CASE k > idx /\ k < len
      <4>1. k <= len - 1 /\ k \in 1 .. len - 1 /\ ~ (k < idx) /\ k # idx /\ k + 1 <= len
            /\ ~ (k >= len + 1)
        BY <1>2, <3>0, <3>6
      <4>2. rest[k] = operands_[phi][k + 1]
        BY <1>r, <4>1
      <4> QED
        BY <1>4, <2>1, <2>3, <3>1, <3>2, <3>3, <3>6, <4>1, <4>2
    <3>7. CASE k > idx /\ k >= len
      <4>1. ~ (k <= len - 1) /\ k # idx /\ ~ (k < idx) /\ ~ (k < len) /\ (k >= len + 1 => ~ (k <= len))
        BY <1>2, <3>0, <3>7
      <4> QED
        BY <1>4, <2>1, <2>3, <3>1, <3>2, <3>3, <4>1
    <3> QED
      BY <1>2, <3>0, <3>4, <3>5, <3>6, <3>7
  <2> QED
    BY <2>2, <2>3
<1>7. NoDanglingOperand'
  <2> SUFFICES ASSUME NEW x \in Users, NEW k \in 1 .. Len_(x)'
               PROVE  operands_'[x][k] \in live \cup {nullptr}
    BY <1>1 DEF NoDanglingOperand
  <2>1. CASE x # phi
    BY <1>2, <1>5, <2>1 DEF Data, NoDanglingOperand
  <2>2. CASE x = phi
    <3>0. Len_(x)' = len - 1
      BY <1>5, <2>2
    <3>1. k \in 1 .. len - 1 /\ k \in 1 .. len /\ k + 1 \in 1 .. len
      BY <1>2, <3>0
    <3>2. \A l \in 1 .. len : operands_[phi][l] \in live \cup {nullptr}
      BY <1>2 DEF Data, NoDanglingOperand, len
    <3> QED
      BY <1>5, <1>r, <2>2, <3>1, <3>2
  <2> QED
    BY <2>1, <2>2
<1>8. /\ \A p \in Phis : p # phi => Paired(p)'
      /\ twice => HalfPaired(phi)'
      /\ ~ twice => Paired(phi)'
  <2>1. ASSUME NEW p \in Phis, p # phi
        PROVE  Paired(p)'
    <3>1. Paired(p) /\ p \in Users
      BY <2>1, ValuesAssumption DEF Inv, PairsKept
    <3> QED
      BY <1>5, <2>1, <3>1 DEF Paired
  <2>2. IF twice THEN Paired(phi) ELSE HalfPaired(phi)
    BY <1>1, <1>2 DEF Inv, PairsKept
  <2>3. (len - 1) \in Nat /\ (len - 1) + 1 = len /\ (len - 1) % 2 = 1 - (len % 2)
    <3>1. len - 1 \in Nat /\ (len - 1) + 1 = len
      BY <1>2
    <3>2. len % 2 = 1 - ((len - 1) % 2) /\ (len - 1) % 2 \in {0, 1}
      BY <3>1, Parity
    <3> QED
      BY <3>1, <3>2
  <2>4. \A k \in 1 .. len - 1 :
          /\ k \in Nat /\ k \in 1 .. len /\ k + 1 \in 1 .. len
          /\ k % 2 \in {0, 1} /\ (k + 1) % 2 = 1 - (k % 2)
          /\ k < idx => rest[k] = operands_[phi][k]
          /\ ~ (k < idx) => rest[k] = operands_[phi][k + 1]
    BY <1>2, <1>r, Parity
  <2>5. ASSUME twice
        PROVE  HalfPaired(phi)'
    <3>1. /\ len % 2 = 0
          /\ \A l \in 1 .. len : operands_[phi][l] \in Labels <=> l % 2 = 0
      BY <1>2, <2>2, <2>5, ValuesAssumption DEF Paired, len
    <3>2. \A k \in 1 .. len - 1 : rest[k] \in Labels <=> (k % 2 = IF k < idx THEN 0 ELSE 1)
      BY <2>4, <3>1
    <3>3. phi' = phi /\ idx' = idx /\ operands_'[phi] = rest /\ Len_(phi)' = len - 1
      <4>1. phi' = phi /\ idx' = idx
        BY <1>1
      <4> QED
        BY <1>2, <1>5, <1>r, <4>1 DEF Len_
    <3>4. (len - 1) % 2 = 1
      BY <2>3, <3>1
    <3> QED
      BY <3>2, <3>3, <3>4 DEF HalfPaired
  <2>6. ASSUME ~ twice
        PROVE  Paired(phi)'
    <3>1. /\ len % 2 = 1
          /\ \A l \in 1 .. len : operands_[phi][l] \in Labels <=> (l % 2 = IF l < idx THEN 0 ELSE 1)
      BY <2>2, <2>6 DEF HalfPaired, len
    <3>2. \A k \in 1 .. len - 1 : rest[k] \in Labels <=> k % 2 = 0
      <4> SUFFICES ASSUME NEW k \in 1 .. len - 1 PROVE rest[k] \in Labels <=> k % 2 = 0
        OBVIOUS
      <4>1. CASE k < idx
        BY <2>4, <3>1, <4>1
      <4>2. CASE ~ (k < idx)
        <5>1. ~ (k + 1 < idx)
          BY <1>2, <2>4, <4>2
        <5>2. operands_[phi][k + 1] \in Labels <=> (k + 1) % 2 = 1
          BY <2>4, <3>1, <5>1
        <5> QED
          BY <2>4, <4>2, <5>2
      <4> QED
        BY <4>1, <4>2
    <3> QED
      BY <1>1, <1>5, <2>3, <3>1, <3>2 DEF Paired
  <2> QED
    BY <2>1, <2>5, <2>6
<1>9. \A x \in Users : Len(operands_'[x]) <= MaxOperands
  <2>1. len - 1 <= MaxOperands
    BY <1>2
  <2>2. \A x \in Users : Len_(x) <= MaxOperands
    BY <1>2 DEF Data, Len_
  <2> QED
    BY <1>5, <2>1, <2>2 DEF Len_
<1>10. ControlTypeOK'
  <2>1. twice' \in BOOLEAN
    BY <1>1, Zenon
  <2>2. n \in Nat \ {0}
    BY <1>n
  <2> QED
    BY <1>1, <1>2, <2>1, <2>2 DEF ControlTypeOK
<1>11. Data'
  BY <1>1, <1>2, <1>4, <1>5, <1>7, <1>9 DEF Data
<1>12. CASE ~ twice
  <2>1. pc' = "idle" /\ \A p \in Phis : Paired(p)'
    BY <1>1, <1>8, <1>12
  <2> QED
    BY <1>6, <1>10, <1>11, <2>1, SettledInvNext DEF Settled, ReplaceSound
<1>13. CASE twice
  <2>1. pc' = "shift"
    BY <1>1, <1>13
  <2>2. TypeOK'
    BY <1>10, <1>11 DEF TypeOK, ControlTypeOK, Data, UseLists
  <2>3. PairsKept'
    BY <1>1, <1>8, <1>13, <2>1 DEF PairsKept
  <2>4. UsesCounted'
    <3> DEFINE Now(w, k) == IF k <= Len(operands_'[phi]) /\ operands_'[phi][k] = w THEN 1 ELSE 0
    <3> SUFFICES ASSUME NEW w \in Values, NEW k \in Positions
                 PROVE  Moved(w, k)' = Now(w, k)
      BY <1>1, <1>2, <1>6 DEF UsesCounted, Held, HasOperand, Len_
    <3>1. k \in Nat
      BY DEF Positions
    <3>2. Moved(w, k)' = IF k < idx \/ k >= n THEN Now(w, k)
                         ELSE IF k = idx THEN Now(w, k) + (IF k < n - 1 THEN Now(w, k + 1) ELSE 0)
                         ELSE IF k < n - 1 THEN Now(w, k + 1) ELSE 0
      BY <1>1 DEF Moved, Held, HasOperand, Len_
    <3>3. ~ (k > idx /\ k < n) /\ ~ (idx < n - 1)
      BY <1>2, <1>n, <3>1
    <3>4. Now(w, k) \in {0, 1}
      OBVIOUS
    <3> HIDE DEF Now
    <3>5. CASE k < idx \/ k >= n
      BY <3>2, <3>5
    <3>6. CASE k = idx
      <4>1. ~ (k < idx \/ k >= n) /\ ~ (k < n - 1)
        BY <1>2, <1>n, <3>6
      <4>2. Moved(w, k)' = Now(w, k) + 0
        BY <3>2, <3>6, <4>1
      <4> QED
        BY <3>4, <4>2
    <3> QED
      BY <1>2, <1>n, <3>1, <3>3, <3>5, <3>6
  <2>5. ShiftSound'
    <3>1. idx <= len - 1 /\ idx < n /\ n <= (len - 1) + 1
      <4>1. len % 2 = 0
        BY <1>1, <1>2, <1>13 DEF Inv, PairsKept, Paired, len
      <4>2. idx # len
        BY <1>2, <4>1
      <4> QED
        BY <1>2, <1>n, <4>2
    <3>2. \A l \in 1 .. len - 1 : rest[l] \in Values
      BY <1>r, <1>2
    <3> QED
      BY <1>1, <1>2, <1>5, <3>1, <3>2 DEF ShiftSound
  <2> QED
    BY <1>7, <2>1, <2>2, <2>3, <2>4, <2>5 DEF Inv, ReplaceSound
<1> QED
  BY <1>12, <1>13
-----------------------------------------------------------------------------
LEMMA InvNext == Inv /\ [Next]_vars => Inv'
<1> SUFFICES ASSUME Inv, [Next]_vars PROVE Inv'
  OBVIOUS
<1>1. CASE Client
  BY <1>1, AddOperandInv, AddPairInv, SetOperandInv, RemoveAllInv, StartReplaceInv, DeleteInv,
     StartRemoveInv DEF Client
<1>2. CASE Call
  BY <1>2, ReplaceUseInv, EndReplaceInv, ShiftInv, EndShiftInv DEF Call
<1>3. CASE UNCHANGED vars
  <2>1. CASE pc # "shift"
    BY <1>3, <2>1, InvSettled, InvTypes, SettledSame, SettledInvNext
    DEF vars, callVars, Inv, ControlTypeOK, ReplaceSound
  <2>2. CASE pc = "shift"
    <3>1. /\ live' = live /\ operands_' = operands_ /\ use_list_' = use_list_ /\ pc' = pc
          /\ this' = this /\ new_val' = new_val /\ phi' = phi /\ idx' = idx /\ i' = i
          /\ twice' = twice
      BY <1>3 DEF vars, callVars
    <3>2. /\ \A v, u, l : Held(v, u, l)' = Held(v, u, l)
          /\ \A v, l : Moved(v, l)' = Moved(v, l)
          /\ \A p : Paired(p)' = Paired(p) /\ HalfPaired(p)' = HalfPaired(p)
          /\ \A u : Len_(u)' = Len_(u)
      BY <3>1 DEF Held, HasOperand, Moved, Paired, HalfPaired, Len_
    <3>3. TypeOK' /\ NoDanglingOperand'
      BY <3>1, <3>2 DEF Inv, TypeOK, NoDanglingOperand
    <3>4. UsesCounted' /\ PairsKept'
      BY <3>1, <3>2 DEF Inv, UsesCounted, PairsKept
    <3>5. ShiftSound' /\ ReplaceSound'
      BY <3>1, <3>2 DEF Inv, ShiftSound, ReplaceSound
    <3> QED
      BY <3>3, <3>4, <3>5 DEF Inv
  <2> QED
    BY <2>1, <2>2
<1> QED
  BY <1>1, <1>2, <1>3 DEF Next

LEMMA InvAlways == Spec => []Inv
  BY InvInit, InvNext, PTL DEF Spec

(* The state of users, use lists and the running call keeps its types      *)
(* (User.cpp, Value.cpp).                                                  *)
THEOREM TypeCorrect == Spec => []TypeOK
<1>1. Inv => TypeOK
  BY DEF Inv
<1> QED
  BY <1>1, InvAlways, PTL

(* Between calls a use list holds each use exactly once and no other: what *)
(* replace_all_use_with, the passes' walks over users and deletion rely on.*)
THEOREM UsesMirrorOperandsAlways == Spec => []UsesMirrorOperands
<1>1. Inv => UsesMirrorOperands
  BY DEF Inv, UsesCounted, UsesMirrorOperands, Held
<1> QED
  BY <1>1, InvAlways, PTL

(* Deleting a value in any order leaves no operand that refers to it.      *)
THEOREM NoDanglingOperandAlways == Spec => []NoDanglingOperand
<1>1. Inv => NoDanglingOperand
  BY DEF Inv
<1> QED
  BY <1>1, InvAlways, PTL

(* A phi's operands stay pairs of a value and a block through every call.  *)
THEOREM PhisInPairsAlways == Spec => []PhisInPairs
<1>1. Inv => PhisInPairs
  BY DEF Inv, PairsKept, Paired, PhisInPairs
<1> QED
  BY <1>1, InvAlways, PTL
=============================================================================
