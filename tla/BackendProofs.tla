---------------------------- MODULE BackendProofs ----------------------------
(***************************************************************************)
(* What holds of every compiled function, and for every value: no byte of  *)
(* its frame has two uses, and the assembler can encode every line.        *)
(*                                                                         *)
(* The first invariant orders the slots: each value begins, counted        *)
(* downwards from $fp, where the space of the one before it ends or later, *)
(* and the last space ends at offset.  That is what disjointness rests on, *)
(* and it is lost as soon as one alloca's space is not counted.            *)
(*                                                                         *)
(* The second part is about the lines: FittingInv says how far from $fp a  *)
(* value is, and LabelsInv what the output so far has of labels and jumps. *)
(* A label is a block's, once its first instruction is translated; the     *)
(* comparisons', whose counter is below fcmp_cnt; or the exit's.           *)
(***************************************************************************)
EXTENDS Backend, FiniteSetTheorems, WellFoundedInduction, TLAPS

-----------------------------------------------------------------------------
(***************************************************************************)
(* The layout of one frame: steps of allocate.                             *)
(***************************************************************************)
(* Counted downwards from $fp: where the slot of i begins, and where its   *)
(* space ends.                                                             *)
First(i) == -offset_map[i] - order[i].size
Last(i)  == order[i].space - offset_map[i]

Typed ==
  /\ Measured(order)
  /\ offset_map \in Seq(Int) /\ Len(offset_map) <= Len(order)
  /\ offset \in Nat /\ offset >= 16
  /\ frame_size \in Nat
Layered ==
  /\ \A i \in 1 .. Len(offset_map) : First(i) >= 16 /\ Last(i) <= offset
  /\ \A i, j \in 1 .. Len(offset_map) : i < j => Last(i) <= First(j)
Closed == frame_size # 0 => Len(offset_map) = Len(order) /\ frame_size = ALIGN(offset, 16)

(* The inductive invariant.                                                *)
FrameInv == Typed /\ Layered /\ Closed

(* ALIGN rounds up to a multiple.                                          *)
LEMMA AlignUp ==
  ASSUME NEW x \in Nat
  PROVE  ALIGN(x, 16) \in Nat /\ ALIGN(x, 16) >= x /\ ALIGN(x, 16) % 16 = 0
BY DEF ALIGN

(* What Measured says of one value.                                        *)
LEMMA OneMeasured ==
  ASSUME Measured(order), NEW i \in 1 .. Len(order)
  PROVE  order[i].size \in Nat \ {0} /\ order[i].space \in Nat
BY DEF Measured

(* An empty frame has nothing to overlap.                                  *)
LEMMA BeginInv ==
  ASSUME NEW values, Measured(values), Begin(values)
  PROVE  FrameInv
<1>1. order = values /\ offset_map = << >> /\ offset = 16 /\ frame_size = 0
  BY DEF Begin, PROLOGUE_OFFSET_BASE
<1>2. Len(offset_map) = 0 /\ offset_map \in Seq(Int)
  BY <1>1
<1>3. Len(order) \in Nat
  BY <1>1 DEF Measured
<1>4. Typed
  BY <1>1, <1>2, <1>3 DEF Typed
<1>5. Layered
  BY <1>2 DEF Layered
<1> QED
  BY <1>1, <1>4, <1>5 DEF FrameInv, Closed

(* Placing a value: it begins at the old offset, where all others end.     *)
LEMMA PlaceInv ==
  ASSUME FrameInv, Place
  PROVE  FrameInv'
<1>0. PICK n : n = Len(offset_map) + 1
  OBVIOUS
<1>1. /\ Len(offset_map) \in Nat /\ Len(order) \in Nat
      /\ n \in 1 .. Len(order) /\ order' = order /\ frame_size' = frame_size
  BY <1>0 DEF FrameInv, Typed, Measured, Place
<1>2. PICK size, space : size = order[n].size /\ space = order[n].space
  OBVIOUS
<1>2a. size \in Nat /\ size > 0 /\ space \in Nat
  BY <1>1, <1>2, OneMeasured DEF FrameInv, Typed
<1>3. /\ offset_map' = Append(offset_map, -(offset + size))
      /\ offset' = offset + size + space
  BY <1>0, <1>2 DEF Place, Unplaced
<1>4. offset \in Nat /\ offset_map \in Seq(Int)
  BY DEF FrameInv, Typed
<1>5. /\ offset_map' \in Seq(Int) /\ Len(offset_map') = n
      /\ offset_map'[n] = -(offset + size)
      /\ \A i \in 1 .. Len(offset_map) : offset_map'[i] = offset_map[i]
  BY <1>0, <1>2a, <1>3, <1>4
<1>6. First(n)' = offset /\ Last(n)' = offset'
  <2>1. First(n)' = (offset + size) - size /\ Last(n)' = space + (offset + size)
    <3>1. First(n)' = -offset_map'[n] - size /\ Last(n)' = space - offset_map'[n]
      BY <1>1, <1>2 DEF First, Last
    <3> QED
      BY <1>2a, <1>4, <1>5, <3>1
  <2> QED
    BY <1>2a, <1>3, <1>4, <2>1
<1>7. \A i \in 1 .. Len(offset_map) : First(i)' = First(i) /\ Last(i)' = Last(i)
  BY <1>1, <1>5 DEF First, Last
<1>8. \A i \in 1 .. Len(offset_map)' : i = n \/ i \in 1 .. Len(offset_map)
  BY <1>0, <1>1, <1>5
<1>9. offset' \in Nat /\ offset <= offset' /\ offset >= 16
  <2>1. offset >= 16
    BY DEF FrameInv, Typed
  <2> QED
    BY <1>2a, <1>3, <1>4, <2>1
<1>10. \A i \in 1 .. Len(offset_map) : First(i) \in Int /\ Last(i) \in Int
  <2> TAKE i \in 1 .. Len(offset_map)
  <2>1. i \in 1 .. Len(order) /\ offset_map[i] \in Int
    BY <1>0, <1>1, <1>4
  <2>2. order[i].size \in Nat /\ order[i].space \in Nat
    BY <2>1, OneMeasured DEF FrameInv, Typed
  <2> QED
    BY <2>1, <2>2 DEF First, Last
<1>11. Typed'
  BY <1>1, <1>5, <1>9 DEF FrameInv, Typed, Measured
<1>12. \A i \in 1 .. Len(offset_map)' : First(i)' >= 16 /\ Last(i)' <= offset'
  <2> TAKE i \in 1 .. Len(offset_map)'
  <2>1. CASE i = n
    BY <1>6, <1>9, <2>1
  <2>2. CASE i \in 1 .. Len(offset_map)
    <3>1. First(i) >= 16 /\ Last(i) <= offset
      BY <2>2 DEF FrameInv, Layered
    <3> QED
      BY <1>4, <1>7, <1>9, <1>10, <2>2, <3>1
  <2> QED
    BY <1>8, <2>1, <2>2
<1>13. \A i, j \in 1 .. Len(offset_map)' : i < j => Last(i)' <= First(j)'
  <2> TAKE i, j \in 1 .. Len(offset_map)'
  <2> HAVE i < j
  <2>1. i \in 1 .. Len(offset_map)
    BY <1>0, <1>1, <1>5
  <2>2. CASE j = n
    <3>1. Last(i) <= offset
      BY <2>1 DEF FrameInv, Layered
    <3> QED
      BY <1>6, <1>7, <2>1, <2>2, <3>1
  <2>3. CASE j \in 1 .. Len(offset_map)
    <3>1. Last(i) <= First(j)
      BY <2>1, <2>3 DEF FrameInv, Layered
    <3> QED
      BY <1>7, <2>1, <2>3, <3>1
  <2> QED
    BY <1>8, <2>2, <2>3
<1>14. Closed'
  <2>1. Len(offset_map) # Len(order)
    BY <1>0, <1>1
  <2> QED
    BY <1>1, <2>1 DEF FrameInv, Closed
<1> QED
  BY <1>11, <1>12, <1>13, <1>14 DEF FrameInv, Layered

(* Completing the frame: its size is offset, rounded up.                   *)
LEMMA CompleteInv ==
  ASSUME FrameInv, Complete
  PROVE  FrameInv'
<1>1. UNCHANGED <<order, offset_map, offset>>
  BY DEF Complete
<1>2. frame_size' = ALIGN(offset, 16) /\ Len(offset_map) = Len(order)
  BY DEF Complete, PROLOGUE_ALIGN
<1>3. frame_size' \in Nat
  BY <1>2, AlignUp DEF FrameInv, Typed
<1>4. Typed' /\ Layered'
  BY <1>1, <1>3 DEF FrameInv, Typed, Layered, First, Last
<1>5. Closed'
  BY <1>1, <1>2 DEF Closed, ALIGN
<1> QED
  BY <1>4, <1>5 DEF FrameInv

(* Steps that leave the frame alone, and the two that build it.            *)
LEMMA StepInv ==
  ASSUME FrameInv, [allocate]_frame
  PROVE  FrameInv'
<1>1. CASE Place
  BY <1>1, PlaceInv
<1>2. CASE Complete
  BY <1>2, CompleteInv
<1>3. CASE UNCHANGED frame
  BY <1>3 DEF frame, FrameInv, Typed, Layered, Closed, First, Last, ALIGN, Measured
<1> QED
  BY <1>1, <1>2, <1>3 DEF allocate

(* The invariant says that no byte has two uses.                           *)
LEMMA InvDisjoint ==
  ASSUME FrameInv
  PROVE  SlotsDisjoint
<1>1. /\ Len(offset_map) \in Nat /\ Len(order) \in Nat /\ offset \in Nat
      /\ Len(offset_map) <= Len(order) /\ DOMAIN offset_map = 1 .. Len(offset_map)
  BY DEF FrameInv, Typed, Measured
<1>2. \A i \in DOMAIN offset_map :
        /\ offset_map[i] \in Int
        /\ order[i].size \in Nat \ {0} /\ order[i].space \in Nat
  BY <1>1, OneMeasured DEF FrameInv, Typed
<1>3. \A i \in DOMAIN offset_map : \A b \in Bytes(i) :
        b \in Int /\ -Last(i) <= b /\ b < -First(i)
  BY <1>2 DEF Bytes, First, Last
<1>4. \A i \in DOMAIN offset_map : First(i) \in Int /\ Last(i) \in Int
  BY <1>2 DEF First, Last
<1>5. \A i, j \in DOMAIN offset_map : i < j => Bytes(i) \cap Bytes(j) = {}
  <2> SUFFICES ASSUME NEW i \in DOMAIN offset_map, NEW j \in DOMAIN offset_map, i < j,
                      NEW b \in Bytes(i), b \in Bytes(j)
               PROVE  FALSE
    OBVIOUS
  <2>1. Last(i) <= First(j)
    BY <1>1 DEF FrameInv, Layered
  <2>2. b \in Int /\ b >= -Last(i) /\ b < -First(j)
    BY <1>3
  <2> QED
    BY <1>4, <2>1, <2>2
<1>6. \A i, j \in DOMAIN offset_map : i # j => Bytes(i) \cap Bytes(j) = {}
  <2> TAKE i, j \in DOMAIN offset_map
  <2> HAVE i # j
  <2>1. i < j \/ j < i
    BY <1>1
  <2> QED
    BY <1>5, <2>1
<1>7. \A i \in DOMAIN offset_map : Bytes(i) \cap SaveArea = {}
  <2> SUFFICES ASSUME NEW i \in DOMAIN offset_map, NEW b \in Bytes(i), b \in SaveArea
               PROVE  FALSE
    OBVIOUS
  <2>1. First(i) >= 16
    BY <1>1 DEF FrameInv, Layered
  <2>2. b \in Int /\ b < -First(i) /\ b >= -16
    BY <1>3 DEF SaveArea, PROLOGUE_OFFSET_BASE
  <2> QED
    BY <1>4, <2>1, <2>2
<1>8. ASSUME frame_size # 0
      PROVE  /\ frame_size % PROLOGUE_ALIGN = 0
             /\ \A i \in DOMAIN offset_map : Bytes(i) \subseteq -frame_size .. -1
  <2>1. frame_size = ALIGN(offset, 16)
    BY <1>8 DEF FrameInv, Closed
  <2>2. frame_size \in Nat /\ frame_size >= offset /\ frame_size % 16 = 0
    BY <1>1, <2>1, AlignUp
  <2>3. ASSUME NEW i \in DOMAIN offset_map, NEW b \in Bytes(i)
        PROVE  b \in -frame_size .. -1
    <3>1. First(i) >= 16 /\ Last(i) <= offset
      BY <1>1 DEF FrameInv, Layered
    <3>2. b \in Int /\ b >= -Last(i) /\ b < -First(i)
      BY <1>3
    <3> QED
      BY <1>1, <1>4, <2>2, <3>1, <3>2
  <2> QED
    BY <2>2, <2>3 DEF PROLOGUE_ALIGN
<1> QED
  BY <1>6, <1>7, <1>8 DEF SlotsDisjoint
-----------------------------------------------------------------------------
(***************************************************************************)
(* Neither the translation nor the execution changes the layout.           *)
(***************************************************************************)
(* Only Allocate touches the frame, with a step of allocate.               *)
LEMMA GenerateFrame ==
  ASSUME Generate
  PROVE  [allocate]_frame
<1>1. CASE Allocate
  BY <1>1 DEF Allocate
<1>2. ASSUME NEW code, Emit(code)
      PROVE  UNCHANGED frame
  BY <1>2 DEF Emit
<1>3. CASE gen_prologue \/ gen_epilogue
  BY <1>3 DEF gen_prologue, gen_epilogue
<1>4. CASE gen_ret \/ gen_br \/ gen_binary \/ gen_float_binary
  BY <1>2, <1>4 DEF gen_ret, gen_br, gen_binary, gen_float_binary
<1>5. CASE gen_alloca \/ gen_load \/ gen_store
  BY <1>2, <1>5 DEF gen_alloca, gen_load, gen_store
<1>6. CASE gen_icmp \/ gen_fcmp \/ gen_zext
  BY <1>2, <1>6 DEF gen_icmp, gen_fcmp, gen_zext
<1>7. CASE gen_call \/ gen_gep \/ gen_sitofp \/ gen_fptosi
  BY <1>2, <1>7 DEF gen_call, gen_gep, gen_sitofp, gen_fptosi
<1> QED
  BY <1>1, <1>3, <1>4, <1>5, <1>6, <1>7 DEF Generate

LEMMA NextFrame ==
  ASSUME [Next]_vars
  PROVE  [allocate]_frame
<1>1. CASE Compile
  BY <1>1, GenerateFrame DEF Compile
<1>2. CASE Execute \/ Finished \/ UNCHANGED vars
  BY <1>2 DEF Execute, Finished, vars, codegen
<1> QED
  BY <1>1, <1>2 DEF Next

-----------------------------------------------------------------------------
(***************************************************************************)
(* Powers of two.  Induction over numbers is by the least counterexample.  *)
(***************************************************************************)
LEMMA LeastNatural ==
  ASSUME NEW T \in SUBSET Nat, T # {}
  PROVE  \E n \in T : \A m \in T : n <= m
<1> DEFINE R == OpToRel(<, Nat)
<1>1. \A x, y \in Nat : <<x, y>> \in R <=> x < y
  BY DEF OpToRel
<1>2. PICK n \in T : \A m \in T : ~ (<<m, n>> \in R)
  BY NatLessThanWellFounded, WFMin
<1> HIDE DEF R
<1>3. ASSUME NEW m \in T PROVE n <= m
  <2>1. m \in Nat /\ n \in Nat
    OBVIOUS
  <2>2. ~ (m < n)
    BY <1>1, <1>2, <2>1
  <2> QED BY <2>1, <2>2
<1> QED BY <1>3

(* A table of numbers each twice the one before it.                        *)
LEMMA Doubling ==
  ASSUME NEW p, NEW last \in Nat, p[0] = 1, \A n \in 0 .. last : p[n + 1] = 2 * p[n]
  PROVE  /\ \A n \in 0 .. last : p[n] \in Nat \ {0}
         /\ \A n \in 4 .. last : p[n] >= 16
         /\ \A n, k \in 0 .. last : n + k <= last => p[n + k] = p[n] * p[k]
<1>1. \A n \in 0 .. last : p[n] \in Nat \ {0}
  <2> DEFINE Bad == {n \in Nat : n <= last /\ p[n] \notin Nat \ {0}}
  <2>1. Bad = {}
    <3> SUFFICES ASSUME Bad # {} PROVE FALSE
      OBVIOUS
    <3>1. PICK n \in Bad : \A m \in Bad : n <= m
      BY LeastNatural
    <3>2. n # 0
      BY <3>1
    <3>3. n - 1 \in Nat /\ n - 1 <= last /\ n - 1 \notin Bad /\ n = (n - 1) + 1
      BY <3>1, <3>2
    <3>4. p[n - 1] \in Nat \ {0} /\ p[n] = 2 * p[n - 1]
      BY <3>3
    <3> QED BY <3>1, <3>4
  <2> QED BY <2>1
<1>2. \A n \in 4 .. last : p[n] >= 16
  <2> DEFINE Bad == {n \in Nat : 4 <= n /\ n <= last /\ ~ p[n] >= 16}
  <2>1. Bad = {}
    <3> SUFFICES ASSUME Bad # {} PROVE FALSE
      OBVIOUS
    <3>1. PICK n \in Bad : \A m \in Bad : n <= m
      BY LeastNatural
    <3>2. CASE n = 4
      <4>1. p[0 + 1] = 2 * p[0] /\ p[1 + 1] = 2 * p[1] /\ p[2 + 1] = 2 * p[2] /\ p[3 + 1] = 2 * p[3]
        BY <3>1, <3>2
      <4> QED BY <3>1, <3>2, <4>1
    <3>3. CASE n # 4
      <4>1. /\ n - 1 \in Nat /\ 4 <= n - 1 /\ n - 1 <= last /\ n - 1 \notin Bad /\ n = (n - 1) + 1
            /\ n - 1 \in 0 .. last
        BY <3>1, <3>3
      <4>2. p[n - 1] >= 16 /\ p[n] = 2 * p[n - 1] /\ p[n - 1] \in Nat
        BY <1>1, <4>1
      <4> QED BY <3>1, <4>2
    <3> QED BY <3>2, <3>3
  <2> QED BY <2>1
<1>3. ASSUME NEW n \in 0 .. last
      PROVE  \A k \in 0 .. last : n + k <= last => p[n + k] = p[n] * p[k]
  <2> DEFINE Bad == {k \in Nat : n + k <= last /\ p[n + k] # p[n] * p[k]}
  <2>1. Bad = {}
    <3> SUFFICES ASSUME Bad # {} PROVE FALSE
      OBVIOUS
    <3>1. PICK k \in Bad : \A m \in Bad : k <= m
      BY LeastNatural
    <3>2. k # 0
      BY <1>1, <3>1
    <3>3. k - 1 \in Nat /\ n + (k - 1) <= last /\ k - 1 \notin Bad /\ k = (k - 1) + 1
          /\ k - 1 \in 0 .. last /\ n + (k - 1) \in 0 .. last /\ n + k = (n + (k - 1)) + 1
      BY <3>1, <3>2
    <3>4. p[n + (k - 1)] = p[n] * p[k - 1]
      BY <3>3
    <3>5. p[n + k] = 2 * p[n + (k - 1)] /\ p[k] = 2 * p[k - 1]
      BY <3>3
    <3>6. p[n] \in Nat /\ p[k - 1] \in Nat
      BY <1>1, <3>3
    <3>7. \A x, y \in Nat : 2 * (x * y) = x * (2 * y)
      OBVIOUS
    <3> QED BY <3>1, <3>4, <3>5, <3>6, <3>7
  <2>2. \A k \in 0 .. last : k \in Nat
    OBVIOUS
  <2>3. ASSUME NEW k \in 0 .. last, n + k <= last PROVE p[n + k] = p[n] * p[k]
    BY <2>1, <2>2, <2>3
  <2> QED BY <2>3
<1> QED BY <1>1, <1>2, <1>3

(* The ranges of the immediates, and of a word.                            *)
LEMMA Ranges ==
  /\ 2 ^ (LO - 1) \in Nat /\ 2 ^ (LO - 1) >= 16 /\ 2 ^ LO = 2 * 2 ^ (LO - 1) /\ 2 ^ LO \in Nat
  /\ 2 ^ (HI - 1) \in Nat \ {0} /\ 2 ^ HI = 2 * 2 ^ (HI - 1) /\ 2 ^ HI \in Nat
  /\ 2 ^ (WordBits - 1) = 2 ^ LO * 2 ^ (HI - 1) /\ 2 ^ WordBits = 2 * 2 ^ (WordBits - 1)
  /\ 2 ^ (WordBits - 1) \in Nat /\ 2 ^ WordBits \in Nat /\ 2 ^ (WordBits - 1) >= 32
<1> DEFINE p == [n \in 0 .. DoubleBits + 1 |-> 2 ^ n]
<1>1. /\ LO \in Nat /\ LO >= 5 /\ HI \in Nat \ {0} /\ WordBits = LO + HI /\ DoubleBits = 2 * (LO + HI)
  BY WidthAssumption, WidthsFit DEF WordBits, DoubleBits
<1>2. /\ \A n \in 0 .. DoubleBits : n \in 0 .. DoubleBits + 1 /\ n + 1 \in 0 .. DoubleBits + 1
      /\ 0 \in 0 .. DoubleBits + 1 /\ DoubleBits \in Nat
  BY <1>1
<1>3. p[0] = 1 /\ \A n \in 0 .. DoubleBits : p[n + 1] = 2 * p[n]
  BY <1>2, WidthsFit
<1>4. /\ 2 ^ (LO - 1) = p[LO - 1] /\ 2 ^ LO = p[LO] /\ 2 ^ (HI - 1) = p[HI - 1] /\ 2 ^ HI = p[HI]
      /\ 2 ^ (WordBits - 1) = p[WordBits - 1] /\ 2 ^ WordBits = p[WordBits]
  BY <1>1
<1> HIDE DEF p
<1>5. /\ p[LO - 1] \in Nat /\ p[LO - 1] >= 16 /\ p[LO] = 2 * p[LO - 1] /\ p[LO] \in Nat
      /\ p[HI - 1] \in Nat \ {0} /\ p[HI] = 2 * p[HI - 1] /\ p[HI] \in Nat
      /\ p[WordBits - 1] = p[LO] * p[HI - 1] /\ p[WordBits] = 2 * p[WordBits - 1]
      /\ p[WordBits - 1] \in Nat /\ p[WordBits] \in Nat
  <2>1. /\ \A n \in 0 .. DoubleBits : p[n] \in Nat \ {0}
        /\ \A n \in 4 .. DoubleBits : p[n] >= 16
        /\ \A n, k \in 0 .. DoubleBits : n + k <= DoubleBits => p[n + k] = p[n] * p[k]
    BY <1>2, <1>3, Doubling
  <2>2. /\ LO - 1 \in 4 .. DoubleBits
        /\ LO - 1 \in 0 .. DoubleBits /\ HI - 1 \in 0 .. DoubleBits /\ WordBits - 1 \in 0 .. DoubleBits
        /\ LO \in 0 .. DoubleBits /\ HI \in 0 .. DoubleBits /\ WordBits \in 0 .. DoubleBits
        /\ (LO - 1) + 1 = LO /\ (HI - 1) + 1 = HI /\ (WordBits - 1) + 1 = WordBits
        /\ LO + (HI - 1) = WordBits - 1 /\ LO + (HI - 1) <= DoubleBits
    BY <1>1
  <2>3. p[LO] = 2 * p[LO - 1] /\ p[HI] = 2 * p[HI - 1] /\ p[WordBits] = 2 * p[WordBits - 1]
    BY <1>3, <2>2
  <2>4. p[WordBits - 1] = p[LO] * p[HI - 1]
    BY <2>1, <2>2
  <2> QED BY <2>1, <2>2, <2>3, <2>4
<1>6. \A x, y \in Nat : y # 0 /\ x >= 32 => x * y >= 32
  <2> TAKE x, y \in Nat
  <2> HAVE y # 0 /\ x >= 32
  <2>1. x * y = x + x * (y - 1) /\ x * (y - 1) \in Nat
    <3>1. y - 1 \in Nat
      OBVIOUS
    <3>2. \A z \in Nat : x * (z + 1) = x + x * z /\ x * z \in Nat
      OBVIOUS
    <3> QED BY <3>1, <3>2
  <2> QED BY <2>1
<1>7. p[WordBits - 1] >= 32
  BY <1>5, <1>6
<1> QED BY <1>4, <1>5, <1>7

LEMMA SmallImm == \A n \in -16 .. 15 : n \in Int /\ IS_IMM_12(n)
BY Ranges DEF IS_IMM_12, IMM_12_MAX, IMM_12_MIN

(* Taking the low bits twice is taking them once.                          *)
LEMMA SignedFits ==
  ASSUME NEW n \in Int, NEW p \in Nat \ {0}, NEW bits, 2 ^ (bits - 1) = p, 2 ^ bits = 2 * p
  PROVE  /\ Signed(n, bits) \in -p .. p - 1
         /\ n \in -p .. p - 1 => Signed(n, bits) = n
<1>1. Signed(n, bits) = ((n + p) % (2 * p)) - p
  BY DEF Signed
<1>2. (n + p) % (2 * p) \in 0 .. 2 * p - 1
  <2>1. \A x \in Int, q \in Nat \ {0} : x % q \in 0 .. q - 1
    OBVIOUS
  <2>2. n + p \in Int /\ 2 * p \in Nat \ {0}
    OBVIOUS
  <2> QED BY ONLY <2>1, <2>2
<1>3. n \in -p .. p - 1 => (n + p) % (2 * p) = n + p
  <2>1. \A x \in Nat, q \in Nat \ {0} : x < q => x % q = x
    OBVIOUS
  <2>2. n \in -p .. p - 1 => n + p \in Nat /\ n + p < 2 * p
    OBVIOUS
  <2> QED BY <2>1, <2>2
<1> QED BY <1>1, <1>2, <1>3

(* The quotient of a product's range.                                      *)
LEMMA QuotientFits ==
  ASSUME NEW p \in Nat \ {0}, NEW q \in Nat \ {0}, NEW x \in Int, -(p * q) <= x, x < p * q
  PROVE  x \div p \in -q .. q - 1
<1> DEFINE d == x \div p
<1>1. d \in Int /\ p * d <= x /\ x < p * d + p
  <2>1. \A u \in Int, v \in Nat \ {0} : u \div v \in Int /\ v * (u \div v) <= u /\ u < v * (u \div v) + v
    OBVIOUS
  <2> QED BY <2>1
<1> HIDE DEF d
<1>2. \A u, v \in Int : u <= v => p * u <= p * v
  <2> TAKE u, v \in Int
  <2> HAVE u <= v
  <2>1. v - u \in Nat /\ p * (v - u) \in Nat /\ p * v = p * u + p * (v - u)
    <3>1. \A w \in Nat : p * w \in Nat /\ p * (u + w) = p * u + p * w
      OBVIOUS
    <3>2. v - u \in Nat /\ v = u + (v - u)
      OBVIOUS
    <3> QED BY <3>1, <3>2
  <2>2. p * u \in Int /\ p * v \in Int
    OBVIOUS
  <2> QED BY <2>1, <2>2
<1>3. p * q \in Nat /\ p * d \in Int
  BY <1>1
<1>4. d < q
  <2>1. q <= d => p * q <= p * d
    BY <1>1, <1>2
  <2> QED BY <1>1, <1>3, <2>1
<1>5. -q <= d
  <2>1. d <= -q - 1 => p * d <= p * (-q - 1)
    BY <1>1, <1>2
  <2>2. p * (-q - 1) = -(p * q) - p
    OBVIOUS
  <2> QED BY <1>1, <1>3, <2>1, <2>2
<1> QED BY <1>1, <1>4, <1>5 DEF d

(* A word is loaded in two parts, a double word in four.                   *)
LEMMA WordParts ==
  ASSUME NEW val \in Int, InWord(val)
  PROVE  val \div 2 ^ LO = Signed(val \div 2 ^ LO, HI) /\ val % 2 ^ LO \in 0 .. 2 ^ LO - 1
<1>1. val \div 2 ^ LO \in -(2 ^ (HI - 1)) .. 2 ^ (HI - 1) - 1
  <2>1. -(2 ^ LO * 2 ^ (HI - 1)) <= val /\ val < 2 ^ LO * 2 ^ (HI - 1) /\ 2 ^ LO \in Nat \ {0}
    BY Ranges DEF InWord
  <2> QED BY <2>1, Ranges, QuotientFits
<1>2. val % 2 ^ LO \in 0 .. 2 ^ LO - 1
  <2>1. \A x \in Int, q \in Nat \ {0} : x % q \in 0 .. q - 1
    OBVIOUS
  <2>2. 2 ^ LO \in Nat \ {0}
    BY Ranges
  <2> QED BY <2>1, <2>2
<1> QED BY <1>1, <1>2, Ranges, SignedFits

LEMMA WordWithin == \A n \in Int : Word(n) \in Int /\ InWord(Word(n)) /\ (InWord(n) => Word(n) = n)
BY Ranges, SignedFits DEF Word, InWord

LEMMA DoubleParts ==
  ASSUME NEW val \in Int, -(2 ^ WordBits) <= val, val < 2 ^ WordBits
  PROVE  LET high == Word(val \div 2 ^ WordBits)
         IN  Signed(high, HI) = Signed(Signed(high, HI), HI) /\ IS_IMM_12(high \div 2 ^ HI)
<1> DEFINE high == Word(val \div 2 ^ WordBits)
<1>1. val \div 2 ^ WordBits \in -1 .. 0
  <2>1. 2 ^ WordBits \in Nat \ {0} /\ 1 \in Nat \ {0} /\ 2 ^ WordBits * 1 = 2 ^ WordBits
    BY Ranges
  <2>2. val \div 2 ^ WordBits \in -1 .. 1 - 1
    BY <2>1, QuotientFits
  <2> QED BY <2>2
<1>2. high \in -1 .. 0
  BY <1>1, WordWithin, Ranges DEF InWord
<1> HIDE DEF high
<1>3. high \div 2 ^ HI \in -1 .. 0
  <2>1. \A c \in Nat \ {0} : 0 \div c = 0 /\ (-1) \div c = -1
    <3> TAKE c \in Nat \ {0}
    <3>1. 0 \div c = 0
      OBVIOUS
    <3>2. (-1) \div c \in Int /\ c * ((-1) \div c) <= -1 /\ -1 < c * ((-1) \div c) + c
      OBVIOUS
    <3>3. \A d \in Int : c * d <= -1 /\ -1 < c * d + c => d = -1
      <4> TAKE d \in Int
      <4>1. d >= 0 => c * d >= 0
        OBVIOUS
      <4>2. d <= -2 => c * d + c <= -1
        <5>1. d <= -2 => -d - 1 \in Nat \ {0} /\ c * (-d - 1) \in Nat \ {0} /\ c * d + c = -(c * (-d - 1))
          OBVIOUS
        <5> QED BY <5>1
      <4> QED BY <4>1, <4>2
    <3> QED BY <3>1, <3>2, <3>3
  <2>2. 2 ^ HI \in Nat \ {0}
    BY Ranges
  <2> QED BY <1>2, <2>1, <2>2
<1>4. Signed(high, HI) = Signed(Signed(high, HI), HI)
  <2>1. Signed(high, HI) \in -(2 ^ (HI - 1)) .. 2 ^ (HI - 1) - 1
    BY <1>2, Ranges, SignedFits
  <2>2. Signed(high, HI) \in Int
    BY <2>1, Ranges
  <2> QED BY <2>1, <2>2, Ranges, SignedFits
<1> QED BY <1>3, <1>4, SmallImm DEF high

-----------------------------------------------------------------------------
(***************************************************************************)
(* Sequences and what they are made of.                                    *)
(***************************************************************************)
Elements(s) == {s[i] : i \in DOMAIN s}

LEMMA Concatenated ==
  ASSUME NEW s, NEW t, IsSeq(s), IsSeq(t)
  PROVE  /\ IsSeq(s \o t) /\ Len(s) \in Nat /\ Len(t) \in Nat
         /\ DOMAIN s = 1 .. Len(s) /\ DOMAIN t = 1 .. Len(t)
         /\ DOMAIN (s \o t) = 1 .. Len(s) + Len(t)
         /\ \A i \in 1 .. Len(s) : (s \o t)[i] = s[i]
         /\ \A i \in 1 .. Len(t) : (s \o t)[Len(s) + i] = t[i]
         /\ \A i \in 1 .. Len(s) + Len(t) : i \in 1 .. Len(s) \/ \E j \in 1 .. Len(t) : i = Len(s) + j
<1> DEFINE S == {s[k] : k \in DOMAIN s} \cup {t[k] : k \in DOMAIN t}
<1>1. s \in Seq(S) /\ t \in Seq(S)
  <2>1. s \in [1 .. Len(s) -> S] /\ Len(s) \in Nat
    BY DEF IsSeq
  <2>2. t \in [1 .. Len(t) -> S] /\ Len(t) \in Nat
    BY DEF IsSeq
  <2> QED BY <2>1, <2>2
<1> DEFINE c == s \o t
<1> HIDE DEF S
<1>2. /\ c \in Seq(S) /\ Len(c) = Len(s) + Len(t) /\ DOMAIN c = 1 .. Len(c)
      /\ Len(s) \in Nat /\ Len(t) \in Nat /\ DOMAIN s = 1 .. Len(s) /\ DOMAIN t = 1 .. Len(t)
  BY <1>1
<1>3. \A i \in 1 .. Len(s) : c[i] = s[i]
  BY <1>1, <1>2
<1>4. \A i \in 1 .. Len(t) : c[Len(s) + i] = t[i]
  BY <1>1, <1>2
<1>5. IsSeq(c)
  <2> DEFINE T == {c[k] : k \in DOMAIN c}
  <2> HIDE DEF c
  <2>1. PICK l \in Nat : l = Len(c)
    BY <1>2
  <2>2. c = [k \in 1 .. l |-> c[k]] /\ \A k \in 1 .. l : c[k] \in T
    BY <1>2, <2>1
  <2> HIDE DEF T
  <2>3. c \in Seq(T)
    BY <2>2
  <2> QED BY <2>3 DEF IsSeq, T
<1>6. \A i \in 1 .. Len(s) + Len(t) : i \in 1 .. Len(s) \/ \E j \in 1 .. Len(t) : i = Len(s) + j
  <2> TAKE i \in 1 .. Len(s) + Len(t)
  <2>1. CASE i > Len(s)
    <3>1. i - Len(s) \in 1 .. Len(t) /\ i = Len(s) + (i - Len(s))
      BY <1>2, <2>1
    <3> QED BY <3>1
  <2>2. CASE ~ i > Len(s)
    BY <1>2, <2>2
  <2> QED BY <2>1, <2>2
<1> QED BY <1>2, <1>3, <1>4, <1>5, <1>6

LEMMA ElementsJoined ==
  ASSUME NEW s, NEW t, IsSeq(s), IsSeq(t)
  PROVE  IsSeq(s \o t) /\ Elements(s \o t) = Elements(s) \cup Elements(t)
<1> DEFINE c == s \o t
           n == Len(s)
           m == Len(t)
<1>1. /\ IsSeq(c) /\ n \in Nat /\ m \in Nat
      /\ DOMAIN s = 1 .. n /\ DOMAIN t = 1 .. m /\ DOMAIN c = 1 .. n + m
      /\ \A i \in 1 .. n : c[i] = s[i]
      /\ \A i \in 1 .. m : c[n + i] = t[i]
      /\ \A i \in 1 .. n + m : i \in 1 .. n \/ \E j \in 1 .. m : i = n + j
  BY Concatenated
<1>2. /\ \A i \in 1 .. n : i \in 1 .. n + m
      /\ \A i \in 1 .. m : n + i \in 1 .. n + m
  BY <1>1
<1> HIDE DEF c, n, m
<1>3. ASSUME NEW x \in Elements(c) PROVE x \in Elements(s) \cup Elements(t)
  <2>1. PICK i \in 1 .. n + m : x = c[i]
    BY <1>1 DEF Elements
  <2>2. CASE i \in 1 .. n
    BY <1>1, <2>1, <2>2 DEF Elements
  <2>3. ASSUME NEW j \in 1 .. m, i = n + j PROVE x \in Elements(t)
    BY <1>1, <2>1, <2>3 DEF Elements
  <2> QED BY <1>1, <2>2, <2>3
<1>4. ASSUME NEW x \in Elements(s) PROVE x \in Elements(c)
  <2>1. PICK i \in 1 .. n : x = s[i]
    BY <1>1 DEF Elements
  <2>2. i \in DOMAIN c /\ c[i] = x
    BY <1>1, <1>2, <2>1
  <2> QED BY <2>2 DEF Elements
<1>5. ASSUME NEW x \in Elements(t) PROVE x \in Elements(c)
  <2>1. PICK i \in 1 .. m : x = t[i]
    BY <1>1 DEF Elements
  <2>2. n + i \in DOMAIN c /\ c[n + i] = x
    BY <1>1, <1>2, <2>1
  <2> QED BY <2>2 DEF Elements
<1> QED BY <1>1, <1>3, <1>4, <1>5 DEF c

(* A concatenation of sequences has the elements of each.                  *)
LEMMA ConcatElements ==
  ASSUME NEW codes, NEW n \in Nat, DOMAIN codes = 1 .. n, Len(codes) = n,
         \A k \in 1 .. n : IsSeq(codes[k])
  PROVE  IsSeq(Concat(codes)) /\ Elements(Concat(codes)) = UNION {Elements(codes[k]) : k \in 1 .. n}
<1> DEFINE Body(F, m) == [k \in 0 .. m |-> IF k = 0 THEN << >> ELSE F[k - 1] \o codes[k]]
           Bad == {m \in Nat : ~ \E F : F = Body(F, m)}
<1>1. n \notin Bad
  <2> SUFFICES ASSUME Bad # {} PROVE FALSE
    OBVIOUS
  <2>1. PICK m \in Bad : \A l \in Bad : m <= l
    BY LeastNatural
  <2>2. m # 0
    <3>1. [k \in 0 .. 0 |-> << >>] = Body([k \in 0 .. 0 |-> << >>], 0)
      OBVIOUS
    <3> QED BY <2>1, <3>1
  <2>3. m - 1 \in Nat /\ m - 1 \notin Bad
    <3>1. m \in Nat
      BY <2>1
    <3> HIDE DEF Bad
    <3> QED BY <2>1, <2>2, <3>1
  <2>4. PICK F : F = Body(F, m - 1)
    BY <2>3
  <2> DEFINE G == [k \in 0 .. m |-> IF k < m THEN F[k] ELSE F[m - 1] \o codes[m]]
  <2>5. \A k \in 0 .. m : G[k] = Body(G, m)[k]
    <3>1. \A k \in 0 .. m - 1 : F[k] = IF k = 0 THEN << >> ELSE F[k - 1] \o codes[k]
      BY <2>4
    <3> SUFFICES ASSUME NEW k \in 0 .. m PROVE G[k] = Body(G, m)[k]
      OBVIOUS
    <3>2. CASE k = m
      <4>1. m \in Nat /\ m - 1 \in 0 .. m /\ m - 1 < m /\ m \in 0 .. m /\ ~ m < m
        BY <2>2, <2>3
      <4>2. G[m] = F[m - 1] \o codes[m] /\ G[m - 1] = F[m - 1]
        BY <4>1
      <4> HIDE DEF G
      <4> QED BY <2>2, <3>2, <4>1, <4>2
    <3>3. CASE k \in 0 .. m - 1
      <4>1. k # 0 => k - 1 \in 0 .. m - 1
        BY <3>3
      <4> QED BY <2>3, <3>1, <3>3, <4>1
    <3> QED BY <2>3, <3>2, <3>3
  <2>6. G = Body(G, m)
    BY <2>5
  <2> QED BY <2>1, <2>6
<1>2. \E F : F = Body(F, n)
  BY <1>1
<1> DEFINE H == CHOOSE F : F = Body(F, n)
<1>3. Concat(codes) = H[n]
  BY DEF Concat
<1>4. H = Body(H, n)
  BY <1>2
<1> HIDE DEF H
<1>5. \A k \in 0 .. n : H[k] = IF k = 0 THEN << >> ELSE H[k - 1] \o codes[k]
  BY <1>4
<1> DEFINE Upto(m) == UNION {Elements(codes[k]) : k \in 1 .. m}
           Wrong == {m \in Nat : m <= n /\ ~ (IsSeq(H[m]) /\ Elements(H[m]) = Upto(m))}
<1>6. Wrong = {}
  <2> SUFFICES ASSUME Wrong # {} PROVE FALSE
    OBVIOUS
  <2>1. PICK m \in Wrong : \A l \in Wrong : m <= l
    BY LeastNatural
  <2>2. CASE m = 0
    <3>1. IsSeq(<< >>) /\ Elements(<< >>) = {}
      BY DEF IsSeq, Elements
    <3>2. H[0] = << >>
      BY <1>5
    <3>3. Upto(0) = {}
      OBVIOUS
    <3> QED BY <2>1, <2>2, <3>1, <3>2, <3>3
  <2>3. CASE m # 0
    <3>1. m - 1 \in Nat /\ m - 1 <= n /\ m - 1 \notin Wrong /\ m \in 0 .. n /\ m \in 1 .. n
      BY <2>1, <2>3
    <3>2. IsSeq(H[m - 1]) /\ Elements(H[m - 1]) = Upto(m - 1) /\ IsSeq(codes[m])
      BY <3>1
    <3>3. H[m] = H[m - 1] \o codes[m]
      BY <1>5, <2>3, <3>1
    <3>4. IsSeq(H[m]) /\ Elements(H[m]) = Upto(m - 1) \cup Elements(codes[m])
      BY <3>2, <3>3, ElementsJoined
    <3>5. Upto(m) = Upto(m - 1) \cup Elements(codes[m])
      <4>1. \A k : k \in 1 .. m <=> k \in 1 .. m - 1 \/ k = m
        BY <3>1
      <4> QED BY <4>1
    <3> QED BY <2>1, <3>4, <3>5
  <2> QED BY <2>2, <2>3
<1>7. n \notin Wrong
  BY <1>6
<1> HIDE DEF Upto
<1>8. IsSeq(H[n]) /\ Elements(H[n]) = Upto(n)
  BY <1>7
<1> QED BY <1>3, <1>8 DEF Upto

-----------------------------------------------------------------------------
(***************************************************************************)
(* The labels and jumps of assembly.                                       *)
(***************************************************************************)
Jumping == {"b", "bne", "bcnez"}

LabelsOf(code) == {code[i].to : i \in {j \in DOMAIN code : code[j].op = "label"}}
JumpsOf(code)  == {code[i].to : i \in {j \in DOMAIN code : code[j].op \in Jumping}}

(* No label is there twice.                                                *)
Once(code) ==
  \A i, j \in DOMAIN code :
    code[i].op = "label" /\ code[j].op = "label" /\ code[i].to = code[j].to => i = j

(* Lines that can be encoded, and such lines without labels and jumps.     *)
Writable(x) == {"op", "to", "of", "imm"} \subseteq DOMAIN x /\ Fits(x)
IsAssembly(code) == IsSeq(code) /\ \A i \in DOMAIN code : Writable(code[i])
Quiet(code) == IsAssembly(code) /\ \A i \in DOMAIN code : code[i].op \notin Jumping \cup {"label"}

LEMMA Joined ==
  ASSUME NEW s, NEW t, IsAssembly(s), IsAssembly(t)
  PROVE  /\ IsAssembly(s \o t)
         /\ LabelsOf(s \o t) = LabelsOf(s) \cup LabelsOf(t)
         /\ JumpsOf(s \o t) = JumpsOf(s) \cup JumpsOf(t)
         /\ Quiet(s) /\ Quiet(t) => Quiet(s \o t)
         /\ Once(s) /\ Once(t) /\ LabelsOf(s) \cap LabelsOf(t) = {} => Once(s \o t)
<1> DEFINE c == s \o t
           n == Len(s)
           m == Len(t)
<1>1. /\ IsSeq(c) /\ n \in Nat /\ m \in Nat
      /\ DOMAIN s = 1 .. n /\ DOMAIN t = 1 .. m /\ DOMAIN c = 1 .. n + m
      /\ \A i \in 1 .. n : c[i] = s[i]
      /\ \A i \in 1 .. m : c[n + i] = t[i]
      /\ \A i \in 1 .. n + m : i \in 1 .. n \/ \E j \in 1 .. m : i = n + j
  BY Concatenated DEF IsAssembly
<1>2. /\ \A i \in 1 .. n : i \in 1 .. n + m
      /\ \A i \in 1 .. m : n + i \in 1 .. n + m
  BY <1>1
<1> HIDE DEF c, n, m
<1>a. /\ \A i \in DOMAIN s : i \in DOMAIN c /\ c[i] = s[i]
      /\ \A i \in DOMAIN t : n + i \in DOMAIN c /\ c[n + i] = t[i]
      /\ \A i \in DOMAIN c : \/ i \in DOMAIN s /\ c[i] = s[i]
                             \/ \E j \in DOMAIN t : i = n + j /\ c[i] = t[j]
  <2>1. \A i \in 1 .. n + m : \/ i \in 1 .. n /\ c[i] = s[i]
                             \/ \E j \in 1 .. m : i = n + j /\ c[i] = t[j]
    <3> TAKE i \in 1 .. n + m
    <3>1. CASE i \in 1 .. n
      BY <1>1, <3>1
    <3>2. ASSUME NEW j \in 1 .. m, i = n + j PROVE c[i] = t[j]
      BY <1>1, <3>2
    <3> QED BY <1>1, <3>1, <3>2
  <2> QED BY <1>1, <1>2, <2>1
<1>3. IsAssembly(c)
  <2>1. ASSUME NEW i \in DOMAIN c PROVE Writable(c[i])
    BY <1>a DEF IsAssembly
  <2> QED BY <1>1, <2>1 DEF IsAssembly
<1>4. LabelsOf(c) = LabelsOf(s) \cup LabelsOf(t)
  <2>1. ASSUME NEW x \in LabelsOf(c) PROVE x \in LabelsOf(s) \cup LabelsOf(t)
    BY <1>a DEF LabelsOf
  <2>2. ASSUME NEW x \in LabelsOf(s) PROVE x \in LabelsOf(c)
    BY <1>a DEF LabelsOf
  <2>3. ASSUME NEW x \in LabelsOf(t) PROVE x \in LabelsOf(c)
    BY <1>a DEF LabelsOf
  <2> QED BY <2>1, <2>2, <2>3
<1>5. JumpsOf(c) = JumpsOf(s) \cup JumpsOf(t)
  <2>1. ASSUME NEW x \in JumpsOf(c) PROVE x \in JumpsOf(s) \cup JumpsOf(t)
    BY <1>a DEF JumpsOf
  <2>2. ASSUME NEW x \in JumpsOf(s) PROVE x \in JumpsOf(c)
    BY <1>a DEF JumpsOf
  <2>3. ASSUME NEW x \in JumpsOf(t) PROVE x \in JumpsOf(c)
    BY <1>a DEF JumpsOf
  <2> QED BY <2>1, <2>2, <2>3
<1>6. Quiet(s) /\ Quiet(t) => Quiet(c)
  <2>1. ASSUME Quiet(s), Quiet(t), NEW i \in DOMAIN c PROVE c[i].op \notin Jumping \cup {"label"}
    BY <1>a, <2>1 DEF Quiet
  <2> QED BY <1>3, <2>1 DEF Quiet
<1>7. ASSUME Once(s), Once(t), LabelsOf(s) \cap LabelsOf(t) = {},
             NEW i \in DOMAIN c, NEW j \in DOMAIN c,
             c[i].op = "label", c[j].op = "label", c[i].to = c[j].to
      PROVE  i = j
  <2>1. CASE i \in DOMAIN s /\ c[i] = s[i] /\ j \in DOMAIN s /\ c[j] = s[j]
    BY <1>7, <2>1 DEF Once
  <2>2. ASSUME NEW k \in DOMAIN t, NEW l \in DOMAIN t, i = n + k, j = n + l, c[i] = t[k], c[j] = t[l]
        PROVE  i = j
    BY <1>7, <2>2 DEF Once
  <2>3. ASSUME NEW k \in DOMAIN s, NEW l \in DOMAIN t, s[k].op = "label", t[l].op = "label"
        PROVE  s[k].to # t[l].to
    <3>1. s[k].to \in LabelsOf(s) /\ t[l].to \in LabelsOf(t)
      BY <2>3 DEF LabelsOf
    <3> QED BY <1>7, <3>1
  <2> QED BY <1>7, <1>a, <2>1, <2>2, <2>3
<1>8. Once(s) /\ Once(t) /\ LabelsOf(s) \cap LabelsOf(t) = {} => Once(c)
  BY <1>1, <1>7 DEF Once
<1> QED BY <1>3, <1>4, <1>5, <1>6, <1>8 DEF c

LEMMA QuietSays ==
  ASSUME NEW s, Quiet(s)
  PROVE  IsAssembly(s) /\ LabelsOf(s) = {} /\ JumpsOf(s) = {} /\ Once(s)
BY DEF Quiet, LabelsOf, JumpsOf, Once

LEMMA QuietJoined ==
  ASSUME NEW s, NEW t, Quiet(s), Quiet(t)
  PROVE  Quiet(s \o t)
BY Joined, QuietSays

(* One line of assembly.                                                   *)
LEMMA OneLine ==
  ASSUME NEW x, Writable(x)
  PROVE  /\ IsAssembly(<<x>>) /\ Once(<<x>>)
         /\ LabelsOf(<<x>>) = IF x.op = "label" THEN {x.to} ELSE {}
         /\ JumpsOf(<<x>>) = IF x.op \in Jumping THEN {x.to} ELSE {}
         /\ x.op \notin Jumping \cup {"label"} => Quiet(<<x>>)
<1>1. /\ DOMAIN <<x>> = {1} /\ <<x>>[1] = x /\ <<x>> \in Seq({<<x>>[k] : k \in DOMAIN <<x>>})
  OBVIOUS
<1>2. IsAssembly(<<x>>)
  BY <1>1 DEF IsAssembly, IsSeq
<1> QED BY <1>1, <1>2 DEF Once, LabelsOf, JumpsOf, Quiet

(* Lines with the instruction they are for.                                *)
LEMMA Tagged ==
  ASSUME NEW s, NEW at, IsAssembly(s)
  PROVE  LET t == [i \in DOMAIN s |-> [s[i] EXCEPT !.of = at]]
         IN  /\ IsAssembly(t) /\ LabelsOf(t) = LabelsOf(s) /\ JumpsOf(t) = JumpsOf(s)
             /\ Once(s) => Once(t)
<1> DEFINE t == [i \in DOMAIN s |-> [s[i] EXCEPT !.of = at]]
<1>1. /\ DOMAIN t = DOMAIN s /\ DOMAIN s = 1 .. Len(s) /\ Len(s) \in Nat
  BY DEF IsAssembly, IsSeq
<1>2. \A i \in DOMAIN s : Writable(t[i]) /\ t[i].op = s[i].op /\ t[i].to = s[i].to
  <2> TAKE i \in DOMAIN s
  <2>1. /\ {"op", "to", "of", "imm"} \subseteq DOMAIN t[i]
        /\ t[i].op = s[i].op /\ t[i].to = s[i].to /\ t[i].imm = s[i].imm
    BY DEF IsAssembly, Writable
  <2>2. Fits(s[i])
    BY DEF IsAssembly, Writable
  <2> HIDE DEF t
  <2> QED BY <2>1, <2>2 DEF Writable, Fits
<1> HIDE DEF t
<1>3. IsSeq(t)
  <2>0. t \in [1 .. Len(s) -> {t[k] : k \in DOMAIN t}]
    <3>1. t = [i \in DOMAIN s |-> [s[i] EXCEPT !.of = at]]
      BY DEF t
    <3>2. t = [i \in 1 .. Len(s) |-> t[i]]
      BY <1>1, <3>1
    <3> QED BY <1>1, <3>2
  <2> QED BY <1>1, <2>0 DEF IsSeq
<1>4. IsAssembly(t)
  BY <1>1, <1>2, <1>3 DEF IsAssembly
<1> QED BY <1>1, <1>2, <1>4 DEF LabelsOf, JumpsOf, Once, t

LEMMA ConcatQuiet ==
  ASSUME NEW codes, NEW n \in Nat, DOMAIN codes = 1 .. n, Len(codes) = n,
         \A k \in 1 .. n : Quiet(codes[k])
  PROVE  Quiet(Concat(codes))
<1>1. \A k \in 1 .. n : IsSeq(codes[k])
  BY DEF Quiet, IsAssembly
<1>2. IsSeq(Concat(codes)) /\ Elements(Concat(codes)) = UNION {Elements(codes[k]) : k \in 1 .. n}
  BY <1>1, ConcatElements
<1>3. ASSUME NEW i \in DOMAIN Concat(codes)
      PROVE  Writable(Concat(codes)[i]) /\ Concat(codes)[i].op \notin Jumping \cup {"label"}
  <2>1. PICK k \in 1 .. n : Concat(codes)[i] \in Elements(codes[k])
    BY <1>2 DEF Elements
  <2>2. PICK j \in DOMAIN codes[k] : Concat(codes)[i] = codes[k][j]
    BY <2>1 DEF Elements
  <2> QED BY <2>2 DEF Quiet, IsAssembly
<1> QED BY <1>2, <1>3 DEF Quiet, IsAssembly

(***************************************************************************)
(* Lines whose immediate is small, and those that load a large constant.   *)
(***************************************************************************)
Wide == {"lu12i.w", "lu32i.d", "ori", "xori"}

LEMMA ImmQuiet ==
  ASSUME NEW op, NEW regs, NEW imm, op \notin Jumping \cup {"label"}, op \notin Wide, IS_IMM_12(imm)
  PROVE  Quiet(<<Asm(op, regs, imm)>>)
<1> DEFINE x == Asm(op, regs, imm)
<1>1. {"op", "to", "of", "imm"} \subseteq DOMAIN x /\ x.op = op /\ x.imm = imm
  BY DEF Asm
<1> HIDE DEF x
<1>2. Writable(x)
  BY <1>1 DEF Writable, Fits, Wide
<1>3. Quiet(<<x>>)
  BY <1>1, <1>2, OneLine
<1> QED BY <1>3 DEF x

LEMMA AsmQuiet ==
  ASSUME NEW op, NEW regs, NEW imm \in {0, 1, -8, -16}, op \notin Jumping \cup {"label"}, op \notin Wide
  PROVE  Quiet(<<Asm(op, regs, imm)>>)
BY ImmQuiet, SmallImm

LEMMA WideQuiet ==
  ASSUME NEW regs, NEW imm
  PROVE  /\ imm = Signed(imm, HI) => /\ Quiet(<<Asm("lu12i.w", regs, imm)>>)
                                     /\ Quiet(<<Asm("lu32i.d", regs, imm)>>)
         /\ imm \in 0 .. 2 ^ LO - 1 => /\ Quiet(<<Asm("ori", regs, imm)>>)
                                        /\ Quiet(<<Asm("xori", regs, imm)>>)
<1>1. ASSUME NEW op \in Wide, Fits(Asm(op, regs, imm))
      PROVE  Quiet(<<Asm(op, regs, imm)>>)
  <2> DEFINE x == Asm(op, regs, imm)
  <2>1. {"op", "to", "of", "imm"} \subseteq DOMAIN x /\ x.op = op
    BY DEF Asm
  <2>2. Writable(x)
    BY <1>1, <2>1 DEF Writable
  <2> HIDE DEF x
  <2>3. Quiet(<<x>>)
    BY <2>1, <2>2, OneLine DEF Wide, Jumping
  <2> QED BY <2>3 DEF x
<1>2. /\ Asm("lu12i.w", regs, imm).op = "lu12i.w" /\ Asm("lu12i.w", regs, imm).imm = imm
      /\ Asm("lu32i.d", regs, imm).op = "lu32i.d" /\ Asm("lu32i.d", regs, imm).imm = imm
      /\ Asm("ori", regs, imm).op = "ori" /\ Asm("ori", regs, imm).imm = imm
      /\ Asm("xori", regs, imm).op = "xori" /\ Asm("xori", regs, imm).imm = imm
  BY DEF Asm
<1>3. imm = Signed(imm, HI) => Fits(Asm("lu12i.w", regs, imm)) /\ Fits(Asm("lu32i.d", regs, imm))
  BY <1>2 DEF Fits
<1>4. imm \in 0 .. 2 ^ LO - 1 => Fits(Asm("ori", regs, imm)) /\ Fits(Asm("xori", regs, imm))
  BY <1>2 DEF Fits
<1> QED BY <1>1, <1>3, <1>4 DEF Wide

LEMMA ToLine ==
  ASSUME NEW op, NEW regs, NEW target, op \notin Wide
  PROVE  Writable(To(op, regs, target)) /\ To(op, regs, target).op = op /\ To(op, regs, target).to = target
<1> DEFINE x == To(op, regs, target)
<1>1. {"op", "to", "of", "imm"} \subseteq DOMAIN x /\ x.op = op /\ x.to = target /\ x.imm = 0
  BY DEF To, Asm
<1> HIDE DEF x
<1>2. Writable(x)
  BY <1>1, SmallImm DEF Writable, Fits, Wide
<1> QED BY <1>1, <1>2 DEF x

LEMMA TwoQuiet ==
  ASSUME NEW x, NEW y, Quiet(<<x>>), Quiet(<<y>>)
  PROVE  Quiet(<<x, y>>)
<1>1. /\ <<x>>[1] = x /\ <<y>>[1] = y /\ 1 \in DOMAIN <<x>> /\ 1 \in DOMAIN <<y>>
      /\ DOMAIN <<x, y>> = {1, 2} /\ <<x, y>>[1] = x /\ <<x, y>>[2] = y
  OBVIOUS
<1>2. /\ Writable(x) /\ x.op \notin Jumping \cup {"label"}
      /\ Writable(y) /\ y.op \notin Jumping \cup {"label"}
  BY <1>1 DEF Quiet, IsAssembly
<1>3. <<x, y>> \in Seq({<<x, y>>[k] : k \in DOMAIN <<x, y>>})
  OBVIOUS
<1> QED BY <1>1, <1>2, <1>3 DEF Quiet, IsAssembly, IsSeq

LEMMA Large32Quiet ==
  ASSUME NEW val \in Int, InWord(val), NEW r
  PROVE  Quiet(load_large_int32(val, r))
<1> DEFINE high == <<Asm("lu12i.w", <<r>>, val \div 2 ^ LO)>>
           low  == <<Asm("ori", <<r, r>>, val % 2 ^ LO)>>
<1>1. Quiet(high) /\ Quiet(low)
  BY WordParts, WideQuiet
<1>2. load_large_int32(val, r) = high \o low
  BY DEF load_large_int32
<1> HIDE DEF high, low
<1> QED BY <1>1, <1>2, QuietJoined

LEMMA Large64Quiet ==
  ASSUME NEW val \in Int, -(2 ^ WordBits) <= val, val < 2 ^ WordBits, NEW r
  PROVE  Quiet(load_large_int64(val, r))
<1> DEFINE high == Word(val \div 2 ^ WordBits)
           upper == <<Asm("lu32i.d", <<r>>, Signed(high, HI)), Asm("lu52i.d", <<r, r>>, high \div 2 ^ HI)>>
<1>1. Quiet(upper)
  <2>1. Signed(high, HI) = Signed(Signed(high, HI), HI) /\ IS_IMM_12(high \div 2 ^ HI)
    BY DoubleParts
  <2> HIDE DEF high
  <2>2. Quiet(<<Asm("lu32i.d", <<r>>, Signed(high, HI))>>)
    BY <2>1, WideQuiet
  <2>3. Quiet(<<Asm("lu52i.d", <<r, r>>, high \div 2 ^ HI)>>)
    BY <2>1, ImmQuiet DEF Jumping, Wide
  <2> QED BY <2>2, <2>3, TwoQuiet
<1>2. Quiet(load_large_int32(Word(val), r))
  BY WordWithin, Large32Quiet
<1>3. load_large_int64(val, r) = load_large_int32(Word(val), r) \o upper
  BY DEF load_large_int64
<1> HIDE DEF upper
<1> QED BY <1>1, <1>2, <1>3, QuietJoined

-----------------------------------------------------------------------------
(***************************************************************************)
(* The values of a function that get a slot, and the space they take.      *)
(***************************************************************************)
SlotAt(f, p) ==
  LET ins == InsAt(f, p)
  IN Slot(Inst(p, ins.ty), IF ins.op = "alloca" THEN get_size(Elem(ins.ty)) ELSE 0)
SlotsOf(f) == {Slot(Arg(k, f.params[k]), 0) : k \in DOMAIN f.params}
              \cup {SlotAt(f, p) : p \in {q \in Code(f) : ~ is_void(InsAt(f, q))}}

LEMMA FormedShape ==
  ASSUME NEW f, Formed(f)
  PROVE  /\ Len(f.blocks) \in Nat \ {0} /\ DOMAIN f.blocks = 1 .. Len(f.blocks)
         /\ \A b \in DOMAIN f.blocks :
              /\ Len(f.blocks[b].code) \in Nat \ {0}
              /\ DOMAIN f.blocks[b].code = 1 .. Len(f.blocks[b].code)
         /\ Len(f.params) \in Nat /\ DOMAIN f.params = 1 .. Len(f.params)
         /\ \A k \in DOMAIN f.params : f.params[k].t \in Scalars
         /\ \A p \in Code(f) : /\ p = <<p[1], p[2]>> /\ p[1] \in DOMAIN f.blocks
                               /\ p[2] \in DOMAIN f.blocks[p[1]].code
                               /\ FormedInstruction(InsAt(f, p), f)
<1>1. /\ Len(f.blocks) \in Nat \ {0} /\ DOMAIN f.blocks = 1 .. Len(f.blocks)
      /\ Len(f.params) \in Nat /\ DOMAIN f.params = 1 .. Len(f.params)
  <2>1. f.blocks \in Seq({f.blocks[k] : k \in DOMAIN f.blocks}) /\ f.blocks # << >>
    BY DEF Formed, IsSeq
  <2>2. f.params \in Seq({f.params[k] : k \in DOMAIN f.params})
    BY DEF Formed, IsSeq
  <2> QED BY <2>1, <2>2
<1>2. ASSUME NEW b \in DOMAIN f.blocks
      PROVE  /\ Len(f.blocks[b].code) \in Nat \ {0}
             /\ DOMAIN f.blocks[b].code = 1 .. Len(f.blocks[b].code)
  <2>1. /\ f.blocks[b].code \in Seq({f.blocks[b].code[k] : k \in DOMAIN f.blocks[b].code})
        /\ f.blocks[b].code # << >>
    BY DEF Formed, IsSeq
  <2> QED BY <2>1
<1>3. ASSUME NEW p \in Code(f)
      PROVE  /\ p = <<p[1], p[2]>> /\ p[1] \in DOMAIN f.blocks
             /\ p[2] \in DOMAIN f.blocks[p[1]].code
             /\ FormedInstruction(InsAt(f, p), f)
  <2>0. PICK b \in 1 .. Len(f.blocks) : \E k \in 1 .. Len(f.blocks[b].code) : p = <<b, k>>
    BY DEF Code
  <2>1. PICK k \in 1 .. Len(f.blocks[b].code) : p = <<b, k>>
    BY <2>0
  <2>2. p[1] = b /\ p[2] = k /\ b \in DOMAIN f.blocks /\ k \in DOMAIN f.blocks[b].code
    BY <1>1, <1>2, <2>1
  <2> QED BY <2>1, <2>2 DEF Formed, InsAt
<1> QED BY <1>1, <1>2, <1>3 DEF Formed

(* One instruction gives one slot, or none.                                *)
LEMMA ResultsElements ==
  ASSUME NEW f, Formed(f), NEW b \in DOMAIN f.blocks
  PROVE  /\ IsSeq(Results(f.blocks[b], b))
         /\ Elements(Results(f.blocks[b], b)) =
              {SlotAt(f, <<b, k>>) : k \in {j \in DOMAIN f.blocks[b].code : ~ is_void(InsAt(f, <<b, j>>))}}
<1> DEFINE code == f.blocks[b].code
           n == Len(code)
           one(k) == IF is_void(code[k]) THEN << >>
                     ELSE <<Slot(Inst(<<b, k>>, code[k].ty),
                                 IF code[k].op = "alloca" THEN get_size(Elem(code[k].ty)) ELSE 0)>>
           parts == [k \in DOMAIN code |-> one(k)]
<1>1. n \in Nat /\ DOMAIN code = 1 .. n /\ DOMAIN parts = 1 .. n /\ Len(parts) = n
  BY FormedShape
<1>2. \A k : InsAt(f, <<b, k>>) = code[k]
  BY DEF InsAt
<1>3. ASSUME NEW k \in 1 .. n
      PROVE  /\ IsSeq(parts[k])
             /\ Elements(parts[k]) = IF is_void(code[k]) THEN {} ELSE {SlotAt(f, <<b, k>>)}
  <2>1. CASE is_void(code[k])
    <3>1. parts[k] = << >>
      BY <1>1, <2>1
    <3>2. IsSeq(<< >>) /\ Elements(<< >>) = {}
      BY DEF IsSeq, Elements
    <3> QED BY <2>1, <3>1, <3>2
  <2>2. CASE ~ is_void(code[k])
    <3>1. parts[k] = <<SlotAt(f, <<b, k>>)>>
      BY <1>1, <1>2, <2>2 DEF SlotAt
    <3>2. \A x : IsSeq(<<x>>) /\ Elements(<<x>>) = {x}
      BY DEF IsSeq, Elements
    <3> DEFINE x == SlotAt(f, <<b, k>>)
    <3> HIDE DEF parts, x
    <3>3. IsSeq(parts[k]) /\ Elements(parts[k]) = {x}
      BY <3>1, <3>2 DEF x
    <3> QED BY <2>2, <3>3 DEF x
  <2> QED BY <2>1, <2>2
<1>4. Results(f.blocks[b], b) = Concat(parts)
  BY DEF Results
<1> HIDE DEF parts
<1>5. IsSeq(Concat(parts)) /\ Elements(Concat(parts)) = UNION {Elements(parts[k]) : k \in 1 .. n}
  BY <1>1, <1>3, ConcatElements
<1>6. UNION {Elements(parts[k]) : k \in 1 .. n} = {SlotAt(f, <<b, k>>) : k \in {j \in 1 .. n : ~ is_void(code[j])}}
  <2>1. ASSUME NEW x, NEW k \in 1 .. n, x \in Elements(parts[k])
        PROVE  ~ is_void(code[k]) /\ x = SlotAt(f, <<b, k>>)
    BY <1>3, <2>1
  <2>2. ASSUME NEW k \in 1 .. n, ~ is_void(code[k])
        PROVE  SlotAt(f, <<b, k>>) \in Elements(parts[k])
    BY <1>3, <2>2
  <2> DEFINE kept == {j \in 1 .. n : ~ is_void(code[j])}
  <2>3. UNION {Elements(parts[k]) : k \in 1 .. n} \subseteq {SlotAt(f, <<b, k>>) : k \in kept}
    BY <2>1
  <2>4. {SlotAt(f, <<b, k>>) : k \in kept} \subseteq UNION {Elements(parts[k]) : k \in 1 .. n}
    BY <2>2
  <2> QED BY <2>3, <2>4
<1> QED BY <1>1, <1>2, <1>4, <1>5, <1>6

LEMMA ValuesElements ==
  ASSUME NEW f, Formed(f)
  PROVE  IsSeq(Values(f)) /\ Elements(Values(f)) = SlotsOf(f)
<1> DEFINE args == [k \in DOMAIN f.params |-> Slot(Arg(k, f.params[k]), 0)]
           m == Len(f.params)
           n == Len(f.blocks)
           parts == [b \in DOMAIN f.blocks |-> Results(f.blocks[b], b)]
           In(b) == {SlotAt(f, <<b, k>>) : k \in {j \in DOMAIN f.blocks[b].code : ~ is_void(InsAt(f, <<b, j>>))}}
<1>1. /\ m \in Nat /\ DOMAIN f.params = 1 .. m /\ n \in Nat /\ DOMAIN f.blocks = 1 .. n
      /\ DOMAIN parts = 1 .. n /\ Len(parts) = n
  BY FormedShape
<1>2. IsSeq(args) /\ Elements(args) = {Slot(Arg(k, f.params[k]), 0) : k \in DOMAIN f.params}
  <2>1. args \in [1 .. m -> {args[k] : k \in DOMAIN args}]
    BY <1>1
  <2>2. DOMAIN args = DOMAIN f.params /\ \A k \in DOMAIN args : args[k] = Slot(Arg(k, f.params[k]), 0)
    OBVIOUS
  <2> HIDE DEF args
  <2> QED BY <1>1, <2>1, <2>2 DEF IsSeq, Elements
<1>3. \A b \in 1 .. n : IsSeq(parts[b]) /\ Elements(parts[b]) = In(b)
  BY <1>1, ResultsElements
<1>4. Values(f) = args \o Concat(parts)
  BY DEF Values
<1> HIDE DEF parts, args
<1>5. IsSeq(Concat(parts)) /\ Elements(Concat(parts)) = UNION {Elements(parts[b]) : b \in 1 .. n}
  BY <1>1, <1>3, ConcatElements
<1>6. UNION {Elements(parts[b]) : b \in 1 .. n} = {SlotAt(f, p) : p \in {q \in Code(f) : ~ is_void(InsAt(f, q))}}
  <2>2. ASSUME NEW b \in 1 .. n, NEW x \in In(b)
        PROVE  x \in {SlotAt(f, p) : p \in {q \in Code(f) : ~ is_void(InsAt(f, q))}}
    <3>1. PICK k \in DOMAIN f.blocks[b].code : ~ is_void(InsAt(f, <<b, k>>)) /\ x = SlotAt(f, <<b, k>>)
      BY <2>2
    <3>2. <<b, k>> \in Code(f)
      BY <1>1, <2>2, FormedShape DEF Code
    <3> QED BY <3>1, <3>2
  <2>3. ASSUME NEW p \in Code(f), ~ is_void(InsAt(f, p))
        PROVE  \E b \in 1 .. n : SlotAt(f, p) \in In(b)
    <3>1. p = <<p[1], p[2]>> /\ p[1] \in 1 .. n /\ p[2] \in DOMAIN f.blocks[p[1]].code
      BY <1>1, <2>3, FormedShape
    <3>2. SlotAt(f, p) \in In(p[1])
      BY <2>3, <3>1
    <3> QED BY <3>1, <3>2
  <2> DEFINE All == {SlotAt(f, p) : p \in {q \in Code(f) : ~ is_void(InsAt(f, q))}}
  <2>4. ASSUME NEW x \in UNION {Elements(parts[b]) : b \in 1 .. n} PROVE x \in All
    <3>1. PICK b \in 1 .. n : x \in Elements(parts[b])
      BY <2>4
    <3>2. x \in In(b)
      BY <1>3, <3>1
    <3> QED BY <2>2, <3>2
  <2>5. ASSUME NEW x \in All PROVE x \in UNION {Elements(parts[b]) : b \in 1 .. n}
    <3>1. PICK b \in 1 .. n : x \in In(b)
      BY <2>3
    <3> HIDE DEF In
    <3>2. x \in Elements(parts[b])
      BY <1>3, <3>1
    <3> QED BY <3>2
  <2> QED BY <2>4, <2>5
<1> QED BY <1>2, <1>4, <1>5, <1>6, ElementsJoined DEF SlotsOf

LEMMA SizesNatural ==
  ASSUME NEW ty, Allocatable(ty)
  PROVE  /\ get_size(ty) \in Nat /\ InWord(get_size(ty))
         /\ ty.t \in Scalars => get_size(ty) \in 1 .. 8
<1>1. CASE ty.t \in Scalars
  <2>1. ty.t # "array" /\ get_size(ty) \in 1 .. 8
    BY <1>1 DEF get_size, ScalarSize, Scalars
  <2> QED BY <2>1, Ranges DEF InWord
<1>2. CASE ty.t \notin Scalars
  <2>1. ty.t = "array" /\ ty.of.t \in Scalars /\ ty.n \in Nat /\ InWord(get_size(ty))
    BY <1>2 DEF Allocatable
  <2>2. ScalarSize[ty.of.t] \in Nat
    BY <2>1 DEF ScalarSize, Scalars
  <2>3. get_size(ty) = ScalarSize[ty.of.t] * ty.n
    BY <2>1 DEF get_size
  <2>4. \A x, y \in Nat : x * y \in Nat
    OBVIOUS
  <2> QED BY <1>2, <2>1, <2>2, <2>3, <2>4
<1> QED BY <1>1, <1>2

(* What is known of one slot, and that a value has one at most.            *)
LEMMA SlotsKnown ==
  ASSUME NEW f, Formed(f)
  PROVE  /\ \A x \in SlotsOf(f) : /\ x.size \in 1 .. 8 /\ x.space \in Nat
                                  /\ x.val.ty.t \in Scalars /\ {"c", "g"} \cap DOMAIN x.val = {}
         /\ \A x, y \in SlotsOf(f) : x.val = y.val => x = y
<1>1. ASSUME NEW k \in DOMAIN f.params
      PROVE  LET x == Slot(Arg(k, f.params[k]), 0)
             IN  /\ x.size \in 1 .. 8 /\ x.space \in Nat
                 /\ x.val.ty.t \in Scalars /\ {"c", "g"} \cap DOMAIN x.val = {}
                 /\ x.val = Arg(k, f.params[k])
  <2>1. f.params[k].t \in Scalars
    BY FormedShape
  <2>2. get_size(f.params[k]) \in 1 .. 8
    BY <2>1, SizesNatural DEF Allocatable
  <2> QED BY <2>1, <2>2 DEF Slot, Arg
<1>2. ASSUME NEW p \in Code(f), ~ is_void(InsAt(f, p))
      PROVE  LET x == SlotAt(f, p)
             IN  /\ x.size \in 1 .. 8 /\ x.space \in Nat
                 /\ x.val.ty.t \in Scalars /\ {"c", "g"} \cap DOMAIN x.val = {}
                 /\ x.val = Inst(p, InsAt(f, p).ty)
  <2> DEFINE ins == InsAt(f, p)
             space == IF ins.op = "alloca" THEN get_size(Elem(ins.ty)) ELSE 0
  <2>1. ins.ty.t \in Scalars /\ (ins.op = "alloca" => Allocatable(Elem(ins.ty)))
    BY <1>2, FormedShape DEF FormedInstruction
  <2>2. get_size(ins.ty) \in 1 .. 8 /\ space \in Nat
    BY <2>1, SizesNatural DEF Allocatable
  <2>3. SlotAt(f, p) = Slot(Inst(p, ins.ty), space)
    BY DEF SlotAt
  <2> HIDE DEF ins, space
  <2>4. /\ SlotAt(f, p).val = Inst(p, ins.ty) /\ SlotAt(f, p).size = get_size(Inst(p, ins.ty).ty)
        /\ SlotAt(f, p).space = space
    BY <2>3 DEF Slot
  <2>5. Inst(p, ins.ty).ty = ins.ty /\ DOMAIN Inst(p, ins.ty) = {"i", "ty"}
    BY DEF Inst
  <2> QED BY <2>1, <2>2, <2>4, <2>5 DEF ins
<1>3. ASSUME NEW x \in SlotsOf(f), NEW y \in SlotsOf(f), x.val = y.val
      PROVE  x = y
  <2>1. \A k, u, p, v : Arg(k, u) # Inst(p, v)
    <3>1. \A k, u, p, v : DOMAIN Arg(k, u) = {"a", "ty"} /\ DOMAIN Inst(p, v) = {"i", "ty"}
      BY DEF Arg, Inst
    <3> QED BY <3>1
  <2>2. \A k, u, l, v : Arg(k, u) = Arg(l, v) => k = l
    <3>1. \A k, u : Arg(k, u).a = k
      BY DEF Arg
    <3> QED BY <3>1
  <2>3. \A k, u, l, v : Inst(k, u) = Inst(l, v) => k = l
    <3>1. \A k, u : Inst(k, u).i = k
      BY DEF Inst
    <3> QED BY <3>1
  <2>4. CASE \E k \in DOMAIN f.params : x = Slot(Arg(k, f.params[k]), 0)
    <3>1. PICK k \in DOMAIN f.params : x = Slot(Arg(k, f.params[k]), 0)
      BY <2>4
    <3>2. ASSUME NEW l \in DOMAIN f.params, y = Slot(Arg(l, f.params[l]), 0) PROVE x = y
      BY <1>1, <1>3, <2>2, <3>1, <3>2
    <3>3. ASSUME NEW p \in Code(f), ~ is_void(InsAt(f, p)), y = SlotAt(f, p) PROVE FALSE
      BY <1>1, <1>2, <1>3, <2>1, <3>1, <3>3
    <3> QED BY <3>2, <3>3 DEF SlotsOf
  <2>5. CASE \E p \in Code(f) : ~ is_void(InsAt(f, p)) /\ x = SlotAt(f, p)
    <3>1. PICK p \in Code(f) : ~ is_void(InsAt(f, p)) /\ x = SlotAt(f, p)
      BY <2>5
    <3>2. ASSUME NEW l \in DOMAIN f.params, y = Slot(Arg(l, f.params[l]), 0) PROVE FALSE
      BY <1>1, <1>2, <1>3, <2>1, <3>1, <3>2
    <3>3. ASSUME NEW q \in Code(f), ~ is_void(InsAt(f, q)), y = SlotAt(f, q) PROVE x = y
      <4>1. Inst(p, InsAt(f, p).ty) = Inst(q, InsAt(f, q).ty)
        BY <1>2, <1>3, <3>1, <3>3
      <4> QED BY <2>3, <3>1, <3>3, <4>1
    <3> QED BY <3>2, <3>3 DEF SlotsOf
  <2> QED BY <2>4, <2>5 DEF SlotsOf
<1>4. ASSUME NEW x \in SlotsOf(f)
      PROVE  /\ x.size \in 1 .. 8 /\ x.space \in Nat
             /\ x.val.ty.t \in Scalars /\ {"c", "g"} \cap DOMAIN x.val = {}
  BY <1>1, <1>2 DEF SlotsOf
<1> QED BY <1>3, <1>4

(* Every function has a frame that can be laid out.                        *)
LEMMA FunctionsMeasured == \A f \in Functions : Measured(Values(f))
<1> TAKE f \in Functions
<1>1. Formed(f)
  BY FunctionsFormed
<1>2. IsSeq(Values(f)) /\ Elements(Values(f)) = SlotsOf(f)
  BY <1>1, ValuesElements
<1>3. \A i \in DOMAIN Values(f) : Values(f)[i] \in SlotsOf(f)
  BY <1>2 DEF Elements
<1>4. \A i \in DOMAIN Values(f) : Values(f)[i].size \in Nat \ {0} /\ Values(f)[i].space \in Nat
  BY <1>1, <1>3, SlotsKnown
<1> QED BY <1>2, <1>4 DEF Measured, IsSeq

-----------------------------------------------------------------------------
(***************************************************************************)
(* The bytes used so far, as Footprint counts them.                        *)
(***************************************************************************)
Tally(values) ==
  CHOOSE F : F = [i \in 0 .. Len(values) |->
                    IF i = 0 THEN PROLOGUE_OFFSET_BASE ELSE F[i - 1] + values[i].size + values[i].space]

LEMMA TallySteps ==
  ASSUME NEW values, Measured(values)
  PROVE  /\ Len(values) \in Nat /\ Footprint(values) = Tally(values)[Len(values)]
         /\ Tally(values)[0] = 16
         /\ \A i \in 1 .. Len(values) :
              Tally(values)[i] = Tally(values)[i - 1] + values[i].size + values[i].space
<1> DEFINE n == Len(values)
           Body(F, m) == [i \in 0 .. m |-> IF i = 0 THEN PROLOGUE_OFFSET_BASE
                                           ELSE F[i - 1] + values[i].size + values[i].space]
           Bad == {m \in Nat : ~ \E F : F = Body(F, m)}
<1>1. n \in Nat
  BY DEF Measured
<1>2. n \notin Bad
  <2> SUFFICES ASSUME Bad # {} PROVE FALSE
    OBVIOUS
  <2>1. PICK m \in Bad : \A l \in Bad : m <= l
    BY LeastNatural
  <2>2. m # 0
    <3>1. [k \in 0 .. 0 |-> PROLOGUE_OFFSET_BASE] = Body([k \in 0 .. 0 |-> PROLOGUE_OFFSET_BASE], 0)
      OBVIOUS
    <3> QED BY <2>1, <3>1
  <2>3. m - 1 \in Nat /\ m - 1 \notin Bad
    <3>1. m \in Nat
      BY <2>1
    <3> HIDE DEF Bad
    <3> QED BY <2>1, <2>2, <3>1
  <2>4. PICK F : F = Body(F, m - 1)
    BY <2>3
  <2> DEFINE G == [k \in 0 .. m |-> IF k < m THEN F[k] ELSE F[m - 1] + values[m].size + values[m].space]
  <2>5. \A k \in 0 .. m : G[k] = Body(G, m)[k]
    <3>1. \A k \in 0 .. m - 1 : F[k] = IF k = 0 THEN PROLOGUE_OFFSET_BASE
                                       ELSE F[k - 1] + values[k].size + values[k].space
      BY <2>4
    <3> SUFFICES ASSUME NEW k \in 0 .. m PROVE G[k] = Body(G, m)[k]
      OBVIOUS
    <3>2. CASE k = m
      <4>1. m \in Nat /\ m - 1 \in 0 .. m /\ m - 1 < m /\ m \in 0 .. m /\ ~ m < m
        BY <2>2, <2>3
      <4>2. G[m] = F[m - 1] + values[m].size + values[m].space /\ G[m - 1] = F[m - 1]
        BY <4>1
      <4> HIDE DEF G
      <4> QED BY <2>2, <3>2, <4>1, <4>2
    <3>3. CASE k \in 0 .. m - 1
      <4>1. k # 0 => k - 1 \in 0 .. m - 1
        BY <3>3
      <4> QED BY <2>3, <3>1, <3>3, <4>1
    <3> QED BY <2>3, <3>2, <3>3
  <2>6. G = Body(G, m)
    BY <2>5
  <2> QED BY <2>1, <2>6
<1>3. \E F : F = Body(F, n)
  BY <1>1, <1>2
<1> DEFINE H == CHOOSE F : F = Body(F, n)
<1>4. H = Tally(values) /\ Footprint(values) = H[n]
  BY DEF Tally, Footprint
<1>5. H = Body(H, n)
  BY <1>3
<1> HIDE DEF H
<1>6. \A k \in 0 .. n : H[k] = IF k = 0 THEN PROLOGUE_OFFSET_BASE ELSE H[k - 1] + values[k].size + values[k].space
  BY <1>5
<1> QED BY <1>1, <1>4, <1>6 DEF PROLOGUE_OFFSET_BASE

(* The count never goes down.                                              *)
LEMMA TallyGrows ==
  ASSUME NEW values, Measured(values), NEW k \in 0 .. Len(values)
  PROVE  Tally(values)[k] \in Nat /\ Tally(values)[k] <= Footprint(values)
<1> DEFINE n == Len(values)
           T == Tally(values)
<1>1. /\ n \in Nat /\ T[0] = 16 /\ Footprint(values) = T[n]
      /\ \A i \in 1 .. n : T[i] = T[i - 1] + values[i].size + values[i].space
  BY TallySteps
<1>2. \A i \in 1 .. n : values[i].size \in Nat /\ values[i].space \in Nat
  BY DEF Measured
<1> HIDE DEF T, n
<1>3. \A i \in 0 .. n : T[i] \in Nat
  <2> DEFINE Bad == {i \in Nat : i <= n /\ T[i] \notin Nat}
  <2>1. Bad = {}
    <3> SUFFICES ASSUME Bad # {} PROVE FALSE
      OBVIOUS
    <3>1. PICK i \in Bad : \A j \in Bad : i <= j
      BY LeastNatural
    <3>2. i # 0
      BY <1>1, <3>1
    <3>3. i - 1 \in Nat /\ i - 1 <= n /\ i - 1 \notin Bad /\ i \in 1 .. n
      BY <1>1, <3>1, <3>2
    <3>4. T[i - 1] \in Nat
      BY <3>3
    <3>5. values[i].size \in Nat /\ values[i].space \in Nat
      BY <1>2, <3>3
    <3>6. T[i] = T[i - 1] + values[i].size + values[i].space
      BY <1>1, <3>3
    <3>7. T[i] \in Nat
      BY <3>4, <3>5, <3>6
    <3> QED BY <3>1, <3>7
  <2> QED BY <1>1, <2>1
<1>4. \A i \in 1 .. n : T[i - 1] <= T[i]
  <2> TAKE i \in 1 .. n
  <2>1. T[i - 1] \in Nat
    BY <1>1, <1>3
  <2>2. T[i] = T[i - 1] + values[i].size + values[i].space
    BY <1>1
  <2>3. values[i].size \in Nat /\ values[i].space \in Nat
    BY <1>2
  <2> QED BY <2>1, <2>2, <2>3
<1>5. T[k] <= T[n]
  <2> DEFINE Bad == {d \in Nat : d <= n /\ ~ T[n - d] <= T[n]}
  <2>1. Bad = {}
    <3> SUFFICES ASSUME Bad # {} PROVE FALSE
      OBVIOUS
    <3>1. PICK d \in Bad : \A j \in Bad : d <= j
      BY LeastNatural
    <3>2. d # 0
      <4>1. n - 0 = n /\ T[n] <= T[n]
        BY <1>1, <1>3
      <4> QED BY <3>1, <4>1
    <3>a. d \in Nat /\ d <= n
      BY <3>1
    <3>b. d - 1 \notin Bad
      <4>1. ~ d <= d - 1
        BY <3>a
      <4> QED BY <3>1, <4>1
    <3> HIDE DEF Bad
    <3>c. /\ d - 1 \in Nat /\ d - 1 <= n
          /\ n - (d - 1) \in 1 .. n /\ (n - (d - 1)) - 1 = n - d /\ n - d \in 0 .. n
      BY <1>1, <3>2, <3>a
    <3> USE DEF Bad
    <3>3. /\ d - 1 \in Nat /\ d - 1 <= n /\ d - 1 \notin Bad
          /\ n - (d - 1) \in 1 .. n /\ (n - (d - 1)) - 1 = n - d /\ n - d \in 0 .. n
      BY <3>b, <3>c
    <3>4. T[n - (d - 1)] <= T[n]
      BY <3>3
    <3>5. T[n - d] <= T[n - (d - 1)]
      BY <1>4, <3>3
    <3>6. T[n - d] \in Nat /\ T[n - (d - 1)] \in Nat /\ T[n] \in Nat
      BY <1>1, <1>3, <3>3
    <3> QED BY <3>1, <3>4, <3>5, <3>6
  <2>2. n - k \in Nat /\ n - k <= n /\ n - (n - k) = k
    BY <1>1 DEF n
  <2>3. n - k \notin Bad
    BY <2>1
  <2> QED BY <2>2, <2>3
<1>6. k \in 0 .. n
  BY DEF n
<1> QED BY <1>1, <1>3, <1>5, <1>6 DEF T

-----------------------------------------------------------------------------
(***************************************************************************)
(* Offsets are words: the frame is that of the function, and it is         *)
(* complete before the first line is generated.                            *)
(***************************************************************************)
FittingInv ==
  /\ FrameInv
  /\ func \in Functions /\ order = Values(func)
  /\ offset = Tally(order)[Len(offset_map)]
  /\ next # <<1, 0>> => frame_size # 0

LEMMA InitFitting == ASSUME Init PROVE FittingInv
<1>1. func \in Functions /\ Begin(Values(func)) /\ next = <<1, 0>>
  BY DEF Init, GenerateInit
<1>2. Measured(Values(func))
  BY <1>1, FunctionsMeasured
<1>3. order = Values(func) /\ offset_map = << >> /\ offset = 16
  BY <1>1 DEF Begin, PROLOGUE_OFFSET_BASE
<1>4. Tally(order)[0] = 16 /\ Len(offset_map) = 0
  BY <1>2, <1>3, TallySteps
<1> QED BY <1>1, <1>2, <1>3, <1>4, BeginInv DEF FittingInv

LEMMA GenerateFitting == ASSUME FittingInv, Generate PROVE FittingInv'
<1>1. FrameInv'
  BY GenerateFrame, StepInv DEF FittingInv
<1>2. CASE Allocate
  <2>1. UNCHANGED <<func, next>> /\ allocate
    BY <1>2 DEF Allocate
  <2>2. CASE Place
    <3> DEFINE n == Len(offset_map)
    <3>1. /\ order' = order /\ frame_size' = frame_size /\ n < Len(order)
          /\ offset' = offset + order[n + 1].size + order[n + 1].space
          /\ offset_map' = Append(offset_map, -(offset + order[n + 1].size))
      BY <2>2 DEF Place, Unplaced
    <3>2. offset_map \in Seq(Int) /\ Measured(order) /\ offset \in Nat
      BY DEF FittingInv, FrameInv, Typed
    <3>3. n \in Nat /\ n + 1 \in 1 .. Len(order) /\ (n + 1) - 1 = n
      BY <3>1, <3>2 DEF Measured
    <3>4. order[n + 1].size \in Nat
      BY <3>2, <3>3, OneMeasured
    <3>5. Len(offset_map') = n + 1
      <4>1. -(offset + order[n + 1].size) \in Int
        BY <3>2, <3>4
      <4> QED BY <3>1, <3>2, <4>1
    <3>6. Tally(order)[n + 1] = Tally(order)[n] + order[n + 1].size + order[n + 1].space
      BY <3>2, <3>3, TallySteps
    <3> HIDE DEF n
    <3>7. offset' = Tally(order')[Len(offset_map')]
      BY <3>1, <3>5, <3>6 DEF FittingInv, n
    <3> QED BY <1>1, <2>1, <3>1, <3>7 DEF FittingInv
  <2>3. CASE Complete
    <3>1. UNCHANGED <<order, offset_map, offset>> /\ frame_size' = ALIGN(offset, 16)
      BY <2>3 DEF Complete, PROLOGUE_ALIGN
    <3>2. offset \in Nat /\ offset >= 16
      BY DEF FittingInv, FrameInv, Typed
    <3>3. frame_size' # 0
      BY <3>1, <3>2, AlignUp
    <3> QED BY <1>1, <2>1, <3>1, <3>3 DEF FittingInv
  <2> QED BY <2>1, <2>2, <2>3 DEF allocate
<1>3. CASE gen_prologue
  <2>1. UNCHANGED <<frame, func>> /\ frame_size # 0
    BY <1>3 DEF gen_prologue
  <2> QED BY <1>1, <2>1 DEF FittingInv, frame
<1>4. CASE gen_epilogue
  <2>1. UNCHANGED <<frame, func>> /\ next[1] = Len(func.blocks) + 1
    BY <1>4 DEF gen_epilogue
  <2>2. Len(func.blocks) \in Nat \ {0}
    BY FunctionsFormed, FormedShape DEF FittingInv
  <2>3. next # <<1, 0>>
    BY <2>1, <2>2
  <2> QED BY <1>1, <2>1, <2>3 DEF FittingInv, frame
<1>5. ASSUME NEW ops, Translating(ops), NEW code, Emit(code) PROVE FittingInv'
  <2>1. UNCHANGED <<frame, func>> /\ next[2] > 0
    BY <1>5 DEF Emit, Translating
  <2>2. next # <<1, 0>>
    BY <2>1
  <2> QED BY <1>1, <2>1, <2>2 DEF FittingInv, frame
<1>6. CASE gen_ret \/ gen_br \/ gen_binary \/ gen_float_binary
  BY <1>5, <1>6 DEF gen_ret, gen_br, gen_binary, gen_float_binary
<1>7. CASE gen_alloca \/ gen_load \/ gen_store
  BY <1>5, <1>7 DEF gen_alloca, gen_load, gen_store
<1>8. CASE gen_icmp \/ gen_fcmp \/ gen_zext
  BY <1>5, <1>8 DEF gen_icmp, gen_fcmp, gen_zext
<1>9. CASE gen_call \/ gen_gep \/ gen_sitofp \/ gen_fptosi
  BY <1>5, <1>9 DEF gen_call, gen_gep, gen_sitofp, gen_fptosi
<1> QED
  BY <1>2, <1>3, <1>4, <1>6, <1>7, <1>8, <1>9 DEF Generate

LEMMA NextFitting == ASSUME FittingInv, [Next]_vars PROVE FittingInv'
<1>1. CASE Compile
  BY <1>1, GenerateFitting DEF Compile
<1>2. CASE Execute \/ Finished \/ UNCHANGED vars
  <2>1. UNCHANGED <<frame, func, next>>
    BY <1>2 DEF Execute, Finished, vars, codegen
  <2> QED BY <2>1 DEF FittingInv, frame, FrameInv, Typed, Layered, Closed, First, Last
<1> QED
  BY <1>1, <1>2 DEF Next

(* Where slots and spaces are, when the frame is complete.                 *)
LEMMA OffsetsFit ==
  ASSUME FittingInv, frame_size # 0
  PROVE  /\ frame_size \in Nat /\ frame_size < 2 ^ WordBits
         /\ \A x \in SlotsOf(func) : /\ Offset(x.val) \in Int /\ InWord(Offset(x.val))
                                     /\ InWord(Offset(x.val) - x.space)
<1>1. Formed(func) /\ Footprint(order) <= 2 ^ (WordBits - 1)
  BY FunctionsFormed, FramesFit DEF FittingInv
<1>2. /\ Measured(order) /\ offset_map \in Seq(Int) /\ Len(offset_map) = Len(order)
      /\ frame_size = ALIGN(offset, 16) /\ offset \in Nat
      /\ Len(order) \in Nat
  BY DEF FittingInv, FrameInv, Typed, Closed, Measured
<1>3. offset <= 2 ^ (WordBits - 1)
  <2>1. Len(order) \in 0 .. Len(order)
    BY <1>2
  <2>2. offset <= Footprint(order)
    BY <1>2, <2>1, TallyGrows DEF FittingInv
  <2>3. Footprint(order) \in Nat
    BY <1>2, <2>1, TallyGrows, TallySteps
  <2> QED BY <1>1, <1>2, <2>2, <2>3, Ranges
<1>4. frame_size \in Nat /\ frame_size < 2 ^ WordBits
  <2>1. ALIGN(offset, 16) \in Nat /\ ALIGN(offset, 16) <= offset + 15
    BY <1>2 DEF ALIGN
  <2>2. \A m \in Nat : offset <= m /\ m >= 32 => frame_size \in Nat /\ frame_size < 2 * m
    BY <1>2, <2>1
  <2> QED BY <1>3, <2>2, Ranges
<1>5. ASSUME NEW x \in SlotsOf(func)
      PROVE  /\ Offset(x.val) \in Int /\ InWord(Offset(x.val))
             /\ InWord(Offset(x.val) - x.space)
  <2>1. IsSeq(order) /\ Elements(order) = SlotsOf(func)
    BY <1>1, ValuesElements DEF FittingInv
  <2> DEFINE i == CHOOSE j \in DOMAIN order : order[j].val = x.val
  <2>2. i \in DOMAIN order /\ order[i].val = x.val
    <3>1. \E j \in DOMAIN order : order[j].val = x.val
      BY <2>1 DEF Elements
    <3> QED BY <3>1
  <2>3. Offset(x.val) = offset_map[i]
    BY DEF Offset
  <2> HIDE DEF i
  <2>4. order[i] = x
    <3>1. order[i] \in SlotsOf(func)
      BY <2>1, <2>2 DEF Elements
    <3> QED BY <1>1, <2>2, <3>1, SlotsKnown
  <2>5. i \in 1 .. Len(offset_map) /\ offset_map[i] \in Int /\ i \in 1 .. Len(order)
    BY <1>2, <2>1, <2>2 DEF IsSeq
  <2>6. First(i) >= 16 /\ Last(i) <= offset
    BY <2>5 DEF FittingInv, FrameInv, Layered
  <2>7. x.size \in Nat /\ x.space \in Nat
    BY <1>1, SlotsKnown
  <2>8. offset_map[i] <= -16 /\ -offset <= offset_map[i] - x.space
    BY <2>4, <2>5, <2>6, <2>7, <1>2 DEF First, Last
  <2>9. ASSUME NEW m \in Nat, offset <= m
        PROVE  offset_map[i] \in -m .. m - 1 /\ offset_map[i] - x.space \in -m .. m - 1
    <3>1. offset_map[i] - x.space \in Int /\ offset_map[i] - x.space <= offset_map[i]
      BY <2>5, <2>7
    <3> QED BY <1>2, <2>5, <2>8, <2>9, <3>1
  <2>10. InWord(offset_map[i]) /\ InWord(offset_map[i] - x.space)
    BY <1>3, <2>9, Ranges DEF InWord
  <2> QED BY <2>3, <2>5, <2>10
<1> QED BY <1>4, <1>5

-----------------------------------------------------------------------------
(***************************************************************************)
(* What moves a value has neither labels nor jumps.                        *)
(***************************************************************************)
InFrame(v) == v.ty.t \in Scalars /\ Offset(v) \in Int /\ InWord(Offset(v))
Ready(v) == IF "c" \in DOMAIN v THEN InWord(v.c)
            ELSE IF "g" \in DOMAIN v THEN v.ty.t = "ptr" ELSE InFrame(v)

LEMMA AtSlotQuiet ==
  ASSUME NEW op \in {LOAD, STORE}, NEW v, InFrame(v), NEW r, NEW addr
  PROVE  Quiet(AtSlot(op, v, r, addr))
<1>1. op[v.ty.t] \notin Jumping \cup {"label"} /\ op[v.ty.t] \notin Wide
  BY DEF LOAD, STORE, Scalars, ScalarSize, Jumping, Wide, InFrame
<1>2. /\ IS_IMM_12(Offset(v)) => Quiet(<<Asm(op[v.ty.t], <<r, "fp">>, Offset(v))>>)
      /\ Quiet(<<Asm("add.d", <<addr, "fp", addr>>, 0)>>)
      /\ Quiet(<<Asm(op[v.ty.t], <<r, addr>>, 0)>>)
  BY <1>1, AsmQuiet, ImmQuiet DEF Jumping, Wide
<1>3. Quiet(load_large_int64(Offset(v), addr))
  <2>1. -(2 ^ WordBits) <= Offset(v) /\ Offset(v) < 2 ^ WordBits
    BY Ranges DEF InFrame, InWord
  <2> QED BY <2>1, Large64Quiet DEF InFrame
<1> QED BY <1>2, <1>3, TwoQuiet, QuietJoined DEF AtSlot

LEMMA SlotQuiet ==
  ASSUME NEW v, InFrame(v), NEW r
  PROVE  Quiet(store_from_greg(v, r)) /\ Quiet(store_from_freg(v, r))
BY AtSlotQuiet DEF store_from_greg, store_from_freg

LEMMA GregQuiet ==
  ASSUME NEW v, Ready(v), NEW r
  PROVE  Quiet(load_to_greg(v, r))
<1>1. Quiet(<<To("la.local", <<r>>, v)>>)
  <2> DEFINE x == To("la.local", <<r>>, v)
  <2>1. Writable(x) /\ x.op \notin Jumping \cup {"label"}
    BY ToLine DEF Jumping, Wide
  <2> HIDE DEF x
  <2>2. Quiet(<<x>>)
    BY <2>1, OneLine
  <2> QED BY <2>2 DEF x
<1>2. CASE "c" \in DOMAIN v
  <2>1. v.c \in Int /\ InWord(v.c)
    BY <1>2, Ranges DEF Ready, InWord
  <2>2. IS_IMM_12(v.c) => Quiet(<<Asm("addi.w", <<r, "zero">>, v.c)>>)
    BY ImmQuiet DEF Jumping, Wide
  <2>3. load_to_greg(v, r) \in {IF IS_IMM_12(v.c) THEN <<Asm("addi.w", <<r, "zero">>, v.c)>>
                                                  ELSE load_large_int32(v.c, r),
                                <<To("la.local", <<r>>, v)>>}
    BY <1>2 DEF load_to_greg
  <2> QED BY <1>1, <2>1, <2>2, <2>3, Large32Quiet
<1>3. CASE "c" \notin DOMAIN v /\ "g" \in DOMAIN v
  BY <1>1, <1>3 DEF load_to_greg
<1>4. CASE "c" \notin DOMAIN v /\ "g" \notin DOMAIN v
  <2>1. Quiet(AtSlot(LOAD, v, r, r))
    BY <1>4, AtSlotQuiet DEF Ready
  <2> QED BY <1>4, <2>1 DEF load_to_greg, load_from_stack_to_greg
<1> QED BY <1>2, <1>3, <1>4

LEMMA FregQuiet ==
  ASSUME NEW v, Ready(v), v.ty = Float, NEW r
  PROVE  Quiet(load_to_freg(v, r))
<1>1. CASE "c" \in DOMAIN v
  <2>1. v.c \in Int /\ InWord(v.c)
    BY <1>1, Ranges DEF Ready, InWord
  <2>2. Quiet(<<Asm("movgr2fr.w", <<r, "t8">>, 0)>>)
    BY AsmQuiet DEF Jumping, Wide
  <2>3. Quiet(load_float_imm(v.c, r))
    BY <2>1, <2>2, Large32Quiet, QuietJoined DEF load_float_imm
  <2> QED BY <1>1, <2>3 DEF load_to_freg
<1>2. CASE "c" \notin DOMAIN v
  <2>1. v.ty.t # "ptr"
    BY DEF Float
  <2>2. Quiet(AtSlot(LOAD, v, r, "t8"))
    BY <1>2, <2>1, AtSlotQuiet DEF Ready
  <2> QED BY <1>2, <2>2 DEF load_to_freg
<1> QED BY <1>1, <1>2

-----------------------------------------------------------------------------
(***************************************************************************)
(* Which labels have been made: those of the blocks that were begun, one   *)
(* for each comparison so far, and that of the exit at the end.            *)
(***************************************************************************)
Begun(b) == b < next[1] \/ (b = next[1] /\ next[2] > 1)
BlockLabels == {label_name(b) : b \in DOMAIN func.blocks}
FcmpLabels(m, n) == {fcmp_label_name(b, c) : b \in Nat, c \in m .. n - 1}

LabelsInv ==
  /\ func \in Functions
  /\ next[1] \in 1 .. Len(func.blocks) + 2 /\ next[2] \in Nat
  /\ next = <<next[1], next[2]>>
  /\ next[1] \in DOMAIN func.blocks => next[2] <= Len(func.blocks[next[1]].code)
  /\ fcmp_cnt \in Nat
  /\ IsAssembly(output) /\ Once(output)
  /\ LabelsOf(output) \subseteq
       {label_name(b) : b \in {k \in DOMAIN func.blocks : Begun(k)}} \cup FcmpLabels(0, fcmp_cnt)
         \cup (IF Generated THEN {func_exit_label_name} ELSE {})
  /\ \A b \in DOMAIN func.blocks : Begun(b) => label_name(b) \in LabelsOf(output)
  /\ Generated => func_exit_label_name \in LabelsOf(output)
  /\ JumpsOf(output) \subseteq BlockLabels \cup {func_exit_label_name} \cup LabelsOf(output)

LEMMA LabelsDiffer ==
  ASSUME NEW b, NEW d, NEW c, NEW e
  PROVE  /\ label_name(b) = label_name(d) => b = d
         /\ label_name(b) # func_exit_label_name
         /\ label_name(b) # fcmp_label_name(d, c)
         /\ fcmp_label_name(b, c) # func_exit_label_name
         /\ fcmp_label_name(b, c) = fcmp_label_name(d, e) => b = d /\ c = e
<1>1. /\ label_name(b).block = b /\ label_name(d).block = d
      /\ fcmp_label_name(b, c).block = b /\ fcmp_label_name(b, c).fcmp = c
      /\ fcmp_label_name(d, e).block = d /\ fcmp_label_name(d, e).fcmp = e
  BY DEF label_name, fcmp_label_name
<1>2. /\ DOMAIN label_name(b) = {"block"} /\ DOMAIN func_exit_label_name = {"exit"}
      /\ DOMAIN fcmp_label_name(b, c) = {"block", "fcmp"}
      /\ DOMAIN fcmp_label_name(d, c) = {"block", "fcmp"}
  BY DEF label_name, fcmp_label_name, func_exit_label_name
<1>3. "block" # "exit" /\ "fcmp" # "block"
  OBVIOUS
<1>4. /\ label_name(b) # func_exit_label_name
      /\ label_name(b) # fcmp_label_name(d, c)
      /\ fcmp_label_name(b, c) # func_exit_label_name
  BY <1>2, <1>3
<1>5. label_name(b) = label_name(d) => b = d
  BY <1>1
<1>6. fcmp_label_name(b, c) = fcmp_label_name(d, e) => b = d /\ c = e
  BY <1>1
<1> QED BY <1>4, <1>5, <1>6

(* Where the blocks and their instructions are.                            *)
LEMMA FormedFacts ==
  ASSUME func \in Functions
  PROVE  /\ Formed(func)
         /\ Len(func.blocks) \in Nat \ {0} /\ DOMAIN func.blocks = 1 .. Len(func.blocks)
         /\ \A b \in DOMAIN func.blocks :
              /\ Len(func.blocks[b].code) \in Nat \ {0}
              /\ DOMAIN func.blocks[b].code = 1 .. Len(func.blocks[b].code)
         /\ Len(func.params) \in Nat /\ DOMAIN func.params = 1 .. Len(func.params)
BY FunctionsFormed, FormedShape

(* Assembly that adds the labels of code, which are not there yet.         *)
LEMMA LinesAdd ==
  ASSUME IsAssembly(output), Once(output), NEW code, IsAssembly(code), Once(code),
         LabelsOf(output) \cap LabelsOf(code) = {}, Lines(code)
  PROVE  /\ IsAssembly(output') /\ Once(output')
         /\ LabelsOf(output') = LabelsOf(output) \cup LabelsOf(code)
         /\ JumpsOf(output') = JumpsOf(output) \cup JumpsOf(code)
<1> DEFINE t == [i \in DOMAIN code |-> [code[i] EXCEPT !.of = next]]
<1>1. IsAssembly(t) /\ LabelsOf(t) = LabelsOf(code) /\ JumpsOf(t) = JumpsOf(code) /\ Once(t)
  BY Tagged
<1>2. output' = output \o t
  BY DEF Lines
<1> HIDE DEF t
<1> QED BY <1>1, <1>2, Joined

(* The size of the frame can be loaded.                                    *)
LEMMA FrameLoads ==
  ASSUME FittingInv, frame_size # 0, NEW r
  PROVE  Quiet(load_large_int64(frame_size, r))
<1>1. frame_size \in Int /\ -(2 ^ WordBits) <= frame_size /\ frame_size < 2 ^ WordBits
  BY OffsetsFit, Ranges
<1> QED BY <1>1, Large64Quiet

LEMMA PrologueInv ==
  ASSUME FittingInv, LabelsInv, gen_prologue
  PROVE  LabelsInv'
<1> DEFINE types == func.params
           params == [k \in DOMAIN types |->
                        IF types[k] = Float THEN store_from_freg(Arg(k, types[k]), fa(Nth(types, k)))
                                            ELSE store_from_greg(Arg(k, types[k]), a(Nth(types, k)))]
<1>1. /\ next = <<1, 0>> /\ next' = <<1, 1>> /\ UNCHANGED <<func, fcmp_cnt>>
      /\ Lines(Enter \o Concat(params)) /\ frame_size # 0
  BY DEF gen_prologue
<1>2. func \in Functions /\ Len(types) \in Nat /\ DOMAIN types = 1 .. Len(types)
  BY FormedFacts DEF LabelsInv
<1>3. ASSUME NEW k \in 1 .. Len(types) PROVE Quiet(params[k])
  <2>1. InFrame(Arg(k, types[k]))
    <3> DEFINE x == Slot(Arg(k, func.params[k]), 0)
    <3>1. k \in DOMAIN func.params
      BY <1>2
    <3>2. x \in SlotsOf(func)
      BY <3>1 DEF SlotsOf
    <3>3. x.val = Arg(k, types[k])
      BY DEF Slot
    <3> HIDE DEF x, types
    <3>4. Offset(x.val) \in Int /\ InWord(Offset(x.val)) /\ x.val.ty.t \in Scalars
      BY <1>1, <1>2, <3>2, OffsetsFit, SlotsKnown, FormedFacts
    <3> QED BY <3>3, <3>4 DEF InFrame
  <2>2. \A r : /\ Quiet(store_from_greg(Arg(k, types[k]), r))
               /\ Quiet(store_from_freg(Arg(k, types[k]), r))
    BY <2>1, SlotQuiet
  <2> QED BY <1>2, <2>2
<1>4. DOMAIN params = 1 .. Len(types) /\ Len(params) = Len(types)
  BY <1>2
<1>5. Quiet(Enter)
  <2>1. Quiet(Save)
    BY AsmQuiet, TwoQuiet DEF Save, Jumping, Wide
  <2>2. /\ IS_IMM_12(-frame_size) => Quiet(<<Asm("addi.d", <<"sp", "sp">>, -frame_size)>>)
        /\ Quiet(<<Asm("addi.d", <<"fp", "sp">>, 0)>>)
        /\ Quiet(<<Asm("sub.d", <<"sp", "sp", "t0">>, 0), Asm("add.d", <<"fp", "sp", "t0">>, 0)>>)
    BY AsmQuiet, ImmQuiet, TwoQuiet DEF Jumping, Wide
  <2>3. Quiet(load_large_int64(frame_size, "t0"))
    BY <1>1, FrameLoads
  <2> QED BY <2>1, <2>2, <2>3, TwoQuiet, QuietJoined DEF Enter
<1> HIDE DEF params, types
<1>6. Quiet(Enter \o Concat(params))
  BY <1>2, <1>3, <1>4, <1>5, ConcatQuiet, QuietJoined
<1>7. /\ IsAssembly(output') /\ Once(output')
      /\ LabelsOf(output') = LabelsOf(output) /\ JumpsOf(output') = JumpsOf(output)
  BY <1>1, <1>6, LinesAdd, QuietSays DEF LabelsInv
<1>8. (\A b \in DOMAIN func.blocks : Begun(b)' <=> Begun(b)) /\ Generated' = Generated
  BY <1>1, FormedFacts DEF Begun, LabelsInv, Generated
<1>9. next'[1] \in 1 .. Len(func.blocks) + 2 /\ next'[2] \in Nat /\ next' = <<next'[1], next'[2]>>
      /\ next'[1] \in DOMAIN func.blocks => next'[2] <= Len(func.blocks[next'[1]].code)
  BY <1>1, FormedFacts DEF LabelsInv
<1> QED BY <1>1, <1>7, <1>8, <1>9 DEF LabelsInv, BlockLabels

(* A line that jumps, and one that is a label.                             *)
LEMMA JumpLine ==
  ASSUME NEW op \in Jumping, NEW regs, NEW l
  PROVE  /\ IsAssembly(<<To(op, regs, l)>>) /\ Once(<<To(op, regs, l)>>)
         /\ LabelsOf(<<To(op, regs, l)>>) = {} /\ JumpsOf(<<To(op, regs, l)>>) = {l}
<1> DEFINE x == To(op, regs, l)
<1>1. Writable(x) /\ x.op = op /\ x.to = l /\ op # "label"
  BY ToLine DEF Jumping, Wide
<1> HIDE DEF x
<1>2. IsAssembly(<<x>>) /\ Once(<<x>>) /\ LabelsOf(<<x>>) = {} /\ JumpsOf(<<x>>) = {l}
  BY <1>1, OneLine
<1> QED BY <1>2 DEF x

LEMMA LabelLine ==
  ASSUME NEW l
  PROVE  /\ IsAssembly(<<Label(l)>>) /\ Once(<<Label(l)>>)
         /\ LabelsOf(<<Label(l)>>) = {l} /\ JumpsOf(<<Label(l)>>) = {}
<1> DEFINE x == Label(l)
<1>1. Writable(x) /\ x.op = "label" /\ x.to = l
  BY ToLine DEF Label, Wide
<1> HIDE DEF x
<1>2. IsAssembly(<<x>>) /\ Once(<<x>>) /\ LabelsOf(<<x>>) = {l} /\ JumpsOf(<<x>>) = {}
  BY <1>1, OneLine DEF Jumping
<1> QED BY <1>2 DEF x

(* The code of an instruction: labels of its own comparison only, and      *)
(* jumps to blocks, to the exit or to these.                               *)
LEMMA EmitInv ==
  ASSUME LabelsInv, NEW ops, Translating(ops), NEW code, Emit(code), IsAssembly(code), Once(code),
         fcmp_cnt' \in Nat, fcmp_cnt <= fcmp_cnt',
         LabelsOf(code) \subseteq FcmpLabels(fcmp_cnt, fcmp_cnt'),
         JumpsOf(code) \subseteq BlockLabels \cup {func_exit_label_name} \cup LabelsOf(code)
  PROVE  LabelsInv'
<1> DEFINE b == next[1]
           k == next[2]
           n == Len(func.blocks)
           head == IF next[2] = 1 THEN <<Label(label_name(next[1]))>> ELSE << >>
<1>1. /\ func \in Functions /\ n \in Nat /\ DOMAIN func.blocks = 1 .. n
      /\ b \in 1 .. n /\ k \in Nat /\ k > 0
      /\ Len(func.blocks[b].code) \in Nat
  BY FormedFacts DEF LabelsInv, Translating
<1>2. /\ Lines(head \o code) /\ UNCHANGED func
      /\ next' = IF k < Len(func.blocks[b].code) THEN <<b, k + 1>> ELSE <<b + 1, 1>>
  BY DEF Emit
<1>3. /\ next'[1] \in 1 .. n + 1 /\ next'[2] \in Nat /\ next' = <<next'[1], next'[2]>>
      /\ \A d \in 1 .. n : Begun(d)' <=> d <= b
      /\ ~ Generated /\ ~ Generated'
      /\ next'[1] \in 1 .. n => next'[2] <= Len(func.blocks[next'[1]].code)
  <2>0. \A d \in 1 .. n : Len(func.blocks[d].code) \in Nat \ {0}
    BY <1>1, FormedFacts
  <2>1. CASE k < Len(func.blocks[b].code)
    <3>1. next' = <<b, k + 1>> /\ next'[1] = b /\ next'[2] = k + 1
      BY <1>2, <2>1
    <3>2. k + 1 <= Len(func.blocks[b].code)
      BY <1>1, <2>1
    <3>3. \A d \in 1 .. n : Begun(d)' <=> d <= b
      BY <1>1, <3>1 DEF Begun
    <3>4. ~ Generated /\ ~ Generated'
      BY <1>1, <1>2, <3>1 DEF Generated
    <3> QED BY <1>1, <3>1, <3>2, <3>3, <3>4
  <2>2. CASE ~ k < Len(func.blocks[b].code)
    <3>1. next' = <<b + 1, 1>> /\ next'[1] = b + 1 /\ next'[2] = 1
      BY <1>2, <2>2
    <3>2. b + 1 <= n => 1 <= Len(func.blocks[b + 1].code)
      BY <1>1, <2>0
    <3>3. \A d \in 1 .. n : Begun(d)' <=> d <= b
      BY <1>1, <1>2, <3>1 DEF Begun
    <3>4. ~ Generated /\ ~ Generated'
      BY <1>1, <1>2, <3>1 DEF Generated
    <3> QED BY <1>1, <3>1, <3>2, <3>3, <3>4
  <2> QED BY <2>1, <2>2
<1>4. /\ \A d \in 1 .. n : d < b => Begun(d)
      /\ \A d \in 1 .. n : Begun(d) => d < b \/ (d = b /\ k > 1)
      /\ k > 1 => Begun(b)
  BY <1>1 DEF Begun
<1>5. /\ IsAssembly(head) /\ Once(head) /\ JumpsOf(head) = {}
      /\ LabelsOf(head) = IF k = 1 THEN {label_name(b)} ELSE {}
  <2>1. CASE k = 1
    <3>1. /\ IsAssembly(<<Label(label_name(b))>>) /\ Once(<<Label(label_name(b))>>)
          /\ LabelsOf(<<Label(label_name(b))>>) = {label_name(b)} /\ JumpsOf(<<Label(label_name(b))>>) = {}
      BY LabelLine
    <3> QED BY <2>1, <3>1
  <2>2. CASE k # 1
    <3>1. IsAssembly(<< >>) /\ Once(<< >>) /\ JumpsOf(<< >>) = {} /\ LabelsOf(<< >>) = {}
      BY DEF IsAssembly, IsSeq, Once, JumpsOf, LabelsOf
    <3> QED BY <2>2, <3>1
  <2> QED BY <2>1, <2>2
<1> HIDE DEF head
<1>6. LabelsOf(head) \cap LabelsOf(code) = {}
  BY <1>5, LabelsDiffer DEF FcmpLabels
<1>7. /\ IsAssembly(head \o code) /\ Once(head \o code)
      /\ LabelsOf(head \o code) = LabelsOf(head) \cup LabelsOf(code)
      /\ JumpsOf(head \o code) = JumpsOf(code)
  BY <1>5, <1>6, Joined
<1>8. LabelsOf(output) \subseteq
         {label_name(d) : d \in {e \in DOMAIN func.blocks : Begun(e)}} \cup FcmpLabels(0, fcmp_cnt)
  BY <1>3 DEF LabelsInv
<1>9. LabelsOf(output) \cap LabelsOf(head \o code) = {}
  <2>1. ASSUME NEW x \in LabelsOf(output), x \in LabelsOf(head) PROVE FALSE
    <3>1. k = 1 /\ x = label_name(b)
      BY <1>5, <2>1
    <3>2. ~ Begun(b)
      BY <1>1, <1>4, <3>1
    <3>3. CASE x \in FcmpLabels(0, fcmp_cnt)
      BY <3>1, <3>3, LabelsDiffer DEF FcmpLabels
    <3>4. CASE \E d \in DOMAIN func.blocks : Begun(d) /\ x = label_name(d)
      BY <3>1, <3>2, <3>4, LabelsDiffer
    <3> QED BY <1>8, <3>3, <3>4
  <2>2. ASSUME NEW x \in LabelsOf(output), x \in LabelsOf(code) PROVE FALSE
    <3>1. PICK d \in Nat, c \in fcmp_cnt .. fcmp_cnt' - 1 : x = fcmp_label_name(d, c)
      BY <2>2 DEF FcmpLabels
    <3>2. CASE x \in FcmpLabels(0, fcmp_cnt)
      <4>1. PICK e \in Nat, l \in 0 .. fcmp_cnt - 1 : x = fcmp_label_name(e, l)
        BY <3>2 DEF FcmpLabels
      <4>2. fcmp_label_name(d, c) = fcmp_label_name(e, l) => c = l
        BY LabelsDiffer
      <4> QED BY <3>1, <4>1, <4>2 DEF LabelsInv
    <3>3. CASE \E e \in DOMAIN func.blocks : x = label_name(e)
      BY <3>1, <3>3, LabelsDiffer
    <3> QED BY <1>8, <3>2, <3>3
  <2> QED BY <1>7, <2>1, <2>2
<1>10. /\ IsAssembly(output') /\ Once(output')
       /\ LabelsOf(output') = LabelsOf(output) \cup LabelsOf(head) \cup LabelsOf(code)
       /\ JumpsOf(output') = JumpsOf(output) \cup JumpsOf(code)
  BY <1>2, <1>7, <1>9, LinesAdd DEF LabelsInv
<1>11. LabelsOf(output') \subseteq
         {label_name(d) : d \in {e \in DOMAIN func.blocks : Begun(e)'}} \cup FcmpLabels(0, fcmp_cnt')
  <2>1. ASSUME NEW x \in LabelsOf(output)
        PROVE  x \in {label_name(d) : d \in {e \in DOMAIN func.blocks : Begun(e)'}} \cup FcmpLabels(0, fcmp_cnt')
    <3>1. CASE x \in FcmpLabels(0, fcmp_cnt)
      BY <3>1 DEF FcmpLabels, LabelsInv
    <3>2. ASSUME NEW d \in DOMAIN func.blocks, Begun(d), x = label_name(d)
          PROVE  Begun(d)'
      BY <1>1, <1>3, <1>4, <3>2
    <3> QED BY <1>8, <3>1, <3>2
  <2>2. ASSUME NEW x \in LabelsOf(head)
        PROVE  x \in {label_name(d) : d \in {e \in DOMAIN func.blocks : Begun(e)'}}
    BY <1>1, <1>3, <1>5
  <2>3. ASSUME NEW x \in LabelsOf(code) PROVE x \in FcmpLabels(0, fcmp_cnt')
    BY DEF FcmpLabels, LabelsInv
  <2> QED BY <1>10, <2>1, <2>2, <2>3
<1>12. \A d \in DOMAIN func.blocks : Begun(d)' => label_name(d) \in LabelsOf(output')
  <2> TAKE d \in DOMAIN func.blocks
  <2> HAVE Begun(d)'
  <2>1. CASE Begun(d)
    BY <1>10, <2>1 DEF LabelsInv
  <2>2. CASE ~ Begun(d)
    <3>1. d = b /\ k = 1
      BY <1>1, <1>3, <1>4, <2>2
    <3> QED BY <1>5, <1>10, <3>1
  <2> QED BY <2>1, <2>2
<1>13. JumpsOf(output') \subseteq BlockLabels \cup {func_exit_label_name} \cup LabelsOf(output')
  BY <1>10 DEF LabelsInv
<1>14. UNCHANGED func /\ BlockLabels' = BlockLabels
  BY <1>2 DEF BlockLabels
<1>15. next'[1] \in 1 .. n + 2
  BY <1>1, <1>3
<1> QED BY <1>1, <1>3, <1>10, <1>11, <1>12, <1>13, <1>14, <1>15 DEF LabelsInv

LEMMA EmitQuiet ==
  ASSUME LabelsInv, NEW ops, Translating(ops), NEW code, Emit(code), Quiet(code), UNCHANGED fcmp_cnt
  PROVE  LabelsInv'
<1>1. IsAssembly(code) /\ Once(code) /\ LabelsOf(code) = {} /\ JumpsOf(code) = {}
  BY QuietSays
<1>2. fcmp_cnt' \in Nat /\ fcmp_cnt <= fcmp_cnt'
  BY DEF LabelsInv
<1> QED BY <1>1, <1>2, EmitInv

(* The instruction in hand, its operands and its result.                   *)
LEMMA InHand ==
  ASSUME FittingInv, LabelsInv, NEW ops, Translating(ops)
  PROVE  /\ FormedInstruction(Instr, func) /\ Instr.op \in ops
         /\ Len(Instr.args) \in Nat /\ DOMAIN Instr.args = 1 .. Len(Instr.args)
         /\ next[1] \in Nat /\ next \in Code(func) /\ InsAt(func, next) = Instr
         /\ frame_size # 0
<1>1. /\ func \in Functions /\ next[1] \in DOMAIN func.blocks /\ next[2] \in Nat /\ next[2] > 0
      /\ next[1] \in Nat /\ Instr.op \in ops /\ next = <<next[1], next[2]>>
      /\ next[2] <= Len(func.blocks[next[1]].code)
  BY FormedFacts DEF LabelsInv, Translating
<1>2. next[2] \in DOMAIN func.blocks[next[1]].code
  BY <1>1, FormedFacts
<1>3. FormedInstruction(Instr, func)
  BY <1>1, <1>2, FunctionsFormed DEF Formed, Instr
<1>4. Len(Instr.args) \in Nat /\ DOMAIN Instr.args = 1 .. Len(Instr.args)
  BY <1>3 DEF FormedInstruction, IsSeq
<1>5. next \in Code(func)
  <2>1. next[1] \in 1 .. Len(func.blocks) /\ next[2] \in 1 .. Len(func.blocks[next[1]].code)
    BY <1>1, <1>2, FormedFacts
  <2> QED BY <1>1, <2>1 DEF Code
<1>6. frame_size # 0
  <2>1. next # <<1, 0>>
    BY <1>1
  <2> QED BY <2>1 DEF FittingInv
<1> QED BY <1>1, <1>3, <1>4, <1>5, <1>6 DEF InsAt, Instr

LEMMA OperandQuiet ==
  ASSUME FittingInv, LabelsInv, NEW ops, Translating(ops), NEW k \in 1 .. Len(Instr.args), k # 1 \/ "call" \notin ops
  PROVE  /\ \A r : Quiet(load_to_greg(Op(k), r))
         /\ Op(k).ty = Float => \A r : Quiet(load_to_freg(Op(k), r))
<1> DEFINE v == Op(k)
<1>1. IsOperand(v, func) /\ frame_size # 0 /\ Formed(func)
  BY InHand, FormedFacts DEF FormedInstruction, Op, LabelsInv
<1>2. \A x \in SlotsOf(func) : InFrame(x.val)
  BY <1>1, OffsetsFit, SlotsKnown DEF InFrame
<1> HIDE DEF v
<1>3. Ready(v)
  <2>1. CASE "c" \in DOMAIN v \/ "g" \in DOMAIN v
    BY <1>1, <2>1 DEF IsOperand, Ready
  <2>2. CASE "c" \notin DOMAIN v /\ "g" \notin DOMAIN v
    <3>1. ASSUME NEW j \in DOMAIN func.params, v = Arg(j, func.params[j]) PROVE InFrame(v)
      <4>1. Slot(v, 0) \in SlotsOf(func) /\ Slot(v, 0).val = v
        BY <3>1 DEF SlotsOf, Slot
      <4> QED BY <1>2, <4>1
    <3>2. ASSUME NEW p \in Code(func), ~ is_void(InsAt(func, p)), v = Inst(p, InsAt(func, p).ty)
          PROVE  InFrame(v)
      <4>1. SlotAt(func, p) \in SlotsOf(func) /\ SlotAt(func, p).val = v
        BY <3>2 DEF SlotsOf, SlotAt, Slot
      <4> QED BY <1>2, <4>1
    <3>3. InFrame(v)
      BY <1>1, <2>2, <3>1, <3>2 DEF IsOperand
    <3> QED BY <2>2, <3>3 DEF Ready
  <2> QED BY <2>1, <2>2
<1> QED BY <1>3, GregQuiet, FregQuiet DEF v

LEMMA ResultQuiet ==
  ASSUME FittingInv, LabelsInv, NEW ops, Translating(ops), ~ is_void(Instr)
  PROVE  /\ \A r : Quiet(store_from_greg(Result, r)) /\ Quiet(store_from_freg(Result, r))
         /\ Instr.op = "alloca" => Space(Result) \in Int /\ InWord(Space(Result))
<1> DEFINE x == SlotAt(func, next)
<1>1. /\ next \in Code(func) /\ InsAt(func, next) = Instr /\ frame_size # 0 /\ Formed(func)
  BY InHand, FormedFacts DEF LabelsInv
<1>2. x \in SlotsOf(func)
  BY <1>1 DEF SlotsOf
<1>3. x.val = Result /\ (Instr.op = "alloca" => x.space = get_size(Elem(Result.ty)))
  BY <1>1 DEF SlotAt, Slot, Result, Inst
<1> HIDE DEF x
<1>4. /\ Offset(x.val) \in Int /\ InWord(Offset(x.val)) /\ InWord(Offset(x.val) - x.space)
      /\ x.val.ty.t \in Scalars /\ x.space \in Nat
  BY <1>1, <1>2, OffsetsFit, SlotsKnown
<1>5. InFrame(Result)
  BY <1>3, <1>4 DEF InFrame
<1>6. Instr.op = "alloca" => Space(Result) = Offset(x.val) - x.space
  BY <1>3 DEF Space
<1> QED BY <1>4, <1>5, <1>6, SlotQuiet

(* How many operands there are, and which are floats.                      *)
LEMMA Operands ==
  ASSUME FittingInv, LabelsInv, NEW ops, Translating(ops)
  PROVE  /\ Instr.op \in IntBinary \cup FloatBinary \cup IntCompare \cup FloatCompare \cup {"store"} =>
              1 \in 1 .. Len(Instr.args) /\ 2 \in 1 .. Len(Instr.args)
         /\ Instr.op \in {"load", "getelementptr", "zext", "sitofp", "fptosi"} => 1 \in 1 .. Len(Instr.args)
         /\ Instr.op = "ret" /\ func.ret # Void => 1 \in 1 .. Len(Instr.args) /\ Op(1).ty = func.ret
         /\ Instr.op = "br" /\ Instr.args # << >> => 1 \in 1 .. Len(Instr.args)
         /\ Instr.op \in FloatBinary \cup FloatCompare => Op(1).ty = Float /\ Op(2).ty = Float
         /\ Instr.op = "fptosi" => Op(1).ty = Float
<1>1. /\ FormedInstruction(Instr, func) /\ Len(Instr.args) \in Nat /\ DOMAIN Instr.args = 1 .. Len(Instr.args)
      /\ Len(Instr.args) >= OperandsNeeded(Instr)
      /\ Instr.args \in Seq({Instr.args[k] : k \in DOMAIN Instr.args})
      /\ WellFormed(Instr, func.ret)
  BY InHand DEF FormedInstruction, IsSeq
<1> DEFINE op == Instr.op
           need == OperandsNeeded(Instr)
<1>2. /\ op \in IntBinary \cup FloatBinary \cup IntCompare \cup FloatCompare \cup {"store"} => need = 2
      /\ op \in {"load", "getelementptr", "zext", "sitofp", "fptosi"} => need = 1
  BY DEF OperandsNeeded, IntBinary, FloatBinary, IntCompare, FloatCompare
<1>3. Instr.args # << >> => Len(Instr.args) # 0
  BY <1>1
<1>4. /\ op = "ret" /\ func.ret # Void => Instr.args # << >> /\ Op(1).ty = func.ret
      /\ op \in FloatBinary \cup FloatCompare => Op(1).ty = Float /\ Op(2).ty = Float
      /\ op = "fptosi" => Op(1).ty = Float
  BY <1>1 DEF WellFormed, Op
<1> HIDE DEF op, need
<1> QED BY <1>1, <1>2, <1>3, <1>4 DEF op, need

-----------------------------------------------------------------------------
(***************************************************************************)
(* Instruction by instruction.  First those without labels and jumps.      *)
(***************************************************************************)
LEMMA OperandScalar ==
  ASSUME FittingInv, LabelsInv, NEW ops, Translating(ops), Instr.op = "store"
  PROVE  Op(1).ty.t \in Scalars
<1> DEFINE v == Op(1)
<1>1. FormedInstruction(Instr, func) /\ Formed(func) /\ func \in Functions /\ Instr.op = "store"
  BY InHand, FormedFacts DEF LabelsInv
<1>2. IsOperand(v, func)
  BY <1>1, InHand, Operands DEF FormedInstruction, Op
<1> HIDE DEF v
<1>3. \A k \in DOMAIN func.params : Arg(k, func.params[k]).ty.t \in Scalars
  BY <1>1, FormedShape DEF Arg
<1>4. \A p \in Code(func) : ~ is_void(InsAt(func, p)) => Inst(p, InsAt(func, p).ty).ty.t \in Scalars
  BY <1>1, FormedShape DEF FormedInstruction, Inst
<1>5. v.ty.t \in Scalars
  <2>1. CASE "c" \in DOMAIN v
    BY <1>2, <2>1 DEF IsOperand
  <2>2. CASE "c" \notin DOMAIN v /\ "g" \in DOMAIN v
    BY <1>2, <2>2 DEF IsOperand, Scalars, ScalarSize
  <2>3. CASE "c" \notin DOMAIN v /\ "g" \notin DOMAIN v
    BY <1>2, <1>3, <1>4, <2>3 DEF IsOperand
  <2> QED BY <2>1, <2>2, <2>3
<1> QED BY <1>5 DEF v

LEMMA BinaryLabels == ASSUME FittingInv, LabelsInv, gen_binary PROVE LabelsInv'
<1> DEFINE name == [add |-> "add.w", sub |-> "sub.w", mul |-> "mul.w", sdiv |-> "div.w"][Instr.op]
           line == Asm(name, <<"t2", "t0", "t1">>, 0)
           code == load_to_greg(Op(1), "t0") \o load_to_greg(Op(2), "t1") \o <<line>>
                   \o store_from_greg(Result, "t2")
<1>1. Translating(IntBinary) /\ Emit(code) /\ UNCHANGED fcmp_cnt
  BY DEF gen_binary
<1>2. Instr.op \in IntBinary /\ ~ is_void(Instr)
  BY <1>1, InHand DEF is_void, IntBinary
<1>3. Quiet(load_to_greg(Op(1), "t0")) /\ Quiet(load_to_greg(Op(2), "t1"))
  BY <1>1, <1>2, Operands, OperandQuiet DEF IntBinary
<1>4. Quiet(<<line>>)
  <2>1. name \in {"add.w", "sub.w", "mul.w", "div.w"}
    BY <1>2 DEF IntBinary
  <2> HIDE DEF name
  <2> QED BY <2>1, AsmQuiet DEF Jumping, Wide
<1>5. Quiet(store_from_greg(Result, "t2"))
  BY <1>1, <1>2, ResultQuiet
<1> HIDE DEF line
<1>6. Quiet(code)
  BY <1>3, <1>4, <1>5, QuietJoined
<1> QED BY <1>1, <1>6, EmitQuiet

LEMMA FloatBinaryLabels == ASSUME FittingInv, LabelsInv, gen_float_binary PROVE LabelsInv'
<1> DEFINE name == [fadd |-> "fadd.s", fsub |-> "fsub.s", fmul |-> "fmul.s", fdiv |-> "fdiv.s"][Instr.op]
           line == Asm(name, <<"ft2", "ft0", "ft1">>, 0)
           code == load_to_freg(Op(1), "ft0") \o load_to_freg(Op(2), "ft1") \o <<line>>
                   \o store_from_freg(Result, "ft2")
<1>1. Translating(FloatBinary) /\ Emit(code) /\ UNCHANGED fcmp_cnt
  BY DEF gen_float_binary
<1>2. Instr.op \in FloatBinary /\ ~ is_void(Instr)
  BY <1>1, InHand DEF is_void, FloatBinary
<1>3. Quiet(load_to_freg(Op(1), "ft0")) /\ Quiet(load_to_freg(Op(2), "ft1"))
  BY <1>1, <1>2, Operands, OperandQuiet DEF FloatBinary
<1>4. Quiet(<<line>>)
  <2>1. name \in {"fadd.s", "fsub.s", "fmul.s", "fdiv.s"}
    BY <1>2 DEF FloatBinary
  <2> HIDE DEF name
  <2> QED BY <2>1, AsmQuiet DEF Jumping, Wide
<1>5. Quiet(store_from_freg(Result, "ft2"))
  BY <1>1, <1>2, ResultQuiet
<1> HIDE DEF line
<1>6. Quiet(code)
  BY <1>3, <1>4, <1>5, QuietJoined
<1> QED BY <1>1, <1>6, EmitQuiet

LEMMA AllocaLabels == ASSUME FittingInv, LabelsInv, gen_alloca PROVE LabelsInv'
<1> DEFINE near == <<Asm("addi.d", <<"t0", "fp">>, Space(Result))>>
           line == <<Asm("add.d", <<"t0", "fp", "t0">>, 0)>>
           code == (IF IS_IMM_12(Space(Result)) THEN near
                    ELSE load_large_int32(Space(Result), "t0") \o line)
                   \o store_from_greg(Result, "t0")
<1>1. Translating({"alloca"}) /\ Emit(code) /\ UNCHANGED fcmp_cnt
  BY DEF gen_alloca
<1>2. Instr.op = "alloca" /\ ~ is_void(Instr)
  BY <1>1, InHand DEF is_void
<1>3. (IS_IMM_12(Space(Result)) => Quiet(near)) /\ Quiet(line)
  BY AsmQuiet, ImmQuiet DEF Jumping, Wide
<1>4. /\ Quiet(store_from_greg(Result, "t0"))
      /\ Space(Result) \in Int /\ InWord(Space(Result))
  BY <1>1, <1>2, ResultQuiet
<1> HIDE DEF near, line
<1>5. Quiet(code)
  BY <1>3, <1>4, Large32Quiet, QuietJoined
<1> QED BY <1>1, <1>5, EmitQuiet

LEMMA LoadLabels == ASSUME FittingInv, LabelsInv, gen_load PROVE LabelsInv'
<1> DEFINE fline == <<Asm("fld.s", <<"ft0", "t0">>, 0)>>
           line == <<Asm(LOAD[Instr.ty.t], <<"t0", "t0">>, 0)>>
           code == load_to_greg(Op(1), "t0")
                   \o (IF Instr.ty = Float THEN fline \o store_from_freg(Result, "ft0")
                                           ELSE line \o store_from_greg(Result, "t0"))
<1>1. Translating({"load"}) /\ Emit(code) /\ UNCHANGED fcmp_cnt
  BY DEF gen_load
<1>2. Instr.op = "load" /\ ~ is_void(Instr)
  BY <1>1, InHand DEF is_void
<1>3. Quiet(load_to_greg(Op(1), "t0"))
  BY <1>1, <1>2, Operands, OperandQuiet
<1>4. Quiet(fline) /\ Quiet(line)
  <2>1. Instr.ty.t \in Scalars
    BY <1>1, <1>2, InHand DEF FormedInstruction
  <2>2. LOAD[Instr.ty.t] \notin Jumping \cup {"label"} /\ LOAD[Instr.ty.t] \notin Wide
    BY <2>1 DEF LOAD, Scalars, ScalarSize, Jumping, Wide
  <2> QED BY <2>2, AsmQuiet DEF Jumping, Wide
<1>5. Quiet(store_from_greg(Result, "t0")) /\ Quiet(store_from_freg(Result, "ft0"))
  BY <1>1, <1>2, ResultQuiet
<1> HIDE DEF fline, line
<1>6. Quiet(code)
  BY <1>3, <1>4, <1>5, QuietJoined
<1> QED BY <1>1, <1>6, EmitQuiet

LEMMA StoreLabels == ASSUME FittingInv, LabelsInv, gen_store PROVE LabelsInv'
<1> DEFINE fline == <<Asm("fst.s", <<"ft0", "t0">>, 0)>>
           line == <<Asm(STORE[Op(1).ty.t], <<"t1", "t0">>, 0)>>
           code == load_to_greg(Op(2), "t0")
                   \o (IF Op(1).ty = Float THEN load_to_freg(Op(1), "ft0") \o fline
                                           ELSE load_to_greg(Op(1), "t1") \o line)
<1>1. Translating({"store"}) /\ Emit(code) /\ UNCHANGED fcmp_cnt
  BY DEF gen_store
<1>2. Instr.op = "store" /\ 1 \in 1 .. Len(Instr.args) /\ 2 \in 1 .. Len(Instr.args)
  BY <1>1, InHand, Operands
<1>3. /\ Quiet(load_to_greg(Op(2), "t0")) /\ Quiet(load_to_greg(Op(1), "t1"))
      /\ Op(1).ty = Float => Quiet(load_to_freg(Op(1), "ft0"))
  BY <1>1, <1>2, OperandQuiet
<1>4. Quiet(fline) /\ Quiet(line)
  <2>1. Op(1).ty.t \in Scalars
    BY <1>1, <1>2, OperandScalar
  <2>2. STORE[Op(1).ty.t] \notin Jumping \cup {"label"} /\ STORE[Op(1).ty.t] \notin Wide
    BY <2>1 DEF STORE, Scalars, ScalarSize, Jumping, Wide
  <2> QED BY <2>2, AsmQuiet DEF Jumping, Wide
<1> HIDE DEF fline, line
<1>5. Quiet(code)
  BY <1>3, <1>4, QuietJoined
<1> QED BY <1>1, <1>5, EmitQuiet

LEMMA IcmpLabels == ASSUME FittingInv, LabelsInv, gen_icmp PROVE LabelsInv'
<1> DEFINE test == CASE Instr.op = "ge" -> <<Slt("t0", "t1"), Not>>
                     [] Instr.op = "gt" -> <<Slt("t1", "t0")>>
                     [] Instr.op = "le" -> <<Slt("t1", "t0"), Not>>
                     [] Instr.op = "lt" -> <<Slt("t0", "t1")>>
                     [] Instr.op = "eq" -> <<Differ, Asm("sltui", <<"t2", "t2">>, 1)>>
                     [] Instr.op = "ne" -> <<Differ, Asm("sltu", <<"t2", "zero", "t2">>, 0)>>
           code == load_to_greg(Op(1), "t0") \o load_to_greg(Op(2), "t1") \o test
                   \o store_from_greg(Result, "t2")
<1>1. Translating(IntCompare) /\ Emit(code) /\ UNCHANGED fcmp_cnt
  BY DEF gen_icmp
<1>2. Instr.op \in IntCompare /\ ~ is_void(Instr)
  BY <1>1, InHand DEF is_void, IntCompare
<1>3. Quiet(load_to_greg(Op(1), "t0")) /\ Quiet(load_to_greg(Op(2), "t1"))
  BY <1>1, <1>2, Operands, OperandQuiet DEF IntCompare
<1>4. Quiet(test)
  <2>1. /\ \A l, r : Quiet(<<Slt(l, r)>>)
        /\ Quiet(<<Differ>>)
        /\ Quiet(<<Asm("sltui", <<"t2", "t2">>, 1)>>) /\ Quiet(<<Asm("sltu", <<"t2", "zero", "t2">>, 0)>>)
    BY AsmQuiet DEF Jumping, Wide, Slt, Differ
  <2>a. Quiet(<<Not>>)
    <3>1. 1 \in 0 .. 2 ^ LO - 1
      BY Ranges
    <3> QED BY <3>1, WideQuiet DEF Not
  <2>2. /\ Quiet(<<Slt("t0", "t1"), Not>>) /\ Quiet(<<Slt("t1", "t0")>>)
        /\ Quiet(<<Slt("t1", "t0"), Not>>) /\ Quiet(<<Slt("t0", "t1")>>)
        /\ Quiet(<<Differ, Asm("sltui", <<"t2", "t2">>, 1)>>)
        /\ Quiet(<<Differ, Asm("sltu", <<"t2", "zero", "t2">>, 0)>>)
    BY <2>1, <2>a, TwoQuiet
  <2> QED BY <1>2, <2>2 DEF IntCompare
<1>5. Quiet(store_from_greg(Result, "t2"))
  BY <1>1, <1>2, ResultQuiet
<1> HIDE DEF test
<1>6. Quiet(code)
  BY <1>3, <1>4, <1>5, QuietJoined
<1> QED BY <1>1, <1>6, EmitQuiet

LEMMA ZextLabels == ASSUME FittingInv, LabelsInv, gen_zext PROVE LabelsInv'
<1> DEFINE line == <<Asm("bstrpick.w", <<"t0", "t0">>, 0)>>
           code == load_to_greg(Op(1), "t0") \o line \o store_from_greg(Result, "t0")
<1>1. Translating({"zext"}) /\ Emit(code) /\ UNCHANGED fcmp_cnt
  BY DEF gen_zext
<1>2. Instr.op = "zext" /\ ~ is_void(Instr)
  BY <1>1, InHand DEF is_void
<1>3. /\ Quiet(load_to_greg(Op(1), "t0")) /\ Quiet(store_from_greg(Result, "t0"))
  BY <1>1, <1>2, Operands, OperandQuiet, ResultQuiet
<1>4. Quiet(line)
  BY AsmQuiet DEF Jumping, Wide
<1> HIDE DEF line
<1>5. Quiet(code)
  BY <1>3, <1>4, QuietJoined
<1> QED BY <1>1, <1>5, EmitQuiet

LEMMA ConversionLabels == ASSUME FittingInv, LabelsInv, gen_sitofp \/ gen_fptosi PROVE LabelsInv'
<1>1. CASE gen_sitofp
  <2> DEFINE lines == <<Asm("movgr2fr.w", <<"ft0", "t0">>, 0), Asm("ffint.s.w", <<"ft0", "ft0">>, 0)>>
             code == load_to_greg(Op(1), "t0") \o lines \o store_from_freg(Result, "ft0")
  <2>1. Translating({"sitofp"}) /\ Emit(code) /\ UNCHANGED fcmp_cnt
    BY <1>1 DEF gen_sitofp
  <2>2. Instr.op = "sitofp" /\ ~ is_void(Instr)
    BY <2>1, InHand DEF is_void
  <2>3. Quiet(load_to_greg(Op(1), "t0")) /\ Quiet(store_from_freg(Result, "ft0"))
    BY <2>1, <2>2, Operands, OperandQuiet, ResultQuiet
  <2>4. Quiet(lines)
    BY AsmQuiet, TwoQuiet DEF Jumping, Wide
  <2> HIDE DEF lines
  <2>5. Quiet(code)
    BY <2>3, <2>4, QuietJoined
  <2> QED BY <2>1, <2>5, EmitQuiet
<1>2. CASE gen_fptosi
  <2> DEFINE lines == <<Asm("ftintrz.w.s", <<"ft0", "ft0">>, 0), Asm("movfr2gr.s", <<"t0", "ft0">>, 0)>>
             code == load_to_freg(Op(1), "ft0") \o lines \o store_from_greg(Result, "t0")
  <2>1. Translating({"fptosi"}) /\ Emit(code) /\ UNCHANGED fcmp_cnt
    BY <1>2 DEF gen_fptosi
  <2>2. Instr.op = "fptosi" /\ ~ is_void(Instr)
    BY <2>1, InHand DEF is_void
  <2>3. Quiet(load_to_freg(Op(1), "ft0")) /\ Quiet(store_from_greg(Result, "t0"))
    BY <2>1, <2>2, Operands, OperandQuiet, ResultQuiet
  <2>4. Quiet(lines)
    BY AsmQuiet, TwoQuiet DEF Jumping, Wide
  <2> HIDE DEF lines
  <2>5. Quiet(code)
    BY <2>3, <2>4, QuietJoined
  <2> QED BY <2>1, <2>5, EmitQuiet
<1> QED BY <1>1, <1>2

LEMMA GepLabels == ASSUME FittingInv, LabelsInv, gen_gep PROVE LabelsInv'
<1> DEFINE whole == Elem(Op(1).ty)
           Type(k) == IF k > 2 /\ whole.t = "array" THEN whole.of ELSE whole
           size(k) == get_size(Type(k))
           near(k) == <<Asm("addi.d", <<"t2", "zero">>, size(k))>>
           step == <<Asm("mul.d", <<"t1", "t1", "t2">>, 0), Asm("add.d", <<"t0", "t0", "t1">>, 0)>>
           far(k)  == load_to_greg(Op(k), "t1")
                      \o (IF IS_IMM_12(size(k)) THEN near(k) ELSE load_large_int64(size(k), "t2"))
                      \o step
           indices == [k \in 1 .. Len(Instr.args) - 1 |-> far(k + 1)]
           code == load_to_greg(Op(1), "t0") \o Concat(indices) \o store_from_greg(Result, "t0")
<1>1. Translating({"getelementptr"}) /\ Emit(code) /\ UNCHANGED fcmp_cnt
  BY DEF gen_gep
<1>2. Instr.op = "getelementptr" /\ ~ is_void(Instr) /\ Len(Instr.args) \in Nat
      /\ 1 \in 1 .. Len(Instr.args)
  BY <1>1, InHand, Operands DEF is_void
<1>3. \A k \in 1 .. Len(Instr.args) : Quiet(load_to_greg(Op(k), "t0")) /\ Quiet(load_to_greg(Op(k), "t1"))
  BY <1>1, OperandQuiet
<1>4. Quiet(step) /\ \A k : Quiet(IF IS_IMM_12(size(k)) THEN near(k) ELSE load_large_int64(size(k), "t2"))
  <2>1. Allocatable(whole)
    BY <1>1, <1>2, InHand DEF FormedInstruction, Op
  <2>2. \A k : Allocatable(Type(k))
    <3> HIDE DEF whole
    <3>1. whole.t = "array" => Allocatable(whole.of)
      BY <2>1 DEF Allocatable, Scalars, ScalarSize
    <3> QED BY <2>1, <3>1
  <2> HIDE DEF whole, Type
  <2>3. \A k : size(k) \in Nat /\ InWord(size(k))
    BY <2>2, SizesNatural
  <2>4. Quiet(step) /\ \A k : IS_IMM_12(size(k)) => Quiet(near(k))
    BY AsmQuiet, ImmQuiet, TwoQuiet DEF Jumping, Wide
  <2>5. \A k : Quiet(load_large_int64(size(k), "t2"))
    <3> TAKE k
    <3>1. size(k) \in Int /\ -(2 ^ WordBits) <= size(k) /\ size(k) < 2 ^ WordBits
      BY <2>3, Ranges DEF InWord
    <3> QED BY <3>1, Large64Quiet
  <2> QED BY <2>4, <2>5
<1>5. Quiet(store_from_greg(Result, "t0"))
  BY <1>1, <1>2, ResultQuiet
<1> HIDE DEF near, step, size
<1>6. \A k \in 1 .. Len(Instr.args) : Quiet(far(k))
  BY <1>3, <1>4, QuietJoined
<1> HIDE DEF far
<1>7. Quiet(Concat(indices))
  <2> DEFINE n == Len(Instr.args) - 1
  <2>1. n \in Nat /\ DOMAIN indices = 1 .. n /\ Len(indices) = n
    BY <1>2
  <2>2. \A k \in 1 .. n : Quiet(indices[k])
    BY <1>2, <1>6
  <2> HIDE DEF n, indices
  <2> QED BY <2>1, <2>2, ConcatQuiet
<1> HIDE DEF indices
<1>8. Quiet(code)
  BY <1>2, <1>3, <1>5, <1>7, QuietJoined
<1> QED BY <1>1, <1>8, EmitQuiet

LEMMA CallLabels == ASSUME FittingInv, LabelsInv, gen_call PROVE LabelsInv'
<1> DEFINE types == Op(1).ty.params
           args == [k \in DOMAIN types |->
                      IF types[k] = Float THEN load_to_freg(Op(k + 1), fa(Nth(types, k)))
                                          ELSE load_to_greg(Op(k + 1), a(Nth(types, k)))]
           link == <<To("bl", << >>, Op(1))>>
           reply == CASE Instr.ty = Void  -> << >>
                      [] Instr.ty = Float -> store_from_freg(Result, "fa0")
                      [] OTHER            -> store_from_greg(Result, "a0")
           code == Concat(args) \o link \o reply
<1>1. Translating({"call"}) /\ Emit(code) /\ UNCHANGED fcmp_cnt
  BY DEF gen_call
<1>2. /\ Instr.op = "call" /\ Len(Instr.args) \in Nat \ {0}
      /\ Len(types) = Len(Instr.args) - 1 /\ DOMAIN types = 1 .. Len(types)
      /\ \A k \in 1 .. Len(types) : types[k] = Op(k + 1).ty
  <2>1. FormedInstruction(Instr, func) /\ Instr.op = "call" /\ Len(Instr.args) \in Nat
    BY <1>1, InHand
  <2>2. OperandsNeeded(Instr) = 1
    BY <2>1 DEF OperandsNeeded, IntBinary, FloatBinary, IntCompare, FloatCompare
  <2>3. types = [k \in 1 .. Len(Instr.args) - 1 |-> Op(k + 1).ty]
    BY <2>1 DEF FormedInstruction, WellFormed, Op
  <2>4. Len(Instr.args) \in Nat \ {0} /\ Len(Instr.args) - 1 \in Nat
    BY <2>1, <2>2 DEF FormedInstruction
  <2> HIDE DEF types
  <2>5. DOMAIN types = 1 .. Len(Instr.args) - 1 /\ Len(types) = Len(Instr.args) - 1
    BY <2>3, <2>4
  <2> QED BY <2>1, <2>3, <2>4, <2>5
<1>3. \A k \in 1 .. Len(types) : Quiet(args[k])
  <2> TAKE k \in 1 .. Len(types)
  <2>1. k + 1 \in 1 .. Len(Instr.args) /\ k + 1 # 1
    BY <1>2
  <2>2. \A r : /\ Quiet(load_to_greg(Op(k + 1), r))
               /\ types[k] = Float => Quiet(load_to_freg(Op(k + 1), r))
    BY <1>1, <1>2, <2>1, OperandQuiet
  <2> QED BY <1>2, <2>2
<1>4. Quiet(Concat(args))
  <2>1. DOMAIN args = 1 .. Len(types) /\ Len(args) = Len(types)
    BY <1>2
  <2> HIDE DEF args, types
  <2> QED BY <1>2, <1>3, <2>1, ConcatQuiet
<1>5. Quiet(link)
  <2> DEFINE x == To("bl", << >>, Op(1))
  <2>1. Writable(x) /\ x.op \notin Jumping \cup {"label"}
    BY ToLine DEF Jumping, Wide
  <2> HIDE DEF x
  <2>2. Quiet(<<x>>)
    BY <2>1, OneLine
  <2> QED BY <2>2 DEF x
<1>6. Quiet(reply)
  <2>1. CASE Instr.ty = Void
    <3>1. Quiet(<< >>)
      BY DEF Quiet, IsAssembly, IsSeq
    <3>2. Void # Float
      BY DEF Void, Float
    <3> QED BY <2>1, <3>1, <3>2
  <2>2. CASE Instr.ty # Void
    <3>1. ~ is_void(Instr)
      BY <1>2, <2>2 DEF is_void
    <3>2. Quiet(store_from_freg(Result, "fa0")) /\ Quiet(store_from_greg(Result, "a0"))
      BY <1>1, <3>1, ResultQuiet
    <3> QED BY <2>2, <3>2
  <2> QED BY <2>1, <2>2
<1> HIDE DEF args, link, reply
<1>7. Quiet(code)
  BY <1>4, <1>5, <1>6, QuietJoined
<1> QED BY <1>1, <1>7, EmitQuiet

(* Quiet code that ends with a jump.                                       *)
LEMMA QuietJump ==
  ASSUME NEW s, Quiet(s), NEW op \in Jumping, NEW regs, NEW l
  PROVE  LET code == s \o <<To(op, regs, l)>>
         IN  /\ IsAssembly(code) /\ Once(code)
             /\ LabelsOf(code) = {} /\ JumpsOf(code) = {l}
<1> DEFINE t == <<To(op, regs, l)>>
<1>1. IsAssembly(t) /\ Once(t) /\ LabelsOf(t) = {} /\ JumpsOf(t) = {l}
  BY JumpLine
<1>2. IsAssembly(s) /\ Once(s) /\ LabelsOf(s) = {} /\ JumpsOf(s) = {}
  BY QuietSays
<1> HIDE DEF t
<1>3. IsAssembly(s \o t) /\ Once(s \o t) /\ LabelsOf(s \o t) = {} /\ JumpsOf(s \o t) = {l}
  BY <1>1, <1>2, Joined
<1> QED BY <1>3 DEF t

LEMMA RetLabels == ASSUME FittingInv, LabelsInv, gen_ret PROVE LabelsInv'
<1> DEFINE value == CASE func.ret = Void  -> <<Asm("addi.w", <<"a0", "zero">>, 0)>>
                      [] func.ret = Float -> load_to_freg(Op(1), "fa0")
                      [] OTHER            -> load_to_greg(Op(1), "a0")
           code == value \o <<To("b", << >>, func_exit_label_name)>>
<1>1. Translating({"ret"}) /\ Emit(code) /\ UNCHANGED fcmp_cnt
  BY DEF gen_ret
<1>2. Quiet(value)
  <2>1. Quiet(<<Asm("addi.w", <<"a0", "zero">>, 0)>>)
    BY AsmQuiet DEF Jumping, Wide
  <2>2. Void # Float
    BY DEF Void, Float
  <2>3. Instr.op = "ret" /\ (func.ret # Void => 1 \in 1 .. Len(Instr.args) /\ Op(1).ty = func.ret)
    BY <1>1, InHand, Operands
  <2>4. func.ret # Void => /\ Quiet(load_to_greg(Op(1), "a0"))
                           /\ func.ret = Float => Quiet(load_to_freg(Op(1), "fa0"))
    BY <1>1, <2>3, OperandQuiet
  <2>5. CASE func.ret = Void
    BY <2>1, <2>2, <2>5
  <2>6. CASE func.ret # Void
    BY <2>4, <2>6
  <2> QED BY <2>5, <2>6
<1> HIDE DEF value
<1>3. IsAssembly(code) /\ Once(code) /\ LabelsOf(code) = {} /\ JumpsOf(code) = {func_exit_label_name}
  BY <1>2, QuietJump DEF Jumping, Wide
<1>4. fcmp_cnt' \in Nat /\ fcmp_cnt <= fcmp_cnt'
  BY <1>1 DEF LabelsInv
<1> HIDE DEF code
<1> QED BY <1>1, <1>3, <1>4, EmitInv

LEMMA BrLabels == ASSUME FittingInv, LabelsInv, gen_br PROVE LabelsInv'
<1> DEFINE jump == <<To("b", << >>, label_name(Instr.to[1]))>>
           quiet == load_to_greg(Op(1), "t0")
           pick == <<Asm("bstrpick.d", <<"t0", "t0">>, 0)>>
           taken == <<To("bne", <<"t0", "zero">>, label_name(Instr.to[1]))>>
           other == <<To("b", << >>, label_name(Instr.to[2]))>>
           tail == <<Asm("bstrpick.d", <<"t0", "t0">>, 0),
                     To("bne", <<"t0", "zero">>, label_name(Instr.to[1])),
                     To("b", << >>, label_name(Instr.to[2]))>>
           code == IF Instr.args = << >> THEN jump ELSE quiet \o tail
<1>1. Translating({"br"}) /\ Emit(code) /\ UNCHANGED fcmp_cnt
  BY DEF gen_br
<1>2. FormedInstruction(Instr, func) /\ Instr.op = "br"
  BY <1>1, InHand
<1>3. IsAssembly(code) /\ Once(code) /\ LabelsOf(code) = {} /\ JumpsOf(code) \subseteq BlockLabels
  <2>1. CASE Instr.args = << >>
    <3>1. label_name(Instr.to[1]) \in BlockLabels
      <4>1. \A k \in 1 .. 1 : Instr.to[k] \in DOMAIN func.blocks
        BY <1>2, <2>1 DEF FormedInstruction
      <4> QED BY <4>1 DEF BlockLabels
    <3>2. IsAssembly(jump) /\ Once(jump) /\ LabelsOf(jump) = {} /\ JumpsOf(jump) = {label_name(Instr.to[1])}
      BY JumpLine DEF Jumping, Wide
    <3> HIDE DEF jump
    <3> QED BY <2>1, <3>1, <3>2
  <2>2. CASE Instr.args # << >>
    <3>1. label_name(Instr.to[1]) \in BlockLabels /\ label_name(Instr.to[2]) \in BlockLabels
      <4>1. \A k \in 1 .. 2 : Instr.to[k] \in DOMAIN func.blocks
        BY <1>2, <2>2 DEF FormedInstruction
      <4>2. Instr.to[1] \in DOMAIN func.blocks /\ Instr.to[2] \in DOMAIN func.blocks
        BY <4>1
      <4> QED BY <4>2 DEF BlockLabels
    <3>2. Quiet(quiet)
      BY <1>1, <1>2, <2>2, Operands, OperandQuiet
    <3>3. Quiet(pick)
      BY AsmQuiet DEF Jumping, Wide
    <3>4. IsAssembly(taken) /\ Once(taken) /\ LabelsOf(taken) = {} /\ JumpsOf(taken) = {label_name(Instr.to[1])}
      BY JumpLine DEF Jumping, Wide
    <3>5. IsAssembly(other) /\ Once(other) /\ LabelsOf(other) = {} /\ JumpsOf(other) = {label_name(Instr.to[2])}
      BY JumpLine DEF Jumping, Wide
    <3>6. tail = pick \o (taken \o other)
      OBVIOUS
    <3> HIDE DEF quiet, pick, taken, other, tail
    <3>7. /\ IsAssembly(taken \o other) /\ Once(taken \o other) /\ LabelsOf(taken \o other) = {}
          /\ JumpsOf(taken \o other) = {label_name(Instr.to[1]), label_name(Instr.to[2])}
      BY <3>4, <3>5, Joined
    <3>8. /\ IsAssembly(quiet) /\ Once(quiet) /\ LabelsOf(quiet) = {} /\ JumpsOf(quiet) = {}
          /\ IsAssembly(pick) /\ Once(pick) /\ LabelsOf(pick) = {} /\ JumpsOf(pick) = {}
      BY <3>2, <3>3, QuietSays
    <3>9. IsAssembly(tail) /\ Once(tail) /\ LabelsOf(tail) = {} /\ JumpsOf(tail) = JumpsOf(taken \o other)
      BY <3>6, <3>7, <3>8, Joined
    <3>10. /\ IsAssembly(quiet \o tail) /\ Once(quiet \o tail) /\ LabelsOf(quiet \o tail) = {}
           /\ JumpsOf(quiet \o tail) = JumpsOf(tail)
      <4>1. IsAssembly(quiet \o tail) /\ Once(quiet \o tail) /\ LabelsOf(quiet \o tail) = {}
        BY <3>8, <3>9, Joined
      <4>2. JumpsOf(quiet \o tail) = JumpsOf(quiet) \cup JumpsOf(tail)
        BY <3>8, <3>9, Joined
      <4> QED BY <3>8, <4>1, <4>2
    <3> QED BY <2>2, <3>1, <3>7, <3>9, <3>10
  <2> QED BY <2>1, <2>2
<1>4. fcmp_cnt' \in Nat /\ fcmp_cnt <= fcmp_cnt'
  BY <1>1 DEF LabelsInv
<1> HIDE DEF code
<1> QED BY <1>1, <1>3, <1>4, EmitInv

(* A comparison of floats makes one label, and jumps there.                *)
LEMMA FcmpStepLabels == ASSUME FittingInv, LabelsInv, gen_fcmp PROVE LabelsInv'
<1> DEFINE fcmp(c, l, r) == <<Asm(c, <<"fcc0", l, r>>, 0)>>
           skip == fcmp_label_name(next[1], fcmp_cnt)
           test == CASE Instr.op = "fge" -> fcmp("fcmp.sle.s", "ft1", "ft0")
                     [] Instr.op = "fgt" -> fcmp("fcmp.slt.s", "ft1", "ft0")
                     [] Instr.op = "fle" -> fcmp("fcmp.sle.s", "ft0", "ft1")
                     [] Instr.op = "flt" -> fcmp("fcmp.slt.s", "ft0", "ft1")
                     [] Instr.op = "feq" -> fcmp("fcmp.seq.s", "ft0", "ft1")
                     [] Instr.op = "fne" -> fcmp("fcmp.sne.s", "ft0", "ft1")
           one == <<Asm("addi.w", <<"t0", "zero">>, 1)>>
           jump == <<To("bcnez", <<"fcc0">>, skip)>>
           zero == <<Asm("addi.w", <<"t0", "zero">>, 0)>>
           label == <<Label(skip)>>
           around == <<Asm("addi.w", <<"t0", "zero">>, 1), To("bcnez", <<"fcc0">>, skip),
                       Asm("addi.w", <<"t0", "zero">>, 0), Label(skip)>>
           before == load_to_freg(Op(1), "ft0") \o load_to_freg(Op(2), "ft1") \o test
           after == store_from_greg(Result, "t0")
           code == before \o around \o after
<1>1. Translating(FloatCompare) /\ Emit(code) /\ fcmp_cnt' = fcmp_cnt + 1
  BY DEF gen_fcmp
<1>2. Instr.op \in FloatCompare /\ ~ is_void(Instr) /\ next[1] \in Nat
  BY <1>1, InHand DEF is_void, FloatCompare
<1>3. Quiet(before)
  <2>1. Quiet(load_to_freg(Op(1), "ft0")) /\ Quiet(load_to_freg(Op(2), "ft1"))
    BY <1>1, <1>2, Operands, OperandQuiet DEF FloatCompare
  <2>2. Quiet(test)
    <3>1. \A l, r : /\ Quiet(fcmp("fcmp.sle.s", l, r)) /\ Quiet(fcmp("fcmp.slt.s", l, r))
                    /\ Quiet(fcmp("fcmp.seq.s", l, r)) /\ Quiet(fcmp("fcmp.sne.s", l, r))
      BY AsmQuiet DEF Jumping, Wide
    <3> HIDE DEF fcmp
    <3> QED BY <1>2, <3>1 DEF FloatCompare
  <2> HIDE DEF test
  <2> QED BY <2>1, <2>2, QuietJoined
<1>4. Quiet(after)
  BY <1>1, <1>2, ResultQuiet
<1>5. IsAssembly(around) /\ Once(around) /\ LabelsOf(around) = {skip} /\ JumpsOf(around) = {skip}
  <2>1. Quiet(one) /\ Quiet(zero)
    BY AsmQuiet DEF Jumping, Wide
  <2>2. IsAssembly(jump) /\ Once(jump) /\ LabelsOf(jump) = {} /\ JumpsOf(jump) = {skip}
    BY JumpLine DEF Jumping, Wide
  <2>3. IsAssembly(label) /\ Once(label) /\ LabelsOf(label) = {skip} /\ JumpsOf(label) = {}
    BY LabelLine
  <2>4. around = one \o (jump \o (zero \o label))
    OBVIOUS
  <2> HIDE DEF one, zero, jump, label, around, skip
  <2>5. /\ IsAssembly(one) /\ Once(one) /\ LabelsOf(one) = {} /\ JumpsOf(one) = {}
        /\ IsAssembly(zero) /\ Once(zero) /\ LabelsOf(zero) = {} /\ JumpsOf(zero) = {}
    BY <2>1, QuietSays
  <2>6. /\ IsAssembly(zero \o label) /\ Once(zero \o label)
        /\ LabelsOf(zero \o label) = {skip} /\ JumpsOf(zero \o label) = {}
    BY <2>3, <2>5, Joined
  <2> DEFINE u == zero \o label
             v == jump \o u
  <2> HIDE DEF u
  <2>7. IsAssembly(v) /\ Once(v) /\ LabelsOf(v) = {skip} /\ JumpsOf(v) = {skip}
    BY <2>2, <2>6, Joined DEF u
  <2> HIDE DEF v
  <2>8. /\ IsAssembly(one \o v) /\ Once(one \o v)
        /\ LabelsOf(one \o v) = {skip} /\ JumpsOf(one \o v) = {skip}
    BY <2>5, <2>7, Joined
  <2> QED BY <2>4, <2>8 DEF u, v
<1> HIDE DEF before, after, around
<1>6. IsAssembly(code) /\ Once(code) /\ LabelsOf(code) = {skip} /\ JumpsOf(code) = {skip}
  <2>1. /\ IsAssembly(before) /\ Once(before) /\ LabelsOf(before) = {} /\ JumpsOf(before) = {}
        /\ IsAssembly(after) /\ Once(after) /\ LabelsOf(after) = {} /\ JumpsOf(after) = {}
    BY <1>3, <1>4, QuietSays
  <2> DEFINE u == before \o around
  <2>2. IsAssembly(u) /\ Once(u) /\ LabelsOf(u) = {skip} /\ JumpsOf(u) = {skip}
    BY <1>5, <2>1, Joined
  <2>3. code = u \o after
    OBVIOUS
  <2> HIDE DEF u, code
  <2> QED BY <2>1, <2>2, <2>3, Joined
<1>7. fcmp_cnt \in Nat /\ fcmp_cnt' \in Nat /\ fcmp_cnt <= fcmp_cnt'
      /\ fcmp_cnt \in fcmp_cnt .. fcmp_cnt' - 1
  BY <1>1 DEF LabelsInv
<1>8. skip \in FcmpLabels(fcmp_cnt, fcmp_cnt')
  BY <1>2, <1>7 DEF FcmpLabels
<1> HIDE DEF code, skip
<1> QED BY <1>1, <1>6, <1>7, <1>8, EmitInv

LEMMA CloseQuiet ==
  ASSUME FittingInv, frame_size # 0
  PROVE  Quiet(Close)
<1>1. /\ IS_IMM_12(frame_size) => Quiet(<<Asm("addi.d", <<"sp", "sp">>, frame_size)>>)
      /\ Quiet(<<Asm("add.d", <<"sp", "sp", "t0">>, 0)>>)
  BY AsmQuiet, ImmQuiet DEF Jumping, Wide
<1> QED BY <1>1, FrameLoads, QuietJoined DEF Close

(* The exit comes behind the last instruction, once.                       *)
LEMMA EpilogueInv == ASSUME FittingInv, LabelsInv, gen_epilogue PROVE LabelsInv'
<1> DEFINE n == Len(func.blocks)
           back == <<Asm("ld.d", <<"ra", "sp">>, -8), Asm("ld.d", <<"fp", "sp">>, -16),
                     Asm("jr", <<"ra">>, 0)>>
           exit == <<Label(func_exit_label_name)>>
           code == exit \o Close \o back
<1>1. /\ next[1] = n + 1 /\ Lines(code) /\ next' = <<next[1] + 1, 1>>
      /\ UNCHANGED <<func, fcmp_cnt>>
  BY DEF gen_epilogue
<1>2. func \in Functions /\ n \in Nat /\ DOMAIN func.blocks = 1 .. n /\ next[2] \in Nat /\ fcmp_cnt \in Nat
  BY FormedFacts DEF LabelsInv
<1>a. Quiet(Close)
  <2>1. next # <<1, 0>>
    BY <1>1, <1>2, FormedFacts
  <2> QED BY <2>1, CloseQuiet DEF FittingInv
<1>3. Quiet(Close \o back)
  <2> DEFINE two == <<Asm("ld.d", <<"ra", "sp">>, -8), Asm("ld.d", <<"fp", "sp">>, -16)>>
             one == <<Asm("jr", <<"ra">>, 0)>>
  <2>1. Quiet(two) /\ Quiet(one)
    BY AsmQuiet, TwoQuiet DEF Jumping, Wide
  <2>2. back = two \o one
    OBVIOUS
  <2> HIDE DEF two, one, back
  <2> QED BY <1>a, <2>1, <2>2, QuietJoined
<1>4. /\ IsAssembly(exit) /\ Once(exit)
      /\ LabelsOf(exit) = {func_exit_label_name} /\ JumpsOf(exit) = {}
  BY LabelLine
<1>5. code = exit \o (Close \o back)
  <2>1. exit \in Seq({Label(func_exit_label_name)})
    OBVIOUS
  <2>2. back \in Seq({Asm("ld.d", <<"ra", "sp">>, -8), Asm("ld.d", <<"fp", "sp">>, -16), Asm("jr", <<"ra">>, 0)})
    OBVIOUS
  <2> HIDE DEF exit, back
  <2>3. IsSeq(Close)
    BY <1>a DEF Quiet, IsAssembly
  <2> QED BY <2>1, <2>2, <2>3 DEF IsSeq
<1> HIDE DEF exit, back, code
<1>6. /\ IsAssembly(Close \o back) /\ Once(Close \o back)
      /\ LabelsOf(Close \o back) = {} /\ JumpsOf(Close \o back) = {}
  BY <1>3, QuietSays
<1>7. /\ IsAssembly(code) /\ Once(code)
      /\ LabelsOf(code) = {func_exit_label_name} /\ JumpsOf(code) = {}
  <2> DEFINE u == Close \o back
  <2>1. IsAssembly(u) /\ Once(u) /\ LabelsOf(u) = {} /\ JumpsOf(u) = {} /\ code = exit \o u
    BY <1>5, <1>6
  <2> HIDE DEF u
  <2> QED BY <1>4, <2>1, Joined
<1>8. ~ Generated /\ Generated'
  BY <1>1, <1>2 DEF Generated
<1>9. \A b \in DOMAIN func.blocks : Begun(b) /\ Begun(b)'
  BY <1>1, <1>2 DEF Begun
<1>10. LabelsOf(output) \subseteq {label_name(b) : b \in DOMAIN func.blocks} \cup FcmpLabels(0, fcmp_cnt)
  BY <1>8 DEF LabelsInv
<1>11. LabelsOf(output) \cap LabelsOf(code) = {}
  BY <1>7, <1>10, LabelsDiffer DEF FcmpLabels
<1>12. /\ IsAssembly(output') /\ Once(output')
       /\ LabelsOf(output') = LabelsOf(output) \cup {func_exit_label_name}
       /\ JumpsOf(output') = JumpsOf(output)
  BY <1>1, <1>7, <1>11, LinesAdd DEF LabelsInv
<1>13. LabelsOf(output') \subseteq
         {label_name(b) : b \in {k \in DOMAIN func.blocks : Begun(k)'}} \cup FcmpLabels(0, fcmp_cnt)
           \cup {func_exit_label_name}
  BY <1>9, <1>10, <1>12
<1>14. \A b \in DOMAIN func.blocks : label_name(b) \in LabelsOf(output')
  BY <1>9, <1>12 DEF LabelsInv
<1>15. JumpsOf(output') \subseteq BlockLabels \cup {func_exit_label_name} \cup LabelsOf(output')
  BY <1>12 DEF LabelsInv
<1>16. /\ next'[1] = n + 2 /\ next'[2] = 1 /\ next' = <<next'[1], next'[2]>>
       /\ next'[1] \notin DOMAIN func.blocks
  BY <1>1, <1>2
<1>17. FcmpLabels(0, fcmp_cnt)' = FcmpLabels(0, fcmp_cnt) /\ BlockLabels' = BlockLabels
  BY <1>1 DEF FcmpLabels, BlockLabels
<1>18. next'[1] \in 1 .. n + 2 /\ next'[2] \in Nat
  BY <1>2, <1>16
<1> QED
  BY <1>1, <1>2, <1>8, <1>12, <1>13, <1>14, <1>15, <1>16, <1>17, <1>18 DEF LabelsInv

LEMMA LabelsKept ==
  ASSUME LabelsInv, UNCHANGED <<func, next, output, fcmp_cnt>>
  PROVE  LabelsInv'
BY DEF LabelsInv, Begun, BlockLabels, Generated, FcmpLabels

LEMMA GenerateLabels == ASSUME FittingInv, LabelsInv, Generate PROVE LabelsInv'
<1>1. CASE Allocate
  BY <1>1, LabelsKept DEF Allocate
<1>2. CASE gen_prologue \/ gen_epilogue
  BY <1>2, PrologueInv, EpilogueInv
<1>3. CASE gen_ret \/ gen_br \/ gen_binary \/ gen_float_binary
  BY <1>3, RetLabels, BrLabels, BinaryLabels, FloatBinaryLabels
<1>4. CASE gen_alloca \/ gen_load \/ gen_store
  BY <1>4, AllocaLabels, LoadLabels, StoreLabels
<1>5. CASE gen_icmp \/ gen_fcmp \/ gen_zext
  BY <1>5, IcmpLabels, FcmpStepLabels, ZextLabels
<1>6. CASE gen_call \/ gen_gep \/ gen_sitofp \/ gen_fptosi
  BY <1>6, CallLabels, GepLabels, ConversionLabels
<1> QED
  BY <1>1, <1>2, <1>3, <1>4, <1>5, <1>6 DEF Generate

LEMMA NextLabels == ASSUME FittingInv, LabelsInv, [Next]_vars PROVE LabelsInv'
<1>1. CASE Compile
  BY <1>1, GenerateLabels DEF Compile
<1>2. CASE Execute \/ Finished \/ UNCHANGED vars
  BY <1>2, LabelsKept DEF Execute, Finished, vars, codegen
<1> QED
  BY <1>1, <1>2 DEF Next

(* Before the first line there are no labels and no jumps.                 *)
LEMMA InitLabels == ASSUME Init PROVE LabelsInv
<1>1. func \in Functions /\ next = <<1, 0>> /\ output = << >> /\ fcmp_cnt = 0
  BY DEF Init, GenerateInit
<1>2. /\ Len(func.blocks) \in Nat /\ DOMAIN func.blocks = 1 .. Len(func.blocks)
      /\ \A b \in DOMAIN func.blocks : Len(func.blocks[b].code) \in Nat
  BY <1>1, FormedFacts
<1>3. IsAssembly(output) /\ Once(output) /\ LabelsOf(output) = {} /\ JumpsOf(output) = {}
  BY <1>1 DEF IsAssembly, IsSeq, Once, JumpsOf, LabelsOf
<1>4. ~ Generated /\ \A b \in DOMAIN func.blocks : ~ Begun(b)
  BY <1>1, <1>2 DEF Generated, Begun
<1>5. /\ next[1] = 1 /\ next[2] = 0 /\ next[1] \in 1 .. Len(func.blocks) + 2
      /\ next[1] \in DOMAIN func.blocks => next[2] <= Len(func.blocks[next[1]].code)
  BY <1>1, <1>2
<1> QED
  BY <1>1, <1>3, <1>4, <1>5 DEF LabelsInv

(* What is in the output can be encoded, and when all is generated, what   *)
(* is jumped to has been made, and made once.                              *)
LEMMA LabelsSuffice == ASSUME LabelsInv PROVE Encodable
<1>0. \A i \in DOMAIN output : Fits(output[i])
  BY DEF LabelsInv, IsAssembly, Writable
<1> SUFFICES ASSUME Generated, NEW i \in DOMAIN output, output[i].op \in Jumping \cup {"label"}
             PROVE  Cardinality(Named(output[i].to)) = 1
  BY <1>0 DEF Encodable, Jumping
<1> DEFINE l == output[i].to
<1>1. BlockLabels \cup {func_exit_label_name} \subseteq LabelsOf(output)
  BY FormedFacts DEF LabelsInv, BlockLabels, Begun, Generated
<1>2. l \in LabelsOf(output)
  <2>1. CASE output[i].op = "label"
    BY <2>1 DEF LabelsOf
  <2>2. CASE output[i].op \in Jumping
    BY <1>1, <2>2 DEF JumpsOf, LabelsInv
  <2> QED BY <2>1, <2>2
<1> HIDE DEF l
<1>3. PICK j \in DOMAIN output : output[j].op = "label" /\ output[j].to = l
  BY <1>2 DEF LabelsOf
<1>4. \A k \in DOMAIN output : output[k].op = "label" /\ output[k].to = l => k = j
  BY <1>3 DEF LabelsInv, Once
<1>5. Named(l) = {j}
  BY <1>3, <1>4 DEF Named
<1> QED
  BY <1>5, FS_Singleton DEF l

(* For every set of functions and on every input: no byte of a function's  *)
(* frame has two uses, at any time from the first slot that is placed on.  *)
THEOREM FrameDisjoint == Spec => []SlotsDisjoint
<1>1. Init => FrameInv
  BY BeginInv, FunctionsMeasured DEF Init, GenerateInit
<1>2. FrameInv /\ [Next]_vars => FrameInv'
  BY NextFrame, StepInv
<1>3. FrameInv => SlotsDisjoint
  BY InvDisjoint
<1> QED
  BY <1>1, <1>2, <1>3, PTL DEF Spec

(* For every set of functions whose frames an int can count: the assembler *)
(* can encode every line.  Each immediate has the width of its field, and  *)
(* in the finished assembly every label is there once and every b, bne and *)
(* bcnez goes to one that is there: that of a block, that of the exit, or  *)
(* the comparison's own.                                                   *)
THEOREM EncodableAlways == Spec => []Encodable
<1>1. Init => FittingInv /\ LabelsInv
  BY InitFitting, InitLabels
<1>2. FittingInv /\ LabelsInv /\ [Next]_vars => FittingInv' /\ LabelsInv'
  BY NextFitting, NextLabels
<1>3. LabelsInv => Encodable
  BY LabelsSuffice
<1> QED
  BY <1>1, <1>2, <1>3, PTL DEF Spec
=============================================================================
