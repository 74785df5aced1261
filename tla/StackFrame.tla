------------------------------ MODULE StackFrame ------------------------------
(***************************************************************************)
(* CodeGen::allocate(): where a function's values lie below its frame      *)
(* pointer.  Each value gets a slot of its own size, an alloca also the    *)
(* space it allocates, right below its slot.  One step is one value.       *)
(***************************************************************************)
EXTENDS Integers, Sequences

VARIABLES
  order,               \* the values to be placed: [val, size, space], args first
  offset_map,          \* the offsets from $fp of those placed so far
  offset,              \* the bytes used so far
  frame_size           \* zero until the frame is complete

frame == <<order, offset_map, offset, frame_size>>

PROLOGUE_OFFSET_BASE == 16        \* $ra and $fp
PROLOGUE_ALIGN == 16
ALIGN(x, alignment) == ((x + alignment - 1) \div alignment) * alignment

(* Every value has a size; an alloca may allocate nothing.                 *)
Measured(values) ==
  /\ values \in Seq({values[i] : i \in DOMAIN values})
  /\ \A i \in DOMAIN values : values[i].size \in Nat \ {0} /\ values[i].space \in Nat

(* The bytes the frame of these values takes.                              *)
Footprint(values) ==
  LET upto[i \in 0 .. Len(values)] ==
        IF i = 0 THEN PROLOGUE_OFFSET_BASE ELSE upto[i - 1] + values[i].size + values[i].space
  IN upto[Len(values)]

Begin(values) ==
  /\ order = values
  /\ offset_map = << >> /\ offset = PROLOGUE_OFFSET_BASE
  /\ frame_size = 0

Unplaced == order[Len(offset_map) + 1]

(* Mutant: the space of an alloca is not counted.                          *)
MutantPlace ==
  /\ Len(offset_map) < Len(order)
  /\ offset_map' = Append(offset_map, -(offset + Unplaced.size))
  /\ offset' = offset + Unplaced.size
  /\ UNCHANGED <<order, frame_size>>

Place ==
  /\ Len(offset_map) < Len(order)
  /\ offset_map' = Append(offset_map, -(offset + Unplaced.size))
  /\ offset' = offset + Unplaced.size + Unplaced.space
  /\ UNCHANGED <<order, frame_size>>

Complete ==
  /\ Len(offset_map) = Len(order) /\ frame_size = 0
  /\ frame_size' = ALIGN(offset, PROLOGUE_ALIGN)
  /\ UNCHANGED <<order, offset_map, offset>>

allocate == Place \/ Complete

-----------------------------------------------------------------------------
(* The bytes of a value, as offsets from $fp: its slot and, below, its     *)
(* space.                                                                  *)
Bytes(i)  == offset_map[i] - order[i].space .. offset_map[i] + order[i].size - 1
SaveArea  == -PROLOGUE_OFFSET_BASE .. -1

(* No byte of the frame has two uses: the slots, the spaces of the allocas *)
(* and the saved $ra and $fp are apart, and all of them are inside it.     *)
SlotsDisjoint ==
  /\ \A i, j \in DOMAIN offset_map : i # j => Bytes(i) \cap Bytes(j) = {}
  /\ \A i \in DOMAIN offset_map : Bytes(i) \cap SaveArea = {}
  /\ frame_size # 0 =>
       /\ frame_size % PROLOGUE_ALIGN = 0
       /\ \A i \in DOMAIN offset_map : Bytes(i) \subseteq -frame_size .. -1
=============================================================================
