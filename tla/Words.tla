-------------------------------- MODULE Words --------------------------------
(***************************************************************************)
(* Arithmetic of the target, with every width scaled down: an immediate    *)
(* of 12 bits has LO bits here, one of 20 bits has HI, so a word of 32     *)
(* bits has LO + HI and a double word twice that.  All three machines      *)
(* (source, IR, LoongArch) compute with these operators.                   *)
(*                                                                         *)
(* A float is its bit pattern, a word; pattern n stands for n / 2, so that *)
(* a conversion is never the identity and fptosi has something to cut off. *)
(***************************************************************************)
EXTENDS Integers

CONSTANTS LO, HI

ASSUME WidthAssumption == LO \in Nat \ {0} /\ HI \in Nat \ {0}

WordBits   == LO + HI
DoubleBits == 2 * WordBits

(* The low bits of n as a signed number.                                   *)
Signed(n, bits) == ((n + 2 ^ (bits - 1)) % 2 ^ bits) - 2 ^ (bits - 1)
Word(n)   == Signed(n, WordBits)
Double(n) == Signed(n, DoubleBits)

(* Division towards zero; what n / 0 gives is left open by the programs.   *)
Sign(n)    == IF n < 0 THEN -1 ELSE 1
Abs(n)     == Sign(n) * n
Quot(a, b) == IF b = 0 THEN 0 ELSE Sign(a) * Sign(b) * (Abs(a) \div Abs(b))

SiToFp(n) == Word(2 * n)
FpToSi(x) == Quot(x, 2)

Bool(p) == IF p THEN 1 ELSE 0

(* The operations of the IR; a comparison gives 0 or 1.                    *)
Apply(op, a, b) ==
  CASE op = "add"  -> Word(a + b)          [] op = "fadd" -> Word(a + b)
    [] op = "sub"  -> Word(a - b)          [] op = "fsub" -> Word(a - b)
    [] op = "mul"  -> Word(a * b)          [] op = "fmul" -> Word(Quot(a * b, 2))
    [] op = "sdiv" -> Word(Quot(a, b))     [] op = "fdiv" -> Word(Quot(2 * a, b))
    [] op \in {"lt", "flt"} -> Bool(a < b) [] op \in {"ge", "fge"} -> Bool(a >= b)
    [] op \in {"gt", "fgt"} -> Bool(a > b) [] op \in {"le", "fle"} -> Bool(a <= b)
    [] op \in {"eq", "feq"} -> Bool(a = b) [] op \in {"ne", "fne"} -> Bool(a # b)
=============================================================================
