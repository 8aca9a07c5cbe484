------------------------------- MODULE Words --------------------------------
(***************************************************************************)
(* Words as the instructions of the machine compute with them              *)
(* (machine/instructions): a register holds 0 .. WordMod - 1, and a value  *)
(* is an int or a Word depending on how the code casts it.  Everything     *)
(* scales with the width of a byte.  What C++ leaves undefined is taken as *)
(* on x86, for which the machine is built: shifts use the amount modulo    *)
(* the width, char is signed, and a division without a result ends the     *)
(* program.                                                                *)
(***************************************************************************)
EXTENDS Integers

CONSTANTS ByteBits, \* 8 in the code
          WordAnd(_, _), WordOr(_, _), WordXor(_, _) \* &, | and ^

ByteMod == 2 ^ ByteBits
HalfMod == ByteMod * ByteMod
WordBits == 4 * ByteBits
WordMod == HalfMod * HalfMod

WordSet == 0 .. WordMod - 1

ASSUME WordsAssumption ==
  /\ ByteBits \in Nat \ {0}
  /\ \A s, t \in WordSet :
       {WordAnd(s, t), WordOr(s, t), WordXor(s, t)} \subseteq WordSet

Word(i) == i % WordMod
HalfWord(i) == i % HalfMod
Signed(w) == IF w < WordMod \div 2 THEN w ELSE w - WordMod

\* char and short.
Extended(v, mod) == Word(IF v < mod \div 2 THEN v ELSE v - mod)

IsInt(i) == -(WordMod \div 2) <= i /\ i < WordMod \div 2

Amount(w) == w % WordBits

Flag(b) == IF b THEN 1 ELSE 0

-----------------------------------------------------------------------------
(* Results, by instruction *)

Shifted(t, n) == [SLL |-> Word(t * 2 ^ n),
                  SRL |-> t \div 2 ^ n,
                  SRA |-> Word(Signed(t) \div 2 ^ n)]

\* R-type with two operands; d is what the register holds, for MOVN.
Computed(s, t, d) ==
  [ADDU |-> Word(s + t),
   SUBU |-> Word(s - t),
   AND  |-> WordAnd(s, t),
   OR   |-> WordOr(s, t),
   XOR  |-> WordXor(s, t),
   NOR  |-> WordMod - 1 - WordOr(s, t),
   SLT  |-> Flag(Signed(s) < Signed(t)),
   SLTU |-> Flag(s < t),
   MOVN |-> IF t # 0 THEN s ELSE d,
   MUL  |-> Word(Signed(s) * Signed(t)),
   SLLV |-> Shifted(t, Amount(s)).SLL,
   SRLV |-> Shifted(t, Amount(s)).SRL,
   SRAV |-> Shifted(t, Amount(s)).SRA]

\* I-type; imm is a short.
Immediate(s, imm) ==
  [ADDIU |-> Word(s + imm),
   ANDI  |-> WordAnd(s, HalfWord(imm)),
   ORI   |-> WordOr(s, HalfWord(imm)),
   XORI  |-> WordXor(s, HalfWord(imm)),
   SLTI  |-> Flag(Signed(s) < imm),
   SLTIU |-> Flag(s < HalfWord(imm)),
   LUI   |-> Word(HalfWord(imm) * HalfMod)]

\* Before they are cut to a word.
ExactSum(s, t, imm) == [ADD  |-> Signed(s) + Signed(t),
                   SUB  |-> Signed(s) - Signed(t),
                   ADDI |-> Signed(s) + imm]

Product(s, t) == [MULT |-> Signed(s) * Signed(t), MULTU |-> s * t]

\* / and % of int: towards zero.
AbsInt(i) == IF i < 0 THEN -i ELSE i

Truncated(a, b) ==
  LET q == AbsInt(a) \div AbsInt(b) IN IF (a < 0) = (b < 0) THEN q ELSE -q

\* Faulty variant: / rounds down.
Floored(a, b) == IF b > 0 THEN a \div b ELSE (-a) \div (-b)

Quotient(a, b) == Truncated(a, b)
Remainder(a, b) == a - b * Truncated(a, b)

Taken(s, t) == [BEQ  |-> s = t,
                BNE  |-> s # t,
                BGEZ |-> Signed(s) >= 0,
                BGTZ |-> Signed(s) > 0,
                BLEZ |-> Signed(s) <= 0,
                BLTZ |-> Signed(s) < 0]

-----------------------------------------------------------------------------
(* Memory, big endian *)

Width == [LB |-> 1, LBU |-> 1, LH |-> 2, LHU |-> 2, LW |-> 4,
          SB |-> 1, SH |-> 2, SW |-> 4]

\* Of one, two or four bytes.
ReadBytes(m, a, n) ==
  IF n = 1 THEN m[a]
  ELSE LET half == m[a] * ByteMod + m[a + 1]
       IN  IF n = 2 THEN half
           ELSE half * HalfMod + m[a + 2] * ByteMod + m[a + 3]

Written(m, a, n, w) ==
  [x \in DOMAIN m |-> IF x \in a .. a + n - 1
                        THEN (w \div 2 ^ (ByteBits * (a + n - 1 - x))) % ByteMod
                        ELSE m[x]]

\* What a load makes of the bytes v.
Loaded(op, v) == CASE op = "LB" -> Extended(v, ByteMod)
                   [] op = "LH" -> Extended(v, HalfMod)
                   [] OTHER     -> v

-----------------------------------------------------------------------------
(* The instructions, by what they do to words *)

ShiftOps == {"SLL", "SRL", "SRA"}
ComputeOps == {"ADDU", "SUBU", "AND", "OR", "XOR", "NOR", "SLT", "SLTU", "MOVN",
               "MUL", "SLLV", "SRLV", "SRAV"}
ImmediateOps == {"ADDIU", "ANDI", "ORI", "XORI", "SLTI", "SLTIU", "LUI"}
BranchOps == {"BEQ", "BNE", "BGEZ", "BGTZ", "BLEZ", "BLTZ"}
LoadOps == {"LB", "LBU", "LH", "LHU", "LW"}
StoreOps == {"SB", "SH", "SW"}

=============================================================================
