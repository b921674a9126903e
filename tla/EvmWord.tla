------------------------------- MODULE EvmWord -------------------------------
(***************************************************************************)
(* The word arithmetic run_opcode applies (run/mod.rs lines 65-87): M256   *)
(* and its two's-complement reading MI256, narrowed to WordBits bits.      *)
(* utils::bigint and run/arithmetic.rs, run/bitwise.rs are not in the      *)
(* source tree; the operators follow spec section 4.3 and the Yellow       *)
(* Paper, byte indices counting from the most significant byte of a       *)
(* 32-byte word whose upper bytes are the ones the narrowing drops.        *)
(***************************************************************************)
EXTENDS Integers, Bitwise

CONSTANT WordBits   \* width of a stack word

WordMod == 2 ^ WordBits
Word == 0 .. WordMod - 1

(* M256 from an integer: wrap-around at the word width.                    *)
ToWord(i) == i % WordMod

(* MI256 from M256: the upper half of the words are the negative numbers. *)
Signed(w) == IF w >= WordMod \div 2 THEN w - WordMod ELSE w

AbsInt(i) == IF i < 0 THEN -i ELSE i
SignOf(i) == IF i < 0 THEN -1 ELSE 1

Bool(b) == IF b THEN 1 ELSE 0

(* DIV and MOD: a zero divisor yields zero.                                *)
UDiv(a, b) == IF b = 0 THEN 0 ELSE a \div b
UMod(a, b) == IF b = 0 THEN 0 ELSE a % b

(* SDIV: the quotient of the signed readings, rounded towards zero.       *)
SDiv(a, b) ==
  IF b = 0 THEN 0
  ELSE ToWord(SignOf(Signed(a)) * SignOf(Signed(b))
                * (AbsInt(Signed(a)) \div AbsInt(Signed(b))))

(* SMOD: the remainder takes the sign of the dividend.                     *)
SMod(a, b) ==
  IF b = 0 THEN 0
  ELSE ToWord(SignOf(Signed(a)) * (AbsInt(Signed(a)) % AbsInt(Signed(b))))

(* ADDMOD and MULMOD: the sum or product taken before the reduction, a    *)
(* zero modulus yielding zero.                                             *)
AddMod(a, b, n) == IF n = 0 THEN 0 ELSE (a + b) % n
MulMod(a, b, n) == IF n = 0 THEN 0 ELSE (a * b) % n

(* EXP: base^e mod 2^WordBits by squaring, every intermediate a word.      *)
RECURSIVE PowMod(_, _)
PowMod(base, e) ==
  IF e = 0 THEN 1 % WordMod
  ELSE LET half == PowMod((base * base) % WordMod, e \div 2)
       IN  IF e % 2 = 1 THEN (base * half) % WordMod ELSE half

(* SIGNEXTEND(i, v): bit 8i+7 of v copied into every bit above it; a byte *)
(* index whose sign bit is at or beyond the word's top leaves v alone.    *)
SignExtend(i, v) ==
  IF 8 * i + 7 >= WordBits - 1 THEN v
  ELSE LET low == v % 2 ^ (8 * i + 8)
       IN  IF low >= 2 ^ (8 * i + 7) THEN WordMod - 2 ^ (8 * i + 8) + low ELSE low

(* BYTE(i, v): byte i of the 32-byte word, byte 0 the most significant.   *)
ByteOf(i, v) ==
  IF i >= 32 \/ 8 * (31 - i) >= WordBits THEN 0
  ELSE (v \div 2 ^ (8 * (31 - i))) % 256

(* NOT: every bit of the word flipped.                                     *)
NotWord(v) == WordMod - 1 - v

=============================================================================
