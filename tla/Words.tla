------------------------------- MODULE Words -------------------------------
(***************************************************************************)
(* emulator/src/commons/util and common/utils: the machine words of the    *)
(* emulator.  A register has W bits, 32 in the code; "64-bit" values have  *)
(* 2 W, "16-bit" ones W / 2 and "bytes" W / 4, so that the masks 31, 63,   *)
(* 0xffff and 0xff of the code become W - 1, 2 W - 1 and so on.  A value   *)
(* is a natural number; a cast to a signed type is i64, i32, i16 or i8.    *)
(* Of undefined behaviour the shifts are modelled (see shl); a signed sum  *)
(* or product that overflows wraps, as it does on the machine.             *)
(***************************************************************************)
EXTENDS Integers, FiniteSets, FiniteSetsExt, Sequences

CONSTANT W

ASSUME WordAssumption == W \in Nat \ {0} /\ W % 8 = 0

H == W \div 2    (* uint16_t *)
B == W \div 4    (* uint8_t  *)

u64(x) == x % 2^(2 * W)
u32(x) == x % 2^W
u16(x) == x % 2^H
u8(x)  == x % 2^B

Signed(x, bits) ==
  LET r == x % 2^bits IN IF r >= 2^(bits - 1) THEN r - 2^bits ELSE r

i64(x) == Signed(x, 2 * W)
i32(x) == Signed(x, W)
i16(x) == Signed(x, H)
i8(x)  == Signed(x, B)

Num(b) == IF b THEN 1 ELSE 0
Lesser(a, b) == IF a < b THEN a ELSE b
Greater(a, b) == IF a > b THEN a ELSE b
Abs(x) == IF x < 0 THEN -x ELSE x

(* Byte j of x, 0 the least significant, and the n bytes of x from the most *)
(* significant on, as the storage keeps them.                              *)
Byte(x, j) == (x \div 2^(j * B)) % 2^B
BytesOf(x, n) == [k \in 1 .. n |-> Byte(x, n - k)]

(* The n-byte value kept in the bytes from position k on. *)
FromBytes(bytes, k, n) == MapThenSumSet(LAMBDA j : bytes[k + j] * 2^((n - 1 - j) * B), 0 .. n - 1)

Not32(x) == 2^W - 1 - u32(x)
Not64(x) == 2^(2 * W) - 1 - u64(x)

get_bit(n, value) == (value \div 2^n) % 2 = 1

(* The positions of the bits that are set among the first n. *)
Bits(x, n) == {i \in 0 .. n - 1 : get_bit(i, x)}

FromBits(S) == MapThenSumSet(LAMBDA i : 2^i, S)

(* The bitwise operators of C++ on numbers of at most 2 W bits. *)
a & b  == FromBits(Bits(a, 2 * W) \intersect Bits(b, 2 * W))
a | b  == FromBits(Bits(a, 2 * W) \union Bits(b, 2 * W))
a ^^ b == FromBits((Bits(a, 2 * W) \union Bits(b, 2 * W)) \ (Bits(a, 2 * W) \intersect Bits(b, 2 * W)))

bit_count(x) == Cardinality(Bits(x, 2 * W))

rev_bit(x, bits) == FromBits({bits - 1 - i : i \in Bits(x, bits)})

(***************************************************************************)
(* The shifts of C++ on a type of the given width.  A count that reaches   *)
(* the width is undefined: the build masks the count, as the processor     *)
(* does ("wrap"), or the compiler folds the result to what shifting bit by *)
(* bit would leave ("fill").  >> of a signed value keeps the sign.         *)
(***************************************************************************)
Count(n, width, ub) == IF n < width \/ ub = "fill" THEN n ELSE n % width

shl(x, n, width, ub) ==
  LET c == Count(n, width, ub)
  IN IF c < width THEN (x % 2^(width - c)) * 2^c ELSE 0

shr(x, n, width, ub) == x \div 2^Lesser(Count(n, width, ub), width)

(* The same with a count that the code has masked. *)
Left(x, n, width) == (x % 2^(width - n)) * 2^n
Right(x, n) == x \div 2^n

(* to_uin64_t of a vector of words, the most significant first: of more    *)
(* than two it takes the first two.                                        *)
to_uin64_t(words) ==
  IF Len(words) = 1 THEN words[1] ELSE words[1] * 2^W + words[2]

(* A 64-bit value as the words write_data_to_gpr makes of it. *)
WordsOf(x, amount) ==
  IF amount = 2 THEN <<u32(x \div 2^W), u32(x)>> ELSE <<u32(x)>>

=============================================================================
