----------------------------- MODULE VectorAlu -----------------------------
(***************************************************************************)
(* emulator/src/alu, the vector formats VOP1, VOP2 and VOPC, and what VOP3 *)
(* shares with them.  The switches run once for every active lane; an      *)
(* operator here is one such turn, from the lane's part of the state to    *)
(* itself:                                                                 *)
(*   i                       the lane                                      *)
(*   VDST, SRC0, SRC1, SRC2  its elements of the vectors, 64 bits wide     *)
(*   VCC, CLAMP              the mask of all lanes and MODE.dx10_clamp     *)
(*   fault, ub               as in Registers and Words                     *)
(* The arithmetic of IEEE floats is a parameter: Float(op, a, b, c) is the *)
(* image of the result for the images of the operands, and AsFloat(x, t)   *)
(* the number a float (t = "F32") or double keeps of the integer x.        *)
(***************************************************************************)
EXTENDS Registers

CONSTANTS Float(_, _, _, _), AsFloat(_, _)

Set(l, value) == [l EXCEPT !.VDST = u64(value)]
Refuse(l) == [l EXCEPT !.fault = "aborted"]

(* An element of 3/4 of a word (24 bits), a sum over the bytes. *)
u24(x) == x % 2^(3 * B)
i24(x) == Signed(x, 3 * B)
SumOverBytes(f(_)) == MapThenSumSet(f, 0 .. 3)
Clamped(x, low, high) == Greater(Lesser(x, high), low)

-----------------------------------------------------------------------------
(* VOP1 *)
run_v_not_b32(l) == Set(l, Not64(l.SRC0))

(* A half is shifted by 8 bits, a byte: the sum of the two is unsigned. *)
run_v_sat_pk_u8_i16(l) ==
  Set(l, Clamped(i16(l.SRC0), 0, 2^B - 1) + Clamped(i16(l.SRC0 \div 2^H), 0, 2^B - 1) * 2^B)

(* The rows of the table, sixteen entries each. *)
Partition ==
  << <<1,3,7,15,5,15,15,15,7,15,15,15,15,15,15,15>>, <<15,2,6,14,15,10,15,15,15,11,15,15,15,15,15,15>>,
     <<13,15,4,12,15,15,5,15,15,15,13,15,15,15,15,15>>, <<9,11,15,8,15,15,15,10,15,15,15,14,15,15,15,15>>,
     <<15,15,15,15,4,12,13,15,6,15,15,15,14,15,15,15>>, <<15,15,15,15,15,8,9,11,15,9,9,15,15,13,15,15>>,
     <<15,15,15,15,7,15,1,3,15,15,9,15,15,15,11,15>>, <<15,15,15,15,6,14,15,2,6,15,15,6,15,15,15,7>>,
     <<11,15,15,15,15,15,15,15,2,3,11,15,10,15,15,15>>, <<15,7,15,15,15,15,15,15,15,1,9,13,15,5,15,15>>,
     <<15,15,14,15,15,15,15,15,14,15,8,12,15,15,10,15>>, <<15,15,15,13,15,15,15,15,6,7,15,4,15,15,15,5>>,
     <<9,15,15,15,13,15,15,15,15,15,15,15,8,12,14,15>>, <<15,6,6,15,15,14,15,15,15,15,15,15,15,4,6,7>>,
     <<15,15,6,15,15,15,7,15,15,15,15,15,11,15,2,3>>, <<9,15,15,9,15,15,15,11,15,15,15,15,9,13,15,1>> >>
run_v_screen_partition_4se_b32(l) ==
  LET n == l.SRC0 % 256 IN Set(l, Partition[(n \div 16) + 1][1 + (n % 16)])

run_v_swap_b32(l) == [Set(l, l.SRC0) EXCEPT !.SRC0 = u32(l.VDST)]
run_v_bfrev_b32(l) == Set(l, rev_bit(u32(l.SRC0), W))

(* The loops that count down do so in a uint8_t and wrap past 0, where     *)
(* 1 << i is undefined from i = 255 to 2 W: if the count is masked they    *)
(* come to the bits above the word, and find those a pair of registers     *)
(* has.  ffbh_i32 looks for a bit that is set in a number that is not      *)
(* negative, as ffbh_u32 does, and for a clear one in a negative number.   *)
Highest(l, S) == Set(l, W - 1 - Max(S))
HighestWrapped(l, S) == Set(l, W - 1 - (256 - 2 * W + Max(S)))
Hang(l) == [l EXCEPT !.fault = "hung"]

run_v_ffbh_u32(l) ==
  LET all == Bits(l.SRC0, 2 * W)
      low == Bits(l.SRC0, W)
  IN CASE low # {} -> Highest(l, low)
       [] low = {} /\ all # {} /\ l.ub = "wrap" -> HighestWrapped(l, all)
       [] OTHER -> Hang(l)
run_v_ffbh_i32(l) ==
  LET clear == 0 .. 2 * W - 1 \ Bits(l.SRC0, 2 * W)
      found == IF i32(l.SRC0) >= 0 THEN Bits(l.SRC0, W) ELSE clear \intersect 0 .. W - 1
  IN CASE found # {} -> Highest(l, found)
       [] found = {} /\ i32(l.SRC0) < 0 /\ l.ub = "fill" -> HighestWrapped(l, {2 * W - 1})
       [] found = {} /\ i32(l.SRC0) < 0 /\ l.ub = "wrap" /\ clear # {} -> HighestWrapped(l, clear)
       [] OTHER -> Hang(l)

run_v_ffbl_b32(l) ==
  Set(l, IF Bits(l.SRC0, W) = {} THEN -1 ELSE Min(Bits(l.SRC0, W)))
run_v_mov_b32(l) == Set(l, l.SRC0)

vop1(k, l) ==
  CASE k = "V_SWAP_B32" -> run_v_swap_b32(l) [] k = "V_NOT_B32" -> run_v_not_b32(l)
    [] k = "V_SAT_PK_U8_I16" -> run_v_sat_pk_u8_i16(l)
    [] k = "V_SCREEN_PARTITION_4SE_B32" -> run_v_screen_partition_4se_b32(l)
    [] k = "V_BFREV_B32" -> run_v_bfrev_b32(l) [] k = "V_FFBH_U32" -> run_v_ffbh_u32(l)
    [] k = "V_FFBH_I32" -> run_v_ffbh_i32(l) [] k = "V_FFBL_B32" -> run_v_ffbl_b32(l)
    [] k = "V_MOV_B32" -> run_v_mov_b32(l)
    [] OTHER -> Refuse(l)

-----------------------------------------------------------------------------
(* VOP2 *)
(* MUTANT: the bit of a lane is set, never cleared. *)
OnlySetVCC(l, on) == [l EXCEPT !.VCC = IF on THEN @ | (2^l.i) ELSE @]

SetVCC(l, on) ==
  [l EXCEPT !.VCC = IF on THEN @ | (2^l.i) ELSE @ & Not64(2^l.i)]

run_v_addc_u32(l) ==
  LET temp == u64(l.SRC0 + l.SRC1 + Num(get_bit(l.i, l.VCC)))
  IN SetVCC(Set(l, u32(temp)), temp >= 2^W)
run_v_add_u32(l) ==
  LET temp == u64(l.SRC0 + l.SRC1) IN Set(l, IF l.CLAMP THEN Lesser(temp, 2^W - 1) ELSE temp)

(* ashr_i32 is a logical shift. *)
run_v_ashr_i32(l) == Set(l, u32(Right(l.SRC0, l.SRC1 % W)))
run_v_lshr_b32(l) == run_v_ashr_i32(l)
run_v_and_b32(l) == Set(l, l.SRC0 & l.SRC1)
run_v_ashrrev_i32(l) == Set(l, Right(i32(l.SRC1), l.SRC0 % W))
run_v_bcnt_u32_b32(l) == Set(l, l.SRC1 + bit_count(l.SRC0))
run_v_bfm_b32(l) == Set(l, Left(2^(l.SRC0 % W) - 1, l.SRC1 % W, W))

(* Compares what is left of VCC from bit i on with 1. *)
run_v_cndmask_b32(l) == Set(l, u32(IF l.VCC \div 2^l.i = 1 THEN l.SRC1 ELSE l.SRC0))

(* The sign of the low half fills the high half. *)
run_v_cvt_pk_i16_i32(l) ==
  LET Half(x) == Clamped(i32(x), -2^(H - 1), 2^(H - 1) - 1)
  IN Set(l, u32(Half(l.SRC0)) | u32(Half(l.SRC1) * 2^H))
run_v_cvt_pk_u16_u32(l) ==
  Set(l, Lesser(l.SRC0, 2^H - 1) + Lesser(l.SRC1, 2^H - 1) * 2^H)
run_v_lshlrev_b16(l) == Set(l, u16(Left(l.SRC1, l.SRC0 % H, 2 * W)))
run_v_lshlrev_b32(l) == Set(l, u32(Left(l.SRC1, l.SRC0 % W, 2 * W)))
run_v_lshrrev_b16(l) == Set(l, u16(Right(l.SRC1, l.SRC0 % H)))
run_v_lshrrev_b32(l) == Set(l, Right(l.SRC1, l.SRC0 % W))
run_v_max_i16(l) == Set(l, Greater(i16(l.SRC0), i16(l.SRC1)))
run_v_max_i32(l) == Set(l, Greater(i32(l.SRC0), i32(l.SRC1)))
run_v_max_u16(l) == Set(l, Greater(u16(l.SRC0), u16(l.SRC1)))
run_v_max_u32(l) == Set(l, Greater(l.SRC0, l.SRC1))
run_v_min_i16(l) == Set(l, Lesser(i16(l.SRC0), i16(l.SRC1)))
run_v_min_i32(l) == Set(l, Lesser(i32(l.SRC0), i32(l.SRC1)))
run_v_min_u16(l) == Set(l, Lesser(u16(l.SRC0), u16(l.SRC1)))
run_v_min_u32(l) == Set(l, Lesser(l.SRC0, l.SRC1))
run_v_mul_hi_i32_i24(l) == Set(l, Right(i24(l.SRC0) * i24(l.SRC1), W))
run_v_mul_hi_u32_u24(l) == Set(l, Right(u24(l.SRC0) * u24(l.SRC1), W))
run_v_mul_i32_i24(l) == Set(l, i32(i24(l.SRC0) * i24(l.SRC1)))
run_v_mul_lo_u16(l) == Set(l, u16(u16(l.SRC0) * u16(l.SRC1)))
run_v_mul_u32_u24(l) == Set(l, u32(u24(l.SRC0) * u24(l.SRC1)))
run_v_or_b32(l) == Set(l, l.SRC0 | l.SRC1)

(* Differences are taken modulo the width and then read as signed. *)
Floor0(l, diff) == Set(l, IF l.CLAMP THEN Greater(diff, 0) ELSE diff)
run_v_sub_u16(l) == Floor0(l, u16(l.SRC0) - u16(l.SRC1))
run_v_sub_u32(l) == Floor0(l, i64(l.SRC0 - l.SRC1))
run_v_subrev_u16(l) == Floor0(l, u16(l.SRC1) - u16(l.SRC0))
run_v_subrev_u32(l) == Floor0(l, i64(l.SRC1 - l.SRC0))
run_v_xor_b32(l) == Set(l, l.SRC0 ^^ l.SRC1)

(* to_float takes the low word; mac also adds VDST, which the others       *)
(* ignore.                                                                 *)
FloatKeys ==
  {"V_SUB_F32", "V_MUL_F32", "V_MAC_F32", "V_ADD_F32", "V_MAX_F32", "V_MIN_F32", "V_SUBREV_F32"}
run_v_f32(k, l) == Set(l, Float(k, u32(l.SRC0), u32(l.SRC1), u32(l.VDST)))

vop2(k, l) ==
  CASE k = "V_ADDC_U32" -> run_v_addc_u32(l) [] k = "V_ADD_U32" -> run_v_add_u32(l)
    [] k = "V_SUB_U32" -> run_v_sub_u32(l) [] k = "V_AND_B32" -> run_v_and_b32(l)
    [] k = "V_ASHRREV_I32" -> run_v_ashrrev_i32(l) [] k = "V_BCNT_U32_B32" -> run_v_bcnt_u32_b32(l)
    [] k = "V_BFM_B32" -> run_v_bfm_b32(l) [] k = "V_CNDMASK_B32" -> run_v_cndmask_b32(l)
    [] k = "V_CVT_PK_I16_I32" -> run_v_cvt_pk_i16_i32(l)
    [] k = "V_CVT_PK_U16_U32" -> run_v_cvt_pk_u16_u32(l)
    [] k = "V_LSHLREV_B16" -> run_v_lshlrev_b16(l) [] k = "V_LSHLREV_B32" -> run_v_lshlrev_b32(l)
    [] k = "V_LSHRREV_B16" -> run_v_lshrrev_b16(l) [] k = "V_LSHRREV_B32" -> run_v_lshrrev_b32(l)
    [] k = "V_MAX_I16" -> run_v_max_i16(l) [] k = "V_MAX_I32" -> run_v_max_i32(l)
    [] k = "V_MAX_U16" -> run_v_max_u16(l) [] k = "V_MAX_U32" -> run_v_max_u32(l)
    [] k = "V_MIN_I16" -> run_v_min_i16(l) [] k = "V_MIN_I32" -> run_v_min_i32(l)
    [] k = "V_MIN_U16" -> run_v_min_u16(l) [] k = "V_MIN_U32" -> run_v_min_u32(l)
    [] k = "V_MUL_HI_I32_I24" -> run_v_mul_hi_i32_i24(l)
    [] k = "V_MUL_HI_U32_U24" -> run_v_mul_hi_u32_u24(l)
    [] k = "V_MUL_I32_I24" -> run_v_mul_i32_i24(l) [] k = "V_MUL_LO_U16" -> run_v_mul_lo_u16(l)
    [] k = "V_MUL_U32_U24" -> run_v_mul_u32_u24(l) [] k = "V_OR_B32" -> run_v_or_b32(l)
    [] k = "V_SUB_U16" -> run_v_sub_u16(l) [] k = "V_SUBREV_U16" -> run_v_subrev_u16(l)
    [] k = "V_SUBREV_U32" -> run_v_subrev_u32(l) [] k = "V_XOR_B32" -> run_v_xor_b32(l)
    [] k = "V_LSHR_B32" -> run_v_lshr_b32(l) [] k = "V_ASHR_I32" -> run_v_ashr_i32(l)
    [] k \in FloatKeys -> run_v_f32(k, l) [] OTHER -> Refuse(l)

=============================================================================
