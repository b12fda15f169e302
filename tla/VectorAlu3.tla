---------------------------- MODULE VectorAlu3 -----------------------------
(***************************************************************************)
(* emulator/src/alu, the formats VOP3A and VOP3B (run_vop3 knows more      *)
(* instructions than the table of InstrInfo) and the comparisons, VOPC.    *)
(***************************************************************************)
EXTENDS VectorAlu, InstrInfo

(* CLAMP never acts: a sum of two halves is not above 2^16 - 1 nor below   *)
(* -2^16.                                                                  *)
run_v_add_i16(l) ==
  Set(l, (u32(l.VDST) - u16(l.VDST)) + u16(l.SRC0 + l.SRC1))
run_v_add_i32(l) ==
  LET temp == i32(i32(l.SRC0) + i32(l.SRC1))
  IN Set(l, IF l.CLAMP /\ temp < 0 THEN 0 ELSE temp)

(* The carry in is not added. *)
run_v_addc_co_u32(l) ==
  LET temp == u64(l.SRC0 + l.SRC1) IN SetVCC(Set(l, u32(temp)), temp >= 2^W)
run_v_add3_u32(l) == Set(l, l.SRC0 + l.SRC1 + l.SRC2)
run_v_add_lshl_u32(l) == Set(l, Left(u64(l.SRC0 + l.SRC1), l.SRC2 % W, 2 * W))

(* SRC0 shifted above SRC1. *)
Qword(l) == u64(l.SRC0 * 2^W) | l.SRC1
run_v_alignbit_b32(l) == Set(l, Right(Qword(l), l.SRC2 % W))
run_v_alignbyte_b32(l) == Set(l, Right(Qword(l), (l.SRC2 % 4) * B))
run_v_and_or_b32(l) == Set(l, (l.SRC0 & l.SRC1) | l.SRC2)
run_v_ashr_i64(l) == Set(l, Right(i64(l.SRC0), l.SRC1 % (2 * W)))

(* Shifts SRC0 by itself. *)
run_v_ashrrev_i64(l) == Set(l, Right(i64(l.SRC0), l.SRC0 % (2 * W)))

(* A length of 0 clears VDST and goes on, with a shift by the width, which *)
(* of a uint64_t is defined.                                               *)
run_v_bfe_i32(l) ==
  LET shift  == l.SRC1 % W
      length == l.SRC2 % W
  IN Set(l, IF shift + length < W
            THEN shr(i32(Left(l.SRC0, W - shift - length, 2 * W)), W - length, W, l.ub)
            ELSE Right(i32(l.SRC0), shift))
run_v_bfe_u32(l) ==
  LET shift  == l.SRC1 % W
      length == l.SRC2 % W
  IN Set(l, IF shift + length < W
            THEN Right(Left(l.SRC0, W - shift - length, 2 * W), W - length)
            ELSE Right(l.SRC0, shift))
run_v_bfi_b32(l) == Set(l, (l.SRC0 & l.SRC1) | (Not64(l.SRC0) & l.SRC2))
run_v_cvt_pk_u16_u32_e64(l) ==
  Set(l, Lesser(u32(l.SRC0), 2^H - 1) + Lesser(u32(l.SRC1), 2^H - 1) * 2^H)

(* The last byte is put together in an int, whose sign is extended. *)
run_v_lerp_u8(l) ==
  LET Mean(j) == (Byte(l.SRC0, j) + Byte(l.SRC1, j) + (Byte(l.SRC2, j) % 2)) \div 2
  IN Set(l, i32(SumOverBytes(LAMBDA j : Mean(j) * 2^(j * B))))
run_v_lshl_add_u32(l) == Set(l, Left(l.SRC0, l.SRC1 % W, 2 * W) + l.SRC2)
run_v_lshl_b64(l) == Set(l, Left(l.SRC0, l.SRC1 % (2 * W), 2 * W))
run_v_lshl_or_b32(l) == Set(l, Left(l.SRC0, l.SRC1 % W, 2 * W) | l.SRC2)
run_v_lshlrev_b64(l) == Set(l, Left(l.SRC1, l.SRC0 % (2 * W), 2 * W))
run_v_lshr_b64(l) == Set(l, Right(l.SRC0, l.SRC1 % (2 * W)))
run_v_lshrrev_b64(l) == Set(l, Right(l.SRC1, l.SRC0 % (2 * W)))
run_v_mad_i16(l) == Set(l, u16(i16(l.SRC0) * i16(l.SRC1) + i16(l.SRC2)))
run_v_mad_i32_i16(l) == Set(l, u32(i16(l.SRC0) * i16(l.SRC1)) + l.SRC2)
run_v_mad_i32_i24(l) == Set(l, i32(i24(l.SRC0) * i24(l.SRC1)) + l.SRC2)
run_v_mad_legacy_i16(l) == run_v_mad_i16(l)
run_v_mad_u16(l) == Set(l, u16(u16(l.SRC0) * u16(l.SRC1) + u16(l.SRC2)))
run_v_mad_legacy_u16(l) == run_v_mad_u16(l)
run_v_mad_u32_u16(l) == Set(l, u32(u16(l.SRC0) * u16(l.SRC1)) + l.SRC2)
run_v_mad_u32_u24(l) == Set(l, u32(u24(l.SRC0) * u24(l.SRC1)) + l.SRC2)

(* The signed 32-bit forms return the third operand unconverted. *)
Most(a, b, c) == Greater(Greater(b, a), c)
Least(a, b, c) == Lesser(Lesser(b, a), c)
run_v_max3_i16(l) == Set(l, u16(Most(i16(l.SRC0), i16(l.SRC1), i16(l.SRC2))))
run_v_max3_i32(l) ==
  LET most == Greater(i32(l.SRC1), i32(l.SRC0))
  IN Set(l, IF i32(l.SRC2) > most THEN l.SRC2 ELSE most)
run_v_max3_u16(l) == Set(l, Most(u16(l.SRC0), u16(l.SRC1), u16(l.SRC2)))
run_v_max3_u32(l) == Set(l, Most(l.SRC0, l.SRC1, l.SRC2))
run_v_min3_i16(l) == Set(l, u16(Least(i16(l.SRC0), i16(l.SRC1), i16(l.SRC2))))
run_v_min3_i32(l) ==
  LET least == Lesser(i32(l.SRC1), i32(l.SRC0))
  IN Set(l, IF i32(l.SRC2) < least THEN l.SRC2 ELSE least)
run_v_min3_u16(l) == Set(l, Least(u16(l.SRC0), u16(l.SRC1), u16(l.SRC2)))
run_v_min3_u32(l) == Set(l, Least(l.SRC0, l.SRC1, l.SRC2))

(* The lanes below this one that the mask SRC0 names. *)
run_v_mbcnt_hi_u32_b32(l) ==
  Set(l, l.SRC1 + Cardinality({j \in Bits(l.SRC0, W) : W + j < l.i}))
run_v_mbcnt_lo_u32_b32(l) ==
  Set(l, l.SRC1 + Cardinality({j \in Bits(l.SRC0, W) : j < l.i}))

Between(x, a, b) == (x > a /\ x < b) \/ (x < a /\ x > b)
Med(a, b, c) == CASE Between(c, b, a) -> c
                  [] ~Between(c, b, a) /\ Between(b, c, a) -> b
                  [] OTHER -> a
run_v_med3_i16(l) == Set(l, u16(Med(i16(l.SRC0), i16(l.SRC1), i16(l.SRC2))))
run_v_med3_i32(l) == Set(l, Med(i32(l.SRC0), i32(l.SRC1), i32(l.SRC2)))
run_v_med3_u16(l) == Set(l, Med(u16(l.SRC0), u16(l.SRC1), u16(l.SRC2)))
run_v_med3_u32(l) == Set(l, Med(l.SRC0, l.SRC1, l.SRC2))

(* The difference of two bytes is kept in a signed byte. *)
run_v_msad_u8(l) ==
  LET Diff(j) == IF Byte(l.SRC1, j) = 0 THEN 0 ELSE Abs(i8(Byte(l.SRC0, j) - Byte(l.SRC1, j)))
  IN Set(l, l.SRC2 + SumOverBytes(Diff))

(* Extends its first operand with zeros. *)
run_v_mul_hi_i32(l) == Set(l, Right(i64(l.SRC0) * i32(l.SRC1), W))
run_v_mul_hi_u32(l) == Set(l, Right(u64(l.SRC0 * l.SRC1), W))
run_v_mul_lo_i32(l) == Set(l, i32(i32(l.SRC0) * i32(l.SRC1)))
run_v_or3_b32(l) == Set(l, l.SRC0 | l.SRC1 | l.SRC2)
run_v_pack_b32_f16(l) == Set(l, u16(l.SRC0) | Left(l.SRC1, H, 2 * W))

(* Choices 8 to 11, meant to repeat a sign, multiply before they shift. *)
run_v_perm_b32(l) ==
  LET Chosen(c) == CASE c >= 13 -> 2^B - 1
                     [] c = 12 -> 0
                     [] c \in 8 .. 11 ->
                          u8(Right(u64((2^B - 1) * Qword(l)), (c - 8) * 2 * B + 2 * B - 1))
                     [] OTHER -> Byte(Qword(l), c)
  IN Set(l, i32(SumOverBytes(LAMBDA j : Chosen(Byte(l.SRC2, j)) * 2^(j * B))))

Apart(l, j) == Abs(Byte(l.SRC0, j) - Byte(l.SRC1, j))
run_v_sad_hi_u8(l) == Set(l, l.SRC2 + SumOverBytes(LAMBDA j : Apart(l, j) * 2^H))
run_v_sad_u16(l) ==
  Set(l, l.SRC2 + Abs(u16(l.SRC0) - u16(l.SRC1))
                + Abs(i32(i32(Right(l.SRC0, H)) - i32(Right(l.SRC1, H)))))
run_v_sad_u32(l) == Set(l, l.SRC2 + i32(Abs(i32(l.SRC0 - l.SRC1))))
run_v_sad_u8(l) == Set(l, l.SRC2 + SumOverBytes(LAMBDA j : Apart(l, j)))
run_v_sub_i16(l) == Set(l, i16(i16(l.SRC0) - i16(l.SRC1)))
run_v_sub_i32(l) == Set(l, l.SRC0 - l.SRC1)
run_v_xad_u32(l) == Set(l, (l.SRC0 ^^ l.SRC1) + l.SRC2)
run_v_mul_lo_u32(l) == Set(l, u32(l.SRC0 * l.SRC1))

vop3(k, l) ==
  CASE k = "V_ADD_I16" -> run_v_add_i16(l) [] k = "V_ADD_I32" -> run_v_add_i32(l)
    [] k = "V_ADD3_U32" -> run_v_add3_u32(l) [] k = "V_ADD_LSHL_U32" -> run_v_add_lshl_u32(l)
    [] k = "V_ALIGNBIT_B32" -> run_v_alignbit_b32(l)
    [] k = "V_ALIGNBYTE_B32" -> run_v_alignbyte_b32(l) [] k = "V_AND_OR_B32" -> run_v_and_or_b32(l)
    [] k = "V_ASHR_I64" -> run_v_ashr_i64(l) [] k = "V_ASHRREV_I64" -> run_v_ashrrev_i64(l)
    [] k = "V_BCNT_U32_B32" -> run_v_bcnt_u32_b32(l) [] k = "V_BFE_I32" -> run_v_bfe_i32(l)
    [] k = "V_BFE_U32" -> run_v_bfe_u32(l) [] k = "V_BFI_B32" -> run_v_bfi_b32(l)
    [] k = "V_BFM_B32" -> run_v_bfm_b32(l) [] k = "V_CVT_PK_I16_I32" -> run_v_cvt_pk_i16_i32(l)
    [] k = "V_CVT_PK_U16_U32" -> run_v_cvt_pk_u16_u32_e64(l) [] k = "V_LERP_U8" -> run_v_lerp_u8(l)
    [] k = "V_LSHL_ADD_U32" -> run_v_lshl_add_u32(l) [] k = "V_LSHL_B64" -> run_v_lshl_b64(l)
    [] k = "V_LSHL_OR_B32" -> run_v_lshl_or_b32(l) [] k = "V_LSHLREV_B64" -> run_v_lshlrev_b64(l)
    [] k = "V_LSHR_B64" -> run_v_lshr_b64(l) [] k = "V_LSHRREV_B64" -> run_v_lshrrev_b64(l)
    [] k = "V_MAD_I16" -> run_v_mad_i16(l) [] k = "V_MAD_I32_I16" -> run_v_mad_i32_i16(l)
    [] k = "V_MAD_I32_I24" -> run_v_mad_i32_i24(l)
    [] k = "V_MAD_LEGACY_I16" -> run_v_mad_legacy_i16(l)
    [] k = "V_MAD_LEGACY_U16" -> run_v_mad_legacy_u16(l) [] k = "V_MAD_U16" -> run_v_mad_u16(l)
    [] k = "V_MAD_U32_U16" -> run_v_mad_u32_u16(l) [] k = "V_MAD_U32_U24" -> run_v_mad_u32_u24(l)
    [] k = "V_MAX3_I16" -> run_v_max3_i16(l) [] k = "V_MAX3_I32" -> run_v_max3_i32(l)
    [] k = "V_MAX3_U16" -> run_v_max3_u16(l) [] k = "V_MAX3_U32" -> run_v_max3_u32(l)
    [] k = "V_MBCNT_HI_U32_B32" -> run_v_mbcnt_hi_u32_b32(l)
    [] k = "V_MBCNT_LO_U32_B32" -> run_v_mbcnt_lo_u32_b32(l)
    [] k = "V_MED3_I16" -> run_v_med3_i16(l) [] k = "V_MED3_I32" -> run_v_med3_i32(l)
    [] k = "V_MED3_U16" -> run_v_med3_u16(l) [] k = "V_MED3_U32" -> run_v_med3_u32(l)
    [] k = "V_MIN3_I16" -> run_v_min3_i16(l) [] k = "V_MIN3_I32" -> run_v_min3_i32(l)
    [] k = "V_MIN3_U16" -> run_v_min3_u16(l) [] k = "V_MIN3_U32" -> run_v_min3_u32(l)
    [] k = "V_MSAD_U8" -> run_v_msad_u8(l) [] k = "V_MUL_HI_I32" -> run_v_mul_hi_i32(l)
    [] k = "V_MUL_HI_U32" -> run_v_mul_hi_u32(l) [] k = "V_MUL_LO_I32" -> run_v_mul_lo_i32(l)
    [] k = "V_OR3_B32" -> run_v_or3_b32(l) [] k = "V_PACK_B32_F16" -> run_v_pack_b32_f16(l)
    [] k = "V_PERM_B32" -> run_v_perm_b32(l) [] k = "V_SAD_HI_U8" -> run_v_sad_hi_u8(l)
    [] k = "V_SAD_U16" -> run_v_sad_u16(l) [] k = "V_SAD_U32" -> run_v_sad_u32(l)
    [] k = "V_SAD_U8" -> run_v_sad_u8(l) [] k = "V_SUB_I16" -> run_v_sub_i16(l)
    [] k = "V_SUB_I32" -> run_v_sub_i32(l) [] k = "V_XAD_U32" -> run_v_xad_u32(l)
    [] k = "V_MUL_LO_U32" -> run_v_mul_lo_u32(l) [] k = "V_ADDC_CO_U32" -> run_v_addc_co_u32(l)
    [] OTHER -> Refuse(l)

-----------------------------------------------------------------------------
(* VOPC.  The operands are converted to the type of the comparison: for    *)
(* the floats the number itself is, not the image a register holds, so     *)
(* that none is NaN.                                                       *)
Converted(x, t) ==
  CASE t = "I16" -> i16(x) [] t = "U16" -> u16(x) [] t = "I32" -> i32(x) [] t = "U32" -> u32(x)
    [] t = "I64" -> i64(x) [] t = "U64" -> x [] t \in {"F32", "F64"} -> AsFloat(x, t)

Holds(r, a, b) ==
  CASE r = "F" -> FALSE [] r \in {"LT", "NGE"} -> a < b [] r \in {"EQ", "NLG"} -> a = b
    [] r \in {"LE", "NGT"} -> a <= b [] r \in {"GT", "NLE"} -> a > b
    [] r \in {"LG", "NEQ"} -> a # b [] r \in {"GE", "NLT"} -> a >= b
    [] r \in {"O", "U", "TRU"} -> TRUE

(* What a key compares, as <<key, relation, type>>. *)
Comparison == [k \in VOPCKeys |-> CHOOSE c \in IntegerCompares \union FloatCompares : c[1] = k]

vopc(k, l) == Holds(Comparison[k][2], Converted(l.SRC0, Comparison[k][3]),
                    Converted(l.SRC1, Comparison[k][3]))

=============================================================================
