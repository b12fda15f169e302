--------------------------- MODULE ScalarControl ---------------------------
(***************************************************************************)
(* emulator/src/alu, the scalar comparisons (SOPC), the instructions with  *)
(* a constant in them (SOPK) and the control of the program (SOPP), on the *)
(* states of ScalarAlu.                                                    *)
(***************************************************************************)
EXTENDS ScalarAlu

-----------------------------------------------------------------------------
(* SOPC *)
run_s_bitcmp0_b32(s) == SetSCC(s, ~get_bit(s.SSRC1 % W, s.SSRC0))
run_s_bitcmp0_b64(s) == SetSCC(s, ~get_bit(s.SSRC1 % (2 * W), s.SSRC0))
run_s_bitcmp1_b32(s) == SetSCC(s, get_bit(s.SSRC1 % W, s.SSRC0))
run_s_bitcmp1_b64(s) == SetSCC(s, get_bit(s.SSRC1 % (2 * W), s.SSRC0))

(* Of the i32 and u32 forms, eq, lg and the unsigned lt compare 64 bits. *)
run_s_cmp_eq(s) == SetSCC(s, s.SSRC0 = s.SSRC1)
run_s_cmp_ge_i32(s) == SetSCC(s, i32(s.SSRC0) >= i32(s.SSRC1))
run_s_cmp_ge_u32(s) == SetSCC(s, u32(s.SSRC0) >= u32(s.SSRC1))
run_s_cmp_gt_i32(s) == SetSCC(s, i32(s.SSRC0) > i32(s.SSRC1))
run_s_cmp_gt_u32(s) == SetSCC(s, u32(s.SSRC0) > u32(s.SSRC1))
run_s_cmp_le_i32(s) == SetSCC(s, i32(s.SSRC0) <= i32(s.SSRC1))
run_s_cmp_le_u32(s) == SetSCC(s, u32(s.SSRC0) <= u32(s.SSRC1))
run_s_cmp_lg(s) == SetSCC(s, s.SSRC0 # s.SSRC1)
run_s_cmp_lt_i32(s) == SetSCC(s, i32(s.SSRC0) < i32(s.SSRC1))
run_s_cmp_lt_u32(s) == SetSCC(s, s.SSRC0 < s.SSRC1)

(* The mode of the indexing is in the bits 12 to 15 of M0. *)
GprIdxShift == 2^(3 * (W \div 8))
GprIdxMask == 2^(W \div 8)
run_s_set_gpr_idx_on(s) ==
  [s EXCEPT !.wf.mode = SetFlag(@, ModeFlag.gpr_idx_en, TRUE),
            !.M0 = ((s.SSRC1 % GprIdxMask) * GprIdxShift) | u8(s.SSRC0)]

(* 1 << n is an int: its sign is extended to the upper half. *)
run_s_setvskip(s) ==
  LET n == s.SSRC1 % W
  IN [s EXCEPT !.wf.mode =
        SetFlag(@, ModeFlag.vskip, \/ get_bit(n, s.SSRC0)
                                   \/ n = W - 1 /\ s.SSRC0 >= 2^W)]

sopc(k, s) ==
  CASE k = "S_BITCMP0_B32" -> run_s_bitcmp0_b32(s) [] k = "S_BITCMP0_B64" -> run_s_bitcmp0_b64(s)
    [] k = "S_BITCMP1_B32" -> run_s_bitcmp1_b32(s) [] k = "S_BITCMP1_B64" -> run_s_bitcmp1_b64(s)
    [] k \in {"S_CMP_EQ_I32", "S_CMP_EQ_U32", "S_CMP_EQ_U64"} -> run_s_cmp_eq(s)
    [] k = "S_CMP_GE_I32" -> run_s_cmp_ge_i32(s) [] k = "S_CMP_GE_U32" -> run_s_cmp_ge_u32(s)
    [] k = "S_CMP_GT_I32" -> run_s_cmp_gt_i32(s) [] k = "S_CMP_GT_U32" -> run_s_cmp_gt_u32(s)
    [] k = "S_CMP_LE_I32" -> run_s_cmp_le_i32(s) [] k = "S_CMP_LE_U32" -> run_s_cmp_le_u32(s)
    [] k \in {"S_CMP_LG_I32", "S_CMP_LG_U32", "S_CMP_LG_U64", "S_CMP_NE_U64"} -> run_s_cmp_lg(s)
    [] k = "S_CMP_LT_I32" -> run_s_cmp_lt_i32(s) [] k = "S_CMP_LT_U32" -> run_s_cmp_lt_u32(s)
    [] k = "S_SET_GPR_IDX_ON" -> run_s_set_gpr_idx_on(s) [] k = "S_SETVSKIP" -> run_s_setvskip(s)
    [] OTHER -> Unsupported(s)

-----------------------------------------------------------------------------
(* SOPK.  s_addk_i32 writes SDST before it computes what SCC is taken      *)
(* from, which therefore has the constant in it twice.                     *)
run_s_addk_i32(s) ==
  LET sum  == i32(i32(s.SDST) + i32(s.IMM16))
      temp == u64(u64(sum) + s.IMM16)
  IN PutSCC(s, sum, /\ get_bit(W - 1, temp) = get_bit(H - 1, s.IMM16)
                    /\ get_bit(W - 1, temp) # get_bit(W - 1, u32(sum)))
run_s_call_b64(s) == Put(Jump(s, s.RELADDR), s.wf.pc + 4)

(* Works on the wavefront's execReg itself. *)
run_s_cbranch_i_fork(s) ==
  LET fork == Fork(s.wf, s.wf.exec, s.SSRC0, s.RELADDR)
  IN OnPC(s, [fork.wf EXCEPT !.exec = fork.exec])

run_s_cmovk_i32(s) == IF s.SCC THEN Put(s, i32(s.IMM16)) ELSE s
run_s_cmpk_eq_i32(s) == SetSCC(s, i32(s.SDST) = i32(s.IMM16))
run_s_cmpk_eq_u32(s) == SetSCC(s, s.SDST = s.IMM16)
run_s_cmpk_ge_i32(s) == SetSCC(s, i32(s.SDST) >= i32(s.IMM16))
run_s_cmpk_ge_u32(s) == SetSCC(s, s.SDST >= s.IMM16)
run_s_cmpk_gt_i32(s) == SetSCC(s, i32(s.SDST) >= i32(s.IMM16))
run_s_cmpk_gt_u32(s) == SetSCC(s, s.SDST > s.IMM16)
run_s_cmpk_le_i32(s) == SetSCC(s, i32(s.SDST) <= i32(s.IMM16))
run_s_cmpk_le_u32(s) == SetSCC(s, s.SDST <= s.IMM16)
run_s_cmpk_lg_i32(s) == SetSCC(s, i32(s.SDST) # i32(s.IMM16))
run_s_cmpk_lg_u32(s) == SetSCC(s, s.SDST # s.IMM16)
run_s_cmpk_lt_i32(s) == SetSCC(s, i32(s.SDST) < i32(s.IMM16))
run_s_cmpk_lt_u32(s) == SetSCC(s, s.SDST < s.IMM16)
run_s_movk_i32(s) == SetSCC(s, i32(s.IMM16) # 0)
run_s_mulk_i32(s) == Put(s, i32(i32(s.SDST) * i32(s.IMM16)))

sopk(k, s) ==
  CASE k = "S_CALL_B64" -> run_s_call_b64(s) [] k = "S_CBRANCH_I_FORK" -> run_s_cbranch_i_fork(s)
    [] k = "S_ADDK_I32" -> run_s_addk_i32(s) [] k = "S_CMOVK_I32" -> run_s_cmovk_i32(s)
    [] k = "S_CMPK_EQ_I32" -> run_s_cmpk_eq_i32(s) [] k = "S_CMPK_EQ_U32" -> run_s_cmpk_eq_u32(s)
    [] k = "S_CMPK_GE_I32" -> run_s_cmpk_ge_i32(s) [] k = "S_CMPK_GE_U32" -> run_s_cmpk_ge_u32(s)
    [] k = "S_CMPK_GT_I32" -> run_s_cmpk_gt_i32(s) [] k = "S_CMPK_GT_U32" -> run_s_cmpk_gt_u32(s)
    [] k = "S_CMPK_LE_I32" -> run_s_cmpk_le_i32(s) [] k = "S_CMPK_LE_U32" -> run_s_cmpk_le_u32(s)
    [] k = "S_CMPK_LG_I32" -> run_s_cmpk_lg_i32(s) [] k = "S_CMPK_LG_U32" -> run_s_cmpk_lg_u32(s)
    [] k = "S_CMPK_LT_I32" -> run_s_cmpk_lt_i32(s) [] k = "S_CMPK_LT_U32" -> run_s_cmpk_lt_u32(s)
    [] k = "S_MOVK_I32" -> run_s_movk_i32(s) [] k = "S_MULK_I32" -> run_s_mulk_i32(s)
    [] OTHER -> Unsupported(s)

-----------------------------------------------------------------------------
(* SOPP.  Nothing reads the constant of the instruction: SIMM16 is 0.      *)
JumpIf(s, taken) == IF taken THEN Jump(s, s.RELADDR) ELSE s
Status(s, flag) == flag \in s.wf.status

run_s_branch(s) == Jump(s, s.RELADDR)
run_s_cbranch_cdbgsys(s) == JumpIf(s, Status(s, StatusFlag.cond_dbg_sys))
run_s_cbranch_cdbgsys_and_user(s) ==
  JumpIf(s, Status(s, StatusFlag.cond_dbg_sys) /\ Status(s, StatusFlag.cond_dbg_user))
run_s_cbranch_cdbgsys_or_user(s) ==
  JumpIf(s, Status(s, StatusFlag.cond_dbg_sys) \/ Status(s, StatusFlag.cond_dbg_user))
run_s_cbranch_cdbguser(s) == JumpIf(s, Status(s, StatusFlag.cond_dbg_user))
run_s_cbranch_execnz(s) == JumpIf(s, s.EXEC # 0)
run_s_cbranch_execz(s) == JumpIf(s, s.EXEC = 0)
run_s_cbranch_scc0(s) == JumpIf(s, ~s.SCC)
run_s_cbranch_scc1(s) == JumpIf(s, s.SCC)
run_s_cbranch_vccnz(s) == JumpIf(s, s.VCC # 0)
run_s_cbranch_vccz(s) == JumpIf(s, s.VCC = 0)
run_s_set_gpr_idx_mode(s) ==
  [s EXCEPT !.M0 = @ - ((@ \div GprIdxShift) % GprIdxMask) * GprIdxShift]
run_s_set_gpr_idx_off(s) == [s EXCEPT !.wf.mode = SetFlag(@, ModeFlag.gpr_idx_en, FALSE)]
run_s_sethalt(s) == [s EXCEPT !.wf.status = SetFlag(@, StatusFlag.halt, FALSE)]

(* The keys whose operand set_reladdr_and_exec reads as RELADDR. *)
BranchKeys ==
  {"S_BRANCH", "S_CBRANCH_CDBGSYS", "S_CBRANCH_CDBGSYS_AND_USER", "S_CBRANCH_CDBGSYS_OR_USER",
   "S_CBRANCH_CDBGUSER", "S_CBRANCH_EXECNZ", "S_CBRANCH_EXECZ", "S_CBRANCH_SCC0",
   "S_CBRANCH_SCC1", "S_CBRANCH_VCCNZ", "S_CBRANCH_VCCZ"}

sopp(k, s) ==
  CASE k = "S_BRANCH" -> run_s_branch(s)
    [] k = "S_CBRANCH_CDBGSYS" -> run_s_cbranch_cdbgsys(s)
    [] k = "S_CBRANCH_CDBGSYS_AND_USER" -> run_s_cbranch_cdbgsys_and_user(s)
    [] k = "S_CBRANCH_CDBGSYS_OR_USER" -> run_s_cbranch_cdbgsys_or_user(s)
    [] k = "S_CBRANCH_CDBGUSER" -> run_s_cbranch_cdbguser(s)
    [] k = "S_CBRANCH_EXECNZ" -> run_s_cbranch_execnz(s) [] k = "S_CBRANCH_EXECZ" -> run_s_cbranch_execz(s)
    [] k = "S_CBRANCH_SCC0" -> run_s_cbranch_scc0(s) [] k = "S_CBRANCH_SCC1" -> run_s_cbranch_scc1(s)
    [] k = "S_CBRANCH_VCCNZ" -> run_s_cbranch_vccnz(s) [] k = "S_CBRANCH_VCCZ" -> run_s_cbranch_vccz(s)
    [] k \in {"S_NOP", "S_WAITCNT"} -> s
    [] k = "S_SET_GPR_IDX_MODE" -> run_s_set_gpr_idx_mode(s)
    [] k = "S_SET_GPR_IDX_OFF" -> run_s_set_gpr_idx_off(s) [] k = "S_SETHALT" -> run_s_sethalt(s)
    [] OTHER -> Unsupported(s)
=============================================================================
