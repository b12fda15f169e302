----------------------------- MODULE ScalarAlu -----------------------------
(***************************************************************************)
(* emulator/src/alu, the scalar formats SOP1, SOP2, SOPC, SOPK and SOPP.   *)
(* Every run_s_* is the operator of its name, from a state to a state; the *)
(* operators without a size in their names stand for a pair of functions,  *)
(* on 32 and on 64 bits, that differ in it only.                           *)
(*                                                                         *)
(* A state is the union of the structures WfStateSOP1 to WfStateSOPP.  Its *)
(* fields SDST, SSRC0, SSRC1, IMM16, RELADDR, EXEC, VCC, M0 and SCC are    *)
(* copies, some of which the instruction's update writes back; PC, MODE    *)
(* and STATUS are pointers into the wavefront, here s.wf itself.  DEST and *)
(* SRC are DEST_TYPE and SRC0_TYPE, <<file, number>>; ub is what the build *)
(* makes of an undefined shift (Words).                                    *)
(***************************************************************************)
EXTENDS Registers

Put(s, value) == [s EXCEPT !.SDST = u64(value)]
PutSCC(s, value, scc) == [s EXCEPT !.SDST = u64(value), !.SCC = scc]
PutNZ(s, value) == PutSCC(s, value, u64(value) # 0)
SetSCC(s, scc) == [s EXCEPT !.SCC = scc]
OnPC(s, wf) == [s EXCEPT !.wf = wf]
Jump(s, address) == OnPC(s, PCset(s.wf, address))

(* UNSUPPORTED_INSTRUCTION: logs the mnemonic and fails an assertion. *)
Unsupported(s) == OnPC(s, Fault(s.wf, "aborted"))

-----------------------------------------------------------------------------
(* SOP1 *)
run_s_abs_i32(s) == PutNZ(s, u32(Abs(i32(s.SSRC0))))

(* The _saveexec forms keep the old mask, the _wrexec forms the new one. *)
SaveExec(s, mask) == [PutSCC(s, s.EXEC, mask # 0) EXCEPT !.EXEC = mask]
WrExec(s, mask) == [PutSCC(s, mask, mask # 0) EXCEPT !.EXEC = mask]

run_s_and_saveexec_b64(s)   == SaveExec(s, s.SSRC0 & s.EXEC)
run_s_andn1_saveexec_b64(s) == SaveExec(s, Not64(s.SSRC0) & s.EXEC)
run_s_andn1_wrexec_b64(s)   == WrExec(s, Not64(s.SSRC0) & s.EXEC)
run_s_andn2_saveexec_b64(s) == SaveExec(s, s.SSRC0 & Not64(s.EXEC))
run_s_andn2_wrexec_b64(s)   == WrExec(s, s.SSRC0 & Not64(s.EXEC))
run_s_nand_saveexec_b64(s)  == SaveExec(s, Not64(s.SSRC0 & s.EXEC))
run_s_nor_saveexec_b64(s)   == SaveExec(s, Not64(s.SSRC0 | s.EXEC))
run_s_or_saveexec_b64(s)    == SaveExec(s, s.SSRC0 | s.EXEC)
run_s_orn2_saveexec_b64(s)  == SaveExec(s, Not64(s.SSRC0) & s.EXEC)
run_s_xnor_saveexec_b64(s)  == SaveExec(s, Not64(s.SSRC0 ^^ s.EXEC))
run_s_xor_saveexec_b64(s)   == SaveExec(s, s.SSRC0 ^^ s.EXEC)

run_s_bcnt0_i32_b32(s) == PutNZ(s, bit_count(Not32(s.SSRC0)))
run_s_bcnt0_i32_b64(s) == PutNZ(s, bit_count(Not64(s.SSRC0)))
run_s_bcnt1_i32_b32(s) == PutNZ(s, bit_count(u32(s.SSRC0)))
run_s_bcnt1_i32_b64(s) == PutNZ(s, bit_count(s.SSRC0))

(* The two copies of bit i are shifted in a uint32_t: those of the upper   *)
(* half are shifted by the width or more.                                  *)
run_s_bitreplicate_b64_b32(s) ==
  Put(s, FromBits(UNION {Bits(shl(3, 2 * i, W, s.ub), W) : i \in Bits(s.SSRC0, W)}))

run_s_bitset0_b32(s) == Put(s, s.SDST & Not32(2^(s.SSRC0 % W)))
run_s_bitset0_b64(s) == Put(s, s.SDST & Not64(2^(s.SSRC0 % (2 * W))))
run_s_bitset1_b32(s) == Put(s, s.SDST | (2^(s.SSRC0 % W)))
run_s_bitset1_b64(s) == Put(s, s.SDST | (2^(s.SSRC0 % (2 * W))))
run_s_brev_b32(s) == Put(s, rev_bit(s.SSRC0, W))
run_s_brev_b64(s) == Put(s, rev_bit(s.SSRC0, 2 * W))

(* csp is a uint8_t; csp - 1 is not stored in MODE. *)
run_s_cbranch_join(s) ==
  LET top  == (csp(s.wf) - 1) % 256
      pair == PairFault(s.wf, 4 * top + 2)
  IN IF csp(s.wf) = s.SSRC0 THEN OnPC(s, PCadd(s.wf, 4))
     ELSE IF pair # "none" THEN OnPC(s, Fault(s.wf, pair))
     ELSE [Jump(s, read_sgpr_pair(s.wf, 4 * top + 2))
             EXCEPT !.EXEC = read_sgpr_pair(s.wf, 4 * top)]

run_s_cmov_b32(s) == IF s.SCC THEN Put(s, u32(s.SSRC0)) ELSE s
run_s_cmov_b64(s) == IF s.SCC THEN Put(s, s.SSRC0) ELSE s

(* The searches for a bit: -1 if there is none, cut to the width of the    *)
(* result in the 32-bit forms and extended in the 64-bit ones.             *)
Lowest(S) == IF S = {} THEN -1 ELSE Min(S)
Leading(S, bits) == IF S = {} THEN -1 ELSE bits - 1 - Max(S)

run_s_ff0_i32_b32(s) == Put(s, u32(Lowest(Bits(Not32(s.SSRC0), W))))
run_s_ff0_i32_b64(s) == Put(s, Lowest(Bits(Not64(s.SSRC0), 2 * W)))
run_s_ff1_i32_b32(s) == Put(s, u32(Lowest(Bits(s.SSRC0, W))))
run_s_ff1_i32_b64(s) == Put(s, Lowest(Bits(s.SSRC0, 2 * W)))
run_s_flbit_i32_b32(s) == Put(s, u32(Leading(Bits(s.SSRC0, W), W)))
run_s_flbit_i32_b64(s) == Put(s, Leading(Bits(s.SSRC0, 2 * W), 2 * W))
run_s_flbit_i32(s) ==
  Put(s, u32(Leading(Bits(IF i32(s.SSRC0) >= 0 THEN s.SSRC0 ELSE Not32(s.SSRC0), W), W)))
run_s_flbit_i32_i64(s) ==
  Put(s, Leading(Bits(IF i64(s.SSRC0) >= 0 THEN s.SSRC0 ELSE Not64(s.SSRC0), 2 * W), 2 * W))

run_s_getpc_b64(s) == Put(s, s.wf.pc + 4)
run_s_mov_b32(s) == Put(s, u32(s.SSRC0))
run_s_mov_b64(s) == Put(s, s.SSRC0)

(* The register number is the operand's plus M0: asserted to be an S       *)
(* register, not to stay inside the file.  movreld leaves SDST, the old    *)
(* value of the register named in the instruction.                         *)
Relative(s, register) == register[2] + s.M0
RelFault(s, register, words) ==
  IF register[1] # "S" THEN "aborted"
  ELSE IF words = 2 THEN PairFault(s.wf, Relative(s, register))
  ELSE IF Relative(s, register) \notin DOMAIN s.wf.sgpr THEN "undefined" ELSE "none"
WithoutFault(s, fault, result) == IF fault = "none" THEN result ELSE OnPC(s, Fault(s.wf, fault))

run_s_movreld_b32(s) ==
  WithoutFault(s, RelFault(s, s.DEST, 1),
               [s EXCEPT !.wf.sgpr[Relative(s, s.DEST)] = u32(s.SSRC0)])
run_s_movreld_b64(s) ==
  WithoutFault(s, RelFault(s, s.DEST, 2),
               OnPC(s, set_sgpr_pair(s.wf, Relative(s, s.DEST), s.SSRC0)))
run_s_movrels_b32(s) ==
  WithoutFault(s, RelFault(s, s.SRC, 1), Put(s, s.wf.sgpr[Relative(s, s.SRC)]))
run_s_movrels_b64(s) ==
  WithoutFault(s, RelFault(s, s.SRC, 2), Put(s, read_sgpr_pair(s.wf, Relative(s, s.SRC))))

run_s_not_b32(s) == PutNZ(s, Not32(s.SSRC0))
run_s_not_b64(s) == PutNZ(s, Not64(s.SSRC0))

(* A group of four bits with none set contributes its index, not zero. *)
Quadmask(x, groups) ==
  FromBits(UNION {IF (x \div 2^(4 * i)) % 16 # 0 THEN {i} ELSE Bits(i, 4) : i \in groups})
run_s_quadmask_b32(s) == PutNZ(s, Quadmask(u32(s.SSRC0), 0 .. W \div 4 - 1))
run_s_quadmask_b64(s) == PutNZ(s, Quadmask(s.SSRC0, 0 .. W \div 2 - 1))

run_s_rfe_b64(s) ==
  [Jump(s, s.SSRC0) EXCEPT !.wf.status = SetFlag(@, StatusFlag.priv, FALSE)]
run_s_set_gpr_idx_idx(s) == [s EXCEPT !.M0 = (@ \div 2^B) * 2^B + u8(s.SSRC0)]
run_s_setpc_b64(s) == Jump(s, s.SSRC0)
run_s_sext_i32_i8(s)  == Put(s, i8(s.SSRC0))
run_s_sext_i32_i16(s) == Put(s, i16(s.SSRC0))
run_s_swappc_b64(s) == Put(Jump(s, s.SSRC0), s.wf.pc + 4)

Wqm(x, bits) == FromBits({i \in 0 .. bits - 1 : ((x \div 2^(i - (i % 4))) % 16) # 0})
run_s_wqm_b32(s) == PutNZ(s, Wqm(u32(s.SSRC0), W))
run_s_wqm_b64(s) == PutNZ(s, Wqm(s.SSRC0, 2 * W))

(* The switch of run_sop1.  OneOperand are the keys whose case asserts a   *)
(* single operand, which get_sop1_state has not read: the case reads it    *)
(* itself, as SSRC0 or, of s_getpc_b64, as SDST.                           *)
OneOperand ==
  {"S_CBRANCH_JOIN", "S_SET_GPR_IDX_IDX", "S_RFE_B64", "S_SETPC_B64", "S_GETPC_B64"}

sop1(k, s) ==
  CASE k = "S_CBRANCH_JOIN" -> run_s_cbranch_join(s)
    [] k = "S_SET_GPR_IDX_IDX" -> run_s_set_gpr_idx_idx(s)
    [] k = "S_RFE_B64" -> run_s_rfe_b64(s) [] k = "S_SETPC_B64" -> run_s_setpc_b64(s)
    [] k = "S_GETPC_B64" -> run_s_getpc_b64(s) [] k = "S_ABS_I32" -> run_s_abs_i32(s)
    [] k = "S_AND_SAVEEXEC_B64" -> run_s_and_saveexec_b64(s)
    [] k = "S_ANDN1_SAVEEXEC_B64" -> run_s_andn1_saveexec_b64(s)
    [] k = "S_ANDN1_WREXEC_B64" -> run_s_andn1_wrexec_b64(s)
    [] k = "S_ANDN2_SAVEEXEC_B64" -> run_s_andn2_saveexec_b64(s)
    [] k = "S_ANDN2_WREXEC_B64" -> run_s_andn2_wrexec_b64(s)
    [] k = "S_BCNT0_I32_B32" -> run_s_bcnt0_i32_b32(s) [] k = "S_BCNT0_I32_B64" -> run_s_bcnt0_i32_b64(s)
    [] k = "S_BCNT1_I32_B32" -> run_s_bcnt1_i32_b32(s) [] k = "S_BCNT1_I32_B64" -> run_s_bcnt1_i32_b64(s)
    [] k = "S_BITREPLICATE_B64_B32" -> run_s_bitreplicate_b64_b32(s)
    [] k = "S_BITSET0_B32" -> run_s_bitset0_b32(s) [] k = "S_BITSET0_B64" -> run_s_bitset0_b64(s)
    [] k = "S_BITSET1_B32" -> run_s_bitset1_b32(s) [] k = "S_BITSET1_B64" -> run_s_bitset1_b64(s)
    [] k = "S_BREV_B32" -> run_s_brev_b32(s) [] k = "S_BREV_B64" -> run_s_brev_b64(s)
    [] k = "S_CMOV_B32" -> run_s_cmov_b32(s) [] k = "S_CMOV_B64" -> run_s_cmov_b64(s)
    [] k = "S_FF0_I32_B32" -> run_s_ff0_i32_b32(s) [] k = "S_FF0_I32_B64" -> run_s_ff0_i32_b64(s)
    [] k = "S_FF1_I32_B32" -> run_s_ff1_i32_b32(s) [] k = "S_FF1_I32_B64" -> run_s_ff1_i32_b64(s)
    [] k = "S_FLBIT_I32_B32" -> run_s_flbit_i32_b32(s) [] k = "S_FLBIT_I32_B64" -> run_s_flbit_i32_b64(s)
    [] k = "S_FLBIT_I32" -> run_s_flbit_i32(s) [] k = "S_FLBIT_I32_I64" -> run_s_flbit_i32_i64(s)
    [] k = "S_MOV_B32" -> run_s_mov_b32(s) [] k = "S_MOV_B64" -> run_s_mov_b64(s)
    [] k = "S_MOVRELD_B32" -> run_s_movreld_b32(s) [] k = "S_MOVRELD_B64" -> run_s_movreld_b64(s)
    [] k = "S_MOVRELS_B32" -> run_s_movrels_b32(s) [] k = "S_MOVRELS_B64" -> run_s_movrels_b64(s)
    [] k = "S_NAND_SAVEEXEC_B64" -> run_s_nand_saveexec_b64(s)
    [] k = "S_NOR_SAVEEXEC_B64" -> run_s_nor_saveexec_b64(s)
    [] k = "S_NOT_B32" -> run_s_not_b32(s) [] k = "S_NOT_B64" -> run_s_not_b64(s)
    [] k = "S_OR_SAVEEXEC_B64" -> run_s_or_saveexec_b64(s)
    [] k = "S_ORN2_SAVEEXEC_B64" -> run_s_orn2_saveexec_b64(s)
    [] k = "S_QUADMASK_B32" -> run_s_quadmask_b32(s) [] k = "S_QUADMASK_B64" -> run_s_quadmask_b64(s)
    [] k = "S_SEXT_I32_I8" -> run_s_sext_i32_i8(s) [] k = "S_SEXT_I32_I16" -> run_s_sext_i32_i16(s)
    [] k = "S_SWAPPC_B64" -> run_s_swappc_b64(s)
    [] k = "S_WQM_B32" -> run_s_wqm_b32(s) [] k = "S_WQM_B64" -> run_s_wqm_b64(s)
    [] k = "S_XNOR_SAVEEXEC_B64" -> run_s_xnor_saveexec_b64(s)
    [] k = "S_XOR_SAVEEXEC_B64" -> run_s_xor_saveexec_b64(s)
    [] OTHER -> Unsupported(s)

-----------------------------------------------------------------------------
(* SOP2 *)
run_s_absdiff_i32(s) == PutNZ(s, i32(Abs(i32(i32(s.SSRC0) - i32(s.SSRC1)))))

(* MUTANT: the carry in is forgotten. *)
AddWithoutCarry(s) ==
  LET temp == u64(s.SSRC0 + s.SSRC1) IN PutSCC(s, temp, temp >= 2^W)

run_s_addc_u32(s) ==
  LET temp == u64(s.SSRC0 + s.SSRC1 + Num(s.SCC)) IN PutSCC(s, temp, temp >= 2^W)
run_s_add_i32(s) ==
  LET sum == u64(s.SSRC0 + s.SSRC1)
  IN PutSCC(s, sum, /\ get_bit(W - 1, s.SSRC0) = get_bit(W - 1, s.SSRC1)
                    /\ get_bit(W - 1, s.SSRC1) # get_bit(W - 1, sum))
run_s_add_u32(s) == PutSCC(s, s.SSRC0 + s.SSRC1, u64(s.SSRC0 + s.SSRC1) >= 2^W)
run_s_and(s) == PutNZ(s, s.SSRC0 & s.SSRC1)
run_s_andn2(s) == PutNZ(s, s.SSRC0 & Not64(s.SSRC1))
run_s_ashr_i32(s) == PutNZ(s, Right(i32(s.SSRC0), s.SSRC1 % W))
run_s_ashr_i64(s) == PutNZ(s, Right(i64(s.SSRC0), s.SSRC1 % (2 * W)))

(* The bit field extracts take the offset from the low bits of SSRC1 and   *)
(* the length from its upper half.  Only the u32 form returns after it has *)
(* cleared SDST for length 0; the others shift on, by the whole width.     *)
Length(s) == (s.SSRC1 \div 2^H) % (4 * W)
run_s_bfe_i32(s) ==
  LET shift == s.SSRC1 % W
  IN PutNZ(s, IF shift + Length(s) < W
              THEN shr(i32(Left(s.SSRC0, W - shift - Length(s), 2 * W)), W - Length(s), W, s.ub)
              ELSE Right(i32(s.SSRC0), shift))
Extract64(s, cast(_)) ==
  LET shift == s.SSRC1 % (2 * W)
  IN IF shift + Length(s) < 2 * W
     THEN shr(cast(shl(s.SSRC0, 2 * W - shift - Length(s), 2 * W, s.ub)),
              2 * W - Length(s), 2 * W, s.ub)
     ELSE Right(cast(s.SSRC0), shift)
run_s_bfe_i64(s) == PutNZ(s, Extract64(s, i64))
run_s_bfe_u32(s) ==
  LET shift == s.SSRC1 % W
  IN PutNZ(s, CASE Length(s) = 0 -> 0
                [] Length(s) # 0 /\ shift + Length(s) < W ->
                     Right(Left(u32(s.SSRC0), W - shift - Length(s), W), W - Length(s))
                [] OTHER -> Right(u32(s.SSRC0), shift))
run_s_bfe_u64(s) == PutNZ(s, Extract64(s, u64))
run_s_bfm_b32(s) == Put(s, Left(2^(s.SSRC0 % W) - 1, s.SSRC1 % W, W))
run_s_bfm_b64(s) == Put(s, Left(2^(s.SSRC0 % (2 * W)) - 1, s.SSRC1 % (2 * W), 2 * W))

(* Saves the lanes that are to run later, with where they go on.  The      *)
(* fewer go first; exec is state.EXEC for g_fork, execReg for i_fork.      *)
Fork(wf, exec, condition, target) ==
  LET passes   == exec & condition
      failures == exec & Not64(condition)
      CSP      == csp(wf)
      Later(lanes, pc) ==
        SetCsp(set_sgpr_pair(set_sgpr_pair(wf, CSP * 4, lanes), CSP * 4 + 2, pc), CSP + 1)
  IN CASE passes = exec -> [wf |-> PCset(wf, target), exec |-> exec]
       [] passes # exec /\ failures = exec -> [wf |-> PCadd(wf, 4), exec |-> exec]
       [] passes # exec /\ failures # exec /\ bit_count(failures) < bit_count(passes) ->
            [wf |-> PCadd(Later(passes, target), 4), exec |-> failures]
       [] OTHER -> [wf |-> PCset(Later(failures, u64(wf.pc + 4)), target), exec |-> passes]
run_s_cbranch_g_fork(s) ==
  LET fork == Fork(s.wf, s.EXEC, s.SSRC0, s.SSRC1)
  IN [s EXCEPT !.wf = fork.wf, !.EXEC = fork.exec]

run_s_cselect(s) == Put(s, IF s.SCC THEN s.SSRC0 ELSE s.SSRC1)
run_s_lshl_b32(s) == PutNZ(s, Left(u32(s.SSRC0), s.SSRC1 % W, W))
run_s_lshl_b64(s) == PutNZ(s, Left(s.SSRC0, s.SSRC1 % (2 * W), 2 * W))
run_s_lshl_n_add_u32(s, n) ==
  LET temp == u64(Left(s.SSRC0, n, 2 * W) + s.SSRC1) IN PutSCC(s, u32(temp), temp >= 2^W)
run_s_lshr_b32(s) == PutNZ(s, Right(s.SSRC0, s.SSRC1 % W))
run_s_lshr_b64(s) == PutNZ(s, Right(s.SSRC0, s.SSRC1 % (2 * W)))
run_s_max_i32(s) == PutSCC(s, Greater(i32(s.SSRC0), i32(s.SSRC1)), i32(s.SSRC0) > i32(s.SSRC1))
run_s_max_u32(s) == PutSCC(s, Greater(u32(s.SSRC0), u32(s.SSRC1)), u32(s.SSRC0) > u32(s.SSRC1))
run_s_min_i32(s) == PutSCC(s, Lesser(i32(s.SSRC0), i32(s.SSRC1)), i32(s.SSRC0) < i32(s.SSRC1))
run_s_min_u32(s) == PutSCC(s, Lesser(u32(s.SSRC0), u32(s.SSRC1)), u32(s.SSRC0) < u32(s.SSRC1))

(* mul_hi_i32 extends its first operand with zeros. *)
run_s_mul_hi_i32(s) == Put(s, Right(i64(s.SSRC0) * i32(s.SSRC1), W))
run_s_mul_hi_u32(s) == Put(s, Right(u64(s.SSRC0 * s.SSRC1), W))
run_s_mul_i32(s) == Put(s, i32(s.SSRC0 * s.SSRC1))
run_s_nand_b32(s) == PutNZ(s, Not32(u32(s.SSRC0) & u32(s.SSRC1)))
run_s_nand_b64(s) == PutNZ(s, Not64(s.SSRC0 & s.SSRC1))
run_s_nor_b32(s) == PutNZ(s, Not32(u32(s.SSRC0) | u32(s.SSRC1)))
run_s_nor_b64(s) == PutNZ(s, Not64(s.SSRC0 | s.SSRC1))
run_s_or_b32(s) == PutNZ(s, u32(s.SSRC0) | u32(s.SSRC1))
run_s_or_b64(s) == PutNZ(s, s.SSRC0 | s.SSRC1)
run_s_orn2_b32(s) == PutNZ(s, u32(s.SSRC0) | Not32(s.SSRC1))
run_s_orn2_b64(s) == PutNZ(s, s.SSRC0 | Not64(s.SSRC1))
HighHalf(x) == u32(x) - u16(x)
run_s_pack_hh_b32_b16(s) == Put(s, Right(s.SSRC0, H) | HighHalf(s.SSRC1))
run_s_pack_lh_b32_b16(s) == Put(s, u16(s.SSRC0) | HighHalf(s.SSRC1))
run_s_pack_ll_b32_b16(s) == Put(s, u16(s.SSRC0) | (u16(s.SSRC1) * 2^H))
run_s_rfe_restore_b64(s) == run_s_rfe_b64(s)
run_s_subb_u32(s) ==
  LET temp == u64(s.SSRC0 - s.SSRC1 - Num(s.SCC)) IN PutSCC(s, temp, get_bit(W, temp))
run_s_sub_i32(s) ==
  LET a == u32(s.SSRC0)
      b == u32(s.SSRC1)
      d == i32(i32(a) - i32(b))
  IN PutSCC(s, d, /\ get_bit(W - 1, a) # get_bit(W - 1, b)
                  /\ get_bit(W - 1, a) # get_bit(W - 1, u32(d)))
run_s_sub_u32(s) == PutSCC(s, s.SSRC0 - s.SSRC1, u64(s.SSRC0 - s.SSRC1) >= 2^W)
run_s_xnor_b32(s) == PutNZ(s, Not32(u32(s.SSRC0) ^^ u32(s.SSRC1)))
run_s_xnor_b64(s) == PutNZ(s, Not64(s.SSRC0 ^^ s.SSRC1))
run_s_xor_b32(s) == PutNZ(s, u32(s.SSRC0) ^^ u32(s.SSRC1))
run_s_xor_b64(s) == PutNZ(s, s.SSRC0 ^^ s.SSRC1)

(* The switch of run_sop2. *)
sop2(k, s) ==
  CASE k = "S_CBRANCH_G_FORK" -> run_s_cbranch_g_fork(s)
    [] k = "S_RFE_RESTORE_B64" -> run_s_rfe_restore_b64(s)
    [] k = "S_ABSDIFF_I32" -> run_s_absdiff_i32(s) [] k = "S_ADDC_U32" -> run_s_addc_u32(s)
    [] k = "S_ADD_I32" -> run_s_add_i32(s) [] k = "S_ADD_U32" -> run_s_add_u32(s)
    [] k \in {"S_AND_B32", "S_AND_B64"} -> run_s_and(s)
    [] k \in {"S_ANDN2_B32", "S_ANDN2_B64"} -> run_s_andn2(s)
    [] k = "S_ASHR_I32" -> run_s_ashr_i32(s) [] k = "S_ASHR_I64" -> run_s_ashr_i64(s)
    [] k = "S_BFE_I32" -> run_s_bfe_i32(s) [] k = "S_BFE_I64" -> run_s_bfe_i64(s)
    [] k = "S_BFE_U32" -> run_s_bfe_u32(s) [] k = "S_BFE_U64" -> run_s_bfe_u64(s)
    [] k = "S_BFM_B32" -> run_s_bfm_b32(s) [] k = "S_BFM_B64" -> run_s_bfm_b64(s)
    [] k \in {"S_CSELECT_B32", "S_CSELECT_B64"} -> run_s_cselect(s)
    [] k = "S_LSHL_B32" -> run_s_lshl_b32(s) [] k = "S_LSHL_B64" -> run_s_lshl_b64(s)
    [] k = "S_LSHL1_ADD_U32" -> run_s_lshl_n_add_u32(s, 1)
    [] k = "S_LSHL2_ADD_U32" -> run_s_lshl_n_add_u32(s, 2)
    [] k = "S_LSHL3_ADD_U32" -> run_s_lshl_n_add_u32(s, 3)
    [] k = "S_LSHL4_ADD_U32" -> run_s_lshl_n_add_u32(s, 4)
    [] k = "S_LSHR_B32" -> run_s_lshr_b32(s) [] k = "S_LSHR_B64" -> run_s_lshr_b64(s)
    [] k = "S_MAX_I32" -> run_s_max_i32(s) [] k = "S_MAX_U32" -> run_s_max_u32(s)
    [] k = "S_MIN_I32" -> run_s_min_i32(s) [] k = "S_MIN_U32" -> run_s_min_u32(s)
    [] k = "S_MUL_HI_I32" -> run_s_mul_hi_i32(s) [] k = "S_MUL_HI_U32" -> run_s_mul_hi_u32(s)
    [] k = "S_MUL_I32" -> run_s_mul_i32(s)
    [] k = "S_NAND_B32" -> run_s_nand_b32(s) [] k = "S_NAND_B64" -> run_s_nand_b64(s)
    [] k = "S_NOR_B32" -> run_s_nor_b32(s) [] k = "S_NOR_B64" -> run_s_nor_b64(s)
    [] k = "S_OR_B32" -> run_s_or_b32(s) [] k = "S_OR_B64" -> run_s_or_b64(s)
    [] k = "S_ORN2_B32" -> run_s_orn2_b32(s) [] k = "S_ORN2_B64" -> run_s_orn2_b64(s)
    [] k = "S_PACK_HH_B32_B16" -> run_s_pack_hh_b32_b16(s)
    [] k = "S_PACK_LH_B32_B16" -> run_s_pack_lh_b32_b16(s)
    [] k = "S_PACK_LL_B32_B16" -> run_s_pack_ll_b32_b16(s)
    [] k = "S_SUBB_U32" -> run_s_subb_u32(s) [] k = "S_SUB_I32" -> run_s_sub_i32(s)
    [] k = "S_SUB_U32" -> run_s_sub_u32(s)
    [] k = "S_XNOR_B32" -> run_s_xnor_b32(s) [] k = "S_XNOR_B64" -> run_s_xnor_b64(s)
    [] k = "S_XOR_B32" -> run_s_xor_b32(s) [] k = "S_XOR_B64" -> run_s_xor_b64(s)
    [] OTHER -> Unsupported(s)
=============================================================================
