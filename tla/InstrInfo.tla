----------------------------- MODULE InstrInfo -----------------------------
(***************************************************************************)
(* common/model/instr/instr_info: the instructions the parser knows and    *)
(* the format each is decoded to.  A key is named like the enumerator, in  *)
(* capitals; the sets follow the blocks of the table instructionRepo.  A   *)
(* mnemonic that is not in the table is refused when the kernel is read    *)
(* (get_instr_key throws), whatever the ALU could do with it.              *)
(***************************************************************************)
EXTENDS Sequences

SOP1Keys ==
  {"S_ABS_I32", "S_AND_SAVEEXEC_B64", "S_ANDN1_SAVEEXEC_B64", "S_ANDN1_WREXEC_B64",
   "S_ANDN2_SAVEEXEC_B64", "S_ANDN2_WREXEC_B64", "S_BCNT0_I32_B32", "S_BCNT0_I32_B64",
   "S_BCNT1_I32_B32", "S_BCNT1_I32_B64", "S_BITREPLICATE_B64_B32", "S_BITSET0_B32",
   "S_BITSET0_B64", "S_BITSET1_B32", "S_BITSET1_B64", "S_BREV_B32", "S_BREV_B64", "S_CBRANCH_JOIN",
   "S_CMOV_B32", "S_CMOV_B64", "S_FF0_I32_B32", "S_FF0_I32_B64", "S_FF1_I32_B32", "S_FF1_I32_B64",
   "S_FLBIT_I32_B32", "S_FLBIT_I32_B64", "S_FLBIT_I32", "S_FLBIT_I32_I64", "S_GETPC_B64",
   "S_MOV_B32", "S_MOV_B64", "S_MOVRELD_B32", "S_MOVRELD_B64", "S_MOVRELS_B32", "S_MOVRELS_B64",
   "S_NAND_SAVEEXEC_B64", "S_NOR_SAVEEXEC_B64", "S_NOT_B32", "S_NOT_B64", "S_OR_SAVEEXEC_B64",
   "S_ORN2_SAVEEXEC_B64", "S_QUADMASK_B32", "S_QUADMASK_B64", "S_RFE_B64", "S_SET_GPR_IDX_IDX",
   "S_SETPC_B64", "S_SEXT_I32_I8", "S_SEXT_I32_I16", "S_SWAPPC_B64", "S_WQM_B32", "S_WQM_B64",
   "S_XNOR_SAVEEXEC_B64", "S_XOR_SAVEEXEC_B64"}

SOP2Keys ==
  {"S_ABSDIFF_I32", "S_ADDC_U32", "S_ADD_I32", "S_ADD_U32", "S_AND_B32", "S_AND_B64",
   "S_ANDN2_B32", "S_ANDN2_B64", "S_ASHR_I32", "S_ASHR_I64", "S_BFE_I32", "S_BFE_I64", "S_BFE_U32",
   "S_BFE_U64", "S_BFM_B32", "S_BFM_B64", "S_CBRANCH_G_FORK", "S_CSELECT_B32", "S_CSELECT_B64",
   "S_LSHL_B32", "S_LSHL_B64", "S_LSHL1_ADD_U32", "S_LSHL2_ADD_U32", "S_LSHL3_ADD_U32",
   "S_LSHL4_ADD_U32", "S_LSHR_B32", "S_LSHR_B64", "S_MAX_I32", "S_MAX_U32", "S_MIN_I32",
   "S_MIN_U32", "S_MUL_HI_I32", "S_MUL_HI_U32", "S_MUL_I32", "S_NAND_B32", "S_NAND_B64",
   "S_NOR_B32", "S_NOR_B64", "S_OR_B32", "S_OR_B64", "S_ORN2_B32", "S_ORN2_B64",
   "S_PACK_HH_B32_B16", "S_PACK_LH_B32_B16", "S_PACK_LL_B32_B16", "S_RFE_RESTORE_B64",
   "S_SUBB_U32", "S_SUB_I32", "S_SUB_U32", "S_XNOR_B32", "S_XNOR_B64", "S_XOR_B32", "S_XOR_B64"}

SOPKKeys ==
  {"S_ADDK_I32", "S_CALL_B64", "S_CBRANCH_I_FORK", "S_CMOVK_I32", "S_CMPK_EQ_I32", "S_CMPK_EQ_U32",
   "S_CMPK_GE_I32", "S_CMPK_GE_U32", "S_CMPK_GT_I32", "S_CMPK_GT_U32", "S_CMPK_LE_I32",
   "S_CMPK_LE_U32", "S_CMPK_LG_I32", "S_CMPK_LG_U32", "S_CMPK_LT_I32", "S_CMPK_LT_U32",
   "S_GETREG_B32", "S_MOVK_I32", "S_MULK_I32", "S_SETREG_B32", "S_SETREG_IMM32_B32"}

SOPCKeys ==
  {"S_BITCMP0_B32", "S_BITCMP0_B64", "S_BITCMP1_B32", "S_BITCMP1_B64", "S_CMP_EQ_I32",
   "S_CMP_EQ_U32", "S_CMP_EQ_U64", "S_CMP_GE_I32", "S_CMP_GE_U32", "S_CMP_GT_I32", "S_CMP_GT_U32",
   "S_CMP_LE_I32", "S_CMP_LE_U32", "S_CMP_LG_I32", "S_CMP_LG_U32", "S_CMP_LG_U64", "S_CMP_NE_U64",
   "S_CMP_LT_I32", "S_CMP_LT_U32", "S_SET_GPR_IDX_ON", "S_SETVSKIP"}

SOPPKeys ==
  {"S_BARRIER", "S_BRANCH", "S_CBRANCH_CDBGSYS", "S_CBRANCH_CDBGSYS_AND_USER",
   "S_CBRANCH_CDBGSYS_OR_USER", "S_CBRANCH_CDBGUSER", "S_CBRANCH_EXECNZ", "S_CBRANCH_EXECZ",
   "S_CBRANCH_SCC0", "S_CBRANCH_SCC1", "S_CBRANCH_VCCNZ", "S_CBRANCH_VCCZ", "S_DECPERFLEVEL",
   "S_ENDPGM", "S_ENDPGM_ORDERED_PS_DONE", "S_ENDPGM_SAVED", "S_ICACHE_INV", "S_INCPERFLEVEL",
   "S_NOP", "S_SENDMSG", "S_SENDMSGHALT", "S_SET_GPR_IDX_MODE", "S_SET_GPR_IDX_OFF", "S_SETHALT",
   "S_SETKILL", "S_SETPRIO", "S_SLEEP", "S_TRAP", "S_TTRACEDATA", "S_WAITCNT"}

VOP1Keys ==
  {"V_MOV_B32", "V_BFREV_B32", "V_FFBH_U32", "V_FFBH_I32", "V_FFBL_B32", "V_SWAP_B32",
   "V_MOVRELD_B32", "V_MOVRELS_B32", "V_MOVRELSD_B32", "V_NOT_B32", "V_READFIRSTLANE_B32",
   "V_SAT_PK_U8_I16", "V_SCREEN_PARTITION_4SE_B32", "V_NOP", "V_CVT_I32_F64", "V_CVT_F64_I32",
   "V_CVT_F32_I32", "V_CVT_F32_U32", "V_CVT_U32_F32", "V_CVT_I32_F32", "V_CVT_F16_F32",
   "V_CVT_F32_F16", "V_CVT_RPI_I32_F32", "V_CVT_FLR_I32_F32", "V_CVT_OFF_F32_I4", "V_CVT_F32_F64",
   "V_CVT_F64_F32", "V_CVT_F32_UBYTE0", "V_CVT_F32_UBYTE1", "V_CVT_F32_UBYTE2", "V_CVT_F32_UBYTE3",
   "V_CVT_U32_F64", "V_CVT_F64_U32", "V_TRUNC_F64", "V_CEIL_F64", "V_RNDNE_F64", "V_FLOOR_F64",
   "V_FRACT_F32", "V_TRUNC_F32", "V_CEIL_F32", "V_RNDNE_F32", "V_FLOOR_F32", "V_EXP_F32",
   "V_LOG_F32", "V_RCP_F32", "V_RCP_IFLAG_F32", "V_RSQ_F32", "V_RCP_F64", "V_RSQ_F64",
   "V_SQRT_F32", "V_SQRT_F64", "V_SIN_F32", "V_COS_F32", "V_FREXP_EXP_I32_F64", "V_FREXP_MANT_F64",
   "V_FRACT_F64", "V_FREXP_EXP_I32_F32", "V_FREXP_MANT_F32", "V_CLREXCP", "V_CVT_F16_U16",
   "V_CVT_F16_I16", "V_CVT_U16_F16", "V_CVT_I16_F16", "V_RCP_F16", "V_SQRT_F16", "V_RSQ_F16",
   "V_LOG_F16", "V_EXP_F16", "V_FREXP_MANT_F16", "V_FREXP_EXP_I16_F16", "V_FLOOR_F16",
   "V_CEIL_F16", "V_TRUNC_F16", "V_RNDNE_F16", "V_FRACT_F16", "V_SIN_F16", "V_COS_F16",
   "V_EXP_LEGACY_F32", "V_LOG_LEGACY_F32", "V_CVT_NORM_I16_F16", "V_CVT_NORM_U16_F16"}

VOP2Keys ==
  {"V_CNDMASK_B32", "V_ADD_F32", "V_SUB_F32", "V_SUBREV_F32", "V_MUL_LEGACY_F32", "V_MUL_F32",
   "V_MUL_I32_I24", "V_MUL_HI_I32_I24", "V_MUL_U32_U24", "V_MUL_HI_U32_U24", "V_MIN_F32",
   "V_MAX_F32", "V_MIN_I32", "V_MAX_I32", "V_MIN_U32", "V_MAX_U32", "V_LSHRREV_B32", "V_AND_B32",
   "V_OR_B32", "V_XOR_B32", "V_MAC_F32", "V_MADMK_F32", "V_MADAK_F32", "V_ADD_CO_U32",
   "V_SUBREV_CO_U32", "V_SUBB_CO_U32", "V_SUBBREV_CO_U32", "V_ADD_F16", "V_SUB_F16",
   "V_SUBREV_F16", "V_MUL_F16", "V_MAC_F16", "V_MADMK_F16", "V_MADAK_F16", "V_ADD_U16",
   "V_MUL_LO_U16", "V_LSHLREV_B16", "V_LSHRREV_B16", "V_ASHRREV_I16", "V_MAX_F16", "V_MIN_F16",
   "V_MAX_U16", "V_MAX_I16", "V_MIN_U16", "V_MIN_I16", "V_LDEXP_F16"}

(* Also decoded to VOP3A, or VOP3B, when they take 8 bytes. *)
VOP2orVOP3AKeys ==
  {"V_SUBREV_U16", "V_SUB_U16", "V_ASHR_I32", "V_ASHRREV_B16", "V_ASHRREV_I32", "V_LSHLREV_B32",
   "V_LSHR_B32"}
VOP2orVOP3BKeys ==
  {"V_ADDC_CO_U32", "V_ADDC_U32", "V_ADD_U32", "V_SUBREV_U32", "V_SUB_U32", "V_SUB_CO_U32",
   "V_ADD_I16", "V_ADD_I32"}
VOP3AKeys == {"V_LSHLREV_B64", "V_MUL_LO_U32", "V_ADD3_U32"}
VOP3BKeys == {"V_DIV_SCALE_F32", "V_DIV_SCALE_F64", "V_MAD_U64_U32", "V_MAD_I64_I32"}

-----------------------------------------------------------------------------
(* The blocks of the table that are products of a few names. *)
AtomicOps ==
  {"ADD", "AND", "CMPSWAP", "DEC", "INC", "OR", "SMAX", "SMIN", "SUB", "SWAP", "UMAX", "UMIN",
   "XOR"}

SMEMKeys ==
  {p \o op \o x : p \in {"S_ATOMIC_", "S_BUFFER_ATOMIC_"}, op \in AtomicOps, x \in {"", "_X2"}}
  \union {p \o x : p \in {"S_LOAD_DWORD", "S_BUFFER_LOAD_DWORD"}, x \in {"", "X2", "X4", "X8", "X16"}}
  \union {p \o x : p \in {"S_STORE_DWORD", "S_BUFFER_STORE_DWORD", "S_SCRATCH_LOAD_DWORD",
                          "S_SCRATCH_STORE_DWORD"}, x \in {"", "X2", "X4"}}
  \union {"S_DCACHE_DISCARD", "S_DCACHE_DISCARD_X2", "S_DCACHE_INV", "S_DCACHE_INV_VOL",
          "S_MEMREALTIME", "S_MEMTIME"}

FLATStoreKeys == {"FLAT_STORE_DWORD" \o x : x \in {"", "X2", "X3", "X4"}} \union {"FLAT_STORE_SHORT"}
FLATKeys ==
  FLATStoreKeys \union {"FLAT_LOAD_DWORD" \o x : x \in {"", "X2", "X3", "X4"}}
  \union {"FLAT_ATOMIC_" \o op \o x : op \in AtomicOps \ {"CMPSWAP", "SWAP"}, x \in {"", "_X2"}}

(* The vector comparisons, as <<mnemonic, relation, type>>. *)
IntegerCompares ==
  {<<p \o r \o "_" \o t, r, t>> : p \in {"V_CMP_", "V_CMPX_"},
     r \in {"F", "LT", "EQ", "LE", "GT", "LG", "GE", "TRU"},
     t \in {"I16", "U16", "I32", "U32", "I64", "U64"}}
FloatCompares ==
  {<<p[1] \o r \o "_" \o p[2], r, p[2]>> :
     p \in {<<"V_CMP_", "F32">>, <<"V_CMPX_", "F32">>, <<"V_CMPS_", "F64">>, <<"V_CMPX_", "F64">>},
     r \in {"F", "LT", "EQ", "LE", "GT", "LG", "GE", "O", "U", "NGE", "NLG", "NGT", "NLE", "NEQ",
            "NLT", "TRU"}}
VOPCKeys == {c[1] : c \in IntegerCompares \union FloatCompares}

-----------------------------------------------------------------------------
(* The two columns of the table.  V_CMP_LT_U32 has no second format. *)
format(key) ==
  CASE key \in SOP1Keys -> "SOP1" [] key \in SOP2Keys -> "SOP2" [] key \in SOPKKeys -> "SOPK"
    [] key \in SOPCKeys -> "SOPC" [] key \in SOPPKeys -> "SOPP" [] key \in VOP1Keys -> "VOP1"
    [] key \in VOP2Keys \union VOP2orVOP3AKeys \union VOP2orVOP3BKeys -> "VOP2"
    [] key \in VOPCKeys -> "VOPC"
    [] OTHER -> "UNDEFINED"

extendedFormat(key) ==
  CASE key \in VOP2orVOP3AKeys \union VOP3AKeys \union (VOPCKeys \ {"V_CMP_LT_U32"}) -> "VOP3A"
    [] key \in VOP2orVOP3BKeys \union VOP3BKeys -> "VOP3B"
    [] key \in SMEMKeys -> "SMEM" [] key \in FLATKeys -> "FLAT"
    [] OTHER -> "UNDEFINED"

(* The format of the instruction's width if the table has one, the other   *)
(* one if it has not.                                                      *)
get_instr_format(key, width) ==
  LET first  == IF width = 8 THEN extendedFormat(key) ELSE format(key)
      second == IF format(key) # "UNDEFINED" THEN format(key) ELSE extendedFormat(key)
  IN IF width \in {4, 8} /\ first # "UNDEFINED" THEN first ELSE second

=============================================================================
