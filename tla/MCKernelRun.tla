---------------------------- MODULE MCKernelRun ----------------------------
(***************************************************************************)
(* Kernels for KernelRun with words of 8 bits and bytes of 2: an address   *)
(* has 16 bits, and a value from the host is 4 or 8 bytes.                 *)
(***************************************************************************)
EXTENDS KernelRun

(* The arithmetic of floats is no part of what is checked. *)
AnyFloat(op, a, b, c) == (a + 3 * b + c) % 2^W
EvenOf(x, t) == IF t = "F32" THEN 2 * (x \div 2) ELSE x

(* The syntax of the programs. *)
Reg(file, number, n) == [type |-> "REGISTER", value |-> <<file, number>>, n |-> n]
S(r) == Reg("S", r, 1)
SS(r) == Reg("S", r, 2)
S4(r) == Reg("S", r, 4)
V(r) == Reg("V", r, 1)
VV(r) == Reg("V", r, 2)
VCC == Reg("VCC", 0, 2)
EXEC == Reg("EXEC", 0, 2)
C(x) == [type |-> "CONSTANT", value |-> x, n |-> 1]

I(key, operands) == [key |-> key, operands |-> operands, width |-> 4]
L(key, operands) == [key |-> key, operands |-> operands, width |-> 8]
End == I("S_ENDPGM", <<>>)

Lines(program) ==
  LET at[k \in 1 .. Len(program)] == IF k = 1 THEN 0 ELSE at[k - 1] + program[k - 1].width
  IN [k \in 1 .. Len(program) |->
        [addr |-> at[k], key |-> program[k].key, operands |-> program[k].operands]]

Config(count, size) ==
  [dims |-> 1, globalOffset |-> <<0, 0, 0>>, groups |-> count, groupSize |-> size, user_sgpr |-> 6,
   sgprsnum |-> 16, vgprsnum |-> 8, enabled |-> {"idx"}, params |-> {"useargs"},
   kernArgAddr |-> 0, kernSetupPtr |-> 0]

Buffer(size, reads, writes) ==
  [kind |-> "POINTER", size |-> size, readPermission |-> reads, writePermission |-> writes,
   hasData |-> TRUE]
Input(size) == Buffer(size, TRUE, FALSE)
Output(size) == Buffer(size, FALSE, TRUE)

Kernel(name, cfg, buffers, program) ==
  [name |-> name, config |-> cfg, arguments |-> buffers, lines |-> Lines(program \o <<End>>)]

-----------------------------------------------------------------------------
(* x to s[0:1] and y to s[2:3], of two inputs of 8 bytes. *)
LoadXY ==
  <<L("S_LOAD_DWORDX2", <<SS(0), SS(4), C(48)>>), L("S_LOAD_DWORDX2", <<SS(2), SS(4), C(56)>>),
    I("S_WAITCNT", <<>>),
    L("S_LOAD_DWORDX2", <<SS(0), SS(0), C(0)>>), L("S_LOAD_DWORDX2", <<SS(2), SS(2), C(0)>>)>>

All(keys, ops) == [k \in DOMAIN keys |-> I(keys[k], ops)]
XY(name, program) == Kernel(name, Config(1, 3), <<Input(8), Input(8)>>, LoadXY \o program)
WithClamp(k) == [k EXCEPT !.config.params = {"useargs", "dx10clamp"}]

Logic32 == <<"S_AND_B32", "S_OR_B32", "S_XOR_B32", "S_NAND_B32", "S_NOR_B32", "S_XNOR_B32",
             "S_ANDN2_B32", "S_ORN2_B32">>
Logic64 == <<"S_AND_B64", "S_OR_B64", "S_XOR_B64", "S_NAND_B64", "S_NOR_B64", "S_XNOR_B64",
             "S_ANDN2_B64", "S_ORN2_B64">>
Saves == <<"S_OR_SAVEEXEC_B64", "S_AND_SAVEEXEC_B64", "S_XOR_SAVEEXEC_B64", "S_NAND_SAVEEXEC_B64",
           "S_ANDN1_SAVEEXEC_B64", "S_XNOR_SAVEEXEC_B64", "S_NOR_SAVEEXEC_B64",
           "S_ANDN2_SAVEEXEC_B64">>

LogicProgram ==
  All(Logic32, <<S(8), S(0), S(2)>>) \o All(Logic64, <<SS(8), SS(0), SS(2)>>)
  \o All(Saves, <<SS(8), SS(0)>>) \o All(Saves, <<SS(2), SS(2)>>)
  \o All(Logic64, <<EXEC, EXEC, SS(0)>>) \o All(<<"S_XOR_B64">>, <<VCC, SS(0), EXEC>>)

Sums == <<"S_ADD_U32", "S_ADDC_U32", "S_SUB_U32", "S_SUBB_U32", "S_ADD_I32", "S_SUB_I32",
          "S_MUL_I32", "S_MUL_HI_U32", "S_MIN_I32", "S_MIN_U32", "S_MAX_I32", "S_MAX_U32",
          "S_LSHL1_ADD_U32", "S_LSHL2_ADD_U32", "S_LSHL3_ADD_U32", "S_LSHL4_ADD_U32",
          "S_CSELECT_B32", "S_LSHL_B32", "S_LSHR_B32", "S_ASHR_I32", "S_BFM_B32", "S_BFE_U32",
          "S_PACK_LL_B32_B16", "S_PACK_LH_B32_B16", "S_PACK_HH_B32_B16">>
Shifts64 == <<"S_LSHL_B64", "S_LSHR_B64", "S_CSELECT_B64">>
Compares == <<"S_CMP_EQ_I32", "S_CMP_EQ_U32", "S_CMP_LG_I32", "S_CMP_LG_U32", "S_CMP_GT_I32",
              "S_CMP_GT_U32", "S_CMP_GE_I32", "S_CMP_GE_U32", "S_CMP_LT_I32", "S_CMP_LT_U32",
              "S_CMP_LE_I32", "S_CMP_LE_U32">>

SumProgram ==
  All(Sums, <<S(8), S(0), S(2)>>) \o All(Shifts64, <<SS(8), SS(0), SS(2)>>)
  \o All(Compares, <<S(0), S(2)>>) \o All(<<"S_SUBB_U32", "S_ADDC_U32">>, <<S(0), S(0), S(2)>>)
  \o All(<<"S_ADD_U32", "S_ADDC_U32">>, <<S(1), S(1), S(1)>>)

Unary32 == <<"S_ABS_I32", "S_NOT_B32", "S_BREV_B32", "S_BCNT0_I32_B32", "S_BCNT1_I32_B32",
             "S_FF0_I32_B32", "S_FF1_I32_B32", "S_FLBIT_I32_B32", "S_SEXT_I32_I8",
             "S_SEXT_I32_I16", "S_WQM_B32", "S_MOV_B32", "S_CMOV_B32", "S_BITSET0_B32",
             "S_BITSET1_B32">>
Unary64To32 == <<"S_BCNT0_I32_B64", "S_BCNT1_I32_B64", "S_FF0_I32_B64", "S_FF1_I32_B64",
                 "S_FLBIT_I32_B64">>
Unary64 == <<"S_NOT_B64", "S_BREV_B64", "S_WQM_B64", "S_MOV_B64", "S_CMOV_B64">>

UnaryProgram ==
  All(Unary32, <<S(8), S(0)>>) \o All(Unary64To32, <<S(9), SS(2)>>)
  \o All(Unary64, <<SS(8), SS(0)>>) \o All(Unary32, <<S(2), S(2)>>)
  \o All(<<"S_MOV_B64">>, <<EXEC, SS(0)>>) \o All(<<"S_NOT_B64">>, <<VCC, EXEC>>)

-----------------------------------------------------------------------------
(* The values differ in the lanes: v3 is x and v4 is y with the lane added. *)
Spread ==
  <<I("V_MOV_B32", <<V(3), S(0)>>), I("V_MOV_B32", <<V(4), S(2)>>),
    I("V_ADD_U32", <<V(3), V(3), V(0)>>), I("V_SUB_U32", <<V(4), V(4), V(0)>>)>>

Vector2 == <<"V_AND_B32", "V_OR_B32", "V_XOR_B32", "V_ADD_U32", "V_SUB_U32", "V_SUBREV_U32",
             "V_LSHLREV_B32", "V_LSHRREV_B32", "V_LSHR_B32", "V_ASHRREV_I32", "V_MAX_I32",
             "V_MAX_U32", "V_MIN_I32", "V_MIN_U32", "V_MUL_LO_U16", "V_MUL_U32_U24">>
Vector1 == <<"V_MOV_B32", "V_NOT_B32", "V_BFREV_B32", "V_FFBL_B32">>
Carry(d, a, b) == I("V_ADDC_U32", <<V(d), VCC, V(a), V(b), VCC>>)

(* All of it twice: y becomes the mask of the lanes for the second half.   *)
TwiceMasked(ops) == Spread \o ops \o <<I("S_MOV_B64", <<EXEC, SS(2)>>)>> \o ops

VectorProgram ==
  TwiceMasked(All(Vector2, <<V(5), V(3), V(4)>>) \o All(Vector1, <<V(5), V(3)>>)
              \o <<Carry(5, 3, 4), Carry(6, 5, 4), Carry(6, 6, 6),
                   L("V_MUL_LO_U32", <<V(5), V(3), V(4)>>),
                   L("V_ADD3_U32", <<V(5), V(3), V(4), V(6)>>),
                   L("V_LSHLREV_B64", <<VV(6), V(3), VV(4)>>)>>)

(* The instructions that look at dx10_clamp, among them an addition with   *)
(* carry, which does not.                                                  *)
ClampProgram ==
  TwiceMasked(All(<<"V_ADD_U32", "V_SUB_U32", "V_SUBREV_U32">>, <<V(5), V(3), V(4)>>)
              \o <<Carry(6, 3, 4)>>)

-----------------------------------------------------------------------------
(* c = a + b, as the compiler writes it. *)
APlusB ==
  Kernel("a_plus_b", Config(1, 2), <<Input(4), Input(4), Output(4)>>,
    <<L("S_LOAD_DWORDX4", <<S4(0), SS(4), C(48)>>), I("S_WAITCNT", <<>>),
      L("S_LOAD_DWORD", <<S(0), SS(0), C(0)>>), L("S_LOAD_DWORD", <<S(1), SS(2), C(0)>>),
      L("S_LOAD_DWORDX2", <<SS(2), SS(4), C(64)>>), I("S_WAITCNT", <<>>),
      I("S_ADD_U32", <<S(0), S(1), S(0)>>),
      I("V_MOV_B32", <<V(0), S(0)>>), I("V_MOV_B32", <<V(1), S(2)>>),
      I("V_MOV_B32", <<V(2), S(3)>>), L("FLAT_STORE_DWORD", <<VV(1), V(0)>>)>>)

(* v[0:1] becomes the address of the word of the global id, counted from   *)
(* the pointer in s[0:1]; v3 keeps the id.                                 *)
Address ==
  <<I("S_LSHL_B32", <<S(9), S(6), C(1)>>), I("V_ADD_U32", <<V(0), S(9), V(0)>>),
    I("V_MOV_B32", <<V(3), V(0)>>), I("V_MOV_B32", <<V(1), C(0)>>),
    L("V_LSHLREV_B64", <<VV(0), C(2), VV(0)>>), I("V_ADD_U32", <<V(0), S(0), V(0)>>),
    I("V_MOV_B32", <<V(2), S(1)>>), Carry(1, 2, 1)>>

(* data[id] += x + id, in two groups of two. *)
AddIds ==
  Kernel("add_ids", Config(2, 2), <<Buffer(16, TRUE, TRUE), Input(4)>>,
    <<L("S_LOAD_DWORDX2", <<SS(0), SS(4), C(48)>>), L("S_LOAD_DWORDX2", <<SS(2), SS(4), C(56)>>),
      L("S_LOAD_DWORD", <<S(8), SS(2), C(0)>>)>> \o Address \o
    <<I("V_ADD_U32", <<V(3), S(8), V(3)>>), L("FLAT_LOAD_DWORD", <<VV(0), V(4)>>),
      I("V_ADD_U32", <<V(4), V(3), V(4)>>), L("FLAT_STORE_DWORD", <<VV(0), V(4)>>)>>)

(* if (bit id of y) out[id] = x, by a mask that is switched and restored;  *)
(* the output that cannot be read comes first, and with two groups it is   *)
(* larger than the room it has.                                            *)
MaskedStore(name, count) ==
  Kernel(name, Config(count, 2), <<Output(8 * count), Input(4), Input(4)>>,
    <<L("S_LOAD_DWORDX2", <<SS(0), SS(4), C(48)>>), L("S_LOAD_DWORDX2", <<SS(10), SS(4), C(56)>>),
      L("S_LOAD_DWORDX2", <<SS(12), SS(4), C(64)>>), L("S_LOAD_DWORD", <<S(8), SS(10), C(0)>>),
      L("S_LOAD_DWORD", <<S(10), SS(12), C(0)>>), I("S_XOR_B32", <<S(11), S(11), S(11)>>)>>
    \o Address \o
    <<I("V_MOV_B32", <<V(4), C(0)>>), I("S_AND_SAVEEXEC_B64", <<SS(12), SS(10)>>),
      I("S_CBRANCH_EXECZ", <<C(96)>>), I("V_MOV_B32", <<V(4), S(8)>>),
      I("S_MOV_B64", <<EXEC, SS(12)>>), L("FLAT_STORE_DWORD", <<VV(0), V(4)>>)>>)

(* out = x * y with a loop, a function that stores, and jumps by address.  *)
Times ==
  Kernel("times", Config(1, 2), <<Input(4), Input(4), Output(4)>>,
    <<L("S_LOAD_DWORDX2", <<SS(0), SS(4), C(48)>>), L("S_LOAD_DWORDX2", <<SS(2), SS(4), C(56)>>),
      L("S_LOAD_DWORD", <<S(0), SS(0), C(0)>>), L("S_LOAD_DWORD", <<S(2), SS(2), C(0)>>),
      I("S_XOR_B32", <<S(8), S(8), S(8)>>),
      (* 36 *) I("S_CMP_EQ_U32", <<S(2), C(0)>>), I("S_CBRANCH_SCC1", <<C(56)>>),
      I("S_ADD_U32", <<S(8), S(8), S(0)>>), I("S_SUB_U32", <<S(2), S(2), C(1)>>),
      I("S_BRANCH", <<C(36)>>),
      (* 56 *) I("S_CALL_B64", <<SS(12), C(72)>>), I("S_GETPC_B64", <<SS(10)>>),
      I("S_ADD_U32", <<S(10), S(10), C(40)>>), I("S_SETPC_B64", <<SS(10)>>),
      (* 72 *) L("S_LOAD_DWORDX2", <<SS(2), SS(4), C(64)>>), I("V_MOV_B32", <<V(1), S(2)>>),
      I("V_MOV_B32", <<V(2), S(3)>>), I("V_MOV_B32", <<V(0), S(8)>>),
      L("FLAT_STORE_DWORD", <<VV(1), V(0)>>), I("S_SWAPPC_B64", <<SS(14), SS(12)>>)>>)

(* Reads and writes at addresses from the host, and goes on at one. *)
Stray ==
  Kernel("stray", Config(1, 2), <<Input(8), Input(8)>>,
    LoadXY \o
    <<L("S_LOAD_DWORD", <<S(8), SS(2), C(0)>>), I("V_MOV_B32", <<V(3), S(0)>>),
      I("V_MOV_B32", <<V(4), S(1)>>), L("FLAT_LOAD_DWORD", <<VV(3), V(5)>>),
      L("FLAT_LOAD_DWORDX2", <<VV(3), VV(5)>>), I("V_MOV_B32", <<V(3), C(StorageSize - 2)>>),
      I("V_ADD_U32", <<V(3), V(0), V(3)>>), L("FLAT_STORE_DWORDX2", <<VV(3), VV(5)>>),
      I("S_SETPC_B64", <<SS(0)>>)>>)

(* Arguments without data, and a value, which readArgs fails at. *)
Mixed ==
  Kernel("mixed", Config(1, 2),
    <<Input(16), [Input(4) EXCEPT !.kind = "SCALAR"], [Input(16) EXCEPT !.hasData = FALSE], Input(16)>>,
    <<>>)

RunKernels ==
  <<XY("logic", LogicProgram), XY("sums", SumProgram), XY("unary", UnaryProgram),
    XY("vector", VectorProgram),
    WithClamp(XY("clamped", ClampProgram)), APlusB, AddIds,
    MaskedStore("masked", 1), MaskedStore("overrun", 2), Times, Stray, Mixed>>

RunContents ==
  {BytesOf(x, 4) : x \in {0, 3, 17, 130}}
  \union {BytesOf(x, 8) : x \in {0, 32895, 32640, 65535, 42330, 4871}}
  \union {BytesOf(4871, 8) \o BytesOf(42330, 8)}

(* What the kernels are for.  They end, but for the two that are made to   *)
(* fail.                                                                   *)
Number(bytes) == FromBytes(bytes, 1, 4)
Word(bytes, i) == FromBytes(bytes, 4 * i + 1, 4)

KernelComputes ==
  LET name == Kernels[kernel].name
  IN /\ phase = "failed" => name \in {"stray", "mixed"}
     /\ phase = "done" =>
          CASE name = "a_plus_b" -> Number(output[3]) = (Number(host[1]) + Number(host[2])) % 2^W
            [] name = "times" -> Number(output[3]) = (Number(host[1]) * Number(host[2])) % 2^W
            [] name = "add_ids" -> \A id \in 0 .. 3 :
                 Word(output[1], id) = (Word(host[1], id) + Number(host[2]) + id) % 2^W
            [] name = "masked" -> \A id \in 0 .. 1 :
                 Word(output[1], id) = IF get_bit(id, Number(host[3])) THEN Number(host[2]) ELSE 0
            [] OTHER -> TRUE

-----------------------------------------------------------------------------
(* A comparison of the lanes' values. *)
CompareKernels ==
  <<XY("compare", Spread \o <<I("V_CMP_LT_U32", <<VCC, V(3), V(4)>>),
                              I("V_CMP_EQ_I32", <<VCC, V(3), V(4)>>)>>)>>
=============================================================================
