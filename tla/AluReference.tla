---------------------------- MODULE AluReference ----------------------------
(***************************************************************************)
(* What the instructions are for, put down without the code's masks and    *)
(* shifts: the bitwise ones as truth tables, the arithmetic ones as sums,  *)
(* products and floor divisions of integers, the searches and fields as    *)
(* sets of bits.  a, b, c are the operands' values, natural numbers; the   *)
(* result may be any integer, of which the destination keeps what it has   *)
(* room for.  The README lists the instructions that are not here because  *)
(* they do something else than what their names say.                       *)
(***************************************************************************)
EXTENDS Words

Sgn(x) == IF x % 2^W >= 2^(W - 1) THEN (x % 2^W) - 2^W ELSE x % 2^W
Fits(x) == x \in -2^(W - 1) .. 2^(W - 1) - 1
Bit(x, i) == (x \div 2^i) % 2

-----------------------------------------------------------------------------
(* The pairs of bits for which the result has a 1. *)
Table ==
  [AND |-> {<<1, 1>>}, OR |-> {<<0, 1>>, <<1, 0>>, <<1, 1>>}, XOR |-> {<<0, 1>>, <<1, 0>>},
   NAND |-> {<<0, 0>>, <<0, 1>>, <<1, 0>>}, NOR |-> {<<0, 0>>}, XNOR |-> {<<0, 0>>, <<1, 1>>},
   ANDN1 |-> {<<0, 1>>}, ANDN2 |-> {<<1, 0>>}, ORN2 |-> {<<0, 0>>, <<1, 0>>, <<1, 1>>}]

Bitwise(op, a, b, n) == FromBits({i \in 0 .. n - 1 : <<Bit(a, i), Bit(b, i)>> \in Table[op]})

ScalarLogic == {"AND", "OR", "XOR", "NAND", "NOR", "XNOR", "ANDN2", "ORN2"}
Saving == {"AND", "OR", "XOR", "NAND", "NOR", "XNOR", "ANDN1", "ANDN2"}

ScalarLogicKeys == [k \in {"S_" \o op \o x : op \in ScalarLogic, x \in {"_B32", "_B64"}} |->
  CHOOSE p \in ScalarLogic \X {W, 2 * W} : k = "S_" \o p[1] \o (IF p[2] = W THEN "_B32" ELSE "_B64")]
SavingKeys == [k \in {"S_" \o op \o "_SAVEEXEC_B64" : op \in Saving} |->
  CHOOSE op \in Saving : k = "S_" \o op \o "_SAVEEXEC_B64"]

-----------------------------------------------------------------------------
(* The other scalar instructions: the value for the destination and SCC.   *)
R(dst, scc) == [dst |-> dst, scc |-> scc]
NZ(x, n) == R(x, x % 2^n # 0)
LowestOf(S) == IF S = {} THEN -1 ELSE CHOOSE i \in S : \A j \in S : i <= j
LeadingOf(S, n) == IF S = {} THEN -1 ELSE n - 1 - (CHOOSE i \in S : \A j \in S : j <= i)
Ones(x, n) == {i \in 0 .. n - 1 : Bit(x, i) = 1}
Zeros(x, n) == {i \in 0 .. n - 1 : Bit(x, i) = 0}

ArithmeticKeys ==
  {"S_ADD_U32", "S_SUB_U32", "S_ADDC_U32", "S_SUBB_U32", "S_ADD_I32", "S_SUB_I32", "S_MUL_I32",
   "S_MUL_HI_U32", "S_MIN_I32", "S_MIN_U32", "S_MAX_I32", "S_MAX_U32", "S_LSHL1_ADD_U32",
   "S_LSHL2_ADD_U32", "S_LSHL3_ADD_U32", "S_LSHL4_ADD_U32", "S_LSHL_B32", "S_LSHL_B64",
   "S_LSHR_B32", "S_LSHR_B64", "S_ASHR_I32", "S_CSELECT_B32", "S_CSELECT_B64", "S_BFM_B32",
   "S_BFE_U32", "S_PACK_LL_B32_B16", "S_PACK_LH_B32_B16", "S_PACK_HH_B32_B16"}

ShlAdd(a, b, n) == R((a * 2^n) + b, (a * 2^n) + b >= 2^W)
Field(x, from, length) == FromBits({i - from : i \in Ones(x, W) \intersect from .. from + length - 1})

Arithmetic(k, a, b, scc) ==
  CASE k = "S_ADD_U32" -> R(a + b, a + b >= 2^W)
    [] k = "S_SUB_U32" -> R(a - b, a < b)
    [] k = "S_ADDC_U32" -> R(a + b + Num(scc), a + b + Num(scc) >= 2^W)
    [] k = "S_SUBB_U32" -> R(a - b - Num(scc), a < b + Num(scc))
    [] k = "S_ADD_I32" -> R(a + b, ~Fits(Sgn(a) + Sgn(b)))
    [] k = "S_SUB_I32" -> R(a - b, ~Fits(Sgn(a) - Sgn(b)))
    [] k = "S_MUL_I32" -> R(a * b, scc)
    [] k = "S_MUL_HI_U32" -> R((a * b) \div 2^W, scc)
    [] k = "S_MIN_I32" -> R(IF Sgn(a) < Sgn(b) THEN a ELSE b, Sgn(a) < Sgn(b))
    [] k = "S_MIN_U32" -> R(IF a < b THEN a ELSE b, a < b)
    [] k = "S_MAX_I32" -> R(IF Sgn(a) > Sgn(b) THEN a ELSE b, Sgn(a) > Sgn(b))
    [] k = "S_MAX_U32" -> R(IF a > b THEN a ELSE b, a > b)
    [] k = "S_LSHL1_ADD_U32" -> ShlAdd(a, b, 1) [] k = "S_LSHL2_ADD_U32" -> ShlAdd(a, b, 2)
    [] k = "S_LSHL3_ADD_U32" -> ShlAdd(a, b, 3) [] k = "S_LSHL4_ADD_U32" -> ShlAdd(a, b, 4)
    [] k = "S_LSHL_B32" -> NZ(a * 2^(b % W), W)
    [] k = "S_LSHL_B64" -> NZ((a % 2^(2 * W - (b % (2 * W)))) * 2^(b % (2 * W)), 2 * W)
    [] k = "S_LSHR_B32" -> NZ(a \div 2^(b % W), W)
    [] k = "S_LSHR_B64" -> NZ(a \div 2^(b % (2 * W)), 2 * W)
    [] k = "S_ASHR_I32" -> NZ(Sgn(a) \div 2^(b % W), W)
    [] k \in {"S_CSELECT_B32", "S_CSELECT_B64"} -> R(IF scc THEN a ELSE b, scc)
    [] k = "S_BFM_B32" -> R(FromBits((b % W) .. ((a % W) + (b % W) - 1)), scc)
    [] k = "S_BFE_U32" -> NZ(Field(a, b % W, (b \div 2^H) % (4 * W)), W)
    [] k = "S_PACK_LL_B32_B16" -> R((a % 2^H) + (b % 2^H) * 2^H, scc)
    [] k = "S_PACK_LH_B32_B16" -> R((a % 2^H) + (b \div 2^H) * 2^H, scc)
    [] k = "S_PACK_HH_B32_B16" -> R((a \div 2^H) + (b \div 2^H) * 2^H, scc)

UnaryKeys ==
  {"S_ABS_I32", "S_NOT_B32", "S_NOT_B64", "S_BREV_B32", "S_BREV_B64", "S_BCNT0_I32_B32",
   "S_BCNT0_I32_B64", "S_BCNT1_I32_B32", "S_BCNT1_I32_B64", "S_FF0_I32_B32", "S_FF0_I32_B64",
   "S_FF1_I32_B32", "S_FF1_I32_B64", "S_FLBIT_I32_B32", "S_FLBIT_I32_B64", "S_SEXT_I32_I8",
   "S_SEXT_I32_I16", "S_WQM_B32", "S_WQM_B64", "S_MOV_B32", "S_MOV_B64", "S_CMOV_B32",
   "S_CMOV_B64", "S_BITSET0_B32", "S_BITSET1_B32"}

Quads(x, n) == {i \in 0 .. n - 1 : \E j \in Ones(x, n) : j \div 4 = i \div 4}

Unary(k, old, a, scc) ==
  CASE k = "S_ABS_I32" -> NZ(IF Sgn(a) < 0 THEN -Sgn(a) ELSE Sgn(a), W)
    [] k = "S_NOT_B32" -> NZ(FromBits(Zeros(a, W)), W)
    [] k = "S_NOT_B64" -> NZ(FromBits(Zeros(a, 2 * W)), 2 * W)
    [] k = "S_BREV_B32" -> R(FromBits({W - 1 - i : i \in Ones(a, W)}), scc)
    [] k = "S_BREV_B64" -> R(FromBits({2 * W - 1 - i : i \in Ones(a, 2 * W)}), scc)
    [] k = "S_BCNT0_I32_B32" -> NZ(Cardinality(Zeros(a, W)), W)
    [] k = "S_BCNT0_I32_B64" -> NZ(Cardinality(Zeros(a, 2 * W)), W)
    [] k = "S_BCNT1_I32_B32" -> NZ(Cardinality(Ones(a, W)), W)
    [] k = "S_BCNT1_I32_B64" -> NZ(Cardinality(Ones(a, 2 * W)), W)
    [] k = "S_FF0_I32_B32" -> R(LowestOf(Zeros(a, W)), scc)
    [] k = "S_FF0_I32_B64" -> R(LowestOf(Zeros(a, 2 * W)), scc)
    [] k = "S_FF1_I32_B32" -> R(LowestOf(Ones(a, W)), scc)
    [] k = "S_FF1_I32_B64" -> R(LowestOf(Ones(a, 2 * W)), scc)
    [] k = "S_FLBIT_I32_B32" -> R(LeadingOf(Ones(a, W), W), scc)
    [] k = "S_FLBIT_I32_B64" -> R(LeadingOf(Ones(a, 2 * W), 2 * W), scc)
    [] k = "S_SEXT_I32_I8" -> R((a % 2^B) - (IF Bit(a, B - 1) = 1 THEN 2^B ELSE 0), scc)
    [] k = "S_SEXT_I32_I16" -> R((a % 2^H) - (IF Bit(a, H - 1) = 1 THEN 2^H ELSE 0), scc)
    [] k = "S_WQM_B32" -> NZ(FromBits(Quads(a, W)), W)
    [] k = "S_WQM_B64" -> NZ(FromBits(Quads(a, 2 * W)), 2 * W)
    [] k \in {"S_MOV_B32", "S_MOV_B64"} -> R(a, scc)
    [] k \in {"S_CMOV_B32", "S_CMOV_B64"} -> R(IF scc THEN a ELSE old, scc)
    [] k = "S_BITSET0_B32" -> R(FromBits(Ones(old, W) \ {a % W}), scc)
    [] k = "S_BITSET1_B32" -> R(FromBits(Ones(old, W) \union {a % W}), scc)

-----------------------------------------------------------------------------
(* The relations. *)
Relations == {"EQ", "LG", "GT", "GE", "LT", "LE"}
Related(r, x, y) ==
  CASE r = "EQ" -> x = y [] r = "LG" -> x # y [] r = "GT" -> x > y [] r = "GE" -> x >= y
    [] r = "LT" -> x < y [] r = "LE" -> x <= y

ComparedAs == [k \in {"S_CMP_" \o r \o t : r \in Relations, t \in {"_I32", "_U32"}} |->
  CHOOSE p \in Relations \X {"_I32", "_U32"} : k = "S_CMP_" \o p[1] \o p[2]]

Compare(k, a, b) ==
  IF ComparedAs[k][2] = "_I32" THEN Related(ComparedAs[k][1], Sgn(a), Sgn(b))
  ELSE Related(ComparedAs[k][1], a, b)

-----------------------------------------------------------------------------
(* The vector instructions, on the words of one lane. *)
VectorLogic == [V_AND_B32 |-> "AND", V_OR_B32 |-> "OR", V_XOR_B32 |-> "XOR"]

VectorKeys ==
  DOMAIN VectorLogic \union
  {"V_MOV_B32", "V_NOT_B32", "V_BFREV_B32", "V_FFBL_B32", "V_ADD_U32", "V_SUB_U32",
   "V_SUBREV_U32", "V_ADDC_U32", "V_LSHLREV_B32", "V_LSHRREV_B32", "V_LSHR_B32",
   "V_ASHRREV_I32", "V_MAX_I32", "V_MAX_U32", "V_MIN_I32", "V_MIN_U32", "V_MUL_LO_U16",
   "V_MUL_U32_U24", "V_MUL_LO_U32", "V_ADD3_U32"}

Clamp(x, clamp) == IF ~clamp THEN x ELSE Greater(0, Lesser(x, 2^W - 1))

VectorResult(k, a, b, c, carry, clamp) ==
  CASE k \in DOMAIN VectorLogic -> Bitwise(VectorLogic[k], a, b, W)
    [] k = "V_MOV_B32" -> a
    [] k = "V_NOT_B32" -> FromBits(Zeros(a, W))
    [] k = "V_BFREV_B32" -> FromBits({W - 1 - i : i \in Ones(a, W)})
    [] k = "V_FFBL_B32" -> LowestOf(Ones(a, W))
    [] k = "V_ADD_U32" -> Clamp(a + b, clamp)
    [] k = "V_SUB_U32" -> Clamp(a - b, clamp)
    [] k = "V_SUBREV_U32" -> Clamp(b - a, clamp)
    [] k = "V_ADDC_U32" -> a + b + carry
    [] k = "V_LSHLREV_B32" -> b * 2^(a % W)
    [] k = "V_LSHRREV_B32" -> b \div 2^(a % W)
    [] k = "V_LSHR_B32" -> a \div 2^(b % W)
    [] k = "V_ASHRREV_I32" -> Sgn(b) \div 2^(a % W)
    [] k = "V_MAX_I32" -> Greater(Sgn(a), Sgn(b))
    [] k = "V_MAX_U32" -> Greater(a, b)
    [] k = "V_MIN_I32" -> Lesser(Sgn(a), Sgn(b))
    [] k = "V_MIN_U32" -> Lesser(a, b)
    [] k = "V_MUL_LO_U16" -> ((a % 2^H) * (b % 2^H)) % 2^H
    [] k = "V_MUL_U32_U24" -> (a % 2^(3 * B)) * (b % 2^(3 * B))
    [] k = "V_MUL_LO_U32" -> a * b
    [] k = "V_ADD3_U32" -> a + b + c

=============================================================================
