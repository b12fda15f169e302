----------------------------- MODULE Wavefront -----------------------------
(***************************************************************************)
(* emulator/src/flow/wavefront.cpp and the functions run_* of              *)
(* emulator/src/alu: what one instruction does to the wavefront that runs  *)
(* it and to the storage.  An instruction is a record                      *)
(*   key, format, operands    operands a sequence of records               *)
(*     type                   "REGISTER" or a constant                     *)
(*     value                  <<file, number>> or the constant's word      *)
(*     n                      regAmount                                    *)
(* The get_*_state functions copy registers into a state, a switch works   *)
(* on the copy, and the update_with_*_state functions write a part of it   *)
(* back: an exception in between leaves the registers alone.               *)
(***************************************************************************)
EXTENDS ScalarControl, VectorAlu3, Storage, SequencesExt

CONSTANT WAVEFRONT_SIZE   (* 64 in the code, which is as many as a mask has bits *)

ASSUME WavefrontAssumption == WAVEFRONT_SIZE \in 1 .. 2 * W

None == -1   (* no lane *)

IsRegister(op) == op.type = "REGISTER"
InFile(op, file) == IsRegister(op) /\ op.value[1] = file

Vreg(wf, lane, v) == lane * wf.vgprsnum + v

-----------------------------------------------------------------------------
(* read_operand: the words of an operand, the most significant first.      *)
Readable(wf, op, lane) ==
  CASE InFile(op, "S") -> \A i \in 0 .. op.n - 1 : op.value[2] + i \in DOMAIN wf.sgpr
    [] InFile(op, "V") -> /\ lane # None
                          /\ \A i \in 0 .. op.n - 1 : Vreg(wf, lane, op.value[2] + i) \in DOMAIN wf.vgpr
    [] OTHER -> IsRegister(op) => op.value[1] \in {"EXEC", "SCC", "VCC", "M0"}

read_operand(wf, op, lane) ==
  CASE ~IsRegister(op)  -> <<op.value>>
    [] InFile(op, "S")  -> [k \in 1 .. op.n |-> wf.sgpr[op.value[2] + op.n - k]]
    [] InFile(op, "V")  -> [k \in 1 .. op.n |-> wf.vgpr[Vreg(wf, lane, op.value[2] + op.n - k)]]
    [] InFile(op, "EXEC") -> WordsOf(wf.exec, 2)
    [] InFile(op, "VCC")  -> WordsOf(wf.vcc, 2)
    [] InFile(op, "SCC")  -> <<Num(wf.scc)>>
    [] InFile(op, "M0")   -> <<wf.m0>>

Value(wf, op, lane) == to_uin64_t(read_operand(wf, op, lane))

(* write_data_to_gpr of a vector of words.  Another register than these is *)
(* only reported to the log.                                               *)
WriteWords(wf, op, words, lane) ==
  CASE InFile(op, "S") ->
         IF Len(words) = op.n /\ Readable(wf, op, lane)
         THEN [wf EXCEPT !.sgpr = [r \in DOMAIN @ |->
                 IF r - op.value[2] \in 0 .. op.n - 1 THEN words[Len(words) - (r - op.value[2])] ELSE @[r]]]
         ELSE Fault(wf, "aborted")
    [] InFile(op, "V") ->
         LET first == Vreg(wf, lane, op.value[2])
         IN IF Len(words) = op.n /\ Readable(wf, op, lane)
            THEN [wf EXCEPT !.vgpr = [r \in DOMAIN @ |->
                    IF r - first \in 0 .. op.n - 1 THEN words[Len(words) - (r - first)] ELSE @[r]]]
            ELSE Fault(wf, "aborted")
    [] InFile(op, "VCC")  -> IF Len(words) = 2 THEN [wf EXCEPT !.vcc = to_uin64_t(words)]
                             ELSE Fault(wf, "aborted")
    [] InFile(op, "EXEC") -> IF Len(words) = 2 THEN [wf EXCEPT !.exec = to_uin64_t(words)]
                             ELSE Fault(wf, "aborted")
    [] OTHER -> IF IsRegister(op) THEN wf ELSE Fault(wf, "terminated")

(* write_data_to_gpr of a uint64_t. *)
WriteValue(wf, op, x, lane) ==
  IF IsRegister(op) /\ op.n <= 2 THEN WriteWords(wf, op, WordsOf(x, op.n), lane)
  ELSE Fault(wf, "aborted")

(* MUTANT: a bit of the mask off by one. *)
MaskedOffByOne(wf, lane) == get_bit(lane + 1, wf.exec)

work_item_masked(wf, lane) == get_bit(lane, wf.exec)

-----------------------------------------------------------------------------
(* The scalar formats.  What a constructor leaves out of a state is 0.     *)
ScalarState(wf, ub) ==
  [wf |-> wf, SDST |-> 0, SSRC0 |-> 0, SSRC1 |-> 0, IMM16 |-> 0, RELADDR |-> 0, EXEC |-> wf.exec,
   VCC |-> wf.vcc, M0 |-> wf.m0, SCC |-> wf.scc, DEST |-> <<"none", 0>>, SRC |-> <<"none", 0>>,
   ub |-> ub]

AllReadable(wf, ops) == \A k \in DOMAIN ops : Readable(wf, ops[k], None)

(* A constant as an operand of a SOP1 with two operands ends the emulator: *)
(* DEST_TYPE and SRC0_TYPE are taken with std::get<RegisterType>.          *)
run_sop1(instr, wf, ub) ==
  LET ops   == instr.operands
      one   == instr.key \in OneOperand
      read  == Len(ops) = 2 \/ one
      start == ScalarState(wf, ub)
      state == IF one THEN [start EXCEPT !.SDST = Value(wf, ops[1], None), !.SSRC0 = Value(wf, ops[1], None)]
               ELSE IF read
               THEN [start EXCEPT !.SDST = Value(wf, ops[1], None), !.SSRC0 = Value(wf, ops[2], None),
                                  !.DEST = ops[1].value, !.SRC = ops[2].value]
               ELSE start
      done  == sop1(instr.key, state)
      wrote == IF instr.key = "S_GETPC_B64" THEN WriteValue(done.wf, ops[1], done.SDST, None) ELSE done.wf
      back  == [wrote EXCEPT !.exec = done.EXEC, !.m0 = done.M0, !.scc = done.SCC]
  IN IF Len(ops) > 2 \/ (one /\ Len(ops) # 1) \/ (read /\ ~AllReadable(wf, ops)) THEN Fault(wf, "aborted")
     ELSE IF Len(ops) = 2 /\ ~(IsRegister(ops[1]) /\ IsRegister(ops[2])) THEN Fault(wf, "terminated")
     ELSE IF Len(ops) = 2 THEN WriteValue(back, ops[1], done.SDST, None) ELSE back

run_sop2(instr, wf, ub) ==
  LET ops   == instr.operands
      fork  == instr.key = "S_CBRANCH_G_FORK"
      rfe   == instr.key = "S_RFE_RESTORE_B64"
      At(k) == IF k \in DOMAIN ops THEN Value(wf, ops[k], None) ELSE 0
      start == ScalarState(wf, ub)
      done  == sop2(instr.key,
                 IF fork THEN [start EXCEPT !.SSRC0 = At(1), !.SSRC1 = At(2)]
                 ELSE IF rfe THEN [start EXCEPT !.SDST = At(1), !.SSRC0 = At(2)]
                 ELSE IF Len(ops) < 3 THEN start
                 ELSE [start EXCEPT !.SDST = At(1), !.SSRC0 = At(2), !.SSRC1 = At(3)])
      wrote == IF rfe THEN WriteValue(done.wf, ops[1], done.SDST, None) ELSE done.wf
      back  == [wrote EXCEPT !.exec = done.EXEC, !.scc = done.SCC]
  IN IF \/ Len(ops) > 3
        \/ (fork \/ rfe) /\ Len(ops) < 2
        \/ (fork \/ rfe \/ Len(ops) = 3) /\ ~AllReadable(wf, ops) THEN Fault(wf, "aborted")
     ELSE IF Len(ops) = 3 THEN WriteValue(back, ops[1], done.SDST, None) ELSE back

(* The call writes its register, the fork nothing, the rest SCC and SDST.  *)
run_sopk(instr, wf, ub) ==
  LET ops   == instr.operands
      call  == instr.key = "S_CALL_B64"
      fork  == instr.key = "S_CBRANCH_I_FORK"
      first == Value(wf, ops[1], None)
      second == Value(wf, ops[2], None)
      done  == sopk(instr.key,
                 [ScalarState(wf, ub) EXCEPT !.SDST = first, !.SSRC0 = IF fork THEN first ELSE 0,
                    !.RELADDR = second, !.IMM16 = u32(second)])
  IN IF Len(ops) < 2 \/ ~AllReadable(wf, ops) \/ (~call /\ ~fork /\ Len(ops) # 2) THEN Fault(wf, "aborted")
     ELSE IF fork THEN done.wf
     ELSE WriteValue(IF call THEN done.wf ELSE [done.wf EXCEPT !.scc = done.SCC], ops[1], done.SDST, None)

(* WfStateSOPC has no EXEC: its first argument, the exec mask, becomes M0, *)
(* which the update stores.                                                *)
run_sopc(instr, wf, ub) ==
  LET ops  == instr.operands
      done == sopc(instr.key, [ScalarState(wf, ub) EXCEPT !.M0 = u32(wf.exec),
                                 !.SSRC0 = Value(wf, ops[1], None), !.SSRC1 = Value(wf, ops[2], None)])
  IN IF Len(ops) # 2 \/ ~AllReadable(wf, ops) THEN Fault(wf, "aborted")
     ELSE [done.wf EXCEPT !.scc = done.SCC, !.m0 = done.M0]

run_sopp(instr, wf, ub) ==
  LET ops    == instr.operands
      branch == instr.key \in BranchKeys
      done   == sopp(instr.key, IF branch
                                THEN [ScalarState(wf, ub) EXCEPT !.RELADDR = Value(wf, ops[1], None)]
                                ELSE ScalarState(wf, ub))
  IN IF branch /\ (ops = <<>> \/ ~Readable(wf, ops[1], None)) THEN Fault(wf, "aborted")
     ELSE [done.wf EXCEPT !.exec = done.EXEC, !.vcc = done.VCC, !.scc = done.SCC]

(* to_uint32_v keeps the order of the storage, so that the words of a      *)
(* longer load are in the registers from the last to the first.            *)
DwordsLoaded == [S_LOAD_DWORD |-> 1, S_LOAD_DWORDX2 |-> 2, S_LOAD_DWORDX4 |-> 4,
                 S_LOAD_DWORDX8 |-> 8, S_LOAD_DWORDX16 |-> 16]
run_smem(instr, wf, data) ==
  LET ops   == instr.operands
      n     == DwordsLoaded[instr.key]
      read  == read_data(data, Value(wf, ops[2], None), u32(Value(wf, ops[3], None)), 4 * n)
      words == [k \in 1 .. Len(read.bytes) \div 4 |-> FromBytes(read.bytes, 4 * k - 3, 4)]
  IN IF \/ Len(ops) # 3
        \/ ~AllReadable(wf, ops)
        \/ instr.key \notin DOMAIN DwordsLoaded THEN Fault(wf, "aborted")
     ELSE IF read.thrown THEN Fault(wf, "thrown") ELSE WriteWords(wf, ops[1], words, None)

-----------------------------------------------------------------------------
(* The vector formats.  The state is read for every lane; ReadLane gives   *)
(* the part of one, src naming the operands that become SRC0 to SRC2.      *)
Lanes(wf) == 0 .. wf.size - 1

LanesReadable(wf, ops) == \A k \in DOMAIN ops, i \in Lanes(wf) : Readable(wf, ops[k], i)

ReadLane(wf, ops, src, i, vcc, ub) ==
  LET Source(k) == IF k \in DOMAIN src THEN Value(wf, ops[src[k]], i) ELSE 0
  IN [i |-> i, VDST |-> Value(wf, ops[1], i), SRC0 |-> Source(1), SRC1 |-> Source(2),
      SRC2 |-> Source(3), VCC |-> vcc, CLAMP |-> ModeFlag.dx10_clamp \in wf.mode,
      fault |-> "none", ub |-> ub]

(* The loop over the lanes, of which only the active ones take their turn  *)
(* of the switch (vop); VCC passes from turn to turn.                      *)
Turns(wf, instr, src, vop(_, _), ub) ==
  LET turn[i \in Lanes(wf)] ==
        LET l == ReadLane(wf, instr.operands, src, i, IF i = 0 THEN wf.vcc ELSE turn[i - 1].VCC, ub)
        IN IF work_item_masked(wf, i) THEN vop(instr.key, l) ELSE l
  IN turn

(* Writes VDST of all lanes back, in their order, into the first operand.  *)
Update(wf, instr, turn) ==
  LET bad == {i \in Lanes(wf) : turn[i].fault # "none"}
      after[i \in Lanes(wf)] ==
        WriteValue(IF i = 0 THEN wf ELSE after[i - 1], instr.operands[1], turn[i].VDST, i)
  IN IF bad # {} THEN Fault(wf, turn[Min(bad)].fault) ELSE after[wf.size - 1]

Vector(wf, instr, src, vop(_, _), ub) ==
  IF LanesReadable(wf, instr.operands) THEN Update(wf, instr, Turns(wf, instr, src, vop, ub))
  ELSE Fault(wf, "aborted")

run_vop1(instr, wf, ub) ==
  IF Len(instr.operands) = 2 THEN Vector(wf, instr, <<2>>, vop1, ub) ELSE Fault(wf, "aborted")

(* With a carry the operands are vdst, vcc, src0, src1, vcc.               *)
run_vop2(instr, wf, ub) ==
  LET ops   == instr.operands
      src   == IF Len(ops) = 3 THEN <<2, 3>> ELSE <<3, 4>>
      carry == Len(ops) = 5 => InFile(ops[2], "VCC") /\ InFile(ops[5], "VCC")
  IN IF Len(ops) \notin {3, 5} THEN Fault(wf, "thrown")
     ELSE IF ~carry THEN Fault(wf, "aborted")
     ELSE LET after == Vector(wf, instr, src, vop2, ub)
          IN IF after.fault # "none" THEN after
             ELSE [after EXCEPT !.vcc = Turns(wf, instr, src, vop2, ub)[wf.size - 1].VCC]

(* VCC is not stored.                                                      *)
run_vop3(instr, wf, ub) ==
  LET n == Len(instr.operands)
  IN IF n \in {3, 4} THEN Vector(wf, instr, IF n = 3 THEN <<2, 3>> ELSE <<2, 3, 4>>, vop3, ub)
     ELSE Fault(wf, "aborted")

(* The comparisons of the active lanes, as bits of SDST; v_cmpx sets the   *)
(* same bits of EXEC.  No update follows: what is computed is dropped.     *)
Compared(instr, wf) ==
  LET active == {i \in Lanes(wf) : work_item_masked(wf, i)}
      holds  == {i \in active : vopc(instr.key, ReadLane(wf, instr.operands, <<2, 3>>, i, 0, "wrap"))}
  IN FromBits((Bits(Value(wf, instr.operands[1], None), 2 * W) \ active) \union holds)

run_vopc(instr, wf) ==
  LET ops == instr.operands
  IN IF /\ Len(ops) >= 3
        /\ Readable(wf, ops[1], None)
        /\ \A k \in 2 .. 3, i \in Lanes(wf) : Readable(wf, ops[k], i)
     THEN wf ELSE Fault(wf, "aborted")

-----------------------------------------------------------------------------
(* FLAT.  A result is [wf, data].  Every lane takes part, whether it is    *)
(* active or not, and all n words of a lane go to, or come from, the one   *)
(* address; the data of the lanes are one vector, VDATA or VDST.           *)
Both(wf, data) == [wf |-> wf, data |-> data]

FlatWords == [FLAT_STORE_DWORD |-> 1, FLAT_STORE_DWORDX2 |-> 2, FLAT_STORE_DWORDX3 |-> 3,
              FLAT_STORE_DWORDX4 |-> 4, FLAT_STORE_SHORT |-> 1, FLAT_LOAD_DWORD |-> 1,
              FLAT_LOAD_DWORDX2 |-> 2, FLAT_LOAD_DWORDX3 |-> 3, FLAT_LOAD_DWORDX4 |-> 4]

(* A lane that is given less than n words goes on with those of the next.  *)
(* The first exception ends the loop with what is written by then.         *)
run_flat_store(instr, wf, data) ==
  LET ops   == instr.operands
      n     == FlatWords[instr.key]
      bytes == IF instr.key = "FLAT_STORE_SHORT" THEN 2 ELSE 4
      per   == Len(read_operand(wf, ops[2], 0))
      VDATA(k) == read_operand(wf, ops[2], k \div per)[1 + (k % per)]
      writes == [k \in 1 .. n * wf.size |->
                   LET lane == (k - 1) \div n
                   IN [addr |-> Value(wf, ops[1], lane), word |-> lane * per + ((k - 1) % n)]]
      after == FoldLeft(LAMBDA m, w :
                 IF m.wf.fault # "none" THEN m
                 ELSE IF w.word >= per * wf.size THEN Both(Fault(m.wf, "undefined"), m.data)
                 ELSE LET done == write_data(m.data, w.addr, 0, BytesOf(VDATA(w.word), bytes))
                      IN Both(Check(m.wf, ~done.thrown, "thrown"), done.data),
                 Both(wf, data), writes)
  IN IF \/ Len(ops) # 2
        \/ ~LanesReadable(wf, ops)
        \/ instr.key = "FLAT_STORE_SHORT" /\ per # 1 THEN Both(Fault(wf, "aborted"), data)
     ELSE after

(* The address is the first operand and the destination the second.  The   *)
(* words of VDST a load leaves alone are 0; it is stored when all lanes    *)
(* have read.                                                              *)
run_flat_load(instr, wf, data) ==
  LET ops == instr.operands
      n   == FlatWords[instr.key]
      per == ops[2].n
      word == [i \in Lanes(wf) |-> read_data(data, Value(wf, ops[1], i), 0, 4)]
      VDST(i) == [k \in 1 .. per |-> IF k <= n THEN FromBytes(word[i].bytes, 1, 4) ELSE 0]
      after[i \in Lanes(wf)] ==
        WriteWords(IF i = 0 THEN wf ELSE after[i - 1], ops[2], VDST(i), i)
  IN IF \/ Len(ops) # 2
        \/ \E i \in Lanes(wf) : ~Readable(wf, ops[1], i)
        \/ instr.key \notin DOMAIN FlatWords
        \/ per < n THEN Fault(wf, "aborted")
     ELSE IF \E i \in Lanes(wf) : word[i].thrown THEN Fault(wf, "thrown")
     ELSE IF \E i \in Lanes(wf) : word[i].bytes = <<>> THEN Fault(wf, "undefined")
     ELSE after[wf.size - 1]

run_flat(instr, wf, data) ==
  IF instr.key \in FLATStoreKeys THEN run_flat_store(instr, wf, data)
  ELSE Both(run_flat_load(instr, wf, data), data)

-----------------------------------------------------------------------------
(* run_instr of alu.cpp: the switch on the format of the instruction.      *)
run_instr(instr, wf, data, ub) ==
  CASE instr.format = "FLAT" -> run_flat(instr, wf, data)
    [] instr.format = "SOP1" -> Both(run_sop1(instr, wf, ub), data)
    [] instr.format = "SOP2" -> Both(run_sop2(instr, wf, ub), data)
    [] instr.format = "SOPK" -> Both(run_sopk(instr, wf, ub), data)
    [] instr.format = "SOPP" -> Both(run_sopp(instr, wf, ub), data)
    [] instr.format = "SOPC" -> Both(run_sopc(instr, wf, ub), data)
    [] instr.format = "SMEM" -> Both(run_smem(instr, wf, data), data)
    [] instr.format = "VOP1" -> Both(run_vop1(instr, wf, ub), data)
    [] instr.format = "VOP2" -> Both(run_vop2(instr, wf, ub), data)
    [] instr.format \in {"VOP3A", "VOP3B"} -> Both(run_vop3(instr, wf, ub), data)
    [] instr.format = "VOPC" -> Both(run_vopc(instr, wf), data)
    [] instr.format = "UNDEFINED" -> Both(Fault(wf, "aborted"), data)

-----------------------------------------------------------------------------
(* The wavefront a work group makes of its work items: the constructor,    *)
(* init_wf_regs and evaluate_exec_reg_value.  config holds user_sgpr, the  *)
(* sizes sgprsnum and vgprsnum and, as sets of the names of what is on,    *)
(* enabled (bits of pgmrsrc2: "idx", "idy", "idz") and params ("ieeemode", *)
(* "dx10clamp", "useargs", "usesetup").  groupId is <<x, y, z>>, localIds  *)
(* those of the lanes in their order.                                      *)
GroupSgprs(config, groupId) ==
  LET on == SelectSeq(<< <<"idx", 1>>, <<"idy", 2>>, <<"idz", 3>> >>,
                      LAMBDA id : id[1] \in config.enabled)
  IN [r \in 0 .. config.sgprsnum - 1 |->
        LET k == r - config.user_sgpr + 1 IN IF k \in DOMAIN on THEN u32(groupId[on[k][2]]) ELSE 0]

(* The local ids go to v0, v1 and v2 lane after lane, whether the lane has *)
(* that many registers or not.                                             *)
LocalVgprs(config, localIds) ==
  FoldLeft(LAMBDA file, w : [file EXCEPT ![w.at] = w.id],
           [r \in 0 .. WAVEFRONT_SIZE * config.vgprsnum - 1 |-> 0],
           [k \in 1 .. 3 * Len(localIds) |->
              LET lane == (k - 1) \div 3
                  v    == (k - 1) % 3
              IN [at |-> lane * config.vgprsnum + v, id |-> localIds[lane + 1][v + 1]]])

new_wavefront(config, groupId, localIds) ==
  LET Flag(param, flag) == IF param \in config.params THEN {flag} ELSE {}
      wf == [pc |-> 0, used |-> FALSE, status |-> {}, vcc |-> 0, scc |-> FALSE, m0 |-> 0,
             mode |-> Flag("ieeemode", ModeFlag.ieee) \union Flag("dx10clamp", ModeFlag.dx10_clamp),
             exec |-> 2^Len(localIds) - 1,
             sgpr |-> GroupSgprs(config, groupId), vgpr |-> LocalVgprs(config, localIds),
             vgprsnum |-> config.vgprsnum, size |-> Len(localIds), fault |-> "none"]
      args == IF "useargs" \in config.params THEN set_sgpr_pair(wf, 4, config.kernArgAddr) ELSE wf
  IN IF "usesetup" \in config.params
     THEN set_sgpr_pair(set_sgpr_pair(args, 4, config.kernSetupPtr), 6, config.kernArgAddr)
     ELSE args

=============================================================================
