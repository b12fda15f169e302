----------------------------- MODULE Registers -----------------------------
(***************************************************************************)
(* emulator/src/flow/register: the program counter and the MODE and STATUS *)
(* registers of a wavefront, and the access to pairs of scalar registers   *)
(* the instructions use.  wf is the wavefront, a record:                   *)
(*   pc, used        ProgramCounter's value_ and used_                     *)
(*   mode, status    the bits of ModeReg and StatusReg that are set        *)
(*   exec, vcc, scc, m0                                                    *)
(*   sgpr, vgpr      scalarRegFile and vectorRegFile, [0 .. n - 1 ->       *)
(*                   words]; register v of a lane is at lane * vgprsnum + v *)
(*   vgprsnum, size  as in the code                                        *)
(*   fault           "none", or why it cannot go on: "aborted" by an       *)
(*                   assertion, "thrown" out of the instruction by a       *)
(*                   runtime_error, "terminated" by another exception,     *)
(*                   "hung" in a loop, "undefined" by an access outside a  *)
(*                   vector                                                *)
(***************************************************************************)
EXTENDS Words

Fault(wf, f) == IF wf.fault = "none" THEN [wf EXCEPT !.fault = f] ELSE wf

Check(wf, ok, f) == IF ok THEN wf ELSE Fault(wf, f)

-----------------------------------------------------------------------------
(* ProgramCounter. *)
PCset(wf, value) == [wf EXCEPT !.pc = u64(value), !.used = TRUE]
PCadd(wf, value) == [wf EXCEPT !.pc = u64(@ + value), !.used = TRUE]
PChidden_add(wf, value) == [wf EXCEPT !.pc = u64(@ + value)]

(* was_used clears the flag it reports. *)
PCwas_used(wf) == [wf EXCEPT !.used = FALSE]

-----------------------------------------------------------------------------
(* ModeReg and StatusReg.  A flag is one bit; a field of several bits is   *)
(* read as a number, and its setter only ever sets bits.  The masks 0xe of *)
(* fp_round, fp_denorm and csp leave the lowest bit of the field out.  The *)
(* field excp_en is never used and left out.                               *)
ModeFlag ==
  [dx10_clamp |-> 8, ieee |-> 9, lod_clamped |-> 10, debug |-> 11, fp16_ovfl |-> 23,
   pops_packer0 |-> 24, pops_packer1 |-> 25, disable_perf |-> 26, gpr_idx_en |-> 27,
   vskip |-> 28]

ModeField ==
  [fp_round |-> [at |-> 0, mask |-> 1 .. 3],
   fp_denorm |-> [at |-> 4, mask |-> 1 .. 3],
   csp |-> [at |-> 29, mask |-> 1 .. 3]]

StatusFlag ==
  [scc |-> 0, priv |-> 5, trap_en |-> 6, ttrace_en |-> 7, export_rdy |-> 8, execz |-> 9,
   vccz |-> 10, in_tg |-> 11, in_barrier |-> 12, halt |-> 13, trap |-> 14,
   ttrace_cu_en |-> 15, valid |-> 16, ecc_err |-> 17, skip_export |-> 18, perf_en |-> 19,
   cond_dbg_user |-> 20, cond_dbg_sys |-> 21, allow_replay |-> 22, must_export |-> 27]

SetFlag(register, flag, on) == IF on THEN register \union {flag} ELSE register \ {flag}

GetField(register, field) ==
  FromBits({i \in field.mask : field.at + i \in register})

(* A bit above the 32 of the register is lost. *)
OrField(register, field, value) ==
  register \union ({field.at + i : i \in field.mask \intersect Bits(value, 8)} \intersect 0 .. 31)

csp(wf) == GetField(wf.mode, ModeField.csp)
SetCsp(wf, value) == [wf EXCEPT !.mode = OrField(@, ModeField.csp, value)]

-----------------------------------------------------------------------------
(* set_sgpr_pair and read_sgpr_pair: the low word is in the even register. *)
(* The index is asserted to be even and not compared with the file's size. *)
PairFault(wf, i) ==
  IF i % 2 # 0 THEN "aborted" ELSE IF i + 1 \notin DOMAIN wf.sgpr THEN "undefined" ELSE "none"

set_sgpr_pair(wf, i, value) ==
  IF PairFault(wf, i) # "none" THEN Fault(wf, PairFault(wf, i))
  ELSE [wf EXCEPT !.sgpr[i] = u32(value), !.sgpr[i + 1] = u32(value \div 2^W)]

read_sgpr_pair(wf, i) == wf.sgpr[i] + wf.sgpr[i + 1] * 2^W

=============================================================================
