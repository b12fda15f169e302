----------------------------- MODULE KernelRun -----------------------------
(***************************************************************************)
(* emulator/src/Executor.cpp with what it calls for a kernel whose work    *)
(* groups are one wavefront each: the arguments are written into the       *)
(* storage, the wavefronts run the kernel instruction by instruction, and  *)
(* the arguments that may be written are read back.  Dispatcher and        *)
(* KernelExecution have the cutting into groups and wavefronts, and the    *)
(* barriers; DebugSession has the debugger, which runs between two         *)
(* instructions and changes nothing here.                                  *)
(*                                                                         *)
(* A kernel is a record: config (see Wavefront, with dims, globalOffset,   *)
(* the number of groups and the size of each, both in X), arguments (kind, *)
(* size, readPermission, writePermission; hasData for data.has_value())    *)
(* and lines, what the parser is given: records addr, key, operands.       *)
(***************************************************************************)
EXTENDS Wavefront

CONSTANTS
  Kernels,       (* a sequence of kernels                                  *)
  Contents,      (* what the host may have in the memory of an argument:   *)
                 (* sequences of bytes, those of the argument's size count *)
  StorageSize    (* 10000000 in the code                                   *)

ASSUME StorageAssumption == StorageSize \in Nat /\ StorageSize >= 48

(* parseKernelCode: the width of an instruction is the distance to the     *)
(* next one, 4 for the last.                                               *)
parseKernelCode(lines) ==
  LET Width(k) == IF k = Len(lines) THEN 4 ELSE lines[k + 1].addr - lines[k].addr
      Parsed(k) == [key |-> lines[k].key, operands |-> lines[k].operands, width |-> Width(k),
                    format |-> get_instr_format(lines[k].key, Width(k))]
  IN [a \in {lines[k].addr : k \in DOMAIN lines} |->
        Parsed(CHOOSE k \in DOMAIN lines : lines[k].addr = a)]

Code == [k \in DOMAIN Kernels |-> parseKernelCode(Kernels[k].lines)]

VARIABLES
  kernel,           (* which kernel runs                                   *)
  host,             (* the data of its arguments                           *)
  output,           (* their output, <<>> where there is none              *)
  data,             (* the storage                                         *)
  addr,             (* executeKernel's addr and offsetForValues            *)
  offsetForValues,
  argAddresses,
  argsRead,         (* how many were read back                             *)
  groups,           (* how many groups were dispatched                     *)
  wf,               (* the wavefront of the last one                       *)
  caught,           (* whether its last instruction threw an exception     *)
  phase             (* "write", "run", "read", "done", or "failed" when    *)
                    (* the emulator has aborted, hung or left by an        *)
                    (* exception                                           *)

arguments == <<addr, offsetForValues, argAddresses>>
vars == <<kernel, host, output, data, arguments, argsRead, groups, wf, caught, phase>>

args == Kernels[kernel].arguments
config == Kernels[kernel].config

-----------------------------------------------------------------------------
(* executeKernel.  The offset of a dimension the kernel has not got is 1.  *)
Offset(c, d) == IF d <= c.dims THEN c.globalOffset[d] ELSE 1

Header(c) ==
  LET Put8(d, k) == write_data(d, 0, 8 * (k - 1), BytesOf(Offset(c, k), 8)).data
  IN Put8(Put8(Put8(init(StorageSize), 1), 2), 3)

(* MUTANT: the size of the buffer for the size of its pointer. *)
EvaluateDataSize(a) == MapThenSumSet(LAMBDA k : a[k].size, {k \in DOMAIN a : a[k].hasData})

evaluateArgSize(a) ==
  MapThenSumSet(LAMBDA k : IF a[k].kind = "POINTER" THEN 8 ELSE a[k].size,
                {k \in DOMAIN a : a[k].hasData})

(* What the host has in memory that the kernel may not read goes nowhere.  *)
Written(arg) == arg.kind = "POINTER" => arg.readPermission

Init ==
  /\ kernel \in DOMAIN Kernels
  /\ host \in {h \in [DOMAIN args -> Contents \union {<<>>}] :
                 \A k \in DOMAIN args : Len(h[k]) = IF Written(args[k]) THEN args[k].size ELSE 0}
  /\ output = [k \in DOMAIN args |-> <<>>]
  /\ data = Header(config)
  /\ addr = 48
  /\ offsetForValues = evaluateArgSize(args)
  /\ argAddresses = <<>>
  /\ argsRead = 0
  /\ groups = 0
  /\ wf = [fault |-> "none"]
  /\ caught = FALSE
  /\ phase = "write"

(* writeArg.  The pointer of a buffer goes to addr, the buffer, or the     *)
(* value of a scalar, offsetForValues further on; what cannot be read by   *)
(* the kernel is not written, and is not given room either.                *)
writeArg ==
  /\ phase = "write"
  /\ Len(argAddresses) < Len(args)
  /\ LET k       == Len(argAddresses) + 1
         arg     == args[k]
         pointer == arg.kind = "POINTER"
         slot    == IF pointer THEN write_data(data, addr, 0, BytesOf(addr + offsetForValues, 8))
                    ELSE [data |-> data, thrown |-> FALSE]
         bytes   == IF Written(arg) /\ ~slot.thrown THEN write_data(slot.data, addr, offsetForValues, host[k])
                    ELSE slot
     IN /\ argAddresses' = Append(argAddresses, addr)
        /\ IF arg.hasData
           THEN /\ data' = bytes.data
                /\ phase' = IF bytes.thrown THEN "failed" ELSE phase
                /\ offsetForValues' = offsetForValues + (IF Written(arg) THEN arg.size ELSE 0)
                /\ addr' = IF pointer THEN addr + 8 ELSE addr
           ELSE UNCHANGED <<data, phase, offsetForValues, addr>>
  /\ UNCHANGED <<kernel, host, output, argsRead, groups, wf, caught>>

next_wg(g) == new_wavefront(config, <<g, 0, 0>>, [i \in 1 .. config.groupSize |-> <<i - 1, 0, 0>>])

Dispatch ==
  /\ phase = "write"
  /\ Len(argAddresses) = Len(args)
  /\ phase' = "run"
  /\ groups' = 1
  /\ wf' = next_wg(0)
  /\ UNCHANGED <<kernel, host, output, data, arguments, argsRead, caught>>

-----------------------------------------------------------------------------
(* run_wavefront.                                                          *)
fetched == wf.pc % 4 = 0 /\ wf.pc \in DOMAIN Code[kernel]
instr == Code[kernel][wf.pc]

(* MUTANT: the width is added to the target of a jump, too. *)
NextAfterJump(w, width) ==
  IF width \in {4, 8} THEN PChidden_add(PCwas_used(w), width) ELSE Fault(w, "terminated")

(* to_next_instr; get_width throws where nothing catches.                  *)
to_next_instr(w, width) ==
  IF w.used THEN PCwas_used(w)
  ELSE IF width \in {4, 8} THEN PChidden_add(w, width) ELSE Fault(w, "terminated")

(* A runtime_error in an instruction is logged, and the next one runs.  m  *)
(* is what the instruction leaves.                                         *)
AfterInstr(w) ==
  IF w.fault \notin {"none", "thrown"} THEN w
  ELSE to_next_instr([w EXCEPT !.fault = "none"], instr.width)

Executed(m) ==
  /\ wf' = AfterInstr(m.wf)
  /\ data' = m.data
  /\ caught' = (m.wf.fault = "thrown")
  /\ phase' = IF wf'.fault = "none" THEN phase ELSE "failed"

RunInstr ==
  /\ phase = "run"
  /\ fetched
  /\ instr.key # "S_ENDPGM"
  /\ IF instr.key = "S_WAITCNT" THEN Executed(Both(wf, data))
     ELSE \E ub \in {"wrap", "fill"} : Executed(run_instr(instr, wf, data, ub))
  /\ UNCHANGED <<kernel, host, output, arguments, argsRead, groups>>

(* get_instr fails an assertion.                                           *)
NoInstr ==
  /\ phase = "run"
  /\ ~fetched
  /\ phase' = "failed"
  /\ wf' = Fault(wf, "aborted")
  /\ UNCHANGED <<kernel, host, output, data, arguments, argsRead, groups, caught>>

EndPgm ==
  /\ phase = "run"
  /\ fetched
  /\ instr.key = "S_ENDPGM"
  /\ IF groups < config.groups
     THEN wf' = next_wg(groups) /\ groups' = groups + 1 /\ UNCHANGED phase
     ELSE phase' = "read" /\ UNCHANGED <<wf, groups>>
  /\ caught' = FALSE
  /\ UNCHANGED <<kernel, host, output, data, arguments, argsRead>>

-----------------------------------------------------------------------------
(* readArgs of one argument.  A scalar is not implemented: an assertion    *)
(* fails.                                                                  *)
readArgs ==
  /\ phase = "read"
  /\ argsRead < Len(args)
  /\ argsRead' = argsRead + 1
  /\ LET k     == argsRead + 1
         slot  == read_data(data, argAddresses[k], 0, 8)
         bytes == read_data(data, FromBytes(slot.bytes, 1, 8), 0, args[k].size)
         lost  == \/ args[k].kind = "SCALAR"
                  \/ args[k].writePermission /\ (slot.thrown \/ bytes.thrown)
     IN IF ~args[k].hasData THEN UNCHANGED <<output, phase>>
        ELSE IF lost THEN phase' = "failed" /\ UNCHANGED output
        ELSE /\ output' = IF args[k].writePermission
                          THEN [output EXCEPT ![k] = bytes.bytes] ELSE output
             /\ UNCHANGED phase
  /\ UNCHANGED <<kernel, host, data, arguments, groups, wf, caught>>

Return ==
  /\ phase = "read"
  /\ argsRead = Len(args)
  /\ phase' = "done"
  /\ UNCHANGED <<kernel, host, output, data, arguments, argsRead, groups, wf, caught>>

Next == writeArg \/ Dispatch \/ RunInstr \/ NoInstr \/ EndPgm \/ readArgs \/ Return

Spec == Init /\ [][Next]_vars

-----------------------------------------------------------------------------
(* Properties.  Completed holds of the steps of instructions that ended    *)
(* without an exception.                                                   *)
Reference == INSTANCE AluReference

Completed == phase = "run" /\ fetched /\ instr.key # "S_ENDPGM" /\ phase' = "run" /\ ~caught'

In(n, lane) == Value(wf, instr.operands[n], lane)
Out(lane) == Value(wf', instr.operands[1], lane)

(* A scalar instruction puts into its destination, and into SCC, what the  *)
(* reference says, whatever ran before it and also when its destination is *)
(* one of its sources, SCC, VCC or EXEC; the _saveexec forms exchange EXEC *)
(* and the destination.                                                    *)
ScalarAgrees ==
  LET k == instr.key
      n == W * instr.operands[1].n
      Gives(r) == Out(None) = r.dst % 2^n /\ wf'.scc = r.scc
      logic == Reference!ScalarLogicKeys
      saves == Reference!SavingKeys
      compares == Reference!ComparedAs
  IN /\ k \in DOMAIN logic =>
          Gives(Reference!NZ(Reference!Bitwise(logic[k][1], In(2, None), In(3, None), logic[k][2]), n))
     /\ k \in DOMAIN saves =>
          /\ Out(None) = wf.exec
          /\ wf'.exec = Reference!Bitwise(saves[k], In(2, None), wf.exec, 2 * W)
          /\ wf'.scc = (wf'.exec # 0)
     /\ k \in Reference!ArithmeticKeys =>
          Gives(Reference!Arithmetic(k, In(2, None), In(3, None), wf.scc))
     /\ k \in Reference!UnaryKeys => Gives(Reference!Unary(k, In(1, None), In(2, None), wf.scc))
     /\ k \in DOMAIN compares => wf'.scc = Reference!Compare(k, In(1, None), In(2, None))

ScalarMatchesReference == [][Completed => ScalarAgrees]_vars

(* A vector instruction does the same in every active lane, and with a     *)
(* carry it sets the bits of VCC of these lanes and no other.              *)
Active(i) == i \in Lanes(wf) /\ get_bit(i, wf.exec)

VectorAgrees ==
  LET k     == instr.key
      carry == Len(instr.operands) = 5
      Source(n, i) == LET at == IF carry THEN n + 2 ELSE n + 1
                      IN IF at \in DOMAIN instr.operands THEN In(at, i) ELSE 0
      Result(i) == Reference!VectorResult(k, Source(1, i), Source(2, i), Source(3, i),
                                          Num(get_bit(i, wf.vcc)), ModeFlag.dx10_clamp \in wf.mode)
  IN k \in Reference!VectorKeys =>
       /\ \A i \in Lanes(wf) : Active(i) => Out(i) = Result(i) % 2^W
       /\ carry => \A i \in 0 .. 2 * W - 1 :
            get_bit(i, wf'.vcc) = IF Active(i) THEN Result(i) >= 2^W ELSE get_bit(i, wf.vcc)

VectorMatchesReference == [][Completed => VectorAgrees]_vars

(* An instruction of the formats VOP1 to VOP3 changes the registers of its *)
(* destination in the active lanes, and no other vector or scalar register *)
(* of the wavefront: a lane that is switched off keeps what it has.        *)
OthersKept ==
  LET dst == instr.operands[1]
      mine == {Vreg(wf, i, dst.value[2] + j) : i \in {i \in Lanes(wf) : Active(i)}, j \in 0 .. dst.n - 1}
  IN instr.format \in {"VOP1", "VOP2", "VOP3A", "VOP3B"} =>
       /\ \A r \in DOMAIN wf.vgpr \ mine : wf'.vgpr[r] = wf.vgpr[r]
       /\ <<wf'.sgpr, wf'.exec, wf'.scc, wf'.m0>> = <<wf.sgpr, wf.exec, wf.scc, wf.m0>>

OnlyActiveLanesWritten == [][Completed => OthersKept]_vars

(* The memory the host lends a kernel for reading only holds what the host *)
(* put there from the dispatch to the end of the run: neither the other    *)
(* arguments, nor what the kernel stores in its outputs, nor the slots of  *)
(* the pointers overlap it.  The exception is an output the kernel may not *)
(* read: writeArg gives it no room, so that what it has beyond the 8 bytes *)
(* to the next argument's memory reaches into that.                        *)
Pointers == {k \in DOMAIN args : args[k].kind = "POINTER" /\ args[k].hasData}
Place(k) == FromBytes([i \in 1 .. 8 |-> data[argAddresses[k] + i - 1]], 1, 8)

Overrun ==
  UNION {Place(k) + 8 .. Place(k) + args[k].size - 1 : k \in {k \in Pointers : ~args[k].readPermission}}

InputsIntact ==
  phase \in {"run", "read", "done"} =>
    \A k \in Pointers :
      args[k].readPermission /\ ~args[k].writePermission =>
        \A i \in 1 .. args[k].size :
          LET at == Place(k) + i - 1 IN data[at] # host[k][i] => at \in Overrun

(* A vector comparison leaves one bit per active lane in VCC, the mask a   *)
(* kernel branches on.                                                     *)
CompareSetsVCC ==
  [][Completed /\ instr.key \in VOPCKeys /\ InFile(instr.operands[1], "VCC")
       => wf'.vcc = Compared(instr, wf)]_vars

=============================================================================
