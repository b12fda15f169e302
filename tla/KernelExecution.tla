-------------------------- MODULE KernelExecution --------------------------
(***************************************************************************)
(* emulator/src: the execution of one kernel.  Executor::executeKernel     *)
(* takes a work group at a time from the dispatcher; WorkGroup deals its   *)
(* work items out to wavefronts; ComputeUnit runs the wavefronts in turns, *)
(* each until it ends or meets a barrier.                                  *)
(*                                                                         *)
(* An instruction is what it does to the program counter: "op" moves on,   *)
(* "branch" goes on or to any later instruction, as the data say.  Loops   *)
(* are left out: whether one ends is up to the kernel.                     *)
(***************************************************************************)
EXTENDS Dispatcher, Sequences, FiniteSets, FiniteSetsExt

CONSTANTS
  WavefrontSize,  (* Wavefront::WAVEFRONT_SIZE                             *)
  Codes           (* the kernels: sequences of instructions                *)

ASSUME ExecutionAssumption ==
  /\ WavefrontSize \in Nat \ {0}
  /\ Codes \subseteq Seq({"op", "branch", "barrier", "end"})
  /\ \A code \in Codes : code # <<>> /\ code[Len(code)] = "end"

VARIABLES
  code,
  group,       (* the first work item of the work group under execution    *)
  wavefronts,  (* WorkGroup::wavefronts, <<>> between two groups           *)
  turn,        (* which wavefront run_work_group has reached               *)
  aborted,     (* the assertion of resolve_barrier failed                  *)
  ran          (* history: how often a work item ran the kernel to the end *)

groupVars == <<code, group, wavefronts, turn, aborted, ran>>
vars == <<dispatcherVars, groupVars>>

ExecutionInit ==
  /\ Init
  /\ code \in Codes
  /\ group = <<0, 0, 0>>
  /\ wavefronts = <<>> /\ turn = 1 /\ aborted = FALSE
  /\ ran = [i \in Items |-> 0]

-----------------------------------------------------------------------------
(* init_workitems: the local id of work item number n of a group, counted  *)
(* from 0 with Z innermost.                                                *)
WorkItem(n) ==
  << n \div (Size(2) * Size(3)), (n \div Size(3)) % Size(2), n % Size(3) >>

GroupSize == Size(1) * Size(2) * Size(3)

(* MUTANT: the last wavefront is as large as the others. *)
InitWavefrontsFull ==
  [w \in 1 .. (GroupSize + WavefrontSize - 1) \div WavefrontSize |->
     [lanes     |-> [i \in 1 .. WavefrontSize |-> WorkItem(i - 1)],
      pc        |-> 1,
      atBarrier |-> FALSE,
      completed |-> FALSE]]

(* init_wavefronts: as many lanes as there are work items left, but no     *)
(* more than a wavefront has.  wfInd stays 0, so that init_wf_regs gives   *)
(* every wavefront the local ids of the first one.                         *)
InitWavefronts ==
  [w \in 1 .. (GroupSize + WavefrontSize - 1) \div WavefrontSize |->
     [lanes     |-> [i \in 1 .. Min({WavefrontSize, GroupSize - (w - 1) * WavefrontSize}) |->
                       WorkItem(i - 1)],
      pc        |-> 1,
      atBarrier |-> FALSE,
      completed |-> FALSE]]

(* The loop of executeKernel and the start of run_work_group. *)
BeginGroup ==
  /\ ~aborted /\ wavefronts = <<>>
  /\ NextWg
  /\ group' = <<First(1), First(2), First(3)>>
  /\ wavefronts' = InitWavefronts
  /\ turn' = 1
  /\ UNCHANGED <<code, aborted, ran>>

Running == turn \in DOMAIN wavefronts
Instruction == code[wavefronts[turn].pc]

(* The work items that the lanes take themselves for, by global id. *)
LanesFor(w, item) ==
  Cardinality({l \in DOMAIN wavefronts[w].lanes :
                 \A d \in Dims : group[d] + wavefronts[w].lanes[l][d] = item[d]})

(* One instruction of run_wavefront.  An exception in it is reported and   *)
(* the wavefront goes on, as does one that the user stopped.               *)
Execute ==
  /\ Running
  /\ Instruction \in {"op", "branch"}
  /\ \E pc \in wavefronts[turn].pc + 1 .. Len(code) :
       /\ Instruction = "op" => pc = wavefronts[turn].pc + 1
       /\ wavefronts' = [wavefronts EXCEPT ![turn].pc = pc]
  /\ UNCHANGED <<dispatcherVars, code, group, turn, aborted, ran>>

(* MUTANT: the wavefront does not note that it is done. *)
EndProgramUnnoted ==
  /\ Running
  /\ Instruction = "end"
  /\ ran' = [i \in DOMAIN ran |-> ran[i] + LanesFor(turn, i)]
  /\ turn' = turn + 1
  /\ UNCHANGED <<dispatcherVars, code, group, wavefronts, aborted>>

(* S_ENDPGM *)
EndProgram ==
  /\ Running
  /\ Instruction = "end"
  /\ wavefronts' = [wavefronts EXCEPT ![turn].completed = TRUE]
  /\ ran' = [i \in DOMAIN ran |-> ran[i] + LanesFor(turn, i)]
  /\ turn' = turn + 1
  /\ UNCHANGED <<dispatcherVars, code, group, aborted>>

(* S_BARRIER: the program counter stays, so that the wavefront meets the   *)
(* same barrier again in its next turn.                                    *)
Barrier ==
  /\ Running
  /\ Instruction = "barrier"
  /\ wavefronts' = [wavefronts EXCEPT ![turn].atBarrier = TRUE]
  /\ turn' = turn + 1
  /\ UNCHANGED <<dispatcherVars, code, group, aborted, ran>>

Completed(w) == wavefronts[w].completed
AtBarrier(w) == wavefronts[w].atBarrier

TurnsTaken == wavefronts # <<>> /\ turn > Len(wavefronts) /\ ~aborted

(* All wavefronts are completed: run_work_group returns. *)
EndGroup ==
  /\ TurnsTaken
  /\ \A w \in DOMAIN wavefronts : Completed(w)
  /\ wavefronts' = <<>>
  /\ UNCHANGED <<dispatcherVars, code, group, turn, aborted, ran>>

(* resolve_barrier, and the next turn of everybody. *)
ResolveBarrier ==
  /\ TurnsTaken
  /\ \E w \in DOMAIN wavefronts : ~Completed(w)
  /\ \A w \in DOMAIN wavefronts : AtBarrier(w)
  /\ wavefronts' = [w \in DOMAIN wavefronts |-> [wavefronts[w] EXCEPT !.atBarrier = FALSE]]
  /\ turn' = 1
  /\ UNCHANGED <<dispatcherVars, code, group, aborted, ran>>

(* "Illegal wavefront state" *)
Abort ==
  /\ TurnsTaken
  /\ \E w \in DOMAIN wavefronts : ~Completed(w)
  /\ \E w \in DOMAIN wavefronts : ~AtBarrier(w)
  /\ aborted' = TRUE
  /\ UNCHANGED <<dispatcherVars, code, group, wavefronts, turn, ran>>

ExecutionNext ==
  BeginGroup \/ Execute \/ EndProgram \/ Barrier \/ EndGroup \/ ResolveBarrier \/ Abort

ExecutionSpec == ExecutionInit /\ [][ExecutionNext]_vars /\ WF_vars(ExecutionNext)

-----------------------------------------------------------------------------
Finished == ~HasNextWg /\ wavefronts = <<>>

(* The work items of the group that a work item is in. *)
Peers(item) ==
  {i \in Items : \A d \in Dims : i[d] \div wgSize[d] = item[d] \div wgSize[d]}

(* Every work item runs the kernel to its end exactly once. *)
ItemsRunOnce == Finished => \A i \in Items : ran[i] = 1

(* The only work items that run more often than once, or not at all, are   *)
(* those of groups of more than one wavefront (wavefront.cpp:40).          *)
ItemsOfOneWavefrontRunOnce ==
  Finished => \A i \in Items : ran[i] = 1 \/ Cardinality(Peers(i)) > WavefrontSize

(* A kernel ends, in that order of its groups and wavefronts, unless one   *)
(* of its wavefronts meets a barrier.                                      *)
EndsUnlessBarrier ==
  <>Finished \/ <>(\E w \in DOMAIN wavefronts : AtBarrier(w))
=============================================================================
