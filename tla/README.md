# red-o-lator: a verification project

red-o-lator runs OpenCL programs on an emulated AMD GCN GPU, under a debugger.
This directory holds TLA+ modules that model its parts, TLC configurations that
check them on small instances, and TLAPS proofs of theorems about them.

    tlc -config Channel.cfg Channel.tla        # check one instance
    tlapm ChannelProofs.tla                    # check the proofs about it

`PROJECT.json` lists, machine-readably, the components, the runs and what each
checks, the source lines every definition stands for, the hazards of the code and
the theorems.

## 1. The system

Two processes. The **application** links the OpenCL driver (`src/driver`); the
**debugger** (`src/debugger`) hosts the emulator (`src/emulator`). A kernel goes
from the driver to the debugger over one nng request (`src/common/ipc`).

    application process                        debugger process
    +-------------------------------+          +------------------------------------------+
    | application                   |          |  GUI thread     reader thread            |
    |   | API calls    ^ callbacks  |   IPC    |      \  breakpoints, UI  /  ^            |
    |   v              |            | ------>  |       v                 v   | toUi       |
    | queue - commands - events     |  kernel  |      outMessageChannel      | (channel)  |
    | programs - kernels - buffers  |          |       |  toEm (channel)     |            |
    +-------------------------------+          |       v                     |            |
                                               |   emulator thread: Executor, Dispatcher, |
                                               |   WorkGroup, ComputeUnit, DebugContext,  |
                                               |   ALU, Storage                           |
                                               +------------------------------------------+

| component | state | operations | what is hard | what makes it correct |
|---|---|---|---|---|
| debugger channel (`Channel.h`) | one slot, `_isEmpty`, `_isClosed`, a mutex, two condition variables | `read`, `tryRead`, `write`, `close`, `isExhausted` | any number of threads, `notify_one`, spurious wakeups, closing under sleepers, two unlocked loads | each value once and in order; no lost wakeup; no write after close |
| debugger core (`Debugger.cpp`) | kernels, current context, breakpoints, two channels, two threads | GUI handlers, reader loop, destructor, IPC handler | three threads over two one-slot channels; some state under a mutex, some not | requests answered once; breakpoints, registers and UI follow the emulator; exit returns |
| debug context (`debug_context.cpp`) | execution mode, own copy of the breakpoints | pause, process a message, exception | messages of an earlier run; blocking on a full channel | a run that ended pauses no more |
| executor, dispatcher, compute unit, wavefronts | cursor over the ND-range, work group, wavefronts | `next_wg`, `run_work_group`, `run_wavefront`, `resolve_barrier` | groups that do not divide the ND-range, groups of several wavefronts, barriers | every work item runs exactly once |
| command queue and events | deque of commands, event status, callbacks, wait lists, reference counts | enqueue, flush, finish, wait, retain, release, set callback | callbacks and last releases call back into the queue in the middle of a flush | each command runs once and in order; counts exact; no use after delete; no leak |
| objects: context, program, kernel, buffer | reference counts, `createdKernels`, argument, destructor callbacks, `usedGlobalMemory` | create, retain, release, set argument, enqueue, set destructor callback | destructors that call the application, which calls the driver | counts exact; no use after destruction; memory accounted |
| IPC (`IpcServer`, `IPCWrapper`) | five jobs, each INIT, RECEIVE, SEND; the vector `programs` | listen, handle, send, `addKernel`, `selectKernel` | jobs run on nng's threads and append to `programs` without a mutex; the reply does not wait for the kernel; the job needs a mutex that the GUI thread may hold while it is blocked | a kernel whose command is complete is listed; what runs is what the user chose; every request is answered |
| storage and argument layout | byte array; `addr` and `offsetForValues` | read and write of 1, 2, 4, 8 bytes; `writeArg`, `readArgs` | two cursors that move at different conditions; addresses given by the kernel; a write that fails in the middle | arguments do not overlap; what the host lent for reading stays |
| ALU | none of its own: a state that is filled, computed on and written back | the switches of SOP1, SOP2, SOPC, SOPK, SOPP, VOP1, VOP2, VOP3, VOPC, SMEM, FLAT | 32-bit values in 64-bit fields; carry, borrow, overflow, sign; sources that are destinations | the operation the instruction is named for |
| registers, wavefront | register files, EXEC, VCC, SCC, M0, MODE, PC with its `used_` flag | operands read and written, lanes masked | a flag decides whether the width is added after a jump; each format must complete its write-back | lanes that are switched off keep their registers; control flow goes where it should |
| parsers (binary, arguments, configuration, assembly) | none | text to data | malformed text | - |

### The hard behaviours

`PROJECT.json` lists them as hazards, each at its line. In short: `notify_one`
with several sleepers; three debugger threads that each block on a slot only
another one empties; a UI that is told from two threads; a breakpoint set while
the emulator copies the set; a message that outlives the run it was meant for;
the destructor that joins a paused emulator; a flush that is entered again from a
callback or from the release of an event; wait lists that reach a command before
the queue does; destructor callbacks inside destructors; a list of kernels that a
program does not retain; grid arithmetic in `size_t`; work groups larger than a
wavefront; barriers; a program counter whose advance depends on a flag that each
jump sets; instructions that work on copies of EXEC, VCC and the registers, all
of which must come back; carries in one mask shared by the lanes; pointers,
values and slots of arguments laid out by two cursors; five jobs that grow
`programs` while the user's thread walks over it; a selection computed before the
mutex is taken; a job that waits for a mutex whose holder is blocked.

## 2. The modules

| module | models | source |
|---|---|---|
| `Pipe` | what a closable one-slot channel promises: abstract | - |
| `Channel` | `common/debugger/channel/Channel.h` | all member functions |
| `ChannelProofs` | theorems about `Channel`, among them that it implements `Pipe` | |
| `RemoteControl` | what a debugging session promises its user: abstract | - |
| `DebugSession` | GUI thread, reader thread, emulator thread with the debug context | `Debugger.cpp`, `debug_context.cpp`, parts of `Executor.cpp`, `compute_unit.cpp`, `EmulatorApp.cpp` |
| `DebugSessionProofs` | theorems about `DebugSession`, among them that it implements `RemoteControl` | |
| `TaskQueue` | what a command queue promises its application: abstract | - |
| `CommandQueue` | queue, commands, events, wait lists, event callbacks | `CLCommandQueue.cpp`, `Command.cpp`, `CLEvent.cpp`, `runtime-event.cpp`, `runtime-command-queue.cpp`, `enqueueCommand` |
| `CommandQueueProofs`, `CommandQueueRunsProofs` | theorems about `CommandQueue`: its books and flushes; what its commands wait for, when they run, and that it implements `TaskQueue` | |
| `ObjectLifetimes` | who keeps which object alive; destructors and their callbacks | `CLMem`, `CLKernel`, `CLProgram`, `runtime-memory*.cpp`, `runtime-kernel.cpp`, `runtime-program.cpp` |
| `ObjectLifetimesProofs` | theorems about `ObjectLifetimes` | |
| `Dispatcher` | the cut of the ND-range into work groups | `dispatcher.cpp` |
| `KernelExecution` | `Dispatcher` with wavefronts and the compute unit | `Executor.cpp`, `wavefront.cpp`, `compute_unit.cpp` |
| `DispatcherProofs`, `KernelExecutionProofs` | theorems about them | |
| `KernelIntake` | how a kernel gets from the driver into the debugger and is selected there | `IpcServer.cpp`, `IPCWrapper.cpp`, `KernelExecutionCommand.cpp`, parts of `Debugger.cpp` and the GUI |
| `KernelIntakeProofs` | theorems about `KernelIntake` | |
| `Words` | numbers of a fixed width: conversions, shifts, bits, bytes | `util.h`, `util.cpp`, `bit-utils.hpp` |
| `Registers` | program counter, MODE, STATUS, pairs of scalar registers | `register.h`, `register.cpp` |
| `ScalarAlu`, `ScalarControl` | the scalar instructions | `alu_sop1.cpp`, `alu_sop2.cpp`; `alu_sopc.cpp`, `alu_sopk.cpp`, `alu_sopp.cpp` |
| `VectorAlu`, `VectorAlu3` | the vector instructions | `alu_vop1.cpp`, `alu_vop2.cpp`; `alu_vop3.cpp`, `alu_vopc.cpp` |
| `InstrInfo` | the table of instructions and how a format is chosen | `instr_info.cpp` |
| `Storage` | the memory of the device | `storage.cpp` |
| `Wavefront` | operands, the states the ALU works on, memory instructions, the registers a wavefront begins with | `wavefront.cpp`, `wf_state.h`, `alu.cpp`, `alu_smem.cpp`, `alu_flat.cpp` |
| `KernelRun` | a kernel from its arguments to its results | `Executor.cpp`, `compute_unit.cpp` |
| `AluReference` | what the instructions are for, put down independently | - |
| `MC*` | instances for TLC: sets of usages or kernels, programs, symmetry | |

### Channel

The mutex is not a variable: an action is a critical section, from taking the
mutex to giving it up or waiting. `pc` says where a thread is: inside `read`
before the condition is evaluated (`reading`), asleep in it (`readSleep`), and so
for writers. `notify_one` wakes one sleeper of the condition variable, any;
`SpuriousWakeup` wakes anybody at any time. `isExhausted` takes no mutex and its
two loads are two actions, in either order, with anything in between.

`Pipe` has no threads. `Channel!P` instantiates it with the accepted and the
delivered values; each critical section is one step of `Pipe` or none.

### DebugSession

Each thread has a program counter whose values are the points at which the code
may be interrupted with an effect: a handler of the GUI thread is one action up to
the point where it writes to the channel, the write is one, and what follows is
one (`GuiStarting`, because `onResume` sets the UI to running after it sent the
message). The channels are slots with the promise of `Pipe`: a write waits for a
free slot. The emulator thread goes through `processInstruction`, `waitForResume`,
`readMessages`, `processMessage`; which instruction comes next, which one fails
and whether the kernel ends is nondeterministic. It may never end: a kernel that
reaches `S_BARRIER` or loops executes for ever, and a Stop only takes its pauses away.

What the user can click is what `EmulatorApp` allows in that UI state. A choice of
wavefront or work item is two actions: `PickContext` copies the context without the
mutex, as `onWavefrontSelected` does, and `SelectContext` makes the changed copy the
context; the reader may set it in between. Two things are simplified: the copy of the breakpoints in the constructor of `DebugContext` is
one step (the code copies a set that the GUI thread may be changing, a data
race), and a handler of `EmulatorApp` that the reader calls is one step with the
report that causes it (it posts to the GUI thread).

History variables name the races instead of excluding them: `overtaken` (a report
came while the GUI thread was inside `onResume`), `crossed` (reader and user
changed the context at the same time), `stale` (the user's choice was made of the context
of an earlier pause and brought that one back), `disturbed` (the emulator took a message
since it reported its pause).

`RemoteControl` has no threads and no channels: a target that runs, pauses and
ends, a queue of orders it has yet to obey, one of questions and one of news that
are not shown yet. `DebugSession!RC` maps each queue to the messages under way, oldest
first, in whichever slot or thread they are: what is asked, for instance, is in
the reader (`rdMsg`), in `toUi`, in the emulator's hands (`answer`) or in `toEm`, and a
message that is passed on changes nothing of the queue. A breakpoint whose change
has not arrived is `unsure`, and there alone the target may pause or not. `target` is
the execution mode while there is an emulator; `pending` says that a handler of the GUI
thread is half-way, so that what the user ordered and what is shown differ.

### CommandQueue

The driver has no thread of its own, but it is re-entered: `stack` is its call
stack. A frame is a flush, an execute with its point, the release of the queue
waiting for the flush in it, or a callback in which the application runs.
`CallFlush` and `CallReleaseQueue` are what the code calls from several places and
are used by every action that calls them. A command and its event share a name;
`alive` and `eventRefs` tell which of the two is still allocated. `usage` is the
discipline of the application, chosen in `Init`: whether it calls
`clWaitForEvents`, what it does in callbacks, whether it holds the events its wait
lists name, whether it passes wait lists to an in-order queue. Two disciplines
break the driver, and have runs of their own.

`TaskQueue` has no references, callbacks or stack: tasks are entered, executed one at a
time and when they are ready, and a flush ends when nothing is left. `CommandQueue!TQ`
maps the status of a command to the state of its task. When a task is ready
depends on the queue: out of order, when what it waits for is complete; in order,
when everything before it is; an in-order queue of an application that calls
`clWaitForEvents` promises no order, because waiting executes a command out of turn.

### ObjectLifetimes

Every object is a counted reference; `todo` is what the calls under way have left
to do, innermost first, so that destructors nest as they do in C++: a release that
reaches zero puts the body of the destructor in front. A destructor callback is
an entry of `todo` in front of which the application may make any call but the
release of the queue. Addresses are reused: a name that is free may be given to
the next object of its class, which is how the list of raw pointers in
`CLProgram` comes to name a kernel of another program. If the pointer names no
kernel at all, because the program outlived it, `~CLProgram` uses the deleted kernel
(`UsesDeletedKernel`). After the first use of a
destroyed object nothing is modelled (`dangling`). The execution of commands is
there in so far as it touches objects: `commands` is what the commands of the queue
refer to, one after the other, each closed by the queue itself, in the order in
which their destructors give it up. Arguments out of range, failed checks and
queries change nothing and are left out. The `CL_MEM_USE_HOST_PTR` flag is
left out.

`CommandQueue` and `ObjectLifetimes` cut the driver at the command: the first has
what commands do to each other and holds no objects, the second has what they
hold and one command at a time.

### Dispatcher and KernelExecution

`Dispatcher` is the class: `Amount`, `wgAmount`, `Left`, `Size`, `NextWg`. The
code computes when to stop (a product of rounded-up quotients) independently of
how it walks (subtraction of what was taken); `Partition` says that the two
agree. `served` is the set of work items so far. `KernelExecution` extends it with
`init_workitems`, `init_wavefronts` and the loops of `ComputeUnit`. An
instruction is what it does to the program counter; a lane is the local id that
`init_wf_regs` puts into its registers.

### KernelIntake

An application's thread is blocked from `SendKernel` until the reply, and its
command is complete at the reply, before the kernel has run: that is what the
code does. A job goes through `receive`, `append`, `select`, `send`. `addKernel` is
two actions because `emplace_back` is not atomic (it begins in `Receive` and ends
in `AddKernel`) and because `currentKernelIdx` is read, as the argument of
`selectKernel`, before `selectKernel` takes the mutex (`JobSelect`). When two uses of
`programs` overlap, the behaviour is undefined: the outcomes that a build can
produce are that the element is lost or that the debugger crashes. A job that appends (`Overlaps`) may
overlap another one's append, the walk of `selectKernel` over the list, and the read of
`programs[currentKernelIdx]` in `runKernel`, which takes no mutex. The first overlap sets
`raced`.

The user chooses from the list (`Choose`) and runs (`Attach`, then `RunKernel`,
which looks at the index again after it was checked). `TakeMutex`, `GiveMutex` and
`GetStuck` are all that is left of the session here: a handler of the GUI thread
writes to a channel while it has the mutex, and `DebugSession` shows that it may
never get on (`ReaderStuckIsDisturbed`). A kernel in `Refused` is one whose text
makes the parser throw; the exception leaves a callback of nng, and ends the
process. `Resend` is external: a `req` socket of nng sends its request again after
a minute without a reply, and the code does not change that. Errors of nng, which
`checkResult` throws, are left out.

### Wavefront, the ALU and KernelRun

`KernelRun` is `executeKernel`: the header of the storage, `writeArg` for one argument
after the other, the wavefronts instruction by instruction, `readArgs`. The work
groups are of one wavefront each; several of them and barriers are the subject of
`KernelExecution`. `parseKernelCode` turns the lines of a kernel into a function from
addresses to instructions.

An instruction is executed the way the code does it: a `get_*_state` function
copies operands, EXEC, VCC, SCC and M0 into a state, a switch computes on the copy,
and an `update_with_*_state` function writes some of it back. In the models a
state is a record, `run_sop1` to `run_vopc` of `Wavefront` are the three steps
together, and `sop1` to `vopc` are the switches. An exception in the middle
leaves the registers as they were, but not the storage: an action of `KernelRun`
keeps both outcomes. `fault` says why a wavefront cannot go on (see `Registers`);
a `runtime_error` is logged and the next instruction runs, as in `run_wavefront`.

Words have `W` bits and are natural numbers; a signed value is an integer that is
brought back into the range at each assignment to a field. A shift by the width or
more is undefined in C++; `ub` says what the build makes of it (`"wrap"`: the count
is masked; `"fill"`: everything is shifted out), and `RunInstr` takes either. IEEE
arithmetic is a parameter, `Float`.

`AluReference` is written from the names of the instructions, with truth tables,
sums, floor divisions and sets of bits, and never with the operators of the
models. It has the instructions that the programs of `MCKernelRun` run and that do
what they are named for. The ones that do not are in the models as they are, and
are not in the reference: `s_orn2_saveexec_b64` computes ANDN1; `s_quadmask` adds the
index of an empty group; `s_movk_i32` writes SCC and no
register; `s_addk_i32` takes SCC from a second addition; `s_cmpk_gt_i32` is `>=`; `s_mul_hi_i32`, `v_mul_hi_i32` extend the first
operand with zeros; `v_ashr_i32` is a logical shift; `v_cndmask_b32` compares the rest of
VCC with 1; `v_addc_co_u32` adds no carry; `v_ashrrev_i64` shifts its first operand by
itself; `v_swap_b32` loses one half of the exchange; `v_ffbh` wraps or hangs on a word
without the bit; `v_perm_b32` multiplies before it shifts; the packed conversions let
the sign of the low half run into the high one; `s_bitreplicate_b64_b32` and the bit
field extracts of length 0 shift by the width. No doc, comment or test of the
repository says otherwise about them, so they are listed here and are no finding
of a run. Others (`v_mad_*`, `v_sad_*`, `v_max3_*` and the like) are in the models
and have no reference yet.

## 3. The runs

| run | asks | bounds | shows |
|---|---|---|---|
| `channel` | `Channel.cfg` | 2 readers, 2 writers, 2 writes each | `Fifo`, `NoLostWakeup`, `ExhaustedMissesOnlyLateWrite`, `ImplementsPipe`, `FullSlotIsTaken`, `CloseReleasesEveryone` |
| `session` | `DebugSession.cfg` | 2 addresses, 2 contexts, 5 clicks; runs of any length | `RequestsAccounted`, `BreakpointsAgree`, `UiShowsRun`, `RegistersFollowContext`, `ReaderStuckIsDisturbed`, `NoPauseAfterEnd`, `ImplementsRemoteControl`, `PauseReachesUser`, `ExitReturns` |
| `queue_safety` | `CommandQueue.cfg` | 3 commands, wait lists of 2, two disciplines | `RefsAccounted`, `RunsOnce`, `NoUseAfterDelete`, `EventHasCommandUntilCompleted`, `InOrder`, `OnlyUnaskedEventsLeak`, `WaitListRespected`, `FlushDrains`, `ImplementsTaskQueue` |
| `queue_live` | `CommandQueueLive.cfg` | 2 commands, every callback | `CallsReturn` |
| `queue_reentry` | `CommandQueueReentry.cfg` | 2 commands | violates `EventHasCommandUntilCompleted` |
| `queue_order_list` | `CommandQueueOrderList.cfg` | 2 commands | violates `WaitListEmptyAssertions` |
| `lifetimes` | `ObjectLifetimes.cfg` | 2 programs, kernels, buffers, 6 calls | `RefsAccounted`, `NoUseAfterDestroy`, `MemoryAccounted`, `NothingLeaks` |
| `execution` | `KernelExecution.cfg` | sides of 1 to 3, wavefronts of 2 lanes, 4 kernels | `Partition`, `ItemsOfOneWavefrontRunOnce`, `EndsUnlessBarrier` |
| `execution_wide` | `KernelExecutionWide.cfg` | sides of 1 and 3 | violates `ItemsRunOnce` |
| `kernel_run` | `KernelRun.cfg` | words of 8 bits, bytes of 2, 3 lanes, 128 bytes of storage, 12 programs | `KernelComputes`, `InputsIntact`, `ScalarMatchesReference`, `VectorMatchesReference`, `OnlyActiveLanesWritten` |
| `vector_compare` | `KernelCompare.cfg` | the same, 1 program | violates `CompareSetsVCC` |
| `kernel_intake` | `KernelIntake.cfg` | 2 applications, 2 jobs, 3 kernels of which one is malformed, 3 clicks, 1 resend | `KernelsAccounted`, `RunsWhatUserChose`, `RequestsAnswered` |

The type invariants of `Channel`, `DebugSession`, `Dispatcher`, `KernelExecution`,
`KernelIntake`, `CommandQueue` and `ObjectLifetimes` are proved (section 4), and so is
`NoWriteAfterClose`, which `ImplementsPipe` contains. The runs keep to the properties that
are about more than that.

Deadlock is not checked where the modelled program may stop: an application or a
user that has nothing more to do, a kernel that has ended or failed, a debugger
that has crashed, a session whose threads locked up (which
`ReaderStuckIsDisturbed` is about). In `channel` it is checked: the slot can always
be probed.

**Why the bounds are enough.** *Channel*: two sleepers per condition variable is
the least at which `notify_one` can choose, and four writes let a newcomer overtake
a woken thread twice; the theorems cover the rest. *Session*: five clicks are two
runs with a breakpoint, a resume or a stop between them; how many instructions a run
executes is not bounded, so that a kernel may go on for ever; every one of the races
named above occurs with four, and the theorems cover any number. *Queue*: three commands are the least for a wait list of
two and for a callback that enqueues behind a command that waits. *Lifetimes*: two
addresses of a class are the least for reuse and for an argument that is replaced;
`MaxCommands` is 1 because commands interact only through what they hold, and
enqueueing again from a callback is possible once the flush has emptied the queue.
*Execution*: sides of 1 to 3 have groups that divide the range, that do not, and
that are larger than it, in each dimension; with two lanes there are groups of up
to 27 items in 14 wavefronts. *Kernels*: with 8 bits a word has two halves, four
bytes and signs at each width, and a pair of registers holds an address, so that
each conversion of the code has an effect; the contents of the inputs are
chosen, not enumerated: zeros, ones, each sign, carries out of the low word and
shifts beyond the width, and an instruction sees what the ones before it left,
lane by lane. Three lanes are the least of which some are off, some on, and one
is not in the work group. 128 bytes hold every argument, and are few enough to
go beyond. What the host has in
memory a kernel may not read is no part of the state, since the code copies none
of it. The programs are: `logic`, `sums`, `unary`, `vector` (each
instruction of the reference, also with its source as its destination and with
EXEC, VCC and SCC); `clamped` (the vector additions and subtractions with
`dx10_clamp`); `a_plus_b` (the code the compiler makes of the example of the
repository); `add_ids` (a read-write buffer and two work groups); `masked` and
`overrun` (EXEC saved and restored around a branch); `times` (a loop, a call, jumps by
address); `stray` (addresses outside of the storage, a jump to nowhere); `mixed`
(kinds of arguments that today's driver never sends). *Intake*: two jobs are the
least that race and two applications the least that keep them busy; three clicks
are a choice, another and a run, which is what it takes for a selection to be
reverted. Each exception in the properties was found necessary by leaving it out.

**Fairness.** `Channel`: a thread inside a call and not asleep is scheduled
(`WF` of each thread's steps); no thread is obliged to begin a call and nobody
wakes spuriously for sure. `DebugSession`: weak fairness of each of the three
threads, none of the user. `CommandQueue`: a call runs on and a callback returns
(weak fairness of `Driver` and of `CallbackReturn`); the application need not
call. `KernelExecution`: the emulator thread runs on; a pause in the debugger,
which would hold it, is the subject of `DebugSession`. `KernelIntake`: the jobs and a
handler of the GUI thread that has begun run on (weak fairness of each); neither
the user nor an application has to do anything, and a request need not be sent
again.

### What the runs found

* `queue_reentry`: `clWaitForEvents` executes a command without marking a flush as
  under way. A callback for `CL_SUBMITTED` that calls `clFlush` makes the flush
  skip the command, clear `event->command` and delete the command under its own
  `execute`. `runtime-event.cpp:204-208` calls that state a bug of the driver.
* `queue_order_list`: a wait list given to an in-order queue is stored but popped
  only on out-of-order queues, so `assert(waitList.empty())` in `~Command`
  (`Command.cpp:12`) fails, and its events are never released.
* `execution_wide`: `init_wavefronts` never increments `wfInd`, so each wavefront of
  a group of more than 64 work items runs the first 64. The device advertises
  groups of 256 (`rx-570.ini:27`) and a test runs groups of 128
  (`wf_exec_test.cpp:319`).
* `vector_compare`: `run_vopc` computes the mask of a vector comparison in a local
  state and returns; `update_with_vopc_state`, which would write it back, has no
  caller. VCC keeps what it held. `reg_info.h:129-130` says that it "holds the
  result of a vector compare operation", and the kernels of the tests branch on it.

Each use of a destroyed object in `lifetimes` falls under one of three exceptions, and
the last is the commonest: a program keeps raw pointers to its kernels, and a kernel that is
deleted is not taken from the list. Releasing a kernel and then its program, as the
driver's own test does (`runtime-e2e-test.cpp:149-162`), makes `~CLProgram` count down in the
freed kernel (`CLProgram.hpp:17`, `runtime-kernel.cpp:116-118`). In the opposite order a
program with one kernel is deleted by that kernel while it still exists itself, to no effect.

Other properties hold with an exception that they name, and the exception is a
weakness of the code that no doc or test contradicts: `UiShowsRun` (a report
overtaken by `onResume`), `RegistersFollowContext` (`pauseExecution` takes no
mutex: the registers may be of another context than the selected one, `crossed`, and
the context of another pause than this one, `stale`), `ReaderStuckIsDisturbed` and `PauseReachesUser` (two messages of the user
within one pause can lock up reader, emulator and GUI; a reader that has to ask for the
registers while the slot is full may also wait for an emulator that went on and executes
for ever), `ExitReturns` (leaving
while the kernel is paused hangs, and so it does while reader and emulator are locked up
or the kernel never ends, which a Stop before it does not change: `~Debugger` joins the
emulator, `Debugger.cpp:64-67`), `NoUseAfterDestroy` (`setArgument` re-entered
from a callback; `~CLProgram`, which uses a deleted kernel of its own program or deletes
that of another), `NothingLeaks` (a program that fails to
disassemble; where a destroyed object was used it says nothing), `OnlyUnaskedEventsLeak` (an event nobody asked for keeps its queue),
`EndsUnlessBarrier` (a wavefront never gets past `S_BARRIER`), `InputsIntact` (`Overrun`:
an output that the kernel may not read is given no room beyond the 8 bytes to the
next argument, so that what the kernel stores in it reaches into the next
argument's memory), `KernelsAccounted` (two jobs that append at the same time may lose a
kernel whose command is complete, and a `selectKernel` or `runKernel` that overlaps an
append may crash; a request that is sent again lists it twice),
`RunsWhatUserChose` (a job that read the index before the user chose selects the old
kernel again; `runKernel` may read `programs` while a job appends), `RequestsAnswered` (a GUI thread that is stuck with the mutex blocks the
jobs, and with them each application).

Modelling the kernels also showed what no property is about, each of it in the
model as the code has it:

* The storage keeps the most significant byte first, and the bytes of a buffer are
  copied as the host has them, though the device says `CL_DEVICE_ENDIAN_LITTLE`
  (`rx-570.ini:50`). The programs take buffers in the storage's order.
* FLAT instructions do not look at EXEC, and store each word of several at the
  same address. A store that fails at one lane has stored those before it.
* With `dx10_clamp`, `v_add_u32` saturates and the subtractions stop at 0, which
  address computations do not survive; `add_ids` runs without it.
* `S_LOAD_DWORDX4` and wider put the words in the order that swaps two pointers;
  `a_plus_b` adds, and does not mind.
* `writeArg` gives an argument without data no slot, so that the ones after it shift;
  `readArgs` asserts on a scalar. The driver sends buffers only.
* The offset of a dimension the kernel has not got is 1.
* SOPC instructions store the low word of EXEC in M0.
* Most functions of `alu_vop3.cpp`, and the FLAT atomics, are reached by no
  instruction of the table.
* The results of a kernel never reach the buffers of the driver: the reply is the
  request, sent back before the kernel has run.

## 4. The proofs

| theorem | of | says |
|---|---|---|
| `TypeCorrect`, `FifoCorrect`, `WakeupsCorrect`, `ExhaustedCorrect`, `ClosedCorrect` | `ChannelProofs` | the safety properties of the run `channel`, its type invariant, and that a closed channel accepts nothing, for any readers, writers and bound |
| `ChannelImplementsPipe` | `ChannelProofs` | `Spec => P!Spec` |
| `TypeCorrect`, `RequestsCorrect`, `BreakpointsCorrect`, `EndCorrect`, `StuckCorrect`, `UiCorrect`, `RegistersCorrect` | `DebugSessionProofs` | the safety properties of the run `session`, and its type invariant, for any addresses, contexts and bounds |
| `SessionImplementsRemoteControl` | `DebugSessionProofs` | `Spec => RC!Spec`: each order is obeyed once and in turn, each report and answer is shown once and in turn, and the emulator pauses where the breakpoints say |
| `TypeCorrect`, `PartitionCorrect` | `DispatcherProofs` | every ND-range is partitioned by its groups |
| `ExecutionImplementsDispatcher`, `ExecutionPartitions` | `KernelExecutionProofs` | and so is that of a kernel under execution |
| `ExecutionTypeCorrect`, `OneWavefrontCorrect` | `KernelExecutionProofs` | a kernel runs once for each work item whose group fits into a wavefront, for any ND-range, group size, wavefront size and code |
| `TypeCorrect`, `KernelsCorrect`, `ChoiceCorrect` | `KernelIntakeProofs` | the safety properties of the run `kernel_intake`, for any applications, jobs, kernels and clicks |
| `TypeCorrect`, `FlushDrainsCorrect` | `CommandQueueProofs` | whatever the application does, in callbacks too, a flush that is over left nothing behind |
| `RefsCorrect`, `LeakCorrect` | `CommandQueueProofs` | references are counted exactly, provided `ListsHeeded` |
| `InOrderCorrect` | `CommandQueueRunsProofs` | an in-order queue that is never waited on runs its commands in order, whatever callbacks do |
| `RunsOnceCorrect`, `EventHasCommandCorrect`, `WaitListCorrect` | `CommandQueueRunsProofs` | a command runs once, after what it waits for, and is there until then, provided `SafeWaits` |
| `QueueImplementsTaskQueue` | `CommandQueueRunsProofs` | `Spec => TQ!Spec`, provided `SafeWaits` |
| `NoUseAfterDeleteCorrect` | `CommandQueueRunsProofs` | nothing is deleted under the call that uses it, provided `SafeWaits` and that no callback releases the queue |
| `Invariant`, `TypeCorrect`, `RefsCorrect`, `MemoryCorrect`, `NoUseCorrect`, `LeaksCorrect` | `ObjectLifetimesProofs` | the safety properties of the run `lifetimes`, and its type invariant, for any programs, kernels, buffers, sizes and bounds |

The assumptions are those stated in the modules: `ChannelAssumption`,
`SessionAssumption`, `NoneAssumption`, `SizesAssumption`, `ExecutionAssumption` (a code
is not empty and its last instruction ends the program), `IntakeAssumption` (a
malformed kernel is one of the kernels), `QueueAssumption`, `LifetimeAssumption` (the
addresses are finitely many and the classes apart; a size is not 0, which
`clCreateBuffer` refuses). TLC evaluates them in the runs.

Some theorems about `CommandQueue` have a condition on `usage`, the discipline of the
application, which never changes. Each one is necessary: with two commands, and any part of it dropped, TLC
finds behaviours of the code that break the property.

* `ListsHeeded`: an in-order queue is given no wait lists. The run `queue_order_list`
  does it, and the events of such a list are never released.
* `SafeWaits`: an application that calls `clWaitForEvents` keeps the events that its
  wait lists name, and calls nothing from callbacks that may flush (`clFlush`, or the
  release of a last reference). The run `queue_reentry` does, and the flush deletes
  the command under its own `execute`. Without the events held, a flush begins inside
  the wait when the last reference to one is given up, with the same end. An
  application that never waits is not restricted.
* No callback releases the queue (`NoUseAfterDeleteCorrect` only): the flush that
  calls it would go on with a queue that is gone.

Both disciplines of the run `queue_safety`, `FlushingApp` and `WaitingApp`, meet all
three, so that what it checks are instances of the theorems.

**Channel.** `Fifo` and `TypeOK` are inductive together. `NoLostWakeup` is
inductive with them, because a reader that takes the value wakes a writer and a
sleeper that is woken is counted as `writing`: the obligation "a sleeper has a
full slot, or a colleague about to look" passes from the woken thread to the one
that overtakes it. `ExhaustedMissesOnlyLateWrite` needs `ProbeInv`: what a thread
that has seen one of the two flags knows about the slot and about `mark`, the
number of values accepted when it began. The refinement maps `sent`, `rcvd` and
`isClosed` to themselves and needs `Fifo` to know that a value is delivered only
when one is in flight.

**KernelIntake.** `SizeInv`: `programs` never shrinks, so an index that a job or the
user has read stays inside, and the list is never longer than what it shows.
`SentInv` numbers the kernels, so that a new one is nowhere yet. `ListedInv`: without
an overlap, which `runKernel`'s read of `programs` is one side of too, a job leaves its kernel first in `programs` and then in the list, and
only then completes the command. `OnceInv`: a kernel whose request was sent once is
in one place, on its way, with the job that appends it, or in `programs`; it is
what excludes doublets. `ChosenInv`: until a selection crosses with one of the user,
the index that a job has read is the one that is selected, so that repeating it
changes nothing, and what `Attach` saw selected is what runs.

**CommandQueue.** The difficulty is the call stack: a reference may be held by a
frame anywhere on it, and each action pushes or pops one. `Calls(P, stack)` counts
the frames with a property, and one lemma each says how a push, a pop and a change
of the top frame change it. `Books` is the inductive invariant: there is one flush
on the stack if `flushing`, else none (`FlushInv`); an allocated command is in the
queue or has been taken from it, never both (`PendingInv`); `queueRefs` is the sum of its holders
(`QueueInv`); `Holders(e) <= eventRefs[e]`, with equality under `ListsHeeded`
(`EventsInv`), because references may be lost but never invented; a command that has
been taken from the queue is complete or some frame executes it (`StartedInv`),
which with the list of the flush (`done`) gives `FlushDrains`: when the list is empty
there is no command left.

**When commands run.** `Turns` adds what the order of the calls gives. `Chained`: who
may call whom. `InTurn`: a call of `execute` waits for events of commands that were
enqueued earlier, so the commands on the stack are in the order of the enqueueing,
from the innermost outwards, and none is there twice; that is why recursion into a
wait list ends, and why no command is started while it runs. It holds only if no
flush begins inside a wait: that is where `SafeWaits` enters. `RunOK` and `RunInv` tie
`status` to the point of the frame that executes the command, and `ran` to
`status`. `AnswerInv`: when the `execute` of an awaited command has returned, its event
is complete, which is what `releaseWaitEvent` relies on. `KeptInv`: somebody keeps
the queue that is flushed. `OrderInv`: what an in-order queue has taken is a prefix of
what was enqueued, complete but for its last command.

**TaskQueue.** Of a command the abstract queue sees little but its status, so most steps
stutter (`SeenStays`), and the proof has a step for each that does not. When a command is
submitted no other is in progress (`NothingInProgress`): by `Chained`, a frame that has
submitted its command and is not the innermost has called a callback, and a
callback calls nothing that executes. It is ready (`SubmittedIsReady`): out of order by
`RunInv`, which says that what a command waited for is complete once it is off its wait
list; in order by `OrderInv`. A flush that ends finds everything that was entered
complete: what has not been started would still be there (`StartedInv`), and what is under
way is not deleted before it is complete (`RunOK`). `SafeWaits` is needed: without it a flush begins inside a wait, passes over the command that is being
executed, and ends with that command incomplete (run `queue_reentry`).

**ObjectLifetimes.** `TypeOK`, `MemoryAccounted` and `NoUseAfterDestroy` are part of `Inv`
as they are; `RefsAccounted` is not enough, for it speaks of objects that exist only,
and a reference that somebody holds on one that does not is just what must be ruled
out. `BalanceInv` says of every address that its count is what is held on it, so
that a held reference on something with count 0 is impossible unless a reference
was stolen. `LiveInv` ties counts to allocation: what has a count is allocated and
not about to be freed, what is allocated without one has its `Free` in `todo`. There
is one state of imbalance, `Lost`: a callback inside `setArgument` calls `setArgument`
again, and the old value is about to be released a second time. It is the state
just before `dangling` that a buffer gets into, and the only step out of it uses the
destroyed buffer; `LostSafe` proves that, and that a `setArgument` is still waiting then. That this is
the only one rests on the order of what is left to do (`Order`). `AssignInv`: a waiting
assignment has the release of its old value, or the end of that value's
destructor, right before it, and no kernel has two. `FlushInv` and `LastInv`: when the
application has given up the queue, its flush comes first and the release last, so
that no command outlives the queue and nothing is flushed after it; with `BalanceInv`
that is `NothingLeaks`. `SetInv`: a kernel in the queue has its argument. A step pops one
item of `todo` and pushes what it leads to; `Ledger`, `PopStep` and `PushStep` do the
bookkeeping once for all steps (what the items pushed hold on each object, against
what counts and holders lose), and each action is an instance of them.

**KernelExecution.** `init_workitems` counts the work items of a group, in the
clipped size or not, and keeps those inside the ND-range; the numbers it counts
are, by division with remainder (`Digits`), in bijection with the local ids. So the
only wavefront of a group of at most `WavefrontSize` items has one lane for each of
its items and no other (`LaneInv`), and a lane runs to the end with its wavefront. `RanInv`: an
item that was served has run once, unless its wavefront is under way; any other has
not run. The groups are disjoint by the dispatcher's invariant.

**DebugSession.** The invariant is a conjunction of parts, each for one reason.
`ModeInv` ties the execution mode to where the emulator is, and says what must
have happened before there is anything to report. `OrderInv` numbers the requests
along their way: the one the reader has is older than the one in `toUi`, that one
older than the answer being written, that one older than the one in `toEm`, and
`asked` is the youngest; `RequestsAccounted` follows when one of them moves.
`FixedPoint` says that the debugger's own set of breakpoints is a fixed point of
the breakpoint messages under way, so it does not matter whether the emulator
copies the set before or after it takes them; this is what makes a message left
over from the previous run harmless. `UndisturbedInv`: until it takes a message,
an emulator whose pause is being reported waits and says nothing. `ReportInv`: the
youngest report that the UI has not shown (`Pending`) tells the state of the
emulator, or the UI shows it already. `RegistersInv`: the newest registers asked
for (`Newest`), wherever the request or its answer is, are those of the current
context. `ContextInv`: the address of a pause is in its report, the younger one of two,
until the reader makes it the context, where it stays unless a choice is `stale`.

**RemoteControl.** The queues of the mapping are concatenations of places that hold
one message or none. A message that moves on to the next place, which is free, leaves
its queue as it is; one that arrives is appended; one that is shown was the first
(`ThreePlaces`, `FourPlaces`, `FirstLeaves`, `FirstOfFour`). Then there is one lemma for each
thread, `GuiControls`, `ReaderControls`, `EmulatorControls`, with a step per action. The
emulator decides whether to pause by its own copy of the breakpoints: `SureOfTheRest`
says, from `BreakpointsAgree`, that it is the user's but for the addresses whose change is
under way. `ModeInv` says where the emulator can be in each mode, so that a target which
was stopped or has failed never pauses again.

**Dispatcher.** `CursorInv`: the cursor is in the grid of groups or just past its
end. `CountInv`: `dispatchedWg` is the position of the cursor, read as a number
whose digits have the bases `Amount(1)` and `Amount(2)`; without it nothing
connects `has_next_wg`, which compares counts, with `next_wg`, which walks.
`ServedInv`: what has been served is what lies before the cursor. The lemma
`GroupStartsInside` (`c * w < n` iff `c < (n - 1) \div w + 1`) carries the
arithmetic.

**Only model-checked.** Liveness (`FullSlotIsTaken`, `CloseReleasesEveryone`,
`PauseReachesUser`, `ExitReturns`, `CallsReturn`, `EndsUnlessBarrier`,
`RequestsAnswered`), which is out of reach of the provers. Of `KernelRun`:

* `KernelComputes` and the two comparisons with the reference
  (`ScalarMatchesReference`, `VectorMatchesReference`) say what the ALU computes. Words, bytes and
  masks are built from sums over sets of bits and folds over bytes, of which the
  provers know nothing without an induction over the data.
* `OnlyActiveLanesWritten`: the write-back goes over the registers of every lane, and gives
  a lane that is off what it had by way of a conversion to a word and back. That it is
  unchanged needs every register to hold a word, thus that each of some hundred
  operations yields one, by the same sums.
* `InputsIntact`: a kernel stores where its registers point, so the property is one of
  the programs and not of every kernel; and the bytes it compares are again folds.

## 5. What is not modelled

* The GUI's widgets; the texts of messages; logging; profiling time stamps.
* nng, the transport of the IPC, and the compiler and disassembler (CLRX), which
  are outside of the repository.
* Queries (`clGet...Info`): they change nothing.
* User events: the constructor dereferences a null command, so that none exists.
* Several queues per context and several devices: the driver has one device.
* The copy of the breakpoint set, a data race, is taken as one step. (`programs`
  growing under five jobs is not: see `KernelIntake`.)
* Errors of nng, and the encoding of its messages.
* The parsing of text: assembly, the binary's and the arguments' metadata, the device
  configuration. A parser succeeds or fails.
* The arithmetic of floats, and the functions of the ALU that no instruction reaches.
* The checks of parameters and the bytes moved by the read, write, fill and copy
  commands: planned, see below.

## 6. The plan

Done, in this order: `Pipe` and `Channel` (every message of a session goes
through it), `CommandQueue`, `DebugSession`, `ObjectLifetimes`, `Dispatcher` and
`KernelExecution`, the storage, the ALU and `KernelRun`, `KernelIntake`; last the abstract
specifications `TaskQueue` and `RemoteControl`, and the proofs that `CommandQueue` and
`DebugSession` implement them.

Next:

1. `MemoryRegions`: `CHECK_BUFFER_PARAMETERS` in `size_t` of a small width, and the
   bytes that the read, write, fill and copy commands move, against a reference
   definition.
2. `DeviceConfigurationParser` and the argument parsers, as functions on token
   sequences, if there is room.
