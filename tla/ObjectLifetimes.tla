-------------------------- MODULE ObjectLifetimes --------------------------
(***************************************************************************)
(* driver/src/runtime: who keeps which object of the driver alive.  The    *)
(* context, the queue, programs, kernels and buffers are counted           *)
(* references; kernels hold their program and the buffer of an argument,   *)
(* commands hold what they work on, and all but kernels hold the context.  *)
(*                                                                         *)
(* The destructor of a buffer calls the application back, in the middle of *)
(* whatever released it, and the application may call the driver again:    *)
(* `todo` is what the calls under way have left to do, innermost first.    *)
(*                                                                         *)
(* Objects are named by their address, which the allocator may give to     *)
(* another object of the class when nothing refers to the old one.  The    *)
(* application uses only what it holds, gives up the queue outside of      *)
(* callbacks, and gives an event up as soon as it has it, so a command and *)
(* its event are one object here; CommandQueue.tla has them in full.       *)
(***************************************************************************)
EXTENDS Naturals, Sequences, FiniteSets, SequencesExt

CONSTANTS
  Programs, Kernels, Buffers,  (* addresses                                *)
  Sizes,         (* the sizes of buffers                                   *)
  GlobalMemory,  (* CLDeviceId::globalMemorySize                           *)
  MaxCalls,      (* bound: calls but those that enqueue, flush or release  *)
  MaxCommands,   (* bound: commands in the queue                           *)
  MaxHeld,       (* bound: references the application holds on one object  *)
  MaxCallbacks,  (* bound: destructor callbacks of one buffer              *)
  Unset, Null    (* a kernel argument without a value, and a null one      *)

Context == "context"
Queue == "queue"
Objects == {Context, Queue} \cup Programs \cup Kernels \cup Buffers

ASSUME LifetimeAssumption ==
  /\ IsFiniteSet(Objects)
  /\ {Context, Queue} \cap (Programs \cup Kernels \cup Buffers) = {}
  /\ Programs \cap Kernels = {} /\ (Programs \cup Kernels) \cap Buffers = {}
  /\ Sizes \subseteq Nat \ {0} /\ GlobalMemory \in Nat
  /\ MaxCalls \in Nat /\ MaxCommands \in Nat /\ MaxHeld \in Nat \ {0} /\ MaxCallbacks \in Nat
  /\ Unset # Null /\ {Unset, Null} \cap Objects = {}

VARIABLES
  live,       (* the objects that are allocated                            *)
  refs,       (* referenceCount; 0 while the destructor runs               *)
  program,    (* CLKernel::program                                         *)
  created,    (* CLProgram::createdKernels                                 *)
  argument,   (* the value of the one argument of a kernel                 *)
  callbacks,  (* how many destructor callbacks a buffer has                *)
  size,       (* CLMem::size                                               *)
  used,       (* CLDeviceId::usedGlobalMemory                              *)
  commands,   (* CLCommandQueue::commands: the objects that each refers to *)
              (* and, after them, the queue                                *)
  todo,       (* what the calls under way have left to do                  *)
  held,       (* the references the application holds                      *)
  calls,      (* counter for MaxCalls                                      *)
  unreachable,  (* history: programs that failed and that nobody knows     *)
  stolen,       (* history: how many references of a kernel destructors of *)
                (* programs gave up, which held none                       *)
  dangling      (* history: a destroyed object was used                    *)

graph == <<program, created, argument, callbacks, size>>
history == <<unreachable, stolen, dangling>>
vars == <<live, refs, graph, used, commands, todo, held, calls, history>>

Init ==
  /\ live = {Context, Queue}
  /\ refs = [o \in Objects |-> CASE o = Context -> 2 [] o = Queue -> 1 [] OTHER -> 0]
  /\ program = [k \in Kernels |-> Unset]
  /\ created = [p \in Programs |-> <<>>]
  /\ argument = [k \in Kernels |-> Unset]
  /\ callbacks = [b \in Buffers |-> 0]
  /\ size = [b \in Buffers |-> 0]
  /\ used = 0
  /\ commands = <<>>
  /\ todo = <<>>
  /\ held = [o \in Objects |-> IF o \in {Context, Queue} THEN 1 ELSE 0]
  /\ calls = 0
  /\ unreachable = {} /\ stolen = [k \in Kernels |-> 0] /\ dangling = FALSE

-----------------------------------------------------------------------------
(* Things to do. *)

Release(o) == [op |-> "release", o |-> o]    (* clRelease... of a reference held *)
Disown(k) == [op |-> "disown", o |-> k]      (* the same, of one not held        *)
Free(o) == [op |-> "free", o |-> o]          (* the end of the destructor        *)
CallBack(b) == [op |-> "callback", o |-> b]
Assign(k, v) == [op |-> "assign", o |-> k, value |-> v]
Flush == [op |-> "flush", o |-> Queue]
EndFlush == [op |-> "endFlush", o |-> Queue]

Now(op) == todo # <<>> /\ Head(todo).op = op /\ ~dangling
Then(fs) == todo' = fs \o Tail(todo)
Each(os, F(_)) == [i \in DOMAIN os |-> F(os[i])]

Usable(o) == o \in live /\ refs[o] > 0
Flushing == EndFlush \in ToSet(todo)

(* MUTANT: the argument is not released. *)
KernelForgetsArgument(k) == <<Release(program[k]), Free(k)>>

KernelDestructor(k) ==
  (IF argument[k] \in Buffers THEN <<Release(argument[k])>> ELSE <<>>)
  \o <<Release(program[k]), Free(k)>>

(* ~CLProgram releases every kernel ever created in the program, though    *)
(* none of them was retained for that.                                     *)
ProgramDestructor(p) == Each(created[p], Disown) \o <<Release(Context), Free(p)>>

BufferDestructor(b) ==
  [i \in 1 .. callbacks[b] |-> CallBack(b)] \o <<Release(Context), Free(b)>>

QueueDestructor == <<Release(Context), Free(Queue)>>

Destructor(o) ==
  CASE o \in Kernels  -> KernelDestructor(o)
    [] o \in Programs -> ProgramDestructor(o)
    [] o \in Buffers  -> BufferDestructor(o)
    [] o = Queue      -> QueueDestructor
    [] o = Context    -> <<Free(o)>>

(* The destructor of a command releases its objects, and then the queue.   *)
CommandDestructors == Each(commands, Release)

(* MUTANT: the room is given back with every reference. *)
GiveUpRoom(o) ==
  /\ refs' = [refs EXCEPT ![o] = @ - 1]
  /\ Then(IF refs[o] = 1 THEN Destructor(o) ELSE <<>>)
  /\ used' = IF o \in Buffers /\ used >= size[o] THEN used - size[o] ELSE used

(* The count of o goes down by one. *)
GiveUp(o) ==
  /\ refs' = [refs EXCEPT ![o] = @ - 1]
  /\ Then(IF refs[o] = 1 THEN Destructor(o) ELSE <<>>)
  /\ used' = IF refs[o] = 1 /\ o \in Buffers THEN used - size[o] ELSE used

(* Uses o: what follows the use of a destroyed object is not modelled. *)
Use(o, A) ==
  \/ Usable(o) /\ A /\ UNCHANGED dangling
  \/ ~Usable(o) /\ dangling' = TRUE /\ UNCHANGED <<live, refs, graph, used, commands, todo>>

DoRelease ==
  /\ Now("release")
  /\ Use(Head(todo).o, GiveUp(Head(todo).o) /\ UNCHANGED <<live, graph, commands>>)
  /\ UNCHANGED <<held, calls, unreachable, stolen>>

(* The program deletes its kernels by pointers that nothing keeps valid:   *)
(* the kernel may have been deleted already, and clReleaseKernel then      *)
(* counts down in freed memory.                                            *)
UsesDeletedKernel == todo # <<>> /\ Head(todo).op = "disown" /\ Head(todo).o \notin live

(* A count of 0 is that of a kernel whose own destructor released the      *)
(* program: it goes down, to no effect.                                    *)
DoDisown ==
  /\ Now("disown")
  /\ LET k == Head(todo).o
     IN  \/ /\ Usable(k) /\ GiveUp(k) /\ stolen' = [stolen EXCEPT ![k] = @ + 1]
            /\ UNCHANGED dangling
         \/ /\ k \in live /\ ~Usable(k) /\ Then(<<>>)
            /\ UNCHANGED <<refs, used, stolen, dangling>>
         \/ /\ UsesDeletedKernel /\ dangling' = TRUE
            /\ UNCHANGED <<refs, used, todo, stolen>>
  /\ UNCHANGED <<live, graph, commands, held, calls, unreachable>>

DoFree ==
  /\ Now("free")
  /\ live' = live \ {Head(todo).o}
  /\ Then(<<>>)
  /\ UNCHANGED <<refs, graph, used, commands, held, calls, history>>

DoAssign ==
  /\ Now("assign")
  /\ Use(Head(todo).o,
         /\ argument' = [argument EXCEPT ![Head(todo).o] = Head(todo).value]
         /\ Then(<<>>)
         /\ UNCHANGED <<live, refs, program, created, callbacks, size, used, commands>>)
  /\ UNCHANGED <<held, calls, unreachable, stolen>>

(* What the execution of commands reads or writes: a kernel sends the      *)
(* buffer it has as an argument when it runs, not when it was enqueued.    *)
Touched ==
  (ToSet(commands) \cup {argument[k] : k \in ToSet(commands) \cap Kernels}) \ {Queue, Null}

(* MUTANT: executed commands are dropped, not deleted. *)
FlushWithoutDelete ==
  /\ Now("flush")
  /\ commands' = <<>>
  /\ Then(<<EndFlush>>)
  /\ UNCHANGED <<live, refs, graph, used, held, calls, history>>

(* CLCommandQueue::flush executes what is enqueued and then deletes it;    *)
(* what callbacks enqueue meanwhile is left for the next flush.            *)
DoFlush ==
  /\ Now("flush")
  /\ IF Flushing
     THEN Then(<<>>) /\ UNCHANGED <<commands, dangling>>
     ELSE /\ dangling' = \E o \in Touched : ~Usable(o)
          /\ commands' = <<>>
          /\ Then(CommandDestructors \o <<EndFlush>>)
  /\ UNCHANGED <<live, refs, graph, used, held, calls, unreachable, stolen>>

DoEndFlush ==
  /\ Now("endFlush")
  /\ Use(Queue, Then(<<>>) /\ UNCHANGED <<live, refs, graph, used, commands>>)
  /\ UNCHANGED <<held, calls, unreachable, stolen>>

(* The application returns from a destructor callback. *)
CallbackReturn ==
  /\ Now("callback")
  /\ Then(<<>>)
  /\ UNCHANGED <<live, refs, graph, used, commands, held, calls, history>>

-----------------------------------------------------------------------------
(* Calls of the application, at the top level or inside a callback. *)

AppMay == ~dangling /\ (todo = <<>> \/ Now("callback"))
AppCalls == AppMay /\ calls < MaxCalls /\ calls' = calls + 1

Holds(o) == held[o] > 0 /\ Usable(o)

(* Any call with an object that was destroyed under the application. *)
CallOnDestroyed(o) ==
  /\ AppMay /\ held[o] > 0 /\ ~Usable(o)
  /\ dangling' = TRUE
  /\ UNCHANGED <<live, refs, graph, used, commands, todo, held, calls, unreachable, stolen>>

(* The address is free, and nothing the model follows still names it. *)
Available(o) ==
  /\ o \notin live /\ held[o] = 0
  /\ o \notin ToSet(commands)
  /\ \A i \in DOMAIN todo : todo[i].op # "disown" => todo[i].o # o

(* clCreateProgramWithBinary; when the disassembly fails the program is    *)
(* neither returned nor deleted.                                           *)
CreateProgram(p, succeeds) ==
  /\ AppCalls /\ Holds(Context) /\ Available(p)
  /\ live' = live \cup {p}
  /\ refs' = [refs EXCEPT ![p] = 1, ![Context] = @ + 1]
  /\ created' = [created EXCEPT ![p] = <<>>]
  /\ held' = [held EXCEPT ![p] = IF succeeds THEN 1 ELSE 0]
  /\ unreachable' = IF succeeds THEN unreachable ELSE unreachable \cup {p}
  /\ UNCHANGED <<program, argument, callbacks, size, used, commands, todo, stolen, dangling>>

(* clCreateKernel, and clCreateKernelsInProgram for each of its kernels. *)
CreateKernel(p, k) ==
  /\ AppCalls /\ Holds(p) /\ Available(k)
  /\ live' = live \cup {k}
  /\ refs' = [refs EXCEPT ![k] = 1, ![p] = @ + 1]
  /\ program' = [program EXCEPT ![k] = p]
  /\ created' = [created EXCEPT ![p] = Append(@, k)]
  /\ argument' = [argument EXCEPT ![k] = Unset]
  /\ held' = [held EXCEPT ![k] = 1]
  /\ stolen' = [stolen EXCEPT ![k] = 0]
  /\ UNCHANGED <<callbacks, size, used, commands, todo, unreachable, dangling>>

CreateBuffer(b, s) ==
  /\ AppCalls /\ Holds(Context) /\ Available(b)
  /\ used + s <= GlobalMemory
  /\ live' = live \cup {b}
  /\ refs' = [refs EXCEPT ![b] = 1, ![Context] = @ + 1]
  /\ size' = [size EXCEPT ![b] = s]
  /\ callbacks' = [callbacks EXCEPT ![b] = 0]
  /\ used' = used + s
  /\ held' = [held EXCEPT ![b] = 1]
  /\ UNCHANGED <<program, created, argument, commands, todo, history>>

SetDestructorCallback(b) ==
  /\ AppCalls /\ Holds(b) /\ callbacks[b] < MaxCallbacks
  /\ callbacks' = [callbacks EXCEPT ![b] = @ + 1]
  /\ UNCHANGED <<live, refs, program, created, argument, size, used, commands, todo, held,
                 history>>

Retain(o) ==
  /\ AppCalls /\ Holds(o) /\ held[o] < MaxHeld
  /\ refs' = [refs EXCEPT ![o] = @ + 1]
  /\ held' = [held EXCEPT ![o] = @ + 1]
  /\ UNCHANGED <<live, graph, used, commands, todo, history>>

(* clReleaseCommandQueue flushes first. *)
ReleaseObject(o) ==
  /\ AppMay /\ Holds(o)
  /\ o = Queue => todo = <<>>
  /\ held' = [held EXCEPT ![o] = @ - 1]
  /\ todo' = (IF o = Queue THEN <<Flush>> ELSE <<>>) \o <<Release(o)>> \o todo
  /\ UNCHANGED <<live, refs, graph, used, commands, calls, history>>

(* CLKernel::setArgument: retains the new value, releases the old one and  *)
(* only then replaces it.                                                  *)
SetArgument(k, v) ==
  /\ AppCalls /\ Holds(k) /\ (v \in Buffers => Holds(v))
  /\ refs' = IF v \in Buffers THEN [refs EXCEPT ![v] = @ + 1] ELSE refs
  /\ todo' = (IF argument[k] \in Buffers THEN <<Release(argument[k])>> ELSE <<>>)
             \o <<Assign(k, v)>> \o todo
  /\ UNCHANGED <<live, graph, used, commands, held, history>>

Occurrences(o, os) == Cardinality({i \in DOMAIN os : os[i] = o})

(* MUTANT: the command refers to its objects without retaining them. *)
EnqueueUnretained(os, flushes) ==
  /\ AppMay /\ Holds(Queue) /\ \A o \in ToSet(os) : Holds(o)
  /\ Occurrences(Queue, commands) < MaxCommands
  /\ refs' = [refs EXCEPT ![Queue] = @ + 1]
  /\ commands' = commands \o os \o <<Queue>>
  /\ todo' = IF flushes THEN <<Flush>> \o todo ELSE todo
  /\ UNCHANGED <<live, graph, used, held, calls, history>>

(* enqueueCommand for a command that refers to the objects os; a blocking  *)
(* call goes on to flush.                                                  *)
Enqueue(os, flushes) ==
  /\ AppMay /\ Holds(Queue) /\ \A o \in ToSet(os) : Holds(o)
  /\ Occurrences(Queue, commands) < MaxCommands
  /\ refs' = [o \in Objects |-> refs[o] + Occurrences(o, os \o <<Queue>>)]
  /\ commands' = commands \o os \o <<Queue>>
  /\ todo' = IF flushes THEN <<Flush>> \o todo ELSE todo
  /\ UNCHANGED <<live, graph, used, held, calls, history>>

(* clEnqueueNDRangeKernel and clEnqueueTask, with all arguments set. *)
EnqueueKernel(k) == argument[k] # Unset /\ Enqueue(<<k>>, FALSE)

(* clEnqueueReadBuffer and clEnqueueWriteBuffer, which may be blocking, of *)
(* a region inside the buffer, and clEnqueueFillBuffer.                    *)
EnqueueTransfer(b, blocking) == Enqueue(<<b>>, blocking)

EnqueueCopy(src, dst) == Enqueue(<<src, dst>>, FALSE)

ClFlush ==
  /\ AppMay /\ Holds(Queue)
  /\ todo' = <<Flush>> \o todo
  /\ UNCHANGED <<live, refs, graph, used, commands, held, calls, history>>

-----------------------------------------------------------------------------
Driver == DoRelease \/ DoDisown \/ DoFree \/ DoAssign \/ DoFlush \/ DoEndFlush

Application ==
  \/ \E p \in Programs : \/ \E succeeds \in BOOLEAN : CreateProgram(p, succeeds)
                         \/ \E k \in Kernels : CreateKernel(p, k)
  \/ \E b \in Buffers : \/ \E s \in Sizes : CreateBuffer(b, s)
                        \/ SetDestructorCallback(b)
                        \/ \E blocking \in BOOLEAN : EnqueueTransfer(b, blocking)
                        \/ \E c \in Buffers : EnqueueCopy(b, c)
  \/ \E k \in Kernels : \/ \E v \in Buffers \cup {Null} : SetArgument(k, v)
                        \/ EnqueueKernel(k)
  \/ \E o \in Objects : Retain(o) \/ ReleaseObject(o) \/ CallOnDestroyed(o)
  \/ ClFlush

Next == Driver \/ Application \/ CallbackReturn

Spec == Init /\ [][Next]_vars

-----------------------------------------------------------------------------
Values == Buffers \cup {Unset, Null}
Items ==
  [op : {"release", "free"}, o : Objects] \cup [op : {"flush", "endFlush"}, o : {Queue}]
  \cup [op : {"disown"}, o : Kernels] \cup [op : {"callback"}, o : Buffers]
  \cup [op : {"assign"}, o : Kernels, value : Buffers \cup {Null}]

(* Every variable holds a value of its type. *)
TypeOK ==
  /\ live \subseteq Objects
  /\ refs \in [Objects -> Nat]
  /\ program \in [Kernels -> Programs \cup {Unset}]
  /\ created \in [Programs -> Seq(Kernels)]
  /\ argument \in [Kernels -> Values]
  /\ callbacks \in [Buffers -> 0 .. MaxCallbacks]
  /\ size \in [Buffers -> Sizes \cup {0}]
  /\ used \in 0 .. GlobalMemory
  /\ commands \in Seq(Kernels \cup Buffers \cup {Queue})
  /\ todo \in Seq(Items)
  /\ held \in [Objects -> 0 .. MaxHeld]
  /\ calls \in 0 .. MaxCalls
  /\ unreachable \subseteq Programs /\ stolen \in [Kernels -> Nat] /\ dangling \in BOOLEAN

Existing == {o \in live : refs[o] > 0}
Waiting(op) == {i \in DOMAIN todo : todo[i].op = op}

Pending(k) == \E i \in Waiting("assign") : todo[i].o = k

(* Who holds a reference to o: the application, the commands, kernels and  *)
(* their arguments, a setArgument under way, whoever is about to release   *)
(* it; and, for ever, the caller of a program that failed.                 *)
Holders(o) ==
  held[o]
  + Occurrences(o, commands)
  + Cardinality({k \in Kernels \cap Existing : program[k] = o})
  + Cardinality({k \in Kernels \cap Existing : argument[k] = o /\ ~Pending(k)})
  + Cardinality({i \in Waiting("release") : todo[i].o = o})
  + Cardinality({i \in Waiting("assign") : todo[i].value = o})
  + (IF o \in unreachable THEN 1 ELSE 0)
  + (IF o = Context THEN Cardinality(Existing \ ({Context} \cup Kernels)) ELSE 0)

(* Reference counts are exact, whatever the destructors and the callbacks  *)
(* in them do, but for the references that the destructors of programs     *)
(* take from kernels (CLProgram.hpp:17).                                   *)
RefsAccounted ==
  ~dangling =>
    \A o \in Existing :
      refs[o] + (IF o \in Kernels THEN stolen[o] ELSE 0) = Holders(o)

(* No object is used after it was destroyed, unless a callback runs inside *)
(* setArgument, which still has the old buffer as the argument             *)
(* (CLKernel.cpp:57), or a program destroyed a kernel of another one, or   *)
(* is deleted after a kernel of its own (both CLProgram.hpp:17).           *)
NoUseAfterDestroy ==
  dangling =>
    Waiting("assign") # {} \/ (\E k \in Kernels : stolen[k] > 0) \/ UsesDeletedKernel

(* usedGlobalMemory counts the bytes of the existing buffers.              *)
MemoryAccounted ==
  used = Cardinality(UNION {{b} \X (1 .. size[b]) : b \in Buffers \cap Existing})

(* When the application has given up everything and no call is under way,  *)
(* no command is left and nothing exists but the programs that failed and  *)
(* the context they keep.                                                  *)
NothingLeaks ==
  /\ todo = <<>> /\ ~dangling
  /\ \A o \in Objects : held[o] = 0
  /\ \A k \in Kernels : stolen[k] = 0
  => /\ commands = <<>> /\ used = 0
     /\ live = unreachable \cup (IF unreachable = {} THEN {} ELSE {Context})
=============================================================================
