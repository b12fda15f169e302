---------------------------- MODULE DebugSession ----------------------------
(***************************************************************************)
(* A debugging session: the GUI thread and the reader thread of            *)
(* debugger/Debugger.cpp, and the emulator thread with the debug context   *)
(* of emulator/src/flow/debug_context.cpp.                                 *)
(*                                                                         *)
(* The threads talk over two one-slot channels.  Each is an instance of    *)
(* Pipe, which the module Channel is shown to implement: a message is put  *)
(* when the slot is free and a thread with a message to put is blocked     *)
(* until then.  The GUI thread and the reader write toEm and the emulator  *)
(* reads it; the emulator writes toUi and the reader reads it.             *)
(*                                                                         *)
(* Debugger::mutex is held by the GUI thread only, and it is the only      *)
(* thread of this module that asks for it.                                 *)
(***************************************************************************)
EXTENDS Naturals, Sequences, FiniteSets

CONSTANTS
  Addresses,   (* addresses of the instructions of the kernel              *)
  Wavefronts,  (* choices of the toolbar: wavefront or work item           *)
  First,       (* the choice that is the wavefront that paused             *)
  MaxClicks,   (* bound: actions of the user                               *)
  None         (* no message, no address                                   *)

ASSUME SessionAssumption ==
  /\ First \in Wavefronts
  /\ MaxClicks \in Nat

VARIABLES
  ui,           (* what the toolbar and the panels allow                   *)
  gui, guiMsg,  (* the GUI thread, and the message it is writing           *)
  rd, rdMsg,    (* the reader thread, and the message it is handling       *)
  breakpoints,  (* Debugger::breakpointStorage                             *)
  hasRuntime,   (* Debugger::hasKernelRuntime                              *)
  context,      (* Debugger::currentExecutionContext                       *)
  picked,       (* the context in onWavefrontSelected                      *)
  registers,    (* the context whose registers are on display              *)
  toEm, toUi,   (* outMessageChannel and inMessageChannel of the Debugger  *)
  closed,       (* the channels that are closed                            *)
  em,           (* the emulator thread                                     *)
  mode,         (* DebugContext::executionMode                             *)
  at,           (* the address of the current instruction                  *)
  bps,          (* DebugContext::breakpoints                               *)
  answer,       (* the request DebugContext::processMessage is answering   *)
  clicks,                (* counter for MaxClicks                          *)
  asked, answered,       (* history: requests put, last answer on display  *)
  overtaken,             (* history: the UI was told while the GUI thread  *)
                         (* was inside onResume or onStep                  *)
  crossed,               (* history: two changes of context overlapped     *)
  stale,                 (* history: the user's choice brought back the    *)
                         (* context of an earlier pause                    *)
  disturbed              (* history: the emulator took a message since it  *)
                         (* put the pause that the reader reports          *)

guiVars == <<ui, gui, guiMsg, breakpoints, hasRuntime, clicks>>
rdVars == <<rd, rdMsg>>
contextVars == <<context, picked, crossed, stale>>
emVars == <<em, mode, at, bps, answer>>
history == <<asked, answered, overtaken, disturbed>>
vars == <<guiVars, rdVars, contextVars, registers, toEm, toUi, closed, emVars, history>>

Contexts == (Addresses \cup {None}) \X Wavefronts
PauseContext(a) == <<a, First>>
Memory == <<"memory", "memory">>  (* what REQ_MEM asks for; no context *)

Terminal == {"STOP", "EXC"}
Request(c) == [type |-> "request", ctx |-> c]
Answer(m) == [type |-> "answer", ctx |-> m.ctx, id |-> m.id]
StopMsg == [type |-> "stop"]

Init ==
  /\ ui = "stopped" /\ gui = "idle" /\ guiMsg = None /\ rd = "idle" /\ rdMsg = None
  /\ breakpoints = {} /\ hasRuntime = FALSE
  /\ context = <<None, First>> /\ registers = context /\ picked = None
  /\ toEm = None /\ toUi = None /\ closed = {}
  /\ em = "none" /\ mode = "RUN" /\ at = None /\ bps = {} /\ answer = None
  /\ clicks = 0
  /\ asked = 0 /\ answered = 0
  /\ overtaken = FALSE /\ crossed = FALSE /\ stale = FALSE /\ disturbed = FALSE

-----------------------------------------------------------------------------
(* The GUI thread: one action for what the user does, and one for each     *)
(* point where the handler may wait.                                       *)

Click(allowed) ==
  /\ gui = "idle" /\ clicks < MaxClicks /\ allowed
  /\ clicks' = clicks + 1

(* The handler returns, or goes on to write m. *)
Return == gui' = "idle" /\ guiMsg' = None
BeginWrite(m) == gui' = "write" /\ guiMsg' = m
Proceed(pc) == gui' = pc /\ guiMsg' = None

GuiUnchanged == UNCHANGED <<rdVars, registers, toEm, toUi, closed, emVars, history>>

(* MUTANT: no message while the UI says that the kernel runs. *)
ToggleWhenPaused(a) ==
  /\ Click(TRUE)
  /\ LET removes == a \in breakpoints
     IN  /\ breakpoints' = IF removes THEN breakpoints \ {a} ELSE breakpoints \cup {a}
         /\ IF hasRuntime /\ ui # "running"
            THEN BeginWrite([type |-> "breakpoint", addr |-> a, remove |-> removes])
            ELSE Return
  /\ UNCHANGED <<ui, hasRuntime, contextVars>>
  /\ GuiUnchanged

(* A click in the margin of the code viewer: onSetBreakpoint and           *)
(* onRemoveBreakpoint.                                                     *)
Toggle(a) ==
  /\ Click(TRUE)
  /\ LET removes == a \in breakpoints
     IN  /\ breakpoints' = IF removes THEN breakpoints \ {a} ELSE breakpoints \cup {a}
         /\ IF hasRuntime
            THEN BeginWrite([type |-> "breakpoint", addr |-> a, remove |-> removes])
            ELSE Return
  /\ UNCHANGED <<ui, hasRuntime, contextVars>>
  /\ GuiUnchanged

(* onWavefrontSelected: a copy of the context is changed, without the      *)
(* mutex...                                                                *)
PickContext(w) ==
  /\ Click(TRUE)
  /\ picked' = <<context[1], w>>
  /\ Proceed("select")
  /\ UNCHANGED <<ui, breakpoints, hasRuntime, context, crossed, stale>>
  /\ GuiUnchanged

(* MUTANT: asks for the registers only while the UI says paused. *)
SelectContextWhenPaused ==
  /\ gui = "select"
  /\ context' = picked /\ picked' = None
  /\ crossed' = (rd = "request")
  /\ stale' = (stale \/ picked[1] # context[1])
  /\ IF hasRuntime /\ ui = "paused" THEN BeginWrite(Request(context')) ELSE Return
  /\ UNCHANGED <<ui, breakpoints, hasRuntime, clicks>>
  /\ GuiUnchanged

(* ... and onSelectExecutionContext makes it the context.  It is crossed   *)
(* when the reader has set its own and not yet asked for the registers.    *)
SelectContext ==
  /\ gui = "select"
  /\ context' = picked /\ picked' = None
  /\ crossed' = (rd = "request")
  /\ stale' = (stale \/ picked[1] # context[1])
  /\ IF hasRuntime THEN BeginWrite(Request(context')) ELSE Return
  /\ UNCHANGED <<ui, breakpoints, hasRuntime, clicks>>
  /\ GuiUnchanged

RequestMemory ==
  /\ Click(ui # "running")
  /\ IF hasRuntime THEN BeginWrite(Request(Memory)) ELSE Return
  /\ UNCHANGED <<ui, breakpoints, hasRuntime, contextVars>>
  /\ GuiUnchanged

Resume(stepping) ==
  /\ Click(ui = "paused")
  /\ BeginWrite([type |-> "run", stepping |-> stepping])
  /\ UNCHANGED <<ui, breakpoints, hasRuntime, contextVars>>
  /\ GuiUnchanged

Stop ==
  /\ Click(ui \in {"running", "paused"})
  /\ BeginWrite(StopMsg)
  /\ UNCHANGED <<ui, breakpoints, hasRuntime, contextVars>>
  /\ GuiUnchanged

(* Puts m into toEm; the requests are numbered in the order of the slot.   *)
PutToEm(m) ==
  IF m.type = "request"
  THEN /\ toEm' = [type |-> "request", ctx |-> m.ctx, id |-> asked + 1]
       /\ asked' = asked + 1
  ELSE /\ toEm' = m
       /\ UNCHANGED asked

(* MUTANT: a message that finds the slot full is dropped. *)
GuiTryWrite ==
  /\ gui = "write"
  /\ IF toEm = None THEN PutToEm(guiMsg) ELSE UNCHANGED <<toEm, asked>>
  /\ Proceed(IF guiMsg.type = "run" THEN "starting" ELSE "idle")
  /\ UNCHANGED <<ui, breakpoints, hasRuntime, clicks, rdVars, contextVars, registers,
                 toUi, closed, emVars, answered, overtaken, disturbed>>

GuiWrite ==
  /\ gui = "write" /\ toEm = None
  /\ PutToEm(guiMsg)
  /\ Proceed(IF guiMsg.type = "run" THEN "starting" ELSE "idle")
  /\ UNCHANGED <<ui, breakpoints, hasRuntime, clicks, rdVars, contextVars, registers,
                 toUi, closed, emVars, answered, overtaken, disturbed>>

(* onResume and onStep tell the UI after they have told the emulator. *)
GuiStarting ==
  /\ gui = "starting"
  /\ ui' = "running"
  /\ Return
  /\ UNCHANGED <<breakpoints, hasRuntime, clicks, contextVars>>
  /\ GuiUnchanged

Attach ==
  /\ Click(ui \in {"stopped", "exception"})
  /\ ui' = "running"
  /\ hasRuntime' = TRUE
  /\ Proceed("join")
  /\ overtaken' = FALSE
  /\ UNCHANGED <<breakpoints, rdVars, contextVars, registers, toEm, toUi, closed, emVars,
                 asked, answered, disturbed>>

(* runKernel joins the previous emulator thread and starts the next. *)
RunKernel ==
  /\ gui = "join" /\ em \in {"none", "done"}
  /\ em' = "starting"
  /\ Return
  /\ UNCHANGED <<ui, breakpoints, hasRuntime, clicks, rdVars, contextVars, registers,
                 toEm, toUi, closed, mode, at, bps, answer, history>>

-----------------------------------------------------------------------------
(* ~Debugger: joins the emulator, closes the channels, joins the reader. *)

Exit ==
  /\ Click(TRUE)
  /\ Proceed("joinEmulator")
  /\ UNCHANGED <<ui, breakpoints, hasRuntime, contextVars>>
  /\ GuiUnchanged

(* MUTANT: only the channel the reader reads is closed. *)
ExitCloseOne ==
  /\ gui = "joinEmulator" /\ em \in {"none", "done"}
  /\ closed' = {"toUi"}
  /\ Proceed("joinReader")
  /\ UNCHANGED <<ui, breakpoints, hasRuntime, clicks, rdVars, contextVars, registers,
                 toEm, toUi, emVars, history>>

ExitClose ==
  /\ \/ /\ gui = "joinEmulator" /\ em \in {"none", "done"}
        /\ closed' = {"toUi"}
        /\ Proceed("closing")
     \/ /\ gui = "closing"
        /\ closed' = {"toUi", "toEm"}
        /\ Proceed("joinReader")
  /\ UNCHANGED <<ui, breakpoints, hasRuntime, clicks, rdVars, contextVars, registers,
                 toEm, toUi, emVars, history>>

ExitDone ==
  /\ gui = "joinReader" /\ rd = "gone"
  /\ Proceed("gone")
  /\ UNCHANGED <<ui, breakpoints, hasRuntime, clicks, contextVars>>
  /\ GuiUnchanged

-----------------------------------------------------------------------------
(* The reader thread: processDebuggerMessages. *)

ReaderTake ==
  /\ rd = "idle" /\ toUi # None
  /\ rd' = "handle" /\ rdMsg' = toUi
  /\ toUi' = None
  /\ UNCHANGED <<guiVars, contextVars, registers, toEm, closed, emVars, history>>

Handling(type) == rd = "handle" /\ rdMsg.type = type
Handled == rd' = "idle" /\ rdMsg' = None

(* stopExecution, pauseExecution and setException of the EmulatorApp. *)
ShowUi(s) ==
  /\ ui' = s
  /\ overtaken' = (gui = "starting" \/ (gui = "write" /\ guiMsg.type = "run"))

ReaderShowsEnd ==
  /\ \/ Handling("onStop") /\ ShowUi("stopped")
     \/ Handling("onException") /\ ShowUi("exception")
  /\ Handled
  /\ UNCHANGED <<gui, guiMsg, breakpoints, hasRuntime, clicks, contextVars, registers, toEm,
                 toUi, closed, emVars, asked, answered, disturbed>>

ReaderShowsAnswer ==
  /\ Handling("answer")
  /\ registers' = IF rdMsg.ctx = Memory THEN registers ELSE rdMsg.ctx
  /\ answered' = rdMsg.id
  /\ Handled
  /\ UNCHANGED <<guiVars, contextVars, toEm, toUi, closed, emVars, asked, overtaken,
                 disturbed>>

(* pauseExecution sets the context without the mutex... *)
ReaderSetsContext ==
  /\ Handling("onPause")
  /\ context' = PauseContext(rdMsg.addr)
  /\ crossed' = (gui = "write" /\ guiMsg.type = "request" /\ guiMsg.ctx # Memory)
  /\ stale' = FALSE
  /\ rd' = "request" /\ UNCHANGED <<rdMsg, picked>>
  /\ UNCHANGED <<guiVars, registers, toEm, toUi, closed, emVars, history>>

(* ... asks for its registers... *)
ReaderRequests ==
  /\ rd = "request"
  /\ \/ toEm = None /\ "toEm" \notin closed
        /\ PutToEm(Request(PauseContext(rdMsg.addr)))
     \/ "toEm" \in closed /\ UNCHANGED <<toEm, asked>>
  /\ rd' = "pause" /\ UNCHANGED rdMsg
  /\ UNCHANGED <<guiVars, contextVars, registers, toUi, closed, emVars, answered,
                 overtaken, disturbed>>

(* ... and only then tells the UI. *)
ReaderShowsPause ==
  /\ rd = "pause"
  /\ ShowUi("paused")
  /\ Handled
  /\ UNCHANGED <<gui, guiMsg, breakpoints, hasRuntime, clicks, contextVars, registers, toEm,
                 toUi, closed, emVars, asked, answered, disturbed>>

ReaderLeaves ==
  /\ rd = "idle" /\ toUi = None /\ "toUi" \in closed
  /\ rd' = "gone" /\ UNCHANGED rdMsg
  /\ UNCHANGED <<guiVars, contextVars, registers, toEm, toUi, closed, emVars, history>>

-----------------------------------------------------------------------------
(* The emulator thread: Executor::executeKernel with the debug context.    *)
(* Which instruction follows, which one fails and which one is the last is *)
(* the kernel's affair.                                                    *)

EmUnchanged == UNCHANGED <<guiVars, rdVars, contextVars, registers, closed>>

(* The debug context copies the breakpoints, without the mutex, when the   *)
(* thread gets there.                                                      *)
EmStart ==
  /\ em = "starting"
  /\ bps' = breakpoints
  /\ mode' = "RUN"
  /\ at' \in Addresses
  /\ em' = "instruction"
  /\ UNCHANGED <<toEm, toUi, answer, history>>
  /\ EmUnchanged

(* processInstruction *)
EmInstruction ==
  /\ em = "instruction"
  /\ IF mode \notin Terminal /\ (mode = "STEP" \/ at \in bps)
     THEN mode' = "PAUSE" /\ em' = "tellPause"
     ELSE UNCHANGED mode /\ em' = "execute"
  /\ UNCHANGED <<toEm, toUi, at, bps, answer, history>>
  /\ EmUnchanged

ReaderHasPause == rdMsg # None /\ rdMsg.type = "onPause"

(* Writes a message and goes on at next. *)
Tell(m, next) ==
  /\ toUi = None
  /\ toUi' = m
  /\ em' = next
  /\ disturbed' = (disturbed /\ (m.type # "onPause" \/ ReaderHasPause))
  /\ UNCHANGED <<toEm, mode, bps, asked, answered, overtaken>>
  /\ EmUnchanged

(* MUTANT: does not wait for the debugger. *)
EmTellPauseAndGoOn ==
  /\ em = "tellPause"
  /\ Tell([type |-> "onPause", addr |-> at], "drain")
  /\ UNCHANGED <<at, answer>>

(* MUTANT: a pause that finds the slot full is dropped. *)
EmTryTellPause ==
  /\ em = "tellPause"
  /\ \/ Tell([type |-> "onPause", addr |-> at], "wait")
     \/ /\ toUi # None /\ em' = "wait"
        /\ UNCHANGED <<toEm, toUi, mode, bps, history>>
        /\ EmUnchanged
  /\ UNCHANGED <<at, answer>>

EmTellPause ==
  /\ em = "tellPause"
  /\ Tell([type |-> "onPause", addr |-> at], "wait")
  /\ UNCHANGED <<at, answer>>

(* MUTANT: a terminated run answers no more requests. *)
ProcessUnlessTerminal(m) ==
  /\ IF m.type = "request" /\ mode \notin Terminal
     THEN em' = "answer" /\ answer' = Answer(m)
     ELSE UNCHANGED <<em, answer>>
  /\ bps' = IF m.type # "breakpoint" \/ mode \in Terminal THEN bps
            ELSE IF m.remove THEN bps \ {m.addr} ELSE bps \cup {m.addr}
  /\ mode' = IF m.type = "stop" THEN "STOP"
             ELSE IF m.type # "run" \/ mode \in Terminal THEN mode
             ELSE IF m.stepping THEN "STEP" ELSE "RUN"

(* MUTANT: a late Run revives a stopped kernel. *)
ProcessRevives(m) ==
  /\ IF m.type = "request"
     THEN em' = "answer" /\ answer' = Answer(m)
     ELSE UNCHANGED <<em, answer>>
  /\ bps' = IF m.type # "breakpoint" THEN bps
            ELSE IF m.remove THEN bps \ {m.addr} ELSE bps \cup {m.addr}
  /\ mode' = CASE m.type = "stop" -> "STOP"
               [] m.type = "run"  -> IF m.stepping THEN "STEP" ELSE "RUN"
               [] OTHER           -> mode

(* processMessage; a stopped or failed run ignores breakpoints and Run. *)
Process(m) ==
  /\ IF m.type = "request"
     THEN em' = "answer" /\ answer' = Answer(m)
     ELSE UNCHANGED <<em, answer>>
  /\ bps' = IF m.type # "breakpoint" \/ mode \in Terminal THEN bps
            ELSE IF m.remove THEN bps \ {m.addr} ELSE bps \cup {m.addr}
  /\ mode' = IF m.type = "stop" THEN "STOP"
             ELSE IF m.type # "run" \/ mode \in Terminal THEN mode
             ELSE IF m.stepping THEN "STEP" ELSE "RUN"

(* A turn of the loops of waitForResume and readMessages.  The channels    *)
(* are open as long as the emulator lives.                                 *)
EmTake ==
  /\ (em = "wait" /\ mode = "PAUSE") \/ em = "drain"
  /\ toEm # None
  /\ Process(toEm)
  /\ toEm' = None
  /\ disturbed' = TRUE
  /\ UNCHANGED <<toUi, at, asked, answered, overtaken>>
  /\ EmUnchanged

(* The answer was asked for in waitForResume while the mode is PAUSE. *)
EmAnswer ==
  /\ em = "answer"
  /\ Tell(answer, IF mode = "PAUSE" THEN "wait" ELSE "drain")
  /\ answer' = None
  /\ UNCHANGED at

EmResumed ==
  /\ \/ em = "wait" /\ mode # "PAUSE" /\ em' = "drain"
     \/ em = "drain" /\ toEm = None /\ em' = "execute"
  /\ UNCHANGED <<toEm, toUi, mode, at, bps, answer, history>>
  /\ EmUnchanged

(* The instruction is executed, fails, or is the last one.  A kernel may   *)
(* never get to its last one, and nothing breaks it off: a stopped run     *)
(* goes on without pauses.                                                 *)
EmExecute ==
  /\ em = "execute"
  /\ \/ em' = "instruction" /\ at' \in Addresses /\ UNCHANGED mode
     \/ em' = "tellException" /\ mode' = "EXC" /\ UNCHANGED at
     \/ em' = "finish" /\ UNCHANGED <<mode, at>>
  /\ UNCHANGED <<toEm, toUi, bps, answer, history>>
  /\ EmUnchanged

(* processException; the kernel goes on with the next instruction. *)
EmTellException ==
  /\ em = "tellException"
  /\ Tell([type |-> "onException"], "instruction")
  /\ at' \in Addresses
  /\ UNCHANGED answer

(* MUTANT: every end of a run is reported as a stop. *)
EmFinishAlways ==
  /\ em = "finish"
  /\ Tell([type |-> "onStop"], "done")
  /\ UNCHANGED <<at, answer>>

(* Only a run that was stopped reports its end. *)
EmFinish ==
  /\ em = "finish"
  /\ \/ mode = "STOP" /\ Tell([type |-> "onStop"], "done")
     \/ /\ mode # "STOP" /\ em' = "done"
        /\ UNCHANGED <<toEm, toUi, mode, bps, history>>
        /\ EmUnchanged
  /\ UNCHANGED <<at, answer>>

-----------------------------------------------------------------------------
User ==
  \/ \E a \in Addresses : Toggle(a)
  \/ \E w \in Wavefronts : PickContext(w)
  \/ \E stepping \in BOOLEAN : Resume(stepping)
  \/ RequestMemory \/ Stop \/ Attach \/ Exit

GuiThread ==
  SelectContext \/ GuiWrite \/ GuiStarting \/ RunKernel \/ ExitClose \/ ExitDone

ReaderThread ==
  \/ ReaderTake \/ ReaderShowsEnd \/ ReaderShowsAnswer \/ ReaderSetsContext
  \/ ReaderRequests \/ ReaderShowsPause \/ ReaderLeaves

EmulatorThread ==
  \/ EmStart \/ EmInstruction \/ EmTellPause \/ EmTake \/ EmAnswer \/ EmResumed
  \/ EmExecute \/ EmTellException \/ EmFinish

Next == User \/ GuiThread \/ ReaderThread \/ EmulatorThread

Spec == Init /\ [][Next]_vars

(* Every thread is scheduled; the user need not do anything. *)
FairSpec ==
  Spec /\ WF_vars(GuiThread) /\ WF_vars(ReaderThread) /\ WF_vars(EmulatorThread)

-----------------------------------------------------------------------------
Asks == Contexts \cup {Memory}
Breakpoint == [type : {"breakpoint"}, addr : Addresses, remove : BOOLEAN]
Commands == Breakpoint \cup [type : {"run"}, stepping : BOOLEAN] \cup {StopMsg}
GuiMessages == Commands \cup [type : {"request"}, ctx : Asks]
ToEmMessages == Commands \cup [type : {"request"}, ctx : Asks, id : Nat]
Answers == [type : {"answer"}, ctx : Asks, id : Nat]
Pauses == [type : {"onPause"}, addr : Addresses]
Reports == [type : {"onStop", "onException"}] \cup Pauses

(* None is no address and no message, and the memory is no context. *)
ASSUME NoneAssumption ==
  /\ Memory \notin Contexts
  /\ None \notin Addresses \cup GuiMessages \cup ToEmMessages \cup Answers \cup Reports

(* Every variable holds a value of its type, and a thread has a message in *)
(* hand exactly where the code has one.                                    *)
TypeOK ==
  /\ ui \in {"stopped", "running", "paused", "exception"}
  /\ gui \in {"idle", "select", "write", "starting", "join", "joinEmulator",
              "closing", "joinReader", "gone"}
  /\ guiMsg \in GuiMessages \cup {None} /\ (gui = "write" <=> guiMsg # None)
  /\ rd \in {"idle", "handle", "request", "pause", "gone"}
  /\ rdMsg \in Answers \cup Reports \cup {None} /\ (rd \in {"idle", "gone"} <=> rdMsg = None)
  /\ rd \in {"request", "pause"} => rdMsg \in Pauses
  /\ breakpoints \subseteq Addresses /\ bps \subseteq Addresses
  /\ hasRuntime \in BOOLEAN
  /\ context \in Contexts /\ registers \in Contexts
  /\ IF gui = "select" THEN picked \in Contexts ELSE picked = None
  /\ toEm \in ToEmMessages \cup {None}
  /\ toUi \in Answers \cup Reports \cup {None}
  /\ closed \subseteq {"toUi", "toEm"}
  /\ em \in {"none", "starting", "instruction", "tellPause", "wait", "drain", "answer",
             "execute", "tellException", "finish", "done"}
  /\ mode \in {"RUN", "STEP", "PAUSE"} \cup Terminal
  /\ at \in Addresses \cup {None} /\ (em \in {"none", "starting", "done"} \/ at # None)
  /\ answer \in Answers \cup {None} /\ (em = "answer" <=> answer # None)
  /\ clicks \in 0 .. MaxClicks
  /\ asked \in Nat /\ answered \in Nat
  /\ overtaken \in BOOLEAN /\ crossed \in BOOLEAN /\ stale \in BOOLEAN /\ disturbed \in BOOLEAN

(* The requests on their way: in either slot or in the hands of a thread.  *)
IsRequest(m) == m # None /\ m.type \in {"request", "answer"}
InFlight == {m.id : m \in {x \in {toEm, answer, toUi, rdMsg} : IsRequest(x)}}

(* Every request the channel accepts is answered, once and in order: the   *)
(* ones that were not answered yet are exactly the ones in flight, also    *)
(* across stops, exceptions and the next run.                              *)
RequestsAccounted == InFlight = answered + 1 .. asked

(* bps after the breakpoint message m, if it is one. *)
Apply(m, b) ==
  IF m = None \/ m.type # "breakpoint" THEN b
  ELSE IF m.remove THEN b \ {m.addr} ELSE b \cup {m.addr}

(* The two copies of the breakpoints agree once the messages on their way  *)
(* have arrived, although the emulator copies them at a moment of its own  *)
(* and may find a message of the previous run in the channel.              *)
BreakpointsAgree ==
  em \notin {"none", "starting", "done"} /\ mode \notin Terminal =>
    Apply(guiMsg, Apply(toEm, bps)) = breakpoints

Quiet == gui = "idle" /\ rd = "idle" /\ toEm = None /\ toUi = None

(* When nothing is on its way, the UI shows what the emulator does when it *)
(* waits, was stopped or failed, unless the reader's report came while the *)
(* GUI thread was between writing Run and setting the UI to running        *)
(* (Debugger.cpp:115).                                                     *)
UiShowsRun ==
  Quiet /\ ~overtaken =>
    /\ em = "wait" /\ mode = "PAUSE" => ui = "paused"
    /\ em = "done" /\ mode = "STOP" => ui = "stopped"
    /\ em = "done" /\ mode = "EXC" => ui = "exception"

(* The registers on display are those of the selected context, once every  *)
(* request is answered, unless the user and the reader changed the context *)
(* at the same time (pauseExecution takes no mutex, Debugger.cpp:271); and *)
(* the context is that of the pause, unless the user's choice was made of  *)
(* a context read before the pause (EmulatorApp.cpp:66).                   *)
RegistersFollowContext ==
  Quiet =>
    /\ answered = asked /\ hasRuntime /\ ~crossed /\ context[1] # None => registers = context
    /\ em = "wait" /\ mode = "PAUSE" /\ ~stale => context[1] = at

(* The reader waits for a free slot in toEm, and the emulator has ended or *)
(* waits for a free slot in toUi: both wait for ever.                      *)
ReaderStuck ==
  /\ rd = "request" /\ toEm # None
  /\ \/ em = "done"
     \/ toUi # None /\ em \in {"tellPause", "answer", "tellException", "finish"}

(* That takes a message in toEm after another one that the emulator took   *)
(* since it put the pause that the reader is reporting: one message from   *)
(* the user cannot lock up the threads.                                    *)
ReaderStuckIsDisturbed == ReaderStuck => disturbed

(* A stopped or failed run pauses no more. *)
NoPauseAfterEnd ==
  [][em # "starting" /\ mode \in Terminal => mode' \in Terminal /\ em' # "tellPause"]_vars

(* What the user sees is a RemoteControl: the messages on their way are    *)
(* what is ordered, asked and reported and not yet obeyed or shown, oldest *)
(* first, whichever thread or slot has them.  Nothing is lost, repeated or *)
(* overtaken by its like, the target pauses where the breakpoints say and  *)
(* moves on when it is told to, across stops, exceptions and further runs. *)
IsRun(m) == m # None /\ m.type = "run"
IsChange(m) == m # None /\ m.type = "breakpoint"
Ordered(m) == IF m # None /\ m.type \in {"run", "stop"} THEN <<m>> ELSE <<>>
Requested(m) == IF IsRequest(m) THEN <<m.ctx>> ELSE <<>>
Reported(m) == IF m \in Reports THEN <<m>> ELSE <<>>
Reporting ==
  CASE em = "tellPause"     -> <<[type |-> "onPause", addr |-> at]>>
    [] em = "tellException" -> <<[type |-> "onException"]>>
    [] OTHER                -> <<>>

Unsure == {a \in Addresses : \E m \in {toEm, guiMsg} : IsChange(m) /\ m.addr = a}
Orders == Ordered(toEm) \o Ordered(guiMsg)
Asked == Requested(rdMsg) \o Requested(toUi) \o Requested(answer) \o Requested(toEm)
News == Reported(rdMsg) \o Reported(toUi) \o Reporting
Target == IF em \in {"none", "starting"} THEN em ELSE IF em = "done" THEN "ended" ELSE mode
Passed == em \notin {"none", "starting", "instruction", "done"}
Resuming == gui = "starting" \/ IsRun(guiMsg)
Lag == IF gui = "join" THEN "start" ELSE IF Resuming THEN "resume" ELSE "nothing"

RC == INSTANCE RemoteControl WITH
        unsure <- Unsure, orders <- Orders, asked <- Asked, target <- Target,
        passed <- Passed, news <- News, view <- ui, pending <- Lag
ImplementsRemoteControl == RC!Spec

(* An emulator that pauses makes the UI say so, unless the reader waits    *)
(* for ever to ask for registers: locked up with the emulator, or for one  *)
(* that went on, or is in a later run, and executes a kernel without end.  *)
PauseReachesUser ==
  (em = "tellPause") ~>
    (ui = "paused" \/ ReaderStuck \/ [](rd = "request" /\ em \in {"instruction", "execute"}))

(* ~Debugger returns, releasing a blocked reader, unless it finds the      *)
(* emulator paused at a breakpoint, where nobody can resume it any more,   *)
(* or locked up with the reader, or executing a kernel that never ends,    *)
(* which a Stop before it does not change.                                 *)
ExitReturns ==
  \/ []<>(em = "execute")
  \/ (gui = "joinEmulator") ~>
       (gui = "gone" \/ (em = "wait" /\ mode = "PAUSE") \/ (ReaderStuck /\ em # "done"))
=============================================================================
