------------------------- MODULE DebugSessionProofs -------------------------
(***************************************************************************)
(* Theorems about DebugSession, for any kernel, any number of clicks and   *)
(* runs: the session's types, its requests, breakpoints and registers,     *)
(* what the UI shows, and when the threads can lock up.                    *)
(***************************************************************************)
EXTENDS DebugSession, SequenceTheorems, TLAPS

(* Where the emulator can be in each mode, and what has happened before    *)
(* there is something to report.                                           *)
ModeInv ==
  /\ mode = "PAUSE" => em \in {"tellPause", "wait", "answer"}
  /\ em = "tellPause" => mode = "PAUSE"
  /\ mode = "EXC" => em \in {"starting", "instruction", "execute", "tellException",
                            "finish", "done"}
  /\ em = "tellException" => mode = "EXC"
  /\ em = "none" => mode = "RUN"
  /\ \/ em # "none" \/ gui \in {"join", "starting"} \/ ui # "stopped" \/ context[1] # None
     \/ guiMsg # None \/ toEm # None \/ toUi # None \/ rdMsg # None
     => hasRuntime
  /\ gui = "select" /\ picked[1] # None => hasRuntime
  /\ closed # {} => gui \in {"closing", "joinReader", "gone"}

One(m) == IF IsRequest(m) THEN 1 ELSE 0

(* Requests and answers queue up behind one another: what the reader       *)
(* handles was asked first, what is in toEm last.                          *)
OrderInv ==
  LET r == answered + One(rdMsg)
      u == r + One(toUi)
      a == u + One(answer)
  IN  /\ IsRequest(rdMsg) => rdMsg.id = r
      /\ IsRequest(toUi) => toUi.id = u
      /\ IsRequest(answer) => answer.id = a
      /\ IsRequest(toEm) => toEm.id = a + 1
      /\ asked = a + One(toEm)

(* The breakpoints the debugger keeps are a fixed point of the messages    *)
(* about them, so it does not matter when the emulator copies them.        *)
FixedPoint == Apply(guiMsg, Apply(toEm, breakpoints)) = breakpoints

(* Until it takes a message, an emulator whose pause is being reported     *)
(* waits and says nothing.                                                 *)
UndisturbedInv ==
  ~disturbed /\ (ReaderHasPause \/ toUi \in Pauses) =>
    /\ em = "wait" /\ mode = "PAUSE"
    /\ ReaderHasPause => toUi = None

(* The youngest report that the UI has not shown. *)
Pending == IF toUi \in Reports THEN toUi ELSE IF rdMsg \in Reports THEN rdMsg ELSE None

(* What the emulator does is what the youngest report says, or what the UI *)
(* shows when there is none on its way.                                    *)
PauseShown ==
  \/ Pending \in Pauses
  \/ /\ Pending = None
     /\ ui \in {"paused", "running"}
     /\ overtaken \/ IsRun(toEm) \/ (ui = "paused" /\ gui # "starting")

EndShown(type, shown) ==
  \/ Pending = [type |-> type]
  \/ /\ Pending = None
     /\ overtaken \/ gui = "join" \/ (ui = shown /\ ~Resuming)

ReportInv ==
  /\ mode = "PAUSE" /\ em \in {"wait", "answer"} => PauseShown
  /\ mode = "STOP" /\ em = "done" => EndShown("onStop", "stopped")
  /\ mode = "EXC" /\ em \notin {"tellException", "starting"} =>
       EndShown("onException", "exception")

(* The context of a message about registers. *)
IsRegisters(m) == IsRequest(m) /\ m.ctx # Memory
GuiAsks == guiMsg # None /\ guiMsg.type = "request" /\ guiMsg.ctx # Memory

(* The registers that were asked for last, wherever the request is. *)
Newest ==
  IF rd = "request" THEN PauseContext(rdMsg.addr)
  ELSE IF GuiAsks THEN guiMsg.ctx
  ELSE IF IsRegisters(toEm) THEN toEm.ctx
  ELSE IF IsRegisters(answer) THEN answer.ctx
  ELSE IF IsRegisters(toUi) THEN toUi.ctx
  ELSE IF IsRegisters(rdMsg) THEN rdMsg.ctx
  ELSE registers

RegistersInv ==
  ~crossed /\ context[1] # None /\ closed = {} =>
    Newest = context /\ ~(rd = "request" /\ GuiAsks)

(* The address of a pause reaches the context with its report: the one in  *)
(* toUi is younger than the one in the hands of the reader.                *)
ContextInv ==
  mode = "PAUSE" /\ em \in {"wait", "answer"} =>
    IF toUi \in Pauses THEN toUi.addr = at
    ELSE IF rd = "handle" /\ rdMsg \in Pauses THEN rdMsg.addr = at
    ELSE stale \/ context[1] = at

Inv ==
  /\ TypeOK /\ ModeInv /\ OrderInv /\ FixedPoint /\ BreakpointsAgree
  /\ UndisturbedInv /\ ReportInv /\ RegistersInv /\ ContextInv

-----------------------------------------------------------------------------
LEMMA NoneIsNoMessage ==
  None \notin GuiMessages /\ None \notin ToEmMessages /\ None \notin Answers
  /\ None \notin Reports /\ None \notin Pauses /\ None \notin Addresses
  BY NoneAssumption DEF Reports

LEMMA GuiMessageFacts ==
  /\ \A a \in Addresses : \A r \in BOOLEAN :
       [type |-> "breakpoint", addr |-> a, remove |-> r] \in GuiMessages
  /\ \A s \in BOOLEAN : [type |-> "run", stepping |-> s] \in GuiMessages
  /\ StopMsg \in GuiMessages
  /\ \A c \in Asks : Request(c) \in GuiMessages
  BY DEF GuiMessages, Commands, Breakpoint, StopMsg, Request

LEMMA ReportFacts ==
  /\ \A a \in Addresses : [type |-> "onPause", addr |-> a] \in Pauses
  /\ \A a \in Addresses : [type |-> "onPause", addr |-> a] \in Reports
  /\ [type |-> "onStop"] \in Reports /\ [type |-> "onException"] \in Reports
  /\ Pauses \subseteq Reports
  /\ \A m \in Reports : m.type \in {"onStop", "onException", "onPause"}
  /\ \A m \in Reports : m.type = "onPause" => m \in Pauses
  /\ \A m \in Pauses : m.addr \in Addresses /\ m.type = "onPause"
                        /\ m = [type |-> "onPause", addr |-> m.addr]
  /\ \A m \in Answers : m.type = "answer" /\ m.ctx \in Asks /\ m.id \in Nat
  BY DEF Pauses, Reports, Answers

LEMMA ToEmFacts ==
  ASSUME NEW m \in ToEmMessages
  PROVE  /\ m.type = "request" => m.ctx \in Asks /\ m.id \in Nat /\ Answer(m) \in Answers
         /\ m.type = "breakpoint" => m.addr \in Addresses
         /\ m.type \in {"request", "breakpoint", "run", "stop"}
  BY DEF ToEmMessages, Commands, Breakpoint, StopMsg, Answer, Answers

LEMMA PutFacts ==
  ASSUME NEW m \in GuiMessages, asked \in Nat, PutToEm(m)
  PROVE  /\ toEm' \in ToEmMessages /\ asked' \in Nat
         /\ toEm'.type = m.type
         /\ m.type = "request" => toEm'.ctx = m.ctx /\ toEm'.id = asked + 1 /\ asked' = asked + 1
         /\ m.type # "request" => toEm' = m /\ asked' = asked
<1>1. CASE m.type = "request"
  <2>1. m.ctx \in Asks
    BY <1>1 DEF GuiMessages, Commands, Breakpoint, StopMsg
  <2>2. toEm' = [type |-> "request", ctx |-> m.ctx, id |-> asked + 1] /\ asked' = asked + 1
    BY <1>1 DEF PutToEm
  <2>3. [type |-> "request", ctx |-> m.ctx, id |-> asked + 1] \in ToEmMessages
    BY <2>1 DEF ToEmMessages
  <2>. QED  BY <1>1, <2>1, <2>2, <2>3
<1>2. CASE m.type # "request"
  BY <1>2 DEF PutToEm, GuiMessages, ToEmMessages
<1>. QED  BY <1>1, <1>2
-----------------------------------------------------------------------------
(* The type invariant, action by action. *)

LEMMA UserType == ASSUME TypeOK, User PROVE TypeOK'
<1>. USE DEF Click, BeginWrite, Return, Proceed, GuiUnchanged, TypeOK, contextVars, rdVars,
             emVars, history
<1>0. /\ MaxClicks \in Nat
      /\ \A w \in Wavefronts : <<context[1], w>> \in Contexts
      /\ Contexts \subseteq Asks /\ Memory \in Asks
      /\ None \notin GuiMessages
  BY SessionAssumption, NoneIsNoMessage DEF Contexts, Asks
<1>1. ASSUME NEW a \in Addresses, Toggle(a) PROVE TypeOK'
  <2>1. [type |-> "breakpoint", addr |-> a, remove |-> a \in breakpoints] \in GuiMessages
    BY (a \in breakpoints) \in BOOLEAN, GuiMessageFacts
  <2>2. breakpoints' \subseteq Addresses
    BY <1>1 DEF Toggle
  <2>3. guiMsg' \in GuiMessages \cup {None} /\ (gui' = "write" <=> guiMsg' # None)
    BY <1>0, <1>1, <2>1 DEF Toggle
  <2>. QED  BY <1>0, <1>1, <2>2, <2>3 DEF Toggle
<1>2. ASSUME NEW w \in Wavefronts, PickContext(w) PROVE TypeOK'
  BY <1>0, <1>2 DEF PickContext
<1>3. ASSUME RequestMemory PROVE TypeOK'
  <2>1. Request(Memory) \in GuiMessages
    BY <1>0, GuiMessageFacts
  <2>. QED  BY <1>0, <1>3, <2>1 DEF RequestMemory
<1>4. ASSUME NEW s \in BOOLEAN, Resume(s) PROVE TypeOK'
  <2>1. [type |-> "run", stepping |-> s] \in GuiMessages
    BY GuiMessageFacts
  <2>. QED  BY <1>0, <1>4, <2>1 DEF Resume
<1>5. ASSUME Stop PROVE TypeOK'
  BY <1>0, <1>5, GuiMessageFacts DEF Stop
<1>6. ASSUME Attach PROVE TypeOK'
  <2>1. clicks' \in 0 .. MaxClicks
    BY <1>0, <1>6 DEF Attach
  <2>2. UNCHANGED <<rd, rdMsg, context, picked, crossed, stale, registers, toEm, toUi, closed,
                    em, mode, at, bps, answer>>
    BY <1>6 DEF Attach
  <2>3. ui' = "running" /\ gui' = "join" /\ guiMsg' = None /\ hasRuntime' = TRUE
        /\ overtaken' = FALSE /\ gui # "select"
        /\ UNCHANGED <<breakpoints, asked, answered, disturbed>>
    BY <1>6 DEF Attach
  <2>4. picked = None /\ picked' = None
    BY <2>2, <2>3
  <2>5. /\ em' = "answer" <=> answer' # None
        /\ rd' \in {"idle", "gone"} <=> rdMsg' = None
        /\ rd' \in {"request", "pause"} => rdMsg' \in Pauses
        /\ em' \in {"none", "starting", "done"} \/ at' # None
    BY <2>2
  <2>6. /\ overtaken' \in BOOLEAN /\ crossed' \in BOOLEAN /\ stale' \in BOOLEAN
        /\ disturbed' \in BOOLEAN /\ hasRuntime' \in BOOLEAN
    BY <2>2, <2>3
  <2>. QED  BY <2>1, <2>2, <2>3, <2>4, <2>5, <2>6
<1>7. ASSUME Exit PROVE TypeOK'
  BY <1>0, <1>7 DEF Exit
<1>. QED  BY <1>1, <1>2, <1>3, <1>4, <1>5, <1>6, <1>7 DEF User

LEMMA GuiThreadType == ASSUME TypeOK, GuiThread PROVE TypeOK'
<1>. USE DEF BeginWrite, Return, Proceed, GuiUnchanged, TypeOK, contextVars, rdVars,
             emVars, history
<1>1. ASSUME GuiWrite PROVE TypeOK'
  <2>1. toEm' \in ToEmMessages /\ asked' \in Nat
    BY <1>1, PutFacts DEF GuiWrite
  <2>. QED  BY <1>1, <2>1 DEF GuiWrite
<1>2. ASSUME GuiStarting PROVE TypeOK'
  BY <1>2 DEF GuiStarting
<1>3. ASSUME RunKernel PROVE TypeOK'
  BY <1>3 DEF RunKernel
<1>4. ASSUME ExitClose PROVE TypeOK'
  BY <1>4 DEF ExitClose
<1>5. ASSUME ExitDone PROVE TypeOK'
  BY <1>5 DEF ExitDone
<1>6. ASSUME SelectContext PROVE TypeOK'
  <2>1. context' \in Contexts /\ picked' = None /\ gui' # "select"
    BY <1>6 DEF SelectContext
  <2>2. Request(context') \in GuiMessages /\ Request(context') # None
    BY <2>1, GuiMessageFacts, NoneIsNoMessage DEF Asks
  <2>3. guiMsg' \in GuiMessages \cup {None} /\ (gui' = "write" <=> guiMsg' # None)
    BY <1>6, <2>2 DEF SelectContext
  <2>. QED  BY <1>6, <2>1, <2>3 DEF SelectContext
<1>. QED  BY <1>1, <1>2, <1>3, <1>4, <1>5, <1>6 DEF GuiThread

LEMMA ReaderType == ASSUME TypeOK, ReaderThread PROVE TypeOK'
<1>. USE NoneIsNoMessage, ReportFacts
     DEF Handling, Handled, ShowUi, TypeOK, guiVars, contextVars, emVars, history
<1>1. ASSUME ReaderTake \/ ReaderLeaves PROVE TypeOK'
  BY <1>1 DEF ReaderTake, ReaderLeaves
<1>2. ASSUME ReaderShowsEnd PROVE TypeOK'
  <2>1. ui' \in {"stopped", "exception"} /\ overtaken' \in BOOLEAN
    BY <1>2 DEF ReaderShowsEnd
  <2>. QED  BY <1>2, <2>1 DEF ReaderShowsEnd
<1>6. ASSUME ReaderShowsPause PROVE TypeOK'
  BY <1>6 DEF ReaderShowsPause
<1>3. ASSUME ReaderShowsAnswer PROVE TypeOK'
  <2>1. rdMsg \in Answers
    BY <1>3 DEF ReaderShowsAnswer
  <2>2. registers' \in Contexts /\ answered' \in Nat
    BY <1>3, <2>1 DEF ReaderShowsAnswer, Asks
  <2>. QED  BY <1>3, <2>2 DEF ReaderShowsAnswer
<1>4. ASSUME ReaderSetsContext PROVE TypeOK'
  <2>1. rdMsg \in Pauses
    BY <1>4 DEF ReaderSetsContext
  <2>2. context' \in Contexts
    BY <1>4, <2>1, SessionAssumption DEF ReaderSetsContext, PauseContext, Contexts
  <2>3. crossed' \in BOOLEAN /\ stale' \in BOOLEAN
    BY <1>4 DEF ReaderSetsContext
  <2>. QED  BY <1>4, <2>1, <2>2, <2>3 DEF ReaderSetsContext
<1>5. ASSUME ReaderRequests PROVE TypeOK'
  <2>1. PauseContext(rdMsg.addr) \in Asks
    BY <1>5, SessionAssumption DEF ReaderRequests, PauseContext, Asks, Contexts
  <2>2. toEm' \in ToEmMessages \cup {None} /\ asked' \in Nat
    BY <1>5, <2>1, GuiMessageFacts, PutFacts DEF ReaderRequests
  <2>. QED  BY <1>5, <2>2 DEF ReaderRequests
<1>. QED  BY <1>1, <1>2, <1>3, <1>4, <1>5, <1>6 DEF ReaderThread

LEMMA EmulatorType == ASSUME TypeOK, EmulatorThread PROVE TypeOK'
<1>. USE DEF TypeOK, EmUnchanged, guiVars, rdVars, contextVars, history, Terminal
<1>0. None \notin Addresses /\ None \notin Answers
  BY SessionAssumption, NoneIsNoMessage
<1>1. ASSUME EmStart PROVE TypeOK'
  BY <1>0, <1>1 DEF EmStart
<1>2. ASSUME EmInstruction PROVE TypeOK'
  BY <1>2 DEF EmInstruction
<1>9. ASSUME EmResumed PROVE TypeOK'
  BY <1>9 DEF EmResumed
<1>3. ASSUME EmTellPause PROVE TypeOK'
  <2>1. [type |-> "onPause", addr |-> at] \in Reports
    BY <1>3, ReportFacts DEF EmTellPause
  <2>. QED  BY <1>3, <2>1 DEF EmTellPause, Tell, ReaderHasPause
<1>4. ASSUME EmTake PROVE TypeOK'
  <2>1. toEm \in ToEmMessages
    BY <1>4 DEF EmTake
  <2>2. /\ bps' \subseteq Addresses
        /\ mode' \in {"RUN", "STEP", "PAUSE", "STOP", "EXC"}
    BY <1>4, <2>1, ToEmFacts DEF EmTake, Process
  <2>3. answer' \in Answers \cup {None} /\ (em' = "answer" <=> answer' # None)
        /\ em' \in {"wait", "drain", "answer"}
    BY <1>0, <1>4, <2>1, ToEmFacts DEF EmTake, Process
  <2>. QED  BY <1>4, <2>2, <2>3 DEF EmTake
<1>5. ASSUME EmAnswer PROVE TypeOK'
  BY <1>0, <1>5 DEF EmAnswer, Tell, ReaderHasPause
<1>6. ASSUME EmExecute PROVE TypeOK'
  BY <1>0, <1>6 DEF EmExecute
<1>7. ASSUME EmTellException PROVE TypeOK'
  BY <1>0, <1>7, ReportFacts DEF EmTellException, Tell, ReaderHasPause
<1>8. ASSUME EmFinish PROVE TypeOK'
  BY <1>8, ReportFacts DEF EmFinish, Tell, ReaderHasPause
<1>. QED
  BY <1>1, <1>2, <1>3, <1>4, <1>5, <1>6, <1>7, <1>8, <1>9 DEF EmulatorThread

LEMMA InitType == ASSUME Init PROVE TypeOK
<1>1. context \in Contexts /\ registers \in Contexts
  BY SessionAssumption DEF Init, Contexts
<1>2. clicks \in 0 .. MaxClicks
  BY SessionAssumption DEF Init
<1>. QED  BY <1>1, <1>2 DEF Init, TypeOK

LEMMA TypeStep == ASSUME TypeOK, [Next]_vars PROVE TypeOK'
<1>1. CASE UNCHANGED vars
  BY <1>1 DEF vars, guiVars, rdVars, contextVars, emVars, history, TypeOK
<1>. QED
  BY <1>1, UserType, GuiThreadType, ReaderType, EmulatorType DEF Next

(* Every variable keeps its type. *)
THEOREM TypeCorrect == Spec => []TypeOK
<1>. QED  BY InitType, TypeStep, PTL DEF Spec

-----------------------------------------------------------------------------
(* Modes. *)

LEMMA ModeStep == ASSUME TypeOK, ModeInv, [Next]_vars PROVE ModeInv'
<1>. USE DEF ModeInv, TypeOK, Terminal
<1>1. ASSUME NEW a \in Addresses, Toggle(a) PROVE ModeInv'
  BY <1>1 DEF Toggle, Click, BeginWrite, Return, GuiUnchanged, emVars, rdVars, contextVars
<1>2. ASSUME NEW w \in Wavefronts, PickContext(w) PROVE ModeInv'
  BY <1>2 DEF PickContext, Click, Proceed, GuiUnchanged, emVars, rdVars
<1>17. ASSUME SelectContext PROVE ModeInv'
  BY <1>17 DEF SelectContext, BeginWrite, Return, GuiUnchanged, emVars, rdVars
<1>3. ASSUME RequestMemory PROVE ModeInv'
  BY <1>3 DEF RequestMemory, Click, BeginWrite, Return, GuiUnchanged, emVars, rdVars, contextVars
<1>4. ASSUME NEW s \in BOOLEAN, Resume(s) \/ Stop PROVE ModeInv'
  <2>1. hasRuntime' /\ UNCHANGED <<em, mode, closed>> /\ closed = {}
    BY <1>4 DEF Resume, Stop, Click, GuiUnchanged, emVars
  <2>. QED  BY <2>1
<1>5. ASSUME Attach PROVE ModeInv'
  BY <1>5 DEF Attach, Click, Proceed, emVars
<1>6. ASSUME Exit PROVE ModeInv'
  BY <1>6 DEF Exit, Click, Proceed, GuiUnchanged, emVars, rdVars, contextVars
<1>7. ASSUME GuiWrite PROVE ModeInv'
  BY <1>7 DEF GuiWrite, Proceed, emVars, rdVars, contextVars
<1>8. ASSUME GuiStarting PROVE ModeInv'
  BY <1>8 DEF GuiStarting, Return, GuiUnchanged, emVars, rdVars, contextVars
<1>9. ASSUME RunKernel PROVE ModeInv'
  BY <1>9 DEF RunKernel, Return, rdVars, contextVars
<1>10. ASSUME ExitClose PROVE ModeInv'
  BY <1>10 DEF ExitClose, Proceed, emVars, rdVars, contextVars
<1>11. ASSUME ExitDone PROVE ModeInv'
  BY <1>11 DEF ExitDone, Proceed, GuiUnchanged, emVars, rdVars, contextVars
<1>12. ASSUME ReaderThread PROVE ModeInv'
  <2>1. UNCHANGED <<em, mode, closed, gui, guiMsg, hasRuntime>>
    BY <1>12 DEF ReaderThread, ReaderTake, ReaderShowsEnd, ReaderShowsAnswer,
       ReaderSetsContext, ReaderRequests, ReaderShowsPause, ReaderLeaves, guiVars, emVars
  <2>2. CASE rdMsg # None \/ toUi # None
    BY <2>1, <2>2
  <2>3. CASE rdMsg = None /\ toUi = None
    <3>1. ReaderLeaves
      BY <1>12, <2>3 DEF ReaderThread, ReaderTake, ReaderShowsEnd, ReaderShowsAnswer,
         ReaderSetsContext, ReaderRequests, ReaderShowsPause, Handling
    <3>. QED  BY <2>1, <3>1 DEF ReaderLeaves, guiVars, contextVars
  <2>. QED  BY <2>2, <2>3
<1>13. ASSUME EmStart \/ EmInstruction \/ EmResumed \/ EmExecute PROVE ModeInv'
  BY <1>13 DEF EmStart, EmInstruction, EmResumed, EmExecute, EmUnchanged, guiVars, rdVars,
     contextVars
<1>14. ASSUME EmTake PROVE ModeInv'
  BY <1>14 DEF EmTake, Process, EmUnchanged, guiVars, rdVars, contextVars
<1>15. ASSUME EmTellPause \/ EmTellException \/ EmAnswer \/ EmFinish PROVE ModeInv'
  BY <1>15 DEF EmTellPause, EmTellException, EmAnswer, EmFinish, Tell, EmUnchanged, guiVars,
     rdVars, contextVars
<1>16. CASE UNCHANGED vars
  BY <1>16 DEF vars, guiVars, rdVars, contextVars, emVars
<1>. QED
  BY <1>1, <1>2, <1>3, <1>4, <1>5, <1>6, <1>7, <1>8, <1>9, <1>10, <1>11, <1>12, <1>13,
     <1>14, <1>15, <1>16, <1>17
     DEF Next, User, GuiThread, EmulatorThread

-----------------------------------------------------------------------------
(* Requests. *)

LEMMA OneFacts ==
  /\ \A m : One(m) \in {0, 1} /\ (IsRequest(m) => One(m) = 1) /\ (~IsRequest(m) => One(m) = 0)
  /\ ~IsRequest(None)
  /\ \A m \in Reports : ~IsRequest(m)
  /\ \A m \in Answers : IsRequest(m)
<1>1. \A m : One(m) \in {0, 1} /\ (IsRequest(m) => One(m) = 1) /\ (~IsRequest(m) => One(m) = 0)
  BY DEF One
<1>. QED  BY <1>1, ReportFacts, NoneIsNoMessage DEF IsRequest

(* Only these actions touch a request or its number. *)
LEMMA OrderFrame ==
  ASSUME [Next]_vars
  PROVE  \/ UNCHANGED <<toEm, answer, toUi, rdMsg, asked, answered>>
         \/ GuiWrite \/ ReaderTake \/ ReaderShowsEnd \/ ReaderShowsAnswer \/ ReaderRequests
         \/ ReaderShowsPause \/ EmTellPause \/ EmTake \/ EmAnswer \/ EmTellException \/ EmFinish
<1>1. ASSUME User PROVE UNCHANGED <<toEm, answer, toUi, rdMsg, asked, answered>>
  BY <1>1 DEF User, Toggle, PickContext, RequestMemory, Resume, Stop, Attach, Exit,
     GuiUnchanged, rdVars, emVars, history
<1>2. ASSUME SelectContext \/ GuiStarting \/ RunKernel \/ ExitClose \/ ExitDone
      PROVE  UNCHANGED <<toEm, answer, toUi, rdMsg, asked, answered>>
  BY <1>2 DEF SelectContext, GuiStarting, RunKernel, ExitClose, ExitDone, GuiUnchanged, rdVars,
     emVars, history
<1>3. ASSUME ReaderSetsContext \/ ReaderLeaves
      PROVE  UNCHANGED <<toEm, answer, toUi, rdMsg, asked, answered>>
  BY <1>3 DEF ReaderSetsContext, ReaderLeaves, emVars, history
<1>4. ASSUME EmStart \/ EmInstruction \/ EmResumed \/ EmExecute
      PROVE  UNCHANGED <<toEm, answer, toUi, rdMsg, asked, answered>>
  BY <1>4 DEF EmStart, EmInstruction, EmResumed, EmExecute, EmUnchanged, rdVars, history
<1>5. CASE UNCHANGED vars
  BY <1>5 DEF vars, rdVars, emVars, history
<1>. QED
  BY <1>1, <1>2, <1>3, <1>4, <1>5 DEF Next, GuiThread, ReaderThread, EmulatorThread

LEMMA OrderStep == ASSUME TypeOK, OrderInv, [Next]_vars PROVE OrderInv'
<1>. USE OneFacts, NoneIsNoMessage DEF OrderInv
<1>0. asked \in Nat /\ answered \in Nat
  BY DEF TypeOK
<1>1. CASE UNCHANGED <<toEm, answer, toUi, rdMsg, asked, answered>>
  BY <1>1 DEF One, IsRequest
<1>2. ASSUME NEW m \in GuiMessages, toEm = None, PutToEm(m),
             UNCHANGED <<answer, toUi, rdMsg, answered>>
      PROVE  OrderInv'
  <2>1. /\ m.type = "request" =>
             IsRequest(toEm') /\ toEm'.id = asked + 1 /\ asked' = asked + 1
        /\ m.type # "request" => ~IsRequest(toEm') /\ asked' = asked
    <3>1. /\ toEm' \in ToEmMessages /\ toEm' # None
          /\ toEm'.type = m.type /\ m.type # "answer"
      BY <1>0, <1>2, PutFacts, ToEmFacts
    <3>. QED  BY <1>0, <1>2, <3>1, PutFacts DEF IsRequest
  <2>. QED  BY <1>0, <1>2, <2>1 DEF One, IsRequest
<1>3. CASE GuiWrite
  BY <1>2, <1>3 DEF GuiWrite, TypeOK, rdVars, emVars
<1>4. CASE ReaderRequests
  <2>1. Request(PauseContext(rdMsg.addr)) \in GuiMessages
    BY <1>4, GuiMessageFacts, ReportFacts, SessionAssumption
       DEF ReaderRequests, TypeOK, PauseContext, Asks, Contexts
  <2>. QED  BY <1>0, <1>1, <1>2, <1>4, <2>1 DEF ReaderRequests, emVars
<1>5. CASE ReaderTake
  <2>1. rdMsg = None /\ rdMsg' = toUi /\ toUi' = None
        /\ UNCHANGED <<toEm, answer, asked, answered>>
    BY <1>5 DEF ReaderTake, TypeOK, emVars, history
  <2>. QED  BY <1>0, <2>1 DEF One, IsRequest
<1>6. CASE ReaderShowsEnd \/ ReaderShowsPause
  <2>1. ~IsRequest(rdMsg) /\ rdMsg' = None /\ UNCHANGED <<toEm, answer, toUi, asked, answered>>
    BY <1>6, ReportFacts
       DEF ReaderShowsEnd, ReaderShowsPause, Handling, Handled, TypeOK, IsRequest, emVars
  <2>. QED  BY <1>0, <2>1 DEF One, IsRequest
<1>7. CASE ReaderShowsAnswer
  <2>1. /\ IsRequest(rdMsg) /\ rdMsg' = None /\ answered' = rdMsg.id
        /\ UNCHANGED <<toEm, answer, toUi, asked>>
    BY <1>7, ReportFacts DEF ReaderShowsAnswer, Handling, Handled, TypeOK, IsRequest, emVars
  <2>. QED  BY <1>0, <2>1 DEF One, IsRequest
<1>8. ASSUME NEW m \in Reports, toUi = None, toUi' = m,
             UNCHANGED <<toEm, answer, rdMsg, asked, answered>>
      PROVE  OrderInv'
  BY <1>0, <1>8 DEF One, IsRequest
<1>9. CASE EmTellPause \/ EmTellException \/ EmFinish
  <2>1. EmTellPause => [type |-> "onPause", addr |-> at] \in Reports
    BY ReportFacts DEF EmTellPause, TypeOK
  <2>. QED
    BY <1>1, <1>8, <1>9, <2>1, ReportFacts
       DEF EmTellPause, EmTellException, EmFinish, Tell, EmUnchanged, rdVars, history
<1>10. CASE EmTake
  <2>1. /\ toEm \in ToEmMessages /\ answer = None /\ toEm' = None
        /\ UNCHANGED <<toUi, rdMsg, asked, answered>>
    BY <1>10 DEF EmTake, EmUnchanged, TypeOK, rdVars
  <2>2. CASE toEm.type = "request"
    <3>1. answer' = Answer(toEm) /\ IsRequest(toEm)
      BY <1>10, <2>1, <2>2 DEF EmTake, Process, IsRequest
    <3>2. IsRequest(answer') /\ answer'.id = toEm.id
      BY <2>1, <2>2, <3>1, ToEmFacts DEF Answer
    <3>. QED  BY <1>0, <2>1, <3>1, <3>2 DEF One, IsRequest
  <2>3. CASE toEm.type # "request"
    <3>1. answer' = None /\ ~IsRequest(toEm)
      BY <1>10, <2>1, <2>3, ToEmFacts DEF EmTake, Process, IsRequest
    <3>. QED  BY <1>0, <2>1, <3>1 DEF One, IsRequest
  <2>. QED  BY <2>2, <2>3
<1>11. CASE EmAnswer
  <2>1. /\ answer \in Answers /\ toUi = None /\ toUi' = answer /\ answer' = None
        /\ UNCHANGED <<toEm, rdMsg, asked, answered>>
    BY <1>11 DEF EmAnswer, Tell, EmUnchanged, TypeOK, rdVars
  <2>. QED  BY <1>0, <2>1 DEF One, IsRequest
<1>. QED
  BY <1>1, <1>3, <1>4, <1>5, <1>6, <1>7, <1>9, <1>10, <1>11, OrderFrame

(* What is in flight is in order, hence the requests not yet answered. *)
LEMMA OrderAccounts == ASSUME TypeOK, OrderInv PROVE RequestsAccounted
<1>1. \A n : n \in InFlight <=>
        \E m \in {toEm, answer, toUi, rdMsg} : IsRequest(m) /\ n = m.id
  BY DEF InFlight
<1>2. asked \in Nat /\ answered \in Nat
  BY DEF TypeOK
<1>3. ASSUME NEW n \in InFlight PROVE n \in answered + 1 .. asked
  <2>1. PICK m \in {toEm, answer, toUi, rdMsg} : IsRequest(m) /\ n = m.id
    BY <1>1
  <2>2. CASE m = toEm
    BY <1>2, <2>1, <2>2, OneFacts DEF OrderInv
  <2>3. CASE m = answer
    BY <1>2, <2>1, <2>3, OneFacts DEF OrderInv
  <2>4. CASE m = toUi
    BY <1>2, <2>1, <2>4, OneFacts DEF OrderInv
  <2>5. CASE m = rdMsg
    BY <1>2, <2>1, <2>5, OneFacts DEF OrderInv
  <2>. QED  BY <2>1, <2>2, <2>3, <2>4, <2>5
<1>4. ASSUME NEW n \in answered + 1 .. asked PROVE n \in InFlight
  <2>1. PICK r, u, a : /\ r = answered + One(rdMsg)
                       /\ u = r + One(toUi)
                       /\ a = u + One(answer)
                       /\ asked = a + One(toEm)
    BY DEF OrderInv
  <2>2. CASE n <= r
    <3>1. IsRequest(rdMsg) /\ n = rdMsg.id
      BY <1>2, <2>1, <2>2, OneFacts DEF OrderInv
    <3>. QED  BY <1>1, <3>1
  <2>3. CASE r < n /\ n <= u
    <3>1. IsRequest(toUi) /\ n = toUi.id
      BY <1>2, <2>1, <2>3, OneFacts DEF OrderInv
    <3>. QED  BY <1>1, <3>1
  <2>4. CASE u < n /\ n <= a
    <3>1. IsRequest(answer) /\ n = answer.id
      BY <1>2, <2>1, <2>4, OneFacts DEF OrderInv
    <3>. QED  BY <1>1, <3>1
  <2>5. CASE a < n
    <3>1. IsRequest(toEm) /\ n = toEm.id
      BY <1>2, <2>1, <2>5, OneFacts DEF OrderInv
    <3>. QED  BY <1>1, <3>1
  <2>. QED  BY <1>2, <2>1, <2>2, <2>3, <2>4, <2>5, OneFacts
<1>. QED  BY <1>3, <1>4 DEF RequestsAccounted

-----------------------------------------------------------------------------
(* Breakpoints. *)

(* A message that toggles a settles whether a is in the set, whatever      *)
(* the message before it said of the rest.                                 *)
LEMMA ToggleApplied ==
  ASSUME NEW a \in Addresses, NEW b, NEW c, NEW e, NEW m, b \subseteq Addresses,
         m = [type |-> "breakpoint", addr |-> a, remove |-> a \in b],
         c = IF a \in b THEN b \ {a} ELSE b \cup {a}
  PROVE  /\ Apply(m, b) = c
         /\ Apply(e, b) = b => Apply(m, Apply(e, c)) = c
<1>1. m # None
  <2>1. m \in GuiMessages
    BY (a \in b) \in BOOLEAN, GuiMessageFacts
  <2>. QED  BY <2>1, NoneIsNoMessage
<1>2. \A s : Apply(m, s) = IF a \in b THEN s \ {a} ELSE s \cup {a}
  BY <1>1 DEF Apply
<1>3. ASSUME Apply(e, b) = b PROVE Apply(m, Apply(e, c)) = c
  <2>1. CASE e = None \/ e.type # "breakpoint"
    BY <1>2, <2>1 DEF Apply
  <2>2. CASE ~(e = None \/ e.type # "breakpoint") /\ e.remove
    BY <1>2, <1>3, <2>2 DEF Apply
  <2>3. CASE ~(e = None \/ e.type # "breakpoint") /\ ~e.remove
    BY <1>2, <1>3, <2>3 DEF Apply
  <2>. QED  BY <2>1, <2>2, <2>3
<1>. QED  BY <1>2, <1>3

LEMMA ApplyNothing ==
  /\ \A b : Apply(None, b) = b
  /\ \A m, b : m.type # "breakpoint" => Apply(m, b) = b
  BY DEF Apply

(* Only these actions touch the breakpoints and what is said of them. *)
LEMMA BreakpointsFrame ==
  ASSUME TypeOK, [Next]_vars
  PROVE  \/ \E a \in Addresses : Toggle(a)
         \/ GuiWrite \/ ReaderRequests \/ EmStart \/ EmTake
         \/ /\ UNCHANGED <<breakpoints, toEm, bps>>
            /\ \A b : Apply(guiMsg', b) = Apply(guiMsg, b)
            /\ em \in {"none", "starting", "done"} => em' \in {"none", "starting", "done"}
            /\ mode \in Terminal => mode' \in Terminal
<1>. USE ApplyNothing DEF TypeOK
<1>1. ASSUME \/ \E w \in Wavefronts : PickContext(w)
             \/ \E s \in BOOLEAN : Resume(s)
             \/ RequestMemory \/ Stop \/ Attach \/ Exit \/ SelectContext
      PROVE  /\ UNCHANGED <<breakpoints, toEm, bps, em, mode>>
             /\ guiMsg = None /\ (guiMsg' = None \/ guiMsg'.type # "breakpoint")
  BY <1>1 DEF PickContext, SelectContext, RequestMemory, Resume, Stop, Attach, Exit, Click, BeginWrite,
     Return, Proceed, GuiUnchanged, emVars, Request, StopMsg
<1>2. ASSUME GuiStarting \/ RunKernel \/ ExitClose \/ ExitDone
      PROVE  /\ UNCHANGED <<breakpoints, toEm, bps, mode>>
             /\ guiMsg = None /\ guiMsg' = None
             /\ em' = em \/ em' = "starting"
  BY <1>2 DEF GuiStarting, RunKernel, ExitClose, ExitDone, Return, Proceed, GuiUnchanged, emVars
<1>3. ASSUME \/ ReaderTake \/ ReaderShowsEnd \/ ReaderShowsAnswer \/ ReaderSetsContext
             \/ ReaderShowsPause \/ ReaderLeaves
      PROVE  UNCHANGED <<breakpoints, toEm, bps, em, mode, guiMsg>>
  BY <1>3 DEF ReaderTake, ReaderShowsEnd, ReaderShowsAnswer, ReaderSetsContext,
     ReaderShowsPause, ReaderLeaves, guiVars, emVars
<1>4. ASSUME \/ EmInstruction \/ EmTellPause \/ EmAnswer \/ EmResumed \/ EmExecute
             \/ EmTellException \/ EmFinish
      PROVE  /\ UNCHANGED <<breakpoints, toEm, bps, guiMsg>>
             /\ em \notin {"none", "starting", "done"}
             /\ mode \in Terminal => mode' \in Terminal
  BY <1>4 DEF EmInstruction, EmTellPause, EmAnswer, EmResumed, EmExecute, EmTellException,
     EmFinish, Tell, EmUnchanged, guiVars, Terminal
<1>5. CASE UNCHANGED vars
  BY <1>5 DEF vars, guiVars, emVars
<1>. QED
  BY <1>1, <1>2, <1>3, <1>4, <1>5 DEF Next, User, GuiThread, ReaderThread, EmulatorThread

LEMMA BreakpointsStep ==
  ASSUME TypeOK, ModeInv, FixedPoint, BreakpointsAgree, [Next]_vars
  PROVE  FixedPoint' /\ BreakpointsAgree'
<1>. USE ApplyNothing DEF FixedPoint, BreakpointsAgree
<1>1. ASSUME NEW a \in Addresses, Toggle(a) PROVE FixedPoint' /\ BreakpointsAgree'
  <2>1. guiMsg = None /\ Apply(toEm, breakpoints) = breakpoints
    BY <1>1 DEF Toggle, Click, TypeOK
  <2>2. UNCHANGED <<toEm, bps, em, mode>>
    BY <1>1 DEF Toggle, GuiUnchanged, emVars
  <2>3. CASE hasRuntime
    <3>1. /\ guiMsg' = [type |-> "breakpoint", addr |-> a, remove |-> a \in breakpoints]
          /\ breakpoints' = IF a \in breakpoints THEN breakpoints \ {a}
                            ELSE breakpoints \cup {a}
          /\ breakpoints \subseteq Addresses
      BY <1>1, <2>3 DEF Toggle, BeginWrite, TypeOK
    <3>2. /\ Apply(guiMsg', breakpoints) = breakpoints'
          /\ Apply(guiMsg', Apply(toEm, breakpoints')) = breakpoints'
      BY <2>1, <3>1, ToggleApplied
    <3>. QED  BY <2>1, <2>2, <3>2
  <2>4. CASE ~hasRuntime
    BY <1>1, <2>2, <2>4 DEF Toggle, Return, ModeInv
  <2>. QED  BY <2>3, <2>4
<1>2. CASE GuiWrite
  <2>1. toEm = None /\ guiMsg' = None /\ UNCHANGED <<breakpoints, bps, em, mode>>
    BY <1>2 DEF GuiWrite, Proceed, emVars
  <2>2. \A b : Apply(toEm', b) = Apply(guiMsg, b)
    <3>1. toEm'.type = guiMsg.type /\ (guiMsg.type # "request" => toEm' = guiMsg)
      BY <1>2, PutFacts DEF GuiWrite, TypeOK
    <3>. QED  BY <3>1
  <2>. QED  BY <2>1, <2>2
<1>3. CASE ReaderRequests
  <2>1. UNCHANGED <<guiMsg, breakpoints, bps, em, mode>>
    BY <1>3 DEF ReaderRequests, guiVars, emVars
  <2>2. \A b : Apply(toEm', b) = Apply(toEm, b)
    <3>1. CASE toEm = None /\ PutToEm(Request(PauseContext(rdMsg.addr)))
      <4>1. toEm'.type = "request"
        BY <3>1 DEF PutToEm, Request
      <4>. QED  BY <3>1, <4>1
    <3>2. CASE toEm' = toEm
      BY <3>2
    <3>. QED  BY <1>3, <3>1, <3>2 DEF ReaderRequests
  <2>. QED  BY <2>1, <2>2
<1>4. CASE EmStart
  BY <1>4 DEF EmStart, EmUnchanged, guiVars
<1>5. CASE EmTake
  <2>1. toEm' = None /\ UNCHANGED <<guiMsg, breakpoints>>
    BY <1>5 DEF EmTake, EmUnchanged, guiVars
  <2>2. Apply(guiMsg, Apply(guiMsg, Apply(toEm, breakpoints))) =
          Apply(guiMsg, Apply(toEm, breakpoints))
    BY DEF Apply
  <2>3. FixedPoint'
    BY <2>1, <2>2
  <2>4. mode \notin Terminal => bps' = Apply(toEm, bps)
    BY <1>5 DEF EmTake, Process, Apply
  <2>5. mode \in Terminal => mode' \in Terminal
    BY <1>5 DEF EmTake, Process, Terminal
  <2>6. em \notin {"none", "starting", "done"}
    BY <1>5 DEF EmTake
  <2>. QED  BY <2>1, <2>3, <2>4, <2>5, <2>6
<1>6. CASE /\ UNCHANGED <<breakpoints, toEm, bps>>
           /\ \A b : Apply(guiMsg', b) = Apply(guiMsg, b)
           /\ em \in {"none", "starting", "done"} => em' \in {"none", "starting", "done"}
           /\ mode \in Terminal => mode' \in Terminal
  BY <1>6
<1>. QED  BY <1>1, <1>2, <1>3, <1>4, <1>5, <1>6, BreakpointsFrame

(* A run that ended stays ended until the next one starts. *)
LEMMA EndStep ==
  ASSUME TypeOK, ModeInv, [Next]_vars, em # "starting", mode \in Terminal
  PROVE  mode' \in Terminal /\ em' # "tellPause"
<1>1. em # "tellPause"
  BY DEF ModeInv, Terminal
<1>2. CASE EmulatorThread
  BY <1>1, <1>2 DEF EmulatorThread, EmStart, EmInstruction, EmTellPause, EmTake, Process, EmAnswer,
     EmResumed, EmExecute, EmTellException, EmFinish, Tell, Terminal
<1>3. CASE ReaderThread
  BY <1>1, <1>3 DEF ReaderThread, ReaderTake, ReaderShowsEnd, ReaderShowsAnswer, ReaderSetsContext,
     ReaderRequests, ReaderShowsPause, ReaderLeaves, emVars
<1>4. CASE GuiThread
  BY <1>1, <1>4 DEF GuiThread, SelectContext, GuiWrite, GuiStarting, RunKernel, ExitClose,
     ExitDone, GuiUnchanged, emVars
<1>5. CASE User
  BY <1>1, <1>5 DEF User, Toggle, PickContext, RequestMemory, Resume, Stop, Attach, Exit,
     GuiUnchanged, emVars
<1>6. CASE UNCHANGED vars
  BY <1>1, <1>6 DEF vars, emVars
<1>. QED  BY <1>2, <1>3, <1>4, <1>5, <1>6 DEF Next

-----------------------------------------------------------------------------
(* Pauses that nobody disturbed. *)

LEMMA UndisturbedStep ==
  ASSUME TypeOK, ModeInv, UndisturbedInv, [Next]_vars PROVE UndisturbedInv'
<1>. USE NoneIsNoMessage, ReportFacts DEF UndisturbedInv, ReaderHasPause
<1>1. CASE UNCHANGED <<disturbed, rdMsg, toUi, em, mode>>
  BY <1>1
<1>2. CASE RunKernel
  BY <1>2 DEF RunKernel, rdVars, history
<1>3. CASE ReaderTake
  BY <1>3 DEF ReaderTake, TypeOK, emVars, history
<1>4. CASE ReaderShowsEnd \/ ReaderShowsAnswer \/ ReaderShowsPause
  BY <1>4 DEF ReaderShowsEnd, ReaderShowsAnswer, ReaderShowsPause, Handled, TypeOK, emVars
<1>5. CASE EmStart \/ EmInstruction \/ EmResumed \/ EmExecute
  BY <1>5 DEF EmStart, EmInstruction, EmResumed, EmExecute, EmUnchanged, rdVars, history
<1>6. CASE EmTake
  BY <1>6 DEF EmTake
<1>7. CASE EmTellPause
  <2>1. /\ disturbed' = (disturbed /\ ReaderHasPause)
        /\ em' = "wait" /\ mode' = "PAUSE" /\ rdMsg' = rdMsg
    BY <1>7 DEF EmTellPause, Tell, EmUnchanged, ModeInv, rdVars
  <2>2. ReaderHasPause => disturbed
    BY <1>7 DEF EmTellPause
  <2>. QED  BY <2>1, <2>2
<1>8. ASSUME NEW m, toUi' = m, m.type # "onPause", em # "wait",
             rdMsg' = rdMsg, disturbed' = (disturbed /\ (m.type # "onPause" \/ ReaderHasPause))
      PROVE  UndisturbedInv'
  BY <1>8
<1>9. CASE EmAnswer \/ EmTellException \/ EmFinish
  <2>1. EmAnswer => answer \in Answers
    BY DEF EmAnswer, TypeOK
  <2>2. CASE em' = "done" /\ UNCHANGED <<toUi, rdMsg, disturbed>> /\ em = "finish"
    BY <2>2
  <2>. QED
    BY <1>8, <1>9, <2>1, <2>2
       DEF EmAnswer, EmTellException, EmFinish, Tell, EmUnchanged, rdVars, history
<1>10. ASSUME User \/ SelectContext \/ GuiWrite \/ GuiStarting \/ ExitClose \/ ExitDone
       PROVE  UNCHANGED <<disturbed, rdMsg, toUi, em, mode>>
  BY <1>10 DEF User, Toggle, PickContext, RequestMemory, Resume, Stop, Attach, Exit,
     SelectContext, GuiWrite, GuiStarting, ExitClose, ExitDone, GuiUnchanged, rdVars, emVars,
     history
<1>11. ASSUME ReaderSetsContext \/ ReaderRequests \/ ReaderLeaves
       PROVE  UNCHANGED <<disturbed, rdMsg, toUi, em, mode>>
  BY <1>11 DEF ReaderSetsContext, ReaderRequests, ReaderLeaves, emVars, history
<1>12. CASE UNCHANGED vars
  BY <1>1, <1>12 DEF vars, rdVars, emVars, history
<1>. QED
  BY <1>1, <1>2, <1>3, <1>4, <1>5, <1>6, <1>7, <1>9, <1>10, <1>11, <1>12
     DEF Next, GuiThread, ReaderThread, EmulatorThread

-----------------------------------------------------------------------------
(* Registers. *)

LEMMA ContextFacts ==
  /\ \A c \in Contexts : c # Memory
  /\ \A m \in Answers \cup Reports \cup ToEmMessages : IsRegisters(m) => m.ctx \in Contexts
  /\ ~IsRegisters(None) /\ \A m \in Reports : ~IsRegisters(m)
<1>1. \A c \in Contexts : c # Memory
  BY NoneAssumption
<1>2. ~IsRegisters(None) /\ \A m \in Reports : ~IsRegisters(m)
  BY OneFacts DEF IsRegisters
<1>3. ASSUME NEW m \in Answers \cup ToEmMessages, IsRegisters(m) PROVE m.ctx \in Contexts
  <2>1. m.ctx \in Asks
    BY <1>3, ReportFacts, ToEmFacts DEF IsRegisters, IsRequest
  <2>. QED  BY <1>3, <2>1 DEF IsRegisters, Asks
<1>. QED  BY <1>1, <1>2, <1>3

LEMMA RegistersGui ==
  ASSUME TypeOK, ModeInv, RegistersInv, User \/ GuiThread PROVE RegistersInv'
<1>. USE NoneIsNoMessage, ContextFacts DEF RegistersInv
<1>1. ASSUME UNCHANGED <<rd, rdMsg, toEm, answer, toUi, registers, context, crossed, closed>>,
             ~GuiAsks, ~GuiAsks'
      PROVE  RegistersInv'
  BY <1>1 DEF Newest, IsRegisters, IsRequest
<1>2. ASSUME \/ \E a \in Addresses : Toggle(a)
             \/ \E s \in BOOLEAN : Resume(s)
             \/ \E w \in Wavefronts : PickContext(w)
             \/ RequestMemory \/ Stop \/ Attach \/ Exit
      PROVE  RegistersInv'
  <2>1. UNCHANGED <<rd, rdMsg, toEm, answer, toUi, registers, context, crossed, closed>>
    BY <1>2 DEF Toggle, Resume, PickContext, RequestMemory, Stop, Attach, Exit, GuiUnchanged,
       rdVars, emVars, contextVars
  <2>2. ~GuiAsks
    BY <1>2 DEF Toggle, Resume, PickContext, RequestMemory, Stop, Attach, Exit, Click, TypeOK, GuiAsks
  <2>3. ~GuiAsks'
    <3>1. CASE RequestMemory
      BY <3>1 DEF RequestMemory, BeginWrite, Return, Request, GuiAsks
    <3>2. CASE Stop
      BY <3>2 DEF Stop, BeginWrite, StopMsg, GuiAsks
    <3>5. CASE Attach \/ Exit
      BY <3>5 DEF Attach, Exit, Proceed, GuiAsks
    <3>3. ASSUME NEW a \in Addresses, Toggle(a) PROVE ~GuiAsks'
      BY <3>3 DEF Toggle, BeginWrite, Return, GuiAsks
    <3>4. ASSUME NEW s \in BOOLEAN, Resume(s) PROVE ~GuiAsks'
      BY <3>4 DEF Resume, BeginWrite, GuiAsks
    <3>6. ASSUME NEW w \in Wavefronts, PickContext(w) PROVE ~GuiAsks'
      BY <3>6 DEF PickContext, Proceed, GuiAsks
    <3>. QED  BY <1>2, <3>1, <3>2, <3>3, <3>4, <3>5, <3>6
  <2>. QED  BY <1>1, <2>1, <2>2, <2>3
<1>3. ASSUME SelectContext PROVE RegistersInv'
  <2>1. context' \in Contexts /\ crossed' = (rd = "request") /\ rd' = rd
    BY <1>3 DEF SelectContext, GuiUnchanged, rdVars, TypeOK
  <2>2. context'[1] # None => guiMsg' = Request(context')
    BY <1>3 DEF SelectContext, BeginWrite, ModeInv
  <2>3. context'[1] # None => GuiAsks' /\ guiMsg'.ctx = context'
    <3>1. Request(context') \in GuiMessages
      BY <2>1, GuiMessageFacts DEF Asks
    <3>. QED  BY <2>1, <2>2, <3>1 DEF GuiAsks, Request
  <2>. QED  BY <2>1, <2>3 DEF Newest
<1>4. ASSUME GuiWrite PROVE RegistersInv'
  <2>1. /\ toEm = None /\ guiMsg' = None /\ guiMsg \in GuiMessages /\ ~GuiAsks'
        /\ UNCHANGED <<rd, rdMsg, answer, toUi, registers, context, crossed, closed>>
    BY <1>4 DEF GuiWrite, Proceed, TypeOK, rdVars, contextVars, emVars, GuiAsks
  <2>2. /\ GuiAsks <=> IsRegisters(toEm')
        /\ GuiAsks => toEm'.ctx = guiMsg.ctx
    <3>1. /\ toEm' \in ToEmMessages /\ toEm'.type = guiMsg.type /\ guiMsg.type # "answer"
          /\ guiMsg.type = "request" => toEm'.ctx = guiMsg.ctx
      BY <1>4, <2>1, PutFacts, ToEmFacts DEF GuiWrite, TypeOK
    <3>. QED  BY <2>1, <3>1 DEF GuiAsks, IsRegisters, IsRequest
  <2>. QED  BY <2>1, <2>2 DEF Newest, IsRegisters, IsRequest
<1>5. ASSUME GuiStarting \/ RunKernel \/ ExitClose \/ ExitDone PROVE RegistersInv'
  <2>1. UNCHANGED <<rd, rdMsg, toEm, answer, toUi, registers, context, crossed>>
    BY <1>5 DEF GuiStarting, RunKernel, ExitClose, ExitDone, GuiUnchanged, rdVars, emVars,
       contextVars
  <2>2. closed' = closed \/ closed' # {}
    BY <1>5 DEF GuiStarting, RunKernel, ExitClose, ExitDone, GuiUnchanged
  <2>3. ~GuiAsks /\ ~GuiAsks'
    BY <1>5 DEF GuiStarting, RunKernel, ExitClose, ExitDone, Return, Proceed, TypeOK, GuiAsks
  <2>. QED  BY <1>1, <2>1, <2>2, <2>3
<1>. QED  BY <1>2, <1>3, <1>4, <1>5 DEF User, GuiThread

LEMMA RegistersReader == ASSUME TypeOK, RegistersInv, ReaderThread PROVE RegistersInv'
<1>. USE NoneIsNoMessage, ContextFacts DEF RegistersInv
<1>0. UNCHANGED <<guiMsg, answer, closed>>
  BY DEF ReaderThread, ReaderTake, ReaderShowsEnd, ReaderShowsAnswer, ReaderSetsContext,
     ReaderRequests, ReaderShowsPause, ReaderLeaves, guiVars, emVars
<1>1. CASE ReaderTake
  <2>1. /\ rd = "idle" /\ rd' = "handle" /\ rdMsg = None /\ rdMsg' = toUi /\ toUi' = None
        /\ UNCHANGED <<toEm, registers, context, crossed>>
    BY <1>1 DEF ReaderTake, TypeOK, contextVars
  <2>. QED  BY <1>0, <2>1 DEF Newest, IsRegisters, IsRequest, GuiAsks
<1>2. CASE ReaderShowsEnd \/ ReaderShowsPause
  <2>1. /\ rd \in {"handle", "pause"} /\ rd' = "idle" /\ ~IsRegisters(rdMsg) /\ rdMsg' = None
        /\ UNCHANGED <<toEm, toUi, registers, context, crossed>>
    BY <1>2, ReportFacts
       DEF ReaderShowsEnd, ReaderShowsPause, Handling, Handled, TypeOK, contextVars
  <2>. QED  BY <1>0, <2>1 DEF Newest, IsRegisters, IsRequest, GuiAsks
<1>3. CASE ReaderShowsAnswer
  <2>1. /\ rd = "handle" /\ rd' = "idle" /\ rdMsg \in Answers /\ rdMsg' = None
        /\ registers' = IF rdMsg.ctx = Memory THEN registers ELSE rdMsg.ctx
        /\ UNCHANGED <<toEm, toUi, context, crossed>>
    BY <1>3, ReportFacts DEF ReaderShowsAnswer, Handling, Handled, TypeOK, contextVars
  <2>2. IsRegisters(rdMsg) <=> rdMsg.ctx # Memory
    BY <2>1, OneFacts DEF IsRegisters
  <2>. QED  BY <1>0, <2>1, <2>2 DEF Newest, IsRegisters, IsRequest, GuiAsks
<1>4. CASE ReaderSetsContext
  <2>1. /\ rd' = "request" /\ rdMsg' = rdMsg /\ context' = PauseContext(rdMsg.addr)
        /\ crossed' = GuiAsks
    BY <1>4 DEF ReaderSetsContext, GuiAsks, TypeOK
  <2>. QED  BY <1>0, <2>1 DEF Newest, GuiAsks
<1>5. CASE ReaderRequests
  <2>1. /\ rd = "request" /\ rd' = "pause" /\ rdMsg \in Pauses
        /\ UNCHANGED <<rdMsg, toUi, registers, context, crossed>>
    BY <1>5 DEF ReaderRequests, TypeOK, contextVars
  <2>2. PauseContext(rdMsg.addr) \in Contexts
    BY <2>1, ReportFacts, SessionAssumption DEF PauseContext, Contexts
  <2>3. closed = {} => IsRegisters(toEm') /\ toEm'.ctx = PauseContext(rdMsg.addr)
    <3>1. Request(PauseContext(rdMsg.addr)) \in GuiMessages
      BY <2>2, GuiMessageFacts DEF Asks
    <3>2. closed = {} => PutToEm(Request(PauseContext(rdMsg.addr)))
      BY <1>5 DEF ReaderRequests
    <3>3. closed = {} => /\ toEm' \in ToEmMessages /\ toEm'.type = "request"
                         /\ toEm'.ctx = PauseContext(rdMsg.addr)
      BY <3>1, <3>2, PutFacts DEF Request, TypeOK
    <3>. QED  BY <2>2, <3>3 DEF IsRegisters, IsRequest
  <2>. QED  BY <1>0, <2>1, <2>3 DEF Newest, GuiAsks
<1>6. CASE ReaderLeaves
  BY <1>0, <1>6 DEF ReaderLeaves, contextVars, Newest, IsRegisters, IsRequest, GuiAsks
<1>. QED  BY <1>1, <1>2, <1>3, <1>4, <1>5, <1>6 DEF ReaderThread

LEMMA RegistersEmulator == ASSUME TypeOK, RegistersInv, EmulatorThread PROVE RegistersInv'
<1>. USE NoneIsNoMessage, ContextFacts DEF RegistersInv
<1>0. UNCHANGED <<rd, rdMsg, guiMsg, registers, context, crossed, closed>>
  BY DEF EmulatorThread, EmStart, EmInstruction, EmTellPause, EmTake, EmAnswer, EmResumed,
     EmExecute, EmTellException, EmFinish, Tell, EmUnchanged, guiVars, rdVars, contextVars
<1>1. CASE EmTake
  <2>1. toEm \in ToEmMessages /\ toEm' = None /\ answer = None /\ toUi' = toUi
    BY <1>1 DEF EmTake, TypeOK
  <2>2. /\ IsRegisters(toEm) <=> IsRegisters(answer')
        /\ IsRegisters(toEm) => answer'.ctx = toEm.ctx
    <3>1. CASE toEm.type = "request"
      <4>1. answer' = Answer(toEm) /\ answer' \in Answers
        BY <1>1, <2>1, <3>1, ToEmFacts DEF EmTake, Process
      <4>2. answer'.ctx = toEm.ctx
        BY <4>1 DEF Answer
      <4>. QED  BY <2>1, <3>1, <4>1, <4>2, OneFacts DEF IsRegisters, IsRequest
    <3>2. CASE toEm.type # "request"
      BY <1>1, <2>1, <3>2, ToEmFacts DEF EmTake, Process, IsRegisters, IsRequest
    <3>. QED  BY <3>1, <3>2
  <2>. QED  BY <1>0, <2>1, <2>2 DEF Newest, IsRegisters, IsRequest, GuiAsks
<1>2. CASE EmAnswer
  <2>1. toUi = None /\ toUi' = answer /\ answer' = None /\ toEm' = toEm
    BY <1>2 DEF EmAnswer, Tell
  <2>. QED  BY <1>0, <2>1 DEF Newest, IsRegisters, IsRequest, GuiAsks
<1>3. CASE UNCHANGED <<toEm, answer, toUi>>
  BY <1>0, <1>3 DEF Newest, IsRegisters, IsRequest, GuiAsks
<1>4. ASSUME toUi = None, ~IsRegisters(toUi'), UNCHANGED <<toEm, answer>>
      PROVE  RegistersInv'
  BY <1>0, <1>4 DEF Newest, IsRegisters, IsRequest, GuiAsks
<1>5. CASE EmTellPause \/ EmTellException \/ EmFinish
  <2>1. EmTellPause => [type |-> "onPause", addr |-> at] \in Reports
    BY ReportFacts DEF EmTellPause, TypeOK
  <2>. QED
    BY <1>3, <1>4, <1>5, <2>1, ReportFacts DEF EmTellPause, EmTellException, EmFinish, Tell
<1>6. CASE EmStart \/ EmInstruction \/ EmResumed \/ EmExecute
  BY <1>3, <1>6 DEF EmStart, EmInstruction, EmResumed, EmExecute
<1>. QED  BY <1>1, <1>2, <1>5, <1>6 DEF EmulatorThread

-----------------------------------------------------------------------------
(* What the UI shows. *)

(* A report is taken out of the slot and shown; nothing else touches it    *)
(* but the emulator.                                                       *)
LEMMA PendingFacts ==
  ASSUME TypeOK
  PROVE  /\ ReaderTake => Pending' = Pending
         /\ ReaderShowsAnswer => Pending' = Pending
         /\ ReaderShowsEnd \/ ReaderShowsPause =>
              \/ toUi \in Reports /\ Pending = toUi /\ Pending' = toUi
              \/ Pending = rdMsg /\ Pending' = None
         /\ UNCHANGED <<toUi, rdMsg>> => Pending' = Pending
<1>. USE NoneIsNoMessage, ReportFacts DEF Pending, TypeOK
<1>1. ASSUME ReaderTake PROVE Pending' = Pending
  BY <1>1 DEF ReaderTake
<1>2. ASSUME ReaderShowsAnswer PROVE Pending' = Pending
  <2>1. rdMsg \notin Reports /\ rdMsg' = None /\ toUi' = toUi
    BY <1>2 DEF ReaderShowsAnswer, Handling, Handled
  <2>. QED  BY <2>1
<1>3. ASSUME ReaderShowsEnd \/ ReaderShowsPause
      PROVE  \/ toUi \in Reports /\ Pending = toUi /\ Pending' = toUi
             \/ Pending = rdMsg /\ Pending' = None
  <2>1. rdMsg \in Reports /\ rdMsg' = None /\ toUi' = toUi
    BY <1>3 DEF ReaderShowsEnd, ReaderShowsPause, Handling, Handled
  <2>. QED  BY <2>1
<1>. QED  BY <1>1, <1>2, <1>3

(* What the user and the GUI thread do to what the UI shows. *)
LEMMA GuiFacts ==
  ASSUME TypeOK, User \/ GuiThread
  PROVE  /\ UNCHANGED <<toUi, rdMsg, mode>>
         /\ em' = em \/ em' = "starting"
         /\ \/ /\ UNCHANGED <<ui, overtaken, toEm>> /\ gui' # "starting"
               /\ Resuming' => ui = "paused"
               /\ gui # "join" \/ em' = "starting"
            \/ /\ UNCHANGED <<ui, overtaken>> /\ gui = "write" /\ toEm = None
               /\ Resuming' <=> Resuming
               /\ gui' = "starting" => IsRun(toEm')
            \/ /\ gui = "starting" /\ gui' # "starting"
               /\ ui' = "running" /\ UNCHANGED <<overtaken, toEm>>
            \/ /\ gui' = "join" /\ ui \in {"stopped", "exception"} /\ toEm' = toEm
<1>. USE DEF TypeOK, Resuming, IsRun
<1>1. UNCHANGED <<toUi, rdMsg, mode>> /\ (em' = em \/ em' = "starting")
  BY DEF User, GuiThread, Toggle, PickContext, RequestMemory, Resume, Stop, Attach, Exit,
     SelectContext, GuiWrite, GuiStarting, RunKernel, ExitClose, ExitDone, GuiUnchanged,
     rdVars, emVars
<1>2. ASSUME User, ~Attach
      PROVE  /\ UNCHANGED <<ui, overtaken, toEm>> /\ gui' # "starting"
             /\ Resuming' => ui = "paused"
             /\ gui # "join"
  <2>1. /\ UNCHANGED <<ui, overtaken, toEm>> /\ gui' # "starting" /\ gui = "idle"
    BY <1>2 DEF User, Toggle, PickContext, RequestMemory, Resume, Stop, Exit, Click,
       BeginWrite, Return, Proceed, GuiUnchanged, history
  <2>2. ASSUME NEW a \in Addresses, Toggle(a) PROVE ~Resuming'
    BY <2>2 DEF Toggle, BeginWrite, Return
  <2>3. ASSUME NEW w \in Wavefronts, PickContext(w) PROVE ~Resuming'
    BY <2>3 DEF PickContext, Proceed
  <2>4. ASSUME NEW s \in BOOLEAN, Resume(s) PROVE ui = "paused"
    BY <2>4 DEF Resume, Click
  <2>5. ASSUME RequestMemory PROVE ~Resuming'
    BY <2>5 DEF RequestMemory, BeginWrite, Return, Request
  <2>6. ASSUME Stop PROVE ~Resuming'
    BY <2>6 DEF Stop, BeginWrite, StopMsg
  <2>7. ASSUME Exit PROVE ~Resuming'
    BY <2>7 DEF Exit, Proceed
  <2>. QED  BY <1>2, <2>1, <2>2, <2>3, <2>4, <2>5, <2>6, <2>7 DEF User
<1>3. ASSUME Attach PROVE gui' = "join" /\ ui \in {"stopped", "exception"} /\ toEm' = toEm
  BY <1>3 DEF Attach, Click, Proceed
<1>4. ASSUME GuiWrite
      PROVE  /\ UNCHANGED <<ui, overtaken>> /\ gui = "write" /\ toEm = None
             /\ Resuming' <=> Resuming
             /\ gui' = "starting" => IsRun(toEm')
  <2>1. /\ guiMsg \in GuiMessages /\ guiMsg # None /\ guiMsg' = None
        /\ UNCHANGED <<ui, overtaken>> /\ gui = "write" /\ toEm = None
        /\ gui' = IF guiMsg.type = "run" THEN "starting" ELSE "idle"
    BY <1>4, NoneIsNoMessage DEF GuiWrite, Proceed
  <2>2. gui' = "starting" => IsRun(toEm')
    BY <1>4, <2>1, PutFacts, NoneIsNoMessage DEF GuiWrite
  <2>. QED  BY <2>1, <2>2
<1>5. ASSUME GuiStarting
      PROVE  /\ gui = "starting" /\ gui' # "starting"
             /\ ui' = "running" /\ UNCHANGED <<overtaken, toEm>>
  BY <1>5 DEF GuiStarting, Return, GuiUnchanged, history
<1>6. ASSUME RunKernel \/ ExitClose \/ ExitDone
      PROVE  /\ UNCHANGED <<ui, overtaken, toEm>> /\ gui' # "starting" /\ ~Resuming'
             /\ gui # "join" \/ em' = "starting"
  BY <1>6 DEF RunKernel, ExitClose, ExitDone, Return, Proceed, GuiUnchanged, history
<1>7. ASSUME SelectContext
      PROVE  UNCHANGED <<ui, overtaken, toEm>> /\ gui' # "starting" /\ ~Resuming' /\ gui # "join"
  BY <1>7 DEF SelectContext, BeginWrite, Return, Request, GuiUnchanged, history
<1>. QED  BY <1>1, <1>2, <1>3, <1>4, <1>5, <1>6, <1>7 DEF GuiThread

LEMMA ReportGui == ASSUME TypeOK, ModeInv, ReportInv, User \/ GuiThread PROVE ReportInv'
<1>0. Pending' = Pending
  BY PendingFacts, GuiFacts
<1>1. PauseShown => PauseShown'
  BY <1>0, GuiFacts DEF PauseShown, IsRun
<1>2. ASSUME NEW type, NEW shown \in {"stopped", "exception"},
             EndShown(type, shown), em' # "starting"
      PROVE  EndShown(type, shown)'
  <2>1. Resuming <=> gui = "starting" \/ IsRun(guiMsg)
    BY DEF Resuming
  <2>2. gui = "write" => gui # "join"
    OBVIOUS
  <2>. QED  BY <1>0, <1>2, <2>1, GuiFacts DEF EndShown
<1>3. "starting" \notin {"wait", "answer", "done"} /\ mode' = mode
  BY GuiFacts
<1>4. mode = "STOP" /\ em' = "done" => EndShown("onStop", "stopped")'
  BY <1>2, GuiFacts DEF ReportInv
<1>5. mode = "EXC" /\ em' \notin {"tellException", "starting"} =>
        EndShown("onException", "exception")'
  BY <1>2, GuiFacts DEF ReportInv
<1>6. mode = "PAUSE" /\ em' \in {"wait", "answer"} => PauseShown'
  BY <1>1, GuiFacts DEF ReportInv
<1>. QED  BY <1>3, <1>4, <1>5, <1>6 DEF ReportInv

LEMMA ReportReader == ASSUME TypeOK, ReportInv, ReaderThread PROVE ReportInv'
<1>. USE NoneIsNoMessage, ReportFacts
<1>0. /\ UNCHANGED <<em, mode, gui, guiMsg>>
      /\ toEm' = toEm \/ ~IsRun(toEm)
  BY DEF ReaderThread, ReaderTake, ReaderShowsEnd, ReaderShowsAnswer, ReaderSetsContext,
     ReaderRequests, ReaderShowsPause, ReaderLeaves, guiVars, emVars, IsRun
<1>1. ASSUME Pending' = Pending, UNCHANGED <<ui, overtaken>> PROVE ReportInv'
  BY <1>0, <1>1 DEF ReportInv, PauseShown, EndShown, Resuming, IsRun
<1>2. CASE \/ ReaderTake \/ ReaderShowsAnswer \/ ReaderSetsContext \/ ReaderRequests
           \/ ReaderLeaves
  <2>1. UNCHANGED <<ui, overtaken>>
    BY <1>2 DEF ReaderTake, ReaderShowsAnswer, ReaderSetsContext, ReaderRequests,
       ReaderLeaves, guiVars, history
  <2>2. Pending' = Pending
    BY <1>2, PendingFacts DEF ReaderSetsContext, ReaderRequests, ReaderLeaves
  <2>. QED  BY <1>1, <2>1, <2>2
<1>3. CASE ReaderShowsEnd \/ ReaderShowsPause
  <2>1. overtaken' <=> Resuming
    BY <1>3 DEF ReaderShowsEnd, ReaderShowsPause, ShowUi, Resuming, IsRun, TypeOK
  <2>2. Resuming' <=> Resuming
    BY <1>0 DEF Resuming, IsRun
  <2>3. CASE toUi \in Reports /\ Pending = toUi /\ Pending' = toUi
    BY <1>0, <2>3 DEF ReportInv, PauseShown, EndShown
  <2>4. CASE Pending = rdMsg /\ Pending' = None
    <3>1. \/ rdMsg \in Pauses /\ ui' = "paused"
          \/ rdMsg = [type |-> "onStop"] /\ ui' = "stopped"
          \/ rdMsg = [type |-> "onException"] /\ ui' = "exception"
      BY <1>3 DEF ReaderShowsEnd, ReaderShowsPause, ShowUi, Handling, TypeOK, Reports
    <3>2. /\ \A m \in Pauses : m # [type |-> "onStop"] /\ m # [type |-> "onException"]
          /\ [type |-> "onStop"] # [type |-> "onException"]
      <4>1. /\ \A m \in Pauses : m.type = "onPause"
            /\ [type |-> "onStop"].type = "onStop"
            /\ [type |-> "onException"].type = "onException"
        OBVIOUS
      <4>. QED  BY <4>1
    <3>3. [type |-> "onStop"] # None /\ [type |-> "onException"] # None
      OBVIOUS
    <3>4. PauseShown => PauseShown'
      BY <1>0, <2>1, <2>4, <3>1, <3>2, <3>3 DEF PauseShown, Resuming
    <3>5. EndShown("onStop", "stopped") => EndShown("onStop", "stopped")'
      BY <1>0, <2>1, <2>2, <2>4, <3>1, <3>2, <3>3 DEF EndShown
    <3>6. EndShown("onException", "exception") => EndShown("onException", "exception")'
      BY <1>0, <2>1, <2>2, <2>4, <3>1, <3>2, <3>3 DEF EndShown
    <3>. QED  BY <1>0, <3>4, <3>5, <3>6 DEF ReportInv
  <2>. QED  BY <1>3, <2>3, <2>4, PendingFacts
<1>. QED  BY <1>2, <1>3 DEF ReaderThread

LEMMA ReportEmulator == ASSUME TypeOK, ModeInv, ReportInv, EmulatorThread PROVE ReportInv'
<1>. USE NoneIsNoMessage, ReportFacts
<1>0. UNCHANGED <<ui, gui, guiMsg, rdMsg, overtaken>> /\ (Resuming' <=> Resuming)
  BY DEF EmulatorThread, EmStart, EmInstruction, EmTellPause, EmTake, EmAnswer, EmResumed,
     EmExecute, EmTellException, EmFinish, Tell, EmUnchanged, guiVars, rdVars, history,
     Resuming, IsRun
<1>1. CASE EmStart \/ EmInstruction \/ EmResumed \/ EmExecute
  <2>1. Pending' = Pending /\ toEm' = toEm
    BY <1>0, <1>1, PendingFacts DEF EmStart, EmInstruction, EmResumed, EmExecute
  <2>2. \/ mode' = "EXC" /\ mode = "EXC" /\ em \notin {"tellException", "starting"}
        \/ mode' = "EXC" /\ em' = "tellException"
        \/ mode' \notin Terminal /\ em' \notin {"wait", "answer"}
        \/ mode' = "STOP" /\ em' # "done"
    BY <1>1 DEF EmStart, EmInstruction, EmResumed, EmExecute, ModeInv, TypeOK, Terminal
  <2>. QED  BY <1>0, <2>1, <2>2 DEF ReportInv, PauseShown, EndShown, Terminal
<1>2. CASE EmTellPause
  <2>1. mode' = "PAUSE" /\ [type |-> "onPause", addr |-> at] \in Pauses
    BY <1>2 DEF EmTellPause, Tell, ModeInv, TypeOK
  <2>2. Pending' \in Pauses
    BY <1>2, <2>1 DEF EmTellPause, Tell, Pending
  <2>. QED  BY <2>1, <2>2 DEF ReportInv, PauseShown
<1>3. CASE EmTake
  <2>1. /\ Pending' = Pending
        /\ em' # "done" /\ (mode' # "EXC" \/ mode = "EXC")
        /\ mode # "EXC"
    BY <1>0, <1>3, PendingFacts DEF EmTake, Process, ModeInv, Terminal
  <2>2. mode' = "PAUSE" => mode = "PAUSE" /\ em = "wait" /\ ~IsRun(toEm)
    BY <1>3 DEF EmTake, Process, ModeInv, Terminal, IsRun
  <2>. QED  BY <1>0, <2>1, <2>2 DEF ReportInv, PauseShown
<1>4. CASE EmAnswer
  <2>1. /\ toUi = None /\ toUi' = answer /\ answer \in Answers /\ toEm' = toEm
        /\ mode' = mode /\ em = "answer" /\ em' \in {"wait", "drain"}
    BY <1>4 DEF EmAnswer, Tell, TypeOK
  <2>2. Pending' = Pending
    BY <1>0, <2>1 DEF Pending
  <2>. QED  BY <1>0, <2>1, <2>2 DEF ReportInv, PauseShown, EndShown, ModeInv
<1>5. CASE EmTellException
  <2>1. mode' = "EXC" /\ Pending' = [type |-> "onException"]
    BY <1>5 DEF EmTellException, Tell, ModeInv, Pending
  <2>. QED  BY <2>1 DEF ReportInv, EndShown
<1>6. CASE EmFinish
  <2>1. CASE mode = "STOP" /\ Tell([type |-> "onStop"], "done")
    <3>1. mode' = "STOP" /\ Pending' = [type |-> "onStop"]
      BY <2>1 DEF Tell, Pending
    <3>. QED  BY <3>1 DEF ReportInv, EndShown
  <2>2. CASE mode # "STOP" /\ em' = "done" /\ UNCHANGED <<toUi, mode>>
    <3>1. Pending' = Pending /\ em = "finish"
      BY <1>0, <1>6, <2>2, PendingFacts DEF EmFinish
    <3>. QED  BY <1>0, <2>2, <3>1 DEF ReportInv, EndShown
  <2>. QED  BY <1>6, <2>1, <2>2 DEF EmFinish
<1>. QED  BY <1>1, <1>2, <1>3, <1>4, <1>5, <1>6 DEF EmulatorThread

-----------------------------------------------------------------------------
(* The context of a pause. *)

LEMMA ContextStep == ASSUME TypeOK, ModeInv, ContextInv, [Next]_vars PROVE ContextInv'
<1>. USE NoneIsNoMessage, ReportFacts DEF ContextInv
<1>1. ASSUME UNCHANGED <<toUi, rd, rdMsg, context, stale, at>>,
             mode' = "PAUSE" /\ em' \in {"wait", "answer"} =>
               mode = "PAUSE" /\ em \in {"wait", "answer"}
      PROVE  ContextInv'
  BY <1>1
<1>2. CASE User \/ GuiWrite \/ GuiStarting \/ RunKernel \/ ExitClose \/ ExitDone
  <2>1. UNCHANGED <<toUi, rd, rdMsg, context, stale, mode, at>> /\ (em' = em \/ em' = "starting")
    BY <1>2 DEF User, Toggle, PickContext, RequestMemory, Resume, Stop, Attach, Exit, GuiWrite,
       GuiStarting, RunKernel, ExitClose, ExitDone, GuiUnchanged, rdVars, contextVars, emVars
  <2>. QED  BY <1>1, <2>1
<1>3. CASE SelectContext
  <2>1. /\ UNCHANGED <<toUi, rd, rdMsg, mode, em, at>>
        /\ context' = picked /\ stale' = (stale \/ picked[1] # context[1])
    BY <1>3 DEF SelectContext, GuiUnchanged, rdVars, emVars
  <2>. QED  BY <2>1
<1>4. CASE ReaderTake
  <2>1. /\ rd = "idle" /\ rd' = "handle" /\ rdMsg' = toUi /\ toUi' = None
        /\ UNCHANGED <<context, stale, mode, em, at>>
    BY <1>4 DEF ReaderTake, contextVars, emVars
  <2>. QED  BY <2>1
<1>5. CASE ReaderSetsContext
  <2>1. /\ rd = "handle" /\ rdMsg \in Pauses /\ rd' = "request"
        /\ context' = <<rdMsg.addr, First>> /\ UNCHANGED <<toUi, rdMsg, mode, em, at>>
    BY <1>5 DEF ReaderSetsContext, Handling, PauseContext, TypeOK, emVars
  <2>. QED  BY <2>1
<1>6. CASE \/ ReaderShowsEnd \/ ReaderShowsAnswer \/ ReaderRequests \/ ReaderShowsPause
           \/ ReaderLeaves
  <2>1. /\ rd = "handle" => rdMsg \notin Pauses
        /\ rd' # "handle" /\ UNCHANGED <<toUi, context, stale, mode, em, at>>
    BY <1>6 DEF ReaderShowsEnd, ReaderShowsAnswer, ReaderRequests, ReaderShowsPause,
       ReaderLeaves, Handling, Handled, TypeOK, contextVars, emVars
  <2>. QED  BY <2>1
<1>7. CASE EmStart \/ EmInstruction \/ EmExecute \/ EmResumed \/ EmTellException \/ EmFinish
  <2>1. ~(mode' = "PAUSE" /\ em' \in {"wait", "answer"})
    BY <1>7 DEF EmStart, EmInstruction, EmExecute, EmResumed, EmTellException, EmFinish, Tell,
       ModeInv, Terminal
  <2>. QED  BY <2>1
<1>8. CASE EmTellPause
  <2>1. toUi' = [type |-> "onPause", addr |-> at] /\ at' = at /\ at \in Addresses
    BY <1>8 DEF EmTellPause, Tell, TypeOK
  <2>. QED  BY <2>1
<1>9. CASE EmTake
  <2>1. UNCHANGED <<toUi, rd, rdMsg, context, stale, at>>
    BY <1>9 DEF EmTake, EmUnchanged, rdVars, contextVars
  <2>2. mode' = "PAUSE" => mode = "PAUSE" /\ em = "wait"
    BY <1>9 DEF EmTake, Process, ModeInv, Terminal
  <2>. QED  BY <1>1, <2>1, <2>2
<1>10. CASE EmAnswer
  <2>1. /\ toUi = None /\ toUi' = answer /\ answer \in Answers /\ em = "answer"
        /\ UNCHANGED <<rd, rdMsg, context, stale, mode, at>>
    BY <1>10 DEF EmAnswer, Tell, EmUnchanged, rdVars, contextVars, TypeOK
  <2>2. toUi \notin Pauses /\ toUi' \notin Pauses
    BY <2>1
  <2>. QED  BY <2>1, <2>2
<1>11. CASE UNCHANGED vars
  BY <1>1, <1>11 DEF vars, rdVars, contextVars, emVars
<1>. QED
  BY <1>2, <1>3, <1>4, <1>5, <1>6, <1>7, <1>8, <1>9, <1>10, <1>11
     DEF Next, GuiThread, ReaderThread, EmulatorThread

-----------------------------------------------------------------------------
(* The invariant. *)

LEMMA InitInv == ASSUME Init PROVE Inv
<1>. USE OneFacts DEF Init
<1>1. TypeOK /\ ModeInv
  BY InitType DEF ModeInv
<1>2. OrderInv
  BY DEF OrderInv, One
<1>3. FixedPoint /\ BreakpointsAgree
  BY DEF FixedPoint, BreakpointsAgree, Apply
<1>4. UndisturbedInv /\ ReportInv /\ RegistersInv /\ ContextInv
  <2>1. toUi \notin Pauses
    BY NoneIsNoMessage
  <2>. QED  BY <2>1 DEF UndisturbedInv, ReaderHasPause, ReportInv, RegistersInv, ContextInv
<1>. QED  BY <1>1, <1>2, <1>3, <1>4 DEF Inv

LEMMA InvStep == ASSUME Inv, [Next]_vars PROVE Inv'
<1>. USE DEF Inv
<1>1. TypeOK' /\ ModeInv' /\ OrderInv' /\ UndisturbedInv' /\ ContextInv'
  BY TypeStep, ModeStep, OrderStep, UndisturbedStep, ContextStep
<1>2. FixedPoint' /\ BreakpointsAgree'
  BY BreakpointsStep
<1>3. ReportInv' /\ RegistersInv'
  <2>1. CASE UNCHANGED vars
    BY <2>1 DEF vars, guiVars, rdVars, contextVars, emVars, history, ReportInv, PauseShown,
       EndShown, Pending, Resuming, IsRun, RegistersInv, Newest, IsRegisters, IsRequest, GuiAsks
  <2>. QED
    BY <2>1, ReportGui, ReportReader, ReportEmulator,
       RegistersGui, RegistersReader, RegistersEmulator DEF Next
<1>. QED  BY <1>1, <1>2, <1>3

THEOREM InvCorrect == Spec => []Inv
  BY InitInv, InvStep, PTL DEF Spec

(* Every request the channel accepts is answered, once and in order.       *)
THEOREM RequestsCorrect == Spec => []RequestsAccounted
<1>1. Inv => RequestsAccounted
  BY OrderAccounts DEF Inv
<1>. QED  BY <1>1, InvCorrect, PTL

(* The copies of the breakpoints agree up to the messages on their way.    *)
THEOREM BreakpointsCorrect == Spec => []BreakpointsAgree
<1>1. Inv => BreakpointsAgree
  BY DEF Inv
<1>. QED  BY <1>1, InvCorrect, PTL

(* A stopped or failed run pauses no more, whatever messages are late. *)
THEOREM EndCorrect == Spec => NoPauseAfterEnd
<1>1. Inv /\ [Next]_vars =>
        [em # "starting" /\ mode \in Terminal => mode' \in Terminal /\ em' # "tellPause"]_vars
  BY EndStep DEF Inv
<1>. QED  BY <1>1, InvCorrect, PTL DEF Spec, NoPauseAfterEnd

(* A reader locked up with the emulator: the emulator took a message since *)
(* the pause.                                                              *)
THEOREM StuckCorrect == Spec => []ReaderStuckIsDisturbed
<1>1. Inv => ReaderStuckIsDisturbed
  <2>1. ASSUME Inv, rd = "request" PROVE ReaderHasPause
    BY <2>1, ReportFacts, NoneIsNoMessage DEF Inv, TypeOK, ReaderHasPause
  <2>. QED
    BY <2>1 DEF Inv, UndisturbedInv, ReaderStuckIsDisturbed, ReaderStuck
<1>. QED  BY <1>1, InvCorrect, PTL

(* The UI shows what the emulator does, but for the race that `overtaken'  *)
(* marks.                                                                  *)
THEOREM UiCorrect == Spec => []UiShowsRun
<1>1. ASSUME Inv, Quiet PROVE Pending = None /\ ~IsRun(toEm) /\ gui = "idle"
  BY <1>1, NoneIsNoMessage DEF Inv, TypeOK, Quiet, Pending, IsRun
<1>2. None \notin Pauses /\ None # [type |-> "onStop"] /\ None # [type |-> "onException"]
  BY NoneIsNoMessage, ReportFacts
<1>3. Inv => UiShowsRun
  BY <1>1, <1>2 DEF Inv, ReportInv, PauseShown, EndShown, UiShowsRun
<1>. QED  BY <1>3, InvCorrect, PTL

(* The registers on display are those of the selected context, but for the *)
(* race that `crossed' marks, and it is the context of the pause, but for  *)
(* the race that `stale' marks.                                            *)
THEOREM RegistersCorrect == Spec => []RegistersFollowContext
<1>1. ASSUME Inv, Quiet, answered = asked, ~crossed, context[1] # None
      PROVE  registers = context
  <2>1. rdMsg = None /\ guiMsg = None /\ toEm = None /\ toUi = None /\ closed = {}
        /\ rd # "request"
    BY <1>1 DEF Inv, TypeOK, ModeInv, Quiet
  <2>2. answer = None
    <3>1. One(answer) = 0
      BY <1>1, <2>1, OneFacts DEF Inv, OrderInv, TypeOK
    <3>. QED  BY <1>1, <3>1, OneFacts DEF Inv, TypeOK
  <2>3. Newest = registers
    BY <2>1, <2>2, ContextFacts DEF Newest, GuiAsks
  <2>. QED  BY <1>1, <2>1, <2>3 DEF Inv, RegistersInv
<1>2. ASSUME Inv, Quiet, em = "wait", mode = "PAUSE", ~stale PROVE context[1] = at
  BY <1>2, NoneIsNoMessage DEF Inv, ContextInv, Quiet
<1>3. Inv => RegistersFollowContext
  BY <1>1, <1>2 DEF RegistersFollowContext
<1>. QED  BY <1>3, InvCorrect, PTL

-----------------------------------------------------------------------------
(* The session implements the abstract one.  A message goes from one place *)
(* to the next, from the last of a queue to the first: moving on changes   *)
(* nothing of the queue, as long as the next place is free.                *)

LEMMA FirstLeaves ==
  ASSUME NEW S, NEW x \in S, NEW b \in Seq(S), NEW c \in Seq(S)
  PROVE  LET all == <<x>> \o b \o c
         IN all # <<>> /\ Head(all) = x /\ Tail(all) = <<>> \o b \o c
<1>. DEFINE t == b \o c
<1>0. <<x>> \in Seq(S)
  OBVIOUS
<1>1. t \in Seq(S)
  BY ConcatProperties
<1>2. <<x>> \o b \o c = <<x>> \o t
  BY <1>0, ConcatAssociative
<1>3. <<>> \o b \o c = t
  BY ConcatEmptySeq
<1>4. <<x>> \o t # <<>> /\ Head(<<x>> \o t) = x /\ Tail(<<x>> \o t) = t
  <2>. HIDE DEF t
  <2>. QED  BY <1>1
<1>. QED  BY ONLY <1>2, <1>3, <1>4

LEMMA ThreePlaces ==
  ASSUME NEW S, NEW a \in Seq(S), NEW b \in Seq(S), NEW c \in Seq(S)
  PROVE  /\ a \o b \in Seq(S) /\ a \o b \o c \in Seq(S)
         /\ \A x \in S : <<x>> \in Seq(S)
         /\ \A x \in S : a \o b \o <<x>> = Append(a \o b \o <<>>, x)
         /\ a \o b \o <<>> = a \o b /\ a \o <<>> \o c = a \o c
         /\ a \o <<>> \o c = a \o c \o <<>>
         /\ <<>> \o b \o c = b \o <<>> \o c
<1>0. <<>> \in Seq(S) /\ \A x \in S : <<x>> \in Seq(S)
  OBVIOUS
<1>1. a \o b \in Seq(S) /\ a \o b \o c \in Seq(S) /\ b \o c \in Seq(S) /\ a \o c \in Seq(S)
  BY ConcatProperties
<1>2. /\ a \o b \o <<>> = a \o b /\ a \o <<>> = a /\ a \o c \o <<>> = a \o c
      /\ <<>> \o b = b /\ b \o <<>> = b
  BY <1>1, ConcatEmptySeq
<1>3. ASSUME NEW x \in S PROVE a \o b \o <<x>> = Append(a \o b, x)
  BY <1>1, AppendIsConcat
<1>. QED  BY ONLY <1>0, <1>1, <1>2, <1>3

Joined(a, b, c, d) == a \o b \o c \o d
Leads(x, s, t) == s # <<>> /\ Head(s) = x /\ Tail(s) = t

LEMMA FirstOfFour ==
  ASSUME NEW S, NEW x \in S, NEW b \in Seq(S), NEW c \in Seq(S), NEW d \in Seq(S)
  PROVE  Leads(x, Joined(<<x>>, b, c, d), Joined(<<>>, b, c, d))
<1>1. <<x>> \o b \o c = <<x>> \o (b \o c) /\ <<>> \o b \o c = <<>> \o (b \o c)
  <2>1. <<>> \in Seq(S)
    OBVIOUS
  <2>. QED  BY ConcatProperties, <2>1, ConcatAssociative
<1>2. ASSUME NEW t \in Seq(S)
      PROVE  LET all == <<x>> \o t \o d
             IN all # <<>> /\ Head(all) = x /\ Tail(all) = <<>> \o t \o d
  BY FirstLeaves
<1>3. b \o c \in Seq(S)
  BY ConcatProperties
<1>. QED  BY ONLY <1>1, <1>2, <1>3 DEF Leads, Joined

LEMMA FourPlaces ==
  ASSUME NEW S, NEW a \in Seq(S), NEW b \in Seq(S), NEW c \in Seq(S), NEW d \in Seq(S)
  PROVE  /\ \A x \in S : a \o b \o c \o <<x>> = Append(a \o b \o c \o <<>>, x)
         /\ a \o b \o <<>> \o d = a \o b \o d \o <<>>
         /\ a \o <<>> \o c \o d = a \o c \o <<>> \o d
         /\ <<>> \o b \o c \o d = b \o <<>> \o c \o d
<1>1. a \o b \in Seq(S) /\ b \o c \in Seq(S) /\ \A x \in S : <<x>> \in Seq(S)
  BY ThreePlaces
<1>2. a \o <<>> \o c = a \o c \o <<>> /\ <<>> \o b \o c = b \o <<>> \o c
  BY ThreePlaces
<1>3. /\ \A x \in S : a \o b \o c \o <<x>> = Append(a \o b \o c \o <<>>, x)
      /\ a \o b \o <<>> \o d = a \o b \o d \o <<>>
  <2>. DEFINE s == a \o b
  <2>. HIDE DEF s
  <2>1. s \in Seq(S)
    BY <1>1 DEF s
  <2>2. /\ \A x \in S : s \o c \o <<x>> = Append(s \o c \o <<>>, x)
        /\ s \o <<>> \o d = s \o d \o <<>>
    BY <2>1, ThreePlaces
  <2>. QED  BY ONLY <2>2 DEF s
<1>. QED  BY ONLY <1>2, <1>3

LEMMA MessageFacts ==
  /\ Requested(None) = <<>> /\ Reported(None) = <<>> /\ Ordered(None) = <<>>
  /\ ~IsChange(None) /\ ~IsRun(None)
  /\ \A m \in Answers : Requested(m) = <<m.ctx>> /\ Reported(m) = <<>>
  /\ \A m \in Reports : Requested(m) = <<>> /\ Reported(m) = <<m>>
  /\ \A m \in ToEmMessages : Requested(m) = IF m.type = "request" THEN <<m.ctx>> ELSE <<>>
  /\ \A m \in ToEmMessages \cup GuiMessages :
       /\ m.type \in {"request", "breakpoint", "run", "stop"}
       /\ Ordered(m) = IF m.type \in {"run", "stop"} THEN <<m>> ELSE <<>>
       /\ IsChange(m) <=> m.type = "breakpoint"
       /\ IsRun(m) <=> m.type = "run"
<1>. USE NoneIsNoMessage, ReportFacts
<1>1. /\ Requested(None) = <<>> /\ Reported(None) = <<>> /\ Ordered(None) = <<>>
      /\ ~IsChange(None) /\ ~IsRun(None)
  BY DEF Requested, IsRequest, Reported, Ordered, IsChange, IsRun
<1>2. ASSUME NEW m \in Answers PROVE Requested(m) = <<m.ctx>> /\ Reported(m) = <<>>
  <2>1. m.type = "answer" /\ m # None /\ m \notin Reports
    OBVIOUS
  <2>. QED  BY <2>1 DEF Requested, IsRequest, Reported
<1>3. ASSUME NEW m \in Reports PROVE Requested(m) = <<>> /\ Reported(m) = <<m>>
  <2>1. m.type \in {"onStop", "onException", "onPause"}
    OBVIOUS
  <2>. QED  BY <2>1 DEF Requested, IsRequest, Reported
<1>4. ASSUME NEW m \in ToEmMessages \cup GuiMessages
      PROVE  m # None /\ m.type \in {"request", "breakpoint", "run", "stop"}
  <2>1. m.type \in {"request", "breakpoint", "run", "stop"}
    BY DEF ToEmMessages, GuiMessages, Commands, Breakpoint, StopMsg
  <2>. QED  BY <2>1
<1>5. ASSUME NEW m \in ToEmMessages
      PROVE  Requested(m) = IF m.type = "request" THEN <<m.ctx>> ELSE <<>>
  BY <1>4 DEF Requested, IsRequest
<1>6. ASSUME NEW m \in ToEmMessages \cup GuiMessages
      PROVE  /\ Ordered(m) = IF m.type \in {"run", "stop"} THEN <<m>> ELSE <<>>
             /\ IsChange(m) <=> m.type = "breakpoint"
             /\ IsRun(m) <=> m.type = "run"
  BY <1>4 DEF Ordered, IsChange, IsRun
<1>. QED  BY <1>1, <1>2, <1>3, <1>4, <1>5, <1>6

LEMMA PlaceTypes ==
  ASSUME TypeOK
  PROVE  /\ Requested(rdMsg) \in Seq(Asks) /\ Requested(toUi) \in Seq(Asks)
         /\ Requested(answer) \in Seq(Asks) /\ Requested(toEm) \in Seq(Asks)
         /\ Reported(rdMsg) \in Seq(Reports) /\ Reported(toUi) \in Seq(Reports)
         /\ Reporting \in Seq(Reports)
         /\ Ordered(toEm) \in Seq(ToEmMessages) /\ Ordered(guiMsg) \in Seq(GuiMessages)
<1>0. /\ <<>> \in Seq(Asks) /\ <<>> \in Seq(Reports)
      /\ <<>> \in Seq(ToEmMessages) /\ <<>> \in Seq(GuiMessages)
  OBVIOUS
<1>1. ASSUME NEW m \in Answers \cup Reports \cup {None}
      PROVE  Requested(m) \in Seq(Asks) /\ Reported(m) \in Seq(Reports)
  <2>1. CASE m \in Answers
    <3>1. <<m.ctx>> \in Seq(Asks)
      BY <2>1, ReportFacts
    <3>2. Requested(m) = <<m.ctx>> /\ Reported(m) = <<>>
      BY <2>1, MessageFacts
    <3>. QED  BY <1>0, <3>1, <3>2
  <2>2. CASE m \in Reports
    <3>1. <<m>> \in Seq(Reports)
      BY <2>2
    <3>2. Requested(m) = <<>> /\ Reported(m) = <<m>>
      BY <2>2, MessageFacts
    <3>. QED  BY <1>0, <3>1, <3>2
  <2>3. CASE m = None
    BY <1>0, <2>3, MessageFacts
  <2>. QED  BY <2>1, <2>2, <2>3
<1>3. ASSUME NEW m \in ToEmMessages \cup {None}
      PROVE  Requested(m) \in Seq(Asks) /\ Ordered(m) \in Seq(ToEmMessages)
  <2>1. CASE m \in ToEmMessages
    <3>1. Requested(m) = <<>> \/ (Requested(m) = <<m.ctx>> /\ m.type = "request")
      BY <2>1, MessageFacts
    <3>2. m.type = "request" => <<m.ctx>> \in Seq(Asks)
      BY <2>1, ToEmFacts
    <3>3. Ordered(m) \in {<<>>, <<m>>} /\ <<m>> \in Seq(ToEmMessages)
      BY <2>1 DEF Ordered
    <3>. QED  BY <1>0, <3>1, <3>2, <3>3
  <2>2. CASE m = None
    BY <1>0, <2>2, MessageFacts
  <2>. QED  BY <2>1, <2>2
<1>4. ASSUME NEW m \in GuiMessages \cup {None}
      PROVE  Ordered(m) \in Seq(GuiMessages)
  <2>1. CASE m \in GuiMessages
    <3>1. Ordered(m) \in {<<>>, <<m>>} /\ <<m>> \in Seq(GuiMessages)
      BY <2>1 DEF Ordered
    <3>. QED  BY <1>0, <3>1
  <2>2. CASE m = None
    BY <1>0, <2>2, MessageFacts
  <2>. QED  BY <2>1, <2>2
<1>2. Reporting \in Seq(Reports)
  <2>1. em = "tellPause" => [type |-> "onPause", addr |-> at] \in Reports
    BY ReportFacts DEF TypeOK
  <2>. QED  BY <2>1, ReportFacts DEF Reporting
<1>. QED  BY <1>1, <1>2, <1>3, <1>4 DEF TypeOK

(* What each part of the abstract state depends on. *)
LEMMA SameViews ==
  /\ UNCHANGED <<toEm, guiMsg>> => UNCHANGED <<Unsure, Orders>>
  /\ UNCHANGED <<rdMsg, toUi, answer, toEm>> => Asked' = Asked
  /\ UNCHANGED <<rdMsg, toUi, em, at>> => News' = News
  /\ UNCHANGED <<em, mode>> => UNCHANGED <<Target, Passed>>
  /\ UNCHANGED <<gui, guiMsg>> => Lag' = Lag
  BY DEF Unsure, Orders, Asked, News, Reporting, Target, Passed, Lag, Resuming, IsRun, IsChange,
     Ordered, Requested, IsRequest, Reported

LEMMA SilentGui ==
  ASSUME toEm' = toEm, Ordered(guiMsg) = <<>>, ~IsChange(guiMsg),
         Ordered(guiMsg') = <<>>, ~IsChange(guiMsg')
  PROVE  UNCHANGED <<Unsure, Orders>>
<1>1. Orders' = Orders
  BY DEF Orders, Ordered
<1>2. \A a \in Addresses : (\E m \in {toEm, guiMsg'} : IsChange(m) /\ m.addr = a)
                       <=> (\E m \in {toEm, guiMsg} : IsChange(m) /\ m.addr = a)
  OBVIOUS
<1>3. Unsure' = Unsure
  BY <1>2 DEF Unsure, IsChange
<1>. QED  BY <1>1, <1>3

LEMMA UserControls ==
  ASSUME TypeOK, User
  PROVE  RC!Next \/ UNCHANGED RC!vars
<1>. USE MessageFacts
<1>1. gui = "idle" /\ guiMsg = None /\ Lag = "nothing"
  BY DEF User, Toggle, PickContext, RequestMemory, Resume, Stop, Attach, Exit, Click, TypeOK,
     Lag, Resuming
<1>2. UNCHANGED <<rdMsg, toUi, answer, toEm, em, mode, at, registers>>
  BY DEF User, Toggle, PickContext, RequestMemory, Resume, Stop, Attach, Exit, GuiUnchanged,
     rdVars, emVars
<1>3. UNCHANGED <<Asked, News, Target, Passed, at, registers>>
  BY <1>2, SameViews
<1>4. ASSUME NEW a \in Addresses, Toggle(a) PROVE RC!Toggle(a)
  <2>1. /\ breakpoints' = IF a \in breakpoints THEN breakpoints \ {a} ELSE breakpoints \cup {a}
        /\ ui' = ui
    BY <1>4 DEF Toggle
  <2>2. CASE guiMsg' = None /\ gui' = "idle"
    <3>1. UNCHANGED <<Unsure, Orders, Lag>>
      BY <1>1, <1>2, <2>2, SameViews
    <3>. QED  BY <1>3, <2>1, <3>1 DEF RC!Toggle, RC!targetVars
  <2>3. CASE gui' = "write"
             /\ guiMsg' = [type |-> "breakpoint", addr |-> a, remove |-> a \in breakpoints]
    <3>1. guiMsg' \in GuiMessages /\ guiMsg'.type = "breakpoint" /\ guiMsg'.addr = a
      BY <2>3, (a \in breakpoints) \in BOOLEAN, GuiMessageFacts
    <3>2. Lag' = "nothing"
      BY <2>3, <3>1 DEF Lag, Resuming, IsRun
    <3>3. Orders' = Orders
      BY <1>1, <1>2, <3>1 DEF Orders, Ordered
    <3>4. Unsure' = Unsure \cup {a}
      BY <1>1, <1>2, <3>1 DEF Unsure, IsChange
    <3>. QED  BY <1>1, <1>3, <2>1, <3>2, <3>3, <3>4 DEF RC!Toggle, RC!targetVars
  <2>. QED  BY <1>4, <2>2, <2>3 DEF Toggle, Return, BeginWrite
<1>5. ASSUME (\E w \in Wavefronts : PickContext(w)) \/ RequestMemory \/ Exit
      PROVE  UNCHANGED RC!vars
  <2>1. UNCHANGED <<breakpoints, ui>> /\ gui' \in {"select", "write", "idle", "joinEmulator"}
        /\ (guiMsg' = None \/ guiMsg'.type = "request")
    <3>1. CASE Exit
      BY <3>1 DEF Exit, Proceed
    <3>2. CASE RequestMemory
      BY <3>2 DEF RequestMemory, Return, BeginWrite, Request
    <3>3. ASSUME NEW w \in Wavefronts, PickContext(w)
          PROVE  UNCHANGED <<breakpoints, ui>> /\ gui' = "select" /\ guiMsg' = None
      BY <3>3 DEF PickContext, Proceed
    <3>. QED  BY <1>5, <3>1, <3>2, <3>3
  <2>2. Ordered(guiMsg') = <<>> /\ ~IsChange(guiMsg') /\ ~IsRun(guiMsg')
    BY <2>1 DEF Ordered, IsChange, IsRun
  <2>3. UNCHANGED <<Unsure, Orders>>
    BY <1>1, <1>2, <2>2, SilentGui
  <2>4. Lag' = "nothing"
    BY <2>1, <2>2 DEF Lag, Resuming, IsRun
  <2>. QED  BY <1>1, <1>3, <2>1, <2>3, <2>4 DEF RC!vars, RC!userVars, RC!targetVars
<1>6. ASSUME NEW m \in GuiMessages, m.type \in {"run", "stop"}, gui' = "write", guiMsg' = m
      PROVE  /\ Orders' = Append(Orders, m) /\ Unsure' = Unsure
             /\ Lag' = IF m.type = "run" THEN "resume" ELSE "nothing"
  <2>1. Orders' = Append(Orders, m)
    <3>1. Ordered(toEm) \in Seq({toEm, m})
      <4>1. Ordered(toEm) \in {<<>>, <<toEm>>} /\ <<toEm>> \in Seq({toEm, m})
        BY DEF Ordered
      <4>2. <<>> \in Seq({toEm, m})
        OBVIOUS
      <4>. QED  BY ONLY <4>1, <4>2
    <3>2. Ordered(toEm) \o <<m>> = Append(Ordered(toEm) \o <<>>, m)
      BY <3>1, ConcatEmptySeq, AppendIsConcat
    <3>3. Orders = Ordered(toEm) \o <<>>
      BY <1>1 DEF Orders
    <3>4. Ordered(guiMsg') = <<m>>
      BY <1>6
    <3>5. Orders' = Ordered(toEm) \o <<m>>
      BY <1>2, <3>4 DEF Orders, Ordered
    <3>. QED  BY <3>2, <3>3, <3>5
  <2>2. ~IsChange(m) /\ (IsRun(m) <=> m.type = "run")
    BY <1>6
  <2>3. Unsure' = Unsure
    BY <1>1, <1>2, <1>6, <2>2 DEF Unsure, IsChange
  <2>4. Lag' = IF m.type = "run" THEN "resume" ELSE "nothing"
    BY <1>6, <2>2 DEF Lag, Resuming, IsRun
  <2>. QED  BY <2>1, <2>3, <2>4
<1>7. ASSUME NEW s \in BOOLEAN, Resume(s) PROVE \E order \in RC!Orders : RC!Order(order)
  <2>. DEFINE m == [type |-> "run", stepping |-> s]
  <2>1. m \in GuiMessages /\ m \in RC!Orders /\ m.type = "run"
    BY GuiMessageFacts DEF RC!Orders
  <2>2. /\ gui' = "write" /\ guiMsg' = m /\ ui = "paused"
        /\ UNCHANGED <<ui, breakpoints>>
    BY <1>7 DEF Resume, BeginWrite, Click
  <2>. HIDE DEF m
  <2>3. Orders' = Append(Orders, m) /\ Unsure' = Unsure /\ Lag' = "resume"
    BY <1>6, <2>1, <2>2
  <2>4. RC!Order(m)
    BY <1>1, <1>3, <2>1, <2>2, <2>3 DEF RC!Order, RC!targetVars
  <2>. QED  BY <2>1, <2>4
<1>8. ASSUME Stop PROVE \E order \in RC!Orders : RC!Order(order)
  <2>1. StopMsg \in GuiMessages /\ StopMsg \in RC!Orders /\ StopMsg.type = "stop"
    BY GuiMessageFacts DEF RC!Orders, StopMsg
  <2>2. /\ gui' = "write" /\ guiMsg' = StopMsg /\ ui \in {"running", "paused"}
        /\ UNCHANGED <<ui, breakpoints>>
    BY <1>8 DEF Stop, BeginWrite, Click
  <2>3. Orders' = Append(Orders, StopMsg) /\ Unsure' = Unsure /\ Lag' = "nothing"
    BY <1>6, <2>1, <2>2
  <2>4. RC!Order(StopMsg)
    BY <1>1, <1>3, <2>1, <2>2, <2>3 DEF RC!Order, RC!targetVars
  <2>. QED  BY <2>1, <2>4
<1>9. ASSUME Attach PROVE RC!Attach
  <2>1. /\ ui \in {"stopped", "exception"} /\ ui' = "running"
        /\ gui' = "join" /\ guiMsg' = None /\ breakpoints' = breakpoints
    BY <1>9 DEF Attach, Click, Proceed
  <2>2. Lag' = "start"
    BY <2>1 DEF Lag
  <2>3. UNCHANGED <<Unsure, Orders>>
    BY <1>1, <1>2, <2>1, SameViews
  <2>. QED  BY <1>1, <1>3, <2>1, <2>2, <2>3 DEF RC!Attach, RC!targetVars
<1>. QED  BY <1>4, <1>5, <1>7, <1>8, <1>9 DEF User, RC!Next

(* A message that gets into toEm asks for something, or was there for the  *)
(* user before.                                                            *)
LEMMA MessagePut ==
  ASSUME TypeOK, NEW m \in GuiMessages, PutToEm(m), toEm = None,
         UNCHANGED <<rdMsg, toUi, answer>>
  PROVE  /\ toEm' \in ToEmMessages
         /\ Ordered(toEm') = Ordered(m)
         /\ IsChange(m) \/ IsChange(toEm') => toEm' = m
         /\ IF m.type = "request"
            THEN Asked' = Append(Asked, m.ctx) /\ m.ctx \in Asks
            ELSE Asked' = Asked
<1>. USE MessageFacts
<1>1. /\ toEm' \in ToEmMessages /\ toEm'.type = m.type
      /\ m.type = "request" => toEm'.ctx = m.ctx
      /\ m.type # "request" => toEm' = m
  BY PutFacts DEF TypeOK
<1>2. Ordered(toEm') = Ordered(m) /\ (IsChange(m) \/ IsChange(toEm') => toEm' = m)
  BY <1>1
<1>3. CASE m.type = "request"
  <2>1. m.ctx \in Asks
    BY <1>1, <1>3, ToEmFacts
  <2>. DEFINE a == Requested(rdMsg)
              b == Requested(toUi)
              c == Requested(answer)
  <2>2. Asked = a \o b \o c \o <<>>
    BY DEF Asked
  <2>3. Requested(toEm') = <<m.ctx>>
    BY <1>1, <1>3
  <2>4. Asked' = a \o b \o c \o <<m.ctx>>
    BY <2>3 DEF Asked, Requested, IsRequest
  <2>5. a \in Seq(Asks) /\ b \in Seq(Asks) /\ c \in Seq(Asks)
    BY PlaceTypes
  <2>. HIDE DEF a, b, c
  <2>6. a \o b \o c \o <<m.ctx>> = Append(a \o b \o c \o <<>>, m.ctx)
    BY ONLY <2>1, <2>5, FourPlaces
  <2>. QED  BY <1>1, <1>2, <1>3, <2>1, <2>2, <2>4, <2>6
<1>4. CASE m.type # "request"
  <2>1. Requested(toEm') = <<>> /\ Requested(toEm) = <<>>
    BY <1>1, <1>4
  <2>2. Asked' = Asked
    BY <2>1 DEF Asked, Requested, IsRequest
  <2>. QED  BY <1>1, <1>2, <1>4, <2>2
<1>. QED  BY <1>3, <1>4

LEMMA GuiControls ==
  ASSUME TypeOK, ModeInv, GuiThread
  PROVE  RC!Next \/ UNCHANGED RC!vars
<1>. USE MessageFacts
<1>1. UNCHANGED <<rdMsg, toUi, answer, mode, at, registers, breakpoints>>
  BY DEF GuiThread, SelectContext, GuiWrite, GuiStarting, RunKernel, ExitClose, ExitDone,
     GuiUnchanged, rdVars, emVars
<1>2. CASE GuiWrite
  <2>1. /\ guiMsg \in GuiMessages /\ toEm = None /\ PutToEm(guiMsg) /\ guiMsg' = None
        /\ gui = "write" /\ gui' = IF guiMsg.type = "run" THEN "starting" ELSE "idle"
        /\ UNCHANGED <<em, ui>>
    BY <1>2 DEF GuiWrite, Proceed, TypeOK, emVars
  <2>2. UNCHANGED <<News, Target, Passed>>
    BY <1>1, <2>1, SameViews
  <2>3. Lag' = Lag
    BY <2>1 DEF Lag, Resuming, IsRun
  <2>4. Unsure' = Unsure
    <3>0. /\ ~IsChange(toEm) /\ ~IsChange(guiMsg')
          /\ IsChange(guiMsg) \/ IsChange(toEm') => toEm' = guiMsg
      BY <1>1, <2>1, MessagePut
    <3>. QED  BY <2>1, <3>0 DEF Unsure, IsChange
  <2>5. Orders' = Orders
    <3>1. Ordered(toEm') = Ordered(guiMsg) /\ Ordered(toEm) = <<>>
      BY <1>1, <2>1, MessagePut
    <3>2. Ordered(guiMsg') = <<>>
      BY <2>1
    <3>3. Ordered(guiMsg) \o <<>> = <<>> \o Ordered(guiMsg)
      BY PlaceTypes, ConcatEmptySeq
    <3>4. Orders' = Ordered(toEm') \o Ordered(guiMsg')
      BY DEF Orders, Ordered
    <3>. QED  BY <3>1, <3>2, <3>3, <3>4 DEF Orders
  <2>6. CASE guiMsg.type = "request"
    <3>1. Asked' = Append(Asked, guiMsg.ctx) /\ guiMsg.ctx \in Contexts \cup {Memory}
      BY <1>1, <2>1, <2>6, MessagePut DEF Asks
    <3>2. RC!Ask(guiMsg.ctx)
      BY <1>1, <2>1, <2>2, <2>3, <2>4, <2>5, <3>1 DEF RC!Ask, RC!targetVars
    <3>. QED  BY <3>1, <3>2 DEF RC!Next
  <2>7. CASE guiMsg.type # "request"
    <3>1. Asked' = Asked
      BY <1>1, <2>1, <2>7, MessagePut
    <3>. QED
      BY <1>1, <2>1, <2>2, <2>3, <2>4, <2>5, <3>1 DEF RC!vars, RC!userVars, RC!targetVars
  <2>. QED  BY <2>6, <2>7
<1>3. ASSUME ~GuiWrite, ~SelectContext
      PROVE  guiMsg = None /\ guiMsg' = None /\ UNCHANGED <<toEm, Unsure, Orders, Asked>>
  <2>1. guiMsg = None /\ guiMsg' = None /\ toEm' = toEm
    BY <1>3 DEF GuiThread, GuiStarting, RunKernel, ExitClose, ExitDone, GuiUnchanged, Return,
       Proceed, TypeOK
  <2>. QED  BY <1>1, <2>1, SameViews
<1>4. CASE GuiStarting
  <2>1. gui = "starting" /\ gui' = "idle" /\ ui' = "running" /\ em' = em
        /\ ~GuiWrite /\ ~SelectContext
    BY <1>4 DEF GuiStarting, GuiWrite, SelectContext, Return, GuiUnchanged, emVars
  <2>2. Lag = "resume" /\ Lag' = "nothing"
    BY <1>3, <2>1 DEF Lag, Resuming, IsRun
  <2>3. UNCHANGED <<News, Target, Passed>>
    BY <1>1, <2>1, SameViews
  <2>4. RC!ShowRunning
    BY <1>1, <1>3, <2>1, <2>2, <2>3 DEF RC!ShowRunning, RC!targetVars
  <2>. QED  BY <2>4 DEF RC!Next
<1>5. CASE RunKernel
  <2>1. /\ gui = "join" /\ gui' = "idle" /\ ui' = ui /\ ~GuiWrite /\ ~SelectContext
        /\ em \in {"none", "done"} /\ em' = "starting"
    BY <1>5 DEF RunKernel, GuiWrite, SelectContext, Return
  <2>2. Lag = "start" /\ Lag' = "nothing"
    BY <1>3, <2>1 DEF Lag, Resuming, IsRun
  <2>3. Target \in {"none", "ended"} /\ Target' = "starting" /\ ~Passed /\ ~Passed'
    BY <2>1 DEF Target, Passed
  <2>4. News' = News
    BY <1>1, <2>1 DEF News, Reporting, Reported
  <2>5. Passed' = Passed
    BY <2>3 DEF Passed
  <2>6. RC!Start
    BY <1>1, <1>3, <2>1, <2>2, <2>3, <2>4, <2>5 DEF RC!Start
  <2>. QED  BY <2>6 DEF RC!Next
<1>6. CASE ExitClose \/ ExitDone
  <2>1. /\ gui \in {"joinEmulator", "closing", "joinReader"} /\ UNCHANGED <<ui, em>>
        /\ gui' \in {"closing", "joinReader", "gone"} /\ ~GuiWrite /\ ~SelectContext
    BY <1>6 DEF ExitClose, ExitDone, GuiWrite, SelectContext, Proceed, GuiUnchanged, emVars
  <2>2. Lag = "nothing" /\ Lag' = "nothing"
    BY <1>3, <2>1 DEF Lag, Resuming, IsRun
  <2>3. UNCHANGED <<News, Target, Passed>>
    BY <1>1, <2>1, SameViews
  <2>. QED
    BY <1>1, <1>3, <2>1, <2>2, <2>3 DEF RC!vars, RC!userVars, RC!targetVars
<1>7. CASE SelectContext
  <2>1. /\ gui = "select" /\ guiMsg = None /\ UNCHANGED <<toEm, ui, em>>
        /\ gui' \in {"write", "idle"} /\ (guiMsg' = None \/ guiMsg'.type = "request")
    BY <1>7 DEF SelectContext, Return, BeginWrite, Request, GuiUnchanged, emVars, TypeOK
  <2>2. Ordered(guiMsg') = <<>> /\ ~IsChange(guiMsg') /\ ~IsRun(guiMsg')
    BY <2>1 DEF Ordered, IsChange, IsRun
  <2>3. UNCHANGED <<Unsure, Orders>>
    BY <2>1, <2>2, SilentGui
  <2>4. Lag = "nothing" /\ Lag' = "nothing"
    BY <2>1, <2>2 DEF Lag, Resuming, IsRun
  <2>5. UNCHANGED <<Asked, News, Target, Passed>>
    BY <1>1, <2>1, SameViews
  <2>. QED
    BY <1>1, <2>1, <2>3, <2>4, <2>5 DEF RC!vars, RC!userVars, RC!targetVars
<1>. QED  BY <1>2, <1>4, <1>5, <1>6, <1>7 DEF GuiThread

LEMMA ReaderControls ==
  ASSUME TypeOK, ReaderThread
  PROVE  RC!Next \/ UNCHANGED RC!vars
<1>. USE MessageFacts
<1>1. UNCHANGED <<gui, guiMsg, answer, em, mode, at, breakpoints>>
  BY DEF ReaderThread, ReaderTake, ReaderShowsEnd, ReaderShowsAnswer, ReaderSetsContext,
     ReaderRequests, ReaderShowsPause, ReaderLeaves, guiVars, emVars
<1>2. UNCHANGED <<Target, Passed, Lag>>
  BY <1>1, SameViews
<1>3. CASE ReaderTake
  <2>1. /\ rdMsg = None /\ rdMsg' = toUi /\ toUi' = None
        /\ UNCHANGED <<toEm, ui, registers>>
    BY <1>3 DEF ReaderTake, TypeOK, guiVars
  <2>2. UNCHANGED <<Unsure, Orders>>
    BY <1>1, <2>1, SameViews
  <2>3. Asked' = Asked
    <3>. DEFINE b == Requested(toUi)
                c == Requested(answer)
                d == Requested(toEm)
    <3>1. Asked = <<>> \o b \o c \o d
      BY <2>1 DEF Asked
    <3>2. Asked' = b \o <<>> \o c \o d
      BY <1>1, <2>1 DEF Asked, Requested, IsRequest
    <3>3. b \in Seq(Asks) /\ c \in Seq(Asks) /\ d \in Seq(Asks)
      BY PlaceTypes
    <3>. HIDE DEF b, c, d
    <3>4. <<>> \o b \o c \o d = b \o <<>> \o c \o d
      BY ONLY <3>3, FourPlaces
    <3>. QED  BY <3>1, <3>2, <3>4
  <2>4. News' = News
    <3>. DEFINE b == Reported(toUi)
                c == Reporting
    <3>1. News = <<>> \o b \o c
      BY <2>1 DEF News
    <3>2. News' = b \o <<>> \o c
      BY <1>1, <2>1 DEF News, Reported, Reporting
    <3>3. b \in Seq(Reports) /\ c \in Seq(Reports)
      BY PlaceTypes
    <3>. HIDE DEF b, c
    <3>4. <<>> \o b \o c = b \o <<>> \o c
      BY ONLY <3>3, ThreePlaces
    <3>. QED  BY <3>1, <3>2, <3>4
  <2>. QED
    BY <1>1, <1>2, <2>1, <2>2, <2>3, <2>4 DEF RC!vars, RC!userVars, RC!targetVars
<1>4. ASSUME ReaderShowsEnd \/ ReaderShowsPause PROVE RC!ShowNews
  <2>1. /\ rdMsg \in Reports /\ rdMsg' = None /\ UNCHANGED <<toEm, toUi, registers>>
        /\ ui' = RC!Shown[rdMsg.type]
    BY <1>4, ReportFacts DEF ReaderShowsEnd, ReaderShowsPause, Handling, Handled, ShowUi, TypeOK,
       RC!Shown
  <2>2. UNCHANGED <<Unsure, Orders>>
    BY <1>1, <2>1, SameViews
  <2>3. Asked' = Asked
    BY <1>1, <2>1 DEF Asked, Requested, IsRequest
  <2>4. News # <<>> /\ Head(News) = rdMsg /\ Tail(News) = News'
    <3>. DEFINE b == Reported(toUi)
                c == Reporting
    <3>1. News = <<rdMsg>> \o b \o c
      BY <2>1 DEF News
    <3>2. News' = <<>> \o b \o c
      BY <1>1, <2>1 DEF News, Reported, Reporting
    <3>3. b \in Seq(Reports) /\ c \in Seq(Reports)
      BY PlaceTypes
    <3>. HIDE DEF b, c
    <3>4. LET all == <<rdMsg>> \o b \o c
          IN all # <<>> /\ Head(all) = rdMsg /\ Tail(all) = <<>> \o b \o c
      BY <2>1, <3>3, FirstLeaves
    <3>. QED  BY <3>1, <3>2, <3>4
  <2>. QED  BY <1>1, <1>2, <2>1, <2>2, <2>3, <2>4 DEF RC!ShowNews
<1>5. ASSUME ReaderShowsAnswer PROVE RC!ShowAnswer
  <2>1. /\ rdMsg \in Answers /\ rdMsg' = None /\ UNCHANGED <<toEm, toUi, ui>>
        /\ registers' = IF rdMsg.ctx = Memory THEN registers ELSE rdMsg.ctx
    BY <1>5, ReportFacts DEF ReaderShowsAnswer, Handling, Handled, TypeOK, guiVars
  <2>2. UNCHANGED <<Unsure, Orders>>
    BY <1>1, <2>1, SameViews
  <2>3. Asked # <<>> /\ Head(Asked) = rdMsg.ctx /\ Tail(Asked) = Asked'
    <3>. DEFINE b == Requested(toUi)
                c == Requested(answer)
                d == Requested(toEm)
    <3>1. Asked = <<rdMsg.ctx>> \o b \o c \o d
      BY <2>1 DEF Asked
    <3>2. Asked' = <<>> \o b \o c \o d
      BY <1>1, <2>1 DEF Asked, Requested, IsRequest
    <3>3. b \in Seq(Asks) /\ c \in Seq(Asks) /\ d \in Seq(Asks)
      BY PlaceTypes
    <3>4. rdMsg.ctx \in Asks
      BY <2>1, ReportFacts
    <3>. HIDE DEF b, c, d
    <3>5. Leads(rdMsg.ctx, Joined(<<rdMsg.ctx>>, b, c, d), Joined(<<>>, b, c, d))
      BY ONLY <3>3, <3>4, FirstOfFour
    <3>. QED  BY ONLY <3>1, <3>2, <3>5 DEF Leads, Joined
  <2>4. News' = News
    BY <1>1, <2>1 DEF News, Reported, Reporting
  <2>. QED  BY <1>1, <1>2, <2>1, <2>2, <2>3, <2>4 DEF RC!ShowAnswer, RC!targetVars
<1>6. ASSUME ReaderSetsContext \/ ReaderLeaves PROVE UNCHANGED RC!vars
  <2>1. UNCHANGED <<rdMsg, toEm, toUi, ui, registers>>
    BY <1>6 DEF ReaderSetsContext, ReaderLeaves, guiVars
  <2>2. UNCHANGED <<Unsure, Orders, Asked, News>>
    BY <1>1, <2>1, SameViews
  <2>. QED  BY <1>1, <1>2, <2>1, <2>2 DEF RC!vars, RC!userVars, RC!targetVars
<1>7. CASE ReaderRequests
  <2>. DEFINE m == Request(PauseContext(rdMsg.addr))
  <2>1. UNCHANGED <<rdMsg, toUi, ui, registers>>
    BY <1>7 DEF ReaderRequests, guiVars
  <2>2. News' = News
    BY <1>1, <2>1, SameViews
  <2>3. CASE toEm = None /\ PutToEm(m)
    <3>1. m \in GuiMessages /\ m.type = "request"
      <4>1. PauseContext(rdMsg.addr) \in Asks
        BY <1>7, SessionAssumption, ReportFacts DEF ReaderRequests, TypeOK, PauseContext, Asks,
           Contexts
      <4>. QED  BY <4>1, GuiMessageFacts DEF Request
    <3>. HIDE DEF m
    <3>2. /\ Ordered(toEm') = Ordered(m) /\ ~IsChange(toEm')
          /\ Asked' = Append(Asked, m.ctx) /\ m.ctx \in Contexts \cup {Memory}
      BY <1>1, <2>1, <2>3, <3>1, MessagePut DEF Asks
    <3>3. Orders' = Orders
      BY <1>1, <2>3, <3>1, <3>2 DEF Orders, Ordered
    <3>4. Unsure' = Unsure
      BY <1>1, <2>3, <3>2 DEF Unsure, IsChange
    <3>5. RC!Ask(m.ctx)
      BY <1>1, <1>2, <2>1, <2>2, <3>2, <3>3, <3>4 DEF RC!Ask, RC!targetVars
    <3>. QED  BY <3>2, <3>5 DEF RC!Next
  <2>4. CASE toEm' = toEm
    <3>1. UNCHANGED <<Unsure, Orders, Asked>>
      BY <1>1, <2>1, <2>4, SameViews
    <3>. QED  BY <1>1, <1>2, <2>1, <2>2, <3>1 DEF RC!vars, RC!userVars, RC!targetVars
  <2>. QED  BY <1>7, <2>3, <2>4 DEF ReaderRequests
<1>. QED  BY <1>3, <1>4, <1>5, <1>6, <1>7 DEF ReaderThread, RC!Next

(* Where the user is not unsure, the emulator has the user's breakpoints.  *)
LEMMA SureOfTheRest ==
  ASSUME BreakpointsAgree, em \notin {"none", "starting", "done"}, mode \notin Terminal,
         NEW a \in Addresses, a \notin Unsure
  PROVE  a \in bps <=> a \in breakpoints
<1>1. \A m \in {toEm, guiMsg} : ~(IsChange(m) /\ m.addr = a)
  BY DEF Unsure
<1>2. ASSUME NEW m \in {toEm, guiMsg}, NEW b
      PROVE  a \in Apply(m, b) <=> a \in b
  BY <1>1, <1>2 DEF Apply, IsChange
<1>3. Apply(guiMsg, Apply(toEm, bps)) = breakpoints
  BY DEF BreakpointsAgree
<1>4. a \in Apply(toEm, bps) <=> a \in bps
  BY <1>2
<1>5. a \in Apply(guiMsg, Apply(toEm, bps)) <=> a \in Apply(toEm, bps)
  BY <1>2
<1>. QED  BY ONLY <1>3, <1>4, <1>5

(* The emulator writes what it reports: to the user it was reported before *)
(* that, if the emulator was waiting for the slot to do so.                *)
LEMMA ReportPut ==
  ASSUME TypeOK, NEW m \in Reports, toUi = None, toUi' = m,
         UNCHANGED <<rdMsg, answer, toEm>>, em' \notin {"tellPause", "tellException"}
  PROVE  /\ Asked' = Asked
         /\ Reporting = <<m>> => News' = News
         /\ Reporting = <<>> => News' = Append(News, m)
<1>. USE MessageFacts
<1>1. Asked' = Asked
  <2>1. Requested(toUi) = <<>> /\ Requested(toUi') = <<>>
    OBVIOUS
  <2>. QED  BY <2>1 DEF Asked, Requested, IsRequest
<1>. DEFINE a == Reported(rdMsg)
<1>2. a \in Seq(Reports) /\ <<m>> \in Seq(Reports) /\ <<>> \in Seq(Reports)
  BY PlaceTypes
<1>3. News = a \o <<>> \o Reporting
  BY DEF News
<1>4. News' = a \o <<m>> \o <<>>
  <2>1. Reporting' = <<>> /\ Reported(toUi') = <<m>>
    BY DEF Reporting
  <2>. QED  BY <2>1 DEF News, Reported
<1>. HIDE DEF a
<1>5. a \o <<m>> \o <<>> = a \o <<>> \o <<m>>
  BY ONLY <1>2, ThreePlaces
<1>6. a \o <<>> \o <<m>> = Append(a \o <<>> \o <<>>, m)
  BY ONLY m \in Reports, <1>2, ThreePlaces
<1>. QED  BY ONLY <1>1, <1>3, <1>4, <1>5, <1>6

LEMMA EmulatorControls ==
  ASSUME TypeOK, ModeInv, BreakpointsAgree, EmulatorThread
  PROVE  RC!Next \/ UNCHANGED RC!vars
<1>. USE MessageFacts
<1>1. UNCHANGED <<ui, gui, guiMsg, rdMsg, breakpoints, registers>>
  BY DEF EmulatorThread, EmStart, EmInstruction, EmTellPause, EmTake, EmAnswer, EmResumed,
     EmExecute, EmTellException, EmFinish, Tell, EmUnchanged, guiVars, rdVars
<1>2. Lag' = Lag
  BY <1>1, SameViews
<1>3. UNCHANGED <<toEm, toUi, answer>> => UNCHANGED <<Unsure, Orders, Asked>>
  BY <1>1, SameViews
<1>4. ASSUME NEW m \in Reports, NEW next, Tell(m, next), answer' = answer,
             next \notin {"tellPause", "tellException"}
      PROVE  /\ UNCHANGED <<Unsure, Orders, Asked, mode>> /\ em' = next
             /\ Reporting = <<m>> => News' = News
             /\ Reporting = <<>> => News' = Append(News, m)
  <2>1. toUi = None /\ toUi' = m /\ UNCHANGED <<toEm, mode>> /\ em' = next
    BY <1>4 DEF Tell
  <2>2. UNCHANGED <<Unsure, Orders>>
    BY <1>1, <2>1, SameViews
  <2>3. /\ Asked' = Asked
        /\ Reporting = <<m>> => News' = News
        /\ Reporting = <<>> => News' = Append(News, m)
    BY <1>1, <1>4, <2>1, ReportPut
  <2>. QED  BY ONLY <2>1, <2>2, <2>3
<1>5. ASSUME EmStart PROVE RC!Begin
  <2>1. /\ em = "starting" /\ em' = "instruction" /\ mode' = "RUN" /\ at' \in Addresses
        /\ UNCHANGED <<toEm, toUi, answer>>
    BY <1>5 DEF EmStart
  <2>2. Target = "starting" /\ Target' = "RUN" /\ Passed' = Passed
    BY <2>1 DEF Target, Passed
  <2>3. News' = News
    BY <1>1, <2>1 DEF News, Reporting, Reported
  <2>. QED  BY <1>1, <1>2, <1>3, <2>1, <2>2, <2>3 DEF RC!Begin, RC!userVars
<1>6. CASE EmInstruction
  <2>1. em = "instruction" /\ at \in Addresses /\ UNCHANGED <<toEm, toUi, answer, at>>
    BY <1>6 DEF EmInstruction, TypeOK
  <2>2. Target = mode /\ ~Passed /\ Reporting = <<>>
    BY <2>1 DEF Target, Passed, Reporting
  <2>3. mode \in {"RUN", "STEP", "STOP", "EXC"}
    BY <2>1 DEF ModeInv, TypeOK, Terminal
  <2>4. CASE mode \notin Terminal /\ (mode = "STEP" \/ at \in bps)
    <3>1. mode' = "PAUSE" /\ em' = "tellPause"
      BY <1>6, <2>4 DEF EmInstruction
    <3>2. Target' = "PAUSE" /\ Passed'
      BY <3>1 DEF Target, Passed
    <3>3. News' = Append(News, [type |-> "onPause", addr |-> at])
      <4>. DEFINE a == Reported(rdMsg)
                  b == Reported(toUi)
                  m == [type |-> "onPause", addr |-> at]
      <4>1. News = a \o b \o <<>>
        BY <2>2 DEF News
      <4>2. News' = a \o b \o <<m>>
        BY <1>1, <2>1, <3>1 DEF News, Reporting, Reported
      <4>3. a \in Seq(Reports) /\ b \in Seq(Reports) /\ m \in Reports
        BY <2>1, PlaceTypes, ReportFacts
      <4>. HIDE DEF a, b, m
      <4>4. a \o b \o <<m>> = Append(a \o b \o <<>>, m)
        BY ONLY <4>3, ThreePlaces
      <4>. QED  BY <4>1, <4>2, <4>4 DEF m
    <3>4. mode = "STEP" \/ (mode = "RUN" /\ at \in breakpoints \cup Unsure)
      BY <2>1, <2>3, <2>4, SureOfTheRest DEF Terminal
    <3>5. RC!Break
      BY <1>1, <1>2, <1>3, <2>1, <2>2, <3>2, <3>3, <3>4 DEF RC!Break, RC!userVars
    <3>. QED  BY <3>5 DEF RC!Next
  <2>5. CASE ~(mode \notin Terminal /\ (mode = "STEP" \/ at \in bps))
    <3>1. mode' = mode /\ em' = "execute"
      BY <1>6, <2>5 DEF EmInstruction
    <3>2. Target' = Target /\ Passed'
      BY <2>2, <3>1 DEF Target, Passed
    <3>3. News' = News
      BY <1>1, <2>1, <2>2, <3>1 DEF News, Reporting, Reported
    <3>4. /\ mode \in {"RUN", "STOP", "EXC"}
          /\ mode = "RUN" /\ at \in breakpoints => at \in Unsure
      BY <2>1, <2>3, <2>5, SureOfTheRest DEF Terminal
    <3>5. RC!Pass
      BY <1>1, <1>2, <1>3, <2>1, <2>2, <3>2, <3>3, <3>4 DEF RC!Pass, RC!userVars
    <3>. QED  BY <3>5 DEF RC!Next
  <2>. QED  BY <2>4, <2>5
<1>7. ASSUME EmTellPause PROVE UNCHANGED RC!vars
  <2>. DEFINE m == [type |-> "onPause", addr |-> at]
  <2>1. /\ em = "tellPause" /\ Tell(m, "wait") /\ UNCHANGED <<at, answer>> /\ m \in Reports
    BY <1>7, ReportFacts DEF EmTellPause, TypeOK
  <2>2. Reporting = <<m>>
    BY <2>1 DEF Reporting
  <2>. HIDE DEF m
  <2>3. UNCHANGED <<Unsure, Orders, Asked, mode, News>> /\ em' = "wait"
    BY ONLY <1>4, <2>1, <2>2
  <2>4. UNCHANGED <<Target, Passed>>
    BY <2>1, <2>3 DEF Target, Passed
  <2>. QED  BY <1>1, <1>2, <2>1, <2>3, <2>4 DEF RC!vars, RC!userVars, RC!targetVars
<1>8. CASE EmTake
  <2>1. /\ em \in {"wait", "drain"} /\ toEm \in ToEmMessages /\ toEm' = None /\ Process(toEm)
        /\ UNCHANGED <<toUi, at>> /\ answer = None
    BY <1>8 DEF EmTake, TypeOK
  <2>2. em' = IF toEm.type = "request" THEN "answer" ELSE em
    BY <2>1 DEF Process
  <2>3. Target = mode /\ Target' = mode' /\ Passed /\ Passed' /\ Passed' = Passed
    BY <2>1, <2>2 DEF Target, Passed
  <2>4. News' = News
    BY <1>1, <2>1, <2>2 DEF News, Reporting, Reported
  <2>5. CASE toEm.type \in {"run", "stop"}
    <3>1. Asked' = Asked
      <4>1. Requested(toEm) = <<>> /\ Requested(None) = <<>> /\ answer' = answer
        BY <2>1, <2>5 DEF Process
      <4>. QED  BY <1>1, <2>1, <4>1 DEF Asked, Requested, IsRequest
    <3>2. Orders # <<>> /\ Head(Orders) = toEm /\ Tail(Orders) = Orders'
      <4>. DEFINE t == Ordered(guiMsg)
      <4>1. Orders = <<toEm>> \o t
        BY <2>1, <2>5 DEF Orders
      <4>2. Orders' = <<>> \o t
        BY <1>1, <2>1 DEF Orders, Ordered
      <4>3. t \in Seq({toEm, guiMsg}) /\ <<>> \in Seq({toEm, guiMsg})
        <5>1. t \in {<<>>, <<guiMsg>>} /\ <<guiMsg>> \in Seq({toEm, guiMsg})
          BY DEF Ordered
        <5>2. <<>> \in Seq({toEm, guiMsg})
          OBVIOUS
        <5>. QED  BY ONLY <5>1, <5>2
      <4>. HIDE DEF t
      <4>4. <<>> \o t = t /\ t \o <<>> = t
        BY ONLY <4>3, ConcatEmptySeq
      <4>5. LET all == <<toEm>> \o t \o <<>>
            IN all # <<>> /\ Head(all) = toEm /\ Tail(all) = <<>> \o t \o <<>>
        BY ONLY <4>3, FirstLeaves
      <4>6. <<toEm>> \o t \o <<>> = <<toEm>> \o t
        <5>1. <<toEm>> \in Seq({toEm, guiMsg})
          OBVIOUS
        <5>. QED  BY ONLY <4>3, <5>1, ThreePlaces
      <4>. QED  BY ONLY <4>1, <4>2, <4>4, <4>5, <4>6
    <3>3. Unsure' = Unsure
      <4>1. ~IsChange(toEm) /\ ~IsChange(toEm')
        BY <2>1, <2>5
      <4>. QED  BY <1>1, <4>1 DEF Unsure, IsChange
    <3>4. mode' = IF toEm.type = "stop" THEN "STOP"
                  ELSE IF mode \in {"STOP", "EXC"} THEN mode
                  ELSE IF toEm.stepping THEN "STEP" ELSE "RUN"
      BY <2>1, <2>5 DEF Process, Terminal
    <3>5. RC!Obey
      BY <1>1, <1>2, <2>1, <2>3, <2>4, <3>1, <3>2, <3>3, <3>4 DEF RC!Obey, RC!userVars
    <3>. QED  BY <3>5 DEF RC!Next
  <2>6. CASE toEm.type = "breakpoint"
    <3>1. Asked' = Asked
      <4>1. Requested(toEm) = <<>> /\ Requested(None) = <<>> /\ answer' = answer
        BY <2>1, <2>6 DEF Process
      <4>. QED  BY <1>1, <2>1, <4>1 DEF Asked, Requested, IsRequest
    <3>2. Orders' = Orders
      <4>1. Ordered(toEm) = <<>> /\ Ordered(toEm') = <<>>
        BY <2>1, <2>6
      <4>. QED  BY <1>1, <4>1 DEF Orders, Ordered
    <3>3. mode' = mode
      BY <2>1, <2>6 DEF Process
    <3>4. toEm.addr \in Unsure /\ Unsure' \in {Unsure, Unsure \ {toEm.addr}}
      <4>1. IsChange(toEm) /\ ~IsChange(toEm') /\ toEm.addr \in Addresses
        BY <2>1, <2>6, ToEmFacts
      <4>2. toEm.addr \in Unsure
        BY <4>1 DEF Unsure
      <4>3. CASE IsChange(guiMsg) /\ guiMsg.addr = toEm.addr
        <5>1. Unsure' = Unsure
          BY <1>1, <4>1, <4>3 DEF Unsure, IsChange
        <5>. QED  BY <4>2, <5>1
      <4>4. CASE ~(IsChange(guiMsg) /\ guiMsg.addr = toEm.addr)
        <5>1. Unsure' = Unsure \ {toEm.addr}
          BY <1>1, <4>1, <4>4 DEF Unsure, IsChange
        <5>. QED  BY <4>2, <5>1
      <4>. QED  BY <4>3, <4>4
    <3>5. toEm.addr \in Addresses
      BY <3>4 DEF Unsure
    <3>6. CASE Unsure' = Unsure
      BY <1>1, <1>2, <2>1, <2>3, <2>4, <3>1, <3>2, <3>3, <3>6
         DEF RC!vars, RC!userVars, RC!targetVars
    <3>7. CASE Unsure' = Unsure \ {toEm.addr}
      <4>1. RC!Settle(toEm.addr)
        BY <1>1, <1>2, <2>1, <2>3, <2>4, <3>1, <3>2, <3>3, <3>4, <3>7
           DEF RC!Settle, RC!targetVars
      <4>. QED  BY <3>5, <4>1 DEF RC!Next
    <3>. QED  BY <3>4, <3>6, <3>7
  <2>7. CASE toEm.type = "request"
    <3>1. Orders' = Orders /\ Unsure' = Unsure
      <4>1. Ordered(toEm) = <<>> /\ Ordered(toEm') = <<>> /\ ~IsChange(toEm) /\ ~IsChange(toEm')
        BY <2>1, <2>7
      <4>2. Orders' = Orders
        BY <1>1, <4>1 DEF Orders, Ordered
      <4>3. Unsure' = Unsure
        BY <1>1, <4>1 DEF Unsure, IsChange
      <4>. QED  BY <4>2, <4>3
    <3>2. Asked' = Asked
      <4>. DEFINE a == Requested(rdMsg)
                  b == Requested(toUi)
                  d == <<toEm.ctx>>
      <4>1. answer' = Answer(toEm) /\ Answer(toEm) \in Answers /\ toEm.ctx \in Asks
        BY <2>1, <2>7, ToEmFacts DEF Process
      <4>2. Requested(toEm) = d /\ Requested(answer) = <<>>
        BY <2>1, <2>7
      <4>3. Requested(answer') = d /\ Requested(toEm') = <<>>
        BY <2>1, <4>1 DEF Answer
      <4>4. Asked = a \o b \o <<>> \o d
        BY <4>2 DEF Asked
      <4>5. Asked' = a \o b \o d \o <<>>
        BY <1>1, <2>1, <4>3 DEF Asked, Requested, IsRequest
      <4>6. a \in Seq(Asks) /\ b \in Seq(Asks) /\ d \in Seq(Asks)
        BY <4>1, PlaceTypes
      <4>. HIDE DEF a, b, d
      <4>7. a \o b \o <<>> \o d = a \o b \o d \o <<>>
        BY ONLY <4>6, FourPlaces
      <4>. QED  BY ONLY <4>4, <4>5, <4>7
    <3>3. mode' = mode
      BY <2>1, <2>7 DEF Process
    <3>. QED
      BY <1>1, <1>2, <2>1, <2>3, <2>4, <3>1, <3>2, <3>3 DEF RC!vars, RC!userVars, RC!targetVars
  <2>. QED  BY <2>1, <2>5, <2>6, <2>7
<1>9. ASSUME EmAnswer PROVE UNCHANGED RC!vars
  <2>1. /\ em = "answer" /\ em' \in {"wait", "drain"} /\ answer \in Answers /\ answer' = None
        /\ toUi = None /\ toUi' = answer /\ UNCHANGED <<toEm, mode, at>>
    BY <1>9 DEF EmAnswer, Tell, TypeOK
  <2>2. UNCHANGED <<Unsure, Orders>>
    BY <1>1, <2>1, SameViews
  <2>3. UNCHANGED <<Target, Passed>>
    BY <2>1 DEF Target, Passed
  <2>4. News' = News
    <3>1. Reported(toUi) = <<>> /\ Reported(toUi') = <<>>
      BY <2>1
    <3>. QED  BY <1>1, <2>1, <3>1 DEF News, Reporting, Reported
  <2>5. Asked' = Asked
    <3>. DEFINE a == Requested(rdMsg)
                c == Requested(answer)
                d == Requested(toEm)
    <3>1. Asked = a \o <<>> \o c \o d
      BY <2>1 DEF Asked
    <3>2. Asked' = a \o c \o <<>> \o d
      BY <1>1, <2>1 DEF Asked, Requested, IsRequest
    <3>3. a \in Seq(Asks) /\ c \in Seq(Asks) /\ d \in Seq(Asks)
      BY PlaceTypes
    <3>. HIDE DEF a, c, d
    <3>4. a \o <<>> \o c \o d = a \o c \o <<>> \o d
      BY ONLY <3>3, FourPlaces
    <3>. QED  BY ONLY <3>1, <3>2, <3>4
  <2>. QED
    BY <1>1, <1>2, <2>1, <2>2, <2>3, <2>4, <2>5 DEF RC!vars, RC!userVars, RC!targetVars
<1>10. ASSUME EmResumed PROVE UNCHANGED RC!vars
  <2>1. /\ em \in {"wait", "drain"} /\ em' \in {"drain", "execute"}
        /\ UNCHANGED <<toEm, toUi, mode, at, answer>>
    BY <1>10 DEF EmResumed
  <2>2. UNCHANGED <<Target, Passed>>
    BY <2>1 DEF Target, Passed
  <2>3. News' = News
    BY <1>1, <2>1 DEF News, Reporting, Reported
  <2>. QED  BY <1>1, <1>2, <1>3, <2>1, <2>2, <2>3 DEF RC!vars, RC!userVars, RC!targetVars
<1>11. CASE EmExecute
  <2>1. em = "execute" /\ UNCHANGED <<toEm, toUi, answer>>
    BY <1>11 DEF EmExecute
  <2>2. Target = mode /\ Passed /\ Reporting = <<>> /\ mode \in {"RUN", "STEP", "STOP", "EXC"}
    BY <2>1 DEF Target, Passed, Reporting, ModeInv, TypeOK, Terminal
  <2>3. CASE em' = "instruction" /\ at' \in Addresses /\ mode' = mode
    <3>1. Target' = mode /\ ~Passed'
      BY <2>3 DEF Target, Passed
    <3>2. News' = News
      BY <1>1, <2>1, <2>2, <2>3 DEF News, Reporting, Reported
    <3>3. RC!Execute
      BY <1>1, <1>2, <1>3, <2>1, <2>2, <2>3, <3>1, <3>2 DEF RC!Execute, RC!Moving, RC!userVars
    <3>. QED  BY <3>3 DEF RC!Next
  <2>4. CASE em' = "tellException" /\ mode' = "EXC" /\ at' = at
    <3>1. Target' = "EXC" /\ Passed' /\ Passed' = Passed
      BY <2>2, <2>4 DEF Target, Passed
    <3>2. News' = Append(News, [type |-> "onException"])
      <4>. DEFINE a == Reported(rdMsg)
                  b == Reported(toUi)
                  m == [type |-> "onException"]
      <4>1. News = a \o b \o <<>>
        BY <2>2 DEF News
      <4>2. News' = a \o b \o <<m>>
        BY <1>1, <2>1, <2>4 DEF News, Reporting, Reported
      <4>3. a \in Seq(Reports) /\ b \in Seq(Reports) /\ m \in Reports
        BY PlaceTypes, ReportFacts
      <4>. HIDE DEF a, b, m
      <4>4. a \o b \o <<m>> = Append(a \o b \o <<>>, m)
        BY ONLY <4>3, ThreePlaces
      <4>. QED  BY <4>1, <4>2, <4>4 DEF m
    <3>3. RC!Fail
      BY <1>1, <1>2, <1>3, <2>1, <2>2, <2>4, <3>1, <3>2 DEF RC!Fail, RC!Moving, RC!userVars
    <3>. QED  BY <3>3 DEF RC!Next
  <2>5. CASE em' = "finish" /\ UNCHANGED <<mode, at>>
    <3>1. Target' = Target /\ Passed' = Passed
      BY <2>1, <2>5 DEF Target, Passed
    <3>2. News' = News
      BY <1>1, <2>1, <2>5 DEF News, Reporting, Reported
    <3>. QED
      BY <1>1, <1>2, <1>3, <2>1, <2>5, <3>1, <3>2 DEF RC!vars, RC!userVars, RC!targetVars
  <2>. QED  BY <1>11, <2>3, <2>4, <2>5 DEF EmExecute
<1>12. ASSUME EmTellException PROVE RC!Execute
  <2>. DEFINE m == [type |-> "onException"]
  <2>1. /\ em = "tellException" /\ Tell(m, "instruction") /\ at' \in Addresses
        /\ answer' = answer /\ m \in Reports
    BY <1>12, ReportFacts DEF EmTellException
  <2>2. Reporting = <<m>>
    BY <2>1 DEF Reporting
  <2>. HIDE DEF m
  <2>3. UNCHANGED <<Unsure, Orders, Asked, mode, News>> /\ em' = "instruction"
    BY ONLY <1>4, <2>1, <2>2
  <2>4. /\ Target = mode /\ Target' = mode /\ Passed /\ ~Passed'
        /\ mode = "EXC"
    BY <2>1, <2>3 DEF Target, Passed, ModeInv
  <2>. QED  BY <1>1, <1>2, <2>1, <2>3, <2>4 DEF RC!Execute, RC!Moving, RC!userVars
<1>13. CASE EmFinish
  <2>1. em = "finish" /\ em' = "done" /\ UNCHANGED <<at, answer>>
    BY <1>13 DEF EmFinish, Tell
  <2>2. /\ Target = mode /\ Passed /\ Reporting = <<>> /\ mode \in {"RUN", "STEP", "STOP", "EXC"}
        /\ Target' = "ended" /\ ~Passed'
    BY <2>1 DEF Target, Passed, Reporting, ModeInv, TypeOK, Terminal
  <2>3. /\ UNCHANGED <<Unsure, Orders, Asked>>
        /\ News' = IF mode = "STOP" THEN Append(News, [type |-> "onStop"]) ELSE News
    <3>1. CASE mode = "STOP" /\ Tell([type |-> "onStop"], "done")
      <4>1. [type |-> "onStop"] \in Reports
        BY ReportFacts
      <4>2. UNCHANGED <<Unsure, Orders, Asked>> /\ News' = Append(News, [type |-> "onStop"])
        BY ONLY <1>4, <2>1, <2>2, <3>1, <4>1
      <4>. QED  BY <3>1, <4>2
    <3>2. CASE mode # "STOP" /\ UNCHANGED <<toEm, toUi>>
      <4>1. News' = News
        BY <1>1, <2>1, <3>2 DEF News, Reporting, Reported
      <4>. QED  BY <1>3, <2>1, <3>2, <4>1
    <3>. QED  BY <1>13, <3>1, <3>2 DEF EmFinish
  <2>4. RC!End
    BY <1>1, <1>2, <2>1, <2>2, <2>3 DEF RC!End, RC!Moving, RC!userVars
  <2>. QED  BY <2>4 DEF RC!Next
<1>. QED
  BY <1>5, <1>6, <1>7, <1>8, <1>9, <1>10, <1>11, <1>12, <1>13 DEF EmulatorThread, RC!Next

LEMMA ControlsBegin == ASSUME Init PROVE RC!Init
<1>. USE MessageFacts
<1>1. /\ Unsure = {} /\ Orders = <<>> /\ Asked = <<>> /\ News = <<>>
      /\ Target = "none" /\ Passed = FALSE /\ Lag = "nothing"
  BY DEF Init, Unsure, Orders, Asked, News, Reporting, Target, Passed, Lag, Resuming
<1>2. registers \in Contexts
  BY InitType DEF TypeOK
<1>. QED  BY <1>1, <1>2 DEF Init, RC!Init

(* The three threads and the two slots implement the abstract session:     *)
(* the target pauses where the breakpoints say, moves on when it is        *)
(* ordered to, obeys each order once and in turn, and each report and each *)
(* answer is shown once and in turn, whatever waits for which slot.        *)
THEOREM SessionImplementsRemoteControl == Spec => ImplementsRemoteControl
<1>1. Init => RC!Init
  BY ControlsBegin
<1>2. Inv /\ [Next]_vars => [RC!Next]_RC!vars
  <2>. SUFFICES ASSUME Inv, [Next]_vars PROVE RC!Next \/ UNCHANGED RC!vars
    OBVIOUS
  <2>1. TypeOK /\ ModeInv /\ BreakpointsAgree
    BY DEF Inv
  <2>2. CASE UNCHANGED vars
    <3>1. UNCHANGED <<toEm, toUi, answer, rdMsg, guiMsg, gui, em, mode, at, ui, breakpoints,
                      registers>>
      BY <2>2 DEF vars, guiVars, rdVars, emVars
    <3>2. UNCHANGED <<Unsure, Orders, Asked, News, Target, Passed, Lag>>
      BY <3>1, SameViews
    <3>. QED  BY <3>1, <3>2 DEF RC!vars, RC!userVars, RC!targetVars
  <2>. QED
    BY <2>1, <2>2, UserControls, GuiControls, ReaderControls, EmulatorControls DEF Next
<1>. QED  BY <1>1, <1>2, InvCorrect, PTL DEF Spec, ImplementsRemoteControl, RC!Spec

=============================================================================
