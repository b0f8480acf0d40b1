----------------------------- MODULE Interrupts -----------------------------
(***************************************************************************)
(* Delivery of interrupts: the main loop (src/src/emulator/mzarch/         *)
(* mzarch.c) lets the CPU execute instructions and looks for an interrupt  *)
(* only in the block of events at the end of an instruction, which it      *)
(* enters when the next event is due.  Whoever raises a request may have   *)
(* to bring the event forward ("break", MZEVENT_BREAK_MZARCH_INTERRUPT).   *)
(*                                                                         *)
(* Time is left out: the next event of the video circuit may be due at the *)
(* end of any instruction, and one event may happen each time the events   *)
(* are processed.  An event that enables a port of the PIO after a delay   *)
(* is due in the instruction that follows an OUT and at its end, but at    *)
(* the end of an OUTI or OTIR itself.  HALT is an instruction like the     *)
(* others.  CTC2 stands for the sources that do not look at the            *)
(* acknowledge.                                                            *)
(***************************************************************************)
EXTENDS PioZ80

CONSTANTS
  Word,    \* control words the program writes: records with their port
  Data     \* data it writes: records of port and value

ControlWord ==
  [port : Port, kind : {"mode"}, mode : {"output", "input", "bidir", "user"}]
  \cup [port : Port, kind : {"ena"}, ena : BOOLEAN]
  \cup [port : Port, kind : {"icw"}, ena : BOOLEAN, fnc : {"or", "and"},
       lvl : {"low", "high"}, mask : BOOLEAN]

ASSUME ProgramAssumption ==
  Word \subseteq ControlWord /\ Data \subseteq [port : Port, value : SUBSET Pin]

VARIABLES
  hw,          \* the PIO, CTC2 and the line INT
  iff1, iff2,  \* interrupts enabled; what RETN restores
  eiDelay,     \* ei_delay: EI has just been executed
  intPending,  \* int_pending: the CPU itself holds a request
  nmiPending,  \* nmi_pending
  slot,        \* g_mzarch_main.event: "real", "shift" (MZEVENT_PIOZ80) or "break"
  at,          \* where the main loop stands
  lineHeld,    \* history: EI executed with a request on the line, not taken yet
  injectHeld   \* history: EI executed with a request held by the CPU

cpuVars  == <<iff1, iff2, eiDelay, intPending, nmiPending>>
histVars == <<lineHeld, injectHeld>>
vars == <<hw, cpuVars, slot, at, histVars>>

-----------------------------------------------------------------------------
(* Events. *)

\* mzarch_main_queue_next_event()
NextEvent(h) == IF h.shift = NoPort THEN "real" ELSE "shift"

\* An event of the video circuit or of the counters, or none.
Advance(h) ==
  {h} \cup {PinEvent(h, v) : v \in SUBSET Pin}
      \cup {Ctc2Event(h, c) : c \in BOOLEAN}

\* The same with the delayed event of the PIO before or after it.
AdvanceAll(h) == Advance(EnaEvent(h)) \cup {EnaEvent(g) : g \in Advance(h)}

\* mzarch_main_insideop(): an instruction brings the time up to date before it
\* reaches a device, and asks for a look at the line at its end.
InsideOp(H) ==
  \E h \in H :
    /\ hw' = h
    /\ slot' = IF h.irq # {} THEN "break" ELSE NextEvent(h)

-----------------------------------------------------------------------------
(* An instruction. *)

Begin == at = "step" /\ at' = "end" /\ UNCHANGED <<intPending, nmiPending>>

Plain ==
  /\ Begin
  /\ eiDelay' = FALSE
  /\ UNCHANGED <<hw, iff1, iff2, slot>>

\* mzarch_ei_cb() asks for a look at the line.
EiSilent ==                                        \* mutant of Ei
  /\ Begin
  /\ iff1' = TRUE /\ iff2' = TRUE /\ eiDelay' = TRUE
  /\ UNCHANGED <<hw, slot>>

Ei ==
  /\ Begin
  /\ iff1' = TRUE /\ iff2' = TRUE /\ eiDelay' = TRUE
  /\ slot' = IF hw.irq # {} THEN "break" ELSE slot
  /\ UNCHANGED hw

Di ==
  /\ Begin
  /\ iff1' = FALSE /\ iff2' = FALSE /\ eiDelay' = FALSE
  /\ UNCHANGED <<hw, slot>>

Retn ==
  /\ Begin
  /\ iff1' = iff2 /\ eiDelay' = FALSE
  /\ UNCHANGED <<hw, iff2, slot>>

RetI ==
  /\ Begin
  /\ iff1' = iff2 /\ eiDelay' = FALSE
  /\ hw' = Reti(hw)
  /\ UNCHANGED <<iff2, slot>>

\* An access to the video memory, in which the delayed event may be due.
Access ==
  /\ Begin
  /\ eiDelay' = FALSE
  /\ InsideOp(Advance(hw) \cup AdvanceAll(hw))
  /\ UNCHANGED <<iff1, iff2>>

\* OUT brings the time up to date, then writes.
Out ==
  /\ at = "step" /\ at' = "write"
  /\ eiDelay' = FALSE
  /\ InsideOp(AdvanceAll(hw))
  /\ UNCHANGED <<iff1, iff2, intPending, nmiPending>>

\* The write may queue the delayed event over whatever event was queued. Its
\* time is reckoned from the clocks of an OUT, which OUTI and OTIR outlast.
Written(h) ==
  /\ at = "write"
  /\ hw' = h
  /\ IF h.shift # NoPort THEN slot' = "shift" /\ at' \in {"step", "end"}
     ELSE at' = "end" /\ UNCHANGED slot
  /\ UNCHANGED cpuVars

WriteControl ==
  \/ \E w \in Word :
       hw.port[w.port].expect = "command" /\ Written(WriteWord(hw, w.port, w))
  \/ \E x \in Port, v \in SUBSET Pin :
       hw.port[x].expect # "command" /\ Written(WriteMask(hw, x, v))

\* Data, PC02 or CTC2, and CTC0, whose output is a pin of port A.
WriteOther ==
  \/ \E d \in Data : Written(WriteData(hw, d.port, d.value))
  \/ \E c \in BOOLEAN : Written(Ctc2Event(hw, c))
  \/ \E v \in SUBSET Pin : Written(PinEvent(hw, v))

-----------------------------------------------------------------------------
(* The end of an instruction. *)

NotDue ==
  /\ at = "end" /\ slot = "real"
  /\ at' = "step"
  /\ UNCHANGED <<hw, cpuVars, slot>>

\* A command of the debugger may inject a request into the CPU.
Inject ==
  \/ intPending' = TRUE /\ UNCHANGED nmiPending
  \/ nmiPending' = TRUE /\ UNCHANGED intPending
  \/ UNCHANGED <<intPending, nmiPending>>

\* The events are processed, then the debugger's commands are carried out.
Due ==
  /\ at = "end" /\ at' = "accept"
  /\ \E h \in AdvanceAll(hw) : hw' = h
  /\ slot' = "real"
  /\ Inject
  /\ UNCHANGED <<iff1, iff2, eiDelay>>

\* mzarch_main_process_interrupt()
Requested == hw.irq # {} \/ intPending \/ nmiPending
Enabled == iff1 /\ ~eiDelay

NothingToAccept ==
  /\ at = "accept" /\ ~Requested
  /\ at' = "step"
  /\ UNCHANGED <<hw, cpuVars, slot>>

\* Looks again at the end of the next instruction.
Blocked ==
  /\ at = "accept" /\ Requested /\ ~nmiPending /\ ~Enabled
  /\ slot' = "break"
  /\ at' = "step"
  /\ UNCHANGED <<hw, cpuVars>>

\* Accepting takes time, in which an event may be due.
AcceptNmi ==
  /\ at = "accept" /\ nmiPending
  /\ intPending' = (intPending \/ (hw.irq # {} /\ Enabled))
  /\ nmiPending' = FALSE
  /\ iff2' = iff1 /\ iff1' = FALSE /\ eiDelay' = FALSE
  /\ \E h \in Advance(hw) : hw' = h
  /\ at' = "step"
  /\ UNCHANGED slot

AcceptInt ==
  /\ at = "accept" /\ Requested /\ ~nmiPending /\ Enabled
  /\ intPending' = FALSE
  /\ iff1' = FALSE /\ iff2' = FALSE /\ eiDelay' = FALSE
  /\ \E h \in Advance(Ack(hw)) : hw' = h
  /\ at' = "step"
  /\ UNCHANGED <<nmiPending, slot>>

-----------------------------------------------------------------------------
(* Between two instructions. *)

\* The loop of the pause, where the debugger's commands are carried out, and
\* mzarch_main_resume_interrupt_check() on the way out.
Pause ==
  /\ at = "step"
  /\ Inject
  /\ slot' = IF hw.irq # {} \/ intPending' \/ nmiPending' THEN "break" ELSE NextEvent(hw)
  /\ UNCHANGED <<hw, iff1, iff2, eiDelay, at>>

Reset ==
  /\ at = "step"
  /\ hw' = ResetHw(hw)
  /\ iff1' = FALSE /\ iff2' = FALSE /\ eiDelay' = FALSE
  /\ intPending' = FALSE /\ nmiPending' = FALSE
  /\ UNCHANGED <<slot, at>>

\* What EI left to do: history only.
Held ==
  LET ei == at = "step" /\ at' = "end" /\ eiDelay'
  IN /\ lineHeld'   = (iff1' /\ hw'.irq # {} /\ (lineHeld \/ ei))
     /\ injectHeld' = (iff1' /\ intPending' /\ (injectHeld \/ ei))

Step ==
  \/ Plain \/ Ei \/ Di \/ Retn \/ RetI \/ Access
  \/ Out \/ WriteControl \/ WriteOther
  \/ NotDue \/ Due \/ NothingToAccept \/ Blocked \/ AcceptNmi \/ AcceptInt
  \/ Pause \/ Reset

Next == Step /\ Held

Init ==
  /\ hw = [port |-> [x \in Port |-> ResetPort], int |-> "none", served |-> NoPort,
           shift |-> NoPort, pins |-> Pin, ctc2 |-> FALSE, irq |-> {}]
  /\ iff1 = FALSE /\ iff2 = FALSE /\ eiDelay = FALSE
  /\ intPending = FALSE /\ nmiPending = FALSE
  /\ slot = "real" /\ at = "step"
  /\ lineHeld = FALSE /\ injectHeld = FALSE

Spec == Init /\ [][Next]_vars

-----------------------------------------------------------------------------
(* Properties. *)

\* The variables have their types.
TypeOK ==
  /\ hw \in HwState
  /\ {iff1, iff2, eiDelay, intPending, nmiPending, lineHeld, injectHeld} \subseteq BOOLEAN
  /\ slot \in {"real", "shift", "break"}
  /\ at \in {"step", "write", "end", "accept"}

\* The state of the chip is that of its ports: one port at most is in service,
\* the one RETI will release; otherwise a request is out just if an enabled port
\* has one, so that an acknowledge always finds the port it is for.
ChipAgrees ==
  LET inService == {x \in Port : hw.port[x].int \in {"received", "repending"}}
  IN /\ hw.int = "received" => hw.served # NoPort /\ inService = {hw.served}
     /\ hw.int # "received" =>
          /\ hw.served = NoPort /\ inService = {}
          /\ hw.int = "pending" <=> Wanting(hw) # {}

\* The line is the one the sources ask for.  A reset alone may leave out CTC2,
\* whose output it does not change, until a source moves again.
LineTrue ==
  /\ "pio" \in hw.irq <=> hw.int = "pending"
  /\ "ctc2" \in hw.irq => hw.ctc2

\* A request that EI lets in is taken at the end of the next instruction
\* (interrupt.c:139), but for a write that queued the delayed event over it.
EiTakesAtOnce ==
  at = "step" /\ lineHeld /\ ~eiDelay => hw.shift # NoPort

\* dispatch.c:7431 says of an injected interrupt that it is taken after the
\* nearest EI: once the instruction behind EI is done, the CPU holds it no more.
InjectAfterEi == at = "step" /\ injectHeld => eiDelay
=============================================================================
