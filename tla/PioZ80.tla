------------------------------- MODULE PioZ80 -------------------------------
(***************************************************************************)
(* The parallel port Z80 PIO (src/src/emulator/hw-generic/pioz80/pioz80.c) *)
(* and the interrupt request it shares with the counter CTC2 (mzarch/      *)
(* interrupt.c), as functions of their state: what a write, a pin, an      *)
(* acknowledge or a RETI makes of it.  Module Interrupts drives them.      *)
(*                                                                         *)
(* Only the bits in Pin are modelled; the interrupt mask of a port hides   *)
(* the others.  The interrupt vector and the printer on port A have no     *)
(* influence on the requests and are left out.                             *)
(***************************************************************************)
EXTENDS FiniteSets

CONSTANTS
  Pin,      \* bits of a port that can raise an interrupt
  NoPort    \* PIOZ80_PORT_NONE

ASSUME PioAssumption == NoPort \notin {"A", "B"}

Port == {"A", "B"}

\* One port.  "ena" is PIOZ80_ICENA_ENABLED; "int" has two bits in the code, of
\* which "repending" has both.
PortState == [
  mode   : {"output", "input", "bidir", "user"},
  ioMask : SUBSET Pin,                        \* bits that are inputs
  icMask : SUBSET Pin,                        \* bits that raise no interrupt
  ena    : BOOLEAN,
  fnc    : {"or", "and"},
  lvl    : {"low", "high"},
  expect : {"command", "iomask", "intmask"},
  out    : SUBSET Pin,
  masked : SUBSET Pin,
  met    : BOOLEAN,                           \* last_intfnc_result
  int    : {"none", "pending", "received", "repending"} ]

\* The chip, the sources of the interrupt line INT and its bits.
HwState == [
  port   : [Port -> PortState],
  int    : {"none", "pending", "received"},   \* g_pioz80.interrupt
  served : Port \cup {NoPort},                \* interrupt_port_id
  shift  : Port \cup {NoPort},                \* icena_event_port_id
  pins   : SUBSET Pin,                        \* levels at the inputs of port A
  ctc2   : BOOLEAN,                           \* OUT of CTC2 and PC02 of the 8255
  irq    : SUBSET {"pio", "ctc2"} ]           \* g_mzarch_main.interrupt

ResetPort == [
  mode |-> "input", ioMask |-> Pin, icMask |-> Pin, ena |-> FALSE,
  fnc |-> "or", lvl |-> "low", expect |-> "command",
  out |-> {}, masked |-> {}, met |-> FALSE, int |-> "none" ]

\* mzarch_main_reset(): the levels outside stay, and the sources of INT are not
\* looked at again.
ResetHw(h) == [h EXCEPT
  !.port = [x \in Port |-> ResetPort],
  !.int = "none", !.served = NoPort, !.shift = NoPort, !.irq = {}]

-----------------------------------------------------------------------------
(* Interrupt requests. *)

\* mzarch_interrupt_manager(): looks at every source.
ManagerLatches(h) == [h EXCEPT !.irq = @ \cup     \* mutant of InterruptManager
  {s \in {"pio", "ctc2"} : IF s = "pio" THEN h.int = "pending" ELSE h.ctc2}]
InterruptManager(h) == [h EXCEPT !.irq =
  {s \in {"pio", "ctc2"} : IF s = "pio" THEN h.int = "pending" ELSE h.ctc2}]

Wanting(h) == {x \in Port : h.port[x].int = "pending" /\ h.port[x].ena}

\* Port A goes first.
First(S) == IF "A" \in S THEN "A" ELSE "B"

\* pioz80_interrupt_manager(), without the guard below.
Escalate(h) ==
  LET received == {x \in Port : h.port[x].int = "received"}
      level    == IF Wanting(h) = {} THEN "none" ELSE "pending"
  IN IF received # {}
     THEN InterruptManager([h EXCEPT !.int = "received", !.served = First(received)])
     ELSE IF level = h.int THEN h ELSE InterruptManager([h EXCEPT !.int = level])

\* Nothing changes while a request is in service: only RETI ends that.
Manager(h) == IF h.int = "received" THEN h ELSE Escalate(h)

PendingBit(h, x) == h.port[x].int \in {"pending", "repending"}

\* Clears the pending bit of the port.
Drop(h, x) == [h EXCEPT !.port[x].int =
  IF @ \in {"received", "repending"} THEN "received" ELSE "none"]

Activate(h, x) ==
  IF PendingBit(h, x) THEN h
  ELSE Manager([h EXCEPT !.port[x].int = IF @ = "none" THEN "pending" ELSE "repending"])

-----------------------------------------------------------------------------
(* The inputs of a port and its interrupt function. *)

\* The inputs of port B are fixed at 1.
RawInput(h, x) == IF x = "A" THEN h.pins ELSE Pin

MaskedInput(h, x) ==
  LET c == h.port[x]
      v == (RawInput(h, x) \cap c.ioMask) \cup (c.out \ c.ioMask)
  IN (IF c.lvl = "low" THEN Pin \ v ELSE v) \ c.icMask

Met(c, masked) == IF c.fnc = "or" THEN masked # {} ELSE Pin \ c.icMask \subseteq masked

SaveInput(h, x) == [h EXCEPT
  !.port[x].masked = MaskedInput(h, x),
  !.port[x].met = Met(h.port[x], MaskedInput(h, x))]

\* pioz80_port_event(): something has changed that the inputs depend on.
PortEvent(h, x) ==
  LET c == h.port[x]
      s == SaveInput(h, x)
      d == s.port[x]
  IN IF c.expect = "intmask" \/ c.int = "pending" \/ d.masked = c.masked THEN h
     ELSE IF d.met = c.met THEN s
     ELSE IF d.met THEN Activate(s, x)
     ELSE IF c.int = "repending" THEN Drop(s, x) ELSE s

PinEvent(h, v) == PortEvent([h EXCEPT !.pins = v], "A")

\* CTC2 changes its output, or a write to the 8255 changes PC02.
Ctc2Event(h, v) == InterruptManager([h EXCEPT !.ctc2 = v])

-----------------------------------------------------------------------------
(* Writes to a port. *)

WriteData(h, x, v) == PortEvent([h EXCEPT !.port[x].out = v], x)

\* The mode control word.  Mode 3 waits for the I/O mask.
WriteMode(h, x, m) ==
  IF m = "user" THEN [h EXCEPT !.port[x].expect = "iomask"]
  ELSE LET g == [h EXCEPT !.port[x].ioMask = IF m = "output" THEN {} ELSE Pin]
           a == IF g.port[x].mode = "user" /\ g.port[x].fnc = "or"
                THEN Activate(g, x) ELSE g
       IN [a EXCEPT !.port[x].mode = m]

WriteIoMask(h, x, v) ==
  LET g == [h EXCEPT !.port[x].mode = "user", !.port[x].ioMask = v,
                     !.port[x].expect = "command"]
  IN IF h.port[x].mode = "user" THEN PortEvent(g, x) ELSE SaveInput(g, x)

\* Enabling takes effect with an event of its own, 3 clocks into the next
\* instruction; disabling at once.
Delayed(h, x, e) == e /\ ~h.port[x].ena
SetEna(h, x, e) ==
  IF Delayed(h, x, e) THEN [h EXCEPT !.shift = x]
  ELSE IF e = h.port[x].ena THEN h
  ELSE Manager([h EXCEPT !.port[x].ena = e])

EnaEvent(h) == IF h.shift = NoPort THEN h
  ELSE [Manager([h EXCEPT !.port[h.shift].ena = TRUE]) EXCEPT !.shift = NoPort]

WriteDisable(h, x, e) ==
  IF Delayed(h, x, e) THEN SetEna(h, x, e) ELSE Manager(SetEna(h, x, e))

\* The interrupt control word, with a mask to follow: takes the request back.
WriteIcwMask(h, x, w) == Manager(Drop([h EXCEPT
  !.port[x].lvl = w.lvl, !.port[x].fnc = w.fnc, !.port[x].ena = w.ena,
  !.port[x].expect = "intmask"], x))

\* And without.
WriteIcw(h, x, w) ==
  LET g == SetEna([h EXCEPT !.port[x].lvl = w.lvl, !.port[x].fnc = w.fnc], x, w.ena)
  IN IF h.port[x].mode # "user" THEN g
     ELSE IF Delayed(h, x, w.ena) THEN PortEvent(g, x) ELSE Manager(PortEvent(g, x))

WriteIntMask(h, x, v) ==
  SaveInput([h EXCEPT !.port[x].icMask = v, !.port[x].expect = "command"], x)

\* pioz80_port_wr_ctrl(): what a control word w, or the mask v, does.
WriteWord(h, x, w) ==
  CASE w.kind = "mode" -> WriteMode(h, x, w.mode)
    [] w.kind = "ena"  -> WriteDisable(h, x, w.ena)
    [] w.kind = "icw"  -> IF w.mask THEN WriteIcwMask(h, x, w) ELSE WriteIcw(h, x, w)
WriteMask(h, x, v) ==
  IF h.port[x].expect = "iomask" THEN WriteIoMask(h, x, v) ELSE WriteIntMask(h, x, v)

-----------------------------------------------------------------------------
(* The CPU accepts an interrupt and returns from one. *)

\* pioz80_interrupt_ack(), and its twin called for the vector in mode 2.
AckPort(h) == First(Wanting(h))
Ack(h) ==
  IF h.int # "pending" THEN h
  ELSE LET x == AckPort(h)
       IN SaveInput(Manager([h EXCEPT !.port[x].int = "received"]), x)

\* pioz80_interrupt_reti_cb(): the request that came meanwhile waits again.
ClearReceived(i) == IF i \in {"pending", "repending"} THEN "pending" ELSE "none"

RetiForgets(h) ==                                  \* mutant of Reti
  IF h.int # "received" THEN h
  ELSE [h EXCEPT !.port[h.served].int = ClearReceived(@),
                 !.int = "none", !.served = NoPort]
Reti(h) ==
  IF h.int # "received" THEN h
  ELSE Manager([h EXCEPT
         !.port[h.served].int = ClearReceived(@),
         !.int = "none", !.served = NoPort])
=============================================================================
