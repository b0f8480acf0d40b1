-------------------------- MODULE InterruptsProofs --------------------------
(***************************************************************************)
(* Proofs, for any bits, any control words and any data, of the safety     *)
(* properties of Interrupts.  Most of it is about the functions of module  *)
(* PioZ80: each of them takes a chip that agrees with its ports and whose  *)
(* line is true to another such chip.                                      *)
(***************************************************************************)
EXTENDS Interrupts, TLAPS

(***************************************************************************)
(* Good(h): the chip agrees with its ports.  Loose(h): what the interrupt  *)
(* manager of the chip needs to make it so; the ports may want a request   *)
(* that is not out, or one of them may have just been acknowledged.        *)
(***************************************************************************)
Serves(h, x) == h.port[x].int \in {"received", "repending"}
Wants(h, x)  == h.port[x].int = "pending" /\ h.port[x].ena

Line(h) ==
  /\ "pio" \in h.irq <=> h.int = "pending"
  /\ "ctc2" \in h.irq => h.ctc2

ServedRight(h) ==
  h.int = "received" =>
    h.served \in Port /\ \A x \in Port : Serves(h, x) <=> x = h.served

Good(h) ==
  /\ h \in HwState /\ Line(h) /\ ServedRight(h)
  /\ h.int # "received" =>
       /\ h.served = NoPort
       /\ \A x \in Port : ~Serves(h, x)
       /\ h.int = "pending" <=> \E x \in Port : Wants(h, x)

Loose(h) ==
  /\ h \in HwState /\ Line(h) /\ ServedRight(h)
  /\ h.int # "received" =>
       /\ h.served = NoPort
       /\ \A x \in Port : h.port[x].int # "repending"
       /\ \A x, y \in Port :
            h.port[x].int = "received" /\ h.port[y].int = "received" => x = y

(***************************************************************************)
(* A request that EI lets in is on the line with interrupts enabled, and   *)
(* the end of the instruction is an event, at which the line is looked at. *)
(***************************************************************************)
EiInv ==
  lineHeld =>
    /\ iff1 /\ hw.irq # {}
    /\ at \in {"step", "end"} => slot # "real"
    /\ at = "write" => slot = "break"
    /\ at = "step" => eiDelay \/ hw.shift # NoPort

IInv == TypeOK /\ Good(hw) /\ EiInv
-----------------------------------------------------------------------------
(* A chip with one port set. *)

LEMMA SetPort ==
  ASSUME NEW h \in HwState, NEW x \in Port, NEW c \in PortState
  PROVE  /\ [h EXCEPT !.port[x] = c] \in HwState
         /\ [h EXCEPT !.port[x] = c].port = [h.port EXCEPT ![x] = c]
         /\ [h EXCEPT !.port[x] = c].int = h.int
         /\ [h EXCEPT !.port[x] = c].served = h.served
         /\ [h EXCEPT !.port[x] = c].shift = h.shift
         /\ [h EXCEPT !.port[x] = c].pins = h.pins
         /\ [h EXCEPT !.port[x] = c].ctc2 = h.ctc2
         /\ [h EXCEPT !.port[x] = c].irq = h.irq
BY DEF HwState

-----------------------------------------------------------------------------
(* The interrupt manager. *)

LEMMA GoodIsLoose ==
  ASSUME NEW h, Good(h)
  PROVE  Loose(h)
BY DEF Good, Loose, Serves

LEMMA ManagerLine ==
  ASSUME NEW h \in HwState
  PROVE  /\ InterruptManager(h) \in HwState /\ Line(InterruptManager(h))
         /\ InterruptManager(h).port = h.port /\ InterruptManager(h).int = h.int
         /\ InterruptManager(h).served = h.served /\ InterruptManager(h).shift = h.shift
<1> DEFINE lit == {s \in {"pio", "ctc2"} : IF s = "pio" THEN h.int = "pending" ELSE h.ctc2}
<1>1. /\ lit \in SUBSET {"pio", "ctc2"}
      /\ "pio" \in lit <=> h.int = "pending"
      /\ "ctc2" \in lit <=> h.ctc2
  BY DEF HwState
<1>2. InterruptManager(h) = [h EXCEPT !.irq = lit]
  BY DEF InterruptManager
<1> HIDE DEF lit
<1> QED
  BY <1>1, <1>2 DEF HwState, Line

LEMMA EscalateGood ==
  ASSUME NEW h, Loose(h), h.int # "received"
  PROVE  Good(Escalate(h))
<1>1. /\ h \in HwState /\ Line(h) /\ h.served = NoPort
      /\ \A x \in Port : h.port[x].int # "repending"
      /\ \A x, y \in Port :
           h.port[x].int = "received" /\ h.port[y].int = "received" => x = y
  BY DEF Loose
<1>2. CASE \E x \in Port : h.port[x].int = "received"
  <2>1. PICK x \in Port : h.port[x].int = "received"
    BY <1>2
  <2>2. {y \in Port : h.port[y].int = "received"} = {x}
    BY <1>1, <2>1
  <2>3. First({x}) = x
    BY DEF First, Port
  <2> DEFINE g == [h EXCEPT !.int = "received", !.served = x]
  <2>4. Escalate(h) = InterruptManager(g)
    BY <2>2, <2>3 DEF Escalate
  <2>5. /\ g \in HwState /\ g.int = "received" /\ g.served = x /\ g.port = h.port
    BY <1>1 DEF HwState
  <2> HIDE DEF g
  <2>6. /\ Escalate(h) \in HwState /\ Line(Escalate(h))
        /\ Escalate(h).port = h.port /\ Escalate(h).int = "received"
        /\ Escalate(h).served = x
    BY <2>4, <2>5, ManagerLine
  <2> QED
    BY <1>1, <2>1, <2>6 DEF Good, ServedRight, Serves
<1>3. CASE \A x \in Port : h.port[x].int # "received"
  <2> DEFINE level == IF Wanting(h) = {} THEN "none" ELSE "pending"
             g == [h EXCEPT !.int = level]
  <2>1. {y \in Port : h.port[y].int = "received"} = {}
    BY <1>3
  <2>2. Escalate(h) = IF level = h.int THEN h ELSE InterruptManager(g)
    BY <2>1 DEF Escalate
  <2>3. /\ level \in {"none", "pending"}
        /\ level = "pending" <=> \E x \in Port : Wants(h, x)
    BY DEF Wanting, Wants
  <2> HIDE DEF level
  <2>4. g \in HwState /\ g.int = level /\ g.served = NoPort /\ g.port = h.port
    BY <1>1, <2>3 DEF HwState
  <2> HIDE DEF g
  <2>5. /\ Escalate(h) \in HwState /\ Line(Escalate(h))
        /\ Escalate(h).port = h.port /\ Escalate(h).int = level
        /\ Escalate(h).served = NoPort
    BY <1>1, <2>2, <2>4, ManagerLine
  <2>6. \A x \in Port : ~Serves(Escalate(h), x) /\ (Wants(Escalate(h), x) <=> Wants(h, x))
    BY <1>1, <1>3, <2>5 DEF Serves, Wants
  <2> QED
    BY <2>3, <2>5, <2>6 DEF Good, ServedRight
<1> QED
  BY <1>2, <1>3

LEMMA ManagerGood ==
  ASSUME NEW h, Loose(h)
  PROVE  Good(Manager(h))
<1>1. CASE h.int = "received"
  BY <1>1 DEF Manager, Good, Loose
<1>2. CASE h.int # "received"
  BY <1>2, EscalateGood DEF Manager
<1> QED
  BY <1>1, <1>2

\* A port that changes in what the chip does not look at.
LEMMA PortGood ==
  ASSUME NEW h, Good(h), NEW x \in Port, NEW c \in PortState,
         c.int = h.port[x].int, c.int = "pending" => c.ena = h.port[x].ena
  PROVE  Good([h EXCEPT !.port[x] = c])
<1> DEFINE g == [h EXCEPT !.port[x] = c]
<1>1. /\ h \in HwState /\ g \in HwState /\ g.port = [h.port EXCEPT ![x] = c]
      /\ g.int = h.int /\ g.served = h.served /\ g.irq = h.irq /\ g.ctc2 = h.ctc2
  BY SetPort DEF Good
<1>2. h.port \in [Port -> PortState]
  BY <1>1 DEF HwState
<1> HIDE DEF g
<1>3. \A y \in Port : (Serves(g, y) <=> Serves(h, y)) /\ (Wants(g, y) <=> Wants(h, y))
  BY <1>1, <1>2 DEF Serves, Wants
<1>4. Line(g)
  BY <1>1 DEF Good, Line
<1> QED
  BY <1>1, <1>3, <1>4 DEF Good, ServedRight, g

\* A port that changes, but for being in service.
LEMMA PortLoose ==
  ASSUME NEW h, Good(h), NEW x \in Port, NEW c \in PortState,
         c.int \in {"received", "repending"} <=> Serves(h, x)
  PROVE  Loose([h EXCEPT !.port[x] = c])
<1> DEFINE g == [h EXCEPT !.port[x] = c]
<1>1. /\ h \in HwState /\ g \in HwState /\ g.port = [h.port EXCEPT ![x] = c]
      /\ g.int = h.int /\ g.served = h.served /\ g.irq = h.irq /\ g.ctc2 = h.ctc2
  BY SetPort DEF Good
<1>2. h.port \in [Port -> PortState]
  BY <1>1 DEF HwState
<1> HIDE DEF g
<1>3. \A y \in Port : Serves(g, y) <=> Serves(h, y)
  BY <1>1, <1>2 DEF Serves
<1>4. Line(g) /\ ServedRight(g)
  BY <1>1, <1>3 DEF Good, Line, ServedRight
<1>5. ASSUME g.int # "received" PROVE \A y \in Port : g.port[y].int \notin {"received", "repending"}
  BY <1>1, <1>3, <1>5 DEF Good, Serves
<1> QED
  BY <1>1, <1>4, <1>5 DEF Good, Loose, g

-----------------------------------------------------------------------------
(* The inputs of a port. *)

LEMMA SaveInputGood ==
  ASSUME NEW h, Good(h), NEW x \in Port
  PROVE  /\ Good(SaveInput(h, x))
         /\ SaveInput(h, x).port[x].int = h.port[x].int
         /\ SaveInput(h, x).port[x].ena = h.port[x].ena
         /\ SaveInput(h, x).shift = h.shift
<1> DEFINE m == MaskedInput(h, x)
           b == Met(h.port[x], m)
           c == [h.port[x] EXCEPT !.masked = m, !.met = b]
<1>1. h \in HwState /\ h.port[x] \in PortState /\ h.port \in [Port -> PortState]
  BY DEF Good, HwState
<1>2. m \in SUBSET Pin
  BY <1>1 DEF MaskedInput, RawInput, HwState, PortState
<1>3. b \in BOOLEAN
  BY DEF Met
<1>4. SaveInput(h, x) = [h EXCEPT !.port[x] = [h.port[x] EXCEPT !.masked = m, !.met = b]]
  BY <1>1 DEF SaveInput, HwState, PortState
<1> HIDE DEF m, b
<1>5. c \in PortState /\ c.int = h.port[x].int /\ c.ena = h.port[x].ena
  BY <1>1, <1>2, <1>3 DEF PortState
<1>6. SaveInput(h, x) = [h EXCEPT !.port[x] = c]
  BY <1>4
<1> HIDE DEF c
<1> QED
  BY <1>1, <1>5, <1>6, PortGood, SetPort

LEMMA DropLoose ==
  ASSUME NEW h, Good(h), NEW x \in Port
  PROVE  Loose(Drop(h, x)) /\ (Serves(h, x) => Good(Drop(h, x)))
<1> DEFINE i == IF h.port[x].int \in {"received", "repending"} THEN "received" ELSE "none"
           c == [h.port[x] EXCEPT !.int = i]
<1>1. h \in HwState /\ h.port[x] \in PortState /\ h.port \in [Port -> PortState]
  BY DEF Good, HwState
<1>2. i \in {"received", "none"} /\ (i = "received" <=> Serves(h, x))
  BY DEF Serves
<1>3. Drop(h, x) = [h EXCEPT !.port[x] = [h.port[x] EXCEPT !.int = i]]
  BY <1>1 DEF Drop, HwState, PortState
<1> HIDE DEF i
<1>4. c \in PortState /\ c.int = i
  BY <1>1, <1>2 DEF PortState
<1>5. Drop(h, x) = [h EXCEPT !.port[x] = c]
  BY <1>3
<1> HIDE DEF c
<1>6. Loose(Drop(h, x))
  BY <1>2, <1>4, <1>5, PortLoose
<1>7. ASSUME Serves(h, x) PROVE Good(Drop(h, x))
  <2>1. h.int = "received"
    BY <1>7 DEF Good
  <2>2. Drop(h, x).int = "received"
    BY <2>1, <1>1, <1>4, <1>5, SetPort
  <2> QED
    BY <1>6, <2>2 DEF Loose, Good
<1> QED
  BY <1>6, <1>7

LEMMA ActivateGood ==
  ASSUME NEW h, Good(h), NEW x \in Port
  PROVE  Good(Activate(h, x))
<1> DEFINE i == IF h.port[x].int = "none" THEN "pending" ELSE "repending"
           c == [h.port[x] EXCEPT !.int = i]
<1>1. h \in HwState /\ h.port[x] \in PortState /\ h.port \in [Port -> PortState]
  BY DEF Good, HwState
<1>2. CASE PendingBit(h, x)
  BY <1>2 DEF Activate
<1>3. CASE ~PendingBit(h, x)
  <2>1. i \in {"pending", "repending"} /\ (i = "repending" <=> Serves(h, x))
    BY <1>1, <1>3 DEF PendingBit, Serves, PortState
  <2>2. Activate(h, x) = Manager([h EXCEPT !.port[x] = [h.port[x] EXCEPT !.int = i]])
    <3>1. [h EXCEPT !.port[x].int = IF @ = "none" THEN "pending" ELSE "repending"]
            = [h EXCEPT !.port[x] = [h.port[x] EXCEPT !.int = i]]
      BY <1>1 DEF HwState, PortState
    <3> QED
      BY <1>3, <3>1 DEF Activate
  <2> HIDE DEF i
  <2>3. c \in PortState /\ c.int = i
    BY <1>1, <2>1 DEF PortState
  <2>4. Activate(h, x) = Manager([h EXCEPT !.port[x] = c])
    BY <2>2
  <2> HIDE DEF c
  <2>5. Loose([h EXCEPT !.port[x] = c])
    BY <2>1, <2>3, PortLoose
  <2> QED
    BY <2>4, <2>5, ManagerGood
<1> QED
  BY <1>2, <1>3

LEMMA PortEventGood ==
  ASSUME NEW h, Good(h), NEW x \in Port
  PROVE  Good(PortEvent(h, x))
<1> DEFINE s == SaveInput(h, x)
<1>1. Good(s) /\ s.port[x].int = h.port[x].int
  BY SaveInputGood
<1>2. Good(Activate(s, x))
  BY <1>1, ActivateGood
<1>3. h.port[x].int = "repending" => Good(Drop(s, x))
  BY <1>1, DropLoose DEF Serves
<1>4. \/ PortEvent(h, x) = h
      \/ PortEvent(h, x) = s
      \/ PortEvent(h, x) = Activate(s, x)
      \/ h.port[x].int = "repending" /\ PortEvent(h, x) = Drop(s, x)
  BY DEF PortEvent
<1> HIDE DEF s
<1> QED
  BY <1>1, <1>2, <1>3, <1>4

LEMMA PinsGood ==
  ASSUME NEW h, Good(h), NEW v \in SUBSET Pin
  PROVE  Good(PinEvent(h, v))
<1> DEFINE g == [h EXCEPT !.pins = v]
<1>1. /\ g \in HwState /\ g.port = h.port /\ g.int = h.int /\ g.served = h.served
      /\ g.irq = h.irq /\ g.ctc2 = h.ctc2
  BY DEF Good, HwState
<1> HIDE DEF g
<1>2. Good(g)
  BY <1>1 DEF Good, Line, ServedRight, Serves, Wants
<1>3. "A" \in Port
  BY DEF Port
<1> QED
  BY <1>2, <1>3, PortEventGood DEF PinEvent, g

\* What the chip looks at when the line is brought up to date.
LEMMA SameChip ==
  ASSUME NEW h, Good(h), NEW g \in HwState,
         g.port = h.port, g.int = h.int, g.served = h.served, Line(g)
  PROVE  Good(g)
BY DEF Good, ServedRight, Serves, Wants

LEMMA Ctc2Good ==
  ASSUME NEW h, Good(h), NEW v \in BOOLEAN
  PROVE  Good(Ctc2Event(h, v))
<1> DEFINE g == [h EXCEPT !.ctc2 = v]
<1>1. g \in HwState /\ g.port = h.port /\ g.int = h.int /\ g.served = h.served
  BY DEF Good, HwState
<1>2. Ctc2Event(h, v) = InterruptManager(g)
  BY DEF Ctc2Event
<1> HIDE DEF g
<1> QED
  BY <1>1, <1>2, ManagerLine, SameChip

-----------------------------------------------------------------------------
(* Writes to a port. *)

LEMMA WriteDataGood ==
  ASSUME NEW h, Good(h), NEW x \in Port, NEW v \in SUBSET Pin
  PROVE  Good(WriteData(h, x, v))
<1> DEFINE c == [h.port[x] EXCEPT !.out = v]
<1>1. h \in HwState /\ h.port[x] \in PortState /\ h.port \in [Port -> PortState]
  BY DEF Good, HwState
<1>2. [h EXCEPT !.port[x].out = v] = [h EXCEPT !.port[x] = c]
  BY <1>1 DEF HwState, PortState
<1>3. c \in PortState /\ c.int = h.port[x].int /\ c.ena = h.port[x].ena
  BY <1>1 DEF PortState
<1> HIDE DEF c
<1> QED
  BY <1>2, <1>3, PortGood, PortEventGood DEF WriteData

LEMMA WriteModeGood ==
  ASSUME NEW h, Good(h), NEW x \in Port, NEW m \in {"output", "input", "bidir", "user"}
  PROVE  Good(WriteMode(h, x, m))
<1>1. h \in HwState /\ h.port[x] \in PortState /\ h.port \in [Port -> PortState]
  BY DEF Good, HwState
<1>2. CASE m = "user"
  <2> DEFINE c == [h.port[x] EXCEPT !.expect = "iomask"]
  <2>1. [h EXCEPT !.port[x].expect = "iomask"] = [h EXCEPT !.port[x] = c]
    BY <1>1 DEF HwState, PortState
  <2>2. c \in PortState /\ c.int = h.port[x].int /\ c.ena = h.port[x].ena
    BY <1>1 DEF PortState
  <2> HIDE DEF c
  <2> QED
    BY <1>2, <2>1, <2>2, PortGood DEF WriteMode
<1>3. CASE m # "user"
  <2> DEFINE k == IF m = "output" THEN {} ELSE Pin
             c == [h.port[x] EXCEPT !.ioMask = k]
             g == [h EXCEPT !.port[x] = c]
             a == IF g.port[x].mode = "user" /\ g.port[x].fnc = "or"
                  THEN Activate(g, x) ELSE g
             d == [a.port[x] EXCEPT !.mode = m]
  <2>1. [h EXCEPT !.port[x].ioMask = IF m = "output" THEN {} ELSE Pin] = g
    BY <1>1 DEF HwState, PortState
  <2>2. c \in PortState /\ c.int = h.port[x].int /\ c.ena = h.port[x].ena
    BY <1>1 DEF PortState
  <2>3. WriteMode(h, x, m) = [a EXCEPT !.port[x].mode = m]
    BY <1>3, <2>1 DEF WriteMode
  <2> HIDE DEF c
  <2>4. Good(g)
    BY <2>2, PortGood
  <2> HIDE DEF g
  <2>5. Good(a)
    BY <2>4, ActivateGood
  <2> HIDE DEF a
  <2>6. a \in HwState /\ a.port[x] \in PortState /\ a.port \in [Port -> PortState]
    BY <2>5 DEF Good, HwState
  <2>7. [a EXCEPT !.port[x].mode = m] = [a EXCEPT !.port[x] = d]
    BY <2>6 DEF HwState, PortState
  <2>8. d \in PortState /\ d.int = a.port[x].int /\ d.ena = a.port[x].ena
    BY <2>6 DEF PortState
  <2> HIDE DEF d
  <2> QED
    BY <2>3, <2>5, <2>7, <2>8, PortGood
<1> QED
  BY <1>2, <1>3

LEMMA WriteIoMaskGood ==
  ASSUME NEW h, Good(h), NEW x \in Port, NEW v \in SUBSET Pin
  PROVE  Good(WriteIoMask(h, x, v))
<1> DEFINE c == [h.port[x] EXCEPT !.mode = "user", !.ioMask = v, !.expect = "command"]
           g == [h EXCEPT !.port[x] = c]
<1>1. h \in HwState /\ h.port[x] \in PortState /\ h.port \in [Port -> PortState]
  BY DEF Good, HwState
<1>2. [h EXCEPT !.port[x].mode = "user", !.port[x].ioMask = v,
                !.port[x].expect = "command"] = g
  BY <1>1, ZenonT(40) DEF HwState, PortState
<1>3. c \in PortState /\ c.int = h.port[x].int /\ c.ena = h.port[x].ena
  BY <1>1 DEF PortState
<1>4. \/ WriteIoMask(h, x, v) = PortEvent(g, x)
      \/ WriteIoMask(h, x, v) = SaveInput(g, x)
  BY <1>2 DEF WriteIoMask
<1> HIDE DEF c
<1>5. Good(g)
  BY <1>3, PortGood
<1> HIDE DEF g
<1> QED
  BY <1>4, <1>5, PortEventGood, SaveInputGood

LEMMA WriteIntMaskGood ==
  ASSUME NEW h, Good(h), NEW x \in Port, NEW v \in SUBSET Pin
  PROVE  Good(WriteIntMask(h, x, v))
<1> DEFINE c == [h.port[x] EXCEPT !.icMask = v, !.expect = "command"]
           g == [h EXCEPT !.port[x] = c]
<1>1. h \in HwState /\ h.port[x] \in PortState /\ h.port \in [Port -> PortState]
  BY DEF Good, HwState
<1>2. [h EXCEPT !.port[x].icMask = v, !.port[x].expect = "command"] = g
  BY <1>1 DEF HwState, PortState
<1>3. c \in PortState /\ c.int = h.port[x].int /\ c.ena = h.port[x].ena
  BY <1>1 DEF PortState
<1>4. WriteIntMask(h, x, v) = SaveInput(g, x)
  BY <1>2 DEF WriteIntMask
<1> HIDE DEF c
<1>5. Good(g)
  BY <1>3, PortGood
<1> HIDE DEF g
<1> QED
  BY <1>4, <1>5, SaveInputGood

\* A port whose enabling changes makes the chip look at its ports again.
LEMMA EnableGood ==
  ASSUME NEW h, Good(h), NEW x \in Port, NEW e \in BOOLEAN
  PROVE  Good(Manager([h EXCEPT !.port[x].ena = e]))
<1> DEFINE c == [h.port[x] EXCEPT !.ena = e]
<1>1. h \in HwState /\ h.port[x] \in PortState /\ h.port \in [Port -> PortState]
  BY DEF Good, HwState
<1>2. [h EXCEPT !.port[x].ena = e] = [h EXCEPT !.port[x] = c]
  BY <1>1 DEF HwState, PortState
<1>3. c \in PortState /\ c.int = h.port[x].int
  BY <1>1 DEF PortState
<1> HIDE DEF c
<1>4. Loose([h EXCEPT !.port[x] = c])
  BY <1>3, PortLoose DEF Serves
<1> QED
  BY <1>2, <1>4, ManagerGood

LEMMA ShiftGood ==
  ASSUME NEW h, Good(h), NEW x \in Port \cup {NoPort}
  PROVE  Good([h EXCEPT !.shift = x])
<1> DEFINE g == [h EXCEPT !.shift = x]
<1>1. /\ g \in HwState /\ g.port = h.port /\ g.int = h.int /\ g.served = h.served
      /\ g.irq = h.irq /\ g.ctc2 = h.ctc2
  BY DEF Good, HwState
<1> HIDE DEF g
<1>2. Line(g)
  BY <1>1 DEF Good, Line
<1>3. Good(g)
  BY <1>1, <1>2, SameChip
<1> QED
  BY <1>3 DEF g

LEMMA SetEnaGood ==
  ASSUME NEW h, Good(h), NEW x \in Port, NEW e \in BOOLEAN
  PROVE  Good(SetEna(h, x, e))
<1>1. \/ SetEna(h, x, e) = [h EXCEPT !.shift = x]
      \/ SetEna(h, x, e) = h
      \/ SetEna(h, x, e) = Manager([h EXCEPT !.port[x].ena = e])
  BY DEF SetEna
<1> QED
  BY <1>1, EnableGood, ShiftGood

LEMMA EnaEventGood ==
  ASSUME NEW h, Good(h)
  PROVE  Good(EnaEvent(h))
<1>1. CASE h.shift = NoPort
  BY <1>1 DEF EnaEvent
<1>2. CASE h.shift # NoPort
  <2>1. h.shift \in Port
    BY <1>2 DEF Good, HwState
  <2> DEFINE g == Manager([h EXCEPT !.port[h.shift].ena = TRUE])
  <2>2. Good(g)
    BY <2>1, EnableGood
  <2>3. EnaEvent(h) = [g EXCEPT !.shift = NoPort]
    BY <1>2 DEF EnaEvent
  <2> HIDE DEF g
  <2> QED
    BY <2>2, <2>3, ShiftGood
<1> QED
  BY <1>1, <1>2

LEMMA WriteDisableGood ==
  ASSUME NEW h, Good(h), NEW x \in Port, NEW e \in BOOLEAN
  PROVE  Good(WriteDisable(h, x, e))
<1>1. Good(SetEna(h, x, e))
  BY SetEnaGood
<1>2. Good(Manager(SetEna(h, x, e)))
  BY <1>1, GoodIsLoose, ManagerGood
<1> QED
  BY <1>1, <1>2 DEF WriteDisable

LEMMA WriteIcwMaskGood ==
  ASSUME NEW h, Good(h), NEW x \in Port,
         NEW w, w.lvl \in {"low", "high"}, w.fnc \in {"or", "and"}, w.ena \in BOOLEAN
  PROVE  Good(WriteIcwMask(h, x, w))
<1> DEFINE l == w.lvl  f == w.fnc  e == w.ena
           i == IF h.port[x].int \in {"received", "repending"} THEN "received" ELSE "none"
           a == [h.port[x] EXCEPT !.lvl = l, !.fnc = f]
           b == [a EXCEPT !.ena = e, !.expect = "intmask"]
           c == [b EXCEPT !.int = i]
           k == [h EXCEPT !.port[x] = a]
           g == [k EXCEPT !.port[x] = b]
<1>1. h \in HwState /\ h.port[x] \in PortState /\ h.port \in [Port -> PortState]
  BY DEF Good, HwState
<1>2. i \in {"received", "none"} /\ (i = "received" <=> Serves(h, x))
  BY DEF Serves
<1>3. l \in {"low", "high"} /\ f \in {"or", "and"} /\ e \in BOOLEAN
  OBVIOUS
<1>4. WriteIcwMask(h, x, w) = Manager(Drop([h EXCEPT !.port[x].lvl = l, !.port[x].fnc = f,
                                      !.port[x].ena = e, !.port[x].expect = "intmask"], x))
  BY DEF WriteIcwMask
<1> HIDE DEF i, l, f, e
<1>5. a \in PortState /\ a.int = h.port[x].int
  BY <1>1, <1>3 DEF PortState
<1>6. [h EXCEPT !.port[x].lvl = l, !.port[x].fnc = f] = k
  BY <1>1 DEF HwState, PortState
<1> HIDE DEF a
<1>7. b \in PortState /\ b.int = h.port[x].int
  BY <1>3, <1>5 DEF PortState
<1>8. k \in HwState /\ k.port[x] = a /\ k.port \in [Port -> PortState]
  BY <1>1, <1>5 DEF HwState
<1>8a. k = [h EXCEPT !.port[x] = a]
  OBVIOUS
<1> HIDE DEF k
<1>9. [k EXCEPT !.port[x].ena = e, !.port[x].expect = "intmask"] = g
  BY <1>5, <1>8, ZenonT(40) DEF HwState, PortState
<1>10. [h EXCEPT !.port[x].lvl = l, !.port[x].fnc = f,
                 !.port[x].ena = e, !.port[x].expect = "intmask"] = g
  <2>1. [h EXCEPT !.port[x].lvl = l, !.port[x].fnc = f,
                  !.port[x].ena = e, !.port[x].expect = "intmask"]
        = [[h EXCEPT !.port[x].lvl = l, !.port[x].fnc = f]
             EXCEPT !.port[x].ena = e, !.port[x].expect = "intmask"]
    OBVIOUS
  <2> HIDE DEF g
  <2> QED
    BY <1>6, <1>9, <2>1
<1> HIDE DEF b
<1>11. c \in PortState /\ c.int = i
  BY <1>2, <1>7 DEF PortState
<1>12. g \in HwState /\ g.port[x] = b
  BY <1>7, <1>8, SetPort
<1>13. g = [h EXCEPT !.port[x] = b]
  BY <1>1, <1>5, <1>7, <1>8a DEF HwState
<1> HIDE DEF g
<1>14. Drop(g, x) = [g EXCEPT !.port[x] = c]
  BY <1>7, <1>12 DEF Drop, HwState, PortState, i
<1> HIDE DEF c
<1>15. Drop(g, x) = [h EXCEPT !.port[x] = c]
  BY <1>1, <1>7, <1>11, <1>13, <1>14 DEF HwState
<1>16. Loose(Drop(g, x))
  BY <1>2, <1>11, <1>15, PortLoose
<1> QED
  BY <1>4, <1>10, <1>16, ManagerGood

LEMMA WriteIcwGood ==
  ASSUME NEW h, Good(h), NEW x \in Port,
         NEW w, w.lvl \in {"low", "high"}, w.fnc \in {"or", "and"}, w.ena \in BOOLEAN
  PROVE  Good(WriteIcw(h, x, w))
<1> DEFINE l == w.lvl  f == w.fnc
           c == [h.port[x] EXCEPT !.lvl = l, !.fnc = f]
           k == [h EXCEPT !.port[x] = c]
           g == SetEna(k, x, w.ena)
<1>1. h \in HwState /\ h.port[x] \in PortState /\ h.port \in [Port -> PortState]
  BY DEF Good, HwState
<1>2. [h EXCEPT !.port[x].lvl = w.lvl, !.port[x].fnc = w.fnc] = k
  BY <1>1 DEF HwState, PortState
<1>3. l \in {"low", "high"} /\ f \in {"or", "and"}
  OBVIOUS
<1> HIDE DEF l, f
<1>4. c \in PortState /\ c.int = h.port[x].int /\ c.ena = h.port[x].ena
  BY <1>1, <1>3 DEF PortState
<1>5. \/ WriteIcw(h, x, w) = g
      \/ WriteIcw(h, x, w) = PortEvent(g, x)
      \/ WriteIcw(h, x, w) = Manager(PortEvent(g, x))
  BY <1>2 DEF WriteIcw
<1> HIDE DEF c
<1>6. Good(k)
  BY <1>4, PortGood
<1> HIDE DEF k
<1>7. Good(g)
  BY <1>6, SetEnaGood
<1> HIDE DEF g
<1>8. Good(PortEvent(g, x))
  BY <1>7, PortEventGood
<1>9. Good(Manager(PortEvent(g, x)))
  BY <1>8, GoodIsLoose, ManagerGood
<1> QED
  BY <1>5, <1>7, <1>8, <1>9

LEMMA WriteWordGood ==
  ASSUME NEW h, Good(h), NEW w \in ControlWord
  PROVE  w.port \in Port /\ Good(WriteWord(h, w.port, w))
<1>0. w.port \in Port
  BY DEF ControlWord
<1>1. CASE w \in [port : Port, kind : {"mode"}, mode : {"output", "input", "bidir", "user"}]
  <2>1. WriteWord(h, w.port, w) = WriteMode(h, w.port, w.mode)
    BY <1>1 DEF WriteWord
  <2> QED
    BY <1>0, <1>1, <2>1, WriteModeGood
<1>2. CASE w \in [port : Port, kind : {"ena"}, ena : BOOLEAN]
  <2>1. WriteWord(h, w.port, w) = WriteDisable(h, w.port, w.ena)
    BY <1>2 DEF WriteWord
  <2> QED
    BY <1>0, <1>2, <2>1, WriteDisableGood
<1>3. CASE w \in [port : Port, kind : {"icw"}, ena : BOOLEAN, fnc : {"or", "and"},
                  lvl : {"low", "high"}, mask : BOOLEAN]
  <2>1. \/ WriteWord(h, w.port, w) = WriteIcwMask(h, w.port, w)
        \/ WriteWord(h, w.port, w) = WriteIcw(h, w.port, w)
    BY <1>3 DEF WriteWord
  <2>2. w.lvl \in {"low", "high"} /\ w.fnc \in {"or", "and"} /\ w.ena \in BOOLEAN
    BY <1>3
  <2> QED
    BY <1>0, <2>1, <2>2, WriteIcwMaskGood, WriteIcwGood
<1> QED
  BY <1>0, <1>1, <1>2, <1>3 DEF ControlWord

LEMMA WriteMaskGood ==
  ASSUME NEW h, Good(h), NEW x \in Port, NEW v \in SUBSET Pin
  PROVE  Good(WriteMask(h, x, v))
BY WriteIoMaskGood, WriteIntMaskGood DEF WriteMask

-----------------------------------------------------------------------------
(* Acknowledge, RETI, reset and the events. *)

\* An acknowledge finds the port it is for.
LEMMA AckGood ==
  ASSUME NEW h, Good(h)
  PROVE  Good(Ack(h))
<1>1. CASE h.int # "pending"
  BY <1>1 DEF Ack
<1>2. CASE h.int = "pending"
  <2> DEFINE x == AckPort(h)
             c == [h.port[x] EXCEPT !.int = "received"]
             g == [h EXCEPT !.port[x] = c]
  <2>1. x \in Port
    BY DEF AckPort, First, Port
  <2>2. h \in HwState /\ h.port[x] \in PortState /\ h.port \in [Port -> PortState]
    BY <2>1 DEF Good, HwState
  <2>3. [h EXCEPT !.port[x].int = "received"] = g
    BY <2>2 DEF HwState, PortState
  <2>4. Ack(h) = SaveInput(Manager(g), x)
    BY <1>2, <2>3 DEF Ack
  <2> HIDE DEF x
  <2>5. c \in PortState /\ c.int = "received"
    BY <2>2 DEF PortState
  <2> HIDE DEF c
  <2>6. /\ g \in HwState /\ g.port = [h.port EXCEPT ![x] = c] /\ g.int = h.int
        /\ g.served = h.served /\ g.irq = h.irq /\ g.ctc2 = h.ctc2
    BY <2>1, <2>2, <2>5, SetPort
  <2> HIDE DEF g
  <2>7. h.served = NoPort /\ Line(h) /\ \A y \in Port : ~Serves(h, y)
    BY <1>2 DEF Good
  <2>8. Loose(g)
    <3>1. \A y \in Port : g.port[y] = IF y = x THEN c ELSE h.port[y]
      BY <2>1, <2>2, <2>6
    <3>2. \A y \in Port : g.port[y].int # "repending" /\ (g.port[y].int = "received" <=> y = x)
      BY <2>5, <2>7, <3>1 DEF Serves
    <3>3. Line(g)
      BY <2>6, <2>7 DEF Line
    <3> QED
      BY <1>2, <2>6, <2>7, <3>2, <3>3 DEF Loose, ServedRight
  <2> QED
    BY <2>1, <2>4, <2>8, ManagerGood, SaveInputGood
<1> QED
  BY <1>1, <1>2

\* RETI releases the port in service; the others may have asked meanwhile.
LEMMA RetiGood ==
  ASSUME NEW h, Good(h)
  PROVE  Good(Reti(h))
<1>1. CASE h.int # "received"
  BY <1>1 DEF Reti
<1>2. CASE h.int = "received"
  <2> DEFINE x == h.served
             i == ClearReceived(h.port[x].int)
             c == [h.port[x] EXCEPT !.int = i]
             k == [h EXCEPT !.port[x] = c]
             g == [k EXCEPT !.int = "none", !.served = NoPort]
  <2>1. x \in Port /\ Line(h) /\ \A y \in Port : Serves(h, y) <=> y = x
    BY <1>2 DEF Good, ServedRight
  <2>2. h \in HwState /\ h.port[x] \in PortState /\ h.port \in [Port -> PortState]
    BY <2>1 DEF Good, HwState
  <2>3. Reti(h) = Manager([h EXCEPT !.port[x].int = ClearReceived(@),
                                    !.int = "none", !.served = NoPort])
    BY <1>2 DEF Reti
  <2>4. [h EXCEPT !.port[x].int = ClearReceived(@)] = k
    BY <2>2 DEF HwState, PortState
  <2>5. [h EXCEPT !.port[x].int = ClearReceived(@), !.int = "none", !.served = NoPort]
        = [[h EXCEPT !.port[x].int = ClearReceived(@)] EXCEPT !.int = "none", !.served = NoPort]
    OBVIOUS
  <2>6. i \in {"pending", "none"}
    BY DEF ClearReceived
  <2>7. Reti(h) = Manager(g)
    BY <2>3, <2>4, <2>5
  <2> HIDE DEF x, i
  <2>8. c \in PortState /\ c.int = i
    BY <2>2, <2>6 DEF PortState
  <2> HIDE DEF c
  <2>9. /\ k \in HwState /\ k.port = [h.port EXCEPT ![x] = c]
        /\ k.irq = h.irq /\ k.ctc2 = h.ctc2
    BY <2>1, <2>2, <2>8, SetPort
  <2> HIDE DEF k
  <2>10. /\ g \in HwState /\ g.port = [h.port EXCEPT ![x] = c] /\ g.int = "none"
         /\ g.served = NoPort /\ g.irq = h.irq /\ g.ctc2 = h.ctc2
    BY <2>9 DEF HwState
  <2> HIDE DEF g
  <2>11. \A y \in Port : g.port[y].int \notin {"received", "repending"}
    <3>1. \A y \in Port : g.port[y] = IF y = x THEN c ELSE h.port[y]
      BY <2>1, <2>2, <2>10
    <3> QED
      BY <2>1, <2>6, <2>8, <3>1 DEF Serves
  <2>12. Line(g)
    BY <1>2, <2>1, <2>10 DEF Line
  <2>13. Loose(g)
    BY <2>10, <2>11, <2>12 DEF Loose, ServedRight
  <2> QED
    BY <2>7, <2>13, ManagerGood
<1> QED
  BY <1>1, <1>2

LEMMA ResetGood ==
  ASSUME NEW h, Good(h)
  PROVE  /\ Good(ResetHw(h)) /\ ResetHw(h).irq = {}
<1> DEFINE g == ResetHw(h)
<1>1. ResetPort \in PortState /\ ResetPort.int = "none"
  BY DEF ResetPort, PortState
<1>2. /\ g \in HwState /\ g.port = [x \in Port |-> ResetPort] /\ g.int = "none"
      /\ g.served = NoPort /\ g.irq = {}
  BY <1>1 DEF Good, HwState, ResetHw
<1> HIDE DEF g
<1>3. \A x \in Port : ~Serves(g, x) /\ ~Wants(g, x)
  BY <1>1, <1>2 DEF Serves, Wants
<1>4. Line(g)
  BY <1>2 DEF Line
<1> QED
  BY <1>2, <1>3, <1>4 DEF Good, ServedRight, g

LEMMA AdvanceGood ==
  ASSUME NEW h, Good(h)
  PROVE  /\ \A g \in Advance(h) : Good(g)
         /\ \A g \in AdvanceAll(h) : Good(g)
<1>1. ASSUME NEW k, Good(k) PROVE \A g \in Advance(k) : Good(g)
  BY <1>1, PinsGood, Ctc2Good DEF Advance
<1>2. \A g \in Advance(EnaEvent(h)) : Good(g)
  BY <1>1, EnaEventGood
<1>3. \A k \in Advance(h) : Good(EnaEvent(k))
  BY <1>1, EnaEventGood
<1> QED
  BY <1>1, <1>2, <1>3 DEF AdvanceAll

-----------------------------------------------------------------------------
(* The steps. *)

LEMMA StepGood ==
  ASSUME Good(hw), Step
  PROVE  Good(hw')
<1>1. CASE \/ Plain \/ Ei \/ Di \/ Retn \/ NotDue \/ NothingToAccept \/ Blocked \/ Pause
  BY <1>1 DEF Plain, Ei, Di, Retn, NotDue, NothingToAccept, Blocked, Pause
<1>2. CASE RetI
  BY <1>2, RetiGood DEF RetI
<1>3. CASE Access \/ Out
  BY <1>3, AdvanceGood DEF Access, Out, InsideOp
<1>4. CASE WriteControl
  <2>1. CASE \E w \in Word : Written(WriteWord(hw, w.port, w))
    BY <2>1, WriteWordGood, ProgramAssumption DEF Written
  <2>2. CASE \E x \in Port, v \in SUBSET Pin : Written(WriteMask(hw, x, v))
    BY <2>2, WriteMaskGood DEF Written
  <2> QED
    BY <1>4, <2>1, <2>2 DEF WriteControl
<1>5. CASE WriteOther
  <2>1. CASE \E d \in Data : Written(WriteData(hw, d.port, d.value))
    <3>1. PICK d \in Data : Written(WriteData(hw, d.port, d.value))
      BY <2>1
    <3>2. d.port \in Port /\ d.value \in SUBSET Pin
      BY ProgramAssumption
    <3> QED
      BY <3>1, <3>2, WriteDataGood DEF Written
  <2>2. CASE \E c \in BOOLEAN : Written(Ctc2Event(hw, c))
    BY <2>2, Ctc2Good DEF Written
  <2>3. CASE \E v \in SUBSET Pin : Written(PinEvent(hw, v))
    BY <2>3, PinsGood DEF Written
  <2> QED
    BY <1>5, <2>1, <2>2, <2>3 DEF WriteOther
<1>6. CASE Due
  BY <1>6, AdvanceGood DEF Due
<1>7. CASE AcceptNmi
  BY <1>7, AdvanceGood DEF AcceptNmi
<1>8. CASE AcceptInt
  BY <1>8, AckGood, AdvanceGood DEF AcceptInt
<1>9. CASE Reset
  BY <1>9, ResetGood DEF Reset
<1> QED
  BY <1>1, <1>2, <1>3, <1>4, <1>5, <1>6, <1>7, <1>8, <1>9 DEF Step

LEMMA InitIInv ==
  ASSUME Init
  PROVE  IInv
<1>1. ResetPort \in PortState /\ ResetPort.int = "none"
  BY DEF ResetPort, PortState
<1>2. /\ hw \in HwState /\ hw.port = [x \in Port |-> ResetPort] /\ hw.int = "none"
      /\ hw.served = NoPort /\ hw.irq = {}
  BY <1>1 DEF Init, HwState
<1>3. Line(hw) /\ \A x \in Port : ~Serves(hw, x) /\ ~Wants(hw, x)
  BY <1>1, <1>2 DEF Serves, Wants, Line
<1>4. Good(hw)
  BY <1>2, <1>3 DEF Good, ServedRight
<1>5. TypeOK /\ EiInv
  BY <1>2 DEF Init, TypeOK, EiInv
<1> QED
  BY <1>4, <1>5 DEF IInv

\* What no step but EI does: hold a request that was not held before.
LEMMA StepEi ==
  ASSUME TypeOK, EiInv, Step, Held
  PROVE  EiInv'
<1> SUFFICES ASSUME lineHeld'
             PROVE  /\ iff1' /\ hw'.irq # {}
                    /\ at' \in {"step", "end"} => slot' # "real"
                    /\ at' = "write" => slot' = "break"
                    /\ at' = "step" => eiDelay' \/ hw'.shift # NoPort
  BY DEF EiInv
<1>1. iff1' /\ hw'.irq # {} /\ (lineHeld \/ (at = "step" /\ at' = "end" /\ eiDelay'))
  BY DEF Held
<1>2. lineHeld => /\ iff1 /\ hw.irq # {}
                  /\ at \in {"step", "end"} => slot # "real"
                  /\ at = "write" => slot = "break"
                  /\ at = "step" => eiDelay \/ hw.shift # NoPort
  BY DEF EiInv
<1>3. CASE Plain \/ Retn \/ RetI
  BY <1>1, <1>2, <1>3 DEF Plain, Retn, RetI, Begin
<1>4. CASE Ei
  BY <1>1, <1>4 DEF Ei, Begin
<1>5. CASE Di \/ AcceptNmi \/ AcceptInt \/ Reset
  BY <1>1, <1>5 DEF Di, AcceptNmi, AcceptInt, Reset
<1>6. CASE Access \/ Out
  BY <1>1, <1>6 DEF Access, Out, Begin, InsideOp
<1>7. CASE WriteControl \/ WriteOther
  <2>1. PICK h : Written(h)
    BY <1>7 DEF WriteControl, WriteOther
  <2> QED
    BY <1>1, <1>2, <2>1 DEF Written, cpuVars
<1>8. CASE NotDue
  BY <1>1, <1>2, <1>8 DEF NotDue
<1>9. CASE Due
  BY <1>1, <1>9 DEF Due
<1>10. CASE NothingToAccept
  BY <1>1, <1>10 DEF NothingToAccept, Requested
<1>11. CASE Blocked
  BY <1>1, <1>2, <1>11 DEF Blocked, Enabled, cpuVars
<1>12. CASE Pause
  BY <1>1, <1>2, <1>12 DEF Pause
<1> QED
  BY <1>3, <1>4, <1>5, <1>6, <1>7, <1>8, <1>9, <1>10, <1>11, <1>12 DEF Step

LEMMA StepType ==
  ASSUME TypeOK, hw' \in HwState, Step, Held
  PROVE  TypeOK'
<1>1. /\ iff1 \in BOOLEAN /\ iff2 \in BOOLEAN /\ eiDelay \in BOOLEAN
      /\ intPending \in BOOLEAN /\ nmiPending \in BOOLEAN
      /\ slot \in {"real", "shift", "break"}
      /\ at \in {"step", "write", "end", "accept"}
  BY DEF TypeOK
<1>2. iff1' \in BOOLEAN /\ intPending' \in BOOLEAN
  <2>1. CASE \/ Plain \/ Ei \/ Di \/ Retn \/ RetI \/ Access
    BY <1>1, <2>1 DEF Plain, Ei, Di, Retn, RetI, Access, Begin
  <2>2. CASE Out
    BY <1>1, <2>2 DEF Out
  <2>3. CASE WriteControl \/ WriteOther
    BY <1>1, <2>3 DEF WriteControl, WriteOther, Written, cpuVars
  <2>4. CASE \/ NotDue \/ Due \/ NothingToAccept \/ Blocked
    BY <1>1, <2>4 DEF NotDue, Due, NothingToAccept, Blocked, Inject, cpuVars
  <2>5. CASE AcceptNmi \/ AcceptInt \/ Pause \/ Reset
    BY <1>1, <2>5, Zenon DEF AcceptNmi, AcceptInt, Pause, Reset, Inject
  <2> QED
    BY <2>1, <2>2, <2>3, <2>4, <2>5 DEF Step
<1>3. iff2' \in BOOLEAN /\ eiDelay' \in BOOLEAN /\ nmiPending' \in BOOLEAN
  <2>1. CASE \/ Plain \/ Ei \/ Di \/ Retn \/ RetI \/ Access
    BY <1>1, <2>1 DEF Plain, Ei, Di, Retn, RetI, Access, Begin
  <2>2. CASE Out
    BY <1>1, <2>2 DEF Out
  <2>3. CASE WriteControl \/ WriteOther
    BY <1>1, <2>3 DEF WriteControl, WriteOther, Written, cpuVars
  <2>4. CASE \/ NotDue \/ Due \/ NothingToAccept \/ Blocked
    BY <1>1, <2>4 DEF NotDue, Due, NothingToAccept, Blocked, Inject, cpuVars
  <2>5. CASE AcceptNmi \/ AcceptInt \/ Pause \/ Reset
    BY <1>1, <2>5 DEF AcceptNmi, AcceptInt, Pause, Reset, Inject
  <2> QED
    BY <2>1, <2>2, <2>3, <2>4, <2>5 DEF Step
<1>4. lineHeld' \in BOOLEAN /\ injectHeld' \in BOOLEAN
  BY <1>2, Zenon DEF Held
<1>5. slot' \in {"real", "shift", "break"} /\ at' \in {"step", "write", "end", "accept"}
  <2>1. CASE \/ Plain \/ Ei \/ Di \/ Retn \/ RetI \/ Access
    BY <1>1, <2>1 DEF Plain, Ei, Di, Retn, RetI, Access, Begin, InsideOp, NextEvent
  <2>2. CASE Out
    BY <1>1, <2>2 DEF Out, InsideOp, NextEvent
  <2>3. CASE WriteControl \/ WriteOther
    BY <1>1, <2>3 DEF WriteControl, WriteOther, Written
  <2>4. CASE \/ NotDue \/ Due \/ NothingToAccept \/ Blocked
    BY <1>1, <2>4 DEF NotDue, Due, NothingToAccept, Blocked
  <2>5. CASE AcceptNmi \/ AcceptInt \/ Pause \/ Reset
    BY <1>1, <2>5 DEF AcceptNmi, AcceptInt, Pause, Reset, NextEvent
  <2> QED
    BY <2>1, <2>2, <2>3, <2>4, <2>5 DEF Step
<1> QED
  BY <1>2, <1>3, <1>4, <1>5 DEF TypeOK

-----------------------------------------------------------------------------
(* The theorems. *)

THEOREM NextIInv ==
  ASSUME IInv, [Next]_vars
  PROVE  IInv'
<1>1. CASE Next
  BY <1>1, StepGood, StepType, StepEi DEF Next, IInv, Good
<1>2. CASE UNCHANGED vars
  BY <1>2 DEF IInv, TypeOK, EiInv, Good, Line, ServedRight, Serves, Wants, vars, cpuVars, histVars
<1> QED
  BY <1>1, <1>2

THEOREM Inductive == Spec => []IInv
<1>1. Init => IInv
  BY InitIInv
<1>2. IInv /\ [Next]_vars => IInv'
  BY NextIInv
<1> QED
  BY <1>1, <1>2, PTL DEF Spec

\* The variables keep their types.
THEOREM TypeCorrect == Spec => []TypeOK
<1>1. IInv => TypeOK
  BY DEF IInv
<1> QED
  BY <1>1, Inductive, PTL

\* The state of the PIO is always that of its ports: an acknowledge finds the
\* port whose request is out, and RETI the one in service, whatever is written
\* to the ports and whenever.
THEOREM ChipIsTrue == Spec => []ChipAgrees
<1>1. IInv => ChipAgrees
  <2> SUFFICES ASSUME Good(hw) PROVE ChipAgrees
    BY DEF IInv
  <2> DEFINE inService == {x \in Port : hw.port[x].int \in {"received", "repending"}}
  <2>1. \A x \in Port : x \in inService <=> Serves(hw, x)
    BY DEF Serves
  <2>2. inService \subseteq Port
    OBVIOUS
  <2>3. ASSUME hw.int = "received" PROVE hw.served # NoPort /\ inService = {hw.served}
    <3>1. hw.served \in Port /\ \A x \in Port : Serves(hw, x) <=> x = hw.served
      BY <2>3 DEF Good, ServedRight
    <3>2. hw.served # NoPort
      BY <3>1, PioAssumption DEF Port
    <3> HIDE DEF inService
    <3> QED
      BY <2>1, <2>2, <3>1, <3>2
  <2>4. ASSUME hw.int # "received"
        PROVE  hw.served = NoPort /\ inService = {} /\ (hw.int = "pending" <=> Wanting(hw) # {})
    <3>1. hw.served = NoPort /\ (\A x \in Port : ~Serves(hw, x))
      BY <2>4 DEF Good
    <3>2. hw.int = "pending" <=> \E x \in Port : Wants(hw, x)
      BY <2>4 DEF Good
    <3>3. (\E x \in Port : Wants(hw, x)) <=> Wanting(hw) # {}
      BY DEF Wants, Wanting
    <3> HIDE DEF inService
    <3> QED
      BY <2>1, <2>2, <3>1, <3>2, <3>3
  <2> QED
    BY <2>3, <2>4 DEF ChipAgrees
<1> QED
  BY <1>1, Inductive, PTL

\* The line INT is the one its sources ask for.
THEOREM LineIsTrue == Spec => []LineTrue
<1>1. IInv => LineTrue
  BY DEF IInv, Good, Line, LineTrue
<1> QED
  BY <1>1, Inductive, PTL

\* A request on the line when EI is executed is taken at the end of the next
\* instruction, but for a write that put the delayed event of the PIO into the
\* slot in which the look at the line was queued.
THEOREM EiIsTaken == Spec => []EiTakesAtOnce
<1>1. IInv => EiTakesAtOnce
  BY DEF IInv, EiInv, EiTakesAtOnce
<1> QED
  BY <1>1, Inductive, PTL
=============================================================================
