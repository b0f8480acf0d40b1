-------------------------------- MODULE Ctc0 --------------------------------
(***************************************************************************)
(* The counter CTC0 twice: clocked at every falling edge of its input, and *)
(* on the "fast path" of ctc8253.c, which leaves the edges out, works the  *)
(* value out of the time when somebody looks and has itself called at the  *)
(* edge where something happens.  Both get the same bytes and gate.        *)
(*                                                                         *)
(* A step of the time is one tick of the GDG; Divider ticks are one clock. *)
(* Times are kept relative to now, because only differences matter.        *)
(***************************************************************************)
EXTENDS Ctc8253

CONSTANTS
  Divider,      \* GDGCLK_CTC0_DIVIDER
  NoEvent,      \* clk1m1_event.ticks = -1
  Mode,         \* modes, formats and bytes the program writes
  Format,
  Data,
  GateModes,    \* modes in which the gate moves
  AnySnapshot   \* whether snapshots are also taken of numbers of three bytes

ASSUME Ctc0Assumption ==
  /\ Divider \in Nat /\ Divider > 1 /\ NoEvent \notin Int
  /\ Mode \subseteq 0..3 /\ Format \subseteq {"lsb", "msb", "both"}
  /\ Data \subseteq 0..Byte-1 /\ GateModes \subseteq Mode /\ AnySnapshot \in BOOLEAN

VARIABLES
  exact,  \* the counter, clocked at every edge
  fast,   \* [c: the counter, ev: ticks until clk1m1_event, age: ticks since
          \*  clk1m1_last_event_total_ticks, which may lie ahead]
  phase,  \* ticks since the last falling edge of the clock
  span    \* history: clocks since the exact counter took a number, which, whether
          \* it was given a number before the first of them, and whether it has
          \* met one by chance; NoSpan when it was gated or set anew since

vars == <<exact, fast, phase, span>>

NoSpan == [clocks |-> 0, of |-> 0, early |-> FALSE, chance |-> FALSE]

Signed(t) == ((t + Word \div 2) % Word) - Word \div 2

-----------------------------------------------------------------------------
(* The fast path. *)

\* ctc8253_mode3_clocks_to_tc()
ClocksToEnd3(c) ==
  IF c.value <= Step3(c) THEN 1 ELSE 1 + (c.value - Step3(c) + 1) \div 2

\* ctc8253_mode3_advance()
Advance3(c, n) ==
  LET total == (Step3(c) + 2 * (n - 1)) % Word
  IN IF n = 0 THEN c
     ELSE [c EXCEPT !.value = IF @ > total + 1 THEN @ - total ELSE 2]

InMode3(c) == c.mode = 3 /\ c.state = "countdown"

\* ctc8253_update_ctc0_by_totalticks(): the difference of times is unsigned.
Update(f) ==
  LET n == (f.age % Word) \div Divider
  IN [f EXCEPT !.age = Signed(@ - n * Divider),
               !.c = IF InMode3(f.c) THEN Advance3(f.c, n)
                     ELSE [@ EXCEPT !.value = IF f.c.state = "blind"
                                              THEN Less(@, n) % Full ELSE Less(@, n)]]

Synced(f) == IF f.c.state \in Counting /\ f.ev # NoEvent THEN Update(f) ELSE f

\* A change of state has the event moved to the next edge.
Scheduled(f) == [f EXCEPT !.ev = Divider - phase, !.age = phase - Divider]
Rescheduled(f, old) == IF f.c.state = old THEN f ELSE Scheduled(f)

FastControl(f, mode, format) ==
  LET s == Synced(f)
  IN Rescheduled([s EXCEPT !.c = ControlWord(@, mode, format)], s.c.state)

FastLatch(f) == [Synced(f) EXCEPT !.c = LatchCommand(@)]

FastDataUnmoved(f, b, high) ==                       \* mutant of FastData
  [Synced(f) EXCEPT !.c = DataByte(@, b, high)]
FastData(f, b, high) ==
  LET s == Synced(f)
      d == [s EXCEPT !.c = DataByte(@, b, high)]
  IN IF IsFirst(s.c) THEN d ELSE Rescheduled(d, s.c.state)

FastRead(f) == [(IF f.c.latched THEN f ELSE Synced(f)) EXCEPT !.c = ReadByte(@)]

FastGate(f, g) ==
  LET d == [f EXCEPT !.c = GateEdge(@, g)]
      s == IF f.c.state \in Counting /\ f.ev # NoEvent THEN Update(d) ELSE d
  IN IF d.c.state = f.c.state THEN d ELSE Scheduled(s)

\* The edges before this one; a division of C rounds towards 0.
CaughtUp(f) ==
  LET n == IF f.age >= Divider THEN (f.age - Divider) \div Divider ELSE 0
  IN IF InMode3(f.c) THEN Advance3(f.c, n) ELSE [f.c EXCEPT !.value = Less(@, n)]

\* Somebody has looked shortly before: the value is taken for the last one.
AtEnd(c) ==
  CASE c.mode \in {0, 1} -> [c EXCEPT !.value = 1]
    [] c.mode = 2        -> [c EXCEPT !.value = 2]
    [] c.mode = 3        -> IF c.value = c.preset THEN c ELSE [c EXCEPT !.value = 2]

ClocksToEnd(c) == CASE c.mode \in {0, 1} -> c.value
                    [] c.mode = 2        -> c.value - 1
                    [] c.mode = 3        -> ClocksToEnd3(c)

\* ctc8253_ctc1m1_event()
FastEvent(f) ==
  LET before == IF f.c.state \notin Counting THEN f.c
                ELSE IF f.age > 0 THEN CaughtUp(f) ELSE AtEnd(f.c)
      c      == ClkFall(before)
      next   == CASE c.state = "load_done" -> Divider
                  [] c.state = "countdown" -> (ClocksToEnd(c) * Divider) % Word
                  [] before.state = "countdown" /\ c.state = "preset" -> Divider
                  [] OTHER -> NoEvent
  IN [c |-> c, ev |-> next, age |-> 0]

-----------------------------------------------------------------------------
\* ctc8253_clk_is_high()
ClkIsHigh == phase >= Divider \div 2

\* Events are dealt with before a device is accessed.
Settled == fast.ev # 0

Event ==
  /\ ~Settled
  /\ fast' = FastEvent(fast)
  /\ UNCHANGED <<exact, phase, span>>

\* The edge at which the counter takes its number, or half of a square wave ends.
TakesNumber(c) ==
  \/ c.state \in {"preset", "preset32"}
  \/ c.state = "load_done" /\ ~c.wait /\ c.mode # 1
  \/ InMode3(c) /\ c.value <= Step3(c)

\* On its way down a square wave comes by the odd number it was given meanwhile,
\* which ctc8253_mode3_step() takes for the beginning.
ByChance(c) ==
  InMode3(c) /\ c.value = c.preset /\ c.preset % 2 = 1 /\ span.clocks > 0

SpanAfter(c) ==
  CASE TakesNumber(c) -> [clocks |-> 0, early |-> FALSE, chance |-> span.chance \/ ByChance(c),
                           of |-> IF c.state = "preset32" THEN Late ELSE c.preset]
    [] span = NoSpan \/ c.state # "countdown" -> NoSpan
    [] OTHER -> [span EXCEPT !.clocks = @ + 1, !.chance = @ \/ ByChance(c)]

\* One tick; the time of a counter without an event is not looked at.
Tick ==
  /\ Settled
  /\ phase' = (phase + 1) % Divider
  /\ fast' = IF fast.ev = NoEvent THEN [fast EXCEPT !.age = 0]
             ELSE [fast EXCEPT !.ev = @ - 1, !.age = @ + 1]
  /\ IF phase' = 0 THEN exact' = ClkFall(exact) /\ span' = SpanAfter(exact)
                    ELSE UNCHANGED <<exact, span>>

Control(mode, format) ==
  /\ Settled
  /\ exact' = ControlWord(exact, mode, format)
  /\ fast' = FastControl(fast, mode, format)
  /\ span' = NoSpan /\ UNCHANGED phase

Latch ==
  /\ Settled
  /\ exact' = LatchCommand(exact) /\ fast' = FastLatch(fast)
  /\ UNCHANGED <<phase, span>>

Write(b) ==
  /\ Settled
  /\ exact' = DataByte(exact, b, ClkIsHigh) /\ fast' = FastData(fast, b, ClkIsHigh)
  /\ span' = CASE exact.mode \in {0, 1} \/ span = NoSpan -> NoSpan
               [] OTHER -> [span EXCEPT !.early = @ \/ (span.clocks = 0 /\ ~IsFirst(exact))]
  /\ UNCHANGED phase

Read ==
  /\ Settled
  /\ exact' = ReadByte(exact) /\ fast' = FastRead(fast)
  /\ UNCHANGED <<phase, span>>

Gate(g) ==
  /\ Settled /\ exact.gate # g /\ exact.mode \in GateModes
  /\ exact' = GateEdge(exact, g) /\ fast' = FastGate(fast, g)
  /\ span' = NoSpan /\ UNCHANGED phase

\* A snapshot is saved and loaded again.
Restore ==
  /\ Settled
  /\ \/ AnySnapshot
     \/ Snapshot(exact) = exact /\ Snapshot(fast.c) = fast.c
  /\ fast' = [fast EXCEPT !.c = Snapshot(@)]
  /\ UNCHANGED <<exact, phase, span>>

Init ==
  /\ exact = Reset
  /\ fast = [c |-> Reset, ev |-> NoEvent, age |-> 0]
  /\ phase \in 0..Divider-1 /\ span = NoSpan

Next == \/ Event \/ Tick \/ Latch \/ Read \/ Restore
        \/ \E mode \in Mode, format \in Format : Control(mode, format)
        \/ \E b \in Data : Write(b)
        \/ \E g \in {0, 1} : Gate(g)

Spec == Init /\ [][Next]_vars

-----------------------------------------------------------------------------
(* Properties *)

\* The variables have their types, and an event is never further away than the
\* longest count.
TypeOK ==
  /\ exact \in Counter /\ fast.c \in Counter
  /\ fast.ev \in 0 .. (Full + 1) * Divider \cup {NoEvent}
  /\ fast.age \in -Divider .. (Full + 1) * Divider
  /\ phase \in 0..Divider-1
  /\ span \in [clocks : 0..Full+1, of : 0..Full+1,
               early : BOOLEAN, chance : BOOLEAN]

\* The fast path is the exact counter: it has its output and its state, and while
\* it counts down it shows the processor its value.  No edge at which something
\* happens is left out, and nothing happens at another one, whatever is read,
\* loaded, latched or gated in between (ctc8253_ctc1m1_event()).  In the last
\* clock of half a square wave the value may be 2 for 1: there the fast path
\* stops (ctc8253_mode3_advance()), and an odd period replaced before its first
\* clock counts odd numbers.  One that meets its new number by chance on the way
\* is not followed: the fast path looks for it only where it begins to add up.
Shows(value, c) == \/ value % Full = c.value % Full
                   \/ InMode3(c) /\ c.value = 1 /\ value = 2

Agrees ==
  /\ fast.c.out = exact.out /\ fast.c.state = exact.state
  /\ exact.state = "countdown" => Shows(Synced(fast).c.value, exact)

FastAgrees == Settled /\ ~span.chance => Agrees

\* Bound of a run: behind such a meeting the two may be a clock apart until the
\* counter is gated or set anew.
BeforeChance == ~span.chance

\* Clocks from taking the number n to the next change of the output.
Expected(c, n) ==
  CASE c.mode \in {0, 1} -> n
    [] c.mode = 2        -> IF c.out = 1 THEN n - 1 ELSE n
    [] c.mode = 3        -> IF c.out = 1 THEN (n + 1) \div 2 ELSE n \div 2

\* The lower half of an odd square wave, given a number before its first clock:
\* the counter is no longer seen to stand at its period (ctc8253_mode3_step()).
MayStretch == exact.mode = 3 /\ exact.out = 0 /\ span.of % 2 = 1 /\ span.early

Ends == phase' = 0 /\ phase # 0 /\ span # NoSpan /\ exact'.out # exact.out

\* A counter that is left alone, but for new numbers, changes its output exactly
\* as many clocks after taking a number as the number says (ctc8253_clkfall()):
\* all of it in mode 0 and 1, all but the last one in mode 2, half of it rounded
\* up and then down in a square wave.  A number loaded meanwhile waits for the
\* next half, but that it may cost the lower half of an odd one a clock.
PeriodTrue ==
  [][ Ends => \/ span.clocks + 1 = Expected(exact, span.of)
              \/ MayStretch /\ span.clocks = Expected(exact, span.of) ]_vars

\* What the comments of the code say and other instances refute.
\*
\* Counting to zero takes an edge for each unit (ctc8253_clkfall()): the output
\* of the fast path does not rise while the exact counter has units to count.
NotEarly ==
  Settled /\ exact.mode = 0 /\ exact.state = "countdown" /\ exact.value \in 1..Full
    => fast.c.out = 0

\* A number loaded while a counter counts in mode 2 or 3 is only kept for the next
\* time it takes one (ctc8253_write_byte()).
PeriodKept == [][ Ends => span.clocks + 1 = Expected(exact, span.of) ]_vars

\* ... and what it meanwhile counts is counted by the fast path as well.
FastAlways == Settled => fast.c.out = exact.out

\* Behind zero the counter goes on downwards (ctc8253_clkfall()), as a reader of
\* the fast path sees it.
RunsOn ==
  Settled /\ exact.state = "blind" => Synced(fast).c.value % Full = exact.value % Full

\* A counter is saved and loaded with its state (snap_ctc8253.c): afterwards it
\* goes on with the number it had.
SnapshotKeeps == fast.c.preset = exact.preset

\* A complete load is followed by taking the number whatever the gate does
\* (CTC_STATE_LOAD_DONE).
TakenWhateverGate ==
  [][ exact.state = "load_done" /\ exact'.gate # exact.gate
        => exact'.state \in {"load_done", "preset"} ]_vars
=============================================================================
