------------------------------ MODULE Ctc8253 ------------------------------
(***************************************************************************)
(* One counter of the timer 8253 (src/src/emulator/hw-generic/ctc8253/     *)
(* ctc8253.c) as functions of its registers: what a control word, a byte,  *)
(* a falling edge of the clock and an edge of the gate make of it.         *)
(*                                                                         *)
(* The program counts in 0..65536 written as two bytes; here a byte has    *)
(* Byte values.  BCD counting is stored and not implemented, like modes 4  *)
(* and 5; load_done is only set by old snapshots.                          *)
(***************************************************************************)
EXTENDS Integers

CONSTANTS
  Byte,     \* values of a byte, 256
  Word,     \* values of an unsigned, 2^32
  Late      \* what a counter triggered before its load counts, 32

ASSUME CtcAssumption == /\ {Byte, Word, Late} \subseteq Nat
                        /\ Byte > 1 /\ Late > 0 /\ Word > Late /\ Word > Byte * Byte + 1

Full == Byte * Byte                        \* what a load of 0 counts

State == {"init", "init_done", "load", "preset_error", "load_done", "wait_gate1",
          "preset", "preset32", "countdown", "trigger_error", "blind"}

Unloaded == {"init", "init_done", "load", "preset_error"}   \* < LOAD_DONE
Counting == {"countdown", "trigger_error", "blind"}         \* >= COUNTDOWN

\* "wait" is load_wait_rise, "second" rl_byte, "bytes" preset_latch, "latched"
\* latch_op; what the latch of a reading holds is data.
Counter == [
  out : {0, 1}, gate : {0, 1}, mode : 0..3, format : {"lsb", "msb", "both"},
  state : State, wait : BOOLEAN, second : BOOLEAN, latched : BOOLEAN,
  bytes : 0..Full-1, preset : 0..Full+1, value : 0..Word-1]

\* ctc8253_init()
Reset == [
  out |-> 0, gate |-> 0, mode |-> 0, format |-> "both", state |-> "init_done",
  wait |-> FALSE, second |-> FALSE, latched |-> FALSE,
  bytes |-> 0, preset |-> Full - 1, value |-> 0]

-----------------------------------------------------------------------------
(* Bytes from and to the processor. *)

ControlWord(c, mode, format) ==
  [c EXCEPT !.second = FALSE, !.latched = FALSE,
            !.mode = mode, !.format = format, !.state = "init",
            !.out = IF mode = 0 THEN 0 ELSE 1]

LatchCommand(c) == [c EXCEPT !.second = FALSE, !.latched = TRUE]

\* A load in mode 0 stops the counter with its first byte.
Begun(c) ==
  IF c.mode = 0 /\ c.state \notin {"init", "init_done"}
  THEN [c EXCEPT !.latched = FALSE, !.state = "load", !.out = 0]
  ELSE [c EXCEPT !.latched = FALSE]

IsFirst(c) == c.format = "both" /\ ~c.second

OrBits[x \in Nat, y \in Nat] ==
  IF x + y = 0 THEN 0
  ELSE 2 * OrBits[x \div 2, y \div 2] + IF (x % 2) + (y % 2) = 0 THEN 0 ELSE 1

\* The second byte is added to the bits of the last load, of which the first
\* one is new unless a reading has moved the pointer.
Number(c, b) == CASE c.format = "lsb" -> b
                  [] c.format = "msb" -> b * Byte
                  [] OTHER -> (c.bytes % Byte) + OrBits[c.bytes \div Byte, b] * Byte

PresetPlain(mode, n) == n                      \* mutant of Preset
Preset(mode, n) == IF n = 0 THEN Full ELSE IF mode = 3 /\ n = 1 THEN Full + 1 ELSE n

\* The level of the clock decides whether the next edge loads the counter.
Loaded(c, n, high) ==
  LET d == [c EXCEPT !.bytes = n, !.second = FALSE, !.preset = Preset(c.mode, n)]
  IN CASE c.state \in Unloaded       -> [d EXCEPT !.state = "load_done", !.wait = high]
       [] c.state = "trigger_error"  -> [d EXCEPT !.state = "preset32"]
       [] OTHER                      -> d

DataByte(c, b, high) ==
  LET d == Begun(c)
  IN IF IsFirst(c) THEN [d EXCEPT !.bytes = b, !.second = TRUE]
                   ELSE Loaded(d, Number(d, b), high)

\* Reading moves the same pointer as writing.
ReadByte(c) ==
  CASE IsFirst(c)          -> [c EXCEPT !.second = TRUE]
    [] c.format = "both"   -> [c EXCEPT !.second = FALSE, !.latched = FALSE]
    [] OTHER               -> [c EXCEPT !.latched = FALSE]

\* What a snapshot keeps of it: two bytes of each number.
Snapshot(c) == [c EXCEPT !.preset = @ % Full, !.value = @ % Full]

-----------------------------------------------------------------------------
(* Edges. *)

Less(v, n) == (v - n) % Word

Started(c) == [c EXCEPT !.value = c.preset,
                        !.state = IF c.gate = 1 THEN "countdown" ELSE "wait_gate1"]

\* The step of a square wave: by 2, but for the first of an odd period.
Step3(c) == IF c.value = c.preset /\ c.preset % 2 = 1
            THEN IF c.out = 1 THEN 1 ELSE 3 ELSE 2

ClkFall0(c) ==
  CASE c.state = "blind" -> [c EXCEPT !.value = (@ - 1) % Full]
    [] c.state \in Counting \ {"blind"} ->
         LET v == Less(c.value, 1)
         IN IF v = 0 THEN [c EXCEPT !.value = v, !.out = 1, !.state = "blind"]
                     ELSE [c EXCEPT !.value = v]
    [] c.state = "load_done" -> Started(c)
    [] OTHER -> c

ClkFall1(c) ==
  CASE c.state = "blind" ->
         LET v == Less(c.value, 1)
         IN [c EXCEPT !.value = IF v = 0 THEN Full - 1 ELSE v]
    [] c.state = "countdown" ->
         LET v == Less(c.value, 1)
         IN IF v = 0
            THEN [c EXCEPT !.value = v, !.out = 1,
                           !.state = IF c.gate = 1 THEN "blind" ELSE "wait_gate1"]
            ELSE [c EXCEPT !.value = v]
    [] c.state = "load_done" ->
         [c EXCEPT !.state = IF c.gate = 1 THEN "blind" ELSE "wait_gate1"]
    [] c.state = "preset" ->
         [c EXCEPT !.value = c.preset, !.out = 0, !.state = "countdown"]
    [] c.state = "preset32" -> [c EXCEPT !.value = Late, !.state = "countdown"]
    [] OTHER -> c

ClkFall2(c) ==
  CASE c.state = "countdown" ->
         LET v == Less(c.value, 1)
         IN IF v = 1 THEN [c EXCEPT !.value = v, !.out = 0, !.state = "preset"]
                     ELSE [c EXCEPT !.value = v]
    [] c.state \in {"preset", "load_done"} ->
         IF c.preset = 1
         THEN [c EXCEPT !.value = 1, !.out = 1, !.state = "preset_error"]
         ELSE Started([c EXCEPT !.out = 1])
    [] OTHER -> c

ClkFall3(c) ==
  CASE c.state = "countdown" ->
         IF c.value > Step3(c) THEN [c EXCEPT !.value = @ - Step3(c)]
         ELSE IF c.out = 1 THEN [c EXCEPT !.value = c.preset, !.out = 0]
                           ELSE Started([c EXCEPT !.out = 1])
    [] c.state \in {"preset", "load_done"} -> Started([c EXCEPT !.out = 1])
    [] OTHER -> c

\* A value written while the clock was high waits for the second edge.
ClkFall(c) ==
  CASE c.state = "load_done" /\ c.wait -> [c EXCEPT !.wait = FALSE]
    [] c.state = "init" -> [c EXCEPT !.state = "init_done"]
    [] OTHER -> CASE c.mode = 0 -> ClkFall0(c) [] c.mode = 1 -> ClkFall1(c)
                  [] c.mode = 2 -> ClkFall2(c) [] c.mode = 3 -> ClkFall3(c)

Gate0(c, g) == [c EXCEPT !.gate = g,
  !.state = IF g = 0 THEN "wait_gate1" ELSE IF c.out = 0 THEN "countdown" ELSE "blind"]

Gate1(c, g) ==
  LET d == [c EXCEPT !.gate = g]
  IN CASE g = 1 /\ c.state \in {"load_done", "wait_gate1", "countdown"} ->
            [d EXCEPT !.state = "preset"]
       [] g = 1 /\ c.state = "init_done" ->
            [d EXCEPT !.out = 0, !.state = "trigger_error"]
       [] g = 0 /\ c.state = "blind" -> [d EXCEPT !.state = "wait_gate1"]
       [] OTHER -> d

Gate23(c, g) ==
  LET d == [c EXCEPT !.gate = g]
  IN CASE g = 0 /\ c.state \in {"countdown", "preset"} ->
            [d EXCEPT !.out = 1, !.state = "wait_gate1"]
       [] g = 1 /\ c.state = "wait_gate1" -> [d EXCEPT !.state = "preset"]
       [] OTHER -> d

\* Called when the level changes.
GateEdge(c, g) ==
  CASE c.state = "init" -> [c EXCEPT !.gate = g]
    [] c.mode = 0       -> Gate0(c, g)
    [] c.mode = 1       -> Gate1(c, g)
    [] OTHER            -> Gate23(c, g)
=============================================================================
