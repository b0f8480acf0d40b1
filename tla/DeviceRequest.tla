--------------------------- MODULE DeviceRequest ---------------------------
(***************************************************************************)
(* Requests of the GUI to change a device (src/src/emulator/               *)
(* device_request.c): the GUI queues them, the emulation thread carries    *)
(* them out between two instructions, the GUI collects the results.        *)
(*                                                                         *)
(* Two locks.  s_lock guards the queues and the count; every section under *)
(* it is one action here.  The device state lock is held by the GUI while  *)
(* it draws the devices and by the emulation thread while it changes them: *)
(* the poll of the requests only tries it, but a tape command of the       *)
(* debugger waits for it on the emulation thread (dbgapi_emu_dispatch()),  *)
(* and the GUI waits for the emulation thread when it sends a command.     *)
(*                                                                         *)
(* Whether a request is carried out or refused because a recording is      *)
(* played back makes no difference to the queues and is left out.          *)
(***************************************************************************)
EXTENDS Integers, SequencesExt

CONSTANTS
  MaxSeq,       \* bound: requests submitted
  MaxClears,    \* bound: calls of device_request_clear()
  ResultsMax,   \* DEVICE_REQUEST_RESULTS_MAX
  None          \* nobody, no request

ASSUME DRAssumption ==
  /\ MaxSeq \in Nat /\ MaxClears \in Nat /\ ResultsMax \in Nat \ {0}
  /\ None \notin Nat /\ None \notin {"gui", "emu"}

VARIABLES
  pending,    \* s_pending: sequence numbers of the waiting requests
  results,    \* s_done: sequence numbers of the results not collected yet
  count,      \* s_pending_count
  seq,        \* s_seq
  holder,     \* who holds s_state_lock: "gui", "emu" or None
  emu,        \* where the emulation thread stands
  current,    \* the request it carries out, or None
  gui,        \* "idle", "draw" or "wait" (for a command of the debugger)
  commands,   \* whose debugger commands wait: "gui", "mcp"
  outcome,    \* history: what became of each request
  clears      \* calls of device_request_clear() so far

queueVars == <<pending, results, count, seq, outcome>>
pollVars  == <<emu, current>>
vars == <<queueVars, holder, pollVars, gui, commands, clears>>

Seq1    == 1..MaxSeq
Outcome == {"unsent", "waiting", "running", "done", "taken", "evicted", "cleared"}

\* The poll has the state lock: it stands in the loop over the requests.
InPoll == emu \in {"pop", "run"}

-----------------------------------------------------------------------------
(* The GUI thread. *)

Draw ==
  /\ gui = "idle" /\ holder = None
  /\ gui' = "draw" /\ holder' = "gui"
  /\ UNCHANGED <<queueVars, pollVars, commands, clears>>

Drawn ==
  /\ gui = "draw"
  /\ gui' = "idle" /\ holder' = None
  /\ UNCHANGED <<queueVars, pollVars, commands, clears>>

\* device_request_submit(), from a menu or a window of a device.
Submit ==
  /\ gui # "wait" /\ seq < MaxSeq
  /\ seq' = seq + 1
  /\ pending' = Append(pending, seq + 1)
  /\ count' = count + 1
  /\ outcome' = [outcome EXCEPT ![seq + 1] = "waiting"]
  /\ UNCHANGED <<results, holder, pollVars, gui, commands, clears>>

\* device_request_take_result(), once per frame of the GUI.
TakeResult ==
  /\ gui # "wait" /\ results # <<>>
  /\ results' = Tail(results)
  /\ outcome' = [outcome EXCEPT ![Head(results)] = "taken"]
  /\ UNCHANGED <<pending, count, seq, holder, pollVars, gui, commands, clears>>

\* The GUI sends a command of the debugger and waits for it: never while it
\* draws the devices.
WaitAnywhere == gui \in {"idle", "draw"}           \* mutant of FreeToWait
FreeToWait == gui = "idle"

SendCommand ==
  /\ FreeToWait
  /\ gui' = "wait"
  /\ commands' = commands \cup {"gui"}
  /\ UNCHANGED <<queueVars, holder, pollVars, clears>>

CommandReturns ==
  /\ gui = "wait" /\ "gui" \notin commands
  /\ gui' = IF holder = "gui" THEN "draw" ELSE "idle"
  /\ UNCHANGED <<queueVars, holder, pollVars, commands, clears>>

-----------------------------------------------------------------------------
(* Other threads: an MCP client's command, device_request_clear(). *)

ClientCommand ==
  /\ commands' = commands \cup {"mcp"}
  /\ UNCHANGED <<queueVars, holder, pollVars, gui, clears>>

Clear ==
  /\ clears < MaxClears
  /\ clears' = clears + 1
  /\ pending' = <<>> /\ results' = <<>> /\ count' = 0
  /\ outcome' = [r \in Seq1 |-> IF outcome[r] \in {"waiting", "done"}
                                THEN "cleared" ELSE outcome[r]]
  /\ UNCHANGED <<seq, holder, pollVars, gui, commands>>

-----------------------------------------------------------------------------
(* The emulation thread: device_request_poll(), then the debugger's         *)
(* commands.                                                               *)

PollNothing ==
  /\ emu = "poll" /\ count = 0
  /\ emu' = "commands"
  /\ UNCHANGED <<queueVars, holder, current, gui, commands, clears>>

\* g_mutex_trylock() fails: the next poll tries again.
TryFails ==
  /\ emu = "poll" /\ count # 0 /\ holder # None
  /\ emu' = "commands"
  /\ UNCHANGED <<queueVars, holder, current, gui, commands, clears>>

LockIgnored == TRUE                                \* mutant of LockFree
LockFree == holder = None

TryLock ==
  /\ emu = "poll" /\ count # 0 /\ LockFree
  /\ emu' = "pop" /\ holder' = "emu"
  /\ UNCHANGED <<queueVars, current, gui, commands, clears>>

Pop ==
  /\ emu = "pop" /\ pending # <<>>
  /\ emu' = "run"
  /\ current' = Head(pending)
  /\ pending' = Tail(pending)
  /\ outcome' = [outcome EXCEPT ![Head(pending)] = "running"]
  /\ UNCHANGED <<results, count, seq, holder, gui, commands, clears>>

LeavePoll ==
  /\ emu = "pop" /\ pending = <<>>
  /\ emu' = "commands" /\ holder' = None
  /\ UNCHANGED <<queueVars, current, gui, commands, clears>>

\* The request has been carried out: its result is queued, the oldest results
\* beyond the limit are dropped, and the count goes down unless a clear has
\* reset it.
AlwaysCountDown == count - 1                       \* mutant of CountDown
CountDown == IF count > 0 THEN count - 1 ELSE count

Kept(s) == IF Len(s) > ResultsMax THEN Tail(s) ELSE s

FinishRequest ==
  /\ emu = "run"
  /\ emu' = "pop" /\ current' = None
  /\ results' = Kept(Append(results, current))
  /\ outcome' = [r \in Seq1 |->
       IF r \in {results[i] : i \in DOMAIN results} \cup {current}
       THEN IF r \in {results'[i] : i \in DOMAIN results'} THEN "done" ELSE "evicted"
       ELSE outcome[r]]
  /\ count' = CountDown
  /\ UNCHANGED <<pending, seq, holder, gui, commands, clears>>

\* dbgapi_emu_dispatch() of a command that needs no device lock.
PlainCommand(c) ==
  /\ emu = "commands" /\ c \in commands
  /\ commands' = commands \ {c}
  /\ UNCHANGED <<queueVars, holder, pollVars, gui, clears>>

\* The commands of the tape: the thread waits for the lock.
TapeCommand ==
  /\ emu = "commands" /\ commands # {}
  /\ emu' = "lock"
  /\ UNCHANGED <<queueVars, holder, current, gui, commands, clears>>

TapeLocked ==
  /\ emu = "lock" /\ holder = None
  /\ emu' = "tape" /\ holder' = "emu"
  /\ UNCHANGED <<queueVars, current, gui, commands, clears>>

TapeDone(c) ==
  /\ emu = "tape" /\ c \in commands
  /\ emu' = "commands" /\ holder' = None
  /\ commands' = commands \ {c}
  /\ UNCHANGED <<queueVars, current, gui, clears>>

Drained ==
  /\ emu = "commands"
  /\ emu' = "poll"
  /\ UNCHANGED <<queueVars, holder, current, gui, commands, clears>>

EmuStep ==
  \/ PollNothing \/ TryFails \/ TryLock \/ Pop \/ LeavePoll \/ FinishRequest
  \/ TapeCommand \/ TapeLocked \/ Drained
  \/ \E c \in {"gui", "mcp"} : PlainCommand(c) \/ TapeDone(c)

Next ==
  \/ Draw \/ Drawn \/ Submit \/ TakeResult \/ SendCommand \/ CommandReturns
  \/ ClientCommand \/ Clear
  \/ EmuStep

Init ==
  /\ pending = <<>> /\ results = <<>> /\ count = 0 /\ seq = 0
  /\ holder = None
  /\ emu = "poll" /\ current = None
  /\ gui = "idle" /\ commands = {}
  /\ outcome = [r \in Seq1 |-> "unsent"]
  /\ clears = 0

Spec == Init /\ [][Next]_vars

\* Both threads go on.  The polls come much more often than the frames of the
\* GUI, which draws only part of its time: polls begin again and again while it
\* does not draw, and the state lock is not kept for ever from the emulation
\* thread, neither when it tries it nor when it waits for it.  Every drain of
\* the commands ends, and no command is passed over for ever.
Fairness ==
  /\ WF_vars(Drawn) /\ WF_vars(CommandReturns)
  /\ WF_vars(PollNothing \/ TryFails \/ Pop \/ LeavePoll \/ FinishRequest)
  /\ SF_vars(TryLock) /\ SF_vars(TapeLocked)
  /\ SF_vars(Drained) /\ SF_vars(Drained /\ holder = None)
  /\ \A c \in {"gui", "mcp"} : SF_vars(PlainCommand(c) \/ TapeDone(c))
  /\ WF_vars(\E c \in {"gui", "mcp"} : TapeDone(c))

FairSpec == Spec /\ Fairness

-----------------------------------------------------------------------------
(* Properties. *)

\* The variables have their types, and no more results wait than the limit.
TypeOK ==
  /\ pending \in Seq(Seq1) /\ results \in Seq(Seq1)
  /\ Len(results) <= ResultsMax
  /\ count \in 0..MaxSeq /\ seq \in 0..MaxSeq
  /\ holder \in {"gui", "emu", None}
  /\ emu \in {"poll", "pop", "run", "commands", "lock", "tape"}
  /\ current \in Seq1 \cup {None}
  /\ gui \in {"idle", "draw", "wait"}
  /\ commands \subseteq {"gui", "mcp"}
  /\ outcome \in [Seq1 -> Outcome]
  /\ clears \in 0..MaxClears

\* Outside the poll's loop the count is the number of waiting requests, whatever
\* device_request_clear() did while a request was carried out: the poll,
\* which looks at the count alone, never leaves a request behind.
CountTrue == ~InPoll => count = Len(pending)

\* The emulation thread changes no device while the GUI draws it.
NeverWhileDrawn == ~(gui = "draw" /\ emu \in {"pop", "run", "tape"})

\* The GUI gets the answer to its command: the emulation thread, which waits for
\* the state lock in a tape command, never waits for a GUI that waits for it.
GuiReturns == gui = "wait" ~> gui # "wait"
=============================================================================
