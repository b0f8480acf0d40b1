------------------------------ MODULE RunLoop -------------------------------
(***************************************************************************)
(* The emulation thread between two instructions: its running loop and the *)
(* loop it stays in while paused (src/src/emulator/mzarch/mzarch.c), the   *)
(* commands that start, bound and stop a run (debugger/dbgapi.c), and the  *)
(* numbers of the runs, on which MCP clients wait                          *)
(* (debugger/run_control).                                                 *)
(*                                                                         *)
(* The flag `paused' is what a client asks for; the emulation has stopped  *)
(* when the thread has entered the paused loop.  Between the two it may    *)
(* still take commands, and in the paused loop it goes on taking them      *)
(* after one has cleared the flag.  The commands wait in the queue of      *)
(* module CmdQueue, here a sequence of clients.  The input recorder, which *)
(* can also pause and resume, is off, and nobody presses the Pause key of  *)
(* the window, which sets the flag from the GUI's thread.                  *)
(***************************************************************************)
EXTENDS Integers, SequencesExt

CONSTANTS
  Client,       \* MCP clients and the debugger's windows
  Frames,       \* length of a bounded run, in frames
  MaxRequests,  \* bound: commands sent and resets asked for
  Off,          \* no frame bound
  NoRun         \* no run number

ASSUME FramesAssumption == Frames \in Nat \ {0} /\ Off \notin Nat

ASSUME RequestsAssumption == MaxRequests \in Nat /\ NoRun \notin Nat

VARIABLES
  pos,        \* where the emulation thread stands
  paused,     \* g_emulator.paused
  step,       \* g_debugger.step_call
  skip,       \* skip_bp_at_pc is the address of the next instruction
  target,     \* stops of the current run: temporary breakpoint, time (stop_at)
  frames,     \* frames a bounded run has left, or Off
  deadline,   \* run_deadline_active
  reset,      \* g_mzarch_main.reset_request
  seq,        \* number of the current or last run
  running,    \* run `seq' has begun and not ended
  stepRun,    \* s_rc.step: the run was begun as a step
  queue,      \* clients whose commands wait, in order
  at, cmd,    \* per client: idle, queued, answered or done; its command
  ans,        \* per client: what it was told, and about which run
  left,       \* commands and resets that may still be sent
  insns,      \* history: instructions this step has executed, 2 stands for more
  disturbed,  \* history: a reset, a breakpoint or the GUI cut into the step
  stopped     \* history, per client: the emulation stopped since its answer

flagVars   == <<paused, step, target, frames, deadline>>
logVars    == <<seq, running, stepRun>>
clientVars == <<queue, at, cmd, ans, stopped, left>>
histVars   == <<insns, disturbed>>
vars == <<pos, skip, reset, flagVars, logVars, clientVars, histVars>>

Op      == {"PAUSE", "RUN", "RUN_FRAMES", "STEP_INTO", "STEP_OVER", "RUN_TO",
            "RUN_UNTIL_TICKS", "RUN_DEADLINE", "RESET", "QUERY"}
\* REACHED is STARTED with reached_now, which the answer carries beside it.
Status  == {"none", "STARTED", "PAUSED_ONLY", "NOT_PAUSED", "REACHED"}
Pos     == {"top", "bp", "exec", "event", "hooks", "bounds",
            "entry", "paused", "drain", "poll", "leave"}

NoCommand == [op |-> "QUERY", run |-> NoRun]

-----------------------------------------------------------------------------
(* Setting the flags. *)

\* emulator_pause(): a pause that takes effect removes the run's own stops.
PauseKeepsTarget(on) ==                            \* mutant of Pause
  /\ paused' = on
  /\ target' = target

Pause(on) ==
  /\ paused' = on
  /\ target' = IF on /\ ~paused THEN {} ELSE target

\* mzarch_run_to_temporary_breakpoint() after the breakpoint has been set.
RunToTarget(t) ==
  /\ target' = target \cup {t}
  /\ paused' = FALSE

\* mzarch_main_reset(): the program counter is 0, a frame bound is gone, and
\* a breakpoint on the reset may stop here as one on an address does.
MachineReset ==
  /\ skip' = FALSE
  /\ frames' = Off
  /\ disturbed' = stepRun
  /\ \/ UNCHANGED <<paused, step, target>>
     \/ Pause(TRUE) /\ step' = FALSE

NoReset == UNCHANGED <<skip, frames, disturbed, paused, step, target>>

-----------------------------------------------------------------------------
(* The commands (dbgapi_emu_dispatch()), each for the client c it answers. *)

\* run_control_seq_for_start(): the run a command that starts one is about.
CurrentSeq == seq                                  \* mutant of SeqForStart
SeqForStart == IF running THEN seq ELSE seq + 1

Tell(c, status, n) == ans' = [ans EXCEPT ![c] = [status |-> status, run |-> n]]
TellStart(c) == Tell(c, IF paused THEN "STARTED" ELSE "NOT_PAUSED", SeqForStart)
TellNothing(c) == Tell(c, "none", ans[c].run)

KeepBounds == UNCHANGED <<frames, deadline>>

\* PAUSE, with the number of the only run it may stop or without;
\* FORCE_PAUSE differs in the recorded reason alone.
CmdPause(c) ==
  /\ cmd[c].op = "PAUSE"
  /\ IF cmd[c].run # NoRun /\ (paused \/ seq # cmd[c].run)
     THEN UNCHANGED <<paused, target>>
     ELSE Pause(TRUE)
  /\ TellNothing(c)
  /\ KeepBounds
  /\ UNCHANGED <<step, reset, skip, disturbed>>

CmdRun(c) ==
  /\ cmd[c].op = "RUN"
  /\ TellStart(c)
  /\ Pause(FALSE)
  /\ KeepBounds
  /\ UNCHANGED <<step, reset, skip, disturbed>>

CmdRunFrames(c) ==
  /\ cmd[c].op = "RUN_FRAMES"
  /\ TellStart(c)
  /\ frames' = Frames
  /\ paused' = FALSE
  /\ UNCHANGED <<step, target, deadline, reset, skip, disturbed>>

\* STEP_INTO: debugger_step_call(1) does nothing while the emulation runs.
CmdStepInto(c) ==
  /\ cmd[c].op = "STEP_INTO"
  /\ TellStart(c)
  /\ step' = (step \/ paused)
  /\ KeepBounds
  /\ UNCHANGED <<paused, target, reset, skip, disturbed>>

\* A running emulation is only paused by the commands below.
PauseOnly(c) ==
  /\ ~paused
  /\ cmd[c].op \in {"STEP_OVER", "RUN_TO", "RUN_UNTIL_TICKS"}
  /\ Tell(c, "PAUSED_ONLY", seq)
  /\ Pause(TRUE)
  /\ KeepBounds
  /\ UNCHANGED <<step, reset, skip, disturbed>>

\* STEP_OVER of an instruction that is neither a call nor repeats.
CmdStepOver(c) ==
  /\ cmd[c].op = "STEP_OVER" /\ paused
  /\ TellStart(c)
  /\ step' = TRUE
  /\ KeepBounds
  /\ UNCHANGED <<paused, target, reset, skip, disturbed>>

\* RUN_TO, STEP_OUT, and STEP_OVER of a call or a repeated instruction.
CmdRunTo(c) ==
  /\ cmd[c].op \in {"STEP_OVER", "RUN_TO"} /\ paused
  /\ TellStart(c)
  /\ step' = FALSE
  /\ RunToTarget("address")
  /\ KeepBounds
  /\ UNCHANGED <<reset, skip, disturbed>>

CmdRunUntil(c) ==
  /\ cmd[c].op = "RUN_UNTIL_TICKS" /\ paused
  /\ TellStart(c)
  /\ RunToTarget("time")
  /\ KeepBounds
  /\ UNCHANGED <<step, reset, skip, disturbed>>

\* RUN_UNTIL_TICKS, and its time has come already: nothing is armed or begun,
\* and the answer, in the code that of a start as well, names the last run.
FutureSeq == seq + 1                               \* mutant of ReachedSeq
ReachedSeq == seq

CmdReached(c) ==
  /\ cmd[c].op = "RUN_UNTIL_TICKS" /\ paused
  /\ Tell(c, "REACHED", ReachedSeq)
  /\ KeepBounds
  /\ UNCHANGED <<paused, step, target, reset, skip, disturbed>>

\* RUN_DEADLINE arms or clears the deadline; it starts nothing.
CmdDeadline(c) ==
  /\ cmd[c].op = "RUN_DEADLINE"
  /\ deadline' \in BOOLEAN
  /\ TellNothing(c)
  /\ UNCHANGED <<paused, step, target, frames, reset, skip, disturbed>>

\* RESET happens at once when paused, else it is left to the loop.
CmdReset(c) ==
  /\ cmd[c].op = "RESET"
  /\ IF paused THEN MachineReset /\ UNCHANGED reset
               ELSE NoReset /\ reset' = TRUE
  /\ TellNothing(c)
  /\ UNCHANGED deadline

\* IS_RUNNING, and every command that changes nothing of the above.
CmdQuery(c) ==
  /\ cmd[c].op = "QUERY"
  /\ TellNothing(c)
  /\ KeepBounds
  /\ UNCHANGED <<paused, step, target, reset, skip, disturbed>>

Carry(c) ==
  \/ CmdPause(c) \/ CmdRun(c) \/ CmdRunFrames(c) \/ CmdStepInto(c)
  \/ PauseOnly(c) \/ CmdStepOver(c) \/ CmdRunTo(c) \/ CmdRunUntil(c)
  \/ CmdReached(c) \/ CmdDeadline(c) \/ CmdReset(c) \/ CmdQuery(c)

\* The command of client c, taken from place i of the queue.
Dispatch(c, i) ==
  /\ Carry(c)
  /\ queue' = RemoveAt(queue, i)
  /\ at' = [at EXCEPT ![c] = "answered"]
  /\ cmd' = [cmd EXCEPT ![c] = NoCommand]
  /\ stopped' = [stopped EXCEPT ![c] = FALSE]
  /\ UNCHANGED <<left, pos, logVars, insns>>

-----------------------------------------------------------------------------
(* The running loop. *)

Top ==
  /\ pos = "top"
  /\ pos' = "bp"
  /\ reset' = FALSE
  /\ IF reset THEN MachineReset ELSE NoReset
  /\ UNCHANGED <<deadline, logVars, clientVars, insns>>

\* The instruction the last pause stopped at is executed without a check.
SkipBreakpoints ==
  /\ pos = "bp" /\ skip
  /\ skip' = FALSE
  /\ pos' = "exec"
  /\ UNCHANGED <<reset, flagVars, logVars, clientVars, histVars>>

\* No breakpoint stops here; a flag set otherwise is obeyed.
NoBreakpoint ==
  /\ pos = "bp" /\ ~skip
  /\ pos' = IF paused THEN "entry" ELSE "exec"
  /\ UNCHANGED <<skip, reset, flagVars, logVars, clientVars, histVars>>

\* A breakpoint on the address, a user's or the temporary one, shows the
\* debugger's window, which clears the step.
HitBreakpoint ==
  /\ pos = "bp" /\ ~skip
  /\ Pause(TRUE)
  /\ step' = FALSE
  /\ disturbed' = stepRun
  /\ pos' = "entry"
  /\ KeepBounds
  /\ UNCHANGED <<skip, reset, logVars, clientVars, insns>>

\* run_control_stop_at_check(): the time of RUN_UNTIL_TICKS has come.
HitTime ==
  /\ pos = "bp" /\ ~skip
  /\ "time" \in target
  /\ Pause(TRUE)
  /\ pos' = "entry"
  /\ KeepBounds
  /\ UNCHANGED <<step, skip, reset, logVars, clientVars, insns, disturbed>>

\* An action of a breakpoint that goes on takes the pauses and the queries
\* out of the queue, ahead of the commands they stand behind.
Control(c) == cmd[c].op \in {"PAUSE", "QUERY"}

BreakpointDrain ==
  /\ pos = "exec" \/ (pos = "bp" /\ ~skip)
  /\ \E i \in DOMAIN queue :
       /\ Control(queue[i])
       /\ \A j \in 1 .. i - 1 : ~Control(queue[j])
       /\ Dispatch(queue[i], i)

\* One instruction; an access of it may hit a breakpoint.
Execute ==
  /\ pos = "exec"
  /\ insns' = IF stepRun /\ insns < 2 THEN insns + 1 ELSE insns
  /\ pos' = "event"
  /\ \/ UNCHANGED <<flagVars, disturbed>>
     \/ Pause(TRUE) /\ step' = FALSE /\ disturbed' = stepRun /\ KeepBounds
  /\ UNCHANGED <<skip, reset, logVars, clientVars>>

\* Pausing schedules an event, so a paused emulation never goes on here.
NoEvent ==
  /\ pos = "event" /\ ~paused
  /\ pos' = "top"
  /\ UNCHANGED <<skip, reset, flagVars, logVars, clientVars, histVars>>

OtherEvent ==
  /\ pos = "event"
  /\ pos' = "bounds"
  /\ UNCHANGED <<skip, reset, flagVars, logVars, clientVars, histVars>>

\* The queue is left alone in a step: the step ends in this very block.
HooksInStep == IF step THEN "hooks" ELSE "bounds"  \* mutant of HooksUnlessStep
HooksUnlessStep == IF step THEN "bounds" ELSE "hooks"

FrameEnd ==
  /\ pos = "event"
  /\ frames' = IF frames = Off THEN Off ELSE frames - 1
  /\ pos' = HooksUnlessStep
  /\ UNCHANGED <<paused, step, target, deadline, skip, reset, logVars, clientVars, histVars>>

\* mzarch_main_dbgapi_drain(): until the queue is empty, whatever was asked.
RunningDrain == pos = "hooks" /\ queue # <<>> /\ Dispatch(queue[1], 1)

HooksDone ==
  /\ pos = "hooks" /\ queue = <<>>
  /\ pos' = "bounds"
  /\ UNCHANGED <<skip, reset, flagVars, logVars, clientVars, histVars>>

\* run_control_check_run_bounds(): a frame bound is checked first.
FramesPassed == frames = -1                        \* mutant of FramesDone
FramesDone == frames = 0

HitBound ==
  /\ pos = "bounds"
  /\ \/ FramesDone /\ frames' = Off /\ UNCHANGED deadline
     \/ ~FramesDone /\ deadline /\ deadline' = FALSE /\ UNCHANGED frames
  /\ paused' = TRUE
  /\ target' = IF paused THEN target ELSE {}
  /\ pos' = "entry"
  /\ UNCHANGED <<step, skip, reset, logVars, clientVars, histVars>>

NoBound ==
  /\ pos = "bounds" /\ ~FramesDone
  /\ pos' = IF paused THEN "entry" ELSE "top"
  /\ UNCHANGED <<skip, reset, flagVars, logVars, clientVars, histVars>>

-----------------------------------------------------------------------------
(* The paused loop: mzzarch_main_do_emulator_paused(). *)

\* run_control_on_stop() and debugger_step_call(0).
Enter ==
  /\ pos = "entry"
  /\ pos' = "paused"
  /\ running' = FALSE
  /\ step' = FALSE
  /\ frames' = Off
  /\ deadline' = FALSE
  /\ stopped' = [c \in Client |-> at[c] \in {"answered", "done"}]
  /\ UNCHANGED <<paused, target, skip, reset, seq, stepRun, queue, at, cmd, ans,
                 left, insns, disturbed>>

LoopTest ==
  /\ pos = "paused"
  /\ pos' = IF paused /\ ~step THEN "drain" ELSE "leave"
  /\ UNCHANGED <<skip, reset, flagVars, logVars, clientVars, histVars>>

\* dbgapi_emu_drain_paused(): until a step is asked for or the queue is empty.
DrainToTheEnd == queue # <<>>                      \* mutant of DrainGoesOn
DrainGoesOn == ~step /\ queue # <<>>

PausedDrain == pos = "drain" /\ DrainGoesOn /\ Dispatch(queue[1], 1)

PausedDrainDone ==
  /\ pos = "drain" /\ ~DrainGoesOn
  /\ pos' = "poll"
  /\ UNCHANGED <<skip, reset, flagVars, logVars, clientVars, histVars>>

\* The rest of a turn: the reset the GUI asked for, then at most 20 ms of rest.
Poll ==
  /\ pos = "poll"
  /\ pos' = "paused"
  /\ reset' = FALSE
  /\ IF reset THEN MachineReset ELSE NoReset
  /\ UNCHANGED <<deadline, logVars, clientVars, insns>>

\* skip_bp_at_pc and run_control_on_resume().
Leave ==
  /\ pos = "leave"
  /\ pos' = "top"
  /\ skip' = TRUE
  /\ seq' = seq + 1
  /\ running' = TRUE
  /\ stepRun' = step
  /\ insns' = 0
  /\ disturbed' = FALSE
  /\ UNCHANGED <<reset, flagVars, clientVars>>

-----------------------------------------------------------------------------
(* Clients and the GUI thread. *)

\* A pause may name the run its client was last told of.
Submit(c) ==
  /\ at[c] # "queued" /\ left > 0
  /\ \E op \in Op : \E n \in {NoRun, ans[c].run} :
       /\ op # "PAUSE" => n = NoRun
       /\ cmd' = [cmd EXCEPT ![c] = [op |-> op, run |-> n]]
  /\ at' = [at EXCEPT ![c] = "queued"]
  /\ queue' = Append(queue, c)
  /\ left' = left - 1
  /\ stopped' = [stopped EXCEPT ![c] = FALSE]
  /\ UNCHANGED <<pos, skip, reset, flagVars, logVars, ans, histVars>>

\* run_log_wait() for the run a client was told of.
Starting == {"STARTED", "NOT_PAUSED"}

IsStopped(n) == n < seq \/ (n = seq /\ ~running)

WaitDone(c) ==
  /\ at[c] = "answered"
  /\ ans[c].status \in Starting \cup {"REACHED"}
  /\ IsStopped(ans[c].run)
  /\ at' = [at EXCEPT ![c] = "done"]
  /\ UNCHANGED <<pos, skip, reset, flagVars, logVars, queue, cmd, ans, stopped, left, histVars>>

RequestReset ==
  /\ left > 0
  /\ reset' = TRUE
  /\ left' = left - 1
  /\ UNCHANGED <<pos, skip, flagVars, logVars, queue, at, cmd, ans, stopped, histVars>>

\* Showing or hiding the debugger's window ends a step from another thread.
ClearStep ==
  /\ step
  /\ step' = FALSE
  /\ disturbed' = stepRun
  /\ UNCHANGED <<pos, paused, target, frames, deadline, skip, reset, logVars,
                 clientVars, insns>>

-----------------------------------------------------------------------------
Init ==
  /\ pos = "top" /\ paused = FALSE /\ step = FALSE /\ skip = FALSE
  /\ target = {} /\ frames = Off /\ deadline = FALSE /\ reset = FALSE
  /\ seq = 0 /\ running = TRUE /\ stepRun = FALSE
  /\ queue = <<>>
  /\ at = [c \in Client |-> "idle"]
  /\ cmd = [c \in Client |-> NoCommand]
  /\ ans = [c \in Client |-> [status |-> "none", run |-> NoRun]]
  /\ left = MaxRequests
  /\ insns = 0 /\ disturbed = FALSE
  /\ stopped = [c \in Client |-> FALSE]

Emulate ==
  \/ Top \/ SkipBreakpoints \/ NoBreakpoint \/ HitBreakpoint \/ HitTime
  \/ BreakpointDrain \/ Execute \/ NoEvent \/ OtherEvent \/ FrameEnd
  \/ RunningDrain \/ HooksDone \/ HitBound \/ NoBound
  \/ Enter \/ LoopTest \/ PausedDrain \/ PausedDrainDone \/ Poll \/ Leave

Next ==
  \/ Emulate
  \/ \E c \in Client : Submit(c) \/ WaitDone(c)
  \/ RequestReset \/ ClearStep

Spec == Init /\ [][Next]_vars

\* The emulation thread runs, and emulated time reaches the end of a frame.
FairSpec == Spec /\ WF_vars(Emulate) /\ SF_vars(FrameEnd)

-----------------------------------------------------------------------------
RunId == {NoRun} \cup Nat

TypeOK ==
  /\ pos \in Pos
  /\ paused \in BOOLEAN /\ step \in BOOLEAN /\ skip \in BOOLEAN
  /\ deadline \in BOOLEAN /\ reset \in BOOLEAN /\ running \in BOOLEAN
  /\ stepRun \in BOOLEAN /\ disturbed \in BOOLEAN
  /\ target \subseteq {"address", "time"}
  /\ frames \in {Off} \cup 0 .. Frames
  /\ seq \in Nat /\ left \in 0 .. MaxRequests /\ insns \in 0 .. 2
  /\ queue \in Seq(Client)
  /\ at \in [Client -> {"idle", "queued", "answered", "done"}]
  /\ cmd \in [Client -> [op : Op, run : RunId]]
  /\ ans \in [Client -> [status : Status, run : RunId]]
  /\ stopped \in [Client -> BOOLEAN]

\* A run begun as a step executes one instruction, never two, and stops after
\* no fewer, unless a reset, a breakpoint or the GUI cut in: no command that
\* is queued meanwhile can turn the step into a run (mzarch.c:423-436).
StepIsOne ==
  stepRun /\ running /\ ~disturbed =>
    /\ insns <= 1
    /\ pos = "entry" => insns = 1

\* What a run was told to stop at never outlives the run: with `paused' set
\* the temporary breakpoint and the time are gone, whoever caused the pause
\* and in whatever order the commands came (emulator_pause()).
TargetsEndAtPause == paused => target = {}

\* A bound of frames holds until the pause only: when the paused loop comes to
\* rest, none is left for the next, unrelated run (run_control.c:207-209).
BoundEndsAtPause == pos = "poll" /\ paused => frames = Off

\* A client that waits for the run it started, or found running, is told it
\* is done only after the emulation has stopped since (run_log_wait()).  One
\* that was told its time had come already started none: the run it was told
\* of has begun, so it never waits for a run that nobody starts, and with the
\* emulation at rest it need not wait at all.
DoneIsTrue ==
  \A c \in Client :
    /\ at[c] = "done" /\ ans[c].status \in Starting => stopped[c]
    /\ ans[c].status = "REACHED" => ans[c].run <= seq
    /\ ans[c].status = "REACHED" /\ pos = "poll" => IsStopped(ans[c].run)

StepStaysPaused == step => paused

\* Every command is taken, as long as a step stays in the pause, which
\* mzarch.c:424-425 takes for granted and a step overtaken in the drain of a
\* frame denies: a running emulation with the step set would never drain again.
\* A reset is carried out, running or paused (liveness).
Served ==
  /\ []StepStaysPaused => \A c \in Client : (at[c] = "queued") ~> (at[c] # "queued")
  /\ reset ~> ~reset

\* An accepted step is executed before the next command of the queue
\* (dbgapi_cmdrq.h:3892-3893).
Took(c) == at[c] = "queued" /\ at'[c] = "answered"
StepFirst == [][\A c \in Client : Took(c) => ~step]_vars

\* A pause for one run stops that run, and only while it runs
\* (dbgapi_cmdrq.h:3919-3921).
PauseOnlyThatRun ==
  [][\A c \in Client :
       Took(c) /\ cmd[c].op = "PAUSE" /\ cmd[c].run # NoRun /\ ~paused /\ paused'
         => running /\ seq = cmd[c].run]_vars
=============================================================================
