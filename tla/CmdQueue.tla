------------------------------ MODULE CmdQueue ------------------------------
(***************************************************************************)
(* The synchronous command queue between the client threads (ImGui thread, *)
(* MCP worker threads) and the emulation thread:                           *)
(*     src/src/emulator/debugger/dbgapi.c, dbgapi_cmdrq.h                  *)
(* and the drain of control commands at a breakpoint boundary:             *)
(*     src/src/emulator/debugger/breakpoints.c                             *)
(*                                                                         *)
(* One action is one critical section of the code.  A submit holds         *)
(* queue_mutex, then the slot mutex; it releases both to wait, and a       *)
(* client whose timeout expires releases the slot mutex before it takes    *)
(* queue_mutex again, which is where the races are.                        *)
(***************************************************************************)
EXTENDS Integers

CONSTANTS
  Client,       \* threads that submit commands
  Command,      \* command codes
  Control,      \* commands allowed at a breakpoint boundary
  Bus,          \* commands whose handler accesses the bus of the machine
  N,            \* DBGAPI_CMDRQ_QUEUE_SIZE
  Nobody,       \* the NULL data pointer of a free slot
  EndingUsed    \* does the program call dbgapi_emu_set_ending()?

ASSUME CommandAssumption == Control \subseteq Command /\ Bus \subseteq Command \ Control
ASSUME SizeAssumption    == N \in Nat \ {0, 1}
ASSUME NobodyAssumption  == Nobody \notin Client
ASSUME EndingAssumption  == EndingUsed \in BOOLEAN

VARIABLES
  head, tail,    \* read and write index of the ring
  reply_state,   \* NONE or ENDING
  slot,          \* the ring of slots
  pc,            \* where each client stands in dbgapi_ui_submit_impl()
  at,            \* its local variable `slot'
  ret,           \* status its last submit returned, none before that
  drain,         \* frame of the drain of the frame end or of the paused loop
  bp,            \* frame of the drain at a breakpoint boundary
  alive,         \* FALSE once the emulation thread left its main loop
  execs,         \* history: how often the client's last submit was dispatched
  verdict        \* history: what the handler of that command answered

queueVars  == <<head, tail, reply_state, slot>>
clientVars == <<pc, at, ret>>
emuVars    == <<drain, bp, alive>>
history    == <<execs, verdict>>
vars       == <<queueVars, clientVars, emuVars, history>>

Slot  == 0 .. N - 1
State == {"NONE", "PENDING", "PROCESSED", "CANCELLED"}
Place == {"idle",      \* not in a submit
          "waiting",   \* waiting for PROCESSED until the timeout
          "relock",    \* timed out, has released the slot mutex
          "held",      \* the command is being processed; stall watch armed
          "stalled",   \* inside stall_cb(), without the slot mutex
          "last"}      \* unlimited wait for PROCESSED
Status == {"OK", "FAILED", "TIMEOUT", "QUEUE_FULL", "ENDING"}
Frame  == [pc : {"none", "taken", "ran"}, slot : Slot]
NoFrame == [pc |-> "none", slot |-> 0]

FreeSlot == [cmd_state  |-> "NONE",
             cmd        |-> Nobody,
             owner      |-> Nobody,   \* data_ptr, result_ptr, opts
             success    |-> FALSE,
             dequeued   |-> FALSE,
             done_early |-> FALSE]

(***************************************************************************)
(* Ring arithmetic.  Off(i) is the distance of slot i from the head.       *)
(***************************************************************************)
AfterUnwrapped(i) == i + 1                         \* mutant of After
After(i)  == (i + 1) % N
Off(i)    == IF i >= head THEN i - head ELSE i - head + N
InRing(i) == Off(i) < Off(tail)
Before(i, j) == InRing(i) /\ Off(i) < Off(j)

\* A slot of the ring that the next dequeue must hand out.
LiveEvenIfDone(i) ==                               \* mutant of Live
  InRing(i) /\ slot[i].cmd_state # "CANCELLED"
Live(i) == InRing(i) /\ ~slot[i].done_early /\ slot[i].cmd_state # "CANCELLED"

\* A slot of the ring that dbgapi_emu_dequeue_matching() may hand out.
MatchesAnything(i) ==                              \* mutant of Matches
  InRing(i) /\ ~slot[i].done_early /\ slot[i].cmd_state = "PENDING"
Matches(i) == /\ InRing(i)
              /\ ~slot[i].done_early
              /\ slot[i].cmd_state = "PENDING"
              /\ slot[i].cmd \in Control

-----------------------------------------------------------------------------
(* Client side: dbgapi_ui_submit_impl(). *)

Leave(c, status) == /\ pc' = [pc EXCEPT ![c] = "idle"]
                    /\ at' = [at EXCEPT ![c] = 0]
                    /\ ret' = [ret EXCEPT ![c] = status]

\* History: the client's new submit has not been dispatched.
NotYetRun(c) == /\ execs' = [execs EXCEPT ![c] = 0]
                /\ verdict' = [verdict EXCEPT ![c] = FALSE]

\* Clears the slot as its owner leaves it (cmd_state is the caller's).
Released(s, state) == [s EXCEPT !.cmd_state = state, !.cmd = Nobody, !.owner = Nobody]

QueueFull == After(tail) = head

\* The slot at the tail still belongs to a client that waits for its result.
NeverTaken == FALSE                                \* mutant of SlotTaken
SlotTaken  == slot[tail].cmd_state # "NONE"

\* The submit refuses the command without touching the ring.
Refuse(c) ==
  /\ pc[c] = "idle"
  /\ \/ reply_state = "ENDING" /\ Leave(c, "ENDING")
     \/ /\ reply_state # "ENDING"
        /\ QueueFull \/ SlotTaken
        /\ Leave(c, "QUEUE_FULL")
  /\ NotYetRun(c)
  /\ UNCHANGED <<queueVars, emuVars>>

\* The submit takes the slot at the tail.
Enqueue(c, cmd) ==
  /\ pc[c] = "idle"
  /\ reply_state # "ENDING"
  /\ ~QueueFull
  /\ ~SlotTaken
  /\ tail' = After(tail)
  /\ slot' = [slot EXCEPT ![tail] = [cmd_state  |-> "PENDING",
                                     cmd        |-> cmd,
                                     owner      |-> c,
                                     success    |-> FALSE,
                                     dequeued   |-> FALSE,
                                     done_early |-> FALSE]]
  /\ pc' = [pc EXCEPT ![c] = "waiting"]
  /\ at' = [at EXCEPT ![c] = tail]
  /\ ret' = [ret EXCEPT ![c] = "none"]
  /\ NotYetRun(c)
  /\ UNCHANGED <<head, reply_state, emuVars>>

\* The wait ends with the slot still unprocessed: the slot mutex is released
\* so that queue_mutex can be taken first.
Expire(c) ==
  /\ pc[c] = "waiting"
  /\ slot[at[c]].cmd_state # "PROCESSED"
  /\ pc' = [pc EXCEPT ![c] = "relock"]
  /\ UNCHANGED <<queueVars, at, ret, emuVars, history>>

CancellableIfPending(i) == slot[i].cmd_state = "PENDING" \* mutant of Cancellable
Cancellable(i) == ~slot[i].dequeued /\ slot[i].cmd_state = "PENDING"

\* Under both mutexes, the emulation thread has not taken the slot yet.
Cancel(c) ==
  /\ pc[c] = "relock"
  /\ Cancellable(at[c])
  /\ slot' = [slot EXCEPT ![at[c]] = Released(@, "CANCELLED")]
  /\ Leave(c, "TIMEOUT")
  /\ UNCHANGED <<head, tail, reply_state, emuVars, history>>

\* Under both mutexes, it has: the client may not leave its data behind.
\* A submit without stall_cb goes straight to the last wait.
GiveUp(c) ==                                       \* mutant of KeepWaiting
  /\ pc[c] = "relock"
  /\ ~Cancellable(at[c])
  /\ Leave(c, "TIMEOUT")
  /\ UNCHANGED <<queueVars, emuVars, history>>
KeepWaiting(c) ==
  /\ pc[c] = "relock"
  /\ ~Cancellable(at[c])
  /\ \E p \in {"held", "last"} : pc' = [pc EXCEPT ![c] = p]
  /\ UNCHANGED <<queueVars, at, ret, emuVars, history>>

\* stall_ms passed: report the stall, with the slot mutex released.
ReportStall(c) ==
  /\ pc[c] = "held"
  /\ slot[at[c]].cmd_state # "PROCESSED"
  /\ pc' = [pc EXCEPT ![c] = "stalled"]
  /\ UNCHANGED <<queueVars, at, ret, emuVars, history>>

StallReported(c) ==
  /\ pc[c] = "stalled"
  /\ pc' = [pc EXCEPT ![c] = "last"]
  /\ UNCHANGED <<queueVars, at, ret, emuVars, history>>

\* The result is there: read it and free the slot.
Collect(c) ==
  /\ pc[c] \in {"waiting", "held", "last"}
  /\ slot[at[c]].cmd_state = "PROCESSED"
  /\ Leave(c, IF slot[at[c]].success THEN "OK" ELSE "FAILED")
  /\ slot' = [slot EXCEPT ![at[c]] = Released(@, "NONE")]
  /\ UNCHANGED <<head, tail, reply_state, emuVars, history>>

-----------------------------------------------------------------------------
(* Emulation thread.  `drain' runs between instructions (end of a frame,   *)
(* paused loop); `bp' runs inside an access to the bus: inside an          *)
(* instruction, or inside the handler of a drained command.                *)

AtDrainPoint == alive /\ drain.pc = "none" /\ bp.pc = "none"

\* The handler of the drained command is accessing the bus.
InBusHandler == drain.pc = "taken" /\ slot[drain.slot].cmd \in Bus

InBusAccess == alive /\ bp.pc = "none" /\ (drain.pc = "none" \/ InBusHandler)

\* What dbgapi_emu_dequeue() does to a slot it skips.
SkippedAsIs(s) == IF s.done_early THEN s           \* mutant of Skipped
                                  ELSE [s EXCEPT !.cmd_state = "NONE"]
Skipped(s) == IF s.done_early THEN [s EXCEPT !.done_early = FALSE]
                              ELSE [s EXCEPT !.cmd_state = "NONE"]

\* dbgapi_emu_dequeue() when the ring holds a command: skip up to it, take it.
Dequeue(i) ==
  /\ AtDrainPoint
  /\ Live(i)
  /\ \A j \in Slot : Before(j, i) => ~Live(j)
  /\ head' = After(i)
  /\ slot' = [j \in Slot |-> IF j = i THEN [slot[j] EXCEPT !.dequeued = TRUE]
                             ELSE IF Before(j, i) THEN Skipped(slot[j])
                             ELSE slot[j]]
  /\ drain' = [pc |-> "taken", slot |-> i]
  /\ UNCHANGED <<tail, reply_state, clientVars, bp, alive, history>>

\* dbgapi_emu_dequeue() when every slot of the ring is to be skipped.
DequeueNothing ==
  /\ AtDrainPoint
  /\ head # tail
  /\ \A j \in Slot : ~Live(j)
  /\ head' = tail
  /\ slot' = [j \in Slot |-> IF InRing(j) THEN Skipped(slot[j]) ELSE slot[j]]
  /\ UNCHANGED <<tail, reply_state, clientVars, emuVars, history>>

\* dbgapi_emu_dequeue_matching() for the breakpoint boundary.
DequeueMatching(i) ==
  /\ InBusAccess
  /\ Matches(i)
  /\ \A j \in Slot : Before(j, i) => ~Matches(j)
  /\ slot' = [slot EXCEPT ![i].dequeued = TRUE, ![i].done_early = (i # head)]
  /\ head' = IF i = head THEN After(head) ELSE head
  /\ bp' = [pc |-> "taken", slot |-> i]
  /\ UNCHANGED <<tail, reply_state, clientVars, drain, alive, history>>

\* dbgapi_emu_dispatch(): the handler works on the data of the client the
\* slot points at and leaves its answer in the slot.
Dispatch(i, answer) ==
  LET c == slot[i].owner IN
  /\ slot' = [slot EXCEPT ![i].success = answer]
  /\ execs' = IF c \in Client THEN [execs EXCEPT ![c] = @ + 1] ELSE execs
  /\ verdict' = IF c \in Client THEN [verdict EXCEPT ![c] = answer] ELSE verdict
  /\ UNCHANGED <<head, tail, reply_state, clientVars, alive>>

DispatchDrain(answer) ==
  /\ alive /\ drain.pc = "taken" /\ bp.pc = "none"
  /\ Dispatch(drain.slot, answer)
  /\ drain' = [drain EXCEPT !.pc = "ran"]
  /\ UNCHANGED bp

DispatchBp(answer) ==
  /\ alive /\ bp.pc = "taken"
  /\ Dispatch(bp.slot, answer)
  /\ bp' = [bp EXCEPT !.pc = "ran"]
  /\ UNCHANGED drain

\* dbgapi_emu_complete(): publish the result under the slot mutex.
CompleteInOrder(i) ==                              \* mutant of Complete
  /\ slot' = IF slot[i].done_early THEN slot
             ELSE [slot EXCEPT ![i].cmd_state = "PROCESSED"]
  /\ UNCHANGED <<head, tail, reply_state, clientVars, alive, history>>
Complete(i) ==
  /\ slot' = [slot EXCEPT ![i].cmd_state = "PROCESSED"]
  /\ UNCHANGED <<head, tail, reply_state, clientVars, alive, history>>

CompleteDrain ==
  /\ alive /\ drain.pc = "ran" /\ bp.pc = "none"
  /\ Complete(drain.slot)
  /\ drain' = NoFrame
  /\ UNCHANGED bp

CompleteBp ==
  /\ alive /\ bp.pc = "ran"
  /\ Complete(bp.slot)
  /\ bp' = NoFrame
  /\ UNCHANGED drain

SetEnding ==
  /\ EndingUsed /\ alive
  /\ reply_state' = "ENDING"
  /\ UNCHANGED <<head, tail, slot, clientVars, emuVars, history>>

\* emulator_quit(): longjmp out of the main loop.  It is called from the
\* paused loop and from the end-of-frame callback, which a bus access inside
\* a handler can reach; the frames it leaves are never completed.
Quit ==
  /\ InBusAccess
  /\ alive' = FALSE
  /\ UNCHANGED <<queueVars, clientVars, drain, bp, history>>

-----------------------------------------------------------------------------
Init ==
  /\ head = 0 /\ tail = 0
  /\ reply_state = "NONE"
  /\ slot = [i \in Slot |-> FreeSlot]
  /\ pc = [c \in Client |-> "idle"]
  /\ at = [c \in Client |-> 0]
  /\ ret = [c \in Client |-> "none"]
  /\ drain = NoFrame
  /\ bp = NoFrame
  /\ alive = TRUE
  /\ execs = [c \in Client |-> 0]
  /\ verdict = [c \in Client |-> FALSE]

Submit(c) == Refuse(c) \/ \E cmd \in Command : Enqueue(c, cmd)

\* What a client does after it has submitted.
Await(c) == \/ Expire(c) \/ Cancel(c) \/ KeepWaiting(c)
            \/ ReportStall(c) \/ StallReported(c) \/ Collect(c)

\* The drain of the frame end or of the paused loop.
Drain == \/ \E i \in Slot : Dequeue(i)
         \/ DequeueNothing
         \/ \E answer \in BOOLEAN : DispatchDrain(answer)
         \/ CompleteDrain

\* The rest of a breakpoint-boundary drain that has taken a command.
BpDrain == (\E answer \in BOOLEAN : DispatchBp(answer)) \/ CompleteBp

Emu == Drain \/ BpDrain \/ (\E i \in Slot : DequeueMatching(i)) \/ SetEnding \/ Quit

Next == (\E c \in Client : Submit(c) \/ Await(c)) \/ Emu

Spec == Init /\ [][Next]_vars

\* Every client waits with a timeout and every handler terminates.  The
\* running loop drains at every frame end, the paused loop at every
\* iteration: an instruction and a handler make finitely many bus accesses,
\* so breakpoint drains cannot keep the drain away for ever (hence SF).
FairSpec == /\ Spec
            /\ \A c \in Client : WF_vars(Await(c))
            /\ SF_vars(Drain)
            /\ WF_vars(BpDrain)

-----------------------------------------------------------------------------
(* Properties *)

SlotRecord == [cmd_state  : State,
               cmd        : Command \cup {Nobody},
               owner      : Client \cup {Nobody},
               success    : BOOLEAN,
               dequeued   : BOOLEAN,
               done_early : BOOLEAN]

TypeOK ==
  /\ head \in Slot /\ tail \in Slot
  /\ reply_state \in {"NONE", "ENDING"}
  /\ slot \in [Slot -> SlotRecord]
  /\ pc \in [Client -> Place]
  /\ at \in [Client -> Slot]
  /\ ret \in [Client -> Status \cup {"none"}]
  /\ drain \in Frame /\ bp \in Frame
  /\ alive \in BOOLEAN
  /\ execs \in [Client -> Nat]
  /\ verdict \in [Client -> BOOLEAN]

\* The client whose data the slot points at is inside the submit that owns it.
OwnerWaits(i) == /\ slot[i].owner \in Client
                 /\ pc[slot[i].owner] # "idle"
                 /\ at[slot[i].owner] = i

\* Whatever the emulation thread is working on, the data it reads and writes
\* belong to a client that has not returned from its submit: the timeout path
\* never leaves a command that was taken (dbgapi.c:10144).
DataAlive ==
  /\ drain.pc # "none" => OwnerWaits(drain.slot)
  /\ bp.pc # "none" => OwnerWaits(bp.slot)

\* A client inside a submit still owns the slot it was given: neither another
\* submit nor the skipping of a cancelled slot takes it away.
SlotKept ==
  \A c \in Client : pc[c] # "idle" =>
    /\ slot[at[c]].owner = c
    /\ slot[at[c]].cmd_state \in {"PENDING", "PROCESSED"}

\* The status tells whether the command ran: OK and FAILED that it ran exactly
\* once and what its own handler answered, the other three that it did not
\* (dbgapi_cmdrq.h:845).
StatusHonest ==
  \A c \in Client : pc[c] = "idle" =>
    IF ret[c] \in {"OK", "FAILED"}
    THEN execs[c] = 1 /\ (ret[c] = "OK" <=> verdict[c])
    ELSE execs[c] = 0

\* ... and it will not run later either: no command is dispatched for a client
\* that has returned from its submit.
NoLateDispatch ==
  [][\A c \in Client : pc[c] = "idle" => execs'[c] \in {0, execs[c]}]_vars

\* A command that nobody has taken stays where a dequeue finds it; a slot that
\* was taken out of order is in the ring, so the head will pass it
\* (dbgapi_cmdrq.h:938).
RingSound ==
  \A i \in Slot :
    /\ slot[i].cmd_state = "PENDING" /\ ~slot[i].dequeued =>
         InRing(i) /\ ~slot[i].done_early
    /\ slot[i].cmd_state = "CANCELLED" => InRing(i)
    /\ slot[i].done_early => InRing(i) /\ slot[i].dequeued

\* Every submit returns, unless the emulation thread left its main loop in the
\* middle of that command.
Orphaned(c) == ~alive /\ \/ drain.pc # "none" /\ drain.slot = at[c]
                         \/ bp.pc # "none" /\ bp.slot = at[c]
SubmitReturns ==
  \A c \in Client : pc[c] # "idle" ~> (pc[c] = "idle" \/ Orphaned(c))
=============================================================================
