--------------------------- MODULE CmdQueueRefines --------------------------
(***************************************************************************)
(* The ring of slots implements the command service.                       *)
(***************************************************************************)
EXTENDS CmdQueue

Phase(c) == IF pc[c] = "idle" THEN "idle"
            ELSE IF slot[at[c]].cmd_state = "PROCESSED" THEN "answered"
            ELSE IF slot[at[c]].dequeued THEN "served" ELSE "queued"

CommandOf(c) == IF pc[c] = "idle" THEN Nobody ELSE slot[at[c]].cmd
AnswerOf(c)  == Phase(c) = "answered" /\ slot[at[c]].success

\* Ring order is the order of submission.
Earlier(c, d) == Phase(c) = "queued" /\ Phase(d) = "queued" /\ Off(at[c]) < Off(at[d])

FrameOwner(f) == IF f.pc = "none" THEN Nobody ELSE slot[f.slot].owner

Phases   == [c \in Client |-> Phase(c)]
Commands == [c \in Client |-> CommandOf(c)]
Answers  == [c \in Client |-> AnswerOf(c)]
Order    == {p \in Client \X Client : Earlier(p[1], p[2])}

Service == INSTANCE CmdService WITH
  Nothing <- Nobody,
  older   <- Order,
  serving <- FrameOwner(drain),
  early   <- FrameOwner(bp),
  phase   <- Phases,
  cmd     <- Commands,
  answer  <- Answers

\* Commands are served at most once, in the order of submission except for
\* control commands, and a status never contradicts what was served
\* (dbgapi_emu_dequeue, dbgapi_emu_dequeue_matching, dbgapi_ui_submit_impl).
ImplementsService == Service!Spec
=============================================================================
