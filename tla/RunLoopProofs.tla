--------------------------- MODULE RunLoopProofs ----------------------------
(***************************************************************************)
(* Proofs, for every set of clients, every length of a bounded run and any *)
(* number of commands, of the safety properties of RunLoop.                *)
(***************************************************************************)
EXTENDS RunLoop, TLAPS

(***************************************************************************)
(* The inductive invariant.  PlaceInv: the run ends where the thread       *)
(* enters the paused loop and the next begins where it leaves it.          *)
(* BoundInv: a bound that has come to 0 is seen before the next            *)
(* instruction.  StepInv: the paused loop is left with a step only while   *)
(* still paused, and an undisturbed step then passes each place of the     *)
(* loop with both flags set.  RunInv: the run a client waits for is still  *)
(* going, or yet to begin, until the emulation stops; ReachedInv: who was   *)
(* told its time had come was told the number of a run that has begun.     *)
(***************************************************************************)
InPause == {"paused", "drain", "poll", "leave"}

PlaceInv == running <=> pos \notin InPause

BoundInv == frames = 0 => pos \in {"hooks", "bounds"}

Stepping == stepRun /\ running /\ ~disturbed

Before == {"top", "bp", "exec"}
Behind == {"event", "bounds", "entry"}

StepInv ==
  /\ pos \in InPause /\ step => paused
  /\ Stepping =>
       /\ step /\ paused
       /\ pos \in Before \cup Behind
       /\ pos \in {"top", "bp"} => skip
       /\ insns = IF pos \in Before THEN 0 ELSE 1

Waits(c) == at[c] = "answered" /\ ans[c].status \in Starting

RunInv ==
  \A c \in Client : Waits(c) =>
    /\ ans[c].run \in Nat
    /\ ~stopped[c] => ~IsStopped(ans[c].run)

ReachedInv ==
  \A c \in Client : ans[c].status = "REACHED" =>
    ans[c].run \in Nat /\ ans[c].run <= seq

DoneInv ==
  \A c \in Client : at[c] = "done" /\ ans[c].status \in Starting => stopped[c]

IInv ==
  /\ TypeOK /\ PlaceInv /\ BoundInv /\ StepInv
  /\ TargetsEndAtPause /\ RunInv /\ ReachedInv /\ DoneInv
-----------------------------------------------------------------------------
(* A command, whatever it is. *)

\* The flags a command sets stay flags.
LEMMA CarryTyped ==
  ASSUME NEW c \in Client, TypeOK, Carry(c)
  PROVE  /\ paused' \in BOOLEAN /\ step' \in BOOLEAN /\ skip' \in BOOLEAN
         /\ deadline' \in BOOLEAN /\ reset' \in BOOLEAN /\ disturbed' \in
             BOOLEAN
         /\ target' \subseteq {"address", "time"}
<1> USE DEF TypeOK
<1>1. CASE CmdPause(c)
  BY <1>1 DEF CmdPause, Pause, KeepBounds
<1>2. CASE CmdRun(c)
  BY <1>2 DEF CmdRun, Pause, KeepBounds
<1>3. CASE CmdRunFrames(c)
  BY <1>3 DEF CmdRunFrames
<1>4. CASE CmdStepInto(c)
  BY <1>4 DEF CmdStepInto, KeepBounds
<1>5. CASE PauseOnly(c)
  BY <1>5 DEF PauseOnly, Pause, KeepBounds
<1>6. CASE CmdStepOver(c)
  BY <1>6 DEF CmdStepOver, KeepBounds
<1>7. CASE CmdRunTo(c)
  BY <1>7 DEF CmdRunTo, RunToTarget, KeepBounds
<1>8. CASE CmdRunUntil(c)
  BY <1>8 DEF CmdRunUntil, RunToTarget, KeepBounds
<1>9. CASE CmdDeadline(c)
  BY <1>9 DEF CmdDeadline
<1>10. CASE CmdReset(c)
  BY <1>10 DEF CmdReset, MachineReset, NoReset, Pause
<1>11. CASE CmdQuery(c)
  BY <1>11 DEF CmdQuery, KeepBounds
<1>12. CASE CmdReached(c)
  BY <1>12 DEF CmdReached, KeepBounds
<1> QED
  BY <1>1, <1>2, <1>3, <1>4, <1>5, <1>6, <1>7, <1>8, <1>9, <1>10, <1>11, <1>12
  DEF Carry

\* A command never leaves a bound of no frames.
LEMMA CarryBounds ==
  ASSUME NEW c \in Client, TypeOK, Carry(c)
  PROVE  /\ frames' \in {Off} \cup 0 .. Frames
         /\ frames' = 0 => frames = 0
<1> USE FramesAssumption DEF TypeOK
<1>1. CASE CmdPause(c)
  BY <1>1 DEF CmdPause, KeepBounds
<1>2. CASE CmdRun(c)
  BY <1>2 DEF CmdRun, KeepBounds
<1>3. CASE CmdRunFrames(c)
  BY <1>3 DEF CmdRunFrames
<1>4. CASE CmdStepInto(c)
  BY <1>4 DEF CmdStepInto, KeepBounds
<1>5. CASE PauseOnly(c)
  BY <1>5 DEF PauseOnly, KeepBounds
<1>6. CASE CmdStepOver(c)
  BY <1>6 DEF CmdStepOver, KeepBounds
<1>7. CASE CmdRunTo(c)
  BY <1>7 DEF CmdRunTo, KeepBounds
<1>8. CASE CmdRunUntil(c)
  BY <1>8 DEF CmdRunUntil, KeepBounds
<1>9. CASE CmdDeadline(c)
  BY <1>9 DEF CmdDeadline
<1>10. CASE CmdReset(c)
  BY <1>10 DEF CmdReset, MachineReset, NoReset, Pause
<1>11. CASE CmdQuery(c)
  BY <1>11 DEF CmdQuery, KeepBounds
<1>12. CASE CmdReached(c)
  BY <1>12 DEF CmdReached, KeepBounds
<1> QED
  BY <1>1, <1>2, <1>3, <1>4, <1>5, <1>6, <1>7, <1>8, <1>9, <1>10, <1>11, <1>12
  DEF Carry

\* A command that pauses leaves no stop of the run behind.
LEMMA CarryTarget ==
  ASSUME NEW c \in Client, TypeOK, TargetsEndAtPause, Carry(c)
  PROVE  TargetsEndAtPause'
<1> USE DEF TypeOK, TargetsEndAtPause
<1>1. CASE CmdPause(c)
  BY <1>1 DEF CmdPause, Pause
<1>2. CASE CmdRun(c)
  BY <1>2 DEF CmdRun, Pause
<1>3. CASE CmdRunFrames(c)
  BY <1>3 DEF CmdRunFrames
<1>4. CASE CmdStepInto(c)
  BY <1>4 DEF CmdStepInto
<1>5. CASE PauseOnly(c)
  BY <1>5 DEF PauseOnly, Pause
<1>6. CASE CmdStepOver(c)
  BY <1>6 DEF CmdStepOver
<1>7. CASE CmdRunTo(c)
  BY <1>7 DEF CmdRunTo, RunToTarget
<1>8. CASE CmdRunUntil(c)
  BY <1>8 DEF CmdRunUntil, RunToTarget
<1>9. CASE CmdDeadline(c)
  BY <1>9 DEF CmdDeadline
<1>10. CASE CmdReset(c)
  BY <1>10 DEF CmdReset, MachineReset, NoReset, Pause
<1>11. CASE CmdQuery(c)
  BY <1>11 DEF CmdQuery
<1>12. CASE CmdReached(c)
  BY <1>12 DEF CmdReached
<1> QED
  BY <1>1, <1>2, <1>3, <1>4, <1>5, <1>6, <1>7, <1>8, <1>9, <1>10, <1>11, <1>12
  DEF Carry

\* A client is told of a start only together with the run the start is about,
\* and that its time has come together with the current or the last run.
LEMMA CarryTells ==
  ASSUME NEW c \in Client, TypeOK, Carry(c)
  PROVE  /\ ans' \in [Client -> [status : Status, run : RunId]]
         /\ \A d \in Client : d # c => ans'[d] = ans[d]
         /\ ans'[c].status \in Starting => ans'[c].run = SeqForStart
         /\ ans'[c].status = "REACHED" => ans'[c].run = seq
<1> USE DEF TypeOK, Status, RunId, Starting, SeqForStart
<1>1. CASE CmdPause(c)
  BY <1>1 DEF CmdPause, TellNothing, Tell
<1>2. CASE CmdRun(c)
  BY <1>2 DEF CmdRun, TellStart, Tell
<1>3. CASE CmdRunFrames(c)
  BY <1>3 DEF CmdRunFrames, TellStart, Tell
<1>4. CASE CmdStepInto(c)
  BY <1>4 DEF CmdStepInto, TellStart, Tell
<1>5. CASE PauseOnly(c)
  BY <1>5 DEF PauseOnly, Tell
<1>6. CASE CmdStepOver(c)
  BY <1>6 DEF CmdStepOver, TellStart, Tell
<1>7. CASE CmdRunTo(c)
  BY <1>7 DEF CmdRunTo, TellStart, Tell
<1>8. CASE CmdRunUntil(c)
  BY <1>8 DEF CmdRunUntil, TellStart, Tell
<1>9. CASE CmdDeadline(c)
  BY <1>9 DEF CmdDeadline, TellNothing, Tell
<1>10. CASE CmdReset(c)
  BY <1>10 DEF CmdReset, MachineReset, NoReset, Pause, TellNothing, Tell
<1>11. CASE CmdQuery(c)
  BY <1>11 DEF CmdQuery, TellNothing, Tell
<1>12. CASE CmdReached(c)
  BY <1>12 DEF CmdReached, Tell, ReachedSeq
<1> QED
  BY <1>1, <1>2, <1>3, <1>4, <1>5, <1>6, <1>7, <1>8, <1>9, <1>10, <1>11, <1>12
  DEF Carry

\* A command sets the step only where the emulation is paused, and cuts into a
\* step that runs only by a reset; a control command leaves the step alone.
LEMMA CarryStep ==
  ASSUME NEW c \in Client, TypeOK, Carry(c)
  PROVE  /\ ~step /\ step' => paused'
         /\ disturbed' \in {disturbed, stepRun}
         /\ Control(c) =>
              step' = step /\ skip' = skip /\ (paused => paused')
<1> USE DEF TypeOK, Control
<1>1. CASE CmdPause(c)
  BY <1>1 DEF CmdPause, Pause
<1>2. CASE CmdRun(c)
  BY <1>2 DEF CmdRun, Pause
<1>3. CASE CmdRunFrames(c)
  BY <1>3 DEF CmdRunFrames
<1>4. CASE CmdStepInto(c)
  BY <1>4 DEF CmdStepInto
<1>5. CASE PauseOnly(c)
  BY <1>5 DEF PauseOnly, Pause
<1>6. CASE CmdStepOver(c)
  BY <1>6 DEF CmdStepOver
<1>7. CASE CmdRunTo(c)
  BY <1>7 DEF CmdRunTo, RunToTarget
<1>8. CASE CmdRunUntil(c)
  BY <1>8 DEF CmdRunUntil, RunToTarget
<1>9. CASE CmdDeadline(c)
  BY <1>9 DEF CmdDeadline
<1>10. CASE CmdReset(c)
  BY <1>10 DEF CmdReset, MachineReset, NoReset, Pause
<1>11. CASE CmdQuery(c)
  BY <1>11 DEF CmdQuery
<1>12. CASE CmdReached(c)
  BY <1>12 DEF CmdReached
<1> QED
  BY <1>1, <1>2, <1>3, <1>4, <1>5, <1>6, <1>7, <1>8, <1>9, <1>10, <1>11, <1>12
  DEF Carry

\* Where commands are taken, and which.
LEMMA DispatchPlaces ==
  ASSUME TypeOK, BreakpointDrain \/ RunningDrain \/ PausedDrain
  PROVE  \E c \in Client : \E i \in DOMAIN queue :
           /\ Dispatch(c, i)
           /\ \/ pos \in {"bp", "exec"} /\ (pos = "bp" => ~skip) /\ Control(c)
              \/ pos = "hooks"
              \/ pos = "drain" /\ ~step
<1> USE DEF TypeOK
<1>1. CASE BreakpointDrain
  BY <1>1 DEF BreakpointDrain
<1>2. CASE RunningDrain
  BY <1>2 DEF RunningDrain
<1>3. CASE PausedDrain
  BY <1>3 DEF PausedDrain, DrainGoesOn
<1> QED
  BY <1>1, <1>2, <1>3

\* A sequence keeps its type when one place of it is taken out.
LEMMA RemovedTyped ==
  ASSUME NEW S, NEW s \in Seq(S), NEW i \in DOMAIN s
  PROVE  RemoveAt(s, i) \in Seq(S)
BY DEF RemoveAt

\* A dispatched command leaves every variable in its type.
LEMMA DispatchTyped ==
  ASSUME NEW c \in Client, NEW i \in DOMAIN queue, TypeOK, Dispatch(c, i)
  PROVE  TypeOK'
<1>1. Carry(c)
  BY DEF Dispatch
<1>2. RemoveAt(queue, i) \in Seq(Client)
  BY RemovedTyped DEF TypeOK
<1>3. /\ queue' \in Seq(Client)
      /\ at' \in [Client -> {"idle", "queued", "answered", "done"}]
      /\ cmd' \in [Client -> [op : Op, run : RunId]]
      /\ stopped' \in [Client -> BOOLEAN]
  BY <1>2 DEF Dispatch, TypeOK, NoCommand, Op, RunId
<1> QED
  BY <1>1, <1>3, CarryTyped, CarryBounds, CarryTells DEF TypeOK, Dispatch,
      logVars

-----------------------------------------------------------------------------
(* The steps of the loop and of its clients. *)

\* Marking some clients gives a Boolean function of clients.
LEMMA MarksTyped ==
  ASSUME NEW S
  PROVE  [c \in Client |-> at[c] \in S] \in [Client -> BOOLEAN]
OBVIOUS

\* Types.  A frame ends only with at least one frame left.
LEMMA NextType == TypeOK /\ BoundInv /\ [Next]_vars => TypeOK'
<1> SUFFICES ASSUME TypeOK, BoundInv, [Next]_vars PROVE TypeOK'
  OBVIOUS
<1> USE FramesAssumption, RequestsAssumption DEF TypeOK, BoundInv, Pos
<1>1. CASE Top
  BY <1>1 DEF Top, flagVars, logVars, clientVars, histVars, MachineReset,
      NoReset, Pause
<1>2. CASE SkipBreakpoints
  BY <1>2 DEF SkipBreakpoints, flagVars, logVars, clientVars, histVars
<1>3. CASE NoBreakpoint
  BY <1>3 DEF NoBreakpoint, flagVars, logVars, clientVars, histVars
<1>4. CASE HitBreakpoint
  BY <1>4 DEF HitBreakpoint, flagVars, logVars, clientVars, histVars, Pause,
      KeepBounds
<1>5. CASE HitTime
  BY <1>5 DEF HitTime, flagVars, logVars, clientVars, histVars, Pause,
      KeepBounds
<1>6. CASE Execute
  <2>1. insns' \in 0 .. 2
    BY <1>6 DEF Execute
  <2>2. CASE UNCHANGED <<flagVars, disturbed>>
    BY <1>6, <2>1, <2>2 DEF Execute, flagVars, logVars, clientVars
  <2>3. CASE Pause(TRUE) /\ step' = FALSE /\ disturbed' = stepRun /\ KeepBounds
    BY <1>6, <2>1, <2>3 DEF Execute, Pause, KeepBounds, logVars, clientVars
  <2> QED
    BY <1>6, <2>2, <2>3 DEF Execute
<1>7. CASE NoEvent
  BY <1>7 DEF NoEvent, flagVars, logVars, clientVars, histVars
<1>8. CASE OtherEvent
  BY <1>8 DEF OtherEvent, flagVars, logVars, clientVars, histVars
<1>9. CASE FrameEnd
  BY <1>9 DEF FrameEnd, flagVars, logVars, clientVars, histVars,
      HooksUnlessStep
<1>10. CASE HooksDone
  BY <1>10 DEF HooksDone, flagVars, logVars, clientVars, histVars
<1>11. CASE HitBound
  BY <1>11 DEF HitBound, flagVars, logVars, clientVars, histVars, FramesDone
<1>12. CASE NoBound
  BY <1>12 DEF NoBound, flagVars, logVars, clientVars, histVars, FramesDone
<1>13. CASE Enter
  <2>1. stopped' \in [Client -> BOOLEAN]
    BY <1>13, MarksTyped DEF Enter
  <2> QED
    BY <1>13, <2>1 DEF Enter
<1>14. CASE LoopTest
  BY <1>14 DEF LoopTest, flagVars, logVars, clientVars, histVars
<1>15. CASE PausedDrainDone
  BY <1>15 DEF PausedDrainDone, flagVars, logVars, clientVars, histVars,
      DrainGoesOn
<1>16. CASE Poll
  BY <1>16 DEF Poll, flagVars, logVars, clientVars, histVars, MachineReset,
      NoReset, Pause
<1>17. CASE Leave
  <2>1. stepRun' \in BOOLEAN
    BY <1>17, Zenon DEF Leave
  <2>2. /\ seq' \in Nat /\ insns' \in 0 .. 2
        /\ skip' = TRUE /\ running' = TRUE /\ disturbed' = FALSE /\ pos' =
            "top"
    BY <1>17 DEF Leave
  <2> QED
    BY <1>17, <2>1, <2>2 DEF Leave, flagVars, clientVars
<1>18. CASE RequestReset
  BY <1>18 DEF RequestReset, flagVars, logVars, clientVars, histVars
<1>19. CASE ClearStep
  BY <1>19, ZenonT(40) DEF ClearStep, flagVars, logVars, clientVars, histVars
<1>20. CASE BreakpointDrain \/ RunningDrain \/ PausedDrain
  BY <1>20, DispatchPlaces, DispatchTyped
<1>21. CASE \E c \in Client : Submit(c)
  BY <1>21 DEF Submit, flagVars, logVars, clientVars, histVars, Op, RunId
<1>22. CASE \E c \in Client : WaitDone(c)
  BY <1>22 DEF WaitDone, flagVars, logVars, clientVars, histVars
<1>23. CASE UNCHANGED <<vars>>
  BY <1>23 DEF vars, flagVars, logVars, clientVars, histVars
<1> QED
  BY <1>1, <1>2, <1>3, <1>4, <1>5, <1>6, <1>7, <1>8, <1>9, <1>10, <1>11, <1>12,
      <1>13, <1>14, <1>15, <1>16, <1>17, <1>18, <1>19, <1>20, <1>21, <1>22,
      <1>23
  DEF Next, Emulate, vars, flagVars, logVars, clientVars, histVars

\* The run begins and ends with the paused loop.
LEMMA NextPlace == TypeOK /\ PlaceInv /\ [Next]_vars => PlaceInv'
<1> SUFFICES ASSUME TypeOK, PlaceInv, [Next]_vars PROVE PlaceInv'
  OBVIOUS
<1> USE DEF PlaceInv, InPause
<1>1. CASE Top
  BY <1>1 DEF Top, flagVars, logVars, clientVars, histVars, MachineReset,
      NoReset, Pause
<1>2. CASE SkipBreakpoints
  BY <1>2 DEF SkipBreakpoints, flagVars, logVars, clientVars, histVars
<1>3. CASE NoBreakpoint
  BY <1>3 DEF NoBreakpoint, flagVars, logVars, clientVars, histVars
<1>4. CASE HitBreakpoint
  BY <1>4 DEF HitBreakpoint, flagVars, logVars, clientVars, histVars, Pause,
      KeepBounds
<1>5. CASE HitTime
  BY <1>5 DEF HitTime, flagVars, logVars, clientVars, histVars, Pause,
      KeepBounds
<1>6. CASE Execute
  BY <1>6 DEF Execute, flagVars, logVars, clientVars, histVars, Pause,
      KeepBounds
<1>7. CASE NoEvent
  BY <1>7 DEF NoEvent, flagVars, logVars, clientVars, histVars
<1>8. CASE OtherEvent
  BY <1>8 DEF OtherEvent, flagVars, logVars, clientVars, histVars
<1>9. CASE FrameEnd
  BY <1>9 DEF FrameEnd, flagVars, logVars, clientVars, histVars,
      HooksUnlessStep
<1>10. CASE HooksDone
  BY <1>10 DEF HooksDone, flagVars, logVars, clientVars, histVars
<1>11. CASE HitBound
  BY <1>11 DEF HitBound, flagVars, logVars, clientVars, histVars, FramesDone
<1>12. CASE NoBound
  BY <1>12 DEF NoBound, flagVars, logVars, clientVars, histVars, FramesDone
<1>13. CASE Enter
  BY <1>13 DEF Enter, flagVars, logVars, clientVars, histVars
<1>14. CASE LoopTest
  BY <1>14 DEF LoopTest, flagVars, logVars, clientVars, histVars
<1>15. CASE PausedDrainDone
  BY <1>15 DEF PausedDrainDone, flagVars, logVars, clientVars, histVars,
      DrainGoesOn
<1>16. CASE Poll
  BY <1>16 DEF Poll, flagVars, logVars, clientVars, histVars, MachineReset,
      NoReset, Pause
<1>17. CASE Leave
  BY <1>17 DEF Leave, flagVars, logVars, clientVars, histVars
<1>18. CASE BreakpointDrain \/ RunningDrain \/ PausedDrain
  BY <1>18, DispatchPlaces DEF Dispatch, logVars
<1>19. CASE UNCHANGED <<pos, running>>
  BY <1>19 DEF vars, flagVars, logVars, clientVars, histVars
<1> QED
  BY <1>1, <1>2, <1>3, <1>4, <1>5, <1>6, <1>7, <1>8, <1>9, <1>10, <1>11, <1>12,
      <1>13, <1>14, <1>15, <1>16, <1>17, <1>18, <1>19
  DEF Next, Emulate, vars, flagVars, logVars, clientVars, histVars,
      RequestReset, ClearStep, Submit, WaitDone

\* A bound that has come to 0 leads into the paused loop.
LEMMA NextBound == TypeOK /\ BoundInv /\ [Next]_vars => BoundInv'
<1> SUFFICES ASSUME TypeOK, BoundInv, [Next]_vars PROVE BoundInv'
  OBVIOUS
<1> USE FramesAssumption DEF TypeOK, BoundInv
<1>1. CASE Top
  BY <1>1 DEF Top, flagVars, logVars, clientVars, histVars, MachineReset,
      NoReset, Pause
<1>2. CASE SkipBreakpoints
  BY <1>2 DEF SkipBreakpoints, flagVars, logVars, clientVars, histVars
<1>3. CASE NoBreakpoint
  BY <1>3 DEF NoBreakpoint, flagVars, logVars, clientVars, histVars
<1>4. CASE HitBreakpoint
  BY <1>4 DEF HitBreakpoint, flagVars, logVars, clientVars, histVars, Pause,
      KeepBounds
<1>5. CASE HitTime
  BY <1>5 DEF HitTime, flagVars, logVars, clientVars, histVars, Pause,
      KeepBounds
<1>6. CASE Execute
  BY <1>6 DEF Execute, flagVars, logVars, clientVars, histVars, Pause,
      KeepBounds
<1>7. CASE NoEvent
  BY <1>7 DEF NoEvent, flagVars, logVars, clientVars, histVars
<1>8. CASE OtherEvent
  BY <1>8 DEF OtherEvent, flagVars, logVars, clientVars, histVars
<1>9. CASE FrameEnd
  BY <1>9 DEF FrameEnd, flagVars, logVars, clientVars, histVars,
      HooksUnlessStep
<1>10. CASE HooksDone
  BY <1>10 DEF HooksDone, flagVars, logVars, clientVars, histVars
<1>11. CASE HitBound
  BY <1>11 DEF HitBound, flagVars, logVars, clientVars, histVars, FramesDone
<1>12. CASE NoBound
  BY <1>12 DEF NoBound, flagVars, logVars, clientVars, histVars, FramesDone
<1>13. CASE Enter
  BY <1>13 DEF Enter, flagVars, logVars, clientVars, histVars
<1>14. CASE LoopTest
  BY <1>14 DEF LoopTest, flagVars, logVars, clientVars, histVars
<1>15. CASE PausedDrainDone
  BY <1>15 DEF PausedDrainDone, flagVars, logVars, clientVars, histVars,
      DrainGoesOn
<1>16. CASE Poll
  BY <1>16 DEF Poll, flagVars, logVars, clientVars, histVars, MachineReset,
      NoReset, Pause
<1>17. CASE Leave
  BY <1>17 DEF Leave, flagVars, logVars, clientVars, histVars
<1>18. CASE BreakpointDrain \/ RunningDrain \/ PausedDrain
  BY <1>18, DispatchPlaces, CarryBounds DEF Dispatch
<1>19. CASE UNCHANGED <<pos, frames>>
  BY <1>19 DEF vars, flagVars, logVars, clientVars, histVars
<1> QED
  BY <1>1, <1>2, <1>3, <1>4, <1>5, <1>6, <1>7, <1>8, <1>9, <1>10, <1>11, <1>12,
      <1>13, <1>14, <1>15, <1>16, <1>17, <1>18, <1>19
  DEF Next, Emulate, vars, flagVars, logVars, clientVars, histVars,
      RequestReset, ClearStep, Submit, WaitDone

\* A step passes the loop with both flags set.
LEMMA NextStep == TypeOK /\ PlaceInv /\ StepInv /\ [Next]_vars => StepInv'
<1> SUFFICES ASSUME TypeOK, PlaceInv, StepInv, [Next]_vars PROVE StepInv'
  OBVIOUS
<1> USE DEF TypeOK, PlaceInv, StepInv, Stepping, InPause, Before, Behind
<1>1. CASE Top
  BY <1>1 DEF Top, flagVars, logVars, clientVars, histVars, MachineReset,
      NoReset, Pause
<1>2. CASE SkipBreakpoints
  BY <1>2 DEF SkipBreakpoints, flagVars, logVars, clientVars, histVars
<1>3. CASE NoBreakpoint
  BY <1>3 DEF NoBreakpoint, flagVars, logVars, clientVars, histVars
<1>4. CASE HitBreakpoint
  BY <1>4 DEF HitBreakpoint, flagVars, logVars, clientVars, histVars, Pause,
      KeepBounds
<1>5. CASE HitTime
  BY <1>5 DEF HitTime, flagVars, logVars, clientVars, histVars, Pause,
      KeepBounds
<1>6. CASE Execute
  BY <1>6 DEF Execute, flagVars, logVars, clientVars, histVars, Pause,
      KeepBounds
<1>7. CASE NoEvent
  BY <1>7 DEF NoEvent, flagVars, logVars, clientVars, histVars
<1>8. CASE OtherEvent
  BY <1>8 DEF OtherEvent, flagVars, logVars, clientVars, histVars
<1>9. CASE FrameEnd
  BY <1>9 DEF FrameEnd, flagVars, logVars, clientVars, histVars,
      HooksUnlessStep
<1>10. CASE HooksDone
  BY <1>10 DEF HooksDone, flagVars, logVars, clientVars, histVars
<1>11. CASE HitBound
  BY <1>11 DEF HitBound, flagVars, logVars, clientVars, histVars, FramesDone
<1>12. CASE NoBound
  BY <1>12 DEF NoBound, flagVars, logVars, clientVars, histVars, FramesDone
<1>13. CASE Enter
  BY <1>13 DEF Enter, flagVars, logVars, clientVars, histVars
<1>14. CASE LoopTest
  BY <1>14 DEF LoopTest, flagVars, logVars, clientVars, histVars
<1>15. CASE PausedDrainDone
  BY <1>15 DEF PausedDrainDone, flagVars, logVars, clientVars, histVars,
      DrainGoesOn
<1>16. CASE Poll
  BY <1>16 DEF Poll, flagVars, logVars, clientVars, histVars, MachineReset,
      NoReset, Pause
<1>17. CASE Leave
  BY <1>17 DEF Leave, flagVars, logVars, clientVars, histVars
<1>18. CASE ClearStep
  BY <1>18 DEF ClearStep, flagVars, logVars, clientVars, histVars
<1>19. CASE BreakpointDrain \/ RunningDrain \/ PausedDrain
  <2>1. PICK c \in Client, i \in DOMAIN queue :
           /\ Dispatch(c, i)
           /\ \/ pos \in {"bp", "exec"} /\ (pos = "bp" => ~skip) /\ Control(c)
              \/ pos = "hooks"
              \/ pos = "drain" /\ ~step
    BY <1>19, DispatchPlaces
  <2>2. /\ Carry(c)
        /\ UNCHANGED <<pos, stepRun, running, insns>>
    BY <2>1 DEF Dispatch, logVars
  <2>3. /\ ~step /\ step' => paused'
        /\ disturbed' \in {disturbed, stepRun}
        /\ Control(c) => step' = step /\ skip' = skip /\ (paused => paused')
    BY <2>2, CarryStep
  <2>4. pos' \in InPause /\ step' => paused'
    BY <2>1, <2>2, <2>3
  <2>5. Stepping' => Stepping
    BY <2>2, <2>3
  <2> QED
    BY <2>1, <2>2, <2>3, <2>4, <2>5
<1>20. CASE UNCHANGED <<pos, paused, step, skip, stepRun, running, disturbed,
    insns>>
  BY <1>20 DEF vars, flagVars, logVars, clientVars, histVars
<1> QED
  BY <1>1, <1>2, <1>3, <1>4, <1>5, <1>6, <1>7, <1>8, <1>9, <1>10, <1>11, <1>12,
      <1>13, <1>14, <1>15, <1>16, <1>17, <1>18, <1>19, <1>20
  DEF Next, Emulate, vars, flagVars, logVars, clientVars, histVars,
      RequestReset, Submit, WaitDone

\* Whoever pauses a running emulation removes the stops of the run.
LEMMA NextTarget ==
  TypeOK /\ TargetsEndAtPause /\ [Next]_vars => TargetsEndAtPause'
<1> SUFFICES ASSUME TypeOK, TargetsEndAtPause, [Next]_vars PROVE
    TargetsEndAtPause'
  OBVIOUS
<1> USE DEF TypeOK, TargetsEndAtPause
<1>1. CASE HitBreakpoint
  BY <1>1 DEF HitBreakpoint, flagVars, logVars, clientVars, histVars, Pause,
      KeepBounds
<1>2. CASE HitTime
  BY <1>2 DEF HitTime, flagVars, logVars, clientVars, histVars, Pause,
      KeepBounds
<1>3. CASE Execute
  BY <1>3 DEF Execute, flagVars, logVars, clientVars, histVars, Pause,
      KeepBounds
<1>4. CASE HitBound
  BY <1>4 DEF HitBound, flagVars, logVars, clientVars, histVars, FramesDone
<1>5. CASE BreakpointDrain \/ RunningDrain \/ PausedDrain
  BY <1>5, DispatchPlaces, CarryTarget DEF Dispatch
<1>6. CASE Top \/ Poll
  BY <1>6 DEF Top, Poll, MachineReset, NoReset, Pause
<1>7. CASE UNCHANGED <<paused, target>>
  BY <1>7 DEF vars, flagVars, logVars, clientVars, histVars
<1> QED
  BY <1>1, <1>2, <1>3, <1>4, <1>5, <1>6, <1>7
  DEF Next, Emulate, vars, flagVars, logVars, clientVars, histVars,
      SkipBreakpoints, NoBreakpoint, NoEvent, OtherEvent, FrameEnd, HooksDone,
      NoBound, Enter, LoopTest, PausedDrainDone, Leave, RequestReset,
      ClearStep, Submit, WaitDone, DrainGoesOn, FramesDone, HooksUnlessStep

\* The run a client waits for ends only at the entry to the paused loop.
LEMMA NextRun ==
  TypeOK /\ PlaceInv /\ RunInv /\ ReachedInv /\ DoneInv /\ [Next]_vars =>
    (RunInv /\ ReachedInv /\ DoneInv)'
<1> SUFFICES ASSUME TypeOK, PlaceInv, RunInv, ReachedInv, DoneInv, [Next]_vars
             PROVE  (RunInv /\ ReachedInv /\ DoneInv)'
  OBVIOUS
<1> USE DEF TypeOK, PlaceInv, InPause, RunInv, ReachedInv, Waits, Starting,
    IsStopped, DoneInv
<1>1. CASE Enter
  BY <1>1 DEF Enter, flagVars, logVars, clientVars, histVars
<1>2. CASE Leave
  BY <1>2 DEF Leave, flagVars, logVars, clientVars, histVars
<1>3. CASE BreakpointDrain \/ RunningDrain \/ PausedDrain
  <2>1. PICK c \in Client, i \in DOMAIN queue : Dispatch(c, i)
    BY <1>3, DispatchPlaces
  <2>2. /\ at' = [at EXCEPT ![c] = "answered"]
        /\ stopped' = [stopped EXCEPT ![c] = FALSE]
        /\ UNCHANGED <<seq, running>>
    BY <2>1 DEF Dispatch, logVars
  <2>3. /\ \A d \in Client : d # c => ans'[d] = ans[d]
        /\ ans'[c].status \in Starting => ans'[c].run = SeqForStart
        /\ ans'[c].status = "REACHED" => ans'[c].run = seq
    BY <2>1, CarryTells DEF Dispatch
  <2>4. SeqForStart \in Nat /\ ~IsStopped(SeqForStart)
    BY DEF SeqForStart
  <2>5. RunInv'
    BY <2>2, <2>3, <2>4
  <2>6. ReachedInv'
    BY <2>2, <2>3
  <2>7. DoneInv'
    BY <2>2, <2>3
  <2> QED
    BY <2>5, <2>6, <2>7
<1>4. CASE \E c \in Client : Submit(c)
  BY <1>4 DEF Submit, flagVars, logVars, clientVars, histVars
<1>5. CASE \E c \in Client : WaitDone(c)
  BY <1>5 DEF WaitDone, flagVars, logVars, clientVars, histVars
<1>6. CASE UNCHANGED <<at, ans, stopped, seq, running>>
  BY <1>6 DEF vars, flagVars, logVars, clientVars, histVars
<1> QED
  BY <1>1, <1>2, <1>3, <1>4, <1>5, <1>6
  DEF Next, Emulate, vars, flagVars, logVars, clientVars, histVars, Top,
      SkipBreakpoints, NoBreakpoint, HitBreakpoint, HitTime, Execute, NoEvent,
      OtherEvent, FrameEnd, HooksDone, HitBound, NoBound, LoopTest,
      PausedDrainDone, Poll, RequestReset, ClearStep, DrainGoesOn, FramesDone,
      HooksUnlessStep, KeepBounds, MachineReset, Pause

-----------------------------------------------------------------------------
\* The loop starts in the strengthened invariant.
THEOREM InitIInv == Init => IInv
<1> SUFFICES ASSUME Init PROVE IInv
  OBVIOUS
<1> USE FramesAssumption, RequestsAssumption DEF Init
<1>1. TypeOK
  <2>1. cmd \in [Client -> [op : Op, run : RunId]]
    BY DEF NoCommand, Op, RunId
  <2>2. ans \in [Client -> [status : Status, run : RunId]]
    BY DEF Status, RunId
  <2>3. queue \in Seq(Client) /\ stopped \in [Client -> BOOLEAN]
    OBVIOUS
  <2>4. /\ at \in [Client -> {"idle", "queued", "answered", "done"}]
        /\ pos \in Pos
    BY DEF Pos
  <2>5. /\ seq \in Nat /\ left \in 0 .. MaxRequests /\ insns \in 0 .. 2
        /\ frames \in {Off} \cup 0 .. Frames
        /\ target \subseteq {"address", "time"}
    OBVIOUS
  <2>6. /\ paused \in BOOLEAN /\ step \in BOOLEAN /\ skip \in BOOLEAN
        /\ deadline \in BOOLEAN /\ reset \in BOOLEAN /\ running \in BOOLEAN
        /\ stepRun \in BOOLEAN /\ disturbed \in BOOLEAN
    OBVIOUS
  <2> HIDE DEF Init
  <2> QED
    BY <2>1, <2>2, <2>3, <2>4, <2>5, <2>6 DEF TypeOK
<1>2. PlaceInv /\ BoundInv /\ StepInv
  BY DEF PlaceInv, BoundInv, StepInv, Stepping, InPause
<1>3. TargetsEndAtPause /\ RunInv /\ ReachedInv /\ DoneInv
  BY DEF TargetsEndAtPause, RunInv, Waits, ReachedInv, DoneInv
<1> QED
  BY <1>1, <1>2, <1>3 DEF IInv

\* The strengthened invariant is inductive.
THEOREM NextIInv == IInv /\ [Next]_vars => IInv'
BY NextType, NextPlace, NextBound, NextStep, NextTarget, NextRun DEF IInv

\* The strengthened invariant always holds.
THEOREM Inductive == Spec => []IInv
BY InitIInv, NextIInv, PTL DEF Spec

\* Every variable of the loop keeps its type.
THEOREM TypeCorrect == Spec => []TypeOK
<1>1. IInv => TypeOK
  BY DEF IInv
<1> QED
  BY <1>1, Inductive, PTL

\* An undisturbed step executes one instruction and then stops, whatever the
\* clients queue meanwhile.
THEOREM StepsAreOne == Spec => []StepIsOne
<1>1. IInv => StepIsOne
  BY DEF IInv, StepInv, StepIsOne, Stepping, Before
<1> QED
  BY <1>1, Inductive, PTL

\* No stop of a run outlives the run.
THEOREM TargetsEnd == Spec => []TargetsEndAtPause
<1>1. IInv => TargetsEndAtPause
  BY DEF IInv
<1> QED
  BY <1>1, Inductive, PTL

\* A client is told the run it started is done only after the emulation has
\* stopped since; one told its time had come waits for no run yet to begin.
THEOREM WaitsTellTheTruth == Spec => []DoneIsTrue
<1>1. IInv => DoneIsTrue
  BY DEF IInv, TypeOK, PlaceInv, InPause, ReachedInv, DoneInv, DoneIsTrue,
      IsStopped
<1> QED
  BY <1>1, Inductive, PTL
=============================================================================
