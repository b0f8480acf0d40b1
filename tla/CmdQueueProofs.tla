--------------------------- MODULE CmdQueueProofs ---------------------------
(***************************************************************************)
(* Proofs, for every set of clients and every size of the ring, of the     *)
(* safety properties of CmdQueue.                                          *)
(***************************************************************************)
EXTENDS CmdQueueRefines, TLAPS

(***************************************************************************)
(* The inductive invariant.  RingInv says what a slot of the ring, and a   *)
(* slot outside it, may look like; FrameInv that a frame of the emulation  *)
(* thread holds a taken, unfinished slot of its own; RunInv that the       *)
(* history counts exactly the dispatches of the command in the slot.       *)
(***************************************************************************)
RingInv ==
  \A i \in Slot :
    IF InRing(i)
    THEN IF slot[i].done_early
         THEN slot[i].dequeued /\ slot[i].cmd_state # "CANCELLED"
         ELSE ~slot[i].dequeued /\ slot[i].cmd_state \in {"PENDING", "CANCELLED"}
    ELSE /\ ~slot[i].done_early
         /\ slot[i].cmd_state # "CANCELLED"
         /\ slot[i].cmd_state = "PENDING" => slot[i].dequeued

Busy == {"PENDING", "PROCESSED"}

OwnerInv ==
  /\ \A i \in Slot : slot[i].cmd_state \in Busy => OwnerWaits(i)
  /\ SlotKept

Holds(f, i) == f.pc # "none" /\ f.slot = i

FrameInv ==
  /\ \A f \in {drain, bp} : f.pc # "none" =>
       slot[f.slot].cmd_state = "PENDING" /\ slot[f.slot].dequeued
  /\ drain.pc # "none" /\ bp.pc # "none" => drain.slot # bp.slot

Ran(i) == \E f \in {drain, bp} : f.pc = "ran" /\ f.slot = i

RunInv ==
  \A i \in Slot :
    /\ slot[i].cmd_state = "PENDING" =>
         execs[slot[i].owner] = IF Ran(i) THEN 1 ELSE 0
    /\ slot[i].cmd_state = "PROCESSED" => execs[slot[i].owner] = 1
    /\ slot[i].cmd_state = "PROCESSED" \/ (slot[i].cmd_state = "PENDING" /\ Ran(i)) =>
         verdict[slot[i].owner] = slot[i].success

IInv == TypeOK /\ RingInv /\ OwnerInv /\ FrameInv /\ RunInv /\ StatusHonest
-----------------------------------------------------------------------------
LEMMA AfterLemma == \A i \in Slot : After(i) = IF i = N - 1 THEN 0 ELSE i + 1
<1> TAKE i \in Slot
<1>1. CASE i = N - 1
  <2>1. (i + 1) % N = N % N BY <1>1, SizeAssumption
  <2>2. N % N = 0 BY SizeAssumption
  <2> QED BY <1>1, <2>1, <2>2 DEF After
<1>2. CASE i # N - 1
  <2>1. (i + 1) % N = i + 1 BY <1>2, SizeAssumption DEF Slot
  <2> QED BY <1>2, <2>1 DEF After
<1> QED BY <1>1, <1>2

\* What skipping a slot in dbgapi_emu_dequeue() does to its fields.
LEMMA SkippedLemma ==
  ASSUME NEW s \in SlotRecord
  PROVE  LET t == Skipped(s) IN
         /\ t \in SlotRecord
         /\ t.owner = s.owner /\ t.cmd = s.cmd
         /\ t.success = s.success /\ t.dequeued = s.dequeued
         /\ ~t.done_early
         /\ t.cmd_state = IF s.done_early THEN s.cmd_state ELSE "NONE"
<1>1. CASE s.done_early
  <2>1. Skipped(s) = [s EXCEPT !.done_early = FALSE] BY <1>1 DEF Skipped
  <2> QED BY <1>1, <2>1 DEF SlotRecord
<1>2. CASE ~s.done_early
  <2>1. Skipped(s) = [s EXCEPT !.cmd_state = "NONE"] BY <1>2 DEF Skipped
  <2> QED BY <1>2, <2>1 DEF SlotRecord, State
<1> QED BY <1>1, <1>2

\* The slots are typed records, before a step and where it leaves them alone.
LEMMA SlotTyped == IInv => \A j \in Slot : slot[j] \in SlotRecord
BY DEF IInv, TypeOK

THEOREM InitIInv == Init => IInv
<1> SUFFICES ASSUME Init PROVE IInv OBVIOUS
<1> USE SizeAssumption, NobodyAssumption DEF Init, FreeSlot, NoFrame
<1>1. TypeOK BY DEF TypeOK, SlotRecord, Slot, State, Place, Status, Frame
<1>2. RingInv BY DEF RingInv, InRing, Off, Slot
<1>3. OwnerInv BY DEF OwnerInv, SlotKept, Busy
<1>4. FrameInv BY DEF FrameInv
<1>5. RunInv BY DEF RunInv
<1>6. StatusHonest BY DEF StatusHonest
<1> QED BY <1>1, <1>2, <1>3, <1>4, <1>5, <1>6 DEF IInv

-----------------------------------------------------------------------------
(* One lemma per action that changes a slot. *)

LEMMA EnqueueStep ==
  ASSUME IInv, NEW c \in Client, NEW cmd \in Command, Enqueue(c, cmd)
  PROVE  IInv'
<1> USE SizeAssumption, NobodyAssumption
<1> DEFINE t == tail
<1>0. t \in Slot /\ head \in Slot /\ tail' = After(t) /\ tail' # head
  BY DEF IInv, TypeOK, Enqueue, QueueFull
<1>1. TypeOK'
  BY <1>0, AfterLemma DEF IInv, TypeOK, Enqueue, NotYetRun, SlotRecord, State, Place, Status, clientVars, emuVars, Slot
<1>2. ASSUME NEW i \in Slot PROVE InRing(i)' <=> InRing(i) \/ i = t
  BY <1>0, AfterLemma DEF InRing, Off, Slot, Enqueue
<1>3. \A i \in Slot \ {t} : slot'[i] = slot[i]
  BY DEF IInv, TypeOK, Enqueue
<1>4. slot'[t] = [cmd_state |-> "PENDING", cmd |-> cmd, owner |-> c, success |-> FALSE,
                  dequeued |-> FALSE, done_early |-> FALSE]
  BY <1>0 DEF IInv, TypeOK, Enqueue
<1>5. slot[t].cmd_state = "NONE" BY DEF Enqueue, SlotTaken
<1>6. RingInv'
  BY <1>0, <1>2, <1>3, <1>4 DEF IInv, RingInv
<1>7. \A d \in Client \ {c} : pc'[d] = pc[d] /\ at'[d] = at[d] /\ execs'[d] = execs[d]
                              /\ verdict'[d] = verdict[d] /\ ret'[d] = ret[d]
  BY DEF IInv, TypeOK, Enqueue, NotYetRun
<1>8. pc[c] = "idle" /\ pc'[c] = "waiting" /\ at'[c] = t /\ execs'[c] = 0
  BY DEF IInv, TypeOK, Enqueue, NotYetRun
<1>9. \A i \in Slot : slot[i].cmd_state \in Busy =>
        OwnerWaits(i) /\ slot[i].owner \in Client \ {c}
  BY <1>8 DEF IInv, OwnerInv, OwnerWaits
<1>9a. \A i \in Slot : slot'[i].cmd_state \in Busy => OwnerWaits(i)'
  BY <1>3, <1>4, <1>7, <1>8, <1>9 DEF OwnerWaits
<1>9b. \A d \in Client \ {c} : pc[d] # "idle" => at[d] \in Slot \ {t}
  BY <1>5 DEF IInv, TypeOK, OwnerInv, SlotKept
<1>9c. SlotKept'
  BY <1>3, <1>4, <1>7, <1>8, <1>9b DEF IInv, OwnerInv, SlotKept
<1>9d. OwnerInv' BY <1>9a, <1>9c DEF OwnerInv, Busy
<1>10. drain' = drain /\ bp' = bp BY DEF Enqueue, emuVars
<1>11. FrameInv'
  BY <1>0, <1>3, <1>4, <1>5, <1>10 DEF IInv, TypeOK, FrameInv, Frame
<1>12. \A i \in Slot : Ran(i)' <=> Ran(i) BY <1>10 DEF Ran
<1>13. \A i \in Slot : i = t => ~Ran(i) BY <1>5 DEF IInv, FrameInv, Ran
<1>15. RunInv'
  <2> SUFFICES ASSUME NEW i \in Slot PROVE
        /\ slot'[i].cmd_state = "PENDING" =>
             execs'[slot'[i].owner] = IF Ran(i) THEN 1 ELSE 0
        /\ slot'[i].cmd_state = "PROCESSED" => execs'[slot'[i].owner] = 1
        /\ slot'[i].cmd_state = "PROCESSED" \/ (slot'[i].cmd_state = "PENDING" /\ Ran(i)) =>
             verdict'[slot'[i].owner] = slot'[i].success
    BY <1>12 DEF RunInv
  <2>1. CASE i = t
    <3>1. slot'[i].cmd_state = "PENDING" /\ slot'[i].owner = c BY <2>1, <1>4
    <3>2. ~Ran(i) BY <2>1, <1>13
    <3> QED BY <3>1, <3>2, <1>8
  <2>2. CASE i # t BY <2>2, <1>3, <1>7, <1>9 DEF IInv, RunInv, Busy
  <2> QED BY <2>1, <2>2
<1>16. StatusHonest'
  BY <1>7, <1>8 DEF IInv, StatusHonest
<1> QED BY <1>1, <1>6, <1>9d, <1>11, <1>15, <1>16 DEF IInv

\* What both forms of dbgapi_emu_dequeue() leave alone in every slot.
Passed(j) ==
  /\ slot'[j].owner = slot[j].owner /\ slot'[j].success = slot[j].success
  /\ \/ slot'[j].cmd_state = slot[j].cmd_state
     \/ slot[j].cmd_state = "CANCELLED" /\ slot'[j].cmd_state = "NONE"
  /\ slot[j].dequeued => slot'[j].dequeued

LEMMA PassedKeepsOwners ==
  ASSUME IInv, \A j \in Slot : Passed(j), UNCHANGED <<clientVars, history>>
  PROVE  OwnerInv' /\ StatusHonest'
<1>1. pc' = pc /\ at' = at /\ ret' = ret /\ execs' = execs /\ verdict' = verdict
  BY DEF clientVars, history
<1>2. \A j \in Slot : slot'[j].cmd_state \in Busy => OwnerWaits(j)'
  BY <1>1 DEF IInv, OwnerInv, OwnerWaits, Busy, Passed
<1>3. SlotKept'
  BY <1>1 DEF IInv, TypeOK, OwnerInv, SlotKept, Passed
<1>4. StatusHonest' BY <1>1 DEF IInv, StatusHonest
<1> QED BY <1>2, <1>3, <1>4 DEF OwnerInv, Busy

LEMMA DequeueStep ==
  ASSUME IInv, NEW i \in Slot, Dequeue(i)
  PROVE  IInv'
<1> USE SizeAssumption
<1>1. /\ InRing(i) /\ ~slot[i].done_early /\ slot[i].cmd_state = "PENDING"
      /\ ~slot[i].dequeued
  BY DEF IInv, RingInv, Dequeue, Live
<1>2. drain.pc = "none" /\ bp.pc = "none" /\ bp' = bp /\ drain' = [pc |-> "taken", slot |-> i]
  BY DEF Dequeue, AtDrainPoint
<1>0. /\ head \in Slot /\ tail \in Slot /\ tail' = tail
      /\ head' = IF i = N - 1 THEN 0 ELSE i + 1
  BY AfterLemma DEF IInv, TypeOK, Dequeue
<1>3. \A j \in Slot : InRing(j)' <=> InRing(j) /\ ~Before(j, i) /\ j # i
  BY <1>0, <1>1 DEF InRing, Before, Off, Slot
<1>4. slot'[i] = [slot[i] EXCEPT !.dequeued = TRUE]
  BY DEF IInv, TypeOK, Dequeue
<1>4a. /\ slot'[i] \in SlotRecord /\ slot'[i].cmd_state = "PENDING" /\ slot'[i].dequeued
  BY <1>1, <1>4, SlotTyped DEF SlotRecord
<1>5. \A j \in Slot : j # i /\ ~Before(j, i) => slot'[j] = slot[j]
  BY DEF IInv, TypeOK, Dequeue
<1>6. ASSUME NEW j \in Slot, Before(j, i), j # i
      PROVE  /\ slot'[j] = Skipped(slot[j])
             /\ slot[j].done_early => slot[j].dequeued /\ slot[j].cmd_state # "CANCELLED"
             /\ ~slot[j].done_early => slot[j].cmd_state = "CANCELLED"
  BY <1>6 DEF IInv, TypeOK, RingInv, Dequeue, Before, Live
<1>7. ASSUME NEW j \in Slot, Before(j, i), j # i
      PROVE  /\ Passed(j) /\ ~slot'[j].done_early /\ slot'[j].cmd_state # "CANCELLED"
             /\ slot'[j].cmd_state = "PENDING" => slot'[j].dequeued
  BY <1>6, <1>7, SlotTyped, SkippedLemma DEF Passed
<1>8. \A j \in Slot : Passed(j)
  BY <1>1, <1>4, <1>5, <1>7, SlotTyped DEF Passed, SlotRecord
<1>9. TypeOK'
  <2>1. head' \in Slot /\ tail' \in Slot
    BY <1>0 DEF Slot
  <2>2. \A j \in Slot : slot'[j] \in SlotRecord
    BY <1>4a, <1>5, <1>6, SlotTyped, SkippedLemma
  <2>3. slot' \in [Slot -> SlotRecord] BY <2>2 DEF Dequeue
  <2> QED BY <2>1, <2>3, <1>2 DEF IInv, TypeOK, Dequeue, Frame, clientVars, history
<1>10. RingInv'
  <2> SUFFICES ASSUME NEW j \in Slot PROVE
        IF InRing(j)'
        THEN IF slot'[j].done_early
             THEN slot'[j].dequeued /\ slot'[j].cmd_state # "CANCELLED"
             ELSE ~slot'[j].dequeued /\ slot'[j].cmd_state \in {"PENDING", "CANCELLED"}
        ELSE /\ ~slot'[j].done_early
             /\ slot'[j].cmd_state # "CANCELLED"
             /\ slot'[j].cmd_state = "PENDING" => slot'[j].dequeued
    BY DEF RingInv
  <2>1. CASE j = i
    BY <2>1, <1>1, <1>3, <1>4 DEF IInv, TypeOK
  <2>2. CASE j # i /\ Before(j, i)
    BY <2>2, <1>3, <1>7
  <2>3. CASE j # i /\ ~Before(j, i)
    BY <2>3, <1>3, <1>5 DEF IInv, RingInv
  <2> QED BY <2>1, <2>2, <2>3
<1>11. OwnerInv' /\ StatusHonest'
  BY <1>8, PassedKeepsOwners DEF Dequeue
<1>12. FrameInv'
  BY <1>2, <1>4a DEF FrameInv
<1>13. \A j \in Slot : ~Ran(j) /\ ~Ran(j)'
  BY <1>2 DEF Ran
<1>14. RunInv'
  BY <1>8, <1>13 DEF IInv, RunInv, Passed, Dequeue, history
<1> QED BY <1>9, <1>10, <1>11, <1>12, <1>14 DEF IInv

LEMMA DequeueNothingStep ==
  ASSUME IInv, DequeueNothing
  PROVE  IInv'
<1> USE SizeAssumption
<1>1. drain.pc = "none" /\ bp.pc = "none" /\ bp' = bp /\ drain' = drain
  BY DEF DequeueNothing, AtDrainPoint, emuVars
<1>2. \A j \in Slot : ~InRing(j)'
  BY DEF IInv, TypeOK, DequeueNothing, InRing, Off, Slot
<1>3. \A j \in Slot : ~InRing(j) => slot'[j] = slot[j]
  BY DEF IInv, TypeOK, DequeueNothing
<1>4. ASSUME NEW j \in Slot, InRing(j)
      PROVE  /\ slot'[j] = Skipped(slot[j])
             /\ slot[j].done_early => slot[j].dequeued /\ slot[j].cmd_state # "CANCELLED"
             /\ ~slot[j].done_early => slot[j].cmd_state = "CANCELLED"
  BY <1>4 DEF IInv, TypeOK, RingInv, DequeueNothing, Live
<1>5. ASSUME NEW j \in Slot, InRing(j)
      PROVE  /\ Passed(j) /\ ~slot'[j].done_early /\ slot'[j].cmd_state # "CANCELLED"
             /\ slot'[j].cmd_state = "PENDING" => slot'[j].dequeued
  BY <1>4, <1>5, SlotTyped, SkippedLemma DEF Passed
<1>6. \A j \in Slot : Passed(j)
  BY <1>3, <1>5 DEF Passed
<1>7. TypeOK'
  <2>1. \A j \in Slot : slot'[j] \in SlotRecord
    BY <1>3, <1>4, SlotTyped, SkippedLemma
  <2>2. slot' \in [Slot -> SlotRecord] BY <2>1 DEF DequeueNothing
  <2> QED BY <2>2 DEF IInv, TypeOK, DequeueNothing, emuVars, clientVars, history
<1>8. RingInv'
  BY <1>2, <1>3, <1>5 DEF IInv, RingInv
<1>9. OwnerInv' /\ StatusHonest'
  BY <1>6, PassedKeepsOwners DEF DequeueNothing
<1>10. FrameInv' BY <1>1 DEF FrameInv
<1>11. \A j \in Slot : ~Ran(j) /\ ~Ran(j)' BY <1>1 DEF Ran
<1>12. RunInv'
  BY <1>6, <1>11 DEF IInv, RunInv, Passed, DequeueNothing, history
<1> QED BY <1>7, <1>8, <1>9, <1>10, <1>12 DEF IInv

LEMMA DequeueMatchingStep ==
  ASSUME IInv, NEW i \in Slot, DequeueMatching(i)
  PROVE  IInv'
<1> USE SizeAssumption
<1>1. /\ InRing(i) /\ ~slot[i].done_early /\ slot[i].cmd_state = "PENDING"
      /\ ~slot[i].dequeued
  BY DEF IInv, RingInv, DequeueMatching, Matches
<1>2. bp.pc = "none" /\ drain' = drain /\ bp' = [pc |-> "taken", slot |-> i]
  BY DEF DequeueMatching, InBusAccess
<1>0. /\ head \in Slot /\ tail \in Slot /\ tail' = tail
      /\ head' = IF i = head THEN (IF head = N - 1 THEN 0 ELSE head + 1) ELSE head
  BY AfterLemma DEF IInv, TypeOK, DequeueMatching
<1>3. \A j \in Slot : InRing(j)' <=> InRing(j) /\ (i = head => j # i)
  BY <1>0, <1>1 DEF InRing, Off, Slot
<1>4. slot'[i] = [slot[i] EXCEPT !.dequeued = TRUE, !.done_early = (i # head)]
  BY DEF IInv, TypeOK, DequeueMatching
<1>4a. /\ slot'[i] \in SlotRecord /\ slot'[i].owner = slot[i].owner
       /\ slot'[i].success = slot[i].success /\ slot'[i].cmd_state = "PENDING"
       /\ slot'[i].dequeued /\ slot'[i].done_early = (i # head)
  BY <1>1, <1>4, SlotTyped DEF SlotRecord
<1>5. \A j \in Slot \ {i} : slot'[j] = slot[j]
  BY DEF IInv, TypeOK, DequeueMatching
<1>6. \A j \in Slot : Passed(j)
  BY <1>1, <1>4a, <1>5 DEF Passed
<1>7. TypeOK'
  <2>1. head' \in Slot /\ tail' \in Slot
    BY <1>0 DEF Slot
  <2>2. slot' \in [Slot -> SlotRecord]
    BY <1>4a, <1>5, SlotTyped DEF DequeueMatching, IInv, TypeOK
  <2> QED BY <2>1, <2>2, <1>2 DEF IInv, TypeOK, DequeueMatching, Frame, clientVars, history
<1>8. RingInv'
  <2>1. \A j \in Slot \ {i} : InRing(j)' <=> InRing(j) BY <1>3
  <2>2. InRing(i)' <=> i # head BY <1>1, <1>3
  <2>3. /\ slot'[i].dequeued /\ slot'[i].done_early = (i # head)
        /\ slot'[i].cmd_state = "PENDING"
    BY <1>1, <1>4 DEF IInv, TypeOK
  <2> QED BY <2>1, <2>2, <2>3, <1>5 DEF IInv, RingInv
<1>9. OwnerInv' /\ StatusHonest'
  BY <1>6, PassedKeepsOwners DEF DequeueMatching
<1>10. FrameInv'
  <2>1. drain.pc # "none" => drain.slot # i /\ drain.slot \in Slot
    BY <1>1 DEF IInv, TypeOK, Frame, FrameInv
  <2> QED BY <2>1, <1>2, <1>4a, <1>5 DEF FrameInv, IInv
<1>11. \A j \in Slot : Ran(j)' <=> Ran(j) BY <1>2 DEF Ran
<1>12. RunInv'
  <2>1. execs' = execs /\ verdict' = verdict BY DEF DequeueMatching, history
  <2>2. \A j \in Slot : slot'[j].cmd_state \in Busy => slot'[j].cmd_state = slot[j].cmd_state
    BY <1>6 DEF Passed, Busy
  <2> QED BY <2>1, <2>2, <1>6, <1>11 DEF IInv, RunInv, Passed, Busy
<1> QED BY <1>7, <1>8, <1>9, <1>10, <1>12 DEF IInv

\* What leaving a slot in dbgapi_ui_submit_impl() does to its fields.
LEMMA ReleasedLemma ==
  ASSUME NEW s \in SlotRecord, NEW state \in State
  PROVE  LET t == Released(s, state) IN
         /\ t \in SlotRecord /\ t.cmd_state = state
         /\ t.dequeued = s.dequeued /\ t.done_early = s.done_early
<1> DEFINE t == Released(s, state)
<1>1. t = [s EXCEPT !.cmd_state = state, !.cmd = Nobody, !.owner = Nobody] BY DEF Released
<1> QED BY <1>1 DEF SlotRecord

\* A client leaves a slot no frame of the emulation thread works on.
LEMMA LeaveStep ==
  ASSUME IInv, NEW c \in Client, NEW state \in {"NONE", "CANCELLED"}, NEW status \in Status,
         pc[c] # "idle",
         \A f \in {drain, bp} : f.pc # "none" => f.slot # at[c],
         slot' = [slot EXCEPT ![at[c]] = Released(@, state)],
         Leave(c, status),
         UNCHANGED <<head, tail, reply_state, emuVars, history>>
  PROVE  /\ TypeOK' /\ OwnerInv' /\ FrameInv' /\ RunInv'
         /\ \A j \in Slot : InRing(j)' <=> InRing(j)
         /\ \A j \in Slot \ {at[c]} : slot'[j] = slot[j]
         /\ slot'[at[c]].cmd_state = state
         /\ slot'[at[c]].dequeued = slot[at[c]].dequeued
         /\ slot'[at[c]].done_early = slot[at[c]].done_early
<1> USE SizeAssumption, NobodyAssumption
<1> DEFINE i == at[c]
<1>1. i \in Slot /\ slot[i].owner = c
  BY DEF IInv, TypeOK, OwnerInv, SlotKept
<1>2. /\ slot'[i] \in SlotRecord /\ slot'[i].cmd_state = state
      /\ slot'[i].dequeued = slot[i].dequeued /\ slot'[i].done_early = slot[i].done_early
  <2>1. slot'[i] = Released(slot[i], state) BY <1>1 DEF IInv, TypeOK
  <2>2. slot[i] \in SlotRecord BY <1>1, SlotTyped
  <2>3. state \in State BY DEF State
  <2> QED BY <2>1, <2>2, <2>3, ReleasedLemma
<1>3. \A j \in Slot \ {i} : slot'[j] = slot[j]
  BY DEF IInv, TypeOK
<1>4. pc'[c] = "idle" /\ at'[c] = 0
  BY DEF IInv, TypeOK, Leave
<1>5. \A d \in Client \ {c} : pc'[d] = pc[d] /\ at'[d] = at[d]
  BY DEF IInv, TypeOK, Leave
<1>6. /\ head' = head /\ tail' = tail /\ reply_state' = reply_state /\ drain' = drain
      /\ bp' = bp /\ alive' = alive /\ execs' = execs /\ verdict' = verdict
  BY DEF emuVars, history
<1>7. TypeOK'
  <2>1. slot' \in [Slot -> SlotRecord]
    BY <1>1, <1>2, <1>3, SlotTyped DEF IInv, TypeOK
  <2>2. 0 \in Slot BY DEF Slot
  <2> QED BY <2>1, <2>2, <1>6 DEF IInv, TypeOK, Leave, Place, Status
<1>8. \A j \in Slot : InRing(j)' <=> InRing(j) BY <1>6 DEF InRing, Off
<1>9. \A j \in Slot \ {i} : slot[j].cmd_state \in Busy =>
        OwnerWaits(j) /\ slot[j].owner \in Client \ {c}
  BY DEF IInv, OwnerInv, OwnerWaits
<1>10. \A j \in Slot : slot'[j].cmd_state \in Busy => j # i /\ OwnerWaits(j)'
  BY <1>2, <1>3, <1>5, <1>9 DEF OwnerWaits, Busy
<1>11. SlotKept'
  <2> SUFFICES ASSUME NEW d \in Client, pc'[d] # "idle"
      PROVE slot'[at'[d]].owner = d /\ slot'[at'[d]].cmd_state \in Busy
    BY DEF SlotKept, Busy
  <2>1. d # c /\ at[d] \in Slot /\ slot[at[d]].owner = d /\ slot[at[d]].cmd_state \in Busy
    BY <1>4, <1>5 DEF IInv, TypeOK, OwnerInv, SlotKept, Busy
  <2>2. at[d] # i BY <2>1, <1>1
  <2> QED BY <2>1, <2>2, <1>3, <1>5
<1>12. OwnerInv' BY <1>10, <1>11 DEF OwnerInv, Busy
<1>13. FrameInv' BY <1>3, <1>6 DEF IInv, TypeOK, FrameInv, Frame
<1>14. \A j \in Slot : Ran(j)' <=> Ran(j) BY <1>6 DEF Ran
<1>15. RunInv' BY <1>2, <1>3, <1>6, <1>14 DEF IInv, RunInv
<1> QED BY <1>1, <1>2, <1>3, <1>7, <1>8, <1>12, <1>13, <1>15

LEMMA CancelStep ==
  ASSUME IInv, NEW c \in Client, Cancel(c)
  PROVE  IInv'
<1> DEFINE i == at[c]
<1>1. /\ i \in Slot /\ slot[i].cmd_state = "PENDING" /\ ~slot[i].dequeued
      /\ slot[i].owner = c /\ pc[c] # "idle"
  BY DEF IInv, TypeOK, OwnerInv, SlotKept, Cancel, Cancellable
<1>2. \A f \in {drain, bp} : f.pc # "none" => f.slot # i
  BY <1>1 DEF IInv, FrameInv
<1>3. /\ TypeOK' /\ OwnerInv' /\ FrameInv' /\ RunInv'
      /\ \A j \in Slot : InRing(j)' <=> InRing(j)
      /\ \A j \in Slot \ {i} : slot'[j] = slot[j]
      /\ slot'[i].cmd_state = "CANCELLED" /\ slot'[i].dequeued = slot[i].dequeued
      /\ slot'[i].done_early = slot[i].done_early
  BY <1>1, <1>2, LeaveStep DEF Cancel, Status
<1>4. RingInv' BY <1>1, <1>3 DEF IInv, RingInv
<1>5. execs[c] = 0
  <2>1. ~Ran(i) BY <1>2 DEF Ran
  <2> QED BY <2>1, <1>1 DEF IInv, RunInv
<1>6. StatusHonest'
  BY <1>5 DEF IInv, TypeOK, StatusHonest, Cancel, Leave, history
<1> QED BY <1>3, <1>4, <1>6 DEF IInv

LEMMA CollectStep ==
  ASSUME IInv, NEW c \in Client, Collect(c)
  PROVE  IInv'
<1> DEFINE i == at[c]
           status == IF slot[i].success THEN "OK" ELSE "FAILED"
<1>1. /\ i \in Slot /\ slot[i].cmd_state = "PROCESSED"
      /\ slot[i].owner = c /\ pc[c] # "idle"
  BY DEF IInv, TypeOK, OwnerInv, SlotKept, Collect
<1>2. \A f \in {drain, bp} : f.pc # "none" => f.slot # i
  BY <1>1 DEF IInv, FrameInv
<1>3. /\ TypeOK' /\ OwnerInv' /\ FrameInv' /\ RunInv'
      /\ \A j \in Slot : InRing(j)' <=> InRing(j)
      /\ \A j \in Slot \ {i} : slot'[j] = slot[j]
      /\ slot'[i].cmd_state = "NONE" /\ slot'[i].dequeued = slot[i].dequeued
      /\ slot'[i].done_early = slot[i].done_early
  <2>1. status \in Status /\ Leave(c, status) BY DEF Status, Collect
  <2>2. slot' = [slot EXCEPT ![i] = Released(@, "NONE")] BY DEF Collect
  <2>3. UNCHANGED <<head, tail, reply_state, emuVars, history>> BY DEF Collect
  <2> QED BY <1>1, <1>2, <2>1, <2>2, <2>3, LeaveStep
<1>4. RingInv' BY <1>1, <1>3 DEF IInv, RingInv
<1>5. execs[c] = 1 /\ verdict[c] = slot[i].success
  BY <1>1 DEF IInv, RunInv
<1>6. StatusHonest'
  BY <1>5 DEF IInv, TypeOK, StatusHonest, Collect, Leave, history
<1> QED BY <1>3, <1>4, <1>6 DEF IInv

\* What a handler and its completion change of a slot.
Worked(s, success, state) == [s EXCEPT !.success = success, !.cmd_state = state]

LEMMA WorkedLemma ==
  ASSUME NEW s \in SlotRecord, NEW success \in BOOLEAN, NEW state \in Busy
  PROVE  LET t == Worked(s, success, state) IN
         /\ t \in SlotRecord /\ t.success = success /\ t.cmd_state = state
         /\ t.dequeued = s.dequeued /\ t.done_early = s.done_early /\ t.owner = s.owner
<1> state \in State BY DEF Busy, State
<1> QED BY DEF SlotRecord, Worked

\* One slot, held by a frame, changes its answer or its cmd_state only.
LEMMA WorkStep ==
  ASSUME IInv, NEW i \in Slot, NEW success \in BOOLEAN, NEW state \in Busy,
         slot[i].cmd_state = "PENDING", slot[i].dequeued,
         slot' = [slot EXCEPT ![i] = Worked(@, success, state)],
         UNCHANGED <<head, tail, clientVars>>
  PROVE  /\ slot' \in [Slot -> SlotRecord] /\ RingInv' /\ OwnerInv'
         /\ slot'[i].success = success /\ slot'[i].cmd_state = state /\ slot'[i].dequeued
         /\ \A j \in Slot : slot'[j].owner = slot[j].owner
         /\ \A j \in Slot \ {i} : slot'[j] = slot[j]
<1>1. slot'[i] = Worked(slot[i], success, state) BY DEF IInv, TypeOK
<1>2. slot[i] \in SlotRecord BY SlotTyped
<1>3. /\ slot'[i] \in SlotRecord /\ slot'[i].success = success /\ slot'[i].cmd_state = state
      /\ slot'[i].dequeued /\ slot'[i].done_early = slot[i].done_early
      /\ slot'[i].owner = slot[i].owner
  BY <1>1, <1>2, WorkedLemma
<1>4. \A j \in Slot \ {i} : slot'[j] = slot[j] BY DEF IInv, TypeOK
<1>5. slot' \in [Slot -> SlotRecord] BY <1>3, <1>4, SlotTyped DEF IInv, TypeOK
<1>6. \A j \in Slot : InRing(j)' <=> InRing(j) BY DEF InRing, Off
<1>7. RingInv' BY <1>3, <1>4, <1>6 DEF IInv, RingInv, Busy
<1>8. pc' = pc /\ at' = at BY DEF clientVars
<1>9. \A j \in Slot : slot'[j].owner = slot[j].owner BY <1>3, <1>4
<1>10. \A j \in Slot : slot'[j].cmd_state \in Busy <=> slot[j].cmd_state \in Busy
  BY <1>3, <1>4 DEF Busy
<1>11. \A j \in Slot : slot'[j].cmd_state \in Busy => OwnerWaits(j)'
  BY <1>8, <1>9, <1>10 DEF IInv, OwnerInv, OwnerWaits
<1>12. SlotKept'
  BY <1>8, <1>9, <1>10 DEF IInv, TypeOK, OwnerInv, SlotKept, Busy
<1> QED BY <1>3, <1>4, <1>5, <1>7, <1>9, <1>11, <1>12 DEF OwnerInv, Busy

LEMMA DispatchStep ==
  ASSUME IInv, NEW i \in Slot, NEW answer \in BOOLEAN, Dispatch(i, answer),
         slot[i].cmd_state = "PENDING", slot[i].dequeued, ~Ran(i),
         drain' \in Frame, bp' \in Frame,
         drain'.pc # "none" <=> drain.pc # "none", drain'.slot = drain.slot,
         bp'.pc # "none" <=> bp.pc # "none", bp'.slot = bp.slot,
         \A j \in Slot : Ran(j)' <=> Ran(j) \/ j = i
  PROVE  IInv'
<1> DEFINE c == slot[i].owner
<1>1. c \in Client /\ pc[c] # "idle" /\ at[c] = i
  BY DEF IInv, OwnerInv, OwnerWaits, Busy
<1>2. slot[i] \in SlotRecord BY SlotTyped
<1>3. slot' = [slot EXCEPT ![i] = Worked(@, answer, "PENDING")]
  BY <1>2 DEF Worked, Dispatch, SlotRecord, IInv, TypeOK
<1>4. UNCHANGED <<head, tail, clientVars>> /\ alive' = alive /\ reply_state' = reply_state
  BY DEF Dispatch
<1>5. /\ slot' \in [Slot -> SlotRecord] /\ RingInv' /\ OwnerInv'
      /\ slot'[i].success = answer /\ slot'[i].cmd_state = "PENDING" /\ slot'[i].dequeued
      /\ \A j \in Slot : slot'[j].owner = slot[j].owner
      /\ \A j \in Slot \ {i} : slot'[j] = slot[j]
  <2>1. "PENDING" \in Busy BY DEF Busy
  <2> QED BY <1>3, <1>4, <2>1, WorkStep
<1>6. execs[c] = 0 BY <1>1 DEF IInv, RunInv
<1>7. /\ execs' = [execs EXCEPT ![c] = 1]
      /\ verdict' = [verdict EXCEPT ![c] = answer]
  BY <1>1, <1>6 DEF Dispatch, IInv, TypeOK
<1>8. TypeOK'
  BY <1>4, <1>5, <1>7 DEF IInv, TypeOK, clientVars
<1>9. FrameInv' BY <1>5 DEF IInv, TypeOK, FrameInv, Frame
<1>10. \A j \in Slot \ {i} : slot[j].cmd_state \in Busy => slot[j].owner \in Client \ {c}
  BY <1>1 DEF IInv, OwnerInv, OwnerWaits
<1>11. RunInv'
  <2> SUFFICES ASSUME NEW j \in Slot PROVE
        /\ slot'[j].cmd_state = "PENDING" =>
             execs'[slot'[j].owner] = IF Ran(j) \/ j = i THEN 1 ELSE 0
        /\ slot'[j].cmd_state = "PROCESSED" => execs'[slot'[j].owner] = 1
        /\ slot'[j].cmd_state = "PROCESSED" \/ (slot'[j].cmd_state = "PENDING" /\ (Ran(j) \/ j = i)) =>
             verdict'[slot'[j].owner] = slot'[j].success
    BY DEF RunInv
  <2>1. CASE j = i
    <3>1. slot'[j].owner = c /\ slot'[j].cmd_state = "PENDING" /\ slot'[j].success = answer
      BY <2>1, <1>5
    <3>2. execs'[c] = 1 /\ verdict'[c] = answer BY <1>1, <1>7 DEF IInv, TypeOK
    <3> QED BY <2>1, <3>1, <3>2
  <2>2. CASE j # i
    <3>1. slot'[j] = slot[j] BY <2>2, <1>5
    <3>2. slot[j].cmd_state \in Busy =>
            execs'[slot[j].owner] = execs[slot[j].owner] /\ verdict'[slot[j].owner] = verdict[slot[j].owner]
      BY <2>2, <1>1, <1>7, <1>10 DEF IInv, TypeOK
    <3> QED BY <2>2, <3>1, <3>2 DEF IInv, RunInv, Busy
  <2> QED BY <2>1, <2>2
<1>12. StatusHonest'
  BY <1>1, <1>4, <1>7 DEF IInv, TypeOK, StatusHonest, clientVars
<1> QED BY <1>5, <1>8, <1>9, <1>11, <1>12 DEF IInv

LEMMA DispatchDrainStep ==
  ASSUME IInv, NEW answer \in BOOLEAN, DispatchDrain(answer)
  PROVE  IInv'
<1>1. /\ drain.pc = "taken" /\ bp.pc = "none" /\ bp' = bp /\ drain.slot \in Slot
      /\ drain' = [pc |-> "ran", slot |-> drain.slot]
  BY DEF IInv, TypeOK, Frame, DispatchDrain
<1>2. slot[drain.slot].cmd_state = "PENDING" /\ slot[drain.slot].dequeued
  BY <1>1 DEF IInv, FrameInv
<1>3. ~Ran(drain.slot) /\ \A j \in Slot : Ran(j)' <=> Ran(j) \/ j = drain.slot
  BY <1>1 DEF Ran
<1>4. drain' \in Frame /\ bp' \in Frame BY <1>1 DEF IInv, TypeOK, Frame
<1>5. Dispatch(drain.slot, answer) BY DEF DispatchDrain
<1> QED BY <1>1, <1>2, <1>3, <1>4, <1>5, DispatchStep

LEMMA DispatchBpStep ==
  ASSUME IInv, NEW answer \in BOOLEAN, DispatchBp(answer)
  PROVE  IInv'
<1>1. /\ bp.pc = "taken" /\ drain' = drain /\ bp.slot \in Slot
      /\ bp' = [pc |-> "ran", slot |-> bp.slot]
  BY DEF IInv, TypeOK, Frame, DispatchBp
<1>2. slot[bp.slot].cmd_state = "PENDING" /\ slot[bp.slot].dequeued
  BY <1>1 DEF IInv, FrameInv
<1>3. ~Ran(bp.slot) /\ \A j \in Slot : Ran(j)' <=> Ran(j) \/ j = bp.slot
  BY <1>1 DEF IInv, FrameInv, Ran
<1>4. drain' \in Frame /\ bp' \in Frame BY <1>1 DEF IInv, TypeOK, Frame
<1>5. Dispatch(bp.slot, answer) BY DEF DispatchBp
<1> QED BY <1>1, <1>2, <1>3, <1>4, <1>5, DispatchStep

\* A frame completes the slot it has run and lets go of it.
LEMMA CompleteStep ==
  ASSUME IInv, NEW i \in Slot, Complete(i),
         slot[i].cmd_state = "PENDING", slot[i].dequeued, Ran(i),
         drain' \in {drain, NoFrame}, bp' \in {bp, NoFrame},
         \A f \in {drain', bp'} : f.pc # "none" => f.slot # i,
         \A j \in Slot \ {i} : Ran(j)' <=> Ran(j)
  PROVE  IInv'
<1>1. slot[i] \in SlotRecord /\ slot[i].success \in BOOLEAN BY SlotTyped DEF SlotRecord
<1>2. slot' = [slot EXCEPT ![i] = Worked(@, slot[i].success, "PROCESSED")]
  BY <1>1 DEF Worked, Complete, SlotRecord, IInv, TypeOK
<1>3. /\ UNCHANGED <<head, tail, clientVars>>
      /\ alive' = alive /\ reply_state' = reply_state /\ execs' = execs /\ verdict' = verdict
  BY DEF Complete, history
<1>4. /\ slot' \in [Slot -> SlotRecord] /\ RingInv' /\ OwnerInv'
      /\ slot'[i].success = slot[i].success /\ slot'[i].cmd_state = "PROCESSED"
      /\ \A j \in Slot : slot'[j].owner = slot[j].owner
      /\ \A j \in Slot \ {i} : slot'[j] = slot[j]
  <2>1. "PROCESSED" \in Busy BY DEF Busy
  <2> QED BY <1>1, <1>2, <1>3, <2>1, WorkStep
<1>5. NoFrame \in Frame /\ NoFrame.pc = "none" BY SizeAssumption DEF NoFrame, Frame, Slot
<1>6. TypeOK' BY <1>3, <1>4, <1>5 DEF IInv, TypeOK, clientVars
<1>7. FrameInv'
  <2>1. \A f \in {drain', bp'} : f.pc # "none" =>
          slot'[f.slot].cmd_state = "PENDING" /\ slot'[f.slot].dequeued
    BY <1>4, <1>5 DEF IInv, TypeOK, Frame, FrameInv
  <2>2. drain'.pc # "none" /\ bp'.pc # "none" => drain'.slot # bp'.slot
    BY <1>5 DEF IInv, FrameInv
  <2> QED BY <2>1, <2>2 DEF FrameInv
<1>8. RunInv'
  <2> SUFFICES ASSUME NEW j \in Slot PROVE
        /\ slot'[j].cmd_state = "PENDING" =>
             execs[slot'[j].owner] = IF Ran(j)' THEN 1 ELSE 0
        /\ slot'[j].cmd_state = "PROCESSED" => execs[slot'[j].owner] = 1
        /\ slot'[j].cmd_state = "PROCESSED" \/ (slot'[j].cmd_state = "PENDING" /\ Ran(j)') =>
             verdict[slot'[j].owner] = slot'[j].success
    BY <1>3 DEF RunInv
  <2>1. CASE j = i
    <3>1. execs[slot[i].owner] = 1 /\ verdict[slot[i].owner] = slot[i].success
      BY DEF IInv, RunInv
    <3> QED BY <2>1, <3>1, <1>4
  <2>2. CASE j # i
    <3>1. slot'[j] = slot[j] /\ (Ran(j)' <=> Ran(j)) BY <2>2, <1>4
    <3> QED BY <3>1 DEF IInv, RunInv
  <2> QED BY <2>1, <2>2
<1>9. StatusHonest' BY <1>3 DEF IInv, StatusHonest, clientVars
<1> QED BY <1>4, <1>6, <1>7, <1>8, <1>9 DEF IInv

LEMMA CompleteDrainStep ==
  ASSUME IInv, CompleteDrain
  PROVE  IInv'
<1>1. drain.pc = "ran" /\ bp.pc = "none" /\ bp' = bp /\ drain.slot \in Slot /\ drain' = NoFrame
  BY DEF IInv, TypeOK, Frame, CompleteDrain
<1>2. slot[drain.slot].cmd_state = "PENDING" /\ slot[drain.slot].dequeued
  BY <1>1 DEF IInv, FrameInv
<1>3. Ran(drain.slot) /\ \A j \in Slot \ {drain.slot} : Ran(j)' <=> Ran(j)
  BY <1>1 DEF Ran, NoFrame
<1>4. \A f \in {drain', bp'} : f.pc # "none" => f.slot # drain.slot
  BY <1>1 DEF NoFrame
<1>5. Complete(drain.slot) BY DEF CompleteDrain
<1> QED BY <1>1, <1>2, <1>3, <1>4, <1>5, CompleteStep

LEMMA CompleteBpStep ==
  ASSUME IInv, CompleteBp
  PROVE  IInv'
<1>1. bp.pc = "ran" /\ drain' = drain /\ bp.slot \in Slot /\ bp' = NoFrame
  BY DEF IInv, TypeOK, Frame, CompleteBp
<1>2. /\ slot[bp.slot].cmd_state = "PENDING" /\ slot[bp.slot].dequeued
      /\ drain.pc # "none" => drain.slot # bp.slot
  BY <1>1 DEF IInv, FrameInv
<1>3. Ran(bp.slot) /\ \A j \in Slot \ {bp.slot} : Ran(j)' <=> Ran(j)
  BY <1>1 DEF Ran, NoFrame
<1>4. \A f \in {drain', bp'} : f.pc # "none" => f.slot # bp.slot
  BY <1>1, <1>2 DEF NoFrame
<1>5. Complete(bp.slot) BY DEF CompleteBp
<1> QED BY <1>1, <1>2, <1>3, <1>4, <1>5, CompleteStep

\* Everything else leaves the ring, its frames and the history alone.
LEMMA QuietStep ==
  ASSUME IInv, UNCHANGED <<head, tail, slot, drain, bp>>,
         reply_state' \in {"NONE", "ENDING"}, alive' \in BOOLEAN,
         pc' \in [Client -> Place], at' \in [Client -> Slot],
         ret' \in [Client -> Status \cup {"none"}],
         execs' \in [Client -> Nat], verdict' \in [Client -> BOOLEAN],
         \A c \in Client : (pc'[c] = "idle") <=> (pc[c] = "idle"),
         \A c \in Client : pc[c] # "idle" =>
           at'[c] = at[c] /\ execs'[c] = execs[c] /\ verdict'[c] = verdict[c],
         StatusHonest'
  PROVE  IInv'
<1>1. TypeOK' BY DEF IInv, TypeOK
<1>2. RingInv' BY DEF IInv, RingInv, InRing, Off
<1>3. \A i \in Slot : slot[i].cmd_state \in Busy =>
        slot[i].owner \in Client /\ pc[slot[i].owner] # "idle" /\ at[slot[i].owner] = i
  BY DEF IInv, OwnerInv, OwnerWaits
<1>4. \A i \in Slot : slot'[i].cmd_state \in Busy => OwnerWaits(i)'
  BY <1>3 DEF OwnerWaits
<1>5. SlotKept' BY DEF IInv, OwnerInv, SlotKept
<1>6. FrameInv' BY DEF IInv, FrameInv
<1>7. \A i \in Slot : Ran(i)' <=> Ran(i) BY DEF Ran
<1>8. RunInv' BY <1>3, <1>7 DEF IInv, RunInv, Busy
<1> QED BY <1>1, <1>2, <1>4, <1>5, <1>6, <1>8 DEF IInv, OwnerInv

LEMMA RefuseStep ==
  ASSUME IInv, NEW c \in Client, Refuse(c)
  PROVE  IInv'
<1>1. \E status \in {"ENDING", "QUEUE_FULL"} : Leave(c, status) BY DEF Refuse
<1>2. PICK status \in {"ENDING", "QUEUE_FULL"} : Leave(c, status) BY <1>1
<1>3. pc[c] = "idle" /\ UNCHANGED <<queueVars, emuVars>> /\ NotYetRun(c) BY DEF Refuse
<1>4. /\ pc' \in [Client -> Place] /\ at' \in [Client -> Slot]
      /\ ret' \in [Client -> Status \cup {"none"}]
  BY <1>2, SizeAssumption DEF IInv, TypeOK, Leave, Place, Status, Slot
<1>5. execs' \in [Client -> Nat] /\ verdict' \in [Client -> BOOLEAN]
  BY <1>3 DEF IInv, TypeOK, NotYetRun
<1>6. \A d \in Client : (pc'[d] = "idle") <=> (pc[d] = "idle")
  BY <1>2, <1>3 DEF IInv, TypeOK, Leave
<1>7. \A d \in Client : pc[d] # "idle" =>
        at'[d] = at[d] /\ execs'[d] = execs[d] /\ verdict'[d] = verdict[d]
  BY <1>2, <1>3 DEF IInv, TypeOK, Leave, NotYetRun
<1>8. StatusHonest' BY <1>2, <1>3 DEF IInv, TypeOK, StatusHonest, Leave, NotYetRun
<1>9. reply_state' \in {"NONE", "ENDING"} /\ alive' \in BOOLEAN
  BY <1>3 DEF IInv, TypeOK, queueVars, emuVars
<1> QED BY <1>3, <1>4, <1>5, <1>6, <1>7, <1>8, <1>9, QuietStep DEF queueVars, emuVars

\* A client that goes on waiting stays inside its submit.
LEMMA PlaceStep ==
  ASSUME IInv, NEW c \in Client, pc[c] # "idle", NEW p \in Place \ {"idle"},
         pc' = [pc EXCEPT ![c] = p], UNCHANGED <<queueVars, at, ret, emuVars, history>>
  PROVE  IInv'
<1>1. pc' \in [Client -> Place] BY DEF IInv, TypeOK
<1>2. \A d \in Client : (pc'[d] = "idle") <=> (pc[d] = "idle") BY DEF IInv, TypeOK
<1>3. StatusHonest' BY <1>2 DEF IInv, StatusHonest, history
<1> QED BY <1>1, <1>2, <1>3, QuietStep DEF IInv, TypeOK, queueVars, emuVars, history

LEMMA WaitStep ==
  ASSUME IInv, NEW c \in Client,
         Expire(c) \/ KeepWaiting(c) \/ ReportStall(c) \/ StallReported(c)
  PROVE  IInv'
<1>1. CASE Expire(c) BY <1>1, PlaceStep DEF Expire, Place
<1>2. CASE KeepWaiting(c)
  <2>1. PICK p \in {"held", "last"} : pc' = [pc EXCEPT ![c] = p] BY <1>2 DEF KeepWaiting
  <2> QED BY <1>2, <2>1, PlaceStep DEF KeepWaiting, Place
<1>3. CASE ReportStall(c) BY <1>3, PlaceStep DEF ReportStall, Place
<1>4. CASE StallReported(c) BY <1>4, PlaceStep DEF StallReported, Place
<1> QED BY <1>1, <1>2, <1>3, <1>4

\* Stuttering, the announcement of the end and the end itself.
LEMMA IdleStep ==
  ASSUME IInv, UNCHANGED vars \/ SetEnding \/ Quit
  PROVE  IInv'
<1>1. /\ UNCHANGED <<head, tail, slot, drain, bp, pc, at, ret, execs, verdict>>
      /\ reply_state' \in {"NONE", "ENDING"} /\ alive' \in BOOLEAN
  BY DEF vars, queueVars, clientVars, emuVars, history, SetEnding, Quit, IInv, TypeOK
<1>2. StatusHonest' BY <1>1 DEF IInv, StatusHonest
<1> QED BY <1>1, <1>2, QuietStep DEF IInv, TypeOK

THEOREM NextIInv == IInv /\ [Next]_vars => IInv'
<1> SUFFICES ASSUME IInv, [Next]_vars PROVE IInv' OBVIOUS
<1>1. ASSUME NEW c \in Client, Refuse(c) PROVE IInv' BY <1>1, RefuseStep
<1>2. ASSUME NEW c \in Client, NEW k \in Command, Enqueue(c, k) PROVE IInv'
  BY <1>2, EnqueueStep
<1>3. ASSUME NEW c \in Client, Expire(c) \/ KeepWaiting(c) \/ ReportStall(c) \/ StallReported(c)
      PROVE  IInv'
  BY <1>3, WaitStep
<1>4. ASSUME NEW c \in Client, Cancel(c) PROVE IInv' BY <1>4, CancelStep
<1>5. ASSUME NEW c \in Client, Collect(c) PROVE IInv' BY <1>5, CollectStep
<1>6. ASSUME NEW i \in Slot, Dequeue(i) PROVE IInv' BY <1>6, DequeueStep
<1>7. CASE DequeueNothing BY <1>7, DequeueNothingStep
<1>8. ASSUME NEW answer \in BOOLEAN, DispatchDrain(answer) PROVE IInv'
  BY <1>8, DispatchDrainStep
<1>9. CASE CompleteDrain BY <1>9, CompleteDrainStep
<1>10. ASSUME NEW answer \in BOOLEAN, DispatchBp(answer) PROVE IInv' BY <1>10, DispatchBpStep
<1>11. CASE CompleteBp BY <1>11, CompleteBpStep
<1>12. ASSUME NEW i \in Slot, DequeueMatching(i) PROVE IInv' BY <1>12, DequeueMatchingStep
<1>13. CASE UNCHANGED vars \/ SetEnding \/ Quit BY <1>13, IdleStep
<1> QED
  BY <1>1, <1>2, <1>3, <1>4, <1>5, <1>6, <1>7, <1>8, <1>9, <1>10, <1>11, <1>12, <1>13
  DEF Next, Submit, Await, Emu, Drain, BpDrain
-----------------------------------------------------------------------------
(* The properties. *)

LEMMA AlwaysIInv == Spec => []IInv
BY InitIInv, NextIInv, PTL DEF Spec

\* The state of the queue keeps its shape.
THEOREM TypeCorrect == Spec => []TypeOK
<1>1. IInv => TypeOK BY DEF IInv
<1> QED BY <1>1, AlwaysIInv, PTL

\* However the timeouts and the two drains interleave, the emulation thread
\* works on the data of a client that is still inside its submit.
THEOREM DataStaysAlive == Spec => []DataAlive
<1>1. IInv => DataAlive
  BY DEF IInv, TypeOK, Frame, FrameInv, OwnerInv, Busy, DataAlive
<1> QED BY <1>1, AlwaysIInv, PTL

\* A client inside a submit keeps the slot it was given.
THEOREM SlotStaysKept == Spec => []SlotKept
<1>1. IInv => SlotKept BY DEF IInv, OwnerInv
<1> QED BY <1>1, AlwaysIInv, PTL

\* The status of a submit tells whether, and with what answer, it was run.
THEOREM StatusIsHonest == Spec => []StatusHonest
<1>1. IInv => StatusHonest BY DEF IInv
<1> QED BY <1>1, AlwaysIInv, PTL

\* Neither dequeue loses a command or leaves a slot the head will not pass.
THEOREM RingIsSound == Spec => []RingSound
<1>1. IInv => RingSound BY DEF IInv, RingInv, RingSound
<1> QED BY <1>1, AlwaysIInv, PTL

\* No command runs for a client that has returned from its submit.
THEOREM NothingRunsLate == Spec => NoLateDispatch
<1> DEFINE P == \A c \in Client : pc[c] = "idle" => execs'[c] \in {0, execs[c]}
<1>1. ASSUME IInv, NEW i \in Slot, NEW answer \in BOOLEAN, Dispatch(i, answer),
             slot[i].cmd_state = "PENDING"
      PROVE  P
  <2>1. slot[i].owner \in Client /\ pc[slot[i].owner] # "idle"
    BY <1>1 DEF IInv, OwnerInv, OwnerWaits, Busy
  <2> QED BY <1>1, <2>1 DEF IInv, TypeOK, Dispatch
<1>2. ASSUME IInv, [Next]_vars PROVE P
  <2>1. ASSUME NEW c \in Client, Submit(c) PROVE P
    BY <1>2, <2>1 DEF Submit, Refuse, Enqueue, NotYetRun, IInv, TypeOK
  <2>2. ASSUME NEW answer \in BOOLEAN, DispatchDrain(answer) PROVE P
    BY <1>1, <1>2, <2>2 DEF DispatchDrain, IInv, TypeOK, Frame, FrameInv
  <2>3. ASSUME NEW answer \in BOOLEAN, DispatchBp(answer) PROVE P
    BY <1>1, <1>2, <2>3 DEF DispatchBp, IInv, TypeOK, Frame, FrameInv
  <2>4. CASE execs' = execs BY <2>4
  <2>5. ASSUME NEW c \in Client, Await(c) PROVE execs' = execs
    BY <2>5 DEF Await, Expire, Cancel, KeepWaiting, ReportStall, StallReported, Collect, history
  <2>6. ASSUME NEW i \in Slot, Dequeue(i) \/ DequeueMatching(i) PROVE execs' = execs
    BY <2>6 DEF Dequeue, DequeueMatching, history
  <2>7. DequeueNothing \/ SetEnding \/ Quit \/ CompleteDrain \/ CompleteBp \/ UNCHANGED vars
          => execs' = execs
    BY DEF DequeueNothing, SetEnding, Quit, CompleteDrain, CompleteBp, Complete, history, vars
  <2> QED BY <1>2, <2>1, <2>2, <2>3, <2>4, <2>5, <2>6, <2>7 DEF Next, Emu, Drain, BpDrain
<1>3. IInv /\ [Next]_vars => [P]_vars BY <1>2
<1> QED BY <1>3, AlwaysIInv, PTL DEF Spec, NoLateDispatch

-----------------------------------------------------------------------------
(* The ring implements the service.  First, how the view of the service    *)
(* changes with the fields it is made of.                                  *)

LEMMA PhaseFacts ==
  ASSUME IInv, NEW c \in Client
  PROVE  /\ Phase(c) = "idle" <=> pc[c] = "idle"
         /\ pc[c] # "idle" => at[c] \in Slot /\ slot[at[c]].owner = c
         /\ Phase(c) = "queued" <=>
              pc[c] # "idle" /\ slot[at[c]].cmd_state = "PENDING" /\ ~slot[at[c]].dequeued
         /\ Phase(c) = "served" <=>
              pc[c] # "idle" /\ slot[at[c]].cmd_state = "PENDING" /\ slot[at[c]].dequeued
         /\ Phase(c) = "answered" <=>
              pc[c] # "idle" /\ slot[at[c]].cmd_state = "PROCESSED"
         /\ Phase(c) = "queued" => InRing(at[c]) /\ ~slot[at[c]].done_early
BY DEF IInv, TypeOK, OwnerInv, SlotKept, RingInv, Phase

LEMMA FrameFacts ==
  ASSUME IInv, NEW f \in {drain, bp}
  PROVE  /\ f.pc = "none" <=> FrameOwner(f) = Nobody
         /\ f.pc # "none" =>
              /\ f.slot \in Slot /\ FrameOwner(f) \in Client
              /\ FrameOwner(f) = slot[f.slot].owner /\ at[FrameOwner(f)] = f.slot
              /\ Phase(FrameOwner(f)) = "served"
<1>1. f.pc # "none" => /\ f.slot \in Slot /\ slot[f.slot].cmd_state = "PENDING"
                       /\ slot[f.slot].dequeued
  BY DEF IInv, TypeOK, Frame, FrameInv
<1>2. f.pc # "none" => OwnerWaits(f.slot)
  BY <1>1 DEF IInv, OwnerInv, Busy
<1>3. f.pc # "none" => Phase(slot[f.slot].owner) = "served"
  BY <1>1, <1>2 DEF OwnerWaits, Phase
<1> QED
  BY <1>1, <1>2, <1>3, NobodyAssumption DEF OwnerWaits, FrameOwner

\* The view of a client.
Same(c) == Phase(c)' = Phase(c) /\ CommandOf(c)' = CommandOf(c) /\ AnswerOf(c)' = AnswerOf(c)

LEMMA ViewMoves ==
  ASSUME NEW c \in Client, \A d \in Client \ {c} : Same(d)
  PROVE  /\ Phases' = [Phases EXCEPT ![c] = Phase(c)']
         /\ Commands' = [Commands EXCEPT ![c] = CommandOf(c)']
         /\ Answers' = [Answers EXCEPT ![c] = AnswerOf(c)']
BY DEF Same, Phases, Commands, Answers

LEMMA ViewStays ==
  ASSUME \A d \in Client : Same(d)
  PROVE  Phases' = Phases /\ Commands' = Commands /\ Answers' = Answers
BY DEF Same, Phases, Commands, Answers

LEMMA OrderStays ==
  ASSUME \A d, e \in Client : Earlier(d, e)' <=> Earlier(d, e)
  PROVE  Order' = Order
BY DEF Order

LEMMA OrderLoses ==
  ASSUME NEW c \in Client, Phase(c)' # "queued",
         \A d, e \in Client \ {c} : Earlier(d, e)' <=> Earlier(d, e)
  PROVE  Order' = {p \in Order : p[1] # c /\ p[2] # c}
BY DEF Order, Earlier

LEMMA OrderGains ==
  ASSUME NEW c \in Client, Phase(c) # "queued",
         \A d, e \in Client \ {c} : Earlier(d, e)' <=> Earlier(d, e),
         \A d \in Client : ~Earlier(c, d)' /\ (Earlier(d, c)' <=> Phase(d) = "queued")
  PROVE  Order' = Order \cup ({d \in Client : Phases[d] = "queued"} \X {c})
<1> DEFINE W == {d \in Client : Phases[d] = "queued"}
<1>1. \A d \in Client : d \in W <=> Phase(d) = "queued"
  BY DEF Phases
<1>2. \A d, e \in Client : Earlier(d, e)' <=> Earlier(d, e) \/ (d \in W /\ e = c)
  BY <1>1 DEF Earlier
<1>3. \A p : p \in W \X {c} <=> p \in Client \X Client /\ p[1] \in W /\ p[2] = c
  BY <1>1 DEF W
<1>4. \A p : p \in Order' <=> p \in Client \X Client /\ Earlier(p[1], p[2])'
  BY DEF Order
<1>5. \A p : p \in Order <=> p \in Client \X Client /\ Earlier(p[1], p[2])
  BY DEF Order
<1> HIDE DEF W
<1>6. \A p : p \in Order' <=> p \in Order \cup (W \X {c})
  <2> TAKE p
  <2>1. CASE p \in Client \X Client
    <3>1. p[1] \in Client /\ p[2] \in Client BY <2>1
    <3> QED BY <2>1, <3>1, <1>2, <1>3, <1>4, <1>5
  <2>2. CASE p \notin Client \X Client BY <2>2, <1>3, <1>4, <1>5
  <2> QED BY <2>1, <2>2
<1>7. Order' = Order \cup (W \X {c}) BY <1>6
<1> QED BY <1>7 DEF W

\* What the view of client d is made of is left alone, and so is its slot.
Kept(d) ==
  /\ pc'[d] = "idle" <=> pc[d] = "idle"
  /\ pc[d] # "idle" =>
       /\ at'[d] = at[d]
       /\ slot'[at[d]].cmd = slot[at[d]].cmd
       /\ slot'[at[d]].cmd_state = slot[at[d]].cmd_state
       /\ slot'[at[d]].dequeued = slot[at[d]].dequeued
       /\ slot[at[d]].cmd_state = "PROCESSED" =>
            slot'[at[d]].success = slot[at[d]].success

LEMMA KeptSame ==
  ASSUME NEW d \in Client, Kept(d)
  PROVE  Same(d)
<1>1. Phase(d)' = Phase(d) /\ CommandOf(d)' = CommandOf(d)
  BY DEF Kept, Phase, CommandOf
<1>2. Phase(d) = "answered" => slot'[at'[d]].success = slot[at[d]].success
  BY DEF Kept, Phase
<1> QED BY <1>1, <1>2 DEF Same, AnswerOf

LEMMA KeptOrder ==
  ASSUME NEW d \in Client, NEW e \in Client, Kept(d), Kept(e), head' = head
  PROVE  Earlier(d, e)' <=> Earlier(d, e)
<1>1. Phase(d)' = Phase(d) /\ Phase(e)' = Phase(e) BY KeptSame DEF Same
<1>2. Phase(d) = "queued" => at'[d] = at[d] BY DEF Phase, Kept
<1>3. Phase(e) = "queued" => at'[e] = at[e] BY DEF Phase, Kept
<1> QED BY <1>1, <1>2, <1>3 DEF Earlier, Off

LEMMA Stutters ==
  ASSUME \A d \in Client : Kept(d), head' = head, ret' = ret,
         FrameOwner(drain)' = FrameOwner(drain), FrameOwner(bp)' = FrameOwner(bp)
  PROVE  UNCHANGED Service!vars
<1>1. Phases' = Phases /\ Commands' = Commands /\ Answers' = Answers
  BY KeptSame, ViewStays
<1>2. Order' = Order BY KeptOrder, OrderStays
<1> QED BY <1>1, <1>2 DEF Service!vars

\* A client that waits, or reports a stall, does nothing the service shows.
LEMMA WaitStutters ==
  ASSUME IInv, NEW c \in Client,
         Expire(c) \/ KeepWaiting(c) \/ ReportStall(c) \/ StallReported(c)
  PROVE  UNCHANGED Service!vars
<1>1. /\ head' = head /\ slot' = slot /\ at' = at /\ ret' = ret
      /\ drain' = drain /\ bp' = bp
  BY DEF Expire, KeepWaiting, ReportStall, StallReported, queueVars, emuVars
<1>2. \A d \in Client : pc'[d] = "idle" <=> pc[d] = "idle"
  BY DEF IInv, TypeOK, Expire, KeepWaiting, ReportStall, StallReported
<1>3. \A d \in Client : Kept(d) BY <1>1, <1>2 DEF Kept
<1>4. FrameOwner(drain)' = FrameOwner(drain) /\ FrameOwner(bp)' = FrameOwner(bp)
  BY <1>1 DEF FrameOwner
<1> QED BY <1>1, <1>3, <1>4, Stutters

LEMMA EndStutters ==
  ASSUME SetEnding \/ Quit
  PROVE  UNCHANGED Service!vars
<1>1. /\ head' = head /\ slot' = slot /\ at' = at /\ ret' = ret /\ pc' = pc
      /\ drain' = drain /\ bp' = bp
  BY DEF SetEnding, Quit, queueVars, clientVars, emuVars
<1>3. \A d \in Client : Kept(d) BY <1>1 DEF Kept
<1>4. FrameOwner(drain)' = FrameOwner(drain) /\ FrameOwner(bp)' = FrameOwner(bp)
  BY <1>1 DEF FrameOwner
<1> QED BY <1>1, <1>3, <1>4, Stutters

LEMMA DispatchStutters ==
  ASSUME IInv, NEW answer \in BOOLEAN, DispatchDrain(answer) \/ DispatchBp(answer)
  PROVE  UNCHANGED Service!vars
<1> DEFINE i == IF DispatchBp(answer) THEN bp.slot ELSE drain.slot
<1>1. i \in Slot /\ slot[i].cmd_state = "PENDING"
  BY DEF IInv, TypeOK, Frame, FrameInv, DispatchDrain, DispatchBp
<1>2. /\ slot' = [slot EXCEPT ![i].success = answer]
      /\ head' = head /\ at' = at /\ ret' = ret /\ pc' = pc
  BY DEF DispatchDrain, DispatchBp, Dispatch, clientVars
<1>3. /\ drain'.slot = drain.slot /\ (drain'.pc = "none" <=> drain.pc = "none")
      /\ bp'.slot = bp.slot /\ (bp'.pc = "none" <=> bp.pc = "none")
  BY DEF IInv, TypeOK, Frame, DispatchDrain, DispatchBp
<1> HIDE DEF i
<1>4. \A j \in Slot : /\ slot'[j].owner = slot[j].owner /\ slot'[j].cmd = slot[j].cmd
                      /\ slot'[j].cmd_state = slot[j].cmd_state
                      /\ slot'[j].dequeued = slot[j].dequeued
                      /\ j # i => slot'[j].success = slot[j].success
  BY <1>1, <1>2 DEF IInv, TypeOK, SlotRecord
<1>5. \A d \in Client : Kept(d)
  BY <1>1, <1>2, <1>4 DEF Kept, IInv, TypeOK
<1>6. FrameOwner(drain)' = FrameOwner(drain) /\ FrameOwner(bp)' = FrameOwner(bp)
  BY <1>3, <1>4 DEF FrameOwner, IInv, TypeOK, Frame
<1> QED BY <1>2, <1>5, <1>6, Stutters

-----------------------------------------------------------------------------
(* What a client does. *)

LEMMA RefuseRefines ==
  ASSUME IInv, NEW c \in Client, Refuse(c)
  PROVE  Service!Refuse(c)
<1>1. /\ head' = head /\ slot' = slot /\ drain' = drain /\ bp' = bp
      /\ pc[c] = "idle" /\ pc' = [pc EXCEPT ![c] = "idle"] /\ at' = [at EXCEPT ![c] = 0]
      /\ \/ ret' = [ret EXCEPT ![c] = "ENDING"]
         \/ ret' = [ret EXCEPT ![c] = "QUEUE_FULL"]
  BY DEF Refuse, Leave, queueVars, emuVars
<1>2. \A d \in Client : Kept(d)
  BY <1>1 DEF IInv, TypeOK, Kept
<1>3. Phases' = Phases /\ Commands' = Commands /\ Answers' = Answers
  BY <1>2, KeptSame, ViewStays
<1>4. Order' = Order BY <1>1, <1>2, KeptOrder, OrderStays
<1>5. FrameOwner(drain)' = FrameOwner(drain) /\ FrameOwner(bp)' = FrameOwner(bp)
  BY <1>1 DEF FrameOwner
<1>6. Phases[c] = "idle" BY <1>1 DEF Phases, Phase
<1>7. \E status \in {"QUEUE_FULL", "ENDING"} : ret' = [ret EXCEPT ![c] = status]
  BY <1>1
<1> QED BY <1>3, <1>4, <1>5, <1>6, <1>7 DEF Service!Refuse

LEMMA FramesStay ==
  ASSUME IInv, drain' = drain, bp' = bp, NEW i \in Slot,
         ~(slot[i].cmd_state = "PENDING" /\ slot[i].dequeued),
         \A j \in Slot \ {i} : slot'[j] = slot[j]
  PROVE  FrameOwner(drain)' = FrameOwner(drain) /\ FrameOwner(bp)' = FrameOwner(bp)
<1>1. \A f \in {drain, bp} : f.pc # "none" => f.slot \in Slot \ {i}
  BY DEF IInv, TypeOK, Frame, FrameInv
<1> QED BY <1>1 DEF FrameOwner

LEMMA EnqueueRefines ==
  ASSUME IInv, NEW c \in Client, NEW k \in Command, Enqueue(c, k)
  PROVE  Service!Submit(c, k)
<1> USE SizeAssumption
<1>1. /\ head' = head /\ drain' = drain /\ bp' = bp /\ tail \in Slot /\ head \in Slot
      /\ pc[c] = "idle" /\ pc' = [pc EXCEPT ![c] = "waiting"]
      /\ at' = [at EXCEPT ![c] = tail] /\ ret' = [ret EXCEPT ![c] = "none"]
      /\ slot[tail].cmd_state = "NONE"
  BY DEF IInv, TypeOK, Enqueue, SlotTaken, emuVars
<1>2. \A j \in Slot \ {tail} : slot'[j] = slot[j]
  BY DEF IInv, TypeOK, Enqueue
<1>3. /\ slot'[tail].cmd_state = "PENDING" /\ slot'[tail].cmd = k
      /\ ~slot'[tail].dequeued
  BY <1>1 DEF IInv, TypeOK, Enqueue
<1>4. \A d \in Client \ {c} : pc[d] # "idle" => at[d] \in Slot \ {tail}
  BY <1>1 DEF IInv, TypeOK, OwnerInv, SlotKept
<1>5. \A d \in Client \ {c} : Kept(d)
  BY <1>1, <1>2, <1>4 DEF IInv, TypeOK, Kept
<1>6. pc'[c] = "waiting" /\ at'[c] = tail BY <1>1 DEF IInv, TypeOK
<1>7. /\ Phase(c) = "idle" /\ Phase(c)' = "queued"
      /\ CommandOf(c)' = k /\ AnswerOf(c)' = AnswerOf(c)
  BY <1>1, <1>3, <1>6 DEF Phase, CommandOf, AnswerOf
<1>8. \A d \in Client \ {c} : Same(d) BY <1>5, KeptSame
<1>9. /\ Phases' = [Phases EXCEPT ![c] = "queued"] /\ Phases[c] = "idle"
      /\ Commands' = [Commands EXCEPT ![c] = k]
      /\ Answers' = Answers
  <2>1. Answers' = [Answers EXCEPT ![c] = AnswerOf(c)] BY <1>7, <1>8, ViewMoves
  <2>2. Answers' = Answers BY <2>1 DEF Answers
  <2> QED BY <1>7, <1>8, <2>2, ViewMoves DEF Phases
<1>10. \A d, e \in Client \ {c} : Earlier(d, e)' <=> Earlier(d, e)
  BY <1>1, <1>5, KeptOrder
<1>11. \A d \in Client \ {c} : Phase(d) = "queued" =>
         at[d] \in Slot /\ at'[d] = at[d] /\ Off(at[d]) < Off(tail)
  BY <1>1, PhaseFacts DEF InRing, IInv, TypeOK
<1>12. \A j \in Slot : Off(j)' = Off(j) /\ Off(j) \in Nat
  BY <1>1 DEF Off, Slot
<1>13. \A d \in Client : ~Earlier(c, d)' /\ (Earlier(d, c)' <=> Phase(d) = "queued")
  <2> TAKE d \in Client
  <2>1. CASE d = c
    BY <2>1, <1>1, <1>6, <1>7, <1>12 DEF Earlier
  <2>2. CASE d # c
    <3>1. Phase(d)' = Phase(d) BY <2>2, <1>8 DEF Same
    <3>2. Earlier(d, c)' <=> Phase(d) = "queued"
      BY <2>2, <3>1, <1>1, <1>6, <1>7, <1>11, <1>12 DEF Earlier
    <3>3. ~Earlier(c, d)'
      BY <2>2, <3>1, <1>1, <1>6, <1>7, <1>11, <1>12 DEF Earlier
    <3> QED BY <3>2, <3>3
  <2> QED BY <2>1, <2>2
<1>14. Order' = Order \cup ({d \in Client : Phases[d] = "queued"} \X {c})
  BY <1>7, <1>10, <1>13, OrderGains
<1>15. FrameOwner(drain)' = FrameOwner(drain) /\ FrameOwner(bp)' = FrameOwner(bp)
  BY <1>1, <1>2, FramesStay
<1> QED
  BY <1>1, <1>9, <1>14, <1>15 DEF Service!Submit, Service!Move, Service!Waiting

\* What a client that leaves its submit does to the view.
LEMMA LeaveRefines ==
  ASSUME IInv, NEW c \in Client, NEW status, Leave(c, status), pc[c] # "idle",
         head' = head, drain' = drain, bp' = bp,
         ~(slot[at[c]].cmd_state = "PENDING" /\ slot[at[c]].dequeued),
         \A j \in Slot \ {at[c]} : slot'[j] = slot[j]
  PROVE  /\ Phases' = [Phases EXCEPT ![c] = "idle"]
         /\ Service!Leave(c, status)
         /\ Order' = {p \in Order : p[1] # c /\ p[2] # c}
         /\ FrameOwner(drain)' = FrameOwner(drain) /\ FrameOwner(bp)' = FrameOwner(bp)
<1>1. /\ pc' = [pc EXCEPT ![c] = "idle"] /\ at' = [at EXCEPT ![c] = 0]
      /\ ret' = [ret EXCEPT ![c] = status]
  BY DEF Leave
<1>2. \A d \in Client \ {c} : pc[d] # "idle" => at[d] \in Slot \ {at[c]}
  BY DEF IInv, TypeOK, OwnerInv, SlotKept
<1>3. \A d \in Client \ {c} : Kept(d)
  BY <1>1, <1>2 DEF IInv, TypeOK, Kept
<1>4. pc'[c] = "idle" BY <1>1 DEF IInv, TypeOK
<1>5. Phase(c)' = "idle" /\ CommandOf(c)' = Nobody /\ AnswerOf(c)' = FALSE
  BY <1>4 DEF Phase, CommandOf, AnswerOf
<1>6. \A d \in Client \ {c} : Same(d) BY <1>3, KeptSame
<1>7. /\ Phases' = [Phases EXCEPT ![c] = "idle"]
      /\ Commands' = [Commands EXCEPT ![c] = Nobody]
      /\ Answers' = [Answers EXCEPT ![c] = FALSE]
  BY <1>5, <1>6, ViewMoves
<1>8. \A d, e \in Client \ {c} : Earlier(d, e)' <=> Earlier(d, e)
  BY <1>3, KeptOrder
<1>9. Order' = {p \in Order : p[1] # c /\ p[2] # c}
  BY <1>5, <1>8, OrderLoses
<1>10. at[c] \in Slot BY DEF IInv, TypeOK
<1>11. FrameOwner(drain)' = FrameOwner(drain) /\ FrameOwner(bp)' = FrameOwner(bp)
  BY <1>10, FramesStay
<1> QED BY <1>1, <1>7, <1>9, <1>11 DEF Service!Leave

LEMMA CancelRefines ==
  ASSUME IInv, NEW c \in Client, Cancel(c)
  PROVE  Service!Withdraw(c)
<1>1. /\ pc[c] # "idle" /\ head' = head /\ drain' = drain /\ bp' = bp
      /\ Leave(c, "TIMEOUT")
      /\ ~slot[at[c]].dequeued /\ slot[at[c]].cmd_state = "PENDING"
      /\ \A j \in Slot \ {at[c]} : slot'[j] = slot[j]
  BY DEF IInv, TypeOK, Cancel, Cancellable, emuVars
<1>2. Phases[c] = "queued" BY <1>1 DEF Phases, Phase
<1> QED BY <1>1, <1>2, LeaveRefines DEF Service!Withdraw, Service!Move, Service!Unqueue

LEMMA CollectRefines ==
  ASSUME IInv, NEW c \in Client, Collect(c)
  PROVE  Service!Return(c)
<1> DEFINE status == IF slot[at[c]].success THEN "OK" ELSE "FAILED"
<1>1. /\ pc[c] # "idle" /\ head' = head /\ drain' = drain /\ bp' = bp
      /\ Leave(c, status)
      /\ slot[at[c]].cmd_state = "PROCESSED"
      /\ \A j \in Slot \ {at[c]} : slot'[j] = slot[j]
  BY DEF IInv, TypeOK, Collect, emuVars
<1>2. Phases[c] = "answered" BY <1>1 DEF Phases, Phase
<1>3. status = IF Answers[c] THEN "OK" ELSE "FAILED"
  BY <1>1 DEF Answers, AnswerOf, Phase
<1> HIDE DEF status
<1>4. \A d, e \in Client : Earlier(d, e) => d # c /\ e # c
  BY <1>2 DEF Phases, Earlier
<1>5. {p \in Order : p[1] # c /\ p[2] # c} = Order
  BY <1>4 DEF Order
<1> QED BY <1>1, <1>2, <1>3, <1>5, LeaveRefines DEF Service!Return, Service!Move

-----------------------------------------------------------------------------
(* What the emulation thread does. *)

Queued(j) == slot[j].cmd_state = "PENDING" /\ ~slot[j].dequeued

\* Slot j holds what it held, as far as the view of its owner goes.
Untouched(j) ==
  slot[j].cmd_state \in Busy =>
    /\ slot'[j].cmd = slot[j].cmd
    /\ slot'[j].cmd_state = slot[j].cmd_state
    /\ slot'[j].dequeued = slot[j].dequeued
    /\ slot'[j].success = slot[j].success

LEMMA UntouchedKept ==
  ASSUME IInv, NEW d \in Client, UNCHANGED clientVars,
         pc[d] # "idle" => Untouched(at[d])
  PROVE  Kept(d)
BY DEF IInv, OwnerInv, SlotKept, Untouched, Kept, clientVars, Busy

\* A dequeue takes the command of one slot and keeps the order of the others.
LEMMA TakeRefines ==
  ASSUME IInv, NEW i \in Slot, NEW c, c = slot[i].owner, Queued(i), UNCHANGED clientVars,
         slot'[i].cmd_state = "PENDING", slot'[i].dequeued, slot'[i].cmd = slot[i].cmd,
         \A j \in Slot \ {i} : Untouched(j),
         \A j, k \in Slot \ {i} :
           Queued(j) /\ Queued(k) => (Off(j)' < Off(k)' <=> Off(j) < Off(k))
  PROVE  /\ c \in Client /\ at[c] = i /\ Phase(c) = "queued"
         /\ Service!Serve(c)
<1>1. c \in Client /\ pc[c] # "idle" /\ at[c] = i
  BY DEF IInv, OwnerInv, Busy, OwnerWaits, Queued
<1>2. /\ Phase(c) = "queued" /\ Phase(c)' = "served"
      /\ CommandOf(c)' = CommandOf(c) /\ AnswerOf(c)' = AnswerOf(c)
  BY <1>1 DEF Queued, clientVars, Phase, CommandOf, AnswerOf
<1>3. \A d \in Client \ {c} : pc[d] # "idle" => at[d] \in Slot \ {i}
  BY DEF IInv, TypeOK, OwnerInv, SlotKept
<1>4. \A d \in Client \ {c} : Kept(d) BY <1>3, UntouchedKept
<1>5. \A d \in Client \ {c} : Same(d) BY <1>4, KeptSame
<1>6. Phases' = [Phases EXCEPT ![c] = "served"] BY <1>1, <1>2, <1>5, ViewMoves
<1>7. /\ Commands' = [Commands EXCEPT ![c] = CommandOf(c)]
      /\ Answers' = [Answers EXCEPT ![c] = AnswerOf(c)]
  BY <1>1, <1>2, <1>5, ViewMoves
<1>8. Commands' = Commands /\ Answers' = Answers
  BY <1>1, <1>7 DEF Commands, Answers
<1>9. \A d, e \in Client \ {c} : Earlier(d, e)' <=> Earlier(d, e)
  <2> TAKE d, e \in Client \ {c}
  <2>1. Phase(d)' = Phase(d) /\ Phase(e)' = Phase(e) BY <1>5 DEF Same
  <2>2. Phase(d) = "queued" => at[d] \in Slot \ {i} /\ Queued(at[d])
    BY <1>3, PhaseFacts DEF Queued
  <2>3. Phase(e) = "queued" => at[e] \in Slot \ {i} /\ Queued(at[e])
    BY <1>3, PhaseFacts DEF Queued
  <2>5. at' = at BY DEF clientVars
  <2>6. Phase(d) = "queued" /\ Phase(e) = "queued" =>
          (Off(at[d])' < Off(at[e])' <=> Off(at[d]) < Off(at[e]))
    BY <2>2, <2>3, <2>5 DEF Off
  <2> QED BY <2>1, <2>6 DEF Earlier
<1>10. Order' = {p \in Order : p[1] # c /\ p[2] # c}
  BY <1>1, <1>2, <1>9, OrderLoses
<1>11. Phases[c] = "queued" BY <1>1, <1>2 DEF Phases
<1>12. ret' = ret BY DEF clientVars
<1> QED
  BY <1>1, <1>2, <1>6, <1>8, <1>10, <1>11, <1>12 DEF Service!Serve, Service!Move, Service!Unqueue

LEMMA DequeueRefines ==
  ASSUME IInv, NEW i \in Slot, Dequeue(i)
  PROVE  Service!ServeFirst
<1> USE SizeAssumption
<1>0. PICK c : c = slot[i].owner OBVIOUS
<1>1. /\ InRing(i) /\ Queued(i) /\ i \in Slot
  BY DEF IInv, RingInv, Dequeue, Live, Queued
<1>2. drain.pc = "none" /\ bp.pc = "none" /\ bp' = bp /\ drain' = [pc |-> "taken", slot |-> i]
  BY DEF Dequeue, AtDrainPoint
<1>3. /\ head \in Slot /\ tail \in Slot /\ tail' = tail
      /\ head' = IF i = N - 1 THEN 0 ELSE i + 1
  BY AfterLemma DEF IInv, TypeOK, Dequeue
<1>4. slot'[i] = [slot[i] EXCEPT !.dequeued = TRUE]
  BY DEF IInv, TypeOK, Dequeue
<1>5. /\ slot'[i].cmd_state = "PENDING" /\ slot'[i].dequeued
      /\ slot'[i].cmd = slot[i].cmd /\ slot'[i].owner = slot[i].owner
  BY <1>1, <1>4, SlotTyped DEF SlotRecord, Queued
<1>6. \A j \in Slot \ {i} : Untouched(j)
  <2> TAKE j \in Slot \ {i}
  <2>1. CASE Before(j, i)
    <3>1. slot'[j] = Skipped(slot[j]) BY <2>1 DEF Dequeue
    <3>2. slot[j].cmd_state \in Busy => slot[j].done_early
      BY <2>1 DEF Before, Live, Busy, Dequeue
    <3> QED BY <3>1, <3>2, SlotTyped, SkippedLemma DEF Untouched
  <2>2. CASE ~Before(j, i)
    BY <2>2 DEF Dequeue, Untouched
  <2> QED BY <2>1, <2>2
<1>7. \A j \in Slot : Queued(j) => InRing(j) /\ ~Before(j, i) /\ Live(j)
  BY DEF IInv, RingInv, Live, Queued, Dequeue
<1>8. ASSUME NEW j \in Slot \ {i}, Queued(j)
      PROVE  Off(j)' = Off(j) - Off(i) - 1
  <2>1. InRing(j) /\ Off(j) >= Off(i)
    BY <1>3, <1>7, <1>8 DEF Before, Off, Slot
  <2> QED BY <2>1, <1>1, <1>3 DEF Off, InRing, Slot
<1>9. \A j, k \in Slot \ {i} :
        Queued(j) /\ Queued(k) => (Off(j)' < Off(k)' <=> Off(j) < Off(k))
  <2>1. \A j \in Slot : Off(j) \in Int BY <1>3 DEF Off, Slot
  <2> QED BY <1>8, <2>1
<1>10. UNCHANGED clientVars BY DEF Dequeue
<1>11. /\ c \in Client /\ at[c] = i /\ Phase(c) = "queued" /\ Service!Serve(c)
  BY <1>0, <1>1, <1>5, <1>6, <1>9, <1>10, TakeRefines
<1>12. \A d \in Client : ~Earlier(d, c)
  <2> SUFFICES ASSUME NEW d \in Client, Earlier(d, c) PROVE FALSE
    OBVIOUS
  <2>1. at[d] \in Slot /\ Queued(at[d]) BY PhaseFacts DEF Earlier, Queued
  <2>2. InRing(at[d]) /\ ~Before(at[d], i) BY <2>1, <1>7
  <2> QED BY <2>2, <1>11 DEF Before, Earlier
<1>13. /\ FrameOwner(drain) = Nobody /\ FrameOwner(bp) = Nobody
       /\ FrameOwner(drain)' = c /\ FrameOwner(bp)' = FrameOwner(bp)
  BY <1>0, <1>2, <1>5 DEF FrameOwner
<1>14. \A d \in Service!Waiting : <<d, c>> \notin Order
  BY <1>12 DEF Order, Service!Waiting
<1>15. c \in Service!Waiting BY <1>11 DEF Service!Waiting, Phases
<1> QED BY <1>11, <1>13, <1>14, <1>15 DEF Service!ServeFirst

LEMMA DequeueMatchingRefines ==
  ASSUME IInv, NEW i \in Slot, DequeueMatching(i)
  PROVE  Service!ServeEarly
<1> USE SizeAssumption
<1>0. PICK c : c = slot[i].owner OBVIOUS
<1>1. InRing(i) /\ Queued(i) /\ slot[i].cmd \in Control
  BY DEF IInv, RingInv, DequeueMatching, Matches, Queued
<1>2. /\ bp.pc = "none" /\ drain' = drain /\ bp' = [pc |-> "taken", slot |-> i]
      /\ drain.pc # "none" => slot[drain.slot].cmd \in Bus
  BY DEF DequeueMatching, InBusAccess, InBusHandler
<1>3. /\ head \in Slot /\ tail \in Slot /\ tail' = tail
      /\ head' = IF i = head THEN (IF head = N - 1 THEN 0 ELSE head + 1) ELSE head
  BY AfterLemma DEF IInv, TypeOK, DequeueMatching
<1>4. slot'[i] = [slot[i] EXCEPT !.dequeued = TRUE, !.done_early = (i # head)]
  BY DEF IInv, TypeOK, DequeueMatching
<1>5. /\ slot'[i].cmd_state = "PENDING" /\ slot'[i].dequeued
      /\ slot'[i].cmd = slot[i].cmd /\ slot'[i].owner = slot[i].owner
  BY <1>1, <1>4, SlotTyped DEF SlotRecord, Queued
<1>6. \A j \in Slot \ {i} : slot'[j] = slot[j]
  BY DEF IInv, TypeOK, DequeueMatching
<1>7. \A j \in Slot \ {i} : Untouched(j) BY <1>6 DEF Untouched
<1>8. \A j \in Slot : Queued(j) => InRing(j) /\ ~slot[j].done_early
  BY DEF IInv, RingInv, Queued
<1>9. \A j \in Slot \ {i} :
        Queued(j) => Off(j)' = IF i = head THEN Off(j) - 1 ELSE Off(j)
  BY <1>3, <1>8 DEF Off, InRing, Slot
<1>10. \A j, k \in Slot \ {i} :
         Queued(j) /\ Queued(k) => (Off(j)' < Off(k)' <=> Off(j) < Off(k))
  <2>1. \A j \in Slot : Off(j) \in Int BY <1>3 DEF Off, Slot
  <2> QED BY <1>9, <2>1
<1>11. UNCHANGED clientVars BY DEF DequeueMatching
<1>12. /\ c \in Client /\ at[c] = i /\ Phase(c) = "queued" /\ Service!Serve(c)
  BY <1>0, <1>1, <1>5, <1>7, <1>10, <1>11, TakeRefines
<1>13. ASSUME NEW d \in Client, Earlier(d, c)
       PROVE  CommandOf(d) \notin Control
  <2>1. at[d] \in Slot /\ Queued(at[d]) /\ pc[d] # "idle"
    BY <1>13, PhaseFacts DEF Earlier, Queued
  <2>2. Before(at[d], i) BY <2>1, <1>8, <1>12, <1>13 DEF Before, Earlier
  <2>3. ~Matches(at[d]) BY <2>1, <2>2 DEF DequeueMatching
  <2> QED BY <2>1, <2>3, <1>8 DEF Matches, CommandOf, Queued
<1>14. FrameOwner(bp) = Nobody /\ FrameOwner(bp)' = c
  BY <1>0, <1>2, <1>5 DEF FrameOwner
<1>15. FrameOwner(drain)' = FrameOwner(drain)
  <2>1. drain.pc # "none" => drain.slot \in Slot \ {i}
    BY <1>1 DEF IInv, TypeOK, Frame, FrameInv, Queued
  <2> QED BY <2>1, <1>2, <1>6 DEF FrameOwner
<1>16. FrameOwner(drain) # Nobody => Commands[FrameOwner(drain)] \in Bus
  <2>1. FrameOwner(drain) # Nobody =>
          /\ drain.pc # "none" /\ FrameOwner(drain) \in Client
          /\ at[FrameOwner(drain)] = drain.slot /\ Phase(FrameOwner(drain)) = "served"
    BY FrameFacts
  <2> QED BY <2>1, <1>2 DEF Commands, CommandOf, Phase
<1>17. Commands[c] \in Control /\ c \in Service!Waiting
  BY <1>1, <1>12 DEF Commands, CommandOf, Phase, Phases, Service!Waiting
<1>18. \A d \in Service!Waiting : <<d, c>> \in Order => Commands[d] \notin Control
  BY <1>13 DEF Order, Commands, Service!Waiting
<1> QED BY <1>12, <1>14, <1>15, <1>16, <1>17, <1>18 DEF Service!ServeEarly

LEMMA DequeueNothingStutters ==
  ASSUME IInv, DequeueNothing
  PROVE  UNCHANGED Service!vars
<1>1. /\ pc' = pc /\ at' = at /\ ret' = ret /\ drain' = drain /\ bp' = bp
      /\ UNCHANGED clientVars /\ drain.pc = "none" /\ bp.pc = "none"
  BY DEF DequeueNothing, AtDrainPoint, clientVars, emuVars
<1>2. \A j \in Slot : Untouched(j)
  <2> TAKE j \in Slot
  <2>1. CASE InRing(j)
    <3>1. slot'[j] = Skipped(slot[j]) BY <2>1 DEF DequeueNothing
    <3>2. slot[j].cmd_state \in Busy => slot[j].done_early
      BY <2>1 DEF Live, Busy, DequeueNothing
    <3> QED BY <3>1, <3>2, SlotTyped, SkippedLemma DEF Untouched
  <2>2. CASE ~InRing(j) BY <2>2 DEF DequeueNothing, Untouched
  <2> QED BY <2>1, <2>2
<1>3. \A d \in Client : Kept(d) BY <1>1, <1>2, UntouchedKept DEF IInv, TypeOK
<1>4. \A d \in Client : Same(d) BY <1>3, KeptSame
<1>5. \A d \in Client : Phase(d) # "queued"
  <2> SUFFICES ASSUME NEW d \in Client, Phase(d) = "queued" PROVE FALSE
    OBVIOUS
  <2>1. at[d] \in Slot /\ Live(at[d])
    BY PhaseFacts DEF Live
  <2> QED BY <2>1 DEF DequeueNothing
<1>6. \A d, e \in Client : Earlier(d, e)' <=> Earlier(d, e)
  BY <1>4, <1>5 DEF Earlier, Same
<1>7. Order' = Order BY <1>6, OrderStays
<1>8. FrameOwner(drain)' = FrameOwner(drain) /\ FrameOwner(bp)' = FrameOwner(bp)
  BY <1>1 DEF FrameOwner
<1> QED BY <1>1, <1>4, <1>7, <1>8, ViewStays DEF Service!vars

\* The result of slot i is published: its owner is answered.
LEMMA CompleteRefines ==
  ASSUME IInv, NEW i \in Slot, NEW c, c = slot[i].owner, Complete(i),
         slot[i].cmd_state = "PENDING", slot[i].dequeued
  PROVE  Service!Answer(c) /\ \A j \in Slot : slot'[j].owner = slot[j].owner
<1>1. c \in Client /\ pc[c] # "idle" /\ at[c] = i
  BY DEF IInv, OwnerInv, Busy, OwnerWaits
<1>2. /\ slot' = [slot EXCEPT ![i].cmd_state = "PROCESSED"]
      /\ head' = head /\ pc' = pc /\ at' = at /\ ret' = ret
  BY DEF Complete, clientVars
<1>3. slot'[i] = [slot[i] EXCEPT !.cmd_state = "PROCESSED"]
  BY <1>2 DEF IInv, TypeOK
<1>4. /\ slot'[i].cmd_state = "PROCESSED" /\ slot'[i].cmd = slot[i].cmd
      /\ slot'[i].success = slot[i].success /\ slot[i].success \in BOOLEAN
      /\ slot'[i].owner = slot[i].owner
  BY <1>3, SlotTyped DEF SlotRecord
<1>5. \A j \in Slot \ {i} : slot'[j] = slot[j]
  BY <1>2 DEF IInv, TypeOK
<1>6. \A d \in Client \ {c} : pc[d] # "idle" => at[d] \in Slot \ {i}
  BY DEF IInv, TypeOK, OwnerInv, SlotKept
<1>7. \A d \in Client \ {c} : Kept(d)
  BY <1>2, <1>5, <1>6 DEF Kept
<1>8. \A d \in Client \ {c} : Same(d) BY <1>7, KeptSame
<1>9. /\ Phase(c) = "served" /\ Phase(c)' = "answered" /\ CommandOf(c)' = CommandOf(c)
      /\ AnswerOf(c)' = slot[i].success
  BY <1>1, <1>2, <1>4 DEF Phase, CommandOf, AnswerOf
<1>10. /\ Phases' = [Phases EXCEPT ![c] = "answered"]
       /\ Commands' = [Commands EXCEPT ![c] = CommandOf(c)]
       /\ Answers' = [Answers EXCEPT ![c] = slot[i].success]
  <2>1. /\ Phases' = [Phases EXCEPT ![c] = Phase(c)']
        /\ Commands' = [Commands EXCEPT ![c] = CommandOf(c)']
        /\ Answers' = [Answers EXCEPT ![c] = AnswerOf(c)']
    BY <1>1, <1>8, ViewMoves
  <2> QED BY <2>1, <1>9
<1>11. Commands' = Commands BY <1>1, <1>10 DEF Commands
<1>12. Phases[c] = "served" BY <1>1, <1>9 DEF Phases
<1>13. \A d, e \in Client : Earlier(d, e)' <=> Earlier(d, e)
  <2> TAKE d, e \in Client
  <2>1. CASE d # c /\ e # c BY <2>1, <1>2, <1>7, KeptOrder
  <2>2. CASE d = c \/ e = c BY <2>2, <1>9 DEF Earlier
  <2> QED BY <2>1, <2>2
<1>14. Order' = Order BY <1>13, OrderStays
<1>15. \E b \in BOOLEAN : Answers' = [Answers EXCEPT ![c] = b] BY <1>4, <1>10
<1>16. \A j \in Slot : slot'[j].owner = slot[j].owner BY <1>4, <1>5
<1> QED
  BY <1>2, <1>10, <1>11, <1>12, <1>14, <1>15, <1>16 DEF Service!Answer, Service!Move

LEMMA CompleteDrainRefines ==
  ASSUME IInv, CompleteDrain
  PROVE  Service!AnswerServed
<1>1. /\ drain.pc # "none" /\ bp.pc = "none" /\ Complete(drain.slot)
      /\ drain' = NoFrame /\ bp' = bp
  BY DEF CompleteDrain
<1>2. /\ drain.slot \in Slot
      /\ slot[drain.slot].cmd_state = "PENDING" /\ slot[drain.slot].dequeued
  BY <1>1 DEF IInv, TypeOK, Frame, FrameInv
<1>3. PICK c : c = FrameOwner(drain) OBVIOUS
<1>4. c = slot[drain.slot].owner /\ c # Nobody
  BY <1>1, <1>3, FrameFacts
<1>5. Service!Answer(c) BY <1>1, <1>2, <1>4, CompleteRefines
<1>6. FrameOwner(bp) = Nobody /\ FrameOwner(bp)' = Nobody /\ FrameOwner(drain)' = Nobody
  BY <1>1 DEF FrameOwner, NoFrame
<1> QED BY <1>3, <1>4, <1>5, <1>6 DEF Service!AnswerServed

LEMMA CompleteBpRefines ==
  ASSUME IInv, CompleteBp
  PROVE  Service!AnswerEarly
<1>1. bp.pc # "none" /\ Complete(bp.slot) /\ bp' = NoFrame /\ drain' = drain
  BY DEF CompleteBp
<1>2. /\ bp.slot \in Slot
      /\ slot[bp.slot].cmd_state = "PENDING" /\ slot[bp.slot].dequeued
  BY <1>1 DEF IInv, TypeOK, Frame, FrameInv
<1>3. PICK c : c = FrameOwner(bp) OBVIOUS
<1>4. c = slot[bp.slot].owner /\ c # Nobody
  BY <1>1, <1>3, FrameFacts
<1>5. /\ Service!Answer(c)
      /\ \A j \in Slot : slot'[j].owner = slot[j].owner
  BY <1>1, <1>2, <1>4, CompleteRefines
<1>6. FrameOwner(bp)' = Nobody BY <1>1 DEF FrameOwner, NoFrame
<1>7. FrameOwner(drain)' = FrameOwner(drain)
  BY <1>1, <1>5 DEF FrameOwner, IInv, TypeOK, Frame
<1> QED BY <1>3, <1>4, <1>5, <1>6, <1>7 DEF Service!AnswerEarly

-----------------------------------------------------------------------------
LEMMA InitRefines == Init => Service!Init
<1> SUFFICES ASSUME Init PROVE Service!Init OBVIOUS
<1>1. \A c \in Client : Phase(c) = "idle" /\ CommandOf(c) = Nobody /\ AnswerOf(c) = FALSE
  BY DEF Init, Phase, CommandOf, AnswerOf
<1>2. Order = {} BY <1>1 DEF Order, Earlier
<1>3. FrameOwner(drain) = Nobody /\ FrameOwner(bp) = Nobody
  BY DEF Init, NoFrame, FrameOwner
<1>4. ret = [c \in Client |-> "none"] BY DEF Init
<1> QED BY <1>1, <1>2, <1>3, <1>4 DEF Service!Init, Phases, Commands, Answers

\* Every step of the queue is a step of the service, or none it shows.
THEOREM NextRefines == IInv /\ [Next]_vars => [Service!Next]_Service!vars
<1> SUFFICES ASSUME IInv, [Next]_vars PROVE [Service!Next]_Service!vars
  OBVIOUS
<1>1. ASSUME NEW c \in Client, Submit(c) PROVE Service!Next
  <2>1. CASE Refuse(c) BY <2>1, RefuseRefines DEF Service!Next
  <2>2. ASSUME NEW k \in Command, Enqueue(c, k) PROVE Service!Next
    BY <2>2, EnqueueRefines DEF Service!Next
  <2> QED BY <1>1, <2>1, <2>2 DEF Submit
<1>2. ASSUME NEW c \in Client, Await(c) PROVE [Service!Next]_Service!vars
  <2>1. CASE Cancel(c) BY <2>1, CancelRefines DEF Service!Next
  <2>2. CASE Collect(c) BY <2>2, CollectRefines DEF Service!Next
  <2>3. CASE Expire(c) \/ KeepWaiting(c) \/ ReportStall(c) \/ StallReported(c)
    BY <2>3, WaitStutters
  <2> QED BY <1>2, <2>1, <2>2, <2>3 DEF Await
<1>3. CASE Drain
  <2>1. ASSUME NEW i \in Slot, Dequeue(i) PROVE Service!Next
    BY <2>1, DequeueRefines DEF Service!Next
  <2>2. CASE DequeueNothing BY <2>2, DequeueNothingStutters
  <2>3. ASSUME NEW answer \in BOOLEAN, DispatchDrain(answer) PROVE UNCHANGED Service!vars
    BY <2>3, DispatchStutters
  <2>4. CASE CompleteDrain BY <2>4, CompleteDrainRefines DEF Service!Next
  <2> QED BY <1>3, <2>1, <2>2, <2>3, <2>4 DEF Drain
<1>4. CASE BpDrain
  <2>1. ASSUME NEW answer \in BOOLEAN, DispatchBp(answer) PROVE UNCHANGED Service!vars
    BY <2>1, DispatchStutters
  <2>2. CASE CompleteBp BY <2>2, CompleteBpRefines DEF Service!Next
  <2> QED BY <1>4, <2>1, <2>2 DEF BpDrain
<1>5. ASSUME NEW i \in Slot, DequeueMatching(i) PROVE Service!Next
  BY <1>5, DequeueMatchingRefines DEF Service!Next
<1>6. CASE SetEnding \/ Quit BY <1>6, EndStutters
<1>7. CASE UNCHANGED vars
  <2>1. /\ head' = head /\ slot' = slot /\ at' = at /\ ret' = ret /\ pc' = pc
        /\ drain' = drain /\ bp' = bp
    BY <1>7 DEF vars, queueVars, clientVars, emuVars
  <2>2. \A d \in Client : Kept(d) BY <2>1 DEF Kept
  <2>3. FrameOwner(drain)' = FrameOwner(drain) /\ FrameOwner(bp)' = FrameOwner(bp)
    BY <2>1 DEF FrameOwner
  <2> QED BY <2>1, <2>2, <2>3, Stutters
<1> QED BY <1>1, <1>2, <1>3, <1>4, <1>5, <1>6, <1>7 DEF Next, Emu

\* The command queue implements the command service, for every set of clients,
\* every set of commands and every size of the ring: a command is withdrawn
\* before it is served, or served once, in the order of submission except for
\* control commands (dbgapi_cmdrq.h, dbgapi_emu_dequeue_matching).
THEOREM RefinesService == Spec => ImplementsService
<1>1. IInv /\ [Next]_vars => [Service!Next]_Service!vars BY NextRefines
<1>2. Spec => []IInv BY AlwaysIInv
<1> QED BY <1>1, <1>2, InitRefines, PTL DEF Spec, ImplementsService, Service!Spec
=============================================================================
