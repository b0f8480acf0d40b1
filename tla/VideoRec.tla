------------------------------ MODULE VideoRec ------------------------------
(***************************************************************************)
(* The threads of a video recording (src/src/emulator/videorec/videorec.c):*)
(* the emulation thread, which feeds every emulated frame and answers the  *)
(* requests at the end of it, the sampler thread of real time (vr_rt_tick),*)
(* the GUI and MCP threads that leave requests, and the writer thread that *)
(* owns the file and takes its messages from a queue.  All but the writer  *)
(* share the glue g under one mutex, so each of their sections is one      *)
(* action; only a retake holds the mutex and waits for the writer, with    *)
(* the frame of that moment in "held".                                     *)
(*                                                                         *)
(* The machine is the number of the last frame it emulated: a snapshot     *)
(* keeps that number, a load puts the machine back to it, and a frame is   *)
(* recorded with the number of the frame it follows.  The emulation may be *)
(* paused and run on at any moment, so it is no variable: the thread ends  *)
(* a frame or goes round the paused loop, and a tick finds either.         *)
(*                                                                         *)
(* Left out: sound, markers, sidecar events, the retake mode that always   *)
(* cuts, quitting after the last frame, a load that fails half way.        *)
(***************************************************************************)
EXTENDS Recording

CONSTANTS
  MaxFrames,    \* bound: frames emulated while recording
  MaxRecorded,  \* bound: frames the sampler writes up to
  MaxSessions,  \* bound: recordings
  MaxTurns,     \* bound: loads, changes of speed or time base, write errors
  MaxParts,     \* bound: files of one recording
  QueueHigh,    \* VR_QUEUE_HIGH
  MaxDue,       \* most frames one tick of the sampler catches up
  LateLoad      \* in real time a frame may end before the sampler sees a load

ASSUME VideoRecAssumption ==
  /\ {MaxRecorded, MaxTurns, QueueHigh} \subseteq Nat
  /\ {MaxFrames, MaxSessions, MaxParts, MaxDue} \subseteq Nat \ {0}
  /\ LateLoad \in BOOLEAN

VARIABLES
  g,            \* the glue, see Recording
  held,         \* the frame whose end waits in vr_writer_sync(), Blank if none
  initialized,
  reqStart,     \* a start waits for the end of the frame
  want,         \* vr_rt_want(): real time is asked for, at the speed it allows
  turns,        \* see MaxTurns
  clock,        \* frames emulated while recording
  cur,          \* the frame the machine is in
  snap,         \* the snapshot: a state of the machine and its videorec entry
  w,            \* the writer: its session, its files, whether it failed
  failedGen     \* g_vr_failed_gen

request == <<reqStart, want, turns>>
machine == <<clock, cur, snap>>
writer  == <<w, failedGen>>
vars    == <<g, held, initialized, request, machine, writer>>

Closed  == [session |-> 0, parts |-> <<>>, failed |-> "no"]

Init ==
  /\ g = NoSession /\ held = Blank /\ initialized = TRUE
  /\ reqStart = FALSE /\ want \in BOOLEAN /\ turns = 0
  /\ clock = 0 /\ cur = 0 /\ snap = [cur |-> 0, info |-> NoInfo]
  /\ w = Closed /\ failedGen = 0

Idle == g.state = "idle"

Turn == turns < MaxTurns /\ turns' = turns + 1

\* g_vr.mutex is free.
Unlocked == held = Blank

\* vr_backpressure() has let the emulation thread go on; bound: after the last
\* recording what it does no longer matters.
Emulating ==
  /\ initialized /\ Unlocked /\ (Idle => g.session < MaxSessions)
  /\ ~Idle /\ ~g.rtOn => Len(g.queue) <= QueueHigh

-----------------------------------------------------------------------------
(* The emulation thread. *)

\* The machine finishes a frame; outside a recording frames have no number.
NewId == IF Idle THEN cur ELSE IF clock < MaxFrames THEN clock + 1 ELSE clock
NextFrame ==
  clock' = (IF Idle THEN clock ELSE NewId) /\ cur' = NewId /\ UNCHANGED snap
ThisFrame == [id |-> NewId, prev |-> cur]

\* The hook of a frame that nothing waits for reads one word and returns.
FrameIgnored ==
  /\ ~g.req /\ (Idle \/ g.rtOn)
  /\ UNCHANGED <<g, held, request, writer>>

\* vr_do_start(), and what else was asked of an idle recorder is forgotten.
FrameIdle ==
  /\ g.req /\ Idle
  /\ LET h == [g EXCEPT !.req = FALSE, !.reqStop = FALSE, !.reqToggle = FALSE, !.reqSnap = FALSE]
     IN g' = IF reqStart THEN Start(h, want) ELSE h
  /\ reqStart' = FALSE
  /\ UNCHANGED <<held, want, turns, writer>>

\* In real time the sampler answers the requests.
FrameSampled ==
  /\ g.req /\ g.rtOn /\ ~g.leaving
  /\ LateLoad \/ ~g.reqSnap
  /\ g' = [g EXCEPT !.req = FALSE]
  /\ UNCHANGED <<held, request, writer>>

\* A frame of emulated time, the first one after real time included.
FrameEmulated ==
  LET r == [g EXCEPT !.req = FALSE]
      h == IF g.rtOn THEN Leave(r) ELSE r
  IN /\ ~Idle /\ (g.rtOn => g.req /\ g.leaving)
     /\ CASE failedGen = g.session -> g' = Finalize(h) /\ held' = Blank
          [] failedGen # g.session /\ h.reqSnap /\ Retakes(h) ->
               /\ LET f == FlushUntil(h, h.snapInfo.frame)
                  IN g' = Push(f, [type |-> "sync", n |-> f.next])
               /\ held' = ThisFrame
          [] OTHER ->
               /\ g' = FinishFrame(IF h.reqSnap THEN Seam(h) ELSE h, ThisFrame)
               /\ held' = Blank
     /\ UNCHANGED <<request, writer>>

FrameEnd ==
  /\ Emulating
  /\ clock < MaxFrames \/ g.reqStop
  /\ FrameIgnored \/ FrameIdle \/ FrameSampled \/ FrameEmulated
  /\ NextFrame /\ UNCHANGED initialized

\* The writer has passed the barrier: a point in an older file cannot be cut.
RetakeBlind(h) == Retake(h)                        \* mutant of RetakeOrSeam
RetakeOrSeam(h) ==
  IF h.snapInfo.frame < Last(w.parts).first THEN Seam(h) ELSE Retake(h)

AfterSync ==
  /\ ~Unlocked /\ ~\E i \in DOMAIN g.queue : g.queue[i].type = "sync"
  /\ g' = FinishFrame(RetakeOrSeam(g), held)
  /\ held' = Blank
  /\ UNCHANGED <<initialized, request, machine, writer>>

\* videorec_on_emulation_paused(), once a turn of the paused loop.
PausedTurn ==
  /\ Emulating
  /\ g' = IF ~Idle /\ g.reqStop THEN Finalize(g) ELSE g
  /\ UNCHANGED <<held, initialized, request, machine, writer>>

\* videorec_audio_horizon(): the sound of the first k waiting frames is there.
Horizon(k) ==
  /\ Emulating /\ ~Idle /\ ~g.rtOn /\ ~g.reqSnap
  /\ g' = EmitFirst(g, k)
  /\ UNCHANGED <<held, initialized, request, machine, writer>>

\* videorec_get_snapinfo(): the point a snapshot of this moment returns to.
SnapInfo ==
  IF Idle THEN NoInfo
  ELSE [session |-> g.session, frame |-> Count(g),
        take |-> IF g.reqSnap THEN 0 ELSE Last(g.takes).id]

Save ==
  /\ Emulating /\ snap' = [cur |-> cur, info |-> SnapInfo]
  /\ UNCHANGED <<g, held, initialized, request, clock, cur, writer>>

\* snap_videorec_after_load()
Load ==
  /\ Emulating /\ ~Idle /\ Turn /\ cur' = snap.cur
  /\ g' = [g EXCEPT !.reqSnap = TRUE, !.snapInfo = snap.info, !.req = TRUE]
  /\ UNCHANGED <<held, initialized, reqStart, want, clock, snap, writer>>

\* videorec_exit(): the threads are ended, the writer after its last message.
Exit ==
  /\ Emulating /\ initialized' = FALSE
  /\ g' = Push(IF Idle THEN g ELSE Finalize(g), [type |-> "quit", n |-> 0])
  /\ reqStart' = FALSE
  /\ UNCHANGED <<held, want, turns, machine, writer>>

-----------------------------------------------------------------------------
(* The sampler: vr_rt_tick() with "due" frames to catch up, of which it     *)
(* writes the first n: a pause or a debugger run may be skipped or capped. *)

\* The time base of this tick.
RebasedQuietly(h) ==                               \* mutant of Rebased
  IF want /\ ~h.rtOn THEN Enter(h)
  ELSE IF ~want /\ h.rtOn THEN [h EXCEPT !.leaving = TRUE]
  ELSE [h EXCEPT !.leaving = FALSE]
Rebased(h) ==
  IF want /\ ~h.rtOn THEN Enter(h)
  ELSE IF ~want /\ h.rtOn /\ ~h.leaving THEN [h EXCEPT !.leaving = TRUE, !.req = TRUE]
  ELSE IF want /\ h.leaving THEN [h EXCEPT !.leaving = FALSE]
  ELSE h

Tick(due, n, paused) ==
  /\ initialized /\ Unlocked /\ ~Idle
  /\ LET h == Rebased(g)
         r == RtRequests(h)
     IN /\ r.rtOn /\ ~r.leaving => r.next + due <= MaxRecorded
        /\ g' = IF failedGen = g.session THEN Finalize(g)
                ELSE IF ~h.rtOn \/ h.leaving THEN h
                ELSE Ticks(r, due, n, paused)
  /\ UNCHANGED <<held, initialized, request, machine, writer>>

-----------------------------------------------------------------------------
(* The GUI and the MCP. *)

Asks == initialized /\ Unlocked /\ UNCHANGED <<held, initialized, machine, writer>>

\* videorec_request_start(): of two starts that open their files at once the
\* second to come back finds the first and removes its own file.
RequestStart ==
  /\ Asks /\ Idle /\ ~reqStart /\ g.session < MaxSessions
  /\ reqStart' = TRUE /\ want' \in BOOLEAN
  /\ g' = [g EXCEPT !.req = TRUE, !.reqStop = FALSE]
  /\ UNCHANGED turns

RequestStop ==
  /\ Asks
  /\ g' = IF reqStart \/ Idle THEN g ELSE [g EXCEPT !.reqStop = TRUE, !.req = TRUE]
  /\ reqStart' = FALSE
  /\ UNCHANGED <<want, turns>>

PauseToggle ==
  /\ Asks /\ ~Idle
  /\ g' = [g EXCEPT !.reqToggle = ~@, !.req = TRUE]
  /\ UNCHANGED request

PauseSet(on) ==
  /\ Asks /\ ~Idle
  /\ LET toggle == on # (g.state = "paused")
     IN g' = [g EXCEPT !.reqToggle = toggle, !.req = @ \/ toggle]
  /\ UNCHANGED request

\* videorec_request_timebase(): real time ends here, not at the next tick.
RequestTimebase ==
  /\ Asks /\ ~Idle /\ Turn
  /\ want' \in BOOLEAN /\ UNCHANGED reqStart
  /\ g' = IF g.rtOn /\ ~g.leaving /\ ~want'
          THEN [g EXCEPT !.leaving = TRUE, !.req = TRUE] ELSE g

SpeedChange == Asks /\ ~Idle /\ Turn /\ want' = ~want /\ UNCHANGED <<g, reqStart>>

Request ==
  \/ RequestStart \/ RequestStop \/ PauseToggle \/ RequestTimebase \/ SpeedChange
  \/ \E on \in BOOLEAN : PauseSet(on)
-----------------------------------------------------------------------------
(* The writer, one message at a time. *)

Message == Head(g.queue)
Taken(type) ==
  /\ g.queue # <<>> /\ Message.type = type
  /\ g' = [g EXCEPT !.queue = Tail(@)]
  /\ UNCHANGED <<held, initialized, reqStart, want, machine>>

Part == Last(w.parts)
WithPart(part) == [w EXCEPT !.parts = Append(Front(@), part)]

\* vr_writer_fail()
Fails(v, why) ==
  /\ w' = [v EXCEPT !.failed = IF @ = "no" THEN why ELSE @]
  /\ failedGen' = w.session
Errs(v) == Turn /\ Fails(v, "io")
Becomes(v) == w' = v /\ UNCHANGED <<failedGen, turns>>

\* vr_writer_drop_empty_part()
DropEmptyPart(v) ==
  IF Len(v.parts) > 1 /\ Last(v.parts).count = 0 THEN [v EXCEPT !.parts = Front(@)] ELSE v

WriteOpen ==
  /\ Taken("open")
  /\ \/ Becomes([session |-> Message.n, parts |-> <<[first |-> 0, count |-> 0]>>, failed |-> "no"])
     \/ /\ w' = [session |-> Message.n, parts |-> <<[first |-> 0, count |-> 0]>>, failed |-> "io"]
        /\ failedGen' = Message.n /\ Turn

\* vr_writer_frame(): into this file, into the next one, or nowhere.
WriteFrame ==
  /\ Taken("frame")
  /\ IF w.failed # "no" THEN Becomes(w)
     ELSE \/ Becomes(WithPart([Part EXCEPT !.count = @ + 1]))
          \/ /\ Len(w.parts) < MaxParts /\ Part.count > 0
             /\ Becomes([w EXCEPT !.parts = Append(@, [first |-> Message.n, count |-> 1])])
          \/ Errs(w)

\* avi_writer_truncate_to_frame() on the frames of this file.
WriteTruncate ==
  /\ Taken("truncate")
  /\ IF w.failed # "no" THEN Becomes(w)
     ELSE IF Message.n < Part.first \/ Message.n > Part.first + Part.count
     THEN Fails(w, "truncate") /\ UNCHANGED turns
     ELSE \/ Becomes(WithPart([Part EXCEPT !.count = Message.n - Part.first]))
          \/ Errs(w)

WriteSidecar ==
  /\ Taken("sidecar")
  /\ Becomes(DropEmptyPart(w)) \/ Errs(DropEmptyPart(w))

\* vr_writer_close() finishes the file, which may fail; what it tells is left out.
WriteClose ==
  /\ Taken("close") \/ Taken("quit")
  /\ w' = Closed
  /\ \E failed \in {TRUE, w.failed # "no"} :
       failedGen' = IF failed /\ w.session # 0 THEN w.session ELSE failedGen
  /\ UNCHANGED turns

WriteSync == Taken("sync") /\ UNCHANGED <<turns, writer>>

Writer ==
  WriteOpen \/ WriteFrame \/ WriteTruncate \/ WriteSidecar \/ WriteClose \/ WriteSync
-----------------------------------------------------------------------------
Next ==
  \/ FrameEnd \/ AfterSync \/ PausedTurn \/ Save \/ Load \/ Exit \/ Request \/ Writer
  \/ \E k \in 1..Len(g.pend) : Horizon(k)
  \/ \E due \in 1..MaxDue, n \in 0..MaxDue, paused \in BOOLEAN : n <= due /\ Tick(due, n, paused)

Spec == Init /\ [][Next]_vars
-----------------------------------------------------------------------------
(* Properties. *)

Frame == [id : 0..MaxFrames, prev : 0..MaxFrames]
Point == [session : 0..MaxSessions, take : Nat, frame : Nat]

\* The shape of the state; in real time nothing waits for its sound, and the
\* picture waits only there.
TypeOK ==
  /\ g.state \in {"idle", "recording", "paused"} /\ g.session \in 0..MaxSessions
  /\ g.content \in Seq(Frame) /\ g.next = Len(g.content)
  /\ g.pend \in Seq(Frame) /\ Len(g.pend) <= MaxPending
  /\ g.snapInfo \in Point /\ g.leaving \in BOOLEAN /\ g.rtOn \in BOOLEAN
  /\ g.rtOn => g.pend = <<>> /\ ~Idle
  /\ g.fifo > 0 => g.rtOn
  /\ held \in Frame /\ {initialized, reqStart, want} \subseteq BOOLEAN
  /\ clock \in 0..MaxFrames /\ cur \in 0..MaxFrames
  /\ snap.cur \in 0..MaxFrames /\ snap.info \in Point
  /\ w.failed \in {"no", "io", "truncate"} /\ failedGen \in 0..MaxSessions

\* Recorded and waiting frames of the recording in progress.
Shown == g.content \o g.pend

\* Where the sidecar tells of no cut the recording is one piece: every frame
\* follows in the machine's own history the one before it, through pauses,
\* retakes and loads of any snapshot, and no frame of emulated time stands
\* beside one sampled in real time (what the transitions of the export and
\* "plynulé navázání" of a retake in videorec.c rest on).
Continuous ==
  \A k \in 2..Len(Shown) :
    \/ \E i \in DOMAIN g.segs : g.segs[i].start = k - 1
    \/ /\ Shown[k - 1] = Blank <=> Shown[k] = Blank
       /\ Shown[k] # Blank => Shown[k].prev = Shown[k - 1].id

\* When the writer saves the cuts of a recording without a write error, the
\* files hold exactly the frames the glue counted, end to end and in order, and
\* so do the segments: whatever retakes cut and wherever a new file began, a
\* retake never asks the writer for a point that is not in its present file
\* (vr_handle_snapshot(), VR_MSG_TRUNCATE, VR_MSG_SIDECAR).
FilesTrue(parts, n) ==
  /\ parts # <<>> /\ parts[1].first = 0
  /\ \A i \in 1..Len(parts) - 1 : parts[i + 1].first = parts[i].first + parts[i].count
  /\ Last(parts).first + Last(parts).count = n

SegmentsTrue(segs, n) ==
  IF segs = <<>> THEN n = 0
  ELSE /\ segs[1].start = 0 /\ Last(segs).end = n
       /\ \A i \in 1..Len(segs) - 1 : segs[i].end = segs[i + 1].start

SidecarTrue ==
  g.queue # <<>> /\ Message.type = "sidecar" /\ w.failed # "io" =>
    /\ w.failed = "no" /\ FilesTrue(w.parts, Message.n)
    /\ SegmentsTrue(Message.segs, Message.n)

\* While real time records, the picture is behind the sound by the same number
\* of frames, whatever pauses, changes of time base and late ticks went before.
KeepsDelay == g.rtOn /\ g.state = "recording" => g.fifo = Delay

\* The end of a frame reads one word of flags before it takes the mutex, and in
\* real time returns on it: whatever the sampler and the requests of other
\* threads do, a start that waits and a return from real time (with the stop,
\* the pause or the snapshot that waits behind it) keep the flag that makes it
\* look, or nobody would ever answer them (vr_rt_tick(), videorec_request_*).
Heard == reqStart \/ g.leaving => g.req

\* Claim of videorec.h:339 and of test_stop_after_frames_realtime(): a recording
\* started with a number of frames never gets more of them.
StopExact ==
  Limit > 0 => \A i \in DOMAIN g.queue : g.queue[i].type = "sidecar" => g.queue[i].n <= Limit
=============================================================================
