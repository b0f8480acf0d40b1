----------------------------- MODULE Recording -----------------------------
(***************************************************************************)
(* A video recording as its parts know it (src/src/emulator/videorec):     *)
(* the frames that wait for their sound (videorec_pipe.c), the segments of *)
(* the sidecar (videorec_sidecar.c) and the takes and requests of the glue *)
(* (videorec.c), as functions of one record g, the glue's state under its  *)
(* mutex.  Module VideoRec says which thread applies which, and when.      *)
(*                                                                         *)
(* A frame of emulated time is known by its number and the number of the   *)
(* frame the machine was in before it, so that a recording can be compared *)
(* with what the machine did.  A frame sampled in real time has neither.   *)
(* Sound, markers and the events of the sidecar are left out.  So is what  *)
(* a paused recording puts into the pipe, frames without pixels: they make *)
(* the frames before them leave it sooner, which these may do at any time. *)
(***************************************************************************)
EXTENDS Integers, Sequences, FiniteSets, SequencesExt

CONSTANTS
  Delay,        \* vr_rt_delay_ticks(): frames the picture is behind the sound
  MaxPending,   \* VIDEOREC_PIPE_MAX_PENDING
  Limit         \* stop_after_frames, 0 for none

ASSUME RecordingAssumption ==
  Delay \in Nat /\ MaxPending \in Nat \ {0} /\ Limit \in Nat

\* A sampled frame in the recording.
Blank == [id |-> 0, prev |-> 0]

\* A snapshot made outside a recording tells nothing.
NoInfo == [session |-> 0, take |-> 0, frame |-> 0]

\* The glue before the first recording.
NoSession == [
  state |-> "idle", session |-> 0,
  content |-> <<>>, next |-> 0, pend |-> <<>>,   \* frames written; pipe
  segs |-> <<>>, open |-> FALSE,                 \* sidecar
  takes |-> <<>>, lastTake |-> 0, pauses |-> {},
  reqStop |-> FALSE, reqToggle |-> FALSE, reqSnap |-> FALSE, snapInfo |-> NoInfo,
  rtOn |-> FALSE, leaving |-> FALSE, fifo |-> 0,
  req |-> FALSE,                                 \* VIDEOREC_FLAG_REQ
  queue |-> <<>> ]                               \* messages to the writer

Push(g, m) == [g EXCEPT !.queue = Append(@, m)]

-----------------------------------------------------------------------------
(* Frames. *)

\* Frames for the file: a message to the writer for each (pipe_emit_head(),
\* vr_emit_frame()).
Emit(g, frames) ==
  [g EXCEPT !.content = @ \o frames, !.next = @ + Len(frames),
            !.queue = @ \o [i \in 1..Len(frames) |-> [type |-> "frame", n |-> g.next + i - 1]]]

\* videorec_pipe_horizon(): the sound of the first k frames is there.
EmitFirst(g, k) ==
  [Emit(g, SubSeq(g.pend, 1, k)) EXCEPT !.pend = SubSeq(g.pend, k + 1, Len(g.pend))]
Flush(g) == EmitFirst(g, Len(g.pend))

\* videorec_pipe_flush_until_index()
FlushUntil(g, n) ==
  EmitFirst(g, CASE n <= g.next               -> 0
                 [] n - g.next > Len(g.pend) -> Len(g.pend)
                 [] OTHER                     -> n - g.next)

\* vr_frame_count()
Count(g) == g.next + Len(g.pend)

\* vr_pos(): where the picture on the screen will be.
Pos(g) == Count(g) + IF g.rtOn /\ g.state = "recording" THEN g.fifo ELSE 0

Blanks(k) == [i \in 1..k |-> Blank]

\* vr_rt_drain_fifo(): writes at most n frames of a running recording.
Drain(g, n) ==
  LET k == IF g.state = "recording" THEN IF n < g.fifo THEN n ELSE g.fifo ELSE 0
  IN [Emit(g, Blanks(k)) EXCEPT !.fifo = 0]
DrainAll(g) == Drain(g, g.fifo)

\* vr_rt_fifo_prime()
Unprimed(g) == g                                   \* mutant of Prime
Prime(g) == [g EXCEPT !.fifo = IF @ < Delay THEN Delay ELSE @]

-----------------------------------------------------------------------------
(* Segments. *)

EndSegment(g, at) ==
  LET seg == Last(g.segs)
      end == IF at < seg.start THEN seg.start ELSE at
  IN IF ~g.open \/ g.segs = <<>> THEN g
     ELSE [g EXCEPT !.open = FALSE,
             !.segs = IF end = seg.start THEN Front(@)
                      ELSE Append(Front(@), [seg EXCEPT !.end = end])]

BeginSegment(g, at) ==
  [EndSegment(g, at) EXCEPT !.open = TRUE, !.segs = Append(@, [start |-> at, end |-> at])]
BeginIfRecording(g, at) == IF g.state = "recording" THEN BeginSegment(g, at) ELSE g

\* How many segments are kept: those up to the first that begins at the point
\* or behind it, but the first one always.
IsKept(segs, at, k) ==
  /\ k \in 1..Len(segs)
  /\ \A i \in 2..k : segs[i].start < at
  /\ k < Len(segs) => segs[k + 1].start >= at

\* videorec_sidecar_truncate(): the segment at the point goes on.
TruncateSegments(g, at) ==
  LET k   == CHOOSE j \in 1..Len(g.segs) : IsKept(g.segs, at, j)
      seg == g.segs[k]
  IN IF g.segs = <<>> THEN [g EXCEPT !.open = FALSE]
     ELSE [g EXCEPT !.open = TRUE,
             !.segs = Append(SubSeq(@, 1, k - 1),
                        [seg EXCEPT !.end = IF at < seg.start THEN seg.start ELSE at])]

-----------------------------------------------------------------------------
(* Takes. *)

BeginTake(g, at) ==
  [g EXCEPT !.lastTake = @ + 1,
            !.takes = Append(@, [id |-> g.lastTake + 1, start |-> at, rt |-> g.rtOn])]

\* vr_take_find(): the takes that hold the point of a snapshot.
TakesOf(g, info) ==
  {i \in DOMAIN g.takes :
     LET t == g.takes[i]
     IN /\ t.id = info.take /\ ~t.rt
        /\ t.start <= info.frame
        /\ info.frame <= IF i < Len(g.takes) THEN g.takes[i + 1].start ELSE Count(g)}

\* The snapshot belongs to this recording: it may be taken again from there.
Retakes(g) ==
  /\ g.snapInfo.session = g.session
  /\ g.snapInfo.frame <= Count(g)
  /\ TakesOf(g, g.snapInfo) # {}

\* vr_seam()
Seam(g) ==
  LET h == BeginTake([Flush(g) EXCEPT !.reqSnap = FALSE], Count(g))
  IN BeginIfRecording(h, Count(h))

\* The second half of vr_handle_snapshot(): back to the point of the snapshot.
Retake(g) ==
  LET at    == g.snapInfo.frame
      i     == CHOOSE j \in TakesOf(g, g.snapInfo) : TRUE
      h     == Push([g EXCEPT !.reqSnap = FALSE, !.pend = <<>>, !.next = at,
                              !.content = SubSeq(@, 1, at),
                              !.takes = SubSeq(@, 1, i)],
                    [type |-> "truncate", n |-> at])
      cut   == BeginTake(TruncateSegments(h, at), at)
      paused == [cut EXCEPT !.pauses = {p \in @ : p <= at}]
  IN IF g.state = "paused"
     THEN [EndSegment(paused, at) EXCEPT !.pauses = @ \cup {at}]
     ELSE IF at \in g.pauses THEN BeginSegment(paused, at) ELSE paused

-----------------------------------------------------------------------------
(* The time base. *)

\* vr_rt_enter()
Enter(g) ==
  LET h  == Prime([Flush(g) EXCEPT !.rtOn = TRUE, !.leaving = FALSE])
      at == h.next
      t  == BeginTake(h, at)
  IN IF at > 0 THEN BeginIfRecording(t, at) ELSE t

\* vr_rt_leave()
Leave(g) ==
  LET h == [DrainAll(g) EXCEPT !.rtOn = FALSE, !.leaving = FALSE, !.pend = <<>>]
  IN BeginIfRecording(BeginTake(h, h.next), h.next)

-----------------------------------------------------------------------------
(* The end of a recording, and requests. *)

\* vr_finalize()
Finalize(g) ==
  LET d == Flush(IF g.rtOn THEN DrainAll(g) ELSE g)
      f == EndSegment(d, d.next)
  IN [NoSession EXCEPT !.session = g.session, !.req = g.req,
        !.queue = f.queue \o << [type |-> "sidecar", n |-> d.next, segs |-> f.segs],
                                [type |-> "close", n |-> 0] >>]

\* vr_do_start()
Start(g, want) ==
  LET h == [NoSession EXCEPT !.state = "recording", !.session = g.session + 1,
              !.req = g.req, !.queue = Append(g.queue, [type |-> "open", n |-> g.session + 1])]
      s == BeginTake(BeginSegment(h, 0), 0)
  IN IF want THEN Enter(s) ELSE s

\* Record-pause and its end, on which the real time base does more.
PauseForgotten(g) ==                               \* mutant of Toggle
  LET at == Count(g)
      h  == [g EXCEPT !.reqToggle = FALSE]
  IN IF ~g.reqToggle THEN g
     ELSE IF g.state = "recording"
     THEN [EndSegment(h, at) EXCEPT !.state = "paused"]
     ELSE [BeginSegment(h, at) EXCEPT !.state = "recording"]
Toggle(g) ==
  LET at == Count(g)
      h  == [g EXCEPT !.reqToggle = FALSE]
  IN IF ~g.reqToggle THEN g
     ELSE IF g.state = "recording"
     THEN [EndSegment(h, at) EXCEPT !.state = "paused", !.pauses = @ \cup {at}]
     ELSE [BeginSegment(h, at) EXCEPT !.state = "recording"]
RtToggle(g) ==
  IF ~g.reqToggle THEN g
  ELSE Toggle(IF g.state = "recording" THEN DrainAll(g) ELSE Prime(g))

\* vr_rt_snapshot(): never a retake.
RtSnapshot(g) ==
  IF ~g.reqSnap THEN g
  ELSE BeginIfRecording(BeginTake([g EXCEPT !.reqSnap = FALSE], Count(g)), Pos(g))

\* vr_rt_requests()
RtRequests(g) ==
  LET h == RtToggle(RtSnapshot(g)) IN IF h.reqStop THEN Finalize(h) ELSE h

\* The limit is reached: of the frames that wait those up to it are written.
AtLimit(g) == Limit > 0 /\ Pos(g) >= Limit
FinalizeAtLimit(g) == Finalize(Drain(g, IF Limit > Count(g) THEN Limit - Count(g) ELSE 0))

\* The frames "due" at a tick of vr_rt_tick(), of which a running recording
\* writes the first n, or fewer where the limit comes first: every frame enters
\* the fifo and the oldest one leaves it, so the position moves with the count.
\* A paused one only fills the fifo again, while the emulation runs.
Ticks(g, due, n, paused) ==
  LET room   == IF Limit > Pos(g) THEN Limit - Pos(g) ELSE 0
      writes == IF Limit > 0 /\ room < n THEN room ELSE n
      h      == Emit(g, Blanks(writes))
  IN CASE g.state = "idle" -> g
       [] g.state = "recording" ->
            IF AtLimit(h) /\ writes < due THEN FinalizeAtLimit(h) ELSE h
       [] g.state = "paused" ->
            IF AtLimit(g) THEN FinalizeAtLimit(g)
            ELSE IF paused THEN g
            ELSE [g EXCEPT !.fifo = IF @ + due < Delay THEN @ + due ELSE Delay]

\* vr_feed_frame()
Feed(g, f) ==
  LET h == IF Len(g.pend) >= MaxPending THEN Flush(g) ELSE g
  IN IF g.state = "recording" THEN [h EXCEPT !.pend = Append(@, f)] ELSE h

\* The rest of videorec_on_screen_done() in emulated time.
FinishFrame(g, f) ==
  LET h == Toggle(g)
      k == Feed(h, f)
  IN IF h.reqStop THEN Finalize(h)
     ELSE IF Limit > 0 /\ Count(k) >= Limit THEN Finalize(k) ELSE k
=============================================================================
