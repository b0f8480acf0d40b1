--------------------------- MODULE VideoRecProofs ---------------------------
(***************************************************************************)
(* Proofs, for any delay, sizes of the pipe and of the queue, and any      *)
(* number of frames, recordings, turns and file parts, of the safety       *)
(* properties of VideoRec.                                                 *)
(***************************************************************************)
EXTENDS VideoRec, SequenceTheorems, WellFoundedInduction, TLAPS

-----------------------------------------------------------------------------
(* Types. *)

Taped   == Frame \ {Blank}
Segment == [start : Nat, end : Nat]
ATake   == [id : Nat, start : Nat, rt : BOOLEAN]
Opening == [type : {"open"}, n : 0..MaxSessions]
Plain   == [type : {"frame", "truncate", "sync", "close", "quit"}, n : Nat] \cup Opening
Sidecar == [type : {"sidecar"}, n : Nat, segs : Seq(Segment)]
APart   == [first : Nat, count : Nat]

Glue ==
  [state : {"idle", "recording", "paused"}, session : 0..MaxSessions,
   content : Seq(Frame), next : Nat, pend : Seq(Taped),
   segs : Seq(Segment), open : BOOLEAN,
   takes : Seq(ATake), lastTake : Nat, pauses : SUBSET Nat,
   reqStop : BOOLEAN, reqToggle : BOOLEAN, reqSnap : BOOLEAN, snapInfo : Point,
   rtOn : BOOLEAN, leaving : BOOLEAN, fifo : Nat,
   req : BOOLEAN, queue : Seq(Plain \cup Sidecar)]

SameRun(h, k)   == k.state = h.state /\ k.session = h.session
SameFilm(h, k)  == k.content = h.content /\ k.next = h.next /\ k.pend = h.pend
SameSegs(h, k)  == k.segs = h.segs /\ k.open = h.open
SameTakes(h, k) == k.takes = h.takes /\ k.lastTake = h.lastTake /\ k.pauses = h.pauses
SameTime(h, k)  == k.rtOn = h.rtOn /\ k.leaving = h.leaving /\ k.fifo = h.fifo
SameAsked(h, k) ==
  /\ k.reqStop = h.reqStop /\ k.reqToggle = h.reqToggle /\ k.reqSnap = h.reqSnap
  /\ k.snapInfo = h.snapInfo /\ k.req = h.req

Counted(h) == h.next = Len(h.content)

(* The shape of the glue between two sections of its mutex. *)

Shape(h) ==
  /\ h \in Glue /\ Counted(h) /\ Len(h.pend) <= MaxPending
  /\ h.rtOn => h.pend = <<>> /\ h.state # "idle"
  /\ h.fifo > 0 => h.rtOn
  /\ h.fifo <= Delay
  /\ h.leaving => h.rtOn
  /\ h.rtOn /\ h.state = "recording" => h.fifo = Delay
  /\ h.state # "idle" => h.takes # <<>>

TypeInv ==
  /\ Shape(g) /\ held \in Frame
  /\ {initialized, reqStart, want} \subseteq BOOLEAN
  /\ turns \in Nat
  /\ clock \in 0..MaxFrames /\ cur \in 0..MaxFrames
  /\ snap \in [cur : 0..MaxFrames, info : Point]
  /\ w = [session |-> w.session, parts |-> w.parts, failed |-> w.failed]
  /\ w.session \in 0..MaxSessions /\ w.failed \in {"no", "io", "truncate"}
  /\ failedGen \in 0..MaxSessions
  /\ Heard /\ (reqStart => Idle)
  /\ held # Blank => ~Idle /\ ~g.rtOn /\ Retakes(g) /\ g.snapInfo.frame <= g.next

-----------------------------------------------------------------------------
(* The messages and the files. *)

After(m) ==
  CASE m.type = "open" -> 0 [] m.type = "frame" -> m.n + 1 [] OTHER -> m.n

Leads(m, k) ==
  CASE m.type \in {"open", "frame", "truncate", "sync"} ->
         k.type \in {"frame", "sync", "sidecar"} /\ k.n = After(m)
    [] m.type = "sidecar" -> k.type = "close"
    [] OTHER              -> k.type \in {"open", "quit"}

Total(v) == Last(v.parts).first + Last(v.parts).count

\* What the writer finds: its files go on where the message begins.
Fits(m, v) ==
  v.failed = "no" =>
    /\ m.type \in {"frame", "sync", "sidecar"} => v.parts # <<>> /\ Total(v) = m.n
    /\ m.type = "truncate" => v.parts # <<>> /\ Last(v.parts).first <= m.n /\ m.n <= Total(v)

\* What the glue has sent last is what it has counted, n frames of a recording.
Sent(m, idle, n) ==
  IF idle THEN m.type \in {"close", "quit"}
  ELSE m.type \in {"open", "frame", "truncate", "sync"} /\ After(m) = n

Flow(q, idle, n, v) ==
  /\ \A i \in 1..Len(q) - 1 : Leads(q[i], q[i + 1])
  /\ \A i \in 1..Len(q) : q[i].type = "truncate" => i = 1
  /\ q # <<>> => Fits(q[1], v) /\ Sent(Last(q), idle, n)
  /\ q = <<>> /\ ~idle /\ v.failed = "no" => v.parts # <<>> /\ Total(v) = n

\* A frame that waits for the writer has sent the last message.
SyncInv ==
  /\ \A i \in 1..Len(g.queue) :
       g.queue[i].type = "sync" => i = Len(g.queue) /\ held # Blank
  /\ held # Blank /\ g.queue # <<>> => Last(g.queue).type = "sync"

FilesGood(parts) ==
  /\ parts \in Seq(APart)
  /\ parts # <<>> =>
       /\ parts[1].first = 0
       /\ \A i \in 1..Len(parts) - 1 : parts[i + 1].first = parts[i].first + parts[i].count

FilesInv == w.failed # "truncate" /\ FilesGood(w.parts) /\ Flow(g.queue, Idle, g.next, w) /\ SyncInv

-----------------------------------------------------------------------------
(* The segments. *)

SegsGood(segs, open, p) ==
  /\ \A i, j \in 1..Len(segs) : i < j => segs[i].start < segs[j].start
  /\ \A i \in 1..Len(segs) - 1 : segs[i].end = segs[i + 1].start
  /\ segs # <<>> => segs[1].start = 0
  /\ open => segs # <<>> /\ Last(segs).start <= p
  /\ ~open => IF segs = <<>> THEN p = 0
              ELSE Last(segs).start < Last(segs).end /\ Last(segs).end = p

SegsRight(h) ==
  SegsGood(h.segs, h.open, Pos(h)) /\ (h.open <=> h.state = "recording")

SegInv == ~Idle => SegsRight(g)

\* The cuts the writer is to save.
Saved(q) ==
  \A i \in 1..Len(q) : q[i].type = "sidecar" => SegmentsTrue(q[i].segs, q[i].n)

-----------------------------------------------------------------------------
(* The history. *)

ShownOf(h) == h.content \o h.pend
Cut(segs, k) == \E i \in 1..Len(segs) : segs[i].start = k
Link(a, b) == (a = Blank <=> b = Blank) /\ (b # Blank => b.prev = a.id)
ContinuousIn(h) ==
  \A k \in 2..Len(ShownOf(h)) : Cut(h.segs, k - 1) \/ Link(ShownOf(h)[k - 1], ShownOf(h)[k])

Tip(h) == ShownOf(h)[Count(h)]
RtJoin(h) ==
  h.rtOn /\ h.state = "recording" => Count(h) = 0 \/ Cut(h.segs, Count(h)) \/ Tip(h) = Blank
Join(h, c) ==
  ~h.rtOn /\ h.state = "recording" => Count(h) = 0 \/ (Tip(h) # Blank /\ Tip(h).id = c)

TakesGood(h) ==
  /\ \A i \in 1..Len(h.takes) :
       h.takes[i].id \in 1..h.lastTake /\ h.takes[i].start <= Count(h)
  /\ \A i, j \in 1..Len(h.takes) : i < j =>
       h.takes[i].id < h.takes[j].id /\ h.takes[i].start <= h.takes[j].start

Ended(h) == h.state = "paused" => Count(h) \in h.pauses

AtPoint(h, n, c) ==
  \/ n = 0 \/ n \in h.pauses
  \/ n \in 1..Count(h) /\ ShownOf(h)[n] # Blank /\ ShownOf(h)[n].id = c

SnapGood(h, info, c) ==
  info.session = h.session =>
     /\ info.take <= h.lastTake
     /\ info.take = Last(h.takes).id => info.frame <= Count(h)
     /\ TakesOf(h, info) # {} => AtPoint(h, info.frame, c)

Before == IF held = Blank THEN cur ELSE held.prev

HistInv ==
  /\ snap.info.session <= g.session
  /\ held # Blank => g.reqSnap /\ held.id = cur
  /\ held = Blank /\ g.reqSnap => g.req
  /\ Idle => g.content = <<>> /\ g.pend = <<>>
  /\ ~Idle =>
       /\ TakesGood(g) /\ Ended(g) /\ Last(g.takes).rt = g.rtOn
       /\ ContinuousIn(g) /\ RtJoin(g)
       /\ SnapGood(g, snap.info, snap.cur)
       /\ g.reqSnap => SnapGood(g, g.snapInfo, Before)
       /\ held = Blank /\ ~g.reqSnap => Join(g, cur)
-----------------------------------------------------------------------------
(* What the operators of Recording do to the fields of the glue. *)

FrameMessages(n, k) == [i \in 1..k |-> [type |-> "frame", n |-> n + i - 1]]

\* The messages of frames are messages.
LEMMA MessagesTyped ==
  ASSUME NEW n \in Nat, NEW k \in Nat
  PROVE  /\ FrameMessages(n, k) \in Seq(Plain \cup Sidecar) /\ Len(FrameMessages(n, k)) = k
         /\ Blanks(k) \in Seq(Frame) /\ Len(Blanks(k)) = k
<1>1. Blank \in Frame BY RecordingAssumption, VideoRecAssumption DEF Blank, Frame
<1>2. FrameMessages(n, k) \in [1..k -> Plain \cup Sidecar] BY DEF FrameMessages, Plain
<1>3. Blanks(k) \in [1..k -> Frame] BY <1>1 DEF Blanks
<1> QED BY <1>2, <1>3

\* A message at the end of the queue, nothing else.
LEMMA PushFields ==
  ASSUME NEW h \in Glue, NEW m \in Plain \cup Sidecar
  PROVE  LET k == Push(h, m)
         IN /\ k \in Glue /\ k.queue = Append(h.queue, m)
            /\ SameRun(h, k) /\ SameFilm(h, k) /\ SameSegs(h, k) /\ SameTakes(h, k)
            /\ SameTime(h, k) /\ SameAsked(h, k)
<1> DEFINE q == Append(h.queue, m)
<1>1. q \in Seq(Plain \cup Sidecar) BY AppendProperties DEF Glue
<1>2. Push(h, m) = [h EXCEPT !.queue = q] BY DEF Push
<1> HIDE DEF q
<1>3. LET k == [h EXCEPT !.queue = q]
      IN /\ k \in Glue /\ k.queue = q
         /\ SameRun(h, k) /\ SameFilm(h, k) /\ SameSegs(h, k) /\ SameTakes(h, k)
         /\ SameTime(h, k) /\ SameAsked(h, k)
  BY <1>1 DEF Glue, SameRun, SameFilm, SameSegs, SameTakes, SameTime, SameAsked
<1> QED BY <1>2, <1>3 DEF q

\* A frame is added to the recording and told to the writer.
LEMMA EmitFields ==
  ASSUME NEW h \in Glue, NEW frames \in Seq(Frame)
  PROVE  LET k == Emit(h, frames)
         IN /\ k \in Glue
            /\ k.content = h.content \o frames /\ k.next = h.next + Len(frames)
            /\ k.pend = h.pend
            /\ k.queue = h.queue \o FrameMessages(h.next, Len(frames))
            /\ SameRun(h, k) /\ SameSegs(h, k) /\ SameTakes(h, k)
            /\ SameTime(h, k) /\ SameAsked(h, k)
<1> DEFINE c == h.content \o frames
           q == h.queue \o FrameMessages(h.next, Len(frames))
           n == h.next + Len(frames)
<1>1. h.content \in Seq(Frame) /\ h.next \in Nat /\ h.queue \in Seq(Plain \cup Sidecar)
      /\ Len(frames) \in Nat
  BY DEF Glue
<1>2. c \in Seq(Frame) /\ n \in Nat /\ q \in Seq(Plain \cup Sidecar)
  <2>1. FrameMessages(h.next, Len(frames)) \in Seq(Plain \cup Sidecar)
    BY <1>1, MessagesTyped
  <2>2. q \in Seq(Plain \cup Sidecar) BY <1>1, <2>1, ConcatProperties
  <2>3. c \in Seq(Frame) BY <1>1, ConcatProperties
  <2> QED BY <1>1, <2>2, <2>3
<1>3. Emit(h, frames) = [h EXCEPT !.content = c, !.next = n, !.queue = q]
  BY DEF Emit, FrameMessages, Glue
<1> HIDE DEF c, n, q
<1>4. LET k == [h EXCEPT !.content = c, !.next = n, !.queue = q]
      IN /\ k \in Glue
         /\ k.content = c /\ k.next = n /\ k.queue = q /\ k.pend = h.pend
         /\ SameRun(h, k) /\ SameSegs(h, k) /\ SameTakes(h, k)
         /\ SameTime(h, k) /\ SameAsked(h, k)
  BY <1>2 DEF Glue, SameRun, SameSegs, SameTakes, SameTime, SameAsked
<1> QED BY <1>3, <1>4 DEF c, n, q

\* A sequence is its first part and what follows it.
LEMMA SplitSeq ==
  ASSUME NEW S, NEW p \in Seq(S), NEW n \in 0..Len(p)
  PROVE  /\ SubSeq(p, 1, n) \in Seq(S) /\ Len(SubSeq(p, 1, n)) = n
         /\ \A i \in 1..n : SubSeq(p, 1, n)[i] = p[i]
         /\ SubSeq(p, n + 1, Len(p)) \in Seq(S) /\ Len(SubSeq(p, n + 1, Len(p))) = Len(p) - n
         /\ SubSeq(p, 1, n) \o SubSeq(p, n + 1, Len(p)) = p
<1>1. Len(p) \in Nat /\ n \in Nat /\ n <= Len(p) BY LenProperties
<1>2. \A i \in 1..Len(p) : p[i] \in S BY ElementOfSeq
<1>3. \A i \in 1..n : p[i] \in S BY <1>1, <1>2
<1>4. \A i \in n + 1..Len(p) : p[i] \in S BY <1>1, <1>2
<1>5. /\ SubSeq(p, 1, n) \in Seq(S) /\ Len(SubSeq(p, 1, n)) = n
      /\ \A i \in 1..n : SubSeq(p, 1, n)[i] = p[i]
  BY <1>1, <1>3, SubSeqProperties
<1>6. SubSeq(p, n + 1, Len(p)) \in Seq(S) /\ Len(SubSeq(p, n + 1, Len(p))) = Len(p) - n
  BY <1>1, <1>4, SubSeqProperties
<1>7. 1 \in 1..Len(p) + 1 /\ n \in 1 - 1..Len(p) /\ Len(p) \in n..Len(p) BY <1>1
<1>8. SubSeq(p, 1, n) \o SubSeq(p, n + 1, Len(p)) = SubSeq(p, 1, Len(p))
  BY <1>7, ConcatAdjacentSubSeq
<1> QED BY <1>5, <1>6, <1>8, SubSeqFull

\* Frames added in two steps are those added at once.
LEMMA FilmAssociative ==
  \A a, b, c \in Seq(Frame) : (a \o b) \o c = a \o (b \o c)
BY ConcatAssociative

\* Frames leave the pipe in their order: what is recorded is the same.
LEMMA EmitFirstFields ==
  ASSUME NEW h \in Glue, NEW n \in 0..Len(h.pend), Counted(h)
  PROVE  LET k == EmitFirst(h, n)
         IN /\ k \in Glue /\ Counted(k)
            /\ k.next = h.next + n /\ Len(k.pend) = Len(h.pend) - n
            /\ ShownOf(k) = ShownOf(h) /\ Count(k) = Count(h)
            /\ k.queue = h.queue \o FrameMessages(h.next, n)
            /\ SameRun(h, k) /\ SameSegs(h, k) /\ SameTakes(h, k)
            /\ SameTime(h, k) /\ SameAsked(h, k)
<1> DEFINE f == SubSeq(h.pend, 1, n)
           p == SubSeq(h.pend, n + 1, Len(h.pend))
           e == Emit(h, f)
<1>1. /\ h.pend \in Seq(Taped) /\ h.content \in Seq(Frame) /\ h.next \in Nat
      /\ Len(h.pend) \in Nat
  BY DEF Glue
<1>3. f \in Seq(Taped) /\ Len(f) = n BY <1>1, SplitSeq
<1>4. p \in Seq(Taped) /\ Len(p) = Len(h.pend) - n BY <1>1, SplitSeq
<1>6. f \o p = h.pend
  <2>1. h.pend \in Seq(Taped) BY <1>1
  <2> QED BY <2>1, SplitSeq
<1> HIDE DEF f, p
<1>5. f \in Seq(Frame) /\ p \in Seq(Frame) BY <1>3, <1>4, SeqMonotonic DEF Taped
<1>7. (h.content \o f) \o p = h.content \o (f \o p)
  <2>1. h.content \in Seq(Frame) BY <1>1
  <2>2. f \in Seq(Frame) BY <1>5
  <2>3. p \in Seq(Frame) BY <1>5
  <2> QED BY <2>1, <2>2, <2>3, FilmAssociative
<1>8. Len(h.content \o f) = Len(h.content) + n
  BY <1>1, <1>3, <1>5, ConcatProperties
<1>9. /\ e \in Glue
      /\ e.content = h.content \o f /\ e.next = h.next + n /\ e.pend = h.pend
      /\ e.queue = h.queue \o FrameMessages(h.next, n)
      /\ SameRun(h, e) /\ SameSegs(h, e) /\ SameTakes(h, e)
      /\ SameTime(h, e) /\ SameAsked(h, e)
  BY <1>3, <1>5, EmitFields
<1> HIDE DEF e
<1>10. EmitFirst(h, n) = [e EXCEPT !.pend = p] BY DEF EmitFirst, e, f, p
<1>11. LET k == [e EXCEPT !.pend = p]
       IN /\ k \in Glue /\ k.content = e.content /\ k.next = e.next
          /\ k.pend = p /\ k.queue = e.queue
          /\ SameRun(e, k) /\ SameSegs(e, k) /\ SameTakes(e, k)
          /\ SameTime(e, k) /\ SameAsked(e, k)
  BY <1>4, <1>9 DEF Glue, SameRun, SameSegs, SameTakes, SameTime, SameAsked
<1> DEFINE k == EmitFirst(h, n)
<1>12. k \in Glue /\ k.content = h.content \o f /\ k.next = h.next + n /\ k.pend = p
       /\ k.queue = h.queue \o FrameMessages(h.next, n)
  BY <1>9, <1>10, <1>11
<1>13. /\ SameRun(h, k) /\ SameSegs(h, k) /\ SameTakes(h, k)
       /\ SameTime(h, k) /\ SameAsked(h, k)
  BY <1>9, <1>10, <1>11 DEF SameRun, SameSegs, SameTakes, SameTime, SameAsked
<1> HIDE DEF k
<1>14. ShownOf(k) = ShownOf(h) BY <1>6, <1>7, <1>12 DEF ShownOf
<1>15. Count(k) = Count(h)
  <2>1. h.next \in Nat BY <1>1
  <2>2. Len(h.pend) \in Nat BY <1>1
  <2>3. Len(k.pend) = Len(h.pend) - n /\ k.next = h.next + n BY <1>4, <1>12
  <2> QED BY <2>1, <2>2, <2>3 DEF Count
<1>16. Counted(k) BY <1>1, <1>8, <1>12 DEF Counted
<1> QED BY <1>4, <1>12, <1>13, <1>14, <1>15, <1>16 DEF k

\* The pipe empties into the recording.
LEMMA FlushFields ==
  ASSUME NEW h \in Glue, Counted(h)
  PROVE  LET k == Flush(h)
         IN /\ k \in Glue /\ Counted(k)
            /\ k.next = Count(h) /\ k.pend = <<>>
            /\ ShownOf(k) = ShownOf(h) /\ Count(k) = Count(h)
            /\ k.queue = h.queue \o FrameMessages(h.next, k.next - h.next)
            /\ SameRun(h, k) /\ SameSegs(h, k) /\ SameTakes(h, k)
            /\ SameTime(h, k) /\ SameAsked(h, k)
<1> DEFINE k == Flush(h)
<1>1. Len(h.pend) \in Nat /\ h.next \in Nat BY DEF Glue
<1>2. /\ k \in Glue /\ Counted(k)
      /\ k.next = h.next + Len(h.pend) /\ Len(k.pend) = Len(h.pend) - Len(h.pend)
      /\ ShownOf(k) = ShownOf(h) /\ Count(k) = Count(h)
      /\ k.queue = h.queue \o FrameMessages(h.next, Len(h.pend))
      /\ SameRun(h, k) /\ SameSegs(h, k) /\ SameTakes(h, k)
      /\ SameTime(h, k) /\ SameAsked(h, k)
  <2>1. Len(h.pend) \in 0..Len(h.pend) BY <1>1
  <2> QED BY <2>1, EmitFirstFields DEF Flush
<1> HIDE DEF k
<1>3. k.pend \in Seq(Taped) /\ Len(k.pend) = 0 BY <1>1, <1>2 DEF Glue
<1>4. k.pend = <<>> BY <1>3, EmptySeq
<1>5. k.next = Count(h) /\ k.next - h.next = Len(h.pend) BY <1>1, <1>2 DEF Count
<1> QED BY <1>2, <1>4, <1>5 DEF k

\* Frames in front of a point leave the pipe; what is shown stays.
LEMMA FlushUntilFields ==
  ASSUME NEW h \in Glue, NEW n \in Nat, Counted(h)
  PROVE  LET k == FlushUntil(h, n)
         IN /\ k \in Glue /\ Counted(k)
            /\ Len(k.pend) <= Len(h.pend) /\ (n <= Count(h) => n <= k.next)
            /\ ShownOf(k) = ShownOf(h) /\ Count(k) = Count(h)
            /\ k.next >= h.next
            /\ k.queue = h.queue \o FrameMessages(h.next, k.next - h.next)
            /\ SameRun(h, k) /\ SameSegs(h, k) /\ SameTakes(h, k)
            /\ SameTime(h, k) /\ SameAsked(h, k)
<1> DEFINE m == CASE n <= h.next               -> 0
                  [] n - h.next > Len(h.pend) -> Len(h.pend)
                  [] OTHER                     -> n - h.next
<1>1. Len(h.pend) \in Nat BY DEF Glue
<1>2. h.next \in Nat BY DEF Glue
<1>3. m \in 0..Len(h.pend) BY <1>1, <1>2
<1>4. /\ n <= h.next => m = 0
      /\ ~(n <= h.next) /\ n - h.next > Len(h.pend) => m = Len(h.pend)
      /\ ~(n <= h.next) /\ ~(n - h.next > Len(h.pend)) => m = n - h.next
  BY <1>1, <1>2
<1> DEFINE k == EmitFirst(h, m)
<1>5. FlushUntil(h, n) = k BY DEF FlushUntil
<1> HIDE DEF m
<1>6. PICK i \in Nat : i = m BY <1>1, <1>3
<1>7. i <= Len(h.pend) /\ (n <= h.next + Len(h.pend) => n <= h.next + i)
  BY <1>1, <1>2, <1>3, <1>4, <1>6
<1>8. /\ k \in Glue /\ Counted(k)
      /\ k.next = h.next + i /\ Len(k.pend) = Len(h.pend) - i
      /\ ShownOf(k) = ShownOf(h) /\ Count(k) = Count(h)
      /\ k.queue = h.queue \o FrameMessages(h.next, i)
      /\ SameRun(h, k) /\ SameSegs(h, k) /\ SameTakes(h, k)
      /\ SameTime(h, k) /\ SameAsked(h, k)
  BY <1>3, <1>6, EmitFirstFields
<1> HIDE DEF k
<1>9. /\ k.next - h.next = i /\ Len(k.pend) <= Len(h.pend) /\ k.next >= h.next
      /\ (n <= Count(h) => n <= k.next)
  <2>1. k.next = h.next + i /\ Len(k.pend) = Len(h.pend) - i BY <1>8
  <2> QED BY <1>1, <1>2, <1>7, <2>1 DEF Count
<1> QED BY <1>5, <1>8, <1>9

\* What was written: a message for each frame.
Wrote(h, k) ==
  k.next >= h.next /\ k.queue = h.queue \o FrameMessages(h.next, k.next - h.next)

\* With an empty pipe what is recorded is what is shown.
LEMMA EmptyPipe ==
  ASSUME NEW h \in Glue, h.pend = <<>>
  PROVE  ShownOf(h) = h.content /\ Count(h) = h.next
<1>1. h.content \in Seq(Frame) /\ h.next \in Nat BY DEF Glue
<1>2. h.content \o <<>> = h.content BY <1>1, ConcatEmptySeq
<1>3. Len(<<>>) = 0 OBVIOUS
<1> QED BY <1>1, <1>2, <1>3 DEF ShownOf, Count

\* The frames of the delay are written, as far as the time reaches; a pause writes none.
LEMMA DrainFields ==
  ASSUME NEW h \in Glue, NEW n \in Nat, Counted(h)
  PROVE  \E b \in 0..h.fifo :
           LET k == Drain(h, n)
           IN /\ h.state # "recording" => b = 0
              /\ h.state = "recording" /\ n >= h.fifo => b = h.fifo
              /\ k \in Glue /\ Counted(k)
              /\ k.content = h.content \o Blanks(b) /\ k.next = h.next + b /\ k.pend = h.pend
              /\ k.queue = h.queue \o FrameMessages(h.next, b)
              /\ k.fifo = 0 /\ k.rtOn = h.rtOn /\ k.leaving = h.leaving
              /\ SameRun(h, k) /\ SameSegs(h, k) /\ SameTakes(h, k) /\ SameAsked(h, k)
<1> DEFINE b == IF h.state = "recording" THEN IF n < h.fifo THEN n ELSE h.fifo ELSE 0
           e == Emit(h, Blanks(b))
<1>1. h.fifo \in Nat BY DEF Glue
<1>2. b \in 0..h.fifo BY <1>1
<1>3. /\ h.state # "recording" => b = 0
      /\ h.state = "recording" /\ n >= h.fifo => b = h.fifo
  BY <1>1
<1>4. Drain(h, n) = [e EXCEPT !.fifo = 0] BY DEF Drain
<1> HIDE DEF b
<1>5. b \in Nat BY <1>1, <1>2
<1>6. Blanks(b) \in Seq(Frame) /\ Len(Blanks(b)) = b BY <1>5, MessagesTyped
<1>7. /\ e \in Glue
      /\ e.content = h.content \o Blanks(b) /\ e.next = h.next + b
      /\ e.pend = h.pend
      /\ e.queue = h.queue \o FrameMessages(h.next, b)
      /\ SameRun(h, e) /\ SameSegs(h, e) /\ SameTakes(h, e)
      /\ SameTime(h, e) /\ SameAsked(h, e)
  BY <1>6, EmitFields
<1> HIDE DEF e
<1>8. LET k == [e EXCEPT !.fifo = 0]
      IN /\ k \in Glue /\ SameFilm(e, k) /\ k.queue = e.queue
         /\ k.fifo = 0 /\ k.rtOn = e.rtOn /\ k.leaving = e.leaving
         /\ SameRun(e, k) /\ SameSegs(e, k) /\ SameTakes(e, k) /\ SameAsked(e, k)
  BY <1>7 DEF Glue, SameFilm, SameRun, SameSegs, SameTakes, SameAsked
<1> DEFINE k == Drain(h, n)
<1>9. /\ k \in Glue
      /\ k.content = h.content \o Blanks(b) /\ k.next = h.next + b /\ k.pend = h.pend
      /\ k.queue = h.queue \o FrameMessages(h.next, b)
      /\ k.fifo = 0 /\ k.rtOn = h.rtOn /\ k.leaving = h.leaving
  BY <1>4, <1>7, <1>8 DEF SameFilm, SameTime
<1>10. SameRun(h, k) /\ SameSegs(h, k) /\ SameTakes(h, k) /\ SameAsked(h, k)
  BY <1>4, <1>7, <1>8 DEF SameRun, SameSegs, SameTakes, SameAsked
<1> HIDE DEF k
<1>11. Counted(k)
  <2>1. h.content \in Seq(Frame) BY DEF Glue
  <2>2. Blanks(b) \in Seq(Frame) BY <1>6
  <2>3. Len(h.content \o Blanks(b)) = Len(h.content) + Len(Blanks(b))
    BY <2>1, <2>2, ConcatProperties
  <2>4. Len(h.content \o Blanks(b)) = Len(h.content) + b BY <1>6, <2>3
  <2> QED BY <1>9, <2>4 DEF Counted
<1> QED BY <1>2, <1>3, <1>9, <1>10, <1>11 DEF k

\* The distance of picture and sound is set up again.
LEMMA PrimeFields ==
  ASSUME NEW h \in Glue
  PROVE  LET k == Prime(h)
         IN /\ k \in Glue /\ k.fifo >= Delay /\ (h.fifo <= Delay => k.fifo = Delay)
            /\ k.rtOn = h.rtOn /\ k.leaving = h.leaving /\ k.queue = h.queue
            /\ SameRun(h, k) /\ SameFilm(h, k) /\ SameSegs(h, k) /\ SameTakes(h, k)
            /\ SameAsked(h, k)
<1> DEFINE f == IF h.fifo < Delay THEN Delay ELSE h.fifo
<1>1. f \in Nat /\ f >= Delay /\ (h.fifo <= Delay => f = Delay)
  BY RecordingAssumption DEF Glue
<1>2. Prime(h) = [h EXCEPT !.fifo = f] BY DEF Prime
<1> HIDE DEF f
<1> QED
  BY <1>1, <1>2 DEF Glue, SameRun, SameFilm, SameSegs, SameTakes, SameAsked

\* A take begins with the next number.
LEMMA BeginTakeFields ==
  ASSUME NEW h \in Glue, NEW at \in Nat
  PROVE  LET k == BeginTake(h, at)
         IN /\ k \in Glue /\ k.lastTake = h.lastTake + 1 /\ k.pauses = h.pauses
            /\ k.takes = Append(h.takes, [id |-> h.lastTake + 1, start |-> at, rt |-> h.rtOn])
            /\ k.queue = h.queue
            /\ SameRun(h, k) /\ SameFilm(h, k) /\ SameSegs(h, k) /\ SameTime(h, k)
            /\ SameAsked(h, k)
<1> DEFINE t == Append(h.takes, [id |-> h.lastTake + 1, start |-> at, rt |-> h.rtOn])
           n == h.lastTake + 1
<1>1. n \in Nat BY DEF Glue
<1>2. [id |-> h.lastTake + 1, start |-> at, rt |-> h.rtOn] \in ATake BY DEF Glue, ATake
<1>3. t \in Seq(ATake) BY <1>2, AppendProperties DEF Glue
<1>4. BeginTake(h, at) = [h EXCEPT !.lastTake = n, !.takes = t] BY DEF BeginTake, Glue
<1> HIDE DEF t, n
<1>5. LET k == [h EXCEPT !.lastTake = n, !.takes = t]
      IN /\ k \in Glue /\ k.lastTake = n /\ k.takes = t /\ k.pauses = h.pauses
         /\ k.queue = h.queue
         /\ SameRun(h, k) /\ SameFilm(h, k) /\ SameSegs(h, k) /\ SameTime(h, k)
         /\ SameAsked(h, k)
  BY <1>1, <1>3 DEF Glue, SameRun, SameFilm, SameSegs, SameTime, SameAsked
<1> QED BY <1>4, <1>5 DEF t, n

\* All that a step on the segments alone leaves as it is.
OnlySegs(h, k) ==
  /\ SameRun(h, k) /\ SameFilm(h, k) /\ SameTakes(h, k) /\ SameTime(h, k) /\ SameAsked(h, k)
  /\ k.queue = h.queue

LEMMA SegmentsReplaced ==
  ASSUME NEW h \in Glue, NEW s \in Seq(Segment), NEW o \in BOOLEAN
  PROVE  LET k == [h EXCEPT !.open = o, !.segs = s]
         IN k \in Glue /\ k.open = o /\ k.segs = s /\ OnlySegs(h, k)
BY DEF Glue, OnlySegs, SameRun, SameFilm, SameTakes, SameTime, SameAsked

LEMMA FrontLast ==
  ASSUME NEW S, NEW s \in Seq(S), s # <<>>
  PROVE  /\ Len(s) \in Nat \ {0} /\ Last(s) \in S /\ Last(s) = s[Len(s)]
         /\ Front(s) \in Seq(S) /\ Len(Front(s)) = Len(s) - 1
         /\ \A i \in 1..Len(s) - 1 : Front(s)[i] = s[i]
<1>1. Len(s) \in Nat \ {0} BY EmptySeq
<1>2. \A i \in 1..Len(s) : s[i] \in S BY ElementOfSeq
<1>3. Len(s) - 1 \in Int /\ \A i \in 1..Len(s) - 1 : s[i] \in S BY <1>1, <1>2
<1>4. Front(s) \in Seq(S) BY <1>1, <1>3, SubSeqProperties DEF Front
<1>5. PICK n \in Nat : n = Len(s) - 1 BY <1>1
<1>6. \A i \in 1..n : s[i] \in S BY <1>3, <1>5
<1>7. /\ Len(SubSeq(s, 1, n)) = IF 1 <= n THEN n - 1 + 1 ELSE 0
      /\ \A i \in 1..n - 1 + 1 : SubSeq(s, 1, n)[i] = s[1 + i - 1]
  BY <1>6, SubSeqProperties
<1>8. Front(s) = SubSeq(s, 1, n) BY <1>5 DEF Front
<1>9. Len(Front(s)) = n /\ \A i \in 1..n : Front(s)[i] = s[i] BY <1>7, <1>8
<1> QED BY <1>1, <1>2, <1>4, <1>5, <1>9 DEF Last

Ending(s, at) ==
  LET seg == Last(s)
      end == IF at < seg.start THEN seg.start ELSE at
  IN IF end = seg.start THEN Front(s) ELSE Append(Front(s), [seg EXCEPT !.end = end])

\* The segment in progress ends at the point, and is forgotten if it is empty.
LEMMA EndingGood ==
  ASSUME NEW s \in Seq(Segment), NEW p \in Nat, SegsGood(s, TRUE, p)
  PROVE  /\ Ending(s, p) \in Seq(Segment) /\ SegsGood(Ending(s, p), FALSE, p)
         /\ \A x \in Nat : x < p /\ Cut(s, x) => Cut(Ending(s, p), x)
<1>1. s # <<>> BY DEF SegsGood
<1> DEFINE n == Len(s)  f == Front(s)  seg == s[n]
<1>2. /\ n \in Nat \ {0} /\ seg \in Segment /\ Last(s) = seg
      /\ f \in Seq(Segment) /\ Len(f) = n - 1
      /\ \A i \in 1..n - 1 : f[i] = s[i]
  BY <1>1, FrontLast
<1>3. /\ \A i, j \in 1..n : i < j => s[i].start < s[j].start
      /\ \A i \in 1..n - 1 : s[i].end = s[i + 1].start
      /\ s[1].start = 0 /\ seg.start <= p
  BY <1>1, <1>2 DEF SegsGood
<1>4. \A i \in 1..n : s[i] \in Segment BY <1>2, ElementOfSeq
<1>5. \A i \in 1..n : s[i].start \in Nat /\ s[i].end \in Nat BY <1>4 DEF Segment
<1>6. n \in 1..n /\ seg.start \in Nat BY <1>2, <1>5
<1>7. CASE seg.start = p
  <2>1. Ending(s, p) = f BY <1>2, <1>6, <1>7 DEF Ending
  <2> HIDE DEF f, n
  <2>2. /\ \A i, j \in 1..Len(f) : i < j => f[i].start < f[j].start
        /\ \A i \in 1..Len(f) - 1 : f[i].end = f[i + 1].start
    <3>1. \A i \in 1..Len(f) : i \in 1..n /\ f[i] = s[i] BY <1>2
    <3>2. \A i \in 1..Len(f) - 1 :
            i \in 1..n - 1 /\ i \in 1..Len(f) /\ i + 1 \in 1..Len(f)
      BY <1>2
    <3> QED BY <1>3, <3>1, <3>2
  <2>3. CASE n = 1
    <3>1. Len(f) = 0 BY <1>2, <2>3
    <3>2. f = <<>> BY <3>1, <1>2, EmptySeq
    <3>3. p = 0 BY <1>3, <1>7, <2>3
    <3>4. SegsGood(f, FALSE, p) BY <2>2, <3>2, <3>3 DEF SegsGood
    <3>5. \A x \in Nat : ~(x < p) BY <3>3
    <3>6. f \in Seq(Segment) BY <1>2
    <3> QED BY <2>1, <3>4, <3>5, <3>6
  <2>4. CASE n # 1
    <3>1. n - 1 \in 1..n /\ n - 1 \in 1..n - 1 /\ 1 \in 1..n - 1 /\ n - 1 < n BY <1>2, <2>4
    <3>2. f # <<>> BY <1>2, <3>1, EmptySeq
    <3>3. f[1].start = 0 BY <1>2, <1>3, <3>1
    <3>4. Last(f) = s[n - 1] BY <1>2, <3>1 DEF Last
    <3>5. s[n - 1].end = seg.start /\ s[n - 1].start < seg.start BY <1>2, <1>3, <1>6, <3>1
    <3>6. SegsGood(f, FALSE, p) BY <1>7, <2>2, <3>2, <3>3, <3>4, <3>5 DEF SegsGood
    <3>7. ASSUME NEW x \in Nat, x < p, Cut(s, x) PROVE Cut(f, x)
      <4>1. PICK i \in 1..n : s[i].start = x BY <3>7 DEF Cut, n
      <4>2. i # n BY <1>7, <3>7, <4>1
      <4>3. i \in 1..n - 1 BY <4>2, <1>2
      <4> QED BY <1>2, <4>1, <4>3 DEF Cut
    <3> QED BY <1>2, <2>1, <3>6, <3>7
  <2> QED BY <2>3, <2>4
<1>8. CASE seg.start # p
  <2> DEFINE e == [seg EXCEPT !.end = p]  t == Append(f, e)
  <2>1. seg.start < p BY <1>3, <1>6, <1>8
  <2>2. Ending(s, p) = t BY <1>2, <1>6, <1>8, <2>1 DEF Ending
  <2>3. e \in Segment /\ e.start = seg.start /\ e.end = p BY <1>2 DEF Segment
  <2> HIDE DEF e, f
  <2>4. /\ t \in Seq(Segment) /\ t # <<>> /\ Len(t) = Len(f) + 1
        /\ \A i \in 1..Len(f) : t[i] = f[i]
        /\ t[Len(f) + 1] = e
    BY <1>2, <2>3, AppendProperties
  <2> HIDE DEF t, n
  <2>5. Len(t) = n /\ t[n] = e /\ \A i \in 1..n - 1 : t[i] = s[i] BY <1>2, <2>4
  <2>6. \A i \in 1..n : t[i].start = s[i].start BY <1>2, <2>3, <2>5 DEF n
  <2>7. \A i, j \in 1..Len(t) : i < j => t[i].start < t[j].start BY <1>3, <2>5, <2>6
  <2>8. ASSUME NEW i \in 1..Len(t) - 1 PROVE t[i].end = t[i + 1].start
    <3>1. i \in 1..n - 1 /\ i + 1 \in 1..n BY <1>2, <2>5
    <3> QED BY <1>3, <2>5, <2>6, <3>1
  <2>9. t[1].start = 0 BY <1>2, <1>3, <2>6
  <2>10. Last(t) = e BY <2>5 DEF Last
  <2>11. SegsGood(t, FALSE, p) BY <2>1, <2>3, <2>4, <2>7, <2>8, <2>9, <2>10 DEF SegsGood
  <2>12. \A x \in Nat : Cut(s, x) => Cut(t, x) BY <2>5, <2>6 DEF Cut, n
  <2> QED BY <2>2, <2>4, <2>11, <2>12
<1> QED BY <1>7, <1>8

Beginning(s, at) == Append(s, [start |-> at, end |-> at])

LEMMA BeginningGood ==
  ASSUME NEW s \in Seq(Segment), NEW p \in Nat, SegsGood(s, FALSE, p)
  PROVE  /\ Beginning(s, p) \in Seq(Segment) /\ SegsGood(Beginning(s, p), TRUE, p)
         /\ Cut(Beginning(s, p), p)
         /\ \A x \in Nat : Cut(s, x) => Cut(Beginning(s, p), x)
<1> DEFINE n == Len(s)  b == [start |-> p, end |-> p]  t == Append(s, b)
<1>1. n \in Nat /\ \A i \in 1..n : s[i] \in Segment BY ElementOfSeq
<1>2. \A i \in 1..n : s[i].start \in Nat /\ s[i].end \in Nat BY <1>1 DEF Segment
<1>3. b \in Segment /\ b.start = p BY DEF Segment
<1> HIDE DEF b
<1>4. /\ t \in Seq(Segment) /\ t # <<>> /\ Len(t) = n + 1
      /\ \A i \in 1..n : t[i] = s[i]
      /\ t[n + 1] = b
  BY <1>3, AppendProperties
<1>5. Beginning(s, p) = t BY DEF Beginning, b
<1>6. /\ \A i, j \in 1..n : i < j => s[i].start < s[j].start
      /\ \A i \in 1..n - 1 : s[i].end = s[i + 1].start
  BY DEF SegsGood
<1>7. IF s = <<>> THEN p = 0
      ELSE s[1].start = 0 /\ s[n].start < s[n].end /\ s[n].end = p
  BY DEF SegsGood, Last
<1>8. s # <<>> => n # 0 /\ n \in 1..n BY <1>1, EmptySeq
<1>13. s = <<>> => n = 0 BY EmptySeq
<1> HIDE DEF t, n
<1>9. \A i \in 1..n : s[i].start < p
  <2> SUFFICES ASSUME NEW i \in 1..n PROVE s[i].start < p OBVIOUS
  <2>1. s # <<>> BY <1>1, <1>13
  <2>2. s[n].start < p BY <1>7, <2>1
  <2>3. i = n \/ i < n BY <1>1
  <2>4. i < n => s[i].start < s[n].start BY <1>6, <1>8, <2>1
  <2> QED BY <1>2, <1>8, <2>1, <2>2, <2>3, <2>4
<1>10. \A i, j \in 1..Len(t) : i < j => t[i].start < t[j].start
  <2> SUFFICES ASSUME NEW i \in 1..Len(t), NEW j \in 1..Len(t), i < j
               PROVE  t[i].start < t[j].start
    OBVIOUS
  <2>1. i \in 1..n /\ j \in 1..n + 1 BY <1>1, <1>4
  <2>2. CASE j = n + 1 BY <1>3, <1>4, <1>9, <2>1, <2>2
  <2>3. CASE j # n + 1
    <3>1. j \in 1..n BY <1>1, <2>1, <2>3
    <3> QED BY <1>4, <1>6, <2>1, <3>1
  <2> QED BY <2>2, <2>3
<1>11. \A i \in 1..Len(t) - 1 : t[i].end = t[i + 1].start
  <2> SUFFICES ASSUME NEW i \in 1..Len(t) - 1 PROVE t[i].end = t[i + 1].start
    OBVIOUS
  <2>1. i \in 1..n BY <1>1, <1>4
  <2>2. CASE i = n
    <3>1. s # <<>> BY <1>13, <2>1
    <3> QED BY <1>3, <1>4, <1>7, <2>1, <2>2, <3>1
  <2>3. CASE i # n
    <3>1. i \in 1..n - 1 /\ i + 1 \in 1..n BY <1>1, <2>1, <2>3
    <3> QED BY <1>4, <1>6, <2>1, <3>1
  <2> QED BY <2>2, <2>3
<1>12. t[1].start = 0
  <2>1. CASE s = <<>> BY <1>3, <1>4, <1>7, <1>13, <2>1
  <2>2. CASE s # <<>>
    <3>1. 1 \in 1..n BY <1>1, <1>8, <2>2
    <3> QED BY <1>4, <1>7, <2>2, <3>1
  <2> QED BY <2>1, <2>2
<1>14. Last(t) = b BY <1>4 DEF Last
<1>15. SegsGood(t, TRUE, p) BY <1>3, <1>4, <1>10, <1>11, <1>12, <1>14 DEF SegsGood
<1>16. Cut(t, p)
  <2>1. n + 1 \in 1..Len(t) BY <1>1, <1>4
  <2> QED BY <1>3, <1>4, <2>1 DEF Cut
<1>17. \A x \in Nat : Cut(s, x) => Cut(t, x)
  <2>1. \A i \in 1..n : i \in 1..Len(t) BY <1>1, <1>4
  <2> QED BY <1>4, <2>1 DEF Cut, n
<1> QED BY <1>4, <1>5, <1>15, <1>16, <1>17

LEMMA OnlySegsSame ==
  ASSUME NEW h, NEW k, OnlySegs(h, k)
  PROVE  /\ Count(k) = Count(h) /\ Pos(k) = Pos(h) /\ ShownOf(k) = ShownOf(h)
         /\ (Counted(h) => Counted(k)) /\ (TakesGood(h) => TakesGood(k))
BY DEF OnlySegs, SameRun, SameFilm, SameTakes, SameTime, Count, Pos, ShownOf, Counted, TakesGood

LEMMA EndSegmentFields ==
  ASSUME NEW h \in Glue, NEW at \in Nat
  PROVE  LET k == EndSegment(h, at)
         IN /\ k \in Glue /\ OnlySegs(h, k)
            /\ SegsGood(h.segs, h.open, at) =>
                 /\ ~k.open /\ SegsGood(k.segs, FALSE, at)
                 /\ \A x \in Nat : x < at /\ Cut(h.segs, x) => Cut(k.segs, x)
<1> DEFINE s == h.segs  t == Ending(s, at)  k == EndSegment(h, at)
<1>1. s \in Seq(Segment) /\ h.open \in BOOLEAN BY DEF Glue
<1>2. CASE ~h.open \/ s = <<>>
  <2>1. k = h BY <1>2 DEF EndSegment
  <2>2. OnlySegs(h, h)
    BY DEF OnlySegs, SameRun, SameFilm, SameTakes, SameTime, SameAsked
  <2>3. SegsGood(s, h.open, at) => h.open = FALSE BY <1>1, <1>2 DEF SegsGood
  <2> QED BY <2>1, <2>2, <2>3
<1>3. CASE h.open /\ s # <<>>
  <2> DEFINE r == [h EXCEPT !.open = FALSE, !.segs = t]
  <2>1. k = r BY <1>3 DEF EndSegment, Ending
  <2>2. h.open = TRUE BY <1>1, <1>3
  <2>3. t \in Seq(Segment)
    <3>1. Last(s) \in Segment /\ Front(s) \in Seq(Segment) BY <1>1, <1>3, FrontLast
    <3>2. \A e \in Nat : [Last(s) EXCEPT !.end = e] \in Segment BY <3>1 DEF Segment
    <3>3. \A e \in Nat : Append(Front(s), [Last(s) EXCEPT !.end = e]) \in Seq(Segment)
      BY <3>1, <3>2, AppendProperties
    <3>4. Last(s).start \in Nat BY <3>1 DEF Segment
    <3> QED BY <3>1, <3>3, <3>4 DEF Ending
  <2>4. SegsGood(s, TRUE, at) =>
          /\ SegsGood(t, FALSE, at)
          /\ \A x \in Nat : x < at /\ Cut(s, x) => Cut(t, x)
    BY <1>1, EndingGood
  <2> HIDE DEF t
  <2>5. r \in Glue /\ r.open = FALSE /\ r.segs = t /\ OnlySegs(h, r)
    BY <2>3, SegmentsReplaced
  <2> QED BY <2>1, <2>2, <2>4, <2>5
<1> QED BY <1>2, <1>3

LEMMA BeginSegmentFields ==
  ASSUME NEW h \in Glue, NEW at \in Nat
  PROVE  LET k == BeginSegment(h, at)
         IN /\ k \in Glue /\ OnlySegs(h, k)
            /\ SegsGood(h.segs, h.open, at) =>
                 /\ k.open /\ SegsGood(k.segs, TRUE, at) /\ Cut(k.segs, at)
                 /\ \A x \in Nat : x <= at /\ Cut(h.segs, x) => Cut(k.segs, x)
<1> DEFINE e == EndSegment(h, at)  s == e.segs  t == Beginning(s, at)
           k == BeginSegment(h, at)  r == [e EXCEPT !.open = TRUE, !.segs = t]
<1>1. /\ e \in Glue /\ OnlySegs(h, e)
      /\ SegsGood(h.segs, h.open, at) =>
           /\ SegsGood(s, FALSE, at)
           /\ \A x \in Nat : x < at /\ Cut(h.segs, x) => Cut(s, x)
  BY EndSegmentFields
<1>2. k = r BY DEF BeginSegment, Beginning
<1> HIDE DEF e
<1>3. s \in Seq(Segment) BY <1>1 DEF Glue
<1>4. [start |-> at, end |-> at] \in Segment BY DEF Segment
<1>5. t \in Seq(Segment) BY <1>3, <1>4, AppendProperties DEF Beginning
<1>6. SegsGood(s, FALSE, at) =>
        /\ SegsGood(t, TRUE, at) /\ Cut(t, at)
        /\ \A x \in Nat : Cut(s, x) => Cut(t, x)
  BY <1>3, BeginningGood
<1> HIDE DEF t
<1>7. r \in Glue /\ r.open = TRUE /\ r.segs = t /\ OnlySegs(e, r)
  BY <1>1, <1>5, SegmentsReplaced
<1>8. OnlySegs(h, r)
  BY <1>1, <1>7 DEF OnlySegs, SameRun, SameFilm, SameTakes, SameTime, SameAsked
<1>9. \A x \in Nat : x <= at => x < at \/ x = at OBVIOUS
<1> QED BY <1>1, <1>2, <1>6, <1>7, <1>8, <1>9

LEMMA BeginIfRecordingFields ==
  ASSUME NEW h \in Glue, NEW at \in Nat
  PROVE  LET k == BeginIfRecording(h, at)
         IN /\ k \in Glue /\ OnlySegs(h, k)
            /\ h.state # "recording" => k = h
            /\ h.state = "recording" /\ SegsGood(h.segs, h.open, at) =>
                 /\ k.open /\ SegsGood(k.segs, TRUE, at) /\ Cut(k.segs, at)
                 /\ \A x \in Nat : x <= at /\ Cut(h.segs, x) => Cut(k.segs, x)
<1>1. CASE h.state = "recording" BY <1>1, BeginSegmentFields DEF BeginIfRecording
<1>2. CASE h.state # "recording"
  BY <1>2 DEF BeginIfRecording, OnlySegs, SameRun, SameFilm, SameTakes, SameTime, SameAsked
<1> QED BY <1>1, <1>2

\* A set of numbers that is not empty has a smallest one.
LEMMA Smallest ==
  ASSUME NEW T \in SUBSET Nat, T # {}
  PROVE  \E x \in T : \A y \in T : x <= y
<1> DEFINE R == OpToRel(<, Nat)
<1>1. IsWellFoundedOn(R, Nat) BY NatLessThanWellFounded
<1>2. \A x, y \in Nat : x < y => <<x, y>> \in R BY DEF OpToRel
<1> HIDE DEF R
<1>3. PICK x \in T : \A y \in T : ~ (<<y, x>> \in R) BY <1>1, WFMin
<1>4. \A y \in T : ~ (y < x) BY <1>2, <1>3
<1>5. x \in Nat /\ \A y \in T : y \in Nat OBVIOUS
<1>6. \A y \in Nat : ~ (y < x) => x <= y BY <1>5
<1> QED BY <1>4, <1>5, <1>6

\* Of the segments that begin up to a point one is the last to stay.
LEMMA SomeAreKept ==
  ASSUME NEW s \in Seq(Segment), s # <<>>, NEW at \in Nat
  PROVE  \E k \in 1..Len(s) : IsKept(s, at, k)
<1> DEFINE n == Len(s)  T == {j \in 2..n : s[j].start >= at}
<1>1. n \in Nat \ {0} BY EmptySeq
<1>2. \A i \in 1..n : s[i] \in Segment BY ElementOfSeq
<1>3. \A i \in 1..n : s[i].start \in Nat BY <1>2 DEF Segment
<1>4. \A j \in T : j \in 2..n /\ s[j].start >= at OBVIOUS
<1>5. \A i \in 2..n : i \notin T => s[i].start < at
  <2> SUFFICES ASSUME NEW i \in 2..n, i \notin T PROVE s[i].start < at OBVIOUS
  <2>1. ~(s[i].start >= at) OBVIOUS
  <2>2. s[i].start \in Nat BY <1>1, <1>3
  <2> QED BY <2>1, <2>2
<1>6. CASE T = {}
  <2>1. \A i \in 2..n : s[i].start < at BY <1>5, <1>6
  <2>2. n \in 1..n /\ ~(n < n) BY <1>1
  <2>3. IsKept(s, at, n) BY <2>1, <2>2 DEF IsKept
  <2> QED BY <2>2, <2>3
<1>7. CASE T # {}
  <2>1. T \in SUBSET Nat BY <1>1
  <2> HIDE DEF T
  <2>2. PICK x \in T : \A y \in T : x <= y BY <1>7, <2>1, Smallest
  <2>3. x \in 2..n /\ s[x].start >= at BY <1>4
  <2>4. x - 1 \in 1..n /\ (x - 1) + 1 = x BY <1>1, <2>3
  <2>5. \A i \in 2..x - 1 : i \in 2..n /\ ~(x <= i) BY <1>1, <2>3
  <2>6. \A i \in 2..x - 1 : s[i].start < at BY <1>5, <2>2, <2>5
  <2>7. IsKept(s, at, x - 1) BY <2>3, <2>4, <2>6 DEF IsKept
  <2> QED BY <2>4, <2>7
<1> QED BY <1>6, <1>7

Cutting(s, at, k) ==
  Append(SubSeq(s, 1, k - 1), [s[k] EXCEPT !.end = IF at < s[k].start THEN s[k].start ELSE at])

\* The segments up to a point of the recording, of which the last one goes on.
LEMMA CuttingGood ==
  ASSUME NEW s \in Seq(Segment), NEW at \in Nat, NEW k \in 1..Len(s), IsKept(s, at, k)
  PROVE  /\ Cutting(s, at, k) \in Seq(Segment)
         /\ \A o, p : SegsGood(s, o, p) =>
              /\ SegsGood(Cutting(s, at, k), TRUE, at)
              /\ \A x \in Nat : x < at /\ Cut(s, x) => Cut(Cutting(s, at, k), x)
<1> DEFINE n == Len(s)  a == SubSeq(s, 1, k - 1)
           e == [s[k] EXCEPT !.end = IF at < s[k].start THEN s[k].start ELSE at]
           t == Append(a, e)
<1>1. n \in Nat /\ k \in Nat /\ 1 <= k /\ k <= n BY LenProperties
<1>2. \A i \in 1..n : s[i] \in Segment BY ElementOfSeq
<1>3. \A i \in 1..n : s[i].start \in Nat BY <1>2 DEF Segment
<1>4. e \in Segment /\ e.start = s[k].start BY <1>2, <1>3 DEF Segment
<1>5. a \in Seq(Segment) /\ Len(a) = k - 1 /\ \A i \in 1..k - 1 : a[i] = s[i]
  <2>1. PICK m \in 0..Len(s) : m = k - 1 BY <1>1
  <2>2. /\ SubSeq(s, 1, m) \in Seq(Segment) /\ Len(SubSeq(s, 1, m)) = m
        /\ \A i \in 1..m : SubSeq(s, 1, m)[i] = s[i]
    BY SplitSeq
  <2> QED BY <2>1, <2>2
<1> HIDE DEF a, e
<1>6. /\ t \in Seq(Segment) /\ t # <<>> /\ Len(t) = k
      /\ \A i \in 1..k - 1 : t[i] = s[i]
      /\ t[k] = e
  BY <1>1, <1>4, <1>5, AppendProperties
<1>7. Cutting(s, at, k) = t BY DEF Cutting, a, e
<1> HIDE DEF t
<1>8. \A i \in 1..k : t[i].start = s[i].start
  <2>1. \A i \in 1..k : i = k \/ i \in 1..k - 1 BY <1>1
  <2> QED BY <1>4, <1>6, <2>1
<1>9. /\ \A i \in 2..k : s[i].start < at
      /\ k < n => s[k + 1].start >= at
  BY DEF IsKept
<1> HIDE DEF n
<1>10. ASSUME NEW o, NEW p, SegsGood(s, o, p)
       PROVE  /\ SegsGood(t, TRUE, at)
              /\ \A x \in Nat : x < at /\ Cut(s, x) => Cut(t, x)
  <2>1. /\ \A i, j \in 1..n : i < j => s[i].start < s[j].start
        /\ \A i \in 1..n - 1 : s[i].end = s[i + 1].start
    BY <1>10 DEF SegsGood, n
  <2>2. s[1].start = 0
    <3>1. s # <<>> BY <1>1, EmptySeq DEF n
    <3> QED BY <1>10, <3>1 DEF SegsGood
  <2>3. \A i, j \in 1..Len(t) : i < j => t[i].start < t[j].start
    <3>1. \A i \in 1..Len(t) : i \in 1..n /\ i \in 1..k BY <1>1, <1>6
    <3> QED BY <1>8, <2>1, <3>1
  <2>4. \A i \in 1..Len(t) - 1 : t[i].end = t[i + 1].start
    <3> SUFFICES ASSUME NEW i \in 1..Len(t) - 1 PROVE t[i].end = t[i + 1].start
      OBVIOUS
    <3>1. i \in 1..k - 1 /\ i + 1 \in 1..k /\ i \in 1..n - 1 BY <1>1, <1>6
    <3> QED BY <1>6, <1>8, <2>1, <3>1
  <2>5. t[1].start = 0
    <3>1. 1 \in 1..k BY <1>1
    <3> QED BY <1>8, <2>2, <3>1
  <2>6. Last(t).start = s[k].start BY <1>4, <1>6 DEF Last
  <2>7. s[k].start <= at
    <3>1. CASE k = 1 BY <2>2, <3>1
    <3>2. CASE k # 1
      <4>1. k \in 2..k /\ k \in 1..n BY <1>1, <3>2
      <4> QED BY <1>3, <1>9, <4>1 DEF n
    <3> QED BY <3>1, <3>2
  <2>8. SegsGood(t, TRUE, at) BY <1>6, <2>3, <2>4, <2>5, <2>6, <2>7 DEF SegsGood
  <2>9. ASSUME NEW x \in Nat, x < at, Cut(s, x) PROVE Cut(t, x)
    <3>1. PICK i \in 1..n : s[i].start = x BY <2>9 DEF Cut, n
    <3>2. ~(k < i)
      <4> SUFFICES ASSUME k < i PROVE FALSE OBVIOUS
      <4>1. k < n /\ k + 1 \in 1..n /\ (k + 1 = i \/ k + 1 < i) BY <1>1
      <4>2. s[k + 1].start <= s[i].start BY <1>3, <2>1, <4>1 DEF n
      <4>3. s[k + 1].start \in Nat /\ s[i].start \in Nat BY <1>3, <4>1 DEF n
      <4>4. s[k + 1].start >= at BY <1>9, <4>1
      <4> QED BY <2>9, <3>1, <4>2, <4>3, <4>4
    <3>3. i \in 1..Len(t) /\ i \in 1..k BY <1>1, <1>6, <3>2
    <3> QED BY <1>8, <3>1, <3>3 DEF Cut
  <2> QED BY <2>8, <2>9
<1> QED BY <1>6, <1>7, <1>10

\* The recording cut at a point.
LEMMA TruncateFields ==
  ASSUME NEW h \in Glue, NEW at \in Nat
  PROVE  LET k == TruncateSegments(h, at)
         IN /\ k \in Glue /\ OnlySegs(h, k)
            /\ h.segs = <<>> => ~k.open /\ k.segs = <<>>
            /\ \A o, p : h.segs # <<>> /\ SegsGood(h.segs, o, p) =>
                 /\ k.open /\ SegsGood(k.segs, TRUE, at)
                 /\ \A x \in Nat : x < at /\ Cut(h.segs, x) => Cut(k.segs, x)
<1> DEFINE s == h.segs  k == TruncateSegments(h, at)
<1>1. s \in Seq(Segment) /\ h.open \in BOOLEAN BY DEF Glue
<1>2. CASE s = <<>>
  <2> DEFINE r == [h EXCEPT !.open = FALSE]
  <2>1. k = r BY <1>2 DEF TruncateSegments
  <2>2. r \in Glue /\ r.open = FALSE /\ r.segs = s /\ OnlySegs(h, r)
    BY DEF Glue, OnlySegs, SameRun, SameFilm, SameTakes, SameTime, SameAsked
  <2> HIDE DEF k, r
  <2> QED BY <1>2, <2>1, <2>2 DEF k
<1>3. CASE s # <<>>
  <2> DEFINE i == CHOOSE j \in 1..Len(s) : IsKept(s, at, j)
             t == Cutting(s, at, i)
             r == [h EXCEPT !.open = TRUE, !.segs = t]
  <2>1. k = r BY <1>3 DEF TruncateSegments, Cutting
  <2>2. i \in 1..Len(s) /\ IsKept(s, at, i) BY <1>1, <1>3, SomeAreKept
  <2> HIDE DEF i
  <2>3. /\ t \in Seq(Segment)
        /\ \A o, p : SegsGood(s, o, p) =>
             /\ SegsGood(t, TRUE, at)
             /\ \A x \in Nat : x < at /\ Cut(s, x) => Cut(t, x)
    BY <1>1, <2>2, CuttingGood
  <2> HIDE DEF t
  <2>4. r \in Glue /\ r.open = TRUE /\ r.segs = t /\ OnlySegs(h, r)
    BY <2>3, SegmentsReplaced
  <2> HIDE DEF k, r
  <2> QED BY <1>3, <2>1, <2>3, <2>4 DEF k
<1> QED BY <1>2, <1>3

-----------------------------------------------------------------------------
(* What the sections of the glue are made of does. *)

SameShown(h, k) == ShownOf(k) = ShownOf(h) /\ Count(k) = Count(h)

TakeBegun(h, k, at) ==
  /\ k.lastTake = h.lastTake + 1 /\ k.pauses = h.pauses
  /\ k.takes = Append(h.takes, [id |-> h.lastTake + 1, start |-> at, rt |-> k.rtOn])

\* All that a request leaves as it is.
OnlyAsked(h, k) ==
  /\ SameRun(h, k) /\ SameFilm(h, k) /\ SameSegs(h, k) /\ SameTakes(h, k) /\ SameTime(h, k)
  /\ k.queue = h.queue

\* The segments stay right, and no cut in what was recorded is lost.
SegStep(h, k) ==
  SegsRight(h) =>
    /\ SegsRight(k)
    /\ \A x \in Nat : x < Count(h) /\ Cut(h.segs, x) => Cut(k.segs, x)

\* Frames are added, and behind a cut that was there too.
Kept(h, k) == \A x \in Nat : x < Count(k) /\ Cut(h.segs, x) => Cut(k.segs, x)

LEMMA PosFields ==
  ASSUME NEW h \in Glue
  PROVE  /\ Count(h) \in Nat /\ Pos(h) \in Nat /\ Count(h) <= Pos(h)
         /\ h.rtOn /\ h.state = "recording" => Pos(h) = Count(h) + h.fifo
         /\ ~(h.rtOn /\ h.state = "recording") => Pos(h) = Count(h)
<1>1. h.next \in Nat /\ Len(h.pend) \in Nat /\ h.fifo \in Nat BY DEF Glue
<1>2. Count(h) \in Nat BY <1>1 DEF Count
<1>3. h.rtOn /\ h.state = "recording" => Pos(h) = Count(h) + h.fifo BY DEF Pos
<1>4. ~(h.rtOn /\ h.state = "recording") => Pos(h) = Count(h) + 0 BY DEF Pos
<1> QED BY <1>1, <1>2, <1>3, <1>4

LEMMA OnlyAskedSame ==
  ASSUME NEW h, NEW k, OnlyAsked(h, k)
  PROVE  /\ SameShown(h, k) /\ Pos(k) = Pos(h) /\ (Counted(h) => Counted(k))
         /\ (SegsRight(h) => SegsRight(k)) /\ SegStep(h, k)
<1>1. Count(k) = Count(h) /\ ShownOf(k) = ShownOf(h)
  BY DEF OnlyAsked, SameFilm, Count, ShownOf
<1>2. Pos(k) = Pos(h) BY <1>1 DEF OnlyAsked, SameRun, SameTime, Pos
<1>3. k.segs = h.segs /\ k.open = h.open /\ k.state = h.state
  BY DEF OnlyAsked, SameSegs, SameRun
<1>4. SegsRight(h) => SegsRight(k) BY <1>2, <1>3 DEF SegsRight
<1>5. Counted(h) => Counted(k) BY DEF OnlyAsked, SameFilm, Counted
<1> QED BY <1>1, <1>2, <1>3, <1>4, <1>5 DEF SameShown, SegStep

LEMMA WroteNothing ==
  ASSUME NEW h \in Glue, NEW k, k.next = h.next, k.queue = h.queue
  PROVE  Wrote(h, k)
<1>1. h.next \in Nat /\ h.queue \in Seq(Plain \cup Sidecar) BY DEF Glue
<1>2. FrameMessages(h.next, 0) = <<>>
  <2>1. FrameMessages(h.next, 0) \in Seq(Plain \cup Sidecar) /\ Len(FrameMessages(h.next, 0)) = 0
    BY <1>1, MessagesTyped
  <2> QED BY <2>1, EmptySeq
<1>3. h.queue \o <<>> = h.queue BY <1>1, ConcatEmptySeq
<1>4. k.next - h.next = 0 /\ k.next >= h.next BY <1>1
<1> QED BY <1>2, <1>3, <1>4 DEF Wrote

LEMMA MessagesJoin ==
  ASSUME NEW n \in Nat, NEW a \in Nat, NEW b \in Nat
  PROVE  FrameMessages(n, a) \o FrameMessages(n + a, b) = FrameMessages(n, a + b)
<1> DEFINE s == FrameMessages(n, a)  t == FrameMessages(n + a, b)  u == FrameMessages(n, a + b)
           M == Plain \cup Sidecar
<1>1. n + a \in Nat /\ a + b \in Nat OBVIOUS
<1>2. s \in Seq(M) /\ Len(s) = a /\ t \in Seq(M) /\ Len(t) = b /\ u \in Seq(M) /\ Len(u) = a + b
  BY <1>1, MessagesTyped
<1>3. /\ \A i \in 1..a : s[i] = [type |-> "frame", n |-> n + i - 1]
      /\ \A i \in 1..b : t[i] = [type |-> "frame", n |-> (n + a) + i - 1]
      /\ \A i \in 1..a + b : u[i] = [type |-> "frame", n |-> n + i - 1]
  BY DEF FrameMessages
<1> HIDE DEF s, t, u
<1>4. /\ s \o t \in Seq(M) /\ Len(s \o t) = a + b
      /\ \A i \in 1..a + b : (s \o t)[i] = IF i <= a THEN s[i] ELSE t[i - a]
  BY <1>2, ConcatProperties
<1>5. ASSUME NEW i \in 1..a + b PROVE (s \o t)[i] = u[i]
  <2>1. CASE i <= a
    <3>1. i \in 1..a BY <2>1
    <3> QED BY <1>3, <1>4, <2>1, <3>1
  <2>2. CASE ~(i <= a)
    <3>1. i - a \in 1..b /\ (n + a) + (i - a) - 1 = n + i - 1 BY <2>2
    <3>2. t[i - a] = [type |-> "frame", n |-> n + i - 1] BY <1>3, <3>1
    <3> QED BY <1>3, <1>4, <2>2, <3>2
  <2> QED BY <2>1, <2>2
<1>6. s \o t = u BY <1>2, <1>4, <1>5, SeqEqual
<1> QED BY <1>6 DEF s, t, u

LEMMA WroteBoth ==
  ASSUME NEW h \in Glue, NEW k \in Glue, NEW l \in Glue, Wrote(h, k), Wrote(k, l)
  PROVE  Wrote(h, l)
<1> DEFINE M == Plain \cup Sidecar
<1>1. /\ h.next \in Nat /\ k.next \in Nat /\ l.next \in Nat /\ h.queue \in Seq(M)
      /\ k.next >= h.next /\ l.next >= k.next
  BY DEF Glue, Wrote
<1>2. PICK a \in Nat : a = k.next - h.next BY <1>1
<1>3. PICK b \in Nat : b = l.next - k.next BY <1>1
<1>4. k.next = h.next + a /\ l.next - h.next = a + b BY <1>1, <1>2, <1>3
<1> DEFINE s == FrameMessages(h.next, a)  t == FrameMessages(h.next + a, b)
<1>5. l.queue = (h.queue \o s) \o t BY <1>2, <1>3, <1>4 DEF Wrote
<1>6. s \in Seq(M) /\ t \in Seq(M)
  <2>1. h.next + a \in Nat BY <1>1
  <2> QED BY <1>1, <2>1, MessagesTyped
<1>7. s \o t = FrameMessages(h.next, a + b) BY <1>1, MessagesJoin
<1> HIDE DEF s, t
<1>8. \A x, y, z \in Seq(M) : (x \o y) \o z = x \o (y \o z) BY ConcatAssociative
<1>9. l.queue = h.queue \o (s \o t) BY <1>1, <1>5, <1>6, <1>8
<1>10. l.next >= h.next BY <1>1
<1> QED BY <1>4, <1>7, <1>9, <1>10 DEF Wrote

\* A cut where the picture is.
LEMMA SeamFields ==
  ASSUME NEW h \in Glue, Counted(h), ~h.rtOn
  PROVE  LET k == Seam(h)
         IN /\ k \in Glue /\ Counted(k) /\ k.pend = <<>> /\ SameShown(h, k) /\ Wrote(h, k)
            /\ SameRun(h, k) /\ SameTime(h, k) /\ TakeBegun(h, k, Count(h))
            /\ ~k.reqSnap /\ k.reqStop = h.reqStop /\ k.reqToggle = h.reqToggle
            /\ k.req = h.req /\ k.snapInfo = h.snapInfo
            /\ SegStep(h, k)
            /\ SegsRight(h) /\ h.state = "recording" => Cut(k.segs, Count(h))
<1> DEFINE f == Flush(h)  e == [f EXCEPT !.reqSnap = FALSE]  n == Count(h)
           t == BeginTake(e, n)  k == BeginIfRecording(t, n)
<1>1. n \in Nat /\ Pos(h) = n BY PosFields
<1>2. /\ f \in Glue /\ Counted(f) /\ f.next = n /\ f.pend = <<>>
      /\ ShownOf(f) = ShownOf(h) /\ Count(f) = n
      /\ f.queue = h.queue \o FrameMessages(h.next, f.next - h.next)
      /\ SameRun(h, f) /\ SameSegs(h, f) /\ SameTakes(h, f) /\ SameTime(h, f) /\ SameAsked(h, f)
  BY FlushFields
<1>3. f.next >= h.next
  <2>1. h.next \in Nat /\ Len(h.pend) \in Nat BY DEF Glue
  <2>2. n = h.next + Len(h.pend) BY DEF Count
  <2> HIDE DEF n, f
  <2>3. f.next = n BY <1>2
  <2> QED BY <2>1, <2>2, <2>3
<1> HIDE DEF f, n
<1>4. /\ e \in Glue /\ OnlyAsked(f, e) /\ ~e.reqSnap /\ e.snapInfo = f.snapInfo
      /\ e.reqStop = f.reqStop /\ e.reqToggle = f.reqToggle /\ e.req = f.req
  BY <1>2 DEF Glue, OnlyAsked, SameRun, SameFilm, SameSegs, SameTakes, SameTime
<1> HIDE DEF e
<1>5. /\ t \in Glue /\ t.lastTake = e.lastTake + 1 /\ t.pauses = e.pauses
      /\ t.takes = Append(e.takes, [id |-> e.lastTake + 1, start |-> n, rt |-> e.rtOn])
      /\ t.queue = e.queue
      /\ SameRun(e, t) /\ SameFilm(e, t) /\ SameSegs(e, t) /\ SameTime(e, t) /\ SameAsked(e, t)
  BY <1>1, <1>4, BeginTakeFields
<1> HIDE DEF t
<1>6. /\ SameRun(h, t) /\ SameFilm(f, t) /\ SameSegs(h, t) /\ SameTime(h, t)
      /\ TakeBegun(h, t, n) /\ t.queue = f.queue
      /\ ~t.reqSnap /\ t.reqStop = h.reqStop /\ t.reqToggle = h.reqToggle
      /\ t.req = h.req /\ t.snapInfo = h.snapInfo
  BY <1>2, <1>4, <1>5
  DEF SameRun, SameFilm, SameSegs, SameTime, SameTakes, SameAsked, TakeBegun, OnlyAsked
<1>7. ShownOf(t) = ShownOf(f) /\ Count(t) = Count(f) /\ Counted(t)
  BY <1>2, <1>6 DEF SameFilm, ShownOf, Count, Counted
<1>8. Seam(h) = k
  <2>1. Count(t) = n BY <1>2, <1>7
  <2> QED BY <2>1 DEF Seam, t, e, f, n
<1>9. /\ k \in Glue /\ OnlySegs(t, k)
      /\ t.state # "recording" => k = t
      /\ t.state = "recording" /\ SegsGood(t.segs, t.open, n) =>
           /\ k.open /\ SegsGood(k.segs, TRUE, n) /\ Cut(k.segs, n)
           /\ \A x \in Nat : x <= n /\ Cut(t.segs, x) => Cut(k.segs, x)
  BY <1>1, <1>5, BeginIfRecordingFields
<1> HIDE DEF k
<1>10. Count(k) = n /\ Pos(k) = n /\ ShownOf(k) = ShownOf(h) /\ Counted(k) /\ k.pend = <<>>
  <2>1. Count(k) = n /\ ShownOf(k) = ShownOf(h) /\ Counted(k)
    BY <1>2, <1>7, <1>9, OnlySegsSame
  <2>2. k.pend = <<>> /\ ~k.rtOn
    BY <1>2, <1>6, <1>9 DEF OnlySegs, SameFilm, SameTime
  <2> QED BY <1>9, <2>1, <2>2, PosFields
<1>11. Wrote(h, k) BY <1>2, <1>3, <1>6, <1>9 DEF Wrote, OnlySegs, SameFilm
<1>12. /\ SameRun(h, k) /\ SameTime(h, k) /\ TakeBegun(h, k, n)
       /\ ~k.reqSnap /\ k.reqStop = h.reqStop /\ k.reqToggle = h.reqToggle
       /\ k.req = h.req /\ k.snapInfo = h.snapInfo
  BY <1>6, <1>9 DEF OnlySegs, SameRun, SameTime, SameTakes, SameAsked, TakeBegun
<1>13. SegsRight(h) => SegsGood(t.segs, t.open, n)
  BY <1>1, <1>6 DEF SegsRight, SameSegs
<1>14. ASSUME SegsRight(h)
       PROVE  /\ SegsRight(k) /\ (h.state = "recording" => Cut(k.segs, n))
              /\ \A x \in Nat : x < n /\ Cut(h.segs, x) => Cut(k.segs, x)
  <2>1. t.segs = h.segs /\ t.state = h.state /\ k.state = h.state /\ t.open = h.open
    BY <1>6, <1>12 DEF SameSegs, SameRun
  <2>2. CASE h.state = "recording"
    <3>1. \A x \in Nat : x < n => x <= n BY <1>1
    <3>2. k.open = TRUE BY <1>9, <1>13, <1>14, <2>1, <2>2 DEF Glue
    <3> QED BY <1>9, <1>10, <1>13, <1>14, <2>1, <2>2, <3>1, <3>2 DEF SegsRight
  <2>3. CASE h.state # "recording"
    <3>1. k = t BY <1>9, <2>1, <2>3
    <3> QED BY <1>10, <1>13, <1>14, <2>1, <2>3, <3>1 DEF SegsRight
  <2> QED BY <2>2, <2>3
<1> QED BY <1>2, <1>8, <1>9, <1>10, <1>11, <1>12, <1>14 DEF n, SegStep, SameShown

\* A segment begins where the picture is, or not before: all is right again.
LEMMA BeginIfRecordingRight ==
  ASSUME NEW t \in Glue, NEW at \in Nat, SegsGood(t.segs, t.open, at),
         t.open <=> t.state = "recording",
         IF t.state = "recording" THEN at <= Pos(t) ELSE Pos(t) = at
  PROVE  LET k == BeginIfRecording(t, at)
         IN /\ SegsRight(k) /\ (t.state = "recording" => Cut(k.segs, at))
            /\ \A x \in Nat : x <= at /\ Cut(t.segs, x) => Cut(k.segs, x)
<1> DEFINE k == BeginIfRecording(t, at)
<1>1. /\ k \in Glue /\ OnlySegs(t, k)
      /\ t.state # "recording" => k = t
      /\ t.state = "recording" =>
           /\ k.open /\ SegsGood(k.segs, TRUE, at) /\ Cut(k.segs, at)
           /\ \A x \in Nat : x <= at /\ Cut(t.segs, x) => Cut(k.segs, x)
  BY BeginIfRecordingFields
<1> HIDE DEF k
<1>2. Pos(k) = Pos(t) /\ k.state = t.state BY <1>1, OnlySegsSame DEF OnlySegs, SameRun
<1>3. CASE t.state # "recording"
  <2>1. k = t BY <1>1, <1>3
  <2>2. SegsRight(t) BY <1>3 DEF SegsRight
  <2> QED BY <1>3, <2>1, <2>2 DEF k
<1>4. CASE t.state = "recording"
  <2>1. k.open = TRUE BY <1>1, <1>4 DEF Glue
  <2>2. Pos(t) \in Nat /\ at <= Pos(t) BY <1>4, PosFields
  <2>3. k.segs \in Seq(Segment) BY <1>1 DEF Glue
  <2>4. SegsGood(k.segs, TRUE, Pos(t))
    <3>1. SegsGood(k.segs, TRUE, at) BY <1>1, <1>4
    <3>2. k.segs # <<>> BY <3>1 DEF SegsGood
    <3>3. Last(k.segs) \in Segment BY <2>3, <3>2, FrontLast
    <3>4. Last(k.segs).start \in Nat BY <3>3 DEF Segment
    <3>5. Last(k.segs).start <= Pos(t) BY <2>2, <3>1, <3>4 DEF SegsGood
    <3> QED BY <3>1, <3>5 DEF SegsGood
  <2>5. SegsRight(k) BY <1>2, <1>4, <2>1, <2>4 DEF SegsRight
  <2> QED BY <1>1, <1>4, <2>5 DEF k
<1> QED BY <1>3, <1>4

\* Segments that are right stay right when the picture goes on.
LEMMA SegsRightLater ==
  ASSUME NEW h \in Glue, NEW k \in Glue, SegsRight(h), SameSegs(h, k), k.state = h.state,
         IF h.state = "recording" THEN Pos(h) <= Pos(k) ELSE Pos(k) = Pos(h)
  PROVE  SegsRight(k)
<1>1. k.segs = h.segs /\ k.open = h.open /\ k.segs \in Seq(Segment) /\ k.open \in BOOLEAN
  BY DEF SameSegs, Glue
<1>2. CASE h.state = "recording"
  <2>1. k.open = TRUE BY <1>1, <1>2 DEF SegsRight
  <2>2. SegsGood(k.segs, TRUE, Pos(h)) BY <1>1, <2>1 DEF SegsRight
  <2>3. k.segs # <<>> BY <2>2 DEF SegsGood
  <2>4. Last(k.segs) \in Segment BY <1>1, <2>3, FrontLast
  <2>5. Last(k.segs).start \in Nat BY <2>4 DEF Segment
  <2>6. Pos(h) \in Nat /\ Pos(k) \in Nat /\ Pos(h) <= Pos(k) BY <1>2, PosFields
  <2>7. Last(k.segs).start <= Pos(k) BY <2>2, <2>5, <2>6 DEF SegsGood
  <2>8. SegsGood(k.segs, TRUE, Pos(k)) BY <2>2, <2>7 DEF SegsGood
  <2> QED BY <1>2, <2>1, <2>8 DEF SegsRight
<1>3. CASE h.state # "recording"
  BY <1>1, <1>3 DEF SegsRight
<1> QED BY <1>2, <1>3

\* Real time is entered: the pipe empties and the delay begins.
LEMMA EnterFields ==
  ASSUME NEW h \in Glue, Counted(h), ~h.rtOn, h.fifo = 0
  PROVE  LET k == Enter(h)
         IN /\ k \in Glue /\ Counted(k) /\ k.pend = <<>> /\ SameShown(h, k) /\ Wrote(h, k)
            /\ SameRun(h, k) /\ SameAsked(h, k) /\ TakeBegun(h, k, Count(h))
            /\ k.rtOn /\ ~k.leaving /\ k.fifo = Delay
            /\ SegStep(h, k)
            /\ SegsRight(h) /\ h.state = "recording" => Count(h) = 0 \/ Cut(k.segs, Count(h))
<1> DEFINE f == Flush(h)  e == [f EXCEPT !.rtOn = TRUE, !.leaving = FALSE]  p == Prime(e)
           n == Count(h)
           t == BeginTake(p, n)  k == IF n > 0 THEN BeginIfRecording(t, n) ELSE t
<1>1. n \in Nat /\ Pos(h) = n BY PosFields
<1>2. /\ f \in Glue /\ Counted(f) /\ f.next = n /\ f.pend = <<>>
      /\ ShownOf(f) = ShownOf(h) /\ Count(f) = n
      /\ f.queue = h.queue \o FrameMessages(h.next, f.next - h.next)
      /\ SameRun(h, f) /\ SameSegs(h, f) /\ SameTakes(h, f) /\ SameTime(h, f) /\ SameAsked(h, f)
  BY FlushFields
<1>3. f.next >= h.next
  <2>1. h.next \in Nat /\ Len(h.pend) \in Nat BY DEF Glue
  <2>2. n = h.next + Len(h.pend) BY DEF Count
  <2> HIDE DEF n, f
  <2>3. f.next = n BY <1>2
  <2> QED BY <2>1, <2>2, <2>3
<1> HIDE DEF f, n
<1>4. /\ e \in Glue /\ e.rtOn = TRUE /\ e.leaving = FALSE /\ e.fifo = f.fifo /\ e.queue = f.queue
      /\ SameRun(f, e) /\ SameFilm(f, e) /\ SameSegs(f, e) /\ SameTakes(f, e) /\ SameAsked(f, e)
  BY <1>2 DEF Glue, SameRun, SameFilm, SameSegs, SameTakes, SameAsked
<1> HIDE DEF e
<1>5. /\ p \in Glue /\ p.fifo = Delay
      /\ p.rtOn = e.rtOn /\ p.leaving = e.leaving /\ p.queue = e.queue
      /\ SameRun(e, p) /\ SameFilm(e, p) /\ SameSegs(e, p) /\ SameTakes(e, p)
      /\ SameAsked(e, p)
  <2>1. e.fifo <= Delay BY <1>2, <1>4, RecordingAssumption DEF SameTime
  <2> QED BY <1>4, <2>1, PrimeFields
<1> HIDE DEF p
<1>6. /\ t \in Glue /\ t.lastTake = p.lastTake + 1 /\ t.pauses = p.pauses
      /\ t.takes = Append(p.takes, [id |-> p.lastTake + 1, start |-> n, rt |-> p.rtOn])
      /\ t.queue = p.queue
      /\ SameRun(p, t) /\ SameFilm(p, t) /\ SameSegs(p, t) /\ SameTime(p, t) /\ SameAsked(p, t)
  BY <1>1, <1>5, BeginTakeFields
<1>7. Enter(h) = k
  <2>1. p.next = n BY <1>2, <1>4, <1>5 DEF SameFilm
  <2> QED BY <2>1 DEF Enter, t, p, e, f, n
<1> HIDE DEF t
<1>8. /\ SameRun(h, t) /\ SameFilm(f, t) /\ SameSegs(h, t) /\ SameAsked(h, t)
      /\ t.rtOn = TRUE /\ t.leaving = FALSE /\ t.fifo = Delay
      /\ TakeBegun(h, t, n) /\ t.queue = f.queue
  BY <1>2, <1>4, <1>5, <1>6
  DEF SameRun, SameFilm, SameSegs, SameTime, SameTakes, SameAsked, TakeBegun
<1>9. ShownOf(t) = ShownOf(h) /\ Count(t) = n /\ Counted(t) /\ t.pend = <<>> /\ t.next = n
  BY <1>2, <1>8 DEF SameFilm, ShownOf, Count, Counted
<1>10. k \in Glue /\ OnlySegs(t, k)
  <2>1. OnlySegs(t, t) BY DEF OnlySegs, SameRun, SameFilm, SameTakes, SameTime, SameAsked
  <2> QED BY <1>1, <1>6, <2>1, BeginIfRecordingFields
<1>12. /\ t.state = h.state /\ t.segs = h.segs /\ t.open = h.open
       /\ n <= Pos(t) /\ Pos(t) \in Nat /\ (t.state # "recording" => Pos(t) = n)
  BY <1>6, <1>8, <1>9, PosFields DEF SameRun, SameSegs
<1>13. ASSUME SegsRight(h)
       PROVE  /\ SegsRight(k) /\ (h.state = "recording" => n = 0 \/ Cut(k.segs, n))
              /\ \A x \in Nat : x < n /\ Cut(h.segs, x) => Cut(k.segs, x)
  <2>1. CASE n > 0
    <3>1. k = BeginIfRecording(t, n) BY <2>1
    <3>2. SegsGood(t.segs, t.open, n) BY <1>1, <1>12, <1>13 DEF SegsRight
    <3>3. t.open <=> t.state = "recording" BY <1>12, <1>13 DEF SegsRight
    <3>4. \A x \in Nat : x < n => x <= n BY <1>1
    <3> HIDE DEF k
    <3>5. /\ SegsRight(k) /\ (t.state = "recording" => Cut(k.segs, n))
          /\ \A x \in Nat : x <= n /\ Cut(t.segs, x) => Cut(k.segs, x)
      BY <1>1, <1>6, <1>12, <3>1, <3>2, <3>3, BeginIfRecordingRight
    <3> QED BY <1>12, <3>4, <3>5
  <2>2. CASE ~(n > 0)
    <3>1. k = t /\ n = 0 BY <1>1, <2>2
    <3> HIDE DEF k
    <3>2. SegsRight(t) BY <1>1, <1>6, <1>8, <1>12, <1>13, SegsRightLater
    <3> QED BY <1>12, <3>1, <3>2
  <2> QED BY <2>1, <2>2
<1> HIDE DEF k
<1>14. ShownOf(k) = ShownOf(h) /\ Count(k) = n /\ Counted(k)
  BY <1>9, <1>10, OnlySegsSame
<1>15. /\ SameRun(h, k) /\ SameAsked(h, k) /\ TakeBegun(h, k, n) /\ k.pend = <<>>
       /\ k.rtOn /\ ~k.leaving /\ k.fifo = Delay
  BY <1>8, <1>9, <1>10
  DEF OnlySegs, SameRun, SameTime, SameTakes, SameAsked, SameFilm, TakeBegun
<1>16. Wrote(h, k) BY <1>2, <1>3, <1>8, <1>10 DEF Wrote, OnlySegs, SameFilm
<1> QED BY <1>7, <1>10, <1>13, <1>14, <1>15, <1>16 DEF n, SegStep, SameShown

Grown(h, k, b) ==
  b \in Nat /\ ShownOf(k) = ShownOf(h) \o Blanks(b) /\ Count(k) = Count(h) + b

\* All that waits for the delay is written, if anything is.
LEMMA DrainAllFields ==
  ASSUME NEW h \in Glue, Counted(h), h.rtOn, h.pend = <<>>
  PROVE  LET k == DrainAll(h)
         IN /\ k \in Glue /\ Counted(k) /\ k.pend = <<>> /\ Count(k) = Pos(h) /\ Wrote(h, k)
            /\ \E b \in Nat : Grown(h, k, b)
            /\ k.fifo = 0 /\ k.rtOn = h.rtOn /\ k.leaving = h.leaving
            /\ SameRun(h, k) /\ SameSegs(h, k) /\ SameTakes(h, k) /\ SameAsked(h, k)
<1> DEFINE k == DrainAll(h)
<1>1. h.next \in Nat /\ h.fifo \in Nat BY DEF Glue
<1>2. PICK b \in 0..h.fifo :
        /\ h.state # "recording" => b = 0
        /\ h.state = "recording" /\ h.fifo >= h.fifo => b = h.fifo
        /\ k \in Glue /\ Counted(k)
        /\ k.content = h.content \o Blanks(b) /\ k.next = h.next + b /\ k.pend = h.pend
        /\ k.queue = h.queue \o FrameMessages(h.next, b)
        /\ k.fifo = 0 /\ k.rtOn = h.rtOn /\ k.leaving = h.leaving
        /\ SameRun(h, k) /\ SameSegs(h, k) /\ SameTakes(h, k) /\ SameAsked(h, k)
  BY <1>1, DrainFields DEF DrainAll
<1> HIDE DEF k
<1>3. ShownOf(h) = h.content /\ Count(h) = h.next BY EmptyPipe
<1>4. k.pend = <<>> BY <1>2
<1>5. ShownOf(k) = k.content /\ Count(k) = k.next BY <1>2, <1>4, EmptyPipe
<1>6. b \in Nat /\ k.next = h.next + b BY <1>1, <1>2
<1>7. Grown(h, k, b) BY <1>2, <1>3, <1>5, <1>6 DEF Grown
<1>8. Count(k) = Pos(h)
  <2>1. CASE h.state = "recording"
    <3>1. b = h.fifo BY <1>1, <1>2, <2>1
    <3> QED BY <1>3, <1>5, <1>6, <2>1, <3>1, PosFields
  <2>2. CASE h.state # "recording"
    <3>1. b = 0 BY <1>2, <2>2
    <3> QED BY <1>1, <1>3, <1>5, <1>6, <2>2, <3>1, PosFields
  <2> QED BY <2>1, <2>2
<1>9. Wrote(h, k)
  <2>1. k.next - h.next = b /\ k.next >= h.next BY <1>1, <1>6
  <2> QED BY <1>2, <2>1 DEF Wrote
<1> QED BY <1>2, <1>4, <1>6, <1>7, <1>8, <1>9 DEF k

\* Real time is left: the frames of its delay are written at once.
LEMMA LeaveFields ==
  ASSUME NEW h \in Glue, Counted(h), h.rtOn, h.pend = <<>>
  PROVE  LET k == Leave(h)
         IN /\ k \in Glue /\ Counted(k) /\ k.pend = <<>> /\ Count(k) = Pos(h) /\ Wrote(h, k)
            /\ \E b \in Nat : Grown(h, k, b)
            /\ SameRun(h, k) /\ SameAsked(h, k) /\ TakeBegun(h, k, Count(k))
            /\ ~k.rtOn /\ ~k.leaving /\ k.fifo = 0
            /\ SegStep(h, k)
            /\ SegsRight(h) => Kept(h, k)
            /\ SegsRight(h) /\ h.state = "recording" => Cut(k.segs, Count(k))
<1> DEFINE d == DrainAll(h)  e == [d EXCEPT !.rtOn = FALSE, !.leaving = FALSE, !.pend = <<>>]
           n == Pos(h)
           t == BeginTake(e, n)  k == BeginIfRecording(t, n)
<1>1. n \in Nat /\ Count(h) <= n /\ Count(h) \in Nat BY PosFields
<1>2. /\ d \in Glue /\ Counted(d) /\ d.pend = <<>> /\ Count(d) = n /\ Wrote(h, d)
      /\ d.fifo = 0
      /\ SameRun(h, d) /\ SameSegs(h, d) /\ SameTakes(h, d) /\ SameAsked(h, d)
  BY DrainAllFields
<1>3. PICK b \in Nat : Grown(h, d, b) BY DrainAllFields
<1> HIDE DEF d, n
<1>4. d.next = n BY <1>2, EmptyPipe
<1>5. /\ e \in Glue /\ e.rtOn = FALSE /\ e.leaving = FALSE /\ e.fifo = d.fifo /\ e.queue = d.queue
      /\ SameRun(d, e) /\ SameFilm(d, e) /\ SameSegs(d, e) /\ SameTakes(d, e) /\ SameAsked(d, e)
  <2>1. <<>> \in Seq(Taped) BY EmptySeq
  <2> QED BY <1>2, <2>1 DEF Glue, SameRun, SameFilm, SameSegs, SameTakes, SameAsked
<1> HIDE DEF e
<1>6. /\ t \in Glue /\ t.lastTake = e.lastTake + 1 /\ t.pauses = e.pauses
      /\ t.takes = Append(e.takes, [id |-> e.lastTake + 1, start |-> n, rt |-> e.rtOn])
      /\ t.queue = e.queue
      /\ SameRun(e, t) /\ SameFilm(e, t) /\ SameSegs(e, t) /\ SameTime(e, t) /\ SameAsked(e, t)
  BY <1>1, <1>5, BeginTakeFields
<1> HIDE DEF t
<1>7. e.next = n /\ t.next = n BY <1>4, <1>5, <1>6 DEF SameFilm
<1>8. Leave(h) = k BY <1>7 DEF Leave, t, e, d
<1>9. /\ SameRun(h, t) /\ SameFilm(d, t) /\ SameSegs(h, t) /\ SameAsked(h, t)
      /\ t.rtOn = FALSE /\ t.leaving = FALSE /\ t.fifo = 0
      /\ TakeBegun(h, t, n) /\ t.queue = d.queue
  BY <1>2, <1>5, <1>6
  DEF SameRun, SameFilm, SameSegs, SameTime, SameTakes, SameAsked, TakeBegun
<1>10. ShownOf(t) = ShownOf(d) /\ Count(t) = n /\ Counted(t) /\ t.pend = <<>>
  BY <1>2, <1>9 DEF SameFilm, ShownOf, Count, Counted
<1>11. k \in Glue /\ OnlySegs(t, k) BY <1>1, <1>6, BeginIfRecordingFields
<1>12. t.state = h.state /\ t.segs = h.segs /\ t.open = h.open /\ Pos(t) = n
  BY <1>6, <1>9, <1>10, PosFields DEF SameRun, SameSegs
<1>13. ASSUME SegsRight(h)
       PROVE  /\ SegsRight(k) /\ (h.state = "recording" => Cut(k.segs, n))
              /\ \A x \in Nat : x < Count(h) /\ Cut(h.segs, x) => Cut(k.segs, x)
              /\ \A x \in Nat : x < n /\ Cut(h.segs, x) => Cut(k.segs, x)
  <2>1. SegsGood(t.segs, t.open, n) BY <1>12, <1>13 DEF SegsRight, n
  <2>2. t.open <=> t.state = "recording" BY <1>12, <1>13 DEF SegsRight
  <2>3. \A x \in Nat : (x < Count(h) => x <= n) /\ (x < n => x <= n) BY <1>1
  <2>4. /\ SegsRight(k) /\ (t.state = "recording" => Cut(k.segs, n))
        /\ \A x \in Nat : x <= n /\ Cut(t.segs, x) => Cut(k.segs, x)
    <3>1. n <= Pos(t) BY <1>1, <1>12
    <3> QED BY <1>1, <1>6, <1>12, <2>1, <2>2, <3>1, BeginIfRecordingRight
  <2> QED BY <1>12, <2>3, <2>4
<1> HIDE DEF k
<1>14. ShownOf(k) = ShownOf(d) /\ Count(k) = n /\ Counted(k)
  BY <1>10, <1>11, OnlySegsSame
<1>15. /\ SameRun(h, k) /\ SameAsked(h, k) /\ TakeBegun(h, k, n) /\ k.pend = <<>>
       /\ ~k.rtOn /\ ~k.leaving /\ k.fifo = 0
  BY <1>9, <1>10, <1>11
  DEF OnlySegs, SameRun, SameTime, SameTakes, SameAsked, SameFilm, TakeBegun
<1>16. Wrote(h, k) BY <1>2, <1>9, <1>11 DEF Wrote, OnlySegs, SameFilm
<1>17. Grown(h, k, b) BY <1>2, <1>3, <1>14 DEF Grown
<1>18. SegsRight(h) => Kept(h, k) BY <1>13, <1>14 DEF Kept
<1> QED BY <1>8, <1>11, <1>13, <1>14, <1>15, <1>16, <1>17, <1>18 DEF n, SegStep

\* The recording is at its end: what is left of it is in the queue.
Finalized(h, k) ==
  \E d \in Glue, s \in Seq(Segment) :
    /\ Wrote(h, d)
    /\ k.queue = d.queue \o << [type |-> "sidecar", n |-> d.next, segs |-> s],
                               [type |-> "close", n |-> 0] >>
    /\ Limit = 0 /\ SegsRight(h) => SegmentsTrue(s, d.next)

\* The glue between two recordings.
Quiet(h, k) ==
  /\ k \in Glue /\ Counted(k) /\ k.state = "idle" /\ k.session = h.session /\ k.req = h.req
  /\ k.content = <<>> /\ k.pend = <<>> /\ ~k.rtOn /\ ~k.leaving /\ k.fifo = 0
  /\ ~k.reqStop /\ ~k.reqToggle /\ ~k.reqSnap

LEMMA NoSessionTyped == NoSession \in Glue
<1>1. <<>> \in Seq(Frame) /\ <<>> \in Seq(Taped) /\ <<>> \in Seq(Segment) /\ <<>> \in Seq(ATake)
      /\ <<>> \in Seq(Plain \cup Sidecar)
  BY EmptySeq
<1>2. NoInfo \in Point /\ 0 \in 0..MaxSessions BY VideoRecAssumption DEF NoInfo, Point
<1> QED BY <1>1, <1>2 DEF NoSession, Glue

LEMMA EndedSegmentsTrue ==
  ASSUME NEW s \in Seq(Segment), NEW p \in Nat, SegsGood(s, FALSE, p)
  PROVE  SegmentsTrue(s, p)
BY DEF SegsGood, SegmentsTrue

\* The end of a recording.
LEMMA FinalizeFields ==
  ASSUME NEW h \in Glue, Counted(h), h.rtOn => h.pend = <<>>
  PROVE  Finalized(h, Finalize(h)) /\ Quiet(h, Finalize(h))
<1> DEFINE r == IF h.rtOn THEN DrainAll(h) ELSE h
           d == Flush(r)  n == Pos(h)  f == EndSegment(d, n)
           a == [type |-> "sidecar", n |-> n, segs |-> f.segs]
           b == [type |-> "close", n |-> 0]
           q == f.queue \o << a, b >>
           k == [NoSession EXCEPT !.session = h.session, !.req = h.req, !.queue = q]
<1>1. n \in Nat BY PosFields
<1>2. /\ r \in Glue /\ Counted(r) /\ Count(r) = n /\ Wrote(h, r) /\ SameSegs(h, r)
  <2>1. CASE h.rtOn BY <2>1, DrainAllFields
  <2>2. CASE ~h.rtOn
    <3>1. Wrote(h, h) BY WroteNothing
    <3> QED BY <2>2, <3>1, PosFields DEF SameSegs
  <2> QED BY <2>1, <2>2
<1> HIDE DEF r, n
<1>3. /\ d \in Glue /\ d.next = n
      /\ d.queue = r.queue \o FrameMessages(r.next, d.next - r.next)
      /\ SameSegs(r, d)
  BY <1>2, FlushFields
<1>4. Wrote(h, d)
  <2>1. r.next \in Nat /\ Len(r.pend) \in Nat BY <1>2 DEF Glue
  <2>2. n = r.next + Len(r.pend) BY <1>2 DEF Count
  <2>3. d.next >= r.next BY <1>1, <1>3, <2>1, <2>2
  <2>4. Wrote(r, d) BY <1>3, <2>3 DEF Wrote
  <2> QED BY <1>2, <1>3, <2>4, WroteBoth
<1> HIDE DEF d
<1>5. /\ f \in Glue /\ OnlySegs(d, f)
      /\ SegsGood(d.segs, d.open, n) => SegsGood(f.segs, FALSE, n)
  BY <1>1, <1>3, EndSegmentFields
<1>6. Finalize(h) = k BY <1>3 DEF Finalize, r, d
<1> HIDE DEF f
<1>7. f.segs \in Seq(Segment) /\ f.queue \in Seq(Plain \cup Sidecar) /\ f.queue = d.queue
  BY <1>5 DEF Glue, OnlySegs
<1>8. q \in Seq(Plain \cup Sidecar)
  <2>1. a \in Plain \cup Sidecar /\ b \in Plain \cup Sidecar
    BY <1>1, <1>7 DEF Plain, Sidecar
  <2>2. << a, b >> \in Seq(Plain \cup Sidecar) BY <2>1
  <2> QED BY <1>7, <2>2, ConcatProperties
<1>9. q = d.queue \o << [type |-> "sidecar", n |-> d.next, segs |-> f.segs],
                        [type |-> "close", n |-> 0] >>
  BY <1>3, <1>7
<1> HIDE DEF q
<1>10. k \in Glue /\ k.queue = q /\ k.session = h.session /\ k.req = h.req
       /\ k.state = "idle" /\ k.pend = <<>> /\ k.content = <<>> /\ k.next = 0
       /\ k.rtOn = FALSE /\ k.leaving = FALSE /\ k.fifo = 0
       /\ k.reqStop = FALSE /\ k.reqToggle = FALSE /\ k.reqSnap = FALSE
  <2>1. h.session \in 0..MaxSessions /\ h.req \in BOOLEAN BY DEF Glue
  <2>2. k \in Glue BY <1>8, <2>1, NoSessionTyped DEF Glue
  <2> QED BY <2>2 DEF NoSession
<1> HIDE DEF k
<1>11. Counted(k) BY <1>10 DEF Counted
<1>12. SegsRight(h) => SegmentsTrue(f.segs, d.next)
  <2>1. d.segs = h.segs /\ d.open = h.open BY <1>2, <1>3 DEF SameSegs
  <2> QED BY <1>1, <1>3, <1>5, <1>7, <2>1, EndedSegmentsTrue DEF SegsRight, n
<1>13. Finalized(h, k) BY <1>3, <1>4, <1>7, <1>9, <1>10, <1>12 DEF Finalized
<1> QED BY <1>6, <1>10, <1>11, <1>13 DEF Quiet

LEMMA FinalizedAfter ==
  ASSUME NEW h \in Glue, NEW k \in Glue, NEW l, Wrote(h, k), SegStep(h, k), Finalized(k, l)
  PROVE  Finalized(h, l)
<1>1. PICK d \in Glue, s \in Seq(Segment) :
        /\ Wrote(k, d)
        /\ l.queue = d.queue \o << [type |-> "sidecar", n |-> d.next, segs |-> s],
                                   [type |-> "close", n |-> 0] >>
        /\ Limit = 0 /\ SegsRight(k) => SegmentsTrue(s, d.next)
  BY DEF Finalized
<1>2. Wrote(h, d) BY <1>1, WroteBoth
<1>3. SegsRight(h) => SegsRight(k) BY DEF SegStep
<1> QED BY <1>1, <1>2, <1>3 DEF Finalized

\* The end of a recording, if its frames are complete.
LEMMA FinalizeAtLimitFields ==
  ASSUME NEW h \in Glue, Counted(h), h.rtOn => h.pend = <<>>, Limit # 0
  PROVE  Finalized(h, FinalizeAtLimit(h)) /\ Quiet(h, FinalizeAtLimit(h))
<1> DEFINE n == IF Limit > Count(h) THEN Limit - Count(h) ELSE 0
           r == Drain(h, n)
<1>1. n \in Nat BY PosFields, RecordingAssumption
<1>2. FinalizeAtLimit(h) = Finalize(r) BY DEF FinalizeAtLimit
<1> HIDE DEF n
<1>3. PICK b \in 0..h.fifo :
        /\ r \in Glue /\ Counted(r)
        /\ r.next = h.next + b /\ r.pend = h.pend
        /\ r.queue = h.queue \o FrameMessages(h.next, b)
        /\ r.rtOn = h.rtOn
        /\ SameRun(h, r) /\ SameAsked(h, r)
  BY <1>1, DrainFields
<1> HIDE DEF r
<1>4. Wrote(h, r)
  <2>1. h.next \in Nat /\ h.fifo \in Nat BY DEF Glue
  <2>2. b \in Nat /\ r.next = h.next + b BY <1>3, <2>1
  <2>3. r.next - h.next = b /\ r.next >= h.next BY <2>1, <2>2
  <2> QED BY <1>3, <2>3 DEF Wrote
<1>5. Finalized(r, Finalize(r)) /\ Quiet(r, Finalize(r)) BY <1>3, FinalizeFields
<1>6. PICK d \in Glue, s \in Seq(Segment) :
        /\ Wrote(r, d)
        /\ Finalize(r).queue =
             d.queue \o << [type |-> "sidecar", n |-> d.next, segs |-> s],
                           [type |-> "close", n |-> 0] >>
  BY <1>5 DEF Finalized
<1>7. Wrote(h, d) BY <1>3, <1>4, <1>6, WroteBoth
<1>8. Finalized(h, Finalize(r)) BY <1>6, <1>7 DEF Finalized
<1>9. Quiet(h, Finalize(r)) BY <1>3, <1>5 DEF Quiet, SameRun, SameAsked
<1> QED BY <1>2, <1>8, <1>9

\* A pause begins or ends.
LEMMA ToggleFields ==
  ASSUME NEW h \in Glue, Counted(h), h.state # "idle", h.state = "recording" => Pos(h) = Count(h)
  PROVE  LET k == Toggle(h)
         IN /\ k \in Glue /\ Counted(k) /\ SameShown(h, k) /\ SameFilm(h, k) /\ SameTime(h, k)
            /\ k.session = h.session /\ k.state # "idle" /\ k.queue = h.queue
            /\ k.takes = h.takes /\ k.lastTake = h.lastTake /\ h.pauses \subseteq k.pauses
            /\ k.reqStop = h.reqStop /\ k.reqSnap = h.reqSnap /\ k.req = h.req
            /\ k.snapInfo = h.snapInfo /\ ~k.reqToggle
            /\ SegStep(h, k)
            /\ k.state = h.state => k = h
            /\ h.reqToggle => k.state # h.state
            /\ k.state # h.state /\ k.state = "paused" => Count(h) \in k.pauses
            /\ k.state # h.state /\ k.state = "recording" /\ SegsRight(h) =>
                 Cut(k.segs, Count(h))
<1> DEFINE n == Count(h)  e == [h EXCEPT !.reqToggle = FALSE]  k == Toggle(h)
<1>1. n \in Nat /\ n <= Pos(h) BY PosFields
<1>2. h.state \in {"recording", "paused"} /\ h.reqToggle \in BOOLEAN BY DEF Glue
<1>3. /\ e \in Glue /\ OnlyAsked(h, e) /\ e.reqToggle = FALSE
      /\ e.reqStop = h.reqStop /\ e.reqSnap = h.reqSnap /\ e.req = h.req
      /\ e.snapInfo = h.snapInfo
  BY DEF Glue, OnlyAsked, SameRun, SameFilm, SameSegs, SameTakes, SameTime
<1>4. CASE ~h.reqToggle
  <2>1. k = h BY <1>4 DEF Toggle
  <2>2. OnlyAsked(h, h)
    BY DEF OnlyAsked, SameRun, SameFilm, SameSegs, SameTakes, SameTime
  <2>3. SegStep(h, h) /\ SameShown(h, h) BY <2>2, OnlyAskedSame
  <2> QED BY <1>2, <1>4, <2>1, <2>2, <2>3 DEF OnlyAsked
<1>5. CASE h.reqToggle /\ h.state = "recording"
  <2> DEFINE s == EndSegment(e, n)  u == h.pauses \cup {n}
             t == [s EXCEPT !.state = "paused", !.pauses = u]
  <2>1. /\ s \in Glue /\ OnlySegs(e, s)
        /\ SegsGood(e.segs, e.open, n) =>
             /\ ~s.open /\ SegsGood(s.segs, FALSE, n)
             /\ \A x \in Nat : x < n /\ Cut(e.segs, x) => Cut(s.segs, x)
    BY <1>1, <1>3, EndSegmentFields
  <2>2. k = t
    <3>1. k = [s EXCEPT !.state = "paused", !.pauses = @ \cup {n}] BY <1>5 DEF Toggle
    <3>2. s.pauses = h.pauses BY <1>3, <2>1 DEF OnlySegs, OnlyAsked, SameTakes
    <3> HIDE DEF s
    <3> QED BY <3>1, <3>2
  <2>3. u \in SUBSET Nat /\ n \in u BY <1>1 DEF Glue
  <2> HIDE DEF s, u, n
  <2>4. /\ t \in Glue /\ t.state = "paused" /\ t.pauses = u /\ t.session = s.session
        /\ SameFilm(s, t) /\ SameSegs(s, t) /\ SameTime(s, t) /\ SameAsked(s, t)
        /\ t.takes = s.takes /\ t.lastTake = s.lastTake /\ t.queue = s.queue
    BY <2>1, <2>3 DEF Glue, SameFilm, SameSegs, SameTime, SameAsked
  <2> HIDE DEF t, e
  <2>5. /\ SameFilm(h, t) /\ SameTime(h, t) /\ t.session = h.session /\ t.queue = h.queue
        /\ t.takes = h.takes /\ t.lastTake = h.lastTake
        /\ t.reqStop = h.reqStop /\ t.reqSnap = h.reqSnap /\ t.req = h.req
        /\ t.snapInfo = h.snapInfo /\ ~t.reqToggle
        /\ t.segs = s.segs /\ t.open = s.open /\ e.segs = h.segs /\ e.open = h.open
    BY <1>3, <2>1, <2>4
    DEF OnlySegs, OnlyAsked, SameRun, SameFilm, SameTime, SameTakes, SameAsked, SameSegs
  <2>6. SameShown(h, t) /\ Counted(t)
    BY <2>5 DEF SameFilm, SameShown, Count, ShownOf, Counted
  <2>7. Pos(t) = n BY <2>4, <2>6, PosFields DEF SameShown, n
  <2>8. ASSUME SegsRight(h)
        PROVE  /\ SegsRight(t)
               /\ \A x \in Nat : x < n /\ Cut(h.segs, x) => Cut(t.segs, x)
    <3>1. SegsGood(e.segs, e.open, n) BY <1>5, <2>5, <2>8 DEF SegsRight, n
    <3>2. t.open = FALSE BY <2>1, <2>4, <2>5, <3>1 DEF Glue
    <3> QED BY <2>1, <2>4, <2>5, <2>7, <3>1, <3>2 DEF SegsRight
  <2>9. h.pauses \subseteq u BY DEF u
  <2> QED BY <1>5, <2>2, <2>3, <2>4, <2>5, <2>6, <2>8, <2>9 DEF SegStep, n
<1>6. CASE h.reqToggle /\ h.state = "paused"
  <2> DEFINE s == BeginSegment(e, n)  t == [s EXCEPT !.state = "recording"]
  <2>1. /\ s \in Glue /\ OnlySegs(e, s)
        /\ SegsGood(e.segs, e.open, n) =>
             /\ s.open /\ SegsGood(s.segs, TRUE, n) /\ Cut(s.segs, n)
             /\ \A x \in Nat : x <= n /\ Cut(e.segs, x) => Cut(s.segs, x)
    BY <1>1, <1>3, BeginSegmentFields
  <2>2. k = t BY <1>6 DEF Toggle
  <2> HIDE DEF s, n
  <2>4. /\ t \in Glue /\ t.state = "recording" /\ t.session = s.session
        /\ SameFilm(s, t) /\ SameSegs(s, t) /\ SameTime(s, t) /\ SameAsked(s, t)
        /\ SameTakes(s, t) /\ t.queue = s.queue
    BY <2>1 DEF Glue, SameFilm, SameSegs, SameTime, SameAsked, SameTakes
  <2> HIDE DEF t, e
  <2>5. /\ SameFilm(h, t) /\ SameTime(h, t) /\ t.session = h.session /\ t.queue = h.queue
        /\ t.takes = h.takes /\ t.lastTake = h.lastTake /\ t.pauses = h.pauses
        /\ t.reqStop = h.reqStop /\ t.reqSnap = h.reqSnap /\ t.req = h.req
        /\ t.snapInfo = h.snapInfo /\ ~t.reqToggle
        /\ t.segs = s.segs /\ t.open = s.open /\ e.segs = h.segs /\ e.open = h.open
    BY <1>3, <2>1, <2>4
    DEF OnlySegs, OnlyAsked, SameRun, SameFilm, SameTime, SameTakes, SameAsked, SameSegs
  <2>6. SameShown(h, t) /\ Counted(t)
    BY <2>5 DEF SameFilm, SameShown, Count, ShownOf, Counted
  <2>7. n <= Pos(t) /\ Pos(t) \in Nat BY <2>4, <2>6, PosFields DEF SameShown, n
  <2>8. ASSUME SegsRight(h)
        PROVE  /\ SegsRight(t) /\ Cut(t.segs, n)
               /\ \A x \in Nat : x < n /\ Cut(h.segs, x) => Cut(t.segs, x)
    <3>1. Pos(h) = n BY <1>6, PosFields DEF n
    <3>2. SegsGood(e.segs, e.open, n) BY <2>5, <2>8, <3>1 DEF SegsRight
    <3>3. t.open = TRUE BY <2>1, <2>4, <2>5, <3>2 DEF Glue
    <3>4. SegsGood(t.segs, TRUE, n) BY <2>1, <2>5, <3>2
    <3>5. t.segs # <<>> /\ t.segs \in Seq(Segment) BY <2>4, <3>4 DEF SegsGood, Glue
    <3>6. Last(t.segs) \in Segment BY <3>5, FrontLast
    <3>7. Last(t.segs).start \in Nat BY <3>6 DEF Segment
    <3>8. Last(t.segs).start <= Pos(t) BY <1>1, <2>7, <3>4, <3>7 DEF SegsGood, n
    <3>9. SegsGood(t.segs, TRUE, Pos(t)) BY <3>4, <3>8 DEF SegsGood
    <3>10. \A x \in Nat : x < n => x <= n BY <1>1 DEF n
    <3> QED BY <2>1, <2>4, <2>5, <3>2, <3>3, <3>9, <3>10 DEF SegsRight
  <2> QED BY <1>6, <2>2, <2>4, <2>5, <2>6, <2>8 DEF SegStep, n
<1> QED BY <1>2, <1>4, <1>5, <1>6

LEMMA SegStepBoth ==
  ASSUME NEW h \in Glue, NEW k \in Glue, NEW l, SegStep(h, k), SegStep(k, l),
         Count(h) <= Count(k)
  PROVE  SegStep(h, l)
<1>1. Count(h) \in Nat /\ Count(k) \in Nat BY PosFields
<1>2. \A x \in Nat : x < Count(h) => x < Count(k) BY <1>1
<1> QED BY <1>2 DEF SegStep

LEMMA SameSegsStep ==
  ASSUME NEW h, NEW k, SameSegs(h, k), SegsRight(h) => SegsRight(k)
  PROVE  SegStep(h, k)
BY DEF SameSegs, SegStep

LEMMA GrownMore ==
  ASSUME NEW h \in Glue, NEW k, NEW b, Grown(h, k, b)
  PROVE  b \in Nat /\ Count(h) \in Nat /\ Count(k) = Count(h) + b /\ Count(h) <= Count(k)
<1>1. b \in Nat /\ Count(k) = Count(h) + b BY DEF Grown
<1>2. Count(h) \in Nat BY PosFields
<1> QED BY <1>1, <1>2

LEMMA ShownTyped ==
  ASSUME NEW h \in Glue, Counted(h)
  PROVE  ShownOf(h) \in Seq(Frame) /\ Len(ShownOf(h)) = Count(h)
<1>1. h.content \in Seq(Frame) /\ h.pend \in Seq(Taped) BY DEF Glue
<1>2. h.pend \in Seq(Frame) BY <1>1, SeqMonotonic DEF Taped
<1>3. h.content \o h.pend \in Seq(Frame)
      /\ Len(h.content \o h.pend) = Len(h.content) + Len(h.pend)
  BY <1>1, <1>2, ConcatProperties
<1>4. Count(h) = Len(h.content) + Len(h.pend) BY DEF Counted, Count
<1> QED BY <1>3, <1>4 DEF ShownOf

LEMMA GrownByNothing ==
  ASSUME NEW h \in Glue, Counted(h), NEW k, SameShown(h, k)
  PROVE  Grown(h, k, 0)
<1>1. ShownOf(h) \in Seq(Frame) BY ShownTyped
<1>2. Blanks(0) = <<>>
  <2>1. Blanks(0) \in Seq(Frame) /\ Len(Blanks(0)) = 0 BY MessagesTyped
  <2> QED BY <2>1, EmptySeq
<1>3. ShownOf(h) \o <<>> = ShownOf(h) BY <1>1, ConcatEmptySeq
<1>4. Count(h) \in Nat /\ Count(h) = Count(h) + 0 BY PosFields
<1> QED BY <1>2, <1>3, <1>4 DEF Grown, SameShown

\* A request of a snapshot, answered by the sampler.
LEMMA RtSnapshotFields ==
  ASSUME NEW h \in Glue, Counted(h)
  PROVE  LET k == RtSnapshot(h)
         IN /\ k \in Glue /\ Counted(k) /\ SameShown(h, k) /\ k.queue = h.queue
            /\ SameRun(h, k) /\ SameFilm(h, k) /\ SameTime(h, k)
            /\ k.pauses = h.pauses
            /\ (k.takes = h.takes /\ k.lastTake = h.lastTake) \/ TakeBegun(h, k, Count(h))
            /\ ~k.reqSnap /\ k.reqStop = h.reqStop /\ k.reqToggle = h.reqToggle
            /\ k.req = h.req /\ k.snapInfo = h.snapInfo
            /\ SegStep(h, k)
            /\ SegsRight(h) /\ h.state = "recording" /\ Cut(h.segs, Count(h)) =>
                 Cut(k.segs, Count(h))
<1> DEFINE n == Count(h)  p == Pos(h)  e == [h EXCEPT !.reqSnap = FALSE]
           t == BeginTake(e, n)  k == BeginIfRecording(t, p)
<1>1. n \in Nat /\ p \in Nat /\ n <= p BY PosFields
<1>2. CASE ~h.reqSnap
  <2>1. RtSnapshot(h) = h BY <1>2 DEF RtSnapshot
  <2>2. OnlyAsked(h, h)
    BY DEF OnlyAsked, SameRun, SameFilm, SameSegs, SameTakes, SameTime
  <2>3. SegStep(h, h) /\ SameShown(h, h) BY <2>2, OnlyAskedSame
  <2> QED BY <1>2, <2>1, <2>2, <2>3 DEF OnlyAsked
<1>3. CASE h.reqSnap
  <2>1. /\ e \in Glue /\ OnlyAsked(h, e) /\ ~e.reqSnap /\ e.snapInfo = h.snapInfo
        /\ e.reqStop = h.reqStop /\ e.reqToggle = h.reqToggle /\ e.req = h.req
    BY DEF Glue, OnlyAsked, SameRun, SameFilm, SameSegs, SameTakes, SameTime
  <2>2. RtSnapshot(h) = k BY <1>3 DEF RtSnapshot
  <2> HIDE DEF e, n, p
  <2>3. /\ t \in Glue /\ t.lastTake = e.lastTake + 1 /\ t.pauses = e.pauses
        /\ t.takes = Append(e.takes, [id |-> e.lastTake + 1, start |-> n, rt |-> e.rtOn])
        /\ t.queue = e.queue
        /\ SameRun(e, t) /\ SameFilm(e, t) /\ SameSegs(e, t) /\ SameTime(e, t)
        /\ SameAsked(e, t)
    BY <1>1, <2>1, BeginTakeFields
  <2> HIDE DEF t
  <2>4. /\ SameRun(h, t) /\ SameFilm(h, t) /\ SameSegs(h, t) /\ SameTime(h, t)
        /\ TakeBegun(h, t, n) /\ t.queue = h.queue
        /\ ~t.reqSnap /\ t.reqStop = h.reqStop /\ t.reqToggle = h.reqToggle
        /\ t.req = h.req /\ t.snapInfo = h.snapInfo
    BY <2>1, <2>3
    DEF SameRun, SameFilm, SameSegs, SameTime, SameTakes, SameAsked, TakeBegun, OnlyAsked
  <2>5. ShownOf(t) = ShownOf(h) /\ Count(t) = n /\ Counted(t)
    BY <2>4 DEF SameFilm, ShownOf, Count, Counted, n
  <2>6. Pos(t) = p BY <2>4, <2>5 DEF SameRun, SameTime, Pos, p, n
  <2>7. k \in Glue /\ OnlySegs(t, k) BY <1>1, <2>3, BeginIfRecordingFields
  <2>8. t.state = h.state /\ t.segs = h.segs /\ t.open = h.open
    BY <2>4 DEF SameRun, SameSegs
  <2>9. ASSUME SegsRight(h)
        PROVE  SegsRight(k) /\ \A x \in Nat : x <= n /\ Cut(h.segs, x) => Cut(k.segs, x)
    <3>1. SegsGood(t.segs, t.open, p) BY <2>8, <2>9 DEF SegsRight, p
    <3>2. t.open <=> t.state = "recording" BY <2>8, <2>9 DEF SegsRight
    <3>3. /\ SegsRight(k)
          /\ \A x \in Nat : x <= p /\ Cut(t.segs, x) => Cut(k.segs, x)
      <4>1. p <= Pos(t) BY <1>1, <2>6
      <4> QED BY <1>1, <2>3, <2>6, <3>1, <3>2, <4>1, BeginIfRecordingRight
    <3>4. \A x \in Nat : x <= n => x <= p BY <1>1
    <3> QED BY <2>8, <3>3, <3>4
  <2> HIDE DEF k
  <2>10. ShownOf(k) = ShownOf(h) /\ Count(k) = n /\ Counted(k)
    BY <2>5, <2>7, OnlySegsSame
  <2>11. /\ SameRun(h, k) /\ SameFilm(h, k) /\ SameTime(h, k) /\ TakeBegun(h, k, n)
         /\ k.pauses = h.pauses /\ k.queue = h.queue
         /\ ~k.reqSnap /\ k.reqStop = h.reqStop /\ k.reqToggle = h.reqToggle
         /\ k.req = h.req /\ k.snapInfo = h.snapInfo
    BY <2>4, <2>7
    DEF OnlySegs, SameRun, SameFilm, SameTime, SameTakes, SameAsked, TakeBegun
  <2>12. \A x \in Nat : x < n => x <= n BY <1>1
  <2> QED BY <1>1, <2>2, <2>7, <2>9, <2>10, <2>11, <2>12 DEF n, SegStep, SameShown
<1> QED BY <1>2, <1>3

\* A request of a pause, answered by the sampler.
LEMMA RtToggleFields ==
  ASSUME NEW h \in Glue, Counted(h), h.rtOn, h.pend = <<>>, h.state # "idle", h.fifo <= Delay
  PROVE  LET k == RtToggle(h)
         IN /\ k \in Glue /\ Counted(k) /\ k.pend = <<>> /\ Wrote(h, k)
            /\ \E b \in Nat : Grown(h, k, b)
            /\ k.session = h.session /\ k.state # "idle"
            /\ k.rtOn = h.rtOn /\ k.leaving = h.leaving /\ k.fifo <= Delay
            /\ k.takes = h.takes /\ k.lastTake = h.lastTake /\ h.pauses \subseteq k.pauses
            /\ k.reqStop = h.reqStop /\ k.reqSnap = h.reqSnap /\ k.req = h.req
            /\ k.snapInfo = h.snapInfo
            /\ SegStep(h, k) /\ (SegsRight(h) => Kept(h, k))
            /\ k.state = h.state => k = h
            /\ h.state = "paused" => Count(k) = Count(h)
            /\ k.state # h.state /\ k.state = "paused" => Count(k) \in k.pauses
            /\ k.state # h.state /\ k.state = "recording" =>
                 k.fifo = Delay /\ (SegsRight(h) => Cut(k.segs, Count(k)))
<1> DEFINE k == RtToggle(h)
<1>1. h.state \in {"recording", "paused"} /\ h.fifo \in Nat BY DEF Glue
<1>2. CASE ~h.reqToggle
  <2>1. k = h BY <1>2 DEF RtToggle
  <2>2. OnlyAsked(h, h)
    BY DEF OnlyAsked, SameRun, SameFilm, SameSegs, SameTakes, SameTime
  <2>3. SegStep(h, h) /\ SameShown(h, h) BY <2>2, OnlyAskedSame
  <2>4. Grown(h, h, 0) BY <2>3, GrownByNothing
  <2>5. Wrote(h, h) BY WroteNothing
  <2>6. Kept(h, h) BY DEF Kept
  <2> QED BY <2>1, <2>3, <2>4, <2>5, <2>6
<1>3. CASE h.reqToggle /\ h.state = "recording"
  <2> DEFINE d == DrainAll(h)  t == Toggle(d)
  <2>1. /\ d \in Glue /\ Counted(d) /\ d.pend = <<>> /\ Count(d) = Pos(h) /\ Wrote(h, d)
        /\ d.fifo = 0 /\ d.rtOn = h.rtOn /\ d.leaving = h.leaving
        /\ SameRun(h, d) /\ SameSegs(h, d) /\ SameTakes(h, d) /\ SameAsked(h, d)
    BY DrainAllFields
  <2>2. PICK b \in Nat : Grown(h, d, b) BY DrainAllFields
  <2>3. k = t BY <1>3 DEF RtToggle
  <2> HIDE DEF d
  <2>4. d.state = "recording" /\ d.reqToggle BY <1>3, <2>1 DEF SameRun, SameAsked
  <2>5. Pos(d) = Count(d)
    <3>1. Count(d) \in Nat /\ Pos(d) = Count(d) + d.fifo
      BY <2>1, <2>4, PosFields
    <3> QED BY <2>1, <3>1
  <2>6. /\ t \in Glue /\ Counted(t) /\ SameShown(d, t) /\ SameFilm(d, t) /\ SameTime(d, t)
        /\ t.session = d.session /\ t.state # "idle" /\ t.queue = d.queue
        /\ t.takes = d.takes /\ t.lastTake = d.lastTake /\ d.pauses \subseteq t.pauses
        /\ t.reqStop = d.reqStop /\ t.reqSnap = d.reqSnap /\ t.req = d.req
        /\ t.snapInfo = d.snapInfo
        /\ SegStep(d, t)
        /\ t.state # d.state
        /\ t.state # d.state /\ t.state = "paused" => Count(d) \in t.pauses
    BY <2>1, <2>4, <2>5, ToggleFields
  <2> HIDE DEF t
  <2>7. t.state = "paused" BY <2>4, <2>6 DEF Glue
  <2>8. SegStep(h, d)
    <3>1. SegsRight(h) => SegsRight(d)
      <4>1. Pos(h) \in Nat /\ Pos(h) <= Pos(d) /\ Pos(d) = Pos(h) /\ d.state = h.state
        BY <2>1, <2>5, PosFields DEF SameRun
      <4> QED BY <2>1, <4>1, SegsRightLater
    <3> QED BY <2>1, <3>1, SameSegsStep
  <2>9. SegStep(h, t) BY <2>1, <2>2, <2>6, <2>8, GrownMore, SegStepBoth
  <2>10. Grown(h, t, b) BY <2>2, <2>6 DEF Grown, SameShown
  <2>11. Wrote(d, t) BY <2>1, <2>6, WroteNothing DEF SameFilm
  <2>12. Wrote(h, t) BY <2>1, <2>6, <2>11, WroteBoth
  <2>13. /\ t.pend = <<>> /\ t.session = h.session
         /\ t.rtOn = h.rtOn /\ t.leaving = h.leaving /\ t.fifo = 0
         /\ t.takes = h.takes /\ t.lastTake = h.lastTake /\ h.pauses \subseteq t.pauses
         /\ t.reqStop = h.reqStop /\ t.reqSnap = h.reqSnap /\ t.req = h.req
         /\ t.snapInfo = h.snapInfo
    BY <2>1, <2>6 DEF SameFilm, SameTime, SameRun, SameTakes, SameAsked
  <2>14. t.fifo <= Delay BY <2>13, RecordingAssumption
  <2>15. Count(t) \in t.pauses BY <2>6, <2>7 DEF SameShown
  <2>16. SegsRight(h) => Kept(h, t)
    <3>1. SegsRight(h) => SegsRight(d)
      <4>1. Pos(h) \in Nat /\ Pos(h) <= Pos(d) /\ Pos(d) = Pos(h) /\ d.state = h.state
        BY <2>1, <2>5, PosFields DEF SameRun
      <4> QED BY <2>1, <4>1, SegsRightLater
    <3>2. d.segs = h.segs /\ Count(t) = Count(d) BY <2>1, <2>6 DEF SameSegs, SameShown
    <3> QED BY <2>6, <3>1, <3>2 DEF SegStep, Kept
  <2> QED BY <1>3, <2>3, <2>6, <2>7, <2>9, <2>10, <2>12, <2>13, <2>14, <2>15, <2>16
<1>4. CASE h.reqToggle /\ h.state = "paused"
  <2> DEFINE d == Prime(h)  t == Toggle(d)
  <2>1. /\ d \in Glue /\ d.fifo = Delay
        /\ d.rtOn = h.rtOn /\ d.leaving = h.leaving /\ d.queue = h.queue
        /\ SameRun(h, d) /\ SameFilm(h, d) /\ SameSegs(h, d) /\ SameTakes(h, d)
        /\ SameAsked(h, d)
    BY PrimeFields
  <2>3. k = t BY <1>4 DEF RtToggle
  <2> HIDE DEF d
  <2>4. d.state = "paused" /\ d.reqToggle BY <1>4, <2>1 DEF SameRun, SameAsked
  <2>5. Counted(d) /\ SameShown(h, d)
    BY <2>1 DEF SameFilm, SameShown, Count, ShownOf, Counted
  <2>6. /\ t \in Glue /\ Counted(t) /\ SameShown(d, t) /\ SameFilm(d, t) /\ SameTime(d, t)
        /\ t.session = d.session /\ t.state # "idle" /\ t.queue = d.queue
        /\ t.takes = d.takes /\ t.lastTake = d.lastTake /\ d.pauses \subseteq t.pauses
        /\ t.reqStop = d.reqStop /\ t.reqSnap = d.reqSnap /\ t.req = d.req
        /\ t.snapInfo = d.snapInfo
        /\ SegStep(d, t)
        /\ t.state # d.state
        /\ t.state # d.state /\ t.state = "recording" /\ SegsRight(d) => Cut(t.segs, Count(d))
    BY <2>1, <2>4, <2>5, ToggleFields
  <2> HIDE DEF t
  <2>7. t.state = "recording" BY <2>4, <2>6 DEF Glue
  <2>8. SegsRight(h) => SegsRight(d)
    <3>1. Pos(h) = Count(h) /\ Pos(d) = Count(d) BY <1>4, <2>1, <2>4, PosFields
    <3>2. Pos(d) = Pos(h) /\ d.state = h.state BY <1>4, <2>4, <2>5, <3>1 DEF SameShown
    <3> QED BY <1>4, <2>1, <3>2, SegsRightLater
  <2>9. SegStep(h, t)
    <3>1. SegStep(h, d) BY <2>1, <2>8, SameSegsStep
    <3>2. Count(h) \in Nat /\ Count(h) <= Count(d) BY <2>5, PosFields DEF SameShown
    <3> QED BY <2>1, <2>6, <3>1, <3>2, SegStepBoth
  <2>10. Grown(h, t, 0)
    <3>1. SameShown(h, t) BY <2>5, <2>6 DEF SameShown
    <3> QED BY <3>1, GrownByNothing
  <2>11. Wrote(h, t) BY <2>1, <2>6, WroteNothing DEF SameFilm
  <2>13. /\ t.pend = <<>> /\ t.session = h.session
         /\ t.rtOn = h.rtOn /\ t.leaving = h.leaving /\ t.fifo = Delay
         /\ t.takes = h.takes /\ t.lastTake = h.lastTake /\ h.pauses \subseteq t.pauses
         /\ t.reqStop = h.reqStop /\ t.reqSnap = h.reqSnap /\ t.req = h.req
         /\ t.snapInfo = h.snapInfo
    BY <2>1, <2>6 DEF SameFilm, SameTime, SameRun, SameTakes, SameAsked
  <2>14. t.fifo <= Delay BY <2>13, RecordingAssumption
  <2>15. SegsRight(h) => Cut(t.segs, Count(t)) BY <2>6, <2>7, <2>8 DEF SameShown
  <2>16. Count(t) = Count(h) BY <2>5, <2>6 DEF SameShown
  <2>17. SegsRight(h) => Kept(h, t) BY <2>9, <2>16 DEF SegStep, Kept
  <2> QED BY <1>4, <2>3, <2>6, <2>7, <2>9, <2>10, <2>11, <2>13, <2>14, <2>15, <2>16, <2>17
<1> QED BY <1>1, <1>2, <1>3, <1>4

\* The frames of one tick.
LEMMA TicksFields ==
  ASSUME NEW h \in Glue, Counted(h), h.rtOn, h.pend = <<>>, h.state # "idle", h.fifo <= Delay,
         NEW due \in Nat, NEW n \in Nat, NEW paused \in BOOLEAN
  PROVE  LET k == Ticks(h, due, n, paused)
         IN \/ Finalized(h, k) /\ Quiet(h, k)
            \/ /\ k \in Glue /\ Counted(k) /\ k.pend = <<>> /\ Wrote(h, k)
               /\ \E b \in Nat : Grown(h, k, b) /\ (h.state = "paused" => b = 0)
               /\ SameRun(h, k) /\ SameSegs(h, k) /\ SameTakes(h, k) /\ SameAsked(h, k)
               /\ k.rtOn = h.rtOn /\ k.leaving = h.leaving /\ k.fifo <= Delay
               /\ h.state = "recording" => k.fifo = h.fifo
               /\ SegStep(h, k)
<1> DEFINE room == IF Limit > Pos(h) THEN Limit - Pos(h) ELSE 0
           b == IF Limit > 0 /\ room < n THEN room ELSE n
           e == Emit(h, Blanks(b))
           k == Ticks(h, due, n, paused)
<1>1. h.state \in {"recording", "paused"} /\ h.fifo \in Nat /\ h.next \in Nat BY DEF Glue
<1>2. b \in Nat
  <2>1. room \in Nat BY PosFields, RecordingAssumption
  <2> HIDE DEF room
  <2> QED BY <2>1
<1>3. ASSUME NEW j, AtLimit(j) PROVE Limit # 0 BY <1>3, RecordingAssumption DEF AtLimit
<1>4. CASE h.state = "recording"
  <2>1. k = IF AtLimit(e) /\ b < due THEN FinalizeAtLimit(e) ELSE e BY <1>4 DEF Ticks
  <2> HIDE DEF b
  <2>2. Blanks(b) \in Seq(Frame) /\ Len(Blanks(b)) = b BY <1>2, MessagesTyped
  <2>3. /\ e \in Glue
        /\ e.content = h.content \o Blanks(b) /\ e.next = h.next + Len(Blanks(b))
        /\ e.pend = h.pend
        /\ e.queue = h.queue \o FrameMessages(h.next, Len(Blanks(b)))
        /\ SameRun(h, e) /\ SameSegs(h, e) /\ SameTakes(h, e)
        /\ SameTime(h, e) /\ SameAsked(h, e)
    BY <2>2, EmitFields
  <2> HIDE DEF e, k
  <2>4. e.next = h.next + b BY <2>2, <2>3
  <2>5. Counted(e)
    <3>1. h.content \in Seq(Frame) BY DEF Glue
    <3>2. Blanks(b) \in Seq(Frame) BY <2>2
    <3>3. Len(h.content \o Blanks(b)) = Len(h.content) + Len(Blanks(b))
      BY <3>1, <3>2, ConcatProperties
    <3>4. Len(e.content) = Len(h.content) + b BY <2>2, <2>3, <3>3
    <3> QED BY <2>4, <3>4 DEF Counted
  <2>6. ShownOf(h) = h.content /\ Count(h) = h.next BY EmptyPipe
  <2>7. ShownOf(e) = e.content /\ Count(e) = e.next BY <2>3, EmptyPipe
  <2>8. Grown(h, e, b) BY <1>2, <2>3, <2>4, <2>6, <2>7 DEF Grown
  <2>9. Wrote(h, e)
    <3>1. e.next - h.next = b /\ e.next >= h.next BY <1>1, <1>2, <2>4
    <3> QED BY <2>2, <2>3, <3>1 DEF Wrote
  <2>10. SegStep(h, e)
    <3>1. Pos(h) <= Pos(e)
      <4>1. Pos(h) = Count(h) + h.fifo BY <1>4, PosFields
      <4>2. e.rtOn = h.rtOn /\ e.fifo = h.fifo /\ e.state = h.state
        BY <2>3 DEF SameTime, SameRun
      <4>3. Pos(e) = Count(e) + h.fifo BY <1>4, <2>3, <4>2, PosFields
      <4>4. Count(e) = h.next + b /\ Count(h) = h.next BY <2>4, <2>6, <2>7
      <4> QED BY <1>1, <1>2, <4>1, <4>3, <4>4
    <3>2. SegsRight(h) => SegsRight(e) BY <1>4, <2>3, <3>1, SegsRightLater DEF SameRun
    <3> QED BY <2>3, <3>2, SameSegsStep
  <2>11. CASE AtLimit(e) /\ b < due
    <3>1. k = FinalizeAtLimit(e) BY <2>1, <2>11
    <3>2. Finalized(e, k) /\ Quiet(e, k)
      BY <1>3, <2>3, <2>5, <2>11, <3>1, FinalizeAtLimitFields
    <3>3. Finalized(h, k) BY <2>3, <2>9, <2>10, <3>2, FinalizedAfter
    <3>4. Quiet(h, k) BY <2>3, <3>2 DEF Quiet, SameRun, SameAsked
    <3> QED BY <3>3, <3>4 DEF k
  <2>12. CASE ~(AtLimit(e) /\ b < due)
    <3>1. k = e BY <2>1, <2>12
    <3>2. e.rtOn = h.rtOn /\ e.leaving = h.leaving /\ e.fifo = h.fifo BY <2>3 DEF SameTime
    <3> QED BY <1>2, <1>4, <2>3, <2>5, <2>8, <2>9, <2>10, <3>1, <3>2 DEF k
  <2> QED BY <2>11, <2>12
<1>5. CASE h.state = "paused"
  <2> DEFINE v == IF h.fifo + due < Delay THEN h.fifo + due ELSE Delay
             t == [h EXCEPT !.fifo = v]
  <2>1. k = IF AtLimit(h) THEN FinalizeAtLimit(h) ELSE IF paused THEN h ELSE t
    BY <1>5 DEF Ticks
  <2>2. v \in Nat /\ v <= Delay BY <1>1, RecordingAssumption
  <2> HIDE DEF v, k
  <2>3. /\ t \in Glue /\ t.fifo = v /\ t.rtOn = h.rtOn /\ t.leaving = h.leaving
        /\ t.queue = h.queue
        /\ SameRun(h, t) /\ SameFilm(h, t) /\ SameSegs(h, t) /\ SameTakes(h, t)
        /\ SameAsked(h, t)
    BY <2>2 DEF Glue, SameRun, SameFilm, SameSegs, SameTakes, SameAsked
  <2> HIDE DEF t
  <2>4. CASE AtLimit(h)
    BY <1>3, <2>1, <2>4, FinalizeAtLimitFields DEF k
  <2>5. CASE ~AtLimit(h) /\ ~paused
    <3>1. k = t BY <2>1, <2>5
    <3>2. Counted(t) /\ SameShown(h, t) /\ t.pend = <<>>
      BY <2>3 DEF SameFilm, SameShown, Count, ShownOf, Counted
    <3>3. Grown(h, t, 0) BY <3>2, GrownByNothing
    <3>4. Wrote(h, t) BY <2>3, WroteNothing DEF SameFilm
    <3>5. SegStep(h, t)
      <4>1. t.state = "paused" BY <1>5, <2>3 DEF SameRun
      <4>2. Pos(h) = Count(h) /\ Pos(t) = Count(t) BY <1>5, <2>3, <4>1, PosFields
      <4>3. SegsRight(h) => SegsRight(t)
        BY <1>5, <2>3, <3>2, <4>1, <4>2, SegsRightLater DEF SameShown
      <4> QED BY <2>3, <4>3, SameSegsStep
    <3> QED BY <1>5, <2>2, <2>3, <3>1, <3>2, <3>3, <3>4, <3>5 DEF k
  <2>6. CASE ~AtLimit(h) /\ paused
    <3>1. k = h BY <2>1, <2>6
    <3>2. OnlyAsked(h, h) /\ SameAsked(h, h)
      BY DEF OnlyAsked, SameRun, SameFilm, SameSegs, SameTakes, SameTime, SameAsked
    <3>3. SegStep(h, h) /\ SameShown(h, h) BY <3>2, OnlyAskedSame
    <3>4. Grown(h, h, 0) BY <3>3, GrownByNothing
    <3>5. Wrote(h, h) BY WroteNothing
    <3> QED BY <3>1, <3>2, <3>3, <3>4, <3>5 DEF OnlyAsked, k
  <2> QED BY <2>4, <2>5, <2>6
<1> QED BY <1>1, <1>4, <1>5

\* A frame of emulated time goes into the pipe.
LEMMA FeedFields ==
  ASSUME NEW h \in Glue, Counted(h), ~h.rtOn, Len(h.pend) <= MaxPending, NEW f \in Taped
  PROVE  LET k == Feed(h, f)
         IN /\ k \in Glue /\ Counted(k) /\ Len(k.pend) <= MaxPending /\ Wrote(h, k)
            /\ h.state = "recording" =>
                 ShownOf(k) = ShownOf(h) \o <<f>> /\ Count(k) = Count(h) + 1
            /\ h.state # "recording" => SameShown(h, k)
            /\ SameRun(h, k) /\ SameSegs(h, k) /\ SameTakes(h, k) /\ SameTime(h, k)
            /\ SameAsked(h, k) /\ SegStep(h, k)
<1> DEFINE r == IF Len(h.pend) >= MaxPending THEN Flush(h) ELSE h
           p == Append(r.pend, f)
           k == IF h.state = "recording" THEN [r EXCEPT !.pend = p] ELSE r
<1>1. Len(h.pend) \in Nat /\ h.next \in Nat /\ MaxPending \in Nat \ {0}
  BY RecordingAssumption DEF Glue
<1>2. /\ r \in Glue /\ Counted(r) /\ Len(r.pend) < MaxPending /\ Wrote(h, r)
      /\ SameShown(h, r)
      /\ SameRun(h, r) /\ SameSegs(h, r) /\ SameTakes(h, r) /\ SameTime(h, r) /\ SameAsked(h, r)
  <2>1. CASE Len(h.pend) >= MaxPending
    <3> DEFINE d == Flush(h)
    <3>1. /\ d \in Glue /\ Counted(d)
          /\ d.next = Count(h) /\ d.pend = <<>>
          /\ SameShown(h, d)
          /\ d.queue = h.queue \o FrameMessages(h.next, d.next - h.next)
          /\ SameRun(h, d) /\ SameSegs(h, d) /\ SameTakes(h, d)
          /\ SameTime(h, d) /\ SameAsked(h, d)
      BY FlushFields DEF SameShown
    <3> HIDE DEF d
    <3>2. d.next = h.next + Len(h.pend) BY <3>1 DEF Count
    <3>3. d.next >= h.next BY <1>1, <3>2
    <3>4. Len(d.pend) = 0 BY <3>1
    <3>5. Len(d.pend) < MaxPending BY <1>1, <3>4
    <3>6. r = d BY <2>1 DEF d
    <3> QED BY <3>1, <3>3, <3>5, <3>6 DEF Wrote
  <2>2. CASE ~(Len(h.pend) >= MaxPending)
    <3>1. r = h BY <2>2
    <3>2. Len(h.pend) < MaxPending BY <1>1, <2>2
    <3>3. Wrote(h, h) BY WroteNothing
    <3> QED BY <3>1, <3>2, <3>3
      DEF SameShown, SameRun, SameSegs, SameTakes, SameTime, SameAsked
  <2> QED BY <2>1, <2>2
<1>3. Feed(h, f) = k BY DEF Feed
<1> HIDE DEF r
<1>4. r.state = h.state /\ r.rtOn = h.rtOn BY <1>2 DEF SameRun, SameTime
<1>5. CASE h.state # "recording"
  <2>1. k = r BY <1>5
  <2>2. Len(r.pend) <= MaxPending
    <3>1. Len(r.pend) \in Nat BY <1>2 DEF Glue
    <3> QED BY <1>1, <1>2, <3>1
  <2>3. SegStep(h, r)
    <3>1. Pos(h) = Count(h) /\ Pos(r) = Count(r) BY <1>2, <1>4, <1>5, PosFields
    <3>2. SegsRight(h) => SegsRight(r)
      BY <1>2, <1>4, <1>5, <3>1, SegsRightLater DEF SameShown
    <3> QED BY <1>2, <3>2, SameSegsStep
  <2> QED BY <1>2, <1>3, <1>5, <2>1, <2>2, <2>3
<1>6. CASE h.state = "recording"
  <2> DEFINE t == [r EXCEPT !.pend = p]
  <2>1. k = t BY <1>6
  <2>2. r.pend \in Seq(Taped) /\ r.content \in Seq(Frame) /\ Len(r.pend) \in Nat
        /\ r.next \in Nat
    BY <1>2 DEF Glue
  <2>3. p \in Seq(Taped) /\ Len(p) = Len(r.pend) + 1 /\ p = r.pend \o <<f>>
    BY <2>2, AppendProperties, AppendIsConcat
  <2> HIDE DEF p, k
  <2>4. /\ t \in Glue /\ t.pend = p /\ t.content = r.content /\ t.next = r.next
        /\ t.queue = r.queue
        /\ SameRun(r, t) /\ SameSegs(r, t) /\ SameTakes(r, t) /\ SameTime(r, t)
        /\ SameAsked(r, t)
    BY <1>2, <2>3 DEF Glue, SameRun, SameSegs, SameTakes, SameTime, SameAsked
  <2> HIDE DEF t
  <2>5. Counted(t) BY <1>2, <2>4 DEF Counted
  <2>6. Len(t.pend) <= MaxPending BY <1>1, <1>2, <2>2, <2>3, <2>4
  <2>7. ShownOf(t) = ShownOf(r) \o <<f>>
    <3>1. r.content \in Seq(Frame) BY <2>2
    <3>2. r.pend \in Seq(Frame) BY <2>2, SeqMonotonic DEF Taped
    <3>3. <<f>> \in Seq(Frame)
      <4>1. f \in Frame BY DEF Taped
      <4> QED BY <4>1
    <3>4. (r.content \o r.pend) \o <<f>> = r.content \o (r.pend \o <<f>>)
      BY <3>1, <3>2, <3>3, FilmAssociative
    <3> QED BY <2>3, <2>4, <3>4 DEF ShownOf
  <2>8. Count(t) = Count(r) + 1
    <3>1. Len(t.pend) = Len(r.pend) + 1 /\ t.next = r.next BY <2>3, <2>4
    <3> QED BY <2>2, <3>1 DEF Count
  <2>9. Wrote(h, t) BY <1>2, <2>4 DEF Wrote
  <2>10. /\ SameRun(h, t) /\ SameSegs(h, t) /\ SameTakes(h, t) /\ SameTime(h, t)
         /\ SameAsked(h, t)
    BY <1>2, <2>4 DEF SameRun, SameSegs, SameTakes, SameTime, SameAsked
  <2>11. SegStep(h, t)
    <3>1. t.state = h.state /\ t.rtOn = h.rtOn BY <2>10 DEF SameRun, SameTime
    <3>2. Pos(h) = Count(h) /\ Pos(t) = Count(t) BY <2>4, <3>1, PosFields
    <3>3. Count(t) = Count(h) + 1 /\ Count(h) \in Nat
      BY <1>2, <2>8, PosFields DEF SameShown
    <3>4. Pos(h) <= Pos(t) BY <3>2, <3>3
    <3>5. SegsRight(h) => SegsRight(t)
      BY <1>6, <2>4, <2>10, <3>1, <3>4, SegsRightLater
    <3> QED BY <2>10, <3>5, SameSegsStep
  <2> QED BY <1>2, <1>3, <1>6, <2>1, <2>4, <2>5, <2>6, <2>7, <2>8, <2>9, <2>10, <2>11
       DEF SameShown
<1> QED BY <1>5, <1>6

\* The end of a frame of emulated time, its requests and its limit.
LEMMA FinishFrameFields ==
  ASSUME NEW h \in Glue, Counted(h), ~h.rtOn, h.state # "idle", Len(h.pend) <= MaxPending,
         NEW f \in Taped
  PROVE  LET k == FinishFrame(h, f)
         IN \/ Finalized(h, k) /\ Quiet(h, k)
            \/ /\ k \in Glue /\ Counted(k) /\ Len(k.pend) <= MaxPending /\ Wrote(h, k)
               /\ k.session = h.session /\ k.state # "idle" /\ SameTime(h, k)
               /\ k.takes = h.takes /\ k.lastTake = h.lastTake /\ h.pauses \subseteq k.pauses
               /\ k.reqSnap = h.reqSnap /\ k.req = h.req /\ k.snapInfo = h.snapInfo
               /\ SegStep(h, k)
               /\ k.state = "recording" =>
                    ShownOf(k) = ShownOf(h) \o <<f>> /\ Count(k) = Count(h) + 1
               /\ k.state # "recording" => SameShown(h, k)
               /\ k.state = h.state => k.segs = h.segs
               /\ k.state # h.state /\ k.state = "recording" /\ SegsRight(h) =>
                    Cut(k.segs, Count(h))
               /\ k.state # h.state /\ k.state = "paused" => Count(k) \in k.pauses
<1> DEFINE t == Toggle(h)  j == Feed(t, f)
<1>1. Pos(h) = Count(h) /\ Count(h) \in Nat BY PosFields
<1>2. /\ t \in Glue /\ Counted(t) /\ SameShown(h, t) /\ SameFilm(h, t) /\ SameTime(h, t)
      /\ t.session = h.session /\ t.state # "idle" /\ t.queue = h.queue
      /\ t.takes = h.takes /\ t.lastTake = h.lastTake /\ h.pauses \subseteq t.pauses
      /\ t.reqStop = h.reqStop /\ t.reqSnap = h.reqSnap /\ t.req = h.req
      /\ t.snapInfo = h.snapInfo
      /\ SegStep(h, t)
      /\ t.state = h.state => t = h
      /\ t.state # h.state /\ t.state = "paused" => Count(h) \in t.pauses
      /\ t.state # h.state /\ t.state = "recording" /\ SegsRight(h) => Cut(t.segs, Count(h))
  BY <1>1, ToggleFields
<1>3. FinishFrame(h, f) = IF t.reqStop THEN Finalize(t)
                          ELSE IF Limit > 0 /\ Count(j) >= Limit THEN Finalize(j) ELSE j
  BY DEF FinishFrame
<1> HIDE DEF t
<1>4. ~t.rtOn /\ Len(t.pend) <= MaxPending BY <1>2 DEF SameTime, SameFilm
<1>5. /\ j \in Glue /\ Counted(j) /\ Len(j.pend) <= MaxPending /\ Wrote(t, j)
      /\ t.state = "recording" =>
           ShownOf(j) = ShownOf(t) \o <<f>> /\ Count(j) = Count(t) + 1
      /\ t.state # "recording" => SameShown(t, j)
      /\ SameRun(t, j) /\ SameSegs(t, j) /\ SameTakes(t, j) /\ SameTime(t, j)
      /\ SameAsked(t, j) /\ SegStep(t, j)
  BY <1>2, <1>4, FeedFields
<1> HIDE DEF j
<1>6. Wrote(h, t) BY <1>2, WroteNothing DEF SameFilm
<1>7. Wrote(h, j) BY <1>2, <1>5, <1>6, WroteBoth
<1>8. SegStep(h, j)
  <2>1. Count(h) <= Count(t) BY <1>1, <1>2 DEF SameShown
  <2> QED BY <1>2, <1>5, <2>1, SegStepBoth
<1>9. CASE t.reqStop
  <2>1. Finalized(t, Finalize(t)) /\ Quiet(t, Finalize(t)) BY <1>2, <1>4, FinalizeFields
  <2>2. Finalized(h, Finalize(t)) BY <1>2, <1>6, <2>1, FinalizedAfter
  <2>3. Quiet(h, Finalize(t)) BY <1>2, <2>1 DEF Quiet
  <2> QED BY <1>3, <1>9, <2>2, <2>3
<1>10. CASE ~t.reqStop /\ Limit > 0 /\ Count(j) >= Limit
  <2>1. ~j.rtOn BY <1>4, <1>5 DEF SameTime
  <2>2. Finalized(j, Finalize(j)) /\ Quiet(j, Finalize(j)) BY <1>5, <2>1, FinalizeFields
  <2>3. Finalized(h, Finalize(j)) BY <1>5, <1>7, <1>8, <2>2, FinalizedAfter
  <2>4. Quiet(h, Finalize(j)) BY <1>2, <1>5, <2>2 DEF Quiet, SameRun, SameAsked
  <2> QED BY <1>3, <1>10, <2>3, <2>4
<1>11. CASE ~t.reqStop /\ ~(Limit > 0 /\ Count(j) >= Limit)
  <2>1. FinishFrame(h, f) = j BY <1>3, <1>11
  <2>2. /\ j.session = h.session /\ j.state # "idle" /\ SameTime(h, j)
        /\ j.takes = h.takes /\ j.lastTake = h.lastTake /\ h.pauses \subseteq j.pauses
        /\ j.reqSnap = h.reqSnap /\ j.req = h.req /\ j.snapInfo = h.snapInfo
        /\ j.state = t.state /\ j.segs = t.segs /\ j.pauses = t.pauses
    BY <1>2, <1>5 DEF SameRun, SameTime, SameTakes, SameAsked, SameSegs
  <2>3. /\ j.state = "recording" =>
             ShownOf(j) = ShownOf(h) \o <<f>> /\ Count(j) = Count(h) + 1
        /\ j.state # "recording" => SameShown(h, j)
    BY <1>2, <1>5, <2>2 DEF SameShown
  <2>4. /\ j.state = h.state => j.segs = h.segs
        /\ j.state # h.state /\ j.state = "recording" /\ SegsRight(h) => Cut(j.segs, Count(h))
        /\ j.state # h.state /\ j.state = "paused" => Count(j) \in j.pauses
    BY <1>2, <2>2, <2>3 DEF SameShown
  <2> QED BY <1>5, <1>7, <1>8, <2>1, <2>2, <2>3, <2>4
<1> QED BY <1>9, <1>10, <1>11

\* A take goes on, or the next one begins where the recording is.
TakeStep(h, k) ==
  \/ k.takes = h.takes /\ k.lastTake = h.lastTake
  \/ \E at \in Nat :
       /\ Count(h) <= at /\ at <= Count(k)
       /\ k.lastTake = h.lastTake + 1
       /\ k.takes = Append(h.takes, [id |-> h.lastTake + 1, start |-> at, rt |-> k.rtOn])

LEMMA TakesStay ==
  ASSUME NEW h \in Glue, NEW k \in Glue, TakesGood(h), TakeStep(h, k), Count(h) <= Count(k)
  PROVE  TakesGood(k)
<1> DEFINE s == h.takes  n == Len(s)
<1>1. n \in Nat /\ h.lastTake \in Nat /\ s \in Seq(ATake) BY DEF Glue
<1>2. Count(h) \in Nat /\ Count(k) \in Nat BY PosFields
<1>3. \A i \in 1..n : s[i] \in ATake BY <1>1, ElementOfSeq
<1>4. \A i \in 1..n : s[i].id \in Nat /\ s[i].start \in Nat BY <1>3 DEF ATake
<1>5. /\ \A i \in 1..n : s[i].id \in 1..h.lastTake /\ s[i].start <= Count(h)
      /\ \A i, j \in 1..n : i < j => s[i].id < s[j].id /\ s[i].start <= s[j].start
  BY DEF TakesGood
<1>6. CASE k.takes = s /\ k.lastTake = h.lastTake
  <2>1. \A i \in 1..n : s[i].start <= Count(k) BY <1>2, <1>4, <1>5
  <2> QED BY <1>5, <1>6, <2>1 DEF TakesGood
<1>7. CASE \E at \in Nat :
             /\ Count(h) <= at /\ at <= Count(k)
             /\ k.lastTake = h.lastTake + 1
             /\ k.takes = Append(s, [id |-> h.lastTake + 1, start |-> at, rt |-> k.rtOn])
  <2>1. PICK at \in Nat :
             /\ Count(h) <= at /\ at <= Count(k)
             /\ k.lastTake = h.lastTake + 1
             /\ k.takes = Append(s, [id |-> h.lastTake + 1, start |-> at, rt |-> k.rtOn])
    BY <1>7
  <2> DEFINE e == [id |-> h.lastTake + 1, start |-> at, rt |-> k.rtOn]  t == k.takes
  <2>2. e \in ATake /\ e.id = h.lastTake + 1 /\ e.start = at BY <1>1 DEF ATake, Glue
  <2> HIDE DEF e
  <2>3. Len(t) = n + 1 /\ t[n + 1] = e /\ \A i \in 1..n : t[i] = s[i]
    BY <1>1, <2>1, <2>2, AppendProperties DEF e
  <2> HIDE DEF t, n, s
  <2>4. \A i \in 1..n + 1 : i = n + 1 \/ i \in 1..n BY <1>1
  <2>5. \A i \in 1..n : s[i].id \in 1..h.lastTake + 1 /\ s[i].start <= at
                        /\ s[i].id < h.lastTake + 1
    BY <1>1, <1>2, <1>4, <1>5, <2>1
  <2>6. h.lastTake + 1 \in 1..h.lastTake + 1 BY <1>1
  <2>7. \A i \in 1..Len(t) : t[i].id \in 1..k.lastTake /\ t[i].start <= Count(k)
    <3> SUFFICES ASSUME NEW i \in 1..n + 1
                 PROVE  t[i].id \in 1..k.lastTake /\ t[i].start <= Count(k)
      BY <2>3
    <3>1. CASE i = n + 1 BY <2>1, <2>2, <2>3, <2>6, <3>1
    <3>2. CASE i \in 1..n BY <1>2, <1>4, <2>1, <2>3, <2>5, <3>2
    <3> QED BY <2>4, <3>1, <3>2
  <2>8. \A i, j \in 1..Len(t) : i < j => t[i].id < t[j].id /\ t[i].start <= t[j].start
    <3> SUFFICES ASSUME NEW i \in 1..n + 1, NEW j \in 1..n + 1, i < j
                 PROVE  t[i].id < t[j].id /\ t[i].start <= t[j].start
      BY <2>3
    <3>1. i \in 1..n BY <1>1
    <3>2. CASE j = n + 1 BY <2>2, <2>3, <2>5, <3>1, <3>2
    <3>3. CASE j \in 1..n BY <1>5, <2>3, <3>1, <3>3
    <3> QED BY <2>4, <3>2, <3>3
  <2> QED BY <2>7, <2>8 DEF TakesGood, t
<1> QED BY <1>6, <1>7 DEF TakeStep

\* A recording begins.
LEMMA StartFields ==
  ASSUME NEW h \in Glue, h.session < MaxSessions, NEW rt \in BOOLEAN
  PROVE  LET k == Start(h, rt)
         IN /\ k \in Glue /\ Counted(k) /\ k.pend = <<>> /\ k.state = "recording"
            /\ k.session = h.session + 1 /\ k.next = 0 /\ Count(k) = 0
            /\ k.queue = Append(h.queue, [type |-> "open", n |-> h.session + 1])
            /\ k.takes # <<>> /\ TakesGood(k) /\ Last(k.takes).rt = k.rtOn
            /\ k.rtOn = rt /\ ~k.leaving /\ k.fifo = (IF rt THEN Delay ELSE 0)
            /\ ~k.reqStop /\ ~k.reqToggle /\ ~k.reqSnap /\ k.req = h.req
            /\ SegsRight(k)
<1> DEFINE q == Append(h.queue, [type |-> "open", n |-> h.session + 1])
           r == [NoSession EXCEPT !.state = "recording", !.session = h.session + 1,
                                  !.req = h.req, !.queue = q]
           b == BeginSegment(r, 0)  s == BeginTake(b, 0)  k == Start(h, rt)
<1>1. h.session \in 0..MaxSessions /\ MaxSessions \in Nat /\ h.req \in BOOLEAN
      /\ h.queue \in Seq(Plain \cup Sidecar)
  BY VideoRecAssumption DEF Glue
<1>2. h.session + 1 \in 0..MaxSessions BY <1>1
<1>3. q \in Seq(Plain \cup Sidecar)
  <2>1. [type |-> "open", n |-> h.session + 1] \in Plain \cup Sidecar BY <1>2 DEF Plain, Opening
  <2> QED BY <1>1, <2>1, AppendProperties
<1>4. k = IF rt THEN Enter(s) ELSE s BY DEF Start
<1> HIDE DEF q, k
<1>5. /\ r \in Glue /\ r.state = "recording" /\ r.session = h.session + 1 /\ r.req = h.req
      /\ r.queue = q /\ r.segs = <<>> /\ r.open = FALSE /\ r.pend = <<>> /\ r.next = 0
      /\ r.content = <<>> /\ r.takes = <<>> /\ r.lastTake = 0
      /\ r.rtOn = FALSE /\ r.leaving = FALSE /\ r.fifo = 0
      /\ r.reqStop = FALSE /\ r.reqToggle = FALSE /\ r.reqSnap = FALSE
  <2>1. r \in Glue BY <1>1, <1>2, <1>3, NoSessionTyped DEF Glue
  <2> QED BY <2>1 DEF NoSession
<1> HIDE DEF r
<1>6. Counted(r) /\ Count(r) = 0 /\ TakesGood(r) /\ SegsGood(r.segs, r.open, 0)
  <2>1. Len(<<>>) = 0 OBVIOUS
  <2>2. Count(r) = 0 BY <1>5, <2>1 DEF Count
  <2>3. Counted(r) BY <1>5, <2>1 DEF Counted
  <2>4. TakesGood(r) BY <1>5, <2>1 DEF TakesGood
  <2>5. SegsGood(<<>>, FALSE, 0) BY <2>1 DEF SegsGood
  <2> QED BY <1>5, <2>2, <2>3, <2>4, <2>5
<1>7. /\ b \in Glue /\ OnlySegs(r, b)
      /\ b.open /\ SegsGood(b.segs, TRUE, 0)
  BY <1>5, <1>6, BeginSegmentFields
<1> HIDE DEF b
<1>8. /\ s \in Glue /\ s.lastTake = b.lastTake + 1 /\ s.pauses = b.pauses
      /\ s.takes = Append(b.takes, [id |-> b.lastTake + 1, start |-> 0, rt |-> b.rtOn])
      /\ s.queue = b.queue
      /\ SameRun(b, s) /\ SameFilm(b, s) /\ SameSegs(b, s) /\ SameTime(b, s) /\ SameAsked(b, s)
  BY <1>7, BeginTakeFields
<1> HIDE DEF s
<1>9. /\ SameRun(r, s) /\ SameFilm(r, s) /\ SameTime(r, s) /\ SameAsked(r, s)
      /\ s.queue = q /\ s.open = TRUE /\ SegsGood(s.segs, TRUE, 0)
      /\ s.lastTake = r.lastTake + 1
      /\ s.takes = Append(r.takes, [id |-> r.lastTake + 1, start |-> 0, rt |-> s.rtOn])
  <2>1. b.open = TRUE BY <1>7 DEF Glue
  <2> QED BY <1>5, <1>7, <1>8, <2>1
        DEF OnlySegs, SameRun, SameFilm, SameTakes, SameTime, SameAsked, SameSegs
<1>10. /\ s.state = "recording" /\ s.session = h.session + 1 /\ s.req = h.req
       /\ s.pend = <<>> /\ s.next = 0
       /\ s.rtOn = FALSE /\ s.leaving = FALSE /\ s.fifo = 0
       /\ ~s.reqStop /\ ~s.reqToggle /\ ~s.reqSnap
       /\ Counted(s) /\ Count(s) = 0
  BY <1>5, <1>6, <1>9 DEF SameRun, SameFilm, SameTime, SameAsked, Counted, Count
<1>11. TakesGood(s)
  <2>1. TakeStep(r, s) BY <1>6, <1>9, <1>10 DEF TakeStep
  <2> QED BY <1>5, <1>6, <1>8, <1>10, <2>1, TakesStay
<1>12. SegsRight(s)
  <2>1. Pos(s) = 0 BY <1>8, <1>10, PosFields
  <2> QED BY <1>9, <1>10, <2>1 DEF SegsRight
<1>13. ASSUME NEW u \in Glue, NEW v \in Glue, TakeBegun(u, v, Count(u))
       PROVE  v.takes # <<>> /\ Last(v.takes).rt = v.rtOn
  <2>1. u.takes \in Seq(ATake) /\ u.lastTake \in Nat /\ v.rtOn \in BOOLEAN BY DEF Glue
  <2> DEFINE e == [id |-> u.lastTake + 1, start |-> Count(u), rt |-> v.rtOn]
  <2>2. e \in ATake /\ e.rt = v.rtOn BY <2>1, PosFields DEF ATake
  <2>3. v.takes = Append(u.takes, e) BY <1>13 DEF TakeBegun
  <2> HIDE DEF e
  <2>4. Len(v.takes) = Len(u.takes) + 1 /\ v.takes[Len(u.takes) + 1] = e /\ v.takes # <<>>
    BY <2>1, <2>2, <2>3, AppendProperties
  <2> QED BY <2>2, <2>4 DEF Last
<1>14. CASE ~rt
  <2>1. TakeBegun(b, s, Count(b))
    <3>1. Count(b) = 0 BY <1>6, <1>7, OnlySegsSame
    <3> QED BY <1>8, <3>1 DEF TakeBegun, SameTime
  <2>2. s.takes # <<>> /\ Last(s.takes).rt = s.rtOn BY <1>7, <1>8, <1>13, <2>1
  <2> QED BY <1>4, <1>8, <1>9, <1>10, <1>11, <1>12, <1>14, <2>2 DEF k, q
<1>15. CASE rt
  <2> DEFINE e == Enter(s)
  <2>1. /\ e \in Glue /\ Counted(e) /\ e.pend = <<>> /\ SameShown(s, e) /\ Wrote(s, e)
        /\ SameRun(s, e) /\ SameAsked(s, e) /\ TakeBegun(s, e, Count(s))
        /\ e.rtOn /\ ~e.leaving /\ e.fifo = Delay
        /\ SegStep(s, e)
    BY <1>8, <1>10, EnterFields
  <2> HIDE DEF e
  <2>2. Count(e) = 0 /\ e.next = 0
    <3>1. Count(e) = e.next BY <2>1, EmptyPipe
    <3> QED BY <1>10, <2>1, <3>1 DEF SameShown
  <2>3. e.queue = q
    <3>1. Wrote(s, s) BY <1>8, WroteNothing
    <3>2. e.next - s.next = s.next - s.next BY <1>10, <2>2
    <3> QED BY <1>9, <2>1, <3>1, <3>2 DEF Wrote
  <2>4. e.takes # <<>> /\ Last(e.takes).rt = e.rtOn BY <1>8, <1>13, <2>1
  <2>5. TakesGood(e)
    <3>1. TakeStep(s, e)
      <4>1. /\ e.lastTake = s.lastTake + 1
            /\ e.takes = Append(s.takes, [id |-> s.lastTake + 1, start |-> 0, rt |-> e.rtOn])
        BY <1>10, <2>1 DEF TakeBegun
      <4>2. 0 \in Nat /\ Count(s) <= 0 /\ 0 <= Count(e) BY <1>10, <2>2
      <4> QED BY <4>1, <4>2 DEF TakeStep
    <3> QED BY <1>8, <1>10, <1>11, <2>1, <2>2, <3>1, TakesStay
  <2>6. SegsRight(e) BY <1>12, <2>1 DEF SegStep
  <2>7. e.rtOn = rt
    <3>1. e.rtOn = TRUE BY <2>1 DEF Glue
    <3> QED BY <1>15, <3>1
  <2> QED BY <1>4, <1>10, <1>15, <2>1, <2>2, <2>3, <2>4, <2>5, <2>6, <2>7
        DEF k, e, q, SameRun, SameAsked
<1> QED BY <1>14, <1>15

\* Back to the point of the snapshot: what was recorded up to it stays.
LEMMA RetakeFields ==
  ASSUME NEW h \in Glue, Counted(h), ~h.rtOn, h.state # "idle",
         h.snapInfo.frame <= h.next, TakesOf(h, h.snapInfo) # {}
  PROVE  LET k == Retake(h)  at == h.snapInfo.frame
         IN /\ k \in Glue /\ Counted(k) /\ k.pend = <<>> /\ k.next = at /\ Count(k) = at
            /\ at \in Nat /\ at <= Count(h)
            /\ \A i \in 1..at : ShownOf(k)[i] = ShownOf(h)[i]
            /\ k.queue = Append(h.queue, [type |-> "truncate", n |-> at])
            /\ SameRun(h, k) /\ SameTime(h, k)
            /\ ~k.reqSnap /\ k.reqStop = h.reqStop /\ k.reqToggle = h.reqToggle
            /\ k.req = h.req /\ k.snapInfo = h.snapInfo
            /\ k.lastTake = h.lastTake + 1
            /\ \E i \in TakesOf(h, h.snapInfo) :
                 k.takes = Append(SubSeq(h.takes, 1, i),
                                  [id |-> h.lastTake + 1, start |-> at, rt |-> FALSE])
            /\ {p \in h.pauses : p <= at} \subseteq k.pauses
            /\ h.state = "paused" => at \in k.pauses
            /\ SegsRight(h) =>
                 /\ SegsRight(k)
                 /\ \A x \in Nat : x < at /\ Cut(h.segs, x) => Cut(k.segs, x)
                 /\ h.state = "recording" /\ at \in h.pauses => Cut(k.segs, at)
<1> DEFINE at == h.snapInfo.frame
           i  == CHOOSE j \in TakesOf(h, h.snapInfo) : TRUE
           c  == SubSeq(h.content, 1, at)
           tk == SubSeq(h.takes, 1, i)
           r  == [h EXCEPT !.reqSnap = FALSE, !.pend = <<>>, !.next = at, !.content = c, !.takes = tk]
           m  == [type |-> "truncate", n |-> at]
           p  == Push(r, m)
           s  == TruncateSegments(p, at)
           t  == BeginTake(s, at)
           ps == {x \in h.pauses : x <= at}
           u  == [t EXCEPT !.pauses = ps]
           k  == Retake(h)
<1>1. at \in Nat /\ h.next \in Nat /\ at <= h.next BY DEF Glue, Point
<1>2. i \in TakesOf(h, h.snapInfo) OBVIOUS
<1>3. i \in 1..Len(h.takes)
  <2>1. h.takes \in Seq(ATake) BY DEF Glue
  <2>2. i \in DOMAIN h.takes BY <1>2 DEF TakesOf
  <2> HIDE DEF i
  <2> QED BY <2>1, <2>2, LenProperties
<1> HIDE DEF i
<1>4. c \in Seq(Frame) /\ Len(c) = at /\ \A j \in 1..at : c[j] = h.content[j]
  <2>1. h.content \in Seq(Frame) BY DEF Glue
  <2>2. at \in 0..Len(h.content)
    <3>1. Len(h.content) = h.next BY DEF Counted
    <3>2. at \in 0..h.next BY <1>1
    <3> QED BY <3>1, <3>2
  <2> HIDE DEF at
  <2> QED BY <2>1, <2>2, SplitSeq
<1>5. tk \in Seq(ATake)
  <2>1. h.takes \in Seq(ATake) BY DEF Glue
  <2>2. i \in 0..Len(h.takes) BY <1>3
  <2> QED BY <2>1, <2>2, SplitSeq
<1>6. k = IF h.state = "paused" THEN [EndSegment(u, at) EXCEPT !.pauses = @ \cup {at}]
          ELSE IF at \in h.pauses THEN BeginSegment(u, at) ELSE u
  <2>1. t.pauses = h.pauses
    <3>1. r \in Glue /\ r.pauses = h.pauses
      <4>1. <<>> \in Seq(Taped) BY EmptySeq
      <4> HIDE DEF c, tk
      <4> HIDE DEF at
      <4> QED BY <1>1, <1>4, <1>5, <4>1 DEF Glue
    <3> HIDE DEF r
    <3>2. m \in Plain \cup Sidecar BY <1>1 DEF Plain
    <3>3. p \in Glue /\ p.pauses = r.pauses BY <3>1, <3>2, PushFields DEF SameTakes
    <3> HIDE DEF p
    <3>4. s \in Glue /\ s.pauses = p.pauses
      BY <1>1, <3>3, TruncateFields DEF OnlySegs, SameTakes
    <3> HIDE DEF s
    <3>5. t.pauses = s.pauses BY <1>1, <3>4, BeginTakeFields
    <3> QED BY <3>1, <3>3, <3>4, <3>5
  <2> DEFINE v == [t EXCEPT !.pauses = {x \in t.pauses : x <= at}]
  <2>2. k = IF h.state = "paused" THEN [EndSegment(v, at) EXCEPT !.pauses = @ \cup {at}]
            ELSE IF at \in h.pauses THEN BeginSegment(v, at) ELSE v
    BY DEF Retake, i
  <2> HIDE DEF t, k
  <2>3. v = u BY <2>1
  <2> HIDE DEF u, v, at
  <2> QED BY <2>2, <2>3
<1> HIDE DEF c, tk, k
<1> HIDE DEF at
<1>7. /\ r \in Glue /\ ~r.reqSnap /\ r.pend = <<>> /\ r.next = at /\ r.content = c
      /\ r.takes = tk /\ r.lastTake = h.lastTake /\ r.pauses = h.pauses /\ r.queue = h.queue
      /\ SameRun(h, r) /\ SameSegs(h, r) /\ SameTime(h, r)
      /\ r.reqStop = h.reqStop /\ r.reqToggle = h.reqToggle /\ r.req = h.req
      /\ r.snapInfo = h.snapInfo
  <2>1. <<>> \in Seq(Taped) BY EmptySeq
  <2> QED BY <1>1, <1>4, <1>5, <2>1 DEF Glue, SameRun, SameSegs, SameTime
<1> HIDE DEF r
<1>8. /\ p \in Glue /\ p.queue = Append(r.queue, m)
      /\ SameRun(r, p) /\ SameFilm(r, p) /\ SameSegs(r, p) /\ SameTakes(r, p)
      /\ SameTime(r, p) /\ SameAsked(r, p)
  <2>1. m \in Plain \cup Sidecar BY <1>1 DEF Plain
  <2> HIDE DEF m
  <2> QED BY <1>7, <2>1, PushFields
<1> HIDE DEF p, m
<1>9. /\ s \in Glue /\ OnlySegs(p, s)
      /\ p.segs = <<>> => ~s.open /\ s.segs = <<>>
      /\ \A o, z : p.segs # <<>> /\ SegsGood(p.segs, o, z) =>
           /\ s.open /\ SegsGood(s.segs, TRUE, at)
           /\ \A x \in Nat : x < at /\ Cut(p.segs, x) => Cut(s.segs, x)
  BY <1>1, <1>8, TruncateFields
<1> HIDE DEF s
<1>10. /\ t \in Glue /\ t.lastTake = s.lastTake + 1 /\ t.pauses = s.pauses
       /\ t.takes = Append(s.takes, [id |-> s.lastTake + 1, start |-> at, rt |-> s.rtOn])
       /\ t.queue = s.queue
       /\ SameRun(s, t) /\ SameFilm(s, t) /\ SameSegs(s, t) /\ SameTime(s, t) /\ SameAsked(s, t)
  BY <1>1, <1>9, BeginTakeFields
<1> HIDE DEF t
<1>11. ps \in SUBSET Nat BY DEF Glue
<1> HIDE DEF ps
<1>12. /\ u \in Glue /\ u.pauses = ps /\ u.takes = t.takes /\ u.lastTake = t.lastTake
       /\ u.queue = t.queue
       /\ SameRun(t, u) /\ SameFilm(t, u) /\ SameSegs(t, u) /\ SameTime(t, u) /\ SameAsked(t, u)
  BY <1>10, <1>11 DEF Glue, SameRun, SameFilm, SameSegs, SameTime, SameAsked
<1> HIDE DEF u
\* All that the last step on the segments, if there is one, leaves as it is.
<1> DEFINE Rest(v) ==
      /\ v.content = c /\ v.next = at /\ v.pend = <<>> /\ v.queue = Append(h.queue, m)
      /\ SameRun(h, v) /\ SameTime(h, v)
      /\ ~v.reqSnap /\ v.reqStop = h.reqStop /\ v.reqToggle = h.reqToggle
      /\ v.req = h.req /\ v.snapInfo = h.snapInfo
      /\ v.lastTake = h.lastTake + 1
      /\ v.takes = Append(tk, [id |-> h.lastTake + 1, start |-> at, rt |-> FALSE])
<1>13. Rest(u)
  <2>1. s.rtOn = FALSE BY <1>7, <1>8, <1>9 DEF OnlySegs, SameTime, Glue
  <2>2. /\ SameFilm(r, u) /\ u.queue = p.queue /\ SameRun(h, u) /\ SameTime(h, u)
        /\ SameAsked(r, u)
    BY <1>7, <1>8, <1>9, <1>10, <1>12
    DEF OnlySegs, SameRun, SameFilm, SameTime, SameAsked
  <2>3. /\ u.lastTake = h.lastTake + 1
        /\ u.takes = Append(tk, [id |-> h.lastTake + 1, start |-> at, rt |-> FALSE])
    BY <1>7, <1>8, <1>9, <1>10, <1>12, <2>1 DEF OnlySegs, SameTakes
  <2> QED BY <1>7, <1>8, <2>2, <2>3 DEF SameFilm, SameAsked
<1>14. u.segs = s.segs /\ u.open = s.open /\ p.segs = h.segs /\ p.open = h.open
  BY <1>7, <1>8, <1>10, <1>12 DEF SameSegs
<1>15. \A v : OnlySegs(u, v) => Rest(v) /\ v.pauses = ps
  BY <1>12, <1>13
  DEF OnlySegs, SameRun, SameFilm, SameTakes, SameTime, SameAsked
<1>16. ASSUME SegsRight(h)
       PROVE  /\ SegsGood(u.segs, u.open, at) /\ (h.state = "recording" => u.open)
              /\ \A x \in Nat : x < at /\ Cut(h.segs, x) => Cut(u.segs, x)
  <2>1. SegsGood(h.segs, h.open, Pos(h)) BY <1>16 DEF SegsRight
  <2>2. CASE h.segs = <<>>
    <3>1. h.state # "recording" /\ Pos(h) = 0 BY <1>16, <2>1, <2>2 DEF SegsRight, SegsGood
    <3>2. Count(h) = 0 BY <3>1, PosFields
    <3>3. at = 0
      <4>1. Count(h) = h.next + Len(h.pend) /\ Len(h.pend) \in Nat BY DEF Count, Glue
      <4> QED BY <1>1, <3>2, <4>1
    <3>4. u.open = FALSE /\ u.segs = <<>> BY <1>9, <1>12, <1>14, <2>2 DEF Glue
    <3>5. SegsGood(<<>>, FALSE, 0)
      <4>1. Len(<<>>) = 0 OBVIOUS
      <4> QED BY <4>1 DEF SegsGood
    <3>6. \A x \in Nat : ~(x < at) BY <3>3
    <3> QED BY <3>1, <3>3, <3>4, <3>5, <3>6
  <2>3. CASE h.segs # <<>>
    <3>1. /\ s.open /\ SegsGood(s.segs, TRUE, at)
          /\ \A x \in Nat : x < at /\ Cut(h.segs, x) => Cut(s.segs, x)
      BY <1>9, <1>14, <2>1, <2>3
    <3>2. u.open = TRUE BY <1>12, <1>14, <3>1 DEF Glue
    <3> QED BY <1>14, <3>1, <3>2
  <2> QED BY <2>2, <2>3
<1> DEFINE Segments ==
      SegsRight(h) =>
         /\ SegsRight(k)
         /\ \A x \in Nat : x < at /\ Cut(h.segs, x) => Cut(k.segs, x)
         /\ h.state = "recording" /\ at \in h.pauses => Cut(k.segs, at)
<1>17. ASSUME NEW v \in Glue, Rest(v)
       PROVE  Counted(v) /\ Count(v) = at /\ ShownOf(v) = c /\ Pos(v) = at /\ v.state = h.state
  <2>1. v.next = at /\ v.pend = <<>> /\ v.content = c /\ ~v.rtOn /\ v.state = h.state
    BY <1>17 DEF SameTime, SameRun
  <2>2. Counted(v) BY <1>4, <2>1 DEF Counted
  <2> QED BY <1>17, <2>1, <2>2, EmptyPipe, PosFields
<1>18. /\ k \in Glue /\ Rest(k) /\ ps \subseteq k.pauses
       /\ h.state = "paused" => at \in k.pauses
       /\ Segments
  <2>1. h.state \in {"recording", "paused"} BY DEF Glue
  <2>2. CASE h.state = "paused"
    <3> DEFINE e == EndSegment(u, at)  a == ps \cup {at}  v == [e EXCEPT !.pauses = a]
    <3>1. /\ e \in Glue /\ OnlySegs(u, e)
          /\ SegsGood(u.segs, u.open, at) =>
               /\ ~e.open /\ SegsGood(e.segs, FALSE, at)
               /\ \A x \in Nat : x < at /\ Cut(u.segs, x) => Cut(e.segs, x)
      BY <1>1, <1>12, EndSegmentFields
    <3>2. Rest(e) /\ e.pauses = ps BY <1>15, <3>1
    <3>3. k = [e EXCEPT !.pauses = e.pauses \cup {at}] BY <1>6, <2>2
    <3>4. k = v BY <3>2, <3>3
    <3>5. a \in SUBSET Nat /\ at \in a /\ ps \subseteq a BY <1>1, <1>11
    <3> HIDE DEF e, a
    <3> HIDE DEF Rest
    <3>6. v \in Glue /\ v.pauses = a /\ v.segs = e.segs /\ v.open = e.open
      BY <3>1, <3>5 DEF Glue
    <3>7. Rest(v)
      <4>1. /\ v.content = e.content /\ v.next = e.next /\ v.pend = e.pend
            /\ v.queue = e.queue /\ v.state = e.state /\ v.session = e.session
            /\ v.rtOn = e.rtOn /\ v.leaving = e.leaving /\ v.fifo = e.fifo
            /\ v.reqSnap = e.reqSnap /\ v.reqStop = e.reqStop /\ v.reqToggle = e.reqToggle
            /\ v.req = e.req /\ v.snapInfo = e.snapInfo
            /\ v.lastTake = e.lastTake /\ v.takes = e.takes
        BY <3>1, <3>5 DEF Glue
      <4> HIDE DEF v
      <4> QED BY <3>2, <4>1 DEF Rest, SameRun, SameTime
    <3> HIDE DEF v
    <3>8. Pos(v) = at /\ v.state = "paused" BY <1>17, <2>2, <3>6, <3>7
    <3>9. Segments
      <4> SUFFICES ASSUME SegsRight(h)
                   PROVE  /\ SegsRight(k)
                          /\ \A x \in Nat : x < at /\ Cut(h.segs, x) => Cut(k.segs, x)
        BY <2>2
      <4>1. e.open = FALSE /\ SegsGood(e.segs, FALSE, at) BY <1>16, <3>1 DEF Glue
      <4>2. SegsRight(v) BY <3>6, <3>8, <4>1 DEF SegsRight
      <4> QED BY <1>16, <3>1, <3>4, <3>6, <4>2
    <3> QED BY <3>4, <3>5, <3>6, <3>7, <3>9
  <2>3. CASE h.state = "recording" /\ at \in h.pauses
    <3> DEFINE b == BeginSegment(u, at)
    <3>1. /\ b \in Glue /\ OnlySegs(u, b)
          /\ SegsGood(u.segs, u.open, at) =>
               /\ b.open /\ SegsGood(b.segs, TRUE, at) /\ Cut(b.segs, at)
               /\ \A x \in Nat : x <= at /\ Cut(u.segs, x) => Cut(b.segs, x)
      BY <1>1, <1>12, BeginSegmentFields
    <3>2. k = b BY <1>6, <2>3
    <3> HIDE DEF b
    <3>3. Rest(b) /\ b.pauses = ps BY <1>15, <3>1
    <3> HIDE DEF Rest
    <3>4. Pos(b) = at /\ b.state = h.state BY <1>17, <3>1, <3>3
    <3>5. Segments
      <4> SUFFICES ASSUME SegsRight(h)
                   PROVE  /\ SegsRight(k)
                          /\ \A x \in Nat : x < at /\ Cut(h.segs, x) => Cut(k.segs, x)
                          /\ Cut(k.segs, at)
        OBVIOUS
      <4>1. b.open = TRUE /\ SegsGood(b.segs, TRUE, at) /\ Cut(b.segs, at)
        BY <1>16, <3>1 DEF Glue
      <4>2. SegsRight(b) BY <2>3, <3>4, <4>1 DEF SegsRight
      <4>3. \A x \in Nat : x < at => x <= at BY <1>1
      <4> QED BY <1>16, <3>1, <3>2, <4>1, <4>2, <4>3
    <3> QED BY <2>3, <3>1, <3>2, <3>3, <3>5
  <2>4. CASE h.state = "recording" /\ at \notin h.pauses
    <3>1. k = u BY <1>6, <2>4
    <3> HIDE DEF Rest
    <3>2. Pos(u) = at /\ u.state = h.state BY <1>12, <1>13, <1>17
    <3>3. Segments
      <4> SUFFICES ASSUME SegsRight(h)
                   PROVE  /\ SegsRight(k)
                          /\ \A x \in Nat : x < at /\ Cut(h.segs, x) => Cut(k.segs, x)
        BY <2>4
      <4>1. SegsGood(u.segs, u.open, at) /\ u.open /\ u.state = "recording"
        BY <1>16, <2>4, <3>2
      <4>2. SegsRight(u) BY <3>2, <4>1 DEF SegsRight
      <4> QED BY <1>16, <3>1, <4>2
    <3> QED BY <1>12, <1>13, <2>4, <3>1, <3>3
  <2> QED BY <2>1, <2>2, <2>3, <2>4
<1>19. Counted(k) /\ Count(k) = at /\ ShownOf(k) = c BY <1>17, <1>18
<1>20. at <= Count(h)
  <2>1. Count(h) = h.next + Len(h.pend) /\ Len(h.pend) \in Nat BY DEF Count, Glue
  <2> QED BY <1>1, <2>1
<1>21. \A j \in 1..at : ShownOf(k)[j] = ShownOf(h)[j]
  <2>1. h.content \in Seq(Frame) BY DEF Glue
  <2>2. h.pend \in Seq(Frame)
    <3>1. h.pend \in Seq(Taped) BY DEF Glue
    <3> QED BY <3>1, SeqMonotonic DEF Taped
  <2>3. Len(h.content) \in Nat /\ Len(h.pend) \in Nat BY <2>1, <2>2, LenProperties
  <2>4. Len(h.content) = h.next BY DEF Counted
  <2>5. \A j \in 1..Len(h.content) + Len(h.pend) :
          (h.content \o h.pend)[j] = IF j <= Len(h.content) THEN h.content[j]
                                     ELSE h.pend[j - Len(h.content)]
    BY <2>1, <2>2, ConcatProperties
  <2>6. \A j \in 1..at : j \in 1..Len(h.content) + Len(h.pend) /\ j <= Len(h.content)
    <3>1. PICK n \in Nat : n = Len(h.content) BY <2>3
    <3>2. at <= n BY <1>1, <2>4, <3>1
    <3>3. \A j \in 1..at : j \in 1..n + Len(h.pend) /\ j <= n BY <1>1, <2>3, <3>2
    <3> QED BY <3>1, <3>3
  <2>7. \A j \in 1..at : (h.content \o h.pend)[j] = h.content[j] BY <2>5, <2>6
  <2>8. ShownOf(h) = h.content \o h.pend BY DEF ShownOf
  <2> QED BY <1>4, <1>19, <2>7, <2>8
<1>22. \E j \in TakesOf(h, h.snapInfo) :
          k.takes = Append(SubSeq(h.takes, 1, j),
                           [id |-> h.lastTake + 1, start |-> at, rt |-> FALSE])
  BY <1>2, <1>18 DEF tk
<1>23. /\ k.pend = <<>> /\ k.next = at
       /\ k.queue = Append(h.queue, [type |-> "truncate", n |-> at])
       /\ SameRun(h, k) /\ SameTime(h, k)
       /\ ~k.reqSnap /\ k.reqStop = h.reqStop /\ k.reqToggle = h.reqToggle
       /\ k.req = h.req /\ k.snapInfo = h.snapInfo /\ k.lastTake = h.lastTake + 1
  BY <1>18 DEF m
<1>24. {x \in h.pauses : x <= at} \subseteq k.pauses BY <1>18 DEF ps
<1> HIDE DEF Rest
<1> QED BY <1>1, <1>18, <1>19, <1>20, <1>21, <1>22, <1>23, <1>24 DEF at, k

-----------------------------------------------------------------------------
(* The shape of the glue, and what hears a request. *)

LEMMA OnlyAskedShape ==
  ASSUME NEW h, NEW k \in Glue, Shape(h), OnlyAsked(h, k)
  PROVE  Shape(k)
<1>1. Counted(k) BY OnlyAskedSame DEF Shape
<1> QED BY <1>1 DEF Shape, OnlyAsked, SameRun, SameFilm, SameTime, SameTakes

LEMMA QuietShape ==
  ASSUME NEW h, NEW k, Quiet(h, k)
  PROVE  Shape(k)
<1>1. Len(<<>>) <= MaxPending BY RecordingAssumption
<1>2. k.fifo <= Delay BY RecordingAssumption DEF Quiet
<1>3. ~(k.fifo > 0) BY DEF Quiet
<1> QED BY <1>1, <1>2, <1>3 DEF Quiet, Shape

LEMMA TakesAgain ==
  ASSUME NEW h \in Glue, NEW k \in Glue, NEW at, TakeBegun(h, k, at), at \in Nat
  PROVE  k.takes # <<>> /\ Last(k.takes).rt = k.rtOn /\ Last(k.takes).id = k.lastTake
<1>1. h.takes \in Seq(ATake) /\ h.lastTake \in Nat /\ k.rtOn \in BOOLEAN BY DEF Glue
<1> DEFINE e == [id |-> h.lastTake + 1, start |-> at, rt |-> k.rtOn]
<1>2. e \in ATake /\ e.rt = k.rtOn /\ e.id = h.lastTake + 1 BY <1>1 DEF ATake
<1>3. k.takes = Append(h.takes, e) /\ k.lastTake = h.lastTake + 1 BY DEF TakeBegun
<1> HIDE DEF e
<1>4. Len(k.takes) = Len(h.takes) + 1 /\ k.takes[Len(h.takes) + 1] = e /\ k.takes # <<>>
  BY <1>1, <1>2, <1>3, AppendProperties
<1> QED BY <1>2, <1>3, <1>4 DEF Last

\* The frame is over: the sampler's time, if it was that, is over too.
AtFrameEnd(h) ==
  LET r == [h EXCEPT !.req = FALSE] IN IF h.rtOn THEN Leave(r) ELSE r

\* The first section at the end of a frame.
LEMMA AtFrameEndFields ==
  ASSUME NEW h, Shape(h), h.state # "idle"
  PROVE  LET k == AtFrameEnd(h)
         IN /\ Shape(k) /\ Wrote(h, k) /\ SegStep(h, k)
            /\ SameRun(h, k) /\ ~k.rtOn /\ ~k.leaving /\ k.fifo = 0 /\ ~k.req
            /\ k.reqStop = h.reqStop /\ k.reqToggle = h.reqToggle /\ k.reqSnap = h.reqSnap
            /\ k.snapInfo = h.snapInfo
            /\ ~h.rtOn => OnlyAsked(h, k)
            /\ h.rtOn => /\ TakeBegun(h, k, Count(k)) /\ \E b \in Nat : Grown(h, k, b)
                         /\ Count(k) = Pos(h)
                         /\ SegsRight(h) => Kept(h, k)
                         /\ SegsRight(h) /\ h.state = "recording" => Cut(k.segs, Count(k))
<1> DEFINE r == [h EXCEPT !.req = FALSE]  k == AtFrameEnd(h)
<1>1. h \in Glue /\ Counted(h) BY DEF Shape
<1>2. /\ r \in Glue /\ OnlyAsked(h, r) /\ ~r.req
      /\ r.reqStop = h.reqStop /\ r.reqToggle = h.reqToggle /\ r.reqSnap = h.reqSnap
      /\ r.snapInfo = h.snapInfo
  BY <1>1 DEF Glue, OnlyAsked, SameRun, SameFilm, SameSegs, SameTakes, SameTime
<1> HIDE DEF r
<1>3. Shape(r) BY <1>2, OnlyAskedShape
<1>4. SegStep(h, r) /\ SameShown(h, r) /\ (SegsRight(h) => SegsRight(r))
  BY <1>2, OnlyAskedSame
<1>5. Wrote(h, r) BY <1>1, <1>2, WroteNothing DEF OnlyAsked, SameFilm
<1>6. r.rtOn = h.rtOn /\ r.state = h.state /\ r.fifo = h.fifo /\ r.leaving = h.leaving
  BY <1>2 DEF OnlyAsked, SameTime, SameRun
<1>7. CASE ~h.rtOn
  <2>1. k = r BY <1>7 DEF AtFrameEnd, r
  <2>2. ~r.leaving BY <1>3, <1>6, <1>7 DEF Shape
  <2>3. r.fifo = 0
    <3>1. r.fifo \in Nat /\ ~(r.fifo > 0) BY <1>3, <1>6, <1>7 DEF Shape, Glue
    <3> QED BY <3>1
  <2> QED BY <1>2, <1>3, <1>4, <1>5, <1>6, <1>7, <2>1, <2>2, <2>3 DEF OnlyAsked
<1>8. CASE h.rtOn
  <2> DEFINE l == Leave(r)
  <2>1. k = l BY <1>8 DEF AtFrameEnd, r
  <2>2. r.pend = <<>> /\ r.rtOn /\ Counted(r) BY <1>3, <1>6, <1>8 DEF Shape
  <2>3. /\ l \in Glue /\ Counted(l) /\ l.pend = <<>> /\ Count(l) = Pos(r) /\ Wrote(r, l)
        /\ SameRun(r, l) /\ SameAsked(r, l) /\ TakeBegun(r, l, Count(l))
        /\ ~l.rtOn /\ ~l.leaving /\ l.fifo = 0
        /\ SegStep(r, l) /\ (SegsRight(r) => Kept(r, l))
        /\ SegsRight(r) /\ r.state = "recording" => Cut(l.segs, Count(l))
    BY <1>2, <2>2, LeaveFields
  <2>4. PICK b \in Nat : Grown(r, l, b) BY <1>2, <2>2, LeaveFields
  <2> HIDE DEF l, k
  <2>5. Grown(h, l, b) BY <1>4, <2>4 DEF Grown, SameShown
  <2>6. Wrote(h, l) BY <1>1, <1>2, <1>5, <2>3, WroteBoth
  <2>7. SegStep(h, l)
    <3>1. Count(h) \in Nat /\ Count(h) <= Count(r) BY <1>1, <1>4, PosFields DEF SameShown
    <3> QED BY <1>1, <1>2, <1>4, <2>3, <3>1, SegStepBoth
  <2>8. TakeBegun(h, l, Count(l)) BY <1>2, <2>3 DEF TakeBegun, OnlyAsked, SameTakes
  <2>9. /\ SameRun(h, l) /\ ~l.req
        /\ l.reqStop = h.reqStop /\ l.reqToggle = h.reqToggle /\ l.reqSnap = h.reqSnap
        /\ l.snapInfo = h.snapInfo
    BY <1>2, <2>3 DEF SameRun, SameAsked, OnlyAsked
  <2>10. Shape(l)
    <3>1. l.takes # <<>>
      <4>1. Count(l) \in Nat BY <2>3, PosFields
      <4> QED BY <1>2, <2>3, <4>1, TakesAgain
    <3>2. Len(l.pend) <= MaxPending /\ l.fifo <= Delay /\ ~(l.fifo > 0)
      BY <2>3, RecordingAssumption
    <3> QED BY <2>3, <3>1, <3>2 DEF Shape
  <2>11. SegsRight(h) => Kept(h, l)
    <3>1. r.segs = h.segs BY <1>2 DEF OnlyAsked, SameSegs
    <3> QED BY <1>4, <2>3, <3>1 DEF Kept
  <2>12. Count(l) = Pos(h)
    <3>1. Pos(r) = Pos(h) BY <1>2, OnlyAskedSame
    <3> QED BY <2>3, <3>1
  <2> QED BY <1>4, <1>6, <1>8, <2>1, <2>3, <2>4, <2>5, <2>6, <2>7, <2>8, <2>9, <2>10, <2>11,
             <2>12 DEF k
<1> QED BY <1>7, <1>8

\* A snapshot that is no retake begins a take, before the frame is finished.
Seamed(h) == IF h.reqSnap THEN Seam(h) ELSE h

LEMMA SeamedFields ==
  ASSUME NEW h, Shape(h), ~h.rtOn
  PROVE  LET k == Seamed(h)
         IN /\ Shape(k) /\ SameShown(h, k) /\ Wrote(h, k) /\ SegStep(h, k)
            /\ SameRun(h, k) /\ SameTime(h, k)
            /\ ~k.reqSnap /\ k.req = h.req
            /\ ~h.reqSnap => k = h
            /\ h.reqSnap =>
                 /\ TakeBegun(h, k, Count(h))
                 /\ SegsRight(h) /\ h.state = "recording" => Cut(k.segs, Count(h))
<1> DEFINE k == Seam(h)
<1>1. h \in Glue /\ Counted(h) /\ Count(h) \in Nat BY PosFields DEF Shape
<1>2. CASE ~h.reqSnap
  <2>1. Seamed(h) = h BY <1>2 DEF Seamed
  <2>2. OnlyAsked(h, h)
    BY DEF OnlyAsked, SameRun, SameFilm, SameSegs, SameTakes, SameTime
  <2>3. SegStep(h, h) /\ SameShown(h, h) BY <2>2, OnlyAskedSame
  <2>4. Wrote(h, h) BY <1>1, WroteNothing
  <2> QED BY <1>2, <2>1, <2>2, <2>3, <2>4 DEF OnlyAsked
<1>3. CASE h.reqSnap
  <2>1. /\ k \in Glue /\ Counted(k) /\ k.pend = <<>> /\ SameShown(h, k) /\ Wrote(h, k)
        /\ SameRun(h, k) /\ SameTime(h, k) /\ TakeBegun(h, k, Count(h))
        /\ ~k.reqSnap /\ k.req = h.req
        /\ SegStep(h, k)
        /\ SegsRight(h) /\ h.state = "recording" => Cut(k.segs, Count(h))
    BY <1>1, SeamFields
  <2>2. Seamed(h) = k BY <1>3 DEF Seamed
  <2> HIDE DEF k
  <2>3. Shape(k)
    <3>1. k.takes # <<>> BY <1>1, <2>1, TakesAgain
    <3>2. Len(k.pend) <= MaxPending BY <2>1, RecordingAssumption
    <3> QED BY <2>1, <3>1, <3>2 DEF Shape, SameTime, SameRun
  <2> QED BY <1>3, <2>1, <2>2, <2>3
<1> QED BY <1>2, <1>3

LEMMA FinishFrameShape ==
  ASSUME NEW h, Shape(h), ~h.rtOn, h.state # "idle", NEW f \in Taped
  PROVE  Shape(FinishFrame(h, f)) /\ FinishFrame(h, f).req = h.req
<1> DEFINE k == FinishFrame(h, f)
<1>1. h \in Glue /\ Counted(h) /\ Len(h.pend) <= MaxPending BY DEF Shape
<1>2. \/ Finalized(h, k) /\ Quiet(h, k)
      \/ /\ k \in Glue /\ Counted(k) /\ Len(k.pend) <= MaxPending
         /\ SameTime(h, k) /\ k.takes = h.takes /\ k.req = h.req
  BY <1>1, FinishFrameFields
<1> HIDE DEF k
<1>3. CASE Quiet(h, k) BY <1>3, QuietShape DEF k, Quiet
<1>4. CASE /\ k \in Glue /\ Counted(k) /\ Len(k.pend) <= MaxPending
           /\ SameTime(h, k) /\ k.takes = h.takes /\ k.req = h.req
  BY <1>4 DEF Shape, SameTime, k
<1> QED BY <1>2, <1>3, <1>4

-----------------------------------------------------------------------------
(* Every step keeps the types, the delay and the flag that hears a request. *)

\* A recording goes on, or its end is in the queue.
Goes(h, k) ==
  /\ k \in Glue /\ Wrote(h, k) /\ SegStep(h, k) /\ Count(h) <= Count(k)
  /\ k.session = h.session /\ (k.state = "idle" <=> h.state = "idle")
Ends(h, k) ==
  /\ Finalized(h, k) /\ Shape(k)
  /\ k.state = "idle" /\ k.session = h.session /\ ~k.leaving /\ ~k.rtOn /\ ~k.reqSnap
  /\ k.content = <<>> /\ k.pend = <<>>

LEMMA QuietEnds ==
  ASSUME NEW h, NEW k, Finalized(h, k), Quiet(h, k)
  PROVE  Ends(h, k)
<1>1. Shape(k) BY QuietShape
<1> QED BY <1>1 DEF Ends, Quiet

LEMMA OnlyAskedGoes ==
  ASSUME NEW h \in Glue, NEW k \in Glue, OnlyAsked(h, k)
  PROVE  Goes(h, k)
<1>1. Wrote(h, k) BY WroteNothing DEF OnlyAsked, SameFilm
<1>2. SegStep(h, k) BY OnlyAskedSame
<1>3. Count(h) <= Count(k) BY OnlyAskedSame, PosFields DEF SameShown
<1> QED BY <1>1, <1>2, <1>3 DEF Goes, OnlyAsked, SameRun

LEMMA GoesOn ==
  ASSUME NEW h \in Glue, NEW k \in Glue, NEW l, Goes(h, k)
  PROVE  (Goes(k, l) => Goes(h, l)) /\ (Ends(k, l) => Ends(h, l))
<1>1. Goes(k, l) => Goes(h, l)
  <2> SUFFICES ASSUME Goes(k, l) PROVE Goes(h, l) OBVIOUS
  <2>1. Wrote(h, l) BY WroteBoth DEF Goes
  <2>2. SegStep(h, l) BY SegStepBoth DEF Goes
  <2>3. Count(h) \in Nat /\ Count(k) \in Nat /\ Count(l) \in Nat BY PosFields DEF Goes
  <2>4. Count(h) <= Count(l) BY <2>3 DEF Goes
  <2> QED BY <2>1, <2>2, <2>4 DEF Goes
<1>2. Ends(k, l) => Ends(h, l) BY FinalizedAfter DEF Ends, Goes
<1> QED BY <1>1, <1>2

\* The types hold at the start.
LEMMA TypeInit ==
  ASSUME Init
  PROVE  TypeInv
<1>1. g \in Glue BY NoSessionTyped DEF Init
<1>2. Shape(g)
  <2>1. Len(<<>>) = 0 /\ Len(<<>>) <= MaxPending /\ 0 <= Delay BY RecordingAssumption
  <2> QED BY <1>1, <2>1 DEF Init, NoSession, Shape, Counted
<1>3. 0 \in 0..MaxFrames /\ 0 \in 0..MaxSessions BY VideoRecAssumption
<1>4. Blank \in Frame /\ NoInfo \in Point BY <1>3 DEF Blank, Frame, NoInfo, Point
<1>5. w = [session |-> w.session, parts |-> w.parts, failed |-> w.failed]
  BY DEF Init, Closed
<1>6. g.leaving = FALSE BY DEF Init, NoSession
<1> QED BY <1>2, <1>3, <1>4, <1>5, <1>6 DEF Init, TypeInv, Heard, Closed

LEMMA FrameTyped ==
  ASSUME TypeInv, NextFrame
  PROVE  /\ clock' \in 0..MaxFrames /\ cur' \in 0..MaxFrames /\ snap' = snap
         /\ ThisFrame \in Frame /\ (~Idle => ThisFrame \in Taped /\ cur' = ThisFrame.id)
         /\ ThisFrame.prev = cur
<1>1. MaxFrames \in Nat \ {0} /\ clock \in 0..MaxFrames /\ cur \in 0..MaxFrames
  BY VideoRecAssumption DEF TypeInv
<1>2. NewId \in 0..MaxFrames /\ (~Idle => NewId # 0) BY <1>1 DEF NewId
<1>3. ThisFrame \in Frame BY <1>1, <1>2 DEF ThisFrame, Frame
<1>4. ~Idle => ThisFrame # Blank BY <1>2 DEF ThisFrame, Blank
<1> QED BY <1>1, <1>2, <1>3, <1>4 DEF NextFrame, Taped, ThisFrame

LEMMA FinishFrameGoes ==
  ASSUME NEW h, Shape(h), ~h.rtOn, h.state # "idle", NEW f \in Taped
  PROVE  LET k == FinishFrame(h, f)
         IN /\ Shape(k) /\ k.req = h.req /\ ~k.rtOn /\ ~k.leaving
            /\ Ends(h, k) \/ Goes(h, k)
<1> DEFINE k == FinishFrame(h, f)
<1>1. h \in Glue /\ Counted(h) /\ Len(h.pend) <= MaxPending BY DEF Shape
<1>2. \/ Finalized(h, k) /\ Quiet(h, k)
      \/ /\ k \in Glue /\ Wrote(h, k) /\ k.session = h.session /\ k.state # "idle"
         /\ SameTime(h, k) /\ SegStep(h, k)
         /\ k.state = "recording" => Count(k) = Count(h) + 1
         /\ k.state # "recording" => SameShown(h, k)
  BY <1>1, FinishFrameFields
<1>3. Shape(k) /\ k.req = h.req BY FinishFrameShape
<1> HIDE DEF k
<1>4. CASE Finalized(h, k) /\ Quiet(h, k)
  <2>1. Ends(h, k) BY <1>4, QuietEnds
  <2> QED BY <1>3, <2>1 DEF Ends, k
<1>5. CASE /\ k \in Glue /\ Wrote(h, k) /\ k.session = h.session /\ k.state # "idle"
           /\ SameTime(h, k) /\ SegStep(h, k)
           /\ k.state = "recording" => Count(k) = Count(h) + 1
           /\ k.state # "recording" => SameShown(h, k)
  <2>1. Count(h) \in Nat BY <1>1, PosFields
  <2>2. Count(h) <= Count(k) BY <1>5, <2>1 DEF SameShown
  <2>3. ~k.rtOn /\ ~k.leaving BY <1>3, <1>5 DEF SameTime, Shape
  <2> QED BY <1>3, <1>5, <2>2, <2>3 DEF Goes, k
<1> QED BY <1>2, <1>4, <1>5

LEMMA AtFrameEndGoes ==
  ASSUME NEW h, Shape(h), h.state # "idle"
  PROVE  Goes(h, AtFrameEnd(h))
<1> DEFINE k == AtFrameEnd(h)
<1>1. /\ Shape(k) /\ Wrote(h, k) /\ SegStep(h, k) /\ SameRun(h, k)
      /\ ~h.rtOn => OnlyAsked(h, k)
      /\ h.rtOn => \E b \in Nat : Grown(h, k, b)
  BY AtFrameEndFields
<1> HIDE DEF k
<1>2. h \in Glue /\ Count(h) \in Nat BY PosFields DEF Shape
<1>3. Count(h) <= Count(k)
  <2>1. CASE h.rtOn BY <1>1, <1>2, <2>1, GrownMore
  <2>2. CASE ~h.rtOn
    <3>1. SameShown(h, k) BY <1>1, <2>2, OnlyAskedSame
    <3> QED BY <1>2, <3>1 DEF SameShown
  <2> QED BY <2>1, <2>2
<1> QED BY <1>1, <1>3 DEF Goes, SameRun, Shape, k

LEMMA SeamedGoes ==
  ASSUME NEW h, Shape(h), ~h.rtOn
  PROVE  Goes(h, Seamed(h))
<1>1. h \in Glue /\ Count(h) \in Nat BY PosFields DEF Shape
<1> QED BY <1>1, SeamedFields DEF Goes, SameRun, Shape, SameShown

\* A retake asked for is still one when the frames before its point are written.
LEMMA RetakesStill ==
  ASSUME NEW h, NEW k, k.takes = h.takes, k.session = h.session, k.snapInfo = h.snapInfo,
         Count(k) = Count(h)
  PROVE  TakesOf(k, k.snapInfo) = TakesOf(h, h.snapInfo) /\ (Retakes(h) => Retakes(k))
BY DEF Retakes, TakesOf

Held(h) ==
  /\ h.state # "idle" /\ ~h.rtOn /\ Retakes(h) /\ h.snapInfo.frame <= h.next

\* A frame of a recording ends, or waits for the writer.
LEMMA FrameEmulatedGoes ==
  ASSUME TypeInv, Unlocked, FrameEmulated, ThisFrame \in Taped
  PROVE  /\ Shape(g') /\ ~g'.leaving
         /\ \/ held' = Blank /\ (Ends(g, g') \/ Goes(g, g'))
            \/ /\ held' = ThisFrame /\ Held(g')
               /\ \E f \in Glue : Goes(g, f) /\ g' = Push(f, [type |-> "sync", n |-> f.next])
<1> DEFINE h == AtFrameEnd(g)
<1>1. Shape(g) /\ g.state # "idle" /\ g \in Glue
  BY DEF TypeInv, FrameEmulated, Idle, Shape
<1>2. /\ Shape(h) /\ SameRun(g, h) /\ ~h.rtOn /\ ~h.leaving /\ h.fifo = 0 /\ ~h.req
  BY <1>1, AtFrameEndFields
<1>3. Goes(g, h) BY <1>1, AtFrameEndGoes
<1>4. \/ g' = Finalize(h) /\ held' = Blank
      \/ /\ h.reqSnap /\ Retakes(h)
         /\ g' = Push(FlushUntil(h, h.snapInfo.frame),
                      [type |-> "sync", n |-> FlushUntil(h, h.snapInfo.frame).next])
         /\ held' = ThisFrame
      \/ g' = FinishFrame(Seamed(h), ThisFrame) /\ held' = Blank
  BY DEF FrameEmulated, AtFrameEnd, Seamed
<1> HIDE DEF h
<1>5. h.state # "idle" /\ h \in Glue /\ Counted(h) BY <1>1, <1>2 DEF SameRun, Shape

<1>6. CASE g' = Finalize(h) /\ held' = Blank
  <2>1. Ends(h, g') BY <1>2, <1>5, <1>6, FinalizeFields, QuietEnds
  <2>2. Ends(g, g') BY <1>1, <1>3, <1>5, <2>1, GoesOn
  <2> QED BY <1>6, <2>2 DEF Ends
<1>7. CASE g' = FinishFrame(Seamed(h), ThisFrame) /\ held' = Blank
  <2> DEFINE s == Seamed(h)  k == FinishFrame(s, ThisFrame)
  <2>1. Shape(s) /\ SameRun(h, s) /\ SameTime(h, s) BY <1>2, SeamedFields
  <2>2. Goes(h, s) BY <1>2, SeamedGoes
  <2> HIDE DEF s
  <2>3. ~s.rtOn /\ s.state # "idle" /\ s \in Glue
    BY <1>2, <1>5, <2>1 DEF SameRun, SameTime, Shape
  <2>4. Shape(k) /\ ~k.rtOn /\ ~k.leaving /\ (Ends(s, k) \/ Goes(s, k))
    BY <2>1, <2>3, FinishFrameGoes
  <2> HIDE DEF k
  <2>5. Goes(g, s) BY <1>1, <1>3, <1>5, <2>2, <2>3, GoesOn
  <2>6. Ends(g, k) \/ Goes(g, k) BY <1>1, <2>3, <2>4, <2>5, GoesOn
  <2>7. g' = k BY <1>7 DEF k, s
  <2> QED BY <1>7, <2>4, <2>6, <2>7
<1>8. CASE /\ h.reqSnap /\ Retakes(h)
           /\ g' = Push(FlushUntil(h, h.snapInfo.frame),
                        [type |-> "sync", n |-> FlushUntil(h, h.snapInfo.frame).next])
           /\ held' = ThisFrame
  <2> DEFINE f == FlushUntil(h, h.snapInfo.frame)  m == [type |-> "sync", n |-> f.next]
  <2>1. h.snapInfo.frame \in Nat /\ h.snapInfo.frame <= Count(h)
    BY <1>5, <1>8 DEF Glue, Point, Retakes
  <2>2. /\ f \in Glue /\ Counted(f)
        /\ Len(f.pend) <= Len(h.pend) /\ h.snapInfo.frame <= f.next
        /\ ShownOf(f) = ShownOf(h) /\ Count(f) = Count(h)
        /\ f.next >= h.next
        /\ f.queue = h.queue \o FrameMessages(h.next, f.next - h.next)
        /\ SameRun(h, f) /\ SameSegs(h, f) /\ SameTakes(h, f)
        /\ SameTime(h, f) /\ SameAsked(h, f)
    BY <1>5, <2>1, FlushUntilFields
  <2>3. m \in Plain \cup Sidecar BY <2>2 DEF Glue, Plain
  <2> DEFINE k == Push(f, m)
  <2>4. /\ k \in Glue
        /\ SameRun(f, k) /\ SameFilm(f, k) /\ SameSegs(f, k) /\ SameTakes(f, k)
        /\ SameTime(f, k) /\ SameAsked(f, k)
    BY <2>2, <2>3, PushFields
  <2>5. g' = k /\ held' = ThisFrame BY <1>8
  <2> HIDE DEF f, k
  <2>6. Goes(h, f)
    <3>1. Wrote(h, f) BY <2>2 DEF Wrote
    <3>2. Pos(f) = Pos(h) BY <2>2 DEF Pos, SameRun, SameTime
    <3>3. SegsRight(h) => SegsRight(f) BY <2>2, <3>2 DEF SegsRight, SameSegs, SameRun
    <3>4. SegStep(h, f) BY <2>2, <3>3, SameSegsStep
    <3>5. Count(h) <= Count(f) BY <1>5, <2>2, PosFields
    <3> QED BY <2>2, <3>1, <3>4, <3>5 DEF Goes, SameRun
  <2>7. Goes(g, f) BY <1>1, <1>3, <1>5, <2>2, <2>6, GoesOn
  <2>8. Len(k.pend) <= MaxPending
    <3>1. f.pend \in Seq(Taped) BY <2>2 DEF Glue
    <3>2. h.pend \in Seq(Taped) BY <1>5 DEF Glue
    <3>3. Len(f.pend) \in Nat /\ Len(h.pend) \in Nat BY <3>1, <3>2, LenProperties
    <3>4. MaxPending \in Nat BY RecordingAssumption
    <3>5. Len(h.pend) <= MaxPending BY <1>2 DEF Shape
    <3>6. k.pend = f.pend BY <2>4 DEF SameFilm
    <3> QED BY <2>2, <3>3, <3>4, <3>5, <3>6
  <2>9. Shape(k)
    <3>1. Counted(k) BY <2>2, <2>4 DEF Counted, SameFilm
    <3>2. k.rtOn = h.rtOn /\ k.leaving = h.leaving /\ k.fifo = h.fifo /\ k.state = h.state
          /\ k.takes = h.takes
      BY <2>2, <2>4 DEF SameTime, SameRun, SameTakes
    <3> QED BY <1>2, <2>4, <2>8, <3>1, <3>2 DEF Shape
  <2>10. Held(k)
    <3>1. k.takes = h.takes /\ k.session = h.session /\ k.snapInfo = h.snapInfo
          /\ k.next = f.next /\ k.state = h.state /\ k.rtOn = h.rtOn
      BY <2>2, <2>4 DEF SameTime, SameRun, SameTakes, SameAsked, SameFilm
    <3>2. Count(k) = Count(h) BY <2>2, <2>4 DEF SameFilm, Count
    <3>3. Retakes(k) BY <1>8, <3>1, <3>2, RetakesStill
    <3> QED BY <1>2, <1>5, <2>2, <3>1, <3>3 DEF Held
  <2>11. ~k.leaving BY <1>2, <2>2, <2>4 DEF SameTime
  <2> QED BY <2>2, <2>5, <2>7, <2>9, <2>10, <2>11 DEF k
<1> QED BY <1>4, <1>6, <1>7, <1>8

Begins(h, k) ==
  /\ k \in Glue /\ k.state = "recording" /\ k.session = h.session + 1 /\ k.next = 0
  /\ k.queue = Append(h.queue, [type |-> "open", n |-> k.session])
  /\ SegsRight(k)

\* A frame without a recording ends; a start that waits begins one.
LEMMA FrameIdleBegins ==
  ASSUME TypeInv, FrameIdle, g.session < MaxSessions
  PROVE  /\ Shape(g') /\ ~g'.leaving /\ ~g'.reqSnap
         /\ (~reqStart /\ OnlyAsked(g, g')) \/ (reqStart /\ Begins(g, g'))
<1> DEFINE h == [g EXCEPT !.req = FALSE, !.reqStop = FALSE, !.reqToggle = FALSE, !.reqSnap = FALSE]
           k == Start(h, want)
<1>1. Shape(g) /\ g \in Glue /\ want \in BOOLEAN /\ g.state = "idle"
  BY DEF TypeInv, Shape, FrameIdle, Idle
<1>2. g' = IF reqStart THEN k ELSE h BY DEF FrameIdle
<1>3. /\ h \in Glue /\ OnlyAsked(g, h) /\ h.session = g.session /\ h.queue = g.queue
      /\ h.leaving = g.leaving /\ ~h.reqSnap
  BY <1>1 DEF Glue, OnlyAsked, SameRun, SameFilm, SameSegs, SameTakes, SameTime
<1> HIDE DEF h
<1>4. CASE reqStart
  <2>1. /\ k \in Glue /\ Counted(k) /\ k.pend = <<>> /\ k.state = "recording"
        /\ k.session = h.session + 1 /\ k.next = 0
        /\ k.queue = Append(h.queue, [type |-> "open", n |-> h.session + 1])
        /\ k.takes # <<>>
        /\ k.rtOn = want /\ ~k.leaving /\ k.fifo = (IF want THEN Delay ELSE 0)
        /\ ~k.reqSnap /\ SegsRight(k)
    BY <1>1, <1>3, StartFields
  <2> HIDE DEF k
  <2>2. Len(k.pend) <= MaxPending
    <3>1. Len(<<>>) = 0 OBVIOUS
    <3> QED BY <2>1, <3>1, RecordingAssumption
  <2>3. k.fifo <= Delay /\ (k.fifo > 0 => k.rtOn) /\ (k.rtOn => k.fifo = Delay)
    BY <1>1, <2>1, RecordingAssumption
  <2>4. Shape(k) BY <2>1, <2>2, <2>3 DEF Shape
  <2>5. Begins(g, k) BY <1>3, <2>1 DEF Begins
  <2> QED BY <1>2, <1>4, <2>1, <2>4, <2>5
<1>5. CASE ~reqStart
  <2>1. g' = h BY <1>2, <1>5
  <2>2. Shape(h) BY <1>1, <1>3, OnlyAskedShape
  <2>3. ~h.leaving BY <1>1, <1>3 DEF Shape
  <2> QED BY <1>3, <1>5, <2>1, <2>2, <2>3
<1> QED BY <1>4, <1>5

\* The recording is taken again from a point the files hold.
TakenAgain(h, k) ==
  /\ k \in Glue /\ k.next = h.snapInfo.frame /\ h.snapInfo.frame <= h.next
  /\ ~(h.snapInfo.frame < Part.first)
  /\ k.queue = Append(h.queue, [type |-> "truncate", n |-> k.next])
  /\ k.state = h.state /\ k.session = h.session
  /\ SegsRight(h) => SegsRight(k)

\* The retake goes on when the writer has come to it.
LEMMA AfterSyncGoes ==
  ASSUME TypeInv, AfterSync
  PROVE  /\ Shape(g') /\ ~g'.leaving /\ g'.req = g.req
         /\ \/ Ends(g, g') \/ Goes(g, g')
            \/ \E k \in Glue : TakenAgain(g, k) /\ (Ends(k, g') \/ Goes(k, g'))
<1>1. /\ Shape(g) /\ g \in Glue /\ Counted(g) /\ held \in Taped
      /\ g.state # "idle" /\ ~g.rtOn /\ Retakes(g) /\ g.snapInfo.frame <= g.next
  BY DEF TypeInv, AfterSync, Shape, Idle, Unlocked, Taped
<1>2. g' = FinishFrame(RetakeOrSeam(g), held) BY DEF AfterSync
<1>3. CASE g.snapInfo.frame < Part.first
  <2> DEFINE k == Seam(g)
  <2>1. RetakeOrSeam(g) = k BY <1>3 DEF RetakeOrSeam, Part
  <2>2. /\ k \in Glue /\ Counted(k) /\ k.pend = <<>> /\ SameShown(g, k) /\ Wrote(g, k)
        /\ SameRun(g, k) /\ SameTime(g, k) /\ TakeBegun(g, k, Count(g))
        /\ k.req = g.req /\ SegStep(g, k)
    BY <1>1, SeamFields
  <2> HIDE DEF k
  <2>3. Count(g) \in Nat BY <1>1, PosFields
  <2>4. Shape(k)
    <3>1. k.takes # <<>> BY <1>1, <2>2, <2>3, TakesAgain
    <3>2. Len(k.pend) <= MaxPending
      <4>1. Len(<<>>) = 0 OBVIOUS
      <4> QED BY <2>2, <4>1, RecordingAssumption
    <3> QED BY <1>1, <2>2, <3>1, <3>2 DEF Shape, SameTime, SameRun
  <2>5. Goes(g, k) BY <2>2, <2>3 DEF Goes, SameRun, SameShown
  <2>6. ~k.rtOn /\ k.state # "idle" BY <1>1, <2>2 DEF SameTime, SameRun
  <2>7. g' = FinishFrame(k, held) BY <1>2, <2>1
  <2>8. /\ Shape(g') /\ g'.req = k.req /\ ~g'.leaving
        /\ Ends(k, g') \/ Goes(k, g')
    BY <1>1, <2>4, <2>6, <2>7, FinishFrameGoes
  <2>9. Ends(g, g') \/ Goes(g, g') BY <1>1, <2>2, <2>5, <2>8, GoesOn
  <2> QED BY <2>2, <2>8, <2>9
<1>4. CASE ~(g.snapInfo.frame < Part.first)
  <2> DEFINE k == Retake(g)
  <2>1. RetakeOrSeam(g) = k BY <1>4 DEF RetakeOrSeam, Part
  <2>2. TakesOf(g, g.snapInfo) # {} BY <1>1 DEF Retakes
  <2>3. /\ k \in Glue /\ Counted(k) /\ k.pend = <<>> /\ k.next = g.snapInfo.frame
        /\ k.queue = Append(g.queue, [type |-> "truncate", n |-> g.snapInfo.frame])
        /\ SameRun(g, k) /\ SameTime(g, k) /\ k.req = g.req
        /\ SegsRight(g) => SegsRight(k)
        /\ \E i \in TakesOf(g, g.snapInfo) :
             k.takes = Append(SubSeq(g.takes, 1, i),
                              [id |-> g.lastTake + 1, start |-> g.snapInfo.frame, rt |-> FALSE])
    BY <1>1, <2>2, RetakeFields
  <2> HIDE DEF k
  <2>4. Shape(k)
    <3>1. k.takes # <<>>
      <4>1. PICK i \in TakesOf(g, g.snapInfo) :
              k.takes = Append(SubSeq(g.takes, 1, i),
                               [id |-> g.lastTake + 1, start |-> g.snapInfo.frame, rt |-> FALSE])
        BY <2>3
      <4>2. g.takes \in Seq(ATake) /\ g.lastTake \in Nat /\ g.snapInfo.frame \in Nat
        BY <1>1 DEF Glue, Point
      <4>3. i \in 1..Len(g.takes) BY <4>1, <4>2 DEF TakesOf
      <4>4. SubSeq(g.takes, 1, i) \in Seq(ATake)
        <5>1. i \in 0..Len(g.takes) BY <4>3
        <5> QED BY <4>2, <5>1, SplitSeq
      <4>5. [id |-> g.lastTake + 1, start |-> g.snapInfo.frame, rt |-> FALSE] \in ATake
        BY <4>2 DEF ATake
      <4> QED BY <4>1, <4>4, <4>5, AppendProperties
    <3>2. Len(k.pend) <= MaxPending
      <4>1. Len(<<>>) = 0 OBVIOUS
      <4> QED BY <2>3, <4>1, RecordingAssumption
    <3> QED BY <1>1, <2>3, <3>1, <3>2 DEF Shape, SameTime, SameRun
  <2>5. TakenAgain(g, k) BY <1>1, <1>4, <2>3 DEF TakenAgain, SameRun
  <2>6. ~k.rtOn /\ k.state # "idle" BY <1>1, <2>3 DEF SameTime, SameRun
  <2>7. g' = FinishFrame(k, held) BY <1>2, <2>1
  <2>8. /\ Shape(g') /\ g'.req = k.req /\ ~g'.leaving
        /\ Ends(k, g') \/ Goes(k, g')
    BY <1>1, <2>4, <2>6, <2>7, FinishFrameGoes
  <2> QED BY <2>3, <2>5, <2>8
<1> QED BY <1>3, <1>4

\* A stop from another thread ends the recording.
LEMMA EndGoes ==
  ASSUME NEW h, Shape(h)
  PROVE  Ends(h, Finalize(h)) /\ Finalize(h).req = h.req
<1>1. h \in Glue /\ Counted(h) /\ (h.rtOn => h.pend = <<>>) BY DEF Shape
<1>2. Finalized(h, Finalize(h)) /\ Quiet(h, Finalize(h)) BY <1>1, FinalizeFields
<1> QED BY <1>2, QuietEnds DEF Quiet

\* Flags alone change: what is recorded and how goes on.
OnlyFlags(h, k) ==
  /\ k.queue = h.queue /\ SameRun(h, k) /\ SameFilm(h, k) /\ SameSegs(h, k) /\ SameTakes(h, k)
  /\ k.rtOn = h.rtOn /\ k.fifo = h.fifo /\ (k.leaving => h.rtOn)

LEMMA OnlyFlagsGoes ==
  ASSUME NEW h, NEW k \in Glue, Shape(h), OnlyFlags(h, k)
  PROVE  Shape(k) /\ Goes(h, k)
<1>1. h \in Glue /\ Counted(h) BY DEF Shape
<1>2. Counted(k) BY <1>1 DEF OnlyFlags, Counted, SameFilm
<1>3. Shape(k) BY <1>2 DEF OnlyFlags, Shape, SameRun, SameFilm, SameTakes
<1>4. Wrote(h, k) BY <1>1, WroteNothing DEF OnlyFlags, SameFilm
<1>5. Count(k) = Count(h) /\ Count(h) \in Nat
  BY <1>1, PosFields DEF OnlyFlags, Count, SameFilm
<1>6. Pos(k) = Pos(h) BY <1>5 DEF OnlyFlags, Pos, SameRun
<1>7. SegsRight(h) => SegsRight(k) BY <1>6 DEF OnlyFlags, SegsRight, SameSegs, SameRun
<1>8. SegStep(h, k) BY <1>7, SameSegsStep DEF OnlyFlags
<1> QED BY <1>3, <1>4, <1>5, <1>8 DEF OnlyFlags, Goes, SameRun

\* The time base of a tick, and the flag that brings its end to a frame.
LEMMA RebasedGoes ==
  ASSUME NEW h, Shape(h), h.state # "idle", h.leaving => h.req, want \in BOOLEAN
  PROVE  LET k == Rebased(h)
         IN Shape(k) /\ Goes(h, k) /\ k.state # "idle" /\ (k.leaving => k.req)
<1> DEFINE k == Rebased(h)
<1>1. h \in Glue /\ Counted(h) BY DEF Shape
<1>2. CASE want /\ ~h.rtOn
  <2> DEFINE e == Enter(h)
  <2>1. k = e BY <1>2 DEF Rebased
  <2>2. h.fifo = 0
    <3>1. h.fifo \in Nat /\ ~(h.fifo > 0) BY <1>1, <1>2 DEF Shape, Glue
    <3> QED BY <3>1
  <2>3. /\ e \in Glue /\ Counted(e) /\ e.pend = <<>> /\ SameShown(h, e) /\ Wrote(h, e)
        /\ SameRun(h, e) /\ TakeBegun(h, e, Count(h))
        /\ e.rtOn /\ ~e.leaving /\ e.fifo = Delay /\ SegStep(h, e)
    BY <1>1, <1>2, <2>2, EnterFields
  <2> HIDE DEF e, k
  <2>4. Count(h) \in Nat BY <1>1, PosFields
  <2>5. e.takes # <<>> BY <1>1, <2>3, <2>4, TakesAgain
  <2>6. Len(e.pend) <= MaxPending /\ e.fifo <= Delay
    <3>1. Len(<<>>) = 0 OBVIOUS
    <3> QED BY <2>3, <3>1, RecordingAssumption
  <2>7. e.state # "idle" BY <2>3 DEF SameRun
  <2>8. Shape(e) BY <2>3, <2>5, <2>6, <2>7 DEF Shape
  <2>9. Goes(h, e) BY <2>3, <2>4 DEF Goes, SameRun, SameShown
  <2> QED BY <2>1, <2>3, <2>7, <2>8, <2>9 DEF k
<1>3. CASE ~(want /\ ~h.rtOn)
  <2>1. k \in Glue /\ OnlyFlags(h, k) /\ (k.leaving => k.req)
    BY <1>1, <1>3 DEF Rebased, Glue, OnlyFlags, SameRun, SameFilm, SameSegs, SameTakes, Shape
  <2> HIDE DEF k
  <2>2. Shape(k) /\ Goes(h, k) BY <2>1, OnlyFlagsGoes
  <2> QED BY <2>1, <2>2 DEF OnlyFlags, SameRun, k
<1> QED BY <1>2, <1>3

\* The requests the sampler answers.
LEMMA RtRequestsGoes ==
  ASSUME NEW h, Shape(h), h.rtOn
  PROVE  LET k == RtRequests(h)
         IN /\ Shape(k) /\ k.req = h.req
            /\ \/ Ends(h, k)
               \/ Goes(h, k) /\ k.rtOn /\ k.leaving = h.leaving /\ k.state # "idle"
<1> DEFINE s == RtSnapshot(h)  t == RtToggle(s)  k == RtRequests(h)
<1>1. /\ h \in Glue /\ Counted(h) /\ h.pend = <<>> /\ h.state # "idle" /\ h.takes # <<>>
      /\ h.fifo <= Delay /\ (h.state = "recording" => h.fifo = Delay)
  BY DEF Shape
<1>2. k = IF t.reqStop THEN Finalize(t) ELSE t BY DEF RtRequests
<1>3. /\ s \in Glue /\ Counted(s) /\ SameShown(h, s) /\ s.queue = h.queue
      /\ SameRun(h, s) /\ SameFilm(h, s) /\ SameTime(h, s)
      /\ (s.takes = h.takes /\ s.lastTake = h.lastTake) \/ TakeBegun(h, s, Count(h))
      /\ s.req = h.req /\ SegStep(h, s)
  BY <1>1, RtSnapshotFields
<1>4. /\ s.rtOn /\ s.pend = <<>> /\ s.state = h.state /\ s.fifo = h.fifo
      /\ s.leaving = h.leaving /\ s.next = h.next
  BY <1>1, <1>3 DEF SameRun, SameFilm, SameTime
<1> HIDE DEF s
<1>5. Count(h) \in Nat BY <1>1, PosFields
<1>6. s.takes # <<>> BY <1>1, <1>3, <1>5, TakesAgain
<1>7. Goes(h, s)
  <2>1. Wrote(h, s) BY <1>1, <1>3, <1>4, WroteNothing
  <2> QED BY <1>3, <1>5, <2>1 DEF Goes, SameRun, SameShown
<1>8. /\ t \in Glue /\ Counted(t) /\ t.pend = <<>> /\ Wrote(s, t)
      /\ t.session = s.session /\ t.state # "idle"
      /\ t.rtOn = s.rtOn /\ t.leaving = s.leaving /\ t.fifo <= Delay
      /\ t.takes = s.takes /\ t.req = s.req
      /\ SegStep(s, t)
      /\ t.state = s.state => t = s
      /\ t.state # s.state /\ t.state = "recording" => t.fifo = Delay
  BY <1>1, <1>3, <1>4, RtToggleFields
<1>9. PICK b \in Nat : Grown(s, t, b) BY <1>1, <1>3, <1>4, RtToggleFields
<1> HIDE DEF t, k
<1>10. Goes(s, t)
  <2>1. Count(s) <= Count(t) BY <1>3, <1>9, GrownMore
  <2> QED BY <1>1, <1>4, <1>8, <2>1 DEF Goes
<1>11. Goes(h, t) BY <1>1, <1>3, <1>7, <1>10, GoesOn
<1>12. Shape(t)
  <2>1. t.state = "recording" => t.fifo = Delay BY <1>1, <1>4, <1>8
  <2>2. Len(t.pend) <= MaxPending
    <3>1. Len(<<>>) = 0 OBVIOUS
    <3> QED BY <1>8, <3>1, RecordingAssumption
  <2> QED BY <1>4, <1>6, <1>8, <2>1, <2>2 DEF Shape
<1>13. CASE ~t.reqStop
  BY <1>2, <1>3, <1>4, <1>8, <1>11, <1>12, <1>13 DEF k
<1>14. CASE t.reqStop
  <2>1. Ends(t, Finalize(t)) /\ Finalize(t).req = t.req BY <1>12, EndGoes
  <2>2. Ends(h, Finalize(t)) BY <1>1, <1>8, <1>11, <2>1, GoesOn
  <2> QED BY <1>2, <1>3, <1>8, <1>14, <2>1, <2>2 DEF Ends, k
<1> QED BY <1>13, <1>14

\* A tick of the sampler.
LEMMA TickGoes ==
  ASSUME TypeInv, NEW due \in Nat, NEW n \in Nat, NEW paused \in BOOLEAN, Tick(due, n, paused)
  PROVE  /\ Shape(g') /\ (g'.leaving => g'.req)
         /\ Ends(g, g') \/ Goes(g, g')
<1> DEFINE h == Rebased(g)  r == RtRequests(h)  k == Ticks(r, due, n, paused)
<1>1. /\ Shape(g) /\ g \in Glue /\ g.state # "idle" /\ (g.leaving => g.req)
      /\ want \in BOOLEAN
  BY DEF TypeInv, Shape, Tick, Idle, Heard
<1>2. g' = IF failedGen = g.session THEN Finalize(g)
           ELSE IF ~h.rtOn \/ h.leaving THEN h ELSE k
  BY DEF Tick
<1>3. Shape(h) /\ Goes(g, h) /\ h.state # "idle" /\ (h.leaving => h.req)
  BY <1>1, RebasedGoes
<1> HIDE DEF h
<1>4. h \in Glue BY <1>3 DEF Shape
<1>5. CASE failedGen = g.session
  <2>1. Ends(g, g') BY <1>1, <1>2, <1>5, EndGoes
  <2> QED BY <2>1 DEF Ends
<1>6. CASE failedGen # g.session /\ (~h.rtOn \/ h.leaving)
  BY <1>2, <1>3, <1>6
<1>7. CASE failedGen # g.session /\ h.rtOn /\ ~h.leaving
  <2>1. g' = k BY <1>2, <1>7
  <2>2. /\ Shape(r)
        /\ \/ Ends(h, r)
           \/ Goes(h, r) /\ r.rtOn /\ r.leaving = h.leaving /\ r.state # "idle"
    BY <1>3, <1>7, RtRequestsGoes
  <2> HIDE DEF r
  <2>3. CASE Ends(h, r)
    <3>1. k = r BY <2>3 DEF Ticks, Ends
    <3>2. Ends(g, r) BY <1>1, <1>3, <1>4, <2>3, GoesOn
    <3> QED BY <2>1, <2>2, <3>1, <3>2 DEF Ends
  <2>4. CASE Goes(h, r) /\ r.rtOn /\ r.leaving = h.leaving /\ r.state # "idle"
    <3>1. /\ r \in Glue /\ Counted(r) /\ r.pend = <<>> /\ r.fifo <= Delay
          /\ r.takes # <<>> /\ (r.state = "recording" => r.fifo = Delay)
      BY <2>2, <2>4 DEF Shape
    <3>2. Goes(g, r) BY <1>1, <1>3, <1>4, <2>4, <3>1, GoesOn
    <3>3. \/ Finalized(r, k) /\ Quiet(r, k)
          \/ /\ k \in Glue /\ Counted(k) /\ k.pend = <<>> /\ Wrote(r, k)
             /\ \E b \in Nat : Grown(r, k, b) /\ (r.state = "paused" => b = 0)
             /\ SameRun(r, k) /\ SameSegs(r, k) /\ SameTakes(r, k) /\ SameAsked(r, k)
             /\ k.rtOn = r.rtOn /\ k.leaving = r.leaving /\ k.fifo <= Delay
             /\ r.state = "recording" => k.fifo = r.fifo
             /\ SegStep(r, k)
      BY <2>4, <3>1, TicksFields
    <3> HIDE DEF k
    <3>4. CASE Finalized(r, k) /\ Quiet(r, k)
      <4>1. Ends(r, k) BY <3>4, QuietEnds
      <4>2. Ends(g, k) BY <1>1, <3>1, <3>2, <4>1, GoesOn
      <4> QED BY <2>1, <4>2 DEF Ends
    <3>5. CASE /\ k \in Glue /\ Counted(k) /\ k.pend = <<>> /\ Wrote(r, k)
               /\ \E b \in Nat : Grown(r, k, b)
               /\ SameRun(r, k) /\ SameTakes(r, k)
               /\ k.rtOn = r.rtOn /\ k.leaving = r.leaving /\ k.fifo <= Delay
               /\ r.state = "recording" => k.fifo = r.fifo
               /\ SegStep(r, k)
      <4>1. PICK b \in Nat : Grown(r, k, b) BY <3>5
      <4>2. Count(r) <= Count(k) BY <3>1, <4>1, GrownMore
      <4>3. Goes(r, k) BY <3>5, <4>2 DEF Goes, SameRun
      <4>4. Goes(g, k) BY <1>1, <3>1, <3>2, <3>5, <4>3, GoesOn
      <4>5. Len(k.pend) <= MaxPending
        <5>1. Len(<<>>) = 0 OBVIOUS
        <5> QED BY <3>5, <5>1, RecordingAssumption
      <4>6. k.state = r.state /\ k.takes = r.takes BY <3>5 DEF SameRun, SameTakes
      <4>7. Shape(k) BY <2>4, <3>1, <3>5, <4>5, <4>6 DEF Shape
      <4>8. ~k.leaving BY <1>7, <2>4, <3>5
      <4> QED BY <2>1, <4>4, <4>7, <4>8
    <3> QED BY <3>3, <3>4, <3>5
  <2> QED BY <2>2, <2>3, <2>4
<1> QED BY <1>5, <1>6, <1>7

\* The requests of other threads, a load, and the hook that only looks.
LEMMA RequestFlags ==
  ASSUME TypeInv, Request
  PROVE  /\ g' \in Glue /\ OnlyFlags(g, g') /\ Shape(g') /\ Goes(g, g')
         /\ reqStart' \/ g'.leaving => g'.req
         /\ g'.reqSnap = g.reqSnap /\ g'.snapInfo = g.snapInfo /\ (g.req => g'.req)
         /\ {reqStart', want'} \subseteq BOOLEAN /\ turns' \in Nat /\ (reqStart' => Idle')
<1>1. /\ Shape(g) /\ g \in Glue /\ (reqStart \/ g.leaving => g.req) /\ (reqStart => Idle)
      /\ {reqStart, want} \subseteq BOOLEAN /\ turns \in Nat
  BY DEF TypeInv, Shape, Heard
<1>2. g.leaving => g.rtOn BY <1>1 DEF Shape
<1>3. g' \in Glue /\ OnlyFlags(g, g') => Shape(g') /\ Goes(g, g') BY <1>1, OnlyFlagsGoes
<1>4. CASE RequestStart
  BY <1>1, <1>2, <1>3, <1>4 DEF RequestStart, Asks, Idle, Glue, OnlyFlags, SameRun, SameFilm,
     SameSegs, SameTakes
<1>5. CASE RequestStop
  <2>1. /\ g' = IF reqStart \/ Idle THEN g ELSE [g EXCEPT !.reqStop = TRUE, !.req = TRUE]
        /\ reqStart' = FALSE /\ want' = want /\ turns' = turns
    BY <1>5 DEF RequestStop
  <2>2. CASE g' = g
    BY <1>1, <1>2, <1>3, <2>1, <2>2 DEF OnlyFlags, SameRun, SameFilm, SameSegs, SameTakes
  <2>3. CASE g' = [g EXCEPT !.reqStop = TRUE, !.req = TRUE]
    <3>1. /\ g' \in Glue /\ g'.reqSnap = g.reqSnap /\ g'.snapInfo = g.snapInfo
          /\ g'.req = TRUE /\ g'.leaving = g.leaving
          /\ g'.queue = g.queue /\ SameRun(g, g') /\ SameFilm(g, g') /\ SameSegs(g, g')
          /\ SameTakes(g, g') /\ g'.rtOn = g.rtOn /\ g'.fifo = g.fifo
      BY <1>1, <2>3 DEF Glue, SameRun, SameFilm, SameSegs, SameTakes
    <3>2. OnlyFlags(g, g') BY <1>2, <3>1 DEF OnlyFlags
    <3> QED BY <1>1, <1>3, <2>1, <3>1, <3>2
  <2> QED BY <2>1, <2>2, <2>3
<1>6. CASE PauseToggle
  BY <1>1, <1>2, <1>3, <1>6 DEF PauseToggle, Asks, request, Idle, Glue, OnlyFlags, SameRun,
     SameFilm, SameSegs, SameTakes
<1>7. CASE RequestTimebase
  <2>1. /\ reqStart' = reqStart /\ ~Idle /\ want' \in BOOLEAN /\ turns' = turns + 1
        /\ g' = g \/ (g.rtOn /\ g' = [g EXCEPT !.leaving = TRUE, !.req = TRUE])
    BY <1>7 DEF RequestTimebase, Turn
  <2>2. CASE g' = g
    BY <1>1, <1>2, <1>3, <2>1, <2>2 DEF OnlyFlags, SameRun, SameFilm, SameSegs, SameTakes
  <2>3. CASE g.rtOn /\ g' = [g EXCEPT !.leaving = TRUE, !.req = TRUE]
    <3>1. /\ g' \in Glue /\ g'.reqSnap = g.reqSnap /\ g'.snapInfo = g.snapInfo
          /\ g'.req = TRUE /\ g'.leaving = TRUE
          /\ g'.queue = g.queue /\ SameRun(g, g') /\ SameFilm(g, g') /\ SameSegs(g, g')
          /\ SameTakes(g, g') /\ g'.rtOn = g.rtOn /\ g'.fifo = g.fifo
      BY <1>1, <2>3 DEF Glue, SameRun, SameFilm, SameSegs, SameTakes
    <3>2. OnlyFlags(g, g') BY <2>3, <3>1 DEF OnlyFlags
    <3>3. ~reqStart BY <1>1, <2>1
    <3> QED BY <1>1, <1>3, <2>1, <3>1, <3>2, <3>3
  <2> QED BY <2>1, <2>2, <2>3
<1>8. CASE SpeedChange
  BY <1>1, <1>2, <1>3, <1>8 DEF SpeedChange, Turn, Asks, Idle, Glue, OnlyFlags, SameRun, SameFilm,
     SameSegs, SameTakes
<1>9. CASE \E on \in BOOLEAN : PauseSet(on)
  <2>1. PICK on \in BOOLEAN : PauseSet(on) BY <1>9
  <2> QED BY <1>1, <1>2, <1>3, <2>1 DEF PauseSet, Asks, request, Idle, Glue, OnlyFlags,
     SameRun, SameFilm, SameSegs, SameTakes
<1> QED BY <1>4, <1>5, <1>6, <1>7, <1>8, <1>9 DEF Request

LEMMA LoadFlags ==
  ASSUME TypeInv, Load
  PROVE  /\ g' \in Glue /\ OnlyFlags(g, g') /\ Shape(g') /\ Goes(g, g')
         /\ g'.reqSnap /\ g'.snapInfo = snap.info /\ g'.req /\ cur' = snap.cur
         /\ snap' = snap /\ cur' \in 0..MaxFrames
<1>1. Shape(g) /\ g \in Glue /\ snap.info \in Point /\ snap.cur \in 0..MaxFrames
  BY DEF TypeInv, Shape
<1>2. g' \in Glue /\ OnlyFlags(g, g')
  BY <1>1 DEF Load, Glue, OnlyFlags, SameRun, SameFilm, SameSegs, SameTakes, Shape
<1>3. Shape(g') /\ Goes(g, g') BY <1>1, <1>2, OnlyFlagsGoes
<1> QED BY <1>1, <1>2, <1>3 DEF Load, Glue

LEMMA FrameSampledFlags ==
  ASSUME TypeInv, FrameSampled
  PROVE  /\ g' \in Glue /\ OnlyFlags(g, g') /\ Shape(g') /\ Goes(g, g')
         /\ ~g'.leaving /\ g'.reqSnap = g.reqSnap /\ g'.snapInfo = g.snapInfo
<1>1. Shape(g) /\ g \in Glue BY DEF TypeInv, Shape
<1>2. /\ g' \in Glue /\ OnlyFlags(g, g')
      /\ ~g'.leaving /\ g'.reqSnap = g.reqSnap /\ g'.snapInfo = g.snapInfo
  BY <1>1 DEF FrameSampled, Glue, OnlyFlags, SameRun, SameFilm, SameSegs, SameTakes, Shape
<1>3. Shape(g') /\ Goes(g, g') BY <1>1, <1>2, OnlyFlagsGoes
<1> QED BY <1>2, <1>3

\* Frames whose sound is there.
LEMMA HorizonGoes ==
  ASSUME TypeInv, NEW k \in 1..Len(g.pend), Horizon(k)
  PROVE  /\ Shape(g') /\ Goes(g, g') /\ SameShown(g, g') /\ SameTime(g, g') /\ SameAsked(g, g')
         /\ SameSegs(g, g') /\ SameTakes(g, g') /\ SameRun(g, g')
<1>1. Shape(g) /\ g \in Glue /\ Counted(g) /\ Len(g.pend) \in Nat /\ Len(g.pend) <= MaxPending
  BY DEF TypeInv, Shape, Glue
<1>2. k \in 0..Len(g.pend) BY <1>1
<1> DEFINE e == EmitFirst(g, k)
<1>3. /\ e \in Glue /\ Counted(e) /\ e.next = g.next + k /\ Len(e.pend) = Len(g.pend) - k
      /\ ShownOf(e) = ShownOf(g) /\ Count(e) = Count(g)
      /\ e.queue = g.queue \o FrameMessages(g.next, k)
      /\ SameRun(g, e) /\ SameSegs(g, e) /\ SameTakes(g, e)
      /\ SameTime(g, e) /\ SameAsked(g, e)
  BY <1>1, <1>2, EmitFirstFields
<1>4. g' = e BY DEF Horizon
<1> HIDE DEF e
<1>5. k \in Nat /\ g.next \in Nat /\ MaxPending \in Nat BY <1>1, RecordingAssumption DEF Glue
<1>6. e.next - g.next = k /\ e.next >= g.next /\ Len(e.pend) <= MaxPending
  BY <1>1, <1>3, <1>5
<1>7. Shape(e)
  <2>1. ~e.rtOn /\ e.state = g.state /\ e.fifo = g.fifo /\ e.leaving = g.leaving
        /\ e.takes = g.takes /\ e.rtOn = g.rtOn
    BY <1>3 DEF Horizon, SameTime, SameRun, SameTakes
  <2> QED BY <1>1, <1>3, <1>6, <2>1 DEF Shape
<1>8. Wrote(g, e) BY <1>3, <1>6 DEF Wrote
<1>9. Pos(e) = Pos(g) /\ Count(g) \in Nat BY <1>1, <1>3, PosFields DEF Pos, SameRun, SameTime
<1>10. SegsRight(g) => SegsRight(e) BY <1>3, <1>9 DEF SegsRight, SameSegs, SameRun
<1>11. SegStep(g, e) BY <1>3, <1>10, SameSegsStep
<1> QED BY <1>3, <1>4, <1>7, <1>8, <1>9, <1>11 DEF Goes, SameRun, SameShown

\* What follows the last recording, or nothing: the writer is told to end.
LEMMA ExitEnds ==
  ASSUME TypeInv, Exit
  PROVE  /\ Shape(g') /\ ~g'.leaving /\ g'.state = "idle" /\ g'.session = g.session
         /\ (g'.reqSnap => g.reqSnap) /\ g'.req = g.req
         /\ \E k \in Glue : /\ (Idle /\ k = g) \/ (~Idle /\ Ends(g, k))
                            /\ g'.queue = Append(k.queue, [type |-> "quit", n |-> 0])
                            /\ g'.content = k.content /\ g'.pend = k.pend
<1>1. Shape(g) /\ g \in Glue BY DEF TypeInv, Shape
<1> DEFINE k == IF Idle THEN g ELSE Finalize(g)  m == [type |-> "quit", n |-> 0]  p == Push(k, m)
<1>2. g' = p BY DEF Exit
<1>3. /\ (Idle /\ k = g) \/ (~Idle /\ Ends(g, k))
      /\ k.req = g.req
      /\ Shape(k) /\ k.state = "idle" /\ ~k.leaving /\ k.session = g.session
      /\ k.reqSnap => g.reqSnap
  BY <1>1, EndGoes DEF Ends, Idle, Shape
<1>4. k \in Glue BY <1>3 DEF Shape
<1> HIDE DEF k
<1>5. m \in Plain \cup Sidecar BY DEF Plain
<1>6. /\ p \in Glue /\ p.queue = Append(k.queue, m)
      /\ SameRun(k, p) /\ SameFilm(k, p) /\ SameSegs(k, p) /\ SameTakes(k, p)
      /\ SameTime(k, p) /\ SameAsked(k, p)
  BY <1>4, <1>5, PushFields
<1> HIDE DEF p
<1>7. Shape(p)
  <2>1. Counted(p) BY <1>3, <1>6 DEF Shape, Counted, SameFilm
  <2> QED BY <1>3, <1>6, <2>1 DEF Shape, SameRun, SameFilm, SameTime, SameTakes
<1> QED BY <1>2, <1>3, <1>4, <1>6, <1>7 DEF SameRun, SameFilm, SameTime, SameAsked

\* The writer takes a message, and knows no more of the glue.
WriterTakes ==
  /\ g.queue # <<>> /\ g' = [g EXCEPT !.queue = Tail(@)]
  /\ UNCHANGED <<held, initialized, reqStart, want, machine>>

LEMMA WriterGlue ==
  ASSUME TypeInv, WriterTakes
  PROVE  /\ g' \in Glue /\ Shape(g') /\ g'.queue = Tail(g.queue)
         /\ SameRun(g, g') /\ SameFilm(g, g') /\ SameSegs(g, g') /\ SameTakes(g, g')
         /\ SameTime(g, g') /\ SameAsked(g, g')
         /\ Message \in Plain \cup Sidecar
<1> DEFINE q == Tail(g.queue)
<1>1. Shape(g) /\ g \in Glue /\ Counted(g) /\ g.queue \in Seq(Plain \cup Sidecar) /\ g.queue # <<>>
  BY DEF TypeInv, Shape, Glue, WriterTakes
<1>2. q \in Seq(Plain \cup Sidecar) /\ Message \in Plain \cup Sidecar
  BY <1>1, HeadTailProperties DEF Message
<1>3. g' = [g EXCEPT !.queue = q] BY DEF WriterTakes
<1> HIDE DEF q
<1>4. /\ g' \in Glue /\ g'.queue = q
      /\ SameRun(g, g') /\ SameFilm(g, g') /\ SameSegs(g, g') /\ SameTakes(g, g')
      /\ SameTime(g, g') /\ SameAsked(g, g')
  BY <1>1, <1>2, <1>3 DEF Glue, SameRun, SameFilm, SameSegs, SameTakes, SameTime, SameAsked
<1>5. Shape(g')
  <2>1. Counted(g') BY <1>1, <1>4 DEF Counted, SameFilm
  <2> QED BY <1>1, <1>4, <2>1 DEF Shape, SameRun, SameFilm, SameTime, SameTakes
<1> QED BY <1>2, <1>4, <1>5 DEF q

WriterTyped(v) ==
  /\ v = [session |-> v.session, parts |-> v.parts, failed |-> v.failed]
  /\ v.session \in 0..MaxSessions /\ v.failed \in {"no", "io", "truncate"}

\* The writer takes the first message, and keeps its own types.
LEMMA WriterNext ==
  ASSUME TypeInv, Writer
  PROVE  /\ WriterTakes /\ WriterTyped(w') /\ failedGen' \in 0..MaxSessions /\ turns' \in Nat
<1>1. WriterTyped(w) /\ failedGen \in 0..MaxSessions /\ turns \in Nat
  BY DEF TypeInv, WriterTyped
<1>2. WriterTakes
  BY DEF Writer, WriteOpen, WriteFrame, WriteTruncate, WriteSidecar, WriteClose, WriteSync,
     Taken, WriterTakes
<1>3. Message \in Plain \cup Sidecar BY <1>2, WriterGlue
<1>4. \A v, why : WriterTyped(v) /\ v.session = w.session /\ why \in {"io", "truncate"} =>
        (Fails(v, why) => WriterTyped(w') /\ failedGen' \in 0..MaxSessions)
  BY <1>1 DEF Fails, WriterTyped
<1>5. \A p : LET v == [w EXCEPT !.parts = p]
             IN WriterTyped(v) /\ v.session = w.session
  BY <1>1 DEF WriterTyped
<1>6. \A v : WriterTyped(v) /\ v.session = w.session =>
        /\ Errs(v) => WriterTyped(w') /\ failedGen' \in 0..MaxSessions /\ turns' \in Nat
        /\ Becomes(v) => WriterTyped(w') /\ failedGen' \in 0..MaxSessions /\ turns' \in Nat
  <2> SUFFICES ASSUME NEW v, WriterTyped(v), v.session = w.session
               PROVE /\ Errs(v) => WriterTyped(w') /\ failedGen' \in 0..MaxSessions /\ turns' \in Nat
                     /\ Becomes(v) => WriterTyped(w') /\ failedGen' \in 0..MaxSessions
                                      /\ turns' \in Nat
    OBVIOUS
  <2>1. Becomes(v) => WriterTyped(w') /\ failedGen' \in 0..MaxSessions /\ turns' \in Nat
    BY <1>1 DEF Becomes
  <2>2. Errs(v) => Fails(v, "io") /\ turns' \in Nat BY <1>1 DEF Errs, Turn
  <2> QED BY <1>4, <2>1, <2>2
<1>7. CASE WriteOpen
  <2>1. Message.type = "open" BY <1>7 DEF WriteOpen, Taken
  <2>2. Message.n \in 0..MaxSessions BY <1>3, <2>1 DEF Plain, Sidecar, Opening
  <2> DEFINE v(x) == [session |-> Message.n, parts |-> <<[first |-> 0, count |-> 0]>>, failed |-> x]
  <2>3. \A x \in {"no", "io"} : WriterTyped(v(x)) BY <2>2 DEF WriterTyped
  <2>4. Becomes(v("no")) => w' = v("no") /\ failedGen' = failedGen /\ turns' = turns
    BY DEF Becomes
  <2>5. \/ w' = v("no") /\ failedGen' = failedGen /\ turns' = turns
        \/ w' = v("io") /\ failedGen' = Message.n /\ Turn
    BY <1>7, <2>4 DEF WriteOpen
  <2> HIDE DEF v
  <2> QED BY <1>1, <1>2, <2>2, <2>3, <2>5 DEF Turn
<1>8. CASE WriteFrame
  <2>1. w = [w EXCEPT !.parts = w.parts] BY <1>1 DEF WriterTyped
  <2>2. \E p : Becomes([w EXCEPT !.parts = p]) \/ Errs([w EXCEPT !.parts = p])
    BY <1>8, <2>1 DEF WriteFrame, WithPart
  <2> QED BY <1>2, <1>5, <1>6, <2>2
<1>9. CASE WriteTruncate
  <2>1. w = [w EXCEPT !.parts = w.parts] BY <1>1 DEF WriterTyped
  <2>2. \/ \E p : Becomes([w EXCEPT !.parts = p]) \/ Errs([w EXCEPT !.parts = p])
        \/ Fails([w EXCEPT !.parts = w.parts], "truncate") /\ turns' = turns
    BY <1>9, <2>1 DEF WriteTruncate, WithPart
  <2> QED BY <1>1, <1>2, <1>4, <1>5, <1>6, <2>2
<1>10. CASE WriteSidecar
  <2>1. w = [w EXCEPT !.parts = w.parts] BY <1>1 DEF WriterTyped
  <2>2. \E p : DropEmptyPart(w) = [w EXCEPT !.parts = p] BY <2>1 DEF DropEmptyPart
  <2>3. \E p : Becomes([w EXCEPT !.parts = p]) \/ Errs([w EXCEPT !.parts = p])
    BY <1>10, <2>2 DEF WriteSidecar
  <2> QED BY <1>2, <1>5, <1>6, <2>3
<1>11. CASE WriteClose
  <2>1. w' = Closed /\ turns' = turns /\ failedGen' \in {failedGen, w.session}
    BY <1>11 DEF WriteClose
  <2>2. WriterTyped(Closed) BY VideoRecAssumption DEF Closed, WriterTyped
  <2> QED BY <1>1, <1>2, <2>1, <2>2 DEF WriterTyped
<1>12. CASE WriteSync
  BY <1>1, <1>2, <1>12 DEF WriteSync, writer
<1> QED BY <1>7, <1>8, <1>9, <1>10, <1>11, <1>12 DEF Writer

\* Every step keeps the types.
LEMMA TypeNext ==
  ASSUME TypeInv, [Next]_vars
  PROVE  TypeInv'
<1>1. /\ Shape(g) /\ g \in Glue /\ held \in Frame
      /\ {initialized, reqStart, want} \subseteq BOOLEAN /\ turns \in Nat
      /\ clock \in 0..MaxFrames /\ cur \in 0..MaxFrames
      /\ snap \in [cur : 0..MaxFrames, info : Point]
      /\ WriterTyped(w) /\ failedGen \in 0..MaxSessions
      /\ (reqStart \/ g.leaving => g.req) /\ (reqStart => Idle)
      /\ held # Blank => Held(g)
  BY DEF TypeInv, Shape, WriterTyped, Heard, Held, Idle
<1>2. ASSUME /\ Shape(g') /\ held' \in Frame
             /\ {initialized', reqStart', want'} \subseteq BOOLEAN /\ turns' \in Nat
             /\ clock' \in 0..MaxFrames /\ cur' \in 0..MaxFrames
             /\ snap' \in [cur : 0..MaxFrames, info : Point]
             /\ WriterTyped(w') /\ failedGen' \in 0..MaxSessions
             /\ (reqStart' \/ g'.leaving => g'.req) /\ (reqStart' => Idle')
             /\ held' # Blank => Held(g')
      PROVE  TypeInv'
  BY <1>2 DEF TypeInv, WriterTyped, Heard, Held, Idle
<1>3. CASE FrameEnd
  <2>1. /\ held = Blank /\ NextFrame /\ initialized' = initialized
        /\ Idle => g.session < MaxSessions
    BY <1>3 DEF FrameEnd, Emulating, Unlocked
  <2>2. /\ clock' \in 0..MaxFrames /\ cur' \in 0..MaxFrames /\ snap' = snap
        /\ ThisFrame \in Frame /\ (~Idle => ThisFrame \in Taped)
    BY <2>1, FrameTyped
  <2>3. CASE FrameIgnored
    BY <1>1, <1>2, <2>1, <2>2, <2>3 DEF FrameIgnored, request, writer, Idle
  <2>4. CASE FrameIdle
    <3>1. Shape(g') /\ ~g'.leaving BY <2>1, <2>4, FrameIdleBegins DEF FrameIdle
    <3>2. reqStart' = FALSE /\ held' = held /\ want' = want /\ turns' = turns /\ w' = w
          /\ failedGen' = failedGen
      BY <2>4 DEF FrameIdle, writer
    <3> QED BY <1>1, <1>2, <2>1, <2>2, <3>1, <3>2
  <2>5. CASE FrameSampled
    <3>1. Shape(g') /\ ~g'.leaving BY <2>5, FrameSampledFlags
    <3>2. reqStart' = reqStart /\ held' = held /\ want' = want /\ turns' = turns /\ w' = w
          /\ failedGen' = failedGen
      BY <2>5 DEF FrameSampled, writer, request
    <3>3. ~reqStart BY <1>1, <2>5 DEF FrameSampled, Shape, Idle
    <3> QED BY <1>1, <1>2, <2>1, <2>2, <3>1, <3>2, <3>3
  <2>6. CASE FrameEmulated
    <3>1. ~Idle BY <2>6 DEF FrameEmulated
    <3>2. /\ Shape(g') /\ ~g'.leaving
          /\ held' = Blank \/ (held' = ThisFrame /\ Held(g'))
      BY <2>1, <2>2, <2>6, <3>1, FrameEmulatedGoes DEF Unlocked
    <3>3. reqStart' = reqStart /\ want' = want /\ turns' = turns /\ w' = w
          /\ failedGen' = failedGen
      BY <2>6 DEF FrameEmulated, writer, request
    <3>4. held' \in Frame BY <1>1, <2>1, <2>2, <3>2
    <3> QED BY <1>1, <1>2, <2>1, <2>2, <3>1, <3>2, <3>3, <3>4
  <2> QED BY <1>3, <2>3, <2>4, <2>5, <2>6 DEF FrameEnd
<1>4. CASE AfterSync
  <2>1. Shape(g') /\ ~g'.leaving BY <1>4, AfterSyncGoes
  <2>2. held' = Blank /\ UNCHANGED <<initialized, request, machine, writer>>
    BY <1>4 DEF AfterSync
  <2>3. ~reqStart BY <1>1, <1>4 DEF AfterSync, Unlocked, Held, Idle
  <2>4. Blank \in Frame BY VideoRecAssumption DEF Blank, Frame
  <2> QED BY <1>1, <1>2, <2>1, <2>2, <2>3, <2>4 DEF request, machine, writer
<1>5. CASE PausedTurn
  <2>1. held = Blank /\ UNCHANGED <<held, initialized, request, machine, writer>>
        /\ g' = (IF ~Idle /\ g.reqStop THEN Finalize(g) ELSE g)
    BY <1>5 DEF PausedTurn, Emulating, Unlocked
  <2>2. CASE ~Idle /\ g.reqStop
    <3>1. Ends(g, g') BY <1>1, <2>1, <2>2, EndGoes
    <3> QED BY <1>1, <1>2, <2>1, <2>2, <3>1 DEF Ends, request, machine, writer
  <2>3. CASE ~(~Idle /\ g.reqStop)
    BY <1>1, <1>2, <2>1, <2>3 DEF request, machine, writer, Idle
  <2> QED BY <2>2, <2>3
<1>6. CASE Save
  <2>1. held = Blank /\ snap' = [cur |-> cur, info |-> SnapInfo]
        /\ UNCHANGED <<g, held, initialized, request, clock, cur, writer>>
    BY <1>6 DEF Save, Emulating, Unlocked
  <2>2. SnapInfo \in Point
    <3>1. CASE Idle
      <4>1. NoInfo \in Point BY VideoRecAssumption DEF NoInfo, Point
      <4> QED BY <3>1, <4>1 DEF SnapInfo
    <3>2. CASE ~Idle
      <4>1. g.takes \in Seq(ATake) /\ g.takes # <<>> /\ g.session \in 0..MaxSessions
        BY <1>1, <3>2 DEF Glue, Shape, Idle
      <4>2. Last(g.takes) \in ATake BY <4>1, FrontLast
      <4>3. Last(g.takes).id \in Nat BY <4>2 DEF ATake
      <4>4. Count(g) \in Nat BY <1>1, PosFields
      <4> QED BY <3>2, <4>1, <4>3, <4>4 DEF SnapInfo, Point
    <3> QED BY <3>1, <3>2
  <2> QED BY <1>1, <1>2, <2>1, <2>2 DEF request, writer, Idle
<1>7. CASE Load
  <2>1. held = Blank /\ turns' = turns + 1
        /\ UNCHANGED <<held, initialized, reqStart, want, clock, snap, writer>>
        /\ ~Idle
    BY <1>7 DEF Load, Emulating, Unlocked, Turn
  <2>2. Shape(g') /\ g'.req /\ cur' \in 0..MaxFrames BY <1>7, LoadFlags
  <2> QED BY <1>1, <1>2, <2>1, <2>2 DEF writer
<1>8. CASE Exit
  <2>1. held = Blank /\ initialized' = FALSE /\ reqStart' = FALSE
        /\ UNCHANGED <<held, want, turns, machine, writer>>
    BY <1>8 DEF Exit, Emulating, Unlocked
  <2>2. Shape(g') /\ ~g'.leaving BY <1>8, ExitEnds
  <2> QED BY <1>1, <1>2, <2>1, <2>2 DEF machine, writer
<1>9. CASE Request
  <2>1. held = Blank /\ UNCHANGED <<held, initialized, machine, writer>>
    BY <1>9 DEF Request, RequestStart, RequestStop, PauseToggle, RequestTimebase, SpeedChange,
       PauseSet, Asks, Unlocked
  <2>2. /\ Shape(g') /\ (reqStart' \/ g'.leaving => g'.req)
        /\ {reqStart', want'} \subseteq BOOLEAN /\ turns' \in Nat /\ (reqStart' => Idle')
    BY <1>9, RequestFlags
  <2> QED BY <1>1, <1>2, <2>1, <2>2 DEF machine, writer
<1>10. CASE Writer
  <2>1. WriterTakes /\ WriterTyped(w') /\ failedGen' \in 0..MaxSessions /\ turns' \in Nat
    BY <1>10, WriterNext
  <2>2. /\ Shape(g') /\ SameRun(g, g') /\ SameFilm(g, g') /\ SameTakes(g, g')
        /\ SameTime(g, g') /\ SameAsked(g, g')
    BY <2>1, WriterGlue
  <2>3. UNCHANGED <<held, initialized, reqStart, want, machine>> BY <2>1 DEF WriterTakes
  <2>4. Held(g) => Held(g')
    <3>1. Count(g') = Count(g) BY <2>2 DEF SameFilm, Count
    <3>2. Retakes(g) => Retakes(g')
      BY <2>2, <3>1, RetakesStill DEF SameTakes, SameRun, SameAsked
    <3> QED BY <2>2, <3>2 DEF Held, SameRun, SameTime, SameAsked, SameFilm
  <2>5. Idle => Idle' BY <2>2 DEF SameRun, Idle
  <2>6. g'.leaving = g.leaving /\ g'.req = g.req BY <2>2 DEF SameTime, SameAsked
  <2> QED BY <1>1, <1>2, <2>1, <2>2, <2>3, <2>4, <2>5, <2>6 DEF machine
<1>11. CASE \E k \in 1..Len(g.pend) : Horizon(k)
  <2>1. PICK k \in 1..Len(g.pend) : Horizon(k) BY <1>11
  <2>2. held = Blank /\ UNCHANGED <<held, initialized, request, machine, writer>>
    BY <2>1 DEF Horizon, Emulating, Unlocked
  <2>3. Shape(g') /\ SameTime(g, g') /\ SameAsked(g, g') /\ SameRun(g, g')
    BY <2>1, HorizonGoes
  <2>4. Idle => Idle' BY <2>3 DEF SameRun, Idle
  <2>5. g'.leaving = g.leaving /\ g'.req = g.req BY <2>3 DEF SameTime, SameAsked
  <2> QED BY <1>1, <1>2, <2>2, <2>3, <2>4, <2>5 DEF request, machine, writer
<1>12. CASE \E due \in 1..MaxDue, n \in 0..MaxDue, paused \in BOOLEAN :
              n <= due /\ Tick(due, n, paused)
  <2>1. PICK due \in 1..MaxDue, n \in 0..MaxDue, paused \in BOOLEAN : Tick(due, n, paused)
    BY <1>12
  <2>2. due \in Nat /\ n \in Nat BY VideoRecAssumption
  <2>3. held = Blank /\ UNCHANGED <<held, initialized, request, machine, writer>> /\ ~Idle
    BY <2>1 DEF Tick, Unlocked
  <2>4. Shape(g') /\ (g'.leaving => g'.req) BY <2>1, <2>2, TickGoes
  <2> QED BY <1>1, <1>2, <2>3, <2>4 DEF request, machine, writer
<1>13. CASE UNCHANGED vars
  BY <1>1, <1>2, <1>13 DEF vars, request, machine, writer, Idle
<1> QED BY <1>3, <1>4, <1>5, <1>6, <1>7, <1>8, <1>9, <1>10, <1>11, <1>12, <1>13 DEF Next

\* The types imply what the runs check.
LEMMA TypeInvTypeOK ==
  ASSUME TypeInv
  PROVE  TypeOK /\ KeepsDelay /\ Heard
<1>1. Shape(g) /\ g \in Glue /\ g.pend \in Seq(Frame)
  <2>1. g.pend \in Seq(Taped) /\ Shape(g) /\ g \in Glue BY DEF TypeInv, Shape, Glue
  <2> QED BY <2>1, SeqMonotonic DEF Taped
<1> QED BY <1>1 DEF TypeInv, TypeOK, Shape, Glue, Counted, KeepsDelay, Heard, Idle

\* The state of the recorder has its shape: the frames counted are the frames
\* written, the pipe keeps its size, and in real time nothing waits in it.
THEOREM TypeCorrect == Spec => []TypeOK
<1>1. Init => TypeInv BY TypeInit
<1>2. TypeInv /\ [Next]_vars => TypeInv' BY TypeNext
<1>3. TypeInv => TypeOK BY TypeInvTypeOK
<1> QED BY <1>1, <1>2, <1>3, PTL DEF Spec

\* In real time the picture keeps its distance from the sound.
THEOREM DelayKept == Spec => []KeepsDelay
<1>1. Init => TypeInv BY TypeInit
<1>2. TypeInv /\ [Next]_vars => TypeInv' BY TypeNext
<1>3. TypeInv => KeepsDelay BY TypeInvTypeOK
<1> QED BY <1>1, <1>2, <1>3, PTL DEF Spec

\* A start that waits and a return from real time keep the flag that makes the
\* end of a frame look at them.
THEOREM RequestsHeard == Spec => []Heard
<1>1. Init => TypeInv BY TypeInit
<1>2. TypeInv /\ [Next]_vars => TypeInv' BY TypeNext
<1>3. TypeInv => Heard BY TypeInvTypeOK
<1> QED BY <1>1, <1>2, <1>3, PTL DEF Spec

-----------------------------------------------------------------------------
(* The messages go on where the files of the writer end. *)

Messages == Seq(Plain \cup Sidecar)
NoSync(q) == \A i \in 1..Len(q) : q[i].type # "sync"

LEMMA NoSyncJoins ==
  ASSUME NEW q \in Messages, NEW s \in Messages, NoSync(q), NoSync(s)
  PROVE  NoSync(q \o s)
<1> SUFFICES ASSUME NEW i \in 1..Len(q \o s) PROVE (q \o s)[i].type # "sync"
  BY DEF NoSync
<1>1. /\ Len(q) \in Nat /\ Len(s) \in Nat /\ Len(q \o s) = Len(q) + Len(s)
      /\ (q \o s)[i] = IF i <= Len(q) THEN q[i] ELSE s[i - Len(q)]
  BY ConcatProperties DEF Messages
<1>2. CASE i <= Len(q)
  <2>1. i \in 1..Len(q) BY <1>1, <1>2
  <2> QED BY <1>1, <1>2, <2>1 DEF NoSync
<1>3. CASE ~(i <= Len(q))
  <2>1. i - Len(q) \in 1..Len(s) BY <1>1, <1>3
  <2> QED BY <1>1, <1>3, <2>1 DEF NoSync
<1> QED BY <1>2, <1>3

\* Messages that go on where the queue ends.
LEMMA FlowGrows ==
  ASSUME NEW q \in Messages, NEW s \in Messages, s # <<>>,
         NEW idle, NEW n, NEW quiet, NEW m, NEW v, Flow(q, idle, n, v),
         \A i \in 1..Len(s) - 1 : Leads(s[i], s[i + 1]),
         \A i \in 1..Len(s) : s[i].type # "truncate",
         q # <<>> => Leads(Last(q), s[1]),
         q = <<>> => Fits(s[1], v),
         Sent(Last(s), quiet, m)
  PROVE  Flow(q \o s, quiet, m, v)
<1> DEFINE a == Len(q)  b == Len(s)  t == q \o s
<1>1. /\ a \in Nat /\ b \in Nat \ {0}
  BY EmptySeq DEF Messages
<1>2. /\ t \in Messages /\ Len(t) = a + b
      /\ \A i \in 1..a : t[i] = q[i]
      /\ \A i \in a + 1..a + b : t[i] = s[i - a]
  BY ConcatProperties DEF Messages
<1> HIDE DEF a, b, t
<1>3. \A i \in 1..Len(t) - 1 : Leads(t[i], t[i + 1])
  <2> SUFFICES ASSUME NEW i \in 1..Len(t) - 1 PROVE Leads(t[i], t[i + 1]) OBVIOUS
  <2>1. i \in Nat /\ i >= 1 /\ i < a + b BY <1>1, <1>2
  <2>2. CASE i < a
    <3>1. i \in 1..a - 1 /\ i \in 1..a /\ i + 1 \in 1..a BY <1>1, <2>1, <2>2
    <3>2. t[i] = q[i] /\ t[i + 1] = q[i + 1] BY <1>2, <3>1
    <3> QED BY <3>1, <3>2 DEF Flow, a
  <2>3. CASE i = a
    <3>1. i \in 1..a /\ i + 1 \in a + 1..a + b /\ i + 1 - a = 1 BY <1>1, <2>1, <2>3
    <3>2. t[i] = q[a] /\ t[i + 1] = s[1] BY <1>2, <2>3, <3>1
    <3>3. q # <<>> /\ Last(q) = q[a]
      <4>1. Len(<<>>) = 0 OBVIOUS
      <4> QED BY <1>1, <2>1, <2>3, <4>1 DEF a, Last
    <3> QED BY <3>2, <3>3
  <2>4. CASE i > a
    <3>1. i \in a + 1..a + b /\ i + 1 \in a + 1..a + b /\ i - a \in 1..b - 1
          /\ i + 1 - a = (i - a) + 1
      BY <1>1, <2>1, <2>4
    <3>2. t[i] = s[i - a] /\ t[i + 1] = s[i + 1 - a] BY <1>1, <1>2, <2>1, <3>1
    <3>3. Leads(s[i - a], s[(i - a) + 1]) BY <3>1 DEF b
    <3> QED BY <3>1, <3>2, <3>3
  <2> QED BY <1>1, <2>1, <2>2, <2>3, <2>4
<1>4. \A i \in 1..Len(t) : t[i].type = "truncate" => i = 1
  <2> SUFFICES ASSUME NEW i \in 1..Len(t), t[i].type = "truncate" PROVE i = 1 OBVIOUS
  <2>1. i \in 1..a \/ (i \in a + 1..a + b /\ i - a \in 1..b) BY <1>1, <1>2
  <2>2. CASE i \in 1..a BY <1>2, <2>2 DEF Flow, a
  <2>3. CASE i \in a + 1..a + b /\ i - a \in 1..b BY <1>2, <2>3 DEF b
  <2> QED BY <2>1, <2>2, <2>3
<1>5. t # <<>> /\ Last(t) = Last(s)
  <2>1. Len(t) # 0 /\ Len(<<>>) = 0 BY <1>1, <1>2
  <2>2. a + b \in a + 1..a + b /\ a + b - a = b BY <1>1
  <2>3. t[a + b] = s[a + b - a] BY <1>1, <1>2, <2>2
  <2>4. t[a + b] = s[b] BY <2>2, <2>3
  <2> QED BY <1>2, <2>1, <2>4 DEF Last, b
<1>6. Fits(t[1], v)
  <2>1. CASE q = <<>>
    <3>1. a = 0 BY <2>1 DEF a
    <3>2. 1 \in a + 1..a + b /\ 1 - a = 1 BY <1>1, <3>1
    <3> QED BY <1>2, <2>1, <3>2
  <2>2. CASE q # <<>>
    <3>1. a # 0 BY <2>2, EmptySeq DEF a, Messages
    <3>2. 1 \in 1..a BY <1>1, <3>1
    <3> QED BY <1>2, <2>2, <3>2 DEF Flow
  <2> QED BY <2>1, <2>2
<1> QED BY <1>3, <1>4, <1>5, <1>6 DEF Flow, t

LEMMA FramesChained ==
  ASSUME NEW n \in Nat, NEW k \in Nat \ {0}
  PROVE  LET s == FrameMessages(n, k)
         IN /\ s \in Messages /\ s # <<>> /\ Len(s) = k
            /\ \A i \in 1..k : s[i].type = "frame" /\ s[i].n = n + i - 1
            /\ \A i \in 1..k - 1 : Leads(s[i], s[i + 1])
            /\ s[1].n = n /\ Last(s).type = "frame" /\ After(Last(s)) = n + k
<1> DEFINE s == FrameMessages(n, k)
<1>1. s \in Messages /\ Len(s) = k BY MessagesTyped DEF Messages
<1>2. s # <<>>
  <2>1. Len(<<>>) = 0 OBVIOUS
  <2> QED BY <1>1, <2>1
<1>3. \A i \in 1..k : s[i].type = "frame" /\ s[i].n = n + i - 1 BY DEF FrameMessages
<1> HIDE DEF s
<1>4. \A i \in 1..k - 1 : Leads(s[i], s[i + 1])
  <2> SUFFICES ASSUME NEW i \in 1..k - 1 PROVE Leads(s[i], s[i + 1]) OBVIOUS
  <2>1. i \in 1..k /\ i + 1 \in 1..k /\ n + (i + 1) - 1 = (n + i - 1) + 1 OBVIOUS
  <2>2. s[i].type = "frame" /\ s[i].n = n + i - 1 BY <1>3, <2>1
  <2>3. s[i + 1].type = "frame" /\ s[i + 1].n = n + (i + 1) - 1 BY <1>3, <2>1
  <2>4. After(s[i]) = s[i].n + 1 BY <2>2 DEF After
  <2>5. s[i + 1].n = After(s[i]) BY <2>1, <2>2, <2>3, <2>4
  <2> QED BY <2>2, <2>3, <2>5 DEF Leads
<1>5. 1 \in 1..k /\ k \in 1..k /\ n + 1 - 1 = n /\ (n + k - 1) + 1 = n + k OBVIOUS
<1>6. Last(s) = s[k] BY <1>1 DEF Last
<1>7. After(Last(s)) = n + k BY <1>3, <1>5, <1>6 DEF After
<1> QED BY <1>1, <1>2, <1>3, <1>4, <1>5, <1>6, <1>7 DEF s

\* The frames of a step follow what the queue or the files end with.
LEMMA FlowWrote ==
  ASSUME NEW h \in Glue, NEW k \in Glue, Wrote(h, k), NEW v, Flow(h.queue, FALSE, h.next, v)
  PROVE  /\ Flow(k.queue, FALSE, k.next, v)
         /\ NoSync(h.queue) => NoSync(k.queue)
<1>1. h.queue \in Messages /\ h.next \in Nat /\ k.next \in Nat /\ k.next >= h.next
  BY DEF Glue, Messages, Wrote
<1>2. PICK b \in Nat : b = k.next - h.next BY <1>1
<1> DEFINE s == FrameMessages(h.next, b)
<1>3. k.queue = h.queue \o s /\ k.next = h.next + b BY <1>1, <1>2 DEF Wrote
<1>4. CASE b = 0
  <2>1. s \in Seq(Plain \cup Sidecar) /\ Len(s) = 0 BY <1>1, <1>4, MessagesTyped
  <2>2. s = <<>> BY <2>1, EmptySeq
  <2>3. h.queue \o <<>> = h.queue BY <1>1, ConcatEmptySeq DEF Messages
  <2>4. k.queue = h.queue BY <1>3, <2>2, <2>3
  <2>5. k.next = h.next BY <1>1, <1>3, <1>4
  <2> QED BY <2>4, <2>5
<1>5. CASE b # 0
  <2>1. /\ s \in Messages /\ s # <<>> /\ Len(s) = b
        /\ \A i \in 1..b : s[i].type = "frame" /\ s[i].n = h.next + i - 1
        /\ \A i \in 1..b - 1 : Leads(s[i], s[i + 1])
        /\ s[1].n = h.next /\ Last(s).type = "frame" /\ After(Last(s)) = h.next + b
    <3>1. b \in Nat \ {0} BY <1>2, <1>5
    <3> QED BY <1>1, <3>1, FramesChained
  <2> HIDE DEF s
  <2>2. 1 \in 1..b BY <1>2, <1>5
  <2>3. h.queue # <<>> => Leads(Last(h.queue), s[1])
    BY <2>1, <2>2 DEF Flow, Sent, Leads
  <2>4. h.queue = <<>> => Fits(s[1], v) BY <2>1, <2>2 DEF Flow, Fits
  <2>5. Sent(Last(s), FALSE, k.next) BY <1>3, <2>1 DEF Sent
  <2>6. \A i \in 1..Len(s) : s[i].type # "truncate" BY <2>1
  <2>7. Flow(h.queue \o s, FALSE, k.next, v)
    BY <1>1, <2>1, <2>3, <2>4, <2>5, <2>6, FlowGrows
  <2>8. NoSync(h.queue) => NoSync(h.queue \o s)
    <3>1. NoSync(s) BY <2>1 DEF NoSync
    <3> QED BY <1>1, <2>1, <3>1, NoSyncJoins
  <2> QED BY <1>3, <2>7, <2>8
<1> QED BY <1>4, <1>5

LEMMA FlowOneMore ==
  ASSUME NEW q \in Messages, NEW m \in Plain \cup Sidecar, m.type # "truncate",
         NEW idle, NEW n, NEW quiet, NEW k, NEW v, Flow(q, idle, n, v),
         q # <<>> => Leads(Last(q), m), q = <<>> => Fits(m, v), Sent(m, quiet, k)
  PROVE  /\ Flow(Append(q, m), quiet, k, v)
         /\ NoSync(q) /\ m.type # "sync" => NoSync(Append(q, m))
<1> DEFINE s == <<m>>
<1>1. s \in Messages /\ s # <<>> /\ Len(s) = 1 /\ s[1] = m /\ Last(s) = m
  BY DEF Messages, Last
<1>2. Append(q, m) = q \o s BY AppendIsConcat DEF Messages
<1> HIDE DEF s
<1>3. ~(\E i \in 1..Len(s) - 1 : TRUE) BY <1>1
<1>4. \A i \in 1..Len(s) : s[i].type # "truncate" BY <1>1
<1>5. Flow(q \o s, quiet, k, v) BY <1>1, <1>3, <1>4, FlowGrows
<1>6. m.type # "sync" => NoSync(s) BY <1>1 DEF NoSync
<1> QED BY <1>1, <1>2, <1>5, <1>6, NoSyncJoins

LEMMA FlowGoes ==
  ASSUME NEW h \in Glue, NEW k, Goes(h, k), NEW v, Flow(h.queue, FALSE, h.next, v)
  PROVE  /\ Flow(k.queue, FALSE, k.next, v)
         /\ NoSync(h.queue) => NoSync(k.queue)
BY FlowWrote DEF Goes

LEMMA FlowEnds ==
  ASSUME NEW h \in Glue, NEW k, Ends(h, k), NEW v, Flow(h.queue, FALSE, h.next, v), NEW n
  PROVE  /\ Flow(k.queue, TRUE, n, v)
         /\ NoSync(h.queue) => NoSync(k.queue)
<1>1. PICK d \in Glue, c \in Seq(Segment) :
        /\ Wrote(h, d)
        /\ k.queue = d.queue \o << [type |-> "sidecar", n |-> d.next, segs |-> c],
                                   [type |-> "close", n |-> 0] >>
  BY DEF Ends, Finalized
<1> DEFINE a == [type |-> "sidecar", n |-> d.next, segs |-> c]
           z == [type |-> "close", n |-> 0]
           s == << a, z >>
<1>2. a \in Plain \cup Sidecar /\ z \in Plain \cup Sidecar BY DEF Sidecar, Plain, Glue
<1>3. a.type = "sidecar" /\ a.n = d.next /\ z.type = "close" OBVIOUS
<1> HIDE DEF a, z
<1>4. s \in Messages /\ s # <<>> /\ Len(s) = 2 /\ s[1] = a /\ s[2] = z /\ Last(s) = z
  BY <1>2 DEF Messages, Last
<1>5. k.queue = d.queue \o s BY <1>1 DEF a, z
<1> HIDE DEF s
<1>6. Flow(d.queue, FALSE, d.next, v) /\ (NoSync(h.queue) => NoSync(d.queue))
  BY <1>1, FlowWrote
<1>7. \A i \in 1..Len(s) - 1 : Leads(s[i], s[i + 1])
  <2>1. \A i \in 1..Len(s) - 1 : i = 1 BY <1>4
  <2>2. Leads(s[1], s[1 + 1]) BY <1>3, <1>4 DEF Leads
  <2> QED BY <2>1, <2>2
<1>8. \A i \in 1..Len(s) : s[i].type # "truncate" /\ s[i].type # "sync"
  <2>1. \A i \in 1..Len(s) : i = 1 \/ i = 2 BY <1>4
  <2> QED BY <1>3, <1>4, <2>1
<1>9. d.queue # <<>> => Leads(Last(d.queue), s[1]) BY <1>3, <1>4, <1>6 DEF Flow, Sent, Leads
<1>10. d.queue = <<>> => Fits(s[1], v) BY <1>3, <1>4, <1>6 DEF Flow, Fits
<1>11. Sent(Last(s), TRUE, n) BY <1>3, <1>4 DEF Sent
<1>12. d.queue \in Messages BY DEF Glue, Messages
<1>13. Flow(d.queue \o s, TRUE, n, v)
  BY <1>4, <1>6, <1>7, <1>8, <1>9, <1>10, <1>11, <1>12, FlowGrows
<1>14. NoSync(s) BY <1>8 DEF NoSync
<1> QED BY <1>4, <1>5, <1>6, <1>12, <1>13, <1>14, NoSyncJoins

\* What every action of the glue does with the queue.
LEMMA FilesGlueNext ==
  ASSUME TypeInv, FilesInv, Next, ~Writer
  PROVE  Flow(g'.queue, Idle', g'.next, w) /\ SyncInv' /\ w' = w
<1>1. /\ Shape(g) /\ g \in Glue /\ g.queue \in Messages /\ g.next \in Nat
      /\ Flow(g.queue, Idle, g.next, w) /\ SyncInv
  BY DEF TypeInv, Shape, FilesInv, Glue, Messages
<1>2. (held = Blank => NoSync(g.queue)) BY <1>1 DEF SyncInv, NoSync
<1>3. ASSUME NoSync(g'.queue), held' = Blank PROVE SyncInv' BY <1>3 DEF SyncInv, NoSync
<1>4. ASSUME ~Idle, Goes(g, g') \/ Ends(g, g')
      PROVE  /\ Flow(g'.queue, Idle', g'.next, w)
             /\ NoSync(g.queue) => NoSync(g'.queue)
  <2>1. Flow(g.queue, FALSE, g.next, w) /\ g.state # "idle" BY <1>1, <1>4 DEF Idle
  <2>2. CASE Goes(g, g')
    <3>1. Idle' = FALSE BY <2>1, <2>2 DEF Goes, Idle
    <3> QED BY <1>1, <2>1, <2>2, <3>1, FlowGoes
  <2>3. CASE Ends(g, g')
    <3>1. Idle' = TRUE BY <2>3 DEF Ends, Idle
    <3> QED BY <1>1, <2>1, <2>3, <3>1, FlowEnds
  <2> QED BY <1>4, <2>2, <2>3
<1>5. ASSUME g'.queue = g.queue, g'.next = g.next, g'.state = g.state
      PROVE  /\ Flow(g'.queue, Idle', g'.next, w)
             /\ NoSync(g.queue) => NoSync(g'.queue)
  BY <1>1, <1>5 DEF Idle
<1>6. CASE FrameEnd
  <2>1. held = Blank /\ NextFrame /\ (Idle => g.session < MaxSessions)
    BY <1>6 DEF FrameEnd, Emulating, Unlocked
  <2>2. CASE FrameIgnored
    <3>1. g' = g /\ held' = held /\ w' = w BY <2>2 DEF FrameIgnored, writer
    <3>2. /\ Flow(g'.queue, Idle', g'.next, w)
          /\ NoSync(g.queue) => NoSync(g'.queue)
      BY <1>5, <3>1
    <3> QED BY <1>2, <1>3, <2>1, <3>1, <3>2
  <2>3. CASE FrameIdle
    <3>1. held' = held /\ w' = w /\ Idle BY <2>3 DEF FrameIdle, writer
    <3>2. OnlyAsked(g, g') \/ Begins(g, g') BY <2>1, <2>3, <3>1, FrameIdleBegins
    <3>3. CASE OnlyAsked(g, g')
      <4>1. /\ Flow(g'.queue, Idle', g'.next, w)
            /\ NoSync(g.queue) => NoSync(g'.queue)
        BY <1>5, <3>3 DEF OnlyAsked, SameFilm, SameRun
      <4> QED BY <1>2, <1>3, <2>1, <3>1, <4>1
    <3>4. CASE Begins(g, g')
      <4> DEFINE m == [type |-> "open", n |-> g'.session]
      <4>1. m \in Plain \cup Sidecar
        <5>1. g'.session \in 0..MaxSessions BY <3>4 DEF Begins, Glue
        <5> QED BY <5>1 DEF Plain, Opening
      <4>2. m.type = "open" OBVIOUS
      <4>3. g'.queue = Append(g.queue, m) /\ g'.next = 0 /\ Idle' = FALSE
        BY <3>4 DEF Begins, Idle
      <4> HIDE DEF m
      <4>4. g.queue # <<>> => Leads(Last(g.queue), m)
        BY <1>1, <3>1, <4>2 DEF Flow, Sent, Leads
      <4>5. Fits(m, w) /\ Sent(m, FALSE, 0) BY <4>2 DEF Fits, Sent, After
      <4>6. /\ Flow(Append(g.queue, m), FALSE, 0, w)
            /\ NoSync(g.queue) => NoSync(Append(g.queue, m))
        BY <1>1, <4>1, <4>2, <4>4, <4>5, FlowOneMore
      <4> QED BY <1>2, <1>3, <2>1, <3>1, <4>3, <4>6
    <3> QED BY <3>2, <3>3, <3>4
  <2>4. CASE FrameSampled
    <3>1. OnlyFlags(g, g') BY <2>4, FrameSampledFlags
    <3>2. held' = held /\ w' = w BY <2>4 DEF FrameSampled, writer
    <3>3. /\ Flow(g'.queue, Idle', g'.next, w)
          /\ NoSync(g.queue) => NoSync(g'.queue)
      BY <1>5, <3>1 DEF OnlyFlags, SameFilm, SameRun
    <3> QED BY <1>2, <1>3, <2>1, <3>2, <3>3
  <2>5. CASE FrameEmulated
    <3>1. w' = w /\ ~Idle /\ ThisFrame \in Taped
      BY <2>1, <2>5, FrameTyped DEF FrameEmulated, writer
    <3>2. \/ held' = Blank /\ (Ends(g, g') \/ Goes(g, g'))
          \/ /\ held' = ThisFrame /\ Held(g')
             /\ \E f \in Glue : Goes(g, f) /\ g' = Push(f, [type |-> "sync", n |-> f.next])
      BY <2>1, <2>5, <3>1, FrameEmulatedGoes DEF Unlocked
    <3>3. CASE held' = Blank /\ (Ends(g, g') \/ Goes(g, g'))
      BY <1>2, <1>3, <1>4, <2>1, <3>1, <3>3
    <3>4. CASE /\ held' = ThisFrame /\ Held(g')
               /\ \E f \in Glue : Goes(g, f) /\ g' = Push(f, [type |-> "sync", n |-> f.next])
      <4>1. PICK f \in Glue : Goes(g, f) /\ g' = Push(f, [type |-> "sync", n |-> f.next])
        BY <3>4
      <4> DEFINE m == [type |-> "sync", n |-> f.next]
      <4>2. m.type = "sync" /\ m.n = f.next /\ m \in Plain \cup Sidecar
        BY DEF Plain, Glue
      <4> HIDE DEF m
      <4>3. g' = Push(f, m) BY <4>1 DEF m
      <4>4. g'.queue = Append(f.queue, m) /\ g'.next = f.next
        BY <4>2, <4>3, PushFields DEF SameFilm
      <4>5. Flow(f.queue, FALSE, f.next, w) /\ NoSync(f.queue)
        <5>1. Flow(g.queue, FALSE, g.next, w) BY <1>1, <3>1 DEF Idle
        <5>2. NoSync(g.queue) BY <1>2, <2>1
        <5> QED BY <1>1, <4>1, <5>1, <5>2, FlowGoes
      <4>6. f.queue # <<>> => Leads(Last(f.queue), m) BY <4>2, <4>5 DEF Flow, Sent, Leads
      <4>7. f.queue = <<>> => Fits(m, w) BY <4>2, <4>5 DEF Flow, Fits
      <4>8. Sent(m, FALSE, f.next) BY <4>2 DEF Sent, After
      <4>9. f.queue \in Messages BY DEF Glue, Messages
      <4>10. Flow(Append(f.queue, m), FALSE, f.next, w)
        BY <4>2, <4>5, <4>6, <4>7, <4>8, <4>9, FlowOneMore
      <4>11. Idle' = FALSE BY <3>4 DEF Held, Idle
      <4>12. SyncInv'
        <5> DEFINE q == g'.queue
        <5>1. /\ Len(f.queue) \in Nat /\ Len(q) = Len(f.queue) + 1
              /\ \A i \in 1..Len(f.queue) : q[i] = f.queue[i]
              /\ q[Len(q)] = m
          BY <4>2, <4>4, <4>9, AppendProperties DEF Messages
        <5>2. held' # Blank BY <3>1, <3>4 DEF Taped
        <5>3. \A i \in 1..Len(q) : q[i].type = "sync" => i = Len(q)
          <6> SUFFICES ASSUME NEW i \in 1..Len(q), i # Len(q) PROVE q[i].type # "sync"
            OBVIOUS
          <6>1. i \in 1..Len(f.queue) BY <5>1
          <6> QED BY <4>5, <5>1, <6>1 DEF NoSync
        <5>4. Last(q) = m BY <5>1 DEF Last
        <5> QED BY <4>2, <5>2, <5>3, <5>4 DEF SyncInv
      <4> QED BY <3>1, <4>4, <4>10, <4>11, <4>12
    <3> QED BY <3>2, <3>3, <3>4
  <2> QED BY <1>6, <2>2, <2>3, <2>4, <2>5 DEF FrameEnd
<1>7. CASE AfterSync
  <2>1. held' = Blank /\ w' = w /\ ~Idle /\ held # Blank /\ NoSync(g.queue)
    <3>1. held # Blank BY <1>7 DEF AfterSync, Unlocked
    <3>2. NoSync(g.queue)
      <4>1. DOMAIN g.queue = 1..Len(g.queue) BY <1>1 DEF Messages
      <4> QED BY <1>7, <4>1 DEF AfterSync, NoSync
    <3> QED BY <1>7, <3>1, <3>2 DEF AfterSync, writer, TypeInv
  <2>2. g.queue = <<>>
    <3> SUFFICES ASSUME g.queue # <<>> PROVE FALSE OBVIOUS
    <3>1. g.queue \in Seq(Plain \cup Sidecar) BY <1>1 DEF Messages
    <3>2. Len(g.queue) \in Nat \ {0} /\ Last(g.queue) = g.queue[Len(g.queue)]
      BY <3>1, FrontLast
    <3>3. Len(g.queue) \in 1..Len(g.queue) BY <3>2
    <3>4. g.queue[Len(g.queue)].type = "sync" BY <1>1, <2>1, <3>2 DEF SyncInv
    <3> QED BY <2>1, <3>3, <3>4 DEF NoSync
  <2>3. \/ Ends(g, g') \/ Goes(g, g')
        \/ \E k \in Glue : TakenAgain(g, k) /\ (Ends(k, g') \/ Goes(k, g'))
    BY <1>7, AfterSyncGoes
  <2>4. CASE Ends(g, g') \/ Goes(g, g') BY <1>3, <1>4, <2>1, <2>4
  <2>5. CASE \E k \in Glue : TakenAgain(g, k) /\ (Ends(k, g') \/ Goes(k, g'))
    <3>1. PICK k \in Glue : TakenAgain(g, k) /\ (Ends(k, g') \/ Goes(k, g')) BY <2>5
    <3> DEFINE m == [type |-> "truncate", n |-> k.next]
    <3>2. m.type = "truncate" /\ m.n = k.next /\ m \in Plain \cup Sidecar BY DEF Plain, Glue
    <3>3. k.queue = Append(<<>>, m) BY <2>2, <3>1 DEF TakenAgain
    <3> HIDE DEF m
    <3>4. k.queue = <<m>> BY <3>3
    <3>5. Fits(m, w)
      <4>1. w.failed = "no" => w.parts # <<>> /\ Total(w) = g.next
        BY <1>1, <2>1, <2>2 DEF Flow
      <4>2. m.n = g.snapInfo.frame /\ g.snapInfo.frame <= g.next
            /\ ~(g.snapInfo.frame < Last(w.parts).first)
        BY <3>1, <3>2 DEF TakenAgain, Part
      <4>3. w.failed = "no" => Last(w.parts).first \in Nat
        <5>1. w.failed = "no" => Last(w.parts) \in APart
          BY <4>1, FrontLast DEF FilesInv, FilesGood
        <5> QED BY <5>1 DEF APart
      <4>4. g.snapInfo.frame \in Nat BY <1>1 DEF Glue, Point
      <4> QED BY <1>1, <3>2, <4>1, <4>2, <4>3, <4>4 DEF Fits
    <3>6. Flow(k.queue, FALSE, k.next, w) /\ NoSync(k.queue)
      <4>1. Len(k.queue) = 1 /\ k.queue[1] = m /\ Last(k.queue) = m /\ k.queue # <<>>
        BY <3>4 DEF Last
      <4>2. ~\E i \in 1..Len(k.queue) - 1 : TRUE BY <4>1
      <4>3. \A i \in 1..Len(k.queue) : i = 1 BY <4>1
      <4>4. Sent(m, FALSE, k.next) BY <3>2 DEF Sent, After
      <4> QED BY <3>2, <3>5, <4>1, <4>2, <4>3, <4>4 DEF Flow, NoSync
    <3>7. k.state # "idle" BY <2>1, <3>1 DEF TakenAgain, Idle
    <3>8. CASE Ends(k, g')
      <4>1. Idle' = TRUE BY <3>8 DEF Ends, Idle
      <4> QED BY <1>3, <2>1, <3>6, <3>8, <4>1, FlowEnds
    <3>9. CASE Goes(k, g')
      <4>1. Idle' = FALSE BY <3>7, <3>9 DEF Goes, Idle
      <4> QED BY <1>3, <2>1, <3>6, <3>9, <4>1, FlowGoes
    <3> QED BY <3>1, <3>8, <3>9
  <2> QED BY <2>3, <2>4, <2>5
<1>8. CASE PausedTurn
  <2>1. held = Blank /\ held' = held /\ w' = w
        /\ g' = (IF ~Idle /\ g.reqStop THEN Finalize(g) ELSE g)
    BY <1>8 DEF PausedTurn, Emulating, Unlocked, writer
  <2>2. CASE ~Idle /\ g.reqStop
    <3>1. Ends(g, g') BY <1>1, <2>1, <2>2, EndGoes
    <3> QED BY <1>2, <1>3, <1>4, <2>1, <2>2, <3>1
  <2>3. CASE ~(~Idle /\ g.reqStop)
    <3>1. /\ Flow(g'.queue, Idle', g'.next, w)
          /\ NoSync(g.queue) => NoSync(g'.queue)
      BY <1>5, <2>1, <2>3
    <3> QED BY <1>2, <1>3, <2>1, <3>1
  <2> QED BY <2>2, <2>3
<1>9. CASE Save
  <2>1. held = Blank /\ held' = held /\ w' = w /\ g' = g
    BY <1>9 DEF Save, Emulating, Unlocked, writer
  <2>2. /\ Flow(g'.queue, Idle', g'.next, w)
        /\ NoSync(g.queue) => NoSync(g'.queue)
    BY <1>5, <2>1
  <2> QED BY <1>2, <1>3, <2>1, <2>2
<1>10. CASE Load
  <2>1. held = Blank /\ held' = held /\ w' = w
    BY <1>10 DEF Load, Emulating, Unlocked, writer
  <2>2. OnlyFlags(g, g') BY <1>10, LoadFlags
  <2>3. /\ Flow(g'.queue, Idle', g'.next, w)
        /\ NoSync(g.queue) => NoSync(g'.queue)
    BY <1>5, <2>2 DEF OnlyFlags, SameFilm, SameRun
  <2> QED BY <1>2, <1>3, <2>1, <2>3
<1>11. CASE Exit
  <2>1. held = Blank /\ held' = held /\ w' = w
    BY <1>11 DEF Exit, Emulating, Unlocked, writer
  <2> DEFINE m == [type |-> "quit", n |-> 0]
  <2>2. m.type = "quit" /\ m \in Plain \cup Sidecar BY DEF Plain
  <2>3. Idle' = TRUE BY <1>11, ExitEnds DEF Idle
  <2>4. PICK k \in Glue : /\ (Idle /\ k = g) \/ (~Idle /\ Ends(g, k))
                          /\ g'.queue = Append(k.queue, m)
    BY <1>11, ExitEnds
  <2> HIDE DEF m
  <2>5. Flow(k.queue, TRUE, g'.next, w) /\ NoSync(k.queue)
    <3>1. CASE Idle /\ k = g
      BY <1>1, <1>2, <2>1, <3>1 DEF Flow, Sent
    <3>2. CASE ~Idle /\ Ends(g, k)
      <4>1. Flow(g.queue, FALSE, g.next, w) BY <1>1, <3>2 DEF Idle
      <4>2. NoSync(g.queue) BY <1>2, <2>1
      <4> QED BY <1>1, <3>2, <4>1, <4>2, FlowEnds
    <3> QED BY <2>4, <3>1, <3>2
  <2>6. k.queue # <<>> => Leads(Last(k.queue), m) BY <2>2, <2>5 DEF Flow, Sent, Leads
  <2>7. Fits(m, w) /\ Sent(m, TRUE, g'.next) BY <2>2 DEF Fits, Sent
  <2>8. k.queue \in Messages BY DEF Glue, Messages
  <2>9. Flow(Append(k.queue, m), TRUE, g'.next, w) /\ NoSync(Append(k.queue, m))
    BY <2>2, <2>5, <2>6, <2>7, <2>8, FlowOneMore
  <2> QED BY <1>3, <2>1, <2>3, <2>4, <2>9
<1>12. CASE Request
  <2>1. held = Blank /\ held' = held /\ w' = w
    BY <1>12 DEF Request, RequestStart, RequestStop, PauseToggle, RequestTimebase, SpeedChange,
       PauseSet, Asks, Unlocked, writer
  <2>2. OnlyFlags(g, g') BY <1>12, RequestFlags
  <2>3. /\ Flow(g'.queue, Idle', g'.next, w)
        /\ NoSync(g.queue) => NoSync(g'.queue)
    BY <1>5, <2>2 DEF OnlyFlags, SameFilm, SameRun
  <2> QED BY <1>2, <1>3, <2>1, <2>3
<1>13. CASE \E k \in 1..Len(g.pend) : Horizon(k)
  <2>1. PICK k \in 1..Len(g.pend) : Horizon(k) BY <1>13
  <2>2. held = Blank /\ held' = held /\ w' = w /\ ~Idle
    BY <2>1 DEF Horizon, Emulating, Unlocked, writer
  <2>3. Goes(g, g') BY <2>1, HorizonGoes
  <2> QED BY <1>2, <1>3, <1>4, <2>2, <2>3
<1>14. CASE \E due \in 1..MaxDue, n \in 0..MaxDue, paused \in BOOLEAN :
              n <= due /\ Tick(due, n, paused)
  <2>1. PICK due \in 1..MaxDue, n \in 0..MaxDue, paused \in BOOLEAN : Tick(due, n, paused)
    BY <1>14
  <2>2. due \in Nat /\ n \in Nat BY VideoRecAssumption
  <2>3. held = Blank /\ held' = held /\ w' = w /\ ~Idle
    BY <2>1 DEF Tick, Unlocked, writer
  <2>4. Ends(g, g') \/ Goes(g, g') BY <2>1, <2>2, TickGoes
  <2> QED BY <1>2, <1>3, <1>4, <2>3, <2>4
<1> QED BY <1>6, <1>7, <1>8, <1>9, <1>10, <1>11, <1>12, <1>13, <1>14 DEF Next

\* The last file grows or is cut.
LEMMA PartReplaced ==
  ASSUME NEW p, FilesGood(p), p # <<>>, NEW part \in APart, part.first = Last(p).first
  PROVE  LET r == Append(Front(p), part)
         IN FilesGood(r) /\ r # <<>> /\ Last(r) = part
<1> DEFINE r == Append(Front(p), part)  n == Len(p)
<1>1. p \in Seq(APart) BY DEF FilesGood
<1>2. /\ n \in Nat \ {0} /\ Last(p) = p[n] /\ Front(p) \in Seq(APart) /\ Len(Front(p)) = n - 1
      /\ \A i \in 1..n - 1 : Front(p)[i] = p[i]
  BY <1>1, FrontLast
<1>3. /\ r \in Seq(APart) /\ Len(r) = n /\ r[n] = part
      /\ \A i \in 1..n - 1 : r[i] = p[i]
  <2>1. /\ r \in Seq(APart) /\ Len(r) = Len(Front(p)) + 1 /\ r[Len(Front(p)) + 1] = part
        /\ \A i \in 1..Len(Front(p)) : r[i] = Front(p)[i]
    BY <1>2, AppendProperties
  <2> HIDE DEF r, n
  <2>2. (n - 1) + 1 = n BY <1>2
  <2> QED BY <1>2, <2>1, <2>2
<1> HIDE DEF r, n
<1>4. r # <<>> /\ Last(r) = part
  <2>1. Len(<<>>) = 0 OBVIOUS
  <2> QED BY <1>2, <1>3, <2>1 DEF Last
<1>5. \A i \in 1..n : r[i].first = p[i].first
  <2>1. \A i \in 1..n : i = n \/ i \in 1..n - 1 BY <1>2
  <2> QED BY <1>2, <1>3, <2>1
<1>6. \A i \in 1..n - 1 : p[i + 1].first = p[i].first + p[i].count
  BY <1>2 DEF FilesGood, n
<1>7. p[1].first = 0 BY DEF FilesGood
<1>8. r[1].first = 0
  <2>1. 1 \in 1..n BY <1>2
  <2> QED BY <1>5, <1>7, <2>1
<1>9. \A i \in 1..Len(r) - 1 : r[i + 1].first = r[i].first + r[i].count
  <2> SUFFICES ASSUME NEW i \in 1..n - 1 PROVE r[i + 1].first = r[i].first + r[i].count
    BY <1>3
  <2>1. i + 1 \in 1..n BY <1>2
  <2>2. r[i + 1].first = p[i + 1].first BY <1>5, <2>1
  <2>3. r[i] = p[i] BY <1>3
  <2> QED BY <1>6, <2>2, <2>3
<1> QED BY <1>3, <1>4, <1>8, <1>9 DEF FilesGood, r

\* A file begins where the last one ended.
LEMMA PartAdded ==
  ASSUME NEW p, FilesGood(p), p # <<>>, NEW part \in APart,
         part.first = Last(p).first + Last(p).count
  PROVE  LET r == Append(p, part)
         IN FilesGood(r) /\ r # <<>> /\ Last(r) = part
<1> DEFINE r == Append(p, part)  n == Len(p)
<1>1. p \in Seq(APart) BY DEF FilesGood
<1>2. n \in Nat \ {0} /\ Last(p) = p[n] BY <1>1, FrontLast
<1>3. /\ r \in Seq(APart) /\ Len(r) = n + 1 /\ r[n + 1] = part
      /\ \A i \in 1..n : r[i] = p[i]
  BY <1>1, AppendProperties
<1>4. p[1].first = 0 /\ \A i \in 1..n - 1 : p[i + 1].first = p[i].first + p[i].count
  BY DEF FilesGood
<1> HIDE DEF r, n
<1>5. r # <<>> /\ Last(r) = part
  <2>1. Len(<<>>) = 0 OBVIOUS
  <2> QED BY <1>2, <1>3, <2>1 DEF Last
<1>6. r[1].first = 0
  <2>1. 1 \in 1..n BY <1>2
  <2> QED BY <1>3, <1>4, <2>1
<1>7. \A i \in 1..Len(r) - 1 : r[i + 1].first = r[i].first + r[i].count
  <2> SUFFICES ASSUME NEW i \in 1..n PROVE r[i + 1].first = r[i].first + r[i].count
    BY <1>2, <1>3
  <2>1. CASE i = n BY <1>2, <1>3, <2>1
  <2>2. CASE i # n
    <3>1. i \in 1..n - 1 /\ i + 1 \in 1..n BY <1>2, <2>2
    <3> QED BY <1>3, <1>4, <3>1
  <2> QED BY <2>1, <2>2
<1> QED BY <1>3, <1>5, <1>6, <1>7 DEF FilesGood, r

\* The files before the last one are good files.
LEMMA PartDropped ==
  ASSUME NEW p, FilesGood(p), Len(p) > 1
  PROVE  FilesGood(Front(p)) /\ Front(p) # <<>>
<1> DEFINE r == Front(p)  n == Len(p)
<1>1. p \in Seq(APart) /\ p # <<>>
  <2>1. Len(<<>>) = 0 OBVIOUS
  <2> QED BY <2>1 DEF FilesGood
<1>2. /\ n \in Nat /\ n > 1 /\ r \in Seq(APart) /\ Len(r) = n - 1
      /\ \A i \in 1..n - 1 : r[i] = p[i]
  BY <1>1, FrontLast
<1>3. p[1].first = 0 /\ \A i \in 1..n - 1 : p[i + 1].first = p[i].first + p[i].count
  BY <1>1 DEF FilesGood
<1> HIDE DEF r, n
<1>4. 1 \in 1..n - 1 BY <1>2
<1>5. \A i \in 1..Len(r) - 1 : i \in 1..n - 1 /\ i + 1 \in 1..n - 1 BY <1>2
<1>6. r # <<>>
  <2>1. Len(<<>>) = 0 OBVIOUS
  <2> QED BY <1>2, <2>1
<1> QED BY <1>2, <1>3, <1>4, <1>5, <1>6 DEF FilesGood, r

\* The message is done: the next one goes on from it.
LEMMA FlowTail ==
  ASSUME NEW q \in Messages, q # <<>>, NEW idle, NEW n, NEW v, NEW u, Flow(q, idle, n, v),
         q[1].type \in {"open", "frame", "truncate", "sync"} /\ u.failed = "no" =>
           u.parts # <<>> /\ Total(u) = After(q[1])
  PROVE  Flow(Tail(q), idle, n, u)
<1> DEFINE t == Tail(q)  l == Len(q)
<1>1. /\ l \in Nat \ {0} /\ t \in Messages /\ Len(t) = l - 1
      /\ \A i \in 1..l - 1 : t[i] = q[i + 1]
  BY EmptySeq, HeadTailProperties DEF Messages
<1>2. Last(q) = q[l] BY DEF Last
<1>3. /\ \A i \in 1..l - 1 : Leads(q[i], q[i + 1])
      /\ \A i \in 1..l : q[i].type = "truncate" => i = 1
      /\ Sent(q[l], idle, n)
  BY <1>2 DEF Flow
<1> HIDE DEF t, l
<1>4. \A i \in 1..Len(t) - 1 : Leads(t[i], t[i + 1])
  <2> SUFFICES ASSUME NEW i \in 1..(l - 1) - 1 PROVE Leads(t[i], t[i + 1]) BY <1>1
  <2>1. i \in 1..l - 1 /\ i + 1 \in 1..l - 1 BY <1>1
  <2> QED BY <1>1, <1>3, <2>1
<1>5. \A i \in 1..Len(t) : t[i].type # "truncate"
  <2> SUFFICES ASSUME NEW i \in 1..l - 1 PROVE t[i].type # "truncate" BY <1>1
  <2>1. i + 1 \in 1..l /\ i + 1 # 1 BY <1>1
  <2> QED BY <1>1, <1>3, <2>1
<1>6. CASE l = 1
  <2>1. t = <<>> BY <1>1, <1>6, EmptySeq DEF Messages
  <2>2. ~idle => q[1].type \in {"open", "frame", "truncate", "sync"} /\ After(q[1]) = n
    BY <1>3, <1>6 DEF Sent
  <2> QED BY <1>4, <1>5, <2>1, <2>2 DEF Flow, t
<1>7. CASE l # 1
  <2>1. 1 \in 1..l - 1 /\ l - 1 \in 1..l - 1 /\ (l - 1) + 1 = l /\ Len(t) # 0 /\ 1 \in 1..Len(t)
    BY <1>1, <1>7
  <2>2. t # <<>> /\ t[1] = q[2] /\ Last(t) = q[l]
    <3>1. Len(<<>>) = 0 OBVIOUS
    <3>2. t[1] = q[1 + 1] BY <1>1, <2>1
    <3>3. t[l - 1] = q[(l - 1) + 1] BY <1>1, <2>1
    <3> QED BY <1>1, <2>1, <3>1, <3>2, <3>3 DEF Last
  <2>3. Leads(q[1], t[1])
    <3>1. Leads(q[1], q[1 + 1]) BY <1>3, <2>1
    <3> QED BY <2>2, <3>1
  <2>4. t[1].type # "truncate" BY <1>5, <2>1
  <2>5. Fits(t[1], u) BY <2>3, <2>4 DEF Fits, Leads
  <2> QED BY <1>3, <1>4, <1>5, <2>2, <2>5 DEF Flow, t
<1> QED BY <1>6, <1>7

\* What the writer makes of a message.
LEMMA WriterFiles ==
  ASSUME TypeInv, FilesInv, Writer
  PROVE  /\ FilesGood(w'.parts) /\ w'.failed # "truncate"
         /\ Message.type \in {"open", "frame", "truncate", "sync"} /\ w'.failed = "no" =>
              w'.parts # <<>> /\ Total(w') = After(Message)
<1> DEFINE m == Message  p == w.parts
<1>1. /\ WriterTakes /\ g.queue # <<>> /\ m = g.queue[1] /\ m \in Plain \cup Sidecar
      /\ FilesGood(p) /\ w.failed \in {"no", "io"}
      /\ w = [session |-> w.session, parts |-> w.parts, failed |-> w.failed]
  <2>1. WriterTakes BY WriterNext
  <2>2. m \in Plain \cup Sidecar /\ g.queue # <<>> BY <2>1, WriterGlue DEF WriterTakes
  <2>3. w.failed \in {"no", "io"} BY DEF FilesInv, TypeInv
  <2> QED BY <2>1, <2>2, <2>3 DEF Message, Head, FilesInv, TypeInv
<1>2. Fits(m, w) BY <1>1 DEF FilesInv, Flow
<1> HIDE DEF m
<1>3. \A v : Errs(v) => w' = [v EXCEPT !.failed = IF @ = "no" THEN "io" ELSE @]
  BY DEF Errs, Fails
<1>4. \A v : Becomes(v) => w' = v BY DEF Becomes
<1>5. p # <<>> => /\ Part \in APart /\ Part = Last(p)
                  /\ Part.first \in Nat /\ Part.count \in Nat
  <2>1. p \in Seq(APart) BY <1>1 DEF FilesGood
  <2>2. p # <<>> => Last(p) \in APart BY <2>1, FrontLast
  <2> QED BY <2>2 DEF Part, APart
<1>6. Errs(w) => w'.parts = p /\ w'.failed = "io" BY <1>1, <1>3
<1>7. m.type \in {"frame", "truncate"} => m.n \in Nat BY <1>1 DEF Plain, Sidecar, Opening
<1>8. CASE WriteOpen
  <2> DEFINE e == [first |-> 0, count |-> 0]
  <2>1. w'.parts = <<e>> /\ w'.failed \in {"no", "io"} /\ m.type = "open"
    BY <1>4, <1>8 DEF WriteOpen, Taken, m
  <2>2. e \in APart /\ e.first = 0 /\ e.count = 0 BY DEF APart
  <2> HIDE DEF e
  <2>3. <<e>> \in Seq(APart) /\ Len(<<e>>) = 1 /\ <<e>>[1] = e /\ <<e>> # <<>> /\ Last(<<e>>) = e
    BY <2>2 DEF Last
  <2>4. FilesGood(<<e>>)
    <3>1. ~\E i \in 1..Len(<<e>>) - 1 : TRUE BY <2>3
    <3> QED BY <2>2, <2>3, <3>1 DEF FilesGood
  <2>5. Total(w') = 0 BY <2>1, <2>2, <2>3 DEF Total
  <2>6. After(m) = 0 BY <2>1 DEF After
  <2>7. w'.parts # <<>> BY <2>1, <2>3
  <2>8. FilesGood(w'.parts) /\ w'.failed # "truncate" BY <2>1, <2>4
  <2> QED BY <2>5, <2>6, <2>7, <2>8 DEF m
<1>9. CASE WriteFrame
  <2>1. m.type = "frame" /\ After(m) = m.n + 1 /\ m.n \in Nat
    BY <1>7, <1>9 DEF WriteFrame, Taken, m, After
  <2>2. CASE w.failed # "no"
    <3>1. w' = w BY <1>4, <1>9, <2>2 DEF WriteFrame
    <3> QED BY <1>1, <2>2, <3>1
  <2>3. CASE w.failed = "no"
    <3>1. p # <<>> /\ Part.first + Part.count = m.n
      BY <1>2, <1>5, <2>1, <2>3 DEF Fits, Total
    <3>2. CASE Errs(w) BY <1>1, <1>6, <3>2
    <3>3. CASE Becomes(WithPart([Part EXCEPT !.count = @ + 1]))
      <4> DEFINE e == [Part EXCEPT !.count = @ + 1]
      <4>1. e \in APart /\ e.first = Part.first /\ e.count = Part.count + 1
        BY <1>5, <3>1 DEF APart
      <4>2. w'.parts = Append(Front(p), e) /\ w'.failed = w.failed
        BY <1>1, <1>4, <3>3 DEF WithPart
      <4> HIDE DEF e
      <4>3. FilesGood(w'.parts) /\ w'.parts # <<>> /\ Last(w'.parts) = e
        BY <1>1, <1>5, <3>1, <4>1, <4>2, PartReplaced
      <4>4. Total(w') = m.n + 1
        BY <1>5, <3>1, <4>1, <4>3 DEF Total
      <4> QED BY <2>1, <2>3, <4>2, <4>3, <4>4 DEF m
    <3>4. CASE Becomes([w EXCEPT !.parts = Append(@, [first |-> Message.n, count |-> 1])])
      <4> DEFINE e == [first |-> m.n, count |-> 1]
      <4>1. e \in APart /\ e.first = m.n /\ e.count = 1 BY <2>1 DEF APart
      <4>2. w'.parts = Append(p, e) /\ w'.failed = w.failed
        BY <1>1, <1>4, <3>4 DEF m
      <4> HIDE DEF e
      <4>3. FilesGood(w'.parts) /\ w'.parts # <<>> /\ Last(w'.parts) = e
        BY <1>1, <1>5, <3>1, <4>1, <4>2, PartAdded
      <4>4. Total(w') = m.n + 1 BY <4>1, <4>3 DEF Total
      <4> QED BY <2>1, <2>3, <4>2, <4>3, <4>4 DEF m
    <3> QED BY <1>9, <2>3, <3>2, <3>3, <3>4 DEF WriteFrame
  <2> QED BY <2>2, <2>3 DEF m
<1>10. CASE WriteTruncate
  <2>1. m.type = "truncate" /\ After(m) = m.n /\ m.n \in Nat
    BY <1>7, <1>10 DEF WriteTruncate, Taken, m, After
  <2>2. CASE w.failed # "no"
    <3>1. w' = w BY <1>4, <1>10, <2>2 DEF WriteTruncate
    <3> QED BY <1>1, <2>2, <3>1
  <2>3. CASE w.failed = "no"
    <3>1. p # <<>> /\ Part.first <= m.n /\ m.n <= Part.first + Part.count
      BY <1>2, <1>5, <2>1, <2>3 DEF Fits, Total
    <3>2. ~(m.n < Part.first \/ m.n > Part.first + Part.count) BY <1>5, <2>1, <3>1
    <3>3. CASE Errs(w) BY <1>1, <1>6, <3>3
    <3>4. CASE Becomes(WithPart([Part EXCEPT !.count = Message.n - Part.first]))
      <4> DEFINE e == [Part EXCEPT !.count = m.n - Part.first]
      <4>1. m.n - Part.first \in Nat BY <1>5, <2>1, <3>1
      <4>2. e \in APart /\ e.first = Part.first /\ e.count = m.n - Part.first
        BY <1>5, <3>1, <4>1 DEF APart
      <4>3. w'.parts = Append(Front(p), e) /\ w'.failed = w.failed
        BY <1>1, <1>4, <3>4 DEF WithPart, m
      <4> HIDE DEF e
      <4>4. FilesGood(w'.parts) /\ w'.parts # <<>> /\ Last(w'.parts) = e
        BY <1>1, <1>5, <3>1, <4>2, <4>3, PartReplaced
      <4>5. Total(w') = m.n
        BY <1>5, <2>1, <3>1, <4>2, <4>4 DEF Total
      <4> QED BY <2>1, <2>3, <4>3, <4>4, <4>5 DEF m
    <3> QED BY <1>10, <2>3, <3>2, <3>3, <3>4 DEF WriteTruncate, m
  <2> QED BY <2>2, <2>3 DEF m
<1>11. CASE WriteSidecar
  <2>1. m.type = "sidecar" BY <1>11 DEF WriteSidecar, Taken, m
  <2> DEFINE v == DropEmptyPart(w)
  <2>2. FilesGood(v.parts) /\ v.failed = w.failed
        /\ v = [session |-> v.session, parts |-> v.parts, failed |-> v.failed]
    <3>1. CASE Len(w.parts) > 1 /\ Last(w.parts).count = 0
      BY <1>1, <3>1, PartDropped DEF DropEmptyPart
    <3>2. CASE ~(Len(w.parts) > 1 /\ Last(w.parts).count = 0)
      BY <1>1, <3>2 DEF DropEmptyPart
    <3> QED BY <3>1, <3>2
  <2> HIDE DEF v
  <2>3. Becomes(v) \/ Errs(v) BY <1>11 DEF WriteSidecar, v
  <2>4. w'.parts = v.parts /\ w'.failed \in {"no", "io"}
    BY <1>1, <1>3, <1>4, <2>2, <2>3
  <2> QED BY <2>1, <2>2, <2>4 DEF m
<1>12. CASE WriteClose
  <2>1. w' = Closed /\ m.type \in {"close", "quit"} BY <1>12 DEF WriteClose, Taken, m
  <2>2. FilesGood(<<>>) BY EmptySeq DEF FilesGood
  <2> QED BY <2>1, <2>2 DEF Closed, m
<1>13. CASE WriteSync
  <2>1. w' = w /\ m.type = "sync" /\ After(m) = m.n
    BY <1>13 DEF WriteSync, Taken, m, writer, After
  <2>2. w.failed = "no" => p # <<>> /\ Total(w) = m.n BY <1>2, <2>1 DEF Fits
  <2> QED BY <1>1, <2>1, <2>2 DEF m
<1> QED BY <1>8, <1>9, <1>10, <1>11, <1>12, <1>13 DEF Writer

LEMMA FilesWriterNext ==
  ASSUME TypeInv, FilesInv, Writer
  PROVE  FilesInv'
<1> DEFINE q == g.queue  t == Tail(q)
<1>1. WriterTakes /\ q # <<>> BY WriterNext DEF WriterTakes
<1>2. g'.queue = t /\ Idle' = Idle /\ g'.next = g.next /\ held' = held /\ q \in Messages
      /\ Message = q[1]
  BY <1>1, WriterGlue DEF WriterTakes, SameRun, SameFilm, Idle, TypeInv, Shape, Glue, Messages,
     Message, Head
<1>3. /\ FilesGood(w'.parts) /\ w'.failed # "truncate"
      /\ q[1].type \in {"open", "frame", "truncate", "sync"} /\ w'.failed = "no" =>
           w'.parts # <<>> /\ Total(w') = After(q[1])
  BY <1>2, WriterFiles
<1>4. Flow(q, Idle, g.next, w) BY DEF FilesInv
<1>5. Flow(t, Idle, g.next, w') BY <1>1, <1>2, <1>3, <1>4, FlowTail
<1>6. SyncInv'
  <2>1. /\ Len(q) \in Nat /\ Len(t) = Len(q) - 1
        /\ \A i \in 1..Len(q) - 1 : t[i] = q[i + 1]
    BY <1>1, <1>2, EmptySeq, HeadTailProperties DEF Messages
  <2>2. /\ \A i \in 1..Len(q) : q[i].type = "sync" => i = Len(q) /\ held # Blank
        /\ held # Blank => Last(q).type = "sync"
    BY <1>1 DEF FilesInv, SyncInv
  <2> HIDE DEF q, t
  <2>3. \A i \in 1..Len(t) : t[i].type = "sync" => i = Len(t) /\ held # Blank
    <3> SUFFICES ASSUME NEW i \in 1..Len(q) - 1, q[i + 1].type = "sync"
                 PROVE i = Len(q) - 1 /\ held # Blank
      BY <2>1
    <3>1. i + 1 \in 1..Len(q) BY <2>1
    <3>2. i + 1 = Len(q) /\ held # Blank BY <2>2, <3>1
    <3> QED BY <2>1, <3>2
  <2>4. held # Blank /\ t # <<>> => Last(t).type = "sync"
    <3> SUFFICES ASSUME held # Blank, t # <<>> PROVE Last(t).type = "sync" OBVIOUS
    <3>1. t \in Messages BY <1>1, <1>2, HeadTailProperties DEF Messages, t, q
    <3>2. Len(t) # 0 BY <3>1, EmptySeq DEF Messages
    <3>3. Len(t) \in 1..Len(q) - 1 /\ Len(t) + 1 = Len(q) BY <2>1, <3>2
    <3>4. Last(t) = Last(q)
      <4>1. t[Len(t)] = q[Len(t) + 1] BY <2>1, <3>3
      <4> QED BY <3>3, <4>1 DEF Last
    <3> QED BY <2>2, <3>4
  <2> QED BY <1>2, <2>3, <2>4 DEF SyncInv
<1> QED BY <1>2, <1>3, <1>5, <1>6 DEF FilesInv

\* No message and no file at the start.
LEMMA FilesInit ==
  ASSUME Init
  PROVE  FilesInv
<1>1. g.queue = <<>> /\ Idle /\ w.parts = <<>> /\ w.failed = "no" /\ held = Blank
  BY DEF Init, NoSession, Idle, Closed
<1>2. Len(<<>>) = 0 /\ 1..0 = {} /\ 1..0 - 1 = {} OBVIOUS
<1>3. FilesGood(<<>>) BY EmptySeq DEF FilesGood
<1> QED BY <1>1, <1>2, <1>3 DEF FilesInv, Flow, SyncInv

\* Every step keeps the messages in order and the files complete.
LEMMA FilesNext ==
  ASSUME TypeInv, FilesInv, [Next]_vars
  PROVE  FilesInv'
<1>1. CASE Next /\ ~Writer
  <2>1. Flow(g'.queue, Idle', g'.next, w) /\ SyncInv' /\ w' = w BY <1>1, FilesGlueNext
  <2> QED BY <2>1 DEF FilesInv
<1>2. CASE Writer BY <1>2, FilesWriterNext
<1>3. CASE UNCHANGED vars
  BY <1>3 DEF vars, writer, FilesInv, SyncInv, Idle
<1> QED BY <1>1, <1>2, <1>3

FilesSaved ==
  g.queue # <<>> /\ Message.type = "sidecar" /\ w.failed # "io" =>
    w.failed = "no" /\ FilesTrue(w.parts, Message.n)

\* Messages in order leave complete files.
LEMMA FilesInvSaved ==
  ASSUME TypeInv, FilesInv
  PROVE  FilesSaved
<1> SUFFICES ASSUME g.queue # <<>>, Message.type = "sidecar", w.failed # "io"
             PROVE w.failed = "no" /\ FilesTrue(w.parts, Message.n)
  BY DEF FilesSaved
<1>1. w.failed = "no" BY DEF FilesInv, TypeInv
<1>2. Message = g.queue[1] BY DEF Message, Head
<1>3. Fits(Message, w) BY <1>2 DEF FilesInv, Flow
<1>4. w.parts # <<>> /\ Total(w) = Message.n BY <1>1, <1>3 DEF Fits
<1> QED BY <1>1, <1>4 DEF FilesInv, FilesGood, FilesTrue, Total

\* When the writer saves the cuts and nothing failed, its files hold the frames
\* the glue has counted, end to end: no retake asked for a point before its
\* present file, with any number of files, retakes and recordings, and with a
\* limit or without.
THEOREM FilesComplete == Spec => []FilesSaved
<1>1. Init => TypeInv /\ FilesInv BY TypeInit, FilesInit
<1>2. TypeInv /\ FilesInv /\ [Next]_vars => (TypeInv /\ FilesInv)' BY TypeNext, FilesNext
<1>3. TypeInv /\ FilesInv => FilesSaved BY FilesInvSaved
<1> QED BY <1>1, <1>2, <1>3, PTL DEF Spec

-----------------------------------------------------------------------------
(* The segments are the recording cut in pieces, and so they are saved. *)

LEMMA SavedJoins ==
  ASSUME NEW q \in Messages, NEW s \in Messages, Saved(q), Saved(s)
  PROVE  Saved(q \o s)
<1> DEFINE t == q \o s
<1>1. /\ Len(q) \in Nat /\ Len(s) \in Nat /\ Len(t) = Len(q) + Len(s)
      /\ \A i \in 1..Len(t) : t[i] = IF i <= Len(q) THEN q[i] ELSE s[i - Len(q)]
  BY ConcatProperties DEF Messages
<1> HIDE DEF t
<1> SUFFICES ASSUME NEW i \in 1..Len(t), t[i].type = "sidecar"
             PROVE  SegmentsTrue(t[i].segs, t[i].n)
  BY DEF Saved, t
<1>2. CASE i <= Len(q)
  <2>1. i \in 1..Len(q) /\ t[i] = q[i] BY <1>1, <1>2
  <2> QED BY <2>1 DEF Saved
<1>3. CASE ~(i <= Len(q))
  <2>1. i - Len(q) \in 1..Len(s) /\ t[i] = s[i - Len(q)] BY <1>1, <1>3
  <2> QED BY <2>1 DEF Saved
<1> QED BY <1>2, <1>3

LEMMA SavedOneMore ==
  ASSUME NEW q \in Messages, NEW m \in Plain \cup Sidecar, Saved(q), m.type # "sidecar"
  PROVE  Saved(Append(q, m))
<1> DEFINE s == <<m>>
<1>1. s \in Messages /\ Len(s) = 1 /\ s[1] = m BY DEF Messages
<1>2. Append(q, m) = q \o s BY AppendIsConcat DEF Messages
<1> HIDE DEF s
<1>3. Saved(s) BY <1>1 DEF Saved
<1> QED BY <1>1, <1>2, <1>3, SavedJoins

LEMMA SavedWrote ==
  ASSUME NEW h \in Glue, NEW k, Wrote(h, k), k.next \in Nat, Saved(h.queue)
  PROVE  Saved(k.queue)
<1>1. h.queue \in Messages /\ h.next \in Nat /\ k.next >= h.next BY DEF Glue, Messages, Wrote
<1>2. PICK b \in Nat : b = k.next - h.next BY <1>1
<1> DEFINE s == FrameMessages(h.next, b)
<1>3. s \in Messages /\ Len(s) = b BY <1>1, MessagesTyped DEF Messages
<1>4. \A i \in 1..b : s[i].type = "frame" BY DEF FrameMessages
<1>5. k.queue = h.queue \o s BY <1>2 DEF Wrote
<1> HIDE DEF s
<1>6. Saved(s) BY <1>3, <1>4 DEF Saved
<1> QED BY <1>1, <1>3, <1>5, <1>6, SavedJoins

LEMMA SavedEnds ==
  ASSUME NEW h \in Glue, NEW k, Ends(h, k), Saved(h.queue), SegsRight(h), Limit = 0
  PROVE  Saved(k.queue)
<1>1. PICK d \in Glue, c \in Seq(Segment) :
        /\ Wrote(h, d)
        /\ k.queue = d.queue \o << [type |-> "sidecar", n |-> d.next, segs |-> c],
                                   [type |-> "close", n |-> 0] >>
        /\ SegmentsTrue(c, d.next)
  BY DEF Ends, Finalized
<1> DEFINE a == [type |-> "sidecar", n |-> d.next, segs |-> c]
           z == [type |-> "close", n |-> 0]
           s == << a, z >>
<1>2. a \in Plain \cup Sidecar /\ z \in Plain \cup Sidecar BY DEF Sidecar, Plain, Glue
<1>3. a.segs = c /\ a.n = d.next /\ z.type = "close" OBVIOUS
<1>4. k.queue = d.queue \o s BY <1>1
<1> HIDE DEF a, z
<1>5. s \in Messages /\ Len(s) = 2 /\ s[1] = a /\ s[2] = z BY <1>2 DEF Messages
<1> HIDE DEF s
<1>6. Saved(s)
  <2>1. \A i \in 1..Len(s) : i = 1 \/ i = 2 BY <1>5
  <2>2. SegmentsTrue(a.segs, a.n) BY <1>1, <1>3
  <2> QED BY <1>3, <1>5, <2>1, <2>2 DEF Saved
<1>7. d.queue \in Messages /\ d.next \in Nat BY DEF Glue, Messages
<1>8. Saved(d.queue) BY <1>1, <1>7, SavedWrote
<1> QED BY <1>4, <1>5, <1>6, <1>7, <1>8, SavedJoins

LEMMA SegsStay ==
  ASSUME NEW h \in Glue, NEW k \in Glue, SameRun(h, k), SameFilm(h, k), SameSegs(h, k),
         SameTime(h, k)
  PROVE  SegsRight(h) => SegsRight(k)
<1>1. Count(k) = Count(h) BY DEF SameFilm, Count
<1>2. Pos(k) = Pos(h) BY <1>1 DEF Pos, SameRun, SameTime
<1> QED BY <1>2 DEF SegsRight, SameSegs, SameRun

LEMMA SegsGo ==
  ASSUME NEW h \in Glue, NEW k, Goes(h, k), SegsRight(h)
  PROVE  k \in Glue /\ SegsRight(k) /\ (Saved(h.queue) => Saved(k.queue))
<1>1. k \in Glue /\ k.next \in Nat BY DEF Goes, Glue
<1> QED BY <1>1, SavedWrote DEF Goes, SegStep

\* What a step does to the segments, those to be saved among them.
SegOutcome == (~Idle' => SegsRight(g')) /\ (Limit = 0 /\ Saved(g.queue) => Saved(g'.queue))

LEMMA SegNext ==
  ASSUME TypeInv, SegInv, [Next]_vars
  PROVE  SegOutcome
<1>1. Shape(g) /\ g \in Glue /\ g.queue \in Messages
  BY DEF TypeInv, Shape, Glue, Messages
<1>2. ASSUME ~Idle, Goes(g, g') \/ Ends(g, g') PROVE SegOutcome
  <2>1. SegsRight(g) BY <1>2 DEF SegInv
  <2>2. CASE Goes(g, g') BY <1>1, <2>1, <2>2, SegsGo DEF SegOutcome
  <2>3. CASE Ends(g, g')
    <3>1. Idle' BY <2>3 DEF Ends, Idle
    <3> QED BY <1>1, <2>1, <2>3, <3>1, SavedEnds DEF SegOutcome
  <2> QED BY <1>2, <2>2, <2>3
<1>3. ASSUME OnlyFlags(g, g'), Goes(g, g') PROVE SegOutcome
  <2>1. CASE ~Idle BY <1>2, <1>3, <2>1
  <2>2. CASE Idle
    <3>1. Idle' BY <1>3, <2>2 DEF Idle, OnlyFlags, SameRun
    <3> QED BY <1>3, <3>1 DEF SegOutcome, OnlyFlags
  <2> QED BY <2>1, <2>2
<1>4. ASSUME g' = g PROVE SegOutcome BY <1>4 DEF SegOutcome, SegInv, Idle
<1>5. CASE FrameEnd
  <2>1. held = Blank /\ NextFrame /\ (Idle => g.session < MaxSessions)
    BY <1>5 DEF FrameEnd, Emulating, Unlocked
  <2>2. CASE FrameIgnored BY <1>4, <2>2 DEF FrameIgnored
  <2>3. CASE FrameIdle
    <3>1. OnlyAsked(g, g') \/ Begins(g, g')
      BY <2>1, <2>3, FrameIdleBegins DEF FrameIdle
    <3>2. CASE OnlyAsked(g, g')
      <4>1. Idle' BY <2>3, <3>2 DEF FrameIdle, Idle, OnlyAsked, SameRun
      <4> QED BY <3>2, <4>1 DEF OnlyAsked, SegOutcome
    <3>3. CASE Begins(g, g')
      <4> DEFINE m == [type |-> "open", n |-> g'.session]
      <4>1. m \in Plain \cup Sidecar
        <5>1. g'.session \in 0..MaxSessions BY <3>3 DEF Begins, Glue
        <5> QED BY <5>1 DEF Plain, Opening
      <4>2. m.type # "sidecar" OBVIOUS
      <4>3. g'.queue = Append(g.queue, m) /\ SegsRight(g') BY <3>3 DEF Begins
      <4> HIDE DEF m
      <4> QED BY <1>1, <4>1, <4>2, <4>3, SavedOneMore DEF SegOutcome
    <3> QED BY <3>1, <3>2, <3>3
  <2>4. CASE FrameSampled BY <1>3, <2>4, FrameSampledFlags
  <2>5. CASE FrameEmulated
    <3>1. ~Idle /\ ThisFrame \in Taped
      BY <2>1, <2>5, FrameTyped DEF FrameEmulated
    <3>2. \/ Ends(g, g') \/ Goes(g, g')
          \/ \E f \in Glue : Goes(g, f) /\ g' = Push(f, [type |-> "sync", n |-> f.next])
      BY <2>1, <2>5, <3>1, FrameEmulatedGoes DEF Unlocked
    <3>3. CASE Ends(g, g') \/ Goes(g, g') BY <1>2, <3>1, <3>3
    <3>4. CASE \E f \in Glue : Goes(g, f) /\ g' = Push(f, [type |-> "sync", n |-> f.next])
      <4>1. PICK f \in Glue : Goes(g, f) /\ g' = Push(f, [type |-> "sync", n |-> f.next])
        BY <3>4
      <4> DEFINE m == [type |-> "sync", n |-> f.next]
      <4>2. m \in Plain \cup Sidecar /\ m.type # "sidecar" BY DEF Plain, Glue
      <4> HIDE DEF m
      <4>3. g' = Push(f, m) BY <4>1 DEF m
      <4>4. /\ g' \in Glue /\ g'.queue = Append(f.queue, m)
            /\ SameRun(f, g') /\ SameFilm(f, g') /\ SameSegs(f, g') /\ SameTime(f, g')
        BY <4>2, <4>3, PushFields
      <4>5. SegsRight(g) BY <3>1 DEF SegInv
      <4>6. SegsRight(f) /\ (Saved(g.queue) => Saved(f.queue)) BY <1>1, <4>1, <4>5, SegsGo
      <4>7. f.queue \in Messages BY DEF Glue, Messages
      <4> QED BY <4>2, <4>4, <4>6, <4>7, SegsStay, SavedOneMore DEF SegOutcome
    <3> QED BY <3>2, <3>3, <3>4
  <2> QED BY <1>5, <2>2, <2>3, <2>4, <2>5 DEF FrameEnd
<1>6. CASE AfterSync
  <2>1. ~Idle BY <1>6 DEF AfterSync, Unlocked, TypeInv
  <2>2. \/ Ends(g, g') \/ Goes(g, g')
        \/ \E k \in Glue : TakenAgain(g, k) /\ (Ends(k, g') \/ Goes(k, g'))
    BY <1>6, AfterSyncGoes
  <2>3. CASE Ends(g, g') \/ Goes(g, g') BY <1>2, <2>1, <2>3
  <2>4. CASE \E k \in Glue : TakenAgain(g, k) /\ (Ends(k, g') \/ Goes(k, g'))
    <3>1. PICK k \in Glue : TakenAgain(g, k) /\ (Ends(k, g') \/ Goes(k, g')) BY <2>4
    <3>2. SegsRight(k) BY <2>1, <3>1 DEF SegInv, TakenAgain
    <3> DEFINE m == [type |-> "truncate", n |-> k.next]
    <3>3. m \in Plain \cup Sidecar /\ m.type # "sidecar" BY DEF Plain, Glue
    <3>4. k.queue = Append(g.queue, m) BY <3>1 DEF TakenAgain
    <3> HIDE DEF m
    <3>5. Saved(g.queue) => Saved(k.queue) BY <1>1, <3>3, <3>4, SavedOneMore
    <3>6. CASE Goes(k, g') BY <3>2, <3>5, <3>6, SegsGo DEF SegOutcome
    <3>7. CASE Ends(k, g')
      <4>1. Idle' BY <3>7 DEF Ends, Idle
      <4> QED BY <3>2, <3>5, <3>7, <4>1, SavedEnds DEF SegOutcome
    <3> QED BY <3>1, <3>6, <3>7
  <2> QED BY <2>2, <2>3, <2>4
<1>7. CASE PausedTurn
  <2>1. g' = (IF ~Idle /\ g.reqStop THEN Finalize(g) ELSE g) BY <1>7 DEF PausedTurn
  <2>2. CASE ~Idle /\ g.reqStop
    <3>1. Ends(g, g') BY <1>1, <2>1, <2>2, EndGoes
    <3> QED BY <1>2, <2>2, <3>1
  <2>3. CASE ~(~Idle /\ g.reqStop) BY <1>4, <2>1, <2>3
  <2> QED BY <2>2, <2>3
<1>8. CASE Save BY <1>4, <1>8 DEF Save
<1>9. CASE Load BY <1>3, <1>9, LoadFlags
<1>10. CASE Exit
  <2> DEFINE m == [type |-> "quit", n |-> 0]
  <2>1. m \in Plain \cup Sidecar /\ m.type # "sidecar" BY DEF Plain
  <2>2. Idle' BY <1>10, ExitEnds DEF Idle
  <2>3. PICK k \in Glue : /\ (Idle /\ k = g) \/ (~Idle /\ Ends(g, k))
                          /\ g'.queue = Append(k.queue, m)
    BY <1>10, ExitEnds
  <2> HIDE DEF m
  <2>4. Limit = 0 /\ Saved(g.queue) => Saved(k.queue)
    BY <1>1, <2>3, SavedEnds DEF SegInv
  <2>5. k.queue \in Messages BY DEF Glue, Messages
  <2> QED BY <2>1, <2>2, <2>3, <2>4, <2>5, SavedOneMore DEF SegOutcome
<1>11. CASE Request BY <1>3, <1>11, RequestFlags
<1>12. CASE Writer
  <2>1. WriterTakes BY <1>12, WriterNext
  <2>2. /\ g' \in Glue /\ g'.queue = Tail(g.queue)
        /\ SameRun(g, g') /\ SameFilm(g, g') /\ SameSegs(g, g') /\ SameTime(g, g')
    BY <2>1, WriterGlue
  <2>3. SegsRight(g) => SegsRight(g') BY <1>1, <2>2, SegsStay
  <2>4. ~Idle' => ~Idle BY <2>2 DEF SameRun, Idle
  <2>5. Saved(g.queue) => Saved(Tail(g.queue))
    <3> DEFINE q == g.queue  t == Tail(q)
    <3>1. /\ Len(q) \in Nat /\ Len(t) = Len(q) - 1
          /\ \A i \in 1..Len(q) - 1 : t[i] = q[i + 1]
      BY <1>1, <2>1, EmptySeq, HeadTailProperties DEF Messages, WriterTakes
    <3> HIDE DEF q, t
    <3> SUFFICES ASSUME Saved(q) PROVE Saved(t) BY DEF q, t
    <3>2. \A i \in 1..Len(t) : i + 1 \in 1..Len(q) /\ t[i] = q[i + 1] BY <3>1
    <3> QED BY <3>2 DEF Saved
  <2> QED BY <2>2, <2>3, <2>4, <2>5 DEF SegOutcome, SegInv
<1>13. CASE \E k \in 1..Len(g.pend) : Horizon(k)
  <2>1. PICK k \in 1..Len(g.pend) : Horizon(k) BY <1>13
  <2>2. ~Idle /\ Goes(g, g') BY <2>1, HorizonGoes DEF Horizon
  <2> QED BY <1>2, <2>2
<1>14. CASE \E due \in 1..MaxDue, n \in 0..MaxDue, paused \in BOOLEAN :
              n <= due /\ Tick(due, n, paused)
  <2>1. PICK due \in 1..MaxDue, n \in 0..MaxDue, paused \in BOOLEAN : Tick(due, n, paused)
    BY <1>14
  <2>2. due \in Nat /\ n \in Nat BY VideoRecAssumption
  <2>3. ~Idle BY <2>1 DEF Tick
  <2>4. Ends(g, g') \/ Goes(g, g') BY <2>1, <2>2, TickGoes
  <2> QED BY <1>2, <2>3, <2>4
<1>15. CASE UNCHANGED vars BY <1>4, <1>15 DEF vars
<1> QED BY <1>5, <1>6, <1>7, <1>8, <1>9, <1>10, <1>11, <1>12, <1>13, <1>14, <1>15 DEF Next

\* Between the cuts the segments cover the recording without a gap, up to where
\* the picture on the screen will be, and one is open exactly while it records.
THEOREM SegmentsCover == Spec => []SegInv
<1>1. Init => TypeInv /\ SegInv
  <2>1. Init => Idle BY DEF Init, NoSession, Idle
  <2> QED BY <2>1, TypeInit DEF SegInv
<1>2. TypeInv /\ SegInv /\ [Next]_vars => (TypeInv /\ SegInv)'
  BY TypeNext, SegNext DEF SegOutcome, SegInv
<1> QED BY <1>1, <1>2, PTL DEF Spec

\* What the sidecar tells is what the files hold, cut where the glue cut it, in
\* a recording without a limit of frames; at the limit the last segment may end
\* behind the last frame.
THEOREM SidecarSaved ==
  ASSUME Limit = 0
  PROVE  Spec => []SidecarTrue
<1> DEFINE Inv == TypeInv /\ FilesInv /\ SegInv /\ Saved(g.queue)
<1>1. Init => Inv
  <2>1. Init => Idle /\ g.queue = <<>> BY DEF Init, NoSession, Idle
  <2>2. Init => SegInv BY <2>1 DEF SegInv
  <2>3. Saved(<<>>)
    <3>1. Len(<<>>) = 0 /\ 1..0 = {} OBVIOUS
    <3> QED BY <3>1 DEF Saved
  <2>4. Init => Saved(g.queue) BY <2>1, <2>3
  <2> QED BY <2>2, <2>4, TypeInit, FilesInit
<1>2. Inv /\ [Next]_vars => Inv'
  BY TypeNext, FilesNext, SegNext DEF SegOutcome, SegInv
<1>3. Inv => SidecarTrue
  <2> SUFFICES ASSUME Inv, g.queue # <<>>, Message.type = "sidecar", w.failed # "io"
               PROVE /\ w.failed = "no" /\ FilesTrue(w.parts, Message.n)
                     /\ SegmentsTrue(Message.segs, Message.n)
    BY DEF SidecarTrue
  <2>1. w.failed = "no" /\ FilesTrue(w.parts, Message.n) BY FilesInvSaved DEF FilesSaved
  <2>2. Message = g.queue[1] BY DEF Message, Head
  <2>3. 1 \in 1..Len(g.queue)
    <3>1. g.queue \in Seq(Plain \cup Sidecar) BY DEF TypeInv, Shape, Glue
    <3> QED BY <3>1, EmptySeq
  <2> QED BY <2>1, <2>2, <2>3 DEF Saved
<1> QED BY <1>1, <1>2, <1>3, PTL DEF Spec

-----------------------------------------------------------------------------
(* The history.  A recording is one piece: what it shows grows by frames     *)
(* that follow, or behind a cut, and a snapshot made on the way still knows  *)
(* its point.                                                                *)

HistGood(h) ==
  /\ h \in Glue /\ Counted(h) /\ h.state # "idle" /\ h.takes # <<>>
  /\ SegsRight(h) /\ TakesGood(h) /\ Ended(h) /\ Last(h.takes).rt = h.rtOn
  /\ ContinuousIn(h)

\* A snapshot of the machine's state c is good for as long as the recording goes.
Remembers(h, k) ==
  /\ k.session = h.session
  /\ \A info \in Point, c \in Nat : SnapGood(h, info, c) => SnapGood(k, info, c)

Tells(h, k) == HistGood(k) /\ Remembers(h, k)

\* The last frame shown is the one the machine was in, or there is a cut.
Meets(h, c) ==
  h.state = "recording" =>
    Count(h) = 0 \/ Cut(h.segs, Count(h)) \/ (Tip(h) # Blank /\ Tip(h).id = c)

LEMMA TellsOn ==
  ASSUME NEW h, NEW k, NEW l, Tells(h, k), Tells(k, l)
  PROVE  Tells(h, l)
BY DEF Tells, Remembers

\* What is shown grows by the frames s, which follow what was shown.
LEMMA ShownGrows ==
  ASSUME NEW h \in Glue, NEW k \in Glue, Counted(h), Counted(k), NEW s \in Seq(Frame),
         ShownOf(k) = ShownOf(h) \o s
  PROVE  /\ Len(s) \in Nat /\ Count(h) \in Nat /\ Count(k) = Count(h) + Len(s)
         /\ \A n \in 1..Count(h) : ShownOf(k)[n] = ShownOf(h)[n]
         /\ \A n \in Count(h) + 1..Count(k) : ShownOf(k)[n] = s[n - Count(h)]
<1> DEFINE a == ShownOf(h)  b == ShownOf(k)  n == Count(h)  m == Count(k)
<1>1. a \in Seq(Frame) /\ Len(a) = n BY ShownTyped
<1>2. b \in Seq(Frame) /\ Len(b) = m BY ShownTyped
<1>3. b = a \o s OBVIOUS
<1>4. n \in Nat BY PosFields
<1>5. Len(s) \in Nat OBVIOUS
<1> HIDE DEF a, b, n, m
<1>6. /\ Len(b) = Len(a) + Len(s)
      /\ \A i \in 1..Len(a) + Len(s) : b[i] = IF i <= Len(a) THEN a[i] ELSE s[i - Len(a)]
  BY <1>1, <1>3, ConcatProperties
<1>7. m = n + Len(s) BY <1>1, <1>2, <1>6
<1>8. ASSUME NEW i \in 1..n PROVE b[i] = a[i]
  <2>1. i \in 1..Len(a) + Len(s) /\ i <= Len(a) BY <1>1, <1>4, <1>5
  <2> QED BY <1>6, <2>1
<1>9. ASSUME NEW i \in n + 1..m PROVE b[i] = s[i - n]
  <2>1. i \in 1..Len(a) + Len(s) /\ ~(i <= Len(a)) BY <1>1, <1>4, <1>5, <1>7
  <2> QED BY <1>1, <1>6, <2>1
<1> QED BY <1>4, <1>5, <1>7, <1>8, <1>9 DEF a, b, n, m

\* A recording that is one piece stays one.
LEMMA ContinuousGrows ==
  ASSUME NEW h \in Glue, NEW k \in Glue, Counted(h), Counted(k), NEW s \in Seq(Frame),
         ShownOf(k) = ShownOf(h) \o s, ContinuousIn(h),
         \A x \in Nat : x < Count(h) /\ Cut(h.segs, x) => Cut(k.segs, x),
         Len(s) > 0 => Count(h) = 0 \/ Cut(k.segs, Count(h)) \/ Link(Tip(h), s[1]),
         \A i \in 2..Len(s) : Link(s[i - 1], s[i])
  PROVE  ContinuousIn(k)
<1> DEFINE a == ShownOf(h)  b == ShownOf(k)  n == Count(h)  m == Count(k)
<1>1. Len(a) = n /\ Len(b) = m BY ShownTyped
<1>2. /\ Len(s) \in Nat /\ n \in Nat /\ m = n + Len(s)
      /\ \A i \in 1..n : b[i] = a[i]
      /\ \A i \in n + 1..m : b[i] = s[i - n]
  BY ShownGrows
<1>3. \A i \in 2..n : Cut(h.segs, i - 1) \/ Link(a[i - 1], a[i])
  BY <1>1 DEF ContinuousIn
<1>4. Tip(h) = a[n] BY DEF Tip
<1> HIDE DEF a, b, n, m
<1> SUFFICES ASSUME NEW i \in 2..m PROVE Cut(k.segs, i - 1) \/ Link(b[i - 1], b[i])
  BY <1>1 DEF ContinuousIn, b
<1>5. i \in Nat /\ i >= 2 /\ i <= n + Len(s) BY <1>2
<1>6. CASE i <= n
  <2>1. i \in 2..n /\ i \in 1..n /\ i - 1 \in 1..n /\ i - 1 \in Nat /\ i - 1 < n
    BY <1>2, <1>5, <1>6
  <2>2. b[i] = a[i] /\ b[i - 1] = a[i - 1] BY <1>2, <2>1
  <2>3. Cut(h.segs, i - 1) => Cut(k.segs, i - 1) BY <2>1 DEF n
  <2> QED BY <1>3, <2>1, <2>2, <2>3
<1>7. CASE i = n + 1
  <2>1. i \in n + 1..m /\ i - n = 1 /\ i - 1 = n /\ n \in 1..n /\ n # 0 /\ Len(s) > 0
    BY <1>2, <1>5, <1>7
  <2>2. b[i] = s[1] /\ b[i - 1] = Tip(h) BY <1>2, <1>4, <2>1
  <2>3. Cut(k.segs, n) \/ Link(Tip(h), s[1]) BY <2>1 DEF n
  <2> QED BY <2>1, <2>2, <2>3
<1>8. CASE i > n + 1
  <2> DEFINE j == i - n
  <2>1. /\ j \in 2..Len(s) /\ i \in n + 1..m /\ i - 1 \in n + 1..m
        /\ (i - 1) - n = j - 1 /\ i - n = j
    BY <1>2, <1>5, <1>8
  <2> HIDE DEF j
  <2>2. b[i] = s[i - n] /\ b[i - 1] = s[(i - 1) - n] BY <1>2, <2>1
  <2>3. b[i] = s[j] /\ b[i - 1] = s[j - 1] BY <2>1, <2>2
  <2>4. Link(s[j - 1], s[j]) BY <2>1
  <2> QED BY <2>3, <2>4
<1> QED BY <1>2, <1>5, <1>6, <1>7, <1>8

\* What a snapshot knows stays true while the takes only grow.
LEMMA SnapStays ==
  ASSUME NEW h \in Glue, NEW k \in Glue, Counted(h), Counted(k), h.takes # <<>>,
         TakesGood(h), TakeStep(h, k), k.session = h.session, h.pauses \subseteq k.pauses,
         NEW s \in Seq(Frame), ShownOf(k) = ShownOf(h) \o s,
         NEW info \in Point, NEW c, SnapGood(h, info, c)
  PROVE  SnapGood(k, info, c)
<1>1. /\ Len(s) \in Nat /\ Count(h) \in Nat /\ Count(k) \in Nat /\ Count(h) <= Count(k)
      /\ \A n \in 1..Count(h) : n \in 1..Count(k) /\ ShownOf(k)[n] = ShownOf(h)[n]
  <2>1. /\ Len(s) \in Nat /\ Count(h) \in Nat /\ Count(k) = Count(h) + Len(s)
        /\ \A n \in 1..Count(h) : ShownOf(k)[n] = ShownOf(h)[n]
    BY ShownGrows
  <2>2. Count(k) \in Nat /\ Count(h) <= Count(k) BY <2>1
  <2>3. \A n \in 1..Count(h) : n \in 1..Count(k) BY <2>1, <2>2
  <2> QED BY <2>1, <2>2, <2>3
<1>2. info.take \in Nat /\ info.frame \in Nat /\ info.session \in Nat
  <2>1. MaxSessions \in Nat BY VideoRecAssumption
  <2> QED BY <2>1 DEF Point
<1>3. h.takes \in Seq(ATake) /\ h.lastTake \in Nat /\ k.lastTake \in Nat BY DEF Glue
<1> SUFFICES ASSUME info.session = k.session
             PROVE  /\ info.take <= k.lastTake
                    /\ info.take = Last(k.takes).id => info.frame <= Count(k)
                    /\ TakesOf(k, info) # {} => AtPoint(k, info.frame, c)
  BY DEF SnapGood
<1>4. /\ info.take <= h.lastTake
      /\ info.take = Last(h.takes).id => info.frame <= Count(h)
      /\ TakesOf(h, info) # {} => AtPoint(h, info.frame, c)
  BY DEF SnapGood
<1>5. AtPoint(h, info.frame, c) => AtPoint(k, info.frame, c) BY <1>1 DEF AtPoint
<1> DEFINE n == Len(h.takes)
<1>6. n \in Nat \ {0} /\ Last(h.takes) = h.takes[n] BY <1>3, FrontLast
<1>7. DOMAIN h.takes = 1..n BY <1>3
<1> HIDE DEF n
<1>8. CASE k.takes = h.takes /\ k.lastTake = h.lastTake
  <2>1. info.take = Last(k.takes).id => info.frame <= Count(k) BY <1>1, <1>2, <1>4, <1>8
  <2>2. ASSUME NEW i \in TakesOf(k, info) PROVE i \in TakesOf(h, info)
    <3>1. /\ i \in DOMAIN h.takes /\ h.takes[i].id = info.take /\ ~h.takes[i].rt
          /\ h.takes[i].start <= info.frame
          /\ info.frame <= IF i < Len(h.takes) THEN h.takes[i + 1].start ELSE Count(k)
      BY <1>8 DEF TakesOf
    <3>2. CASE i < Len(h.takes) BY <3>1, <3>2 DEF TakesOf
    <3>3. CASE ~(i < Len(h.takes))
      <4>1. i = n BY <1>6, <1>7, <3>1, <3>3 DEF n
      <4>2. info.frame <= Count(h) BY <1>4, <1>6, <3>1, <4>1
      <4> QED BY <3>1, <3>3, <4>2 DEF TakesOf
    <3> QED BY <3>2, <3>3
  <2> QED BY <1>4, <1>5, <1>8, <2>1, <2>2
<1>9. CASE \E at \in Nat :
             /\ Count(h) <= at /\ at <= Count(k)
             /\ k.lastTake = h.lastTake + 1
             /\ k.takes = Append(h.takes, [id |-> h.lastTake + 1, start |-> at, rt |-> k.rtOn])
  <2>1. PICK at \in Nat :
             /\ Count(h) <= at /\ at <= Count(k)
             /\ k.lastTake = h.lastTake + 1
             /\ k.takes = Append(h.takes, [id |-> h.lastTake + 1, start |-> at, rt |-> k.rtOn])
    BY <1>9
  <2> DEFINE e == [id |-> h.lastTake + 1, start |-> at, rt |-> k.rtOn]  t == k.takes
  <2>2. e.id = h.lastTake + 1 /\ e.start = at OBVIOUS
  <2>3. e \in ATake BY <1>3, <2>1 DEF ATake, Glue
  <2>4. t = Append(h.takes, e) BY <2>1
  <2> HIDE DEF e, t
  <2>5. Len(t) = n + 1 /\ t[n + 1] = e /\ \A i \in 1..n : t[i] = h.takes[i]
    BY <1>3, <2>3, <2>4, AppendProperties DEF n
  <2>6. DOMAIN t = 1..n + 1
    <3>1. t \in Seq(ATake) BY <1>3, <2>3, <2>4, AppendProperties
    <3> QED BY <2>5, <3>1
  <2>7. Last(t) = e BY <2>5 DEF Last
  <2>8. info.take # e.id /\ info.take <= k.lastTake BY <1>2, <1>3, <1>4, <2>1, <2>2
  <2>9. ASSUME NEW i \in TakesOf(k, info) PROVE i \in TakesOf(h, info)
    <3>1. /\ i \in 1..n + 1 /\ t[i].id = info.take /\ ~t[i].rt
          /\ t[i].start <= info.frame
          /\ i < n + 1 => info.frame <= t[i + 1].start
      BY <2>5, <2>6 DEF TakesOf, t
    <3>2. i # n + 1 BY <2>5, <2>8, <3>1
    <3>3. i \in 1..n /\ i < n + 1 BY <1>6, <3>1, <3>2
    <3>4. t[i] = h.takes[i] BY <2>5, <3>3
    <3>5. /\ i \in DOMAIN h.takes /\ h.takes[i].id = info.take /\ ~h.takes[i].rt
          /\ h.takes[i].start <= info.frame
      BY <1>7, <3>1, <3>3, <3>4
    <3>6. CASE i < n
      <4>1. i + 1 \in 1..n BY <1>6, <3>3, <3>6
      <4>2. info.frame <= h.takes[i + 1].start BY <2>5, <3>1, <3>3, <4>1
      <4> QED BY <3>5, <3>6, <4>2 DEF TakesOf, n
    <3>7. CASE ~(i < n)
      <4>1. i = n BY <1>6, <3>3, <3>7
      <4>2. info.frame <= Count(h) BY <1>4, <1>6, <3>5, <4>1
      <4> QED BY <3>5, <3>7, <4>2 DEF TakesOf, n
    <3> QED BY <3>6, <3>7
  <2> QED BY <1>4, <1>5, <2>7, <2>8, <2>9 DEF t
<1> QED BY <1>8, <1>9 DEF TakeStep

\* A recording that goes on, by no frame, by frames without a number or by one
\* that follows.
LEMMA HistGrows ==
  ASSUME NEW h, HistGood(h), NEW k \in Glue, Counted(k), k.state # "idle",
         k.session = h.session, TakeStep(h, k), k.takes = h.takes => k.rtOn = h.rtOn,
         h.pauses \subseteq k.pauses, Ended(k), SegStep(h, k),
         NEW s \in Seq(Frame), ShownOf(k) = ShownOf(h) \o s,
         Len(s) > 0 => Count(h) = 0 \/ Cut(k.segs, Count(h)) \/ Link(Tip(h), s[1]),
         \A i \in 2..Len(s) : Link(s[i - 1], s[i])
  PROVE  Tells(h, k)
<1>1. /\ h \in Glue /\ Counted(h) /\ h.takes # <<>> /\ SegsRight(h) /\ TakesGood(h)
      /\ Last(h.takes).rt = h.rtOn /\ ContinuousIn(h)
  BY DEF HistGood
<1>2. Count(h) <= Count(k)
  <2>1. Len(s) \in Nat /\ Count(h) \in Nat /\ Count(k) = Count(h) + Len(s) BY <1>1, ShownGrows
  <2> QED BY <2>1
<1>3. TakesGood(k) BY <1>1, <1>2, TakesStay
<1>4. SegsRight(k) /\ \A x \in Nat : x < Count(h) /\ Cut(h.segs, x) => Cut(k.segs, x)
  BY <1>1 DEF SegStep
<1>5. ContinuousIn(k) BY <1>1, <1>4, ContinuousGrows
<1>6. k.takes # <<>> /\ Last(k.takes).rt = k.rtOn
  <2>1. CASE k.takes = h.takes BY <1>1, <2>1
  <2>2. CASE \E at \in Nat :
               /\ k.lastTake = h.lastTake + 1
               /\ k.takes = Append(h.takes, [id |-> h.lastTake + 1, start |-> at, rt |-> k.rtOn])
    <3>1. PICK at \in Nat :
               /\ k.lastTake = h.lastTake + 1
               /\ k.takes = Append(h.takes, [id |-> h.lastTake + 1, start |-> at, rt |-> k.rtOn])
      BY <2>2
    <3> DEFINE e == [id |-> h.lastTake + 1, start |-> at, rt |-> k.rtOn]
    <3>2. h.takes \in Seq(ATake) BY <1>1 DEF Glue
    <3>3. e \in ATake /\ e.rt = k.rtOn
      <4>1. h.lastTake \in Nat /\ k.rtOn \in BOOLEAN BY <1>1 DEF Glue
      <4> QED BY <4>1 DEF ATake
    <3>4. k.takes = Append(h.takes, e) BY <3>1
    <3> HIDE DEF e
    <3>5. Len(k.takes) = Len(h.takes) + 1 /\ k.takes[Len(h.takes) + 1] = e /\ k.takes # <<>>
      <4> DEFINE q == h.takes  r == Append(q, e)
      <4>1. q \in Seq(ATake) /\ e \in ATake BY <3>2, <3>3
      <4> HIDE DEF q
      <4>2. r # <<>> /\ Len(r) = Len(q) + 1 /\ r[Len(q) + 1] = e BY <4>1, AppendProperties
      <4> HIDE DEF r
      <4>3. k.takes = r BY <3>4 DEF q, r
      <4> QED BY <4>2, <4>3 DEF q
    <3> QED BY <3>3, <3>5 DEF Last
  <2> QED BY <2>1, <2>2 DEF TakeStep
<1>7. \A info \in Point, c \in Nat : SnapGood(h, info, c) => SnapGood(k, info, c)
  BY <1>1, SnapStays
<1>8. HistGood(k) BY <1>3, <1>4, <1>5, <1>6 DEF HistGood
<1> QED BY <1>7, <1>8 DEF Tells, Remembers

\* The same frames are shown.
LEMMA HistStays ==
  ASSUME NEW h, HistGood(h), NEW k \in Glue, Counted(k), k.state # "idle",
         k.session = h.session, TakeStep(h, k), k.takes = h.takes => k.rtOn = h.rtOn,
         h.pauses \subseteq k.pauses, Ended(k), SegStep(h, k), SameShown(h, k)
  PROVE  Tells(h, k)
<1>1. h \in Glue /\ Counted(h) BY DEF HistGood
<1>2. ShownOf(h) \in Seq(Frame) BY <1>1, ShownTyped
<1>3. <<>> \in Seq(Frame) /\ Len(<<>>) = 0 BY EmptySeq
<1>4. ShownOf(k) = ShownOf(h) \o <<>> BY <1>2, ConcatEmptySeq DEF SameShown
<1>5. ~(0 > 0) /\ 2..0 = {} OBVIOUS
<1> QED BY <1>3, <1>4, <1>5, HistGrows

\* Frames sampled in real time are added.
LEMMA HistSampled ==
  ASSUME NEW h, HistGood(h), NEW k \in Glue, Counted(k), k.state # "idle",
         k.session = h.session, TakeStep(h, k), k.takes = h.takes => k.rtOn = h.rtOn,
         h.pauses \subseteq k.pauses, Ended(k), SegStep(h, k),
         NEW b, Grown(h, k, b),
         b > 0 => Count(h) = 0 \/ Cut(k.segs, Count(h)) \/ Tip(h) = Blank
  PROVE  Tells(h, k)
<1> DEFINE s == Blanks(b)
<1>1. b \in Nat /\ ShownOf(k) = ShownOf(h) \o s BY DEF Grown
<1>2. s \in Seq(Frame) /\ Len(s) = b BY <1>1, MessagesTyped
<1>3. \A i \in 1..b : s[i] = Blank BY DEF Blanks
<1> HIDE DEF s
<1>4. Link(Blank, Blank) BY DEF Link
<1>5. b > 0 => s[1] = Blank
  <2>1. b > 0 => 1 \in 1..b BY <1>1
  <2> QED BY <1>3, <2>1
<1>6. \A i \in 2..Len(s) : Link(s[i - 1], s[i])
  <2> SUFFICES ASSUME NEW i \in 2..b PROVE Link(s[i - 1], s[i]) BY <1>2
  <2>1. i \in 1..b /\ i - 1 \in 1..b BY <1>1
  <2> QED BY <1>3, <1>4, <2>1
<1>7. Len(s) > 0 => Count(h) = 0 \/ Cut(k.segs, Count(h)) \/ Link(Tip(h), s[1])
  BY <1>2, <1>4, <1>5
<1> QED BY <1>1, <1>2, <1>6, <1>7, HistGrows

LEMMA TakeBegunStep ==
  ASSUME NEW h \in Glue, NEW k \in Glue, NEW at \in Nat, TakeBegun(h, k, at),
         Count(h) <= at, at <= Count(k)
  PROVE  TakeStep(h, k) /\ k.takes # h.takes /\ h.pauses \subseteq k.pauses
<1> DEFINE e == [id |-> h.lastTake + 1, start |-> at, rt |-> k.rtOn]
<1>1. k.takes = Append(h.takes, e) /\ k.lastTake = h.lastTake + 1 /\ k.pauses = h.pauses
  BY DEF TakeBegun
<1>2. h.takes \in Seq(ATake) BY DEF Glue
<1>3. e \in ATake
  <2>1. h.lastTake \in Nat /\ k.rtOn \in BOOLEAN BY DEF Glue
  <2> QED BY <2>1 DEF ATake
<1>4. TakeStep(h, k) BY <1>1 DEF TakeStep
<1> HIDE DEF e
<1>5. Len(k.takes) = Len(h.takes) + 1 /\ Len(h.takes) \in Nat
  BY <1>1, <1>2, <1>3, AppendProperties
<1>6. k.takes # h.takes BY <1>5
<1> QED BY <1>1, <1>4, <1>6

\* What is shown, and what it is, stays.
LEMMA SameTells ==
  ASSUME NEW h, HistGood(h), NEW k \in Glue, Counted(k), SameRun(h, k), SameShown(h, k),
         SameSegs(h, k), SameTakes(h, k), k.rtOn = h.rtOn, SegStep(h, k)
  PROVE  /\ Tells(h, k) /\ (RtJoin(h) => RtJoin(k))
         /\ \A c : (Join(h, c) => Join(k, c)) /\ (Meets(h, c) => Meets(k, c))
<1>1. /\ k.state = h.state /\ k.session = h.session /\ k.segs = h.segs
      /\ k.takes = h.takes /\ k.lastTake = h.lastTake /\ k.pauses = h.pauses
      /\ ShownOf(k) = ShownOf(h) /\ Count(k) = Count(h)
  BY DEF SameRun, SameSegs, SameTakes, SameShown
<1>2. h.state # "idle" /\ Ended(h) BY DEF HistGood
<1>3. Ended(k) BY <1>1, <1>2 DEF Ended
<1>4. TakeStep(h, k) BY <1>1 DEF TakeStep
<1>5. Tells(h, k) BY <1>1, <1>2, <1>3, <1>4, HistStays
<1>6. Tip(k) = Tip(h) BY <1>1 DEF Tip
<1> QED BY <1>1, <1>5, <1>6 DEF RtJoin, Join, Meets

LEMMA FlagsTell ==
  ASSUME NEW h, Shape(h), HistGood(h), NEW k \in Glue, OnlyFlags(h, k)
  PROVE  /\ Tells(h, k) /\ (RtJoin(h) => RtJoin(k))
         /\ \A c : (Join(h, c) => Join(k, c)) /\ (Meets(h, c) => Meets(k, c))
<1>1. Shape(k) /\ Goes(h, k) BY OnlyFlagsGoes
<1>2. Counted(k) /\ SegStep(h, k) BY <1>1 DEF Shape, Goes
<1>3. SameShown(h, k) BY DEF OnlyFlags, SameFilm, SameShown, Count, ShownOf
<1>4. SameRun(h, k) /\ SameSegs(h, k) /\ SameTakes(h, k) /\ k.rtOn = h.rtOn BY DEF OnlyFlags
<1> QED BY <1>2, <1>3, <1>4, SameTells

\* The end of a frame: out of real time only behind a cut.
LEMMA AtFrameEndTells ==
  ASSUME NEW h, Shape(h), HistGood(h), RtJoin(h)
  PROVE  LET k == AtFrameEnd(h)
         IN /\ Shape(k) /\ ~k.rtOn /\ Tells(h, k)
            /\ k.reqSnap = h.reqSnap /\ k.snapInfo = h.snapInfo
            /\ \A c : Join(h, c) => Meets(k, c)
<1> DEFINE k == AtFrameEnd(h)
<1>1. h \in Glue /\ h.state # "idle" /\ SegsRight(h) /\ Ended(h) BY DEF HistGood
<1>2. /\ Shape(k) /\ SegStep(h, k) /\ SameRun(h, k) /\ ~k.rtOn
      /\ k.reqSnap = h.reqSnap /\ k.snapInfo = h.snapInfo
      /\ ~h.rtOn => OnlyAsked(h, k)
      /\ h.rtOn => /\ TakeBegun(h, k, Count(k)) /\ \E b \in Nat : Grown(h, k, b)
                   /\ Count(k) = Pos(h)
                   /\ SegsRight(h) => Kept(h, k)
                   /\ SegsRight(h) /\ h.state = "recording" => Cut(k.segs, Count(k))
  BY <1>1, AtFrameEndFields
<1> HIDE DEF k
<1>3. k \in Glue /\ Counted(k) BY <1>2 DEF Shape
<1>4. CASE ~h.rtOn
  <2>1. SameShown(h, k) BY <1>2, <1>4, OnlyAskedSame
  <2>2. SameSegs(h, k) /\ SameTakes(h, k) /\ k.rtOn = h.rtOn
    BY <1>2, <1>4 DEF OnlyAsked, SameTime
  <2>3. Tells(h, k) /\ \A c : Meets(h, c) => Meets(k, c) BY <1>2, <1>3, <2>1, <2>2, SameTells
  <2>4. \A c : Join(h, c) => Meets(h, c) BY <1>4 DEF Join, Meets
  <2> QED BY <1>2, <2>3, <2>4 DEF k
<1>5. CASE h.rtOn
  <2>1. PICK b \in Nat : Grown(h, k, b) BY <1>2, <1>5
  <2>2. /\ k.pauses = h.pauses /\ Count(k) = Pos(h) /\ k.state = h.state /\ k.session = h.session
    BY <1>2, <1>5 DEF TakeBegun, SameRun
  <2>3. Count(h) \in Nat /\ Count(k) \in Nat /\ Count(h) <= Count(k) /\ Count(k) = Count(h) + b
    <3>1. Count(h) \in Nat /\ Count(k) = Count(h) + b BY <1>1, <2>1, GrownMore
    <3> QED BY <3>1
  <2>4. TakeStep(h, k) /\ k.takes # h.takes
    <3>1. Count(k) <= Count(k) BY <2>3
    <3> QED BY <1>1, <1>2, <1>3, <1>5, <2>3, <3>1, TakeBegunStep
  <2>6. Ended(k)
    <3> SUFFICES ASSUME k.state = "paused" PROVE Count(k) \in k.pauses BY DEF Ended
    <3>1. h.state = "paused" BY <2>2
    <3>2. Pos(h) = Count(h) BY <1>1, <3>1, PosFields
    <3> QED BY <1>1, <2>2, <3>1, <3>2 DEF Ended
  <2>7. b > 0 => Count(h) = 0 \/ Cut(k.segs, Count(h)) \/ Tip(h) = Blank
    <3> SUFFICES ASSUME b > 0 PROVE Count(h) = 0 \/ Cut(k.segs, Count(h)) \/ Tip(h) = Blank
      OBVIOUS
    <3>1. Count(h) < Count(k) BY <2>3
    <3>2. h.state = "recording"
      <4>1. h.state # "recording" => Pos(h) = Count(h) BY <1>1, PosFields
      <4> QED BY <2>2, <3>1, <2>3, <4>1
    <3>3. Count(h) = 0 \/ Cut(h.segs, Count(h)) \/ Tip(h) = Blank BY <1>5, <3>2 DEF RtJoin
    <3> QED BY <1>1, <1>2, <1>5, <2>3, <3>1, <3>3 DEF Kept
  <2>8. Tells(h, k)
    <3>1. k.state # "idle" /\ h.pauses \subseteq k.pauses BY <1>1, <2>2
    <3> QED BY <1>2, <1>3, <2>1, <2>2, <2>4, <2>6, <2>7, <3>1, HistSampled
  <2>9. \A c : Meets(k, c) BY <1>1, <1>2, <1>5, <2>2 DEF Meets
  <2> QED BY <1>2, <2>8, <2>9 DEF k
<1> QED BY <1>4, <1>5

\* A snapshot that is no retake is behind a cut.
LEMMA SeamedTells ==
  ASSUME NEW h, Shape(h), ~h.rtOn, HistGood(h), NEW c, ~h.reqSnap => Meets(h, c)
  PROVE  LET k == Seamed(h)
         IN Shape(k) /\ ~k.rtOn /\ ~k.reqSnap /\ Tells(h, k) /\ Meets(k, c)
<1> DEFINE k == Seamed(h)
<1>1. h \in Glue /\ h.state # "idle" /\ SegsRight(h) /\ Ended(h) BY DEF HistGood
<1>2. /\ Shape(k) /\ SameShown(h, k) /\ SegStep(h, k)
      /\ k.state = h.state /\ k.session = h.session /\ k.rtOn = h.rtOn /\ ~k.reqSnap
      /\ ~h.reqSnap => k = h
      /\ h.reqSnap =>
           /\ TakeBegun(h, k, Count(h))
           /\ SegsRight(h) /\ h.state = "recording" => Cut(k.segs, Count(h))
  BY SeamedFields DEF SameRun, SameTime
<1> HIDE DEF k
<1>3. k \in Glue /\ Counted(k) /\ Count(k) = Count(h) BY <1>2 DEF Shape, SameShown
<1>4. CASE ~h.reqSnap
  <2>1. k = h BY <1>2, <1>4
  <2>2. Tells(h, h) BY DEF Tells, Remembers
  <2> QED BY <1>2, <1>4, <2>1, <2>2 DEF k
<1>5. CASE h.reqSnap
  <2>1. k.pauses = h.pauses BY <1>2, <1>5 DEF TakeBegun
  <2>2. TakeStep(h, k)
    <3>1. Count(h) \in Nat BY <1>1, PosFields
    <3>2. Count(h) <= Count(h) /\ Count(h) <= Count(k) BY <1>3, <3>1
    <3> QED BY <1>1, <1>2, <1>3, <1>5, <3>1, <3>2, TakeBegunStep
  <2>3. Ended(k) BY <1>1, <1>2, <1>3, <2>1 DEF Ended
  <2>4. h.pauses \subseteq k.pauses /\ k.state # "idle" BY <1>1, <1>2, <2>1
  <2>5. Tells(h, k) BY <1>2, <1>3, <2>2, <2>3, <2>4, HistStays
  <2>6. Meets(k, c) BY <1>1, <1>2, <1>3, <1>5 DEF Meets
  <2> QED BY <1>2, <2>5, <2>6 DEF k
<1> QED BY <1>4, <1>5

\* The frame is recorded behind the one it follows.
LEMMA FinishFrameTells ==
  ASSUME NEW h, Shape(h), ~h.rtOn, HistGood(h), NEW f \in Taped, Meets(h, f.prev)
  PROVE  LET k == FinishFrame(h, f)
         IN \/ k.state = "idle" /\ ~k.reqSnap
            \/ Tells(h, k) /\ ~k.rtOn /\ k.reqSnap = h.reqSnap /\ Join(k, f.id)
<1> DEFINE k == FinishFrame(h, f)
<1>1. /\ h \in Glue /\ Counted(h) /\ h.state # "idle" /\ SegsRight(h) /\ Ended(h)
      /\ Len(h.pend) <= MaxPending
  BY DEF HistGood, Shape
<1>2. \/ Finalized(h, k) /\ Quiet(h, k)
      \/ /\ k \in Glue /\ Counted(k)
         /\ k.session = h.session /\ k.state # "idle" /\ SameTime(h, k)
         /\ k.takes = h.takes /\ k.lastTake = h.lastTake /\ h.pauses \subseteq k.pauses
         /\ k.reqSnap = h.reqSnap
         /\ SegStep(h, k)
         /\ k.state = "recording" =>
              ShownOf(k) = ShownOf(h) \o <<f>> /\ Count(k) = Count(h) + 1
         /\ k.state # "recording" => SameShown(h, k)
         /\ k.state = h.state => k.segs = h.segs
         /\ k.state # h.state /\ k.state = "recording" /\ SegsRight(h) => Cut(k.segs, Count(h))
         /\ k.state # h.state /\ k.state = "paused" => Count(k) \in k.pauses
  BY <1>1, FinishFrameFields
<1> HIDE DEF k
<1>3. CASE Finalized(h, k) /\ Quiet(h, k) BY <1>3 DEF Quiet, k
<1>4. CASE /\ k \in Glue /\ Counted(k)
           /\ k.session = h.session /\ k.state # "idle" /\ SameTime(h, k)
           /\ k.takes = h.takes /\ k.lastTake = h.lastTake /\ h.pauses \subseteq k.pauses
           /\ k.reqSnap = h.reqSnap
           /\ SegStep(h, k)
           /\ k.state = "recording" =>
                ShownOf(k) = ShownOf(h) \o <<f>> /\ Count(k) = Count(h) + 1
           /\ k.state # "recording" => SameShown(h, k)
           /\ k.state = h.state => k.segs = h.segs
           /\ k.state # h.state /\ k.state = "recording" /\ SegsRight(h) =>
                Cut(k.segs, Count(h))
           /\ k.state # h.state /\ k.state = "paused" => Count(k) \in k.pauses
  <2>1. TakeStep(h, k) /\ k.rtOn = h.rtOn BY <1>4 DEF TakeStep, SameTime
  <2>2. CASE k.state # "recording"
    <3>1. k.state = "paused" BY <1>4, <2>2 DEF Glue
    <3>2. Ended(k) BY <1>1, <1>4, <2>2, <3>1 DEF Ended, SameShown
    <3>3. Tells(h, k) BY <1>4, <2>1, <2>2, <3>2, HistStays
    <3>4. Join(k, f.id) BY <2>2 DEF Join
    <3> QED BY <1>4, <2>1, <3>3, <3>4 DEF k
  <2>3. CASE k.state = "recording"
    <3>1. f \in Frame /\ f # Blank BY DEF Taped
    <3>2. <<f>> \in Seq(Frame) /\ Len(<<f>>) = 1 /\ <<f>>[1] = f BY <3>1
    <3>3. Count(h) = 0 \/ Cut(k.segs, Count(h)) \/ Link(Tip(h), f)
      <4>1. CASE h.state = "recording"
        <5>1. k.segs = h.segs BY <1>4, <2>3, <4>1
        <5>2. Count(h) = 0 \/ Cut(h.segs, Count(h)) \/ (Tip(h) # Blank /\ Tip(h).id = f.prev)
          BY <4>1 DEF Meets
        <5>3. Tip(h) # Blank /\ Tip(h).id = f.prev => Link(Tip(h), f) BY <3>1 DEF Link
        <5> QED BY <5>1, <5>2, <5>3
      <4>2. CASE h.state # "recording" BY <1>1, <1>4, <2>3, <4>2
      <4> QED BY <4>1, <4>2
    <3>4. \A i \in 2..Len(<<f>>) : Link(<<f>>[i - 1], <<f>>[i])
      <4>1. 2..1 = {} OBVIOUS
      <4> QED BY <3>2, <4>1
    <3>5. Ended(k) BY <2>3 DEF Ended
    <3> DEFINE s == <<f>>
    <3>6. s \in Seq(Frame) /\ Len(s) = 1 /\ s[1] = f BY <3>2
    <3>7. \A i \in 2..Len(s) : Link(s[i - 1], s[i]) BY <3>4
    <3>8. ShownOf(k) = ShownOf(h) \o s BY <1>4, <2>3
    <3> HIDE DEF s
    <3>9. Tells(h, k) BY <1>4, <2>1, <3>3, <3>5, <3>6, <3>7, <3>8, HistGrows
    <3>10. Tip(k) = f
      <4>1. /\ Count(h) \in Nat /\ Count(k) = Count(h) + 1
            /\ \A n \in Count(h) + 1..Count(k) : ShownOf(k)[n] = s[n - Count(h)]
        BY <1>1, <1>4, <3>6, <3>8, ShownGrows
      <4>2. Count(k) \in Count(h) + 1..Count(k) /\ Count(k) - Count(h) = 1 BY <4>1
      <4>3. ShownOf(k)[Count(k)] = s[Count(k) - Count(h)] BY <4>1, <4>2
      <4> QED BY <3>6, <4>2, <4>3 DEF Tip
    <3>11. Join(k, f.id) BY <3>1, <3>10 DEF Join
    <3> QED BY <1>4, <2>1, <3>9, <3>11 DEF k
  <2> QED BY <2>2, <2>3
<1> QED BY <1>2, <1>3, <1>4

LEMMA GrownTip ==
  ASSUME NEW h \in Glue, NEW k \in Glue, Counted(h), Counted(k), NEW b \in Nat, Grown(h, k, b)
  PROVE  /\ b = 0 => SameShown(h, k)
         /\ b > 0 => Tip(k) = Blank
<1> DEFINE s == Blanks(b)
<1>1. s \in Seq(Frame) /\ Len(s) = b BY MessagesTyped
<1>2. \A i \in 1..b : s[i] = Blank BY DEF Blanks
<1>3. ShownOf(k) = ShownOf(h) \o s /\ Count(k) = Count(h) + b BY DEF Grown
<1> HIDE DEF s
<1>4. ASSUME b = 0 PROVE SameShown(h, k)
  <2>1. s = <<>> BY <1>1, <1>4, EmptySeq
  <2>2. ShownOf(h) \in Seq(Frame) BY ShownTyped
  <2>3. ShownOf(k) = ShownOf(h) BY <1>3, <2>1, <2>2, ConcatEmptySeq
  <2>4. Count(k) = Count(h)
    <3>1. Count(h) \in Nat BY PosFields
    <3> QED BY <1>3, <1>4, <3>1
  <2> QED BY <2>3, <2>4 DEF SameShown
<1>5. ASSUME b > 0 PROVE Tip(k) = Blank
  <2>1. /\ Count(h) \in Nat
        /\ \A n \in Count(h) + 1..Count(k) : ShownOf(k)[n] = s[n - Count(h)]
    BY <1>1, <1>3, ShownGrows
  <2>2. Count(k) \in Count(h) + 1..Count(k) /\ Count(k) - Count(h) = b /\ b \in 1..b
    BY <1>3, <1>5, <2>1
  <2>3. ShownOf(k)[Count(k)] = s[Count(k) - Count(h)] BY <2>1, <2>2
  <2> QED BY <1>2, <2>2, <2>3 DEF Tip
<1> QED BY <1>4, <1>5

\* Real time is entered behind a cut.
LEMMA RebasedTells ==
  ASSUME NEW h, Shape(h), HistGood(h), RtJoin(h), want \in BOOLEAN
  PROVE  LET k == Rebased(h)
         IN /\ Shape(k) /\ Tells(h, k) /\ RtJoin(k)
            /\ k.reqSnap = h.reqSnap /\ k.snapInfo = h.snapInfo /\ (h.req => k.req)
            /\ \A c : Join(h, c) => Join(k, c)
<1> DEFINE k == Rebased(h)
<1>1. h \in Glue /\ Counted(h) /\ h.state # "idle" /\ SegsRight(h) /\ Ended(h)
  BY DEF HistGood, Shape
<1>2. CASE want /\ ~h.rtOn
  <2> DEFINE e == Enter(h)
  <2>1. k = e BY <1>2 DEF Rebased
  <2>2. h.fifo = 0
    <3>1. h.fifo \in Nat /\ ~(h.fifo > 0) BY <1>1, <1>2 DEF Shape, Glue
    <3> QED BY <3>1
  <2>3. /\ e \in Glue /\ Counted(e) /\ e.pend = <<>> /\ SameShown(h, e)
        /\ SameRun(h, e) /\ SameAsked(h, e) /\ TakeBegun(h, e, Count(h))
        /\ e.rtOn /\ ~e.leaving /\ e.fifo = Delay /\ SegStep(h, e)
        /\ SegsRight(h) /\ h.state = "recording" => Count(h) = 0 \/ Cut(e.segs, Count(h))
    BY <1>1, <1>2, <2>2, EnterFields
  <2> HIDE DEF e, k
  <2>4. Count(h) \in Nat /\ Count(e) = Count(h) BY <1>1, <2>3, PosFields DEF SameShown
  <2>5. TakeStep(h, e) /\ e.takes # h.takes
    <3>1. Count(h) <= Count(h) /\ Count(h) <= Count(e) BY <2>4
    <3> QED BY <1>1, <2>3, <2>4, <3>1, TakeBegunStep
  <2>6. e.state = h.state /\ e.session = h.session /\ e.pauses = h.pauses /\ e.takes # <<>>
    <3>1. e.takes # <<>> BY <1>1, <2>3, <2>4, TakesAgain
    <3> QED BY <2>3, <3>1 DEF SameRun, TakeBegun
  <2>7. Ended(e) BY <1>1, <2>4, <2>6 DEF Ended
  <2>8. Tells(h, e)
    <3>1. e.state # "idle" /\ h.pauses \subseteq e.pauses BY <1>1, <2>6
    <3> QED BY <2>3, <2>5, <2>6, <2>7, <3>1, HistStays
  <2>9. RtJoin(e) BY <1>1, <2>3, <2>4, <2>6 DEF RtJoin
  <2>10. \A c : Join(e, c) BY <2>3 DEF Join
  <2>11. Shape(e)
    <3>1. Len(e.pend) <= MaxPending /\ e.fifo <= Delay
      <4>1. Len(<<>>) = 0 OBVIOUS
      <4> QED BY <2>3, <4>1, RecordingAssumption
    <3> QED BY <1>1, <2>3, <2>6, <3>1 DEF Shape
  <2>12. e.reqSnap = h.reqSnap /\ e.snapInfo = h.snapInfo /\ e.req = h.req
    BY <2>3 DEF SameAsked
  <2> QED BY <2>1, <2>8, <2>9, <2>10, <2>11, <2>12 DEF k
<1>3. CASE ~(want /\ ~h.rtOn)
  <2>1. /\ k \in Glue /\ OnlyFlags(h, k)
        /\ k.reqSnap = h.reqSnap /\ k.snapInfo = h.snapInfo /\ (h.req => k.req)
    BY <1>1, <1>3 DEF Rebased, Glue, OnlyFlags, SameRun, SameFilm, SameSegs, SameTakes, Shape
  <2> HIDE DEF k
  <2>2. /\ Tells(h, k) /\ RtJoin(k)
        /\ \A c : Join(h, c) => Join(k, c)
    BY <2>1, FlagsTell
  <2>3. Shape(k) BY <2>1, OnlyFlagsGoes
  <2> QED BY <2>1, <2>2, <2>3 DEF k
<1> QED BY <1>2, <1>3

\* The sampler's frames are behind a cut or behind frames of its own.
LEMMA RtToggleTells ==
  ASSUME NEW h, HistGood(h), RtJoin(h), h.rtOn, h.pend = <<>>, h.fifo <= Delay
  PROVE  LET k == RtToggle(h)
         IN /\ Tells(h, k) /\ RtJoin(k) /\ k.rtOn /\ k.reqSnap = h.reqSnap
<1> DEFINE k == RtToggle(h)
<1>1. h \in Glue /\ Counted(h) /\ h.state # "idle" /\ SegsRight(h) /\ Ended(h)
  BY DEF HistGood
<1>2. /\ k \in Glue /\ Counted(k)
      /\ k.session = h.session /\ k.state # "idle" /\ k.rtOn = h.rtOn
      /\ k.takes = h.takes /\ k.lastTake = h.lastTake /\ h.pauses \subseteq k.pauses
      /\ k.reqSnap = h.reqSnap
      /\ SegStep(h, k) /\ (SegsRight(h) => Kept(h, k))
      /\ k.state = h.state => k = h
      /\ h.state = "paused" => Count(k) = Count(h)
      /\ k.state # h.state /\ k.state = "paused" => Count(k) \in k.pauses
      /\ k.state # h.state /\ k.state = "recording" => (SegsRight(h) => Cut(k.segs, Count(k)))
  BY <1>1, RtToggleFields
<1>3. PICK b \in Nat : Grown(h, k, b) BY <1>1, RtToggleFields
<1> HIDE DEF k
<1>4. CASE k.state = h.state
  <2>1. k = h BY <1>2, <1>4
  <2>2. Tells(h, h) BY DEF Tells, Remembers
  <2> QED BY <2>1, <2>2 DEF k
<1>5. CASE k.state # h.state
  <2>1. h.state \in {"recording", "paused"} /\ k.state \in {"recording", "paused"}
    BY <1>1, <1>2 DEF Glue
  <2>2. TakeStep(h, k) BY <1>2 DEF TakeStep
  <2>3. Ended(k) BY <1>2, <1>5 DEF Ended
  <2>4. Count(h) \in Nat /\ Count(k) = Count(h) + b BY <1>1, <1>3, GrownMore
  <2>5. b > 0 => Count(h) = 0 \/ Cut(k.segs, Count(h)) \/ Tip(h) = Blank
    <3> SUFFICES ASSUME b > 0 PROVE Count(h) = 0 \/ Cut(k.segs, Count(h)) \/ Tip(h) = Blank
      OBVIOUS
    <3>1. Count(h) < Count(k) BY <2>4
    <3>2. h.state = "recording" BY <1>2, <2>1, <2>4
    <3>3. Count(h) = 0 \/ Cut(h.segs, Count(h)) \/ Tip(h) = Blank BY <3>2 DEF RtJoin
    <3> QED BY <1>1, <1>2, <2>4, <3>1, <3>3 DEF Kept
  <2>6. Tells(h, k) BY <1>2, <1>3, <2>2, <2>3, <2>5, HistSampled
  <2>7. RtJoin(k) BY <1>1, <1>2, <1>5 DEF RtJoin
  <2> QED BY <1>2, <2>6, <2>7 DEF k
<1> QED BY <1>4, <1>5

\* The requests the sampler answers.
LEMMA RtRequestsTells ==
  ASSUME NEW h, Shape(h), HistGood(h), RtJoin(h), h.rtOn
  PROVE  LET k == RtRequests(h)
         IN \/ k.state = "idle" /\ ~k.reqSnap
            \/ Tells(h, k) /\ RtJoin(k) /\ k.rtOn /\ ~k.reqSnap
<1> DEFINE s == RtSnapshot(h)  t == RtToggle(s)  k == RtRequests(h)
<1>1. /\ h \in Glue /\ Counted(h) /\ h.pend = <<>> /\ h.state # "idle" /\ h.takes # <<>>
      /\ h.fifo <= Delay /\ SegsRight(h) /\ Ended(h)
  BY DEF Shape, HistGood
<1>2. k = IF t.reqStop THEN Finalize(t) ELSE t BY DEF RtRequests
<1>3. /\ s \in Glue /\ Counted(s) /\ SameShown(h, s) /\ s.pauses = h.pauses
      /\ SameRun(h, s) /\ SameFilm(h, s) /\ SameTime(h, s)
      /\ (s.takes = h.takes /\ s.lastTake = h.lastTake) \/ TakeBegun(h, s, Count(h))
      /\ ~s.reqSnap /\ SegStep(h, s)
      /\ SegsRight(h) /\ h.state = "recording" /\ Cut(h.segs, Count(h)) => Cut(s.segs, Count(h))
  BY <1>1, RtSnapshotFields
<1>4. /\ s.rtOn /\ s.rtOn = h.rtOn /\ s.pend = <<>> /\ s.state = h.state /\ s.fifo = h.fifo
      /\ s.session = h.session /\ Count(s) = Count(h) /\ ShownOf(s) = ShownOf(h)
  BY <1>1, <1>3 DEF SameRun, SameFilm, SameTime, SameShown
<1> HIDE DEF s
<1>5. Tells(h, s)
  <2>1. TakeStep(h, s)
    <3>1. CASE s.takes = h.takes /\ s.lastTake = h.lastTake BY <3>1 DEF TakeStep
    <3>2. CASE TakeBegun(h, s, Count(h))
      <4>1. Count(h) \in Nat BY <1>1, PosFields
      <4>2. Count(h) <= Count(h) /\ Count(h) <= Count(s) BY <1>4, <4>1
      <4> QED BY <1>1, <1>3, <3>2, <4>1, <4>2, TakeBegunStep
    <3> QED BY <1>3, <3>1, <3>2
  <2>2. Ended(s) BY <1>1, <1>3, <1>4 DEF Ended
  <2>3. h.pauses \subseteq s.pauses /\ s.state # "idle" BY <1>1, <1>3, <1>4
  <2> QED BY <1>3, <1>4, <2>1, <2>2, <2>3, HistStays
<1>6. RtJoin(s)
  <2>1. Tip(s) = Tip(h) BY <1>4 DEF Tip
  <2> QED BY <1>1, <1>3, <1>4, <2>1 DEF RtJoin
<1>7. HistGood(s) /\ s.fifo <= Delay BY <1>1, <1>4, <1>5 DEF Tells
<1>8. Tells(s, t) /\ RtJoin(t) /\ t.rtOn /\ ~t.reqSnap
  BY <1>3, <1>4, <1>6, <1>7, RtToggleTells
<1> HIDE DEF t, k
<1>9. Tells(h, t) BY <1>5, <1>8, TellsOn
<1>10. CASE ~t.reqStop BY <1>2, <1>8, <1>9, <1>10 DEF k
<1>11. CASE t.reqStop
  <2>1. k.state = "idle" /\ ~k.reqSnap BY <1>2, <1>11 DEF Finalize, NoSession
  <2> QED BY <2>1 DEF k
<1> QED BY <1>10, <1>11

\* The frames of one tick follow each other, or a cut.
LEMMA TicksTells ==
  ASSUME NEW h, Shape(h), HistGood(h), RtJoin(h), h.rtOn,
         NEW due \in Nat, NEW n \in Nat, NEW paused \in BOOLEAN
  PROVE  LET k == Ticks(h, due, n, paused)
         IN \/ k.state = "idle" /\ ~k.reqSnap
            \/ Tells(h, k) /\ RtJoin(k) /\ k.rtOn /\ k.reqSnap = h.reqSnap
<1> DEFINE k == Ticks(h, due, n, paused)
<1>1. /\ h \in Glue /\ Counted(h) /\ h.pend = <<>> /\ h.state # "idle" /\ h.takes # <<>>
      /\ h.fifo <= Delay /\ Ended(h)
  BY DEF Shape, HistGood
<1>2. \/ Finalized(h, k) /\ Quiet(h, k)
      \/ /\ k \in Glue /\ Counted(k) /\ k.pend = <<>> /\ Wrote(h, k)
         /\ \E b \in Nat : Grown(h, k, b) /\ (h.state = "paused" => b = 0)
         /\ SameRun(h, k) /\ SameSegs(h, k) /\ SameTakes(h, k) /\ SameAsked(h, k)
         /\ k.rtOn = h.rtOn /\ k.leaving = h.leaving /\ k.fifo <= Delay
         /\ h.state = "recording" => k.fifo = h.fifo
         /\ SegStep(h, k)
  BY <1>1, TicksFields
<1> HIDE DEF k
<1>3. CASE Finalized(h, k) /\ Quiet(h, k) BY <1>3 DEF Quiet, k
<1>4. CASE /\ k \in Glue /\ Counted(k)
           /\ \E b \in Nat : Grown(h, k, b) /\ (h.state = "paused" => b = 0)
           /\ SameRun(h, k) /\ SameSegs(h, k) /\ SameTakes(h, k) /\ SameAsked(h, k)
           /\ k.rtOn = h.rtOn /\ SegStep(h, k)
  <2>1. PICK b \in Nat : Grown(h, k, b) /\ (h.state = "paused" => b = 0) BY <1>4
  <2>2. CASE b = 0
    <3>1. SameShown(h, k) BY <1>1, <1>4, <2>1, <2>2, GrownTip
    <3>2. Tells(h, k) /\ RtJoin(k) BY <1>4, <3>1, SameTells
    <3> QED BY <1>4, <3>2 DEF SameAsked, k
  <2>3. CASE b # 0
    <3>1. b > 0 /\ h.state = "recording" BY <1>1, <2>1, <2>3 DEF Glue
    <3>2. Tip(k) = Blank BY <1>1, <1>4, <2>1, <3>1, GrownTip
    <3>3. RtJoin(k) BY <3>2 DEF RtJoin
    <3>4. /\ k.state = h.state /\ k.session = h.session /\ k.segs = h.segs
          /\ k.takes = h.takes /\ k.lastTake = h.lastTake /\ k.pauses = h.pauses
      BY <1>4 DEF SameRun, SameSegs, SameTakes
    <3>5. TakeStep(h, k) BY <3>4 DEF TakeStep
    <3>6. Ended(k) BY <3>1, <3>4 DEF Ended
    <3>7. Count(h) = 0 \/ Cut(k.segs, Count(h)) \/ Tip(h) = Blank BY <3>1, <3>4 DEF RtJoin
    <3>8. h.pauses \subseteq k.pauses /\ k.state # "idle" BY <1>1, <3>4
    <3>9. Tells(h, k) BY <1>4, <2>1, <3>4, <3>5, <3>6, <3>7, <3>8, HistSampled
    <3> QED BY <1>4, <3>3, <3>9 DEF SameAsked, k
  <2> QED BY <2>2, <2>3
<1> QED BY <1>2, <1>3, <1>4

\* Taken again from the point of a snapshot: what was recorded up to it is as
\* before, the takes behind it are gone, and the machine is where it was then.
LEMMA RetakeTells ==
  ASSUME NEW h, Shape(h), ~h.rtOn, HistGood(h), h.snapInfo.session = h.session,
         h.snapInfo.frame <= h.next, TakesOf(h, h.snapInfo) # {},
         NEW c, SnapGood(h, h.snapInfo, c)
  PROVE  LET k == Retake(h)
         IN ~k.rtOn /\ ~k.reqSnap /\ Tells(h, k) /\ Meets(k, c)
<1> DEFINE k == Retake(h)  at == h.snapInfo.frame
<1>1. /\ h \in Glue /\ Counted(h) /\ h.state # "idle" /\ h.takes # <<>>
      /\ SegsRight(h) /\ TakesGood(h) /\ Ended(h) /\ ContinuousIn(h)
  BY DEF HistGood
<1>2. /\ k \in Glue /\ Counted(k) /\ k.pend = <<>> /\ k.next = at /\ Count(k) = at
      /\ at \in Nat /\ at <= Count(h)
      /\ \A i \in 1..at : ShownOf(k)[i] = ShownOf(h)[i]
      /\ SameRun(h, k) /\ SameTime(h, k) /\ ~k.reqSnap
      /\ k.lastTake = h.lastTake + 1
      /\ \E i \in TakesOf(h, h.snapInfo) :
           k.takes = Append(SubSeq(h.takes, 1, i),
                            [id |-> h.lastTake + 1, start |-> at, rt |-> FALSE])
      /\ {p \in h.pauses : p <= at} \subseteq k.pauses
      /\ h.state = "paused" => at \in k.pauses
      /\ SegsRight(h) =>
           /\ SegsRight(k)
           /\ \A x \in Nat : x < at /\ Cut(h.segs, x) => Cut(k.segs, x)
           /\ h.state = "recording" /\ at \in h.pauses => Cut(k.segs, at)
  BY <1>1, RetakeFields
<1>3. PICK i \in TakesOf(h, h.snapInfo) :
        k.takes = Append(SubSeq(h.takes, 1, i),
                         [id |-> h.lastTake + 1, start |-> at, rt |-> FALSE])
  BY <1>2
<1> DEFINE n == Len(h.takes)  e == [id |-> h.lastTake + 1, start |-> at, rt |-> FALSE]
           t == k.takes
<1>4. /\ h.takes \in Seq(ATake) /\ n \in Nat /\ h.lastTake \in Nat /\ Count(h) \in Nat
      /\ DOMAIN h.takes = 1..n
  BY <1>1, PosFields DEF Glue
<1>5. /\ i \in 1..n /\ h.takes[i].start <= at
      /\ at <= IF i < n THEN h.takes[i + 1].start ELSE Count(h)
  BY <1>3, <1>4 DEF TakesOf
<1>6. /\ e \in ATake /\ e.id = h.lastTake + 1 /\ e.start = at /\ e.rt = FALSE
  BY <1>2, <1>4 DEF ATake
<1>7. t = Append(SubSeq(h.takes, 1, i), e) BY <1>3
<1> HIDE DEF n, e, t, k, at
<1>8. /\ i \in Nat /\ i >= 1 /\ t \in Seq(ATake) /\ Len(t) = i + 1 /\ t[i + 1] = e
      /\ \A j \in 1..i : t[j] = h.takes[j] /\ j \in 1..n
  <2> DEFINE p == SubSeq(h.takes, 1, i)
  <2>1. i \in 0..Len(h.takes) BY <1>4, <1>5 DEF n
  <2>2. p \in Seq(ATake) /\ Len(p) = i /\ \A j \in 1..i : p[j] = h.takes[j]
    BY <1>4, <2>1, SplitSeq
  <2>3. t = Append(p, e) BY <1>7
  <2> HIDE DEF p
  <2>4. t \in Seq(ATake) /\ Len(t) = Len(p) + 1 /\ t[Len(p) + 1] = e
        /\ \A j \in 1..Len(p) : t[j] = p[j]
    BY <1>6, <2>2, <2>3, AppendProperties
  <2>5. i \in Nat /\ i >= 1 /\ \A j \in 1..i : j \in 1..n BY <1>4, <1>5
  <2> QED BY <2>2, <2>4, <2>5
<1>9. \A j \in 1..i + 1 : j = i + 1 \/ j \in 1..i BY <1>8
<1>10. /\ \A j \in 1..n : /\ h.takes[j].id \in Nat /\ h.takes[j].start \in Nat
                          /\ h.takes[j].id \in 1..h.lastTake /\ h.takes[j].start <= Count(h)
       /\ \A j, l \in 1..n : j < l => /\ h.takes[j].id < h.takes[l].id
                                      /\ h.takes[j].start <= h.takes[l].start
  <2>1. \A j \in 1..n : h.takes[j] \in ATake BY <1>4, ElementOfSeq DEF n
  <2> QED BY <1>1, <2>1 DEF TakesGood, n, ATake
<1>11. \A j \in 1..i : h.takes[j].start <= at
  <2> SUFFICES ASSUME NEW j \in 1..i PROVE h.takes[j].start <= at OBVIOUS
  <2>1. CASE j = i BY <1>5, <2>1
  <2>2. CASE j < i
    <3>1. h.takes[j].start <= h.takes[i].start BY <1>5, <1>8, <1>10, <2>2
    <3> QED BY <1>2, <1>5, <1>8, <1>10, <3>1 DEF at
  <2>3. j = i \/ j < i BY <1>8
  <2> QED BY <2>1, <2>2, <2>3
<1>12. TakesGood(k)
  <2>1. k.lastTake = h.lastTake + 1 /\ Count(k) = at /\ at \in Nat BY <1>2 DEF at
  <2>2. \A j \in 1..Len(t) : t[j].id \in 1..k.lastTake /\ t[j].start <= at
    <3> SUFFICES ASSUME NEW j \in 1..i + 1
                 PROVE  t[j].id \in 1..k.lastTake /\ t[j].start <= at
      BY <1>8
    <3>1. CASE j = i + 1 BY <1>4, <1>6, <1>8, <2>1, <3>1
    <3>2. CASE j \in 1..i
      <4>1. t[j] = h.takes[j] /\ h.takes[j].id \in 1..h.lastTake BY <1>8, <1>10, <3>2
      <4>2. h.takes[j].id \in 1..h.lastTake + 1 BY <1>4, <4>1
      <4> QED BY <1>11, <2>1, <3>2, <4>1, <4>2
    <3> QED BY <1>9, <3>1, <3>2
  <2>3. \A j, l \in 1..Len(t) : j < l => t[j].id < t[l].id /\ t[j].start <= t[l].start
    <3> SUFFICES ASSUME NEW j \in 1..i + 1, NEW l \in 1..i + 1, j < l
                 PROVE  t[j].id < t[l].id /\ t[j].start <= t[l].start
      BY <1>8
    <3>1. j \in 1..i BY <1>8
    <3>2. t[j] = h.takes[j] /\ j \in 1..n BY <1>8, <3>1
    <3>3. CASE l = i + 1
      <4>1. h.takes[j].id < h.lastTake + 1 BY <1>4, <1>10, <3>2
      <4> QED BY <1>6, <1>8, <1>11, <3>1, <3>2, <3>3, <4>1
    <3>4. CASE l \in 1..i BY <1>8, <1>10, <3>2, <3>4
    <3> QED BY <1>9, <3>3, <3>4
  <2> QED BY <2>1, <2>2, <2>3 DEF TakesGood, t
<1>13. k.takes # <<>> /\ Last(k.takes) = e
  <2>1. Len(t) # 0 /\ Len(<<>>) = 0 BY <1>8
  <2> QED BY <1>8, <2>1 DEF Last, t
<1>14. k.state = h.state /\ k.session = h.session /\ k.rtOn = FALSE
  <2>1. h.rtOn = FALSE BY <1>1 DEF Glue
  <2> QED BY <1>2, <2>1 DEF SameRun, SameTime
<1>15. Ended(k) BY <1>2, <1>14 DEF Ended, at
<1>16. ContinuousIn(k)
  <2>1. Len(ShownOf(k)) = at /\ Len(ShownOf(h)) = Count(h)
    BY <1>1, <1>2, ShownTyped DEF at
  <2> SUFFICES ASSUME NEW x \in 2..at
               PROVE  Cut(k.segs, x - 1) \/ Link(ShownOf(k)[x - 1], ShownOf(k)[x])
    BY <2>1 DEF ContinuousIn
  <2>2. at \in Nat /\ at <= Count(h) BY <1>2 DEF at
  <2>3. /\ x \in 2..Count(h) /\ x \in 1..at /\ x - 1 \in 1..at /\ x - 1 \in Nat /\ x - 1 < at
    BY <1>4, <2>2
  <2>4. Cut(h.segs, x - 1) \/ Link(ShownOf(h)[x - 1], ShownOf(h)[x])
    BY <1>1, <2>1, <2>3 DEF ContinuousIn
  <2>5. ShownOf(k)[x] = ShownOf(h)[x] /\ ShownOf(k)[x - 1] = ShownOf(h)[x - 1]
    BY <1>2, <2>3 DEF at
  <2>6. Cut(h.segs, x - 1) => Cut(k.segs, x - 1) BY <1>1, <1>2, <2>3 DEF at
  <2> QED BY <2>4, <2>5, <2>6
<1>17. HistGood(k) BY <1>1, <1>2, <1>6, <1>12, <1>13, <1>14, <1>15, <1>16 DEF HistGood
<1>18. ASSUME NEW info \in Point, NEW d \in Nat, SnapGood(h, info, d)
       PROVE  SnapGood(k, info, d)
  <2> SUFFICES ASSUME info.session = k.session
               PROVE  /\ info.take <= k.lastTake
                      /\ info.take = Last(k.takes).id => info.frame <= Count(k)
                      /\ TakesOf(k, info) # {} => AtPoint(k, info.frame, d)
    BY DEF SnapGood
  <2>1. info.take \in Nat /\ info.frame \in Nat BY DEF Point
  <2>2. /\ info.take <= h.lastTake
        /\ TakesOf(h, info) # {} => AtPoint(h, info.frame, d)
    BY <1>14, <1>18 DEF SnapGood
  <2>3. info.take <= k.lastTake /\ info.take # e.id BY <1>2, <1>4, <1>6, <2>1, <2>2
  <2>4. ASSUME NEW j \in TakesOf(k, info)
        PROVE  j \in TakesOf(h, info) /\ info.frame <= at
    <3>1. DOMAIN t = 1..i + 1 BY <1>8
    <3>2. /\ j \in 1..i + 1 /\ t[j].id = info.take /\ ~t[j].rt /\ t[j].start <= info.frame
          /\ j < i + 1 => info.frame <= t[j + 1].start
      BY <1>8, <3>1 DEF TakesOf, t
    <3>3. j # i + 1 BY <1>8, <2>3, <3>2
    <3>4. j \in 1..i /\ j < i + 1 BY <1>8, <3>2, <3>3
    <3>5. t[j] = h.takes[j] /\ j \in 1..n BY <1>8, <3>4
    <3>6. /\ j \in DOMAIN h.takes /\ h.takes[j].id = info.take /\ ~h.takes[j].rt
          /\ h.takes[j].start <= info.frame
      BY <1>4, <3>2, <3>5
    <3>7. CASE j < i
      <4>1. j + 1 \in 1..i /\ j < n /\ j + 1 \in 1..n BY <1>4, <1>5, <1>8, <3>4, <3>7
      <4>2. info.frame <= h.takes[j + 1].start BY <1>8, <3>2, <3>4, <4>1
      <4>3. h.takes[j + 1].start <= at BY <1>11, <4>1
      <4>4. h.takes[j + 1].start \in Nat /\ at \in Nat BY <1>2, <1>10, <4>1 DEF at
      <4>5. info.frame <= at BY <2>1, <4>2, <4>3, <4>4
      <4> QED BY <3>6, <4>1, <4>2, <4>5 DEF TakesOf, n
    <3>8. CASE j = i
      <4>1. t[j + 1] = e BY <1>8, <3>8
      <4>2. info.frame <= at BY <1>6, <3>2, <3>4, <4>1
      <4>3. at \in Nat BY <1>2 DEF at
      <4>4. info.frame <= IF i < n THEN h.takes[i + 1].start ELSE Count(h)
        <5>1. CASE i < n
          <6>1. h.takes[i + 1].start \in Nat /\ at <= h.takes[i + 1].start
            <7>1. i + 1 \in 1..n BY <1>4, <1>8, <5>1
            <7> QED BY <1>5, <1>10, <5>1, <7>1
          <6> QED BY <2>1, <4>2, <4>3, <5>1, <6>1
        <5>2. CASE ~(i < n)
          <6>1. at <= Count(h) BY <1>5, <5>2
          <6> QED BY <1>4, <2>1, <4>2, <4>3, <5>2, <6>1
        <5> QED BY <5>1, <5>2
      <4> QED BY <3>6, <3>8, <4>2, <4>4 DEF TakesOf, n
    <3>9. j < i \/ j = i BY <1>8, <3>4
    <3> QED BY <3>7, <3>8, <3>9
  <2>5. ASSUME NEW j \in TakesOf(k, info) PROVE AtPoint(k, info.frame, d)
    <3>1. AtPoint(h, info.frame, d) /\ info.frame <= at BY <2>2, <2>4, <2>5
    <3>2. CASE info.frame = 0 BY <3>2 DEF AtPoint
    <3>3. CASE info.frame \in h.pauses
      <4>1. info.frame \in k.pauses BY <1>2, <3>1, <3>3 DEF at
      <4> QED BY <4>1 DEF AtPoint
    <3>4. CASE /\ info.frame \in 1..Count(h) /\ ShownOf(h)[info.frame] # Blank
               /\ ShownOf(h)[info.frame].id = d
      <4>1. at \in Nat /\ Count(k) = at BY <1>2 DEF at
      <4>2. info.frame \in 1..at BY <1>4, <3>1, <3>4, <4>1
      <4>3. ShownOf(k)[info.frame] = ShownOf(h)[info.frame] BY <1>2, <4>2 DEF at
      <4> QED BY <3>4, <4>1, <4>2, <4>3 DEF AtPoint
    <3> QED BY <3>1, <3>2, <3>3, <3>4 DEF AtPoint
  <2> QED BY <1>13, <2>3, <2>5
<1>19. Meets(k, c)
  <2> SUFFICES ASSUME k.state = "recording"
               PROVE  \/ Count(k) = 0 \/ Cut(k.segs, Count(k))
                      \/ Tip(k) # Blank /\ Tip(k).id = c
    BY DEF Meets
  <2>1. AtPoint(h, at, c) BY DEF SnapGood, at
  <2>2. Count(k) = at /\ at \in Nat BY <1>2 DEF at
  <2>3. CASE at = 0 BY <2>2, <2>3
  <2>4. CASE at \in h.pauses
    <3>1. Cut(k.segs, at) BY <1>1, <1>2, <1>14, <2>4 DEF at
    <3> QED BY <2>2, <3>1
  <2>5. CASE at \in 1..Count(h) /\ ShownOf(h)[at] # Blank /\ ShownOf(h)[at].id = c
    <3>1. at \in 1..at BY <1>4, <2>2, <2>5
    <3>2. ShownOf(k)[at] = ShownOf(h)[at] BY <1>2, <3>1 DEF at
    <3> QED BY <2>2, <2>5, <3>2 DEF Tip
  <2> QED BY <2>1, <2>3, <2>4, <2>5 DEF AtPoint
<1> QED BY <1>2, <1>14, <1>17, <1>18, <1>19 DEF Tells, Remembers, k

\* Before the point of a retake the frames are written, which shows no other.
LEMMA HeldTells ==
  ASSUME NEW h, Shape(h), ~h.rtOn, HistGood(h), Retakes(h)
  PROVE  LET f == FlushUntil(h, h.snapInfo.frame)
             k == Push(f, [type |-> "sync", n |-> f.next])
         IN Tells(h, k) /\ ~k.rtOn /\ k.reqSnap = h.reqSnap /\ k.snapInfo = h.snapInfo
<1> DEFINE f == FlushUntil(h, h.snapInfo.frame)
           m == [type |-> "sync", n |-> f.next]
           k == Push(f, m)
<1>1. h \in Glue /\ Counted(h) BY DEF HistGood
<1>2. h.snapInfo.frame \in Nat /\ h.snapInfo.frame <= Count(h)
  BY <1>1 DEF Glue, Point, Retakes
<1>3. /\ f \in Glue /\ Counted(f) /\ ShownOf(f) = ShownOf(h) /\ Count(f) = Count(h)
      /\ SameRun(h, f) /\ SameSegs(h, f) /\ SameTakes(h, f)
      /\ SameTime(h, f) /\ SameAsked(h, f)
  BY <1>1, <1>2, FlushUntilFields
<1> HIDE DEF f
<1>4. m \in Plain \cup Sidecar BY <1>3 DEF Glue, Plain
<1> HIDE DEF m
<1>5. /\ k \in Glue
      /\ SameRun(f, k) /\ SameFilm(f, k) /\ SameSegs(f, k) /\ SameTakes(f, k)
      /\ SameTime(f, k) /\ SameAsked(f, k)
  BY <1>3, <1>4, PushFields
<1> HIDE DEF k
<1>6. /\ k.segs = h.segs /\ k.open = h.open /\ k.state = h.state /\ k.rtOn = h.rtOn
      /\ k.fifo = h.fifo /\ k.reqSnap = h.reqSnap /\ k.snapInfo = h.snapInfo
      /\ SameRun(h, k) /\ SameSegs(h, k) /\ SameTakes(h, k)
  BY <1>3, <1>5 DEF SameRun, SameSegs, SameTakes, SameTime, SameAsked
<1>7. Counted(k) /\ SameShown(h, k)
  BY <1>3, <1>5 DEF SameFilm, Counted, SameShown, ShownOf, Count
<1>8. SegStep(h, k)
  <2>1. Pos(k) = Pos(h) BY <1>6, <1>7 DEF Pos, SameShown
  <2>2. SegsRight(h) => SegsRight(k) BY <1>6, <2>1 DEF SegsRight
  <2> QED BY <1>6, <2>2, SameSegsStep
<1>9. Tells(h, k) BY <1>5, <1>6, <1>7, <1>8, SameTells
<1> QED BY <1>6, <1>9 DEF k, m, f

\* A frame of a recording ends, or waits for the writer.
LEMMA FrameEmulatedTells ==
  ASSUME TypeInv, Unlocked, FrameEmulated, ThisFrame \in Taped, ThisFrame.prev = cur,
         HistGood(g), RtJoin(g), ~g.reqSnap => Join(g, cur)
  PROVE  \/ g'.state = "idle" /\ ~g'.reqSnap /\ held' = Blank
         \/ /\ Tells(g, g') /\ ~g'.rtOn /\ ~g'.reqSnap /\ held' = Blank
            /\ Join(g', ThisFrame.id)
         \/ /\ Tells(g, g') /\ ~g'.rtOn /\ held' = ThisFrame
            /\ g'.reqSnap /\ g.reqSnap /\ g'.snapInfo = g.snapInfo
<1> DEFINE h == AtFrameEnd(g)
<1>1. Shape(g) BY DEF TypeInv
<1>2. /\ Shape(h) /\ ~h.rtOn /\ Tells(g, h)
      /\ h.reqSnap = g.reqSnap /\ h.snapInfo = g.snapInfo
      /\ \A c : Join(g, c) => Meets(h, c)
  BY <1>1, AtFrameEndTells
<1>3. \/ g' = Finalize(h) /\ held' = Blank
      \/ /\ h.reqSnap /\ Retakes(h)
         /\ g' = Push(FlushUntil(h, h.snapInfo.frame),
                      [type |-> "sync", n |-> FlushUntil(h, h.snapInfo.frame).next])
         /\ held' = ThisFrame
      \/ g' = FinishFrame(Seamed(h), ThisFrame) /\ held' = Blank
  BY DEF FrameEmulated, AtFrameEnd, Seamed
<1> HIDE DEF h
<1>4. HistGood(h) BY <1>2 DEF Tells
<1>5. CASE g' = Finalize(h) /\ held' = Blank
  BY <1>2, <1>5, EndGoes DEF Ends
<1>6. CASE g' = FinishFrame(Seamed(h), ThisFrame) /\ held' = Blank
  <2> DEFINE s == Seamed(h)
  <2>1. ~h.reqSnap => Meets(h, cur) BY <1>2
  <2>2. Shape(s) /\ ~s.rtOn /\ ~s.reqSnap /\ Tells(h, s) /\ Meets(s, cur)
    BY <1>2, <1>4, <2>1, SeamedTells
  <2>3. g' = FinishFrame(s, ThisFrame) BY <1>6
  <2> HIDE DEF s
  <2>4. HistGood(s) BY <2>2 DEF Tells
  <2>5. Meets(s, ThisFrame.prev) BY <2>2
  <2>6. \/ g'.state = "idle" /\ ~g'.reqSnap
        \/ Tells(s, g') /\ ~g'.rtOn /\ g'.reqSnap = s.reqSnap /\ Join(g', ThisFrame.id)
    BY <2>2, <2>3, <2>4, <2>5, FinishFrameTells
  <2>7. Tells(s, g') => Tells(g, g') BY <1>2, <2>2, TellsOn
  <2> QED BY <1>6, <2>2, <2>6, <2>7
<1>7. CASE /\ h.reqSnap /\ Retakes(h)
           /\ g' = Push(FlushUntil(h, h.snapInfo.frame),
                        [type |-> "sync", n |-> FlushUntil(h, h.snapInfo.frame).next])
           /\ held' = ThisFrame
  <2>1. Tells(h, g') /\ ~g'.rtOn /\ g'.reqSnap = h.reqSnap /\ g'.snapInfo = h.snapInfo
    BY <1>2, <1>4, <1>7, HeldTells
  <2> QED BY <1>2, <1>7, <2>1, TellsOn
<1> QED BY <1>3, <1>5, <1>6, <1>7

\* The retake goes on when the writer has come to it.
LEMMA AfterSyncTells ==
  ASSUME TypeInv, AfterSync, HistGood(g), SnapGood(g, g.snapInfo, held.prev), g.reqSnap
  PROVE  \/ g'.state = "idle" /\ ~g'.reqSnap
         \/ Tells(g, g') /\ ~g'.rtOn /\ ~g'.reqSnap /\ Join(g', held.id)
<1>1. /\ Shape(g) /\ held \in Taped /\ ~g.rtOn
      /\ g.snapInfo.session = g.session /\ g.snapInfo.frame <= g.next
      /\ TakesOf(g, g.snapInfo) # {}
  BY DEF TypeInv, AfterSync, Unlocked, Taped, Retakes
<1> DEFINE r == RetakeOrSeam(g)
<1>2. g' = FinishFrame(r, held) BY DEF AfterSync
<1>3. r = Seamed(g) \/ r = Retake(g) BY DEF RetakeOrSeam, Seamed
<1>4. Shape(r) /\ ~r.rtOn /\ ~r.reqSnap /\ Tells(g, r) /\ Meets(r, held.prev)
  <2>1. CASE r = Seamed(g) BY <1>1, <2>1, SeamedTells
  <2>2. CASE r = Retake(g)
    <3>1. ~r.rtOn /\ ~r.reqSnap /\ Tells(g, r) /\ Meets(r, held.prev)
      BY <1>1, <2>2, RetakeTells
    <3>2. r \in Glue /\ Counted(r) /\ r.pend = <<>> /\ SameRun(g, r) /\ SameTime(g, r)
      <4>1. g \in Glue /\ Counted(g) /\ g.state # "idle" BY DEF HistGood
      <4> QED BY <1>1, <2>2, <4>1, RetakeFields
    <3>3. r.takes # <<>> BY <3>1 DEF Tells, HistGood
    <3>4. Len(r.pend) <= MaxPending
      <4>1. Len(<<>>) = 0 OBVIOUS
      <4> QED BY <3>2, <4>1, RecordingAssumption
    <3>5. Shape(r) BY <1>1, <3>2, <3>3, <3>4 DEF Shape, SameRun, SameTime
    <3> QED BY <3>1, <3>5
  <2> QED BY <1>3, <2>1, <2>2
<1> HIDE DEF r
<1>5. HistGood(r) BY <1>4 DEF Tells
<1>6. \/ g'.state = "idle" /\ ~g'.reqSnap
      \/ Tells(r, g') /\ ~g'.rtOn /\ g'.reqSnap = r.reqSnap /\ Join(g', held.id)
  BY <1>1, <1>2, <1>4, <1>5, FinishFrameTells
<1> QED BY <1>4, <1>6, TellsOn

\* A tick of the sampler.
LEMMA TickTells ==
  ASSUME TypeInv, NEW due \in Nat, NEW n \in Nat, NEW paused \in BOOLEAN, Tick(due, n, paused),
         HistGood(g), RtJoin(g), g.reqSnap => g.req
  PROVE  \/ g'.state = "idle" /\ ~g'.reqSnap
         \/ /\ Tells(g, g') /\ RtJoin(g')
            /\ g'.reqSnap => g.reqSnap /\ g'.snapInfo = g.snapInfo /\ g'.req
            /\ ~g'.reqSnap => g'.rtOn \/ (~g.reqSnap /\ \A c : Join(g, c) => Join(g', c))
<1> DEFINE h == Rebased(g)  r == RtRequests(h)  k == Ticks(r, due, n, paused)
<1>1. Shape(g) /\ want \in BOOLEAN BY DEF TypeInv
<1>2. g' = IF failedGen = g.session THEN Finalize(g)
           ELSE IF ~h.rtOn \/ h.leaving THEN h ELSE k
  BY DEF Tick
<1>3. /\ Shape(h) /\ Tells(g, h) /\ RtJoin(h)
      /\ h.reqSnap = g.reqSnap /\ h.snapInfo = g.snapInfo /\ (g.req => h.req)
      /\ \A c : Join(g, c) => Join(h, c)
  BY <1>1, RebasedTells
<1> HIDE DEF h
<1>4. CASE failedGen = g.session
  BY <1>1, <1>2, <1>4, EndGoes DEF Ends
<1>5. CASE failedGen # g.session /\ (~h.rtOn \/ h.leaving)
  BY <1>2, <1>3, <1>5
<1>6. CASE failedGen # g.session /\ h.rtOn /\ ~h.leaving
  <2>1. g' = k BY <1>2, <1>6
  <2>2. HistGood(h) BY <1>3 DEF Tells
  <2>3. \/ r.state = "idle" /\ ~r.reqSnap
        \/ Tells(h, r) /\ RtJoin(r) /\ r.rtOn /\ ~r.reqSnap
    BY <1>3, <1>6, <2>2, RtRequestsTells
  <2>4. Shape(r) BY <1>3, <1>6, RtRequestsGoes
  <2> HIDE DEF r
  <2>5. CASE r.state = "idle" /\ ~r.reqSnap
    <3>1. k = r BY <2>5 DEF Ticks
    <3> QED BY <2>1, <2>5, <3>1
  <2>6. CASE Tells(h, r) /\ RtJoin(r) /\ r.rtOn /\ ~r.reqSnap
    <3>1. HistGood(r) BY <2>6 DEF Tells
    <3>2. \/ k.state = "idle" /\ ~k.reqSnap
          \/ Tells(r, k) /\ RtJoin(k) /\ k.rtOn /\ k.reqSnap = r.reqSnap
      BY <2>4, <2>6, <3>1, TicksTells
    <3> HIDE DEF k
    <3>3. Tells(g, r) BY <1>3, <2>6, TellsOn
    <3>4. Tells(r, k) => Tells(g, k) BY <3>3, TellsOn
    <3> QED BY <2>1, <2>6, <3>2, <3>4
  <2> QED BY <2>3, <2>5, <2>6
<1> QED BY <1>4, <1>5, <1>6

\* The point a snapshot of this moment returns to is the frame of this moment.
LEMMA SnapInfoGood ==
  ASSUME TypeInv, HistInv, held = Blank
  PROVE  /\ SnapInfo.session <= g.session
         /\ ~Idle => SnapGood(g, SnapInfo, cur)
<1>1. Shape(g) /\ g \in Glue /\ Counted(g) /\ g.session \in Nat
  <2>1. Shape(g) /\ g \in Glue /\ Counted(g) BY DEF TypeInv, Shape
  <2>2. g.session \in 0..MaxSessions BY <2>1 DEF Glue
  <2> QED BY <2>1, <2>2, VideoRecAssumption
<1>2. CASE Idle
  <2>1. SnapInfo.session = 0 BY <1>2 DEF SnapInfo, NoInfo
  <2> QED BY <1>1, <1>2, <2>1
<1>3. CASE ~Idle
  <2> DEFINE t == IF g.reqSnap THEN 0 ELSE Last(g.takes).id  n == Count(g)
  <2>1. /\ SnapInfo.session = g.session /\ SnapInfo.frame = n /\ SnapInfo.take = t
    BY <1>3 DEF SnapInfo
  <2>2. /\ TakesGood(g) /\ Ended(g) /\ Last(g.takes).rt = g.rtOn
        /\ ~g.reqSnap => Join(g, cur)
    BY <1>3 DEF HistInv
  <2>3. g.takes \in Seq(ATake) /\ g.takes # <<>> /\ g.lastTake \in Nat /\ n \in Nat
    BY <1>1, <1>3, PosFields DEF Shape, Glue, Idle
  <2>4. Len(g.takes) \in Nat \ {0} /\ Last(g.takes) = g.takes[Len(g.takes)]
        /\ Last(g.takes) \in ATake
    BY <2>3, EmptySeq, FrontLast
  <2>5. \A i \in 1..Len(g.takes) : g.takes[i].id \in 1..g.lastTake BY <2>2 DEF TakesGood
  <2>6. Last(g.takes).id \in 1..g.lastTake BY <2>4, <2>5
  <2>7. t \in Nat /\ t <= g.lastTake /\ n <= n BY <2>3, <2>6
  <2>8. ASSUME TakesOf(g, SnapInfo) # {} PROVE AtPoint(g, n, cur)
    <3>1. PICK i \in 1..Len(g.takes) : g.takes[i].id = t /\ ~g.takes[i].rt
      BY <2>1, <2>3, <2>8 DEF TakesOf
    <3>2. t # 0 BY <2>5, <3>1, <2>3
    <3>3. ~g.reqSnap /\ t = Last(g.takes).id BY <3>2
    <3>4. i = Len(g.takes)
      <4>1. \A x, y \in 1..Len(g.takes) : x < y => g.takes[x].id < g.takes[y].id
        BY <2>2 DEF TakesGood
      <4>2. Len(g.takes) \in 1..Len(g.takes) BY <2>4
      <4>3. g.takes[i].id = g.takes[Len(g.takes)].id BY <2>4, <3>1, <3>3
      <4>4. i < Len(g.takes) => g.takes[i].id < g.takes[Len(g.takes)].id BY <4>1, <4>2
      <4>5. g.takes[i].id \in Nat BY <2>5, <2>3
      <4> QED BY <2>4, <4>3, <4>4, <4>5
    <3>5. ~g.rtOn /\ Join(g, cur) BY <2>2, <2>4, <3>1, <3>3, <3>4
    <3>6. CASE g.state = "recording"
      <4>1. n = 0 \/ (Tip(g) # Blank /\ Tip(g).id = cur) BY <3>5, <3>6 DEF Join
      <4>2. n # 0 => n \in 1..n BY <2>3
      <4> QED BY <4>1, <4>2 DEF AtPoint, Tip
    <3>7. CASE g.state = "paused"
      BY <2>2, <3>7 DEF Ended, AtPoint
    <3>8. g.state \in {"idle", "recording", "paused"} BY <1>1 DEF Glue
    <3> QED BY <1>3, <3>6, <3>7, <3>8 DEF Idle
  <2>9. SnapGood(g, SnapInfo, cur) BY <2>1, <2>7, <2>8 DEF SnapGood
  <2> QED BY <1>1, <2>1, <2>9
<1> QED BY <1>2, <1>3

\* At the start nothing is recorded.
LEMMA HistInit ==
  ASSUME Init
  PROVE  HistInv
BY DEF Init, NoSession, NoInfo, HistInv, Idle

\* Every step keeps the history, if a load in real time is seen before a frame ends.
LEMMA HistNext ==
  ASSUME TypeInv, SegInv, HistInv, ~LateLoad, [Next]_vars
  PROVE  HistInv'
<1>1. /\ Shape(g) /\ g \in Glue /\ Counted(g) /\ held \in Frame
      /\ snap.info \in Point /\ snap.cur \in Nat /\ cur \in Nat
      /\ held # Blank => ~Idle /\ ~g.rtOn
      /\ g.snapInfo \in Point /\ Before \in Nat /\ want \in BOOLEAN
      /\ g.session \in Nat /\ snap.info.session \in Nat
  <2>1. /\ Shape(g) /\ g \in Glue /\ Counted(g) /\ held \in Frame
        /\ snap.info \in Point /\ snap.cur \in 0..MaxFrames /\ cur \in 0..MaxFrames
        /\ held # Blank => ~Idle /\ ~g.rtOn
        /\ want \in BOOLEAN
    BY DEF TypeInv, Shape
  <2>2. g.snapInfo \in Point /\ g.session \in 0..MaxSessions BY <2>1 DEF Glue
  <2>3. held.prev \in 0..MaxFrames BY <2>1 DEF Frame
  <2>4. snap.info.session \in 0..MaxSessions BY <2>1 DEF Point
  <2>5. Before \in 0..MaxFrames BY <2>1, <2>3 DEF Before
  <2> QED BY <2>1, <2>2, <2>4, <2>5, VideoRecAssumption
<1>2. /\ snap.info.session <= g.session
      /\ held # Blank => g.reqSnap /\ held.id = cur
      /\ held = Blank /\ g.reqSnap => g.req
      /\ Idle => g.content = <<>> /\ g.pend = <<>>
      /\ ~Idle => /\ HistGood(g) /\ RtJoin(g)
                  /\ SnapGood(g, snap.info, snap.cur)
                  /\ g.reqSnap => SnapGood(g, g.snapInfo, Before)
                  /\ held = Blank /\ ~g.reqSnap => Join(g, cur)
  <2>1. ~Idle => g.takes # <<>> /\ SegsRight(g) BY <1>1 DEF Shape, Idle, SegInv
  <2> QED BY <1>1, <2>1 DEF HistInv, HistGood, Idle
\* The recording goes on, or its end leaves nothing.
<1>3. ASSUME g'.session = g.session, snap' = snap,
             held' # Blank => g'.reqSnap /\ held'.id = cur',
             held' = Blank /\ g'.reqSnap => g'.req,
             \/ g'.state = "idle" /\ g'.content = <<>> /\ g'.pend = <<>>
             \/ /\ ~Idle /\ Tells(g, g') /\ RtJoin(g')
                /\ g'.reqSnap => g.reqSnap /\ g'.snapInfo = g.snapInfo /\ Before' = Before
                /\ held' = Blank /\ ~g'.reqSnap => Join(g', cur')
      PROVE  HistInv'
  <2>1. CASE g'.state = "idle" /\ g'.content = <<>> /\ g'.pend = <<>>
    <3>1. Idle' BY <2>1 DEF Idle
    <3> QED BY <1>2, <1>3, <2>1, <3>1 DEF HistInv
  <2>2. CASE /\ ~Idle /\ Tells(g, g') /\ RtJoin(g')
             /\ g'.reqSnap => g.reqSnap /\ g'.snapInfo = g.snapInfo /\ Before' = Before
             /\ held' = Blank /\ ~g'.reqSnap => Join(g', cur')
    <3>1. /\ HistGood(g')
          /\ \A info \in Point, c \in Nat : SnapGood(g, info, c) => SnapGood(g', info, c)
      BY <2>2 DEF Tells, Remembers
    <3>2. SnapGood(g', snap'.info, snap'.cur) BY <1>1, <1>2, <1>3, <2>2, <3>1
    <3>3. g'.reqSnap => SnapGood(g', g'.snapInfo, Before') BY <1>1, <1>2, <2>2, <3>1
    <3>4. ~Idle' /\ TakesGood(g') /\ Ended(g') /\ Last(g'.takes).rt = g'.rtOn /\ ContinuousIn(g')
      BY <3>1 DEF HistGood, Idle
    <3> QED BY <1>2, <1>3, <2>2, <3>2, <3>3, <3>4 DEF HistInv
  <2> QED BY <1>3, <2>1, <2>2
\* Only flags change, and no request of a snapshot.
<1>4. ASSUME g' \in Glue, OnlyFlags(g, g'), g'.reqSnap = g.reqSnap, g'.snapInfo = g.snapInfo,
             held' = held, snap' = snap,
             held' = Blank /\ g'.reqSnap => g'.req,
             cur' = cur \/ (g'.rtOn /\ ~g'.reqSnap /\ held' = Blank)
      PROVE  HistInv'
  <2>1. /\ g'.session = g.session /\ g'.state = g.state
        /\ g'.content = g.content /\ g'.pend = g.pend
    BY <1>4 DEF OnlyFlags, SameRun, SameFilm
  <2>2. held' # Blank => g'.reqSnap /\ held'.id = cur' BY <1>2, <1>4
  <2>3. CASE Idle
    <3>1. g'.state = "idle" /\ g'.content = <<>> /\ g'.pend = <<>> BY <1>2, <2>1, <2>3 DEF Idle
    <3> QED BY <1>3, <1>4, <2>1, <2>2, <3>1
  <2>4. CASE ~Idle
    <3>1. /\ Tells(g, g') /\ RtJoin(g')
          /\ \A c : Join(g, c) => Join(g', c)
      BY <1>1, <1>2, <1>4, <2>4, FlagsTell
    <3>2. g'.reqSnap => Before' = Before BY <1>4 DEF Before
    <3>3. held' = Blank /\ ~g'.reqSnap => Join(g', cur')
      <4>1. CASE cur' = cur BY <1>2, <1>4, <2>4, <3>1, <4>1
      <4>2. CASE g'.rtOn BY <4>2 DEF Join
      <4> QED BY <1>4, <4>1, <4>2
    <3> QED BY <1>3, <1>4, <2>1, <2>2, <2>4, <3>1, <3>2, <3>3
  <2> QED BY <2>3, <2>4
<1>5. ASSUME g' = g, held' = held, snap' = snap, cur' = cur PROVE HistInv'
  <2>1. OnlyFlags(g, g')
    BY <1>1, <1>5 DEF OnlyFlags, SameRun, SameFilm, SameSegs, SameTakes, Shape
  <2> QED BY <1>1, <1>2, <1>4, <1>5, <2>1
\* The recording ends.
<1>6. ASSUME Ends(g, g'), held' = Blank, snap' = snap PROVE HistInv'
  <2>1. /\ g'.session = g.session /\ g'.state = "idle" /\ ~g'.reqSnap
        /\ g'.content = <<>> /\ g'.pend = <<>>
    BY <1>6 DEF Ends
  <2> QED BY <1>3, <1>6, <2>1
<1>7. CASE FrameEnd
  <2>1. held = Blank /\ NextFrame /\ (Idle => g.session < MaxSessions)
    BY <1>7 DEF FrameEnd, Emulating, Unlocked
  <2>2. /\ snap' = snap /\ cur' \in 0..MaxFrames
        /\ ~Idle => ThisFrame \in Taped /\ cur' = ThisFrame.id
        /\ ThisFrame.prev = cur /\ (Idle => cur' = cur)
    <3>1. Idle => cur' = cur BY <2>1 DEF NextFrame, NewId
    <3> QED BY <2>1, <3>1, FrameTyped
  <2>3. CASE FrameIgnored
    <3>1. /\ g' = g /\ held' = held /\ ~g.req /\ (Idle \/ g.rtOn) BY <2>3 DEF FrameIgnored
    <3>2. ~g.reqSnap BY <1>2, <2>1, <3>1
    <3>3. OnlyFlags(g, g')
      BY <1>1, <3>1 DEF OnlyFlags, SameRun, SameFilm, SameSegs, SameTakes, Shape
    <3> QED BY <1>1, <1>4, <2>1, <2>2, <3>1, <3>2, <3>3
  <2>4. CASE FrameIdle
    <3>1. /\ Idle /\ held' = held BY <2>4 DEF FrameIdle
    <3>2. /\ Shape(g') /\ ~g'.reqSnap
          /\ (~reqStart /\ OnlyAsked(g, g')) \/ (reqStart /\ Begins(g, g'))
      BY <2>1, <2>4, <3>1, FrameIdleBegins
    <3>3. CASE OnlyAsked(g, g')
      <4>1. /\ g'.session = g.session /\ g'.state = "idle"
            /\ g'.content = g.content /\ g'.pend = g.pend
        BY <3>1, <3>3 DEF OnlyAsked, SameRun, SameFilm, Idle
      <4> QED BY <1>2, <1>3, <2>1, <2>2, <3>1, <3>2, <4>1
    <3>4. CASE Begins(g, g') /\ reqStart
      <4> DEFINE h == [g EXCEPT !.req = FALSE, !.reqStop = FALSE, !.reqToggle = FALSE,
                                !.reqSnap = FALSE]
      <4>1. g' = Start(h, want) BY <2>4, <3>4 DEF FrameIdle
      <4>2. h \in Glue /\ h.session = g.session BY <1>1 DEF Glue
      <4> HIDE DEF h
      <4> DEFINE k == Start(h, want)
      <4>10. /\ k \in Glue /\ Counted(k) /\ k.state = "recording" /\ Count(k) = 0
             /\ k.session = h.session + 1 /\ TakesGood(k) /\ Last(k.takes).rt = k.rtOn
             /\ ~k.reqSnap
        BY <1>1, <2>1, <3>1, <4>2, StartFields
      <4> HIDE DEF k
      <4>11. g' = k BY <4>1 DEF k
      <4>3. /\ g' \in Glue /\ Counted(g') /\ g'.state = "recording" /\ Count(g') = 0
            /\ g'.session = g.session + 1 /\ TakesGood(g') /\ Last(g'.takes).rt = g'.rtOn
            /\ ~g'.reqSnap
        BY <4>2, <4>10, <4>11
      <4>4. ShownOf(g') \in Seq(Frame) /\ Len(ShownOf(g')) = 0 BY <4>3, ShownTyped
      <4>5. ContinuousIn(g')
        <5>1. 2..0 = {} OBVIOUS
        <5> QED BY <4>4, <5>1 DEF ContinuousIn
      <4>6. Ended(g') /\ RtJoin(g') /\ Join(g', cur') BY <4>3 DEF Ended, RtJoin, Join
      <4>7. /\ snap'.info.session # g'.session /\ snap'.info.session <= g'.session
        BY <1>1, <1>2, <2>2, <4>3
      <4>8. SnapGood(g', snap'.info, snap'.cur) BY <4>7 DEF SnapGood
      <4>9. ~Idle' /\ held' = Blank BY <2>1, <3>1, <4>3 DEF Idle
      <4> QED BY <4>3, <4>5, <4>6, <4>7, <4>8, <4>9 DEF HistInv
    <3> QED BY <3>2, <3>3, <3>4
  <2>5. CASE FrameSampled
    <3>1. ~g.reqSnap /\ g.rtOn /\ held' = held BY <2>5 DEF FrameSampled
    <3>2. /\ g' \in Glue /\ OnlyFlags(g, g')
          /\ g'.reqSnap = g.reqSnap /\ g'.snapInfo = g.snapInfo
      BY <2>5, FrameSampledFlags
    <3>3. g'.rtOn BY <3>1, <3>2 DEF OnlyFlags
    <3> QED BY <1>4, <2>1, <2>2, <3>1, <3>2, <3>3
  <2>6. CASE FrameEmulated
    <3>1. ~Idle BY <2>6 DEF FrameEmulated
    <3>2. \/ g'.state = "idle" /\ ~g'.reqSnap /\ held' = Blank
          \/ /\ Tells(g, g') /\ ~g'.rtOn /\ ~g'.reqSnap /\ held' = Blank
             /\ Join(g', ThisFrame.id)
          \/ /\ Tells(g, g') /\ ~g'.rtOn /\ held' = ThisFrame
             /\ g'.reqSnap /\ g.reqSnap /\ g'.snapInfo = g.snapInfo
      BY <1>2, <2>1, <2>2, <2>6, <3>1, FrameEmulatedTells DEF Unlocked
    <3>3. g'.state = "idle" /\ held' = Blank => Ends(g, g')
      <4>1. \/ held' = Blank /\ (Ends(g, g') \/ Goes(g, g'))
            \/ held' = ThisFrame
        BY <2>1, <2>2, <2>6, <3>1, FrameEmulatedGoes DEF Unlocked
      <4>2. ThisFrame # Blank BY <2>2, <3>1 DEF Taped
      <4>3. Goes(g, g') => g'.state # "idle" BY <3>1 DEF Goes, Idle
      <4> QED BY <4>1, <4>2, <4>3
    <3>4. CASE g'.state = "idle" /\ held' = Blank BY <1>6, <2>2, <3>3, <3>4
    <3>5. CASE /\ Tells(g, g') /\ ~g'.rtOn /\ ~g'.reqSnap /\ held' = Blank
               /\ Join(g', ThisFrame.id)
      <4>1. g'.session = g.session /\ RtJoin(g') BY <3>5 DEF Tells, Remembers, RtJoin
      <4> QED BY <1>3, <2>2, <3>1, <3>5, <4>1
    <3>6. CASE /\ Tells(g, g') /\ ~g'.rtOn /\ held' = ThisFrame
               /\ g'.reqSnap /\ g.reqSnap /\ g'.snapInfo = g.snapInfo
      <4>1. g'.session = g.session /\ RtJoin(g') BY <3>6 DEF Tells, Remembers, RtJoin
      <4>2. ThisFrame # Blank BY <2>2, <3>1 DEF Taped
      <4>3. Before' = Before BY <2>1, <2>2, <3>6, <4>2 DEF Before
      <4> QED BY <1>3, <2>2, <3>1, <3>6, <4>1, <4>2, <4>3
    <3> QED BY <3>2, <3>4, <3>5, <3>6
  <2> QED BY <1>7, <2>3, <2>4, <2>5, <2>6 DEF FrameEnd
<1>8. CASE AfterSync
  <2>1. held # Blank /\ held' = Blank /\ cur' = cur /\ snap' = snap
    BY <1>8 DEF AfterSync, Unlocked, machine
  <2>2. ~Idle /\ g.reqSnap /\ HistGood(g) /\ held.id = cur
        /\ SnapGood(g, g.snapInfo, held.prev)
    BY <1>1, <1>2, <2>1 DEF Before
  <2>3. \/ g'.state = "idle" /\ ~g'.reqSnap
        \/ Tells(g, g') /\ ~g'.rtOn /\ ~g'.reqSnap /\ Join(g', held.id)
    BY <1>8, <2>2, AfterSyncTells
  <2>4. CASE g'.state = "idle" /\ ~g'.reqSnap
    <3>1. \/ Ends(g, g') \/ Goes(g, g')
          \/ \E k \in Glue : TakenAgain(g, k) /\ (Ends(k, g') \/ Goes(k, g'))
      BY <1>8, AfterSyncGoes
    <3>2. ~Goes(g, g') BY <2>2, <2>4 DEF Goes, Idle
    <3>3. \A k \in Glue : TakenAgain(g, k) => ~Goes(k, g') /\ k.session = g.session
      BY <2>2, <2>4 DEF Goes, TakenAgain, Idle
    <3>4. \A k : Ends(k, g') => g'.session = k.session /\ g'.content = <<>> /\ g'.pend = <<>>
      BY DEF Ends
    <3>5. g'.session = g.session /\ g'.content = <<>> /\ g'.pend = <<>>
      BY <3>1, <3>2, <3>3, <3>4
    <3> QED BY <1>3, <2>1, <2>4, <3>5
  <2>5. CASE Tells(g, g') /\ ~g'.rtOn /\ ~g'.reqSnap /\ Join(g', held.id)
    <3>1. g'.session = g.session /\ RtJoin(g') BY <2>5 DEF Tells, Remembers, RtJoin
    <3> QED BY <1>3, <2>1, <2>2, <2>5, <3>1
  <2> QED BY <2>3, <2>4, <2>5
<1>9. CASE PausedTurn
  <2>1. held = Blank /\ UNCHANGED <<held, initialized, request, machine, writer>>
        /\ g' = (IF ~Idle /\ g.reqStop THEN Finalize(g) ELSE g)
    BY <1>9 DEF PausedTurn, Emulating, Unlocked
  <2>2. held' = Blank /\ snap' = snap /\ cur' = cur /\ held' = held BY <2>1 DEF machine
  <2>3. CASE ~Idle /\ g.reqStop
    <3>1. Ends(g, g') BY <1>1, <2>1, <2>3, EndGoes
    <3> QED BY <1>6, <2>2, <3>1
  <2>4. CASE ~(~Idle /\ g.reqStop) BY <1>5, <2>1, <2>2, <2>4
  <2> QED BY <2>3, <2>4
<1>10. CASE Save
  <2>1. held = Blank /\ snap' = [cur |-> cur, info |-> SnapInfo]
        /\ g' = g /\ held' = held /\ cur' = cur
    BY <1>10 DEF Save, Emulating, Unlocked
  <2>2. /\ SnapInfo.session <= g.session
        /\ ~Idle => SnapGood(g, SnapInfo, cur)
    BY <2>1, SnapInfoGood
  <2>3. snap'.info = SnapInfo /\ snap'.cur = cur BY <2>1
  <2>4. Before' = Before /\ (Idle' <=> Idle) BY <2>1 DEF Before, Idle
  <2> QED BY <1>2, <2>1, <2>2, <2>3, <2>4 DEF HistInv, HistGood
<1>11. CASE Load
  <2>1. held = Blank /\ held' = held /\ ~Idle BY <1>11 DEF Load, Emulating, Unlocked
  <2>2. /\ g' \in Glue /\ OnlyFlags(g, g') /\ g'.reqSnap /\ g'.snapInfo = snap.info /\ g'.req
        /\ cur' = snap.cur /\ snap' = snap
    BY <1>11, LoadFlags
  <2>3. Tells(g, g') /\ RtJoin(g') BY <1>1, <1>2, <2>1, <2>2, FlagsTell
  <2>4. /\ HistGood(g') /\ g'.session = g.session
        /\ \A info \in Point, c \in Nat : SnapGood(g, info, c) => SnapGood(g', info, c)
    BY <2>3 DEF Tells, Remembers
  <2>5. SnapGood(g', snap.info, snap.cur) BY <1>1, <1>2, <2>1, <2>4
  <2>6. Before' = snap.cur BY <2>1, <2>2 DEF Before
  <2>7. ~Idle' /\ TakesGood(g') /\ Ended(g') /\ Last(g'.takes).rt = g'.rtOn /\ ContinuousIn(g')
    BY <2>4 DEF HistGood, Idle
  <2> QED BY <1>2, <2>1, <2>2, <2>3, <2>4, <2>5, <2>6, <2>7 DEF HistInv
<1>12. CASE Exit
  <2>1. held = Blank /\ UNCHANGED <<held, want, turns, machine, writer>>
    BY <1>12 DEF Exit, Emulating, Unlocked
  <2>2. /\ g'.state = "idle" /\ g'.session = g.session
        /\ (g'.reqSnap => g.reqSnap) /\ g'.req = g.req
        /\ \E k : /\ (Idle /\ k = g) \/ (~Idle /\ Ends(g, k))
                  /\ g'.content = k.content /\ g'.pend = k.pend
    BY <1>12, ExitEnds
  <2>3. g'.content = <<>> /\ g'.pend = <<>> BY <1>2, <2>2 DEF Ends
  <2>4. held' = Blank /\ snap' = snap BY <2>1 DEF machine
  <2> QED BY <1>2, <1>3, <2>1, <2>2, <2>3, <2>4
<1>13. CASE Request
  <2>1. held = Blank /\ UNCHANGED <<held, initialized, machine, writer>>
    BY <1>13 DEF Request, RequestStart, RequestStop, PauseToggle, RequestTimebase, SpeedChange,
       PauseSet, Asks, Unlocked
  <2>2. held' = held /\ snap' = snap /\ cur' = cur BY <2>1 DEF machine
  <2> QED BY <1>2, <1>4, <1>13, <2>1, <2>2, RequestFlags
<1>14. CASE Writer
  <2>1. WriterTakes BY <1>14, WriterNext
  <2>2. /\ g' \in Glue /\ Shape(g')
        /\ SameRun(g, g') /\ SameFilm(g, g') /\ SameSegs(g, g') /\ SameTakes(g, g')
        /\ SameTime(g, g') /\ SameAsked(g, g')
    BY <2>1, WriterGlue
  <2>3. held' = held /\ snap' = snap /\ cur' = cur BY <2>1 DEF WriterTakes, machine
  <2>4. /\ g'.session = g.session /\ g'.state = g.state
        /\ g'.content = g.content /\ g'.pend = g.pend
        /\ g'.reqSnap = g.reqSnap /\ g'.snapInfo = g.snapInfo /\ g'.req = g.req
        /\ g'.rtOn = g.rtOn
    BY <2>2 DEF SameRun, SameFilm, SameAsked, SameTime
  <2>5. CASE Idle BY <1>2, <1>3, <2>3, <2>4, <2>5 DEF Idle
  <2>6. CASE ~Idle
    <3>1. Counted(g') /\ SameShown(g, g')
      BY <2>2, <2>4 DEF Shape, SameShown, ShownOf, Count, SameFilm
    <3>2. SegStep(g, g')
      <4>1. SegsRight(g) => SegsRight(g') BY <1>1, <2>2, SegsStay
      <4> QED BY <2>2, <4>1, SameSegsStep
    <3>3. Tells(g, g') /\ RtJoin(g') /\ \A c : Join(g, c) => Join(g', c)
      BY <1>2, <2>2, <2>4, <2>6, <3>1, <3>2, SameTells
    <3>4. Before' = Before BY <2>3 DEF Before
    <3> QED BY <1>2, <1>3, <2>3, <2>4, <2>6, <3>3, <3>4
  <2> QED BY <2>5, <2>6
<1>15. CASE \E k \in 1..Len(g.pend) : Horizon(k)
  <2>1. PICK k \in 1..Len(g.pend) : Horizon(k) BY <1>15
  <2>2. held = Blank /\ ~Idle /\ UNCHANGED <<held, initialized, request, machine, writer>>
    BY <2>1 DEF Horizon, Emulating, Unlocked
  <2>3. held' = held /\ snap' = snap /\ cur' = cur BY <2>2 DEF machine
  <2>4. /\ Shape(g') /\ Goes(g, g') /\ SameShown(g, g') /\ SameTime(g, g') /\ SameAsked(g, g')
        /\ SameSegs(g, g') /\ SameTakes(g, g') /\ SameRun(g, g')
    BY <2>1, HorizonGoes
  <2>5. /\ g' \in Glue /\ Counted(g') /\ SegStep(g, g') /\ g'.rtOn = g.rtOn
        /\ g'.session = g.session
        /\ g'.reqSnap = g.reqSnap /\ g'.snapInfo = g.snapInfo /\ g'.req = g.req
    BY <2>4 DEF Shape, Goes, SameTime, SameAsked
  <2>6. Tells(g, g') /\ RtJoin(g') /\ \A c : Join(g, c) => Join(g', c)
    BY <1>2, <2>2, <2>4, <2>5, SameTells
  <2>7. Before' = Before BY <2>3 DEF Before
  <2> QED BY <1>2, <1>3, <2>2, <2>3, <2>5, <2>6, <2>7
<1>16. CASE \E due \in 1..MaxDue, n \in 0..MaxDue, paused \in BOOLEAN :
              n <= due /\ Tick(due, n, paused)
  <2>1. PICK due \in 1..MaxDue, n \in 0..MaxDue, paused \in BOOLEAN : Tick(due, n, paused)
    BY <1>16
  <2>2. due \in Nat /\ n \in Nat BY VideoRecAssumption
  <2>3. held = Blank /\ UNCHANGED <<held, initialized, request, machine, writer>> /\ ~Idle
    BY <2>1 DEF Tick, Unlocked
  <2>4. held' = Blank /\ held' = held /\ snap' = snap /\ cur' = cur BY <2>3 DEF machine
  <2>5. Ends(g, g') \/ Goes(g, g') BY <2>1, <2>2, TickGoes
  <2>6. CASE Ends(g, g') BY <1>6, <2>4, <2>6
  <2>7. CASE Goes(g, g')
    <3>1. g'.session = g.session /\ g'.state # "idle" BY <2>3, <2>7 DEF Goes, Idle
    <3>2. /\ Tells(g, g') /\ RtJoin(g')
          /\ g'.reqSnap => g.reqSnap /\ g'.snapInfo = g.snapInfo /\ g'.req
          /\ ~g'.reqSnap => g'.rtOn \/ (~g.reqSnap /\ \A c : Join(g, c) => Join(g', c))
      BY <1>2, <2>1, <2>2, <2>3, <3>1, TickTells
    <3>3. ~g'.reqSnap => Join(g', cur')
      <4>1. g'.rtOn => Join(g', cur') BY DEF Join
      <4> QED BY <1>2, <2>3, <2>4, <3>2, <4>1
    <3>4. Before' = Before BY <2>4 DEF Before
    <3> QED BY <1>3, <2>3, <2>4, <3>1, <3>2, <3>3, <3>4
  <2> QED BY <2>5, <2>6, <2>7
<1>17. CASE UNCHANGED vars BY <1>5, <1>17 DEF vars, machine
<1> QED BY <1>7, <1>8, <1>9, <1>10, <1>11, <1>12, <1>13, <1>14, <1>15, <1>16, <1>17 DEF Next

\* Where the sidecar tells of no cut the recording is one piece, if no frame
\* ends in real time between a load and the sampler's next tick.
THEOREM OnePiece ==
  ASSUME ~LateLoad
  PROVE  Spec => []Continuous
<1> DEFINE Inv == TypeInv /\ SegInv /\ HistInv
<1>1. Init => Inv
  <2>1. Init => Idle BY DEF Init, NoSession, Idle
  <2> QED BY <2>1, TypeInit, HistInit DEF SegInv
<1>2. Inv /\ [Next]_vars => Inv'
  BY TypeNext, SegNext, HistNext DEF SegOutcome, SegInv
<1>3. Inv => Continuous
  <2> SUFFICES ASSUME Inv PROVE Continuous OBVIOUS
  <2>1. g \in Glue /\ Counted(g) BY DEF TypeInv, Shape
  <2>2. Shown = ShownOf(g) /\ Shown \in Seq(Frame) BY <2>1, ShownTyped DEF Shown, ShownOf
  <2>3. CASE Idle
    <3>1. Shown = <<>> \o <<>> BY <2>3 DEF HistInv, Shown
    <3>2. Len(Shown) = 0 BY <3>1
    <3>3. 2..0 = {} OBVIOUS
    <3> QED BY <3>2, <3>3 DEF Continuous
  <2>4. CASE ~Idle
    <3> SUFFICES ASSUME NEW k \in 2..Len(Shown)
                 PROVE  \/ \E i \in DOMAIN g.segs : g.segs[i].start = k - 1
                        \/ /\ Shown[k - 1] = Blank <=> Shown[k] = Blank
                           /\ Shown[k] # Blank => Shown[k].prev = Shown[k - 1].id
      BY DEF Continuous
    <3>1. Cut(g.segs, k - 1) \/ Link(Shown[k - 1], Shown[k])
      BY <2>2, <2>4 DEF HistInv, ContinuousIn
    <3>2. DOMAIN g.segs = 1..Len(g.segs) BY <2>1 DEF Glue
    <3> QED BY <3>1, <3>2 DEF Cut, Link
  <2> QED BY <2>3, <2>4
<1> QED BY <1>1, <1>2, <1>3, PTL DEF Spec
=============================================================================
