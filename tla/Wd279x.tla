------------------------------- MODULE Wd279x -------------------------------
(***************************************************************************)
(* The floppy controller (src/src/emulator/hw-generic/fdc/wd279x.c and     *)
(* wd279x_write_track.c) with one single-sided drive, and a program that   *)
(* uses it the way the data sheet asks: it moves a byte when the last      *)
(* status it read, or the interrupt of the HD patch, asks for one, and     *)
(* gives the next command when a status has told it that the last one is   *)
(* over.  Nothing is timed: the controller moves on when it is accessed,   *)
(* and what the program sees of that is a script of status readings.       *)
(*                                                                         *)
(* A sector has Size bytes instead of 256, the limits are as small.  The   *)
(* drive, side and density ports, the direction of a step, the data        *)
(* register (a SEEK names its track with the command) and intrq_active,    *)
(* which only the debugger shows, are left out.                            *)
(***************************************************************************)
EXTENDS Integers, FiniteSets, Sequences

CONSTANTS
  LastTrack, LastSector,  \* what the program uses
  Size,          \* bytes of a sector
  AddressBytes,  \* bytes of READ ADDRESS, 6
  Overhead,      \* bytes of a sector in READ TRACK besides its data, 6
  PollLimit,     \* readings of the status before a sector is passed over, 10
  IntLimit,      \* looks at the interrupt before it is raised, 2
  WaitWrap,      \* values of waitForInt, 256
  GapLimit,      \* bytes between two marks of a format, 100
  EndLimit,      \* bytes that end a format, 200
  Eints,         \* whether the HD patch gives interrupts
  Unread,        \* no status read since the last access
  Loose          \* whether the program leaves a multi-sector transfer without
                 \* forcing an interrupt

ASSUME Wd279xAssumption ==
  /\ {LastTrack, LastSector, Overhead, PollLimit, IntLimit} \subseteq Nat
  /\ {Size, AddressBytes, WaitWrap, GapLimit, EndLimit} \subseteq Nat \ {0}
  /\ PollLimit >= 2 /\ WaitWrap > IntLimit + 1
  /\ GapLimit >= 5 /\ EndLimit > GapLimit
  /\ Eints \subseteq BOOLEAN /\ "DRQ" \notin Unread /\ Loose \in BOOLEAN

VARIABLES
  w,       \* st_WD279X
  disk,    \* the drive and the image in it
  seen,    \* the status, if the last access has read it
  over,    \* the program has been told that its command is over
  asked,   \* history: the last command but Force Interrupt
  moved,   \* history: bytes moved since
  stream,  \* history: place in the stream of a format, what it has named, and
           \* whether the disk was changed meanwhile
  eint     \* the EINT port

vars == <<w, disk, seen, over, asked, moved, stream, eint>>

Track == 0..LastTrack
Kinds == {"none", "type1", "read", "write", "address", "readtrack", "format"}

-----------------------------------------------------------------------------
(* The image: tracks one behind the other, and a header with the number of *)
(* tracks and a table of their sizes. listed are the tracks of a size; of  *)
(* the sides that the header counts, which set the table's entries apart,  *)
(* the program uses one. known is the number of tracks as the drive's      *)
(* geometry remembers it.                                                  *)

\* The place in the file that the sizes of the tracks before t lead to, and
\* the sectors that dsk_read_short_track_info() finds there.
Place(t) == Cardinality({u \in disk.listed : u < t})
OnTrack(t) == IF t = 0 \/ t < disk.tracks THEN disk.place[Place(t)] ELSE <<>>
Has(t, s) == \E i \in DOMAIN OnTrack(t) : OnTrack(t)[i] = s

Ready == disk.mode # "none"

\* compute_abstrack()
Exists(t) == Ready /\ t < disk.known

\* dsk_read_short_sector_info(), which needs the size of the track itself.
Found(t, s) == Exists(t) /\ t < disk.tracks /\ t \in disk.listed /\ Has(t, s)

Image(mode) == [mode |-> mode, tracks |-> 1, known |-> 1, listed |-> {0},
                place |-> [t \in Track |-> IF t = 0 THEN <<1, 2>> ELSE <<>>]]

\* The address mark of the index on track 0 has the header written anew, with
\* no tracks; the drive still knows the ones there were.
HeaderWritten == IF disk.mode = "rw" THEN [disk EXCEPT !.tracks = 0, !.listed = {}] ELSE disk

\* dsk_read_short_image_info() reads a size for every track the header counts.
Sized(t) == t <= disk.tracks

\* Where write_track_flush() puts the track: the file ends behind it. With
\* sizes that nobody has read it may put it anywhere, and over anything.
Placings(t, ids) ==
  IF Sized(t) THEN {[i \in Track |-> IF i < Place(t) THEN disk.place[i]
                                     ELSE IF i = Place(t) THEN ids ELSE <<>>]}
  ELSE [Track -> {<<>>, ids} \cup {disk.place[i] : i \in Track}]

\* write_track_flush(), after which the drive knows what the header says; a
\* failure is ignored.
Flushed(t, ids) ==
  IF disk.mode # "rw" \/ ids = <<>> THEN {disk}
  ELSE LET n == IF t + 1 > disk.tracks THEN t + 1 ELSE disk.tracks
       IN {[disk EXCEPT !.place = p, !.listed = @ \cup {t}, !.tracks = n, !.known = n] :
             p \in Placings(t, ids)}

-----------------------------------------------------------------------------
(* Commands.  stage, count and ids, which only a format reads, are         *)
(* forgotten when there is none.                                           *)

\* dispatch_command() and what every do_...() begins with.
Begun(kind, multi) ==
  [w EXCEPT !.wait = 0, !.command = kind, !.multi = multi, !.status = {},
            !.typeI = (kind = "type1"), !.left = 0,
            !.polls = 0, !.drqNext = FALSE, !.endNext = FALSE,
            !.stage = 5, !.count = 0, !.ids = <<>>]

Told(c, s) == [c EXCEPT !.status = s]
Transfer(c, n) == [c EXCEPT !.left = n, !.size = n, !.status = {"BUSY", "DRQ"}]

\* set_track_position()
Positioned(c) == IF c.atTrack = c.track THEN c
                 ELSE [c EXCEPT !.atTrack = c.track, !.atSector = 0]

\* do_type1(): RESTORE, SEEK and the steps, which bring the head to t.
Type1(t) ==
  LET c == Begun("type1", w.multi)
  IN IF ~Ready THEN Told(c, {"NOTREADY"})
     ELSE [c EXCEPT !.track = t, !.busyNext = TRUE,
                    !.status = IF t = 0 THEN {"TRACK0"} ELSE {}]

\* do_type2()
Type2(kind, multi) ==
  LET c == Begun(kind, multi)
      p == Positioned(c)
  IN CASE ~Ready -> Told(c, {"NOTREADY"})
       [] Ready /\ ~Exists(w.track) -> Told(p, {"RNF"})
       [] kind = "write" /\ disk.mode = "ro" /\ Exists(w.track) -> Told(p, {"WP"})
       [] OTHER -> IF ~Found(w.track, w.sector) THEN Told(p, {"RNF"})
                   ELSE [Transfer(p, Size) EXCEPT
                           !.atSector = IF kind = "read" THEN w.sector ELSE @]

\* do_read_address()
ReadAddress ==
  LET c == Begun("address", w.multi)
      p == Positioned(c)
      s == IF p.atSector = 0 THEN OnTrack(w.track)[1] ELSE p.atSector
  IN IF ~Ready THEN Told(c, {"NOTREADY"})
     ELSE IF ~Exists(w.track) \/ OnTrack(w.track) = <<>> THEN Told(p, {"RNF"})
     ELSE [Transfer(p, AddressBytes) EXCEPT !.sector = s, !.atSector = s]

\* do_read_track_setup()
TrackBytes == 1 + Len(OnTrack(w.track)) * (Overhead + Size)
ReadTrack ==
  LET c == Begun("readtrack", FALSE)
      p == Positioned(c)
  IN IF ~Ready THEN Told(c, {"NOTREADY"})
     ELSE IF ~Exists(w.track) \/ OnTrack(w.track) = <<>> THEN Told(p, {"RNF"})
     ELSE [Transfer(p, TrackBytes) EXCEPT !.size = c.size]

\* do_write_track_setup()
WriteTrack ==
  LET c == Begun("format", FALSE)
  IN IF disk.mode # "rw" THEN Told(c, {"NOTREADY"})
     ELSE [c EXCEPT !.stage = 0, !.count = 0, !.status = {"BUSY", "DRQ"}]

\* do_force_interrupt(); wd279x_write_byte() has reset the wait before.
ForcedKeepsMulti(c) ==                               \* mutant of Forced
  [c EXCEPT !.wait = 0, !.command = "none", !.typeI = TRUE, !.left = 0, !.polls = 0,
            !.busyNext = FALSE, !.drqNext = FALSE, !.endNext = FALSE, !.status = {},
            !.stage = 5, !.count = 0, !.ids = <<>>]
ForcedKeepsDrq(c) ==                                 \* mutant of Forced
  [c EXCEPT !.wait = 0, !.command = "none", !.typeI = TRUE, !.left = 0, !.multi = FALSE,
            !.polls = 0, !.busyNext = FALSE, !.endNext = FALSE, !.status = {},
            !.stage = 5, !.count = 0, !.ids = <<>>]
Forced(c) ==
  [c EXCEPT !.wait = 0, !.command = "none", !.typeI = TRUE, !.left = 0, !.multi = FALSE,
            !.polls = 0, !.busyNext = FALSE, !.drqNext = FALSE, !.endNext = FALSE,
            !.status = {}, !.stage = 5, !.count = 0, !.ids = <<>>]

-----------------------------------------------------------------------------
(* Accesses. *)

\* load_sector_into_buffer() of the sector behind the current one.
Loaded(c) == [c EXCEPT !.sector = @ + 1, !.atSector = c.sector + 1,
                       !.left = Size, !.size = Size]
EndOfTrack(c) == [c EXCEPT !.status = {"BUSY", "RNF"}, !.endNext = TRUE]

\* build_type1_status(), the BUSY of the first reading after a type I command
StatusRead ==
  (IF ~w.typeI THEN w.status
   ELSE (w.status \ {"NOTREADY"}) \cup (IF Ready THEN {} ELSE {"NOTREADY"}))
  \cup (IF w.busyNext THEN {"BUSY"} ELSE {})

\* ... and what the next reading will be.
Scripted ==
  [w EXCEPT !.busyNext = FALSE, !.drqNext = FALSE, !.endNext = FALSE,
            !.status = IF w.endNext THEN {}
                       ELSE IF w.drqNext THEN @ \cup {"DRQ"} ELSE @]

\* A READ SECTOR of which only the status is read is passed over.
AfterStatus ==
  LET c == Scripted
      Waits == w.left = w.size /\ w.size > 0 /\ w.command = "read"
      p == [c EXCEPT !.polls = 0]
  IN IF ~Waits THEN c
     ELSE IF w.polls < PollLimit THEN [c EXCEPT !.polls = @ + 1]
     ELSE IF ~w.multi THEN [p EXCEPT !.status = {}, !.left = 0]
     ELSE IF Found(w.track, w.sector + 1) THEN Told(Loaded(p), {"BUSY", "DRQ"})
     ELSE EndOfTrack(p)

\* A byte leaves the controller.
Taken ==
  LET c == [w EXCEPT !.polls = 0, !.wait = 0]
      d == [c EXCEPT !.left = @ - 1]
  IN IF w.left = 0 \/ (w.typeI /\ w.command # "readtrack") THEN c
     ELSE IF w.left > 1 THEN Told(d, {"BUSY", "DRQ"})
     ELSE IF ~w.multi \/ w.command = "readtrack" THEN Told(d, {})
     ELSE IF Found(w.track, w.sector + 1)
          THEN [Loaded(d) EXCEPT !.status = {"BUSY"}, !.drqNext = TRUE]
     ELSE EndOfTrack(d)

\* A byte of WRITE SECTOR.
Put ==
  LET c == [w EXCEPT !.polls = 0, !.wait = 0]
      d == [c EXCEPT !.left = @ - 1]
  IN IF w.typeI \/ w.left = 0 \/ w.command # "write" THEN c
     ELSE IF w.left > 1 THEN Told(d, {"BUSY", "DRQ"})
     ELSE IF disk.mode = "ro" \/ ~Found(w.track, w.sector) THEN Told(d, {"RNF"})
     ELSE IF ~w.multi THEN Told(d, {})
     ELSE IF Found(w.track, w.sector + 1)
          THEN [d EXCEPT !.sector = @ + 1, !.left = Size, !.size = Size,
                         !.status = {"BUSY"}, !.drqNext = TRUE]
     ELSE Told(d, {"RNF"})

\* The bytes of a format.
IAM == 252
IDAM == 254
DAM == 251
Gap == 78

\* do_write_track_byte()
Stopped(c) == [c EXCEPT !.status = {}, !.command = "none",
                        !.stage = 5, !.count = 0, !.ids = <<>>]
Stage(c, s) == [c EXCEPT !.stage = s, !.count = 1]
Formatted(b) ==
  LET c == [w EXCEPT !.polls = 0, !.wait = 0]
      more == [c EXCEPT !.count = @ + 1]
      limited == IF w.count > GapLimit THEN Stopped(c) ELSE more
  IN CASE w.stage = 0 -> IF b = IAM THEN Stage(c, 1) ELSE limited
       [] w.stage = 1 -> IF b = IDAM THEN [Stage(c, 2) EXCEPT !.ids = <<>>] ELSE limited
       [] w.stage = 2 -> IF w.count = 3 THEN [more EXCEPT !.ids = Append(@, b)]
                         ELSE IF w.count <= 4 THEN more
                         ELSE IF b = DAM THEN [Stage(c, 3) EXCEPT !.left = Size] ELSE limited
       [] w.stage = 3 -> IF w.count > w.left THEN [Stage(c, 4) EXCEPT !.left = 0] ELSE more
       [] w.stage = 4 -> IF b = IDAM THEN Stage(c, 2)
                         ELSE IF w.count > EndLimit THEN Stopped(c) ELSE more
       [] OTHER -> c

\* What the byte does to the image.
DiskAfter(b) ==
  IF w.stage = 0 /\ b = IAM /\ w.track = 0 THEN {HeaderWritten}
  ELSE IF w.stage = 4 /\ b # IDAM /\ w.count > EndLimit THEN Flushed(asked.track, w.ids)
  ELSE {disk}

\* wd279x_get_interrupt_state(); a format is given as F0 or F4.
NeedsInt(c) == \/ c.left > 0 /\ c.command \in {"read", "write", "address", "readtrack"}
               \/ c.command = "format"
Checked(c) ==
  IF ~(eint /\ NeedsInt(c)) THEN [c EXCEPT !.int = FALSE]
  ELSE LET n == (c.wait + 1) % WaitWrap
       IN [c EXCEPT !.wait = n, !.int = (n > IntLimit)]

-----------------------------------------------------------------------------
(* The program. *)

Nothing == [kind |-> "none", multi |-> FALSE, moves |-> TRUE, busy |-> FALSE, whole |-> 0,
            track |-> 0, found |-> {}, sized |-> TRUE]
NoStream == [at |-> 0, ids |-> <<>>, disturbed |-> FALSE]

Init ==
  /\ w = [command |-> "none", multi |-> FALSE, status |-> {}, typeI |-> TRUE,
          left |-> 0, size |-> 0, polls |-> 0, busyNext |-> FALSE, drqNext |-> FALSE,
          endNext |-> FALSE, wait |-> 0, int |-> FALSE, track |-> 0, sector |-> 0,
          atTrack |-> 0, atSector |-> 0, stage |-> 5, count |-> 0, ids |-> <<>>]
  /\ disk \in {Image("none"), Image("rw"), Image("ro")}
  /\ eint \in Eints
  /\ seen = Unread /\ over = TRUE /\ asked = Nothing /\ moved = 0 /\ stream = NoStream

\* A multi-sector transfer that the program has to end.
Open == over /\ asked.multi /\ ~Loose

\* The program gives a command; c is the controller after it.
Ask(c, kind, multi, whole) ==
  /\ over /\ ~Open
  /\ w' = Checked(c)
  /\ over' = FALSE /\ seen' = Unread /\ moved' = 0 /\ stream' = NoStream
  /\ \E m \in {TRUE, kind # "read"} :
       asked' = [kind |-> kind, multi |-> multi, moves |-> m, busy |-> FALSE, whole |-> whole,
                 track |-> w.track,
                 found |-> {p \in Track \X (1..LastSector) :
                              p[1] < w.track /\ Found(p[1], p[2])},
                 sized |-> Sized(w.track)]
  /\ UNCHANGED <<disk, eint>>

Position == \E t \in Track : Ask(Type1(t), "type1", FALSE, 0)
AskSectors == \E kind \in {"read", "write"}, multi \in BOOLEAN :
                Ask(Type2(kind, multi), kind, multi, Size)
AskAddress == Ask(ReadAddress, "address", FALSE, AddressBytes)
AskTrack == Ask(ReadTrack, "readtrack", FALSE, TrackBytes)

AskFormat == Ask(WriteTrack, "format", FALSE, 0)

\* At any time.
ForceInterrupt ==
  /\ w' = Checked(Forced(w))
  /\ over' = TRUE /\ seen' = Unread /\ asked' = Nothing /\ moved' = 0 /\ stream' = NoStream
  /\ UNCHANGED <<disk, eint>>

\* A program that moves bytes does so as soon as the status asks it to.
Free == asked.moves => over \/ "DRQ" \notin seen

ReadStatus ==
  /\ Free /\ ~Open
  /\ seen' = StatusRead
  /\ w' = Checked(AfterStatus)
  /\ over' = (over \/ "BUSY" \notin StatusRead)
  /\ asked' = [asked EXCEPT !.busy = @ \/ "BUSY" \in StatusRead]
  /\ UNCHANGED <<disk, moved, stream, eint>>

\* The program is asked for a byte, by the status or by the interrupt, which
\* it serves once it has seen that the command is under way.
Requested == ~over /\ asked.moves /\ ("DRQ" \in seen \/ (w.int /\ asked.busy))

ReadData ==
  /\ Requested /\ asked.kind \in {"read", "address", "readtrack"}
  /\ w' = Checked(Taken)
  /\ seen' = Unread /\ moved' = moved + 1
  /\ UNCHANGED <<disk, over, asked, stream, eint>>

WriteData ==
  /\ Requested /\ asked.kind = "write"
  /\ w' = Checked(Put)
  /\ seen' = Unread /\ moved' = moved + 1
  /\ UNCHANGED <<disk, over, asked, stream, eint>>

\* The stream of a format: 0 before the index mark, 1 before the mark of a
\* sector, 2 to 6 its fields and their check sum, 7 before the mark of the data,
\* 8 and on the data and their check sum.
Bytes == CASE stream.at = 0 -> IF w.count < GapLimit THEN {Gap, IAM} ELSE {IAM}
           [] stream.at = 1 -> IF stream.ids = <<>>
                               THEN IF w.count < GapLimit THEN {Gap, IDAM} ELSE {IDAM}
                               ELSE IF Len(stream.ids) < LastSector THEN {Gap, IDAM} ELSE {Gap}
           [] stream.at = 4 -> {s \in 1..LastSector : \A i \in DOMAIN stream.ids : stream.ids[i] # s}
           [] stream.at = 7 -> IF w.count < GapLimit THEN {Gap, DAM} ELSE {DAM}
           [] OTHER -> {Gap}
After(b) == CASE stream.at = 7 /\ b = DAM -> 8
              [] stream.at \in {0, 1, 7} /\ b = Gap -> stream.at
              [] stream.at = 8 + Size -> 1
              [] OTHER -> stream.at + 1

WriteFormat ==
  /\ Requested /\ asked.kind = "format"
  /\ \E b \in Bytes :
       /\ w' = Checked(Formatted(b))
       /\ disk' \in DiskAfter(b)
       /\ stream' = [stream EXCEPT !.at = After(b),
                                   !.ids = IF stream.at = 4 THEN Append(@, b) ELSE @]
  /\ seen' = Unread
  /\ UNCHANGED <<over, asked, moved, eint>>

\* The registers, when the program is done with what it asked for; zero is not
\* taken for a track.
Registers(c) ==
  /\ over /\ ~Open
  /\ w' = Checked(c)
  /\ seen' = Unread /\ asked' = Nothing /\ moved' = 0 /\ stream' = NoStream
  /\ UNCHANGED <<disk, over, eint>>
WriteTrackRegister == \E t \in Track : Registers([w EXCEPT !.track = IF t = 0 THEN @ ELSE t])
WriteSectorRegister == \E s \in 1..LastSector : Registers([w EXCEPT !.sector = s])
ReadTrackRegister ==
  /\ Free
  /\ w' = Checked([w EXCEPT !.wait = 0])
  /\ seen' = Unread
  /\ UNCHANGED <<disk, over, asked, moved, stream, eint>>

\* mzarch_interrupt_manager() for another device
Look ==
  /\ w' = Checked(w)
  /\ UNCHANGED <<disk, seen, over, asked, moved, stream, eint>>

\* fdc_mount_dskfile() and fdc_umount(), between two instructions
Mount ==
  /\ \E mode \in {"none", "rw", "ro"} : disk' = Image(mode)
  /\ stream' = [stream EXCEPT !.disturbed = TRUE]
  /\ UNCHANGED <<w, seen, over, asked, moved, eint>>

Next == \/ Position \/ AskSectors \/ AskAddress \/ AskTrack \/ AskFormat
        \/ ForceInterrupt \/ ReadStatus \/ ReadData \/ WriteData \/ WriteFormat
        \/ WriteTrackRegister \/ WriteSectorRegister \/ ReadTrackRegister
        \/ Look \/ Mount

Spec == Init /\ [][Next]_vars

-----------------------------------------------------------------------------
\* The variables have their types.
TypeOK ==
  /\ w.command \in Kinds /\ w.status \subseteq {"BUSY", "DRQ", "RNF", "WP", "NOTREADY", "TRACK0"}
  /\ w.polls \in 0..PollLimit /\ w.wait \in 0..(WaitWrap - 1)
  /\ w.stage \in 0..5 /\ w.count \in 0..(EndLimit + Size + 1)
  /\ disk.mode \in {"none", "rw", "ro"} /\ disk.listed \subseteq Track
  /\ (seen = Unread \/ seen \subseteq {"BUSY", "DRQ", "RNF", "WP", "NOTREADY", "TRACK0"})
  /\ over \in BOOLEAN /\ asked.kind \in Kinds /\ moved \in Nat

ByteDue == w.left > 0 \/ (w.command = "format" /\ w.stage < 5 /\ "BUSY" \in w.status)

\* What the status says is so: a byte is asked for, by DRQ or by the interrupt,
\* only when the controller has one to move; a byte to move is asked for, now or
\* at the reading after the next; and a command that has been told over, or
\* ended by Force Interrupt, leaves no BUSY and no DRQ behind it, in the register or
\* in the script of readings
\* (the one-shot flags of wd279x_read_byte() and do_force_interrupt()).
StatusTrue ==
  /\ Requested => ByteDue
  /\ ByteDue /\ ~over /\ asked.moves => "DRQ" \in w.status \/ w.drqNext
  /\ over /\ ~Open => /\ {"BUSY", "DRQ"} \cap w.status = {}
                       /\ ~w.busyNext /\ ~w.drqNext /\ ~w.endNext

\* The format asked for is on its track, and so is what was before it.
FormatKept ==
  /\ OnTrack(asked.track) = stream.ids
  /\ \A i \in DOMAIN stream.ids : Found(asked.track, stream.ids[i])
  /\ \A p \in asked.found : Found(p[1], p[2])

\* A command that the program is told to be over has moved nothing, or all of
\* its record: one sector, or as many as it went through; six bytes of an
\* address; a whole track. A format of a track that the header counts, or of
\* the one behind them, has put on it the sectors that the stream named, and
\* the tracks before it still have theirs (the counters of wd279x.c across
\* commands that leave some of them, and write_track_flush()).
TransferWhole ==
  over => CASE asked.kind \in {"address", "readtrack"} -> moved \in {0, asked.whole}
            [] asked.kind \in {"read", "write"} ->
                 IF asked.multi THEN moved % Size = 0 ELSE moved \in {0, Size}
            [] asked.kind = "format" ->
                 stream.ids # <<>> /\ ~stream.disturbed /\ asked.sized => FormatKept
            [] OTHER -> moved = 0

\* ... and what a program expects that formats any track it likes, which a
\* header counting fewer does not keep: a format of track 0 that is cut short
\* leaves such a header (wd279x_write_track.c:434-438, 157-197).
FormatAnywhere ==
  over /\ asked.kind = "format" /\ stream.ids # <<>> /\ ~stream.disturbed => FormatKept
=============================================================================
