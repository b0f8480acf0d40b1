---------------------------- MODULE Wd279xProofs ----------------------------
(***************************************************************************)
(* Proofs, for every size of a sector, a track and a script of readings,   *)
(* of the safety properties of Wd279x, under the assumption that the       *)
(* program ends its multi-sector transfers with Force Interrupt (~Loose);  *)
(* without it runs of TLC refute both properties.                          *)
(***************************************************************************)
EXTENDS Wd279x, FiniteSetTheorems, TLAPS

Flags == {"BUSY", "DRQ", "RNF", "WP", "NOTREADY", "TRACK0"}

Controller == [
  command : Kinds, multi : BOOLEAN, status : SUBSET Flags, typeI : BOOLEAN,
  left : Nat, size : Nat, polls : Nat,
  busyNext : BOOLEAN, drqNext : BOOLEAN, endNext : BOOLEAN,
  wait : Nat, int : BOOLEAN, track : Track, sector : Nat,
  atTrack : Track, atSector : Nat, stage : Nat, count : Nat, ids : Seq(Nat)]

Drive == [mode : {"none", "rw", "ro"}, tracks : Nat, known : Nat, listed : SUBSET Track,
          place : [Track -> Seq(Nat)]]

Question == [kind : Kinds, multi : BOOLEAN, moves : BOOLEAN, busy : BOOLEAN,
             whole : Nat, track : Track, found : SUBSET (Track \X Nat), sized : BOOLEAN]

Stream == [at : Nat, ids : Seq(Nat), disturbed : BOOLEAN]

Types ==
  /\ w \in Controller /\ disk \in Drive /\ asked \in Question /\ stream \in Stream
  /\ seen = Unread \/ seen \subseteq Flags
  /\ over \in BOOLEAN /\ moved \in Nat /\ eint \in BOOLEAN

(***************************************************************************)
(* What the program has asked, and what the controller knows of it.        *)
(***************************************************************************)
AskedInv ==
  /\ w.multi = asked.multi
  /\ asked.multi => asked.kind \in {"read", "write"}
  /\ ~asked.moves => asked.kind = "read"
  /\ \A p \in asked.found : p[1] < asked.track
  /\ w.int => NeedsInt(w)
  /\ asked.kind = "none" => over

Quiet == /\ {"BUSY", "DRQ"} \cap w.status = {} /\ w.left = 0 /\ w.stage = 5
         /\ ~w.busyNext /\ ~w.drqNext /\ ~w.endNext

\* Nothing of a command that is over is left for the next one.
OverInv == over /\ ~asked.multi => Quiet

Pending(kinds) == ~over /\ asked.kind \in kinds

Type1Inv ==
  Pending({"type1"}) =>
    /\ w.command = "type1"
    /\ {"BUSY", "DRQ"} \cap w.status = {} /\ w.left = 0 /\ w.stage = 5
    /\ ~w.drqNext /\ ~w.endNext /\ "DRQ" \notin seen

Transfers == {"read", "write", "address", "readtrack"}

(***************************************************************************)
(* A transfer by a program that moves the bytes: while there are any, the  *)
(* status asks for one or will at the next reading, and the program does   *)
(* not read it often enough to have the sector passed over.                *)
(***************************************************************************)
MovesInv ==
  Pending(Transfers) /\ asked.moves =>
    /\ w.command = asked.kind /\ ~w.typeI /\ ~w.busyNext /\ w.stage = 5
    /\ w.endNext => "BUSY" \in w.status
    /\ w.drqNext => asked.multi
    /\ w.left > 0 =>
         /\ "BUSY" \in w.status /\ ~w.endNext /\ ("DRQ" \in w.status \/ w.drqNext)
         /\ "DRQ" \notin seen => w.polls <= IF "DRQ" \in w.status THEN 1 ELSE 0
    /\ w.left = 0 =>
         /\ "DRQ" \notin w.status /\ "DRQ" \notin seen
         /\ "BUSY" \in w.status => w.endNext

\* A READ SECTOR by a program that only looks at the status.
LooksInv ==
  Pending(Transfers) /\ ~asked.moves =>
    /\ w.command = "read" /\ ~w.typeI /\ ~w.busyNext /\ w.stage = 5
    /\ ~w.multi => IF w.left > 0
                   THEN "BUSY" \in w.status /\ ~w.drqNext /\ ~w.endNext ELSE Quiet

\* What was moved and what is left are the record, or none of it.
CountInv ==
  /\ asked.kind \in {"none", "type1", "format"} \/ ~asked.moves => moved = 0
  /\ Pending({"address", "readtrack"}) => moved + w.left \in {0, asked.whole}
  /\ Pending({"read", "write"}) /\ asked.moves =>
       IF asked.multi THEN (moved + w.left) % Size = 0 ELSE moved + w.left \in {0, Size}

DoneInv ==
  /\ over /\ asked.kind \in {"address", "readtrack"} => moved \in {0, asked.whole}
  /\ over /\ asked.kind \in {"read", "write"} =>
       IF asked.multi THEN moved % Size = 0 ELSE moved \in {0, Size}

(***************************************************************************)
(* A format: where the program is in its stream the controller is in its   *)
(* stages, and it has collected the sectors that the stream has named.     *)
(***************************************************************************)
Abreast ==
  \/ stream.at = 0 /\ w.stage = 0 /\ w.count <= GapLimit /\ stream.ids = <<>>
  \/ stream.at = 1 /\ w.stage = 1 /\ w.count <= GapLimit /\ stream.ids = <<>>
  \/ /\ stream.at \in 2..6 /\ w.stage = 2 /\ w.count = stream.at - 1
     /\ stream.at > 4 => stream.ids # <<>>
  \/ /\ stream.at = 7 /\ w.stage = 2 /\ stream.ids # <<>>
     /\ w.count = 6 \/ w.count \in 6..GapLimit
  \/ /\ stream.at \in 8 .. 8 + Size /\ w.stage = 3 /\ stream.ids # <<>>
     /\ w.count = stream.at - 7 /\ w.left = Size
  \/ stream.at = 1 /\ w.stage = 4 /\ w.count <= EndLimit + 1 /\ stream.ids # <<>>

StillThere == \A p \in asked.found : Found(p[1], p[2])

Running ==
  /\ w.command = "format" /\ w.status = {"BUSY", "DRQ"} /\ w.track = asked.track
  /\ ~w.typeI /\ ~w.busyNext /\ ~w.drqNext /\ ~w.endNext
  /\ w.ids = stream.ids /\ Abreast /\ (w.stage # 3 => w.left = 0)
  /\ ~stream.disturbed =>
       disk.mode = "rw" /\ StillThere /\ (asked.sized => Sized(asked.track))

TrackWhole == stream.ids # <<>> /\ ~stream.disturbed /\ asked.sized => FormatKept

Stopping ==
  /\ Quiet /\ ~w.typeI /\ w.command \in {"format", "none"} /\ TrackWhole
  /\ ~over => "DRQ" \notin seen /\ (w.command # "none" => ~asked.busy)

FormatInv ==
  asked.kind = "format" => IF ~over /\ w.stage < 5 THEN Running ELSE Stopping

CountTyped == w.count <= EndLimit + Size + 1

IInv == /\ Types /\ AskedInv /\ OverInv /\ Type1Inv /\ MovesInv /\ LooksInv
        /\ CountInv /\ DoneInv /\ FormatInv /\ CountTyped
-----------------------------------------------------------------------------
(* Lemmas about the functions that the actions are made of. *)

LEMMA Constants ==
  /\ LastTrack \in Nat /\ LastSector \in Nat /\ Overhead \in Nat
  /\ PollLimit \in Nat /\ PollLimit >= 2 /\ IntLimit \in Nat
  /\ Size \in Nat /\ Size > 0 /\ AddressBytes \in Nat /\ AddressBytes > 0
  /\ WaitWrap \in Nat /\ WaitWrap > 0
  /\ GapLimit \in Nat /\ GapLimit >= 5 /\ EndLimit \in Nat /\ EndLimit > GapLimit
  /\ "DRQ" \notin Unread /\ Eints \subseteq BOOLEAN
BY Wd279xAssumption

LEMMA ModLemma ==
  /\ 0 % Size = 0 /\ Size % Size = 0
  /\ \A n \in Nat : (n + Size) % Size = n % Size
<1> USE Constants
<1>1. 0 % Size = 0 OBVIOUS
<1>2. Size % Size = 0 OBVIOUS
<1>3. ASSUME NEW n \in Nat PROVE (n + Size) % Size = n % Size
  <2> DEFINE q == n \div Size
             p == (n + Size) \div Size
             a == n % Size
             b == (n + Size) % Size
  <2>1. /\ q \in Int /\ a \in 0..Size-1 /\ n = Size * q + a
        /\ p \in Int /\ b \in 0..Size-1 /\ n + Size = Size * p + b
    OBVIOUS
  <2> HIDE DEF q, p, a, b
  <2>2. Size * (q + 1) = Size * q + Size BY <2>1
  <2>3. \A d \in Int : Size * (p + d) = Size * p + Size * d BY <2>1
  <2>4. \A d \in Nat : d > 0 => Size * d >= Size OBVIOUS
  <2>5. CASE q + 1 > p
    <3>1. PICK d \in Nat : d > 0 /\ q + 1 = p + d BY <2>1, <2>5
    <3> QED BY <2>1, <2>2, <2>3, <2>4, <3>1
  <2>6. CASE q + 1 < p
    <3>1. PICK d \in Nat : d > 0 /\ p = (q + 1) + d BY <2>1, <2>6
    <3>2. Size * ((q + 1) + d) = Size * (q + 1) + Size * d BY <2>1
    <3> QED BY <2>1, <2>2, <2>4, <3>1, <3>2
  <2>7. CASE q + 1 = p BY <2>1, <2>2, <2>7 DEF a, b
  <2> QED BY <2>1, <2>5, <2>6, <2>7
<1> QED BY <1>1, <1>2, <1>3

\* Two states of the controller that differ at most in the interrupt.
Alike(d, c) ==
  /\ d.command = c.command /\ d.multi = c.multi /\ d.status = c.status
  /\ d.typeI = c.typeI /\ d.left = c.left /\ d.size = c.size /\ d.polls = c.polls
  /\ d.busyNext = c.busyNext /\ d.drqNext = c.drqNext /\ d.endNext = c.endNext
  /\ d.track = c.track /\ d.stage = c.stage /\ d.count = c.count /\ d.ids = c.ids

LEMMA CheckedLemma ==
  ASSUME NEW c \in Controller
  PROVE  /\ Checked(c) \in Controller /\ Alike(Checked(c), c)
         /\ Checked(c).int => NeedsInt(Checked(c))
<1> DEFINE n == (c.wait + 1) % WaitWrap
<1>1. n \in Nat BY Constants DEF Controller
<1>2. \A i \in BOOLEAN :
        LET d == [c EXCEPT !.wait = n, !.int = i]
        IN d \in Controller /\ Alike(d, c) /\ d.int = i
  BY <1>1 DEF Controller, Alike
<1>3. LET d == [c EXCEPT !.int = FALSE]
      IN d \in Controller /\ Alike(d, c) /\ d.int = FALSE
  BY DEF Controller, Alike
<1> HIDE DEF n
<1>4. CASE ~(eint /\ NeedsInt(c)) BY <1>3, <1>4 DEF Checked
<1>5. CASE eint /\ NeedsInt(c)
  <2>1. Checked(c) = [c EXCEPT !.wait = n, !.int = (n > IntLimit)]
    BY <1>5 DEF Checked, n
  <2>2. (n > IntLimit) \in BOOLEAN OBVIOUS
  <2>3. Checked(c) \in Controller /\ Alike(Checked(c), c) BY <1>2, <2>1, <2>2
  <2>4. NeedsInt(Checked(c)) BY <1>5, <2>3 DEF NeedsInt, Alike
  <2> QED BY <2>3, <2>4
<1> QED BY <1>4, <1>5

LEMMA BegunLemma ==
  ASSUME w \in Controller, NEW kind \in Kinds, NEW multi \in BOOLEAN
  PROVE  LET c == Begun(kind, multi)
         IN /\ c \in Controller
            /\ c.command = kind /\ c.multi = multi /\ c.status = {}
            /\ c.typeI = (kind = "type1") /\ c.left = 0 /\ c.polls = 0
            /\ c.busyNext = w.busyNext /\ ~c.drqNext /\ ~c.endNext
            /\ c.stage = 5 /\ c.count = 0 /\ c.ids = <<>> /\ c.track = w.track
            /\ c.atTrack = w.atTrack /\ c.atSector = w.atSector /\ c.sector = w.sector
            /\ c.size = w.size
<1>0. <<>> \in Seq(Nat) OBVIOUS
<1>1. PICK none \in Seq(Nat) : none = <<>> BY <1>0, Zenon
<1>2. PICK t \in BOOLEAN : t = (kind = "type1") OBVIOUS
<1> DEFINE b == [w EXCEPT !.wait = 0, !.command = kind, !.multi = multi, !.status = {},
                          !.typeI = t, !.left = 0]
           d == [b EXCEPT !.polls = 0, !.drqNext = FALSE, !.endNext = FALSE,
                          !.stage = 5, !.count = 0, !.ids = none]
<1>3. Begun(kind, multi) = d BY <1>1, <1>2 DEF Begun, Controller
<1>4. /\ b \in Controller /\ b.command = kind /\ b.multi = multi /\ b.status = {}
      /\ b.typeI = t /\ b.left = 0 /\ b.busyNext = w.busyNext /\ b.track = w.track
      /\ b.atTrack = w.atTrack /\ b.atSector = w.atSector /\ b.sector = w.sector
      /\ b.size = w.size
  BY DEF Controller
<1> HIDE DEF b
<1>5. /\ d \in Controller /\ d.polls = 0 /\ ~d.drqNext /\ ~d.endNext
      /\ d.stage = 5 /\ d.count = 0 /\ d.ids = none
      /\ d.command = b.command /\ d.multi = b.multi /\ d.status = b.status
      /\ d.typeI = b.typeI /\ d.left = b.left /\ d.busyNext = b.busyNext /\ d.track = b.track
      /\ d.atTrack = b.atTrack /\ d.atSector = b.atSector /\ d.sector = b.sector
      /\ d.size = b.size
  BY <1>4, ZenonT(40) DEF Controller
<1> QED BY <1>1, <1>2, <1>3, <1>4, <1>5

LEMMA PositionedLemma ==
  ASSUME NEW c \in Controller
  PROVE  /\ Positioned(c) \in Controller /\ Alike(Positioned(c), c)
         /\ Positioned(c).sector = c.sector
BY DEF Positioned, Controller, Alike

LEMMA ToldLemma ==
  ASSUME NEW c \in Controller, NEW s \in SUBSET Flags
  PROVE  /\ Told(c, s) \in Controller
         /\ Told(c, s) = [c EXCEPT !.status = s]
BY DEF Told, Controller

LEMMA TransferLemma ==
  ASSUME NEW c \in Controller, NEW n \in Nat
  PROVE  LET d == Transfer(c, n)
         IN /\ d \in Controller /\ d.left = n /\ d.status = {"BUSY", "DRQ"}
            /\ d.command = c.command /\ d.multi = c.multi /\ d.typeI = c.typeI
            /\ d.polls = c.polls /\ d.stage = c.stage /\ d.track = c.track
            /\ d.busyNext = c.busyNext /\ d.drqNext = c.drqNext /\ d.endNext = c.endNext
            /\ d.count = c.count /\ d.ids = c.ids
BY DEF Transfer, Controller, Flags

-----------------------------------------------------------------------------
(* The places of the tracks in the image. *)

LEMMA PlaceLemma ==
  ASSUME disk \in Drive, NEW t \in Track
  PROVE  /\ Place(t) \in Track /\ OnTrack(t) \in Seq(Nat)
         /\ \A u \in disk.listed : u < t => Place(u) < Place(t)
<1> DEFINE S(x) == {v \in disk.listed : v < x}
<1>1. disk.listed \subseteq 0..LastTrack /\ LastTrack \in Nat /\ t \in 0..LastTrack
  BY Constants DEF Drive, Track
<1>2. IsFiniteSet(0..t-1) /\ Cardinality(0..t-1) = t
  <2>1. 0 \in Int /\ t - 1 \in Int /\ t >= 0 BY <1>1
  <2>2. /\ IsFiniteSet(0..t-1)
        /\ Cardinality(0..t-1) = IF 0 > t - 1 THEN 0 ELSE (t - 1) - 0 + 1
    BY <2>1, FS_Interval
  <2> QED BY <1>1, <2>1, <2>2
<1>3. S(t) \in SUBSET (0..t-1) BY <1>1
<1>4. IsFiniteSet(S(t)) /\ Cardinality(S(t)) \in Nat /\ Cardinality(S(t)) <= t
  BY <1>2, <1>3, FS_Subset, FS_CardinalityType
<1>5. Place(t) \in Track BY <1>1, <1>4 DEF Place, Track
<1>6. OnTrack(t) \in Seq(Nat)
  <2>1. disk.place[Place(t)] \in Seq(Nat) BY <1>5 DEF Drive
  <2>2. <<>> \in Seq(Nat) OBVIOUS
  <2> QED BY <2>1, <2>2, Zenon DEF OnTrack
<1>7. ASSUME NEW u \in disk.listed, u < t PROVE Place(u) < Place(t)
  <2>1. S(u) \in SUBSET S(t) /\ u \notin S(u) /\ S(u) \cup {u} \in SUBSET S(t)
    BY <1>1, <1>7
  <2>2. IsFiniteSet(S(u)) /\ Cardinality(S(u)) \in Nat
    BY <1>4, <2>1, FS_Subset, FS_CardinalityType
  <2>3. Cardinality(S(u) \cup {u}) = Cardinality(S(u)) + 1
    BY <2>1, <2>2, FS_AddElement
  <2>4. Cardinality(S(u) \cup {u}) <= Cardinality(S(t))
    BY <1>4, <2>1, FS_Subset
  <2> QED BY <1>4, <2>2, <2>3, <2>4 DEF Place
<1> QED BY <1>5, <1>6, <1>7

\* Wherever the track of a format is put, there is an image.
LEMMA FlushedLemma ==
  ASSUME disk \in Drive, NEW t \in Track, NEW ids \in Seq(Nat)
  PROVE  Flushed(t, ids) \subseteq Drive
<1>1. PICK none \in Seq(Nat) : none = <<>>
  <2>1. <<>> \in Seq(Nat) OBVIOUS
  <2> QED BY <2>1, Zenon
<1>2. Placings(t, ids) \subseteq [Track -> Seq(Nat)]
  <2>1. \A i \in Track : disk.place[i] \in Seq(Nat) BY DEF Drive
  <2>2. CASE Sized(t)
    <3> DEFINE p == [i \in Track |-> IF i < Place(t) THEN disk.place[i]
                                     ELSE IF i = Place(t) THEN ids ELSE none]
    <3>1. p \in [Track -> Seq(Nat)] BY <2>1
    <3> QED BY <1>1, <2>2, <3>1 DEF Placings
  <2>3. CASE ~Sized(t)
    <3>1. {none, ids} \cup {disk.place[i] : i \in Track} \subseteq Seq(Nat) BY <2>1
    <3> QED BY <1>1, <2>3, <3>1 DEF Placings
  <2> QED BY <2>2, <2>3
<1> DEFINE n == IF t + 1 > disk.tracks THEN t + 1 ELSE disk.tracks
<1>3. n \in Nat BY Constants DEF Drive, Track
<1>4. \A p \in Placings(t, ids) :
        [disk EXCEPT !.place = p, !.listed = @ \cup {t}, !.tracks = n, !.known = n] \in Drive
  <2> HIDE DEF n
  <2> QED BY <1>2, <1>3 DEF Drive
<1> QED BY <1>4 DEF Flushed

LEMMA ImageTyped == \A mode \in {"none", "rw", "ro"} : Image(mode) \in Drive
<1> TAKE mode \in {"none", "rw", "ro"}
<1>1. <<1, 2>> \in Seq(Nat) /\ <<>> \in Seq(Nat) OBVIOUS
<1>2. [t \in Track |-> IF t = 0 THEN <<1, 2>> ELSE <<>>] \in [Track -> Seq(Nat)]
  BY <1>1
<1>3. {0} \in SUBSET Track BY Constants DEF Track
<1> QED BY <1>2, <1>3 DEF Image, Drive

-----------------------------------------------------------------------------
(* What a command begins with: nothing to do, a transfer or a format. *)

NothingToDo(c) == {"BUSY", "DRQ"} \cap c.status = {} /\ c.left = 0 /\ c.stage = 5

Begins(c, kind, multi, whole) ==
  /\ c \in Controller /\ c.command = kind /\ c.multi = multi
  /\ c.typeI = (kind = "type1")
  /\ ~c.drqNext /\ ~c.endNext /\ (kind # "type1" => ~c.busyNext)
  /\ c.polls = 0 /\ c.count = 0
  /\ \/ NothingToDo(c)
     \/ /\ kind \in Transfers /\ c.status = {"BUSY", "DRQ"}
        /\ c.left = whole /\ whole > 0 /\ c.stage = 5
     \/ /\ kind = "format" /\ c.status = {"BUSY", "DRQ"} /\ c.left = 0 /\ c.stage = 0
        /\ c.ids = <<>> /\ c.track = w.track /\ disk.mode = "rw"

LEMMA Type1Begins ==
  ASSUME w \in Controller, ~w.multi, NEW t \in Track
  PROVE  Begins(Type1(t), "type1", FALSE, 0)
<1> DEFINE c == Begun("type1", w.multi)
<1>1. w.multi = FALSE BY DEF Controller
<1>2. /\ c \in Controller /\ c.command = "type1" /\ c.multi = FALSE /\ c.typeI
      /\ c.left = 0 /\ c.polls = 0 /\ ~c.drqNext /\ ~c.endNext /\ c.stage = 5 /\ c.count = 0
  <2>1. "type1" \in Kinds /\ w.multi \in BOOLEAN BY DEF Kinds, Controller
  <2> QED BY <1>1, <2>1, BegunLemma
<1> HIDE DEF c
<1>3. {"NOTREADY"} \in SUBSET Flags /\ {"TRACK0"} \in SUBSET Flags /\ {} \in SUBSET Flags
  BY DEF Flags
<1>4. ASSUME NEW s \in SUBSET Flags, {"BUSY", "DRQ"} \cap s = {}
      PROVE  /\ Begins([c EXCEPT !.status = s], "type1", FALSE, 0)
             /\ Begins([c EXCEPT !.track = t, !.busyNext = TRUE, !.status = s], "type1", FALSE, 0)
  BY <1>2, <1>4 DEF Begins, NothingToDo, Controller
<1> QED BY <1>3, <1>4 DEF Type1, Told, c

LEMMA NoneBegins ==
  ASSUME NEW c \in Controller, NEW kind, NEW multi, NEW whole, NEW s \in SUBSET Flags,
         c.command = kind, c.multi = multi, c.typeI = (kind = "type1"),
         c.left = 0, c.stage = 5, c.polls = 0, c.count = 0,
         ~c.busyNext, ~c.drqNext, ~c.endNext, {"BUSY", "DRQ"} \cap s = {}
  PROVE  Begins(Told(c, s), kind, multi, whole)
BY DEF Begins, NothingToDo, Told, Controller

LEMMA TransferBegins ==
  ASSUME NEW c \in Controller, NEW kind \in Transfers, NEW multi, NEW whole \in Nat,
         whole > 0, c.command = kind, c.multi = multi, ~c.typeI,
         c.stage = 5, c.polls = 0, c.count = 0, ~c.busyNext, ~c.drqNext, ~c.endNext
  PROVE  /\ Begins(Transfer(c, whole), kind, multi, whole)
         /\ \A n, s \in Nat :
              /\ Begins([Transfer(c, whole) EXCEPT !.atSector = n], kind, multi, whole)
              /\ Begins([Transfer(c, whole) EXCEPT !.size = n], kind, multi, whole)
              /\ Begins([Transfer(c, whole) EXCEPT !.sector = s, !.atSector = n],
                        kind, multi, whole)
<1> DEFINE d == Transfer(c, whole)
<1>1. /\ d \in Controller /\ d.command = kind /\ d.multi = multi /\ ~d.typeI
      /\ ~d.drqNext /\ ~d.endNext /\ ~d.busyNext /\ d.polls = 0 /\ d.count = 0
      /\ d.status = {"BUSY", "DRQ"} /\ d.left = whole /\ d.stage = 5
  BY TransferLemma, ZenonT(40)
<1>2. kind # "type1" BY DEF Transfers
<1> HIDE DEF d
<1>3. Begins(d, kind, multi, whole)
  <2>1. d.typeI = FALSE BY <1>1 DEF Controller
  <2>2. (kind = "type1") = FALSE BY <1>2
  <2> QED BY <1>1, <1>2, <2>1, <2>2 DEF Begins
<1>4. ASSUME NEW n \in Nat, NEW s \in Nat
      PROVE  /\ Begins([d EXCEPT !.atSector = n], kind, multi, whole)
             /\ Begins([d EXCEPT !.size = n], kind, multi, whole)
             /\ Begins([d EXCEPT !.sector = s, !.atSector = n], kind, multi, whole)
  BY <1>1, <1>2 DEF Begins, Controller
<1> QED BY <1>3, <1>4 DEF d

\* What every command but a type I command starts from.
LEMMA ReadyToBegin ==
  ASSUME w \in Controller, ~w.busyNext, NEW kind \in Kinds \ {"type1"}, NEW multi \in BOOLEAN
  PROVE  LET c == Begun(kind, multi)
             p == Positioned(c)
         IN \A d \in {c, p} :
              /\ d \in Controller /\ d.command = kind /\ d.multi = multi /\ ~d.typeI
              /\ d.left = 0 /\ d.polls = 0 /\ d.count = 0 /\ d.stage = 5 /\ d.ids = <<>>
              /\ ~d.busyNext /\ ~d.drqNext /\ ~d.endNext /\ d.track = w.track
<1> DEFINE c == Begun(kind, multi)
<1>1. /\ c \in Controller /\ c.command = kind /\ c.multi = multi /\ ~c.typeI
      /\ c.left = 0 /\ c.polls = 0 /\ c.count = 0 /\ c.stage = 5 /\ c.ids = <<>>
      /\ ~c.busyNext /\ ~c.drqNext /\ ~c.endNext /\ c.track = w.track
  BY BegunLemma, ZenonT(40)
<1> HIDE DEF c
<1>2. Positioned(c) \in Controller /\ Alike(Positioned(c), c) BY <1>1, PositionedLemma
<1> QED BY <1>1, <1>2 DEF Alike, c

LEMMA StatusSets ==
  {{}, {"NOTREADY"}, {"RNF"}, {"WP"}, {"TRACK0"}, {"BUSY"}, {"BUSY", "DRQ"}, {"BUSY", "RNF"}}
    \subseteq SUBSET Flags
BY DEF Flags

LEMMA Type2Begins ==
  ASSUME w \in Controller, disk \in Drive, ~w.busyNext,
         NEW kind \in {"read", "write"}, NEW multi \in BOOLEAN
  PROVE  Begins(Type2(kind, multi), kind, multi, Size)
<1> DEFINE c == Begun(kind, multi)
           p == Positioned(c)
<1>1. kind \in Kinds \ {"type1"} /\ kind \in Transfers BY DEF Kinds, Transfers
<1>2. \A d \in {c, p} :
        /\ d \in Controller /\ d.command = kind /\ d.multi = multi /\ ~d.typeI
        /\ d.left = 0 /\ d.polls = 0 /\ d.count = 0 /\ d.stage = 5
        /\ ~d.busyNext /\ ~d.drqNext /\ ~d.endNext
  BY <1>1, ReadyToBegin
<1> HIDE DEF c, p
<1>3. \A s \in {{"NOTREADY"}, {"RNF"}, {"WP"}} :
        Begins(Told(c, s), kind, multi, Size) /\ Begins(Told(p, s), kind, multi, Size)
  <2> TAKE s \in {{"NOTREADY"}, {"RNF"}, {"WP"}}
  <2>1. s \in SUBSET Flags /\ {"BUSY", "DRQ"} \cap s = {} BY StatusSets
  <2>2. (kind = "type1") = FALSE BY <1>1
  <2>3. c.typeI = FALSE /\ p.typeI = FALSE BY <1>2 DEF Controller
  <2> QED BY <1>2, <2>1, <2>2, <2>3, NoneBegins
<1>4. \A n \in Nat : Begins([Transfer(p, Size) EXCEPT !.atSector = n], kind, multi, Size)
  BY <1>1, <1>2, Constants, TransferBegins
<1>5. /\ w.sector \in Nat /\ Transfer(p, Size).atSector \in Nat
  BY <1>2, Constants, TransferLemma DEF Controller
<1>6. Begins([Transfer(p, Size) EXCEPT
                !.atSector = IF kind = "read" THEN w.sector ELSE @], kind, multi, Size)
  BY <1>4, <1>5
<1> QED BY <1>3, <1>6 DEF Type2, c, p

LEMMA AddressBegins ==
  ASSUME w \in Controller, disk \in Drive, ~w.busyNext, NEW multi \in BOOLEAN, w.multi = multi
  PROVE  Begins(ReadAddress, "address", multi, AddressBytes)
<1> DEFINE c == Begun("address", w.multi)
           p == Positioned(c)
           s == IF p.atSector = 0 THEN OnTrack(w.track)[1] ELSE p.atSector
<1>1. "address" \in Kinds \ {"type1"} /\ "address" \in Transfers /\ w.multi \in BOOLEAN
  BY DEF Kinds, Transfers
<1>2. \A d \in {c, p} :
        /\ d \in Controller /\ d.command = "address" /\ d.multi = multi /\ ~d.typeI
        /\ d.left = 0 /\ d.polls = 0 /\ d.count = 0 /\ d.stage = 5
        /\ ~d.busyNext /\ ~d.drqNext /\ ~d.endNext
  BY <1>1, ReadyToBegin
<1>3. OnTrack(w.track) # <<>> => s \in Nat
  <2>1. OnTrack(w.track) \in Seq(Nat) BY PlaceLemma DEF Controller
  <2>2. p.atSector \in Nat BY <1>2 DEF Controller
  <2> QED BY <2>1, <2>2
<1> HIDE DEF c, p, s
<1>4. \A x \in {{"NOTREADY"}, {"RNF"}} :
        /\ Begins(Told(c, x), "address", multi, AddressBytes)
        /\ Begins(Told(p, x), "address", multi, AddressBytes)
  <2> TAKE x \in {{"NOTREADY"}, {"RNF"}}
  <2>1. x \in SUBSET Flags /\ {"BUSY", "DRQ"} \cap x = {} BY StatusSets
  <2>2. ("address" = "type1") = FALSE OBVIOUS
  <2>3. c.typeI = FALSE /\ p.typeI = FALSE BY <1>2 DEF Controller
  <2> QED BY <1>2, <2>1, <2>2, <2>3, NoneBegins
<1>5. OnTrack(w.track) # <<>> =>
        Begins([Transfer(p, AddressBytes) EXCEPT !.sector = s, !.atSector = s],
               "address", multi, AddressBytes)
  BY <1>1, <1>2, <1>3, Constants, TransferBegins
<1> QED BY <1>4, <1>5 DEF ReadAddress, c, p, s

LEMMA TrackBegins ==
  ASSUME w \in Controller, disk \in Drive, ~w.busyNext
  PROVE  TrackBytes \in Nat /\ Begins(ReadTrack, "readtrack", FALSE, TrackBytes)
<1> DEFINE c == Begun("readtrack", FALSE)
           p == Positioned(c)
<1>1. "readtrack" \in Kinds \ {"type1"} /\ "readtrack" \in Transfers
  BY DEF Kinds, Transfers
<1>2. \A d \in {c, p} :
        /\ d \in Controller /\ d.command = "readtrack" /\ d.multi = FALSE /\ ~d.typeI
        /\ d.left = 0 /\ d.polls = 0 /\ d.count = 0 /\ d.stage = 5
        /\ ~d.busyNext /\ ~d.drqNext /\ ~d.endNext
  <2>1. PICK no \in BOOLEAN : no = FALSE OBVIOUS
  <2>2. \A d \in {Begun("readtrack", no), Positioned(Begun("readtrack", no))} :
          /\ d \in Controller /\ d.command = "readtrack" /\ d.multi = no /\ ~d.typeI
          /\ d.left = 0 /\ d.polls = 0 /\ d.count = 0 /\ d.stage = 5
          /\ ~d.busyNext /\ ~d.drqNext /\ ~d.endNext
    BY <1>1, <2>1, ReadyToBegin
  <2> QED BY <2>1, <2>2
<1>3. TrackBytes \in Nat /\ TrackBytes > 0
  <2>1. Len(OnTrack(w.track)) \in Nat BY PlaceLemma DEF Controller
  <2>2. Len(OnTrack(w.track)) * (Overhead + Size) \in Nat BY <2>1, Constants
  <2> QED BY <2>2 DEF TrackBytes
<1>4. c.size \in Nat BY <1>2 DEF Controller
<1> HIDE DEF c, p
<1>5. \A x \in {{"NOTREADY"}, {"RNF"}} :
        /\ Begins(Told(c, x), "readtrack", FALSE, TrackBytes)
        /\ Begins(Told(p, x), "readtrack", FALSE, TrackBytes)
  <2> TAKE x \in {{"NOTREADY"}, {"RNF"}}
  <2>1. x \in SUBSET Flags /\ {"BUSY", "DRQ"} \cap x = {} BY StatusSets
  <2>2. ("readtrack" = "type1") = FALSE OBVIOUS
  <2>3. c.typeI = FALSE /\ p.typeI = FALSE BY <1>2 DEF Controller
  <2> QED BY <1>2, <2>1, <2>2, <2>3, NoneBegins
<1>6. Begins([Transfer(p, TrackBytes) EXCEPT !.size = c.size], "readtrack", FALSE, TrackBytes)
  BY <1>1, <1>2, <1>3, <1>4, TransferBegins
<1> QED BY <1>3, <1>5, <1>6 DEF ReadTrack, c, p

LEMMA FormatBegins ==
  ASSUME w \in Controller, ~w.busyNext
  PROVE  Begins(WriteTrack, "format", FALSE, 0)
<1> DEFINE c == Begun("format", FALSE)
<1>1. "format" \in Kinds \ {"type1"} BY DEF Kinds
<1>2. /\ c \in Controller /\ c.command = "format" /\ c.multi = FALSE /\ ~c.typeI
      /\ c.left = 0 /\ c.polls = 0 /\ c.count = 0 /\ c.stage = 5 /\ c.ids = <<>>
      /\ ~c.busyNext /\ ~c.drqNext /\ ~c.endNext /\ c.track = w.track
  BY <1>1, ReadyToBegin
<1>3. c.typeI = FALSE /\ ("format" = "type1") = FALSE BY <1>2 DEF Controller
<1> HIDE DEF c
<1>4. Begins(Told(c, {"NOTREADY"}), "format", FALSE, 0)
  <2>1. {"NOTREADY"} \in SUBSET Flags /\ {"BUSY", "DRQ"} \cap {"NOTREADY"} = {}
    BY StatusSets
  <2> QED BY <1>2, <1>3, <2>1, NoneBegins
<1>5. disk.mode = "rw" =>
        Begins([c EXCEPT !.stage = 0, !.count = 0, !.status = {"BUSY", "DRQ"}], "format", FALSE, 0)
  BY <1>2, <1>3, StatusSets DEF Begins, Controller
<1> QED BY <1>4, <1>5 DEF WriteTrack, c

-----------------------------------------------------------------------------
(* One lemma per action. *)

\* A command that begins keeps the invariant.
LEMMA AskStep ==
  ASSUME IInv, NEW c, NEW kind \in Kinds \ {"none"}, NEW multi \in BOOLEAN, NEW whole \in Nat,
         multi => kind \in {"read", "write"}, kind \in {"read", "write"} => whole = Size,
         Begins(c, kind, multi, whole), Ask(c, kind, multi, whole)
  PROVE  IInv'
<1>1. c \in Controller BY DEF Begins
<1>2. w' = Checked(c) /\ over' = FALSE /\ seen' = Unread /\ moved' = 0 /\ stream' = NoStream
      /\ disk' = disk /\ eint' = eint
  BY DEF Ask
<1>3. /\ w' \in Controller /\ Alike(w', c) /\ (w'.int => NeedsInt(w'))
  BY <1>1, <1>2, CheckedLemma
<1> DEFINE found == {p \in Track \X (1..LastSector) : p[1] < w.track /\ Found(p[1], p[2])}
<1>4. PICK m \in BOOLEAN :
        /\ ~m => kind = "read"
        /\ asked' = [kind |-> kind, multi |-> multi, moves |-> m, busy |-> FALSE,
                     whole |-> whole, track |-> w.track, found |-> found,
                     sized |-> Sized(w.track)]
  BY DEF Ask
<1>5. found \in SUBSET (Track \X Nat) /\ \A p \in found : p[1] < w.track /\ Found(p[1], p[2])
  OBVIOUS
<1> HIDE DEF found
<1>6. w \in Controller /\ disk \in Drive /\ eint \in BOOLEAN BY DEF IInv, Types
<1>7. /\ asked' \in Question /\ asked'.kind = kind /\ asked'.multi = multi /\ asked'.moves = m
      /\ asked'.busy = FALSE /\ asked'.whole = whole /\ asked'.track = w.track
      /\ asked'.found = found /\ (asked'.sized => Sized(w.track))
  <2>1. w.track \in Track BY <1>6 DEF Controller
  <2>2. PICK z \in BOOLEAN : z = Sized(w.track)
    <3>1. Sized(w.track) \in BOOLEAN BY DEF Sized
    <3> QED BY <3>1, Zenon
  <2>3. asked' = [kind |-> kind, multi |-> multi, moves |-> m, busy |-> FALSE,
                  whole |-> whole, track |-> w.track, found |-> found, sized |-> z]
    BY <1>4, <2>2
  <2> QED BY <1>5, <2>1, <2>2, <2>3 DEF Question
<1>8. /\ stream' \in Stream /\ stream'.at = 0 /\ stream'.ids = <<>>
      /\ stream'.disturbed = FALSE
  <2>1. <<>> \in Seq(Nat) OBVIOUS
  <2> QED BY <1>2, <2>1 DEF NoStream, Stream
<1>9. Types' BY <1>2, <1>3, <1>6, <1>7, <1>8 DEF Types
<1>10. /\ w'.command = kind /\ w'.multi = multi /\ (kind # "type1" => ~w'.typeI)
       /\ ~w'.drqNext /\ ~w'.endNext /\ (kind # "type1" => ~w'.busyNext)
       /\ w'.polls = 0 /\ w'.count = 0
  BY <1>3 DEF Begins, Alike
<1>11. \/ {"BUSY", "DRQ"} \cap w'.status = {} /\ w'.left = 0 /\ w'.stage = 5
       \/ /\ kind \in Transfers /\ w'.status = {"BUSY", "DRQ"}
          /\ w'.left = whole /\ whole > 0 /\ w'.stage = 5
       \/ /\ kind = "format" /\ w'.status = {"BUSY", "DRQ"} /\ w'.left = 0 /\ w'.stage = 0
          /\ w'.ids = <<>> /\ w'.track = w.track /\ disk.mode = "rw"
  BY <1>3 DEF Begins, Alike, NothingToDo
<1>12. AskedInv'
  BY <1>3, <1>4, <1>5, <1>7, <1>10 DEF AskedInv, NeedsInt
<1>13. OverInv' /\ DoneInv' BY <1>2 DEF OverInv, DoneInv
<1>14. Type1Inv'
  BY <1>2, <1>7, <1>10, <1>11, Constants DEF Type1Inv, Pending, Transfers
<1>15. MovesInv'
  BY <1>2, <1>7, <1>10, <1>11, Constants DEF MovesInv, Pending, Transfers
<1>16. LooksInv'
  BY <1>2, <1>4, <1>7, <1>10, <1>11 DEF LooksInv, Pending, Transfers, Quiet
<1>17. CountInv'
  BY <1>2, <1>7, <1>11, ModLemma, Constants DEF CountInv, Pending, Transfers
<1>18. FormatInv'
  <2> SUFFICES ASSUME kind = "format" PROVE FormatInv' BY <1>7 DEF FormatInv
  <2>1. CASE {"BUSY", "DRQ"} \cap w'.status = {} /\ w'.left = 0 /\ w'.stage = 5
    BY <2>1, <1>2, <1>7, <1>8, <1>10, Constants DEF FormatInv, Stopping, Quiet, TrackWhole
  <2>2. CASE /\ w'.status = {"BUSY", "DRQ"} /\ w'.left = 0 /\ w'.stage = 0
             /\ w'.ids = <<>> /\ w'.track = w.track /\ disk.mode = "rw"
    <3>1. StillThere' /\ (asked'.sized => Sized(asked.track)')
      BY <1>2, <1>5, <1>7 DEF StillThere, Found, Exists, Ready, Has, OnTrack, Place, Sized
    <3>2. Running'
      BY <2>2, <3>1, <1>2, <1>7, <1>8, <1>10, Constants DEF Running, Abreast
    <3> QED BY <2>2, <3>2, <1>2 DEF FormatInv
  <2> QED BY <1>11, <2>1, <2>2 DEF Transfers
<1>19. CountTyped' BY <1>10, Constants DEF CountTyped
<1> QED
  BY <1>9, <1>12, <1>13, <1>14, <1>15, <1>16, <1>17, <1>18, <1>19 DEF IInv

\* A program that gives a command has had the last one ended.
LEMMA Rests ==
  ASSUME IInv, ~Loose, over, ~Open
  PROVE  Quiet /\ w.multi = FALSE
BY DEF IInv, Types, Controller, OverInv, AskedInv, Open

LEMMA CommandStep ==
  ASSUME IInv, ~Loose, Position \/ AskSectors \/ AskAddress \/ AskTrack \/ AskFormat
  PROVE  IInv'
<1>1. w \in Controller /\ disk \in Drive BY DEF IInv, Types
<1>2. over /\ ~Open BY DEF Position, AskSectors, AskAddress, AskTrack, AskFormat, Ask
<1>3. ~w.busyNext /\ w.multi = FALSE /\ ~w.multi BY <1>2, Rests DEF Quiet
<1>4. \A kind \in {"type1", "read", "write", "address", "readtrack", "format"} :
        kind \in Kinds \ {"none"}
  BY DEF Kinds
<1>5. CASE Position
  <2>1. PICK t \in Track : Ask(Type1(t), "type1", FALSE, 0) BY <1>5 DEF Position
  <2>2. Begins(Type1(t), "type1", FALSE, 0) BY <1>1, <1>3, Type1Begins
  <2> QED BY <1>4, <2>1, <2>2, AskStep
<1>6. CASE AskSectors
  <2>1. PICK kind \in {"read", "write"}, multi \in BOOLEAN :
          Ask(Type2(kind, multi), kind, multi, Size)
    BY <1>6 DEF AskSectors
  <2>2. Begins(Type2(kind, multi), kind, multi, Size) BY <1>1, <1>3, Type2Begins
  <2> QED BY <1>4, <2>1, <2>2, Constants, AskStep
<1>7. CASE AskAddress
  <2>1. Begins(ReadAddress, "address", FALSE, AddressBytes) BY <1>1, <1>3, AddressBegins
  <2> QED BY <1>4, <1>7, <2>1, Constants, AskStep DEF AskAddress
<1>8. CASE AskTrack
  <2>1. TrackBytes \in Nat /\ Begins(ReadTrack, "readtrack", FALSE, TrackBytes)
    BY <1>1, <1>3, TrackBegins
  <2> QED BY <1>4, <1>8, <2>1, AskStep DEF AskTrack
<1>9. CASE AskFormat
  <2>1. Begins(WriteTrack, "format", FALSE, 0) BY <1>1, <1>3, FormatBegins
  <2> QED BY <1>4, <1>9, <2>1, AskStep DEF AskFormat
<1> QED BY <1>5, <1>6, <1>7, <1>8, <1>9

\* The program is left with nothing asked, by Force Interrupt or by a register.
LEMMA NothingAskedStep ==
  ASSUME IInv, NEW c \in Controller, w' = Checked(c), over' = TRUE,
         seen' = Unread, asked' = Nothing, moved' = 0, stream' = NoStream,
         UNCHANGED <<disk, eint>>,
         c.multi = FALSE, NothingToDo(c), ~c.busyNext, ~c.drqNext, ~c.endNext,
         c.count <= EndLimit + Size + 1
  PROVE  IInv'
<1>1. w' \in Controller /\ Alike(w', c) /\ (w'.int => NeedsInt(w')) BY CheckedLemma
<1>2. /\ asked' \in Question /\ asked'.kind = "none" /\ asked'.multi = FALSE
      /\ asked'.moves /\ asked'.found = {}
  BY Constants DEF Nothing, Question, Kinds, Track
<1>3. stream' \in Stream
  <2>1. <<>> \in Seq(Nat) OBVIOUS
  <2> QED BY <2>1 DEF NoStream, Stream
<1>4. Types' BY <1>1, <1>2, <1>3 DEF IInv, Types
<1>5. AskedInv' BY <1>1, <1>2 DEF AskedInv, Alike
<1>6. OverInv' BY <1>1 DEF OverInv, Quiet, NothingToDo, Alike
<1>7. Type1Inv' /\ MovesInv' /\ LooksInv' BY DEF Type1Inv, MovesInv, LooksInv, Pending
<1>8. CountInv' /\ DoneInv' BY <1>2 DEF CountInv, DoneInv, Pending
<1>9. FormatInv' BY <1>2 DEF FormatInv
<1>10. CountTyped' BY <1>1 DEF CountTyped, Alike
<1> QED BY <1>4, <1>5, <1>6, <1>7, <1>8, <1>9, <1>10 DEF IInv

LEMMA ForceInterruptStep ==
  ASSUME IInv, ForceInterrupt
  PROVE  IInv'
<1> DEFINE c == Forced(w)
<1>1. w \in Controller BY DEF IInv, Types
<1>2. PICK none \in Seq(Nat) : none = <<>>
  <2>1. <<>> \in Seq(Nat) OBVIOUS
  <2> QED BY <2>1, Zenon
<1> DEFINE b == [w EXCEPT !.wait = 0, !.command = "none", !.typeI = TRUE, !.left = 0,
                          !.multi = FALSE, !.polls = 0]
           d == [b EXCEPT !.busyNext = FALSE, !.drqNext = FALSE, !.endNext = FALSE,
                          !.status = {}, !.stage = 5, !.count = 0, !.ids = none]
<1>3. c = d BY <1>1, <1>2 DEF Forced, Controller
<1>4. b \in Controller /\ b.multi = FALSE /\ b.left = 0
  <2>1. "none" \in Kinds BY DEF Kinds
  <2> QED BY <1>1, <2>1 DEF Controller
<1> HIDE DEF b
<1>5. /\ d \in Controller /\ d.multi = FALSE /\ d.left = 0 /\ d.stage = 5 /\ d.status = {}
      /\ ~d.busyNext /\ ~d.drqNext /\ ~d.endNext /\ d.count = 0
  BY <1>4 DEF Controller
<1> HIDE DEF d
<1>6. /\ c \in Controller /\ c.multi = FALSE /\ NothingToDo(c)
      /\ ~c.busyNext /\ ~c.drqNext /\ ~c.endNext /\ c.count <= EndLimit + Size + 1
  BY <1>3, <1>5, Constants DEF NothingToDo
<1> HIDE DEF c
<1> QED BY <1>6, NothingAskedStep DEF ForceInterrupt, c

LEMMA RegisterStep ==
  ASSUME IInv, ~Loose, WriteTrackRegister \/ WriteSectorRegister
  PROVE  IInv'
<1>1. w \in Controller BY DEF IInv, Types
<1>2. ASSUME NEW c \in Controller, Registers(c),
             c.multi = w.multi, c.status = w.status, c.left = w.left, c.stage = w.stage,
             c.busyNext = w.busyNext, c.drqNext = w.drqNext, c.endNext = w.endNext,
             c.count = w.count
      PROVE  IInv'
  <2>1. over /\ ~Open BY <1>2 DEF Registers
  <2>2. c.multi = FALSE /\ NothingToDo(c) /\ ~c.busyNext /\ ~c.drqNext /\ ~c.endNext
    BY <1>2, <2>1, Rests DEF Quiet, NothingToDo
  <2>3. c.count <= EndLimit + Size + 1 BY <1>2 DEF IInv, CountTyped
  <2> QED BY <1>2, <2>1, <2>2, <2>3, NothingAskedStep DEF Registers, IInv, Types
<1>3. CASE WriteTrackRegister
  <2>1. PICK t \in Track : Registers([w EXCEPT !.track = IF t = 0 THEN @ ELSE t])
    BY <1>3 DEF WriteTrackRegister
  <2>2. PICK u \in Track : u = IF t = 0 THEN w.track ELSE t BY <1>1 DEF Controller
  <2>3. Registers([w EXCEPT !.track = u]) BY <1>1, <2>1, <2>2
  <2> QED BY <1>1, <1>2, <2>3 DEF Controller
<1>4. CASE WriteSectorRegister
  <2>1. PICK s \in 1..LastSector : Registers([w EXCEPT !.sector = s])
    BY <1>4 DEF WriteSectorRegister
  <2>2. s \in Nat BY <2>1
  <2> QED BY <1>1, <1>2, <2>1, <2>2 DEF Controller
<1> QED BY <1>3, <1>4

\* The interrupt is looked at, and the track register read; wait is all it changes.
LEMMA LookStep ==
  ASSUME IInv, NEW c \in Controller, Alike(c, w), w' = Checked(c),
         \/ UNCHANGED seen
         \/ seen' = Unread /\ (asked.moves => over \/ "DRQ" \notin seen),
         UNCHANGED <<disk, over, asked, moved, stream, eint>>
  PROVE  IInv'
<1>1. w' \in Controller /\ Alike(w', c) /\ (w'.int => NeedsInt(w')) BY CheckedLemma
<1>2. Alike(w', w) BY <1>1 DEF Alike
<1>3. /\ disk' = disk /\ over' = over /\ asked' = asked /\ moved' = moved
      /\ stream' = stream /\ eint' = eint
  OBVIOUS
<1>4. asked.moves /\ ~over => ("DRQ" \in seen' <=> "DRQ" \in seen)
  BY Constants
<1>5. "DRQ" \notin seen => "DRQ" \notin seen' BY Constants
<1>6. Types' BY <1>1, <1>3 DEF IInv, Types
<1>7. AskedInv' BY <1>1, <1>2, <1>3 DEF IInv, AskedInv, Alike
<1>8. OverInv' BY <1>2, <1>3 DEF IInv, OverInv, Quiet, Alike
<1>9. Type1Inv' BY <1>2, <1>3, <1>5 DEF IInv, Type1Inv, Pending, Alike
<1>10. MovesInv' BY <1>2, <1>3, <1>4 DEF IInv, MovesInv, Pending, Alike
<1>11. LooksInv' BY <1>2, <1>3 DEF IInv, LooksInv, Pending, Quiet, Alike
<1>12. CountInv' /\ DoneInv' BY <1>2, <1>3 DEF IInv, CountInv, DoneInv, Pending, Alike
<1>13. \A u, n : Found(u, n)' <=> Found(u, n)
  BY <1>3 DEF Found, Exists, Ready, Has, OnTrack, Place
<1>14. OnTrack(asked.track)' = OnTrack(asked.track) BY <1>3 DEF OnTrack, Place
<1>15. FormatInv'
  <2>1. Running => Running' BY <1>2, <1>3, <1>13 DEF Running, Abreast, StillThere, Sized, Alike
  <2>2. TrackWhole => TrackWhole' BY <1>3, <1>13, <1>14 DEF TrackWhole, FormatKept
  <2>3. Stopping => Stopping' BY <2>2, <1>2, <1>3, <1>5 DEF Stopping, Quiet, Alike
  <2> QED BY <2>1, <2>3, <1>2, <1>3 DEF IInv, FormatInv, Alike
<1>16. CountTyped' BY <1>2 DEF IInv, CountTyped, Alike
<1> QED
  BY <1>6, <1>7, <1>8, <1>9, <1>10, <1>11, <1>12, <1>15, <1>16 DEF IInv

LEMMA MountStep ==
  ASSUME IInv, Mount
  PROVE  IInv'
<1>1. /\ w' = w /\ over' = over /\ asked' = asked /\ moved' = moved /\ seen' = seen
      /\ eint' = eint /\ stream' = [stream EXCEPT !.disturbed = TRUE]
  BY DEF Mount
<1>2. disk' \in Drive BY ImageTyped DEF Mount
<1>3. /\ stream' \in Stream /\ stream'.at = stream.at /\ stream'.ids = stream.ids
      /\ stream'.disturbed
  BY <1>1 DEF IInv, Types, Stream
<1>4. Types' BY <1>1, <1>2, <1>3 DEF IInv, Types
<1>5. AskedInv' BY <1>1 DEF IInv, AskedInv, NeedsInt
<1>6. OverInv' BY <1>1 DEF IInv, OverInv, Quiet
<1>7. Type1Inv' /\ MovesInv' BY <1>1 DEF IInv, Type1Inv, MovesInv, Pending
<1>8. LooksInv' BY <1>1 DEF IInv, LooksInv, Pending, Quiet
<1>9. CountInv' /\ DoneInv' BY <1>1 DEF IInv, CountInv, DoneInv, Pending
<1>10. FormatInv'
  <2>1. Running => Running' BY <1>1, <1>3 DEF Running, Abreast
  <2>2. Stopping => Stopping' BY <1>1, <1>3 DEF Stopping, Quiet, TrackWhole
  <2> QED BY <2>1, <2>2, <1>1 DEF IInv, FormatInv
<1>11. CountTyped' BY <1>1 DEF IInv, CountTyped
<1> QED BY <1>4, <1>5, <1>6, <1>7, <1>8, <1>9, <1>10, <1>11 DEF IInv

\* What reading the status does to the controller.
ScriptedStatus == IF w.endNext THEN {} ELSE IF w.drqNext THEN w.status \cup {"DRQ"} ELSE w.status

LEMMA ScriptedLemma ==
  ASSUME w \in Controller
  PROVE  LET c == Scripted
         IN /\ c \in Controller /\ c.command = w.command /\ c.multi = w.multi
            /\ c.status = ScriptedStatus /\ c.typeI = w.typeI /\ c.left = w.left
            /\ c.size = w.size /\ c.polls = w.polls
            /\ c.busyNext = FALSE /\ c.drqNext = FALSE /\ c.endNext = FALSE
            /\ c.sector = w.sector /\ c.track = w.track
            /\ c.stage = w.stage /\ c.count = w.count /\ c.ids = w.ids
<1>1. ScriptedStatus \in SUBSET Flags BY DEF ScriptedStatus, Controller, Flags
<1>2. Scripted = [w EXCEPT !.busyNext = FALSE, !.drqNext = FALSE, !.endNext = FALSE,
                           !.status = ScriptedStatus]
  BY DEF Scripted, ScriptedStatus, Controller
<1> QED BY <1>1, <1>2 DEF Controller

\* What stays as it is, whatever sector is loaded or ended.
Same(c) == /\ c \in Controller /\ c.command = w.command /\ c.multi = w.multi
           /\ c.typeI = w.typeI /\ c.track = w.track /\ c.stage = w.stage
           /\ c.count = w.count /\ c.ids = w.ids

LEMMA LoadedLemma ==
  ASSUME NEW c \in Controller, Same(c)
  PROVE  /\ Same(Loaded(c)) /\ Loaded(c).left = Size /\ Loaded(c).polls = c.polls
         /\ Loaded(c).busyNext = c.busyNext /\ Loaded(c).drqNext = c.drqNext
         /\ Loaded(c).endNext = c.endNext /\ Loaded(c).status = c.status
<1>1. PICK n \in Nat : n = c.sector + 1 BY DEF Controller
<1>2. PICK z \in Nat : z = Size BY Constants
<1>3. Loaded(c) = [c EXCEPT !.sector = n, !.atSector = n, !.left = z, !.size = z]
  BY <1>1, <1>2 DEF Loaded
<1> QED BY <1>2, <1>3, ZenonT(40) DEF Same, Controller

LEMMA EndOfTrackLemma ==
  ASSUME NEW c \in Controller, Same(c)
  PROVE  LET d == EndOfTrack(c)
         IN /\ Same(d) /\ d.left = c.left /\ d.polls = c.polls /\ d.endNext = TRUE
            /\ d.busyNext = c.busyNext /\ d.drqNext = c.drqNext
            /\ d.status = {"BUSY", "RNF"}
<1>1. {"BUSY", "RNF"} \in SUBSET Flags BY DEF Flags
<1> QED BY <1>1 DEF EndOfTrack, Same, Controller

LEMMA AfterStatusLemma ==
  ASSUME w \in Controller
  PROVE  LET c == AfterStatus
         IN /\ Same(c) /\ c.busyNext = FALSE /\ c.drqNext = FALSE
            /\ \/ /\ c.status = ScriptedStatus /\ c.left = w.left /\ c.endNext = FALSE
                  /\ c.polls \in {w.polls, w.polls + 1}
               \/ /\ w.command = "read" /\ w.left > 0 /\ w.polls >= PollLimit
                  /\ ~w.multi => c.status = {} /\ c.left = 0 /\ c.endNext = FALSE
<1> DEFINE c == Scripted
           p == [c EXCEPT !.polls = 0]
<1>1. /\ Same(c) /\ c \in Controller /\ c.busyNext = FALSE /\ c.drqNext = FALSE
      /\ c.status = ScriptedStatus /\ c.left = w.left /\ c.endNext = FALSE
      /\ c.polls = w.polls
  BY ScriptedLemma DEF Same
<1> HIDE DEF c
<1>2. /\ Same(p) /\ p \in Controller /\ p.busyNext = FALSE /\ p.drqNext = FALSE
      /\ p.endNext = FALSE
  BY <1>1 DEF Same, Controller
<1>3. LET d == [c EXCEPT !.polls = @ + 1]
      IN /\ Same(d) /\ d.busyNext = FALSE /\ d.drqNext = FALSE
         /\ d.status = ScriptedStatus /\ d.left = w.left /\ d.endNext = FALSE
         /\ d.polls = w.polls + 1
  <2>1. PICK n \in Nat : n = c.polls + 1 BY <1>1, SMTT(40) DEF Controller
  <2> QED BY <1>1, <2>1 DEF Same, Controller
<1>4. LET d == [p EXCEPT !.status = {}, !.left = 0]
      IN /\ Same(d) /\ d.busyNext = FALSE /\ d.drqNext = FALSE
         /\ d.status = {} /\ d.left = 0 /\ d.endNext = FALSE
  BY <1>2 DEF Same, Controller
<1> HIDE DEF p
<1>5. LET d == Told(Loaded(p), {"BUSY", "DRQ"})
      IN Same(d) /\ d.busyNext = FALSE /\ d.drqNext = FALSE
  <2>1. PICK q \in Controller : q = Loaded(p) BY <1>2, LoadedLemma DEF Same
  <2>2. Same(q) /\ q.busyNext = FALSE /\ q.drqNext = FALSE BY <1>2, <2>1, LoadedLemma
  <2>3. {"BUSY", "DRQ"} \in SUBSET Flags BY DEF Flags
  <2>4. Same(Told(q, {"BUSY", "DRQ"})) /\ Told(q, {"BUSY", "DRQ"}).busyNext = FALSE
        /\ Told(q, {"BUSY", "DRQ"}).drqNext = FALSE
    BY <2>2, <2>3 DEF Told, Same, Controller
  <2> QED BY <2>1, <2>4
<1>6. Same(EndOfTrack(p)) /\ EndOfTrack(p).busyNext = FALSE /\ EndOfTrack(p).drqNext = FALSE
  BY <1>2, EndOfTrackLemma
<1>7. CASE ~(w.left = w.size /\ w.size > 0 /\ w.command = "read")
  <2>1. AfterStatus = c BY <1>7 DEF AfterStatus, c
  <2> QED BY <1>1, <2>1
<1>8. CASE w.left = w.size /\ w.size > 0 /\ w.command = "read"
  <2>0. w.polls \in Nat /\ PollLimit \in Nat BY Constants DEF Controller
  <2>1. CASE w.polls < PollLimit
    <3>1. AfterStatus = [c EXCEPT !.polls = @ + 1] BY <1>8, <2>1 DEF AfterStatus, c
    <3> QED BY <1>3, <3>1
  <2>2. CASE ~(w.polls < PollLimit) /\ ~w.multi
    <3>1. AfterStatus = [p EXCEPT !.status = {}, !.left = 0]
      BY <1>8, <2>2 DEF AfterStatus, c, p
    <3> QED BY <1>4, <1>8, <2>0, <2>2, <3>1
  <2>3. CASE ~(w.polls < PollLimit) /\ w.multi
    <3>1. AfterStatus \in {Told(Loaded(p), {"BUSY", "DRQ"}), EndOfTrack(p)}
      BY <1>8, <2>3 DEF AfterStatus, c, p
    <3> QED BY <1>5, <1>6, <1>8, <2>0, <2>3, <3>1
  <2> QED BY <2>1, <2>2, <2>3
<1> QED BY <1>7, <1>8

LEMMA ReadStatusStep ==
  ASSUME IInv, ~Loose, ReadStatus
  PROVE  IInv'
<1> DEFINE c == AfterStatus
<1>0. w \in Controller /\ asked \in Question BY DEF IInv, Types
<1>1. /\ Same(c) /\ c.busyNext = FALSE /\ c.drqNext = FALSE
      /\ \/ /\ c.status = ScriptedStatus /\ c.left = w.left /\ c.endNext = FALSE
            /\ c.polls \in {w.polls, w.polls + 1}
         \/ /\ w.command = "read" /\ w.left > 0 /\ w.polls >= PollLimit
            /\ ~w.multi => c.status = {} /\ c.left = 0 /\ c.endNext = FALSE
  BY <1>0, AfterStatusLemma
<1>2. w' = Checked(c) /\ seen' = StatusRead /\ Free /\ ~Open BY DEF ReadStatus
<1> HIDE DEF c
<1>3. w' \in Controller /\ Alike(w', c) /\ (w'.int => NeedsInt(w'))
  BY <1>1, <1>2, CheckedLemma DEF Same
<1>4. /\ w'.command = w.command /\ w'.multi = w.multi /\ w'.typeI = w.typeI
      /\ w'.track = w.track /\ w'.stage = w.stage /\ w'.count = w.count /\ w'.ids = w.ids
      /\ w'.busyNext = FALSE /\ w'.drqNext = FALSE
  BY <1>1, <1>3 DEF Same, Alike
<1> DEFINE Step == /\ w'.status = ScriptedStatus /\ w'.left = w.left /\ w'.endNext = FALSE
                   /\ w'.polls \in {w.polls, w.polls + 1}
           Skip == /\ w.command = "read" /\ w.left > 0 /\ w.polls >= PollLimit
                   /\ ~w.multi => w'.status = {} /\ w'.left = 0 /\ w'.endNext = FALSE
<1>5. Step \/ Skip BY <1>1, <1>3 DEF Alike
<1>6. /\ disk' = disk /\ moved' = moved /\ stream' = stream /\ eint' = eint
      /\ over' = (over \/ "BUSY" \notin StatusRead)
      /\ asked' = [asked EXCEPT !.busy = @ \/ "BUSY" \in StatusRead]
  BY DEF ReadStatus
<1>7. /\ asked' \in Question /\ asked'.kind = asked.kind /\ asked'.multi = asked.multi
      /\ asked'.moves = asked.moves /\ asked'.whole = asked.whole
      /\ asked'.track = asked.track /\ asked'.found = asked.found
  <2>1. PICK b \in BOOLEAN : b = (asked.busy \/ "BUSY" \in StatusRead) OBVIOUS
  <2> QED BY <1>0, <1>6, <2>1 DEF Question
<1>8. StatusRead \in SUBSET Flags BY <1>0 DEF StatusRead, Controller, Flags
<1>9. /\ over \in BOOLEAN /\ moved \in Nat /\ w.left \in Nat /\ w.polls \in Nat
      /\ w.multi \in BOOLEAN /\ asked.multi \in BOOLEAN /\ asked.moves \in BOOLEAN
  BY <1>0 DEF IInv, Types, Controller, Question
<1>10. over' \in BOOLEAN BY <1>6
<1>11. Types' BY <1>2, <1>3, <1>6, <1>7, <1>8, <1>10 DEF IInv, Types
<1>12. AskedInv' BY <1>3, <1>4, <1>6, <1>7 DEF IInv, AskedInv
<1>13. over => Quiet /\ ~asked.multi BY <1>2, <1>9 DEF IInv, OverInv, Open
<1>14. "BUSY" \in w.status /\ ~w.typeI => "BUSY" \in StatusRead BY DEF StatusRead
<1>15. ~w.typeI /\ ~w.busyNext => StatusRead = w.status BY DEF StatusRead
\* Only a program that does not move the bytes has a sector passed over.
<1>16. ~over /\ asked.moves => Step
  <2> SUFFICES ASSUME ~over, asked.moves, Skip PROVE FALSE BY <1>5
  <2>1. asked.kind \notin {"type1", "none"} BY DEF IInv, Type1Inv, Pending, AskedInv
  <2>2. asked.kind # "format" BY Constants DEF IInv, FormatInv, Running, Stopping, Quiet
  <2>3. asked.kind \in Transfers BY <1>0, <2>1, <2>2 DEF Question, Kinds, Transfers
  <2>4. "DRQ" \notin seen BY <1>2 DEF Free
  <2>5. w.polls <= IF "DRQ" \in w.status THEN 1 ELSE 0
    BY <2>3, <2>4, <1>9 DEF IInv, MovesInv, Pending
  <2> QED BY <2>5, <1>9, Constants
<1>17. over => Step BY <1>5, <1>13 DEF Quiet
<1>18. Quiet => Quiet'
  <2> SUFFICES ASSUME Quiet PROVE Quiet' OBVIOUS
  <2>1. Step BY <1>5 DEF Quiet
  <2> QED BY <2>1, <1>4 DEF Quiet, ScriptedStatus
<1>19. ASSUME ~over, over', ~asked.multi PROVE Quiet'
  <2>1. "BUSY" \notin StatusRead BY <1>6, <1>19
  <2>2. CASE asked.kind = "none" BY <1>19, <2>2 DEF IInv, AskedInv
  <2>3. CASE asked.kind = "type1"
    <3>1. /\ {"BUSY", "DRQ"} \cap w.status = {} /\ w.left = 0 /\ w.stage = 5
          /\ ~w.drqNext /\ ~w.endNext
      BY <1>19, <2>3 DEF IInv, Type1Inv, Pending
    <3>2. Step BY <1>5, <3>1
    <3> QED BY <1>4, <3>1, <3>2 DEF Quiet, ScriptedStatus
  <2>4. CASE asked.kind \in Transfers /\ asked.moves
    <3>1. /\ w.stage = 5 /\ ~w.typeI /\ ~w.busyNext /\ (w.endNext => "BUSY" \in w.status)
          /\ ~w.drqNext /\ (w.left > 0 => "BUSY" \in w.status)
          /\ (w.left = 0 => "DRQ" \notin w.status)
      BY <1>19, <2>4 DEF IInv, MovesInv, Pending
    <3>2. "BUSY" \notin w.status BY <1>15, <2>1, <3>1
    <3>3. w.left = 0 BY <1>9, <3>1, <3>2
    <3> QED BY <1>4, <1>16, <1>19, <2>4, <3>1, <3>2, <3>3 DEF Quiet, ScriptedStatus
  <2>5. CASE asked.kind \in Transfers /\ ~asked.moves
    <3>1. /\ ~w.typeI /\ IF w.left > 0 THEN "BUSY" \in w.status ELSE Quiet
      BY <1>19, <2>5 DEF IInv, LooksInv, Pending, AskedInv
    <3>2. Quiet BY <1>14, <2>1, <3>1
    <3> QED BY <1>18, <3>2
  <2>6. CASE asked.kind = "format"
    <3>1. ~Running BY <1>14, <2>1 DEF Running
    <3>2. Stopping BY <1>19, <2>6, <3>1 DEF IInv, FormatInv
    <3> QED BY <1>18, <3>2 DEF Stopping
  <2> QED BY <1>0, <2>2, <2>3, <2>4, <2>5, <2>6 DEF Question, Kinds, Transfers
<1>20. OverInv' BY <1>7, <1>13, <1>18, <1>19 DEF OverInv
<1>21. Type1Inv'
  <2> SUFFICES ASSUME ~over', asked.kind = "type1" PROVE Type1Inv'
    BY <1>7 DEF Type1Inv, Pending
  <2>1. /\ ~over /\ w.command = "type1" /\ {"BUSY", "DRQ"} \cap w.status = {}
        /\ w.left = 0 /\ w.stage = 5 /\ ~w.drqNext /\ ~w.endNext
    BY <1>6 DEF IInv, Type1Inv, Pending
  <2>2. Step BY <1>5, <2>1
  <2>3. "DRQ" \notin StatusRead BY <2>1 DEF StatusRead
  <2> QED BY <1>2, <1>4, <2>1, <2>2, <2>3 DEF Type1Inv, ScriptedStatus
<1>22. MovesInv'
  <2> SUFFICES ASSUME ~over', asked.kind \in Transfers, asked.moves PROVE MovesInv'
    BY <1>7 DEF MovesInv, Pending
  <2>1. ~over /\ "BUSY" \in StatusRead BY <1>6
  <2>2. "DRQ" \notin seen BY <1>2, <2>1 DEF Free
  <2>3. /\ w.command = asked.kind /\ ~w.typeI /\ ~w.busyNext /\ w.stage = 5
        /\ w.drqNext => asked.multi
        /\ w.left > 0 => /\ "BUSY" \in w.status /\ ~w.endNext
                         /\ "DRQ" \in w.status \/ w.drqNext
                         /\ w.polls <= IF "DRQ" \in w.status THEN 1 ELSE 0
        /\ w.left = 0 => "DRQ" \notin w.status /\ ("BUSY" \in w.status => w.endNext)
    BY <2>1, <2>2 DEF IInv, MovesInv, Pending
  <2>4. StatusRead = w.status /\ "BUSY" \in w.status /\ Step BY <1>15, <1>16, <2>1, <2>3
  <2>5. w.left > 0 => /\ "BUSY" \in w'.status /\ "DRQ" \in w'.status
                      /\ "DRQ" \notin seen' => w'.polls <= 1
    <3> SUFFICES ASSUME w.left > 0
                 PROVE  /\ "BUSY" \in w'.status /\ "DRQ" \in w'.status
                        /\ "DRQ" \notin seen' => w'.polls <= 1
      OBVIOUS
    <3>1. "BUSY" \in w'.status /\ "DRQ" \in w'.status BY <2>3, <2>4 DEF ScriptedStatus
    <3>2. ASSUME "DRQ" \notin seen' PROVE w'.polls <= 1
      <4>1. w.polls <= 0 BY <1>2, <2>3, <2>4, <3>2
      <4> QED BY <1>9, <2>4, <4>1
    <3> QED BY <3>1, <3>2
  <2>6. w.left = 0 => w'.status = {} /\ "DRQ" \notin seen'
    BY <1>2, <2>3, <2>4 DEF ScriptedStatus
  <2> QED BY <1>4, <1>7, <2>3, <2>4, <2>5, <2>6 DEF MovesInv
<1>23. LooksInv'
  <2> SUFFICES ASSUME ~over', asked.kind \in Transfers, ~asked.moves PROVE LooksInv'
    BY <1>7 DEF LooksInv, Pending
  <2>1. ~over /\ "BUSY" \in StatusRead BY <1>6
  <2>2. /\ w.command = "read" /\ ~w.typeI /\ ~w.busyNext /\ w.stage = 5
        /\ ~w.multi => IF w.left > 0
                       THEN "BUSY" \in w.status /\ ~w.drqNext /\ ~w.endNext ELSE Quiet
    BY <2>1 DEF IInv, LooksInv, Pending
  <2>3. ~w.multi => w.left > 0 BY <1>15, <2>1, <2>2 DEF Quiet
  <2>4. ~w.multi /\ Step => w'.left > 0 /\ "BUSY" \in w'.status
    BY <2>2, <2>3 DEF ScriptedStatus
  <2>5. ~w.multi /\ Skip => Quiet' BY <1>4, <2>2 DEF Quiet
  <2>6. Quiet' => ~(w'.left > 0) BY <1>3 DEF Quiet
  <2> QED BY <1>4, <1>5, <2>2, <2>4, <2>5, <2>6 DEF LooksInv
<1>24. CountInv'
  <2>1. ~over' /\ asked.moves => ~over /\ w'.left = w.left BY <1>6, <1>16
  <2>2. asked.kind \in {"address", "readtrack"} => asked.moves BY DEF IInv, AskedInv
  <2> QED BY <1>6, <1>7, <2>1, <2>2 DEF IInv, CountInv, Pending
<1>25. DoneInv'
  <2>1. CASE over BY <1>6, <1>7, <2>1 DEF IInv, DoneInv
  <2>2. CASE ~asked.moves
    <3>1. moved = 0 /\ asked.kind = "read" BY <2>2 DEF IInv, CountInv, AskedInv
    <3> QED BY <1>6, <1>7, <3>1, ModLemma DEF DoneInv
  <2>3. CASE ~over /\ over' /\ asked.moves /\ asked.kind \in Transfers
    <3>1. /\ ~w.typeI /\ ~w.busyNext /\ (w.left > 0 => "BUSY" \in w.status)
      BY <2>3 DEF IInv, MovesInv, Pending
    <3>2. w.left = 0 BY <1>6, <1>9, <1>15, <2>3, <3>1
    <3>3. moved + w.left = moved BY <1>9, <3>2
    <3>4. asked.kind \in {"address", "readtrack"} => moved \in {0, asked.whole}
      BY <2>3, <3>3 DEF IInv, CountInv, Pending
    <3>5. asked.kind \in {"read", "write"} =>
            IF asked.multi THEN moved % Size = 0 ELSE moved \in {0, Size}
      BY <2>3, <3>3 DEF IInv, CountInv, Pending
    <3> QED BY <1>6, <1>7, <3>4, <3>5 DEF DoneInv
  <2> QED BY <1>7, <2>1, <2>2, <2>3 DEF DoneInv, Transfers
<1>26. FormatInv'
  <2> SUFFICES ASSUME asked.kind = "format" PROVE FormatInv' BY <1>7 DEF FormatInv
  <2>1. \A u, n : Found(u, n)' <=> Found(u, n)
    BY <1>6 DEF Found, Exists, Ready, Has, OnTrack, Place
  <2>2. OnTrack(asked.track)' = OnTrack(asked.track) BY <1>6, <1>7 DEF OnTrack, Place
  <2>3. asked.moves BY DEF IInv, AskedInv
  <2>4. CASE ~over /\ w.stage < 5
    <3>1. Running BY <2>4 DEF IInv, FormatInv
    <3>2. "BUSY" \in StatusRead BY <1>14, <3>1 DEF Running
    <3>3. Step BY <1>16, <2>3, <2>4
    <3>4. w'.status = w.status /\ w'.left = w.left /\ w'.endNext = FALSE
      BY <3>1, <3>3 DEF ScriptedStatus, Running
    <3>5. ~over' BY <1>6, <2>4, <3>2
    <3>6. Running'
      BY <3>1, <3>4, <1>4, <1>6, <1>7, <2>1 DEF Running, Abreast, StillThere, Sized
    <3> QED BY <3>5, <3>6, <1>4, <2>4 DEF FormatInv
  <2>5. CASE ~(~over /\ w.stage < 5)
    <3>1. Stopping BY <2>5 DEF IInv, FormatInv
    <3>2. over' BY <1>6, <1>15, <3>1 DEF Stopping, Quiet
    <3>3. TrackWhole' BY <3>1, <1>6, <1>7, <2>1, <2>2 DEF Stopping, TrackWhole, FormatKept
    <3>4. Stopping' BY <3>1, <3>2, <3>3, <1>4, <1>18 DEF Stopping
    <3> QED BY <3>2, <3>4 DEF FormatInv
  <2> QED BY <2>4, <2>5
<1>27. CountTyped' BY <1>4 DEF IInv, CountTyped
<1> QED
  BY <1>11, <1>12, <1>20, <1>21, <1>22, <1>23, <1>24, <1>25, <1>26, <1>27 DEF IInv

\* A program that is asked for a byte of a record has one to move.
LEMMA DueLemma ==
  ASSUME IInv, Requested, asked.kind \in Transfers
  PROVE  /\ ~over /\ asked.moves /\ w.left > 0
         /\ w.command = asked.kind /\ ~w.typeI /\ ~w.busyNext /\ ~w.endNext /\ w.stage = 5
         /\ (w.drqNext => asked.multi)
<1>1. ~over /\ asked.moves /\ ("DRQ" \in seen \/ w.int) BY DEF Requested
<1>2. w.left \in Nat BY DEF IInv, Types, Controller
<1>3. w.command = asked.kind /\ (w.left = 0 => "DRQ" \notin seen)
  BY <1>1 DEF IInv, MovesInv, Pending
<1>4. w.int => w.left > 0 BY <1>3 DEF IInv, AskedInv, NeedsInt, Transfers
<1>5. w.left > 0 BY <1>1, <1>2, <1>3, <1>4
<1> QED BY <1>1, <1>5 DEF IInv, MovesInv, Pending

\* What moving a byte leaves: more of the sector, the end of it, or the next one.
Moves(c) ==
  /\ Same(c) /\ c.polls = 0 /\ c.busyNext = w.busyNext
  /\ \/ /\ w.left > 1 /\ c.left = w.left - 1 /\ c.status = {"BUSY", "DRQ"}
        /\ c.drqNext = w.drqNext /\ c.endNext = w.endNext
     \/ /\ w.left = 1 /\ c.left = 0 /\ c.drqNext = w.drqNext
        /\ \/ c.status \in {{}, {"RNF"}} /\ c.endNext = w.endNext
           \/ c.status = {"BUSY", "RNF"} /\ c.endNext = TRUE
     \/ /\ w.left = 1 /\ w.multi /\ c.left = Size /\ c.status = {"BUSY"}
        /\ c.drqNext = TRUE /\ c.endNext = w.endNext

LEMMA ByteStep ==
  ASSUME IInv, Requested, asked.kind \in Transfers, NEW c, Moves(c), w' = Checked(c),
         seen' = Unread, moved' = moved + 1, UNCHANGED <<disk, over, asked, stream, eint>>
  PROVE  IInv'
<1>1. /\ ~over /\ asked.moves /\ w.left > 0
      /\ w.command = asked.kind /\ ~w.typeI /\ ~w.busyNext /\ ~w.endNext /\ w.stage = 5
      /\ (w.drqNext => asked.multi)
  BY DueLemma
<1>2. c \in Controller BY DEF Moves, Same
<1>3. w' \in Controller /\ Alike(w', c) /\ (w'.int => NeedsInt(w')) BY <1>2, CheckedLemma
<1>4. /\ w'.command = w.command /\ w'.multi = w.multi /\ w'.typeI = w.typeI
      /\ w'.track = w.track /\ w'.stage = w.stage /\ w'.count = w.count /\ w'.ids = w.ids
      /\ w'.busyNext = w.busyNext /\ w'.polls = 0
  BY <1>3 DEF Moves, Same, Alike
<1>5. \/ /\ w.left > 1 /\ w'.left = w.left - 1 /\ w'.status = {"BUSY", "DRQ"}
         /\ w'.drqNext = w.drqNext /\ w'.endNext = w.endNext
      \/ /\ w.left = 1 /\ w'.left = 0 /\ w'.drqNext = w.drqNext
         /\ \/ w'.status \in {{}, {"RNF"}} /\ w'.endNext = w.endNext
            \/ w'.status = {"BUSY", "RNF"} /\ w'.endNext = TRUE
      \/ /\ w.left = 1 /\ w.multi /\ w'.left = Size /\ w'.status = {"BUSY"}
         /\ w'.drqNext = TRUE /\ w'.endNext = w.endNext
  BY <1>3 DEF Moves, Alike
<1>6. /\ disk' = disk /\ over' = over /\ asked' = asked /\ stream' = stream /\ eint' = eint
  OBVIOUS
<1>7. /\ w.left \in Nat /\ moved \in Nat /\ moved' \in Nat
      /\ w.multi \in BOOLEAN /\ asked.multi \in BOOLEAN /\ w.multi = asked.multi
  BY DEF IInv, Types, Controller, Question, AskedInv
<1>8. Types' BY <1>3, <1>6, <1>7 DEF IInv, Types
<1>9. AskedInv' BY <1>3, <1>4, <1>6 DEF IInv, AskedInv
<1>10. OverInv' /\ DoneInv' BY <1>1, <1>6 DEF OverInv, DoneInv
<1>11. Type1Inv' /\ LooksInv' /\ FormatInv'
  BY <1>1, <1>6 DEF Type1Inv, LooksInv, FormatInv, Pending, Transfers
<1>12. MovesInv'
  BY <1>1, <1>4, <1>5, <1>6, <1>7, Constants DEF MovesInv, Pending
<1>13. CountInv'
  <2>1. \/ moved' + w'.left = moved + w.left
        \/ asked.multi /\ moved' + w'.left = (moved + w.left) + Size
    BY <1>5, <1>7, Constants
  <2>2. moved + w.left \in Nat BY <1>7
  <2>3. asked.kind \in {"address", "readtrack"} =>
          /\ moved + w.left \in {0, asked.whole} /\ ~asked.multi
    BY <1>1 DEF IInv, CountInv, Pending, AskedInv
  <2>4. asked.kind \in {"read", "write"} =>
          IF asked.multi THEN (moved + w.left) % Size = 0 ELSE moved + w.left \in {0, Size}
    BY <1>1 DEF IInv, CountInv, Pending
  <2>5. ((moved + w.left) + Size) % Size = (moved + w.left) % Size BY <2>2, ModLemma
  <2>6. asked.kind \notin {"none", "type1", "format"} BY DEF Transfers
  <2>7. asked.kind \in {"address", "readtrack"} => moved' + w'.left \in {0, asked.whole}
    BY <2>1, <2>3
  <2>8. asked.kind \in {"read", "write"} =>
          IF asked.multi THEN (moved' + w'.left) % Size = 0 ELSE moved' + w'.left \in {0, Size}
    BY <2>1, <2>4, <2>5
  <2> QED BY <1>1, <1>6, <2>6, <2>7, <2>8 DEF CountInv, Pending
<1>14. CountTyped' BY <1>4 DEF IInv, CountTyped
<1> QED BY <1>8, <1>9, <1>10, <1>11, <1>12, <1>13, <1>14 DEF IInv

\* The byte is off the buffer; what follows depends on what was the last.
LEMMA OneLess ==
  ASSUME w \in Controller, w.left > 0
  PROVE  LET c == [w EXCEPT !.polls = 0, !.wait = 0]
             d == [c EXCEPT !.left = @ - 1]
         IN /\ Same(d) /\ d.polls = 0 /\ d.busyNext = w.busyNext /\ d.drqNext = w.drqNext
            /\ d.endNext = w.endNext /\ d.left = w.left - 1 /\ d.sector = w.sector
            /\ d.status = w.status
<1> DEFINE c == [w EXCEPT !.polls = 0, !.wait = 0]
<1>1. PICK n \in Nat : n = w.left - 1 BY DEF Controller
<1>2. /\ c \in Controller /\ Same(c) /\ c.polls = 0 /\ c.busyNext = w.busyNext
      /\ c.drqNext = w.drqNext /\ c.endNext = w.endNext /\ c.left = w.left
      /\ c.sector = w.sector /\ c.status = w.status
  BY DEF Same, Controller
<1> HIDE DEF c
<1>3. LET d == [c EXCEPT !.left = n]
      IN /\ Same(d) /\ d.polls = 0 /\ d.busyNext = w.busyNext /\ d.drqNext = w.drqNext
         /\ d.endNext = w.endNext /\ d.left = n /\ d.sector = w.sector
         /\ d.status = w.status
  BY <1>2 DEF Same, Controller
<1>4. c.left - 1 = n BY <1>1, <1>2
<1>5. [c EXCEPT !.left = @ - 1] = [c EXCEPT !.left = n] BY <1>4
<1> QED BY <1>1, <1>3, <1>5 DEF c

LEMMA SameTold ==
  ASSUME NEW c \in Controller, Same(c), NEW s \in SUBSET Flags
  PROVE  LET d == Told(c, s)
         IN /\ Same(d) /\ d.status = s /\ d.left = c.left /\ d.polls = c.polls
            /\ d.busyNext = c.busyNext /\ d.drqNext = c.drqNext /\ d.endNext = c.endNext
BY DEF Told, Same, Controller

LEMMA ReadDataStep ==
  ASSUME IInv, ReadData
  PROVE  IInv'
<1> DEFINE d == [[w EXCEPT !.polls = 0, !.wait = 0] EXCEPT !.left = @ - 1]
<1>0. w \in Controller /\ asked.kind \in Transfers /\ Requested
  BY DEF IInv, Types, ReadData, Transfers
<1>1. w.left > 0 /\ ~w.typeI /\ w.left \in Nat BY <1>0, DueLemma DEF Controller
<1>2. /\ Same(d) /\ d.polls = 0 /\ d.busyNext = w.busyNext /\ d.drqNext = w.drqNext
      /\ d.endNext = w.endNext /\ d.left = w.left - 1 /\ d \in Controller
  BY <1>0, <1>1, OneLess DEF Same
<1>3. \/ w.left > 1 /\ Taken = Told(d, {"BUSY", "DRQ"})
      \/ w.left = 1 /\ Taken = Told(d, {})
      \/ w.left = 1 /\ w.multi /\ Taken = [Loaded(d) EXCEPT !.status = {"BUSY"}, !.drqNext = TRUE]
      \/ w.left = 1 /\ Taken = EndOfTrack(d)
  BY <1>1 DEF Taken
<1> HIDE DEF d
<1>4. {"BUSY", "DRQ"} \in SUBSET Flags /\ {} \in SUBSET Flags /\ {"BUSY"} \in SUBSET Flags
  BY DEF Flags
<1>5. CASE w.left > 1 /\ Taken = Told(d, {"BUSY", "DRQ"})
  <2>1. Moves(Taken) BY <1>2, <1>4, <1>5, SameTold DEF Moves
  <2> QED BY <1>0, <2>1, ByteStep DEF ReadData
<1>6. CASE w.left = 1 /\ Taken = Told(d, {})
  <2>1. Moves(Taken) BY <1>2, <1>4, <1>6, SameTold DEF Moves
  <2> QED BY <1>0, <2>1, ByteStep DEF ReadData
<1>7. CASE w.left = 1 /\ w.multi /\ Taken = [Loaded(d) EXCEPT !.status = {"BUSY"}, !.drqNext = TRUE]
  <2>1. PICK q \in Controller : q = Loaded(d) BY <1>2, LoadedLemma DEF Same
  <2>2. /\ Same(q) /\ q.left = Size /\ q.polls = 0 /\ q.busyNext = w.busyNext
        /\ q.endNext = w.endNext
    BY <1>2, <2>1, LoadedLemma
  <2> DEFINE x == [q EXCEPT !.status = {"BUSY"}, !.drqNext = TRUE]
  <2>3. /\ Same(x) /\ x.left = Size /\ x.polls = 0 /\ x.busyNext = w.busyNext
        /\ x.endNext = w.endNext /\ x.status = {"BUSY"} /\ x.drqNext = TRUE
    BY <1>4, <2>2 DEF Same, Controller
  <2>4. Taken = x BY <1>7, <2>1
  <2> HIDE DEF x
  <2>5. w.left = 1 /\ w.multi BY <1>7
  <2>6. Moves(x) BY <2>3, <2>5 DEF Moves
  <2> QED BY <1>0, <2>4, <2>6, ByteStep DEF ReadData
<1>8. CASE w.left = 1 /\ Taken = EndOfTrack(d)
  <2>1. PICK q : q = EndOfTrack(d) OBVIOUS
  <2>2. /\ Same(q) /\ q.left = 0 /\ q.polls = 0 /\ q.endNext = TRUE
        /\ q.busyNext = w.busyNext /\ q.drqNext = w.drqNext /\ q.status = {"BUSY", "RNF"}
    <3>1. w.left = 1 BY <1>8
    <3>2. d.left = 0 BY <1>2, <3>1
    <3>3. PICK e \in Controller : e = d BY <1>2
    <3>4. /\ Same(e) /\ e.left = 0 /\ e.polls = 0 /\ e.busyNext = w.busyNext
          /\ e.drqNext = w.drqNext
      BY <1>2, <3>2, <3>3
    <3>5. q = EndOfTrack(e) BY <2>1, <3>3
    <3> QED BY <3>4, <3>5, EndOfTrackLemma
  <2>3. w.left = 1 /\ Taken = q BY <1>8, <2>1
  <2>4. Moves(q) BY <2>2, <2>3 DEF Moves
  <2> QED BY <1>0, <2>3, <2>4, ByteStep DEF ReadData
<1> QED BY <1>3, <1>5, <1>6, <1>7, <1>8

LEMMA WriteDataStep ==
  ASSUME IInv, WriteData
  PROVE  IInv'
<1> DEFINE d == [[w EXCEPT !.polls = 0, !.wait = 0] EXCEPT !.left = @ - 1]
           x == [d EXCEPT !.sector = @ + 1, !.left = Size, !.size = Size,
                          !.status = {"BUSY"}, !.drqNext = TRUE]
<1>0. w \in Controller /\ asked.kind \in Transfers /\ asked.kind = "write" /\ Requested
  BY DEF IInv, Types, WriteData, Transfers
<1>1. w.left > 0 /\ ~w.typeI /\ w.left \in Nat /\ w.command = "write"
  BY <1>0, DueLemma DEF Controller
<1>2. /\ Same(d) /\ d.polls = 0 /\ d.busyNext = w.busyNext /\ d.drqNext = w.drqNext
      /\ d.endNext = w.endNext /\ d.left = w.left - 1 /\ d \in Controller
  BY <1>0, <1>1, OneLess DEF Same
<1>3. \/ w.left > 1 /\ Put = Told(d, {"BUSY", "DRQ"})
      \/ w.left = 1 /\ Put \in {Told(d, {}), Told(d, {"RNF"})}
      \/ w.left = 1 /\ w.multi /\ Put = x
  BY <1>1 DEF Put
<1> HIDE DEF d
<1>4. /\ {"BUSY", "DRQ"} \in SUBSET Flags /\ {} \in SUBSET Flags /\ {"BUSY"} \in SUBSET Flags
      /\ {"RNF"} \in SUBSET Flags
  BY DEF Flags
<1>5. CASE w.left > 1 /\ Put = Told(d, {"BUSY", "DRQ"})
  <2>1. Moves(Put) BY <1>2, <1>4, <1>5, SameTold DEF Moves
  <2> QED BY <1>0, <2>1, ByteStep DEF WriteData
<1>6. CASE w.left = 1 /\ Put \in {Told(d, {}), Told(d, {"RNF"})}
  <2>1. Moves(Put) BY <1>2, <1>4, <1>6, SameTold DEF Moves
  <2> QED BY <1>0, <2>1, ByteStep DEF WriteData
<1>7. CASE w.left = 1 /\ w.multi /\ Put = x
  <2>1. PICK n \in Nat : n = d.sector + 1 BY <1>2 DEF Controller
  <2>2. PICK z \in Nat : z = Size BY Constants
  <2>3. x = [d EXCEPT !.sector = n, !.left = z, !.size = z,
                      !.status = {"BUSY"}, !.drqNext = TRUE]
    BY <2>1, <2>2
  <2> HIDE DEF x
  <2>4. /\ Same(x) /\ x.left = Size /\ x.polls = 0 /\ x.busyNext = w.busyNext
        /\ x.endNext = w.endNext /\ x.status = {"BUSY"} /\ x.drqNext = TRUE
    BY <1>2, <1>4, <2>2, <2>3, ZenonT(40) DEF Same, Controller
  <2>5. Moves(Put) BY <1>7, <2>4 DEF Moves
  <2> QED BY <1>0, <2>5, ByteStep DEF WriteData
<1> QED BY <1>3, <1>5, <1>6, <1>7

-----------------------------------------------------------------------------
(* A byte of a format. *)

\* Stage, count, bytes left and sectors collected; the rest is as it was.
Shape(c, stage, count, left, ids) ==
  /\ c \in Controller /\ c.command = w.command /\ c.multi = w.multi /\ c.status = w.status
  /\ c.typeI = w.typeI /\ c.track = w.track
  /\ c.busyNext = w.busyNext /\ c.drqNext = w.drqNext /\ c.endNext = w.endNext
  /\ c.stage = stage /\ c.count = count /\ c.left = left /\ c.ids = ids

\* The state that every byte starts from, and the byte that is only counted.
Accessed == [w EXCEPT !.polls = 0, !.wait = 0]
Counted == [Accessed EXCEPT !.count = @ + 1]

LEMMA AppendLemma ==
  \A s \in Seq(Nat), n \in Nat : Append(s, n) \in Seq(Nat) /\ Append(s, n) # <<>>
<1> TAKE s \in Seq(Nat), n \in Nat
<1>1. Append(s, n) \in Seq(Nat) OBVIOUS
<1>2. Len(Append(s, n)) = Len(s) + 1 /\ Len(s) \in Nat OBVIOUS
<1>3. Len(<<>>) = 0 OBVIOUS
<1>4. Append(s, n) # <<>> BY <1>2, <1>3
<1> QED BY <1>1, <1>4

LEMMA ShapeLemma ==
  ASSUME w \in Controller
  PROVE  /\ Shape(Counted, w.stage, w.count + 1, w.left, w.ids)
         /\ \A b \in Nat : Shape([Counted EXCEPT !.ids = Append(@, b)],
                                w.stage, w.count + 1, w.left, Append(w.ids, b))
         /\ \A s \in Nat : Shape(Stage(Accessed, s), s, 1, w.left, w.ids)
         /\ \A s \in Nat : Shape([Stage(Accessed, s) EXCEPT !.ids = <<>>], s, 1, w.left, <<>>)
         /\ \A s, n \in Nat : Shape([Stage(Accessed, s) EXCEPT !.left = n], s, 1, n, w.ids)
<1>1. Shape(Accessed, w.stage, w.count, w.left, w.ids) BY DEF Accessed, Shape, Controller
<1>2. PICK c \in Controller : c = Accessed BY <1>1 DEF Shape
<1>3. PICK n \in Nat : n = w.count + 1 BY SMTT(30) DEF Controller
<1>4. PICK none \in Seq(Nat) : none = <<>>
  <2>1. <<>> \in Seq(Nat) OBVIOUS
  <2> QED BY <2>1, Zenon
<1>5. Counted = [c EXCEPT !.count = n] BY <1>1, <1>2, <1>3 DEF Counted, Shape
<1>6. Shape(c, w.stage, w.count, w.left, w.ids) BY <1>1, <1>2
<1>7. Shape(Counted, w.stage, n, w.left, w.ids) BY <1>5, <1>6 DEF Shape, Controller
<1>8. ASSUME NEW b \in Nat
      PROVE  Shape([Counted EXCEPT !.ids = Append(@, b)], w.stage, n, w.left, Append(w.ids, b))
  <2>1. PICK i \in Seq(Nat) : i = Append(w.ids, b)
    <3>1. w.ids \in Seq(Nat) BY DEF Controller
    <3>2. Append(w.ids, b) \in Seq(Nat) BY <3>1, AppendLemma
    <3> QED BY <3>2, Zenon
  <2>2. PICK d \in Controller : d = Counted BY <1>7 DEF Shape
  <2>3. Shape(d, w.stage, n, w.left, w.ids) BY <1>7, <2>2
  <2>4. Shape([d EXCEPT !.ids = i], w.stage, n, w.left, i) BY <2>3 DEF Shape, Controller
  <2>5. [Counted EXCEPT !.ids = Append(@, b)] = [d EXCEPT !.ids = i]
    BY <2>1, <2>2, <2>3 DEF Shape
  <2> QED BY <2>1, <2>4, <2>5
<1>9. ASSUME NEW s \in Nat PROVE Shape(Stage(c, s), s, 1, w.left, w.ids)
  BY <1>6 DEF Shape, Stage, Controller
<1>10. ASSUME NEW s \in Nat, NEW l \in Nat
       PROVE  /\ Shape([Stage(c, s) EXCEPT !.ids = none], s, 1, w.left, none)
              /\ Shape([Stage(c, s) EXCEPT !.left = l], s, 1, l, w.ids)
  <2>1. PICK d \in Controller : d = Stage(c, s) BY <1>9 DEF Shape
  <2>2. Shape(d, s, 1, w.left, w.ids) BY <1>9, <2>1
  <2>3. Shape([d EXCEPT !.ids = none], s, 1, w.left, none) BY <2>2 DEF Shape, Controller
  <2>4. Shape([d EXCEPT !.left = l], s, 1, l, w.ids) BY <2>2 DEF Shape, Controller
  <2> QED BY <2>1, <2>3, <2>4
<1>11. 0 \in Nat OBVIOUS
<1> QED BY <1>2, <1>3, <1>4, <1>7, <1>8, <1>9, <1>10, <1>11

LEMMA StoppedLemma ==
  ASSUME w \in Controller
  PROVE  LET c == Stopped(Accessed)
         IN /\ c \in Controller /\ c.command = "none" /\ c.multi = w.multi /\ c.status = {}
            /\ c.typeI = w.typeI /\ c.left = w.left /\ c.stage = 5 /\ c.count = 0
            /\ c.busyNext = w.busyNext /\ c.drqNext = w.drqNext /\ c.endNext = w.endNext
<1>1. /\ Accessed \in Controller /\ Accessed.multi = w.multi /\ Accessed.typeI = w.typeI
      /\ Accessed.left = w.left /\ Accessed.busyNext = w.busyNext
      /\ Accessed.drqNext = w.drqNext /\ Accessed.endNext = w.endNext
  BY DEF Accessed, Controller
<1>2. PICK c \in Controller : c = Accessed BY <1>1
<1>3. PICK none \in Seq(Nat) : none = <<>>
  <2>1. <<>> \in Seq(Nat) OBVIOUS
  <2> QED BY <2>1, Zenon
<1>4. "none" \in Kinds BY DEF Kinds
<1> DEFINE d == [c EXCEPT !.status = {}, !.command = "none"]
           e == [d EXCEPT !.stage = 5, !.count = 0, !.ids = none]
<1>5. Stopped(Accessed) = e BY <1>2, <1>3 DEF Stopped, Controller
<1>6. /\ d \in Controller /\ d.command = "none" /\ d.multi = w.multi /\ d.status = {}
      /\ d.typeI = w.typeI /\ d.left = w.left
      /\ d.busyNext = w.busyNext /\ d.drqNext = w.drqNext /\ d.endNext = w.endNext
  BY <1>1, <1>2, <1>4 DEF Controller
<1> HIDE DEF d
<1>7. /\ e \in Controller /\ e.command = d.command /\ e.multi = d.multi
      /\ e.status = d.status /\ e.typeI = d.typeI /\ e.left = d.left
      /\ e.stage = 5 /\ e.count = 0
      /\ e.busyNext = d.busyNext /\ e.drqNext = d.drqNext /\ e.endNext = d.endNext
  BY <1>6 DEF Controller
<1> HIDE DEF e
<1> QED BY <1>5, <1>6, <1>7

\* The controller and the stream after a byte that the program may write.
Follows(c, b) ==
  LET at == After(b)
      ids == IF stream.at = 4 THEN Append(stream.ids, b) ELSE stream.ids
  IN /\ Shape(c, c.stage, c.count, c.left, ids) /\ c.stage < 5
     /\ at \in Nat /\ ids \in Seq(Nat) /\ (c.stage # 3 => c.left = 0)
     /\ \/ at = 0 /\ c.stage = 0 /\ c.count <= GapLimit /\ ids = <<>>
        \/ at = 1 /\ c.stage = 1 /\ c.count <= GapLimit /\ ids = <<>>
        \/ at \in 2..6 /\ c.stage = 2 /\ c.count = at - 1 /\ (at > 4 => ids # <<>>)
        \/ at = 7 /\ c.stage = 2 /\ ids # <<>> /\ (c.count = 6 \/ c.count \in 6..GapLimit)
        \/ /\ at \in 8 .. 8 + Size /\ c.stage = 3 /\ ids # <<>>
           /\ c.count = at - 7 /\ c.left = Size
        \/ at = 1 /\ c.stage = 4 /\ c.count <= EndLimit + 1 /\ ids # <<>>

LEMMA BytesLemma ==
  ASSUME stream \in Stream, NEW b \in Bytes
  PROVE  /\ b \in Nat
         /\ stream.at = 0 => b = IAM \/ (b = Gap /\ w.count < GapLimit)
         /\ stream.at = 1 /\ stream.ids = <<>> => b = IDAM \/ (b = Gap /\ w.count < GapLimit)
         /\ stream.at = 1 => b = IDAM \/ b = Gap
         /\ stream.at = 7 => b = DAM \/ (b = Gap /\ w.count < GapLimit)
         /\ stream.at \notin {0, 1, 4, 7} => b = Gap
<1>1. Gap \in Nat /\ IAM \in Nat /\ IDAM \in Nat /\ DAM \in Nat BY DEF Gap, IAM, IDAM, DAM
<1>2. stream.at \in Nat BY DEF Stream
<1> HIDE DEF Gap, IAM, IDAM, DAM
<1>3. CASE stream.at = 0 BY <1>1, <1>3 DEF Bytes
<1>4. CASE stream.at = 1 BY <1>1, <1>4 DEF Bytes
<1>5. CASE stream.at = 4
  <2>1. b \in 1..LastSector BY <1>5 DEF Bytes
  <2> QED BY <1>5, <2>1, Constants
<1>6. CASE stream.at = 7 BY <1>1, <1>6 DEF Bytes
<1>7. CASE stream.at \notin {0, 1, 4, 7}
  <2>1. b = Gap BY <1>7 DEF Bytes
  <2> QED BY <1>1, <1>7, <2>1
<1> QED BY <1>3, <1>4, <1>5, <1>6, <1>7

LEMMA AfterLemma ==
  ASSUME stream \in Stream, NEW b \in Bytes
  PROVE  /\ stream.at = 0 => After(b) = IF b = Gap THEN 0 ELSE 1
         /\ stream.at = 1 => After(b) = IF b = Gap THEN 1 ELSE 2
         /\ stream.at \in 2..6 => After(b) = stream.at + 1
         /\ stream.at = 7 => After(b) = IF b = Gap THEN 7 ELSE 8
         /\ stream.at \in 8 .. 8 + Size =>
              After(b) = IF stream.at = 8 + Size THEN 1 ELSE stream.at + 1
<1> USE Constants
<1>1. stream.at \in Nat BY DEF Stream
<1>2. DAM # Gap BY DEF DAM, Gap
<1> HIDE DEF DAM, Gap
<1>3. CASE stream.at = 0 BY <1>3 DEF After
<1>4. CASE stream.at = 1 BY <1>4 DEF After
<1>5. CASE stream.at \in 2..6
  <2>1. stream.at \notin {0, 1, 7} /\ stream.at # 8 + Size BY <1>5
  <2> QED BY <1>5, <2>1 DEF After
<1>6. CASE stream.at = 7
  <2>1. b = DAM \/ b = Gap BY <1>6, BytesLemma
  <2> QED BY <1>2, <1>6, <2>1 DEF After
<1>7. CASE stream.at \in 8 .. 8 + Size
  <2>1. stream.at \notin {0, 1, 7} BY <1>7
  <2> QED BY <1>7, <2>1 DEF After
<1> QED BY <1>1, <1>3, <1>4, <1>5, <1>6, <1>7

LEMMA FollowsLemma ==
  ASSUME w \in Controller, stream \in Stream, Running, w.stage < 5, NEW b \in Bytes
  PROVE  \/ Follows(Formatted(b), b)
         \/ /\ w.stage = 4 /\ b # IDAM /\ w.count > EndLimit /\ stream.at = 1
            /\ stream.ids # <<>> /\ Formatted(b) = Stopped(Accessed)
<1> USE Constants
<1>1. /\ w.ids = stream.ids /\ Abreast /\ (w.stage # 3 => w.left = 0)
      /\ w.count \in Nat /\ w.left \in Nat /\ w.stage \in Nat
      /\ stream.at \in Nat /\ stream.ids \in Seq(Nat)
  BY DEF Running, Controller, Stream
<1>2. b \in Nat BY BytesLemma
<1> DEFINE more == Counted
           named == [Counted EXCEPT !.ids = Append(@, b)]
           found == Stage(Accessed, 1)
           again == Stage(Accessed, 2)
           first == [Stage(Accessed, 2) EXCEPT !.ids = <<>>]
           data == [Stage(Accessed, 3) EXCEPT !.left = Size]
           done == [Stage(Accessed, 4) EXCEPT !.left = 0]
           stop == Stopped(Accessed)
           limited == IF w.count > GapLimit THEN stop ELSE more
<1>3. /\ w.stage = 0 => Formatted(b) = IF b = IAM THEN found ELSE limited
      /\ w.stage = 1 => Formatted(b) = IF b = IDAM THEN first ELSE limited
      /\ w.stage = 2 => Formatted(b) = IF w.count = 3 THEN named
                                       ELSE IF w.count <= 4 THEN more
                                       ELSE IF b = DAM THEN data ELSE limited
      /\ w.stage = 3 => Formatted(b) = IF w.count > w.left THEN done ELSE more
      /\ w.stage = 4 => Formatted(b) = IF b = IDAM THEN again
                                       ELSE IF w.count > EndLimit THEN stop ELSE more
  BY DEF Formatted, Accessed, Counted
<1>4. /\ Shape(more, w.stage, w.count + 1, w.left, stream.ids)
      /\ Shape(named, w.stage, w.count + 1, w.left, Append(stream.ids, b))
      /\ Shape(found, 1, 1, w.left, stream.ids)
      /\ Shape(again, 2, 1, w.left, stream.ids)
      /\ Shape(first, 2, 1, w.left, <<>>)
      /\ Shape(data, 3, 1, Size, stream.ids)
      /\ Shape(done, 4, 1, 0, stream.ids)
  BY <1>1, <1>2, ShapeLemma
<1> HIDE DEF more, named, found, again, first, data, done, stop
<1>5. IAM # Gap /\ IDAM # Gap /\ DAM # Gap BY DEF IAM, IDAM, DAM, Gap
<1> HIDE DEF IAM, IDAM, DAM, Gap
\* A byte with its place, stage and count gives the next ones.
<1>6. ASSUME NEW stage \in Nat, NEW count \in Nat, NEW left \in Nat, stage < 5,
             Shape(Formatted(b), stage, count, left, stream.ids), stream.at # 4,
             After(b) \in Nat, stage # 3 => left = 0,
             \/ After(b) = 0 /\ stage = 0 /\ count <= GapLimit /\ stream.ids = <<>>
             \/ After(b) = 1 /\ stage = 1 /\ count <= GapLimit /\ stream.ids = <<>>
             \/ After(b) \in 2..6 /\ stage = 2 /\ count = After(b) - 1
                /\ (After(b) > 4 => stream.ids # <<>>)
             \/ After(b) = 7 /\ stage = 2 /\ stream.ids # <<>>
                /\ (count = 6 \/ count \in 6..GapLimit)
             \/ /\ After(b) \in 8 .. 8 + Size /\ stage = 3 /\ stream.ids # <<>>
                /\ count = After(b) - 7 /\ left = Size
             \/ After(b) = 1 /\ stage = 4 /\ count <= EndLimit + 1 /\ stream.ids # <<>>
      PROVE  Follows(Formatted(b), b)
  BY <1>1, <1>6 DEF Follows, Shape
<1>7. CASE stream.at = 0 /\ w.stage = 0 /\ w.count <= GapLimit /\ stream.ids = <<>>
  <2>1. CASE b = IAM
    <3>1. Formatted(b) = found /\ After(b) = 1 BY <1>3, <1>5, <1>7, <2>1, AfterLemma
    <3> QED BY <1>1, <1>4, <1>6, <1>7, <3>1
  <2>2. CASE b = Gap /\ w.count < GapLimit
    <3>1. Formatted(b) = more /\ After(b) = 0 BY <1>1, <1>3, <1>5, <1>7, <2>2, AfterLemma
    <3>2. w.count + 1 \in Nat /\ w.count + 1 <= GapLimit BY <1>1, <2>2
    <3> QED BY <1>1, <1>4, <1>6, <1>7, <3>1, <3>2
  <2> QED BY <1>7, <2>1, <2>2, BytesLemma
<1>8. CASE stream.at = 1 /\ w.stage = 1 /\ w.count <= GapLimit /\ stream.ids = <<>>
  <2>1. CASE b = IDAM
    <3>1. Formatted(b) = first /\ After(b) = 2 BY <1>3, <1>5, <1>8, <2>1, AfterLemma
    <3> QED BY <1>1, <1>4, <1>6, <1>8, <3>1
  <2>2. CASE b = Gap /\ w.count < GapLimit
    <3>1. Formatted(b) = more /\ After(b) = 1 BY <1>1, <1>3, <1>5, <1>8, <2>2, AfterLemma
    <3>2. w.count + 1 \in Nat /\ w.count + 1 <= GapLimit BY <1>1, <2>2
    <3> QED BY <1>1, <1>4, <1>6, <1>8, <3>1, <3>2
  <2> QED BY <1>8, <2>1, <2>2, BytesLemma
<1>9. CASE /\ stream.at \in 2..6 /\ w.stage = 2 /\ w.count = stream.at - 1
           /\ stream.at > 4 => stream.ids # <<>>
  <2>1. w.count + 1 \in Nat /\ w.count + 1 = stream.at /\ stream.at + 1 \in 3..7
    BY <1>1, <1>9
  <2>2. After(b) = stream.at + 1 BY <1>9, AfterLemma
  <2>3. CASE stream.at = 4
    <3>1. Formatted(b) = named BY <1>3, <1>9, <2>3
    <3>2. Append(stream.ids, b) \in Seq(Nat) /\ Append(stream.ids, b) # <<>>
      BY <1>1, <1>2, AppendLemma
    <3>3. Shape(Formatted(b), 2, 4, 0, Append(stream.ids, b))
      BY <1>1, <1>4, <1>9, <2>1, <2>3, <3>1
    <3>4. After(b) = 5 BY <2>2, <2>3
    <3> QED BY <2>3, <3>2, <3>3, <3>4 DEF Follows, Shape
  <2>4. CASE stream.at # 4
    <3>1. stream.at = 6 => b = Gap BY BytesLemma
    <3>2. Formatted(b) = more BY <1>3, <1>5, <1>9, <2>4, <3>1
    <3>3. PICK n \in Nat : n = stream.at BY <1>1
    <3>4. n \in {2, 3, 5, 6} BY <1>9, <2>4, <3>3
    <3>5. Shape(Formatted(b), 2, n, 0, stream.ids) BY <1>1, <1>4, <1>9, <2>1, <3>2, <3>3
    <3>6. After(b) = n + 1 /\ n + 1 \in Nat BY <2>2, <3>3
    <3>7. \/ After(b) \in 2..6 /\ n = After(b) - 1 /\ (After(b) > 4 => stream.ids # <<>>)
          \/ After(b) = 7 /\ n = 6 /\ stream.ids # <<>>
      BY <1>9, <3>3, <3>4, <3>6
    <3>8. CASE After(b) \in 2..6 /\ n = After(b) - 1 /\ (After(b) > 4 => stream.ids # <<>>)
      BY <1>1, <2>4, <3>5, <3>6, <3>8, SMTT(30) DEF Follows, Shape
    <3>9. CASE After(b) = 7 /\ n = 6 /\ stream.ids # <<>>
      BY <1>1, <2>4, <3>5, <3>6, <3>9, SMTT(30) DEF Follows, Shape
    <3> QED BY <3>7, <3>8, <3>9
  <2> QED BY <2>3, <2>4
<1>10. CASE /\ stream.at = 7 /\ w.stage = 2 /\ stream.ids # <<>>
            /\ w.count = 6 \/ w.count \in 6..GapLimit
  <2>1. w.count # 3 /\ ~(w.count <= 4) BY <1>1, <1>10
  <2>2. CASE b = DAM
    <3>1. Formatted(b) = data /\ After(b) = 8
      BY <1>3, <1>5, <1>10, <2>1, <2>2, AfterLemma
    <3> QED BY <1>1, <1>4, <1>6, <1>10, <3>1
  <2>3. CASE b = Gap /\ w.count < GapLimit
    <3>1. Formatted(b) = more /\ After(b) = 7
      BY <1>1, <1>3, <1>5, <1>10, <2>1, <2>3, AfterLemma
    <3>2. w.count + 1 \in 6..GapLimit /\ w.count + 1 \in Nat BY <1>1, <1>10, <2>3
    <3> QED BY <1>1, <1>4, <1>6, <1>10, <3>1, <3>2
  <2> QED BY <1>10, <2>2, <2>3, BytesLemma
<1>11. CASE /\ stream.at \in 8 .. 8 + Size /\ w.stage = 3 /\ stream.ids # <<>>
            /\ w.count = stream.at - 7 /\ w.left = Size
  <2>1. CASE stream.at = 8 + Size
    <3>1. w.count > w.left BY <1>11, <2>1
    <3>2. Formatted(b) = done /\ After(b) = 1 BY <1>3, <1>11, <2>1, <3>1, AfterLemma
    <3> QED BY <1>1, <1>4, <1>6, <1>11, <3>2
  <2>2. CASE stream.at # 8 + Size
    <3>1. ~(w.count > w.left) /\ w.count + 1 \in Nat /\ stream.at + 1 \in 8 .. 8 + Size
          /\ stream.at + 1 \in Nat /\ w.count + 1 = (stream.at + 1) - 7
      BY <1>1, <1>11, <2>2, SMTT(30)
    <3>2. Formatted(b) = more /\ After(b) = stream.at + 1
      BY <1>3, <1>11, <2>2, <3>1, AfterLemma
    <3> QED BY <1>1, <1>4, <1>6, <1>11, <3>1, <3>2, SMTT(30)
  <2> QED BY <2>1, <2>2
<1>12. CASE stream.at = 1 /\ w.stage = 4 /\ w.count <= EndLimit + 1 /\ stream.ids # <<>>
  <2>1. CASE b = IDAM
    <3>1. Formatted(b) = again /\ After(b) = 2 BY <1>3, <1>5, <1>12, <2>1, AfterLemma
    <3> QED BY <1>1, <1>4, <1>6, <1>12, <3>1
  <2>2. CASE b = Gap /\ w.count > EndLimit
    <3>1. b # IDAM /\ Formatted(b) = stop BY <1>3, <1>5, <1>12, <2>2
    <3> QED BY <1>12, <2>2, <3>1 DEF stop
  <2>3. CASE b = Gap /\ ~(w.count > EndLimit)
    <3>1. Formatted(b) = more /\ After(b) = 1
      BY <1>3, <1>5, <1>12, <2>3, AfterLemma
    <3>2. w.count + 1 \in Nat /\ w.count + 1 <= EndLimit + 1 BY <1>1, <2>3
    <3> QED BY <1>1, <1>4, <1>6, <1>12, <3>1, <3>2
  <2> QED BY <1>12, <2>1, <2>2, <2>3, BytesLemma
<1> QED BY <1>1, <1>7, <1>8, <1>9, <1>10, <1>11, <1>12 DEF Abreast

LEMMA WriteFormatStep ==
  ASSUME IInv, WriteFormat
  PROVE  IInv'
<1>1. /\ w \in Controller /\ disk \in Drive /\ asked \in Question /\ stream \in Stream
      /\ asked.kind = "format" /\ ~over /\ asked.moves
      /\ "DRQ" \in seen \/ (w.int /\ asked.busy)
  BY DEF IInv, Types, WriteFormat, Requested
<1>2. Running /\ w.stage < 5
  <2> SUFFICES ASSUME Stopping PROVE FALSE BY <1>1 DEF IInv, FormatInv
  <2>1. w.int /\ asked.busy /\ w.left = 0 /\ w.command = "none"
    BY <1>1 DEF Stopping, Quiet
  <2> QED BY <2>1 DEF IInv, AskedInv, NeedsInt
<1>3. PICK b \in Bytes :
        /\ w' = Checked(Formatted(b)) /\ disk' \in DiskAfter(b)
        /\ stream' = [stream EXCEPT !.at = After(b),
                                    !.ids = IF stream.at = 4 THEN Append(@, b) ELSE @]
  BY DEF WriteFormat
<1>4. /\ seen' = Unread /\ over' = over /\ asked' = asked /\ moved' = moved /\ eint' = eint
  BY DEF WriteFormat
<1>5. /\ w.ids = stream.ids /\ w.command = "format" /\ w.status = {"BUSY", "DRQ"}
      /\ w.track = asked.track /\ ~w.typeI /\ ~w.busyNext /\ ~w.drqNext /\ ~w.endNext
      /\ (w.stage # 3 => w.left = 0)
      /\ (~stream.disturbed =>
             disk.mode = "rw" /\ StillThere /\ (asked.sized => Sized(asked.track)))
  BY <1>2 DEF Running
<1>6. disk' \in Drive
  <2>1. HeaderWritten \in Drive BY <1>1 DEF HeaderWritten, Drive
  <2>2. asked.track \in Track /\ w.ids \in Seq(Nat) BY <1>1 DEF Question, Controller
  <2>3. Flushed(asked.track, w.ids) \subseteq Drive BY <1>1, <2>2, FlushedLemma
  <2> QED BY <1>1, <1>3, <2>1, <2>3 DEF DiskAfter
<1>7. CASE Follows(Formatted(b), b)
  <2> DEFINE at == After(b)
             ids == IF stream.at = 4 THEN Append(stream.ids, b) ELSE stream.ids
             c == Formatted(b)
  <2>1. Follows(c, b) BY <1>7
  <2>2. at \in Nat /\ ids \in Seq(Nat) BY <2>1 DEF Follows
  <2>3. PICK a \in Nat, i \in Seq(Nat) : a = at /\ i = ids BY <2>2
  <2>4. stream' = [stream EXCEPT !.at = a, !.ids = i] BY <1>1, <1>3, <2>3 DEF Stream
  <2>5. /\ Shape(c, c.stage, c.count, c.left, i) /\ c.stage < 5
        /\ (c.stage # 3 => c.left = 0)
        /\ \/ a = 0 /\ c.stage = 0 /\ c.count <= GapLimit /\ i = <<>>
           \/ a = 1 /\ c.stage = 1 /\ c.count <= GapLimit /\ i = <<>>
           \/ a \in 2..6 /\ c.stage = 2 /\ c.count = a - 1 /\ (a > 4 => i # <<>>)
           \/ a = 7 /\ c.stage = 2 /\ i # <<>> /\ (c.count = 6 \/ c.count \in 6..GapLimit)
           \/ /\ a \in 8 .. 8 + Size /\ c.stage = 3 /\ i # <<>>
              /\ c.count = a - 7 /\ c.left = Size
           \/ a = 1 /\ c.stage = 4 /\ c.count <= EndLimit + 1 /\ i # <<>>
    BY <2>1, <2>3 DEF Follows
  <2>6. w' = Checked(c) BY <1>3
  <2> HIDE DEF c, at, ids
  <2>7. c \in Controller BY <2>5 DEF Shape
  <2>8. /\ w' \in Controller /\ Alike(w', c) /\ (w'.int => NeedsInt(w'))
    BY <2>6, <2>7, CheckedLemma
  <2>9. /\ stream' \in Stream /\ stream'.at = a /\ stream'.ids = i
        /\ stream'.disturbed = stream.disturbed
    BY <1>1, <2>4 DEF Stream
  <2>10. /\ w'.command = "format" /\ w'.multi = w.multi /\ w'.status = {"BUSY", "DRQ"}
         /\ w'.track = asked.track /\ ~w'.typeI /\ ~w'.busyNext /\ ~w'.drqNext /\ ~w'.endNext
         /\ w'.ids = i /\ w'.stage = c.stage /\ w'.count = c.count /\ w'.left = c.left
    BY <1>5, <2>5, <2>8 DEF Shape, Alike
  <2>11. Abreast' BY <2>5, <2>9, <2>10 DEF Abreast
  \* Only the header of track 0 is written anew, and no track is before it.
  <2>12. ~stream.disturbed =>
           disk'.mode = "rw" /\ StillThere' /\ (asked.sized => Sized(asked.track)')
    <3> SUFFICES ASSUME ~stream.disturbed
                 PROVE disk'.mode = "rw" /\ StillThere' /\ (asked.sized => Sized(asked.track)')
      OBVIOUS
    <3>0. disk.mode = "rw" /\ StillThere /\ (asked.sized => Sized(asked.track)) BY <1>5
    <3>1. CASE disk' = disk
      BY <1>4, <3>0, <3>1 DEF StillThere, Found, Exists, Ready, Has, OnTrack, Place, Sized
    <3>2. CASE w.stage = 0 /\ b = IAM /\ w.track = 0 /\ disk' = HeaderWritten
      <4>1. disk'.mode = "rw" BY <1>1, <3>0, <3>2 DEF HeaderWritten, Drive
      <4>2. \A p \in asked.found : p[1] \in Nat /\ p[1] < 0
        BY <1>1, <1>5, <3>2, Constants DEF IInv, AskedInv, Question, Track
      <4>3. asked'.track = 0 /\ disk'.tracks = 0
        BY <1>1, <1>4, <1>5, <3>0, <3>2 DEF HeaderWritten, Drive
      <4> QED BY <1>4, <4>1, <4>2, <4>3 DEF StillThere, Sized
    <3>3. CASE w.stage = 4 /\ b # IDAM /\ w.count > EndLimit
      <4>1. Formatted(b) = Stopped([w EXCEPT !.polls = 0, !.wait = 0])
        BY <3>3 DEF Formatted
      <4>2. Formatted(b).stage = 5 BY <1>1, <4>1, StoppedLemma DEF Accessed
      <4> QED BY <2>5, <4>2 DEF c
    <3> QED BY <1>3, <3>1, <3>2, <3>3 DEF DiskAfter
  <2>13. Running' BY <1>4, <2>5, <2>9, <2>10, <2>11, <2>12 DEF Running
  <2>14. FormatInv' BY <1>1, <1>4, <2>5, <2>10, <2>13 DEF FormatInv
  <2>15. CountTyped'
    <3>0. c.count \in Nat BY <2>7 DEF Controller
    <3>1. c.count <= EndLimit + Size + 1 BY <2>3, <2>5, <3>0, Constants
    <3> QED BY <2>10, <3>1 DEF CountTyped
  <2>16. Types' BY <1>4, <1>6, <2>8, <2>9 DEF IInv, Types
  <2>17. AskedInv' BY <1>4, <2>8, <2>10 DEF IInv, AskedInv
  <2>18. OverInv' /\ Type1Inv' /\ MovesInv' /\ LooksInv'
    BY <1>1, <1>4 DEF OverInv, Type1Inv, MovesInv, LooksInv, Pending, Transfers
  <2>19. CountInv' /\ DoneInv' BY <1>1, <1>4 DEF IInv, CountInv, DoneInv, Pending
  <2> QED BY <2>14, <2>15, <2>16, <2>17, <2>18, <2>19 DEF IInv
<1>8. CASE /\ w.stage = 4 /\ b # IDAM /\ w.count > EndLimit /\ stream.at = 1
           /\ stream.ids # <<>> /\ Formatted(b) = Stopped(Accessed)
  <2> DEFINE c == Stopped(Accessed)
  <2>1. /\ c \in Controller /\ c.command = "none" /\ c.multi = w.multi /\ c.status = {}
        /\ c.typeI = w.typeI /\ c.left = w.left /\ c.stage = 5 /\ c.count = 0
        /\ c.busyNext = w.busyNext /\ c.drqNext = w.drqNext /\ c.endNext = w.endNext
    BY <1>1, StoppedLemma
  <2>2. w' = Checked(c) BY <1>3, <1>8
  <2> HIDE DEF c
  <2>3. w' \in Controller /\ Alike(w', c) /\ (w'.int => NeedsInt(w')) BY <2>1, <2>2, CheckedLemma
  <2>4. /\ stream' \in Stream /\ stream'.ids = stream.ids
        /\ stream'.disturbed = stream.disturbed
    <3>1. After(b) \in {1, 2} BY <1>1, <1>8, AfterLemma
    <3>2. PICK a \in Nat, i \in Seq(Nat) : a = After(b) /\ i = stream.ids
      BY <1>1, <3>1 DEF Stream
    <3>3. stream' = [stream EXCEPT !.at = a, !.ids = i] BY <1>1, <1>3, <1>8, <3>2 DEF Stream
    <3> QED BY <1>1, <3>2, <3>3 DEF Stream
  <2>5. Quiet' /\ ~w'.typeI /\ w'.command = "none" /\ w'.multi = w.multi /\ w'.count = 0
    BY <1>5, <1>8, <2>1, <2>3 DEF Quiet, Alike
  <2>6. TrackWhole'
    <3>3. PICK t \in Track : t = asked.track BY <1>1 DEF Question
    <3> SUFFICES ASSUME ~stream.disturbed, asked.sized
                 PROVE  /\ OnTrack(t)' = stream.ids
                        /\ \A i \in DOMAIN stream.ids : Found(t, stream.ids[i])'
                        /\ StillThere'
      BY <1>4, <2>4, <3>3 DEF TrackWhole, FormatKept, StillThere
    <3>1. disk.mode = "rw" /\ StillThere /\ w.ids = stream.ids /\ Sized(t) BY <1>5, <3>3
    <3>2. disk' \in Flushed(t, stream.ids) BY <1>3, <1>8, <3>1, <3>3 DEF DiskAfter
    <3>4. /\ disk'.mode = disk.mode /\ disk'.listed = disk.listed \cup {t}
          /\ disk'.tracks = IF t + 1 > disk.tracks THEN t + 1 ELSE disk.tracks
          /\ disk'.known = disk'.tracks
          /\ disk'.place = [i \in Track |-> IF i < Place(t) THEN disk.place[i]
                                            ELSE IF i = Place(t) THEN stream.ids ELSE <<>>]
      BY <1>1, <1>8, <3>1, <3>2 DEF Flushed, Placings, Drive
    <3>5. /\ t \in Nat /\ Track \subseteq Nat /\ disk.tracks \in Nat
          /\ disk.listed \subseteq Track
      BY <1>1, <3>3, Constants DEF Track, Drive
    <3>6. \A u \in Track : u <= t => {v \in disk'.listed : v < u} = {v \in disk.listed : v < u}
      <4> TAKE u \in Track
      <4> HAVE u <= t
      <4>1. ~(t < u) BY <3>5
      <4> QED BY <3>4, <4>1
    <3>7. \A u \in Track : u <= t => Place(u)' = Place(u)
      BY <3>6 DEF Place
    <3>8. Place(t) \in Track /\ (\A u \in disk.listed : u < t => Place(u) < Place(t))
      BY <1>1, <3>3, PlaceLemma
    <3>9. OnTrack(t)' = stream.ids BY <3>3, <3>4, <3>5, <3>7, <3>8 DEF OnTrack
    <3>10. t < disk'.tracks /\ t \in disk'.listed /\ disk.tracks <= disk'.tracks
      BY <3>4, <3>5
    <3>11. \A i \in DOMAIN stream.ids : Found(t, stream.ids[i])'
      <4> TAKE i \in DOMAIN stream.ids
      <4>1. PICK n : n = stream.ids[i] OBVIOUS
      <4>2. Has(t, n)' BY <3>9, <4>1 DEF Has
      <4>3. Exists(t)' BY <3>1, <3>4, <3>10 DEF Exists, Ready
      <4>4. Found(t, n)' BY <3>10, <4>2, <4>3 DEF Found
      <4> QED BY <2>4, <4>1, <4>4
    <3>12. StillThere'
      <4> SUFFICES ASSUME NEW p \in asked.found PROVE Found(p[1], p[2])' BY <1>4 DEF StillThere
      <4>1. PICK u, n : u = p[1] /\ n = p[2] OBVIOUS
      <4>2. u < t /\ u \in Track /\ Found(u, n)
        BY <1>1, <3>1, <3>3, <4>1 DEF IInv, AskedInv, StillThere, Question
      <4>3. u < disk.tracks /\ u \in disk.listed /\ Has(u, n) BY <4>2 DEF Found
      <4>4. Place(u)' = Place(u) /\ Place(u) < Place(t) /\ Place(u) \in Track
        <5>1. u <= t BY <3>5, <4>2
        <5>2. Place(u)' = Place(u) BY <3>7, <4>2, <5>1
        <5>3. Place(u) \in Track BY <1>1, <4>2, PlaceLemma
        <5> QED BY <3>8, <4>2, <4>3, <5>2, <5>3
      <4>6. u < disk'.tracks /\ u \in disk'.listed BY <3>4, <3>5, <3>10, <4>2, <4>3
      <4>5. OnTrack(u)' = OnTrack(u) BY <3>4, <4>3, <4>4, <4>6 DEF OnTrack
      <4>7. Found(u, n)'
        BY <3>1, <3>4, <4>3, <4>5, <4>6 DEF Found, Exists, Ready, Has
      <4> QED BY <4>1, <4>7
    <3> QED BY <3>9, <3>11, <3>12
  <2>7. Stopping' BY <2>5, <2>6, <1>4, Constants DEF Stopping
  <2>8. FormatInv' BY <2>5, <2>7 DEF FormatInv, Quiet
  <2>9. CountTyped' BY <2>5, Constants DEF CountTyped
  <2>10. Types' BY <1>4, <1>6, <2>3, <2>4 DEF IInv, Types
  <2>11. AskedInv' BY <1>4, <2>3, <2>5 DEF IInv, AskedInv
  <2>12. OverInv' /\ Type1Inv' /\ MovesInv' /\ LooksInv'
    BY <1>1, <1>4 DEF OverInv, Type1Inv, MovesInv, LooksInv, Pending, Transfers
  <2>13. CountInv' /\ DoneInv' BY <1>1, <1>4 DEF IInv, CountInv, DoneInv, Pending
  <2> QED BY <2>8, <2>9, <2>10, <2>11, <2>12, <2>13 DEF IInv
<1> QED BY <1>1, <1>2, <1>7, <1>8, FollowsLemma

-----------------------------------------------------------------------------
(* The inductive invariant. *)

LEMMA InitIInv == Init => IInv
<1> SUFFICES ASSUME Init PROVE IInv OBVIOUS
<1> USE Constants DEF Init
<1>1. PICK none \in Seq(Nat) : none = <<>>
  <2>1. <<>> \in Seq(Nat) OBVIOUS
  <2> QED BY <2>1, Zenon
<1>2. /\ w \in Controller /\ w.multi = FALSE /\ w.int = FALSE /\ Quiet /\ w.count = 0
  <2>1. w = [command |-> "none", multi |-> FALSE, status |-> {}, typeI |-> TRUE,
             left |-> 0, size |-> 0, polls |-> 0, busyNext |-> FALSE, drqNext |-> FALSE,
             endNext |-> FALSE, wait |-> 0, int |-> FALSE, track |-> 0, sector |-> 0,
             atTrack |-> 0, atSector |-> 0, stage |-> 5, count |-> 0, ids |-> none]
    BY <1>1
  <2>2. "none" \in Kinds /\ 0 \in Track /\ {} \in SUBSET Flags BY DEF Kinds, Track
  <2> HIDE DEF Init
  <2>3. w \in Controller BY <2>1, <2>2 DEF Controller
  <2> QED BY <2>1, <2>3 DEF Quiet
<1>3. disk \in Drive BY ImageTyped
<1>4. /\ asked \in Question /\ asked.kind = "none" /\ asked.multi = FALSE /\ asked.moves
      /\ asked.found = {}
  BY DEF Nothing, Question, Kinds, Track
<1>5. stream \in Stream BY <1>1 DEF NoStream, Stream
<1>6. Types BY <1>2, <1>3, <1>4, <1>5 DEF Types
<1>7. AskedInv BY <1>2, <1>4 DEF AskedInv
<1>8. OverInv BY <1>2 DEF OverInv
<1>9. Type1Inv /\ MovesInv /\ LooksInv BY DEF Type1Inv, MovesInv, LooksInv, Pending
<1>10. CountInv /\ DoneInv /\ FormatInv BY <1>4 DEF CountInv, DoneInv, FormatInv, Pending
<1>11. CountTyped BY <1>2 DEF CountTyped
<1> QED BY <1>6, <1>7, <1>8, <1>9, <1>10, <1>11 DEF IInv

\* Every step of a program that ends its transfers keeps the invariant.
THEOREM NextIInv == ASSUME ~Loose, IInv, [Next]_vars PROVE IInv'
<1>0. w \in Controller BY DEF IInv, Types
<1>1. CASE Position \/ AskSectors \/ AskAddress \/ AskTrack \/ AskFormat
  BY <1>1, CommandStep
<1>2. CASE ForceInterrupt BY <1>2, ForceInterruptStep
<1>3. CASE ReadStatus BY <1>3, ReadStatusStep
<1>4. CASE ReadData BY <1>4, ReadDataStep
<1>5. CASE WriteData BY <1>5, WriteDataStep
<1>6. CASE WriteFormat BY <1>6, WriteFormatStep
<1>7. CASE WriteTrackRegister \/ WriteSectorRegister BY <1>7, RegisterStep
<1>8. CASE ReadTrackRegister
  <2>1. [w EXCEPT !.wait = 0] \in Controller /\ Alike([w EXCEPT !.wait = 0], w)
    BY <1>0 DEF Controller, Alike
  <2> QED BY <1>8, <2>1, LookStep DEF ReadTrackRegister, Free
<1>9. CASE Look
  <2>1. Alike(w, w) BY DEF Alike
  <2> QED BY <1>0, <1>9, <2>1, LookStep DEF Look
<1>10. CASE Mount BY <1>10, MountStep
<1>11. CASE UNCHANGED vars
  <2>1. /\ w' = w /\ disk' = disk /\ seen' = seen /\ over' = over /\ asked' = asked
        /\ moved' = moved /\ stream' = stream /\ eint' = eint
    BY <1>11 DEF vars
  <2>2. Types' /\ AskedInv' /\ CountTyped'
    BY <2>1 DEF IInv, Types, AskedInv, NeedsInt, CountTyped
  <2>3. OverInv' /\ Type1Inv' /\ MovesInv' /\ LooksInv'
    BY <2>1 DEF IInv, OverInv, Type1Inv, MovesInv, LooksInv, Pending, Quiet
  <2>4. CountInv' /\ DoneInv' BY <2>1 DEF IInv, CountInv, DoneInv, Pending
  <2>5. \A u, n : Found(u, n)' <=> Found(u, n)
    BY <2>1 DEF Found, Exists, Ready, Has, OnTrack, Place
  <2>6. OnTrack(asked.track)' = OnTrack(asked.track) BY <2>1 DEF OnTrack, Place
  <2>7. Running => Running' BY <2>1, <2>5 DEF Running, Abreast, StillThere, Sized
  <2>8. Stopping => Stopping'
    BY <2>1, <2>5, <2>6 DEF Stopping, Quiet, TrackWhole, FormatKept
  <2>9. FormatInv' BY <2>1, <2>7, <2>8 DEF IInv, FormatInv
  <2> QED BY <2>2, <2>3, <2>4, <2>9 DEF IInv
<1> QED
  BY <1>1, <1>2, <1>3, <1>4, <1>5, <1>6, <1>7, <1>8, <1>9, <1>10, <1>11 DEF Next

\* What the invariant says of the properties.
LEMMA StatusLemma == ASSUME ~Loose, IInv PROVE StatusTrue
<1>1. asked \in Question /\ w.left \in Nat /\ (asked.kind = "none" => over)
  BY DEF IInv, Types, Controller, AskedInv
<1>2. CASE asked.kind \in Transfers
  <2>1. Requested => ByteDue BY <1>2, DueLemma DEF ByteDue
  <2>2. ByteDue /\ ~over /\ asked.moves => "DRQ" \in w.status \/ w.drqNext
    <3> SUFFICES ASSUME ByteDue, ~over, asked.moves PROVE "DRQ" \in w.status \/ w.drqNext
      OBVIOUS
    <3>1. w.command # "format" /\ (w.left > 0 => "DRQ" \in w.status \/ w.drqNext)
      BY <1>2 DEF IInv, MovesInv, Pending, Transfers
    <3> QED BY <3>1 DEF ByteDue
  <2> QED BY <2>1, <2>2 DEF StatusTrue, IInv, OverInv, Quiet, Open
<1>3. CASE asked.kind = "type1"
  <2>1. ~over => w.left = 0 /\ w.command = "type1" /\ "DRQ" \notin seen
    BY <1>3 DEF IInv, Type1Inv, Pending
  <2>2. ~over => ~w.int /\ ~ByteDue BY <1>1, <2>1 DEF IInv, AskedInv, NeedsInt, ByteDue
  <2> QED BY <2>1, <2>2 DEF StatusTrue, Requested, IInv, OverInv, Quiet, Open
<1>4. CASE asked.kind = "format"
  <2>1. Running /\ w.stage < 5 => ByteDue /\ "DRQ" \in w.status
    BY DEF Running, ByteDue
  <2>2. Stopping => ~ByteDue BY <1>1 DEF Stopping, Quiet, ByteDue
  <2>3. Stopping => ~Requested
    BY DEF Stopping, Quiet, Requested, IInv, AskedInv, NeedsInt
  <2>4. (Running /\ w.stage < 5) \/ Stopping BY <1>4 DEF IInv, FormatInv
  <2> QED BY <2>1, <2>2, <2>3, <2>4 DEF StatusTrue, IInv, OverInv, Quiet, Open
<1>5. CASE asked.kind = "none"
  BY <1>1, <1>5 DEF StatusTrue, Requested, IInv, OverInv, Quiet, Open
<1> QED BY <1>1, <1>2, <1>3, <1>4, <1>5 DEF Question, Kinds, Transfers

LEMMA WholeLemma == ASSUME IInv PROVE TransferWhole
<1> SUFFICES ASSUME over PROVE TransferWhole BY DEF TransferWhole
<1>1. asked.kind \in {"none", "type1"} => moved = 0 BY DEF IInv, CountInv
<1>2. asked.kind \in Kinds BY DEF IInv, Types, Question
<1>3. asked.kind = "format" => TrackWhole BY DEF IInv, FormatInv, Stopping
<1> QED BY <1>1, <1>2, <1>3 DEF TransferWhole, IInv, DoneInv, TrackWhole, Kinds

THEOREM Inductive == ASSUME ~Loose PROVE Spec => []IInv
<1>1. Init => IInv BY InitIInv
<1>2. IInv /\ [Next]_vars => IInv' BY NextIInv
<1> QED BY <1>1, <1>2, PTL DEF Spec

\* The controller, the drive and the histories keep their types.
THEOREM TypeCorrect == ASSUME ~Loose PROVE Spec => []Types
<1>1. IInv => Types BY DEF IInv
<1> QED BY <1>1, Inductive, PTL

\* A byte is asked for only when there is one, and when there is one; a command
\* that is over leaves nothing behind it, whatever was left of the one before it.
THEOREM StatusIsTrue == ASSUME ~Loose PROVE Spec => []StatusTrue
<1>1. IInv => StatusTrue BY StatusLemma
<1> QED BY <1>1, Inductive, PTL

\* What a command that is over has moved is its record or none of it, and what
\* a format of a track whose place the header knows has written stands on its
\* track with the tracks before it.
THEOREM TransferIsWhole == ASSUME ~Loose PROVE Spec => []TransferWhole
<1>1. IInv => TransferWhole BY WholeLemma
<1> QED BY <1>1, Inductive, PTL
=============================================================================
