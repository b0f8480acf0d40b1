--------------------------- MODULE TcpServerProofs ---------------------------
(***************************************************************************)
(* Proofs, for any number of descriptors and of client threads and         *)
(* whichever descriptors the rest of the program reuses, of the safety     *)
(* properties of TcpServer: as long as no stop has missed a client thread, *)
(* the slot is true, no thread is forgotten and no connection is left.     *)
(***************************************************************************)
EXTENDS TcpServer, TLAPS

(***************************************************************************)
(* The main thread returns from a stop when the listener has ended; stop's *)
(* locals are in scope while it runs.                                      *)
(***************************************************************************)
MainInv ==
  /\ m # "idle" => ~is_running
  /\ m \in {"join client", "freed"} => lpc = "ended"
  /\ m = "idle" /\ ~is_running => lpc = "ended"
  /\ m = "idle" => client = None

\* The locals of the listener and of the client threads are in scope.
LocalInv ==
  /\ conn # None <=> lpc \notin {"accept", "ended"}
  /\ thread # None <=> lpc \in {"join", "save"}
  /\ \A t \in Client : sock[t] # None => cpc[t] \in {"loop", "recv", "release", "close"}

(***************************************************************************)
(* client_count is 1 from the moment the listener takes the slot to the    *)
(* release by the one thread it spawned.  client_sock is the socket of     *)
(* that thread, unless stop took it.  After a stop that missed nobody,     *)
(* nothing is left.                                                        *)
(***************************************************************************)
CountInv ==
  /\ lpc \in {"reclaim", "join", "take slot"} => client_count = 0
  /\ lpc = "spawn" => client_count = 1 /\ \A t \in Client : ~Active(t)
  /\ \A t \in Client : Active(t) => client_count = 1
  /\ \A t, u \in Client : Active(t) /\ Active(u) => t = u
  /\ client_count = 1 => lpc = "spawn" \/ \E t \in Client : Active(t)

SockInv ==
  /\ client_count = 0 => client_sock = None
  /\ is_running /\ client_count = 1 => client_sock # None
  /\ \A t \in Client :
       Active(t) /\ cpc[t] # "begin" /\ client_sock # None => sock[t] = client_sock

QuietInv ==
  m \in {"idle", "freed"} /\ ~is_running =>
    client_count = 0 /\ \A t \in Client : cpc[t] = "none"

(***************************************************************************)
(* Somebody holds each thread that is to be joined, and each connection    *)
(* that is to be closed.                                                   *)
(***************************************************************************)
KnownInv ==
  /\ lpc \in {"join", "take slot", "spawn", "save"} => client_thread = None
  /\ \A t \in Client : cpc[t] # "none" => t \in {client_thread, client, thread}

Owned(f) ==
  \/ conn = f /\ lpc \in {"accepted", "reclaim", "join", "take slot"}
  \/ client_sock = f
  \/ \E t \in Client : sock[t] = f
  \/ cs = f /\ m \in {"shut listen", "shut client"}

OwnedInv == \A f \in Fd : fd[f] \in {"conn", "dead"} => Owned(f)

SlotInv == CountInv /\ SockInv /\ QuietInv /\ KnownInv /\ OwnedInv

IInv == TypeOK /\ MainInv /\ LocalInv /\ (~missed => SlotInv)

-----------------------------------------------------------------------------
\* While no stop has missed a thread, every thread that runs or has ended is in
\* a variable whose owner will join it: the handle is never lost, whatever the
\* order in which the listener, the clients and stop take the lock.
ThreadsKnown ==
  ~missed => \A t \in Client : cpc[t] # "none" => t \in {client_thread, client, thread}

-----------------------------------------------------------------------------
(* Steps.  A step of the main thread, the listener, a client thread or the *)
(* world outside.                                                          *)

MainStep     == Start \/ StopBegin \/ Stopping \/ Destroy
ListenerStep == (\E f \in Fd : Accept(f)) \/ AcceptFails \/ Admitting
ClientStep(t) == Serving(t) \/ Serve(t) \/ Leave(t)
WorldStep    == \/ \E f \in Fd : PeerCloses(f)
                \/ \E f \in Reused : OpenOther(f) \/ CloseOther(f)

LEMMA NextSplit ==
  ASSUME Next
  PROVE  MainStep \/ ListenerStep \/ (\E t \in Client : ClientStep(t)) \/ WorldStep
BY DEF Next, MainStep, ListenerStep, ClientStep, WorldStep

LEMMA InitIInv ==
  ASSUME Init
  PROVE  IInv
<1>1. TypeOK
  BY DEF Init, TypeOK
<1>2. MainInv /\ LocalInv
  BY NoneAssumption DEF Init, MainInv, LocalInv
<1>3. \A t \in Client : ~Active(t) /\ cpc[t] = "none"
  BY DEF Init, Active
<1>4. CountInv /\ SockInv /\ QuietInv /\ KnownInv
  BY <1>3 DEF Init, CountInv, SockInv, QuietInv, KnownInv
<1>5. OwnedInv
  BY DEF Init, OwnedInv
<1> QED
  BY <1>1, <1>2, <1>4, <1>5 DEF IInv, SlotInv

\* What the listener, the clients and the world leave alone.
LEMMA ListenerFrame ==
  ASSUME ListenerStep
  PROVE  /\ is_running' = is_running /\ missed' = missed
         /\ m' = m /\ cs' = cs /\ client' = client /\ sock' = sock
         /\ lpc # "ended"
<1> USE DEF srvVars, mainVars, clientVars
<1>1. CASE \E f \in Fd : Accept(f)
  BY <1>1 DEF Accept
<1>2. CASE AcceptFails
  BY <1>2 DEF AcceptFails
<1>3. CASE Reject
  BY <1>3 DEF Reject
<1>4. CASE Admit
  BY <1>4 DEF Admit
<1>5. CASE Reclaim
  BY <1>5 DEF Reclaim
<1>6. CASE JoinZombie
  BY <1>6 DEF JoinZombie
<1>7. CASE TakeSlot
  BY <1>7 DEF TakeSlot
<1>8. CASE SaveThread
  BY <1>8 DEF SaveThread
<1>9. CASE \E t \in Client : Spawn(t)
  BY <1>9 DEF Spawn
<1> QED
  BY <1>1, <1>2, <1>3, <1>4, <1>5, <1>6, <1>7, <1>8, <1>9 DEF ListenerStep, Admitting

LEMMA ClientFrame ==
  ASSUME NEW t \in Client, ClientStep(t)
  PROVE  /\ is_running' = is_running /\ missed' = missed
         /\ m' = m /\ cs' = cs /\ client' = client
         /\ lpc' = lpc /\ conn' = conn /\ thread' = thread
         /\ client_thread' = client_thread
<1> USE DEF srvVars, mainVars, listenerVars
<1>1. CASE Begin(t)
  BY <1>1 DEF Begin
<1>2. CASE CheckStop(t)
  BY <1>2 DEF CheckStop
<1>3. CASE Release(t)
  BY <1>3 DEF Release
<1>4. CASE Close(t)
  BY <1>4 DEF Close
<1>5. CASE Serve(t)
  BY <1>5 DEF Serve
<1>6. CASE Leave(t)
  BY <1>6 DEF Leave
<1> QED
  BY <1>1, <1>2, <1>3, <1>4, <1>5, <1>6 DEF ClientStep, Serving

LEMMA WorldFrame ==
  ASSUME WorldStep
  PROVE  /\ is_running' = is_running /\ stop_requested' = stop_requested
         /\ client_sock' = client_sock /\ client_count' = client_count
         /\ client_thread' = client_thread /\ listening' = listening
         /\ m' = m /\ cs' = cs /\ client' = client
         /\ lpc' = lpc /\ conn' = conn /\ thread' = thread
         /\ cpc' = cpc /\ sock' = sock /\ stray' = stray /\ missed' = missed
BY DEF WorldStep, PeerCloses, OpenOther, CloseOther, srvVars, mainVars, listenerVars, clientVars

LEMMA CloseType ==
  ASSUME TypeOK, NEW f, CloseFd(f)
  PROVE  /\ fd' \in [Fd -> {"free", "conn", "dead", "other"}]
         /\ stray' \in BOOLEAN
<1>1. fd \in [Fd -> {"free", "conn", "dead", "other"}] /\ stray \in BOOLEAN
  BY DEF TypeOK
<1>2. fd' \in [Fd -> {"free", "conn", "dead", "other"}]
  BY <1>1 DEF CloseFd, fdVars
<1>3. stray' \in BOOLEAN
  BY <1>1, Zenon DEF CloseFd, fdVars
<1> QED
  BY <1>2, <1>3

\* A client thread leaves the types of the others' variables alone.
LEMMA ClientType ==
  ASSUME TypeOK, NEW t \in Client, ClientStep(t),
         stop_requested' = stop_requested, listening' = listening, stray' \in BOOLEAN,
         client_sock' = client_sock, client_count' = client_count,
         cpc' \in [Client -> {"none", "begin", "loop", "recv", "release", "close", "ended"}],
         sock' \in [Client -> Fd \cup {None}],
         fd' \in [Fd -> {"free", "conn", "dead", "other"}]
  PROVE  TypeOK'
<1>1. {is_running, stop_requested, listening, missed}' \subseteq BOOLEAN
  BY ClientFrame DEF TypeOK
<1>2. /\ m' \in {"idle", "shut listen", "shut client", "join listener", "join client", "freed"}
      /\ lpc' \in {"accept", "accepted", "reclaim", "join", "take slot", "spawn", "save", "ended"}
      /\ cs' \in Fd \cup {None} /\ conn' \in Fd \cup {None}
      /\ client' \in Client \cup {None} /\ thread' \in Client \cup {None}
      /\ client_thread' \in Client \cup {None}
  BY ClientFrame DEF TypeOK
<1>3. client_sock' \in Fd \cup {None} /\ client_count' \in {0, 1}
  BY DEF TypeOK
<1> QED
  BY <1>1, <1>2, <1>3 DEF TypeOK

LEMMA NextType ==
  ASSUME TypeOK, Next
  PROVE  TypeOK'
<1> USE DEF srvVars, mainVars, listenerVars, clientVars, fdVars
<1>0. /\ is_running \in BOOLEAN /\ stop_requested \in BOOLEAN /\ listening \in BOOLEAN
      /\ missed \in BOOLEAN /\ stray \in BOOLEAN
  BY DEF TypeOK
<1>1. CASE MainStep
  <2>1. CASE Start
    BY <2>1 DEF TypeOK, Start
  <2>2. CASE StopBegin
    BY <2>2 DEF TypeOK, StopBegin
  <2>3. CASE StopListen
    BY <2>3 DEF TypeOK, StopListen
  <2>4. CASE StopClient
    BY <2>4, CloseType, ZenonT(40) DEF TypeOK, StopClient
  <2>5. CASE JoinListener \/ Destroy
    BY <2>5 DEF TypeOK, JoinListener, Destroy
  <2>6. CASE StopEnd
    <3>1. missed' \in BOOLEAN
      BY <1>0, <2>6, Zenon DEF StopEnd
    <3> QED
      BY <2>6, <3>1 DEF TypeOK, StopEnd
  <2> QED
    BY <1>1, <2>1, <2>2, <2>3, <2>4, <2>5, <2>6 DEF MainStep, Stopping
<1>2. CASE ListenerStep
  <2>1. CASE (\E f \in Fd : Accept(f)) \/ AcceptFails
    BY <2>1 DEF TypeOK, Accept, AcceptFails
  <2>2. CASE Reject
    BY <2>2, CloseType DEF TypeOK, Reject
  <2>3. CASE Admit \/ Reclaim \/ JoinZombie \/ TakeSlot \/ SaveThread
    BY <2>3 DEF TypeOK, Admit, Reclaim, JoinZombie, TakeSlot, SaveThread
  <2>4. CASE \E t \in Client : Spawn(t)
    BY <2>4 DEF TypeOK, Spawn
  <2> QED
    BY <1>2, <2>1, <2>2, <2>3, <2>4 DEF ListenerStep, Admitting
<1>3. CASE \E t \in Client : ClientStep(t)
  <2>1. PICK t \in Client : ClientStep(t)
    BY <1>3
  <2>2. CASE Begin(t)
    <3>1. sock' \in [Client -> Fd \cup {None}]
      BY <2>2 DEF TypeOK, Begin
    <3>2. cpc' \in [Client -> {"none", "begin", "loop", "recv", "release", "close", "ended"}]
      BY <2>2 DEF TypeOK, Begin, Goto
    <3>3. fd' = fd /\ stray' = stray /\ stop_requested' = stop_requested
          /\ listening' = listening /\ client_sock' = client_sock
          /\ client_count' = client_count
      BY <2>2 DEF Begin
    <3> QED
      BY <2>1, <3>1, <3>2, <3>3, ClientType DEF TypeOK
  <2>3. CASE CheckStop(t) \/ Serve(t) \/ Leave(t)
    <3>1. cpc' \in [Client -> {"none", "begin", "loop", "recv", "release", "close", "ended"}]
      BY <2>3 DEF TypeOK, CheckStop, Serve, Leave, Goto
    <3>2. fd' = fd /\ stray' = stray /\ stop_requested' = stop_requested
          /\ listening' = listening /\ client_sock' = client_sock
          /\ client_count' = client_count /\ sock' = sock
      BY <2>3 DEF CheckStop, Serve, Leave
    <3> QED
      BY <2>1, <3>1, <3>2, ClientType DEF TypeOK
  <2>4. CASE Release(t)
    BY <2>4 DEF TypeOK, Release, Goto, Vacant
  <2>5. CASE Close(t)
    <3>1. sock' \in [Client -> Fd \cup {None}]
      BY <2>5 DEF TypeOK, Close
    <3>2. cpc' \in [Client -> {"none", "begin", "loop", "recv", "release", "close", "ended"}]
      BY <2>5 DEF TypeOK, Close, Goto
    <3>3. fd' \in [Fd -> {"free", "conn", "dead", "other"}] /\ stray' \in BOOLEAN
      BY <2>5, CloseType DEF Close
    <3>4. stop_requested' = stop_requested /\ listening' = listening
          /\ client_sock' = client_sock /\ client_count' = client_count
      BY <2>5 DEF Close
    <3> QED
      BY <2>1, <3>1, <3>2, <3>3, <3>4, ClientType DEF TypeOK
  <2> QED
    BY <2>1, <2>2, <2>3, <2>4, <2>5 DEF ClientStep, Serving
<1>4. CASE WorldStep
  <2>1. fd' \in [Fd -> {"free", "conn", "dead", "other"}]
    BY <1>4, ReusedAssumption DEF TypeOK, WorldStep, PeerCloses, OpenOther, CloseOther
  <2> QED
    BY <1>4, <2>1, WorldFrame DEF TypeOK
<1> QED
  BY <1>1, <1>2, <1>3, <1>4, NextSplit

LEMMA NextMain ==
  ASSUME TypeOK, MainInv, Next
  PROVE  MainInv'
<1>0. is_running \in BOOLEAN
  BY DEF TypeOK
<1>1. CASE MainStep
  <2> USE DEF srvVars, mainVars, listenerVars
  <2>1. CASE Start
    BY <1>0, <2>1 DEF MainInv, Start
  <2>2. CASE StopBegin
    BY <1>0, <2>2 DEF MainInv, StopBegin
  <2>3. CASE StopListen
    BY <1>0, <2>3 DEF MainInv, StopListen
  <2>4. CASE StopClient
    BY <1>0, <2>4 DEF MainInv, StopClient
  <2>5. CASE JoinListener
    BY <1>0, <2>5 DEF MainInv, JoinListener
  <2>6. CASE StopEnd
    BY <1>0, <2>6 DEF MainInv, StopEnd
  <2>7. CASE Destroy
    BY <1>0, <2>7 DEF MainInv, Destroy
  <2> QED
    BY <1>1, <2>1, <2>2, <2>3, <2>4, <2>5, <2>6, <2>7 DEF MainStep, Stopping
<1>2. CASE ListenerStep
  <2>1. /\ is_running' = is_running /\ m' = m /\ client' = client
        /\ lpc # "ended"
    BY <1>2, ListenerFrame
  <2> QED
    BY <1>0, <2>1 DEF MainInv
<1>3. CASE \E t \in Client : ClientStep(t)
  BY <1>0, <1>3, ClientFrame DEF MainInv
<1>4. CASE WorldStep
  <2>1. is_running' = is_running /\ m' = m /\ client' = client /\ lpc' = lpc
    BY <1>4, WorldFrame
  <2> QED
    BY <1>0, <2>1 DEF MainInv
<1> QED
  BY <1>1, <1>2, <1>3, <1>4, NextSplit

LEMMA NextLocal ==
  ASSUME TypeOK, MainInv, LocalInv, Next
  PROVE  LocalInv'
<1> USE NoneAssumption DEF srvVars, mainVars, listenerVars, clientVars, LocalInv
<1>1. CASE MainStep
  <2>1. CASE Start
    BY <2>1 DEF Start, MainInv
  <2>2. CASE StopBegin \/ StopListen \/ StopClient \/ JoinListener \/ Destroy
    BY <2>2 DEF StopBegin, StopListen, StopClient, JoinListener, Destroy
  <2>3. CASE StopEnd
    BY <2>3 DEF StopEnd, TypeOK
  <2> QED
    BY <1>1, <2>1, <2>2, <2>3 DEF MainStep, Stopping
<1>2. CASE ListenerStep
  <2>1. CASE \E f \in Fd : Accept(f)
    BY <2>1 DEF Accept
  <2>2. CASE AcceptFails \/ Reject \/ Admit \/ TakeSlot \/ SaveThread
    BY <2>2 DEF AcceptFails, Reject, Admit, TakeSlot, SaveThread
  <2>3. CASE Reclaim
    BY <2>3 DEF Reclaim
  <2>4. CASE JoinZombie
    BY <2>4 DEF JoinZombie, TypeOK
  <2>5. CASE \E t \in Client : Spawn(t)
    BY <2>5 DEF Spawn, TypeOK
  <2> QED
    BY <1>2, <2>1, <2>2, <2>3, <2>4, <2>5 DEF ListenerStep, Admitting
<1>3. CASE \E t \in Client : ClientStep(t)
  <2>1. PICK t \in Client : ClientStep(t)
    BY <1>3
  <2>2. CASE Begin(t) \/ CheckStop(t) \/ Serve(t) \/ Leave(t) \/ Release(t)
    BY <2>2 DEF TypeOK, Begin, CheckStop, Serve, Leave, Release, Goto
  <2>3. CASE Close(t)
    BY <2>3 DEF TypeOK, Close, Goto
  <2> QED
    BY <2>1, <2>2, <2>3 DEF ClientStep, Serving
<1>4. CASE WorldStep
  BY <1>4, WorldFrame
<1> QED
  BY <1>1, <1>2, <1>3, <1>4, NextSplit

-----------------------------------------------------------------------------
(* The slot, while no stop has missed a thread. *)

\* A stop that misses nobody returns when nobody is left.
LEMMA StopEndQuiet ==
  ASSUME TypeOK, MainInv, CountInv, SockInv, StopEnd, ~missed'
  PROVE  /\ \A t \in Client : cpc'[t] = "none" /\ ~Active(t) /\ ~Active(t)'
         /\ client_count = 0 /\ client_sock = None
<1>1. \A t \in Client : cpc'[t] = "none"
  BY Zenon DEF StopEnd
<1>2. \A t \in Client : cpc[t] \in {"none", "ended"}
  BY <1>1, NoneAssumption DEF StopEnd, TypeOK
<1>3. \A t \in Client : ~Active(t) /\ ~Active(t)'
  BY <1>1, <1>2 DEF Active
<1>4. lpc = "ended"
  BY DEF StopEnd, MainInv
<1>5. client_count = 0
  BY <1>3, <1>4 DEF CountInv, TypeOK
<1> QED
  BY <1>1, <1>3, <1>5 DEF SockInv

LEMMA NextCount ==
  ASSUME TypeOK, MainInv, LocalInv, SlotInv, Next, ~missed'
  PROVE  CountInv'
<1> USE DEF srvVars, mainVars, listenerVars, clientVars
<1>0. CountInv /\ client_count \in {0, 1}
  BY DEF SlotInv, TypeOK
<1>1. CASE MainStep
  <2>1. CASE Start
    BY <1>0, <2>1 DEF Start, MainInv, CountInv, Active
  <2>2. CASE StopBegin
    BY <1>0, <2>2 DEF StopBegin, CountInv, Active
  <2>3. CASE StopListen \/ StopClient \/ JoinListener \/ Destroy
    BY <1>0, <2>3 DEF StopListen, StopClient, JoinListener, Destroy, CountInv, Active
  <2>4. CASE StopEnd
    <3>1. lpc' = "ended" /\ client_count' = 0
      BY <2>4 DEF StopEnd, MainInv
    <3>2. \A t \in Client : ~Active(t)'
      BY <2>4, StopEndQuiet DEF SlotInv
    <3> QED
      BY <3>1, <3>2 DEF CountInv
  <2> QED
    BY <1>1, <2>1, <2>2, <2>3, <2>4 DEF MainStep, Stopping
<1>2. CASE ListenerStep
  <2>1. CASE (\E f \in Fd : Accept(f)) \/ AcceptFails
    BY <1>0, <2>1 DEF Accept, AcceptFails, CountInv, Active
  <2>2. CASE Reject
    BY <1>0, <2>2 DEF Reject, CountInv, Active
  <2>3. CASE Admit
    BY <1>0, <2>3 DEF Admit, Full, CountInv, Active
  <2>4. CASE Reclaim
    BY <1>0, <2>4 DEF Reclaim, CountInv, Active
  <2>5. CASE JoinZombie
    <3>1. thread \in Client
      BY <2>5, NoneAssumption DEF JoinZombie, LocalInv, TypeOK
    <3>2. \A t \in Client : Active(t)' <=> Active(t)
      BY <2>5, <3>1 DEF JoinZombie, Active, TypeOK
    <3>3. lpc = "join" /\ lpc' = "take slot" /\ client_count' = client_count
      BY <2>5 DEF JoinZombie
    <3> QED
      BY <1>0, <3>2, <3>3 DEF CountInv
  <2>6. CASE TakeSlot
    <3>1. lpc = "take slot" /\ lpc' = "spawn" /\ client_count' = 1 /\ cpc' = cpc
      BY <2>6 DEF TakeSlot
    <3>2. \A t \in Client : ~Active(t)
      <4>1. client_count = 0 /\ \A t \in Client : Active(t) => client_count = 1
        BY <1>0, <3>1 DEF CountInv
      <4> QED
        BY <4>1
    <3>3. \A t \in Client : ~Active(t)'
      BY <3>1, <3>2 DEF Active
    <3> QED
      BY <3>1, <3>3 DEF CountInv
  <2>7. CASE SaveThread
    BY <1>0, <2>7 DEF SaveThread, CountInv, Active
  <2>8. CASE \E t \in Client : Spawn(t)
    <3>1. PICK t \in Client : Spawn(t)
      BY <2>8
    <3>2. \A u \in Client : Active(u)' <=> u = t
      BY <1>0, <3>1 DEF Spawn, Active, CountInv, TypeOK
    <3>3. lpc' = "save" /\ client_count' = 1
      BY <1>0, <3>1 DEF Spawn, CountInv
    <3> QED
      BY <3>2, <3>3 DEF CountInv
  <2> QED
    BY <1>2, <2>1, <2>2, <2>3, <2>4, <2>5, <2>6, <2>7, <2>8 DEF ListenerStep, Admitting
<1>3. CASE \E t \in Client : ClientStep(t)
  <2>1. PICK t \in Client : ClientStep(t)
    BY <1>3
  <2>2. lpc' = lpc
    BY <2>1, ClientFrame
  <2>3. CASE Begin(t) \/ CheckStop(t) \/ Serve(t) \/ Leave(t) \/ Close(t)
    <3>1. client_count' = client_count
      BY <2>3 DEF Begin, CheckStop, Serve, Leave, Close
    <3>2. \A u \in Client : Active(u)' <=> Active(u)
      BY <2>3 DEF Begin, CheckStop, Serve, Leave, Close, Goto, Active, TypeOK
    <3> QED
      BY <1>0, <2>2, <3>1, <3>2 DEF CountInv
  <2>4. CASE Release(t)
    <3>1. \A u \in Client : ~Active(u)' /\ (Active(u) <=> u = t)
      BY <1>0, <2>4 DEF Release, Goto, Active, CountInv, TypeOK
    <3>2. client_count = 1 /\ client_count' = 0
      BY <1>0, <2>4, <3>1 DEF Release, Vacant, CountInv
    <3>3. lpc' # "spawn"
      BY <1>0, <2>2, <3>1 DEF CountInv
    <3> QED
      BY <3>1, <3>2, <3>3 DEF CountInv
  <2> QED
    BY <2>1, <2>3, <2>4 DEF ClientStep, Serving
<1>4. CASE WorldStep
  BY <1>0, <1>4, WorldFrame DEF CountInv, Active
<1> QED
  BY <1>1, <1>2, <1>3, <1>4, NextSplit

\* A step that starts nothing, sets no socket and lets nobody begin.
LEMMA SameSock ==
  ASSUME SockInv, is_running \in BOOLEAN, is_running' = is_running,
         client_sock' = client_sock, client_count' = client_count,
         \A t \in Client : Active(t)' /\ cpc'[t] # "begin" =>
           Active(t) /\ cpc[t] # "begin" /\ sock'[t] = sock[t]
  PROVE  SockInv'
BY DEF SockInv

LEMMA NextSock ==
  ASSUME TypeOK, MainInv, LocalInv, SlotInv, Next, ~missed'
  PROVE  SockInv'
<1> USE DEF srvVars, mainVars, listenerVars, clientVars
<1>0. /\ SockInv /\ CountInv /\ QuietInv
      /\ client_count \in {0, 1} /\ is_running \in BOOLEAN
      /\ cpc \in [Client -> {"none", "begin", "loop", "recv", "release", "close", "ended"}]
      /\ sock \in [Client -> Fd \cup {None}]
  BY DEF SlotInv, TypeOK
<1>1. CASE MainStep
  <2>1. CASE Start
    <3>1. client_count' = 0 /\ client_sock' = None
      BY <1>0, <2>1 DEF Start, QuietInv, SockInv
    <3> QED
      BY <3>1 DEF SockInv
  <2>2. CASE StopBegin
    BY <1>0, <2>2 DEF StopBegin, SockInv
  <2>3. CASE StopListen \/ StopClient \/ JoinListener \/ Destroy
    <3>1. /\ is_running' = is_running /\ client_sock' = client_sock
          /\ client_count' = client_count /\ cpc' = cpc /\ sock' = sock
      BY <2>3 DEF StopListen, StopClient, JoinListener, Destroy
    <3> QED
      BY <1>0, <3>1, SameSock DEF Active
  <2>4. CASE StopEnd
    <3>1. client_sock' = None /\ client_count' = 0
      BY <1>0, <2>4, StopEndQuiet DEF StopEnd
    <3> QED
      BY <3>1 DEF SockInv
  <2> QED
    BY <1>1, <2>1, <2>2, <2>3, <2>4 DEF MainStep, Stopping
<1>2. CASE ListenerStep
  <2>0. is_running' = is_running /\ sock' = sock
    BY <1>2, ListenerFrame
  <2>1. CASE (\E f \in Fd : Accept(f)) \/ AcceptFails
    <3>1. client_sock' = client_sock /\ client_count' = client_count /\ cpc' = cpc
      BY <2>1 DEF Accept, AcceptFails
    <3> QED
      BY <1>0, <2>0, <3>1, SameSock DEF Active
  <2>2. CASE Reject \/ Admit \/ Reclaim \/ SaveThread
    <3>1. client_sock' = client_sock /\ client_count' = client_count /\ cpc' = cpc
      BY <2>2 DEF Reject, Admit, Reclaim, SaveThread
    <3> QED
      BY <1>0, <2>0, <3>1, SameSock DEF Active
  <2>3. CASE JoinZombie
    <3>1. client_sock' = client_sock /\ client_count' = client_count
      BY <2>3 DEF JoinZombie
    <3>2. \A t \in Client : Active(t)' => cpc'[t] = cpc[t]
      BY <1>0, <2>3 DEF JoinZombie, Active
    <3> QED
      BY <1>0, <2>0, <3>1, <3>2, SameSock DEF Active
  <2>4. CASE TakeSlot
    <3>1. lpc = "take slot" /\ cpc' = cpc /\ client_sock' # None /\ client_count' = 1
      BY <2>4 DEF TakeSlot, LocalInv
    <3>2. \A t \in Client : ~Active(t)
      <4>1. client_count = 0 /\ \A t \in Client : Active(t) => client_count = 1
        BY <1>0, <3>1 DEF CountInv
      <4> QED
        BY <4>1
    <3>3. \A t \in Client : ~Active(t)'
      BY <3>1, <3>2 DEF Active
    <3>4. 1 # 0
      OBVIOUS
    <3> QED
      BY <3>1, <3>3, <3>4, Zenon DEF SockInv
  <2>5. CASE \E t \in Client : Spawn(t)
    <3>1. client_sock' = client_sock /\ client_count' = client_count
      BY <2>5 DEF Spawn
    <3>2. \A t \in Client : cpc'[t] = cpc[t] \/ cpc'[t] = "begin"
      BY <1>0, <2>5 DEF Spawn
    <3> QED
      BY <1>0, <2>0, <3>1, <3>2, SameSock DEF Active
  <2> QED
    BY <1>2, <2>1, <2>2, <2>3, <2>4, <2>5 DEF ListenerStep, Admitting
<1>3. CASE \E t \in Client : ClientStep(t)
  <2>1. PICK t \in Client : ClientStep(t)
    BY <1>3
  <2>2. is_running' = is_running
    BY <2>1, ClientFrame
  <2>3. CASE Begin(t)
    <3>1. client_sock' = client_sock /\ client_count' = client_count
      BY <2>3 DEF Begin
    <3>2. \A u \in Client : cpc'[u] = IF u = t THEN "loop" ELSE cpc[u]
      BY <1>0, <2>3 DEF Begin, Goto
    <3>3. \A u \in Client : sock'[u] = IF u = t THEN client_sock ELSE sock[u]
      BY <1>0, <2>3 DEF Begin
    <3>4. \A u \in Client :
            Active(u)' /\ cpc'[u] # "begin" /\ client_sock' # None => sock'[u] = client_sock'
      BY <1>0, <3>1, <3>2, <3>3 DEF SockInv, Active
    <3>5. /\ client_count' = 0 => client_sock' = None
          /\ is_running' /\ client_count' = 1 => client_sock' # None
      BY <1>0, <2>2, <3>1 DEF SockInv
    <3> QED
      BY <3>4, <3>5, Zenon DEF SockInv
  <2>4. CASE CheckStop(t) \/ Serve(t) \/ Leave(t)
    <3>1. client_sock' = client_sock /\ client_count' = client_count /\ sock' = sock
      BY <2>4 DEF CheckStop, Serve, Leave
    <3>2. \A u \in Client : \/ cpc'[u] = cpc[u]
                            \/ Active(u) /\ cpc[u] # "begin"
      BY <1>0, <2>4 DEF CheckStop, Serve, Leave, Goto, Active
    <3> QED
      BY <1>0, <2>2, <3>1, <3>2, SameSock DEF Active
  <2>5. CASE Release(t)
    BY <1>0, <2>2, <2>5 DEF Release, Vacant, SockInv
  <2>6. CASE Close(t)
    <3>1. client_sock' = client_sock /\ client_count' = client_count
      BY <2>6 DEF Close
    <3>2. \A u \in Client : \/ cpc'[u] = "ended"
                            \/ cpc'[u] = cpc[u] /\ sock'[u] = sock[u]
      BY <1>0, <2>6 DEF Close, Goto
    <3> QED
      BY <1>0, <2>2, <3>1, <3>2, SameSock DEF Active
  <2> QED
    BY <2>1, <2>3, <2>4, <2>5, <2>6 DEF ClientStep, Serving
<1>4. CASE WorldStep
  BY <1>0, <1>4, WorldFrame, SameSock DEF Active
<1> QED
  BY <1>1, <1>2, <1>3, <1>4, NextSplit

\* Start finds nobody, and a stop that missed nobody leaves nobody.
LEMMA NextQuiet ==
  ASSUME TypeOK, MainInv, LocalInv, SlotInv, Next, ~missed'
  PROVE  QuietInv'
<1> USE DEF srvVars, mainVars, listenerVars, clientVars
<1>0. /\ QuietInv /\ CountInv /\ is_running \in BOOLEAN
      /\ m # "idle" => ~is_running
      /\ m = "freed" \/ (m = "idle" /\ ~is_running) => lpc = "ended"
  BY DEF SlotInv, TypeOK, MainInv
<1>1. CASE MainStep
  <2>1. CASE Start
    <3>1. is_running' /\ m' = "idle"
      BY <2>1 DEF Start
    <3> QED
      BY <3>1 DEF QuietInv
  <2>2. CASE StopBegin \/ StopListen \/ StopClient \/ JoinListener
    <3>1. m' \notin {"idle", "freed"}
      BY <2>2 DEF StopBegin, StopListen, StopClient, JoinListener
    <3> QED
      BY <3>1 DEF QuietInv
  <2>3. CASE StopEnd
    <3>1. client_count' = 0
      BY <2>3 DEF StopEnd
    <3> QED
      BY <1>0, <2>3, <3>1, StopEndQuiet DEF QuietInv, SlotInv
  <2>4. CASE Destroy
    <3>1. m = "idle" /\ ~is_running /\ client_count' = client_count /\ cpc' = cpc
      BY <2>4 DEF Destroy
    <3> QED
      BY <1>0, <3>1 DEF QuietInv
  <2> QED
    BY <1>1, <2>1, <2>2, <2>3, <2>4 DEF MainStep, Stopping
<1>2. CASE ListenerStep
  <2>1. is_running' = is_running /\ m' = m /\ lpc # "ended"
    BY <1>2, ListenerFrame
  <2>2. ~(m \in {"idle", "freed"} /\ ~is_running)
    BY <1>0, <2>1
  <2> QED
    BY <2>1, <2>2 DEF QuietInv
<1>3. CASE \E t \in Client : ClientStep(t)
  <2>1. PICK t \in Client : ClientStep(t)
    BY <1>3
  <2>2. is_running' = is_running /\ m' = m
    BY <2>1, ClientFrame
  <2>3. cpc[t] # "none"
    BY <2>1 DEF ClientStep, Serving, Begin, CheckStop, Release, Close, Serve, Leave
  <2>4. ~(m \in {"idle", "freed"} /\ ~is_running)
    BY <1>0, <2>3 DEF QuietInv
  <2> QED
    BY <2>2, <2>4 DEF QuietInv
<1>4. CASE WorldStep
  <2>1. is_running' = is_running /\ m' = m /\ client_count' = client_count /\ cpc' = cpc
    BY <1>4, WorldFrame
  <2> QED
    BY <1>0, <2>1 DEF QuietInv
<1> QED
  BY <1>1, <1>2, <1>3, <1>4, NextSplit

\* The handle of a thread passes from the listener's local to client_thread, and
\* from there to the listener or to stop, which join it.
LEMMA NextKnown ==
  ASSUME TypeOK, MainInv, LocalInv, SlotInv, Next, ~missed'
  PROVE  KnownInv'
<1> USE DEF srvVars, mainVars, listenerVars, clientVars
<1>0. /\ KnownInv /\ CountInv /\ SockInv /\ client_count \in {0, 1}
      /\ cpc \in [Client -> {"none", "begin", "loop", "recv", "release", "close", "ended"}]
  BY DEF SlotInv, TypeOK
<1>1. CASE MainStep
  <2>1. CASE Start
    BY <1>0, <2>1 DEF Start, KnownInv
  <2>2. CASE StopBegin
    <3>1. client = None
      BY <2>2 DEF StopBegin, MainInv
    <3>2. \A t \in Client : t # None
      BY NoneAssumption
    <3>3. client_thread' = None /\ client' = client_thread /\ thread' = thread /\ cpc' = cpc
      BY <2>2 DEF StopBegin
    <3> QED
      BY <1>0, <3>1, <3>2, <3>3 DEF KnownInv
  <2>3. CASE StopListen \/ StopClient \/ JoinListener \/ Destroy
    BY <1>0, <2>3 DEF StopListen, StopClient, JoinListener, Destroy, KnownInv
  <2>4. CASE StopEnd
    <3>1. lpc' = "ended"
      BY <2>4 DEF StopEnd, MainInv
    <3>2. \A t \in Client : cpc'[t] = "none"
      BY <2>4, StopEndQuiet DEF SlotInv
    <3> QED
      BY <3>1, <3>2 DEF KnownInv
  <2> QED
    BY <1>1, <2>1, <2>2, <2>3, <2>4 DEF MainStep, Stopping
<1>2. CASE ListenerStep
  <2>0. client' = client
    BY <1>2, ListenerFrame
  <2>1. CASE (\E f \in Fd : Accept(f)) \/ AcceptFails
    BY <1>0, <2>0, <2>1 DEF Accept, AcceptFails, KnownInv
  <2>2. CASE Reject \/ Admit
    BY <1>0, <2>0, <2>2 DEF Reject, Admit, KnownInv
  <2>3. CASE Reclaim
    <3>1. client_sock = None
      BY <1>0, <2>3 DEF Reclaim, CountInv, SockInv
    <3>2. thread' = client_thread /\ client_thread' = None /\ cpc' = cpc
      BY <2>3, <3>1 DEF Reclaim
    <3>3. thread = None
      BY <2>3 DEF Reclaim, LocalInv
    <3>4. \A t \in Client : t # None
      BY NoneAssumption
    <3> QED
      BY <1>0, <2>0, <3>2, <3>3, <3>4 DEF KnownInv
  <2>4. CASE JoinZombie
    <3>1. \A t \in Client : cpc'[t] = IF t = thread THEN "none" ELSE cpc[t]
      BY <1>0, <2>4 DEF JoinZombie
    <3>2. lpc = "join" /\ client_thread' = client_thread
      BY <2>4 DEF JoinZombie
    <3> QED
      BY <1>0, <2>0, <3>1, <3>2 DEF KnownInv
  <2>5. CASE TakeSlot
    BY <1>0, <2>0, <2>5 DEF TakeSlot, KnownInv
  <2>6. CASE SaveThread
    <3>1. \A t \in Client : t # None
      BY NoneAssumption
    <3>2. lpc = "save" /\ lpc' = "accept" /\ client_thread' = thread /\ cpc' = cpc
      BY <2>6 DEF SaveThread
    <3> QED
      BY <1>0, <2>0, <3>1, <3>2 DEF KnownInv
  <2>7. CASE \E t \in Client : Spawn(t)
    <3>1. PICK t \in Client : Spawn(t)
      BY <2>7
    <3>2. /\ lpc = "spawn" /\ lpc' = "save" /\ thread' = t /\ thread = None
          /\ client_thread' = client_thread
      BY <3>1 DEF Spawn, LocalInv
    <3>3. \A u \in Client : u # t => cpc'[u] = cpc[u]
      BY <1>0, <3>1 DEF Spawn
    <3>4. \A u \in Client : u # None
      BY NoneAssumption
    <3> QED
      BY <1>0, <2>0, <3>2, <3>3, <3>4 DEF KnownInv
  <2> QED
    BY <1>2, <2>1, <2>2, <2>3, <2>4, <2>5, <2>6, <2>7 DEF ListenerStep, Admitting
<1>3. CASE \E t \in Client : ClientStep(t)
  <2>1. PICK t \in Client : ClientStep(t)
    BY <1>3
  <2>2. cpc[t] # "none" /\ \A u \in Client : u # t => cpc'[u] = cpc[u]
    BY <1>0, <2>1 DEF ClientStep, Serving, Begin, CheckStop, Release, Close, Serve, Leave, Goto
  <2>3. client' = client /\ lpc' = lpc /\ thread' = thread /\ client_thread' = client_thread
    BY <2>1, ClientFrame
  <2> QED
    BY <1>0, <2>2, <2>3 DEF KnownInv
<1>4. CASE WorldStep
  BY <1>0, <1>4, WorldFrame DEF KnownInv
<1> QED
  BY <1>1, <1>2, <1>3, <1>4, NextSplit

-----------------------------------------------------------------------------
(* The connections. *)

\* A step that opens no connection: it closes or leaves each one.
LEMMA SameOwned ==
  ASSUME OwnedInv,
         \A f \in Fd : fd'[f] \in {"conn", "dead"} =>
           fd[f] \in {"conn", "dead"} /\ (Owned(f) => Owned(f)')
  PROVE  OwnedInv'
BY DEF OwnedInv

LEMMA CloseFdKeeps ==
  ASSUME TypeOK, NEW g \in Fd \cup {None}, CloseFd(g)
  PROVE  \A f \in Fd : fd'[f] \in {"conn", "dead"} => f # g /\ fd[f] \in {"conn", "dead"}
<1>1. fd \in [Fd -> {"free", "conn", "dead", "other"}]
  BY DEF TypeOK
<1> QED
  BY <1>1, NoneAssumption DEF CloseFd, fdVars

LEMMA NextOwned ==
  ASSUME TypeOK, MainInv, LocalInv, SlotInv, Next, ~missed'
  PROVE  OwnedInv'
<1> USE DEF srvVars, mainVars, listenerVars, clientVars, fdVars
<1>0. /\ OwnedInv /\ SockInv /\ CountInv /\ client_count \in {0, 1}
      /\ cpc \in [Client -> {"none", "begin", "loop", "recv", "release", "close", "ended"}]
      /\ sock \in [Client -> Fd \cup {None}]
      /\ fd \in [Fd -> {"free", "conn", "dead", "other"}]
      /\ \A f \in Fd : f # None
  BY NoneAssumption DEF SlotInv, TypeOK
<1>1. CASE MainStep
  <2>1. CASE Start
    <3>1. /\ fd' = fd /\ sock' = sock /\ client_sock' = client_sock /\ m' = m
          /\ lpc' = "accept" /\ lpc = "ended" /\ cs' = cs
      BY <2>1 DEF Start, MainInv
    <3> QED
      BY <1>0, <3>1, SameOwned DEF Owned
  <2>2. CASE StopBegin
    <3>1. /\ fd' = fd /\ sock' = sock /\ cs' = client_sock /\ m = "idle" /\ m' = "shut listen"
          /\ lpc' = lpc /\ conn' = conn
      BY <2>2 DEF StopBegin
    <3> QED
      BY <1>0, <3>1, SameOwned DEF Owned
  <2>3. CASE StopListen
    <3>1. /\ fd' = fd /\ sock' = sock /\ cs' = cs /\ m' = "shut client"
          /\ lpc' = lpc /\ conn' = conn /\ client_sock' = client_sock
      BY <2>3 DEF StopListen
    <3> QED
      BY <1>0, <3>1, SameOwned DEF Owned
  <2>4. CASE StopClient
    <3>1. /\ sock' = sock /\ lpc' = lpc /\ conn' = conn /\ client_sock' = client_sock
      BY <2>4 DEF StopClient
    <3>2. \A f \in Fd : fd'[f] \in {"conn", "dead"} => f # cs /\ fd[f] \in {"conn", "dead"}
      BY <2>4, CloseFdKeeps DEF StopClient, TypeOK
    <3> QED
      BY <1>0, <3>1, <3>2, SameOwned DEF Owned
  <2>5. CASE JoinListener \/ Destroy
    <3>1. /\ fd' = fd /\ sock' = sock /\ lpc' = lpc /\ conn' = conn
          /\ client_sock' = client_sock /\ m \notin {"shut listen", "shut client"}
      BY <2>5 DEF JoinListener, Destroy
    <3> QED
      BY <1>0, <3>1, SameOwned DEF Owned
  <2>6. CASE StopEnd
    <3>1. /\ fd' = fd /\ sock' = sock /\ lpc' = lpc /\ conn' = conn
          /\ client_sock' = client_sock /\ m \notin {"shut listen", "shut client"}
      BY <2>6 DEF StopEnd
    <3> QED
      BY <1>0, <3>1, SameOwned DEF Owned
  <2> QED
    BY <1>1, <2>1, <2>2, <2>3, <2>4, <2>5, <2>6 DEF MainStep, Stopping
<1>2. CASE ListenerStep
  <2>0. m' = m /\ cs' = cs /\ sock' = sock
    BY <1>2, ListenerFrame
  <2>1. CASE \E f \in Fd : Accept(f)
    <3>1. PICK f \in Fd : Accept(f)
      BY <2>1
    <3>2. /\ lpc = "accept" /\ lpc' = "accepted" /\ conn' = f /\ client_sock' = client_sock
          /\ \A g \in Fd : g # f => fd'[g] = fd[g]
      BY <1>0, <3>1 DEF Accept
    <3>3. \A g \in Fd : g # f /\ Owned(g) => Owned(g)'
      BY <2>0, <3>2 DEF Owned
    <3>4. Owned(f)'
      BY <3>2 DEF Owned
    <3> QED
      BY <1>0, <3>2, <3>3, <3>4 DEF OwnedInv
  <2>2. CASE AcceptFails
    <3>1. lpc = "accept" /\ fd' = fd /\ client_sock' = client_sock
      BY <2>2 DEF AcceptFails
    <3> QED
      BY <1>0, <2>0, <3>1, SameOwned DEF Owned
  <2>3. CASE Reject
    <3>1. client_sock' = client_sock
      BY <2>3 DEF Reject
    <3>2. \A f \in Fd : fd'[f] \in {"conn", "dead"} => f # conn /\ fd[f] \in {"conn", "dead"}
      BY <2>3, CloseFdKeeps DEF Reject, TypeOK
    <3> QED
      BY <1>0, <2>0, <3>1, <3>2, SameOwned DEF Owned
  <2>4. CASE Admit \/ Reclaim \/ JoinZombie
    <3>1. /\ fd' = fd /\ client_sock' = client_sock /\ conn' = conn
          /\ lpc' \in {"reclaim", "join", "take slot"}
      BY <2>4 DEF Admit, Reclaim, JoinZombie
    <3> QED
      BY <1>0, <2>0, <3>1, SameOwned DEF Owned
  <2>5. CASE TakeSlot
    <3>1. lpc = "take slot" /\ fd' = fd /\ client_sock' = conn
      BY <2>5 DEF TakeSlot
    <3>2. client_sock = None
      BY <1>0, <3>1 DEF CountInv, SockInv
    <3> QED
      BY <1>0, <2>0, <3>1, <3>2, SameOwned DEF Owned
  <2>6. CASE SaveThread \/ \E t \in Client : Spawn(t)
    <3>1. lpc \in {"save", "spawn"} /\ fd' = fd /\ client_sock' = client_sock
      BY <2>6 DEF SaveThread, Spawn
    <3> QED
      BY <1>0, <2>0, <3>1, SameOwned DEF Owned
  <2> QED
    BY <1>2, <2>1, <2>2, <2>3, <2>4, <2>5, <2>6 DEF ListenerStep, Admitting
<1>3. CASE \E t \in Client : ClientStep(t)
  <2>1. PICK t \in Client : ClientStep(t)
    BY <1>3
  <2>2. m' = m /\ cs' = cs /\ lpc' = lpc /\ conn' = conn
    BY <2>1, ClientFrame
  <2>3. CASE Begin(t)
    <3>1. fd' = fd /\ client_sock' = client_sock /\ sock[t] = None
      BY <2>3 DEF Begin, LocalInv
    <3>2. \A u \in Client : u # t => sock'[u] = sock[u]
      BY <1>0, <2>3 DEF Begin
    <3> QED
      BY <1>0, <2>2, <3>1, <3>2, SameOwned DEF Owned
  <2>4. CASE CheckStop(t) \/ Serve(t) \/ Leave(t)
    <3>1. fd' = fd /\ client_sock' = client_sock /\ sock' = sock
      BY <2>4 DEF CheckStop, Serve, Leave
    <3> QED
      BY <1>0, <2>2, <3>1, SameOwned DEF Owned
  <2>5. CASE Release(t)
    <3>1. fd' = fd /\ sock' = sock
      BY <2>5 DEF Release
    <3>2. client_sock # None => sock[t] = client_sock
      BY <1>0, <2>5 DEF Release, SockInv, Active
    <3> QED
      BY <1>0, <2>2, <3>1, <3>2, SameOwned DEF Owned
  <2>6. CASE Close(t)
    <3>1. client_sock' = client_sock
      BY <2>6 DEF Close
    <3>2. \A u \in Client : u # t => sock'[u] = sock[u]
      BY <1>0, <2>6 DEF Close
    <3>3. \A f \in Fd : fd'[f] \in {"conn", "dead"} => f # sock[t] /\ fd[f] \in {"conn", "dead"}
      <4>1. sock[t] \in Fd \cup {None} /\ CloseFd(sock[t])
        BY <1>0, <2>6 DEF Close
      <4> QED
        BY <4>1, CloseFdKeeps
    <3> QED
      BY <1>0, <2>2, <3>1, <3>2, <3>3, SameOwned DEF Owned
  <2> QED
    BY <2>1, <2>3, <2>4, <2>5, <2>6 DEF ClientStep, Serving
<1>4. CASE WorldStep
  <2>1. /\ client_sock' = client_sock /\ m' = m /\ cs' = cs /\ sock' = sock
        /\ lpc' = lpc /\ conn' = conn
    BY <1>4, WorldFrame
  <2>2. \A f \in Fd : fd'[f] \in {"conn", "dead"} => fd[f] \in {"conn", "dead"}
    BY <1>0, <1>4 DEF WorldStep, PeerCloses, OpenOther, CloseOther
  <2> QED
    BY <1>0, <2>1, <2>2, SameOwned DEF Owned
<1> QED
  BY <1>1, <1>2, <1>3, <1>4, NextSplit

-----------------------------------------------------------------------------
(* The theorems. *)

\* A stop that missed a thread is remembered.
LEMMA MissedStays ==
  ASSUME TypeOK, Next, ~missed'
  PROVE  ~missed
<1> USE DEF srvVars, mainVars, listenerVars, clientVars
<1>1. CASE MainStep
  <2>1. CASE StopEnd
    BY <2>1, Zenon DEF StopEnd
  <2>2. CASE Start \/ StopBegin \/ StopListen \/ StopClient \/ JoinListener \/ Destroy
    <3>1. missed' = missed
      BY <2>2 DEF Start, StopBegin, StopListen, StopClient, JoinListener, Destroy
    <3> QED
      BY <3>1
  <2> QED
    BY <1>1, <2>1, <2>2 DEF MainStep, Stopping
<1>2. CASE ListenerStep
  BY <1>2, ListenerFrame
<1>3. CASE \E t \in Client : ClientStep(t)
  BY <1>3, ClientFrame
<1>4. CASE WorldStep
  BY <1>4, WorldFrame
<1> QED
  BY <1>1, <1>2, <1>3, <1>4, NextSplit

\* Every step of the main thread, the listener, a client thread, a peer or the
\* rest of the program preserves the invariant.
THEOREM NextIInv ==
  ASSUME IInv, [Next]_vars
  PROVE  IInv'
<1>1. CASE Next
  <2>1. TypeOK' /\ MainInv' /\ LocalInv'
    BY <1>1, NextType, NextMain, NextLocal DEF IInv
  <2>2. ASSUME ~missed' PROVE SlotInv'
    <3>1. SlotInv
      BY <1>1, <2>2, MissedStays DEF IInv
    <3> QED
      BY <1>1, <2>2, <3>1, NextCount, NextSock, NextQuiet, NextKnown, NextOwned DEF IInv, SlotInv
  <2> QED
    BY <2>1, <2>2 DEF IInv
<1>2. CASE UNCHANGED vars
  <2>1. /\ is_running' = is_running /\ stop_requested' = stop_requested
        /\ client_sock' = client_sock /\ client_count' = client_count
        /\ client_thread' = client_thread /\ listening' = listening
        /\ m' = m /\ cs' = cs /\ client' = client
        /\ lpc' = lpc /\ conn' = conn /\ thread' = thread
        /\ cpc' = cpc /\ sock' = sock /\ stray' = stray /\ missed' = missed /\ fd' = fd
    BY <1>2 DEF vars, srvVars, mainVars, listenerVars, clientVars, fdVars
  <2>2. TypeOK' /\ MainInv' /\ LocalInv'
    <3>1. TypeOK'
      <4>1. {is_running, stop_requested, listening, missed, stray}' \subseteq BOOLEAN
        BY <2>1 DEF IInv, TypeOK
      <4>2. /\ client_sock' \in Fd \cup {None} /\ cs' \in Fd \cup {None}
            /\ conn' \in Fd \cup {None} /\ client_count' \in {0, 1}
            /\ client_thread' \in Client \cup {None} /\ client' \in Client \cup {None}
            /\ thread' \in Client \cup {None}
        BY <2>1 DEF IInv, TypeOK
      <4> QED
        BY <2>1, <4>1, <4>2 DEF IInv, TypeOK
    <3>2. MainInv'
      <4>1. MainInv /\ is_running \in BOOLEAN
        BY DEF IInv, TypeOK
      <4> QED
        BY <2>1, <4>1 DEF MainInv
    <3>3. LocalInv'
      BY <2>1 DEF IInv, LocalInv
    <3> QED
      BY <3>1, <3>2, <3>3
  <2>3. SlotInv => CountInv' /\ SockInv' /\ QuietInv'
    BY <2>1 DEF SlotInv, CountInv, SockInv, QuietInv, Active
  <2>4. SlotInv => KnownInv' /\ OwnedInv'
    BY <2>1 DEF SlotInv, KnownInv, OwnedInv, Owned
  <2> QED
    BY <2>1, <2>2, <2>3, <2>4 DEF IInv, SlotInv
<1> QED
  BY <1>1, <1>2

THEOREM Inductive == Spec => []IInv
<1>1. Init => IInv
  BY InitIInv
<1>2. IInv /\ [Next]_vars => IInv'
  BY NextIInv
<1> QED
  BY <1>1, <1>2, PTL DEF Spec

\* The variables keep their types.
THEOREM TypeCorrect == Spec => []TypeOK
<1>1. IInv => TypeOK
  BY DEF IInv
<1> QED
  BY <1>1, Inductive, PTL

\* The slot is never shared nor taken for nothing, and the listener never waits
\* for a client that is being served, however many threads the server had.
THEOREM SlotIsTrue == Spec => []OneClient
<1>1. IInv => OneClient
  <2> SUFFICES ASSUME IInv, ~missed, is_running PROVE OneClient
    BY DEF OneClient
  <2>1. CountInv /\ SockInv /\ LocalInv /\ client_count \in {0, 1}
        /\ thread \in Client \cup {None}
    BY DEF IInv, SlotInv, TypeOK
  <2>2. \A t, u \in Client : Active(t) /\ Active(u) => t = u
    BY <2>1 DEF CountInv
  <2>3. \A t \in Client : Active(t) /\ cpc[t] # "begin" => sock[t] = client_sock
    BY <2>1 DEF CountInv, SockInv
  <2>4. lpc = "join" => ~Active(thread)
    <3>1. lpc = "join" => thread \in Client /\ client_count = 0
      BY <2>1 DEF CountInv, LocalInv
    <3> QED
      BY <2>1, <3>1 DEF CountInv
  <2>5. client_count = 1 =>
          client_sock # None /\ (lpc = "spawn" \/ \E t \in Client : Active(t))
    BY <2>1 DEF CountInv, SockInv
  <2> QED
    BY <2>2, <2>3, <2>4, <2>5 DEF OneClient
<1> QED
  BY <1>1, Inductive, PTL

\* A server that was stopped and missed nobody has left no connection open.
THEOREM NothingIsLeftOpen == Spec => []SocketsClosed
<1>1. IInv => SocketsClosed
  <2> SUFFICES ASSUME IInv, ~missed, m = "idle", ~is_running, lpc = "ended"
               PROVE  \A f \in Fd : fd[f] \in {"free", "other"}
    BY DEF SocketsClosed
  <2>1. /\ QuietInv /\ SockInv /\ OwnedInv /\ LocalInv
        /\ fd \in [Fd -> {"free", "conn", "dead", "other"}]
    BY DEF IInv, SlotInv, TypeOK
  <2>2. client_sock = None /\ \A t \in Client : sock[t] = None
    BY <2>1 DEF QuietInv, SockInv, LocalInv
  <2>3. \A f \in Fd : ~Owned(f)
    BY <2>2, NoneAssumption DEF Owned
  <2> QED
    BY <2>1, <2>3 DEF OwnedInv
<1> QED
  BY <1>1, Inductive, PTL

\* No handle of a thread is lost but by a stop that missed it.
THEOREM NoThreadIsLost == Spec => []ThreadsKnown
<1>1. IInv => ThreadsKnown
  BY DEF IInv, SlotInv, KnownInv, ThreadsKnown
<1> QED
  BY <1>1, Inductive, PTL
=============================================================================
