----------------------------- MODULE TcpServer -----------------------------
(***************************************************************************)
(* The TCP listener of the MCP server (src/src/emulator/mcp/tcp_server.c): *)
(* one slot for one client.  The main thread starts and stops the server,  *)
(* the listener thread accepts, refuses and reclaims, and each client has  *)
(* a thread that gives the slot back before it closes its socket.          *)
(*                                                                         *)
(* Descriptors are numbers that the process reuses: after a close another  *)
(* part of the program may get the same one.  g_thread_new() never returns *)
(* NULL (it aborts), so the code's rollback of a failed spawn has no       *)
(* action; a start that fails to bind changes nothing.                     *)
(***************************************************************************)
EXTENDS Naturals, FiniteSets

CONSTANTS
  Fd,      \* descriptors
  Reused,  \* descriptors that other parts of the program may get
  Client,  \* client threads
  None     \* INVALID_SOCKET and NULL

ASSUME NoneAssumption == None \notin Fd \cup Client
ASSUME ReusedAssumption == Reused \subseteq Fd

VARIABLES
  is_running, stop_requested, client_sock, client_count, client_thread,
  listening,          \* the listening socket is open
  m, cs, client,      \* main thread: where it stands, locals of stop
  lpc, conn, thread,  \* listener: where it stands, conn, zombie or new thread
  cpc, sock,          \* per client thread: where it stands, its sock
  fd,                 \* what a descriptor is: free, conn, dead or other
  missed,             \* history: a stop returned while a client thread ran
  stray               \* history: a descriptor of somebody else was closed

srvVars      == <<is_running, stop_requested, client_sock, client_count, client_thread>>
mainVars     == <<m, cs, client>>
listenerVars == <<lpc, conn, thread>>
clientVars   == <<cpc, sock>>
fdVars       == <<fd, stray>>
vars == <<srvVars, listening, mainVars, listenerVars, clientVars, fdVars, missed>>

\* A local that is out of scope is None.  closesocket() of whatever the number stands for now.
CloseFd(f) ==
  IF f = None THEN UNCHANGED fdVars
  ELSE /\ fd' = [fd EXCEPT ![f] = "free"]
       /\ stray' = (stray \/ fd[f] = "other")

-----------------------------------------------------------------------------
(* Main thread: mcp_tcp_server_start(), _stop(), _destroy(). *)

\* Nobody reads listener_thread before stop does, and both run here.
Start ==
  /\ m = "idle" /\ ~is_running
  /\ is_running' = TRUE /\ stop_requested' = FALSE
  /\ listening' = TRUE /\ lpc' = "accept"
  /\ UNCHANGED <<client_sock, client_count, client_thread, mainVars, conn, thread,
                 clientVars, fdVars, missed>>

\* The critical section of stop.
StopBegin ==
  /\ m = "idle" /\ is_running
  /\ is_running' = FALSE /\ stop_requested' = TRUE
  /\ cs' = client_sock /\ client' = client_thread
  /\ client_sock' = None /\ client_thread' = None
  /\ m' = "shut listen"
  /\ UNCHANGED <<client_count, listening, listenerVars, clientVars, fdVars, missed>>

StopListen ==
  /\ m = "shut listen"
  /\ listening' = FALSE
  /\ m' = "shut client"
  /\ UNCHANGED <<srvVars, cs, client, listenerVars, clientVars, fdVars, missed>>

NoShutdown ==                                      \* mutant of StopClient
  /\ m = "shut client"
  /\ m' = "join listener"
  /\ UNCHANGED <<srvVars, listening, cs, client, listenerVars, clientVars, fdVars, missed>>
StopClient ==
  /\ m = "shut client"
  /\ CloseFd(cs)
  /\ m' = "join listener"
  /\ UNCHANGED <<srvVars, listening, cs, client, listenerVars, clientVars, missed>>

JoinListener ==
  /\ m = "join listener"
  /\ lpc = "ended"
  /\ m' = "join client"
  /\ UNCHANGED <<srvVars, listening, cs, client, listenerVars, clientVars, fdVars, missed>>

\* Join the client and return.
StopEnd ==
  /\ m = "join client"
  /\ client # None => cpc[client] = "ended"
  /\ cpc' = IF client = None THEN cpc ELSE [cpc EXCEPT ![client] = "none"]
  /\ client_count' = 0
  /\ missed' = (missed \/ \E t \in Client : cpc'[t] # "none")
  /\ m' = "idle" /\ cs' = None /\ client' = None
  /\ UNCHANGED <<is_running, stop_requested, client_sock, client_thread, listening,
                 listenerVars, sock, fdVars>>

Destroy ==
  /\ m = "idle" /\ ~is_running
  /\ m' = "freed"
  /\ UNCHANGED <<srvVars, listening, cs, client, listenerVars, clientVars, fdVars, missed>>

-----------------------------------------------------------------------------
(* Listener thread: _listener_thread_func(), _accept_client(), _reject_client(). *)

\* accept() took listen_sock when it was called: it may return a connection
\* until stop closes the socket.
Accept(f) ==
  /\ lpc = "accept" /\ listening
  /\ fd[f] = "free"
  /\ fd' = [fd EXCEPT ![f] = "conn"]
  /\ conn' = f
  /\ lpc' = "accepted"
  /\ UNCHANGED <<srvVars, listening, mainVars, thread, clientVars, stray, missed>>

\* accept() fails: the socket was closed, listen_sock is invalid already, or it
\* fails by itself, which ends the listener of a server that goes on running.
AcceptFails ==
  /\ lpc = "accept"
  /\ lpc' = "ended"
  /\ UNCHANGED <<srvVars, listening, mainVars, conn, thread, clientVars, fdVars, missed>>

FullAtTwo == client_count > 1                      \* mutant of Full
Full == client_count >= 1

Reject ==
  /\ lpc = "accepted"
  /\ Full
  /\ CloseFd(conn)
  /\ lpc' = "accept" /\ conn' = None
  /\ UNCHANGED <<srvVars, listening, mainVars, thread, clientVars, missed>>

\* The previous client gave its slot back: its thread is to be joined.
Admit ==
  /\ lpc = "accepted"
  /\ ~Full
  /\ lpc' = "reclaim"
  /\ UNCHANGED <<srvVars, listening, mainVars, conn, thread, clientVars, fdVars, missed>>

Reclaim ==
  LET zombie == client_thread # None /\ client_sock = None IN
  /\ lpc = "reclaim"
  /\ thread' = IF zombie THEN client_thread ELSE None
  /\ client_thread' = IF zombie THEN None ELSE client_thread
  /\ lpc' = IF zombie THEN "join" ELSE "take slot"
  /\ UNCHANGED <<is_running, stop_requested, client_sock, client_count, listening,
                 mainVars, conn, clientVars, fdVars, missed>>

JoinZombie ==
  /\ lpc = "join"
  /\ cpc[thread] = "ended"
  /\ cpc' = [cpc EXCEPT ![thread] = "none"]
  /\ lpc' = "take slot" /\ thread' = None
  /\ UNCHANGED <<srvVars, listening, mainVars, conn, sock, fdVars, missed>>

TakeSlot ==
  /\ lpc = "take slot"
  /\ client_sock' = conn /\ client_count' = 1
  /\ lpc' = "spawn"
  /\ UNCHANGED <<is_running, stop_requested, client_thread, listening, mainVars, conn,
                 thread, clientVars, fdVars, missed>>

Spawn(t) ==
  /\ lpc = "spawn"
  /\ cpc[t] = "none"
  /\ cpc' = [cpc EXCEPT ![t] = "begin"]
  /\ thread' = t
  /\ lpc' = "save"
  /\ UNCHANGED <<srvVars, listening, mainVars, conn, sock, fdVars, missed>>

SaveThread ==
  /\ lpc = "save"
  /\ client_thread' = thread
  /\ lpc' = "accept" /\ conn' = None /\ thread' = None
  /\ UNCHANGED <<is_running, stop_requested, client_sock, client_count, listening,
                 mainVars, clientVars, fdVars, missed>>

-----------------------------------------------------------------------------
(* Client thread: _client_thread_func(). *)

Goto(t, p) == cpc' = [cpc EXCEPT ![t] = p]

\* Reads the socket without the lock, greets the peer.
Begin(t) ==
  /\ cpc[t] = "begin"
  /\ sock' = [sock EXCEPT ![t] = client_sock]
  /\ Goto(t, "loop")
  /\ UNCHANGED <<srvVars, listening, mainVars, listenerVars, fdVars, missed>>

CheckStop(t) ==
  /\ cpc[t] = "loop"
  /\ Goto(t, IF stop_requested THEN "release" ELSE "recv")
  /\ UNCHANGED <<srvVars, listening, mainVars, listenerVars, sock, fdVars, missed>>

\* A line was received, dispatched and answered.
ReleaseAfterAnswer(t) ==                           \* mutant of Serve
  /\ cpc[t] = "recv"
  /\ sock[t] # None /\ fd[sock[t]] = "conn"
  /\ client_sock' = None /\ client_count' = 0
  /\ Goto(t, "loop")
  /\ UNCHANGED <<is_running, stop_requested, client_thread, listening, mainVars,
                 listenerVars, sock, fdVars, missed>>
Serve(t) ==
  /\ cpc[t] = "recv"
  /\ sock[t] # None /\ fd[sock[t]] = "conn"
  /\ Goto(t, "loop")
  /\ UNCHANGED <<srvVars, listening, mainVars, listenerVars, sock, fdVars, missed>>

\* End of file, an error, an overlong line or an answer that could not be sent.
Hangup(t) == sock[t] # None => fd[sock[t]] # "conn"

Leave(t) ==
  /\ cpc[t] = "recv"
  /\ Goto(t, "release")
  /\ UNCHANGED <<srvVars, listening, mainVars, listenerVars, sock, fdVars, missed>>

KeepCount == client_count                          \* mutant of Vacant
DecrementCount == client_count - 1                 \* mutant of Vacant
Vacant == 0

Release(t) ==
  /\ cpc[t] = "release"
  /\ client_sock' = None /\ client_count' = Vacant
  /\ Goto(t, "close")
  /\ UNCHANGED <<is_running, stop_requested, client_thread, listening, mainVars,
                 listenerVars, sock, fdVars, missed>>

NoClose(t) ==                                      \* mutant of Close
  /\ cpc[t] = "close"
  /\ Goto(t, "ended") /\ sock' = [sock EXCEPT ![t] = None]
  /\ UNCHANGED <<srvVars, listening, mainVars, listenerVars, fdVars, missed>>
Close(t) ==
  /\ cpc[t] = "close"
  /\ CloseFd(sock[t])
  /\ Goto(t, "ended") /\ sock' = [sock EXCEPT ![t] = None]
  /\ UNCHANGED <<srvVars, listening, mainVars, listenerVars, missed>>

-----------------------------------------------------------------------------
(* Peers, and the rest of the program. *)

PeerCloses(f) ==
  /\ fd[f] = "conn"
  /\ fd' = [fd EXCEPT ![f] = "dead"]
  /\ UNCHANGED <<srvVars, listening, mainVars, listenerVars, clientVars, stray, missed>>

\* Another thread opens or closes a file.
OpenOther(f) ==
  /\ fd[f] = "free"
  /\ fd' = [fd EXCEPT ![f] = "other"]
  /\ UNCHANGED <<srvVars, listening, mainVars, listenerVars, clientVars, stray, missed>>
CloseOther(f) ==
  /\ fd[f] = "other"
  /\ fd' = [fd EXCEPT ![f] = "free"]
  /\ UNCHANGED <<srvVars, listening, mainVars, listenerVars, clientVars, stray, missed>>

-----------------------------------------------------------------------------
Init ==
  /\ is_running = FALSE /\ stop_requested = FALSE
  /\ client_sock = None /\ client_count = 0 /\ client_thread = None
  /\ listening = FALSE
  /\ m = "idle" /\ cs = None /\ client = None
  /\ lpc = "ended" /\ conn = None /\ thread = None
  /\ cpc = [t \in Client |-> "none"]
  /\ sock = [t \in Client |-> None]
  /\ fd = [f \in Fd |-> "free"]
  /\ missed = FALSE /\ stray = FALSE

Stopping == StopListen \/ StopClient \/ JoinListener \/ StopEnd
Admitting == \/ Reject \/ Admit \/ Reclaim \/ JoinZombie \/ TakeSlot \/ SaveThread
             \/ \E t \in Client : Spawn(t)
Serving(t) == Begin(t) \/ CheckStop(t) \/ Release(t) \/ Close(t)

Next == \/ Start \/ StopBegin \/ Stopping \/ Destroy
        \/ \E f \in Fd : Accept(f)
        \/ AcceptFails \/ Admitting
        \/ \E t \in Client : Serving(t) \/ Serve(t) \/ Leave(t)
        \/ \E f \in Fd : PeerCloses(f)
        \/ \E f \in Reused : OpenOther(f) \/ CloseOther(f)

Spec == Init /\ [][Next]_vars

\* Threads run.  accept() returns once the server was stopped, recv() when the
\* connection is closed or shut down; a request is answered in bounded time
\* (DispatchRunner).  Nothing makes users connect, hang up, start or stop.
FairSpec ==
  /\ Spec
  /\ WF_vars(Stopping) /\ WF_vars(AcceptFails /\ ~is_running) /\ WF_vars(Admitting)
  /\ \A t \in Client : /\ WF_vars(Serving(t))
                       /\ WF_vars(Leave(t) /\ Hangup(t))

-----------------------------------------------------------------------------
(* Properties *)

\* The variables have their types.
TypeOK ==
  /\ {is_running, stop_requested, listening, missed, stray} \subseteq BOOLEAN
  /\ client_sock \in Fd \cup {None} /\ cs \in Fd \cup {None} /\ conn \in Fd \cup {None}
  /\ client_count \in {0, 1}
  /\ client_thread \in Client \cup {None} /\ client \in Client \cup {None}
  /\ thread \in Client \cup {None}
  /\ m \in {"idle", "shut listen", "shut client", "join listener", "join client", "freed"}
  /\ lpc \in {"accept", "accepted", "reclaim", "join", "take slot", "spawn", "save", "ended"}
  /\ cpc \in [Client -> {"none", "begin", "loop", "recv", "release", "close", "ended"}]
  /\ sock \in [Client -> Fd \cup {None}]
  /\ fd \in [Fd -> {"free", "conn", "dead", "other"}]

Active(t) == cpc[t] \in {"begin", "loop", "recv", "release"}

\* One client at a time, and none refused but because of another: while the
\* server runs, whoever is served holds the slot and its socket, the listener
\* joins only a thread that has given the slot back, so that it is not held up
\* by a client (comment of _client_thread_func), and the slot is taken only
\* when somebody is served or about to be, whose socket is known to stop.
OneClient ==
  ~missed /\ is_running =>
    /\ \A t, u \in Client : Active(t) /\ Active(u) => t = u
    /\ \A t \in Client : Active(t) /\ cpc[t] # "begin" => sock[t] = client_sock
    /\ lpc = "join" => ~Active(thread)
    /\ client_count = 1 =>
         client_sock # None /\ (lpc = "spawn" \/ \E t \in Client : Active(t))

\* No connection outlives the threads that could close it.
SocketsClosed ==
  ~missed /\ m = "idle" /\ ~is_running /\ lpc = "ended" =>
    \A f \in Fd : fd[f] \in {"free", "other"}

\* What stop promises (tcp_server.h): both threads are joined, none is left
\* that could use the server after it was freed.
StopJoinsBoth ==
  m \in {"idle", "freed"} /\ ~is_running =>
    /\ client_thread = None
    /\ \A t \in Client : cpc[t] = "none"

\* A thread closes its own socket only (comment on the teardown in
\* _client_thread_func: it works on the local sock and may follow the release).
ClosesOwn == ~stray

\* Stop returns, even if no peer ever hangs up.
StopReturns == (m = "shut listen" /\ ~missed) ~> m = "idle"

\* A connection that was accepted gets the slot or is refused: the listener is
\* held up by no client, unless a stop missed its thread.
Admitted == lpc = "accepted" ~> lpc \in {"accept", "ended"} \/ missed
=============================================================================
