------------------------------ MODULE EventBus ------------------------------
(***************************************************************************)
(* The event bus of the MCP server (src/src/emulator/mcp/event_bus.c): the *)
(* emulation thread emits events, a client subscribes to topics and polls  *)
(* (the event_* handlers of mcp/dispatch.c).                               *)
(*                                                                         *)
(* Every transport uses connection 0, so there is one subscriber, shared   *)
(* by the clients that follow one another; one client is connected at a    *)
(* time (module TcpServer) and sends one request at a time.                *)
(* event_bus_detach() has no caller and event_bus_shutdown() runs when     *)
(* both threads have ended: neither is an action here.                     *)
(*                                                                         *)
(* Each section under the subscriber's lock is one action.  An emit looks  *)
(* at the topics and pushes in two of them, but it holds the bus lock over *)
(* both, without which nobody reaches the topics: it is one action, too.   *)
(***************************************************************************)
EXTENDS Integers, SequencesExt

CONSTANTS
  Topic,        \* topics of events
  QueueSize,    \* EVENT_BUS_MAX_QUEUE_SIZE
  MaxPoll,      \* bound: max_events of a poll
  MaxEvents,    \* bound: events pushed
  MaxSessions   \* bound: clients that connect

ASSUME EBAssumption ==
  /\ QueueSize \in Nat \ {0} /\ MaxPoll \in Nat \ {0}
  /\ MaxEvents \in Nat /\ MaxSessions \in Nat

VARIABLES
  attached,   \* connection 0 has a subscriber
  topics,     \* its topics_set
  queue,      \* its queue: the events, by number
  dropped,    \* its dropped_count
  poll,       \* where the client's poll stands
  limit,      \* its max_events
  woken,      \* its wait was signalled
  reply,      \* its answer: events, pending, dropped
  session,    \* number of the client, 0 before the first
  online,     \* the client is connected
  pushed,     \* history: events pushed
  popped,     \* history: events taken out by polls
  subscribed  \* history: this client has subscribed to a topic

subscriberVars == <<attached, topics, queue, dropped, pushed>>
answerVars     == <<poll, limit, woken, reply, popped>>
sessionVars    == <<session, online, subscribed>>
busVars == <<subscriberVars, answerVars, sessionVars>>

NoReply == [events |-> <<>>, pending |-> 0, dropped |-> 0]

-----------------------------------------------------------------------------
(* event_bus_emit(), on the emulation thread. *)

\* The number of events a full queue loses to take one more.
Surplus == IF Len(queue) >= QueueSize THEN Len(queue) - QueueSize + 1 ELSE 0

\* mutant of CountDropped: counts where it warns
CountFirst == IF dropped = 0 THEN dropped + Surplus ELSE dropped
CountDropped == dropped + Surplus

Remaining == SubSeq(queue, Surplus + 1, Len(queue))

NoSignal == woken                                  \* mutant of Signal
Signal == woken \/ poll = "wait"

Emit(t) ==
  /\ pushed < MaxEvents
  /\ attached /\ t \in topics
  /\ queue' = Append(Remaining, pushed + 1)
  /\ dropped' = CountDropped
  /\ pushed' = pushed + 1
  /\ woken' = Signal
  /\ UNCHANGED <<attached, topics, poll, limit, reply, popped, sessionVars>>

-----------------------------------------------------------------------------
(* The client's requests. *)

Ready == online /\ poll = "idle"

Subscribe(T) ==
  /\ Ready /\ T # {}
  /\ attached' = TRUE
  /\ topics' = topics \cup T
  /\ subscribed' = TRUE
  /\ UNCHANGED <<queue, dropped, pushed, answerVars, session, online>>

\* No topics named: all of them.
Unsubscribe(T) ==
  /\ Ready /\ attached
  /\ topics' = IF T = {} THEN {} ELSE topics \ T
  /\ UNCHANGED <<attached, queue, dropped, pushed, answerVars, sessionVars>>

\* Takes up to max events, of which there may be none.
TakeEvents(max) ==
  LET k == IF Len(queue) < max THEN Len(queue) ELSE max
  IN /\ reply' = [NoReply EXCEPT !.events = SubSeq(queue, 1, k)]
     /\ queue' = SubSeq(queue, k + 1, Len(queue))
     /\ popped' = popped + k
     /\ poll' = "taken"
     /\ woken' = FALSE

\* event_poll with max_events = max: attaches the client; with an event in the
\* queue, or no time to wait, it takes what there is.
PollNow(max) ==
  /\ Ready
  /\ attached' = TRUE
  /\ TakeEvents(max)
  /\ limit' = max
  /\ UNCHANGED <<topics, dropped, pushed, sessionVars>>

\* With a time to wait and no event it waits.
PollWait(max) ==
  /\ Ready /\ queue = <<>>
  /\ attached' = TRUE
  /\ poll' = "wait" /\ limit' = max /\ woken' = FALSE
  /\ UNCHANGED <<topics, queue, dropped, pushed, reply, popped, sessionVars>>

\* The wait is over: the queue was signalled and is not empty.
PollWakes ==
  /\ poll = "wait" /\ woken
  /\ IF queue = <<>>
     THEN woken' = FALSE /\ UNCHANGED <<queue, poll, reply, popped>>
     ELSE TakeEvents(limit)
  /\ UNCHANGED <<attached, topics, dropped, pushed, limit, sessionVars>>

\* The time is over: an event that has come since is taken all the same.
PollTimesOut ==
  /\ poll = "wait"
  /\ TakeEvents(limit)
  /\ UNCHANGED <<attached, topics, dropped, pushed, limit, sessionVars>>

\* event_bus_get_pending_count(), event_bus_get_dropped_count(): two more
\* sections of the lock, between which events may come.
ReadPending ==
  /\ poll = "taken"
  /\ reply' = [reply EXCEPT !.pending = Len(queue)]
  /\ poll' = "counted"
  /\ UNCHANGED <<subscriberVars, limit, woken, popped, sessionVars>>

ReadDropped ==
  /\ poll = "counted"
  /\ reply' = [reply EXCEPT !.dropped = dropped]
  /\ poll' = "answer"
  /\ UNCHANGED <<subscriberVars, limit, woken, popped, sessionVars>>

\* The answer goes to the client, or nowhere if it has left.
Answer ==
  /\ poll = "answer"
  /\ poll' = "idle" /\ reply' = NoReply
  /\ UNCHANGED <<subscriberVars, limit, woken, popped, sessionVars>>

-----------------------------------------------------------------------------
(* Clients come and go; the subscriber stays. *)

Connect ==
  /\ ~online /\ poll = "idle" /\ session < MaxSessions
  /\ session' = session + 1 /\ online' = TRUE /\ subscribed' = FALSE
  /\ UNCHANGED <<subscriberVars, answerVars>>

Leave ==
  /\ online
  /\ online' = FALSE
  /\ UNCHANGED <<subscriberVars, answerVars, session, subscribed>>

BusNext ==
  \/ \E t \in Topic : Emit(t)
  \/ \E T \in SUBSET Topic : Subscribe(T) \/ Unsubscribe(T)
  \/ \E max \in 1..MaxPoll : PollNow(max) \/ PollWait(max)
  \/ PollWakes \/ PollTimesOut \/ ReadPending \/ ReadDropped \/ Answer
  \/ Connect \/ Leave

BusInit ==
  /\ attached = FALSE /\ topics = {} /\ queue = <<>> /\ dropped = 0
  /\ poll = "idle" /\ limit = 1 /\ woken = FALSE /\ reply = NoReply
  /\ session = 0 /\ online = FALSE
  /\ pushed = 0 /\ popped = 0 /\ subscribed = FALSE

BusSpec == BusInit /\ [][BusNext]_busVars

\* The worker that runs the poll goes on, from its wait when it was signalled.
\* That the time runs out, which may take a minute, is not counted on.
BusFairness == WF_busVars(PollWakes) /\ WF_busVars(ReadPending \/ ReadDropped \/ Answer)
FairBusSpec == BusSpec /\ BusFairness

-----------------------------------------------------------------------------
(* Properties. *)

\* The variables have their types, and the queue is no longer than its limit.
BusTypeOK ==
  /\ attached \in BOOLEAN /\ topics \subseteq Topic
  /\ queue \in Seq(1..MaxEvents) /\ Len(queue) <= QueueSize
  /\ dropped \in 0..MaxEvents /\ pushed \in 0..MaxEvents /\ popped \in 0..MaxEvents
  /\ poll \in {"idle", "wait", "taken", "counted", "answer"}
  /\ limit \in 1..MaxPoll /\ woken \in BOOLEAN
  /\ reply \in [events : Seq(1..MaxEvents), pending : 0..QueueSize, dropped : 0..MaxEvents]
  /\ session \in 0..MaxSessions /\ online \in BOOLEAN /\ subscribed \in BOOLEAN

\* The count in an answer covers every gap up to its last event, although it
\* is read after the events were taken: what the polls so far did not get of
\* the events before it was dropped and counted.
GapsExplained ==
  poll = "answer" /\ reply.events # <<>> =>
    Last(reply.events) <= popped + reply.dropped

\* No wake-up is lost: a poll that still waits when an event is queued goes on to
\* answer with events, even if its time never ran out (g_cond_wait_until() and
\* the signal of event_bus_emit(), with other sections of the lock between).
WakeUpKept == (poll = "wait" /\ queue # <<>>) ~> (reply.events # <<>>)

\* dispatch.c:7114 says of a poll without a subscribe before it that it returns
\* an empty array: a client that has not subscribed gets no events.
NothingUnsubscribed ==
  poll = "answer" /\ online /\ ~subscribed => reply.events = <<>>
=============================================================================
