----------------------------- MODULE CmdService -----------------------------
(***************************************************************************)
(* What the command queue of the debugger promises its clients, without    *)
(* ring, slots, mutexes or timeouts (dbgapi_cmdrq.h, "ZIVOTNI CYKLUS"):    *)
(* a command is withdrawn before it is served, or served exactly once, in  *)
(* the order of submission; only control commands may be served early,     *)
(* between two instructions or in the middle of a command that accesses    *)
(* the bus.                                                                *)
(***************************************************************************)
CONSTANTS Client, Command, Control, Bus, Nothing

VARIABLES
  older,    \* pairs of waiting clients, the first of which submitted first
  serving,  \* the client that is served in its turn, or Nothing
  early,    \* the client that is served before its turn, or Nothing
  phase,    \* idle, queued, served or answered
  cmd,      \* the command of a client, Nothing while it is idle
  answer,   \* TRUE once the handler of the client's command said yes
  ret       \* status of the last submit, none while it is served

vars == <<older, serving, early, phase, cmd, answer, ret>>

Waiting == {c \in Client : phase[c] = "queued"}

Move(c, from, to) == phase[c] = from /\ phase' = [phase EXCEPT ![c] = to]

Refuse(c) ==
  /\ phase[c] = "idle"
  /\ \E status \in {"QUEUE_FULL", "ENDING"} : ret' = [ret EXCEPT ![c] = status]
  /\ UNCHANGED <<older, serving, early, phase, cmd, answer>>

Submit(c, k) ==
  /\ Move(c, "idle", "queued")
  /\ older' = older \cup (Waiting \X {c})
  /\ cmd' = [cmd EXCEPT ![c] = k]
  /\ ret' = [ret EXCEPT ![c] = "none"]
  /\ UNCHANGED <<serving, early, answer>>

Leave(c, status) == /\ ret' = [ret EXCEPT ![c] = status]
                    /\ cmd' = [cmd EXCEPT ![c] = Nothing]
                    /\ answer' = [answer EXCEPT ![c] = FALSE]

\* The command of c no longer waits.
Unqueue(c) == older' = {p \in older : p[1] # c /\ p[2] # c}

Withdraw(c) ==
  /\ Move(c, "queued", "idle")
  /\ Unqueue(c)
  /\ Leave(c, "TIMEOUT")
  /\ UNCHANGED <<serving, early>>

Serve(c) ==
  /\ Move(c, "queued", "served")
  /\ Unqueue(c)
  /\ UNCHANGED <<cmd, answer, ret>>

ServeFirst ==
  /\ serving = Nothing /\ early = Nothing
  /\ \E c \in Waiting :
       /\ \A d \in Waiting : <<d, c>> \notin older
       /\ Serve(c)
       /\ serving' = c /\ UNCHANGED early

ServeEarly ==
  /\ early = Nothing
  /\ serving # Nothing => cmd[serving] \in Bus
  /\ \E c \in Waiting :
       /\ cmd[c] \in Control
       /\ \A d \in Waiting : <<d, c>> \in older => cmd[d] \notin Control
       /\ Serve(c)
       /\ early' = c /\ UNCHANGED serving

Answer(c) ==
  /\ Move(c, "served", "answered")
  /\ \E b \in BOOLEAN : answer' = [answer EXCEPT ![c] = b]
  /\ UNCHANGED <<older, cmd, ret>>

AnswerEarly ==
  /\ early # Nothing
  /\ Answer(early)
  /\ early' = Nothing /\ UNCHANGED serving

AnswerServed ==
  /\ early = Nothing /\ serving # Nothing
  /\ Answer(serving)
  /\ serving' = Nothing /\ UNCHANGED early

Return(c) ==
  /\ Move(c, "answered", "idle")
  /\ Leave(c, IF answer[c] THEN "OK" ELSE "FAILED")
  /\ UNCHANGED <<older, serving, early>>

Init ==
  /\ older = {} /\ serving = Nothing /\ early = Nothing
  /\ phase = [c \in Client |-> "idle"]
  /\ cmd = [c \in Client |-> Nothing]
  /\ answer = [c \in Client |-> FALSE]
  /\ ret = [c \in Client |-> "none"]

Next == \/ \E c \in Client : \/ Refuse(c) \/ Withdraw(c) \/ Return(c)
                             \/ \E k \in Command : Submit(c, k)
        \/ ServeFirst \/ ServeEarly \/ AnswerEarly \/ AnswerServed

Spec == Init /\ [][Next]_vars
=============================================================================
