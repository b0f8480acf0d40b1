--------------------------- MODULE HandOverProofs ---------------------------
(***************************************************************************)
(* Proofs of the safety properties of the two queues the emulation thread  *)
(* shares with one other thread: DeviceRequest, which hands it the GUI's   *)
(* requests, for any number of requests, clears and kept results, and      *)
(* EventBus, which hands its events to a client, for any topics, length of *)
(* the queue, events and clients.                                          *)
(***************************************************************************)
EXTENDS DeviceRequest, EventBus, SequenceTheorems, TLAPS

-----------------------------------------------------------------------------
(***************************************************************************)
(*                            DeviceRequest                                *)
(***************************************************************************)

(***************************************************************************)
(* The inductive invariant.  HolderInv: the state lock is held by the      *)
(* thread that stands where it needs it.  CountInv: in the loop of the     *)
(* poll the count may include the request that is carried out, or, when a  *)
(* clear came during one and requests behind it, miss one of those that    *)
(* wait; the two differences cancel before the loop is left.  CurrentInv:  *)
(* a request is carried out just where the thread has taken one.           *)
(***************************************************************************)
HolderInv ==
  /\ holder = "gui" <=> gui = "draw"
  /\ holder = "emu" <=> emu \in {"pop", "run", "tape"}

CountInv ==
  /\ count <= seq
  /\ emu = "pop" => count \in {Len(pending) - 1, Len(pending)}
  /\ emu = "run" => count \in {Len(pending), Len(pending) + 1}
  /\ CountTrue

CurrentInv == current \in Seq1 <=> emu = "run"

(***************************************************************************)
(* What became of a request is where it is: waiting requests stand in the  *)
(* queue, once and in the order in which they were submitted, and results  *)
(* of requests carried out in the other one.                               *)
(***************************************************************************)
Increasing(s) == \A i, j \in 1..Len(s) : i < j => s[i] < s[j]
Distinct(s) == \A i, j \in 1..Len(s) : s[i] = s[j] => i = j
Elements(s) == {s[i] : i \in 1..Len(s)}

Accounted ==
  /\ Increasing(pending) /\ Distinct(results)
  /\ \A r \in Seq1 :
       /\ outcome[r] = "unsent" <=> r > seq
       /\ outcome[r] = "waiting" <=> r \in Elements(pending)
       /\ outcome[r] = "running" <=> r = current
       /\ outcome[r] = "done" <=> r \in Elements(results)

IInv == TypeOK /\ HolderInv /\ CountInv /\ CurrentInv /\ Accounted
-----------------------------------------------------------------------------
(* Sequences of requests. *)

LEMMA EmptyFacts ==
  /\ <<>> \in Seq(Seq1) /\ Len(<<>>) = 0
  /\ Elements(<<>>) = {} /\ Increasing(<<>>) /\ Distinct(<<>>)
BY EmptySeq DEF Elements, Increasing, Distinct

LEMMA AppendFacts ==
  ASSUME NEW s \in Seq(Seq1), NEW e \in Seq1
  PROVE  /\ Append(s, e) \in Seq(Seq1)
         /\ Len(Append(s, e)) = Len(s) + 1
         /\ Elements(Append(s, e)) = Elements(s) \cup {e}
         /\ Increasing(s) /\ (\A x \in Elements(s) : x < e) => Increasing(Append(s, e))
         /\ Distinct(s) /\ e \notin Elements(s) => Distinct(Append(s, e))
<1> DEFINE t == Append(s, e)
<1>1. /\ t \in Seq(Seq1) /\ Len(t) = Len(s) + 1 /\ Len(s) \in Nat
      /\ \A i \in 1..Len(s) : t[i] = s[i]
      /\ t[Len(s) + 1] = e
  BY AppendProperties, LenProperties
<1>2. \A i \in 1..Len(t) : i \in 1..Len(s) \/ i = Len(s) + 1
  BY <1>1
<1>3. \A i \in 1..Len(s) : i \in 1..Len(t)
  BY <1>1
<1>4. Len(s) + 1 \in 1..Len(t)
  BY <1>1
<1> HIDE DEF t
<1>5. Elements(t) = Elements(s) \cup {e}
  BY <1>1, <1>2, <1>3, <1>4 DEF Elements
<1>6. ASSUME Increasing(s), \A x \in Elements(s) : x < e PROVE Increasing(t)
  <2> SUFFICES ASSUME NEW i \in 1..Len(t), NEW j \in 1..Len(t), i < j
               PROVE  t[i] < t[j]
    BY DEF Increasing
  <2>1. i \in 1..Len(s)
    BY <1>1
  <2>2. CASE j \in 1..Len(s)
    BY <1>1, <1>6, <2>1, <2>2 DEF Increasing
  <2>3. CASE j = Len(s) + 1
    BY <1>1, <1>6, <2>1, <2>3 DEF Elements
  <2> QED
    BY <1>2, <2>2, <2>3
<1>7. ASSUME Distinct(s), e \notin Elements(s) PROVE Distinct(t)
  <2> SUFFICES ASSUME NEW i \in 1..Len(t), NEW j \in 1..Len(t), t[i] = t[j]
               PROVE  i = j
    BY DEF Distinct
  <2> QED
    BY <1>1, <1>2, <1>7 DEF Distinct, Elements
<1> QED
  BY <1>1, <1>5, <1>6, <1>7 DEF t

LEMMA TailFacts ==
  ASSUME NEW s \in Seq(Seq1), s # <<>>
  PROVE  /\ Head(s) \in Seq1 /\ Tail(s) \in Seq(Seq1)
         /\ Len(Tail(s)) = Len(s) - 1 /\ Len(s) \in Nat \ {0}
         /\ Elements(s) = Elements(Tail(s)) \cup {Head(s)}
         /\ Increasing(s) => Increasing(Tail(s)) /\ Head(s) \notin Elements(Tail(s))
         /\ Distinct(s) => Distinct(Tail(s)) /\ Head(s) \notin Elements(Tail(s))
<1> DEFINE t == Tail(s)
<1>1. /\ Head(s) \in Seq1 /\ t \in Seq(Seq1)
      /\ Len(t) = Len(s) - 1 /\ Len(s) \in Nat \ {0}
      /\ \A i \in 1..Len(t) : t[i] = s[i + 1]
  BY HeadTailProperties, EmptySeq
<1>2. Head(s) = s[1]
  OBVIOUS
<1>3. \A i \in 1..Len(t) : i + 1 \in 1..Len(s) /\ i + 1 # 1
  BY <1>1
<1>4. \A i \in 1..Len(s) : i = 1 \/ (i - 1 \in 1..Len(t) /\ t[i - 1] = s[i])
  BY <1>1
<1>5. 1 \in 1..Len(s)
  BY <1>1
<1>6. \A i \in 1..Len(s) : s[i] \in Nat
  BY ElementOfSeq, DRAssumption DEF Seq1
<1> HIDE DEF t
<1>7. Elements(s) = Elements(t) \cup {Head(s)}
  BY <1>1, <1>2, <1>3, <1>4, <1>5 DEF Elements
<1>8. ASSUME Increasing(s) PROVE Increasing(t) /\ Head(s) \notin Elements(t)
  <2>1. Increasing(t)
    <3> SUFFICES ASSUME NEW i \in 1..Len(t), NEW j \in 1..Len(t), i < j
                 PROVE  s[i + 1] < s[j + 1]
      BY <1>1 DEF Increasing
    <3> QED
      BY <1>3, <1>8 DEF Increasing
  <2>2. ASSUME NEW i \in 1..Len(t), t[i] = Head(s) PROVE FALSE
    <3>1. s[1] < s[i + 1]
      BY <1>1, <1>3, <1>5, <1>8 DEF Increasing
    <3> QED
      BY <3>1, <1>1, <1>2, <1>3, <1>5, <1>6, <2>2
  <2> QED
    BY <2>1, <2>2 DEF Elements
<1>9. ASSUME Distinct(s) PROVE Distinct(t) /\ Head(s) \notin Elements(t)
  <2>1. Distinct(t)
    <3> SUFFICES ASSUME NEW i \in 1..Len(t), NEW j \in 1..Len(t), s[i + 1] = s[j + 1]
                 PROVE  i = j
      BY <1>1 DEF Distinct
    <3>1. i + 1 = j + 1
      BY <1>3, <1>9 DEF Distinct
    <3> QED
      BY <3>1
  <2>2. ASSUME NEW i \in 1..Len(t), t[i] = Head(s) PROVE FALSE
    BY <1>1, <1>2, <1>3, <1>5, <1>9, <2>2 DEF Distinct
  <2> QED
    BY <2>1, <2>2 DEF Elements
<1> QED
  BY <1>1, <1>7, <1>8, <1>9 DEF t
-----------------------------------------------------------------------------
(* Every action keeps the invariant. *)

LEMMA InitIInv == Init => IInv
<1> SUFFICES ASSUME Init PROVE IInv
  OBVIOUS
<1>1. 0 \in 0..MaxSeq /\ 0 \in 0..MaxClears /\ 0 <= ResultsMax
  BY DRAssumption
<1>2. TypeOK
  BY <1>1, EmptyFacts DEF Init, TypeOK, Outcome
<1>3. HolderInv /\ CountInv /\ CurrentInv
  BY EmptyFacts, DRAssumption DEF Init, HolderInv, CountInv, CountTrue, CurrentInv, InPoll, Seq1
<1>4. Accounted
  BY EmptyFacts, DRAssumption DEF Init, Accounted, Seq1
<1> QED
  BY <1>2, <1>3, <1>4 DEF IInv

\* Types.
LEMMA NextType ==
  ASSUME IInv, [Next]_vars
  PROVE  TypeOK'
<1>1. /\ TypeOK /\ CurrentInv /\ CountInv
      /\ 0 \in 0..MaxSeq /\ seq \in Nat /\ count \in Nat
  BY DRAssumption DEF IInv, TypeOK
<1> USE <1>1 DEF TypeOK
<1>2. CASE Draw \/ Drawn
  BY <1>2 DEF Draw, Drawn, queueVars, pollVars
<1>3. CASE Submit
  <2>1. seq + 1 \in Seq1 /\ seq + 1 \in 0..MaxSeq /\ count + 1 \in 0..MaxSeq
    BY <1>3, DRAssumption DEF Submit, Seq1, CountInv
  <2>2. pending' \in Seq(Seq1)
    BY <1>3, <2>1, AppendFacts DEF Submit
  <2> QED
    BY <1>3, <2>1, <2>2 DEF Submit, pollVars, Outcome
<1>4. CASE TakeResult
  <2>1. /\ results # <<>> /\ results' = Tail(results)
        /\ outcome' = [outcome EXCEPT ![Head(results)] = "taken"]
        /\ UNCHANGED <<pending, count, seq, holder, emu, current, gui, commands, clears>>
    BY <1>4 DEF TakeResult, pollVars
  <2>2. Tail(results) \in Seq(Seq1) /\ Len(Tail(results)) <= ResultsMax
    BY <2>1, TailFacts, DRAssumption
  <2> QED
    BY <2>1, <2>2 DEF Outcome
<1>5. CASE SendCommand \/ CommandReturns \/ ClientCommand
  BY <1>5 DEF SendCommand, CommandReturns, ClientCommand, queueVars, pollVars
<1>6. CASE Clear
  <2>1. clears' \in 0..MaxClears
    BY <1>6, DRAssumption DEF Clear
  <2>2. outcome' \in [Seq1 -> Outcome]
    BY <1>6 DEF Clear, Outcome
  <2> QED
    BY <1>6, <2>1, <2>2, EmptyFacts, DRAssumption DEF Clear, pollVars
<1>7. CASE PollNothing \/ TryFails \/ TryLock \/ LeavePoll \/ TapeCommand \/ TapeLocked \/ Drained
  BY <1>7 DEF PollNothing, TryFails, TryLock, LeavePoll, TapeCommand, TapeLocked, Drained,
              queueVars
<1>8. CASE Pop
  <2>1. /\ pending # <<>> /\ pending' = Tail(pending) /\ current' = Head(pending)
        /\ outcome' = [outcome EXCEPT ![Head(pending)] = "running"] /\ emu' = "run"
        /\ UNCHANGED <<results, count, seq, holder, gui, commands, clears>>
    BY <1>8 DEF Pop
  <2>2. Tail(pending) \in Seq(Seq1) /\ Head(pending) \in Seq1
    BY <2>1, TailFacts
  <2> QED
    BY <2>1, <2>2 DEF Outcome
<1>9. CASE FinishRequest
  <2>1. current \in Seq1
    BY <1>9 DEF FinishRequest, CurrentInv
  <2>2. results' \in Seq(Seq1) /\ Len(results') <= ResultsMax
    <3> DEFINE long == Append(results, current)
    <3>1. long \in Seq(Seq1) /\ Len(long) = Len(results) + 1 /\ Len(results) \in Nat
      BY <2>1, AppendFacts, LenProperties
    <3>2. long # <<>>
      BY <2>1, AppendProperties
    <3>3. Tail(long) \in Seq(Seq1) /\ Len(Tail(long)) = Len(long) - 1
      BY <3>1, <3>2, TailFacts
    <3> HIDE DEF long
    <3>4. results' = IF Len(long) > ResultsMax THEN Tail(long) ELSE long
      BY <1>9 DEF FinishRequest, Kept, long
    <3> QED
      BY <3>1, <3>3, <3>4, DRAssumption
  <2>3. count' \in 0..MaxSeq
    BY <1>9, DRAssumption DEF FinishRequest, CountDown
  <2>4. outcome' \in [Seq1 -> Outcome]
    BY <1>9 DEF FinishRequest, Outcome
  <2> QED
    BY <1>9, <2>2, <2>3, <2>4 DEF FinishRequest
<1>10. ASSUME NEW c \in {"gui", "mcp"}, PlainCommand(c) \/ TapeDone(c) PROVE TypeOK'
  BY <1>10 DEF PlainCommand, TapeDone, queueVars, pollVars
<1>11. CASE UNCHANGED vars
  BY <1>11 DEF vars, queueVars, pollVars
<1> QED
  BY <1>2, <1>3, <1>4, <1>5, <1>6, <1>7, <1>8, <1>9, <1>10, <1>11 DEF Next, EmuStep

\* The lock is where the threads say it is.
LEMMA NextHolder ==
  ASSUME IInv, [Next]_vars
  PROVE  HolderInv'
<1> USE DRAssumption DEF IInv, TypeOK, HolderInv
<1>1. CASE Draw \/ Drawn \/ SendCommand \/ CommandReturns \/ ClientCommand
  BY <1>1 DEF Draw, Drawn, SendCommand, FreeToWait, CommandReturns, ClientCommand, pollVars
<1>2. CASE Submit \/ TakeResult \/ Clear
  BY <1>2 DEF Submit, TakeResult, Clear, pollVars
<1>3. CASE PollNothing \/ TryFails \/ TryLock
  BY <1>3 DEF PollNothing, TryFails, TryLock, LockFree
<1>4. CASE Pop \/ LeavePoll \/ FinishRequest
  BY <1>4 DEF Pop, LeavePoll, FinishRequest
<1>5. CASE TapeCommand \/ TapeLocked \/ Drained
  BY <1>5 DEF TapeCommand, TapeLocked, Drained
<1>6. ASSUME NEW c \in {"gui", "mcp"}, PlainCommand(c) \/ TapeDone(c) PROVE HolderInv'
  BY <1>6 DEF PlainCommand, TapeDone, pollVars
<1>7. CASE UNCHANGED vars
  BY <1>7 DEF vars, pollVars
<1> QED
  BY <1>1, <1>2, <1>3, <1>4, <1>5, <1>6, <1>7 DEF Next, EmuStep

\* The count is the length of the queue, or off by the request that runs.
LEMMA NextCount ==
  ASSUME IInv, [Next]_vars
  PROVE  CountInv' /\ CurrentInv'
<1>1. /\ TypeOK /\ CurrentInv /\ CountInv
      /\ seq \in Nat /\ count \in Nat /\ Len(pending) \in Nat
      /\ pending \in Seq(Seq1) /\ None \notin Seq1
  BY DRAssumption, LenProperties DEF IInv, TypeOK, Seq1
<1> USE <1>1 DEF CountInv, CurrentInv, CountTrue, InPoll
<1>2. CASE Draw \/ Drawn \/ SendCommand \/ CommandReturns \/ ClientCommand \/ TakeResult
  BY <1>2 DEF Draw, Drawn, SendCommand, CommandReturns, ClientCommand, TakeResult,
              queueVars, pollVars
<1>3. CASE Submit
  <2>1. seq + 1 \in Seq1
    BY <1>3, DRAssumption DEF Submit, Seq1
  <2>2. /\ Len(pending') = Len(pending) + 1 /\ count' = count + 1 /\ seq' = seq + 1
        /\ UNCHANGED <<emu, current>>
    BY <1>3, <2>1, AppendFacts DEF Submit, pollVars
  <2> QED
    BY <2>2
<1>4. CASE Clear
  BY <1>4, EmptyFacts DEF Clear, pollVars
<1>5. CASE PollNothing \/ TryFails \/ TryLock
  BY <1>5 DEF PollNothing, TryFails, TryLock, queueVars
<1>6. CASE Pop
  <2>1. /\ pending # <<>> /\ pending' = Tail(pending) /\ current' = Head(pending)
        /\ emu = "pop" /\ emu' = "run" /\ UNCHANGED <<count, seq>>
    BY <1>6 DEF Pop
  <2>2. Len(pending') = Len(pending) - 1 /\ current' \in Seq1
    BY <2>1, TailFacts
  <2>3. count \in {Len(pending) - 1, Len(pending)}
    BY <2>1
  <2>4. count' \in {Len(pending'), Len(pending') + 1}
    <3>1. count' = count
      BY <2>1
    <3> QED
      BY <3>1, <2>2, <2>3
  <2> QED
    BY <2>1, <2>2, <2>4
<1>7. CASE LeavePoll
  BY <1>7, EmptyFacts DEF LeavePoll, queueVars
<1>8. CASE FinishRequest
  <2>1. /\ emu = "run" /\ emu' = "pop" /\ current' = None
        /\ count' = IF count > 0 THEN count - 1 ELSE count
        /\ UNCHANGED <<pending, seq>>
    BY <1>8 DEF FinishRequest, CountDown
  <2> QED
    BY <2>1
<1>9. CASE TapeCommand \/ TapeLocked \/ Drained
  BY <1>9 DEF TapeCommand, TapeLocked, Drained, queueVars
<1>10. ASSUME NEW c \in {"gui", "mcp"}, PlainCommand(c) \/ TapeDone(c)
       PROVE  CountInv' /\ CurrentInv'
  BY <1>10 DEF PlainCommand, TapeDone, queueVars, pollVars
<1>11. CASE UNCHANGED vars
  BY <1>11 DEF vars, queueVars, pollVars
<1> QED
  BY <1>2, <1>3, <1>4, <1>5, <1>6, <1>7, <1>8, <1>9, <1>10, <1>11 DEF Next, EmuStep

\* A request goes from the queue to the thread and on to the results.
LEMMA NextAccounted ==
  ASSUME IInv, [Next]_vars
  PROVE  Accounted'
<1>1. /\ TypeOK /\ CurrentInv /\ Accounted
      /\ pending \in Seq(Seq1) /\ results \in Seq(Seq1)
      /\ outcome \in [Seq1 -> Outcome] /\ seq \in Nat /\ None \notin Seq1
      /\ \A r \in Seq1 : r \in Nat
  BY DRAssumption DEF IInv, TypeOK, Seq1
<1>2. ASSUME UNCHANGED <<pending, results, outcome, seq, current>> PROVE Accounted'
  BY <1>1, <1>2 DEF Accounted, Increasing, Distinct, Elements
<1>3. CASE Draw \/ Drawn \/ SendCommand \/ CommandReturns \/ ClientCommand
  BY <1>2, <1>3 DEF Draw, Drawn, SendCommand, CommandReturns, ClientCommand, queueVars, pollVars
<1>4. CASE PollNothing \/ TryFails \/ TryLock \/ LeavePoll \/ TapeCommand \/ TapeLocked \/ Drained
  BY <1>2, <1>4 DEF PollNothing, TryFails, TryLock, LeavePoll, TapeCommand, TapeLocked,
                    Drained, queueVars
<1>5. ASSUME NEW c \in {"gui", "mcp"}, PlainCommand(c) \/ TapeDone(c) PROVE Accounted'
  BY <1>2, <1>5 DEF PlainCommand, TapeDone, queueVars, pollVars
<1>6. CASE UNCHANGED vars
  BY <1>2, <1>6 DEF vars, queueVars, pollVars
<1>7. CASE Submit
  <2>1. seq + 1 \in Seq1
    BY <1>1, <1>7, DRAssumption DEF Submit, Seq1
  <2>2. \A x \in Elements(pending) : x \in Seq1 /\ x < seq + 1
    <3>1. \A x \in Elements(pending) : x \in Seq1
      BY <1>1, ElementOfSeq DEF Elements
    <3> QED
      BY <3>1, <1>1 DEF Accounted
  <2>3. /\ pending' = Append(pending, seq + 1)
        /\ outcome' = [outcome EXCEPT ![seq + 1] = "waiting"]
        /\ seq' = seq + 1 /\ UNCHANGED <<results, current>>
    BY <1>7 DEF Submit, pollVars
  <2>4. /\ Increasing(pending') /\ Elements(pending') = Elements(pending) \cup {seq + 1}
    BY <1>1, <2>1, <2>2, <2>3, AppendFacts DEF Accounted
  <2>5. outcome[seq + 1] = "unsent"
    BY <1>1, <2>1 DEF Accounted
  <2> QED
    BY <1>1, <2>1, <2>3, <2>4, <2>5 DEF Accounted
<1>8. CASE TakeResult
  <2> DEFINE h == Head(results)
  <2>1. /\ results # <<>> /\ results' = Tail(results)
        /\ outcome' = [outcome EXCEPT ![h] = "taken"]
        /\ UNCHANGED <<pending, seq, current>>
    BY <1>8 DEF TakeResult, pollVars
  <2>2. /\ h \in Seq1 /\ Elements(results) = Elements(results') \cup {h}
        /\ Distinct(results') /\ h \notin Elements(results')
    BY <1>1, <2>1, TailFacts DEF Accounted
  <2> HIDE DEF h
  <2> QED
    BY <1>1, <2>1, <2>2 DEF Accounted
<1>9. CASE Clear
  <2>1. /\ pending' = <<>> /\ results' = <<>>
        /\ outcome' = [r \in Seq1 |-> IF outcome[r] \in {"waiting", "done"}
                                      THEN "cleared" ELSE outcome[r]]
        /\ UNCHANGED <<seq, current>>
    BY <1>9 DEF Clear, pollVars
  <2> QED
    BY <1>1, <2>1, EmptyFacts DEF Accounted
<1>10. CASE Pop
  <2> DEFINE h == Head(pending)
  <2>1. /\ pending # <<>> /\ pending' = Tail(pending) /\ current' = h
        /\ outcome' = [outcome EXCEPT ![h] = "running"] /\ emu = "pop"
        /\ UNCHANGED <<results, seq>>
    BY <1>10 DEF Pop
  <2>2. /\ h \in Seq1 /\ Elements(pending) = Elements(pending') \cup {h}
        /\ Increasing(pending') /\ h \notin Elements(pending')
    BY <1>1, <2>1, TailFacts DEF Accounted
  <2>3. current \notin Seq1
    BY <1>1, <2>1 DEF CurrentInv
  <2> HIDE DEF h
  <2> QED
    BY <1>1, <2>1, <2>2, <2>3 DEF Accounted
<1>11. CASE FinishRequest
  <2> DEFINE long == Append(results, current)
  <2>1. /\ emu = "run" /\ current' = None
        /\ results' = IF Len(long) > ResultsMax THEN Tail(long) ELSE long
        /\ outcome' = [r \in Seq1 |->
             IF r \in {results[i] : i \in DOMAIN results} \cup {current}
             THEN IF r \in {results'[i] : i \in DOMAIN results'} THEN "done" ELSE "evicted"
             ELSE outcome[r]]
        /\ UNCHANGED <<pending, seq>>
    BY <1>11 DEF FinishRequest, Kept
  <2>2. current \in Seq1
    BY <1>1, <2>1 DEF CurrentInv
  <2>3. current \notin Elements(results)
    BY <1>1, <2>2 DEF Accounted
  <2>4. /\ long \in Seq(Seq1) /\ long # <<>> /\ Distinct(long)
        /\ Elements(long) = Elements(results) \cup {current}
    BY <1>1, <2>2, <2>3, AppendFacts, AppendProperties DEF Accounted
  <2> HIDE DEF long
  <2>5. /\ Tail(long) \in Seq(Seq1) /\ Distinct(Tail(long))
        /\ Elements(Tail(long)) \subseteq Elements(long)
    BY <2>4, TailFacts
  <2>6. /\ results' \in Seq(Seq1) /\ Distinct(results')
        /\ Elements(results') \subseteq Elements(results) \cup {current}
    BY <2>1, <2>4, <2>5
  <2>7. /\ {results[i] : i \in DOMAIN results} = Elements(results)
        /\ {results'[i] : i \in DOMAIN results'} = Elements(results')
    BY <1>1, <2>6, LenProperties DEF Elements
  <2>8. outcome' = [r \in Seq1 |->
             IF r \in Elements(results) \cup {current}
             THEN IF r \in Elements(results') THEN "done" ELSE "evicted"
             ELSE outcome[r]]
    BY <2>1, <2>7
  <2> QED
    BY <1>1, <2>1, <2>2, <2>6, <2>8 DEF Accounted
<1> QED
  BY <1>3, <1>4, <1>5, <1>6, <1>7, <1>8, <1>9, <1>10, <1>11 DEF Next, EmuStep

-----------------------------------------------------------------------------
\* The strengthened invariant is inductive.
THEOREM NextIInv == IInv /\ [Next]_vars => IInv'
BY NextType, NextHolder, NextCount, NextAccounted DEF IInv

\* The strengthened invariant always holds.
THEOREM Inductive == Spec => []IInv
BY InitIInv, NextIInv, PTL DEF Spec

\* The queues and the count keep their types, and no more results are kept than
\* device_request.c allows.
THEOREM TypeCorrect == Spec => []TypeOK
<1>1. IInv => TypeOK
  BY DEF IInv
<1> QED
  BY <1>1, Inductive, PTL

\* A poll, which looks at the count alone, leaves no request behind.
THEOREM CountIsTrue == Spec => []CountTrue
<1>1. IInv => CountTrue
  BY DEF IInv, CountInv
<1> QED
  BY <1>1, Inductive, PTL

\* No device changes while the GUI draws it.
THEOREM NeverChangedWhileDrawn == Spec => []NeverWhileDrawn
<1>1. IInv => NeverWhileDrawn
  BY DRAssumption DEF IInv, HolderInv, NeverWhileDrawn
<1> QED
  BY <1>1, Inductive, PTL

\* No request is lost or carried out twice: one that was submitted waits in its
\* place, is carried out, has its result in the queue, or was cleared, taken or
\* evicted (device_request_submit(), _poll(), _take_result(), _clear()).
THEOREM RequestsAccounted == Spec => []Accounted
<1>1. IInv => Accounted
  BY DEF IInv
<1> QED
  BY <1>1, Inductive, PTL

-----------------------------------------------------------------------------
(***************************************************************************)
(*                              EventBus                                   *)
(***************************************************************************)

(***************************************************************************)
(* The inductive invariant.  Conserved: an event pushed was dropped, was   *)
(* taken by a poll, or is in the queue.  InOrder: the queue holds the last *)
(* events pushed, in order.  TakenInv: the events of an answer in the      *)
(* making lie before those of the queue.                                   *)
(***************************************************************************)
Conserved == pushed = popped + dropped + Len(queue)

InOrder == \A i \in 1..Len(queue) : queue[i] = popped + dropped + i

LastTaken == reply.events[Len(reply.events)]

TakenInv ==
  /\ reply.events # <<>> /\ poll \in {"taken", "counted"} =>
       LastTaken <= popped + dropped
  /\ reply.events # <<>> /\ poll = "answer" =>
       LastTaken <= popped + reply.dropped

BusIInv == BusTypeOK /\ Conserved /\ InOrder /\ TakenInv
-----------------------------------------------------------------------------
(* What an emit and a poll do to the queue. *)

LEMMA EmitQueue ==
  ASSUME BusTypeOK, NEW t \in Topic, Emit(t)
  PROVE  /\ Surplus \in 0..Len(queue) /\ Len(queue) \in Nat
         /\ queue' \in Seq(1..MaxEvents)
         /\ Len(queue') = Len(queue) - Surplus + 1 /\ Len(queue') <= QueueSize
         /\ \A i \in 1..Len(queue) - Surplus : queue'[i] = queue[Surplus + i]
         /\ queue'[Len(queue')] = pushed + 1
         /\ dropped' = dropped + Surplus
<1> DEFINE rest == SubSeq(queue, Surplus + 1, Len(queue))
<1>1. Len(queue) \in Nat /\ Surplus \in 0..Len(queue)
      /\ Len(queue) - Surplus < QueueSize
  BY EBAssumption, LenProperties DEF BusTypeOK, Surplus
<1>2. pushed + 1 \in 1..MaxEvents
  BY EBAssumption DEF BusTypeOK, Emit
<1>3. \A i \in Surplus + 1 .. Len(queue) : queue[i] \in 1..MaxEvents
  <2>1. \A i \in 1..Len(queue) : queue[i] \in 1..MaxEvents
    BY ElementOfSeq DEF BusTypeOK
  <2> QED
    BY <1>1, <2>1
<1>4. /\ rest \in Seq(1..MaxEvents)
      /\ Len(rest) = Len(queue) - Surplus
      /\ \A i \in 1..Len(queue) - Surplus : rest[i] = queue[Surplus + i]
  BY <1>1, <1>3, SubSeqProperties, Z3
<1>5. queue' = Append(rest, pushed + 1)
  BY DEF Emit, Remaining
<1>6. /\ queue' \in Seq(1..MaxEvents)
      /\ Len(queue') = Len(rest) + 1
      /\ \A i \in 1..Len(rest) : queue'[i] = rest[i]
      /\ queue'[Len(rest) + 1] = pushed + 1
  BY <1>2, <1>4, <1>5, AppendProperties
<1>7. dropped' = dropped + Surplus
  BY DEF Emit, CountDropped
<1> HIDE DEF rest
<1> QED
  BY <1>1, <1>4, <1>6, <1>7, EBAssumption, SMTT(40)

LEMMA TakeQueue ==
  ASSUME BusTypeOK, NEW max \in 1..MaxPoll, TakeEvents(max)
  PROVE  \E k \in 0..Len(queue) :
           /\ queue' \in Seq(1..MaxEvents)
           /\ Len(queue') = Len(queue) - k
           /\ \A i \in 1..Len(queue) - k : queue'[i] = queue[k + i]
           /\ reply'.events \in Seq(1..MaxEvents) /\ Len(reply'.events) = k
           /\ \A i \in 1..k : reply'.events[i] = queue[i]
           /\ reply' = [events |-> reply'.events, pending |-> 0, dropped |-> 0]
           /\ popped' = popped + k /\ poll' = "taken" /\ woken' = FALSE
<1> DEFINE k == IF Len(queue) < max THEN Len(queue) ELSE max
<1>1. Len(queue) \in Nat /\ k \in 0..Len(queue)
  BY EBAssumption, LenProperties DEF BusTypeOK
<1>2. \A i \in 1..Len(queue) : queue[i] \in 1..MaxEvents
  BY <1>1, ElementOfSeq DEF BusTypeOK
<1>3. /\ reply' = [NoReply EXCEPT !.events = SubSeq(queue, 1, k)]
      /\ queue' = SubSeq(queue, k + 1, Len(queue))
      /\ popped' = popped + k /\ poll' = "taken" /\ woken' = FALSE
  BY DEF TakeEvents
<1>4. reply' = [events |-> SubSeq(queue, 1, k), pending |-> 0, dropped |-> 0]
  BY <1>3 DEF NoReply
<1> HIDE DEF k
<1>5. \A i \in k + 1 .. Len(queue) : queue[i] \in 1..MaxEvents
  BY <1>1, <1>2
<1>6. /\ queue' \in Seq(1..MaxEvents) /\ Len(queue') = Len(queue) - k
      /\ \A i \in 1..Len(queue) - k : queue'[i] = queue[k + i]
  BY <1>1, <1>3, <1>5, SubSeqProperties, Z3
<1>7. \A i \in 1..k : queue[i] \in 1..MaxEvents
  BY <1>1, <1>2
<1>8. /\ reply'.events \in Seq(1..MaxEvents) /\ Len(reply'.events) = k
      /\ \A i \in 1..k : reply'.events[i] = queue[i]
  BY <1>1, <1>4, <1>7, SubSeqProperties, Z3
<1> QED
  BY <1>1, <1>3, <1>4, <1>6, <1>8
-----------------------------------------------------------------------------
(* Every action keeps the invariant. *)

\* An event that is pushed: the surplus goes from the queue to the dropped.
LEMMA EmitKeeps ==
  ASSUME BusIInv, NEW t \in Topic, Emit(t)
  PROVE  BusIInv'
<1>1. BusTypeOK /\ Conserved /\ InOrder /\ TakenInv
  BY DEF BusIInv
<1>2. /\ Surplus \in 0..Len(queue) /\ Len(queue) \in Nat
      /\ queue' \in Seq(1..MaxEvents)
      /\ Len(queue') = Len(queue) - Surplus + 1 /\ Len(queue') <= QueueSize
      /\ \A i \in 1..Len(queue) - Surplus : queue'[i] = queue[Surplus + i]
      /\ queue'[Len(queue')] = pushed + 1
      /\ dropped' = dropped + Surplus
  BY <1>1, EmitQueue
<1>3. /\ pushed < MaxEvents /\ pushed' = pushed + 1
      /\ woken' = (woken \/ poll = "wait")
      /\ UNCHANGED <<attached, topics, poll, limit, reply, popped,
                     session, online, subscribed>>
  BY DEF Emit, Signal, sessionVars
<1>4. dropped \in Nat /\ pushed \in Nat /\ popped \in Nat
  BY <1>1, EBAssumption DEF BusTypeOK
<1>5. Conserved'
  BY <1>1, <1>2, <1>3, <1>4 DEF Conserved
<1>6. InOrder'
  <2> SUFFICES ASSUME NEW i \in 1..Len(queue')
               PROVE  queue'[i] = popped' + dropped' + i
    BY DEF InOrder
  <2>1. CASE i = Len(queue')
    BY <2>1, <1>1, <1>2, <1>3, <1>4 DEF Conserved
  <2>2. CASE i # Len(queue')
    <3>1. i \in 1..Len(queue) - Surplus /\ Surplus + i \in 1..Len(queue)
      BY <2>2, <1>2
    <3> QED
      BY <3>1, <1>1, <1>2, <1>3, <1>4 DEF InOrder
  <2> QED
    BY <2>1, <2>2
<1>7. BusTypeOK'
  <2>1. dropped' \in 0..MaxEvents /\ pushed' \in 0..MaxEvents
    BY <1>2, <1>3, <1>4, <1>5, EBAssumption DEF Conserved
  <2> QED
    BY <1>1, <1>2, <1>3, <2>1, EBAssumption DEF BusTypeOK
<1>8. TakenInv'
  <2> SUFFICES ASSUME reply.events # <<>>, poll \in {"taken", "counted"}
               PROVE  LastTaken <= popped + dropped'
    BY <1>1, <1>3 DEF TakenInv, LastTaken
  <2>1. LastTaken <= popped + dropped
    BY <1>1 DEF TakenInv
  <2>2. LastTaken \in Nat
    <3>1. reply.events \in Seq(1..MaxEvents)
      BY <1>1 DEF BusTypeOK
    <3>2. Len(reply.events) \in 1..Len(reply.events)
      BY <3>1, EmptySeq, LenProperties
    <3> QED
      BY <3>1, <3>2, ElementOfSeq, EBAssumption DEF LastTaken
  <2> QED
    BY <2>1, <2>2, <1>2, <1>4
<1> QED
  BY <1>5, <1>6, <1>7, <1>8 DEF BusIInv

\* A poll that takes events: they go from the queue to the answer.
LEMMA TakeKeeps ==
  ASSUME BusIInv, NEW max \in 1..MaxPoll, TakeEvents(max),
         limit' \in 1..MaxPoll, attached' \in BOOLEAN,
         UNCHANGED <<topics, dropped, pushed, sessionVars>>
  PROVE  BusIInv'
<1>1. BusTypeOK /\ Conserved /\ InOrder
  BY DEF BusIInv
<1>2. PICK k \in 0..Len(queue) :
           /\ queue' \in Seq(1..MaxEvents)
           /\ Len(queue') = Len(queue) - k
           /\ \A i \in 1..Len(queue) - k : queue'[i] = queue[k + i]
           /\ reply'.events \in Seq(1..MaxEvents) /\ Len(reply'.events) = k
           /\ \A i \in 1..k : reply'.events[i] = queue[i]
           /\ reply' = [events |-> reply'.events, pending |-> 0, dropped |-> 0]
           /\ popped' = popped + k /\ poll' = "taken" /\ woken' = FALSE
  BY <1>1, TakeQueue
<1>3. dropped \in Nat /\ pushed \in Nat /\ popped \in Nat /\ Len(queue) \in Nat
  BY <1>1, EBAssumption, LenProperties DEF BusTypeOK
<1> UNCHANGED <<topics, dropped, pushed, session, online, subscribed>>
  BY DEF sessionVars
<1>4. Conserved'
  BY <1>1, <1>2, <1>3 DEF Conserved
<1>5. InOrder'
  <2> SUFFICES ASSUME NEW i \in 1..Len(queue')
               PROVE  queue'[i] = popped' + dropped' + i
    BY DEF InOrder
  <2>1. i \in 1..Len(queue) - k /\ k + i \in 1..Len(queue)
    BY <1>2, <1>3
  <2>2. queue'[i] = queue[k + i]
    BY <1>2, <2>1
  <2>3. queue[k + i] = popped + dropped + (k + i)
    BY <1>1, <2>1 DEF InOrder
  <2> QED
    BY <1>2, <1>3, <2>1, <2>2, <2>3
<1>6. BusTypeOK'
  <2>1. popped' \in 0..MaxEvents
    <3>1. pushed \in 0..MaxEvents /\ popped' + dropped + Len(queue') = pushed
      BY <1>1, <1>2, <1>3, SMTT(40) DEF BusTypeOK, Conserved
    <3> QED
      BY <3>1, <1>2, <1>3, EBAssumption, SMTT(40)
  <2>2. reply' \in [events : Seq(1..MaxEvents), pending : 0..QueueSize,
                    dropped : 0..MaxEvents]
    BY <1>2, EBAssumption
  <2>3. Len(queue') <= QueueSize
    <3>1. Len(queue) <= QueueSize
      BY <1>1 DEF BusTypeOK
    <3> QED
      BY <3>1, <1>2, <1>3, EBAssumption
  <2> QED
    BY <1>1, <1>2, <2>1, <2>2, <2>3 DEF BusTypeOK, sessionVars
<1>7. TakenInv'
  <2> SUFFICES ASSUME reply'.events # <<>>
               PROVE  reply'.events[k] <= popped' + dropped'
    BY <1>2 DEF TakenInv, LastTaken
  <2>1. k \in 1..k /\ k \in 1..Len(queue)
    BY <1>2, <1>3, EmptySeq
  <2> QED
    BY <2>1, <1>1, <1>2, <1>3 DEF InOrder
<1> QED
  BY <1>4, <1>5, <1>6, <1>7 DEF BusIInv

LEMMA InitBusIInv == BusInit => BusIInv
<1> SUFFICES ASSUME BusInit PROVE BusIInv
  OBVIOUS
<1>1. BusTypeOK
  <2>1. NoReply \in [events : Seq(1..MaxEvents), pending : 0..QueueSize,
                     dropped : 0..MaxEvents]
    BY EBAssumption, EmptySeq DEF NoReply
  <2>2. queue \in Seq(1..MaxEvents) /\ Len(queue) <= QueueSize
    BY EBAssumption, EmptySeq DEF BusInit
  <2>3. 0 \in 0..MaxEvents /\ 1 \in 1..MaxPoll /\ 0 \in 0..MaxSessions
    BY EBAssumption
  <2> QED
    BY <2>1, <2>2, <2>3 DEF BusInit, BusTypeOK
<1>2. Conserved /\ InOrder
  BY EmptySeq DEF BusInit, Conserved, InOrder
<1>3. TakenInv
  BY DEF BusInit, TakenInv, NoReply
<1> QED
  BY <1>1, <1>2, <1>3 DEF BusIInv

\* The strengthened invariant is inductive.
THEOREM NextBusIInv == BusIInv /\ [BusNext]_busVars => BusIInv'
<1> SUFFICES ASSUME BusIInv, [BusNext]_busVars PROVE BusIInv'
  OBVIOUS
<1>0. BusTypeOK /\ Conserved /\ InOrder /\ TakenInv
  BY DEF BusIInv
<1> USE DEF Conserved, InOrder, TakenInv, LastTaken
<1>1. ASSUME NEW t \in Topic, Emit(t) PROVE BusIInv'
  BY <1>1, EmitKeeps
<1>2. ASSUME NEW T \in SUBSET Topic, Subscribe(T) PROVE BusIInv'
  BY <1>0, <1>2 DEF BusIInv, BusTypeOK, Subscribe, answerVars
<1>3. ASSUME NEW T \in SUBSET Topic, Unsubscribe(T) PROVE BusIInv'
  BY <1>0, <1>3 DEF BusIInv, BusTypeOK, Unsubscribe, answerVars, sessionVars
<1>4. ASSUME NEW max \in 1..MaxPoll, PollNow(max) PROVE BusIInv'
  BY <1>4, TakeKeeps DEF PollNow
<1>5. ASSUME NEW max \in 1..MaxPoll, PollWait(max) PROVE BusIInv'
  BY <1>0, <1>5 DEF BusIInv, BusTypeOK, PollWait, sessionVars
<1>6. CASE PollWakes
  <2>1. CASE queue = <<>>
    BY <1>0, <1>6, <2>1 DEF BusIInv, BusTypeOK, PollWakes, sessionVars
  <2>2. CASE queue # <<>>
    <3>1. limit \in 1..MaxPoll /\ attached \in BOOLEAN
      BY <1>0 DEF BusTypeOK
    <3>2. /\ TakeEvents(limit)
          /\ UNCHANGED <<attached, topics, dropped, pushed, limit, sessionVars>>
      BY <1>6, <2>2 DEF PollWakes
    <3> QED
      BY <3>1, <3>2, TakeKeeps
  <2> QED
    BY <2>1, <2>2
<1>7. CASE PollTimesOut
  <2>1. limit \in 1..MaxPoll /\ attached \in BOOLEAN
    BY <1>0 DEF BusTypeOK
  <2>2. /\ TakeEvents(limit)
        /\ UNCHANGED <<attached, topics, dropped, pushed, limit, sessionVars>>
    BY <1>7 DEF PollTimesOut
  <2> QED
    BY <2>1, <2>2, TakeKeeps
<1>8. CASE ReadPending
  <2>1. Len(queue) \in 0..QueueSize
    BY <1>0, EBAssumption, LenProperties DEF BusTypeOK
  <2>2. reply' = [reply EXCEPT !.pending = Len(queue)]
    BY <1>8 DEF ReadPending
  <2>3. /\ reply' \in [events : Seq(1..MaxEvents), pending : 0..QueueSize,
                       dropped : 0..MaxEvents]
        /\ reply'.events = reply.events
    BY <1>0, <2>1, <2>2 DEF BusTypeOK
  <2> QED
    BY <1>0, <1>8, <2>3 DEF BusIInv, BusTypeOK, ReadPending, subscriberVars, sessionVars
<1>9. CASE ReadDropped
  <2>1. reply' = [reply EXCEPT !.dropped = dropped]
    BY <1>9 DEF ReadDropped
  <2>2. /\ reply' \in [events : Seq(1..MaxEvents), pending : 0..QueueSize,
                       dropped : 0..MaxEvents]
        /\ reply'.events = reply.events /\ reply'.dropped = dropped
    BY <1>0, <2>1 DEF BusTypeOK
  <2> QED
    BY <1>0, <1>9, <2>2 DEF BusIInv, BusTypeOK, ReadDropped, subscriberVars, sessionVars
<1>10. CASE Answer
  <2>1. /\ NoReply \in [events : Seq(1..MaxEvents), pending : 0..QueueSize,
                        dropped : 0..MaxEvents]
        /\ NoReply.events = <<>>
    BY EBAssumption, EmptySeq DEF NoReply
  <2> QED
    BY <1>0, <1>10, <2>1 DEF BusIInv, BusTypeOK, Answer, subscriberVars, sessionVars
<1>11. CASE Connect
  <2>1. session' \in 0..MaxSessions
    BY <1>0, <1>11, EBAssumption DEF BusTypeOK, Connect
  <2> QED
    BY <1>0, <1>11, <2>1 DEF BusIInv, BusTypeOK, Connect, subscriberVars, answerVars
<1>12. CASE Leave
  BY <1>0, <1>12 DEF BusIInv, BusTypeOK, Leave, subscriberVars, answerVars
<1>13. CASE UNCHANGED busVars
  BY <1>0, <1>13 DEF BusIInv, BusTypeOK, busVars, subscriberVars, answerVars, sessionVars
<1> QED
  BY <1>1, <1>2, <1>3, <1>4, <1>5, <1>6, <1>7, <1>8, <1>9, <1>10, <1>11,
     <1>12, <1>13 DEF BusNext
-----------------------------------------------------------------------------
\* The strengthened invariant always holds.
THEOREM BusInductive == BusSpec => []BusIInv
BY InitBusIInv, NextBusIInv, PTL DEF BusSpec

\* The variables of the bus keep their types; the queue never holds more events
\* than event_bus.c allows.
THEOREM BusTypeCorrect == BusSpec => []BusTypeOK
<1>1. BusIInv => BusTypeOK
  BY DEF BusIInv
<1> QED
  BY <1>1, BusInductive, PTL

\* No event is lost without being counted, and the queue holds the last ones
\* in the order in which they were pushed (event_bus_emit(), event_bus_poll()).
THEOREM EventsConserved == BusSpec => [](Conserved /\ InOrder)
<1>1. BusIInv => Conserved /\ InOrder
  BY DEF BusIInv
<1> QED
  BY <1>1, BusInductive, PTL

\* The dropped count of an answer covers every gap up to its last event.
THEOREM GapsAreExplained == BusSpec => []GapsExplained
<1>1. BusIInv => GapsExplained
  <2> SUFFICES ASSUME BusIInv, poll = "answer", reply.events # <<>>
               PROVE  Last(reply.events) <= popped + reply.dropped
    BY DEF GapsExplained
  <2> QED
    BY DEF BusIInv, TakenInv, LastTaken, Last
<1> QED
  BY <1>1, BusInductive, PTL
=============================================================================
