------------------------ MODULE DispatchRunnerProofs ------------------------
(***************************************************************************)
(* Proofs, for any number of transports, workers and jobs, of the safety   *)
(* properties of DispatchRunner.                                           *)
(***************************************************************************)
EXTENDS DispatchRunner, FiniteSetTheorems, TLAPS

(***************************************************************************)
(* The inductive invariant.  HolderInv: who is on its way with a job holds *)
(* it alone on its side, and a job held on both sides has two references.  *)
(* ResponseInv: a stored response is one its transport still waits for.    *)
(* RequestInv: a request is in the pool or with the worker that will free  *)
(* it.  CountInv: s_inflight counts the jobs in the pool and those a       *)
(* worker has not counted out.                                             *)
(***************************************************************************)
Serving == {"handler", "checked", "submitted", "stuck", "publish"}
Owing   == Serving \cup {"discard", "release"}

Waits(j) == \E t \in Transport : job[j].client = t /\ tpc[t] = "waiting" /\
    tjob[t] = j

AskerInv ==
  \A t \in Transport : tpc[t] # "idle" =>
    /\ tjob[t] \in Job
    /\ job[tjob[t]].live /\ job[tjob[t]].client = t
    /\ tjob[t] \in queued => job[tjob[t]].refcount = 2

ServerInv ==
  \A w \in Worker : wpc[w] # "idle" =>
    /\ wjob[w] \in Job \ queued
    /\ job[wjob[w]].live
    /\ job[wjob[w]].req <=> wpc[w] \in Owing
    /\ wpc[w] \in Serving => ~job[wjob[w]].done
    /\ \A v \in Worker : wpc[v] # "idle" /\ wjob[v] = wjob[w] => v = w

HolderInv ==
  /\ AskerInv /\ ServerInv
  /\ \A t \in Transport, w \in Worker :
       tpc[t] # "idle" /\ wpc[w] # "idle" /\ tjob[t] = wjob[w] =>
         job[tjob[t]].refcount = 2
  /\ \A j \in queued : job[j].live /\ job[j].req /\ ~job[j].done
  /\ \A j \in Job : job[j].live => job[j].refcount # 0

RequestInv ==
  \A j \in Job : job[j].req =>
    /\ job[j].live
    /\ j \in queued \/ \E w \in Worker : wpc[w] \in Owing /\ wjob[w] = j

ResponseInv ==
  \A j \in Job :
    /\ job[j].response => job[j].live /\ job[j].done /\ ~job[j].abandoned /\
        Waits(j)
    /\ job[j].live /\ ~job[j].done /\ ~job[j].abandoned => Waits(j)
    /\ job[j].live /\ job[j].abandoned => job[j].stalled /\ ~Waits(j)

MadeInv == \A w \in Worker : made[w] => wpc[w] \in {"publish", "discard"}

OnDuty(w) == wpc[w] \notin {"idle", "unref"}

Counted == queued \cup {wjob[w] : w \in {v \in Worker : OnDuty(v)}}

CountInv == IsFiniteSet(Counted) /\ inflight = Cardinality(Counted)

IInv ==
  /\ TypeOK /\ HolderInv /\ RequestInv /\ ResponseInv /\ MadeInv
  /\ OneAnswer /\ CountInv /\ TeardownSafe
-----------------------------------------------------------------------------
\* A job keeps its type when one of its fields is set.
LEMMA FieldsTyped ==
  ASSUME NEW r \in JobRecord
  PROVE  /\ [r EXCEPT !.response = FALSE] \in JobRecord
         /\ [r EXCEPT !.abandoned = TRUE] \in JobRecord
         /\ [r EXCEPT !.stalled = TRUE] \in JobRecord
         /\ [r EXCEPT !.req = FALSE] \in JobRecord
         /\ r.refcount # 0 =>
              [r EXCEPT !.refcount = r.refcount - 1, !.live = r.refcount > 1]
                  \in JobRecord
         /\ \A b \in BOOLEAN : [r EXCEPT !.done = TRUE, !.response = b] \in
             JobRecord
<1> USE DEF JobRecord
<1>1. /\ [r EXCEPT !.response = FALSE] \in JobRecord
      /\ [r EXCEPT !.abandoned = TRUE] \in JobRecord
      /\ [r EXCEPT !.stalled = TRUE] \in JobRecord
      /\ [r EXCEPT !.req = FALSE] \in JobRecord
  OBVIOUS
<1>2. ASSUME r.refcount # 0
      PROVE  [r EXCEPT !.refcount = r.refcount - 1, !.live = r.refcount > 1]
          \in JobRecord
  <2>1. r.refcount - 1 \in 0 .. 2 /\ (r.refcount > 1) \in BOOLEAN
    BY <1>2
  <2> QED
    BY <2>1
<1>3. ASSUME NEW b \in BOOLEAN
      PROVE  [r EXCEPT !.done = TRUE, !.response = b] \in JobRecord
  OBVIOUS
<1> QED
  BY <1>1, <1>2, <1>3

\* Types: who drops a reference holds one, who counts out was counted.
LEMMA NextType ==
  ASSUME TypeOK, HolderInv, CountInv, [Next]_vars
  PROVE  TypeOK'
<1> USE NullAssumption, AnswerAssumption DEF TypeOK, HolderInv, AskerInv,
    ServerInv
<1>1. ASSUME NEW t \in Transport, NEW j \in Job, Request(t, j) PROVE TypeOK'
  <2>1. NewJob(t) \in JobRecord
    BY DEF NewJob, References, JobRecord
  <2>2. job' \in [Job -> JobRecord]
    BY <1>1, <2>1 DEF Request
  <2> QED
    BY <1>1, <2>2 DEF Request, jobVars, transportVars, workerVars
<1>2. ASSUME NEW t \in Transport, Direct(t) PROVE TypeOK'
  BY <1>2 DEF Direct, jobVars, transportVars, workerVars
<1>3. ASSUME NEW t \in Transport, TakeResponse(t) PROVE TypeOK'
  <2>1. job' \in [Job -> JobRecord]
    BY <1>3, FieldsTyped DEF TakeResponse
  <2> QED
    BY <1>3, <2>1 DEF TakeResponse, jobVars, transportVars, workerVars
<1>4. ASSUME NEW t \in Transport, Abandon(t) PROVE TypeOK'
  <2>1. job' \in [Job -> JobRecord]
    BY <1>4, FieldsTyped DEF Abandon, MayAbandon
  <2> QED
    BY <1>4, <2>1 DEF Abandon, MayAbandon, jobVars, transportVars, workerVars
<1>5. ASSUME NEW t \in Transport, Return(t) PROVE TypeOK'
  <2>1. job' \in [Job -> JobRecord]
    BY <1>5, FieldsTyped DEF Return, Unref
  <2> QED
    BY <1>5, <2>1 DEF Return, Unref, jobVars, transportVars, workerVars
<1>6. ASSUME NEW w \in Worker, NEW j \in Job, TakeJob(w, j) PROVE TypeOK'
  BY <1>6 DEF TakeJob, jobVars, transportVars, workerVars, Goto
<1>7. ASSUME NEW w \in Worker, Check(w) PROVE TypeOK'
  BY <1>7 DEF Check, jobVars, transportVars, workerVars, Goto
<1>8. ASSUME NEW w \in Worker, SubmitStep(w) PROVE TypeOK'
  BY <1>8 DEF SubmitStep, jobVars, transportVars, workerVars, Goto
<1>9. ASSUME NEW w \in Worker, StepStalls(w) PROVE TypeOK'
  <2>1. job' \in [Job -> JobRecord]
    BY <1>9, FieldsTyped DEF StepStalls, Goto
  <2> QED
    BY <1>9, <2>1 DEF StepStalls, Goto, jobVars, transportVars, workerVars
<1>10. ASSUME NEW w \in Worker, StepEnds(w) PROVE TypeOK'
  BY <1>10 DEF StepEnds, jobVars, transportVars, workerVars, Goto
<1>11. ASSUME NEW w \in Worker, Handled(w) PROVE TypeOK'
  BY <1>11 DEF Handled, jobVars, transportVars, workerVars, Goto
<1>12. ASSUME NEW w \in Worker, Publish(w) PROVE TypeOK'
  <2> DEFINE b == IF Wanted(w) THEN made[w] ELSE job[wjob[w]].response
  <2>1. wjob[w] \in Job /\ job[wjob[w]] \in JobRecord
    BY <1>12 DEF Publish
  <2>2. b \in BOOLEAN
    BY <2>1 DEF JobRecord
  <2>3. job' = [job EXCEPT ![wjob[w]] = [job[wjob[w]] EXCEPT !.done = TRUE,
      !.response = b]]
    BY <1>12 DEF Publish
  <2>4. job' \in [Job -> JobRecord]
    BY <2>1, <2>2, <2>3, FieldsTyped
  <2> QED
    BY <1>12, <2>4 DEF Publish, Goto, Wanted, jobVars, transportVars,
        workerVars
<1>13. ASSUME NEW w \in Worker, Discard(w) PROVE TypeOK'
  BY <1>13 DEF Discard, jobVars, transportVars, workerVars, Goto
<1>14. ASSUME NEW w \in Worker, FreeRequest(w) PROVE TypeOK'
  <2>1. job' \in [Job -> JobRecord]
    BY <1>14, FieldsTyped, ZenonT(40) DEF FreeRequest, Goto
  <2> QED
    BY <1>14, <2>1 DEF FreeRequest, Goto, jobVars, transportVars, workerVars
<1>15. ASSUME NEW w \in Worker, CountOut(w) PROVE TypeOK'
  <2>1. inflight # 0
    <3>1. wjob[w] \in Counted
      BY <1>15 DEF CountOut, Counted, OnDuty
    <3> QED
      BY <3>1, FS_EmptySet DEF CountInv
  <2> QED
    BY <1>15, <2>1 DEF CountOut, Goto, jobVars, transportVars, workerVars
<1>16. ASSUME NEW w \in Worker, Leave(w) PROVE TypeOK'
  <2>1. job' \in [Job -> JobRecord]
    BY <1>16, FieldsTyped, ZenonT(40) DEF Leave, Goto, Unref
  <2> QED
    BY <1>16, <2>1 DEF Leave, Goto, Unref, jobVars, transportVars, workerVars
<1>17. ASSUME Shutdown PROVE TypeOK'
  BY <1>17 DEF Shutdown, jobVars, transportVars, workerVars
<1>18. ASSUME Joined PROVE TypeOK'
  BY <1>18 DEF Joined, jobVars, transportVars, workerVars
<1>19. ASSUME WaitIdle PROVE TypeOK'
  BY <1>19 DEF WaitIdle, jobVars, transportVars, workerVars, Idle
<1>20. CASE UNCHANGED <<vars>>
  BY <1>20 DEF vars, jobVars, transportVars, workerVars
<1> QED
  BY <1>1, <1>2, <1>3, <1>4, <1>5, <1>6, <1>7, <1>8, <1>9, <1>10, <1>11, <1>12,
      <1>13, <1>14, <1>15, <1>16, <1>17, <1>18, <1>19, <1>20
  DEF Next, Transports, Working, Stepping, vars, jobVars, transportVars,
      workerVars

\* A job on its way is alive, and held once on each side.
LEMMA NextHolder ==
  ASSUME TypeOK, HolderInv, [Next]_vars
  PROVE  HolderInv'
<1> USE NullAssumption, AnswerAssumption DEF TypeOK, JobRecord, HolderInv,
    AskerInv, ServerInv, Serving, Owing
<1>1. ASSUME NEW t \in Transport, NEW j \in Job, Request(t, j) PROVE HolderInv'
  BY <1>1 DEF Request, jobVars, transportVars, workerVars, NewJob, References
<1>2. ASSUME NEW t \in Transport, Direct(t) PROVE HolderInv'
  BY <1>2 DEF Direct, jobVars, transportVars, workerVars
<1>3. ASSUME NEW t \in Transport, TakeResponse(t) PROVE HolderInv'
  BY <1>3 DEF TakeResponse, jobVars, transportVars, workerVars
<1>4. ASSUME NEW t \in Transport, Abandon(t) PROVE HolderInv'
  BY <1>4 DEF Abandon, jobVars, transportVars, workerVars, MayAbandon
<1>5. ASSUME NEW t \in Transport, Return(t) PROVE HolderInv'
  <2>1. tjob[t] \in Job /\ job[tjob[t]].live BY <1>5 DEF Return
  <2>2. AskerInv' BY <1>5 DEF Return, jobVars, transportVars, workerVars, Unref
  <2>3. ServerInv' BY <1>5, <2>1 DEF Return, jobVars, transportVars, workerVars, Unref
  <2>4. \A u \in Transport, w \in Worker :
          tpc'[u] # "idle" /\ wpc'[w] # "idle" /\ tjob'[u] = wjob'[w] =>
            job'[tjob'[u]].refcount = 2
    BY <1>5, <2>1 DEF Return, jobVars, transportVars, workerVars, Unref
  <2>5. \A j \in queued' : job'[j].live /\ job'[j].req /\ ~job'[j].done
    BY <1>5, <2>1 DEF Return, jobVars, transportVars, workerVars, Unref
  <2>6. \A j \in Job : job'[j].live => job'[j].refcount # 0
    BY <1>5, <2>1 DEF Return, jobVars, transportVars, workerVars, Unref
  <2> QED BY <2>2, <2>3, <2>4, <2>5, <2>6
<1>6. ASSUME NEW w \in Worker, NEW j \in Job, TakeJob(w, j) PROVE HolderInv'
  BY <1>6 DEF TakeJob, jobVars, transportVars, workerVars, Goto
<1>7. ASSUME NEW w \in Worker, Check(w) PROVE HolderInv'
  BY <1>7 DEF Check, jobVars, transportVars, workerVars, Goto
<1>8. ASSUME NEW w \in Worker, SubmitStep(w) PROVE HolderInv'
  BY <1>8 DEF SubmitStep, jobVars, transportVars, workerVars, Goto
<1>9. ASSUME NEW w \in Worker, StepStalls(w) PROVE HolderInv'
  BY <1>9 DEF StepStalls, jobVars, transportVars, workerVars, Goto
<1>10. ASSUME NEW w \in Worker, StepEnds(w) PROVE HolderInv'
  BY <1>10 DEF StepEnds, jobVars, transportVars, workerVars, Goto
<1>11. ASSUME NEW w \in Worker, Handled(w) PROVE HolderInv'
  BY <1>11 DEF Handled, jobVars, transportVars, workerVars, Goto
<1>12. ASSUME NEW w \in Worker, Publish(w) PROVE HolderInv'
  BY <1>12 DEF Publish, jobVars, transportVars, workerVars, Goto, Wanted
<1>13. ASSUME NEW w \in Worker, Discard(w) PROVE HolderInv'
  BY <1>13 DEF Discard, jobVars, transportVars, workerVars, Goto
<1>14. ASSUME NEW w \in Worker, FreeRequest(w) PROVE HolderInv'
  BY <1>14 DEF FreeRequest, jobVars, transportVars, workerVars, Goto
<1>15. ASSUME NEW w \in Worker, CountOut(w) PROVE HolderInv'
  BY <1>15 DEF CountOut, jobVars, transportVars, workerVars, Goto
<1>16. ASSUME NEW w \in Worker, Leave(w) PROVE HolderInv'
  BY <1>16 DEF Leave, jobVars, transportVars, workerVars, Goto, Unref
<1>17. ASSUME Shutdown PROVE HolderInv'
  BY <1>17 DEF Shutdown, jobVars, transportVars, workerVars
<1>18. ASSUME Joined PROVE HolderInv'
  BY <1>18 DEF Joined, jobVars, transportVars, workerVars
<1>19. ASSUME WaitIdle PROVE HolderInv'
  BY <1>19 DEF WaitIdle, jobVars, transportVars, workerVars, Idle
<1>20. CASE UNCHANGED <<vars>>
  BY <1>20 DEF vars, jobVars, transportVars, workerVars
<1> QED
  BY <1>1, <1>2, <1>3, <1>4, <1>5, <1>6, <1>7, <1>8, <1>9, <1>10, <1>11, <1>12,
      <1>13, <1>14, <1>15, <1>16, <1>17, <1>18, <1>19, <1>20
  DEF Next, Transports, Working, Stepping, vars, jobVars, transportVars,
      workerVars

\* A request stays with the pool or its worker until it is freed.
LEMMA NextRequest ==
  ASSUME TypeOK, HolderInv, RequestInv, [Next]_vars
  PROVE  RequestInv'
<1> USE NullAssumption, AnswerAssumption DEF TypeOK, JobRecord, HolderInv,
    AskerInv, ServerInv, Serving, Owing, RequestInv
<1>1. ASSUME NEW t \in Transport, NEW j \in Job, Request(t, j)
      PROVE  RequestInv'
  BY <1>1 DEF Request, jobVars, transportVars, workerVars, NewJob, References
<1>2. ASSUME NEW t \in Transport, Direct(t) PROVE RequestInv'
  BY <1>2 DEF Direct, jobVars, transportVars, workerVars
<1>3. ASSUME NEW t \in Transport, TakeResponse(t) PROVE RequestInv'
  BY <1>3 DEF TakeResponse, jobVars, transportVars, workerVars
<1>4. ASSUME NEW t \in Transport, Abandon(t) PROVE RequestInv'
  BY <1>4 DEF Abandon, jobVars, transportVars, workerVars, MayAbandon
<1>5. ASSUME NEW t \in Transport, Return(t) PROVE RequestInv'
  BY <1>5 DEF Return, jobVars, transportVars, workerVars, Unref
<1>6. ASSUME NEW w \in Worker, NEW j \in Job, TakeJob(w, j) PROVE RequestInv'
  BY <1>6 DEF TakeJob, jobVars, transportVars, workerVars, Goto
<1>7. ASSUME NEW w \in Worker, Check(w) PROVE RequestInv'
  BY <1>7 DEF Check, jobVars, transportVars, workerVars, Goto
<1>8. ASSUME NEW w \in Worker, SubmitStep(w) PROVE RequestInv'
  BY <1>8 DEF SubmitStep, jobVars, transportVars, workerVars, Goto
<1>9. ASSUME NEW w \in Worker, StepStalls(w) PROVE RequestInv'
  BY <1>9 DEF StepStalls, jobVars, transportVars, workerVars, Goto
<1>10. ASSUME NEW w \in Worker, StepEnds(w) PROVE RequestInv'
  BY <1>10 DEF StepEnds, jobVars, transportVars, workerVars, Goto
<1>11. ASSUME NEW w \in Worker, Handled(w) PROVE RequestInv'
  BY <1>11 DEF Handled, jobVars, transportVars, workerVars, Goto
<1>12. ASSUME NEW w \in Worker, Publish(w) PROVE RequestInv'
  BY <1>12 DEF Publish, jobVars, transportVars, workerVars, Goto, Wanted
<1>13. ASSUME NEW w \in Worker, Discard(w) PROVE RequestInv'
  BY <1>13 DEF Discard, jobVars, transportVars, workerVars, Goto
<1>14. ASSUME NEW w \in Worker, FreeRequest(w) PROVE RequestInv'
  BY <1>14 DEF FreeRequest, jobVars, transportVars, workerVars, Goto
<1>15. ASSUME NEW w \in Worker, CountOut(w) PROVE RequestInv'
  BY <1>15 DEF CountOut, jobVars, transportVars, workerVars, Goto
<1>16. ASSUME NEW w \in Worker, Leave(w) PROVE RequestInv'
  BY <1>16 DEF Leave, jobVars, transportVars, workerVars, Goto, Unref
<1>17. ASSUME Shutdown PROVE RequestInv'
  BY <1>17 DEF Shutdown, jobVars, transportVars, workerVars
<1>18. ASSUME Joined PROVE RequestInv'
  BY <1>18 DEF Joined, jobVars, transportVars, workerVars
<1>19. ASSUME WaitIdle PROVE RequestInv'
  BY <1>19 DEF WaitIdle, jobVars, transportVars, workerVars, Idle
<1>20. CASE UNCHANGED <<vars>>
  BY <1>20 DEF vars, jobVars, transportVars, workerVars
<1> QED
  BY <1>1, <1>2, <1>3, <1>4, <1>5, <1>6, <1>7, <1>8, <1>9, <1>10, <1>11, <1>12,
      <1>13, <1>14, <1>15, <1>16, <1>17, <1>18, <1>19, <1>20
  DEF Next, Transports, Working, Stepping, vars, jobVars, transportVars,
      workerVars

\* A response is stored only while its transport waits for it.
LEMMA NextResponse ==
  ASSUME TypeOK, HolderInv, RequestInv, ResponseInv, MadeInv, [Next]_vars
  PROVE  ResponseInv'
<1> USE NullAssumption, AnswerAssumption DEF TypeOK, JobRecord, HolderInv,
    AskerInv, ServerInv, Serving, ResponseInv, Waits
<1>1. ASSUME NEW t \in Transport, NEW j \in Job, Request(t, j)
      PROVE  ResponseInv'
  BY <1>1 DEF Request, jobVars, transportVars, workerVars, NewJob, References
<1>2. ASSUME NEW t \in Transport, Direct(t) PROVE ResponseInv'
  BY <1>2 DEF Direct, jobVars, transportVars, workerVars
<1>3. ASSUME NEW t \in Transport, TakeResponse(t) PROVE ResponseInv'
  BY <1>3 DEF TakeResponse, jobVars, transportVars, workerVars
<1>4. ASSUME NEW t \in Transport, Abandon(t) PROVE ResponseInv'
  BY <1>4 DEF Abandon, jobVars, transportVars, workerVars, MayAbandon
<1>5. ASSUME NEW t \in Transport, Return(t) PROVE ResponseInv'
  BY <1>5 DEF Return, jobVars, transportVars, workerVars, Unref
<1>6. ASSUME NEW w \in Worker, NEW j \in Job, TakeJob(w, j) PROVE ResponseInv'
  BY <1>6 DEF TakeJob, jobVars, transportVars, workerVars, Goto
<1>7. ASSUME NEW w \in Worker, Check(w) PROVE ResponseInv'
  BY <1>7 DEF Check, jobVars, transportVars, workerVars, Goto
<1>8. ASSUME NEW w \in Worker, SubmitStep(w) PROVE ResponseInv'
  BY <1>8 DEF SubmitStep, jobVars, transportVars, workerVars, Goto
<1>9. ASSUME NEW w \in Worker, StepStalls(w) PROVE ResponseInv'
  BY <1>9 DEF StepStalls, jobVars, transportVars, workerVars, Goto
<1>10. ASSUME NEW w \in Worker, StepEnds(w) PROVE ResponseInv'
  BY <1>10 DEF StepEnds, jobVars, transportVars, workerVars, Goto
<1>11. ASSUME NEW w \in Worker, Handled(w) PROVE ResponseInv'
  BY <1>11 DEF Handled, jobVars, transportVars, workerVars, Goto
<1>12. ASSUME NEW w \in Worker, Publish(w) PROVE ResponseInv'
  BY <1>12 DEF Publish, jobVars, transportVars, workerVars, Goto, Wanted
<1>13. ASSUME NEW w \in Worker, Discard(w) PROVE ResponseInv'
  BY <1>13 DEF Discard, jobVars, transportVars, workerVars, Goto
<1>14. ASSUME NEW w \in Worker, FreeRequest(w) PROVE ResponseInv'
  BY <1>14 DEF FreeRequest, jobVars, transportVars, workerVars, Goto
<1>15. ASSUME NEW w \in Worker, CountOut(w) PROVE ResponseInv'
  BY <1>15 DEF CountOut, jobVars, transportVars, workerVars, Goto
<1>16. ASSUME NEW w \in Worker, Leave(w) PROVE ResponseInv'
  BY <1>16 DEF Leave, jobVars, transportVars, workerVars, Goto, Unref
<1>17. ASSUME Shutdown PROVE ResponseInv'
  BY <1>17 DEF Shutdown, jobVars, transportVars, workerVars
<1>18. ASSUME Joined PROVE ResponseInv'
  BY <1>18 DEF Joined, jobVars, transportVars, workerVars
<1>19. ASSUME WaitIdle PROVE ResponseInv'
  BY <1>19 DEF WaitIdle, jobVars, transportVars, workerVars, Idle
<1>20. CASE UNCHANGED <<vars>>
  BY <1>20 DEF vars, jobVars, transportVars, workerVars
<1> QED
  BY <1>1, <1>2, <1>3, <1>4, <1>5, <1>6, <1>7, <1>8, <1>9, <1>10, <1>11, <1>12,
      <1>13, <1>14, <1>15, <1>16, <1>17, <1>18, <1>19, <1>20
  DEF Next, Transports, Working, Stepping, vars, jobVars, transportVars,
      workerVars

\* A worker hands its response over or frees it before it goes on.
LEMMA NextMade ==
  ASSUME TypeOK, MadeInv, [Next]_vars
  PROVE  MadeInv'
<1> USE DEF TypeOK, JobRecord, MadeInv
<1>1. ASSUME NEW t \in Transport, NEW j \in Job, Request(t, j) PROVE MadeInv'
  BY <1>1 DEF Request, jobVars, transportVars, workerVars, NewJob, References
<1>2. ASSUME NEW t \in Transport, Direct(t) PROVE MadeInv'
  BY <1>2 DEF Direct, jobVars, transportVars, workerVars
<1>3. ASSUME NEW t \in Transport, TakeResponse(t) PROVE MadeInv'
  BY <1>3 DEF TakeResponse, jobVars, transportVars, workerVars
<1>4. ASSUME NEW t \in Transport, Abandon(t) PROVE MadeInv'
  BY <1>4 DEF Abandon, jobVars, transportVars, workerVars, MayAbandon
<1>5. ASSUME NEW t \in Transport, Return(t) PROVE MadeInv'
  BY <1>5 DEF Return, jobVars, transportVars, workerVars, Unref
<1>6. ASSUME NEW w \in Worker, NEW j \in Job, TakeJob(w, j) PROVE MadeInv'
  BY <1>6 DEF TakeJob, jobVars, transportVars, workerVars, Goto
<1>7. ASSUME NEW w \in Worker, Check(w) PROVE MadeInv'
  BY <1>7 DEF Check, jobVars, transportVars, workerVars, Goto
<1>8. ASSUME NEW w \in Worker, SubmitStep(w) PROVE MadeInv'
  BY <1>8 DEF SubmitStep, jobVars, transportVars, workerVars, Goto
<1>9. ASSUME NEW w \in Worker, StepStalls(w) PROVE MadeInv'
  BY <1>9 DEF StepStalls, jobVars, transportVars, workerVars, Goto
<1>10. ASSUME NEW w \in Worker, StepEnds(w) PROVE MadeInv'
  BY <1>10 DEF StepEnds, jobVars, transportVars, workerVars, Goto
<1>11. ASSUME NEW w \in Worker, Handled(w) PROVE MadeInv'
  BY <1>11 DEF Handled, jobVars, transportVars, workerVars, Goto
<1>12. ASSUME NEW w \in Worker, Publish(w) PROVE MadeInv'
  BY <1>12 DEF Publish, jobVars, transportVars, workerVars, Goto, Wanted
<1>13. ASSUME NEW w \in Worker, Discard(w) PROVE MadeInv'
  BY <1>13 DEF Discard, jobVars, transportVars, workerVars, Goto
<1>14. ASSUME NEW w \in Worker, FreeRequest(w) PROVE MadeInv'
  BY <1>14 DEF FreeRequest, jobVars, transportVars, workerVars, Goto
<1>15. ASSUME NEW w \in Worker, CountOut(w) PROVE MadeInv'
  BY <1>15 DEF CountOut, jobVars, transportVars, workerVars, Goto
<1>16. ASSUME NEW w \in Worker, Leave(w) PROVE MadeInv'
  BY <1>16 DEF Leave, jobVars, transportVars, workerVars, Goto, Unref
<1>17. ASSUME Shutdown PROVE MadeInv'
  BY <1>17 DEF Shutdown, jobVars, transportVars, workerVars
<1>18. ASSUME Joined PROVE MadeInv'
  BY <1>18 DEF Joined, jobVars, transportVars, workerVars
<1>19. ASSUME WaitIdle PROVE MadeInv'
  BY <1>19 DEF WaitIdle, jobVars, transportVars, workerVars, Idle
<1>20. CASE UNCHANGED <<vars>>
  BY <1>20 DEF vars, jobVars, transportVars, workerVars
<1> QED
  BY <1>1, <1>2, <1>3, <1>4, <1>5, <1>6, <1>7, <1>8, <1>9, <1>10, <1>11, <1>12,
      <1>13, <1>14, <1>15, <1>16, <1>17, <1>18, <1>19, <1>20
  DEF Next, Transports, Working, Stepping, vars, jobVars, transportVars,
      workerVars

\* A transport takes its own response, or abandons its own job.
LEMMA NextAnswer ==
  ASSUME TypeOK, HolderInv, ResponseInv, OneAnswer, [Next]_vars
  PROVE  OneAnswer'
<1> USE NullAssumption, AnswerAssumption DEF TypeOK, JobRecord, HolderInv,
    AskerInv, ServerInv, ResponseInv, Waits, OneAnswer
<1>1. ASSUME NEW t \in Transport, NEW j \in Job, Request(t, j) PROVE OneAnswer'
  BY <1>1 DEF Request, jobVars, transportVars, workerVars, NewJob, References
<1>2. ASSUME NEW t \in Transport, Direct(t) PROVE OneAnswer'
  BY <1>2 DEF Direct, jobVars, transportVars, workerVars
<1>3. ASSUME NEW t \in Transport, TakeResponse(t) PROVE OneAnswer'
  BY <1>3 DEF TakeResponse, jobVars, transportVars, workerVars
<1>4. ASSUME NEW t \in Transport, Abandon(t) PROVE OneAnswer'
  BY <1>4 DEF Abandon, jobVars, transportVars, workerVars, MayAbandon
<1>5. ASSUME NEW t \in Transport, Return(t) PROVE OneAnswer'
  BY <1>5 DEF Return, jobVars, transportVars, workerVars, Unref
<1>6. ASSUME NEW w \in Worker, NEW j \in Job, TakeJob(w, j) PROVE OneAnswer'
  BY <1>6 DEF TakeJob, jobVars, transportVars, workerVars, Goto
<1>7. ASSUME NEW w \in Worker, Check(w) PROVE OneAnswer'
  BY <1>7 DEF Check, jobVars, transportVars, workerVars, Goto
<1>8. ASSUME NEW w \in Worker, SubmitStep(w) PROVE OneAnswer'
  BY <1>8 DEF SubmitStep, jobVars, transportVars, workerVars, Goto
<1>9. ASSUME NEW w \in Worker, StepStalls(w) PROVE OneAnswer'
  BY <1>9 DEF StepStalls, jobVars, transportVars, workerVars, Goto
<1>10. ASSUME NEW w \in Worker, StepEnds(w) PROVE OneAnswer'
  BY <1>10 DEF StepEnds, jobVars, transportVars, workerVars, Goto
<1>11. ASSUME NEW w \in Worker, Handled(w) PROVE OneAnswer'
  BY <1>11 DEF Handled, jobVars, transportVars, workerVars, Goto
<1>12. ASSUME NEW w \in Worker, Publish(w) PROVE OneAnswer'
  BY <1>12 DEF Publish, jobVars, transportVars, workerVars, Goto, Wanted
<1>13. ASSUME NEW w \in Worker, Discard(w) PROVE OneAnswer'
  BY <1>13 DEF Discard, jobVars, transportVars, workerVars, Goto
<1>14. ASSUME NEW w \in Worker, FreeRequest(w) PROVE OneAnswer'
  BY <1>14 DEF FreeRequest, jobVars, transportVars, workerVars, Goto
<1>15. ASSUME NEW w \in Worker, CountOut(w) PROVE OneAnswer'
  BY <1>15 DEF CountOut, jobVars, transportVars, workerVars, Goto
<1>16. ASSUME NEW w \in Worker, Leave(w) PROVE OneAnswer'
  BY <1>16 DEF Leave, jobVars, transportVars, workerVars, Goto, Unref
<1>17. ASSUME Shutdown PROVE OneAnswer'
  BY <1>17 DEF Shutdown, jobVars, transportVars, workerVars
<1>18. ASSUME Joined PROVE OneAnswer'
  BY <1>18 DEF Joined, jobVars, transportVars, workerVars
<1>19. ASSUME WaitIdle PROVE OneAnswer'
  BY <1>19 DEF WaitIdle, jobVars, transportVars, workerVars, Idle
<1>20. CASE UNCHANGED <<vars>>
  BY <1>20 DEF vars, jobVars, transportVars, workerVars
<1> QED
  BY <1>1, <1>2, <1>3, <1>4, <1>5, <1>6, <1>7, <1>8, <1>9, <1>10, <1>11, <1>12,
      <1>13, <1>14, <1>15, <1>16, <1>17, <1>18, <1>19, <1>20
  DEF Next, Transports, Working, Stepping, vars, jobVars, transportVars,
      workerVars

\* The count stays when no job enters or leaves the pool or its worker.
LEMMA SameCount ==
  ASSUME CountInv, UNCHANGED <<queued, inflight, wjob>>,
         \A w \in Worker : OnDuty(w)' <=> OnDuty(w)
  PROVE  CountInv'
<1>1. Counted' = Counted
  BY DEF Counted
<1> QED
  BY <1>1 DEF CountInv

\* s_inflight counts what is in the pool or with a worker.
LEMMA NextCount ==
  ASSUME TypeOK, HolderInv, CountInv, [Next]_vars
  PROVE  CountInv'
<1> USE DEF TypeOK, HolderInv, AskerInv, ServerInv
<1>1. ASSUME NEW t \in Transport, NEW j \in Job, Request(t, j) PROVE CountInv'
  <2>1. j \notin Counted
    BY <1>1 DEF Request, Counted, OnDuty
  <2>2. Counted' = Counted \cup {j}
    BY <1>1 DEF Request, Counted, OnDuty, workerVars
  <2> QED
    BY <1>1, <2>1, <2>2, FS_AddElement DEF Request, CountInv
<1>2. ASSUME NEW w \in Worker, NEW j \in Job, TakeJob(w, j) PROVE CountInv'
  <2>1. Counted' = Counted
    <3>1. \A v \in Worker : OnDuty(v)' <=> OnDuty(v) \/ v = w
      BY <1>2 DEF TakeJob, Goto, OnDuty
    <3>2. \A v \in Worker : OnDuty(v) => wjob'[v] = wjob[v]
      BY <1>2 DEF TakeJob, OnDuty
    <3>3. wjob'[w] = j /\ j \in queued /\ queued' = queued \ {j}
      BY <1>2 DEF TakeJob
    <3> QED
      BY <3>1, <3>2, <3>3 DEF Counted
  <2> QED
    BY <1>2, <2>1 DEF TakeJob, CountInv
<1>3. ASSUME NEW w \in Worker, Check(w) PROVE CountInv'
  <2>1. \A v \in Worker : OnDuty(v)' <=> OnDuty(v)
    BY <1>3 DEF Check, OnDuty, Goto, TypeOK
  <2> QED
    BY <1>3, <2>1, SameCount DEF Check, Goto, jobVars, transportVars,
        workerVars
<1>4. ASSUME NEW w \in Worker, SubmitStep(w) PROVE CountInv'
  <2>1. \A v \in Worker : OnDuty(v)' <=> OnDuty(v)
    BY <1>4 DEF SubmitStep, OnDuty, Goto, TypeOK
  <2> QED
    BY <1>4, <2>1, SameCount DEF SubmitStep, Goto, jobVars, transportVars,
        workerVars
<1>5. ASSUME NEW w \in Worker, StepStalls(w) PROVE CountInv'
  <2>1. \A v \in Worker : OnDuty(v)' <=> OnDuty(v)
    BY <1>5 DEF StepStalls, OnDuty, Goto, TypeOK
  <2> QED
    BY <1>5, <2>1, SameCount DEF StepStalls, Goto, jobVars, transportVars,
        workerVars
<1>6. ASSUME NEW w \in Worker, StepEnds(w) PROVE CountInv'
  <2>1. \A v \in Worker : OnDuty(v)' <=> OnDuty(v)
    BY <1>6 DEF StepEnds, OnDuty, Goto, TypeOK
  <2> QED
    BY <1>6, <2>1, SameCount DEF StepEnds, Goto, jobVars, transportVars,
        workerVars
<1>7. ASSUME NEW w \in Worker, Handled(w) PROVE CountInv'
  <2>1. \A v \in Worker : OnDuty(v)' <=> OnDuty(v)
    BY <1>7 DEF Handled, OnDuty, Goto, TypeOK
  <2> QED
    BY <1>7, <2>1, SameCount DEF Handled, Goto, jobVars, transportVars,
        workerVars
<1>8. ASSUME NEW w \in Worker, Publish(w) PROVE CountInv'
  <2>1. \A v \in Worker : OnDuty(v)' <=> OnDuty(v)
    BY <1>8 DEF Publish, OnDuty, Goto, TypeOK
  <2> QED
    BY <1>8, <2>1, SameCount DEF Publish, Goto, jobVars, transportVars,
        workerVars
<1>9. ASSUME NEW w \in Worker, Discard(w) PROVE CountInv'
  <2>1. \A v \in Worker : OnDuty(v)' <=> OnDuty(v)
    BY <1>9 DEF Discard, OnDuty, Goto, TypeOK
  <2> QED
    BY <1>9, <2>1, SameCount DEF Discard, Goto, jobVars, transportVars,
        workerVars
<1>10. ASSUME NEW w \in Worker, FreeRequest(w) PROVE CountInv'
  <2>1. \A v \in Worker : OnDuty(v)' <=> OnDuty(v)
    BY <1>10 DEF FreeRequest, OnDuty, Goto, TypeOK
  <2> QED
    BY <1>10, <2>1, SameCount DEF FreeRequest, Goto, jobVars, transportVars,
        workerVars
<1>11. ASSUME NEW w \in Worker, CountOut(w) PROVE CountInv'
  <2>1. wjob[w] \in Counted
    BY <1>11 DEF CountOut, Counted, OnDuty
  <2>2. Counted' = Counted \ {wjob[w]}
    <3>1. \A v \in Worker : OnDuty(v)' <=> OnDuty(v) /\ v # w
      BY <1>11 DEF CountOut, Goto, OnDuty
    <3>2. \A v \in Worker : OnDuty(v) /\ v # w => wjob[v] # wjob[w]
      BY <1>11 DEF CountOut, OnDuty
    <3>3. wjob[w] \notin queued
      BY <1>11 DEF CountOut
    <3>4. wjob' = wjob /\ queued' = queued
      BY <1>11 DEF CountOut
    <3> QED
      BY <3>1, <3>2, <3>3, <3>4 DEF Counted
  <2> QED
    BY <1>11, <2>1, <2>2, FS_RemoveElement DEF CountOut, CountInv
<1>12. ASSUME NEW w \in Worker, Leave(w) PROVE CountInv'
  <2>1. \A v \in Worker : OnDuty(v)' <=> OnDuty(v)
    BY <1>12 DEF Leave, OnDuty, Goto, TypeOK
  <2> QED
    BY <1>12, <2>1, SameCount DEF Leave, Goto, jobVars, transportVars,
        workerVars
<1>13. CASE UNCHANGED <<queued, inflight, wjob, wpc>>
  BY <1>13, SameCount DEF OnDuty
<1> QED
  BY <1>1, <1>2, <1>3, <1>4, <1>5, <1>6, <1>7, <1>8, <1>9, <1>10, <1>11, <1>12,
      <1>13
  DEF Next, Transports, Working, Stepping, vars, jobVars, transportVars,
      workerVars, Direct, TakeResponse, Abandon, Return, Shutdown, Joined,
      WaitIdle, Idle, MayAbandon, Unref

\* Once the queue is destroyed no worker enters the dispatch layer.
LEMMA NextTeardown ==
  ASSUME TypeOK, CountInv, TeardownSafe, [Next]_vars
  PROVE  TeardownSafe'
<1> USE DEF TypeOK, TeardownSafe
<1>1. ASSUME NEW t \in Transport, NEW j \in Job, Request(t, j)
      PROVE  TeardownSafe'
  BY <1>1 DEF Request, jobVars, transportVars, workerVars, NewJob, References
<1>2. ASSUME NEW t \in Transport, Direct(t) PROVE TeardownSafe'
  BY <1>2 DEF Direct, jobVars, transportVars, workerVars
<1>3. ASSUME NEW t \in Transport, TakeResponse(t) PROVE TeardownSafe'
  BY <1>3 DEF TakeResponse, jobVars, transportVars, workerVars
<1>4. ASSUME NEW t \in Transport, Abandon(t) PROVE TeardownSafe'
  BY <1>4 DEF Abandon, jobVars, transportVars, workerVars, MayAbandon
<1>5. ASSUME NEW t \in Transport, Return(t) PROVE TeardownSafe'
  BY <1>5 DEF Return, jobVars, transportVars, workerVars, Unref
<1>6. ASSUME NEW w \in Worker, NEW j \in Job, TakeJob(w, j) PROVE TeardownSafe'
  BY <1>6 DEF TakeJob, jobVars, transportVars, workerVars, Goto
<1>7. ASSUME NEW w \in Worker, Check(w) PROVE TeardownSafe'
  BY <1>7 DEF Check, jobVars, transportVars, workerVars, Goto
<1>8. ASSUME NEW w \in Worker, SubmitStep(w) PROVE TeardownSafe'
  BY <1>8 DEF SubmitStep, jobVars, transportVars, workerVars, Goto
<1>9. ASSUME NEW w \in Worker, StepStalls(w) PROVE TeardownSafe'
  BY <1>9 DEF StepStalls, jobVars, transportVars, workerVars, Goto
<1>10. ASSUME NEW w \in Worker, StepEnds(w) PROVE TeardownSafe'
  BY <1>10 DEF StepEnds, jobVars, transportVars, workerVars, Goto
<1>11. ASSUME NEW w \in Worker, Handled(w) PROVE TeardownSafe'
  BY <1>11 DEF Handled, jobVars, transportVars, workerVars, Goto
<1>12. ASSUME NEW w \in Worker, Publish(w) PROVE TeardownSafe'
  BY <1>12 DEF Publish, jobVars, transportVars, workerVars, Goto, Wanted
<1>13. ASSUME NEW w \in Worker, Discard(w) PROVE TeardownSafe'
  BY <1>13 DEF Discard, jobVars, transportVars, workerVars, Goto
<1>14. ASSUME NEW w \in Worker, FreeRequest(w) PROVE TeardownSafe'
  BY <1>14 DEF FreeRequest, jobVars, transportVars, workerVars, Goto
<1>15. ASSUME NEW w \in Worker, CountOut(w) PROVE TeardownSafe'
  BY <1>15 DEF CountOut, jobVars, transportVars, workerVars, Goto
<1>16. ASSUME NEW w \in Worker, Leave(w) PROVE TeardownSafe'
  BY <1>16 DEF Leave, jobVars, transportVars, workerVars, Goto, Unref
<1>17. ASSUME Shutdown PROVE TeardownSafe'
  BY <1>17 DEF Shutdown, jobVars, transportVars, workerVars
<1>18. ASSUME Joined PROVE TeardownSafe'
  BY <1>18 DEF Joined, jobVars, transportVars, workerVars
<1>19. ASSUME WaitIdle PROVE TeardownSafe'
  <2>1. CASE Idle
    <3>1. Counted = {}
      BY <2>1, FS_EmptySet DEF Idle, CountInv
    <3>2. queued = {} /\ \A w \in Worker : ~OnDuty(w)
      BY <3>1, SMTT(40) DEF Counted
    <3> QED
      BY <1>19, <3>2 DEF WaitIdle, OnDuty, jobVars, workerVars
  <2>2. CASE ~Idle
    BY <1>19, <2>2 DEF WaitIdle
  <2> QED
    BY <2>1, <2>2
<1>20. CASE UNCHANGED <<vars>>
  BY <1>20 DEF vars, jobVars, transportVars, workerVars
<1> QED
  BY <1>1, <1>2, <1>3, <1>4, <1>5, <1>6, <1>7, <1>8, <1>9, <1>10, <1>11, <1>12,
      <1>13, <1>14, <1>15, <1>16, <1>17, <1>18, <1>19, <1>20
  DEF Next, Transports, Working, Stepping, vars, jobVars, transportVars,
      workerVars

-----------------------------------------------------------------------------
\* Nothing is on its way when the program starts.
THEOREM InitIInv == Init => IInv
<1> SUFFICES ASSUME Init PROVE IInv
  OBVIOUS
<1> USE NullAssumption, AnswerAssumption DEF Init, Freed
<1>1. TypeOK
  <2>1. Freed \in JobRecord
    BY DEF JobRecord
  <2>2. job \in [Job -> JobRecord]
    BY <2>1
  <2> QED
    BY <2>2 DEF TypeOK
<1>2. HolderInv /\ RequestInv /\ ResponseInv
  BY DEF HolderInv, AskerInv, ServerInv, RequestInv, ResponseInv
<1>3. MadeInv /\ OneAnswer /\ TeardownSafe
  BY DEF MadeInv, OneAnswer, TeardownSafe
<1>4. CountInv
  <2>1. Counted = {}
    BY DEF Counted, OnDuty
  <2> QED
    BY <2>1, FS_EmptySet DEF CountInv
<1> QED
  BY <1>1, <1>2, <1>3, <1>4 DEF IInv

\* The strengthened invariant is inductive.
THEOREM NextIInv == IInv /\ [Next]_vars => IInv'
BY NextType, NextHolder, NextRequest, NextResponse, NextMade, NextAnswer,
    NextCount,
   NextTeardown DEF IInv

\* The strengthened invariant always holds.
THEOREM Inductive == Spec => []IInv
BY InitIInv, NextIInv, PTL DEF Spec

\* Every variable of the runner keeps its type.
THEOREM TypeCorrect == Spec => []TypeOK
<1>1. IInv => TypeOK
  BY DEF IInv
<1> QED
  BY <1>1, Inductive, PTL

\* Whoever still touches a job finds it alive.
THEOREM JobsAreAlive == Spec => []JobAlive
<1>1. IInv => JobAlive
  BY DEF IInv, HolderInv, AskerInv, ServerInv, JobAlive, TypeOK, Owing, Serving
<1> QED
  BY <1>1, Inductive, PTL

\* A freed job holds no response and no request.
THEOREM NothingIsLeaked == Spec => []NothingLeaks
<1>1. IInv => NothingLeaks
  BY DEF IInv, RequestInv, ResponseInv, MadeInv, NothingLeaks, TypeOK
<1> QED
  BY <1>1, Inductive, PTL

\* A request is answered by its own response or by busy, never both.
THEOREM OneAnswerOnly == Spec => []OneAnswer
<1>1. IInv => OneAnswer
  BY DEF IInv
<1> QED
  BY <1>1, Inductive, PTL

\* The queue is destroyed only when no worker can enter it.
THEOREM TeardownIsSafe == Spec => []TeardownSafe
<1>1. IInv => TeardownSafe
  BY DEF IInv
<1> QED
  BY <1>1, Inductive, PTL
=============================================================================
