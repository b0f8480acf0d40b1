--------------------------- MODULE DispatchRunner ---------------------------
(***************************************************************************)
(* A request of an MCP client is dispatched by a worker thread, so that    *)
(* its transport thread can answer `busy' when the emulation thread sits   *)
(* on a command (src/src/emulator/mcp/dispatch_runner.c).  Transport and   *)
(* worker share a job: the lock, the response and the reference count      *)
(* decide who answers and who frees.                                       *)
(*                                                                         *)
(* The dispatch of a request is a sequence of steps, each a synchronous    *)
(* submit to the command queue (dispatch.c, _submit_dbgapi); a step may    *)
(* report that it is stalled before it ends.  At exit the main thread      *)
(* waits a bounded time for the workers before it destroys the queue.      *)
(***************************************************************************)
EXTENDS Naturals, FiniteSets

CONSTANTS
  Transport,   \* threads that read requests and send answers
  Worker,      \* threads of the pool
  Job,         \* addresses a job can be allocated at
  Null

ASSUME NullAssumption == Null \notin Job \cup Transport

ASSUME AnswerAssumption == {"none", "busy"} \cap (Transport \cup {Null}) = {}

VARIABLES
  job,       \* the memory of the jobs
  queued,    \* jobs pushed to the pool that no thread has taken
  inflight,  \* s_inflight
  pool,      \* TRUE if the thread pool could be created
  tpc, tjob, \* per transport: where it stands in runner_request(), its job
  answer,    \* per transport: none, busy, or the client whose response it got
  wpc, wjob, \* per worker: where it stands in _worker(), its job
  made,      \* per worker: it owns a response
  phase,     \* what the main thread does: run, join, wait, destroyed, leaked
  late       \* history: a step was submitted after `busy' had been answered

jobVars       == <<job, queued, inflight>>
transportVars == <<tpc, tjob, answer>>
workerVars    == <<wpc, wjob, made>>
vars == <<jobVars, pool, transportVars, workerVars, phase, late>>

Freed == [live |-> FALSE, refcount |-> 0, client |-> Null, req |-> FALSE,
          response |-> FALSE, done |-> FALSE, stalled |-> FALSE, abandoned |-> FALSE]

\* The transport and the worker share a new job.
OneReference == 1                                  \* mutant of References
References == 2

NewJob(t) == [live |-> TRUE, refcount |-> References, client |-> t, req |-> TRUE,
              response |-> FALSE, done |-> FALSE, stalled |-> FALSE, abandoned |-> FALSE]

\* g_free() leaves the contents behind: what was not released is leaked.
Unref(j) == [job EXCEPT ![j].refcount = @ - 1,
                        ![j].live = job[j].refcount > 1]

-----------------------------------------------------------------------------
(* Transport thread: mcp_dispatch_runner_request(). *)

\* Allocate the job, count it and push it.  A pool that cannot start another
\* thread keeps the job for the next free one.
Request(t, j) ==
  /\ phase = "run" /\ pool
  /\ tpc[t] = "idle"
  /\ ~job[j].live
  /\ job' = [job EXCEPT ![j] = NewJob(t)]
  /\ queued' = queued \cup {j}
  /\ inflight' = inflight + 1
  /\ tpc' = [tpc EXCEPT ![t] = "waiting"]
  /\ tjob' = [tjob EXCEPT ![t] = j]
  /\ answer' = [answer EXCEPT ![t] = "none"]
  /\ UNCHANGED <<pool, workerVars, phase, late>>

\* Without a pool the transport dispatches the request itself.
Direct(t) ==
  /\ phase = "run" /\ ~pool
  /\ tpc[t] = "idle"
  /\ answer' = [answer EXCEPT ![t] = t]
  /\ UNCHANGED <<jobVars, pool, tpc, tjob, workerVars, phase, late>>

\* The wait is over, under the lock of the job.
TakeResponse(t) ==
  LET j == tjob[t] IN
  /\ tpc[t] = "waiting"
  /\ job[j].done
  /\ job' = [job EXCEPT ![j].response = FALSE]
  /\ answer' = [answer EXCEPT ![t] = IF job[j].response THEN job[j].client ELSE Null]
  /\ tpc' = [tpc EXCEPT ![t] = "leaving"]
  /\ UNCHANGED <<queued, inflight, pool, tjob, workerVars, phase, late>>

NeverAbandon(t) == FALSE                           \* mutant of MayAbandon
AbandonEvenIfDone(t) == job[tjob[t]].stalled       \* mutant of MayAbandon
MayAbandon(t) == job[tjob[t]].stalled /\ ~job[tjob[t]].done

Abandon(t) ==
  /\ tpc[t] = "waiting"
  /\ MayAbandon(t)
  /\ job' = [job EXCEPT ![tjob[t]].abandoned = TRUE]
  /\ answer' = [answer EXCEPT ![t] = "busy"]
  /\ tpc' = [tpc EXCEPT ![t] = "leaving"]
  /\ UNCHANGED <<queued, inflight, pool, tjob, workerVars, phase, late>>

\* Drops the transport's reference and returns the answer.
Return(t) ==
  /\ tpc[t] = "leaving"
  /\ job' = Unref(tjob[t])
  /\ tpc' = [tpc EXCEPT ![t] = "idle"]
  /\ UNCHANGED <<queued, inflight, pool, tjob, answer, workerVars, phase, late>>

-----------------------------------------------------------------------------
(* Worker thread: _worker() and the submits of mcp_dispatch_request(). *)

Goto(w, p) == wpc' = [wpc EXCEPT ![w] = p]

TakeJob(w, j) ==
  /\ wpc[w] = "idle"
  /\ j \in queued
  /\ queued' = queued \ {j}
  /\ wjob' = [wjob EXCEPT ![w] = j]
  /\ Goto(w, "handler")
  /\ UNCHANGED <<job, inflight, pool, transportVars, made, phase, late>>

\* _submit_dbgapi(): an abandoned request submits no further step ...
Check(w) ==
  /\ wpc[w] = "handler"
  /\ ~job[wjob[w]].abandoned
  /\ Goto(w, "checked")
  /\ UNCHANGED <<jobVars, pool, transportVars, wjob, made, phase, late>>

\* ... but the lock is free again when the step is submitted.
SubmitStep(w) ==
  /\ wpc[w] = "checked"
  /\ late' = (late \/ job[wjob[w]].abandoned)
  /\ Goto(w, "submitted")
  /\ UNCHANGED <<jobVars, pool, transportVars, wjob, made, phase>>

\* _job_on_stall(), once per step, from inside the submit.
StepStalls(w) ==
  /\ wpc[w] = "submitted"
  /\ job' = [job EXCEPT ![wjob[w]].stalled = TRUE]
  /\ Goto(w, "stuck")
  /\ UNCHANGED <<queued, inflight, pool, transportVars, wjob, made, phase, late>>

StepEnds(w) ==
  /\ wpc[w] \in {"submitted", "stuck"}
  /\ Goto(w, "handler")
  /\ UNCHANGED <<jobVars, pool, transportVars, wjob, made, phase, late>>

\* The handler has built its response; one that was only partly allocated
\* is NULL.
Handled(w) ==
  /\ wpc[w] = "handler"
  /\ \E response \in BOOLEAN : made' = [made EXCEPT ![w] = response]
  /\ Goto(w, "publish")
  /\ UNCHANGED <<jobVars, pool, transportVars, wjob, phase, late>>

\* The worker hands its response over, unless nobody wants it any more.
StoreAlways(w) == TRUE                             \* mutant of Wanted
Wanted(w) == ~job[wjob[w]].abandoned

Publish(w) ==
  /\ wpc[w] = "publish"
  /\ job' = [job EXCEPT ![wjob[w]].done = TRUE,
                        ![wjob[w]].response = IF Wanted(w) THEN made[w] ELSE @]
  /\ made' = [made EXCEPT ![w] = IF Wanted(w) THEN FALSE ELSE @]
  /\ Goto(w, IF Wanted(w) THEN "release" ELSE "discard")
  /\ UNCHANGED <<queued, inflight, pool, transportVars, wjob, phase, late>>

Discard(w) ==
  /\ wpc[w] = "discard"
  /\ made' = [made EXCEPT ![w] = FALSE]
  /\ Goto(w, "release")
  /\ UNCHANGED <<jobVars, pool, transportVars, wjob, phase, late>>

FreeRequest(w) ==
  /\ wpc[w] = "release"
  /\ job' = [job EXCEPT ![wjob[w]].req = FALSE]
  /\ Goto(w, "count")
  /\ UNCHANGED <<queued, inflight, pool, transportVars, wjob, made, phase, late>>

CountOut(w) ==
  /\ wpc[w] = "count"
  /\ inflight' = inflight - 1
  /\ Goto(w, "unref")
  /\ UNCHANGED <<job, queued, pool, transportVars, wjob, made, phase, late>>

UnrefTwice(w) ==                                   \* mutant of Leave
  /\ wpc[w] = "unref"
  /\ job' = [job EXCEPT ![wjob[w]].live = FALSE]
  /\ Goto(w, "idle")
  /\ UNCHANGED <<queued, inflight, pool, transportVars, wjob, made, phase, late>>
Leave(w) ==
  /\ wpc[w] = "unref"
  /\ job' = Unref(wjob[w])
  /\ Goto(w, "idle")
  /\ UNCHANGED <<queued, inflight, pool, transportVars, wjob, made, phase, late>>

-----------------------------------------------------------------------------
(* Main thread at exit: main.c, main_pipe.c. *)

\* Join the transports: a transport ends between two requests.
Shutdown ==
  /\ phase = "run" /\ phase' = "join"
  /\ UNCHANGED <<jobVars, pool, transportVars, workerVars, late>>

Joined ==
  /\ phase = "join"
  /\ \A t \in Transport : tpc[t] = "idle"
  /\ phase' = "wait"
  /\ UNCHANGED <<jobVars, pool, transportVars, workerVars, late>>

\* mcp_dispatch_runner_wait_idle(): nothing runs any more, or the limit is
\* reached; only the former lets the main thread call dbgapi_destroy().
IdleIfQueueEmpty == queued = {}                    \* mutant of Idle
Idle == inflight = 0

WaitIdle ==
  /\ phase = "wait"
  /\ phase' = IF Idle THEN "destroyed" ELSE "leaked"
  /\ UNCHANGED <<jobVars, pool, transportVars, workerVars, late>>

-----------------------------------------------------------------------------
Init ==
  /\ job = [j \in Job |-> Freed]
  /\ queued = {} /\ inflight = 0
  /\ pool \in BOOLEAN
  /\ tpc = [t \in Transport |-> "idle"]
  /\ tjob = [t \in Transport |-> Null]
  /\ answer = [t \in Transport |-> "none"]
  /\ wpc = [w \in Worker |-> "idle"]
  /\ wjob = [w \in Worker |-> Null]
  /\ made = [w \in Worker |-> FALSE]
  /\ phase = "run" /\ late = FALSE

Transports(t) == \/ \E j \in Job : Request(t, j)
                 \/ Direct(t)
                 \/ TakeResponse(t) \/ Abandon(t) \/ Return(t)

\* A worker goes on unless it is inside a step: the emulation thread may sit
\* on that for ever.
Working(w) == \/ \E j \in Job : TakeJob(w, j)
              \/ Handled(w) \/ Publish(w) \/ Discard(w)
              \/ FreeRequest(w) \/ CountOut(w) \/ Leave(w)
Stepping(w) == Check(w) \/ SubmitStep(w) \/ StepStalls(w) \/ StepEnds(w)

Next == \/ \E t \in Transport : Transports(t)
        \/ \E w \in Worker : Working(w) \/ Stepping(w)
        \/ Shutdown \/ Joined \/ WaitIdle

Spec == Init /\ [][Next]_vars

\* Threads run; the pool serves jobs in order, so none is passed over for ever
\* (SF of TakeJob); a handler has finitely many steps (SF of Handled); a
\* submit that is not answered in time reports the stall.
FairSpec ==
  /\ Spec
  /\ \A t \in Transport : WF_vars(TakeResponse(t) \/ Abandon(t) \/ Return(t))
  /\ \A j \in Job : SF_vars(\E w \in Worker : TakeJob(w, j))
  /\ \A w \in Worker : /\ WF_vars(Working(w) /\ wpc[w] \notin {"idle", "handler"})
                       /\ SF_vars(Handled(w))
                       /\ WF_vars(SubmitStep(w) \/ StepStalls(w))

-----------------------------------------------------------------------------
(* Properties *)

JobRecord == [live : BOOLEAN, refcount : 0 .. 2, client : Transport \cup {Null},
              req : BOOLEAN, response : BOOLEAN, done : BOOLEAN,
              stalled : BOOLEAN, abandoned : BOOLEAN]

TypeOK ==
  /\ job \in [Job -> JobRecord]
  /\ queued \subseteq Job
  /\ inflight \in Nat
  /\ pool \in BOOLEAN
  /\ tpc \in [Transport -> {"idle", "waiting", "leaving"}]
  /\ tjob \in [Transport -> Job \cup {Null}]
  /\ answer \in [Transport -> Transport \cup {"none", "busy", Null}]
  /\ wpc \in [Worker -> {"idle", "handler", "checked", "submitted", "stuck", "publish",
                         "discard", "release", "count", "unref"}]
  /\ wjob \in [Worker -> Job \cup {Null}]
  /\ made \in [Worker -> BOOLEAN]
  /\ phase \in {"run", "join", "wait", "destroyed", "leaked"}
  /\ late \in BOOLEAN

\* Whoever still touches a job finds it alive, the request with it until the
\* worker frees it (dispatch_runner.c, _job_unref, _worker).
JobAlive ==
  /\ \A j \in queued : job[j].live /\ job[j].req
  /\ \A t \in Transport : tpc[t] # "idle" => job[tjob[t]].live /\ job[tjob[t]].client = t
  /\ \A w \in Worker : wpc[w] # "idle" =>
       /\ job[wjob[w]].live
       /\ job[wjob[w]].req <=> wpc[w] \notin {"count", "unref"}

\* Nothing is lost with a freed job or a finished worker: each response went
\* to the client or was freed.
NothingLeaks ==
  /\ \A j \in Job : ~job[j].live => ~job[j].response /\ ~job[j].req
  /\ \A w \in Worker : wpc[w] = "idle" => ~made[w]

\* A job is abandoned only by a transport that answered busy before the
\* worker was done; whoever got a response got its own (comment of
\* st_MCP_RUNNER_JOB).
OneAnswer ==
  /\ \A t \in Transport : answer[t] \in {"none", "busy", t, Null}
  /\ \A j \in Job : job[j].live /\ job[j].abandoned =>
       job[j].stalled /\ ~job[j].response
  /\ \A t \in Transport : tpc[t] = "leaving" =>
       (answer[t] = "busy" <=> job[tjob[t]].abandoned)

\* After wait_idle() said that nothing runs, no worker is in the dispatch
\* layer, whose locks are then destroyed.
TeardownSafe ==
  phase = "destroyed" => /\ queued = {}
                         /\ \A w \in Worker : wpc[w] \in {"idle", "unref"}

\* `Further dbgapi steps of the same request are not submitted any more'
\* (dispatch_runner.h:51).
NothingAfterBusy == ~late

\* Every request is answered, whatever the emulation thread does.
Answered == \A t \in Transport : tpc[t] = "waiting" ~> tpc[t] = "idle"
=============================================================================
