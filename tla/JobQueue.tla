------------------------------- MODULE JobQueue -------------------------------
(***************************************************************************)
(* The job queue: rows of generation_jobs and job_steps in the database,   *)
(* worker processes (worker.py) that recover, claim and execute, and API   *)
(* requests that cancel and retry.  Nobody holds a lock between reading a  *)
(* row and committing it: every session works on the rows it has loaded    *)
(* and its commit writes the columns it changed over whatever the table    *)
(* holds by then.                                                          *)
(*                                                                         *)
(* A definition whose name starts with Bug is a mistake that the code next *)
(* to it could have made.  Spec does not use it; it stands there to show   *)
(* that a property can fail.                                               *)
(***************************************************************************)
EXTENDS Pipelines, Naturals

CONSTANTS
  Jobs,        \* generation_jobs.id, numbered in created_at order
  Workers,     \* worker slots; a slot restarts under a new worker_id
  Clients,     \* API requests in flight at a time
  Kind,        \* the kind of each job
  Queue,       \* the queue each worker serves
  MaxRetries,  \* 3 in the code
  ReviewPass,  \* settings().prototype_review_pass
  Races,       \* the windows in which a commit may overtake another one
  Faults,      \* the faults that may happen
  MaxFaults,   \* bound: how many faults happen in a behaviour
  Nobody, NoJob, NoRow, NoRequest   \* null values

RaceKinds == {"cancel", "retry", "recover", "claim", "lease"}
FaultKinds == {"crash", "db", "redis", "late"}

ASSUME JobsAssumption == Jobs \subseteq Nat /\ NoJob \notin Jobs
ASSUME KindAssumption == Kind \in [Jobs -> Kinds]
ASSUME QueueAssumption == Queue \in [Workers -> Queues]
ASSUME NobodyAssumption == Nobody \notin Workers
ASSUME BoundsAssumption == MaxRetries \in Nat /\ MaxFaults \in Nat
ASSUME ReviewAssumption == ReviewPass \in BOOLEAN
ASSUME ScenarioAssumption == Races \subseteq RaceKinds /\ Faults \subseteq FaultKinds

-------------------------------------------------------------------------------
(* Rows and sessions *)

Length(j) == Len(PIPELINES[Kind[j]])
StepName(j, i) == PIPELINES[Kind[j]][i]

\* generation_jobs.  step is the position of the step in the pipeline, and
\* lease the relation of lease_until to the clock.
Row == [state : JobStates, step : Nat \ {0}, cancel_requested : BOOLEAN,
        retry_count : Nat, worker_id : Workers \cup {Nobody},
        lease : {"none", "live", "expired"}]

\* job_steps.state
StepStates == {"QUEUED", "RUNNING", "SUCCEEDED", "FAILED"}

CreatedRow == [state |-> "QUEUED", step |-> 1, cancel_requested |-> FALSE,
               retry_count |-> 0, worker_id |-> Nobody, lease |-> "none"]

ASSUME NoRowAssumption == NoRow \notin Row

\* What UPDATE leaves in a row r when a session that loaded it as old holds it
\* as new: the columns the session changed, and no others.
Flush(r, old, new) ==
  LET Column(c) == IF new[c] # old[c] THEN new[c] ELSE r[c]
  IN  [state |-> Column("state"), step |-> Column("step"),
       cancel_requested |-> Column("cancel_requested"),
       retry_count |-> Column("retry_count"),
       worker_id |-> Column("worker_id"), lease |-> Column("lease")]

\* The commit writes over a change it has not seen: some column it writes is no
\* longer what it loaded, or the job has been retried since.
Columns == {"state", "step", "cancel_requested", "retry_count", "worker_id", "lease"}
Overtaken(r, old, new) ==
  \/ r.retry_count # old.retry_count
  \/ \E c \in Columns : new[c] # old[c] /\ r[c] # old[c]

\* Does the commit of a session go through?  Always in the code; a kind outside
\* Races stands for a deployment in which that window is never hit.
Lands(kind, r, old, new) == kind \in Races \/ ~Overtaken(r, old, new)

VARIABLES
  row,        \* generation_jobs
  steps,      \* job_steps: the state of each step of each job
  retries,    \* audit log: the number of JOB_RETRY entries of each job
  pc,         \* where each worker's main thread is
  view,       \* the rows loaded in each worker's session, as loaded
  stepping,   \* step_name of execute_step
  verdict,    \* the state that execute_step's except branch moves the job to
  current,    \* current["job"], shared with the pulse thread
  heartbeat,  \* "worker:<id>" is present in Redis
  request,    \* the API request each client has in flight
  faults      \* how many faults have happened

database == <<row, steps, retries>>
session == <<pc, view, stepping, verdict, current>>
vars == <<row, steps, retries, pc, view, stepping, verdict, current,
          heartbeat, request, faults>>

\* The points of worker.main, claim and execute_step between two accesses to
\* the database or to Redis; from "refresh" on the worker has won a job.
Executing == {"refresh", "start", "enter", "handle", "recheck", "commit",
              "failed", "failing"}
PCs == {"off", "loop", "recover", "claim", "cas"} \cup Executing

NoView == [j \in Jobs |-> NoRow]
Loaded(w) == {j \in Jobs : view[w][j] # NoRow}
Only(j, r) == [NoView EXCEPT ![j] = r]
Drop(w, j) == [view[w] EXCEPT ![j] = NoRow]

\* Worker w is in the middle of job j.
Working(w, j) == pc[w] \in Executing /\ view[w][j] # NoRow

Init ==
  /\ row = [j \in Jobs |-> CreatedRow]
  /\ steps = [j \in Jobs |-> [i \in 1 .. Length(j) |-> "QUEUED"]]
  /\ retries = [j \in Jobs |-> 0]
  /\ pc = [w \in Workers |-> "off"]
  /\ view = [w \in Workers |-> NoView]
  /\ stepping = [w \in Workers |-> 1]
  /\ verdict = [w \in Workers |-> "FAILED"]
  /\ current = [w \in Workers |-> NoJob]
  /\ heartbeat = [w \in Workers |-> FALSE]
  /\ request = [c \in Clients |-> NoRequest]
  /\ faults = 0

-------------------------------------------------------------------------------
(* API requests: scoped() loads the row, cancel_job or retry_job decides on it *)
(* and commits.                                                               *)

Cancelled(r) ==
  [r EXCEPT !.cancel_requested = TRUE,
            !.state = IF @ \in Waiting THEN "CANCELLED" ELSE @]

Retried(r, i) ==
  [state |-> "RETRYING", step |-> i, cancel_requested |-> FALSE,
   retry_count |-> r.retry_count + 1, worker_id |-> Nobody, lease |-> "none"]

CancelLoad(c, j) ==
  /\ request[c] = NoRequest
  /\ row[j].state \notin TERMINAL
  /\ request' = [request EXCEPT ![c] =
       [op |-> "cancel", job |-> j, old |-> row[j], new |-> Cancelled(row[j])]]
  /\ UNCHANGED <<database, session, heartbeat, faults>>

\* Retrying a job that has not stopped.
BugRetryAnyState(c, j) ==
  /\ request[c] = NoRequest
  /\ row[j].retry_count < MaxRetries
  /\ request' = [request EXCEPT ![c] =
       [op |-> "retry", job |-> j, old |-> row[j], new |-> row[j]]]
  /\ UNCHANGED <<database, session, heartbeat, faults>>

\* Retrying without a limit.
BugRetryUnbounded(c, j) ==
  /\ request[c] = NoRequest
  /\ row[j].state \in Stopped
  /\ request' = [request EXCEPT ![c] =
       [op |-> "retry", job |-> j, old |-> row[j], new |-> row[j]]]
  /\ UNCHANGED <<database, session, heartbeat, faults>>

RetryLoad(c, j) ==
  /\ request[c] = NoRequest
  /\ row[j].state \in Stopped
  /\ row[j].retry_count < MaxRetries
  /\ request' = [request EXCEPT ![c] =
       [op |-> "retry", job |-> j, old |-> row[j], new |-> row[j]]]
  /\ UNCHANGED <<database, session, heartbeat, faults>>

Passes(j, i) == steps[j][i] = "SUCCEEDED"

\* Resuming at a step that has been passed, or over steps that have not.
BugResumePassed(j, i) == \A k \in 1 .. (i - 1) : Passes(j, k)
BugResumeAhead(j, i) == ~Passes(j, i)

MayResume(j, i) == (\A k \in 1 .. (i - 1) : Passes(j, k)) /\ ~Passes(j, i)

\* The step rows are a second query.  The step to resume from is chosen by the
\* user, or is the row's.
RetryCheck(c) ==
  LET q == request[c] IN
  /\ q # NoRequest
  /\ q.op = "retry"
  /\ \E i \in 1 .. Length(q.job) :
       /\ MayResume(q.job, i)
       /\ request' = [request EXCEPT ![c] =
            [op |-> "resume", job |-> q.job, old |-> q.old, new |-> Retried(q.old, i)]]
  /\ UNCHANGED <<database, session, heartbeat, faults>>

Save(c, kind) ==
  LET q == request[c] IN
  /\ Lands(kind, row[q.job], q.old, q.new)
  /\ row' = [row EXCEPT ![q.job] = Flush(@, q.old, q.new)]
  /\ request' = [request EXCEPT ![c] = NoRequest]
  /\ UNCHANGED <<steps, session, heartbeat, faults>>

CancelCommit(c) ==
  /\ request[c] # NoRequest
  /\ request[c].op = "cancel"
  /\ Save(c, "cancel")
  /\ UNCHANGED retries

RetryCommit(c) ==
  /\ request[c] # NoRequest
  /\ request[c].op = "resume"
  /\ Save(c, "retry")
  /\ retries' = [retries EXCEPT ![request[c].job] = @ + 1]

\* A 409 or 422 of retry_job, a database error or a lost connection.
RequestFails(c) ==
  /\ request[c] # NoRequest
  /\ request' = [request EXCEPT ![c] = NoRequest]
  /\ UNCHANGED <<database, session, heartbeat, faults>>

-------------------------------------------------------------------------------
(* The main thread of a worker: recover_expired *)

Boot(w) ==
  /\ pc[w] = "off"
  /\ pc' = [pc EXCEPT ![w] = "loop"]
  /\ UNCHANGED <<database, view, stepping, verdict, current, heartbeat, request, faults>>

\* Recovering running jobs whose lease has not expired, or none that has.
BugExpiredLive(j) == row[j].state = "RUNNING"
BugExpiredNone(j) == row[j].state = "RUNNING" /\ row[j].lease = "none"

Expired(j) == row[j].state = "RUNNING" /\ row[j].lease = "expired"
WorkerLost(r) == [r EXCEPT !.state = "FAILED", !.worker_id = Nobody, !.lease = "none"]

RecoverScan(w) ==
  /\ pc[w] = "loop"
  /\ view' = [view EXCEPT ![w] = [j \in Jobs |-> IF Expired(j) THEN row[j] ELSE NoRow]]
  /\ pc' = [pc EXCEPT ![w] = IF \E j \in Jobs : Expired(j) THEN "recover" ELSE "claim"]
  /\ UNCHANGED <<database, stepping, verdict, current, heartbeat, request, faults>>

\* One commit for every row of the scan.
RecoverCommit(w) ==
  LET Hit(j) == /\ view[w][j] # NoRow
                /\ Lands("recover", row[j], view[w][j], WorkerLost(view[w][j]))
  IN
  /\ pc[w] = "recover"
  /\ row' = [j \in Jobs |-> IF Hit(j) THEN Flush(row[j], view[w][j], WorkerLost(view[w][j]))
                                      ELSE row[j]]
  /\ steps' = [j \in Jobs |-> IF Hit(j) THEN [steps[j] EXCEPT ![view[w][j].step] = "FAILED"]
                                        ELSE steps[j]]
  /\ view' = [view EXCEPT ![w] = NoView]
  /\ pc' = [pc EXCEPT ![w] = "claim"]
  /\ UNCHANGED <<retries, stepping, verdict, current, heartbeat, request, faults>>

-------------------------------------------------------------------------------
(* claim *)

\* Claiming for any queue.
BugClaimableAnywhere(w, j) == row[j].state \in Waiting

Claimable(w, j) ==
  /\ row[j].state \in Waiting
  /\ StepName(j, row[j].step) \in Serves[Queue[w]]

ClaimRefused(w) ==
  /\ pc[w] = "claim"
  /\ ~heartbeat[w]
  /\ pc' = [pc EXCEPT ![w] = "loop"]
  /\ UNCHANGED <<database, view, stepping, verdict, current, heartbeat, request, faults>>

ClaimScan(w) ==
  /\ pc[w] = "claim"
  /\ heartbeat[w]
  /\ view' = [view EXCEPT ![w] = [j \in Jobs |-> IF Claimable(w, j) THEN row[j] ELSE NoRow]]
  /\ pc' = [pc EXCEPT ![w] = IF \E j \in Jobs : Claimable(w, j) THEN "cas" ELSE "loop"]
  /\ UNCHANGED <<database, stepping, verdict, current, heartbeat, request, faults>>

\* The jobs of the scan are tried in created_at order.
Candidate(w, j) ==
  /\ pc[w] = "cas"
  /\ view[w][j] # NoRow
  /\ \A k \in Jobs : view[w][k] # NoRow => j <= k

NextCandidate(w, j) ==
  /\ view' = [view EXCEPT ![w] = Drop(w, j)]
  /\ pc' = [pc EXCEPT ![w] = IF Loaded(w) = {j} THEN "loop" ELSE "cas"]

ClaimCancelled(w, j) ==
  LET old == view[w][j]
      new == [old EXCEPT !.state = "CANCELLED"]
  IN
  /\ Candidate(w, j)
  /\ old.cancel_requested
  /\ row' = [row EXCEPT ![j] = IF Lands("claim", @, old, new) THEN Flush(@, old, new) ELSE @]
  /\ NextCandidate(w, j)
  /\ UNCHANGED <<steps, retries, stepping, verdict, current, heartbeat, request, faults>>

\* An UPDATE without a condition on the state.
BugClaimUnconditionally(w, j) ==
  /\ Candidate(w, j)
  /\ ~view[w][j].cancel_requested
  /\ row' = [row EXCEPT ![j] = [@ EXCEPT !.state = "RUNNING", !.worker_id = w, !.lease = "live"]]
  /\ view' = [view EXCEPT ![w] = Only(j, view[w][j])]
  /\ pc' = [pc EXCEPT ![w] = "refresh"]
  /\ UNCHANGED <<steps, retries, stepping, verdict, current, heartbeat, request, faults>>

\* UPDATE ... WHERE id = j AND state IN ('QUEUED', 'RETRYING')
ClaimWon(w, j) ==
  /\ Candidate(w, j)
  /\ ~view[w][j].cancel_requested
  /\ row[j].state \in Waiting
  /\ row' = [row EXCEPT ![j] = [@ EXCEPT !.state = "RUNNING", !.worker_id = w, !.lease = "live"]]
  /\ view' = [view EXCEPT ![w] = Only(j, view[w][j])]
  /\ pc' = [pc EXCEPT ![w] = "refresh"]
  /\ UNCHANGED <<steps, retries, stepping, verdict, current, heartbeat, request, faults>>

ClaimLost(w, j) ==
  /\ Candidate(w, j)
  /\ ~view[w][j].cancel_requested
  /\ row[j].state \notin Waiting
  /\ NextCandidate(w, j)
  /\ UNCHANGED <<database, stepping, verdict, current, heartbeat, request, faults>>

\* Going on with the row as it was scanned.
BugNoRefresh(w, j) ==
  /\ pc[w] = "refresh"
  /\ view[w][j] # NoRow
  /\ current' = [current EXCEPT ![w] = j]
  /\ pc' = [pc EXCEPT ![w] = "start"]
  /\ UNCHANGED <<database, view, stepping, verdict, heartbeat, request, faults>>

\* db.refresh, zrem of the queue hint, and current["job"] = job.id.
Refresh(w, j) ==
  /\ pc[w] = "refresh"
  /\ view[w][j] # NoRow
  /\ view' = [view EXCEPT ![w] = Only(j, row[j])]
  /\ current' = [current EXCEPT ![w] = j]
  /\ pc' = [pc EXCEPT ![w] = "start"]
  /\ UNCHANGED <<database, stepping, verdict, heartbeat, request, faults>>

-------------------------------------------------------------------------------
(* execute_step *)

At(w, j, point) == pc[w] = point /\ view[w][j] # NoRow
GoTo(w, point) == pc' = [pc EXCEPT ![w] = point]

\* execute_step returns to the loop of main, which forgets the job.
Return(w) ==
  /\ GoTo(w, "loop")
  /\ view' = [view EXCEPT ![w] = NoView]
  /\ current' = [current EXCEPT ![w] = NoJob]

\* An exception inside the try block: the except branch will move the job to v.
Raise(w, v) ==
  /\ GoTo(w, "failed")
  /\ verdict' = [verdict EXCEPT ![w] = v]

StartRefused(w, j) ==
  /\ At(w, j, "start")
  /\ view[w][j].state \in TERMINAL
  /\ Return(w)
  /\ UNCHANGED <<database, stepping, verdict, heartbeat, request, faults>>

\* The session's own copy of the row decides; the step row is RUNNING, committed.
Start(w, j) ==
  LET old == view[w][j]
      new == [old EXCEPT !.state = "RUNNING"]
  IN
  /\ At(w, j, "start")
  /\ old.state \notin TERMINAL
  /\ row' = [row EXCEPT ![j] = Flush(@, old, new)]
  /\ steps' = [steps EXCEPT ![j][old.step] = "RUNNING"]
  /\ view' = [view EXCEPT ![w][j] = new]
  /\ stepping' = [stepping EXCEPT ![w] = old.step]
  /\ GoTo(w, "enter")
  /\ UNCHANGED <<retries, verdict, current, heartbeat, request, faults>>

\* cancelled() reads the flag of the row as committed.
Proceed(w, j, point) ==
  \/ /\ row[j].cancel_requested
     /\ Raise(w, "CANCELLED")
  \/ /\ ~row[j].cancel_requested
     /\ GoTo(w, point)
     /\ UNCHANGED verdict

Enter(w, j) ==
  /\ At(w, j, "enter")
  /\ Proceed(w, j, "handle")
  /\ UNCHANGED <<database, view, stepping, current, heartbeat, request, faults>>

HandlerReturns(w, j) ==
  /\ At(w, j, "handle")
  /\ GoTo(w, "recheck")
  /\ UNCHANGED <<database, view, stepping, verdict, current, heartbeat, request, faults>>

\* A handler that polls cancelled() sees the flag before it returns.
HandlerCancelled(w, j) ==
  /\ At(w, j, "handle")
  /\ row[j].cancel_requested
  /\ Raise(w, "CANCELLED")
  /\ UNCHANGED <<database, view, stepping, current, heartbeat, request, faults>>

Recheck(w, j) ==
  /\ At(w, j, "recheck")
  /\ Proceed(w, j, "commit")
  /\ UNCHANGED <<database, view, stepping, current, heartbeat, request, faults>>

\* The handler fails, the plan is no longer the approved one, or the database
\* refuses a query or the commit.
StepRaises(w, j) ==
  /\ pc[w] \in {"enter", "handle", "recheck", "commit"}
  /\ view[w][j] # NoRow
  /\ Raise(w, "FAILED")
  /\ UNCHANGED <<database, view, stepping, current, heartbeat, request, faults>>

\* The states that the last step of a pipeline may leave a job in.
Outcomes(kind) ==
  IF kind \in {"analyze", "plan"} /\ ~ReviewPass THEN {"WAITING_REVIEW"}
  ELSE IF kind \in {"ppt", "video"} THEN Finished
  ELSE {"SUCCEEDED"}

\* Giving up the worker but not the lease; resetting the request to cancel, too.
BugReleasedLeased(r) == [r EXCEPT !.worker_id = Nobody]
BugReleasedReset(r) == [r EXCEPT !.worker_id = Nobody, !.lease = "none", !.cancel_requested = FALSE]

Released(r) == [r EXCEPT !.worker_id = Nobody, !.lease = "none"]

\* Staying at the step that was passed; going past the last step.
BugCompletedAgain(j, r, i) ==
  IF i = Length(j) THEN {Released([r EXCEPT !.state = s]) : s \in Outcomes(Kind[j])}
                   ELSE {Released([r EXCEPT !.state = "QUEUED"])}
BugCompletedPastEnd(j, r, i) == {Released([r EXCEPT !.state = "QUEUED", !.step = i + 1])}

Completed(j, r, i) ==
  IF i = Length(j) THEN {Released([r EXCEPT !.state = s]) : s \in Outcomes(Kind[j])}
                   ELSE {Released([r EXCEPT !.state = "QUEUED", !.step = i + 1])}

Succeed(w, j) ==
  /\ At(w, j, "commit")
  /\ \E new \in Completed(j, view[w][j], stepping[w]) :
       row' = [row EXCEPT ![j] = Flush(@, view[w][j], new)]
  /\ steps' = [steps EXCEPT ![j][stepping[w]] = "SUCCEEDED"]

StepSucceeds(w, j) ==
  /\ Succeed(w, j)
  /\ Return(w)
  /\ UNCHANGED <<retries, stepping, verdict, heartbeat, request, faults>>

\* The commit is done and then unlink of the quarantined file raises, or the
\* answer of the commit is lost.
RaisesAfterCommit(w, j) ==
  /\ "late" \in Faults
  /\ faults < MaxFaults
  /\ Succeed(w, j)
  /\ Raise(w, "FAILED")
  /\ faults' = faults + 1
  /\ UNCHANGED <<retries, view, stepping, current, heartbeat, request>>

\* The except branch reloads the row.
Reload(w, j) ==
  /\ At(w, j, "failed")
  /\ MayMove(row[j].state, verdict[w])
  /\ view' = [view EXCEPT ![w][j] = row[j]]
  /\ GoTo(w, "failing")
  /\ UNCHANGED <<database, stepping, verdict, current, heartbeat, request, faults>>

\* transition() raises in the except branch: the exception ends in main, which
\* does not reset current["job"].
ReloadRefused(w, j) ==
  /\ At(w, j, "failed")
  /\ ~MayMove(row[j].state, verdict[w])
  /\ view' = [view EXCEPT ![w] = NoView]
  /\ GoTo(w, "loop")
  /\ UNCHANGED <<database, stepping, verdict, current, heartbeat, request, faults>>

StepFails(w, j) ==
  LET old == view[w][j] IN
  /\ At(w, j, "failing")
  /\ row' = [row EXCEPT ![j] = Flush(@, old, Released([old EXCEPT !.state = verdict[w]]))]
  /\ steps' = [steps EXCEPT ![j][stepping[w]] = "FAILED"]
  /\ Return(w)
  /\ UNCHANGED <<retries, stepping, verdict, heartbeat, request, faults>>

-------------------------------------------------------------------------------
(* Exceptions that reach main, crashes, the pulse thread and the clock *)

\* The session is closed without a commit and the loop starts again after
\* "dependency_retry"; current["job"] stays as it was.
Escape(w) ==
  /\ faults < MaxFaults
  /\ \/ "db" \in Faults /\ pc[w] \in PCs \ {"off", "enter", "handle", "recheck", "commit"}
     \/ "redis" \in Faults /\ pc[w] \in {"claim", "refresh"}
  /\ GoTo(w, "loop")
  /\ view' = [view EXCEPT ![w] = NoView]
  /\ faults' = faults + 1
  /\ UNCHANGED <<database, stepping, verdict, current, heartbeat, request>>

\* The process dies.  Its successor has another worker_id and no heartbeat.
Crash(w) ==
  /\ "crash" \in Faults
  /\ faults < MaxFaults
  /\ pc[w] # "off"
  /\ GoTo(w, "off")
  /\ view' = [view EXCEPT ![w] = NoView]
  /\ current' = [current EXCEPT ![w] = NoJob]
  /\ heartbeat' = [heartbeat EXCEPT ![w] = FALSE]
  /\ faults' = faults + 1
  /\ UNCHANGED <<database, stepping, verdict, request>>

\* Renewing the lease of every job of the worker.
BugPulseAll(w) ==
  /\ pc[w] # "off"
  /\ heartbeat' = [heartbeat EXCEPT ![w] = TRUE]
  /\ row' = [j \in Jobs |-> [row[j] EXCEPT !.lease = IF row[j].worker_id = w THEN "live" ELSE @]]
  /\ UNCHANGED <<steps, retries, session, request, faults>>

\* One round of pulse(): the heartbeat, then the lease of the current job.
Pulse(w) ==
  LET renews(j) == j = current[w] /\ row[j].worker_id = w IN
  /\ pc[w] # "off"
  /\ heartbeat' = [heartbeat EXCEPT ![w] = TRUE]
  /\ row' = [j \in Jobs |-> [row[j] EXCEPT !.lease = IF renews(j) THEN "live" ELSE @]]
  /\ UNCHANGED <<steps, retries, session, request, faults>>

\* Redis loses the key, or its 20 seconds pass without a pulse.
HeartbeatExpires(w) ==
  /\ "redis" \in Faults
  /\ faults < MaxFaults
  /\ heartbeat[w]
  /\ heartbeat' = [heartbeat EXCEPT ![w] = FALSE]
  /\ faults' = faults + 1
  /\ UNCHANGED <<database, session, request>>

\* A process that pulses renews the lease of its current job, and a lease that
\* was just granted outlasts the few statements before that.
Renewed(j) ==
  \E w \in Workers : row[j].worker_id = w /\ (current[w] = j \/ Working(w, j))

\* The lease time passes; with "lease" in Races also for a job whose worker is
\* alive but does not pulse (stopping after SIGTERM, or cut off for so long).
LeaseExpires(j) ==
  /\ row[j].lease = "live"
  /\ "lease" \in Races \/ ~Renewed(j)
  /\ row' = [row EXCEPT ![j].lease = "expired"]
  /\ UNCHANGED <<steps, retries, session, heartbeat, request, faults>>

ClientStep(c) ==
  \/ \E j \in Jobs : CancelLoad(c, j) \/ RetryLoad(c, j)
  \/ RetryCheck(c)
  \/ CancelCommit(c)
  \/ RetryCommit(c)
  \/ RequestFails(c)

ClaimStep(w, j) ==
  ClaimCancelled(w, j) \/ ClaimWon(w, j) \/ ClaimLost(w, j) \/ Refresh(w, j)

ExecuteStep(w, j) ==
  \/ StartRefused(w, j) \/ Start(w, j) \/ Enter(w, j)
  \/ HandlerReturns(w, j) \/ HandlerCancelled(w, j) \/ Recheck(w, j)
  \/ StepRaises(w, j) \/ StepSucceeds(w, j)
  \/ Reload(w, j) \/ ReloadRefused(w, j) \/ StepFails(w, j)

\* What the main thread does by itself, without a fault.
WorkerStep(w) ==
  \/ Boot(w) \/ RecoverScan(w) \/ RecoverCommit(w)
  \/ ClaimRefused(w) \/ ClaimScan(w)
  \/ \E j \in Jobs : ClaimStep(w, j) \/ ExecuteStep(w, j)

FaultStep(w) ==
  \/ Escape(w) \/ Crash(w) \/ HeartbeatExpires(w)
  \/ \E j \in Jobs : RaisesAfterCommit(w, j)

Next ==
  \/ \E c \in Clients : ClientStep(c)
  \/ \E w \in Workers : WorkerStep(w) \/ FaultStep(w) \/ Pulse(w)
  \/ \E j \in Jobs : LeaseExpires(j)

Spec == Init /\ [][Next]_vars

\* Worker threads run (compose restarts a container that exits), handlers end
\* (every one has a timeout), the pulse thread runs and time passes.  Nothing
\* is assumed of the users, nor of faults.
Fairness ==
  /\ \A w \in Workers : WF_vars(WorkerStep(w)) /\ WF_vars(Pulse(w))
  /\ \A j \in Jobs : WF_vars(LeaseExpires(j))

LiveSpec == Spec /\ Fairness

-------------------------------------------------------------------------------
(* Properties *)

\* Requests hold a row as loaded and the row they are about to write.
Request == [op : {"cancel", "retry", "resume"}, job : Jobs, old : Row, new : Row]

\* Every table, session and request holds values of its type, and a job's step
\* is a step of its pipeline (PIPELINES[kind] is indexed with it).
TypeOK ==
  /\ row \in [Jobs -> Row]
  /\ \A j \in Jobs : row[j].step \in 1 .. Length(j)
  /\ DOMAIN steps = Jobs
  /\ \A j \in Jobs : steps[j] \in [1 .. Length(j) -> StepStates]
  /\ retries \in [Jobs -> Nat]
  /\ pc \in [Workers -> PCs]
  /\ view \in [Workers -> [Jobs -> Row \cup {NoRow}]]
  /\ \A w \in Workers : \A j \in Jobs :
       view[w][j] # NoRow => view[w][j].step \in 1 .. Length(j)
  /\ stepping \in [Workers -> Nat \ {0}]
  /\ verdict \in [Workers -> {"FAILED", "CANCELLED"}]
  /\ current \in [Workers -> Jobs \cup {NoJob}]
  /\ heartbeat \in [Workers -> BOOLEAN]
  /\ request \in [Clients -> Request \cup {NoRequest}]
  /\ \A c \in Clients : request[c] # NoRequest =>
       /\ request[c].old.step \in 1 .. Length(request[c].job)
       /\ request[c].new.step \in 1 .. Length(request[c].job)
  /\ faults \in 0 .. MaxFaults

\* The conditional UPDATE of claim hands a job to one worker: no two workers are
\* ever between winning the same job and giving it up.
MutualExclusion ==
  \A j \in Jobs : \A v, w \in Workers : Working(v, j) /\ Working(w, j) => v = w

\* A worker that is executing owns the row: nobody (cancel, retry,
\* recover_expired, another worker) has moved the job under its feet.
Ownership ==
  \A w \in Workers : \A j \in Jobs :
    Working(w, j) => row[j].state = "RUNNING" /\ row[j].worker_id = w

\* Only a RUNNING row with a lease can be found by recover_expired, and only a
\* row that nobody holds may be claimed.
Leased ==
  \A j \in Jobs :
    /\ row[j].state = "RUNNING" <=> row[j].worker_id # Nobody
    /\ row[j].state = "RUNNING" <=> row[j].lease # "none"

\* The job row and its checkpoints agree: the steps before job.step have
\* succeeded, no later step has been started, job.step itself has succeeded
\* exactly if the job is finished, and a step is RUNNING only in a RUNNING job.
Checkpoints ==
  \A j \in Jobs :
    /\ \A i \in 1 .. Length(j) :
         /\ i < row[j].step => steps[j][i] = "SUCCEEDED"
         /\ i > row[j].step => steps[j][i] = "QUEUED"
         /\ steps[j][i] = "RUNNING" => row[j].state = "RUNNING"
    /\ steps[j][row[j].step] = "SUCCEEDED" <=> row[j].state \in Finished
    /\ row[j].state \in Finished => row[j].step = Length(j)

\* A job is retried at most MaxRetries times, as the audit log counts them.
RetryBudget == \A j \in Jobs : retries[j] <= MaxRetries

\* A cancellation is never forgotten: whatever other commits write over the row,
\* only a retry clears the request.
CancelRemembered ==
  [][\A j \in Jobs :
       row[j].cancel_requested /\ ~row'[j].cancel_requested => retries'[j] = retries[j] + 1]_vars

\* A step that has succeeded stays so: retry resumes after it and no failing or
\* lost worker takes it back.
CheckpointsKept ==
  [][\A j \in Jobs : \A i \in 1 .. Length(j) :
       steps[j][i] = "SUCCEEDED" => steps'[j][i] = "SUCCEEDED"]_vars

\* The rows that execute_step works on are those of the database, but for a
\* cancellation: its commits, which check neither worker_id nor lease, never
\* write over a change made since the claim.
SessionFresh ==
  \A w \in Workers : \A j \in Jobs :
    (Working(w, j) /\ pc[w] \notin {"refresh", "failed"}) =>
      \A col \in Columns \ {"cancel_requested"} : view[w][j][col] = row[j][col]

\* The step a worker executes is one of its queue's.
RightQueue ==
  \A w \in Workers : \A j \in Jobs :
    Working(w, j) => StepName(j, row[j].step) \in Serves[Queue[w]]

\* A job as the lifecycle sees it: the retries are those of the audit log.
Seen(j) == [state |-> row[j].state, step |-> row[j].step, retries |-> retries[j]]
AllSeen == [j \in Jobs |-> Seen(j)]

Lifecycle == INSTANCE JobLifecycle WITH NSteps <- [j \in Jobs |-> Length(j)], job <- AllSeen

\* The queue implements the lifecycle it promises.
ImplementsLifecycle == Lifecycle!Spec

\* Every job comes to rest, again after every retry, whatever worker dies on it.
Settles == \A j \in Jobs : []<>(row[j].state \in TERMINAL)

\* A job that a worker has lost does not stay RUNNING for ever.
LostJobsRecovered ==
  \A j \in Jobs :
    (row[j].state = "RUNNING" /\ \A w \in Workers : ~Working(w, j))
      ~> (row[j].state # "RUNNING")

\* A cancellation takes effect: the job ends, unless it is retried.
CancelTakesEffect ==
  \A j \in Jobs : row[j].cancel_requested ~> (row[j].state \in TERMINAL)

-------------------------------------------------------------------------------
(* The inductive invariant behind the safety properties, for Races = {} and no *)
(* exception after a commit.                                                   *)

\* An executing worker has one row in its session and step_name is one of its
\* steps.
OneJob ==
  \A w \in Workers : pc[w] \in Executing =>
    \A j \in Jobs : view[w][j] # NoRow =>
      /\ \A k \in Jobs : view[w][k] # NoRow => k = j
      /\ pc[w] \notin {"refresh", "start"} => stepping[w] \in 1 .. Length(j)

\* An executing worker holds a live lease and works on the step of the row.
Holding ==
  \A w \in Workers : \A j \in Jobs : Working(w, j) =>
    /\ row[j].state = "RUNNING"
    /\ row[j].worker_id = w
    /\ row[j].lease = "live"
    /\ pc[w] \notin {"refresh", "start"} => stepping[w] = row[j].step

\* No pulse renews a lease that has expired.
ExpiredForGood ==
  \A j \in Jobs : row[j].lease = "expired" => ~Renewed(j)

\* What recover_expired and claim have loaded was true of the row when it was
\* scanned; an expired row is still that row, or has been stopped, or retried.
Scanned ==
  \A w \in Workers : \A j \in Jobs : view[w][j] # NoRow =>
    LET v == view[w][j] IN
    /\ pc[w] = "cas" => v.state \in Waiting
    /\ pc[w] = "recover" =>
         /\ v.state = "RUNNING" /\ v.lease = "expired" /\ v.worker_id # Nobody
         /\ v.retry_count <= row[j].retry_count
         /\ v.retry_count = row[j].retry_count =>
              \/ row[j].state \in Stopped
              \/ Expired(j) /\ row[j].step = v.step

\* What a request has loaded: until the job is retried, a retry still finds it
\* stopped at the step it resumes from.
Requested ==
  \A c \in Clients : request[c] # NoRequest =>
    LET q == request[c]
        r == row[q.job]
    IN
    /\ q.op = "cancel" => q.new = Cancelled(q.old) /\ q.old.state \notin TERMINAL
    /\ q.op \in {"retry", "resume"} =>
         /\ q.old.state \in Stopped
         /\ q.old.retry_count < MaxRetries
         /\ q.old.retry_count <= r.retry_count
         /\ q.old.retry_count = r.retry_count => r.state = q.old.state /\ r.step = q.old.step
    /\ q.op = "resume" =>
         \E i \in 1 .. Length(q.job) :
           /\ q.new = Retried(q.old, i)
           /\ q.old.retry_count = r.retry_count => i = r.step

RetriesCounted ==
  \A j \in Jobs : retries[j] = row[j].retry_count /\ row[j].retry_count <= MaxRetries

IInv ==
  /\ TypeOK
  /\ OneJob
  /\ Holding
  /\ SessionFresh
  /\ Leased
  /\ Checkpoints
  /\ ExpiredForGood
  /\ Scanned
  /\ Requested
  /\ RetriesCounted
===============================================================================
