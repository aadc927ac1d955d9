----------------------------- MODULE JobLifecycle -----------------------------
(***************************************************************************)
(* What the queue promises about the jobs in it, without workers, sessions *)
(* or leases: the state machine of TRANSITIONS combined with the pipeline. *)
(* A job goes through its steps in order and passes each of them once; a   *)
(* retry resumes at the step that was not passed.                          *)
(***************************************************************************)
EXTENDS Pipelines, Naturals

CONSTANTS Jobs, NSteps, MaxRetries   \* NSteps[j]: how many steps job j has

VARIABLE job

Job == [state : JobStates, step : Nat \ {0}, retries : Nat]

Init == job = [j \in Jobs |-> [state |-> "QUEUED", step |-> 1, retries |-> 0]]

\* The moves of one job: r is the job before and s the job after.
Claim(r, s) ==
  /\ r.state \in Waiting
  /\ s = [r EXCEPT !.state = "RUNNING"]

PassStep(r, s, n) ==
  /\ r.state = "RUNNING"
  /\ r.step < n
  /\ s = [state |-> "QUEUED", step |-> r.step + 1, retries |-> r.retries]

Finish(r, s, n) ==
  /\ r.state = "RUNNING"
  /\ r.step = n
  /\ \E f \in Finished : s = [r EXCEPT !.state = f]

Stop(r, s) ==
  /\ r.state = "RUNNING"
  /\ \E f \in Stopped : s = [r EXCEPT !.state = f]

Cancel(r, s) ==
  /\ r.state \in Waiting
  /\ s = [r EXCEPT !.state = "CANCELLED"]

Retry(r, s) ==
  /\ r.state \in Stopped
  /\ r.retries < MaxRetries
  /\ s = [state |-> "RETRYING", step |-> r.step, retries |-> r.retries + 1]

Move(r, s, n) ==
  Claim(r, s) \/ PassStep(r, s, n) \/ Finish(r, s, n) \/ Stop(r, s) \/ Cancel(r, s) \/ Retry(r, s)

\* recover_expired stops several jobs in one commit.
Next ==
  /\ job' \in [Jobs -> Job]
  /\ \A j \in Jobs : job'[j] = job[j] \/ Move(job[j], job'[j], NSteps[j])

Spec == Init /\ [][Next]_job
===============================================================================
