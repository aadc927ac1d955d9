------------------------------ MODULE Pipelines ------------------------------
(***************************************************************************)
(* The constant tables of nps/jobs.py: the steps of every kind of job, the *)
(* queue that serves every step, and the lifecycle of a job.               *)
(***************************************************************************)
EXTENDS Sequences

PIPELINES ==
  [upload           |-> <<"SECURITY_SCAN">>,
   analyze          |-> <<"PARSE", "CHUNK", "LLM_SUMMARY", "LLM_KEY_MESSAGES",
                          "LLM_OUTLINE", "LLM", "LLM_VISUAL", "PLAN_VALIDATE">>,
   plan             |-> <<"LLM_SUMMARY", "LLM_KEY_MESSAGES", "LLM_OUTLINE",
                          "LLM", "LLM_VISUAL", "PLAN_VALIDATE">>,
   ppt              |-> <<"IMAGE", "PPT", "PPT_QA">>,
   image            |-> <<"IMAGE">>,
   video            |-> <<"IMAGE", "VIDEO", "FINAL_QA">>,
   template         |-> <<"SECURITY_SCAN">>,
   design_reference |-> <<"SECURITY_SCAN", "DESIGN_LEARN">>]

Kinds == DOMAIN PIPELINES

\* The steps that each worker process (one queue each) may be given.
Serves ==
  [document |-> {"SECURITY_SCAN", "DESIGN_LEARN", "PARSE", "CHUNK"},
   llm      |-> {"LLM_SUMMARY", "LLM_KEY_MESSAGES", "LLM_OUTLINE", "LLM",
                 "LLM_VISUAL", "PLAN_VALIDATE"},
   image    |-> {"IMAGE"},
   ppt      |-> {"PPT", "PPT_QA"},
   video    |-> {"VIDEO", "FINAL_QA"}]

Queues == DOMAIN Serves

Waiting == {"QUEUED", "RETRYING"}
Stopped == {"FAILED", "CANCELLED"}
Finished == {"SUCCEEDED", "WAITING_REVIEW"}
TERMINAL == Stopped \cup Finished
JobStates == Waiting \cup {"RUNNING"} \cup TERMINAL

\* The states a job in the given state may be moved to.
TRANSITIONS ==
  [QUEUED         |-> {"RUNNING", "CANCELLED"},
   RETRYING       |-> {"RUNNING", "CANCELLED"},
   RUNNING        |-> {"QUEUED", "SUCCEEDED", "FAILED", "CANCELLED",
                       "WAITING_REVIEW", "RETRYING"},
   FAILED         |-> {"RETRYING"},
   CANCELLED      |-> {"RETRYING"},
   WAITING_REVIEW |-> {},
   SUCCEEDED      |-> {}]

\* transition() accepts a move of the table and a move to the same state.
MayMove(from, to) == to = from \/ to \in TRANSITIONS[from]
==============================================================================
