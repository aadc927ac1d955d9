# A verification of the NPS back end

NPS turns uploaded documents into slide decks and videos.  A FastAPI server
(`src/apps/api/nps`) keeps users, projects, documents, plans, artifacts and jobs
in PostgreSQL; five worker processes take the jobs through their pipelines;
Redis holds heartbeats and hints; a web client draws what the API returns.
These modules state what the jobs and the data they produce must satisfy, check
it with TLC on small instances and prove the core for every size.

## The system

| Component | State | Operations | Talks to |
|---|---|---|---|
| Job creation (`jobs.py`) | rows of `generation_jobs`, unique by user, project and key | `create_job` | API handlers |
| Job queue (`jobs.py`, `worker.py`) | rows of `generation_jobs` and `job_steps`; heartbeats in Redis; `current["job"]` in each worker | `cancel_job`, `retry_job`, `claim`, `recover_expired`, the pulse thread, the loop of `main` | API handlers and workers share the rows; every commit may meet another one |
| Step execution (`pipeline.py`) | the step row, the step handler's outputs | `execute_step`, `do_step` | reads plans and documents, writes chunks, visuals, artifacts |
| Job events (`work_api.py` `job_socket`) | the last `seq` a socket has sent | poll and send | reads the job row and the user's rights once a second |
| Plans (`plans.py`) | `slide_plans`: version, status, content of each slide | `update_plan`, `review_plan`, `require_approved` | gate of `generation`, rechecked by `execute_step` |
| Artifacts (`ppt.py`, `video.py`, `artifacts.py`) | `artifacts`, `artifact_versions`, QA reports, approvals | `persist_artifact`, `qa_step`, `review`, `regenerate`, `download` | written by workers, reviewed through the API |
| Documents (`upload.py`, `storage.py`) | quarantined files, stored files, `document_versions` | `quarantine_upload`, `security_scan`, `promote`, the `SECURITY_SCAN` handler | written by the API, then by the document worker |
| Parsing, chunking (`parsers.py`, `hwp.py`, `chunking.py`) | none | pure functions | called by `PARSE`, `CHUNK` |
| Drafting, drawing (`editorial.py`, `contracts.py`, `presentation_design.py`, `rendering.py`) | none | pure functions | called by `LLM` (without a model), `PPT`, `VIDEO` |
| LLM client (`llm.py`, `adapter_api.py`) | none between calls | `generate` with schema repair and retries | called by the `LLM*` steps |
| Visuals (`comfy.py`) | `visual_assets`; ComfyUI's queue | `generate_visuals`, the client, the adapter's polling and `/interrupt` | called by `IMAGE` |
| Child processes (`rendering.py`, `parsers.py`) | a process, its output file | `run_process`, `safe_parse` | called by the rendering steps, by `PARSE` |
| Sessions (`auth.py`, `api.py`) | `refresh_sessions` | login, refresh, logout | every request |
| Membership (`auth.py`, `api.py`) | users, projects, members, roles | `authorize_project`, `add_member`, `remove_member`, `change_role` | every request |
| Web client, scripts | – | – | thin view; operator's tools |

What is hard: every API handler and every worker reads a row, works (for minutes,
in a step) and commits, with READ COMMITTED isolation and almost no locks; a
commit writes the columns its session has changed over whatever the row holds by
then.  Workers die, lose Redis or the database, and are replaced.  Users edit the
plan of which a deck is being rendered, and review what is being regenerated.

What makes each part correct:

- *Queue*: one worker per job; a job that its worker lost is recovered; checkpoints
  agree with the job row and completed steps are never taken back; at most
  `MaxRetries` retries; a cancellation takes effect; every job comes to rest; every
  move is one of `TRANSITIONS`.
- *Plans*: what passes `require_approved` is what a reviewer saw and approved.
- *Artifacts*: each version shows approved contents; scenes and pictures belong to
  the slide they show; versions are numbered without gaps or clashes; no video
  without a reviewed deck of the same plan version.
- *Documents*: a file is stored and parsed only after a scan; an upload can be scanned again
  until its scan has committed; versions are numbered without a clash and the last is the
  current one; a plan cites the version that was current when it was asked for.
- *Chunking and evidence*: each node of a document is in a chunk, in order; each reference in a
  plan names text that exists; a draft shows what its chunk says.
- *Drawing*: what a user wrote on a slide is drawn, all of it and in its order.
- *HWP*: the text of a file is read as it was written, or the file is refused.
- *Calls*: a bounded number of attempts; every wait ends; no child process is left behind.
- *Job creation, events*: one job per idempotency key; a socket ends with the last state, and
  does not outlive the rights of its user.
- *Sessions, membership*: a refresh token is exchanged once; members belong to the organization
  of their project; rights change only at the hand of those who may.

## Modules

| Module | Models | Uses |
|---|---|---|
| `Pipelines` | the constant tables of `jobs.py`: `PIPELINES`, `ROUTING`, `TRANSITIONS` | – |
| `JobLifecycle` | abstract: what the owner of a job may see happen to it | `Pipelines` |
| `JobQueue` | `jobs.py`, `worker.py`, `execute_step` | `Pipelines`, refines `JobLifecycle` |
| `JobQueueProofs` | theorems of `JobQueue`: first with races and faults, then without stale commits | `JobQueue` |
| `PlanGate` | abstract: what a plan promises to generation | – |
| `PlanReview` | `plans.py` and its handlers, with overlapping requests | refines `PlanGate` |
| `PlanReviewProofs` | theorems of `PlanReview` | `PlanReview` |
| `Studio` | generation, the step handlers of decks and videos, `artifacts.py` | extends `PlanGate` (in place of `PlanReview`) and `Pipelines` |
| `StudioProofs` | theorems of `Studio` | `Studio` |
| `Documents` | `upload.py`, `storage.py`, the document handlers, the steps from `SECURITY_SCAN` to `PLAN_VALIDATE` and `DESIGN_LEARN` | `Pipelines` |
| `DocumentsProofs` | theorems of `Documents` | `Documents` |
| `Accounts` | users, projects, members, refresh sessions | – |
| `Feed` | `create_job`, `seq`, `job_socket`, beside all of `Accounts` | extends `Accounts`, `Pipelines` |
| `ServiceProofs` | theorems of `Accounts` and of `Feed`; `Feed` implements `Accounts` | `Feed`, `Recursion` |
| `Lists` | sequences: numbers up to *n*, the members that are in a set | – |
| `Chunking` → `Drafting` → `Drawing` | functions: `chunking.py`; `editorial.py` and `contracts.py`; `presentation_design.py` and `text_layout` | each extends the one before, `Chunking` extends `Lists` |
| `Authoring` | a document that is chunked, drafted, edited and drawn | `Drawing` |
| `Recursion` | lemmas only: induction on numbers, recursive functions, scans, folds, concatenation, selection | `Lists` |
| `AuthoringProofs` | theorems of `Authoring` | `Authoring`, `Recursion` |
| `Hwp` | `hwp.py`: the reader of HWP 5 streams, and a writer to compare it with | `Lists` |
| `HwpProofs` | theorems of `Hwp` | `Hwp`, `Recursion` |
| `Calls` | `llm.py`, `comfy.py`, `run_process`, `safe_parse` | – |
| `MCJobQueue`, `MCPlanReview`, `MCStudio`, `MCDocuments`, `MCFeed`, `MCWork` | small instances; `MCWork` puts `Authoring`, `Hwp` and `Calls` side by side | |

Definitions named `Bug...` are mistakes that the code beside them could have made.  No
specification uses them; substituting one for its neighbour makes a property fail, which
is how each property has been tried.

### JobQueue

| Variable | Code |
|---|---|
| `row`, `steps` | `generation_jobs`, `job_steps`; the lease is *none*, *live* or *expired* instead of a time |
| `retries` | the `JOB_RETRY` rows of the audit log, so that a lost increment of `retry_count` is visible |
| `pc`, `stepping`, `verdict` | where a worker's main thread is between two accesses to the database or Redis, and its locals |
| `view` | the rows loaded in each worker's SQLAlchemy session, as loaded |
| `current`, `heartbeat` | `current["job"]`, shared with the pulse thread; the key `worker:<id>` in Redis |
| `request` | the API request that each client has in flight: the row it loaded, the row it wants |
| `faults` | bound |

`CancelLoad`/`CancelCommit` and `RetryLoad`/`RetryCheck`/`RetryCommit` are `cancel_job` and `retry_job`;
`Boot`, `RecoverScan`, `RecoverCommit`, `ClaimScan`, `NextCandidate`, `ClaimCancelled`, `ClaimWon`,
`ClaimLost`, `Refresh` the loop of `main` with `recover_expired` and `claim`; `Start`, `Proceed`,
`Enter`, `HandlerReturns`, `HandlerCancelled`, `Recheck`, `StepSucceeds`, `Reload`, `StepFails` the body
of `execute_step`; `Pulse` the thread.  `Crash`, `Escape`, `HeartbeatExpires`, `RaisesAfterCommit` are the
faults of `Faults` (`crash`: the container dies and is restarted; `db`: an exception reaches
`main`; `redis`: a key is lost; `late`: an exception after a commit).

The commit of a session is `Flush`: an UPDATE of the changed columns.  Whether a commit may
overtake a change it has not seen is chosen by `Races`: a kind in `Races` leaves that window
open, as the code does; without it, the model says what holds if the window is never hit.
The commits of `execute_step` are never guarded in this way.  `lease` is the window in which a
lease lapses under a worker that is still running (the pulse thread has got SIGTERM, or
cannot reach Redis: the exception it swallows skips the renewal too); without it only the leases of
workers that died, or that hold another job, lapse.

Left open, the windows show what the code allows, and TLC finds it with the bounds of the run
that is named: with `Races = {"lease"}` in `JobQueueSafety.cfg` two workers execute one job (`MutualExclusion`), as no commit of `execute_step`
compares `worker_id` or the lease; with `{"recover"}` there, `recover_expired` writes FAILED over
whatever has become of a job since its scan (`Checkpoints`); and with `"db"` among the `Faults` of `JobQueueDeck.cfg`, an exception that
reaches `main` leaves `current["job"]` behind, so that the pulse renews the lease of a job that nobody
executes, and it is never recovered (`LostJobsRecovered`).

Left out: `seq`, `progress`, `attempts` and `error_code` (written and never read by this logic),
the Redis sorted sets (hints that nothing reads back), VRAM and capabilities, the limit of 20
candidates, and `priority` (no caller sets it).  One pulse is one step.

### PlanReview and PlanGate

`plan`, `slides`, `reviews` are the tables; `screen` is what a client has fetched with
`plan_detail`; `request` as above.  `EditLoad`/`EditCommit` are `plan_edit` with `update_plan` and `save_slides`,
`DecideLoad`/`DecideCommit` are `plan_approve` with `review_plan`.  The first query after `plan.data` is
assigned flushes it (autoflush) and takes the row lock; that is why the rest of an edit is
one step.  `PlanRaces` works as `Races` does: `edit` lets an edit commit over another edit,
`review` a decision over another decision.  A decision over an edit, and an edit over a
decision, are always possible.  `validate_plan` is pure; its refusals are requests that fail.
`Restores` says whether users bring back a `slide_id` that they removed; the runs take FALSE
(an editor creates new ids), as bringing one back restarts its version at 1.

`PlanGate` is the same plan for somebody who only generates from it: a version, its contents,
whether the gate is open.  `PlanReview` implements it (`KeepsGate`), and `Studio` is built on it.

### Studio

Jobs of the kinds `ppt`, `video` and `image` walk through `PIPELINES`; `DoStep` is `do_step` with the
plan check at its start, `Recheck` the check of `execute_step` after the work, `Commit` the commit; in between,
`PlanMoves` edits the plan or decides on it.  `Handled` gives what `generate_visuals`, both `render_step`s and
both `qa_step`s leave in the transaction; `Unlocked` is the `FOR UPDATE` of `persist_artifact`.  `Generation`,
`Regenerate` and `ReviewLoad`/`ReviewCommit` are the handlers of `work_api.py` and `artifacts.py`.  `visuals`, `artifacts` and the
versions in them are the tables, each with what it shows.  The queue is abstracted: a waiting
job may be taken at any time, and a step that fails leaves it waiting or given up.
`passed` is history: the contents for which the gate has been open, by version.
A review loads the version, checks its report (only an approval needs PASS) and commits later, over whatever
other reviewers have committed by then (`reviewing`); a decision for the status that is
loaded already writes nothing and is left out.  A step reads at its start and commits what it made of that; `work` is what its transaction holds.

### Documents

| Variable | Code |
|---|---|
| `documents`, `versions` | the tables; a file's content stands for its sha256 |
| `quarantine`, `originals` | the files of two storage namespaces, which are written outside of transactions |
| `parses`, `chunks`, `templates`, `plans` | the tables; a plan has one slide with one reference |
| `jobs` | the job rows with the outputs that later steps read (`storage_key`, the answer of `LLM`) |
| `work` | what the open transaction of a running step will commit |
| `cleanup` | jobs whose worker is between the commit of `SECURITY_SCAN` and the `unlink` that follows |

`Upload`, `UploadVersion`, `UploadTemplate`, `Analyze`, `DeleteDocument` and `EditPlan` are requests: each reads, and
inserts rows that nobody else touches before its commit, so that one step is enough
(how edits of one plan overlap is the subject of `PlanReview`).  `SecurityScan` is
`security_scan` up to and with `promote`; `NumberVersion` takes the row lock of the document
(`Unlocked`), reads the other versions and flags a duplicate; `CommitVersion` and `CommitScan`
commit; `Cleanup` deletes the quarantined file, or the worker dies first.  `DoStep` is any other
handler, whose reads and writes are in one transaction (`Handled`), and `CommitStep` its
commit.  `StepFails` may happen between any two of them: an exception, a cancellation, a worker lost.
The file it has copied stays in `originals`, and the job waits to be retried.

The model that writes the plan may answer anything; `Evident` is what `validate_evidence` lets through.
Left out: sizes and types of files (they are in `Clean`), the paths of the namespaces, the
wording of plans, and the queue.

### Accounts

`users`, `projects`, `members` and `sessions` are the tables (`root` in a session is history: the login it stems
from); `request` is what a client has in flight.  A request takes three steps: `Arrive` is `current_user`, which loads
the actor, or `authenticate`; `Check` is what `add_member`, `remove_member` and `change_role` read and decide, and `Spend`
is `consume_refresh` with its `FOR UPDATE`; `Issue`, `Logout`, `CreateProject`, `AddMember`,
`RemoveMember` and `ChangeRole` commit.  `Refuse` is every answer that is no, and every error.  Between the three,
others commit: the role of an actor may be gone when its request commits, and the model has that window.
`Written` is the UPDATE of the columns a session changed.  An actor's row and its membership are read in
one step: that they are read by two queries makes no difference that the properties see.
Passwords, signatures of tokens and `update_project` (descriptive columns) are left out.

### Feed

`jobs` are the rows as a client sees them; `asked` is where a request is in `create_job`: `AskJob` (rights are checked), `FindJob` and
`FindNone` (the look-up), `Insert` (the flush, which waits for another transaction with the same key), `CommitJob`;
the loser of the unique constraint rolls back and looks again.  `LoseAsker` is a server that dies or an answer that is
lost.  `answers` is history.  `Claim` is the one UPDATE that computes `seq` in the database; `Load` and `Save` are every other
writer (workers, cancellation, retry), which computes `seq` from the row it loaded; `Overlaps` says
whether such a commit may write over a move it has not seen.  `Open`, `Poll` and `Hangup` are `job_socket`.
Which state a job moves to is any that `TRANSITIONS` allows; when it does is the subject of `JobQueue`.
All actions of `Accounts` go on beside these.

### Authoring: Chunking, Drafting, Drawing

A text is a sequence of sentences, and a character is a place in a sentence, so that texts are compared for what
they say.  `Chunks` is `chunk_document`: sentences are cut in pieces, pieces are collected until the budget
is full, a table or a picture is a chunk of its own.  `Draft` is the adapter without a model: chunks that can be presented
are chosen under some ranking (every ranking is tried), told apart by their first `KeySize` characters, put back in
order and given a layout; `Valid` is what the contracts demand of a plan.  `Scene` is how a slide is laid out in text
boxes, and `TextLayout` how large a text flows into a box.  `Authoring` walks a document through them; `EditPlan` replaces the
draft by any slide of a user.  Sizes that are literals in the code (ten chunks, three bullets, 94 characters)
are constants here, as TLC needs them small.

Left out: how rankings score, `word_lines`, wording, colours, fonts, the classic deck, the measurements of QA.

### Hwp

`file` is what was uploaded, `read` what the reader returned.  `ParagraphText`, `Records`, `Nodes`, `Expand`, `ReadSection` and
`Parse` are `paragraph_text`, `records`, the loop over the records, `decompress_section`, the loop over the sections and `parse`.
A stream is a sequence of words, and a word can be read as a letter, as the head of a record or as the cargo of a control, so
that a reader that loses its place reads nonsense.  The streams are written by a writer (`Written`) from paragraphs; the text of a
paragraph is a sequence of tokens, a letter or a control with its cargo (a tab is both: a blank in the text, and a control of eight units).
A section may be cut off anywhere, its last control may lack cargo, it may be larger than the limits allow or fail to
decompress; sections stand in any order in the file.  The name of a section is its number and its digits, as `Section1` and
`Section01` may stand beside each other: `Insert` is the stable sort.

Left out: magic numbers, versions, the limits on the entries of the file and on the nesting of records, odd payload lengths, letters
outside the encoding, and which of several reasons to refuse a file is the one that is reported.

### Calls

`call` is what the one thread of a worker waits for, `threads` what the adapters do for each call (a client that gives up does not stop
its adapter), `comfyui` the prompts ComfyUI holds, `child` and `output` the child process and the parser's file.
`Send`, `Receive`, `GiveUpOnAdapter` are the two HTTP clients; `Accept` and `Try` the adapter of the model with its
retries; `Post`, `Look`, `Interrupt`, `Fault` the adapter of ComfyUI, and `Render` ComfyUI itself; `Spawn`, `SeeExit`, `Terminate`,
`Kill`, `Write`, `Exit` are `run_process` and `safe_parse` with their child.

What the model shows on the way: `/interrupt` stops whatever ComfyUI runs, also the prompt of somebody else;
a prompt stays with ComfyUI when a request about it fails.  The client of the model waits three
times `llm_timeout`, as long as three attempts of the adapter take, and the client of ComfyUI 150 s while its adapter may take
longer: both may give up on an answer that is just coming.

## Runs

| Run | Asks | Bounds | Result |
|---|---|---|---|
| `safety` | mutual exclusion, ownership, leases, checkpoints, refinement of `JobLifecycle`, the inductive invariant, with crashes and outages | a job of two steps, two workers of its queue, two requests at a time, one retry, one fault | holds |
| `deck` | liveness: jobs settle, lost jobs are recovered, cancellations take effect; steps run on their queue | a three-step job that moves between two workers, one request, two faults | holds |
| `open` | what survives every race and fault | a one-step job, two workers, one request, one fault | holds |
| `plan_safety` | the gate, the refinement of `PlanGate`, the inductive invariant | two slides, two bodies, two clients, three versions, two reviews | holds |
| `lost_edit` | `ApprovedAsSeen` when two edits overlap | as `plan_safety` | violated |
| `decks` | artifacts show approved contents; no video without a reviewed deck; with reviews that commit late | one slide, two bodies, one job and one review at a time, two plan versions, two artifacts, three versions in all | holds |
| `videos` | scenes taken over are current; versions numbered without a clash | two slides, two jobs, gate always open, no reviewer, one video of two versions | holds |
| `stale_picture` | `PicturesMatch` | one slide, one deck | violated |
| `documents` | only scanned files are used; uploads survive crashes; versions in order; duplicates flagged; plans cite what they were asked about; the inductive invariant | one document, a clean and an unclean content, four jobs of any kind, three stored files | holds |
| `service` | refresh tokens are exchanged once; members belong; rights change in scope and knowingly; idempotency keys; sockets follow rights and jobs | an administrator of the parent organization and a user of a branch who owns a project, a second project to be created, three tokens, two clients, two requests for jobs with one key and two contents, two writers, one socket; each behaviour one kind of traffic | holds |
| `missed_event` | `FeedCatchesUp` when writers of one row overlap | as `service`, only moves and a socket | violated |
| `work` | chunks cover the document; drafts show their chunks; drawing loses nothing; HWP is read as written; calls end | documents of up to three nodes in two sections, a budget of three tokens; HWP files of up to two sections, nine words, two cells and two records, controls of three units; two calls of each kind, one retry, two polls | holds |

Why these bounds are enough.  All races are between two sessions over one row, so two
workers or two requests of each sort show them; jobs only meet through a worker's session
and `current`, and a second job there is what the proofs (any number of jobs) cover.  Two steps
are a step and its successor, with a checkpoint to keep and one to reach.  One retry passes
through the boundary of the limit (0 and 1).  Three plan versions are an old, the current and a
next one, so that a request can be two edits behind.  Two artifact versions are a previous one
and one made from it; two slides are the one regenerated and one taken over.  Four jobs are two
uploads of one document, which compete for its next number and are duplicates of each other,
and two analyses, which share the parse and the chunks or take different versions; three stored
files are those of two versions and a copy that a failed scan has left behind.  Documents meet only
in the flag for duplicates, which is about any document of the project.  In `service`, two requests of any kind
meet, and a third token is needed to exchange one that was exchanged; kinds that read none of each other's rows are
never mixed (`Traffic`): sockets meet membership, roles and the moves of a job, keys meet keys.  In `work`, a
budget of three tokens is below, at and above what a sentence has; `KeySize` and `MaxSelected` are both reached, the latter
with chunks that fit, that do not, and that begin alike; a cut of up to
three words takes a text, its head, or both; three paragraphs exceed the records of a
section, three texts in two sections the cells of a file, and sections of more than nine words its size; of two sections, the first that
stands in the file has the higher number or the same; two calls are one that was given up and one that follows it.

Fairness.  `LiveSpec`: each worker's main thread keeps taking steps (compose.yml restarts it),
its pulse keeps running, and time passes, so that a lease that nobody renews expires.  Nothing is
assumed of users: that a client ever cancels, retries or finishes a request is never needed.
Faults are bounded: a system whose workers die for ever need not settle.  `LiveService`: the loop of
a socket polls again and again; nothing else is fair.  `CallsFair`: each wait of a worker and of an adapter has a
timeout, and a killed process ends; nothing is assumed of a model, of ComfyUI, or of a child that is alive.
`CHECK_DEADLOCK FALSE` stands in the runs of `Studio`, `Documents`, `Feed` and `MCWork`, where everything may be done, or given
up with every bound reached; the other models can always move.

### What the violations mean

1. `lost_edit`: two edits of one version become one version; the approval of the first covers the second.
2. `stale_picture`: pictures are looked up without the slide version; a new deck shows an old picture.
3. `missed_event`: a cancellation and a worker that loaded one row both write the next `seq`; a socket that polled
   between the two commits sees no change of `seq` afterwards, and never shows the state that came last.

## Proofs

Checked by TLAPS for every value of the constants.

**JobQueue.**  `TypeCorrect` and `CancelsRemembered` hold without conditions, with every race and fault;
`RetriesBounded` unless two retries overlap (both then pass the limit, and count once).  The other theorems (`OneWorkerPerJob`, `WorkersOwnTheirJobs`,
`LeasesMatchStates`, `CheckpointsAgree`, `SessionsFresh`, `CheckpointsStay`, `QueueImplementsLifecycle`) assume
`Undisturbed`: no commit overtakes another and no exception follows a commit; crashes and
outages stay.  They rest on the inductive invariant `IInv`.  Mutual exclusion is not inductive: the
row must name the worker that executes it (`Holding`), which needs the lease to be live while it
does, which needs expired leases to stay expired (`ExpiredForGood`) and every stale scan or request
to be harmless (`Scanned`, `Requested`).  The proof goes in three layers: each action has one of ten
effects on a job (`Effect`); the effects preserve what `IInv` says about the tables; and they
preserve what it says about sessions, other workers' and the own one.  The effects also give the
refinement, as each is a move of the lifecycle or a stutter.

`RightQueue` (`StepsOnTheirQueue`) needs moreover that no two workers share a queue, which is how compose.yml starts them:
the claim of a worker compares the state of a row, and not its step, so that the stale scan of a second
worker could win a job that has moved on to a step of another queue; TLC finds that with a second `image` worker in `JobQueueDeck.cfg`.

**PlanReview.**  `PlanTypeCorrect` is unconditional.  `PlanInductive`, `ApprovalsAreInformed` (`ApprovedAsSeen`) and
`PlanImplementsGate` assume that no edit commits over another one; decisions may overlap anything.
The invariant `PlanInv` says that a version number stands for one contents: whatever a request has
loaded, a screen shows or a review is about is older than the row or says the same.  That is what
the two comparisons of version numbers in `review_plan` and `require_approved` rely on, and it is what
`lost_edit` breaks.  `LastDecisionCounts` (`LastDecisionStands`) needs also that no decision commits over another
one, and `SlideRowsFollow` (`SlidesRecorded`) that users do not bring back removed slides.

**Studio.**  `StudioAgrees`: `StudioInv` is inductive, with no condition.  As in `Documents`, commits store what steps have
read earlier, so the invariant speaks of what a job carries (`JobAgrees`) and of what its open transaction holds (`WorkAgrees`), and
what is stored only grows (`Grows`).  Scenes are `Faithful` if they are older than the plan or
say the same: that is why a regeneration may take over the scenes of slides whose version has not
changed.  `DecksShowWhatWasApproved` (`DecksAsApproved`) therefore assumes that users do not bring back removed slides, whose
numbers begin anew; `ArtifactsNumberedInOrder` (`NumbersInOrder`, by the lock of `persist_artifact`) and `VideosFollowDecks`
(`VideosAfterDecks`) assume nothing.  What the module takes from the plan is `PlanGate`, which `PlanImplementsGate` justifies.

**Documents.**  All six properties hold without conditions, whatever fails and in whatever order
(`DocumentsTyped`, `DocumentsScanned`, `DocumentsKeepUploads`, `DocumentsInOrder`,
`DocumentsShowDuplicates`, `DocumentsCited`).  They follow from `DocumentsAgree`: `DocInv` is inductive.  The
tables alone are not: a commit stores what a step has read earlier, so `WorkAgrees` says that
the next number, the flag, the parse, the batch and the citation a step carries are still true
when it commits; `JobAgrees` says the same of what one step leaves for the next, and `OneNumbering`
that the lock on the document keeps the numbers apart.  Rows are only added (`Grows`), so
what hangs on them stays true under the steps of others: `Others` reduces every action to the job that moves.

**Accounts and Feed.**  No conditions, for any overlap and failure.  `TokensExchangedOnce` (`OneLiveHeir`) and `MembersOfTheOrganization`
(`MembersBelong`) follow from `AccountsInv`: who holds the lock of a session is about to revoke it (`SpendsAgree`), the
lock has one holder (`Exclusive`), and what a handler has checked is still true at its commit (`CheckedAgree`), as projects keep
their owners and users their organization.  `ActivationsKnown` (`ChangedKnowingly`) and `RolesChangeInScope`
(`ChangedInScope`) are about steps.  The second is about a tree of organizations of any depth: `Below` adds children until
none is missing, as `org_scope` does, and the property climbs from a user's organization to the administrator's (`Above`).
Both are recursive functions, whose existence `Recursion` proves; `BelowIsAbove` relates them by induction over the levels.  `FeedInv` says that one job has a key (`Unique`), that a request
past its flush is alone with its key (`Flushed`), and that each answer is about the job of its key (`Answered`), from which
`RepeatedRequestsAgree` (`AnswersStand`) follows.  `ServiceKeepsAccounts` is a refinement: the steps of `Feed` leave accounts
alone, so what is proved of `Accounts` holds in the whole service (`ServiceKeepsRights`).

**Authoring.**  What is computed from a document to a drawn slide, for every document, edit, box, ranking and choice of
sentences.  The functions are folds, and what a fold computes is shown by induction over its steps.  The induction
theorems of the library take operators, which the provers here cannot instantiate; `Recursion` therefore starts from
numbers: a set of numbers that is not empty has a least member, hence a set that has 0 and the successors of its members has all
of them; from this `RecursionExists` (a recursion that steps back along a rank has a function that satisfies it) and `FoldTraces` (a
fold passes through one value for each member of its sequence).  A lemma per fold (`AmongTrace`, `PouredTrace`,
`AddNodesTrace`, ...) unfolds it into this trace, and what is claimed of the result is shown from one value of it to the next.

- `LaidBest`: the greedy flow of text (`PouredWithin`) is never behind any other way to cut the text into parts that fit, so that no
  layout with fewer columns or larger letters has been missed.  With the lemmas on `Scene`, `NothingIsDiscarded`
  (`NothingDiscarded`) follows.
- `ChunksAlwaysCover` (`ChunksCover`): while a section is cut, what is said by the chunks and by the text that is still pending is what has
  been read (`Told`), the chunks so far are right (`Right`), and the pending text begins where its chunk will say (`Waiting`); together
  `Steady`, which each piece preserves, and which is `Rested` with nothing pending at the end of a section.
- `DraftsAlwaysGrounded` (`DraftGrounded`): after each chunk of the ranking, the chunks that are taken differ in their keys, and
  whatever has been looked at has its key taken, or there is no room (`Distinct`, `SeenOrFull`); what is shown are these, in order (`AmongUpto`),
  less those that have nothing to show (`SlidesPresent`).

The proof attempt corrected this property.  It used to say that a chunk is left out only if it begins like one that is *shown*.  That does not
follow, and with `MaxSelected` 3 in place of 2 TLC found the document: a paragraph too short to be a sentence, ranked
first, and a picture whose text is the same.  `editorial.py` marks the paragraph as seen, then finds nothing to show in it, and the
picture is not drawn.  The property now says that the chunk that shuts out another one is shown, or has nothing to show.

`AuthoringInv` says only that each variable is what the step before made of the one before it: the work is in the lemmas.  Assumed
are `ChunkingAssumption`, `DraftingAssumption` (sizes are positive), `DocumentsAssumption`, `EditsAssumption`, `BoxesAssumption` (inputs are of
their types), `PlacesAssumption` and `NullAssumption` (null values and places are told apart from texts and slides).

**Hwp.**  `FilesReadAsWritten` (`ReadAsWritten`) is about every file of `AnyFile`: any number of sections, paragraphs and tokens, cut off
anywhere, with any limits and any width of controls.  It says that what was written can be read in one way only, from four arguments:

- A reader that recurs along a stream is followed from the end to the front (`Scans`, `DowntoInduction`): what is read from the place where a token or a
  record begins is what the tokens or records from there on say.  Places where none begins are skipped: nothing is
  claimed about what would be read there.  So `TextOfTokens` (a text, or an error if a control lacks cargo) and `RecordsOfWritten`.
- A section that was cut off between two records is a stream that was written from fewer paragraphs; one that was cut off within a
  record is malformed (`RecordsOfCut`), because from the record that was cut the reader reaches behind the end, also when only the second
  word of a long head is missing.  With the fold that collects the nodes (`NodesOfWhole`, `NodesOfOthers`) this gives `SectionRead`.
- What the stable sort inserts stays sorted and keeps names apart (`OrderIs`), and it neither adds nor loses: totals over the sections
  are the same in both orders (`TotalIs`), which is why the limits can be stated about the file as it stands.
- From section to section the reader's counts are the totals so far, which never exceed the totals (`Running`): a file is refused on the way only if
  its totals are too large (`FileReading`), and what it has collected are the sections that have a text, in order (`ShownInOrder`).

The invariant says only that `read` is what `Parse` makes of `file`.  Assumed are `HwpAssumption` (controls and the escape
length are positive, limits are numbers) and `FilesAssumption` (what is uploaded is in `AnyFile`, where names of sections differ).  The proof
asked for one change of the model: the scans are functions on the places of a stream, 1 and above, so that they are known to exist.

The inductive invariants (`IInv`, `PlanInv`, `DocInv`, `StudioInv`, `AccountsInv`, `FeedInv`, `AuthoringInv`) stand in the proof modules.

Is `Undisturbed` needed?  With any one of the races `cancel`, `retry` or `claim`, or with the fault `late`, TLC finds behaviours against each of `MutualExclusion`,
`Ownership`, `Leased`, `Checkpoints`, `SessionFresh`, `CheckpointsKept` and `ImplementsLifecycle`; with `recover` alone `MutualExclusion` and
`Leased` survive.  So the condition can hardly be weaker.

Only model-checked: liveness (`Settles`, `LostJobsRecovered`, `CancelTakesEffect`, `SocketsFollowRights`, `FeedCatchesUp`,
`CallsEnd`: out of the prover's reach).  All invariants and all other action properties that the passing runs check are proved too.

## Not modelled

Parts of modelled components:

- the parsers of PDF, DOCX, XLSX and HWPX, which walk what third-party libraries return;
- `attach_theme`, colour extraction, fonts, the classic deck and the measurements of QA (a verdict is PASS or FAIL);
- the ranking of chunks and sentences, and the wording of prompts.

Whole parts: migrations and configuration (no state of their own; the columns appear as variables), the
HTTP shell, the web client (a view that polls), the release scripts (run once by an operator).

What the models show and no property excludes, because nothing in the repository promises it:

- Two hazards of documents need two document workers, and compose.yml starts one: a duplicate
  that two documents upload at the same moment is flagged on neither, and two analyses may chunk
  one version twice.  `Documents` allows both.
- With `Restores`, a slide that is removed and brought back begins again at version 1, so that pictures and scenes
  of its earlier life pass for current ones.
- Of two overlapping decisions about one artifact version the last need not stand: a rejection whose session loaded DRAFT
  writes nothing over an approval that commits before it (`artifacts.py`, `review`).
- `change_role` writes a role over one that it has not seen, if two administrators change it at once.
- Of two chunks that begin alike the better one is picked, also if it then has nothing to show: the other one is lost
  (`editorial.py`, `draft`).
- A chunk of several nodes cites the first of them only.  Ten chunks that cannot be presented, ranked first, leave
  nothing to draft.  A cover does not draw a structured block.

Read and not modelled: the sections of an HWPX archive are sorted by name, so that the tenth comes before the second;
text beside a table in one HWPX paragraph is lost; a table with rows of different lengths fails the contract of a plan.

What would come next: `Restores = TRUE` as a run of its own with a reset of the numbers in the properties; two
document workers; a model of the theme of a plan (`attach_theme`, the default theme of a project).
