-------------------------------- MODULE Studio --------------------------------
(***************************************************************************)
(* From an approved plan to reviewed decks and videos: generation jobs     *)
(* run their steps against a plan that users keep editing, persist new     *)
(* artifact versions, and reviewers decide on those.  The plan keeps the   *)
(* promise of PlanGate, which PlanReview implements; this module adds      *)
(* generation, regenerate, the step handlers of pipeline.py, comfy.py,     *)
(* ppt.py and video.py, and review of artifacts.py.                        *)
(*                                                                         *)
(* The queue is abstracted (JobQueue models it): a waiting job may be      *)
(* taken at any time by some worker; a step that fails (a closed gate, an  *)
(* exception, a cancellation, a lost worker) rolls its transaction back,   *)
(* and its job waits for a retry or is given up; a job that is done leaves *)
(* its slot.                                                               *)
(***************************************************************************)
EXTENDS PlanGate, Pipelines, Functions, FiniteSets

CONSTANTS
  Jobs,          \* generation jobs in flight at a time
  Reviewers,     \* requests in flight at a time that decide on an artifact
  Generates,     \* the kinds of job users ask for
  Illustrated,   \* the bodies whose visual_plan asks for a picture
  MaxArtifacts,  \* bound: rows of artifacts
  MaxPersisted,  \* bound: rows of artifact_versions
  None, NoJob, NoWork   \* null values

ASSUME GeneratesAssumption == Generates \subseteq {"image", "ppt", "video"}
ASSUME IllustratedAssumption == Illustrated \subseteq Bodies

VARIABLES
  passed,     \* the contents that the gate has been open for, by version
  jobs,       \* generation_jobs with the outputs of their steps
  work,       \* the open transaction of a running step
  visuals,    \* the rows of visual_assets, with what they picture
  artifacts,  \* artifacts, each with its artifact_versions in order
  reviewing   \* what the request of a reviewer has loaded and decided

planVars == <<version, data, open, used, passed>>
jobVars == <<jobs, work, visuals, artifacts>>
studioVars == <<planVars, jobVars, reviewing>>

BodiesOf(d) == [s \in DOMAIN d |-> d[s].body]

StudioInit ==
  /\ GateInit
  /\ passed = IF open THEN {<<version, BodiesOf(data)>>} ELSE {}
  /\ jobs = [j \in Jobs |-> NoJob]
  /\ work = [j \in Jobs |-> NoWork]
  /\ visuals = {}
  /\ artifacts = <<>>
  /\ reviewing = [r \in Reviewers |-> None]

\* Somebody edits the plan or decides on it.
PlanMoves ==
  /\ GateNext
  /\ passed' = IF open' THEN passed \cup {<<version', BodiesOf(data')>>} ELSE passed
  /\ UNCHANGED <<jobVars, reviewing>>

-------------------------------------------------------------------------------
(* Asking for generation *)

\* The version that artifact.current_version_id names.
Current(a) == artifacts[a].versions[artifacts[a].current]

\* The marks of a version that a reviewer has let pass.
Passing == {"REVIEWED", "APPROVED"}

\* A video needs a deck of this version of the plan that a reviewer has passed.
BugDeckReviewed ==
  \E a \in DOMAIN artifacts : artifacts[a].type = "PPTX" /\ Current(a).approval_status \in Passing

DeckReviewed ==
  \E a \in DOMAIN artifacts :
    /\ artifacts[a].type = "PPTX"
    /\ Current(a).approval_status \in Passing
    /\ Current(a).plan_version = version

MayGenerate(kind) == open /\ (kind = "video" /\ ~ReviewPass => DeckReviewed)

NewJob(kind, artifact, slide) ==
  [kind |-> kind, plan_version |-> version, artifact |-> artifact, slide |-> slide,
   step |-> 1, output |-> None]

Create(kind, artifact, slide) ==
  \E j \in Jobs :
    /\ jobs[j] = NoJob
    /\ jobs' = [jobs EXCEPT ![j] = NewJob(kind, artifact, slide)]
    /\ UNCHANGED <<work, visuals, artifacts, planVars, reviewing>>

\* generate-ppt, generate-video, generate-images.  The handler reads the plan and
\* inserts a row that nobody else touches, so reading and creating are one step.
Generation(kind) == MayGenerate(kind) /\ Create(kind, 0, None)

KindOf(type) == IF type = "PPTX" THEN "ppt" ELSE "video"
TypeOf(kind) == IF kind = "ppt" THEN "PPTX" ELSE "MP4"

Regenerate(a, s) ==
  /\ MayGenerate(KindOf(artifacts[a].type))
  /\ s \in DOMAIN data
  /\ Create(KindOf(artifacts[a].type), a, s)

-------------------------------------------------------------------------------
(* Steps *)

Step(j) == PIPELINES[jobs[j].kind][jobs[j].step]

\* The plan is the one the job was made for, and still approved.
BugGateOpen(j) == open

GateOpen(j) == open /\ version = jobs[j].plan_version

\* generate_visuals: slides without a picture of their version, and the slide
\* that is being regenerated.
NewVisuals(j) ==
  {[slide |-> s, version |-> data[s].version, body |-> data[s].body] :
     s \in {t \in DOMAIN data :
              /\ data[t].body \in Illustrated
              /\ \/ jobs[j].slide = t
                 \/ ~\E v \in visuals : v.slide = t /\ v.version = data[t].version}}

\* The pictures that render_step may find for a slide: it looks them up by slide
\* alone, in no order, and takes the last.
Pictures(s) ==
  LET found == {v.body : v \in {u \in visuals : u.slide = s}}
  IN  IF found = {} THEN {None} ELSE found

\* What is drawn of the slides S, with some picture for each.
Drawings(S) ==
  {[s \in S |-> [version |-> data[s].version, body |-> data[s].body,
                 picture |-> p[s]]] :
     p \in {q \in [S -> Bodies \cup {None}] : \A s \in S : q[s] \in Pictures(s)}}

\* render_video takes over the scenes of the artifact's current version whose
\* slide version is still the same, but for the slide to regenerate.
BugReused(j, s) ==
  jobs[j].artifact # 0 /\ s # jobs[j].slide /\ s \in DOMAIN Current(jobs[j].artifact).scenes

Reused(j, s) ==
  /\ jobs[j].artifact # 0
  /\ s # jobs[j].slide
  /\ s \in DOMAIN Current(jobs[j].artifact).scenes
  /\ Current(jobs[j].artifact).scenes[s].version = data[s].version

Rendered(j) ==
  LET old == IF Step(j) = "VIDEO" THEN {s \in DOMAIN data : Reused(j, s)} ELSE {}
  IN  {[s \in DOMAIN data |-> IF s \in old THEN Current(jobs[j].artifact).scenes[s] ELSE d[s]] :
         d \in Drawings(DOMAIN data \ old)}

\* persist_artifact: the next version of the artifact, which is new unless the
\* job regenerates one.
NextNumber(a) == IF a = 0 THEN 1 ELSE Len(artifacts[a].versions) + 1

NewVersion(j, qa) ==
  [plan_version |-> version, scenes |-> jobs[j].output, qa_status |-> qa,
   approval_status |-> "DRAFT", passed |-> FALSE]

\* What a handler leaves in its transaction.
Left(pictured, output, number, row) ==
  [visuals |-> pictured, output |-> output, number |-> number, version |-> row, checked |-> FALSE]

Handled(j) ==
  CASE Step(j) = "IMAGE" -> {Left(NewVisuals(j), None, 0, None)}
    [] Step(j) \in {"PPT", "VIDEO"} -> {Left({}, r, 0, None) : r \in Rendered(j)}
    [] Step(j) \in {"PPT_QA", "FINAL_QA"} ->
         {Left({}, None, NextNumber(jobs[j].artifact), NewVersion(j, qa)) : qa \in {"PASS", "FAIL"}}

\* Bounds: how many artifacts there are, and how many versions they have together.
RoomLeft(j) ==
  /\ jobs[j].artifact = 0 => Len(artifacts) < MaxArtifacts
  /\ Cardinality(UNION {{a} \X DOMAIN artifacts[a].versions : a \in DOMAIN artifacts}) < MaxPersisted

Persists(j) == work[j] # NoWork /\ work[j].number > 0

\* SELECT ... FOR UPDATE on the artifact is held until the transaction ends.
BugUnlocked(j) == TRUE

Unlocked(j) ==
  Step(j) \in {"PPT_QA", "FINAL_QA"} /\ jobs[j].artifact # 0 =>
    \A k \in Jobs : Persists(k) => jobs[k].artifact # jobs[j].artifact

Waits(j) == jobs[j] # NoJob /\ work[j] = NoWork
Runs(j) == work[j] # NoWork

\* do_step reads the plan and works; a closed gate fails the step.
DoStep(j) ==
  /\ Waits(j)
  /\ GateOpen(j)
  /\ Unlocked(j)
  /\ \E w \in Handled(j) : work' = [work EXCEPT ![j] = w]
  /\ UNCHANGED <<planVars, jobs, visuals, artifacts, reviewing>>

\* execute_step looks at the plan again after the work.
Recheck(j) ==
  /\ Runs(j)
  /\ ~work[j].checked
  /\ GateOpen(j)
  /\ work' = [work EXCEPT ![j] = [work[j] EXCEPT !.checked = TRUE]]
  /\ UNCHANGED <<planVars, jobs, visuals, artifacts, reviewing>>

\* The gate has closed, or an exception, a cancellation, the loss of the worker.
StepFails(j) ==
  /\ Runs(j)
  /\ work' = [work EXCEPT ![j] = NoWork]
  /\ UNCHANGED <<planVars, jobs, visuals, artifacts, reviewing>>

AtStep(job, step, output) ==
  [kind |-> job.kind, plan_version |-> job.plan_version, artifact |-> job.artifact,
   slide |-> job.slide, step |-> step, output |-> output]

\* The job after its step: the next step with the outputs so far, or done.
After(j, w) ==
  IF jobs[j].step < Len(PIPELINES[jobs[j].kind])
  THEN AtStep(jobs[j], jobs[j].step + 1,
              IF Step(j) \in {"PPT", "VIDEO"} THEN w.output ELSE jobs[j].output)
  ELSE NoJob

Artifact(type, rows, current) == [type |-> type, versions |-> rows, current |-> current]

Persisted(j, w) ==
  LET a == jobs[j].artifact IN
  IF w.number = 0 THEN artifacts
  ELSE IF a = 0 THEN Append(artifacts, Artifact(TypeOf(jobs[j].kind), <<w.version>>, 1))
  ELSE [artifacts EXCEPT ![a] =
          Artifact(artifacts[a].type, Append(artifacts[a].versions, w.version), w.number)]

\* The number is still free (artifact_id, version is unique).
NumberFree(j) == jobs[j].artifact # 0 => work[j].number = Len(artifacts[jobs[j].artifact].versions) + 1

Commit(j) ==
  /\ Runs(j)
  /\ work[j].checked
  /\ work[j].number > 0 => NumberFree(j) /\ RoomLeft(j)
  /\ visuals' = visuals \cup work[j].visuals
  /\ artifacts' = Persisted(j, work[j])
  /\ jobs' = [jobs EXCEPT ![j] = After(j, work[j])]
  /\ work' = [work EXCEPT ![j] = NoWork]
  /\ UNCHANGED <<planVars, reviewing>>

\* The job is cancelled, or it has failed and nobody retries it.
GiveUp(j) ==
  /\ Waits(j)
  /\ jobs' = [jobs EXCEPT ![j] = NoJob]
  /\ UNCHANGED <<planVars, work, visuals, artifacts, reviewing>>

JobStep(j) == DoStep(j) \/ Recheck(j) \/ StepFails(j) \/ Commit(j) \/ GiveUp(j)

-------------------------------------------------------------------------------
(* Reviewing an artifact *)

Decided(row, status) ==
  [plan_version |-> row.plan_version, scenes |-> row.scenes, qa_status |-> row.qa_status,
   approval_status |-> status, passed |-> row.passed \/ status \in Passing]

\* reviews and approve, or a rejection, by a reviewer whose screen shows the version
\* that is current; only what passed QA may pass.  A decision for the status that
\* the session has loaded writes nothing, and is left out.
ReviewLoad(r, a) ==
  /\ reviewing[r] = None
  /\ \E status \in ({"DRAFT"} \cup Passing) \ {Current(a).approval_status} :
       /\ status \in Passing => Current(a).qa_status = "PASS"
       /\ reviewing' = [reviewing EXCEPT ![r] =
            [artifact |-> a, number |-> artifacts[a].current, status |-> status]]
  /\ UNCHANGED <<planVars, jobVars>>

\* The commit writes over whatever the row holds by then, and the artifact may have
\* got another version.
ReviewCommit(r) ==
  LET d == reviewing[r] IN
  /\ d # None
  /\ artifacts' = [artifacts EXCEPT ![d.artifact] =
       Artifact(artifacts[d.artifact].type,
                [artifacts[d.artifact].versions EXCEPT ![d.number] =
                   Decided(artifacts[d.artifact].versions[d.number], d.status)],
                artifacts[d.artifact].current)]
  /\ reviewing' = [reviewing EXCEPT ![r] = None]
  /\ UNCHANGED <<planVars, jobs, work, visuals>>

\* The request is lost before its commit.
ReviewFails(r) ==
  /\ reviewing[r] # None
  /\ reviewing' = [reviewing EXCEPT ![r] = None]
  /\ UNCHANGED <<planVars, jobVars>>

-------------------------------------------------------------------------------

StudioNext ==
  \/ PlanMoves
  \/ \E kind \in Generates : Generation(kind)
  \/ \E a \in DOMAIN artifacts : \E s \in Slides : Regenerate(a, s)
  \/ \E r \in Reviewers :
       \/ \E a \in DOMAIN artifacts : ReviewLoad(r, a)
       \/ ReviewCommit(r)
       \/ ReviewFails(r)
  \/ \E j \in Jobs : JobStep(j)

StudioSpec == StudioInit /\ [][StudioNext]_studioVars

-------------------------------------------------------------------------------
(* Properties *)

Versions == UNION {Range(artifacts[a].versions) : a \in DOMAIN artifacts}

\* Every deck and every video shows what the gate was open for in the version of
\* the plan that it carries, whatever was edited while it was made.
DecksAsApproved == \A v \in Versions : <<v.plan_version, BodiesOf(v.scenes)>> \in passed

\* A running QA step never meets the number it is about to insert, and the
\* current version of an artifact is the last one.
NumbersInOrder ==
  /\ \A j \in Jobs : Persists(j) => NumberFree(j)
  /\ \A a \in DOMAIN artifacts : artifacts[a].current = Len(artifacts[a].versions)

\* Every video was made after a reviewer had passed a deck of the same version
\* of the plan.
VideosAfterDecks ==
  ~ReviewPass => \A a \in DOMAIN artifacts : \A n \in DOMAIN artifacts[a].versions :
    artifacts[a].type = "MP4" =>
      \E b \in DOMAIN artifacts : \E m \in DOMAIN artifacts[b].versions :
        /\ artifacts[b].type = "PPTX"
        /\ artifacts[b].versions[m].passed
        /\ artifacts[b].versions[m].plan_version = artifacts[a].versions[n].plan_version

\* A deck shows every slide with the picture made for what the slide says, and
\* slides that ask for none without one.
PicturesMatch ==
  \A v \in Versions : \A s \in DOMAIN v.scenes :
    v.scenes[s].picture = (IF v.scenes[s].body \in Illustrated THEN v.scenes[s].body ELSE None)
===============================================================================
