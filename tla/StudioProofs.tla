----------------------------- MODULE StudioProofs -----------------------------
(***************************************************************************)
(* Decks and videos show what was approved, are numbered in order and      *)
(* follow reviewed decks, for any number of slides, jobs, artifacts and     *)
(* versions.                                                               *)
(***************************************************************************)
EXTENDS Studio, TLAPS, SequenceTheorems

-------------------------------------------------------------------------------
(* Types *)

\* A scene of a video, or a slide of a deck, as it was drawn.
Scene == [version : Nat \ {0}, body : Bodies, picture : Bodies \cup {None}]
Scenes == UNION {[S -> Scene] : S \in SUBSET Slides}

Marks == {"DRAFT"} \cup Passing
VersionRows ==
  [plan_version : Nat \ {0}, scenes : Scenes, qa_status : {"PASS", "FAIL"},
   approval_status : Marks, passed : BOOLEAN]
ArtifactRows == [type : {"PPTX", "MP4"}, versions : Seq(VersionRows), current : Nat]
VisualRows == [slide : Slides, version : Nat \ {0}, body : Bodies]

JobRows ==
  [kind : {"image", "ppt", "video"}, plan_version : Nat \ {0}, artifact : Nat,
   slide : Slides \cup {None}, step : Nat \ {0}, output : Scenes \cup {None}]
WorkRows ==
  [visuals : SUBSET VisualRows, output : Scenes \cup {None}, number : Nat,
   version : VersionRows \cup {None}, checked : BOOLEAN]
Decisions == [artifact : Nat, number : Nat, status : Marks]

PlanTyped ==
  /\ version \in Nat \ {0}
  /\ IsData(data) /\ DOMAIN data \subseteq used /\ used \subseteq Slides

StudioTypeOK ==
  /\ PlanTyped
  /\ visuals \subseteq VisualRows
  /\ artifacts \in Seq(ArtifactRows)
  /\ jobs \in [Jobs -> JobRows \cup {NoJob}]
  /\ work \in [Jobs -> WorkRows \cup {NoWork}]
  /\ reviewing \in [Reviewers -> Decisions \cup {None}]

-------------------------------------------------------------------------------
(* The inductive invariant *)

OpenPassed == open => <<version, BodiesOf(data)>> \in passed

\* What was drawn of a slide is older than the plan or says the same.
Faithful(f) ==
  \A s \in DOMAIN f :
    /\ s \in used
    /\ s \in DOMAIN data =>
         /\ f[s].version <= data[s].version
         /\ f[s].version = data[s].version => f[s].body = data[s].body

\* Scenes that may stand for version n of the plan.  That a slide keeps its
\* numbers apart needs users who never bring a removed slide_id back.
Shows(n, f) == Restores \/ (Faithful(f) /\ <<n, BodiesOf(f)>> \in passed)

DeckPassed(n) ==
  \E b \in DOMAIN artifacts : \E m \in DOMAIN artifacts[b].versions :
    /\ artifacts[b].type = "PPTX"
    /\ artifacts[b].versions[m].passed
    /\ artifacts[b].versions[m].plan_version = n

AfterDeck(type, n) == ~ReviewPass /\ type = "MP4" => DeckPassed(n)

ArtifactAgrees(a) ==
  /\ artifacts[a].versions # <<>>
  /\ artifacts[a].current = Len(artifacts[a].versions)
  /\ \A n \in DOMAIN artifacts[a].versions :
       /\ Shows(artifacts[a].versions[n].plan_version, artifacts[a].versions[n].scenes)
       /\ artifacts[a].versions[n].approval_status \in Passing => artifacts[a].versions[n].passed
       /\ AfterDeck(artifacts[a].type, artifacts[a].versions[n].plan_version)

\* What the steps of a job have left for the next ones.
JobAgrees(job) ==
  /\ job.step \in DOMAIN PIPELINES[job.kind]
  /\ job.artifact # 0 =>
       /\ job.artifact \in DOMAIN artifacts
       /\ job.kind # "image" /\ artifacts[job.artifact].type = TypeOf(job.kind)
  /\ job.kind = "video" => AfterDeck("MP4", job.plan_version)
  /\ job.step = 3 => job.output \in Scenes /\ Shows(job.plan_version, job.output)

\* What a running step has left in its transaction, by its place in the pipeline.
WorkAgrees(job, w) ==
  /\ job.step # 3 => w.number = 0
  /\ job.step = 2 => w.output \in Scenes /\ Shows(job.plan_version, w.output)
  /\ job.step = 3 =>
       /\ w.number = NextNumber(job.artifact)
       /\ w.version \in VersionRows
       /\ w.version.plan_version = job.plan_version
       /\ w.version.scenes = job.output
       /\ w.version.approval_status = "DRAFT"

\* The version that a reviewer has loaded is still there.
ReviewAgrees(r) ==
  reviewing[r] # None =>
    /\ reviewing[r].artifact \in DOMAIN artifacts
    /\ reviewing[r].number \in DOMAIN artifacts[reviewing[r].artifact].versions

OneNumbering ==
  \A j, k \in Jobs :
    Persists(j) /\ Persists(k) /\ jobs[j].artifact = jobs[k].artifact /\ jobs[j].artifact # 0
      => j = k

StudioInv ==
  /\ StudioTypeOK
  /\ OpenPassed
  /\ \A a \in DOMAIN artifacts : ArtifactAgrees(a)
  /\ \A j \in Jobs : jobs[j] # NoJob => JobAgrees(jobs[j])
  /\ \A j \in Jobs : work[j] # NoWork => jobs[j] # NoJob /\ WorkAgrees(jobs[j], work[j])
  /\ OneNumbering
  /\ \A r \in Reviewers : ReviewAgrees(r)

-------------------------------------------------------------------------------
(* The steps of the three pipelines *)

LEMMA PipelineLengths ==
  /\ PIPELINES["image"] = <<"IMAGE">>
  /\ PIPELINES["ppt"] = <<"IMAGE", "PPT", "PPT_QA">>
  /\ PIPELINES["video"] = <<"IMAGE", "VIDEO", "FINAL_QA">>
BY DEF PIPELINES

LEMMA StepNames ==
  ASSUME NEW j \in Jobs, jobs[j] \in JobRows, JobAgrees(jobs[j])
  PROVE  /\ jobs[j].step \in 1 .. 3
         /\ jobs[j].kind = "image" => jobs[j].step = 1
         /\ jobs[j].step = 1 => Step(j) = "IMAGE"
         /\ jobs[j].step = 2 => Step(j) \in {"PPT", "VIDEO"}
         /\ jobs[j].step = 3 => Step(j) \in {"PPT_QA", "FINAL_QA"}
         /\ jobs[j].step < Len(PIPELINES[jobs[j].kind]) <=> jobs[j].kind # "image" /\ jobs[j].step < 3
         /\ jobs[j].kind # "image" => DOMAIN PIPELINES[jobs[j].kind] = 1 .. 3
<1>1. jobs[j].kind \in {"image", "ppt", "video"} /\ jobs[j].step \in DOMAIN PIPELINES[jobs[j].kind]
  BY DEF JobRows, JobAgrees
<1>2. CASE jobs[j].kind = "image"
  BY <1>1, <1>2, PipelineLengths DEF Step
<1>3. CASE jobs[j].kind = "ppt"
  BY <1>1, <1>3, PipelineLengths DEF Step
<1>4. CASE jobs[j].kind = "video"
  BY <1>1, <1>4, PipelineLengths DEF Step
<1> QED
  BY <1>1, <1>2, <1>3, <1>4

-------------------------------------------------------------------------------
(* What is stored only grows *)

Grows ==
  /\ \A f \in Scenes : \A n : Shows(n, f) => Shows(n, f)'
  /\ \A a \in DOMAIN artifacts :
       /\ a \in DOMAIN artifacts' /\ artifacts'[a].type = artifacts[a].type
       /\ DOMAIN artifacts[a].versions \subseteq DOMAIN artifacts'[a].versions
  /\ \A n : DeckPassed(n) => DeckPassed(n)'

LEMMA GrowsSame ==
  ASSUME UNCHANGED <<planVars, artifacts>>
  PROVE  Grows
BY DEF Grows, planVars, Shows, Faithful, DeckPassed

LEMMA RowsOf ==
  ASSUME StudioTypeOK
  PROVE  /\ Len(artifacts) \in Nat /\ DOMAIN artifacts = 1 .. Len(artifacts)
         /\ \A a \in DOMAIN artifacts :
              /\ artifacts[a] \in ArtifactRows
              /\ artifacts[a].type \in {"PPTX", "MP4"} /\ artifacts[a].versions \in Seq(VersionRows)
              /\ Len(artifacts[a].versions) \in Nat
              /\ DOMAIN artifacts[a].versions = 1 .. Len(artifacts[a].versions)
              /\ \A n \in DOMAIN artifacts[a].versions :
                   /\ artifacts[a].versions[n] \in VersionRows
                   /\ artifacts[a].versions[n].scenes \in Scenes
<1>1. artifacts \in Seq(ArtifactRows)
  BY DEF StudioTypeOK
<1>2. Len(artifacts) \in Nat /\ DOMAIN artifacts = 1 .. Len(artifacts)
  BY <1>1
<1>3. ASSUME NEW a \in DOMAIN artifacts
      PROVE  artifacts[a] \in ArtifactRows
  BY <1>1, <1>3
<1>4. ASSUME NEW a \in DOMAIN artifacts
      PROVE  artifacts[a].type \in {"PPTX", "MP4"} /\ artifacts[a].versions \in Seq(VersionRows)
  BY <1>3, <1>4 DEF ArtifactRows
<1>5. ASSUME NEW a \in DOMAIN artifacts, NEW n \in DOMAIN artifacts[a].versions
      PROVE  artifacts[a].versions[n] \in VersionRows
  BY <1>4, <1>5
<1>6. ASSUME NEW v \in VersionRows PROVE v.scenes \in Scenes
  BY DEF VersionRows
<1> QED
  BY <1>2, <1>3, <1>4, <1>5, <1>6

LEMMA JobStays ==
  ASSUME Grows, NEW k \in Jobs, JobAgrees(jobs[k]), jobs'[k] = jobs[k]
  PROVE  JobAgrees(jobs[k])'
<1>1. jobs[k].kind = "video" => AfterDeck("MP4", jobs[k].plan_version)'
  BY DEF Grows, JobAgrees, AfterDeck
<1>2. jobs[k].step = 3 => Shows(jobs[k].plan_version, jobs[k].output)'
  BY DEF Grows, JobAgrees
<1>3. jobs[k].artifact # 0 =>
        /\ jobs[k].artifact \in DOMAIN artifacts'
        /\ artifacts'[jobs[k].artifact].type = TypeOf(jobs[k].kind)
  BY DEF Grows, JobAgrees
<1> QED
  BY <1>1, <1>2, <1>3 DEF JobAgrees, AfterDeck, Shows, Faithful, DeckPassed, TypeOf

LEMMA WorkStays ==
  ASSUME Grows, NEW k \in Jobs, WorkAgrees(jobs[k], work[k]),
         jobs'[k] = jobs[k], work'[k] = work[k],
         jobs[k].step = 3 => NextNumber(jobs[k].artifact)' = NextNumber(jobs[k].artifact)
  PROVE  WorkAgrees(jobs[k], work[k])'
<1>1. jobs[k].step = 2 => Shows(jobs[k].plan_version, work[k].output)'
  BY DEF Grows, WorkAgrees
<1> QED
  BY <1>1 DEF WorkAgrees, NextNumber, Shows, Faithful

LEMMA ArtifactStays ==
  ASSUME Grows, StudioTypeOK, NEW a \in DOMAIN artifacts, ArtifactAgrees(a),
         artifacts'[a] = artifacts[a]
  PROVE  ArtifactAgrees(a)'
<1>1. ASSUME NEW n \in DOMAIN artifacts[a].versions
      PROVE  /\ Shows(artifacts[a].versions[n].plan_version, artifacts[a].versions[n].scenes)'
             /\ AfterDeck(artifacts[a].type, artifacts[a].versions[n].plan_version)'
  <2>1. artifacts[a].versions[n].scenes \in Scenes
    BY <1>1, RowsOf
  <2> QED
    BY <1>1, <2>1 DEF Grows, ArtifactAgrees, AfterDeck
<1> QED
  BY <1>1 DEF ArtifactAgrees, Shows, Faithful, AfterDeck, DeckPassed

LEMMA ReviewStays ==
  ASSUME Grows, NEW r \in Reviewers, ReviewAgrees(r), reviewing'[r] = reviewing[r]
  PROVE  ReviewAgrees(r)'
BY DEF Grows, ReviewAgrees

\* A transaction inserts a version in the last step of a pipeline.
LEMMA PersistsLast ==
  ASSUME StudioInv, NEW k \in Jobs, work[k] # NoWork
  PROVE  Persists(k) <=> jobs[k].step = 3
<1>1. WorkAgrees(jobs[k], work[k]) /\ jobs[k] # NoJob
  BY DEF StudioInv
<1>2. JobAgrees(jobs[k]) /\ StudioTypeOK
  BY <1>1 DEF StudioInv
<1>3. CASE jobs[k].step = 3
  <2>1. NextNumber(jobs[k].artifact) \in Nat \ {0}
    BY <1>2, RowsOf DEF JobAgrees, NextNumber
  <2> QED
    BY <1>1, <1>3, <2>1 DEF WorkAgrees, Persists
<1> QED
  BY <1>1, <1>3 DEF WorkAgrees, Persists

\* One job moves, and the rest of the invariant is about it.
LEMMA OneJobMoves ==
  ASSUME StudioInv, Grows, UNCHANGED <<planVars, reviewing>>, StudioTypeOK', NEW j \in Jobs,
         \A a \in DOMAIN artifacts' : ArtifactAgrees(a)',
         \A k \in Jobs \ {j} :
           /\ jobs'[k] = jobs[k] /\ work'[k] = work[k]
           /\ Persists(k) => NextNumber(jobs[k].artifact)' = NextNumber(jobs[k].artifact),
         jobs'[j] # NoJob => JobAgrees(jobs[j])',
         work'[j] # NoWork => jobs'[j] # NoJob /\ WorkAgrees(jobs[j], work[j])',
         Persists(j)' /\ jobs'[j].artifact # 0 =>
           \A k \in Jobs \ {j} : Persists(k) => jobs[k].artifact # jobs'[j].artifact
  PROVE  StudioInv'
<1>1. OpenPassed'
  BY DEF StudioInv, OpenPassed, planVars
<1>2. ASSUME NEW k \in Jobs, jobs'[k] # NoJob
      PROVE  JobAgrees(jobs[k])'
  BY <1>2, JobStays DEF StudioInv
<1>3. ASSUME NEW k \in Jobs, work'[k] # NoWork
      PROVE  jobs'[k] # NoJob /\ WorkAgrees(jobs[k], work[k])'
  <2>1. CASE k # j
    <3>1. jobs'[k] = jobs[k] /\ work'[k] = work[k]
      BY <2>1
    <3>2. jobs[k] # NoJob /\ WorkAgrees(jobs[k], work[k])
      BY <1>3, <3>1 DEF StudioInv
    <3>3. jobs[k].step = 3 => NextNumber(jobs[k].artifact)' = NextNumber(jobs[k].artifact)
      BY <1>3, <2>1, <3>1, PersistsLast
    <3> QED
      BY <3>1, <3>2, <3>3, WorkStays
  <2> QED
    BY <1>3, <2>1
<1>4. OneNumbering'
  <2>1. ASSUME NEW k \in Jobs \ {j}
        PROVE  Persists(k)' = Persists(k) /\ jobs'[k].artifact = jobs[k].artifact
    BY DEF Persists
  <2>2. OneNumbering
    BY DEF StudioInv
  <2> QED
    BY <2>1, <2>2 DEF OneNumbering
<1>5. \A r \in Reviewers : ReviewAgrees(r)'
  BY ReviewStays DEF StudioInv
<1> QED
  BY <1>1, <1>2, <1>3, <1>4, <1>5 DEF StudioInv

\* No job moves.
LEMMA NoJobMoves ==
  ASSUME StudioInv, Grows, StudioTypeOK', OpenPassed', UNCHANGED <<jobs, work>>,
         \A a \in DOMAIN artifacts' : ArtifactAgrees(a)',
         \A r \in Reviewers : ReviewAgrees(r)',
         \A k \in Jobs : jobs[k] # NoJob =>
           NextNumber(jobs[k].artifact)' = NextNumber(jobs[k].artifact)
  PROVE  StudioInv'
<1>1. ASSUME NEW k \in Jobs, jobs'[k] # NoJob
      PROVE  JobAgrees(jobs[k])'
  BY <1>1, JobStays DEF StudioInv
<1>2. ASSUME NEW k \in Jobs, work'[k] # NoWork
      PROVE  jobs'[k] # NoJob /\ WorkAgrees(jobs[k], work[k])'
  BY <1>2, WorkStays DEF StudioInv
<1>3. OneNumbering'
  BY DEF StudioInv, OneNumbering, Persists
<1> QED
  BY <1>1, <1>2, <1>3 DEF StudioInv

-------------------------------------------------------------------------------
(* The plan moves *)

LEMMA ContentsParts ==
  ASSUME NEW c \in Contents
  PROVE  /\ DOMAIN c \in SUBSET Slides \ {{}}
         /\ \A s \in DOMAIN c : c[s] \in Bodies
BY DEF Contents

LEMMA SceneParts ==
  ASSUME NEW f \in Scenes, NEW s \in DOMAIN f
  PROVE  s \in Slides /\ f[s] \in Scene /\ f[s].version \in Nat \ {0} /\ f[s].body \in Bodies
<1>1. f[s] \in Scene /\ s \in Slides
  BY DEF Scenes
<1> QED
  BY <1>1 DEF Scene

LEMMA DataParts ==
  ASSUME PlanTyped, NEW s \in DOMAIN data
  PROVE  s \in Slides /\ data[s].version \in Nat \ {0} /\ data[s].body \in Bodies
<1>1. data[s] \in Versioned /\ s \in Slides
  BY DEF PlanTyped, IsData
<1> QED
  BY <1>1 DEF Versioned

LEMMA NumberedParts ==
  ASSUME PlanTyped, NEW c \in Contents
  PROVE  /\ DOMAIN Numbered(data, c) = DOMAIN c
         /\ IsData(Numbered(data, c))
         /\ \A s \in DOMAIN c \cap DOMAIN data :
              \/ Numbered(data, c)[s].version = data[s].version + 1
              \/ Numbered(data, c)[s] = data[s]
<1>1. DOMAIN Numbered(data, c) = DOMAIN c
  BY DEF Numbered
<1>2. ASSUME NEW s \in DOMAIN c
      PROVE  Numbered(data, c)[s] \in Versioned
  <2>1. c[s] \in Bodies
    BY <1>2, ContentsParts
  <2>2. CASE s \in DOMAIN data
    <3>1. data[s].version \in Nat \ {0}
      BY <2>2, DataParts
    <3> QED
      BY <1>2, <2>1, <2>2, <3>1 DEF Numbered, Versioned
  <2>3. CASE s \notin DOMAIN data
    BY <1>2, <2>1, <2>3 DEF Numbered, Versioned
  <2> QED
    BY <2>2, <2>3
<1>3. ASSUME NEW s \in DOMAIN c \cap DOMAIN data
      PROVE  \/ Numbered(data, c)[s].version = data[s].version + 1
             \/ Numbered(data, c)[s] = data[s]
  <2>1. data[s] \in Versioned
    BY <1>3 DEF PlanTyped, IsData
  <2>2. data[s] = [version |-> data[s].version, body |-> data[s].body]
    BY <2>1 DEF Versioned
  <2> QED
    BY <1>3, <2>2 DEF Numbered
<1>4. Numbered(data, c) \in [DOMAIN c -> Versioned]
  BY <1>2 DEF Numbered
<1> QED
  BY <1>1, <1>3, <1>4, ContentsParts DEF IsData

LEMMA PlanMovesGrow ==
  ASSUME StudioTypeOK, PlanMoves
  PROVE  PlanTyped' /\ OpenPassed' /\ Grows
<1>0. PlanTyped /\ passed \subseteq passed' /\ UNCHANGED <<jobVars, reviewing>>
  BY DEF StudioTypeOK, PlanMoves
<1>1. OpenPassed'
  BY DEF PlanMoves, OpenPassed
<1>2. \A n : DeckPassed(n) => DeckPassed(n)'
  BY <1>0 DEF DeckPassed, jobVars
<1>3. \A a \in DOMAIN artifacts :
        /\ a \in DOMAIN artifacts' /\ artifacts'[a].type = artifacts[a].type
        /\ DOMAIN artifacts[a].versions \subseteq DOMAIN artifacts'[a].versions
  BY <1>0 DEF jobVars
<1>4. CASE Decide
  <2>1. PlanTyped'
    BY <1>0, <1>4 DEF Decide, PlanTyped, IsData
  <2>2. \A f \in Scenes : \A n : Shows(n, f) => Shows(n, f)'
    BY <1>0, <1>4 DEF Decide, Shows, Faithful
  <2> QED
    BY <1>1, <1>2, <1>3, <2>1, <2>2 DEF Grows
<1>5. CASE Edit
  <2>1. PICK c \in Contents : /\ Restores \/ (DOMAIN c \ DOMAIN data) \cap used = {}
                              /\ data' = Numbered(data, c)
                              /\ used' = used \cup DOMAIN c
    BY <1>5 DEF Edit
  <2>2. PlanTyped'
    <3>1. IsData(data)'
      BY <1>0, <2>1, NumberedParts DEF IsData
    <3>2. DOMAIN data' \subseteq used' /\ used' \subseteq Slides
      BY <1>0, <2>1, NumberedParts, ContentsParts DEF PlanTyped
    <3>3. version' \in Nat \ {0}
      BY <1>0, <1>5 DEF PlanTyped, Edit
    <3> QED
      BY <3>1, <3>2, <3>3 DEF PlanTyped
  <2>3. ASSUME NEW f \in Scenes, ~Restores, Faithful(f)
        PROVE  Faithful(f)'
    <3>1. ASSUME NEW s \in DOMAIN f, s \in DOMAIN data'
          PROVE  /\ f[s].version <= data'[s].version
                 /\ f[s].version = data'[s].version => f[s].body = data'[s].body
      <4>1. s \in used /\ s \in DOMAIN c
        BY <1>0, <2>1, <2>3, <3>1, NumberedParts DEF Faithful
      <4>2. s \in DOMAIN data
        BY <2>1, <2>3, <4>1
      <4>3. f[s].version \in Nat /\ data[s].version \in Nat
        BY <1>0, <2>3, <3>1, <4>2, SceneParts, DataParts
      <4>4. data'[s].version = data[s].version + 1 \/ data'[s] = data[s]
        BY <1>0, <2>1, <4>1, <4>2, NumberedParts
      <4> QED
        BY <2>3, <3>1, <4>2, <4>3, <4>4 DEF Faithful
    <3>2. \A s \in DOMAIN f : s \in used'
      BY <2>1, <2>3 DEF Faithful
    <3> QED
      BY <3>1, <3>2 DEF Faithful
  <2>4. \A f \in Scenes : \A n : Shows(n, f) => Shows(n, f)'
    BY <1>0, <2>3 DEF Shows
  <2> QED
    BY <1>1, <1>2, <1>3, <2>2, <2>4 DEF Grows
<1> QED
  BY <1>4, <1>5 DEF PlanMoves, GateNext

LEMMA PlanMovesSafe ==
  ASSUME StudioInv, PlanMoves
  PROVE  StudioInv'
<1>0. StudioTypeOK /\ UNCHANGED <<jobVars, reviewing>>
  BY DEF StudioInv, PlanMoves
<1>1. PlanTyped' /\ OpenPassed' /\ Grows
  BY <1>0, PlanMovesGrow
<1>2. StudioTypeOK'
  BY <1>0, <1>1 DEF StudioTypeOK, jobVars
<1>3. ASSUME NEW a \in DOMAIN artifacts'
      PROVE  ArtifactAgrees(a)'
  BY <1>0, <1>1, <1>3, ArtifactStays DEF StudioInv, jobVars
<1>4. ASSUME NEW k \in Jobs
      PROVE  NextNumber(jobs[k].artifact)' = NextNumber(jobs[k].artifact)
  BY <1>0, <1>4 DEF NextNumber, jobVars
<1>5. \A r \in Reviewers : ReviewAgrees(r)'
  BY <1>0, <1>1, ReviewStays DEF StudioInv
<1> QED
  BY <1>0, <1>1, <1>2, <1>3, <1>4, <1>5, NoJobMoves DEF jobVars

-------------------------------------------------------------------------------
(* Steps that store nothing *)

LEMMA StorageStays ==
  ASSUME StudioInv, UNCHANGED <<planVars, artifacts, reviewing>>, NEW j \in Jobs,
         StudioTypeOK',
         \A k \in Jobs \ {j} : jobs'[k] = jobs[k] /\ work'[k] = work[k],
         jobs'[j] # NoJob => JobAgrees(jobs[j])',
         work'[j] # NoWork => jobs'[j] # NoJob /\ WorkAgrees(jobs[j], work[j])',
         Persists(j)' /\ jobs'[j].artifact # 0 =>
           \A k \in Jobs \ {j} : Persists(k) => jobs[k].artifact # jobs'[j].artifact
  PROVE  StudioInv'
<1>1. Grows
  BY GrowsSame
<1>2. ASSUME NEW a \in DOMAIN artifacts'
      PROVE  ArtifactAgrees(a)'
  BY <1>1, <1>2, ArtifactStays DEF StudioInv
<1>3. ASSUME NEW k \in Jobs \ {j}
      PROVE  NextNumber(jobs[k].artifact)' = NextNumber(jobs[k].artifact)
  BY <1>3 DEF NextNumber
<1> QED
  BY <1>1, <1>2, <1>3, OneJobMoves

LEMMA StepFailsSafe ==
  ASSUME StudioInv, NEW j \in Jobs, StepFails(j)
  PROVE  StudioInv'
<1>1. StudioTypeOK /\ UNCHANGED <<planVars, artifacts, jobs, visuals, reviewing>>
  BY DEF StudioInv, StepFails
<1>2. StudioTypeOK' /\ work'[j] = NoWork /\ \A k \in Jobs \ {j} : work'[k] = work[k]
  BY <1>1 DEF StudioTypeOK, PlanTyped, IsData, planVars, StepFails
<1>3. jobs'[j] # NoJob => JobAgrees(jobs[j])'
  BY <1>1, GrowsSame, JobStays DEF StudioInv
<1>4. ~Persists(j)'
  BY <1>2 DEF Persists
<1> QED
  BY <1>1, <1>2, <1>3, <1>4, StorageStays

LEMMA GiveUpSafe ==
  ASSUME StudioInv, NEW j \in Jobs, GiveUp(j)
  PROVE  StudioInv'
<1>1. StudioTypeOK /\ UNCHANGED <<planVars, artifacts, work, visuals, reviewing>> /\ work[j] = NoWork
  BY DEF StudioInv, GiveUp, Waits
<1>2. StudioTypeOK' /\ jobs'[j] = NoJob /\ \A k \in Jobs \ {j} : jobs'[k] = jobs[k]
  BY <1>1 DEF StudioTypeOK, PlanTyped, IsData, planVars, GiveUp
<1>3. ~Persists(j)'
  BY <1>1 DEF Persists
<1> QED
  BY <1>1, <1>2, <1>3, StorageStays

LEMMA RecheckSafe ==
  ASSUME StudioInv, NEW j \in Jobs, Recheck(j)
  PROVE  StudioInv'
<1>1. StudioTypeOK /\ UNCHANGED <<planVars, artifacts, jobs, visuals, reviewing>> /\ work[j] # NoWork
  BY DEF StudioInv, Recheck, Runs
<1>2. work[j] \in WorkRows /\ work'[j] = [work[j] EXCEPT !.checked = TRUE]
      /\ \A k \in Jobs \ {j} : work'[k] = work[k]
  BY <1>1 DEF StudioTypeOK, Recheck
<1>3. work'[j] \in WorkRows /\ work'[j].number = work[j].number
      /\ work'[j].output = work[j].output /\ work'[j].version = work[j].version
  BY <1>2 DEF WorkRows
<1>4. StudioTypeOK'
  BY <1>1, <1>3 DEF StudioTypeOK, PlanTyped, IsData, planVars, Recheck
<1>5. jobs'[j] # NoJob => JobAgrees(jobs[j])'
  BY <1>1, GrowsSame, JobStays DEF StudioInv
<1>6. jobs'[j] # NoJob /\ WorkAgrees(jobs[j], work[j])'
  <2>1. jobs[j] # NoJob /\ WorkAgrees(jobs[j], work[j])
    BY <1>1 DEF StudioInv
  <2>2. Shows(jobs[j].plan_version, work[j].output)' <=> Shows(jobs[j].plan_version, work[j].output)
    BY <1>1, <1>3 DEF Shows, Faithful, planVars
  <2> QED
    BY <1>1, <1>3, <2>1, <2>2 DEF WorkAgrees, NextNumber
<1>7. Persists(j)' => Persists(j)
  BY <1>1, <1>3 DEF Persists
<1>8. Persists(j)' /\ jobs'[j].artifact # 0 =>
        \A k \in Jobs \ {j} : Persists(k) => jobs[k].artifact # jobs'[j].artifact
  BY <1>1, <1>7 DEF StudioInv, OneNumbering
<1> QED
  BY <1>1, <1>2, <1>4, <1>5, <1>6, <1>8, StorageStays

-------------------------------------------------------------------------------
(* Asking for generation *)

\* The current version is the last one.
LEMMA CurrentIsLast ==
  ASSUME StudioInv, NEW a \in DOMAIN artifacts
  PROVE  /\ artifacts[a].current \in DOMAIN artifacts[a].versions
         /\ artifacts[a].current = Len(artifacts[a].versions)
         /\ Current(a) \in VersionRows
<1>1. StudioTypeOK /\ ArtifactAgrees(a)
  BY DEF StudioInv
<1>2. artifacts[a].versions \in Seq(VersionRows) /\ artifacts[a].versions # <<>>
  BY <1>1, RowsOf DEF ArtifactAgrees
<1>3. Len(artifacts[a].versions) \in DOMAIN artifacts[a].versions
  BY <1>2
<1>4. artifacts[a].current = Len(artifacts[a].versions)
  BY <1>1 DEF ArtifactAgrees
<1> QED
  BY <1>1, <1>3, <1>4, RowsOf DEF Current

LEMMA VideosMayFollow ==
  ASSUME StudioInv, MayGenerate("video")
  PROVE  AfterDeck("MP4", version)
<1> SUFFICES ASSUME ~ReviewPass PROVE DeckPassed(version)
  BY DEF AfterDeck
<1>1. PICK a \in DOMAIN artifacts : /\ artifacts[a].type = "PPTX"
                                    /\ Current(a).approval_status \in Passing
                                    /\ Current(a).plan_version = version
  BY DEF MayGenerate, DeckReviewed
<1>2. artifacts[a].current \in DOMAIN artifacts[a].versions
  BY CurrentIsLast
<1>3. ArtifactAgrees(a)
  BY DEF StudioInv
<1> QED
  BY <1>1, <1>2, <1>3 DEF ArtifactAgrees, Current, DeckPassed

LEMMA CreateSafe ==
  ASSUME StudioInv, NEW kind \in {"image", "ppt", "video"}, NEW artifact \in Nat,
         NEW slide \in Slides \cup {None},
         artifact # 0 => /\ artifact \in DOMAIN artifacts
                         /\ kind # "image" /\ artifacts[artifact].type = TypeOf(kind),
         MayGenerate(kind), Create(kind, artifact, slide)
  PROVE  StudioInv'
<1>1. PICK j \in Jobs : jobs[j] = NoJob /\ jobs' = [jobs EXCEPT ![j] = NewJob(kind, artifact, slide)]
  BY DEF Create
<1>2. StudioTypeOK /\ UNCHANGED <<planVars, artifacts, work, visuals, reviewing>>
  BY DEF StudioInv, Create
<1>3. work'[j] = NoWork
  BY <1>1, <1>2 DEF StudioInv
<1>4. NewJob(kind, artifact, slide) \in JobRows
  BY <1>2 DEF StudioTypeOK, PlanTyped, NewJob, JobRows
<1>5. jobs'[j] = NewJob(kind, artifact, slide) /\ \A k \in Jobs \ {j} : jobs'[k] = jobs[k]
  BY <1>1, <1>2 DEF StudioTypeOK
<1>6. StudioTypeOK'
  BY <1>1, <1>2, <1>4 DEF StudioTypeOK, PlanTyped, IsData, planVars
<1>7. JobAgrees(jobs[j])'
  <2>1. kind = "video" => AfterDeck("MP4", version)'
    BY <1>2, VideosMayFollow DEF AfterDeck, DeckPassed, planVars
  <2>2. 1 \in DOMAIN PIPELINES[kind]
    BY PipelineLengths
  <2>3. /\ jobs'[j].kind = kind /\ jobs'[j].step = 1 /\ jobs'[j].artifact = artifact
        /\ jobs'[j].plan_version = version
    BY <1>5 DEF NewJob
  <2> QED
    BY <1>2, <2>1, <2>2, <2>3 DEF JobAgrees, AfterDeck, DeckPassed, TypeOf, planVars
<1>8. ~Persists(j)'
  BY <1>3 DEF Persists
<1> QED
  BY <1>2, <1>3, <1>5, <1>6, <1>7, <1>8, StorageStays

LEMMA GenerationSafe ==
  ASSUME StudioInv, NEW kind \in Generates, Generation(kind)
  PROVE  StudioInv'
BY GeneratesAssumption, CreateSafe DEF Generation

LEMMA RegenerateSafe ==
  ASSUME StudioInv, NEW a \in DOMAIN artifacts, NEW s \in Slides, Regenerate(a, s)
  PROVE  StudioInv'
<1>1. StudioTypeOK
  BY DEF StudioInv
<1>2. a \in Nat \ {0} /\ artifacts[a].type \in {"PPTX", "MP4"}
  BY <1>1, RowsOf
<1>3. /\ KindOf(artifacts[a].type) \in {"ppt", "video"}
      /\ TypeOf(KindOf(artifacts[a].type)) = artifacts[a].type
  BY <1>2 DEF KindOf, TypeOf
<1> QED
  BY <1>2, <1>3, CreateSafe DEF Regenerate

-------------------------------------------------------------------------------
(* Handlers *)

LEMMA DrawnScenes ==
  ASSUME PlanTyped, NEW S, S \subseteq DOMAIN data, NEW d \in Drawings(S), NEW s \in S
  PROVE  d[s] \in Scene /\ d[s].version = data[s].version /\ d[s].body = data[s].body
<1>1. PICK p \in [S -> Bodies \cup {None}] :
        d = [t \in S |-> [version |-> data[t].version, body |-> data[t].body, picture |-> p[t]]]
  BY DEF Drawings
<1>2. d[s] = [version |-> data[s].version, body |-> data[s].body, picture |-> p[s]]
  BY <1>1
<1>3. data[s].version \in Nat \ {0} /\ data[s].body \in Bodies /\ p[s] \in Bodies \cup {None}
  BY DataParts
<1> QED
  BY <1>2, <1>3 DEF Scene

\* A scene that is taken over says what the plan says now.
LEMMA ReusedScenes ==
  ASSUME StudioInv, NEW j \in Jobs, jobs[j] # NoJob, NEW s \in DOMAIN data, Reused(j, s)
  PROVE  LET f == Current(jobs[j].artifact).scenes
         IN  /\ f[s] \in Scene /\ f[s].version = data[s].version
             /\ ~Restores => f[s].body = data[s].body
<1> DEFINE a == jobs[j].artifact
           f == Current(jobs[j].artifact).scenes
<1>1. a \in DOMAIN artifacts
  BY DEF Reused, StudioInv, JobAgrees
<1>2. artifacts[a].current \in DOMAIN artifacts[a].versions /\ StudioTypeOK
  BY <1>1, CurrentIsLast DEF StudioInv
<1>3. f \in Scenes
  BY <1>1, <1>2, RowsOf DEF Current
<1>4. s \in DOMAIN f /\ f[s].version = data[s].version
  BY DEF Reused
<1>5. f[s] \in Scene
  BY <1>3, <1>4, SceneParts
<1>6. ArtifactAgrees(a)
  BY <1>1 DEF StudioInv
<1>7. Shows(artifacts[a].versions[artifacts[a].current].plan_version, f)
  BY <1>2, <1>6 DEF ArtifactAgrees, Current
<1>8. ~Restores => Faithful(f)
  BY <1>7 DEF Shows
<1> QED
  BY <1>4, <1>5, <1>8 DEF Faithful

LEMMA RenderedScenes ==
  ASSUME StudioInv, NEW j \in Jobs, jobs[j] # NoJob, NEW r \in Rendered(j)
  PROVE  /\ DOMAIN r = DOMAIN data /\ r = [s \in DOMAIN data |-> r[s]]
         /\ \A s \in DOMAIN data : /\ r[s] \in Scene /\ r[s].version = data[s].version
                                   /\ ~Restores => r[s].body = data[s].body
<1> DEFINE old == IF Step(j) = "VIDEO" THEN {s \in DOMAIN data : Reused(j, s)} ELSE {}
           f == Current(jobs[j].artifact).scenes
<1>1. PICK d \in Drawings(DOMAIN data \ old) :
        r = [s \in DOMAIN data |-> IF s \in old THEN f[s] ELSE d[s]]
  BY DEF Rendered
<1>2. PlanTyped
  BY DEF StudioInv, StudioTypeOK
<1>3. ASSUME NEW s \in old
      PROVE  /\ f[s] \in Scene /\ f[s].version = data[s].version
             /\ ~Restores => f[s].body = data[s].body
  <2>1. s \in DOMAIN data /\ Reused(j, s)
    BY <1>3
  <2> QED
    BY <2>1, ReusedScenes
<1>4. ASSUME NEW s \in DOMAIN data \ old
      PROVE  d[s] \in Scene /\ d[s].version = data[s].version /\ d[s].body = data[s].body
  <2>1. DOMAIN data \ old \subseteq DOMAIN data
    OBVIOUS
  <2> HIDE DEF old
  <2> QED
    BY <1>2, <1>4, <2>1, DrawnScenes
<1> HIDE DEF old, f
<1> QED
  BY <1>1, <1>3, <1>4

LEMMA RenderedShows ==
  ASSUME StudioInv, open, NEW j \in Jobs, jobs[j] # NoJob, NEW r \in Rendered(j)
  PROVE  r \in Scenes /\ Shows(version, r)
<1>0. PlanTyped
  BY DEF StudioInv, StudioTypeOK
<1>1. r \in Scenes
  <2>1. DOMAIN data \in SUBSET Slides
    BY <1>0 DEF PlanTyped, IsData
  <2>2. r \in [DOMAIN data -> Scene]
    BY RenderedScenes
  <2> QED
    BY <2>1, <2>2 DEF Scenes
<1>2. ASSUME ~Restores
      PROVE  Faithful(r) /\ <<version, BodiesOf(r)>> \in passed
  <2>1. BodiesOf(r) = BodiesOf(data)
    BY <1>2, RenderedScenes DEF BodiesOf
  <2>2. <<version, BodiesOf(data)>> \in passed
    BY DEF StudioInv, OpenPassed
  <2>3. ASSUME NEW s \in DOMAIN r
        PROVE  /\ s \in used /\ s \in DOMAIN data
               /\ r[s].version <= data[s].version /\ r[s].body = data[s].body
    <3>1. s \in DOMAIN data /\ r[s].version = data[s].version /\ r[s].body = data[s].body
      BY <1>2, <2>3, RenderedScenes
    <3>2. s \in used /\ data[s].version \in Nat
      BY <1>0, <3>1, DataParts DEF PlanTyped
    <3> QED
      BY <3>1, <3>2
  <2> QED
    BY <2>1, <2>2, <2>3 DEF Faithful
<1> QED
  BY <1>1, <1>2, SwitchesAssumption DEF Shows

LEMMA HandledAgrees ==
  ASSUME StudioInv, NEW j \in Jobs, jobs[j] # NoJob, GateOpen(j), NEW w \in Handled(j)
  PROVE  w \in WorkRows /\ WorkAgrees(jobs[j], w)
<1>0. StudioTypeOK /\ JobAgrees(jobs[j]) /\ jobs[j] \in JobRows
  BY DEF StudioInv, StudioTypeOK
<1>00. PlanTyped
  BY <1>0 DEF StudioTypeOK
<1>1. CASE jobs[j].step = 1
  <2>1. w = Left(NewVisuals(j), None, 0, None)
    BY <1>0, <1>1, StepNames DEF Handled
  <2>2. NewVisuals(j) \in SUBSET VisualRows
    BY <1>00, DataParts DEF NewVisuals, VisualRows
  <2> QED
    BY <1>1, <2>1, <2>2 DEF Left, WorkRows, WorkAgrees
<1>2. CASE jobs[j].step = 2
  <2>1. PICK r \in Rendered(j) : w = Left({}, r, 0, None)
    BY <1>0, <1>2, StepNames DEF Handled
  <2>2. r \in Scenes /\ Shows(jobs[j].plan_version, r)
    BY RenderedShows DEF GateOpen
  <2> QED
    BY <1>2, <2>1, <2>2 DEF Left, WorkRows, WorkAgrees
<1>3. CASE jobs[j].step = 3
  <2>1. PICK qa \in {"PASS", "FAIL"} :
          w = Left({}, None, NextNumber(jobs[j].artifact), NewVersion(j, qa))
    BY <1>0, <1>3, StepNames DEF Handled
  <2>2. NewVersion(j, qa) \in VersionRows
    BY <1>0, <1>00, <1>3 DEF JobAgrees, PlanTyped, NewVersion, VersionRows, Marks
  <2>3. NextNumber(jobs[j].artifact) \in Nat
    BY <1>0, RowsOf DEF JobAgrees, NextNumber
  <2>4. /\ NewVersion(j, qa).plan_version = jobs[j].plan_version
        /\ NewVersion(j, qa).scenes = jobs[j].output
        /\ NewVersion(j, qa).approval_status = "DRAFT"
    BY DEF NewVersion, GateOpen
  <2> HIDE DEF NewVersion, NextNumber
  <2>5. /\ w.number = NextNumber(jobs[j].artifact) /\ w.version = NewVersion(j, qa)
        /\ w \in WorkRows
    BY <2>1, <2>2, <2>3 DEF Left, WorkRows
  <2> QED
    BY <1>3, <2>2, <2>4, <2>5 DEF WorkAgrees
<1> QED
  BY <1>0, <1>1, <1>2, <1>3, StepNames

LEMMA DoStepSafe ==
  ASSUME StudioInv, NEW j \in Jobs, DoStep(j)
  PROVE  StudioInv'
<1>1. /\ StudioTypeOK /\ UNCHANGED <<planVars, artifacts, jobs, visuals, reviewing>>
      /\ jobs[j] # NoJob /\ GateOpen(j) /\ Unlocked(j)
  BY DEF StudioInv, DoStep, Waits
<1>2. PICK w \in Handled(j) : work' = [work EXCEPT ![j] = w]
  BY DEF DoStep
<1>3. w \in WorkRows /\ WorkAgrees(jobs[j], w)
  BY <1>1, HandledAgrees
<1>4. work'[j] = w /\ \A k \in Jobs \ {j} : work'[k] = work[k]
  BY <1>1, <1>2 DEF StudioTypeOK
<1>5. StudioTypeOK'
  BY <1>1, <1>2, <1>3 DEF StudioTypeOK, PlanTyped, IsData, planVars
<1>6. JobAgrees(jobs[j]) /\ jobs[j] \in JobRows
  BY <1>1 DEF StudioInv, StudioTypeOK
<1>7. JobAgrees(jobs[j])'
  BY <1>1, <1>6, GrowsSame, JobStays
<1>8. WorkAgrees(jobs[j], work[j])'
  <2>1. Shows(jobs[j].plan_version, work[j].output)' <=> Shows(jobs[j].plan_version, w.output)
    BY <1>1, <1>4 DEF Shows, Faithful, planVars
  <2> QED
    BY <1>1, <1>3, <1>4, <2>1 DEF WorkAgrees, NextNumber
<1>9. Persists(j)' /\ jobs'[j].artifact # 0 =>
        \A k \in Jobs \ {j} : Persists(k) => jobs[k].artifact # jobs'[j].artifact
  <2>1. Persists(j)' => jobs[j].step = 3
    BY <1>3, <1>4, <1>6, StepNames DEF Persists, WorkAgrees
  <2> QED
    BY <1>1, <1>6, <2>1, StepNames DEF Unlocked
<1> QED
  BY <1>1, <1>4, <1>5, <1>7, <1>8, <1>9, StorageStays

-------------------------------------------------------------------------------
(* Reviews *)

\* A request that has loaded a version, or is lost, changes no table.
LEMMA ReviewOnly ==
  ASSUME StudioInv, NEW r \in Reviewers, NEW d \in Decisions \cup {None},
         reviewing' = [reviewing EXCEPT ![r] = d], UNCHANGED <<planVars, jobVars>>,
         d # None => /\ d.artifact \in DOMAIN artifacts
                     /\ d.number \in DOMAIN artifacts[d.artifact].versions
  PROVE  StudioInv'
<1>1. StudioTypeOK /\ UNCHANGED <<planVars, artifacts, jobs, work, visuals>> /\ Grows
  BY GrowsSame DEF StudioInv, jobVars
<1>2. StudioTypeOK'
  BY <1>1 DEF StudioTypeOK, PlanTyped, IsData, planVars
<1>3. OpenPassed'
  BY <1>1 DEF StudioInv, OpenPassed, planVars
<1>4. ASSUME NEW a \in DOMAIN artifacts'
      PROVE  ArtifactAgrees(a)'
  BY <1>1, <1>4, ArtifactStays DEF StudioInv
<1>5. ASSUME NEW s \in Reviewers
      PROVE  ReviewAgrees(s)'
  <2>1. CASE s = r
    BY <1>1, <2>1 DEF StudioTypeOK, ReviewAgrees
  <2>2. CASE s # r
    BY <1>1, <2>2 DEF StudioInv, StudioTypeOK, ReviewAgrees
  <2> QED
    BY <2>1, <2>2
<1>6. ASSUME NEW k \in Jobs
      PROVE  NextNumber(jobs[k].artifact)' = NextNumber(jobs[k].artifact)
  BY <1>1 DEF NextNumber
<1> QED
  BY <1>1, <1>2, <1>3, <1>4, <1>5, <1>6, NoJobMoves

LEMMA ReviewLoadSafe ==
  ASSUME StudioInv, NEW r \in Reviewers, NEW a \in DOMAIN artifacts, ReviewLoad(r, a)
  PROVE  StudioInv'
<1>1. PICK status \in Marks :
        reviewing' = [reviewing EXCEPT ![r] =
          [artifact |-> a, number |-> artifacts[a].current, status |-> status]]
  BY DEF ReviewLoad, Marks
<1>2. artifacts[a].current \in DOMAIN artifacts[a].versions
  BY CurrentIsLast
<1>3. a \in Nat /\ artifacts[a].current \in Nat
  BY <1>2, RowsOf DEF StudioInv
<1>4. [artifact |-> a, number |-> artifacts[a].current, status |-> status] \in Decisions
  BY <1>3 DEF Decisions
<1> QED
  BY <1>1, <1>2, <1>4, ReviewOnly DEF ReviewLoad

LEMMA ReviewFailsSafe ==
  ASSUME StudioInv, NEW r \in Reviewers, ReviewFails(r)
  PROVE  StudioInv'
BY ReviewOnly DEF ReviewFails

LEMMA ReviewCommitSafe ==
  ASSUME StudioInv, NEW r \in Reviewers, ReviewCommit(r)
  PROVE  StudioInv'
<1>0. PICK a, c, status :
        /\ a = reviewing[r].artifact /\ c = reviewing[r].number /\ status = reviewing[r].status
        /\ artifacts' = [artifacts EXCEPT ![a] =
             Artifact(artifacts[a].type,
                      [artifacts[a].versions EXCEPT ![c] = Decided(artifacts[a].versions[c], status)],
                      artifacts[a].current)]
  BY DEF ReviewCommit
<1>01. /\ reviewing[r] # None /\ reviewing[r] \in Decisions /\ ReviewAgrees(r)
       /\ reviewing' = [reviewing EXCEPT ![r] = None]
  BY DEF StudioInv, StudioTypeOK, ReviewCommit
<1>02. a \in DOMAIN artifacts /\ c \in DOMAIN artifacts[a].versions /\ status \in Marks
  BY <1>0, <1>01 DEF ReviewAgrees, Decisions
<1> DEFINE rows == artifacts[a].versions
<1>2. StudioTypeOK /\ ArtifactAgrees(a) /\ UNCHANGED <<planVars, jobs, work, visuals>>
  BY <1>02 DEF StudioInv, ReviewCommit
<1> DEFINE v == Decided(rows[c], status)
           new == [rows EXCEPT ![c] = v]
<1>3. rows \in Seq(VersionRows) /\ c \in DOMAIN rows /\ rows[c] \in VersionRows
  BY <1>2, <1>02, RowsOf
<1>4. /\ v \in VersionRows /\ v.plan_version = rows[c].plan_version /\ v.scenes = rows[c].scenes
      /\ v.passed = (rows[c].passed \/ status \in Passing) /\ v.approval_status = status
  BY <1>02, <1>3 DEF Decided, VersionRows
<1> HIDE DEF v
<1>5. /\ new \in Seq(VersionRows) /\ Len(new) = Len(rows) /\ DOMAIN new = DOMAIN rows
      /\ new[c] = v /\ \A n \in DOMAIN rows \ {c} : new[n] = rows[n]
  BY <1>3, <1>4
<1> HIDE DEF new
<1>6. artifacts'[a] = Artifact(artifacts[a].type, new, artifacts[a].current) /\ DOMAIN artifacts' = DOMAIN artifacts
      /\ \A b \in DOMAIN artifacts \ {a} : artifacts'[b] = artifacts[b]
  BY <1>0, <1>02 DEF new, v
<1>7. /\ artifacts'[a].type = artifacts[a].type /\ artifacts'[a].versions = new
      /\ artifacts'[a].current = artifacts[a].current
  BY <1>6 DEF Artifact
<1>8. artifacts' \in Seq(ArtifactRows)
  <2>1. Artifact(artifacts[a].type, new, artifacts[a].current) \in ArtifactRows
    <3>1. artifacts[a].type \in {"PPTX", "MP4"} /\ artifacts[a].current \in Nat
      BY <1>02, <1>2, RowsOf DEF ArtifactRows
    <3> QED
      BY <1>5, <3>1 DEF Artifact, ArtifactRows
  <2>2. artifacts \in Seq(ArtifactRows)
    BY <1>2 DEF StudioTypeOK
  <2>3. artifacts' = [artifacts EXCEPT ![a] = Artifact(artifacts[a].type, new, artifacts[a].current)]
    BY <1>0, <1>02 DEF new, v
  <2> HIDE DEF rows
  <2> QED
    BY <1>02, <2>1, <2>2, <2>3
<1>9. Grows
  <2>1. \A f \in Scenes : \A n : Shows(n, f) => Shows(n, f)'
    BY <1>2 DEF Shows, Faithful, planVars
  <2>2. ASSUME NEW n, DeckPassed(n)
        PROVE  DeckPassed(n)'
    <3>0. PICK b \in DOMAIN artifacts : \E m \in DOMAIN artifacts[b].versions :
            /\ artifacts[b].type = "PPTX" /\ artifacts[b].versions[m].passed
            /\ artifacts[b].versions[m].plan_version = n
      BY <2>2 DEF DeckPassed
    <3>1. PICK m \in DOMAIN artifacts[b].versions :
            /\ artifacts[b].type = "PPTX" /\ artifacts[b].versions[m].passed
            /\ artifacts[b].versions[m].plan_version = n
      BY <3>0
    <3>2. CASE b # a
      BY <1>6, <3>1, <3>2 DEF DeckPassed
    <3>3. CASE b = a
      <4>1. m \in DOMAIN new /\ new[m].passed /\ new[m].plan_version = n
        BY <1>4, <1>5, <3>1, <3>3
      <4> QED
        BY <1>6, <1>7, <3>1, <3>3, <4>1 DEF DeckPassed
    <3> QED
      BY <3>2, <3>3
  <2> QED
    BY <1>5, <1>6, <1>7, <2>1, <2>2 DEF Grows
<1>10. ArtifactAgrees(a)'
  <2>1. ASSUME NEW n \in DOMAIN artifacts'[a].versions
        PROVE  /\ Shows(artifacts[a].versions[n].plan_version, artifacts[a].versions[n].scenes)'
               /\ artifacts'[a].versions[n].approval_status \in Passing => artifacts'[a].versions[n].passed
               /\ AfterDeck(artifacts[a].type, artifacts[a].versions[n].plan_version)'
    <3>1. /\ n \in DOMAIN artifacts[a].versions
          /\ artifacts'[a].versions[n].plan_version = artifacts[a].versions[n].plan_version
          /\ artifacts'[a].versions[n].scenes = artifacts[a].versions[n].scenes
      BY <1>4, <1>5, <1>7, <2>1
    <3>2. /\ Shows(artifacts[a].versions[n].plan_version, artifacts[a].versions[n].scenes)
          /\ artifacts[a].versions[n].approval_status \in Passing => artifacts[a].versions[n].passed
          /\ AfterDeck(artifacts[a].type, artifacts[a].versions[n].plan_version)
      BY <1>2, <3>1 DEF ArtifactAgrees
    <3>3. Shows(artifacts[a].versions[n].plan_version, artifacts[a].versions[n].scenes)'
      BY <1>2, <3>1, <3>2 DEF Shows, Faithful, planVars
    <3>4. AfterDeck(artifacts[a].type, artifacts[a].versions[n].plan_version)'
      BY <1>7, <1>9, <3>1, <3>2 DEF AfterDeck, Grows
    <3>5. artifacts'[a].versions[n].approval_status \in Passing => artifacts'[a].versions[n].passed
      BY <1>4, <1>5, <1>7, <3>1, <3>2
    <3> QED
      BY <3>3, <3>4, <3>5
  <2>2. artifacts'[a].versions # <<>> /\ artifacts'[a].current = Len(artifacts'[a].versions)
    BY <1>2, <1>3, <1>5, <1>7 DEF ArtifactAgrees
  <2> QED
    BY <2>1, <2>2 DEF ArtifactAgrees
<1>11. ASSUME NEW b \in DOMAIN artifacts'
       PROVE  ArtifactAgrees(b)'
  BY <1>2, <1>6, <1>9, <1>10, ArtifactStays DEF StudioInv
<1>12. ASSUME NEW k \in Jobs, jobs[k] # NoJob
       PROVE  NextNumber(jobs[k].artifact)' = NextNumber(jobs[k].artifact)
  <2>1. jobs[k].artifact # 0 => jobs[k].artifact \in DOMAIN artifacts
    BY <1>12 DEF StudioInv, JobAgrees
  <2> QED
    BY <1>2, <1>5, <1>6, <1>7, <2>1 DEF NextNumber
<1>13. StudioTypeOK'
  BY <1>01, <1>2, <1>8 DEF StudioTypeOK, PlanTyped, IsData, planVars
<1>14. OpenPassed'
  BY <1>2 DEF StudioInv, OpenPassed, planVars
<1>15. ASSUME NEW s \in Reviewers
       PROVE  ReviewAgrees(s)'
  <2>1. CASE s = r
    BY <1>01, <1>2, <2>1 DEF StudioTypeOK, ReviewAgrees
  <2>2. CASE s # r
    BY <1>01, <1>2, <1>9, <2>2, ReviewStays DEF StudioInv, StudioTypeOK
  <2> QED
    BY <2>1, <2>2
<1> QED
  BY <1>2, <1>9, <1>11, <1>12, <1>13, <1>14, <1>15, NoJobMoves

-------------------------------------------------------------------------------
(* Commits *)

LEMMA NextStepTyped ==
  ASSUME NEW job \in JobRows, NEW step \in Nat \ {0}, NEW output \in Scenes \cup {None}
  PROVE  /\ AtStep(job, step, output) \in JobRows
         /\ AtStep(job, step, output).kind = job.kind
         /\ AtStep(job, step, output).plan_version = job.plan_version
         /\ AtStep(job, step, output).artifact = job.artifact
         /\ AtStep(job, step, output).step = step
         /\ AtStep(job, step, output).output = output
BY DEF AtStep, JobRows

LEMMA CommitTyped ==
  ASSUME StudioInv, NEW j \in Jobs, Commit(j)
  PROVE  /\ jobs[j] # NoJob /\ jobs[j] \in JobRows /\ JobAgrees(jobs[j])
         /\ work[j] \in WorkRows /\ WorkAgrees(jobs[j], work[j])
         /\ visuals' \subseteq VisualRows
         /\ work' = [work EXCEPT ![j] = NoWork] /\ work'[j] = NoWork
         /\ jobs' = [jobs EXCEPT ![j] = After(j, work[j])] /\ jobs'[j] = After(j, work[j])
         /\ \A k \in Jobs \ {j} : jobs'[k] = jobs[k] /\ work'[k] = work[k]
         /\ ~Persists(j)'
<1>1. work[j] # NoWork /\ StudioTypeOK
  BY DEF StudioInv, Commit, Runs
<1>2. jobs[j] # NoJob /\ WorkAgrees(jobs[j], work[j])
  BY <1>1 DEF StudioInv
<1>3. JobAgrees(jobs[j]) /\ jobs[j] \in JobRows /\ work[j] \in WorkRows
  BY <1>1, <1>2 DEF StudioInv, StudioTypeOK
<1>4. visuals' \subseteq VisualRows
  <2>1. work[j].visuals \subseteq VisualRows
    BY <1>3 DEF WorkRows
  <2> QED
    BY <1>1, <2>1 DEF StudioTypeOK, Commit
<1>5. work' = [work EXCEPT ![j] = NoWork] /\ jobs' = [jobs EXCEPT ![j] = After(j, work[j])]
  BY DEF Commit
<1>6. /\ work'[j] = NoWork /\ jobs'[j] = After(j, work[j])
      /\ \A k \in Jobs \ {j} : jobs'[k] = jobs[k] /\ work'[k] = work[k]
  BY <1>1, <1>5 DEF StudioTypeOK
<1> QED
  BY <1>2, <1>3, <1>4, <1>5, <1>6 DEF Persists

\* A step that leaves the job its next one.
LEMMA CommitEarlySafe ==
  ASSUME StudioInv, NEW j \in Jobs, Commit(j), jobs[j].step # 3
  PROVE  StudioInv'
<1>1. /\ jobs[j] # NoJob /\ jobs[j] \in JobRows /\ JobAgrees(jobs[j])
      /\ work[j] \in WorkRows /\ WorkAgrees(jobs[j], work[j])
  BY CommitTyped
<1>2. UNCHANGED <<planVars, artifacts, reviewing>>
  BY <1>1 DEF Commit, Persisted, WorkAgrees
<1> DEFINE output == IF Step(j) \in {"PPT", "VIDEO"} THEN work[j].output ELSE jobs[j].output
           next == AtStep(jobs[j], jobs[j].step + 1, output)
<1>3. output \in Scenes \cup {None} /\ jobs[j].step \in {1, 2}
  BY <1>1, StepNames DEF JobRows, WorkRows
<1>4. CASE jobs[j].kind # "image"
  <2>1. jobs'[j] = next
    BY <1>1, <1>3, <1>4, CommitTyped, StepNames DEF After
  <2>20. jobs[j].step + 1 \in Nat \ {0}
    BY <1>3
  <2> HIDE DEF next, output
  <2>2. /\ next \in JobRows /\ next.kind = jobs[j].kind /\ next.step = jobs[j].step + 1
        /\ next.plan_version = jobs[j].plan_version /\ next.artifact = jobs[j].artifact
        /\ next.output = output
    BY <1>1, <1>3, <2>20, NextStepTyped DEF next
  <2>3. next.step \in DOMAIN PIPELINES[next.kind]
    BY <1>1, <1>3, <1>4, <2>2, StepNames
  <2>4. next.step = 3 => output \in Scenes /\ Shows(jobs[j].plan_version, output)
    BY <1>1, <1>3, <2>2, StepNames DEF WorkAgrees, output
  <2>5. JobAgrees(next)
    BY <1>1, <2>2, <2>3, <2>4 DEF JobAgrees
  <2>6. JobAgrees(jobs[j])'
    BY <1>2, <2>1, <2>5 DEF JobAgrees, AfterDeck, DeckPassed, Shows, Faithful, TypeOf, planVars
  <2>7. StudioTypeOK'
    BY <1>2, <2>1, <2>2, CommitTyped DEF StudioInv, StudioTypeOK, PlanTyped, IsData, planVars
  <2> QED
    BY <1>2, <2>6, <2>7, CommitTyped, StorageStays
<1>5. CASE jobs[j].kind = "image"
  <2>1. jobs'[j] = NoJob
    BY <1>1, <1>5, CommitTyped, StepNames DEF After
  <2>2. StudioTypeOK'
    BY <1>2, <2>1, CommitTyped DEF StudioInv, StudioTypeOK, PlanTyped, IsData, planVars
  <2> QED
    BY <1>2, <2>1, <2>2, CommitTyped, StorageStays
<1> QED
  BY <1>4, <1>5

\* What the last step of a pipeline writes: version v of artifact b.
Target(j) == IF jobs[j].artifact = 0 THEN Len(artifacts) + 1 ELSE jobs[j].artifact

LEMMA CommitRows ==
  ASSUME StudioInv, NEW j \in Jobs, Commit(j), jobs[j].step = 3
  PROVE  \E b, rows :
           /\ b = Target(j)
           /\ jobs[j].artifact = 0 => rows = <<>>
           /\ artifacts' \in Seq(ArtifactRows)
           /\ DOMAIN artifacts' = DOMAIN artifacts \cup {b}
           /\ \A a \in DOMAIN artifacts \ {b} : artifacts'[a] = artifacts[a]
           /\ artifacts'[b].type = TypeOf(jobs[j].kind)
           /\ artifacts'[b].versions = Append(rows, work[j].version)
           /\ artifacts'[b].current = Len(rows) + 1
           /\ rows \in Seq(VersionRows)
           /\ b \in DOMAIN artifacts =>
                artifacts[b].type = TypeOf(jobs[j].kind) /\ rows = artifacts[b].versions
<1>01. PICK b : b = IF jobs[j].artifact = 0 THEN Len(artifacts) + 1 ELSE jobs[j].artifact
  OBVIOUS
<1>02. PICK rows : rows = IF jobs[j].artifact = 0 THEN <<>> ELSE artifacts[b].versions
  OBVIOUS
<1>1. /\ jobs[j] # NoJob /\ jobs[j] \in JobRows /\ JobAgrees(jobs[j]) /\ WorkAgrees(jobs[j], work[j])
      /\ StudioTypeOK
  BY CommitTyped DEF StudioInv
<1>2. Persists(j)
  BY <1>1, PersistsLast DEF Commit, Runs
<1>3. work[j].number > 0 /\ artifacts' = Persisted(j, work[j]) /\ work[j].number = NextNumber(jobs[j].artifact)
  BY <1>1, <1>2 DEF Commit, Persists, WorkAgrees
<1>4. work[j].version \in VersionRows /\ TypeOf(jobs[j].kind) \in {"PPTX", "MP4"}
  BY <1>1 DEF WorkAgrees, TypeOf
<1>5. artifacts \in Seq(ArtifactRows) /\ Len(artifacts) \in Nat /\ DOMAIN artifacts = 1 .. Len(artifacts)
  BY <1>1, RowsOf DEF StudioTypeOK
<1> DEFINE v == work[j].version
           new == Artifact(TypeOf(jobs[j].kind), Append(rows, v), Len(rows) + 1)
<1>6. rows \in Seq(VersionRows)
  <2>1. CASE jobs[j].artifact = 0
    BY <1>02, <2>1
  <2>2. CASE jobs[j].artifact # 0
    BY <1>01, <1>02, <1>1, <2>2, RowsOf DEF JobAgrees
  <2> QED
    BY <2>1, <2>2
<1>7. new \in ArtifactRows
  <2>1. Append(rows, v) \in Seq(VersionRows) /\ Len(rows) + 1 \in Nat
    BY <1>4, <1>6
  <2> QED
    BY <1>4, <2>1 DEF Artifact, ArtifactRows
<1>8. new.type = TypeOf(jobs[j].kind) /\ new.versions = Append(rows, v) /\ new.current = Len(rows) + 1
  BY DEF Artifact
<1>9. CASE jobs[j].artifact = 0
  <2>1. artifacts' = Append(artifacts, new)
    <3>1. Append(<<>>, v) = <<v>> /\ Len(<<>>) = 0
      OBVIOUS
    <3>2. rows = <<>> /\ Len(rows) + 1 = 1
      BY <1>02, <1>9, <3>1
    <3>3. artifacts' = Append(artifacts, Artifact(TypeOf(jobs[j].kind), <<v>>, 1))
      BY <1>3, <1>9 DEF Persisted
    <3> QED
      BY <3>1, <3>2, <3>3
  <2> HIDE DEF new
  <2>2. /\ artifacts' \in Seq(ArtifactRows) /\ DOMAIN artifacts' = 1 .. Len(artifacts) + 1
        /\ artifacts'[b] = new /\ \A a \in DOMAIN artifacts : artifacts'[a] = artifacts[a]
    BY <1>01, <1>5, <1>7, <1>9, <2>1
  <2>3. b \notin DOMAIN artifacts /\ b = Len(artifacts) + 1
    BY <1>01, <1>5, <1>9
  <2>4. DOMAIN artifacts' = DOMAIN artifacts \cup {b}
    BY <1>5, <2>2, <2>3
  <2> QED
    BY <1>01, <1>02, <1>6, <1>8, <1>9, <2>2, <2>3, <2>4 DEF Target
<1>10. CASE jobs[j].artifact # 0
  <2>1. b = jobs[j].artifact /\ b \in DOMAIN artifacts /\ artifacts[b].type = TypeOf(jobs[j].kind)
    BY <1>01, <1>1, <1>10 DEF JobAgrees
  <2>2. work[j].number = Len(rows) + 1
    BY <1>02, <1>3, <1>10, <2>1 DEF NextNumber
  <2>3. artifacts' = [artifacts EXCEPT ![b] = new]
    <3>1. work[j].number # 0 /\ rows = artifacts[b].versions
      BY <1>02, <1>3, <1>10
    <3>2. new = Artifact(artifacts[b].type, Append(artifacts[b].versions, v), work[j].number)
      BY <2>1, <2>2, <3>1
    <3>3. artifacts' = [artifacts EXCEPT ![b] =
            Artifact(artifacts[b].type, Append(artifacts[b].versions, v), work[j].number)]
      BY <1>3, <1>10, <2>1, <3>1 DEF Persisted
    <3> HIDE DEF new
    <3> QED
      BY <3>2, <3>3
  <2> HIDE DEF new
  <2>4. /\ artifacts' \in Seq(ArtifactRows) /\ DOMAIN artifacts' = DOMAIN artifacts
        /\ artifacts'[b] = new /\ \A a \in DOMAIN artifacts \ {b} : artifacts'[a] = artifacts[a]
    BY <1>5, <1>7, <2>1, <2>3
  <2> QED
    BY <1>01, <1>02, <1>6, <1>8, <1>10, <2>1, <2>4 DEF Target
<1> QED
  BY <1>9, <1>10

LEMMA CommitLastSafe ==
  ASSUME StudioInv, NEW j \in Jobs, Commit(j), jobs[j].step = 3
  PROVE  StudioInv'
<1>1. /\ jobs[j] # NoJob /\ jobs[j] \in JobRows /\ JobAgrees(jobs[j]) /\ WorkAgrees(jobs[j], work[j])
      /\ StudioTypeOK /\ UNCHANGED <<planVars, reviewing>>
  BY CommitTyped DEF StudioInv, Commit
<1>0. PICK b, rows :
        /\ b = Target(j)
        /\ jobs[j].artifact = 0 => rows = <<>>
        /\ artifacts' \in Seq(ArtifactRows)
        /\ DOMAIN artifacts' = DOMAIN artifacts \cup {b}
        /\ \A a \in DOMAIN artifacts \ {b} : artifacts'[a] = artifacts[a]
        /\ artifacts'[b].type = TypeOf(jobs[j].kind)
        /\ artifacts'[b].versions = Append(rows, work[j].version)
        /\ artifacts'[b].current = Len(rows) + 1
        /\ rows \in Seq(VersionRows)
        /\ b \in DOMAIN artifacts =>
             artifacts[b].type = TypeOf(jobs[j].kind) /\ rows = artifacts[b].versions
  BY CommitRows
<1>2. /\ artifacts' \in Seq(ArtifactRows)
      /\ DOMAIN artifacts' = DOMAIN artifacts \cup {b}
      /\ \A a \in DOMAIN artifacts \ {b} : artifacts'[a] = artifacts[a]
      /\ artifacts'[b].type = TypeOf(jobs[j].kind)
      /\ artifacts'[b].versions = Append(rows, work[j].version)
      /\ artifacts'[b].current = Len(rows) + 1
      /\ rows \in Seq(VersionRows)
      /\ b \in DOMAIN artifacts =>
           artifacts[b].type = TypeOf(jobs[j].kind) /\ rows = artifacts[b].versions
  BY <1>0
<1>3. /\ Len(rows) \in Nat /\ DOMAIN rows = 1 .. Len(rows)
      /\ DOMAIN artifacts'[b].versions = 1 .. Len(rows) + 1
      /\ Len(artifacts'[b].versions) = Len(rows) + 1
      /\ artifacts'[b].versions # <<>>
      /\ artifacts'[b].versions[Len(rows) + 1] = work[j].version
      /\ \A n \in 1 .. Len(rows) : artifacts'[b].versions[n] = rows[n]
  <2>1. work[j].version \in VersionRows
    BY <1>1 DEF WorkAgrees
  <2> QED
    BY <1>2, <2>1
<1>4. Grows
  <2>1. \A f \in Scenes : \A n : Shows(n, f) => Shows(n, f)'
    BY <1>1 DEF Shows, Faithful, planVars
  <2>2. ASSUME NEW a \in DOMAIN artifacts
        PROVE  /\ a \in DOMAIN artifacts' /\ artifacts'[a].type = artifacts[a].type
               /\ DOMAIN artifacts[a].versions \subseteq DOMAIN artifacts'[a].versions
    <3>1. CASE a = b
      BY <1>2, <1>3, <2>2, <3>1
    <3>2. CASE a # b
      BY <1>2, <2>2, <3>2
    <3> QED
      BY <3>1, <3>2
  <2>3. ASSUME NEW n, DeckPassed(n)
        PROVE  DeckPassed(n)'
    <3>1. PICK a \in DOMAIN artifacts : \E m \in DOMAIN artifacts[a].versions :
            /\ artifacts[a].type = "PPTX" /\ artifacts[a].versions[m].passed
            /\ artifacts[a].versions[m].plan_version = n
      BY <2>3 DEF DeckPassed
    <3>2. PICK m \in DOMAIN artifacts[a].versions :
            /\ artifacts[a].type = "PPTX" /\ artifacts[a].versions[m].passed
            /\ artifacts[a].versions[m].plan_version = n
      BY <3>1
    <3>3. m \in DOMAIN artifacts'[a].versions /\ artifacts'[a].versions[m] = artifacts[a].versions[m]
      <4>1. CASE a # b
        BY <1>2, <4>1
      <4>2. CASE a = b
        <5>1. m \in 1 .. Len(rows) /\ artifacts[a].versions[m] = rows[m]
          BY <1>2, <1>3, <4>2
        <5> QED
          BY <1>3, <4>2, <5>1
      <4> QED
        BY <4>1, <4>2
    <3> QED
      BY <2>2, <3>2, <3>3 DEF DeckPassed
  <2> QED
    BY <2>1, <2>2, <2>3 DEF Grows
<1>5. ASSUME NEW n \in DOMAIN artifacts'[b].versions
      PROVE  /\ Shows(artifacts[b].versions[n].plan_version, artifacts[b].versions[n].scenes)'
             /\ artifacts'[b].versions[n].approval_status \in Passing => artifacts'[b].versions[n].passed
             /\ AfterDeck(artifacts[b].type, artifacts[b].versions[n].plan_version)'
  <2>1. CASE n = Len(rows) + 1
    <3>1. /\ artifacts'[b].versions[n].plan_version = jobs[j].plan_version
          /\ artifacts'[b].versions[n].scenes = jobs[j].output
          /\ artifacts'[b].versions[n].approval_status = "DRAFT"
      BY <1>1, <1>3, <2>1 DEF WorkAgrees
    <3>2. Shows(jobs[j].plan_version, jobs[j].output)
      BY <1>1 DEF JobAgrees
    <3>3. Shows(artifacts[b].versions[n].plan_version, artifacts[b].versions[n].scenes)'
      BY <1>1, <3>1, <3>2 DEF Shows, Faithful, planVars
    <3>4. artifacts'[b].type = "MP4" => AfterDeck("MP4", jobs[j].plan_version)
      <4>1. jobs[j].kind # "image" /\ jobs[j].kind \in {"image", "ppt", "video"}
        BY <1>1, StepNames DEF JobRows
      <4> QED
        BY <1>1, <1>2, <4>1 DEF TypeOf, JobAgrees
    <3>5. AfterDeck(artifacts[b].type, artifacts[b].versions[n].plan_version)'
      BY <1>4, <3>1, <3>4 DEF AfterDeck, Grows
    <3>6. artifacts'[b].versions[n].approval_status \notin Passing
      BY <3>1 DEF Passing
    <3> QED
      BY <3>3, <3>5, <3>6
  <2>2. CASE n # Len(rows) + 1
    <3>1. n \in 1 .. Len(rows)
      BY <1>3, <1>5, <2>2
    <3>2. b \in DOMAIN artifacts
      <4>1. jobs[j].artifact # 0
        BY <1>0, <3>1
      <4> QED
        BY <1>0, <1>1, <4>1 DEF JobAgrees, Target
    <3>3. /\ n \in DOMAIN artifacts[b].versions /\ artifacts'[b].versions[n] = artifacts[b].versions[n]
          /\ artifacts'[b].type = artifacts[b].type
      BY <1>2, <1>3, <3>1, <3>2
    <3>4. ArtifactAgrees(b)
      BY <3>2 DEF StudioInv
    <3>5. Shows(artifacts[b].versions[n].plan_version, artifacts[b].versions[n].scenes)'
      BY <1>1, <3>3, <3>4 DEF ArtifactAgrees, Shows, Faithful, planVars
    <3>6. AfterDeck(artifacts[b].type, artifacts[b].versions[n].plan_version)'
      BY <1>4, <3>3, <3>4 DEF ArtifactAgrees, AfterDeck, Grows
    <3> QED
      BY <3>3, <3>4, <3>5, <3>6 DEF ArtifactAgrees
  <2> QED
    BY <2>1, <2>2
<1>6. ArtifactAgrees(b)'
  BY <1>2, <1>3, <1>5 DEF ArtifactAgrees
<1>7. ASSUME NEW a \in DOMAIN artifacts'
      PROVE  ArtifactAgrees(a)'
  BY <1>1, <1>2, <1>4, <1>6, ArtifactStays DEF StudioInv
<1>8. ASSUME NEW k \in Jobs \ {j}, Persists(k)
      PROVE  NextNumber(jobs[k].artifact)' = NextNumber(jobs[k].artifact)
  <2>1. Persists(j)
    BY <1>1, PersistsLast DEF Commit, Runs
  <2>2. jobs[k].artifact # 0 => jobs[k].artifact # jobs[j].artifact
    BY <1>8, <2>1 DEF StudioInv, OneNumbering
  <2>3. jobs[k].artifact # 0 => jobs[k].artifact \in DOMAIN artifacts
    BY <1>8 DEF StudioInv, JobAgrees, Persists
  <2>4. jobs[k].artifact # 0 => jobs[k].artifact # b
    BY SMTT(20), <1>0, <1>1, <2>2, <2>3, RowsOf DEF Target
  <2>5. jobs'[k] = jobs[k]
    BY CommitTyped
  <2> QED
    BY <1>2, <2>3, <2>4, <2>5 DEF NextNumber
<1>9. jobs'[j] = NoJob
  <2>1. ~(jobs[j].step < Len(PIPELINES[jobs[j].kind]))
    BY <1>1, StepNames
  <2> QED
    BY <2>1, CommitTyped DEF After
<1>10. StudioTypeOK'
  <2>1. PlanTyped'
    BY <1>1 DEF StudioTypeOK, PlanTyped, IsData, planVars
  <2>2. jobs' = [jobs EXCEPT ![j] = NoJob] /\ work' = [work EXCEPT ![j] = NoWork]
    BY <1>9, CommitTyped
  <2>3. jobs' \in [Jobs -> JobRows \cup {NoJob}] /\ work' \in [Jobs -> WorkRows \cup {NoWork}]
    BY <1>1, <2>2 DEF StudioTypeOK
  <2>4. reviewing' \in [Reviewers -> Decisions \cup {None}]
    BY <1>1 DEF StudioTypeOK
  <2> QED
    BY <1>2, <2>1, <2>3, <2>4, CommitTyped DEF StudioTypeOK
<1> QED
  BY <1>1, <1>4, <1>7, <1>8, <1>9, <1>10, CommitTyped, OneJobMoves

-------------------------------------------------------------------------------
(* The invariant *)

LEMMA StudioStarts == StudioInit => StudioInv
<1> SUFFICES ASSUME StudioInit PROVE StudioInv
  OBVIOUS
<1>1. PICK c \in Contents : version = 1 /\ data = First(c) /\ used = DOMAIN c
  BY DEF StudioInit, GateInit
<1>2. PlanTyped
  <2>1. \A s \in DOMAIN c : c[s] \in Bodies
    BY ContentsParts
  <2>2. DOMAIN data = DOMAIN c /\ data \in [DOMAIN c -> Versioned]
    BY <1>1, <2>1 DEF First, Versioned
  <2>3. DOMAIN c \in SUBSET Slides \ {{}}
    BY ContentsParts
  <2> QED
    BY <1>1, <2>2, <2>3 DEF PlanTyped, IsData
<1>3. artifacts = <<>> /\ artifacts \in Seq(ArtifactRows) /\ DOMAIN artifacts = {}
  BY DEF StudioInit
<1>4. StudioTypeOK
  BY <1>2, <1>3 DEF StudioInit, StudioTypeOK
<1>5. OpenPassed
  BY DEF StudioInit, OpenPassed
<1> QED
  BY <1>3, <1>4, <1>5 DEF StudioInit, StudioInv, OneNumbering, Persists, ReviewAgrees

LEMMA StudioSteps == StudioInv /\ [StudioNext]_studioVars => StudioInv'
<1> SUFFICES ASSUME StudioInv, [StudioNext]_studioVars PROVE StudioInv'
  OBVIOUS
<1>1. CASE PlanMoves
  BY <1>1, PlanMovesSafe
<1>2. ASSUME NEW kind \in Generates, Generation(kind) PROVE StudioInv'
  BY <1>2, GenerationSafe
<1>3. ASSUME NEW r \in Reviewers,
             (\E a \in DOMAIN artifacts : ReviewLoad(r, a)) \/ ReviewCommit(r) \/ ReviewFails(r)
      PROVE  StudioInv'
  BY <1>3, ReviewLoadSafe, ReviewCommitSafe, ReviewFailsSafe
<1>4. ASSUME NEW a \in DOMAIN artifacts, NEW s \in Slides, Regenerate(a, s) PROVE StudioInv'
  BY <1>4, RegenerateSafe
<1>5. ASSUME NEW j \in Jobs, JobStep(j) PROVE StudioInv'
  <2>1. CASE Commit(j)
    BY <2>1, CommitEarlySafe, CommitLastSafe
  <2> QED
    BY <1>5, <2>1, DoStepSafe, RecheckSafe, StepFailsSafe, GiveUpSafe DEF JobStep
<1>6. CASE UNCHANGED studioVars
  <2>1. UNCHANGED <<planVars, artifacts, jobs, work, visuals, reviewing>>
    BY <1>6 DEF studioVars, jobVars
  <2>2. StudioTypeOK'
    BY <2>1 DEF StudioInv, StudioTypeOK, PlanTyped, IsData, planVars
  <2>3. OpenPassed'
    BY <2>1 DEF StudioInv, OpenPassed, planVars
  <2>4. ASSUME NEW a \in DOMAIN artifacts'
        PROVE  ArtifactAgrees(a)'
    BY <2>1, <2>4, GrowsSame, ArtifactStays DEF StudioInv
  <2>5. ASSUME NEW k \in Jobs
        PROVE  NextNumber(jobs[k].artifact)' = NextNumber(jobs[k].artifact)
    BY <2>1 DEF NextNumber
  <2>6. \A r \in Reviewers : ReviewAgrees(r)'
    BY <2>1, GrowsSame, ReviewStays DEF StudioInv
  <2> QED
    BY <2>1, <2>2, <2>3, <2>4, <2>5, <2>6, GrowsSame, NoJobMoves
<1> QED
  BY <1>1, <1>2, <1>3, <1>4, <1>5, <1>6 DEF StudioNext

\* StudioInv holds in every behaviour, with any number of jobs and artifacts and
\* whatever is edited, reviewed, regenerated or lost meanwhile.
THEOREM StudioAgrees == StudioSpec => []StudioInv
BY StudioStarts, StudioSteps, PTL DEF StudioSpec

\* Rows of plans, jobs, pictures and artifacts stay well-typed (models.py).
THEOREM StudioTyped == StudioSpec => []StudioTypeOK
<1>1. StudioInv => StudioTypeOK
  BY DEF StudioInv
<1> QED
  BY <1>1, StudioAgrees, PTL

-------------------------------------------------------------------------------
(* What the studio promises *)

\* Unless users bring back slides that they have removed, every deck and video
\* shows what require_approved let through in the version of the plan it carries,
\* also where render_video takes scenes over and the plan is edited meanwhile.
THEOREM DecksShowWhatWasApproved == ~Restores => (StudioSpec => []DecksAsApproved)
<1> SUFFICES ASSUME ~Restores PROVE StudioSpec => []DecksAsApproved
  OBVIOUS
<1>1. StudioInv => DecksAsApproved
  <2> SUFFICES ASSUME StudioInv, NEW v \in Versions
               PROVE  <<v.plan_version, BodiesOf(v.scenes)>> \in passed
    BY DEF DecksAsApproved
  <2>1. PICK a \in DOMAIN artifacts : v \in Range(artifacts[a].versions)
    BY DEF Versions
  <2>2. PICK n \in DOMAIN artifacts[a].versions : v = artifacts[a].versions[n]
    BY <2>1 DEF Range
  <2> QED
    BY <2>1, <2>2 DEF StudioInv, ArtifactAgrees, Shows
<1> QED
  BY <1>1, StudioAgrees, PTL

\* persist_artifact never meets its own number: the lock on the artifact keeps the
\* numbers of concurrent regenerations apart, and the current version is the last.
THEOREM ArtifactsNumberedInOrder == StudioSpec => []NumbersInOrder
<1>1. StudioInv => NumbersInOrder
  <2> SUFFICES ASSUME StudioInv PROVE NumbersInOrder
    OBVIOUS
  <2>1. ASSUME NEW j \in Jobs, Persists(j)
        PROVE  NumberFree(j)
    <3>1. work[j] # NoWork /\ WorkAgrees(jobs[j], work[j]) /\ jobs[j].step = 3
      BY <2>1, PersistsLast DEF Persists, StudioInv
    <3> QED
      BY <3>1 DEF WorkAgrees, NextNumber, NumberFree
  <2>2. \A a \in DOMAIN artifacts : artifacts[a].current = Len(artifacts[a].versions)
    BY DEF StudioInv, ArtifactAgrees
  <2> QED
    BY <2>1, <2>2 DEF NumbersInOrder
<1> QED
  BY <1>1, StudioAgrees, PTL

\* A video carries a version of the plan of which a reviewer has passed a deck,
\* however late it is made and whatever is decided about the deck meanwhile.
THEOREM VideosFollowDecks == StudioSpec => []VideosAfterDecks
<1>1. StudioInv => VideosAfterDecks
  <2> SUFFICES ASSUME StudioInv, ~ReviewPass, NEW a \in DOMAIN artifacts,
                      NEW n \in DOMAIN artifacts[a].versions, artifacts[a].type = "MP4"
               PROVE  DeckPassed(artifacts[a].versions[n].plan_version)
    BY DEF VideosAfterDecks, DeckPassed
  <2> QED
    BY DEF StudioInv, ArtifactAgrees, AfterDeck
<1> QED
  BY <1>1, StudioAgrees, PTL
===============================================================================
