--------------------------- MODULE DocumentsProofs ---------------------------
(***************************************************************************)
(* DocInv is an inductive invariant of Documents, for any number of        *)
(* documents, files and jobs.                                              *)
(***************************************************************************)
EXTENDS Documents, TLAPS

-------------------------------------------------------------------------------
(* The steps of a job *)

\* The lengths of the pipelines.
LEMMA Lengths ==
  /\ Len(PIPELINES["upload"]) = 1 /\ Len(PIPELINES["template"]) = 1
  /\ Len(PIPELINES["design_reference"]) = 2
  /\ Len(PIPELINES["analyze"]) = 8 /\ Len(PIPELINES["plan"]) = 6
BY DEF PIPELINES

\* The names of their steps.
LEMMA Names ==
  /\ PIPELINES["upload"][1] = "SECURITY_SCAN" /\ PIPELINES["template"][1] = "SECURITY_SCAN"
  /\ PIPELINES["design_reference"][1] = "SECURITY_SCAN"
  /\ PIPELINES["design_reference"][2] = "DESIGN_LEARN"
  /\ PIPELINES["analyze"][1] = "PARSE" /\ PIPELINES["analyze"][2] = "CHUNK"
  /\ PIPELINES["analyze"][3] = "LLM_SUMMARY" /\ PIPELINES["analyze"][4] = "LLM_KEY_MESSAGES"
  /\ PIPELINES["analyze"][5] = "LLM_OUTLINE" /\ PIPELINES["analyze"][6] = "LLM"
  /\ PIPELINES["analyze"][7] = "LLM_VISUAL" /\ PIPELINES["analyze"][8] = "PLAN_VALIDATE"
  /\ PIPELINES["plan"][1] = "LLM_SUMMARY" /\ PIPELINES["plan"][2] = "LLM_KEY_MESSAGES"
  /\ PIPELINES["plan"][3] = "LLM_OUTLINE" /\ PIPELINES["plan"][4] = "LLM"
  /\ PIPELINES["plan"][5] = "LLM_VISUAL" /\ PIPELINES["plan"][6] = "PLAN_VALIDATE"
BY DEF PIPELINES

\* Which step a job stands at, by its kind and position.
LEMMA Positions ==
  ASSUME NEW j, jobs[j] \in JobRows, ~Done(j)
  PROVE  /\ jobs[j].step \in 1 .. 8
         /\ jobs[j].step <= Len(PIPELINES[jobs[j].kind])
         /\ Step(j) = "SECURITY_SCAN" <=> ~IsAnalysis(j) /\ jobs[j].step = 1
         /\ Step(j) = "LLM" <=> \/ jobs[j].kind = "analyze" /\ jobs[j].step = 6
                                \/ jobs[j].kind = "plan" /\ jobs[j].step = 4
         /\ Step(j) = "PLAN_VALIDATE" => HasAnswer(j)
         /\ Step(j) = "DESIGN_LEARN" => ~IsAnalysis(j) /\ jobs[j].step # 1
         /\ Step(j) \notin {"SECURITY_SCAN", "DESIGN_LEARN"} => IsAnalysis(j)
<1>1. jobs[j].kind \in {"upload", "template", "design_reference", "analyze", "plan"} /\ jobs[j].step \in Nat \ {0}
  BY DEF JobRows
<1>2. CASE jobs[j].kind = "upload"
  <2>1. jobs[j].step = 1
    BY <1>1, <1>2, Lengths DEF Done
  <2> QED
    BY <1>2, <2>1, Lengths, Names DEF Step, IsAnalysis, HasAnswer
<1>3. CASE jobs[j].kind = "template"
  <2>1. jobs[j].step = 1
    BY <1>1, <1>3, Lengths DEF Done
  <2> QED
    BY <1>3, <2>1, Lengths, Names DEF Step, IsAnalysis, HasAnswer
<1>4. CASE jobs[j].kind = "design_reference"
  <2>1. jobs[j].step = 1 \/ jobs[j].step = 2
    BY <1>1, <1>4, Lengths DEF Done
  <2> QED
    BY <1>4, <2>1, Lengths, Names DEF Step, IsAnalysis, HasAnswer
<1>5. CASE jobs[j].kind = "analyze"
  <2>1. jobs[j].step = 1 \/ jobs[j].step = 2 \/ jobs[j].step = 3 \/ jobs[j].step = 4
        \/ jobs[j].step = 5 \/ jobs[j].step = 6 \/ jobs[j].step = 7 \/ jobs[j].step = 8
    BY <1>1, <1>5, Lengths DEF Done
  <2> QED
    BY <1>5, <2>1, Lengths, Names DEF Step, IsAnalysis, HasAnswer
<1>6. CASE jobs[j].kind = "plan"
  <2>1. jobs[j].step = 1 \/ jobs[j].step = 2 \/ jobs[j].step = 3 \/ jobs[j].step = 4
        \/ jobs[j].step = 5 \/ jobs[j].step = 6
    BY <1>1, <1>6, Lengths DEF Done
  <2> QED
    BY <1>6, <2>1, Lengths, Names DEF Step, IsAnalysis, HasAnswer
<1> QED
  BY <1>1, <1>2, <1>3, <1>4, <1>5, <1>6

-------------------------------------------------------------------------------
(* What does not move *)

\* Rows are added and never taken away.
Grows ==
  /\ \A d \in Docs : documents[d] # NoDoc => documents'[d] # NoDoc
  /\ \A d \in Docs : /\ Len(versions[d]) <= Len(versions'[d])
                     /\ \A n \in 1 .. Len(versions[d]) : versions'[d][n] = versions[d][n]
  /\ Len(originals) <= Len(originals')
  /\ \A i \in 1 .. Len(originals) : originals'[i] = originals[i]
  /\ parses \subseteq parses'
  /\ Len(chunks) <= Len(chunks')
  /\ \A i \in 1 .. Len(chunks) : chunks'[i] = chunks[i]

\* Where nothing changes, nothing is lost.
LEMMA NothingGrows ==
  ASSUME Typed, UNCHANGED <<documents, versions, originals, parses, chunks>>
  PROVE  Grows
BY DEF Typed, Grows

\* What hangs on rows goes on to do so.
LEMMA VersionsStay ==
  ASSUME Typed, Typed', Grows, NEW v \in VersionIds
  PROVE  v \in VersionIds' /\ Version(v)' = Version(v)
<1>1. PICK d \in Docs : \E n \in DOMAIN versions[d] : v = <<d, n>>
  BY DEF VersionIds
<1>2. PICK n \in DOMAIN versions[d] : v = <<d, n>>
  BY <1>1
<1>3. DOMAIN versions[d] = 1 .. Len(versions[d]) /\ DOMAIN versions'[d] = 1 .. Len(versions'[d])
      /\ Len(versions[d]) \in Nat /\ Len(versions'[d]) \in Nat
  BY DEF Typed
<1>4. n \in DOMAIN versions'[d] /\ versions'[d][n] = versions[d][n]
  BY <1>2, <1>3 DEF Grows
<1> QED
  BY <1>2, <1>4 DEF VersionIds, Version

\* A citation goes on naming its chunk.
LEMMA CitesStay ==
  ASSUME Typed, Typed', Grows, NEW a, NEW v, Cites(a, v)
  PROVE  a.chunk \in DOMAIN chunks' /\ a.version = v /\ chunks'[a.chunk].version = v
<1>1. DOMAIN chunks = 1 .. Len(chunks) /\ DOMAIN chunks' = 1 .. Len(chunks')
      /\ Len(chunks) \in Nat /\ Len(chunks') \in Nat
  BY DEF Typed
<1> QED
  BY <1>1 DEF Cites, Grows

\* A job that does not move still agrees with tables that grow.
LEMMA JobStays ==
  ASSUME Typed, Typed', Grows, NEW j \in Jobs, JobAgrees(j),
         jobs'[j] = jobs[j], quarantine'[j] = quarantine[j] \/ jobs[j].step # 1
  PROVE  JobAgrees(j)'
<1> SUFFICES ASSUME jobs[j] # NoJob
             PROVE  JobAgrees(j)'
  BY DEF JobAgrees
<1>1. IsUpload(j) => documents'[jobs[j].document] # NoDoc
  BY DEF JobAgrees, Grows
<1>2. IsAnalysis(j) => jobs[j].version \in VersionIds'
  BY VersionsStay DEF JobAgrees
<1>3. HasAnswer(j) => Cites(jobs[j].answer, jobs[j].version)'
  BY CitesStay DEF JobAgrees, Cites
<1>4. DOMAIN originals \subseteq DOMAIN originals'
  BY DEF Typed, Grows
<1> QED
  BY <1>1, <1>2, <1>3, <1>4 DEF JobAgrees, IsUpload, IsAnalysis, HasAnswer

\* So does the work of a step, if its document gets no version.
LEMMA WorkStays ==
  ASSUME Typed, Typed', Grows, NEW j \in Jobs, WorkAgrees(j), JobAgrees(j),
         jobs'[j] = jobs[j], work'[j] = work[j],
         Runs(j) /\ work[j].number > 0 => versions'[jobs[j].document] = versions[jobs[j].document]
  PROVE  WorkAgrees(j)'
<1> SUFFICES ASSUME Runs(j)
             PROVE  WorkAgrees(j)'
  BY DEF WorkAgrees, Runs
<1>1. DOMAIN originals = 1 .. Len(originals) /\ DOMAIN originals' = 1 .. Len(originals')
      /\ Len(originals) \in Nat /\ Len(originals') \in Nat
  BY DEF Typed
<1>2. work[j] \in Work
  BY DEF Typed, Runs
<1>3. ~Done(j)' /\ Step(j)' = Step(j)
  BY DEF WorkAgrees, Done, Step
<1>4. work[j].file \in {0} \cup DOMAIN originals'
  BY <1>1 DEF WorkAgrees, Grows
<1>5. work[j].number > 0 =>
        /\ work[j].number = Len(versions'[jobs[j].document]) + 1
        /\ ~work[j].duplicate =>
             \A n \in DOMAIN versions'[jobs[j].document] :
               versions'[jobs[j].document][n].content # originals'[work[j].file]
  <2>1. CASE work[j].number > 0
    <3>1. versions'[jobs[j].document] = versions[jobs[j].document] /\ work[j].file > 0
          /\ work[j].number = Len(versions[jobs[j].document]) + 1 /\ work[j].file \in 1 .. Len(originals)
      BY <1>1, <1>2, <2>1 DEF WorkAgrees, NumberFree, Work
    <3>2. originals'[work[j].file] = originals[work[j].file]
      BY <3>1 DEF Grows
    <3> QED
      BY <2>1, <3>1, <3>2 DEF WorkAgrees
  <2> QED
    BY <2>1
<1>6. work[j].parse # None =>
        /\ work[j].parse.version \in VersionIds'
        /\ work[j].parse.content = Version(work[j].parse.version)'.content
  BY VersionsStay DEF WorkAgrees
<1>7. work[j].batch # None => work[j].batch \in parses'
  BY DEF WorkAgrees, Grows
<1>8. Step(j) = "LLM" => Cites(work[j].answer, jobs[j].version)'
  BY CitesStay DEF WorkAgrees, Cites
<1>9. work[j].plan # None =>
        work[j].plan.asked[1] = work[j].plan.document /\ Cites(work[j].plan.cites, work[j].plan.asked)'
  BY CitesStay DEF WorkAgrees, Cites
<1>10. jobs'[j] # NoJob /\ IsUpload(j)' = IsUpload(j) /\ (Step(j) = "SECURITY_SCAN" <=> work[j].file > 0)
       /\ (work[j].number > 0 => IsUpload(j) /\ work[j].file > 0)
  BY DEF WorkAgrees, IsUpload
<1> QED
  BY <1>3, <1>4, <1>5, <1>6, <1>7, <1>8, <1>9, <1>10 DEF WorkAgrees, NumberFree, Cites, Runs

\* And a deletion that is due.
LEMMA CleanupStays ==
  ASSUME NEW j \in Jobs, CleanupAgrees(j), jobs'[j] = jobs[j], j \in cleanup' => j \in cleanup
  PROVE  CleanupAgrees(j)'
BY DEF CleanupAgrees

\* Tables that do not change go on agreeing.
LEMMA TablesStay ==
  ASSUME TablesAgree, UNCHANGED <<documents, versions, originals, parses, chunks, plans>>
  PROVE  TablesAgree'
BY DEF TablesAgree, OnlyScanned, DuplicatesInDocument, VersionIds, Version, Cites

\* A step concerns one job: the others see only that rows are added.
LEMMA Others ==
  ASSUME DocInv, Typed', Grows, TablesAgree', NEW j \in Jobs,
         JobAgrees(j)', WorkAgrees(j)', CleanupAgrees(j)', OneNumbering',
         \A k \in Jobs \ {j} :
           /\ jobs'[k] = jobs[k] /\ work'[k] = work[k] /\ quarantine'[k] = quarantine[k]
           /\ k \in cleanup' => k \in cleanup
           /\ Runs(k) /\ work[k].number > 0 => versions'[jobs[k].document] = versions[jobs[k].document]
  PROVE  DocInv'
<1>1. ASSUME NEW k \in Jobs
      PROVE  JobAgrees(k)' /\ WorkAgrees(k)' /\ CleanupAgrees(k)'
  <2>1. CASE k = j
    BY <2>1
  <2>2. CASE k # j
    <3>1. JobAgrees(k) /\ WorkAgrees(k) /\ CleanupAgrees(k) /\ Typed
      BY DEF DocInv
    <3>2. k \in Jobs \ {j}
      BY <2>2
    <3>3. /\ jobs'[k] = jobs[k] /\ work'[k] = work[k] /\ quarantine'[k] = quarantine[k]
          /\ k \in cleanup' => k \in cleanup
          /\ Runs(k) /\ work[k].number > 0 => versions'[jobs[k].document] = versions[jobs[k].document]
      BY <3>2
    <3>4. JobAgrees(k)'
      BY <3>1, <3>3, JobStays
    <3>5. WorkAgrees(k)'
      BY <3>1, <3>3, WorkStays
    <3>6. CleanupAgrees(k)'
      BY <3>1, <3>3, CleanupStays
    <3> QED
      BY <3>4, <3>5, <3>6
  <2> QED
    BY <2>1, <2>2
<1> QED
  BY <1>1 DEF DocInv

\* Nobody begins to number a version.
LEMMA NumberingStays ==
  ASSUME OneNumbering,
         \A k \in Jobs : work'[k] # NoWork /\ work'[k].number > 0 =>
           work'[k] = work[k] /\ jobs'[k] = jobs[k]
  PROVE  OneNumbering'
BY DEF OneNumbering, Runs

-------------------------------------------------------------------------------
(* Requests *)

\* A new job waits at its first step.
LEMMA Created ==
  ASSUME DocInv, Typed', NEW j \in Jobs, NEW kind, NEW d, NEW n, Create(j, kind, d, n), Grows,
         UNCHANGED versions, TablesAgree', JobAgrees(j)',
         \A k \in Jobs \ {j} : quarantine'[k] = quarantine[k]
  PROVE  DocInv'
<1>1. jobs[j] = NoJob /\ work' = work /\ cleanup' = cleanup /\ Typed
      /\ WorkAgrees(j) /\ CleanupAgrees(j) /\ OneNumbering
  BY DEF Create, DocInv
<1>2. work'[j] = NoWork /\ j \notin cleanup'
  BY <1>1 DEF WorkAgrees, CleanupAgrees, Runs
<1>3. \A k \in Jobs \ {j} : jobs'[k] = jobs[k] /\ work'[k] = work[k]
  BY <1>1 DEF Create, Typed
<1>4. WorkAgrees(j)' /\ CleanupAgrees(j)'
  BY <1>2 DEF WorkAgrees, CleanupAgrees, Runs
<1>5. OneNumbering'
  BY <1>1, <1>2, <1>3, NumberingStays
<1> QED
  BY <1>1, <1>3, <1>4, <1>5, Others

\* An upload of a new document keeps DocInv.
LEMMA UploadSafe ==
  ASSUME DocInv, NEW j \in Jobs, Upload(j)
  PROVE  DocInv'
<1>1. PICK d \in Docs : /\ documents[d] = NoDoc
                        /\ documents' = [documents EXCEPT ![d] = [current |-> 0, deleted |-> FALSE]]
                        /\ Create(j, "upload", d, 0)
  BY DEF Upload
<1>2. PICK c \in Contents : quarantine' = [quarantine EXCEPT ![j] = c]
  BY DEF Upload, Quarantined
<1>3. Typed /\ TablesAgree
  BY DEF DocInv
<1>4. [current |-> 0, deleted |-> FALSE] \in DocumentRows
  BY DEF DocumentRows
<1>5. [kind |-> "upload", document |-> d, version |-> <<d, 0>>, step |-> 1, scan |-> 0, answer |-> None]
        \in JobRows
  BY DEF JobRows
<1>6. Typed'
  BY <1>1, <1>2, <1>3, <1>4, <1>5 DEF Typed, Create
<1>7. documents'[d] # NoDoc
  BY <1>1, <1>3, <1>4, NullAssumption DEF Typed, DocumentRows
<1>8. Grows
  BY <1>1, <1>3, <1>7 DEF Typed, Grows, Create
<1>9. TablesAgree'
  <2>1. \A e \in Docs :
          IF documents'[e] = NoDoc THEN versions'[e] = <<>> ELSE documents'[e].current = Len(versions'[e])
    BY <1>1, <1>3, <1>7 DEF TablesAgree, Create, Typed
  <2> QED
    BY SMTT(20), <1>1, <1>3, <2>1 DEF TablesAgree, Create, OnlyScanned, DuplicatesInDocument, VersionIds, Version, Cites
<1>10. JobAgrees(j)'
  <2>1. jobs'[j] = [kind |-> "upload", document |-> d, version |-> <<d, 0>>, step |-> 1,
                    scan |-> 0, answer |-> None]
        /\ quarantine'[j] = c
    BY <1>1, <1>2, <1>3 DEF Create, Typed
  <2> QED
    BY <1>7, <2>1, Lengths, NullAssumption DEF JobAgrees, IsUpload, IsAnalysis, HasAnswer
<1>11. \A k \in Jobs \ {j} : quarantine'[k] = quarantine[k]
  BY <1>2, <1>3 DEF Typed
<1>12. UNCHANGED versions
  BY <1>1 DEF Create
<1> QED
  BY <1>1, <1>6, <1>8, <1>9, <1>10, <1>11, <1>12, Created

\* An upload of a further version keeps DocInv.
LEMMA UploadVersionSafe ==
  ASSUME DocInv, NEW j \in Jobs, UploadVersion(j)
  PROVE  DocInv'
<1>1. PICK d \in Docs : documents[d] # NoDoc /\ Create(j, "upload", d, 0)
  BY DEF UploadVersion
<1>2. PICK c \in Contents : quarantine' = [quarantine EXCEPT ![j] = c]
  BY DEF UploadVersion, Quarantined
<1>3. Typed /\ TablesAgree /\ UNCHANGED documents
  BY DEF DocInv, UploadVersion
<1>4. [kind |-> "upload", document |-> d, version |-> <<d, 0>>, step |-> 1, scan |-> 0, answer |-> None]
        \in JobRows
  BY DEF JobRows
<1>5. Typed'
  BY <1>1, <1>2, <1>3, <1>4 DEF Typed, Create
<1>6. Grows
  BY <1>1, <1>3, NothingGrows DEF Create
<1>7. TablesAgree'
  BY <1>1, <1>3, TablesStay DEF Create
<1>8. JobAgrees(j)'
  <2>1. jobs'[j] = [kind |-> "upload", document |-> d, version |-> <<d, 0>>, step |-> 1,
                    scan |-> 0, answer |-> None]
        /\ quarantine'[j] = c
    BY <1>1, <1>2, <1>3 DEF Create, Typed
  <2> QED
    BY <1>1, <1>3, <2>1, Lengths, NullAssumption DEF JobAgrees, IsUpload, IsAnalysis, HasAnswer
<1>9. \A k \in Jobs \ {j} : quarantine'[k] = quarantine[k]
  BY <1>2, <1>3 DEF Typed
<1>10. UNCHANGED versions
  BY <1>1 DEF Create
<1> QED
  BY <1>1, <1>5, <1>6, <1>7, <1>8, <1>9, <1>10, Created

\* An upload of a template or a reference keeps DocInv.
LEMMA UploadTemplateSafe ==
  ASSUME DocInv, NEW j \in Jobs, UploadTemplate(j)
  PROVE  DocInv'
<1>1. PICK kind \in {"template", "design_reference"} : Create(j, kind, None, 0)
  BY DEF UploadTemplate
<1>2. PICK c \in Contents : quarantine' = [quarantine EXCEPT ![j] = c]
  BY DEF UploadTemplate, Quarantined
<1>3. Typed /\ TablesAgree /\ UNCHANGED documents
  BY DEF DocInv, UploadTemplate
<1>4. [kind |-> kind, document |-> None, version |-> <<None, 0>>, step |-> 1, scan |-> 0, answer |-> None]
        \in JobRows
  BY DEF JobRows
<1>5. Typed'
  BY <1>1, <1>2, <1>3, <1>4 DEF Typed, Create
<1>6. Grows
  BY <1>1, <1>3, NothingGrows DEF Create
<1>7. TablesAgree'
  BY <1>1, <1>3, TablesStay DEF Create
<1>8. JobAgrees(j)'
  <2>1. jobs'[j] = [kind |-> kind, document |-> None, version |-> <<None, 0>>, step |-> 1,
                    scan |-> 0, answer |-> None]
        /\ quarantine'[j] = c
    BY <1>1, <1>2, <1>3 DEF Create, Typed
  <2> QED
    BY <1>1, <2>1, Lengths, NullAssumption DEF JobAgrees, IsUpload, IsAnalysis, HasAnswer
<1>9. \A k \in Jobs \ {j} : quarantine'[k] = quarantine[k]
  BY <1>2, <1>3 DEF Typed
<1>10. UNCHANGED versions
  BY <1>1 DEF Create
<1> QED
  BY <1>1, <1>5, <1>6, <1>7, <1>8, <1>9, <1>10, Created

\* An analysis is asked of a version that is there.
LEMMA AnalyzeSafe ==
  ASSUME DocInv, NEW j \in Jobs, Analyze(j)
  PROVE  DocInv'
<1>1. PICK d \in Docs, kind \in {"analyze", "plan"} :
        MayAnalyze(d) /\ Create(j, kind, d, documents[d].current)
  BY DEF Analyze
<1>2. Typed /\ TablesAgree /\ UNCHANGED <<documents, quarantine, versions>>
  BY <1>1 DEF DocInv, Analyze, Create
<1>3. /\ documents[d] \in DocumentRows
      /\ documents[d].current \in Nat \ {0}
      /\ documents[d].current = Len(versions[d])
  BY <1>1, <1>2 DEF MayAnalyze, Typed, TablesAgree, DocumentRows
<1>4. <<d, documents[d].current>> \in VersionIds
  <2>1. documents[d].current \in DOMAIN versions[d]
    BY <1>2, <1>3 DEF Typed
  <2> QED
    BY <2>1 DEF VersionIds
<1>5. [kind |-> kind, document |-> d, version |-> <<d, documents[d].current>>, step |-> 1,
       scan |-> 0, answer |-> None] \in JobRows
  BY <1>3 DEF JobRows
<1>6. Typed'
  BY <1>1, <1>2, <1>5 DEF Typed, Create
<1>7. Grows
  BY <1>1, <1>2, NothingGrows DEF Create
<1>8. TablesAgree'
  BY <1>1, <1>2, TablesStay DEF Create
<1>9. JobAgrees(j)'
  <2>1. jobs'[j] = [kind |-> kind, document |-> d, version |-> <<d, documents[d].current>>, step |-> 1,
                    scan |-> 0, answer |-> None]
    BY <1>1, <1>2 DEF Create, Typed
  <2>2. VersionIds' = VersionIds
    BY <1>2 DEF VersionIds
  <2> QED
    BY <1>4, <2>1, <2>2, Lengths DEF JobAgrees, IsUpload, IsAnalysis, HasAnswer
<1> QED
  BY <1>1, <1>2, <1>6, <1>7, <1>8, <1>9, Created

-------------------------------------------------------------------------------
(* Running steps *)

\* A version is a row of its type.
LEMMA VersionTyped ==
  ASSUME Typed, NEW v \in VersionIds
  PROVE  v \in Docs \X Nat /\ Version(v) \in VersionRows
<1>1. PICK d \in Docs : \E n \in DOMAIN versions[d] : v = <<d, n>>
  BY DEF VersionIds
<1>2. PICK n \in DOMAIN versions[d] : v = <<d, n>>
  BY <1>1
<1>3. versions[d] \in Seq(VersionRows) /\ n \in Nat /\ versions[d][n] \in VersionRows
  BY <1>2 DEF Typed
<1> QED
  BY <1>2, <1>3 DEF Version

\* A handler may do nothing.
LEMMA NothingTyped ==
  Nothing \in Work
BY DEF Nothing, Work

\* What a handler has done agrees with the tables.
WorkFits(j, w) ==
  /\ w \in Work
  /\ w.file = 0 /\ w.number = 0
  /\ w.parse # None => w.parse.version \in VersionIds /\ w.parse.content = Version(w.parse.version).content
  /\ w.batch # None => w.batch \in parses
  /\ Step(j) = "LLM" => Cites(w.answer, jobs[j].version)
  /\ w.plan # None => w.plan.asked[1] = w.plan.document /\ Cites(w.plan.cites, w.plan.asked)

\* Nothing fits whatever the tables hold.
LEMMA NothingFits ==
  ASSUME NEW j, Step(j) # "LLM"
  PROVE  WorkFits(j, Nothing)
<1>1. Nothing \in Work
  BY NothingTyped
<1> QED
  BY <1>1 DEF WorkFits, Nothing

\* What PARSE stores is the content of the version.
LEMMA ParseFits ==
  ASSUME DocInv, NEW j \in Jobs, NEW v \in VersionIds, Step(j) # "LLM"
  PROVE  WorkFits(j, Parsed(v))
<1> DEFINE p == [version |-> v, content |-> originals[Version(v).file]]
           w == [Nothing EXCEPT !.parse = p]
<1>1. v \in Docs \X Nat /\ Version(v) \in VersionRows
  BY VersionTyped DEF DocInv
<1>2. originals[Version(v).file] \in Contents /\ originals[Version(v).file] = Version(v).content
  BY DEF DocInv, Typed, TablesAgree, OnlyScanned
<1>3. p \in ParseRows /\ p.version = v /\ p.content = Version(v).content
  BY <1>1, <1>2 DEF ParseRows
<1> HIDE DEF p
<1>4. w \in Work /\ w.file = 0 /\ w.number = 0 /\ w.parse = p /\ w.batch = None /\ w.plan = None
  BY <1>3 DEF Nothing, Work
<1> HIDE DEF w
<1>5. WorkFits(j, w)
  BY <1>3, <1>4 DEF WorkFits
<1>6. WorkFits(j, Nothing)
  BY NothingFits
<1> QED
  BY <1>5, <1>6 DEF Parsed, w, p

\* What CHUNK stores was parsed.
LEMMA ChunkFits ==
  ASSUME DocInv, NEW j \in Jobs, NEW v \in VersionIds, IsParsed(v), Step(j) # "LLM"
  PROVE  WorkFits(j, Chunked(v))
<1> DEFINE p == [version |-> v, content |-> ParseOf(v).content]
           w == [Nothing EXCEPT !.batch = p]
<1>1. PICK r \in parses : r = ParseOf(v) /\ r.version = v
  BY DEF IsParsed, ParseOf
<1>2. r \in ParseRows
  BY DEF DocInv, Typed
<1>3. p = r
  BY <1>1, <1>2 DEF ParseRows
<1> HIDE DEF p
<1>4. w \in Work /\ w.file = 0 /\ w.number = 0 /\ w.parse = None /\ w.batch = p /\ w.plan = None
  BY <1>2, <1>3 DEF Nothing, Work
<1> HIDE DEF w
<1>5. WorkFits(j, w)
  BY <1>3, <1>4 DEF WorkFits
<1>6. WorkFits(j, Nothing)
  BY NothingFits
<1> QED
  BY <1>5, <1>6 DEF Chunked, w, p

\* The model may answer anything: what passes validate_evidence cites the version.
LEMMA AnswerFits ==
  ASSUME DocInv, NEW j \in Jobs, NEW v, jobs[j].version = v,
         NEW a \in Answers, Evident(a, Payload(v))
  PROVE  WorkFits(j, [Nothing EXCEPT !.answer = a])
<1> DEFINE w == [Nothing EXCEPT !.answer = a]
<1>1. DOMAIN chunks \subseteq Nat
  BY DEF DocInv, Typed
<1>2. a \in AnswerRows
  BY <1>1, FilesAssumption DEF Answers, AnswerRows
<1>3. Cites(a, v)
  BY <1>2 DEF Evident, Payload, ChunksOf, Cites
<1>4. w \in Work /\ w.file = 0 /\ w.number = 0 /\ w.parse = None /\ w.batch = None
      /\ w.plan = None /\ w.answer = a
  BY <1>2 DEF Nothing, Work
<1> HIDE DEF w
<1>5. WorkFits(j, w)
  BY <1>3, <1>4 DEF WorkFits
<1> QED
  BY <1>5 DEF w

\* PLAN_VALIDATE stores the answer that LLM left in the job.
LEMMA PlanFits ==
  ASSUME DocInv, NEW j \in Jobs, jobs[j] \in JobRows, jobs[j].version \in VersionIds,
         jobs[j].document = jobs[j].version[1], Cites(jobs[j].answer, jobs[j].version), Step(j) # "LLM"
  PROVE  WorkFits(j, [Nothing EXCEPT !.plan =
           [job |-> j, document |-> jobs[j].document, asked |-> jobs[j].version,
            cites |-> jobs[j].answer]])
<1> DEFINE p == [job |-> j, document |-> jobs[j].document, asked |-> jobs[j].version,
                 cites |-> jobs[j].answer]
           w == [Nothing EXCEPT !.plan = p]
<1>1. jobs[j].version \in Docs \X Nat
  BY VersionTyped DEF DocInv
<1>2. jobs[j].document \in Docs /\ jobs[j].answer \in AnswerRows
  BY <1>1 DEF JobRows, Cites
<1>3. p \in PlanRows /\ p.asked = jobs[j].version /\ p.document = jobs[j].document /\ p.cites = jobs[j].answer
  BY <1>1, <1>2 DEF PlanRows
<1> HIDE DEF p
<1>4. w \in Work /\ w.file = 0 /\ w.number = 0 /\ w.parse = None /\ w.batch = None /\ w.plan = p
  BY <1>3 DEF Nothing, Work
<1> HIDE DEF w
<1>5. WorkFits(j, w)
  BY <1>3, <1>4 DEF WorkFits
<1> QED
  BY <1>5 DEF w, p

\* DESIGN_LEARN stores what the scanned file holds.
LEMMA LearnFits ==
  ASSUME DocInv, NEW j \in Jobs, jobs[j].scan \in DOMAIN originals, Step(j) # "LLM"
  PROVE  WorkFits(j, Learned(j))
<1> DEFINE t == [file |-> jobs[j].scan, content |-> originals[jobs[j].scan], learned |-> TRUE]
           w == [Nothing EXCEPT !.template = t]
<1>1. jobs[j].scan \in Nat /\ originals[jobs[j].scan] \in Contents
  BY DEF DocInv, Typed
<1>2. t \in TemplateRows
  BY <1>1 DEF TemplateRows
<1> HIDE DEF t
<1>3. w \in Work /\ w.file = 0 /\ w.number = 0 /\ w.parse = None /\ w.batch = None /\ w.plan = None
  BY <1>2 DEF Nothing, Work
<1> HIDE DEF w
<1>4. WorkFits(j, w)
  BY <1>3 DEF WorkFits
<1>5. WorkFits(j, Nothing)
  BY NothingFits
<1> QED
  BY <1>4, <1>5 DEF Learned, w, t

\* Whatever handler runs, what it has done agrees with the tables.
LEMMA HandledFits ==
  ASSUME DocInv, NEW j \in Jobs, Waits(j), NEW w \in Handled(j)
  PROVE  WorkFits(j, w) /\ Step(j) # "SECURITY_SCAN"
<1> DEFINE v == jobs[j].version
<1>1. jobs[j] \in JobRows /\ ~Done(j) /\ JobAgrees(j) /\ jobs[j] # NoJob
  BY DEF DocInv, Typed, Waits
<1>2. Step(j) # "SECURITY_SCAN"
  BY DEF Handled
<1>3. CASE Step(j) = "PARSE"
  <2>1. v \in VersionIds
    BY <1>1, <1>3, Positions DEF JobAgrees
  <2>2. w = Parsed(v)
    BY <1>3 DEF Handled
  <2> QED
    BY <1>2, <1>3, <2>1, <2>2, ParseFits
<1>4. CASE Step(j) = "CHUNK"
  <2>1. v \in VersionIds
    BY <1>1, <1>4, Positions DEF JobAgrees
  <2>2. IsParsed(v) /\ w = Chunked(v)
    BY <1>4 DEF Handled
  <2> QED
    BY <1>2, <1>4, <2>1, <2>2, ChunkFits
<1>5. CASE Step(j) \in {"LLM_SUMMARY", "LLM_KEY_MESSAGES", "LLM_OUTLINE", "LLM_VISUAL"}
  <2>1. w = Nothing
    BY <1>5 DEF Handled
  <2> QED
    BY <1>2, <1>5, <2>1, NothingFits
<1>6. CASE Step(j) = "LLM"
  <2>1. PICK a \in Answers : Evident(a, Payload(v)) /\ w = [Nothing EXCEPT !.answer = a]
    BY <1>6 DEF Handled
  <2> QED
    BY <1>2, <2>1, AnswerFits
<1>7. CASE Step(j) = "PLAN_VALIDATE"
  <2>1. IsAnalysis(j) /\ HasAnswer(j)
    BY <1>1, <1>7, Positions
  <2>2. v \in VersionIds /\ jobs[j].document = v[1] /\ Cites(jobs[j].answer, v)
    BY <1>1, <2>1 DEF JobAgrees
  <2>3. w = [Nothing EXCEPT !.plan =
               [job |-> j, document |-> jobs[j].document, asked |-> v, cites |-> jobs[j].answer]]
    BY <1>7 DEF Handled
  <2> QED
    BY <1>1, <1>2, <1>7, <2>2, <2>3, PlanFits
<1>8. CASE Step(j) = "DESIGN_LEARN"
  <2>1. w = Learned(j)
    BY <1>8 DEF Handled
  <2>2. jobs[j].scan \in DOMAIN originals
    BY <1>1, <1>8, Positions DEF JobAgrees
  <2> QED
    BY <1>1, <1>2, <1>8, <2>1, <2>2, LearnFits
<1> QED
  BY <1>3, <1>4, <1>5, <1>6, <1>7, <1>8 DEF Handled

\* A step that touches only the work of one job.
LEMMA WorkChanges ==
  ASSUME DocInv, NEW j \in Jobs, NEW w \in Work \cup {NoWork}, work' = [work EXCEPT ![j] = w],
         UNCHANGED <<stored, quarantine, originals, jobs, cleanup>>,
         WorkAgrees(j)', OneNumbering'
  PROVE  DocInv'
<1>1. Typed /\ TablesAgree /\ JobAgrees(j) /\ CleanupAgrees(j)
  BY DEF DocInv
<1>2. UNCHANGED <<documents, versions, originals, parses, chunks, plans, templates, quarantine, jobs, cleanup>>
  BY DEF stored
<1>3. Typed'
  BY <1>1, <1>2 DEF Typed
<1>4. Grows
  BY <1>1, <1>2, NothingGrows
<1>5. TablesAgree'
  BY <1>1, <1>2, TablesStay
<1>6. JobAgrees(j)'
  BY <1>1, <1>2, <1>3, <1>4, JobStays
<1>7. CleanupAgrees(j)'
  BY <1>1, <1>2, CleanupStays
<1>8. \A k \in Jobs \ {j} : work'[k] = work[k]
  BY <1>1 DEF Typed
<1> QED
  BY <1>2, <1>3, <1>4, <1>5, <1>6, <1>7, <1>8, Others

\* A step that fails leaves its file and nothing else.
LEMMA StepFailsSafe ==
  ASSUME DocInv, NEW j \in Jobs, StepFails(j)
  PROVE  DocInv'
<1>1. work' = [work EXCEPT ![j] = NoWork] /\ UNCHANGED <<stored, quarantine, originals, jobs, cleanup>>
  BY DEF StepFails
<1>2. work'[j] = NoWork /\ \A k \in Jobs \ {j} : work'[k] = work[k]
  BY <1>1 DEF DocInv, Typed
<1>3. WorkAgrees(j)'
  BY <1>2 DEF WorkAgrees, Runs
<1>4. OneNumbering'
  BY <1>1, <1>2, NumberingStays DEF DocInv
<1> QED
  BY <1>1, <1>3, <1>4, WorkChanges

\* A handler keeps DocInv: it writes nothing before it commits.
LEMMA DoStepSafe ==
  ASSUME DocInv, NEW j \in Jobs, DoStep(j)
  PROVE  DocInv'
<1>1. PICK w \in Handled(j) : work' = [work EXCEPT ![j] = w]
  BY DEF DoStep
<1>2. Waits(j) /\ UNCHANGED <<stored, quarantine, originals, jobs, cleanup>>
  BY DEF DoStep
<1>3. WorkFits(j, w) /\ Step(j) # "SECURITY_SCAN"
  BY <1>2, HandledFits
<1>4. work'[j] = w /\ \A k \in Jobs \ {j} : work'[k] = work[k]
  BY <1>1 DEF DocInv, Typed
<1>5. UNCHANGED <<documents, versions, parses, chunks, originals, jobs>>
  BY <1>2 DEF stored
<1>6. w.file = 0 /\ w.number = 0 /\ w \in Work
  BY <1>3 DEF WorkFits
<1>7. WorkAgrees(j)'
  <2>1. jobs[j] # NoJob /\ ~Done(j)
    BY <1>2 DEF Waits
  <2>2. Done(j)' = Done(j) /\ Step(j)' = Step(j) /\ VersionIds' = VersionIds
    BY <1>5 DEF Done, Step, VersionIds
  <2>3. w.parse # None => w.parse.version \in VersionIds /\ w.parse.content = Version(w.parse.version)'.content
    BY <1>3, <1>5 DEF WorkFits, Version
  <2>4. /\ Step(j) = "LLM" => Cites(w.answer, jobs[j].version)'
        /\ w.plan # None => w.plan.asked[1] = w.plan.document /\ Cites(w.plan.cites, w.plan.asked)'
    BY <1>3, <1>5 DEF WorkFits, Cites
  <2>5. w.batch # None => w.batch \in parses'
    BY <1>3, <1>5 DEF WorkFits
  <2> QED
    BY <1>3, <1>4, <1>5, <1>6, <2>1, <2>2, <2>3, <2>4, <2>5 DEF WorkAgrees, Cites
<1>8. OneNumbering'
  BY <1>4, <1>5, <1>6, NumberingStays DEF DocInv
<1> QED
  BY <1>1, <1>2, <1>6, <1>7, <1>8, WorkChanges

\* The number is taken under the lock on the document.
LEMMA NumberVersionSafe ==
  ASSUME DocInv, NEW j \in Jobs, NumberVersion(j)
  PROVE  DocInv'
<1> DEFINE d == jobs[j].document
           b == IsDuplicate(d, originals[work[j].file])
           n == Len(versions[d]) + 1
<1>1. /\ Runs(j) /\ Step(j) = "SECURITY_SCAN" /\ IsUpload(j) /\ work[j].number = 0 /\ Unlocked(d)
      /\ UNCHANGED <<stored, quarantine, originals, jobs, cleanup>>
  BY DEF NumberVersion, IsUpload
<1>2. Typed /\ WorkAgrees(j) /\ JobAgrees(j) /\ work[j] \in Work /\ OneNumbering
  BY <1>1 DEF DocInv, Typed, Runs
<1>3. PICK w : w = [work[j] EXCEPT !.number = n, !.duplicate = b] /\ work' = [work EXCEPT ![j] = w]
  BY <1>2 DEF NumberVersion, Typed
<1>4. d \in Docs /\ versions[d] \in Seq(VersionRows) /\ n \in Nat /\ n > 0 /\ n = Len(versions[d]) + 1
  BY <1>1, <1>2 DEF WorkAgrees, JobAgrees, Typed
<1>5. b \in BOOLEAN
  BY DEF IsDuplicate
<1>6. ~b => \A i \in DOMAIN versions[d] : versions[d][i].content # originals[work[j].file]
  BY <1>4 DEF IsDuplicate, Range
<1> HIDE DEF b, n
<1>7. /\ w \in Work /\ w.number = n /\ w.duplicate = b /\ w.file = work[j].file
      /\ w.parse = work[j].parse /\ w.batch = work[j].batch /\ w.answer = work[j].answer
      /\ w.plan = work[j].plan
  BY <1>2, <1>3, <1>4, <1>5 DEF Work
<1>8. work'[j] = w /\ \A k \in Jobs \ {j} : work'[k] = work[k]
  BY <1>2, <1>3 DEF Typed
<1>9. UNCHANGED <<documents, versions, parses, chunks, originals, jobs>>
  BY <1>1 DEF stored
<1>10. WorkAgrees(j)'
  <2>1. Done(j)' = Done(j) /\ Step(j)' = Step(j) /\ VersionIds' = VersionIds /\ IsUpload(j)' = IsUpload(j)
    BY <1>9 DEF Done, Step, VersionIds, IsUpload
  <2>2. w.file > 0 /\ w.file \in DOMAIN originals
    BY <1>1, <1>2, <1>7 DEF WorkAgrees
  <2>3. w.parse # None => w.parse.version \in VersionIds /\ w.parse.content = Version(w.parse.version)'.content
    BY <1>1, <1>2, <1>7, <1>9 DEF WorkAgrees, Version
  <2>4. w.plan # None => w.plan.asked[1] = w.plan.document /\ Cites(w.plan.cites, w.plan.asked)'
    BY <1>1, <1>2, <1>7, <1>9 DEF WorkAgrees, Cites
  <2>5. w.batch # None => w.batch \in parses'
    BY <1>1, <1>2, <1>7, <1>9 DEF WorkAgrees
  <2>6. jobs[j] # NoJob /\ ~Done(j)
    BY <1>1, <1>2 DEF WorkAgrees
  <2> QED
    BY <1>1, <1>4, <1>6, <1>7, <1>8, <1>9, <2>1, <2>2, <2>3, <2>4, <2>5, <2>6 DEF WorkAgrees, NumberFree
<1>11. OneNumbering'
  <2> SUFFICES ASSUME NEW i \in Jobs, NEW k \in Jobs, Runs(i)', Runs(k)',
                      work'[i].number > 0, work'[k].number > 0, i # k
               PROVE  jobs[i].document # jobs[k].document
    BY <1>9 DEF OneNumbering
  <2>1. CASE i = j
    BY <1>1, <1>8, <2>1 DEF Unlocked, Runs
  <2>2. CASE k = j
    BY <1>1, <1>8, <2>2 DEF Unlocked, Runs
  <2>3. CASE i # j /\ k # j
    BY <1>2, <1>8, <2>3 DEF OneNumbering, Runs
  <2> QED
    BY <2>1, <2>2, <2>3
<1> QED
  BY <1>1, <1>3, <1>7, <1>10, <1>11, WorkChanges

\* The scanned file is stored before anything refers to it.
LEMMA SecurityScanSafe ==
  ASSUME DocInv, NEW j \in Jobs, SecurityScan(j)
  PROVE  DocInv'
<1>1. Typed /\ TablesAgree /\ JobAgrees(j) /\ CleanupAgrees(j) /\ OneNumbering
  BY DEF DocInv
<1>2. /\ jobs[j] # NoJob /\ ~Done(j) /\ Step(j) = "SECURITY_SCAN"
      /\ quarantine[j] \in Clean /\ originals' = Append(originals, quarantine[j])
      /\ UNCHANGED <<documents, versions, parses, chunks, templates, plans, quarantine, jobs, cleanup>>
  BY DEF SecurityScan, Waits, ScanPasses, LeftBehind, stored
<1> DEFINE n == Len(originals) + 1
<1>3. /\ n \in Nat /\ n > 0 /\ n = Len(originals) + 1
      /\ originals \in Seq(Contents) /\ originals' \in Seq(Contents)
      /\ Len(originals) \in Nat /\ Len(originals') = n /\ originals'[n] = quarantine[j]
      /\ \A i \in 1 .. Len(originals) : originals'[i] = originals[i]
  BY <1>1, <1>2, CleanAssumption DEF Typed
<1>4. PICK w : w = [Nothing EXCEPT !.file = n] /\ work' = [work EXCEPT ![j] = w]
  BY DEF SecurityScan
<1> HIDE DEF n
<1>5. /\ w \in Work /\ w.file = n /\ w.number = 0 /\ w.parse = None /\ w.batch = None
      /\ w.plan = None
  BY <1>3, <1>4 DEF Nothing, Work
<1>6. work'[j] = w /\ \A k \in Jobs \ {j} : work'[k] = work[k]
  BY <1>1, <1>4 DEF Typed
<1>7. Typed'
  BY <1>1, <1>2, <1>3, <1>4, <1>5 DEF Typed
<1>8. Grows
  BY <1>1, <1>2, <1>3 DEF Grows, Typed
<1>9. TablesAgree'
  <2>1. /\ \A i \in DOMAIN originals' : originals'[i] \in Clean
        /\ DOMAIN originals \subseteq DOMAIN originals'
        /\ \A i \in DOMAIN originals : originals'[i] = originals[i]
    BY <1>1, <1>2, <1>3 DEF TablesAgree, OnlyScanned
  <2>2. VersionIds' = VersionIds /\ \A v : Version(v)' = Version(v)
    BY <1>2 DEF VersionIds, Version
  <2>3. OnlyScanned'
    BY <1>1, <1>2, <2>1, <2>2 DEF TablesAgree, OnlyScanned
  <2> QED
    BY <1>1, <1>2, <2>3 DEF TablesAgree, DuplicatesInDocument, Cites
<1>10. JobAgrees(j)'
  BY <1>1, <1>2, <1>7, <1>8, JobStays
<1>11. WorkAgrees(j)'
  <2>1. Done(j)' = Done(j) /\ Step(j)' = Step(j) /\ n \in DOMAIN originals'
    BY <1>2, <1>3 DEF Done, Step
  <2> QED
    BY <1>2, <1>3, <1>5, <1>6, <2>1 DEF WorkAgrees
<1>12. CleanupAgrees(j)'
  BY <1>1, <1>2, CleanupStays
<1>13. OneNumbering'
  BY <1>1, <1>2, <1>5, <1>6, NumberingStays
<1> QED
  BY <1>2, <1>6, <1>7, <1>8, <1>9, <1>10, <1>11, <1>12, <1>13, Others

\* The quarantined file of a committed scan is not needed any more.
LEMMA CleanupSafe ==
  ASSUME DocInv, NEW j \in Jobs, Cleanup(j)
  PROVE  DocInv'
<1>1. Typed /\ TablesAgree /\ JobAgrees(j) /\ WorkAgrees(j) /\ CleanupAgrees(j) /\ OneNumbering
  BY DEF DocInv
<1>2. /\ UNCHANGED <<documents, versions, originals, parses, chunks, templates, plans, jobs, work>>
      /\ j \in cleanup /\ cleanup' = cleanup \ {j}
      /\ quarantine' = quarantine \/ quarantine' = [quarantine EXCEPT ![j] = None]
  BY DEF Cleanup, stored
<1>3. Typed' /\ \A k \in Jobs \ {j} : quarantine'[k] = quarantine[k]
  BY <1>1, <1>2 DEF Typed
<1>4. Grows /\ TablesAgree'
  BY <1>1, <1>2, NothingGrows, TablesStay
<1>5. jobs[j].step # 1
  BY <1>1, <1>2 DEF CleanupAgrees
<1>6. JobAgrees(j)'
  BY <1>1, <1>2, <1>3, <1>4, <1>5, JobStays
<1>7. WorkAgrees(j)'
  BY <1>1, <1>2, <1>3, <1>4, WorkStays
<1>8. CleanupAgrees(j)'
  BY <1>1, <1>2, CleanupStays
<1>9. OneNumbering'
  BY <1>1, <1>2, NumberingStays
<1> QED
  BY <1>2, <1>3, <1>4, <1>6, <1>7, <1>8, <1>9, Others

\* A deletion marks the document and leaves its versions.
LEMMA DeleteDocumentSafe ==
  ASSUME DocInv, NEW d \in Docs, DeleteDocument(d)
  PROVE  DocInv'
<1>1. Typed /\ TablesAgree /\ OneNumbering
  BY DEF DocInv
<1>2. /\ documents[d] # NoDoc /\ documents' = [documents EXCEPT ![d].deleted = TRUE]
      /\ UNCHANGED <<versions, quarantine, originals, parses, chunks, templates, plans, jobs, work, cleanup>>
  BY DEF DeleteDocument
<1>3. documents[d] \in DocumentRows
  BY <1>1, <1>2 DEF Typed
<1>4. /\ documents'[d] \in DocumentRows /\ documents'[d].current = documents[d].current
      /\ \A e \in Docs \ {d} : documents'[e] = documents[e]
  BY <1>1, <1>2, <1>3 DEF Typed, DocumentRows
<1>5. documents'[d] # NoDoc
  BY <1>4, NullAssumption DEF DocumentRows
<1>6. Typed'
  BY <1>1, <1>2, <1>4 DEF Typed
<1>7. Grows
  BY <1>1, <1>2, <1>4, <1>5 DEF Grows, Typed
<1>8. TablesAgree'
  <2>1. \A e \in Docs :
          IF documents'[e] = NoDoc THEN versions'[e] = <<>> ELSE documents'[e].current = Len(versions'[e])
    BY <1>1, <1>2, <1>4, <1>5 DEF TablesAgree
  <2> QED
    BY SMTT(20), <1>1, <1>2, <2>1 DEF TablesAgree, OnlyScanned, DuplicatesInDocument, VersionIds, Version, Cites
<1>9. ASSUME NEW k \in Jobs
      PROVE  JobAgrees(k)' /\ WorkAgrees(k)' /\ CleanupAgrees(k)'
  <2>1. JobAgrees(k) /\ WorkAgrees(k) /\ CleanupAgrees(k)
    BY DEF DocInv
  <2> QED
    BY <1>1, <1>2, <1>6, <1>7, <2>1, JobStays, WorkStays, CleanupStays
<1>10. OneNumbering'
  BY <1>1, <1>2, NumberingStays
<1> QED
  BY <1>6, <1>8, <1>9, <1>10 DEF DocInv

\* An edited plan cites other chunks of the same version.
LEMMA EditPlanSafe ==
  ASSUME DocInv, NEW p \in plans, EditPlan(p)
  PROVE  DocInv'
<1>1. Typed /\ TablesAgree /\ OneNumbering
  BY DEF DocInv
<1>2. PICK a \in Answers : /\ a.version = p.cites.version
                           /\ Evident(a, ChunksOf(a.version))
                           /\ plans' = (plans \ {p}) \cup {[p EXCEPT !.cites = a]}
  BY DEF EditPlan
<1>3. UNCHANGED <<documents, versions, quarantine, originals, parses, chunks, templates, jobs, work, cleanup>>
  BY DEF EditPlan
<1>4. DOMAIN chunks \subseteq Nat
  BY <1>1 DEF Typed
<1>5. a \in AnswerRows /\ Cites(a, a.version)
  <2>1. a \in AnswerRows
    BY <1>4, FilesAssumption DEF Answers, AnswerRows
  <2> QED
    BY <1>2, <2>1 DEF Cites, Evident, ChunksOf
<1>6. p \in PlanRows /\ p.asked[1] = p.document /\ Cites(p.cites, p.asked)
  BY <1>1 DEF Typed, TablesAgree
<1>7. PICK q : q = [p EXCEPT !.cites = a] /\ plans' = (plans \ {p}) \cup {q}
  BY <1>2
<1>8. q \in PlanRows /\ q.asked = p.asked /\ q.document = p.document /\ q.cites = a
  BY <1>5, <1>6, <1>7 DEF PlanRows
<1>9. Cites(q.cites, q.asked)
  BY <1>2, <1>5, <1>6, <1>8 DEF Cites
<1>10. Typed'
  BY <1>1, <1>3, <1>7, <1>8 DEF Typed
<1>11. Grows
  BY <1>1, <1>3, NothingGrows
<1>12. TablesAgree'
  <2>1. \A r \in plans' : r.asked[1] = r.document /\ Cites(r.cites, r.asked)
    BY <1>1, <1>6, <1>7, <1>8, <1>9 DEF TablesAgree
  <2>2. \A r \in plans' : Cites(r.cites, r.asked)'
    BY <1>3, <2>1 DEF Cites
  <2> QED
    BY <1>1, <1>3, <2>1, <2>2 DEF TablesAgree, OnlyScanned, DuplicatesInDocument, VersionIds, Version
<1>13. ASSUME NEW k \in Jobs
       PROVE  JobAgrees(k)' /\ WorkAgrees(k)' /\ CleanupAgrees(k)'
  <2>1. JobAgrees(k) /\ WorkAgrees(k) /\ CleanupAgrees(k)
    BY DEF DocInv
  <2> QED
    BY <1>1, <1>3, <1>10, <1>11, <2>1, JobStays, WorkStays, CleanupStays
<1>14. OneNumbering'
  BY <1>1, <1>3, NumberingStays
<1> QED
  BY <1>10, <1>12, <1>13, <1>14 DEF DocInv

-------------------------------------------------------------------------------
(* Commits *)

\* A commit moves its job one step on and ends its work.
LEMMA Advances ==
  ASSUME DocInv, NEW j \in Jobs, Runs(j), Finish(j)
  PROVE  /\ jobs' \in [Jobs -> JobRows \cup {NoJob}] /\ work' \in [Jobs -> Work \cup {NoWork}]
         /\ jobs'[j] \in JobRows /\ work'[j] = NoWork
         /\ jobs'[j].kind = jobs[j].kind /\ jobs'[j].document = jobs[j].document
         /\ jobs'[j].version = jobs[j].version /\ jobs'[j].step = jobs[j].step + 1
         /\ jobs'[j].scan = IF Step(j) = "SECURITY_SCAN" THEN work[j].file ELSE jobs[j].scan
         /\ jobs'[j].answer = IF Step(j) = "LLM" THEN work[j].answer ELSE jobs[j].answer
         /\ \A k \in Jobs \ {j} : jobs'[k] = jobs[k] /\ work'[k] = work[k]
<1>1. jobs[j] \in JobRows /\ work[j] \in Work /\ Typed
  BY DEF DocInv, Typed, WorkAgrees, Runs
<1> DEFINE scan == IF Step(j) = "SECURITY_SCAN" THEN work[j].file ELSE jobs[j].scan
           answer == IF Step(j) = "LLM" THEN work[j].answer ELSE jobs[j].answer
           step == jobs[j].step + 1
           r == [jobs[j] EXCEPT !.step = step, !.scan = scan, !.answer = answer]
<1>2. scan \in Nat /\ answer \in AnswerRows \cup {None} /\ step \in Nat \ {0}
  BY <1>1 DEF JobRows, Work
<1>3. jobs' = [jobs EXCEPT ![j] = r]
  BY DEF Finish, After
<1> HIDE DEF scan, answer, step
<1>4. /\ r \in JobRows /\ r.kind = jobs[j].kind /\ r.document = jobs[j].document
      /\ r.version = jobs[j].version /\ r.step = step /\ r.scan = scan /\ r.answer = answer
  BY <1>1, <1>2 DEF JobRows
<1> HIDE DEF r
<1>5. jobs'[j] = r /\ jobs' \in [Jobs -> JobRows \cup {NoJob}] /\ \A k \in Jobs \ {j} : jobs'[k] = jobs[k]
  BY <1>1, <1>3, <1>4 DEF Typed
<1>6. /\ work'[j] = NoWork /\ work' \in [Jobs -> Work \cup {NoWork}]
      /\ \A k \in Jobs \ {j} : work'[k] = work[k]
  BY <1>1 DEF Typed, Finish
<1> QED
  BY <1>4, <1>5, <1>6 DEF scan, answer, step

\* What a commit leaves of its own work: nothing.
LEMMA WorkEnds ==
  ASSUME DocInv, NEW j \in Jobs, Runs(j), Finish(j)
  PROVE  /\ WorkAgrees(j)'
         /\ CleanupAgrees(j)'
         /\ OneNumbering'
<1>1. /\ work'[j] = NoWork
      /\ jobs'[j] \in JobRows
      /\ jobs'[j].step = jobs[j].step + 1
      /\ \A k \in Jobs \ {j} : jobs'[k] = jobs[k] /\ work'[k] = work[k]
  BY Advances
<1>2. jobs[j] \in JobRows /\ jobs[j].step \in Nat \ {0}
  BY DEF DocInv, Typed, WorkAgrees, Runs, JobRows
<1>3. jobs'[j].step > 1 /\ jobs'[j] # NoJob
  BY <1>1, <1>2, NullAssumption
<1>4. WorkAgrees(j)'
  BY <1>1 DEF WorkAgrees, Runs
<1>5. CleanupAgrees(j)'
  BY <1>3 DEF CleanupAgrees
<1>6. OneNumbering'
  BY <1>1, NumberingStays DEF DocInv
<1> QED
  BY <1>4, <1>5, <1>6

\* What a job is after its scan.
LEMMA Scanned ==
  ASSUME DocInv, NEW j \in Jobs, Runs(j), work[j].file > 0, Finish(j), Grows, Typed'
  PROVE  JobAgrees(j)'
<1>1. /\ jobs[j] # NoJob /\ ~Done(j) /\ JobAgrees(j) /\ Step(j) = "SECURITY_SCAN"
      /\ work[j] \in Work /\ work[j].file \in {0} \cup DOMAIN originals /\ Typed /\ jobs[j] \in JobRows
  BY DEF DocInv, Typed, WorkAgrees, Runs
<1>2. ~IsAnalysis(j) /\ jobs[j].step = 1
  BY <1>1, Positions
<1>3. /\ jobs'[j].kind = jobs[j].kind /\ jobs'[j].document = jobs[j].document /\ jobs'[j].step = 2
      /\ jobs'[j].scan = work[j].file
  BY <1>1, <1>2, Advances
<1>4. 2 <= Len(PIPELINES[jobs[j].kind]) + 1
  <2>1. jobs[j].kind \in {"upload", "template", "design_reference"}
    BY <1>1, <1>2 DEF IsAnalysis, JobRows
  <2>2. CASE jobs[j].kind = "upload"
    BY <2>2, Lengths
  <2>3. CASE jobs[j].kind = "template"
    BY <2>3, Lengths
  <2>4. CASE jobs[j].kind = "design_reference"
    BY <2>4, Lengths
  <2> QED
    BY <2>1, <2>2, <2>3, <2>4
<1>5. work[j].file \in DOMAIN originals'
  BY <1>1 DEF Grows, Typed, Work
<1>6. IsUpload(j) => documents'[jobs[j].document] # NoDoc
  BY <1>1 DEF JobAgrees, Grows
<1>7. IsUpload(j) => jobs[j].document \in Docs
  BY <1>1 DEF JobAgrees
<1> QED
  BY <1>2, <1>3, <1>4, <1>5, <1>6, <1>7 DEF JobAgrees, IsUpload, IsAnalysis, HasAnswer

\* A new version has the next number, its stored file and a true flag duplicate.
LEMMA CommitVersionSafe ==
  ASSUME DocInv, NEW j \in Jobs, CommitVersion(j)
  PROVE  DocInv'
<1> DEFINE d == jobs[j].document
<1>1. /\ Typed /\ TablesAgree /\ JobAgrees(j) /\ WorkAgrees(j) /\ OneNumbering
      /\ Runs(j) /\ work[j].number > 0 /\ NumberFree(j) /\ Finish(j)
  BY DEF DocInv, CommitVersion
<1>2. /\ jobs[j] # NoJob /\ IsUpload(j) /\ work[j].file > 0 /\ work[j] \in Work
      /\ work[j].number = Len(versions[d]) + 1
      /\ work[j].file \in DOMAIN originals
  BY <1>1 DEF WorkAgrees, Typed, Runs, NumberFree, Work
<1>3. d \in Docs /\ documents[d] # NoDoc
  BY <1>1, <1>2 DEF JobAgrees
<1>4. PICK row : /\ row = [content |-> originals[work[j].file], file |-> work[j].file,
                           duplicate |-> work[j].duplicate]
                 /\ versions' = [versions EXCEPT ![d] = Append(versions[d], row)]
                 /\ documents' = [documents EXCEPT ![d].current = work[j].number]
  BY DEF CommitVersion
<1>5. /\ cleanup' = cleanup \cup {j}
      /\ UNCHANGED <<quarantine, originals, parses, chunks, templates, plans>>
  BY DEF CommitVersion
<1>6. /\ row \in VersionRows /\ row.content = originals[row.file] /\ row.file \in DOMAIN originals
      /\ row.duplicate = work[j].duplicate /\ row.file = work[j].file
  BY <1>1, <1>2, <1>4 DEF Typed, Work, VersionRows
<1>7. documents[d] \in DocumentRows
  BY <1>1, <1>3 DEF Typed
<1>8. /\ documents'[d] \in DocumentRows /\ documents'[d].current = work[j].number
      /\ \A e \in Docs \ {d} : documents'[e] = documents[e]
  BY <1>1, <1>2, <1>3, <1>4, <1>7 DEF Typed, DocumentRows, Work
<1>9. documents'[d] # NoDoc
  BY <1>8, NullAssumption
<1> DEFINE n == Len(versions[d]) + 1
<1>10. /\ versions[d] \in Seq(VersionRows) /\ versions'[d] \in Seq(VersionRows)
       /\ Len(versions[d]) \in Nat /\ n \in Nat /\ Len(versions'[d]) = n /\ versions'[d][n] = row
       /\ \A i \in 1 .. Len(versions[d]) : versions'[d][i] = versions[d][i]
       /\ \A e \in Docs \ {d} : versions'[e] = versions[e]
  BY <1>1, <1>3, <1>4, <1>6 DEF Typed
<1>11. Typed'
  <2>1. documents' \in [Docs -> DocumentRows \cup {NoDoc}]
    BY <1>1, <1>3, <1>4, <1>8 DEF Typed
  <2>2. versions' \in [Docs -> Seq(VersionRows)]
    BY <1>1, <1>3, <1>4, <1>10 DEF Typed
  <2>3. jobs' \in [Jobs -> JobRows \cup {NoJob}] /\ work' \in [Jobs -> Work \cup {NoWork}]
    BY <1>1, Advances
  <2> QED
    BY <1>1, <1>5, <2>1, <2>2, <2>3 DEF Typed
<1>12. Grows
  <2>1. \A e \in Docs : /\ Len(versions[e]) <= Len(versions'[e])
                        /\ \A i \in 1 .. Len(versions[e]) : versions'[e][i] = versions[e][i]
    <3> SUFFICES ASSUME NEW e \in Docs
                 PROVE  /\ Len(versions[e]) <= Len(versions'[e])
                        /\ \A i \in 1 .. Len(versions[e]) : versions'[e][i] = versions[e][i]
      OBVIOUS
    <3>1. CASE e = d
      BY <1>10, <3>1
    <3>2. CASE e # d
      BY <1>1, <1>10, <3>2 DEF Typed
    <3> QED
      BY <3>1, <3>2
  <2>2. \A e \in Docs : documents[e] # NoDoc => documents'[e] # NoDoc
    BY <1>8, <1>9
  <2> QED
    BY <1>1, <1>5, <2>1, <2>2 DEF Grows, Typed
<1> HIDE DEF n
<1>13. TablesAgree'
  <2>1. \A e \in Docs :
          IF documents'[e] = NoDoc THEN versions'[e] = <<>> ELSE documents'[e].current = Len(versions'[e])
    BY <1>1, <1>2, <1>8, <1>9, <1>10 DEF TablesAgree, n
  <2>2. OnlyScanned'
    <3>1. \A v \in VersionIds : v \in VersionIds' /\ Version(v)' = Version(v)
      BY <1>1, <1>11, <1>12, VersionsStay
    <3>2. ASSUME NEW v \in VersionIds'
          PROVE  Version(v)'.file \in DOMAIN originals /\ Version(v)'.content = originals[Version(v)'.file]
      <4>1. CASE v \in VersionIds
        BY <1>1, <3>1, <4>1 DEF TablesAgree, OnlyScanned
      <4>2. CASE v \notin VersionIds
        <5>1. PICK e \in Docs : \E i \in DOMAIN versions'[e] : v = <<e, i>>
          BY DEF VersionIds
        <5>2. PICK i \in DOMAIN versions'[e] : v = <<e, i>>
          BY <5>1
        <5>3. e = d
          BY <1>10, <4>2, <5>2 DEF VersionIds
        <5>4. i = n
          <6>1. i \in 1 .. n /\ i \notin 1 .. Len(versions[d])
            BY <1>10, <4>2, <5>2, <5>3 DEF VersionIds
          <6> QED
            BY <1>10, <6>1 DEF n
        <5> QED
          BY <1>6, <1>10, <5>2, <5>3, <5>4 DEF Version
      <4> QED
        BY <4>1, <4>2
    <3>3. \A p \in parses : p.version \in VersionIds' /\ p.content = Version(p.version)'.content
      BY <1>1, <3>1 DEF TablesAgree, OnlyScanned
    <3> QED
      BY <1>1, <1>5, <3>2, <3>3 DEF TablesAgree, OnlyScanned
  <2>3. DuplicatesInDocument'
    <3> SUFFICES ASSUME NEW e \in Docs, NEW i \in DOMAIN versions'[e], NEW m \in 1 .. i - 1,
                        versions'[e][m].content = versions'[e][i].content
                 PROVE  versions'[e][i].duplicate
      BY DEF DuplicatesInDocument
    <3>1. CASE e # d
      BY <1>1, <1>10, <3>1 DEF TablesAgree, DuplicatesInDocument
    <3>2. CASE e = d
      <4>1. i \in 1 .. n
        BY <1>10, <3>2
      <4>2. CASE i = n
        <5>1. m \in 1 .. Len(versions[d]) /\ m \in DOMAIN versions[d]
          BY <1>10, <4>2 DEF n
        <5>2. versions[d][m].content = originals[work[j].file] /\ versions'[e][i] = row
          BY <1>6, <1>10, <3>2, <4>2, <5>1
        <5> QED
          BY <1>1, <1>6, <5>1, <5>2 DEF WorkAgrees
      <4>3. CASE i # n
        <5>1. i \in 1 .. Len(versions[d]) /\ i \in DOMAIN versions[d] /\ m \in 1 .. Len(versions[d])
          BY SMTT(20), <1>10, <4>1, <4>3 DEF n
        <5> QED
          BY SMTT(20), <1>1, <1>10, <3>2, <5>1 DEF TablesAgree, DuplicatesInDocument
      <4> QED
        BY <4>2, <4>3
    <3> QED
      BY <3>1, <3>2
  <2>4. \A p \in plans' : p.asked[1] = p.document /\ Cites(p.cites, p.asked)'
    BY <1>1, <1>5 DEF TablesAgree, Cites
  <2> QED
    BY <2>1, <2>2, <2>3, <2>4 DEF TablesAgree
<1>14. JobAgrees(j)'
  BY <1>1, <1>2, <1>11, <1>12, Scanned
<1>15. WorkAgrees(j)' /\ CleanupAgrees(j)' /\ OneNumbering'
  BY <1>1, WorkEnds
<1>16. ASSUME NEW k \in Jobs \ {j}
       PROVE  /\ jobs'[k] = jobs[k] /\ work'[k] = work[k] /\ quarantine'[k] = quarantine[k]
              /\ k \in cleanup' => k \in cleanup
              /\ Runs(k) /\ work[k].number > 0 => versions'[jobs[k].document] = versions[jobs[k].document]
  <2>1. jobs'[k] = jobs[k] /\ work'[k] = work[k]
    BY <1>1, Advances
  <2>2. Runs(k) /\ work[k].number > 0 => jobs[k].document \in Docs \ {d}
    <3> SUFFICES ASSUME Runs(k), work[k].number > 0
                 PROVE  jobs[k].document \in Docs \ {d}
      OBVIOUS
    <3>1. JobAgrees(k) /\ WorkAgrees(k)
      BY DEF DocInv
    <3>2. jobs[k].document \in Docs
      BY <3>1 DEF JobAgrees, WorkAgrees
    <3> QED
      BY <1>1, <3>2 DEF OneNumbering
  <2> QED
    BY <1>5, <1>10, <2>1, <2>2
<1> QED
  BY <1>11, <1>12, <1>13, <1>14, <1>15, <1>16, Others

\* A template gets its row and a reference none.
LEMMA CommitScanSafe ==
  ASSUME DocInv, NEW j \in Jobs, CommitScan(j)
  PROVE  DocInv'
<1>1. /\ Typed /\ TablesAgree /\ WorkAgrees(j) /\ Runs(j) /\ work[j].file > 0 /\ Finish(j)
      /\ cleanup' = cleanup \cup {j}
      /\ UNCHANGED <<documents, versions, quarantine, originals, parses, chunks, plans>>
  BY DEF DocInv, CommitScan
<1>2. work[j] \in Work /\ work[j].file \in DOMAIN originals
  BY <1>1 DEF WorkAgrees, Typed, Runs, Work
<1>3. originals[work[j].file] \in Contents /\ work[j].file \in Nat
  BY <1>1, <1>2 DEF Typed
<1>4. templates' \subseteq TemplateRows
  <2> DEFINE t == [file |-> work[j].file, content |-> originals[work[j].file], learned |-> FALSE]
  <2>1. t \in TemplateRows
    BY <1>3 DEF TemplateRows
  <2>2. templates' = templates \/ templates' = templates \cup {t}
    BY DEF CommitScan
  <2> HIDE DEF t
  <2> QED
    BY <1>1, <2>1, <2>2 DEF Typed
<1>5. /\ jobs' \in [Jobs -> JobRows \cup {NoJob}] /\ work' \in [Jobs -> Work \cup {NoWork}]
      /\ \A k \in Jobs \ {j} : jobs'[k] = jobs[k] /\ work'[k] = work[k]
  BY <1>1, Advances
<1>6. Typed'
  BY <1>1, <1>4, <1>5 DEF Typed
<1>7. Grows /\ TablesAgree'
  BY <1>1, NothingGrows, TablesStay
<1>8. JobAgrees(j)'
  BY <1>1, <1>6, <1>7, Scanned
<1>9. WorkAgrees(j)' /\ CleanupAgrees(j)' /\ OneNumbering'
  BY <1>1, WorkEnds
<1> QED
  BY <1>1, <1>5, <1>6, <1>7, <1>8, <1>9, Others

\* A parse, a batch of chunks, a template or a plan is added as the handler made it.
LEMMA CommitStepSafe ==
  ASSUME DocInv, NEW j \in Jobs, CommitStep(j)
  PROVE  DocInv'
<1> DEFINE w == work[j]
<1>1. /\ Typed /\ TablesAgree /\ JobAgrees(j) /\ WorkAgrees(j) /\ Runs(j) /\ w.file = 0 /\ Finish(j)
      /\ UNCHANGED <<documents, versions, quarantine, originals, cleanup>>
  BY DEF DocInv, CommitStep
<1>2. /\ parses' = parses \cup (IF w.parse = None THEN {} ELSE {w.parse})
      /\ chunks' = IF w.batch = None THEN chunks ELSE Append(chunks, w.batch)
      /\ templates' = templates \cup (IF w.template = None THEN {} ELSE {w.template})
      /\ plans' = plans \cup (IF w.plan = None THEN {} ELSE {w.plan})
  BY DEF CommitStep
<1>3. w \in Work /\ jobs[j] \in JobRows /\ ~Done(j) /\ Step(j) # "SECURITY_SCAN"
  BY <1>1 DEF WorkAgrees, Typed, Runs
<1>4. /\ jobs' \in [Jobs -> JobRows \cup {NoJob}] /\ work' \in [Jobs -> Work \cup {NoWork}]
      /\ \A k \in Jobs \ {j} : jobs'[k] = jobs[k] /\ work'[k] = work[k]
  BY <1>1, Advances
<1>5. w.batch # None => w.batch \in parses /\ w.batch \in ParseRows
  BY <1>1, <1>3 DEF WorkAgrees, Work
<1>6. /\ chunks' \in Seq(ParseRows) /\ Len(chunks) <= Len(chunks')
      /\ \A i \in 1 .. Len(chunks) : chunks'[i] = chunks[i]
      /\ \A i \in DOMAIN chunks' : i \in DOMAIN chunks \/ chunks'[i] \in parses
  <2>1. CASE w.batch = None
    BY <1>1, <1>2, <2>1 DEF Typed
  <2>2. CASE w.batch # None
    BY <1>1, <1>2, <1>5, <2>2 DEF Typed
  <2> QED
    BY <2>1, <2>2
<1>7. Typed'
  <2>1. parses' \subseteq ParseRows /\ templates' \subseteq TemplateRows /\ plans' \subseteq PlanRows
    BY <1>1, <1>2, <1>3 DEF Typed, Work
  <2> QED
    BY <1>1, <1>4, <1>6, <2>1 DEF Typed
<1>8. Grows
  BY <1>1, <1>2, <1>6 DEF Grows, Typed
<1>9. TablesAgree'
  <2>1. VersionIds' = VersionIds /\ \A v : Version(v)' = Version(v)
    BY <1>1 DEF VersionIds, Version
  <2>2. \A p \in parses' : p.version \in VersionIds /\ p.content = Version(p.version).content
    BY <1>1, <1>2 DEF TablesAgree, OnlyScanned, WorkAgrees
  <2>3. \A i \in DOMAIN chunks' : chunks'[i] \in parses'
    BY <1>1, <1>2, <1>6 DEF TablesAgree, OnlyScanned, Typed
  <2>4. OnlyScanned'
    BY <1>1, <2>1, <2>2, <2>3 DEF TablesAgree, OnlyScanned
  <2>5. ASSUME NEW p \in plans'
        PROVE  p.asked[1] = p.document /\ Cites(p.cites, p.asked)'
    <3>1. p.asked[1] = p.document /\ Cites(p.cites, p.asked)
      BY <1>1, <1>2 DEF TablesAgree, WorkAgrees
    <3> QED
      BY <1>1, <1>7, <1>8, <3>1, CitesStay DEF Cites
  <2> QED
    BY <1>1, <2>4, <2>5 DEF TablesAgree, DuplicatesInDocument
<1>10. JobAgrees(j)'
  <2>1. /\ jobs'[j].kind = jobs[j].kind /\ jobs'[j].document = jobs[j].document
        /\ jobs'[j].version = jobs[j].version /\ jobs'[j].step = jobs[j].step + 1
        /\ jobs'[j].scan = jobs[j].scan
        /\ jobs'[j].answer = IF Step(j) = "LLM" THEN w.answer ELSE jobs[j].answer
    BY <1>1, <1>3, Advances
  <2>2. /\ jobs[j].step \in 1 .. 8 /\ jobs[j].step <= Len(PIPELINES[jobs[j].kind])
        /\ ~IsAnalysis(j) => jobs[j].step # 1
    BY <1>3, Positions
  <2>3. jobs[j].kind \in {"upload", "template", "design_reference", "analyze", "plan"} /\ jobs[j] # NoJob
    BY <1>1, <1>3 DEF JobRows, WorkAgrees
  <2>4. jobs[j].step + 1 <= Len(PIPELINES[jobs[j].kind]) + 1
    BY <2>2, <2>3, Lengths
  <2>5. HasAnswer(j)' => Cites(jobs'[j].answer, jobs[j].version)
    <3>1. HasAnswer(j)' => HasAnswer(j) \/ Step(j) = "LLM"
      BY <1>3, <2>1, <2>2, Positions DEF HasAnswer
    <3>2. HasAnswer(j) => Step(j) # "LLM"
      BY <1>3, <2>2, Positions DEF HasAnswer
    <3> QED
      BY <1>1, <2>1, <2>3, <3>1, <3>2 DEF JobAgrees, WorkAgrees
  <2>6. HasAnswer(j)' => Cites(jobs[j].answer, jobs[j].version)'
    BY <1>1, <1>7, <1>8, <2>1, <2>5, CitesStay DEF Cites
  <2>7. IsAnalysis(j) => jobs[j].version \in VersionIds' /\ jobs[j].document = jobs[j].version[1]
    BY <1>1, <1>7, <1>8, <2>3, VersionsStay DEF JobAgrees
  <2>8. /\ IsUpload(j) => jobs[j].document \in Docs /\ documents'[jobs[j].document] # NoDoc
        /\ ~IsAnalysis(j) => jobs[j].scan \in DOMAIN originals'
    BY <1>1, <2>2, <2>3 DEF JobAgrees
  <2>9. jobs'[j].step # 1
    BY <2>1, <2>2
  <2> QED
    BY <2>1, <2>4, <2>6, <2>7, <2>8, <2>9 DEF JobAgrees, IsUpload, IsAnalysis
<1>11. WorkAgrees(j)' /\ CleanupAgrees(j)' /\ OneNumbering'
  BY <1>1, WorkEnds
<1> QED
  BY <1>1, <1>4, <1>7, <1>8, <1>9, <1>10, <1>11, Others

-------------------------------------------------------------------------------
(* The theorems *)

\* DocInv holds of empty tables.
LEMMA DocInitSafe == DocInit => DocInv
<1> SUFFICES ASSUME DocInit
             PROVE  DocInv
  OBVIOUS
<1>1. Typed
  BY DEF DocInit, Typed
<1>2. TablesAgree
  BY DEF DocInit, TablesAgree, OnlyScanned, DuplicatesInDocument, VersionIds
<1>3. \A j \in Jobs : JobAgrees(j) /\ WorkAgrees(j) /\ CleanupAgrees(j)
  BY DEF DocInit, JobAgrees, WorkAgrees, CleanupAgrees, Runs
<1>4. OneNumbering
  BY DEF DocInit, OneNumbering, Runs
<1> QED
  BY <1>1, <1>2, <1>3, <1>4 DEF DocInv

\* Every step of requests and workers keeps DocInv.
LEMMA DocNextSafe == DocInv /\ [DocNext]_docVars => DocInv'
<1> SUFFICES ASSUME DocInv, [DocNext]_docVars
             PROVE  DocInv'
  OBVIOUS
<1>1. ASSUME NEW j \in Jobs, Upload(j)
      PROVE  DocInv'
  BY <1>1, UploadSafe
<1>2. ASSUME NEW j \in Jobs, UploadVersion(j)
      PROVE  DocInv'
  BY <1>2, UploadVersionSafe
<1>3. ASSUME NEW j \in Jobs, UploadTemplate(j)
      PROVE  DocInv'
  BY <1>3, UploadTemplateSafe
<1>4. ASSUME NEW j \in Jobs, Analyze(j)
      PROVE  DocInv'
  BY <1>4, AnalyzeSafe
<1>5. ASSUME NEW j \in Jobs, JobStep(j)
      PROVE  DocInv'
  BY <1>5, SecurityScanSafe, NumberVersionSafe, DoStepSafe, StepFailsSafe, CommitVersionSafe,
     CommitScanSafe, CommitStepSafe, CleanupSafe DEF JobStep
<1>6. ASSUME NEW d \in Docs, DeleteDocument(d)
      PROVE  DocInv'
  BY <1>6, DeleteDocumentSafe
<1>7. ASSUME NEW p \in plans, EditPlan(p)
      PROVE  DocInv'
  BY <1>7, EditPlanSafe
<1>8. CASE UNCHANGED docVars
  <2>1. UNCHANGED <<documents, versions, parses, chunks, templates, plans, quarantine, originals,
                    jobs, work, cleanup>>
    BY <1>8 DEF docVars, stored
  <2>2. Typed /\ Typed' /\ TablesAgree /\ OneNumbering
    BY <2>1 DEF DocInv, Typed
  <2>3. Grows /\ TablesAgree'
    BY <2>1, <2>2, NothingGrows, TablesStay
  <2>4. \A j \in Jobs : JobAgrees(j)' /\ WorkAgrees(j)' /\ CleanupAgrees(j)'
    BY <2>1, <2>2, <2>3, JobStays, WorkStays, CleanupStays DEF DocInv
  <2>5. OneNumbering'
    BY <2>1, <2>2, NumberingStays
  <2> QED
    BY <2>2, <2>3, <2>4, <2>5 DEF DocInv
<1> QED
  BY <1>1, <1>2, <1>3, <1>4, <1>5, <1>6, <1>7, <1>8 DEF DocNext

\* Everything agrees in every reachable state: the steps in progress, the jobs and the
\* tables (upload.py, the document handlers and the analysis steps of pipeline.py).
THEOREM DocumentsAgree == DocSpec => []DocInv
BY DocInitSafe, DocNextSafe, PTL DEF DocSpec

\* The rows are of their types and refer to rows that are there.
THEOREM DocumentsTyped == DocSpec => []DocTypeOK
<1>1. DocInv => DocTypeOK
  BY DEF DocInv, DocTypeOK, Referenced, TablesAgree, JobAgrees
<1> QED
  BY <1>1, DocumentsAgree, PTL

\* Only what has passed security_scan is stored, parsed and chunked.
THEOREM DocumentsScanned == DocSpec => []OnlyScanned
<1>1. DocInv => OnlyScanned
  BY DEF DocInv, TablesAgree
<1> QED
  BY <1>1, DocumentsAgree, PTL

\* An upload that has not committed can be scanned again: promote copies, and the
\* quarantined file is deleted after the commit only.
THEOREM DocumentsKeepUploads == DocSpec => []UploadsKept
<1>1. DocInv => UploadsKept
  <2> SUFFICES ASSUME DocInv, NEW j \in Jobs, jobs[j] # NoJob, ~Done(j), Step(j) = "SECURITY_SCAN"
               PROVE  quarantine[j] # None
    BY DEF UploadsKept
  <2>1. jobs[j] \in JobRows /\ JobAgrees(j)
    BY DEF DocInv, Typed
  <2>2. ~IsAnalysis(j) /\ jobs[j].step = 1
    BY <2>1, Positions
  <2> QED
    BY <2>1, <2>2 DEF JobAgrees
<1> QED
  BY <1>1, DocumentsAgree, PTL

\* The lock on the document that security_scan takes makes its version numbers
\* consecutive, and the unique constraint is never met.
THEOREM DocumentsInOrder == DocSpec => []VersionsInOrder
<1>1. DocInv => VersionsInOrder
  BY DEF DocInv, VersionsInOrder, TablesAgree, WorkAgrees
<1> QED
  BY <1>1, DocumentsAgree, PTL

\* The flag duplicate of a version misses no earlier version of its document.
THEOREM DocumentsShowDuplicates == DocSpec => []DuplicatesInDocument
<1>1. DocInv => DuplicatesInDocument
  BY DEF DocInv, TablesAgree
<1> QED
  BY <1>1, DocumentsAgree, PTL

\* A plan cites text of the version that was current when it was asked for.
THEOREM DocumentsCited == DocSpec => []PlansCiteWhatWasAsked
<1>1. DocInv => PlansCiteWhatWasAsked
  BY DEF DocInv, PlansCiteWhatWasAsked, TablesAgree, OnlyScanned, Cites
<1> QED
  BY <1>1, DocumentsAgree, PTL
===============================================================================
