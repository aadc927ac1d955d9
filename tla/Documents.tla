------------------------------ MODULE Documents ------------------------------
(***************************************************************************)
(* From an uploaded file to a slide plan: uploads are quarantined, scanned *)
(* and promoted to numbered versions of a document, a version is parsed    *)
(* and chunked, and a plan cites its chunks (upload.py, storage.py, the    *)
(* document handlers of work_api.py and design_api.py, and the steps       *)
(* SECURITY_SCAN to PLAN_VALIDATE and DESIGN_LEARN of pipeline.py).        *)
(*                                                                         *)
(* Files are written outside of transactions: a step that fails leaves     *)
(* its copies behind, and a worker may die between a commit and the        *)
(* deletion that follows it.  The queue is abstracted (JobQueue models     *)
(* it): a waiting job may be taken at any time, a step that fails leaves   *)
(* its job waiting.  The documents are those of one project.               *)
(***************************************************************************)
EXTENDS Pipelines, Naturals, Functions

CONSTANTS
  Docs,        \* documents
  Contents,    \* what a file may hold; equal contents have one sha256
  Clean,       \* the contents that pass validation and the scanner
  Jobs,        \* the jobs that users ask for, each at most once
  Offers,      \* the requests that users make
  MaxFiles,    \* bound: files in the namespace originals
  None, NoDoc, NoJob, NoWork   \* null values

Requests == {"upload", "version", "template", "design_reference", "analyze", "plan", "delete", "edit"}

ASSUME OffersAssumption == Offers \subseteq Requests
ASSUME CleanAssumption == Clean \subseteq Contents
ASSUME FilesAssumption == MaxFiles \in Nat

\* The rows of the tables, and what an open transaction knows.
DocumentRows == [current : Nat, deleted : BOOLEAN]
VersionRows == [content : Contents, file : Nat, duplicate : BOOLEAN]
ParseRows == [version : Docs \X Nat, content : Contents]
TemplateRows == [file : Nat, content : Contents, learned : BOOLEAN]
AnswerRows == [chunk : Nat, version : Docs \X Nat]
PlanRows == [job : Jobs, document : Docs, asked : Docs \X Nat, cites : AnswerRows]

JobRows ==
  [kind : {"upload", "template", "design_reference", "analyze", "plan"},
   document : Docs \cup {None}, version : (Docs \cup {None}) \X Nat, step : Nat \ {0},
   scan : Nat, answer : AnswerRows \cup {None}]

Work ==
  [file : Nat, number : Nat, duplicate : BOOLEAN, parse : ParseRows \cup {None},
   batch : ParseRows \cup {None}, template : TemplateRows \cup {None},
   answer : AnswerRows \cup {None}, plan : PlanRows \cup {None}]

ASSUME NullAssumption ==
  /\ None \notin Contents
  /\ NoDoc \notin DocumentRows
  /\ NoJob \notin JobRows
  /\ NoWork \notin Work

VARIABLES
  documents,   \* the rows of documents
  versions,    \* document_versions of every document, by number
  quarantine,  \* the file under the quarantine_key of every job
  originals,   \* the files of the namespace originals; the key is the position
  parses,      \* the rows of parse_results
  chunks,      \* the batches of chunks in order of commit
  templates,   \* the rows of templates that were uploaded
  plans,       \* the rows of slide_plans with what they cite
  jobs,        \* generation_jobs with the outputs of their steps
  work,        \* the open transaction of a running step
  cleanup      \* the jobs whose quarantined file a worker is about to delete

stored == <<documents, versions, parses, chunks, templates, plans>>
docVars == <<stored, quarantine, originals, jobs, work, cleanup>>

DocInit ==
  /\ documents = [d \in Docs |-> NoDoc]
  /\ versions = [d \in Docs |-> <<>>]
  /\ quarantine = [j \in Jobs |-> None]
  /\ originals = <<>>
  /\ parses = {}
  /\ chunks = <<>>
  /\ templates = {}
  /\ plans = {}
  /\ jobs = [j \in Jobs |-> NoJob]
  /\ work = [j \in Jobs |-> NoWork]
  /\ cleanup = {}

-------------------------------------------------------------------------------
(* Requests *)

Create(j, kind, d, n) ==
  /\ jobs[j] = NoJob
  /\ jobs' = [jobs EXCEPT ![j] =
       [kind |-> kind, document |-> d, version |-> <<d, n>>, step |-> 1,
        scan |-> 0, answer |-> None]]
  /\ UNCHANGED <<versions, originals, parses, chunks, templates, plans, work, cleanup>>

\* quarantine_upload writes the file; the job row names it.
Quarantined(j) == \E c \in Contents : quarantine' = [quarantine EXCEPT ![j] = c]

Upload(j) ==
  /\ "upload" \in Offers
  /\ \E d \in Docs :
       /\ documents[d] = NoDoc
       /\ documents' = [documents EXCEPT ![d] = [current |-> 0, deleted |-> FALSE]]
       /\ Create(j, "upload", d, 0)
  /\ Quarantined(j)

\* upload_version does not ask whether the document is deleted.
UploadVersion(j) ==
  /\ "version" \in Offers
  /\ \E d \in Docs : documents[d] # NoDoc /\ Create(j, "upload", d, 0)
  /\ Quarantined(j)
  /\ UNCHANGED documents

\* template_upload and reference_upload
UploadTemplate(j) ==
  /\ \E kind \in {"template", "design_reference"} \cap Offers : Create(j, kind, None, 0)
  /\ Quarantined(j)
  /\ UNCHANGED documents

\* A document that is not deleted and has a version, which is then CLEAN.
BugMayAnalyze(d) == documents[d] # NoDoc /\ ~documents[d].deleted

MayAnalyze(d) == documents[d] # NoDoc /\ ~documents[d].deleted /\ documents[d].current # 0

\* analyze_start reads the document and inserts a job for its current version: as
\* nobody else touches the new row, the two are one step.
Analyze(j) ==
  /\ \E d \in Docs, kind \in {"analyze", "plan"} \cap Offers :
       /\ MayAnalyze(d)
       /\ Create(j, kind, d, documents[d].current)
  /\ UNCHANGED <<documents, quarantine>>

DeleteDocument(d) ==
  /\ "delete" \in Offers
  /\ documents[d] # NoDoc
  /\ documents' = [documents EXCEPT ![d].deleted = TRUE]
  /\ UNCHANGED <<versions, quarantine, originals, parses, chunks, templates, plans,
                 jobs, work, cleanup>>

-------------------------------------------------------------------------------
(* Running steps *)

Done(j) == jobs[j].step > Len(PIPELINES[jobs[j].kind])
Step(j) == PIPELINES[jobs[j].kind][jobs[j].step]

Waits(j) == jobs[j] # NoJob /\ ~Done(j) /\ work[j] = NoWork
Runs(j) == work[j] # NoWork

Nothing ==
  [file |-> 0, number |-> 0, duplicate |-> FALSE, parse |-> None, batch |-> None,
   template |-> None, answer |-> None, plan |-> None]

\* security_scan: validate_file and the scanner both fail closed.
BugScanPasses(c) == c \in Contents

ScanPasses(c) == c \in Clean

\* promote copies: the quarantined file stays until the step has committed.
BugLeftBehind(j) == [quarantine EXCEPT ![j] = None]

LeftBehind(j) == quarantine

SecurityScan(j) ==
  /\ Waits(j)
  /\ Step(j) = "SECURITY_SCAN"
  /\ ScanPasses(quarantine[j])
  /\ Len(originals) < MaxFiles
  /\ originals' = Append(originals, quarantine[j])
  /\ quarantine' = LeftBehind(j)
  /\ work' = [work EXCEPT ![j] = [Nothing EXCEPT !.file = Len(originals) + 1]]
  /\ UNCHANGED <<stored, jobs, cleanup>>

\* db.refresh(doc, with_for_update=True) waits for whoever holds the document.
BugUnlocked(d) == TRUE

Unlocked(d) == \A k \in Jobs : Runs(k) /\ work[k].number > 0 => jobs[k].document # d

\* Some version in the project has the same sha256.
BugIsDuplicate(d, c) == \E e \in Docs \ {d} : \E v \in Range(versions[e]) : v.content = c

IsDuplicate(d, c) == \E e \in Docs : \E v \in Range(versions[e]) : v.content = c

NumberVersion(j) ==
  /\ Runs(j)
  /\ Step(j) = "SECURITY_SCAN"
  /\ jobs[j].kind = "upload"
  /\ work[j].number = 0
  /\ Unlocked(jobs[j].document)
  /\ work' = [work EXCEPT
       ![j].number = Len(versions[jobs[j].document]) + 1,
       ![j].duplicate = IsDuplicate(jobs[j].document, originals[work[j].file])]
  /\ UNCHANGED <<stored, quarantine, originals, jobs, cleanup>>

Version(v) == versions[v[1]][v[2]]
IsParsed(v) == \E p \in parses : p.version = v
ParseOf(v) == CHOOSE p \in parses : p.version = v
ChunksOf(v) == {i \in DOMAIN chunks : chunks[i].version = v}

\* PARSE reads the stored file of the version the job was made for, unless that
\* version is parsed.
Parsed(v) ==
  IF IsParsed(v) THEN Nothing
  ELSE [Nothing EXCEPT !.parse = [version |-> v, content |-> originals[Version(v).file]]]

Chunked(v) ==
  IF ChunksOf(v) # {} THEN Nothing
  ELSE [Nothing EXCEPT !.batch = [version |-> v, content |-> ParseOf(v).content]]

\* llm_payload: the chunks of the version the job was made for.
BugPayload(v) == ChunksOf(<<v[1], documents[v[1]].current>>)

Payload(v) == ChunksOf(v)

\* validate_evidence: a reference names a chunk that is there, of a version the plan
\* is about.
Evident(answer, given) ==
  /\ answer.chunk \in given
  /\ chunks[answer.chunk].version = answer.version

\* What the model may answer: a plan citing any chunk, or one that is not there, as
\* belonging to some version.
Answers ==
  [chunk : {0} \cup DOMAIN chunks, version : {<<d, n>> : d \in Docs, n \in 1 .. MaxFiles}]

\* DESIGN_LEARN reuses what was learned from the same file.
IsLearned(c) == \E t \in templates : t.learned /\ t.content = c

Learned(j) ==
  IF IsLearned(originals[jobs[j].scan]) THEN Nothing
  ELSE [Nothing EXCEPT !.template =
          [file |-> jobs[j].scan, content |-> originals[jobs[j].scan], learned |-> TRUE]]

\* The handlers of the steps after the scan.
Handled(j) ==
  LET v == jobs[j].version IN
  CASE Step(j) = "PARSE" -> {Parsed(v)}
    [] Step(j) = "CHUNK" -> IF IsParsed(v) THEN {Chunked(v)} ELSE {}
    [] Step(j) \in {"LLM_SUMMARY", "LLM_KEY_MESSAGES", "LLM_OUTLINE", "LLM_VISUAL"} ->
         IF IsParsed(v) THEN {Nothing} ELSE {}
    [] Step(j) = "LLM" ->
         IF IsParsed(v)
         THEN {[Nothing EXCEPT !.answer = a] : a \in {b \in Answers : Evident(b, Payload(v))}}
         ELSE {}
    [] Step(j) = "PLAN_VALIDATE" ->
         IF Evident(jobs[j].answer, ChunksOf(jobs[j].answer.version))
         THEN {[Nothing EXCEPT !.plan =
                  [job |-> j, document |-> jobs[j].document, asked |-> v, cites |-> jobs[j].answer]]}
         ELSE {}
    [] Step(j) = "DESIGN_LEARN" -> {Learned(j)}
    [] OTHER -> {}

DoStep(j) ==
  /\ Waits(j)
  /\ \E w \in Handled(j) : work' = [work EXCEPT ![j] = w]
  /\ UNCHANGED <<stored, quarantine, originals, jobs, cleanup>>

\* An exception, a cancellation or the loss of the worker: the transaction is gone,
\* the files it wrote stay.
StepFails(j) ==
  /\ Runs(j)
  /\ work' = [work EXCEPT ![j] = NoWork]
  /\ UNCHANGED <<stored, quarantine, originals, jobs, cleanup>>

-------------------------------------------------------------------------------
(* Commits *)

After(j) ==
  LET old == jobs[j] IN
  [jobs EXCEPT ![j] = [old EXCEPT
     !.step = old.step + 1,
     !.scan = IF Step(j) = "SECURITY_SCAN" THEN work[j].file ELSE old.scan,
     !.answer = IF Step(j) = "LLM" THEN work[j].answer ELSE old.answer]]

Finish(j) == jobs' = After(j) /\ work' = [work EXCEPT ![j] = NoWork]

\* The number is still free (document_id, version is unique).
NumberFree(j) == work[j].number = Len(versions[jobs[j].document]) + 1

CommitVersion(j) ==
  /\ Runs(j)
  /\ work[j].number > 0
  /\ NumberFree(j)
  /\ LET d == jobs[j].document
         w == work[j]
     IN /\ versions' = [versions EXCEPT ![d] = Append(@,
             [content |-> originals[w.file], file |-> w.file, duplicate |-> w.duplicate])]
        /\ documents' = [documents EXCEPT ![d].current = w.number]
  /\ cleanup' = cleanup \cup {j}
  /\ Finish(j)
  /\ UNCHANGED <<quarantine, originals, parses, chunks, templates, plans>>

\* A template is registered by its scan, a reference only scanned.
CommitScan(j) ==
  /\ Runs(j)
  /\ work[j].file > 0
  /\ jobs[j].kind # "upload"
  /\ templates' =
       IF jobs[j].kind = "template"
       THEN templates \cup {[file |-> work[j].file, content |-> originals[work[j].file],
                             learned |-> FALSE]}
       ELSE templates
  /\ cleanup' = cleanup \cup {j}
  /\ Finish(j)
  /\ UNCHANGED <<documents, versions, quarantine, originals, parses, chunks, plans>>

\* parse_results has one row per version.
CommitStep(j) ==
  /\ Runs(j)
  /\ work[j].file = 0
  /\ LET w == work[j]
         Added(x) == IF x = None THEN {} ELSE {x}
     IN /\ w.parse # None => ~IsParsed(w.parse.version)
        /\ parses' = parses \cup Added(w.parse)
        /\ chunks' = IF w.batch = None THEN chunks ELSE Append(chunks, w.batch)
        /\ templates' = templates \cup Added(w.template)
        /\ plans' = plans \cup Added(w.plan)
  /\ Finish(j)
  /\ UNCHANGED <<documents, versions, quarantine, originals, cleanup>>

\* After the commit the worker deletes the quarantined file, unless it dies first.
Cleanup(j) ==
  /\ j \in cleanup
  /\ quarantine' \in {quarantine, [quarantine EXCEPT ![j] = None]}
  /\ cleanup' = cleanup \ {j}
  /\ UNCHANGED <<stored, originals, jobs, work>>

\* update_plan: other references, of the same versions.
EditPlan(p) ==
  /\ "edit" \in Offers
  /\ \E a \in Answers :
       /\ a.version = p.cites.version
       /\ Evident(a, ChunksOf(a.version))
       /\ plans' = (plans \ {p}) \cup {[p EXCEPT !.cites = a]}
  /\ UNCHANGED <<documents, versions, quarantine, originals, parses, chunks, templates,
                 jobs, work, cleanup>>

JobStep(j) ==
  \/ SecurityScan(j) \/ NumberVersion(j) \/ DoStep(j) \/ StepFails(j)
  \/ CommitVersion(j) \/ CommitScan(j) \/ CommitStep(j) \/ Cleanup(j)

DocNext ==
  \/ \E j \in Jobs :
       Upload(j) \/ UploadVersion(j) \/ UploadTemplate(j) \/ Analyze(j) \/ JobStep(j)
  \/ \E d \in Docs : DeleteDocument(d)
  \/ \E p \in plans : EditPlan(p)

DocSpec == DocInit /\ [][DocNext]_docVars

-------------------------------------------------------------------------------
(* Properties *)

VersionIds == UNION {{<<d, n>> : n \in DOMAIN versions[d]} : d \in Docs}

Typed ==
  /\ documents \in [Docs -> DocumentRows \cup {NoDoc}]
  /\ versions \in [Docs -> Seq(VersionRows)]
  /\ quarantine \in [Jobs -> Contents \cup {None}]
  /\ originals \in Seq(Contents)
  /\ parses \subseteq ParseRows
  /\ chunks \in Seq(ParseRows)
  /\ templates \subseteq TemplateRows
  /\ plans \subseteq PlanRows
  /\ jobs \in [Jobs -> JobRows \cup {NoJob}]
  /\ work \in [Jobs -> Work \cup {NoWork}]
  /\ cleanup \subseteq Jobs

IsUpload(j) == jobs[j].kind = "upload"
IsAnalysis(j) == jobs[j].kind \in {"analyze", "plan"}

\* A job belongs to a document, an analysis to one of its versions, and a document
\* that is not there has none.
Referenced ==
  /\ \A j \in Jobs : jobs[j] # NoJob =>
       /\ jobs[j].step <= Len(PIPELINES[jobs[j].kind]) + 1
       /\ IsUpload(j) => jobs[j].document \in Docs /\ documents[jobs[j].document] # NoDoc
       /\ IsAnalysis(j) => jobs[j].version \in VersionIds /\ jobs[j].document = jobs[j].version[1]
  /\ \A d \in Docs : documents[d] = NoDoc => versions[d] = <<>>

\* The rows hold values of their types and refer to rows that are there.
DocTypeOK == Typed /\ Referenced

\* Nothing that has not passed the scan is stored, parsed or chunked (FR-DOC-004), and
\* what is parsed and chunked of a version is its stored file, once.
OnlyScanned ==
  /\ \A i \in DOMAIN originals : originals[i] \in Clean
  /\ \A v \in VersionIds :
       Version(v).file \in DOMAIN originals /\ Version(v).content = originals[Version(v).file]
  /\ \A p \in parses : p.version \in VersionIds /\ p.content = Version(p.version).content
  /\ \A i \in DOMAIN chunks : chunks[i] \in parses

\* An upload whose scan has not committed still has its quarantined file, so that
\* it can be retried however often a worker has died in it.
UploadsKept ==
  \A j \in Jobs : jobs[j] # NoJob /\ ~Done(j) =>
    (Step(j) = "SECURITY_SCAN" => quarantine[j] # None)

\* A running scan never meets the number that it is about to insert, and the current
\* version of a document is the last one.
VersionsInOrder ==
  /\ \A j \in Jobs : Runs(j) /\ work[j].number > 0 => NumberFree(j)
  /\ \A d \in Docs : documents[d] # NoDoc => documents[d].current = Len(versions[d])

\* A version with the bytes of an earlier version of its document is reported as a
\* duplicate.
DuplicatesInDocument ==
  \A d \in Docs : \A n \in DOMAIN versions[d] : \A m \in 1 .. n - 1 :
    versions[d][m].content = versions[d][n].content => versions[d][n].duplicate

\* A plan cites, through edits and whatever is uploaded meanwhile, text of the version
\* that was current when it was asked for.
PlansCiteWhatWasAsked ==
  \A p \in plans :
    /\ p.asked[1] = p.document
    /\ p.cites.chunk \in DOMAIN chunks
    /\ chunks[p.cites.chunk].version = p.asked
    /\ chunks[p.cites.chunk].content = Version(p.asked).content

-------------------------------------------------------------------------------
(* The inductive invariant *)

\* A citation of the chunks of a version.
Cites(a, v) ==
  /\ a \in AnswerRows
  /\ a.chunk \in DOMAIN chunks
  /\ a.version = v
  /\ chunks[a.chunk].version = v

\* The job has passed its step LLM.
HasAnswer(j) ==
  \/ jobs[j].kind = "analyze" /\ jobs[j].step > 6
  \/ jobs[j].kind = "plan" /\ jobs[j].step > 4

\* The tables agree with each other.
TablesAgree ==
  /\ \A d \in Docs :
       IF documents[d] = NoDoc THEN versions[d] = <<>> ELSE documents[d].current = Len(versions[d])
  /\ \A p \in plans : p.asked[1] = p.document /\ Cites(p.cites, p.asked)
  /\ OnlyScanned
  /\ DuplicatesInDocument

\* A job refers to rows that are there and has what its next step needs.
JobAgrees(j) ==
  jobs[j] # NoJob =>
    /\ jobs[j].step <= Len(PIPELINES[jobs[j].kind]) + 1
    /\ IsUpload(j) => jobs[j].document \in Docs /\ documents[jobs[j].document] # NoDoc
    /\ IsAnalysis(j) => jobs[j].version \in VersionIds /\ jobs[j].document = jobs[j].version[1]
    /\ HasAnswer(j) => Cites(jobs[j].answer, jobs[j].version)
    /\ ~IsAnalysis(j) =>
         IF jobs[j].step = 1 THEN quarantine[j] # None ELSE jobs[j].scan \in DOMAIN originals

\* A running step belongs to a job that stands at it; only a scan has copied a file
\* or numbers a version; what it is about to store agrees with what is stored.
WorkAgrees(j) ==
  Runs(j) =>
    /\ jobs[j] # NoJob /\ ~Done(j)
    /\ work[j].file > 0 <=> Step(j) = "SECURITY_SCAN"
    /\ work[j].file \in {0} \cup DOMAIN originals
    /\ work[j].number > 0 => IsUpload(j) /\ work[j].file > 0 /\ NumberFree(j)
    /\ work[j].number > 0 /\ ~work[j].duplicate =>
         \A n \in DOMAIN versions[jobs[j].document] :
           versions[jobs[j].document][n].content # originals[work[j].file]
    /\ work[j].parse # None =>
         /\ work[j].parse.version \in VersionIds
         /\ work[j].parse.content = Version(work[j].parse.version).content
    /\ work[j].batch # None => work[j].batch \in parses
    /\ Step(j) = "LLM" => Cites(work[j].answer, jobs[j].version)
    /\ work[j].plan # None =>
         work[j].plan.asked[1] = work[j].plan.document /\ Cites(work[j].plan.cites, work[j].plan.asked)

\* A quarantined file is deleted only when its scan has committed.
CleanupAgrees(j) == j \in cleanup => jobs[j] # NoJob /\ jobs[j].step > 1

\* Two scans never number versions of one document at a time.
OneNumbering ==
  \A j, k \in Jobs : Runs(j) /\ Runs(k) /\ work[j].number > 0 /\ work[k].number > 0 =>
    j = k \/ jobs[j].document # jobs[k].document

\* Everything agrees: what the steps in progress know, what the jobs refer to and what
\* the tables hold.
DocInv ==
  /\ Typed
  /\ TablesAgree
  /\ \A j \in Jobs : JobAgrees(j) /\ WorkAgrees(j) /\ CleanupAgrees(j)
  /\ OneNumbering
==============================================================================
