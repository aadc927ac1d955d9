--------------------------------- MODULE Feed ---------------------------------
(***************************************************************************)
(* How a job is asked for and followed: create_job with its idempotency    *)
(* keys (jobs.py) and the WebSocket that shows the job (work_api.py), both *)
(* for users whose rights change meanwhile (Accounts).                     *)
(***************************************************************************)
EXTENDS Accounts, Pipelines

CONSTANTS
  MaxJobs,     \* bound: jobs ever created
  Keys,        \* idempotency keys
  Prints,      \* fingerprints of kind and payload
  Askers,      \* bound: requests that create a job
  Writers,     \* sessions that move a job: workers, cancellations, retries
  Sockets,     \* bound: WebSocket connections
  Overlaps,    \* a writer may commit over a move it has not seen
  MaxSeq       \* bound: commits to a job

Jobs == 1 .. MaxJobs   \* numbered as they are created

ASSUME FeedAssumption ==
  Overlaps \in BOOLEAN /\ MaxJobs \in Nat /\ MaxSeq \in Nat \ {0}

VARIABLES
  jobs,        \* the rows of generation_jobs
  asked,       \* what each creating request is doing
  answers,     \* history: what such requests have been answered
  writing,     \* the row that each writer has loaded
  socket       \* each connection

feedTables == <<jobs, answers>>
feedVars == <<jobs, asked, answers, writing, socket>>
serviceVars == <<accountVars, feedVars>>

JobRow ==
  [user : Users, project : Projects, key : Keys, print : Prints,
   state : JobStates, seq : 1 .. MaxSeq]

ASSUME JobRowAssumption == None \notin JobRow

Demand == [user : Users, project : Projects, key : Keys, print : Prints]
Event == [state : JobStates, seq : 0 .. MaxSeq]
NoEvent == [state |-> "QUEUED", seq |-> 0]   \* last_seq = -1 in the code

May(u, p) == users[u].active /\ Permitted(u, users[u].role, p, FALSE)
SameKey(a, b) == a.user = b.user /\ a.project = b.project /\ a.key = b.key
Stored(d) == {j \in Jobs : jobs[j] # None /\ SameKey(jobs[j], d)}

-------------------------------------------------------------------------------
(* create_job *)

NotAsked == [pc |-> "idle"]
Becomes(a, r) == asked' = [asked EXCEPT ![a] = r] /\ UNCHANGED <<writing, socket>>
Answer(a, job) ==
  /\ answers' = answers \cup {[demand |-> asked[a].demand, job |-> job]}
  /\ Becomes(a, NotAsked)

AskJob(a, d) ==
  /\ asked[a] = NotAsked /\ "job" \in scene
  /\ May(d.user, d.project)
  /\ Becomes(a, [pc |-> "lookup", demand |-> d])
  /\ UNCHANGED feedTables

\* The SELECT finds a job: it is the answer if it was asked for in the same words.
BugFindJob(a) ==
  /\ asked[a].pc = "lookup"
  /\ \E j \in Stored(asked[a].demand) : Answer(a, j)
  /\ UNCHANGED jobs

FindJob(a) ==
  /\ asked[a].pc = "lookup"
  /\ \E j \in Stored(asked[a].demand) :
       Answer(a, IF jobs[j].print = asked[a].demand.print THEN j ELSE None)
  /\ UNCHANGED jobs

FindNone(a) ==
  /\ asked[a].pc = "lookup" /\ Stored(asked[a].demand) = {}
  /\ Becomes(a, [asked[a] EXCEPT !.pc = "insert"])
  /\ UNCHANGED feedTables

\* The flush: the unique constraint lets one transaction in, the others wait for
\* it; if it commits they fail, roll back and start again.
Insert(a) ==
  /\ asked[a].pc = "insert"
  /\ ~\E b \in Askers : asked[b].pc = "inserted"
                          /\ SameKey(asked[b].demand, asked[a].demand)
  /\ Becomes(a, [asked[a] EXCEPT
                   !.pc = IF Stored(asked[a].demand) = {} THEN "inserted" ELSE "lookup"])
  /\ UNCHANGED feedTables

NewRow(d) ==
  [user |-> d.user, project |-> d.project, key |-> d.key, print |-> d.print,
   state |-> "QUEUED", seq |-> 1]

CommitJob(a, j) ==
  LET d == asked[a].demand IN
  /\ asked[a].pc = "inserted"
  /\ jobs[j] = None /\ \A i \in Jobs : i < j => jobs[i] # None
  /\ jobs' = [jobs EXCEPT ![j] = NewRow(d)]
  /\ Answer(a, j)

\* The server dies, or the answer is lost with the connection.
LoseAsker(a) == asked[a] # NotAsked /\ Becomes(a, NotAsked) /\ UNCHANGED feedTables

-------------------------------------------------------------------------------
(* The job moves.  JobQueue says when; here any move of TRANSITIONS may come. *)

Became(row, state, seq) ==
  [user |-> row.user, project |-> row.project, key |-> row.key, print |-> row.print,
   state |-> state, seq |-> seq]

\* claim: one UPDATE with seq = seq + 1.
Claim(j) ==
  /\ "move" \in scene
  /\ jobs[j] # None /\ jobs[j].state \in Waiting /\ jobs[j].seq < MaxSeq
  /\ jobs' = [jobs EXCEPT ![j] = Became(jobs[j], "RUNNING", jobs[j].seq + 1)]
  /\ UNCHANGED <<asked, answers, writing, socket>>

Load(w, j) ==
  /\ "move" \in scene /\ writing[w] = None /\ jobs[j] # None
  /\ writing' = [writing EXCEPT ![w] = [job |-> j, state |-> jobs[j].state, seq |-> jobs[j].seq]]
  /\ UNCHANGED <<jobs, asked, answers, socket>>

BugMoved(row, was, state) == [row EXCEPT !.state = state]

\* transition, and the seq += 1 of a cancellation that leaves the state alone:
\* both columns are computed from the loaded row.
Moved(row, was, state) ==
  Became(row, IF state # was.state THEN state ELSE row.state, was.seq + 1)

Save(w, state) ==
  LET was == writing[w] IN
  /\ was # None /\ MayMove(was.state, state) /\ was.state \notin Finished
  /\ was.seq < MaxSeq
  /\ Overlaps \/ (jobs[was.job].seq = was.seq)
  /\ jobs' = [jobs EXCEPT ![was.job] = Moved(jobs[was.job], was, state)]
  /\ writing' = [writing EXCEPT ![w] = None]
  /\ UNCHANGED <<asked, answers, socket>>

Forget(w) ==
  /\ writing[w] # None /\ writing' = [writing EXCEPT ![w] = None]
  /\ UNCHANGED <<jobs, asked, answers, socket>>

-------------------------------------------------------------------------------
(* job_socket *)

Closed == [pc |-> "closed"]
Connects(s, r) ==
  /\ socket' = [socket EXCEPT ![s] = r]
  /\ UNCHANGED <<jobs, asked, answers, writing>>

Open(s, u, j) ==
  /\ socket[s] = Closed /\ "socket" \in scene /\ jobs[j] # None
  /\ Connects(s, [pc |-> "open", user |-> u, job |-> j, sent |-> NoEvent])

Following(s) == socket[s].pc = "open"

MayFollow(s) == Following(s) /\ May(socket[s].user, jobs[socket[s].job].project)

\* One turn of the loop: the token and the rights are looked up again each time.
BugPoll(s) ==
  LET j == jobs[socket[s].job] IN
  /\ Following(s)
  /\ j.seq # socket[s].sent.seq
  /\ Connects(s, [socket[s] EXCEPT !.sent = [state |-> j.state, seq |-> j.seq]])

Poll(s) ==
  LET j == jobs[socket[s].job] IN
  /\ Following(s)
  /\ \/ MayFollow(s) /\ j.seq # socket[s].sent.seq
        /\ Connects(s, [socket[s] EXCEPT !.sent = [state |-> j.state, seq |-> j.seq]])
     \/ ~MayFollow(s) /\ Connects(s, Closed)

\* The browser leaves, or the access token expires.
Hangup(s) == Following(s) /\ Connects(s, Closed)

-------------------------------------------------------------------------------
\* Behaviours that show sockets may begin with a job.
FeedInit ==
  /\ \/ jobs = [j \in Jobs |-> None]
     \/ "socket" \in scene /\ \E d \in Demand :
          May(d.user, d.project) /\ jobs = [j \in Jobs |-> IF j = 1 THEN NewRow(d) ELSE None]
  /\ asked = [a \in Askers |-> NotAsked]
  /\ answers = {}
  /\ writing = [w \in Writers |-> None]
  /\ socket = [s \in Sockets |-> Closed]

Serve(a) == FindJob(a) \/ FindNone(a) \/ Insert(a) \/ \E j \in Jobs : CommitJob(a, j)

FeedNext ==
  \/ \E a \in Askers : (\E d \in Demand : AskJob(a, d)) \/ Serve(a) \/ LoseAsker(a)
  \/ \E j \in Jobs : Claim(j)
  \/ \E w \in Writers :
       \/ \E j \in Jobs : Load(w, j)
       \/ \E state \in JobStates : Save(w, state)
       \/ Forget(w)
  \/ \E s \in Sockets :
       (\E u \in Users, j \in Jobs : Open(s, u, j)) \/ Poll(s) \/ Hangup(s)

ServiceInit == AccountsInit /\ FeedInit
ServiceNext ==
  \/ AccountsNext /\ UNCHANGED feedVars
  \/ FeedNext /\ UNCHANGED accountVars

ServiceSpec == ServiceInit /\ [][ServiceNext]_serviceVars

\* The loop of a socket polls again and again.
LiveService ==
  ServiceSpec /\ \A s \in Sockets : WF_serviceVars(Poll(s) /\ UNCHANGED accountVars)
-------------------------------------------------------------------------------
(* Properties *)

FeedTypeOK ==
  /\ jobs \in [Jobs -> JobRow \cup {None}]
  /\ asked \in [Askers -> {NotAsked} \cup
                  [pc : {"lookup", "insert", "inserted"}, demand : Demand]]
  /\ answers \subseteq [demand : Demand, job : Jobs \cup {None}]
  /\ writing \in [Writers -> [job : Jobs, state : JobStates, seq : 1 .. MaxSeq] \cup {None}]
  /\ socket \in [Sockets -> {Closed} \cup
                   [pc : {"open"}, user : Users, job : Jobs, sent : Event]]

ServiceTypeOK == AccountsTypeOK /\ FeedTypeOK

\* However requests with one idempotency key overlap and fail, those with the same
\* content are answered with one job of that content, and the others are refused
\* because of that job (create_job and the unique constraint).
AnswersStand ==
  \A a \in answers :
    /\ Cardinality(Stored(a.demand)) = 1
    /\ \A j \in Stored(a.demand) :
         IF jobs[j].print = a.demand.print THEN a.job = j ELSE a.job = None

\* A socket does not outlive its user's account or membership (job_socket asks again
\* at each poll).
SocketsFollowRights ==
  \A s \in Sockets : Following(s) /\ ~MayFollow(s) ~> ~Following(s) \/ MayFollow(s)

\* A socket comes to show the job as the REST interface shows it (job_socket sends an
\* event only when seq has changed).
FeedCatchesUp ==
  \A s \in Sockets :
    Following(s) ~> \/ ~Following(s)
                    \/ /\ socket[s].sent # NoEvent
                       /\ socket[s].sent.state = jobs[socket[s].job].state
===============================================================================
