---------------------------- MODULE JobQueueProofs ----------------------------
(***************************************************************************)
(* Types of the queue's tables, sessions and requests, and what it keeps   *)
(* whatever commits overtake each other and whatever fails.                *)
(***************************************************************************)
EXTENDS JobQueue, TLAPS

LEMMA PipelinesType == \A k \in Kinds : Len(PIPELINES[k]) \in Nat \ {0}
<1>1. Kinds = {"upload", "analyze", "plan", "ppt", "image", "video", "template", "design_reference"}
  BY DEF Kinds, PIPELINES
<1>2. Len(PIPELINES["upload"]) \in Nat \ {0} BY DEF PIPELINES
<1>3. Len(PIPELINES["analyze"]) \in Nat \ {0} BY DEF PIPELINES
<1>4. Len(PIPELINES["plan"]) \in Nat \ {0} BY DEF PIPELINES
<1>5. Len(PIPELINES["ppt"]) \in Nat \ {0} BY DEF PIPELINES
<1>6. Len(PIPELINES["image"]) \in Nat \ {0} BY DEF PIPELINES
<1>7. Len(PIPELINES["video"]) \in Nat \ {0} BY DEF PIPELINES
<1>8. Len(PIPELINES["template"]) \in Nat \ {0} BY DEF PIPELINES
<1>9. Len(PIPELINES["design_reference"]) \in Nat \ {0} BY DEF PIPELINES
<1> QED BY <1>1, <1>2, <1>3, <1>4, <1>5, <1>6, <1>7, <1>8, <1>9

LEMMA FlushType ==
  ASSUME NEW r \in Row, NEW old \in Row, NEW new \in Row
  PROVE  Flush(r, old, new) \in Row
BY DEF Flush, Row

LEMMA FlushFields ==
  ASSUME NEW r, NEW old, NEW new
  PROVE  LET f == Flush(r, old, new) IN
         /\ f.state = IF new.state # old.state THEN new.state ELSE r.state
         /\ f.step = IF new.step # old.step THEN new.step ELSE r.step
         /\ f.cancel_requested = IF new.cancel_requested # old.cancel_requested
                                 THEN new.cancel_requested ELSE r.cancel_requested
         /\ f.retry_count = IF new.retry_count # old.retry_count THEN new.retry_count ELSE r.retry_count
         /\ f.worker_id = IF new.worker_id # old.worker_id THEN new.worker_id ELSE r.worker_id
         /\ f.lease = IF new.lease # old.lease THEN new.lease ELSE r.lease
BY DEF Flush

LEMMA FlushInRange ==
  ASSUME NEW r \in Row, NEW old \in Row, NEW new \in Row, NEW n \in Nat,
         r.step \in 1 .. n, new.step \in 1 .. n
  PROVE  Flush(r, old, new) \in Row /\ Flush(r, old, new).step \in 1 .. n
BY FlushType, FlushFields

LEMMA NotOvertaken ==
  ASSUME NEW r, NEW old, NEW new, ~Overtaken(r, old, new)
  PROVE  /\ r.retry_count = old.retry_count
         /\ new.state # old.state => r.state = old.state
         /\ new.step # old.step => r.step = old.step
         /\ new.lease # old.lease => r.lease = old.lease
BY DEF Overtaken, Columns

LEMMA LengthType == \A j \in Jobs : Length(j) \in Nat \ {0}
BY PipelinesType, KindAssumption DEF Length

TypeInv == TypeOK /\ OneJob

\* The rows that the operations write are rows.
LEMMA RowWrites ==
  ASSUME NEW r \in Row
  PROVE  /\ Cancelled(r) \in Row /\ Cancelled(r).step = r.step
         /\ \A i \in Nat \ {0} : Retried(r, i) \in Row /\ Retried(r, i).step = i
         /\ WorkerLost(r) \in Row /\ WorkerLost(r).step = r.step
         /\ \A s \in JobStates : /\ [r EXCEPT !.state = s] \in Row
                                 /\ [r EXCEPT !.state = s].step = r.step
         /\ Released(r) \in Row /\ Released(r).step = r.step
<1> USE NobodyAssumption DEF JobStates, Waiting, TERMINAL, Stopped, Finished
<1>1. Cancelled(r) \in Row /\ Cancelled(r).step = r.step
  BY DEF Row, Cancelled
<1>2. \A i \in Nat \ {0} : Retried(r, i) \in Row /\ Retried(r, i).step = i
  BY DEF Row, Retried
<1>3. WorkerLost(r) \in Row /\ WorkerLost(r).step = r.step
  BY DEF Row, WorkerLost
<1>4. \A s \in JobStates : [r EXCEPT !.state = s] \in Row /\ [r EXCEPT !.state = s].step = r.step
  BY DEF Row
<1>5. Released(r) \in Row /\ Released(r).step = r.step
  BY DEF Row, Released
<1> QED BY <1>1, <1>2, <1>3, <1>4, <1>5

LEMMA CompletedType ==
  ASSUME NEW j \in Jobs, NEW r \in Row, r.step \in 1 .. Length(j), NEW i \in 1 .. Length(j),
         NEW new \in Completed(j, r, i)
  PROVE  new \in Row /\ new.step \in 1 .. Length(j)
<1> USE LengthType
<1>1. CASE i = Length(j)
  <2>1. PICK s \in Outcomes(Kind[j]) : new = Released([r EXCEPT !.state = s])
    BY <1>1 DEF Completed
  <2>2. s \in JobStates
    BY DEF Outcomes, Finished, JobStates, TERMINAL
  <2>3. [r EXCEPT !.state = s] \in Row /\ [r EXCEPT !.state = s].step = r.step
    BY <2>2, RowWrites
  <2> QED BY <2>1, <2>3, RowWrites
<1>2. CASE i # Length(j)
  <2> DEFINE next == [r EXCEPT !.state = "QUEUED", !.step = i + 1]
  <2>1. new = Released(next)
    BY <1>2 DEF Completed
  <2>2. i + 1 \in 1 .. Length(j) /\ i + 1 \in Nat \ {0}
    BY <1>2
  <2>3. next \in Row /\ next.step = i + 1
    BY <2>2 DEF Row, JobStates, Waiting
  <2> QED BY <2>1, <2>2, <2>3, RowWrites
<1> QED BY <1>1, <1>2

\* Every value of every table and session has its type, whatever the
\* interleaving, the faults and the races.
LEMMA TypeClient ==
  ASSUME TypeInv, NEW c \in Clients, ClientStep(c)
  PROVE  TypeOK'
<1> USE LengthType, NobodyAssumption DEF TypeInv
<1>1. ASSUME NEW j \in Jobs, CancelLoad(c, j) PROVE TypeOK'
  <2>1. row[j] \in Row /\ row[j].step \in 1 .. Length(j)
    BY DEF TypeOK
  <2>2. Cancelled(row[j]) \in Row /\ Cancelled(row[j]).step = row[j].step
    BY <2>1, RowWrites
  <2> QED BY <1>1, <2>1, <2>2 DEF TypeOK, CancelLoad, database, session, Request
<1>2. ASSUME NEW j \in Jobs, RetryLoad(c, j) PROVE TypeOK'
  BY <1>2 DEF TypeOK, RetryLoad, database, session, Request
<1>3. CASE RetryCheck(c)
  <2>1. PICK i \in 1 .. Length(request[c].job) :
          request' = [request EXCEPT ![c] = [op |-> "resume", job |-> request[c].job,
                        old |-> request[c].old, new |-> Retried(request[c].old, i)]]
    BY <1>3 DEF RetryCheck
  <2>2. request[c] \in Request /\ request[c].old.step \in 1 .. Length(request[c].job)
    BY <1>3 DEF TypeOK, RetryCheck
  <2>3. Retried(request[c].old, i) \in Row /\ Retried(request[c].old, i).step = i
    <3>1. request[c].old \in Row /\ Length(request[c].job) \in Nat /\ i \in Nat \ {0}
      BY <2>2 DEF Request
    <3> QED BY <3>1, RowWrites
  <2> DEFINE q == [op |-> "resume", job |-> request[c].job, old |-> request[c].old,
                   new |-> Retried(request[c].old, i)]
  <2>4. /\ q \in Request
        /\ q.old.step \in 1 .. Length(q.job) /\ q.new.step \in 1 .. Length(q.job)
    BY <2>2, <2>3 DEF Request
  <2>5. request' = [request EXCEPT ![c] = q]
    BY <2>1
  <2> HIDE DEF q
  <2> QED BY <1>3, <2>4, <2>5 DEF TypeOK, RetryCheck, database, session
<1>4. CASE CancelCommit(c)
  BY <1>4, FlushType, FlushFields DEF TypeOK, CancelCommit, Save, session, Request
<1>5. CASE RetryCommit(c)
  BY SMTT(20), <1>5, FlushType, FlushFields DEF TypeOK, RetryCommit, Save, session, Request
<1>6. CASE RequestFails(c)
  BY <1>6 DEF TypeOK, RequestFails, database, session
<1> QED BY <1>1, <1>2, <1>3, <1>4, <1>5, <1>6 DEF ClientStep

LEMMA TypeRecover ==
  ASSUME TypeInv, NEW w \in Workers, Boot(w) \/ RecoverScan(w) \/ RecoverCommit(w)
  PROVE  TypeOK'
<1> USE LengthType, NobodyAssumption DEF TypeInv, PCs, Executing
<1>1. CASE Boot(w)
  BY <1>1 DEF TypeOK, Boot, database
<1>2. CASE RecoverScan(w)
  BY <1>2 DEF TypeOK, RecoverScan, database
<1>3. CASE RecoverCommit(w)
  <2>1. ASSUME NEW j \in Jobs, view[w][j] # NoRow
        PROVE  /\ Flush(row[j], view[w][j], WorkerLost(view[w][j])) \in Row
               /\ Flush(row[j], view[w][j], WorkerLost(view[w][j])).step \in 1 .. Length(j)
    <3>1. row[j] \in Row /\ view[w][j] \in Row
      BY <2>1 DEF TypeOK
    <3>2. WorkerLost(view[w][j]) \in Row /\ WorkerLost(view[w][j]).step = view[w][j].step
      BY <3>1, RowWrites
    <3>3. row[j].step \in 1 .. Length(j) /\ view[w][j].step \in 1 .. Length(j)
      BY <2>1 DEF TypeOK
    <3> QED BY <3>1, <3>2, <3>3, FlushInRange
  <2>2. row' \in [Jobs -> Row] /\ \A j \in Jobs : row'[j].step \in 1 .. Length(j)
    BY <1>3, <2>1 DEF TypeOK, RecoverCommit
  <2>3. DOMAIN steps' = Jobs /\ \A j \in Jobs : steps'[j] \in [1 .. Length(j) -> StepStates]
    BY <1>3 DEF TypeOK, RecoverCommit, StepStates
  <2>4. view' \in [Workers -> [Jobs -> Row \cup {NoRow}]] /\ \A v \in Workers : \A j \in Jobs :
          view'[v][j] # NoRow => view'[v][j].step \in 1 .. Length(j)
    BY <1>3 DEF TypeOK, RecoverCommit, NoView
  <2> QED BY <1>3, <2>2, <2>3, <2>4 DEF TypeOK, RecoverCommit
<1> QED BY <1>1, <1>2, <1>3

LEMMA TypeClaim ==
  ASSUME TypeInv, NEW w \in Workers,
         ClaimRefused(w) \/ ClaimScan(w) \/ \E j \in Jobs : ClaimStep(w, j)
  PROVE  TypeOK'
<1> USE LengthType, NobodyAssumption DEF TypeInv, PCs, Executing
<1>1. CASE ClaimRefused(w)
  BY <1>1 DEF TypeOK, ClaimRefused, database
<1>2. CASE ClaimScan(w)
  BY <1>2 DEF TypeOK, ClaimScan, database
<1>3. ASSUME NEW j \in Jobs, ClaimCancelled(w, j) PROVE TypeOK'
  <2> DEFINE new == [view[w][j] EXCEPT !.state = "CANCELLED"]
  <2>1. /\ row[j] \in Row /\ row[j].step \in 1 .. Length(j)
        /\ view[w][j] \in Row /\ view[w][j].step \in 1 .. Length(j)
    BY <1>3 DEF TypeOK, ClaimCancelled, Candidate
  <2>2. new \in Row /\ new.step = view[w][j].step
    BY <2>1 DEF Row, JobStates, TERMINAL, Stopped
  <2>3. Flush(row[j], view[w][j], new) \in Row /\ Flush(row[j], view[w][j], new).step \in 1 .. Length(j)
    BY <2>1, <2>2, FlushInRange
  <2>4. row' \in [Jobs -> Row] /\ \A k \in Jobs : row'[k].step \in 1 .. Length(k)
    BY <1>3, <2>3 DEF TypeOK, ClaimCancelled
  <2> QED BY <1>3, <2>4 DEF TypeOK, ClaimCancelled, NextCandidate, Drop
<1>4. ASSUME NEW j \in Jobs, ClaimWon(w, j) PROVE TypeOK'
  <2> DEFINE won == [row[j] EXCEPT !.state = "RUNNING", !.worker_id = w, !.lease = "live"]
  <2>1. won \in Row /\ won.step = row[j].step
    <3>1. row[j] \in Row
      BY DEF TypeOK
    <3> QED BY <3>1 DEF Row, JobStates
  <2>2. row' = [row EXCEPT ![j] = won]
    BY <1>4 DEF ClaimWon
  <2>3. row' \in [Jobs -> Row] /\ \A k \in Jobs : row'[k].step \in 1 .. Length(k)
    BY <2>1, <2>2 DEF TypeOK
  <2> QED BY <1>4, <2>3 DEF TypeOK, ClaimWon, Only, NoView
<1>5. ASSUME NEW j \in Jobs, ClaimLost(w, j) PROVE TypeOK'
  BY <1>5 DEF TypeOK, ClaimLost, NextCandidate, Drop, database
<1>6. ASSUME NEW j \in Jobs, Refresh(w, j) PROVE TypeOK'
  BY <1>6 DEF TypeOK, Refresh, Only, NoView, database
<1> QED BY <1>1, <1>2, <1>3, <1>4, <1>5, <1>6 DEF ClaimStep

LEMMA TypeExecute ==
  ASSUME TypeInv, NEW w \in Workers, NEW j \in Jobs, ExecuteStep(w, j) \/ RaisesAfterCommit(w, j)
  PROVE  TypeOK'
<1> USE LengthType, NobodyAssumption DEF TypeInv, PCs, Executing, At, GoTo, Raise, Return, Proceed
<1>1. CASE StartRefused(w, j)
  BY <1>1 DEF TypeOK, StartRefused, NoView, database
<1>2. CASE Start(w, j)
  <2> DEFINE new == [view[w][j] EXCEPT !.state = "RUNNING"]
  <2>1. /\ row[j] \in Row /\ row[j].step \in 1 .. Length(j)
        /\ view[w][j] \in Row /\ view[w][j].step \in 1 .. Length(j)
    BY <1>2 DEF TypeOK, Start
  <2>2. new \in Row /\ new.step = view[w][j].step
    BY <2>1 DEF Row, JobStates
  <2>3. Flush(row[j], view[w][j], new) \in Row /\ Flush(row[j], view[w][j], new).step \in 1 .. Length(j)
    BY <2>1, <2>2, FlushInRange
  <2>4. row' \in [Jobs -> Row] /\ \A k \in Jobs : row'[k].step \in 1 .. Length(k)
    BY <1>2, <2>3 DEF TypeOK, Start
  <2>5. DOMAIN steps' = Jobs /\ \A k \in Jobs : steps'[k] \in [1 .. Length(k) -> StepStates]
    BY <1>2 DEF TypeOK, Start, StepStates
  <2>6. view' \in [Workers -> [Jobs -> Row \cup {NoRow}]] /\ \A v \in Workers : \A k \in Jobs :
          view'[v][k] # NoRow => view'[v][k].step \in 1 .. Length(k)
    BY <1>2, <2>1, <2>2 DEF TypeOK, Start
  <2>7. stepping' \in [Workers -> Nat \ {0}]
    BY <1>2, <2>1 DEF TypeOK, Start
  <2> QED BY <1>2, <2>4, <2>5, <2>6, <2>7 DEF TypeOK, Start
<1>3. CASE Enter(w, j)
  BY <1>3 DEF TypeOK, Enter, database
<1>4. CASE HandlerReturns(w, j)
  BY <1>4 DEF TypeOK, HandlerReturns, database
<1>5. CASE HandlerCancelled(w, j)
  BY <1>5 DEF TypeOK, HandlerCancelled, database
<1>6. CASE Recheck(w, j)
  BY <1>6 DEF TypeOK, Recheck, database
<1>7. CASE StepRaises(w, j)
  BY <1>7 DEF TypeOK, StepRaises, database
<1>8. ASSUME Succeed(w, j)
      PROVE  /\ row' \in [Jobs -> Row] /\ \A k \in Jobs : row'[k].step \in 1 .. Length(k)
             /\ DOMAIN steps' = Jobs /\ \A k \in Jobs : steps'[k] \in [1 .. Length(k) -> StepStates]
  <2>1. /\ row[j] \in Row /\ row[j].step \in 1 .. Length(j)
        /\ view[w][j] \in Row /\ view[w][j].step \in 1 .. Length(j)
    BY <1>8 DEF TypeOK, Succeed
  <2>2. stepping[w] \in 1 .. Length(j)
    BY <1>8 DEF OneJob, Succeed
  <2>3. PICK new \in Completed(j, view[w][j], stepping[w]) :
          row' = [row EXCEPT ![j] = Flush(@, view[w][j], new)]
    BY <1>8 DEF Succeed
  <2>4. new \in Row /\ new.step \in 1 .. Length(j)
    BY <2>1, <2>2, <2>3, CompletedType
  <2>5. Flush(row[j], view[w][j], new) \in Row /\ Flush(row[j], view[w][j], new).step \in 1 .. Length(j)
    BY <2>1, <2>4, FlushInRange
  <2> QED BY <1>8, <2>3, <2>5 DEF TypeOK, Succeed, StepStates
<1>9. CASE StepSucceeds(w, j)
  BY <1>8, <1>9 DEF TypeOK, StepSucceeds, NoView
<1>10. CASE RaisesAfterCommit(w, j)
  BY <1>8, <1>10, BoundsAssumption DEF TypeOK, RaisesAfterCommit
<1>11. CASE Reload(w, j)
  BY <1>11 DEF TypeOK, Reload, database
<1>12. CASE ReloadRefused(w, j)
  BY <1>12 DEF TypeOK, ReloadRefused, NoView, database
<1>13. CASE StepFails(w, j)
  <2> DEFINE new == Released([view[w][j] EXCEPT !.state = verdict[w]])
  <2>1. /\ row[j] \in Row /\ row[j].step \in 1 .. Length(j)
        /\ view[w][j] \in Row /\ view[w][j].step \in 1 .. Length(j)
    BY <1>13 DEF TypeOK, StepFails
  <2>2. verdict[w] \in JobStates
    BY DEF TypeOK, JobStates, TERMINAL, Stopped
  <2>3. new \in Row /\ new.step = view[w][j].step
    BY <2>1, <2>2, RowWrites
  <2>4. Flush(row[j], view[w][j], new) \in Row /\ Flush(row[j], view[w][j], new).step \in 1 .. Length(j)
    BY <2>1, <2>3, FlushInRange
  <2>5. row' \in [Jobs -> Row] /\ \A k \in Jobs : row'[k].step \in 1 .. Length(k)
    BY <1>13, <2>4 DEF TypeOK, StepFails
  <2>6. DOMAIN steps' = Jobs /\ \A k \in Jobs : steps'[k] \in [1 .. Length(k) -> StepStates]
    BY <1>13 DEF TypeOK, StepFails, StepStates
  <2> QED BY <1>13, <2>5, <2>6 DEF TypeOK, StepFails, NoView
<1> QED BY <1>1, <1>2, <1>3, <1>4, <1>5, <1>6, <1>7, <1>9, <1>10, <1>11, <1>12, <1>13 DEF ExecuteStep


LEMMA TypeOthers ==
  ASSUME TypeInv, \/ \E w \in Workers : Escape(w) \/ Crash(w) \/ HeartbeatExpires(w) \/ Pulse(w)
                  \/ \E j \in Jobs : LeaseExpires(j)
  PROVE  TypeOK'
<1> USE LengthType, BoundsAssumption DEF TypeInv, PCs, GoTo
<1>1. ASSUME NEW w \in Workers, Escape(w) PROVE TypeOK'
  BY <1>1 DEF TypeOK, Escape, NoView, database
<1>2. ASSUME NEW w \in Workers, Crash(w) PROVE TypeOK'
  BY <1>2 DEF TypeOK, Crash, NoView, database
<1>3. ASSUME NEW w \in Workers, HeartbeatExpires(w) PROVE TypeOK'
  BY <1>3 DEF TypeOK, HeartbeatExpires, database, session
<1>4. ASSUME NEW w \in Workers, Pulse(w) PROVE TypeOK'
  <2>1. \A j \in Jobs : row[j] \in Row
    BY DEF TypeOK
  <2>2. row' \in [Jobs -> Row] /\ \A j \in Jobs : row'[j].step = row[j].step
    BY <1>4, <2>1 DEF Pulse, Row
  <2> QED BY <1>4, <2>2 DEF TypeOK, Pulse, session
<1>5. ASSUME NEW j \in Jobs, LeaseExpires(j) PROVE TypeOK'
  <2>1. row[j] \in Row
    BY DEF TypeOK
  <2>2. [row[j] EXCEPT !.lease = "expired"] \in Row /\ [row[j] EXCEPT !.lease = "expired"].step = row[j].step
    BY <2>1 DEF Row
  <2>3. row' = [row EXCEPT ![j] = [row[j] EXCEPT !.lease = "expired"]]
    BY <1>5 DEF LeaseExpires
  <2>4. row' \in [Jobs -> Row] /\ \A k \in Jobs : row'[k].step = row[k].step
    BY <2>2, <2>3 DEF TypeOK
  <2> QED BY <1>5, <2>4 DEF TypeOK, LeaseExpires, session
<1> QED BY <1>1, <1>2, <1>3, <1>4, <1>5

\* An executing worker has one row in its session: claim returns one job, and
\* every other exit of an iteration closes the session.
LEMMA OneJobStep ==
  ASSUME TypeInv, [Next]_vars
  PROVE  OneJob'
<1> USE LengthType DEF TypeInv, Executing, GoTo, At, Raise, Return, Proceed
<1>1. CASE UNCHANGED <<pc, view, stepping>>
  BY <1>1 DEF OneJob
<1>2. ASSUME NEW w \in Workers, WorkerStep(w) \/ FaultStep(w) PROVE OneJob'
  <2>1. ASSUME pc'[w] \notin Executing,
               \A v \in Workers : v # w => pc'[v] = pc[v] /\ view'[v] = view[v] /\ stepping'[v] = stepping[v]
        PROVE  OneJob'
    BY <2>1 DEF OneJob
  <2>2. CASE Boot(w) \/ RecoverScan(w) \/ RecoverCommit(w)
    BY <2>1, <2>2 DEF TypeOK, Boot, RecoverScan, RecoverCommit
  <2>3. CASE ClaimRefused(w) \/ ClaimScan(w)
    BY <2>1, <2>3 DEF TypeOK, ClaimRefused, ClaimScan
  <2>4. ASSUME NEW j \in Jobs, ClaimStep(w, j) PROVE OneJob'
    <3>1. CASE ClaimCancelled(w, j) \/ ClaimLost(w, j)
      BY <2>1, <3>1 DEF TypeOK, ClaimCancelled, ClaimLost, NextCandidate
    <3>2. CASE ClaimWon(w, j)
      BY <3>2 DEF OneJob, TypeOK, ClaimWon, Only, NoView
    <3>3. CASE Refresh(w, j)
      BY <3>3 DEF OneJob, TypeOK, Refresh, Only, NoView
    <3> QED BY <2>4, <3>1, <3>2, <3>3 DEF ClaimStep
  <2>5. ASSUME NEW j \in Jobs, ExecuteStep(w, j) \/ RaisesAfterCommit(w, j) PROVE OneJob'
    <3>1. CASE StartRefused(w, j) \/ ReloadRefused(w, j) \/ StepSucceeds(w, j) \/ StepFails(w, j)
      BY <2>1, <3>1 DEF TypeOK, StartRefused, ReloadRefused, StepSucceeds, StepFails
    <3>2. CASE Start(w, j)
      BY <3>2 DEF OneJob, TypeOK, Start
    <3>3. CASE Enter(w, j) \/ HandlerReturns(w, j) \/ HandlerCancelled(w, j) \/ Recheck(w, j) \/ StepRaises(w, j)
      <4>1. /\ pc[w] \in Executing \ {"refresh", "start"}
            /\ \E point \in PCs : pc' = [pc EXCEPT ![w] = point]
            /\ UNCHANGED <<view, stepping>>
        BY <3>3 DEF Enter, HandlerReturns, HandlerCancelled, Recheck, StepRaises, PCs
      <4> QED BY <4>1 DEF OneJob, TypeOK
    <3>4. CASE RaisesAfterCommit(w, j)
      BY <3>4 DEF OneJob, TypeOK, RaisesAfterCommit, Succeed
    <3>5. CASE Reload(w, j)
      BY <3>5, NoRowAssumption DEF OneJob, TypeOK, Reload
    <3> QED BY <2>5, <3>1, <3>2, <3>3, <3>4, <3>5 DEF ExecuteStep
  <2>6. CASE Escape(w) \/ Crash(w)
    BY <2>1, <2>6 DEF TypeOK, Escape, Crash
  <2>7. CASE HeartbeatExpires(w)
    BY <1>1, <2>7 DEF HeartbeatExpires, session
  <2> QED BY <1>2, <2>2, <2>3, <2>4, <2>5, <2>6, <2>7 DEF WorkerStep, FaultStep
<1>3. ASSUME NEW c \in Clients, ClientStep(c) PROVE OneJob'
  BY <1>1, <1>3 DEF ClientStep, CancelLoad, RetryLoad, RetryCheck, CancelCommit, RetryCommit, RequestFails, Save, session
<1>4. ASSUME NEW w \in Workers, Pulse(w) PROVE OneJob'
  BY <1>1, <1>4 DEF Pulse, session
<1>5. ASSUME NEW j \in Jobs, LeaseExpires(j) PROVE OneJob'
  BY <1>1, <1>5 DEF LeaseExpires, session
<1> QED BY <1>1, <1>2, <1>3, <1>4, <1>5 DEF Next, vars

\* Every step keeps every variable in its type.
LEMMA TypeStep ==
  ASSUME TypeInv, [Next]_vars
  PROVE  TypeOK'
<1>1. CASE UNCHANGED vars
  BY <1>1 DEF TypeInv, TypeOK, vars
<1> QED BY <1>1, TypeClient, TypeRecover, TypeClaim, TypeExecute, TypeOthers
    DEF Next, WorkerStep, FaultStep

LEMMA InitTyped == Init => TypeInv
BY LengthType, NobodyAssumption, BoundsAssumption
DEF Init, TypeInv, TypeOK, OneJob, CreatedRow, Row, JobStates, Waiting, StepStates, PCs, Executing, NoView

\* Type correctness of every behaviour: the queue's tables, sessions and
\* requests never hold a value outside their type, and job.step always names a
\* step of the job's pipeline, for any instance, any races and any faults.
THEOREM TypeCorrect == Spec => []TypeOK
<1>1. Init => TypeInv
  BY InitTyped
<1>2. TypeInv /\ [Next]_vars => TypeInv'
  BY TypeStep, OneJobStep DEF TypeInv
<1>3. TypeInv => TypeOK
  BY DEF TypeInv
<1> QED BY <1>1, <1>2, <1>3, PTL DEF Spec


-------------------------------------------------------------------------------
(***************************************************************************)
(* What the queue keeps whatever commits overtake each other and whatever  *)
(* fails.  The argument is that UPDATE writes the changed columns only:    *)
(* no commit but that of a retry writes retry_count or clears              *)
(* cancel_requested.                                                       *)
(***************************************************************************)

Untouched(j) ==
  row'[j].cancel_requested = row[j].cancel_requested /\ row'[j].retry_count = row[j].retry_count

\* The writes of a worker leave both columns as the session has loaded them.
LEMMA WorkerWrites ==
  ASSUME NEW r \in Row
  PROVE  /\ LET n == WorkerLost(r) IN n.cancel_requested = r.cancel_requested /\ n.retry_count = r.retry_count
         /\ LET n == Released(r) IN n.cancel_requested = r.cancel_requested /\ n.retry_count = r.retry_count
         /\ \A s \in JobStates : LET n == [r EXCEPT !.state = s] IN
              n \in Row /\ n.cancel_requested = r.cancel_requested /\ n.retry_count = r.retry_count
<1>1. LET n == WorkerLost(r) IN n.cancel_requested = r.cancel_requested /\ n.retry_count = r.retry_count
  BY DEF Row, WorkerLost
<1>2. LET n == Released(r) IN n.cancel_requested = r.cancel_requested /\ n.retry_count = r.retry_count
  BY DEF Row, Released
<1>3. \A s \in JobStates : LET n == [r EXCEPT !.state = s] IN
        n \in Row /\ n.cancel_requested = r.cancel_requested /\ n.retry_count = r.retry_count
  BY DEF Row
<1> QED BY <1>1, <1>2, <1>3

\* A commit that changes neither column leaves them as the table has them.
LEMMA FlushKeeps ==
  ASSUME TypeInv, NEW k \in Jobs, NEW old, NEW new,
         new.cancel_requested = old.cancel_requested, new.retry_count = old.retry_count,
         row' = [row EXCEPT ![k] = Flush(row[k], old, new)]
  PROVE  \A j \in Jobs : Untouched(j)
<1>1. /\ Flush(row[k], old, new).cancel_requested = row[k].cancel_requested
      /\ Flush(row[k], old, new).retry_count = row[k].retry_count
  BY FlushFields
<1> QED BY <1>1 DEF Untouched, TypeInv, TypeOK

LEMMA StateWritten ==
  ASSUME TypeInv, NEW k \in Jobs, NEW r \in Row, NEW s \in JobStates,
         \/ row' = [row EXCEPT ![k] = Flush(row[k], r, [r EXCEPT !.state = s])]
         \/ row' = [row EXCEPT ![k] = Flush(row[k], r, Released([r EXCEPT !.state = s]))]
  PROVE  \A j \in Jobs : Untouched(j)
<1> DEFINE mid == [r EXCEPT !.state = s]
           end == Released(mid)
<1>1. mid \in Row /\ mid.cancel_requested = r.cancel_requested /\ mid.retry_count = r.retry_count
  BY WorkerWrites
<1>2. end.cancel_requested = r.cancel_requested /\ end.retry_count = r.retry_count
  BY <1>1, WorkerWrites
<1>3. row' = [row EXCEPT ![k] = Flush(row[k], r, mid)] \/ row' = [row EXCEPT ![k] = Flush(row[k], r, end)]
  OBVIOUS
<1> HIDE DEF mid, end
<1> QED BY <1>1, <1>2, <1>3, FlushKeeps

LEMMA CompletedWrites ==
  ASSUME NEW j \in Jobs, NEW r \in Row, NEW i, NEW new \in Completed(j, r, i)
  PROVE  new.cancel_requested = r.cancel_requested /\ new.retry_count = r.retry_count
<1>1. CASE i = Length(j)
  <2>1. PICK s \in Outcomes(Kind[j]) : new = Released([r EXCEPT !.state = s])
    BY <1>1 DEF Completed
  <2>2. s \in JobStates
    BY DEF Outcomes, Finished, JobStates, TERMINAL
  <2> DEFINE mid == [r EXCEPT !.state = s]
  <2>3. mid \in Row /\ mid.cancel_requested = r.cancel_requested /\ mid.retry_count = r.retry_count
    BY <2>2, WorkerWrites
  <2> QED BY <2>1, <2>3, WorkerWrites
<1>2. CASE i # Length(j)
  BY <1>2 DEF Completed, Released, Row
<1> QED BY <1>1, <1>2

LEMMA SucceedKeeps ==
  ASSUME TypeInv, NEW w \in Workers, NEW k \in Jobs, Succeed(w, k)
  PROVE  \A j \in Jobs : Untouched(j)
<1>1. PICK new \in Completed(k, view[w][k], stepping[w]) :
        row' = [row EXCEPT ![k] = Flush(row[k], view[w][k], new)]
  BY DEF Succeed
<1>2. view[w][k] \in Row
  BY DEF Succeed, At, TypeInv, TypeOK
<1>3. new.cancel_requested = view[w][k].cancel_requested /\ new.retry_count = view[w][k].retry_count
  BY <1>2, CompletedWrites
<1> QED BY <1>1, <1>3, FlushKeeps

\* Nothing but a request touches the two columns, and nothing but a retry the
\* audit log.
LEMMA OnlyRequests ==
  ASSUME TypeInv, [Next]_vars, ~ \E c \in Clients : CancelCommit(c) \/ RetryCommit(c)
  PROVE  (\A j \in Jobs : Untouched(j)) /\ retries' = retries
<1> USE DEF Untouched
<1>1. ASSUME NEW w \in Workers, WorkerStep(w) \/ FaultStep(w) \/ Pulse(w)
      PROVE  (\A j \in Jobs : Untouched(j)) /\ retries' = retries
  <2>1. CASE \/ Boot(w) \/ RecoverScan(w) \/ ClaimRefused(w) \/ ClaimScan(w)
             \/ Escape(w) \/ Crash(w) \/ HeartbeatExpires(w)
    BY <2>1 DEF Boot, RecoverScan, ClaimRefused, ClaimScan, Escape, Crash, HeartbeatExpires, database
  <2>2. CASE RecoverCommit(w)
    <3> SUFFICES ASSUME NEW j \in Jobs PROVE Untouched(j)
      BY <2>2 DEF RecoverCommit
    <3> DEFINE v == view[w][j]
    <3>1. row'[j] = row[j] \/ (v # NoRow /\ row'[j] = Flush(row[j], v, WorkerLost(v)))
      BY <2>2 DEF RecoverCommit
    <3>2. v # NoRow => v \in Row
      BY DEF TypeInv, TypeOK
    <3> QED BY <3>1, <3>2, FlushFields, WorkerWrites
  <2>3. CASE Pulse(w)
    <3> SUFFICES ASSUME NEW j \in Jobs PROVE Untouched(j)
      BY <2>3 DEF Pulse
    <3> DEFINE l == IF j = current[w] /\ row[j].worker_id = w THEN "live" ELSE row[j].lease
    <3>1. row'[j] = [row[j] EXCEPT !.lease = l] /\ row[j] \in Row
      BY <2>3 DEF Pulse, TypeInv, TypeOK
    <3> HIDE DEF l
    <3> QED BY <3>1 DEF Row
  <2>4. ASSUME NEW k \in Jobs, ClaimStep(w, k) PROVE (\A j \in Jobs : Untouched(j)) /\ retries' = retries
    <3>1. CASE ClaimCancelled(w, k)
      <4> DEFINE v == view[w][k]
      <4>1. retries' = retries /\ v \in Row /\ "CANCELLED" \in JobStates
        BY <3>1 DEF ClaimCancelled, Candidate, TypeInv, TypeOK, JobStates, TERMINAL, Stopped
      <4>2. \/ row' = [row EXCEPT ![k] = Flush(row[k], v, [v EXCEPT !.state = "CANCELLED"])]
            \/ row' = [row EXCEPT ![k] = row[k]]
        BY <3>1 DEF ClaimCancelled
      <4>3. CASE row' = [row EXCEPT ![k] = row[k]]
        BY <4>1, <4>3 DEF TypeInv, TypeOK
      <4> QED BY <4>1, <4>2, <4>3, StateWritten
    <3>2. CASE ClaimWon(w, k)
      BY <3>2 DEF ClaimWon, TypeInv, TypeOK, Row
    <3>3. CASE ClaimLost(w, k) \/ Refresh(w, k)
      BY <3>3 DEF ClaimLost, Refresh, database
    <3> QED BY <2>4, <3>1, <3>2, <3>3 DEF ClaimStep
  <2>5. ASSUME NEW k \in Jobs, ExecuteStep(w, k) \/ RaisesAfterCommit(w, k)
        PROVE  (\A j \in Jobs : Untouched(j)) /\ retries' = retries
    <3>1. CASE \/ StartRefused(w, k) \/ Enter(w, k) \/ HandlerReturns(w, k) \/ HandlerCancelled(w, k)
               \/ Recheck(w, k) \/ StepRaises(w, k) \/ Reload(w, k) \/ ReloadRefused(w, k)
      BY <3>1 DEF StartRefused, Enter, HandlerReturns, HandlerCancelled, Recheck, StepRaises, Reload,
                  ReloadRefused, database
    <3>2. CASE Start(w, k)
      <4>1. /\ view[w][k] \in Row /\ "RUNNING" \in JobStates /\ retries' = retries
            /\ row' = [row EXCEPT ![k] = Flush(row[k], view[w][k], [view[w][k] EXCEPT !.state = "RUNNING"])]
        BY <3>2 DEF Start, At, TypeInv, TypeOK, JobStates
      <4> QED BY <4>1, StateWritten
    <3>3. CASE StepSucceeds(w, k) \/ RaisesAfterCommit(w, k)
      BY <3>3, SucceedKeeps DEF StepSucceeds, RaisesAfterCommit
    <3>4. CASE StepFails(w, k)
      <4>1. /\ view[w][k] \in Row /\ verdict[w] \in JobStates /\ retries' = retries
            /\ row' = [row EXCEPT ![k] =
                 Flush(row[k], view[w][k], Released([view[w][k] EXCEPT !.state = verdict[w]]))]
        BY <3>4 DEF StepFails, At, TypeInv, TypeOK, JobStates, TERMINAL, Stopped
      <4> QED BY <4>1, StateWritten
    <3> QED BY <2>5, <3>1, <3>2, <3>3, <3>4 DEF ExecuteStep
  <2> QED BY <1>1, <2>1, <2>2, <2>3, <2>4, <2>5 DEF WorkerStep, FaultStep
<1>2. ASSUME NEW k \in Jobs, LeaseExpires(k) PROVE (\A j \in Jobs : Untouched(j)) /\ retries' = retries
  BY <1>2 DEF LeaseExpires, TypeInv, TypeOK, Row
<1>3. ASSUME NEW c \in Clients, ClientStep(c) PROVE (\A j \in Jobs : Untouched(j)) /\ retries' = retries
  BY <1>3 DEF ClientStep, CancelLoad, RetryLoad, RetryCheck, RequestFails, database
<1>4. CASE UNCHANGED vars
  BY <1>4 DEF vars
<1> QED BY <1>1, <1>2, <1>3, <1>4 DEF Next

-------------------------------------------------------------------------------
(* The requests and the theorems *)

LEMMA RequestsUntouched ==
  ASSUME [Next]_vars
  PROVE  (\E c \in Clients : ClientStep(c)) \/ request' = request
<1> USE DEF GoTo, Raise, Return, Proceed, NextCandidate
<1>1. ASSUME NEW w \in Workers, WorkerStep(w) PROVE request' = request
  <2>1. ASSUME NEW k \in Jobs, ClaimStep(w, k) PROVE request' = request
    BY <2>1 DEF ClaimStep, ClaimCancelled, ClaimWon, ClaimLost, Refresh
  <2>2. ASSUME NEW k \in Jobs, ExecuteStep(w, k) PROVE request' = request
    BY <2>2 DEF ExecuteStep, StartRefused, Start, Enter, HandlerReturns, HandlerCancelled, Recheck,
                StepRaises, StepSucceeds, Reload, ReloadRefused, StepFails
  <2> QED BY <1>1, <2>1, <2>2 DEF WorkerStep, Boot, RecoverScan, RecoverCommit, ClaimRefused, ClaimScan
<1>2. ASSUME NEW w \in Workers, FaultStep(w) \/ Pulse(w) PROVE request' = request
  BY <1>2 DEF FaultStep, Escape, Crash, HeartbeatExpires, RaisesAfterCommit, Pulse
<1> QED BY <1>1, <1>2 DEF Next, vars, LeaseExpires

\* What a request holds is what its handler has computed from the row it loaded.
Computed ==
  \A c \in Clients : request[c] # NoRequest =>
    LET q == request[c] IN
    /\ q.op = "cancel" => q.new = Cancelled(q.old)
    /\ q.op \in {"retry", "resume"} => q.old.retry_count < MaxRetries
    /\ q.op = "resume" => \E i \in 1 .. Length(q.job) : q.new = Retried(q.old, i)

RaceInv == TypeInv /\ Computed

LEMMA RaceInvStep ==
  ASSUME RaceInv, [Next]_vars
  PROVE  RaceInv'
<1>1. TypeInv'
  BY TypeStep, OneJobStep DEF RaceInv, TypeInv
<1>2. CASE request' = request
  BY <1>1, <1>2 DEF RaceInv, Computed
<1>3. ASSUME NEW c \in Clients, ClientStep(c) PROVE Computed'
  <2> USE DEF RaceInv, TypeInv, TypeOK, Computed
  <2>1. ASSUME NEW j \in Jobs, CancelLoad(c, j) \/ RetryLoad(c, j) PROVE Computed'
    <3>1. request' = [request EXCEPT ![c] =
                        [op |-> "cancel", job |-> j, old |-> row[j], new |-> Cancelled(row[j])]]
          \/ /\ request' = [request EXCEPT ![c] = [op |-> "retry", job |-> j, old |-> row[j], new |-> row[j]]]
             /\ row[j].retry_count < MaxRetries
      BY <2>1 DEF CancelLoad, RetryLoad
    <3>2. \A d \in Clients \ {c} : request'[d] = request[d]
      BY <3>1
    <3>3. /\ request'[c].op = "cancel" => request'[c].new = Cancelled(request'[c].old)
          /\ request'[c].op = "retry" => request'[c].old.retry_count < MaxRetries
          /\ request'[c].op # "resume"
      BY <3>1
    <3> QED BY <3>2, <3>3
  <2>2. CASE RetryCheck(c)
    <3>1. PICK i \in 1 .. Length(request[c].job) : request' = [request EXCEPT ![c] =
            [op |-> "resume", job |-> request[c].job, old |-> request[c].old,
             new |-> Retried(request[c].old, i)]]
      BY <2>2 DEF RetryCheck
    <3>2. request[c] # NoRequest /\ request[c].op = "retry"
      BY <2>2 DEF RetryCheck
    <3> QED BY <3>1, <3>2
  <2>3. CASE CancelCommit(c) \/ RetryCommit(c) \/ RequestFails(c)
    BY <2>3 DEF CancelCommit, RetryCommit, RequestFails, Save
  <2> QED BY <1>3, <2>1, <2>2, <2>3 DEF ClientStep
<1>4. (\E c \in Clients : ClientStep(c)) \/ request' = request
  BY RequestsUntouched
<1> QED BY <1>1, <1>2, <1>3, <1>4 DEF RaceInv

\* What the commit of a cancellation or of a retry does to the two columns.
LEMMA RequestCommits ==
  ASSUME RaceInv, NEW c \in Clients, CancelCommit(c) \/ RetryCommit(c), NEW j \in Jobs
  PROVE  LET q == request[c] IN
         \/ Untouched(j) /\ retries'[j] = retries[j]
         \/ /\ CancelCommit(c) /\ retries' = retries /\ row'[j].retry_count = row[j].retry_count
            /\ row[j].cancel_requested => row'[j].cancel_requested
         \/ /\ RetryCommit(c) /\ j = q.job /\ retries'[j] = retries[j] + 1
            /\ row'[j].retry_count = q.old.retry_count + 1 /\ q.old.retry_count < MaxRetries
            /\ Lands("retry", row[j], q.old, q.new)
<1> DEFINE q == request[c]
<1>1. /\ q # NoRequest /\ q.job \in Jobs /\ q.old \in Row /\ row[q.job] \in Row
      /\ row' = [row EXCEPT ![q.job] = Flush(row[q.job], q.old, q.new)]
  BY DEF CancelCommit, RetryCommit, Save, RaceInv, TypeInv, TypeOK, Request
<1>2. row \in [Jobs -> Row] /\ retries \in [Jobs -> Nat]
  BY DEF RaceInv, TypeInv, TypeOK
<1>3. CASE CancelCommit(c)
  <2>1. q.new = Cancelled(q.old) /\ retries' = retries
    BY <1>1, <1>3 DEF CancelCommit, RaceInv, Computed
  <2>2. q.new.cancel_requested = TRUE /\ q.new.retry_count = q.old.retry_count
    BY <1>1, <2>1 DEF Cancelled, Row
  <2>3. /\ Flush(row[q.job], q.old, q.new).retry_count = row[q.job].retry_count
        /\ row[q.job].cancel_requested => Flush(row[q.job], q.old, q.new).cancel_requested
    BY <2>2, FlushFields
  <2> QED BY <1>1, <1>2, <1>3, <2>1, <2>3
<1>4. CASE RetryCommit(c)
  <2>1. PICK i \in 1 .. Length(q.job) : q.new = Retried(q.old, i)
    BY <1>1, <1>4 DEF RetryCommit, RaceInv, Computed
  <2>2. /\ retries' = [retries EXCEPT ![q.job] = @ + 1] /\ q.old.retry_count < MaxRetries
        /\ Lands("retry", row[q.job], q.old, q.new)
    BY <1>1, <1>4 DEF RetryCommit, Save, RaceInv, Computed
  <2>3. q.old.retry_count \in Nat /\ q.new.retry_count = q.old.retry_count + 1
    BY <1>1, <2>1 DEF Retried, Row
  <2>4. Flush(row[q.job], q.old, q.new).retry_count = q.old.retry_count + 1
    BY <2>3, FlushFields
  <2> QED BY <1>1, <1>2, <1>4, <2>2, <2>4 DEF Untouched
<1> QED BY <1>3, <1>4

\* A cancellation is forgotten only by a retry, whatever races and faults happen.
THEOREM CancelsRemembered == Spec => CancelRemembered
<1>1. Init => RaceInv
  BY InitTyped DEF Init, RaceInv, Computed
<1>2. RaceInv /\ [Next]_vars => RaceInv'
  BY RaceInvStep
<1>3. RaceInv /\ [Next]_vars => [\A j \in Jobs :
        row[j].cancel_requested /\ ~row'[j].cancel_requested => retries'[j] = retries[j] + 1]_vars
  BY OnlyRequests, RequestCommits DEF RaceInv, Untouched
<1> QED BY <1>1, <1>2, <1>3, PTL DEF Spec, CancelRemembered

\* The budget of retries holds as long as no retry commits over another retry,
\* whatever other races and faults happen.
THEOREM RetriesBounded == "retry" \notin Races => (Spec => []RetryBudget)
<1> SUFFICES ASSUME "retry" \notin Races PROVE Spec => []RetryBudget
  OBVIOUS
<1> DEFINE Counted == \A j \in Jobs : retries[j] = row[j].retry_count /\ retries[j] <= MaxRetries
           Inv == RaceInv /\ Counted
<1>1. Init => Inv
  BY InitTyped, BoundsAssumption DEF Init, RaceInv, Computed, CreatedRow
<1>2. Inv /\ [Next]_vars => Inv'
  <2> SUFFICES ASSUME Inv, [Next]_vars, NEW j \in Jobs
               PROVE  retries'[j] = row'[j].retry_count /\ retries'[j] <= MaxRetries
    BY RaceInvStep
  <2>1. CASE ~ \E c \in Clients : CancelCommit(c) \/ RetryCommit(c)
    BY <2>1, OnlyRequests DEF RaceInv, Untouched
  <2>2. ASSUME NEW c \in Clients, CancelCommit(c) \/ RetryCommit(c)
        PROVE  retries'[j] = row'[j].retry_count /\ retries'[j] <= MaxRetries
    <3>1. ASSUME Lands("retry", row[j], request[c].old, request[c].new)
          PROVE  request[c].old.retry_count = row[j].retry_count
      BY <3>1, NotOvertaken DEF Lands
    <3>2. retries[j] \in Nat
      BY DEF RaceInv, TypeInv, TypeOK
    <3> QED BY <2>2, <3>1, <3>2, RequestCommits, BoundsAssumption DEF Untouched
  <2> QED BY <2>1, <2>2
<1>3. Inv => RetryBudget
  BY DEF RetryBudget
<1> HIDE DEF Inv
<1> QED BY <1>1, <1>2, <1>3, PTL DEF Spec

-------------------------------------------------------------------------------
(* The safety of the queue when no commit overtakes another one: IInv is   *)
(* inductive.  The proof has two layers.  The first reduces every action   *)
(* to its effect on the database, one job at a time; the second shows that *)
(* the effects keep the tables sound and that each session keeps agreeing  *)
(* with them.                                                              *)

\* The effects of a step on job j; w is the worker that takes the step.
KeepsPlace(j) == row'[j].step = row[j].step /\ row'[j].retry_count = row[j].retry_count /\ retries'[j] = retries[j]
KeepsHolder(j) == row'[j].worker_id = row[j].worker_id /\ row'[j].lease = row[j].lease
FreesHolder(j) == row'[j].worker_id = Nobody /\ row'[j].lease = "none"
Marks(j, s) == steps'[j] = [steps[j] EXCEPT ![row[j].step] = s]
Held(w, j) == row[j].state = "RUNNING" /\ row[j].worker_id = w /\ row[j].lease = "live"

Unmoved(j) ==
  row'[j].state = row[j].state /\ KeepsPlace(j) /\ KeepsHolder(j) /\ steps'[j] = steps[j]
Dequeued(j) ==
  /\ row[j].state \in Waiting /\ row'[j].state = "CANCELLED"
  /\ KeepsPlace(j) /\ KeepsHolder(j) /\ steps'[j] = steps[j]
Resumed(j) ==
  /\ row[j].state \in Stopped /\ row'[j].state = "RETRYING"
  /\ row[j].retry_count < MaxRetries /\ row'[j].retry_count = row[j].retry_count + 1
  /\ retries'[j] = retries[j] + 1
  /\ row'[j].step = row[j].step /\ KeepsHolder(j) /\ steps'[j] = steps[j]
Lost(j) ==
  Expired(j) /\ row'[j].state = "FAILED" /\ KeepsPlace(j) /\ FreesHolder(j) /\ Marks(j, "FAILED")
Lapsed(j) ==
  /\ row[j].lease = "live" /\ ~Renewed(j) /\ row'[j].lease = "expired"
  /\ row'[j].state = row[j].state /\ row'[j].worker_id = row[j].worker_id
  /\ KeepsPlace(j) /\ steps'[j] = steps[j]
Won(w, j) ==
  /\ row[j].state \in Waiting /\ row'[j].state = "RUNNING"
  /\ row'[j].worker_id = w /\ row'[j].lease = "live"
  /\ KeepsPlace(j) /\ steps'[j] = steps[j]
Begun(w, j) ==
  /\ Held(w, j) /\ row'[j].state = "RUNNING"
  /\ KeepsPlace(j) /\ KeepsHolder(j) /\ Marks(j, "RUNNING")
Passed(w, j) ==
  /\ Held(w, j) /\ row'[j].state = "QUEUED"
  /\ row[j].step < Length(j) /\ row'[j].step = row[j].step + 1
  /\ row'[j].retry_count = row[j].retry_count /\ retries'[j] = retries[j]
  /\ FreesHolder(j) /\ Marks(j, "SUCCEEDED")
Ended(w, j) ==
  /\ Held(w, j) /\ row'[j].state \in Finished /\ row[j].step = Length(j)
  /\ KeepsPlace(j) /\ FreesHolder(j) /\ Marks(j, "SUCCEEDED")
Broken(w, j) ==
  /\ Held(w, j) /\ row'[j].state \in Stopped
  /\ KeepsPlace(j) /\ FreesHolder(j) /\ Marks(j, "FAILED")

ByNobody(j) == Unmoved(j) \/ Dequeued(j) \/ Resumed(j) \/ Lost(j) \/ Lapsed(j)
ByWorker(w, j) == Won(w, j) \/ Begun(w, j) \/ Passed(w, j) \/ Ended(w, j) \/ Broken(w, j)
Effect(w, j) == ByNobody(j) \/ ByWorker(w, j)

-------------------------------------------------------------------------------
(* The first layer: the effect of every action *)

LEMMA WriteFields ==
  ASSUME NEW r \in Row
  PROVE  /\ LET n == Cancelled(r) IN
            /\ n.state = IF r.state \in Waiting THEN "CANCELLED" ELSE r.state
            /\ n.step = r.step /\ n.retry_count = r.retry_count
            /\ n.worker_id = r.worker_id /\ n.lease = r.lease
         /\ LET n == WorkerLost(r) IN
            /\ n.state = "FAILED" /\ n.step = r.step /\ n.retry_count = r.retry_count
            /\ n.worker_id = Nobody /\ n.lease = "none"
         /\ \A s \in JobStates : LET n == [r EXCEPT !.state = s] IN
            /\ n \in Row /\ n.state = s /\ n.step = r.step /\ n.retry_count = r.retry_count
            /\ n.worker_id = r.worker_id /\ n.lease = r.lease
         /\ LET n == Released(r) IN
            /\ n.state = r.state /\ n.step = r.step /\ n.retry_count = r.retry_count
            /\ n.worker_id = Nobody /\ n.lease = "none"
<1>1. LET n == Cancelled(r) IN
      /\ n.state = IF r.state \in Waiting THEN "CANCELLED" ELSE r.state
      /\ n.step = r.step /\ n.retry_count = r.retry_count
      /\ n.worker_id = r.worker_id /\ n.lease = r.lease
  BY DEF Row, Cancelled
<1>2. LET n == WorkerLost(r) IN
      /\ n.state = "FAILED" /\ n.step = r.step /\ n.retry_count = r.retry_count
      /\ n.worker_id = Nobody /\ n.lease = "none"
  BY DEF Row, WorkerLost
<1>3. \A s \in JobStates : LET n == [r EXCEPT !.state = s] IN
      /\ n \in Row /\ n.state = s /\ n.step = r.step /\ n.retry_count = r.retry_count
      /\ n.worker_id = r.worker_id /\ n.lease = r.lease
  BY DEF Row
<1>4. LET n == Released(r) IN
      /\ n.state = r.state /\ n.step = r.step /\ n.retry_count = r.retry_count
      /\ n.worker_id = Nobody /\ n.lease = "none"
  BY DEF Row, Released
<1> QED BY <1>1, <1>2, <1>3, <1>4

LEMMA ClosedWindows ==
  ASSUME Races = {}, NEW kind, NEW r, NEW old, NEW new, Lands(kind, r, old, new)
  PROVE  ~Overtaken(r, old, new)
BY DEF Lands

LEMMA TypeFacts ==
  ASSUME TypeOK
  PROVE  /\ \A j \in Jobs : row[j] \in Row /\ row[j].step \in 1 .. Length(j)
         /\ \A w \in Workers : \A j \in Jobs : view[w][j] # NoRow =>
              view[w][j] \in Row /\ view[w][j].step \in 1 .. Length(j)
         /\ \A c \in Clients : request[c] # NoRequest =>
              /\ request[c].job \in Jobs /\ request[c].old \in Row /\ request[c].new \in Row
BY DEF TypeOK, Request

LEMMA EffectCancelCommit ==
  ASSUME IInv, Races = {}, NEW c \in Clients, CancelCommit(c), NEW j \in Jobs
  PROVE  Unmoved(j) \/ Dequeued(j)
<1> DEFINE q == request[c]
<1>1. q.job \in Jobs /\ q.old \in Row /\ q.new = Cancelled(q.old)
  BY TypeFacts DEF IInv, Requested, CancelCommit
<1>2. ~Overtaken(row[q.job], q.old, q.new)
  BY ClosedWindows DEF CancelCommit, Save
<1>3. row' = [row EXCEPT ![q.job] = Flush(row[q.job], q.old, q.new)] /\ UNCHANGED <<steps, retries>>
  BY DEF CancelCommit, Save
<1>4. CASE j # q.job
  BY <1>1, <1>3, <1>4 DEF Unmoved, KeepsPlace, KeepsHolder, IInv, TypeOK
<1>5. CASE j = q.job
  <2>1. row'[j] = Flush(row[j], q.old, Cancelled(q.old))
    BY <1>1, <1>3, <1>5 DEF IInv, TypeOK
  <2>2. CASE q.old.state \in Waiting
    <3>1. row[j].state = q.old.state
      BY <1>1, <1>2, <1>5, <2>2, NotOvertaken, WriteFields DEF Waiting
    <3> QED BY <1>1, <1>3, <2>1, <2>2, <3>1, FlushFields, WriteFields DEF Dequeued, KeepsPlace, KeepsHolder, Waiting
  <2>3. CASE q.old.state \notin Waiting
    BY <1>1, <1>3, <2>1, <2>3, FlushFields, WriteFields DEF Unmoved, KeepsPlace, KeepsHolder
  <2> QED BY <2>2, <2>3
<1> QED BY <1>4, <1>5

LEMMA EffectRetryCommit ==
  ASSUME IInv, Races = {}, NEW c \in Clients, RetryCommit(c), NEW j \in Jobs
  PROVE  Unmoved(j) \/ Resumed(j)
<1> DEFINE q == request[c]
<1>1. q.job \in Jobs /\ q.old \in Row /\ q.old.state \in Stopped
  BY TypeFacts DEF IInv, Requested, RetryCommit
<1>2. ~Overtaken(row[q.job], q.old, q.new)
  BY ClosedWindows DEF RetryCommit, Save
<1>3. /\ row' = [row EXCEPT ![q.job] = Flush(row[q.job], q.old, q.new)]
      /\ retries' = [retries EXCEPT ![q.job] = @ + 1] /\ UNCHANGED steps
  BY DEF RetryCommit, Save
<1>4. CASE j # q.job
  BY <1>1, <1>3, <1>4 DEF Unmoved, KeepsPlace, KeepsHolder, IInv, TypeOK
<1>5. CASE j = q.job
  <2>1. q.old.retry_count = row[j].retry_count
    BY <1>2, <1>5, NotOvertaken
  <2>2. /\ q.old.retry_count < MaxRetries /\ row[j].state = q.old.state /\ row[j].step = q.old.step
        /\ q.new = Retried(q.old, row[j].step)
    BY <1>5, <2>1 DEF IInv, Requested, RetryCommit
  <2>3. row'[j] = Flush(row[j], q.old, Retried(q.old, q.old.step)) /\ retries'[j] = retries[j] + 1
    BY <1>1, <1>3, <1>5, <2>2 DEF IInv, TypeOK
  <2>4. LET n == Retried(q.old, q.old.step) IN
        /\ n.state = "RETRYING" /\ n.step = q.old.step /\ n.retry_count = q.old.retry_count + 1
        /\ n.worker_id = Nobody /\ n.lease = "none"
    BY DEF Retried
  <2>5. row[j].worker_id = Nobody /\ row[j].lease = "none"
    BY <1>1, <1>5, <2>2 DEF IInv, Leased, Stopped
  <2>6. q.old.retry_count \in Nat
    BY <1>1 DEF Row
  <2> QED BY <1>1, <1>3, <2>1, <2>2, <2>3, <2>4, <2>5, <2>6, FlushFields DEF Resumed, KeepsHolder, Stopped
<1> QED BY <1>4, <1>5

LEMMA EffectRecoverCommit ==
  ASSUME IInv, Races = {}, NEW w \in Workers, RecoverCommit(w), NEW j \in Jobs
  PROVE  Unmoved(j) \/ Lost(j)
<1> DEFINE v == view[w][j]
           hit == v # NoRow /\ Lands("recover", row[j], v, WorkerLost(v))
<1>1. /\ row'[j] = IF hit THEN Flush(row[j], v, WorkerLost(v)) ELSE row[j]
      /\ steps'[j] = IF hit THEN [steps[j] EXCEPT ![v.step] = "FAILED"] ELSE steps[j]
      /\ retries' = retries
  BY DEF RecoverCommit
<1>2. CASE ~hit
  BY <1>1, <1>2 DEF Unmoved, KeepsPlace, KeepsHolder
<1>3. CASE hit
  <2>1. v \in Row /\ ~Overtaken(row[j], v, WorkerLost(v))
    BY <1>3, ClosedWindows, TypeFacts DEF IInv
  <2>2. v.state = "RUNNING" /\ v.lease = "expired" /\ v.worker_id # Nobody
    BY <1>3 DEF IInv, Scanned, RecoverCommit
  <2>3. row[j].lease = "expired" /\ row[j].retry_count = v.retry_count
    BY <2>1, <2>2, WriteFields, NotOvertaken
  <2>4. Expired(j)
    BY <2>3 DEF IInv, Leased, Expired
  <2>5. row[j].step = v.step
    BY <1>3, <2>3, <2>4 DEF IInv, Scanned, RecoverCommit, Expired, Stopped
  <2> QED BY <1>1, <1>3, <2>1, <2>2, <2>3, <2>4, <2>5, FlushFields, WriteFields
          DEF Lost, KeepsPlace, FreesHolder, Marks
<1> QED BY <1>2, <1>3

LEMMA EffectClaimCancelled ==
  ASSUME IInv, Races = {}, NEW w \in Workers, NEW k \in Jobs, ClaimCancelled(w, k), NEW j \in Jobs
  PROVE  Unmoved(j) \/ Dequeued(j)
<1> DEFINE v == view[w][k]
           new == [v EXCEPT !.state = "CANCELLED"]
<1>1. /\ row' = [row EXCEPT ![k] = IF Lands("claim", row[k], v, new) THEN Flush(row[k], v, new) ELSE row[k]]
      /\ UNCHANGED <<steps, retries>>
  BY DEF ClaimCancelled
<1>2. CASE j # k \/ ~Lands("claim", row[k], v, new)
  BY <1>1, <1>2 DEF Unmoved, KeepsPlace, KeepsHolder, IInv, TypeOK
<1>3. CASE j = k /\ Lands("claim", row[k], v, new)
  <2>1. v \in Row /\ v.state \in Waiting
    BY TypeFacts DEF IInv, Scanned, ClaimCancelled, Candidate
  <2>2. /\ new.state = "CANCELLED" /\ new.step = v.step /\ new.retry_count = v.retry_count
        /\ new.worker_id = v.worker_id /\ new.lease = v.lease
    BY <2>1, WriteFields DEF JobStates, TERMINAL, Stopped
  <2>3. row[j].state = v.state
    <3>1. ~Overtaken(row[j], v, new)
      BY <1>3, ClosedWindows
    <3>2. new.state # v.state
      BY <2>1, <2>2 DEF Waiting
    <3> HIDE DEF new
    <3> QED BY <3>1, <3>2, NotOvertaken
  <2>4. row'[j] = Flush(row[j], v, new)
    BY <1>1, <1>3 DEF IInv, TypeOK
  <2> HIDE DEF new
  <2> QED BY <1>1, <2>1, <2>2, <2>3, <2>4, FlushFields DEF Dequeued, KeepsPlace, KeepsHolder, Waiting
<1> QED BY <1>2, <1>3

LEMMA EffectClaimWon ==
  ASSUME IInv, NEW w \in Workers, NEW k \in Jobs, ClaimWon(w, k), NEW j \in Jobs
  PROVE  IF j = k THEN Won(w, j) ELSE Unmoved(j)
<1> DEFINE won == [row[k] EXCEPT !.state = "RUNNING", !.worker_id = w, !.lease = "live"]
<1>1. row' = [row EXCEPT ![k] = won] /\ row[k].state \in Waiting /\ UNCHANGED <<steps, retries>>
  BY DEF ClaimWon
<1>2. CASE j # k
  BY <1>1, <1>2 DEF Unmoved, KeepsPlace, KeepsHolder, IInv, TypeOK
<1>3. CASE j = k
  <2>1. row[k] \in Row
    BY TypeFacts DEF IInv
  <2>2. /\ won.state = "RUNNING" /\ won.worker_id = w /\ won.lease = "live"
        /\ won.step = row[k].step /\ won.retry_count = row[k].retry_count
    BY <2>1 DEF Row
  <2>3. row'[j] = won
    BY <1>1, <1>3 DEF IInv, TypeOK
  <2> QED BY <1>1, <1>3, <2>2, <2>3 DEF Won, KeepsPlace
<1> QED BY <1>2, <1>3

LEMMA FreshFields ==
  ASSUME IInv, NEW w \in Workers, NEW j \in Jobs, Working(w, j)
  PROVE  /\ Held(w, j)
         /\ pc[w] \notin {"refresh", "start"} => stepping[w] = row[j].step
         /\ pc[w] \notin {"refresh", "failed"} =>
              /\ view[w][j] \in Row
              /\ view[w][j].state = row[j].state /\ view[w][j].step = row[j].step
              /\ view[w][j].retry_count = row[j].retry_count
              /\ view[w][j].worker_id = row[j].worker_id /\ view[w][j].lease = row[j].lease
<1>1. Held(w, j) /\ (pc[w] \notin {"refresh", "start"} => stepping[w] = row[j].step)
  BY DEF IInv, Holding, Held
<1>2. view[w][j] \in Row
  BY TypeFacts DEF IInv, Working
<1> QED BY <1>1, <1>2 DEF IInv, SessionFresh, Columns

LEMMA EffectStart ==
  ASSUME IInv, NEW w \in Workers, NEW k \in Jobs, Start(w, k), NEW j \in Jobs
  PROVE  IF j = k THEN Begun(w, j) ELSE Unmoved(j)
<1> DEFINE v == view[w][k]
           new == [v EXCEPT !.state = "RUNNING"]
<1>1. /\ row' = [row EXCEPT ![k] = Flush(row[k], v, new)]
      /\ steps' = [steps EXCEPT ![k][v.step] = "RUNNING"] /\ UNCHANGED retries
  BY DEF Start
<1>2. CASE j # k
  BY <1>1, <1>2 DEF Unmoved, KeepsPlace, KeepsHolder, IInv, TypeOK
<1>3. CASE j = k
  <2>1. Working(w, k) /\ pc[w] = "start"
    BY DEF Start, At, Working, Executing
  <2>2. /\ Held(w, k) /\ v \in Row /\ v.state = row[k].state /\ v.step = row[k].step
        /\ v.worker_id = row[k].worker_id /\ v.lease = row[k].lease
    BY <2>1, FreshFields
  <2>3. /\ new.state = "RUNNING" /\ new.step = v.step /\ new.retry_count = v.retry_count
        /\ new.worker_id = v.worker_id /\ new.lease = v.lease
    BY <2>2, WriteFields DEF JobStates
  <2>4. row'[j] = Flush(row[j], v, new) /\ steps'[j] = [steps[j] EXCEPT ![v.step] = "RUNNING"]
    BY <1>1, <1>3 DEF IInv, TypeOK
  <2> HIDE DEF new
  <2> QED BY <1>1, <1>3, <2>2, <2>3, <2>4, FlushFields DEF Begun, Held, KeepsPlace, KeepsHolder, Marks
<1> QED BY <1>2, <1>3

LEMMA EffectSucceed ==
  ASSUME IInv, NEW w \in Workers, NEW k \in Jobs, Succeed(w, k), retries' = retries, NEW j \in Jobs
  PROVE  IF j = k THEN Passed(w, j) \/ Ended(w, j) ELSE Unmoved(j)
<1> DEFINE v == view[w][k]
<1>1. PICK new \in Completed(k, v, stepping[w]) : row' = [row EXCEPT ![k] = Flush(row[k], v, new)]
  BY DEF Succeed
<1>2. steps' = [steps EXCEPT ![k][stepping[w]] = "SUCCEEDED"]
  BY DEF Succeed
<1>3. CASE j # k
  BY <1>1, <1>2, <1>3 DEF Unmoved, KeepsPlace, KeepsHolder, IInv, TypeOK
<1>4. CASE j = k
  <2>1. Working(w, k) /\ pc[w] = "commit"
    BY DEF Succeed, At, Working, Executing
  <2>2. /\ Held(w, k) /\ v \in Row /\ v.state = row[k].state /\ v.step = row[k].step
        /\ v.worker_id = row[k].worker_id /\ v.lease = row[k].lease
        /\ stepping[w] = row[k].step
    BY <2>1, FreshFields
  <2>3. row[k].step \in 1 .. Length(k) /\ Length(k) \in Nat
    BY LengthType, TypeFacts DEF IInv
  <2>4. row'[j] = Flush(row[j], v, new) /\ steps'[j] = [steps[j] EXCEPT ![row[j].step] = "SUCCEEDED"]
    BY <1>1, <1>2, <1>4, <2>2 DEF IInv, TypeOK
  <2>5. CASE stepping[w] = Length(k)
    <3>1. PICK s \in Outcomes(Kind[k]) : new = Released([v EXCEPT !.state = s])
      BY <1>1, <2>5 DEF Completed
    <3>2. s \in Finished /\ s \in JobStates
      BY DEF Outcomes, Finished, JobStates, TERMINAL
    <3> DEFINE mid == [v EXCEPT !.state = s]
    <3>3. mid \in Row /\ mid.state = s /\ mid.step = v.step /\ mid.retry_count = v.retry_count
      BY <2>2, <3>2, WriteFields
    <3>4. /\ new.state = s /\ new.step = v.step /\ new.retry_count = v.retry_count
          /\ new.worker_id = Nobody /\ new.lease = "none"
      BY <3>1, <3>3, WriteFields
    <3>5. s # "RUNNING"
      BY <3>2 DEF Finished
    <3>6. /\ row'[j].state = s /\ row'[j].step = row[j].step
          /\ row'[j].retry_count = row[j].retry_count /\ FreesHolder(j)
      BY <1>4, <2>2, <2>4, <3>4, <3>5, FlushFields DEF Held, FreesHolder
    <3>7. Ended(w, j)
      BY <1>4, <2>2, <2>4, <2>5, <3>2, <3>6 DEF Ended, KeepsPlace, Marks
    <3> QED BY <1>4, <3>7
  <2>6. CASE stepping[w] # Length(k)
    <3> DEFINE next == [v EXCEPT !.state = "QUEUED", !.step = stepping[w] + 1]
    <3>1. new = Released(next)
      BY <1>1, <2>6 DEF Completed
    <3>2. /\ next \in Row /\ next.state = "QUEUED" /\ next.step = v.step + 1
          /\ next.retry_count = v.retry_count
      <4>1. stepping[w] + 1 \in Nat \ {0} /\ stepping[w] + 1 = v.step + 1
        BY <2>2, <2>3
      <4> QED BY <2>2, <4>1 DEF Row, JobStates, Waiting
    <3>3. /\ new.state = "QUEUED" /\ new.step = v.step + 1 /\ new.retry_count = v.retry_count
          /\ new.worker_id = Nobody /\ new.lease = "none"
      BY <3>1, <3>2, WriteFields
    <3>4. Passed(w, j)
      BY <1>4, <2>2, <2>3, <2>4, <2>6, <3>3, FlushFields, NobodyAssumption
      DEF Passed, Held, FreesHolder, Marks
    <3> QED BY <1>4, <3>4
  <2> QED BY <2>5, <2>6
<1> QED BY <1>3, <1>4

LEMMA EffectStepFails ==
  ASSUME IInv, NEW w \in Workers, NEW k \in Jobs, StepFails(w, k), NEW j \in Jobs
  PROVE  IF j = k THEN Broken(w, j) ELSE Unmoved(j)
<1> DEFINE v == view[w][k]
           new == Released([v EXCEPT !.state = verdict[w]])
<1>1. /\ row' = [row EXCEPT ![k] = Flush(row[k], v, new)]
      /\ steps' = [steps EXCEPT ![k][stepping[w]] = "FAILED"] /\ UNCHANGED retries
  BY DEF StepFails
<1>2. CASE j # k
  BY <1>1, <1>2 DEF Unmoved, KeepsPlace, KeepsHolder, IInv, TypeOK
<1>3. CASE j = k
  <2>1. Working(w, k) /\ pc[w] = "failing"
    BY DEF StepFails, At, Working, Executing
  <2>2. /\ Held(w, k) /\ v \in Row /\ v.state = row[k].state /\ v.step = row[k].step
        /\ v.worker_id = row[k].worker_id /\ v.lease = row[k].lease
        /\ stepping[w] = row[k].step
    BY <2>1, FreshFields
  <2>3. verdict[w] \in Stopped /\ verdict[w] \in JobStates
    BY DEF IInv, TypeOK, Stopped, JobStates, TERMINAL
  <2>4. /\ new.state = verdict[w] /\ new.step = v.step /\ new.retry_count = v.retry_count
        /\ new.worker_id = Nobody /\ new.lease = "none"
    <3> DEFINE mid == [v EXCEPT !.state = verdict[w]]
    <3>1. /\ mid \in Row /\ mid.state = verdict[w] /\ mid.step = v.step
          /\ mid.retry_count = v.retry_count
      BY <2>2, <2>3, WriteFields
    <3> QED BY <3>1, WriteFields
  <2>5. row'[j] = Flush(row[j], v, new) /\ steps'[j] = [steps[j] EXCEPT ![row[j].step] = "FAILED"]
    BY <1>1, <1>3, <2>2 DEF IInv, TypeOK
  <2> HIDE DEF new
  <2> QED BY <1>1, <1>3, <2>2, <2>3, <2>4, <2>5, FlushFields, NobodyAssumption
          DEF Broken, Held, KeepsPlace, FreesHolder, Marks, Stopped
<1> QED BY <1>2, <1>3

\* A pulse changes nothing that counts: the lease it renews has not expired.
LEMMA EffectPulse ==
  ASSUME IInv, NEW w \in Workers, Pulse(w), NEW j \in Jobs
  PROVE  Unmoved(j)
<1> DEFINE renews == j = current[w] /\ row[j].worker_id = w
           l == IF renews THEN "live" ELSE row[j].lease
<1>1. row[j] \in Row
  BY TypeFacts DEF IInv
<1>2. row'[j] = [row[j] EXCEPT !.lease = l] /\ UNCHANGED <<steps, retries>>
  BY DEF Pulse
<1>3. l = row[j].lease
  <2>1. CASE renews
    <3>1. row[j].lease # "none"
      BY <2>1, NobodyAssumption DEF IInv, Leased
    <3>2. row[j].lease # "expired"
      BY <2>1 DEF IInv, ExpiredForGood, Renewed
    <3> QED BY <1>1, <2>1, <3>1, <3>2 DEF Row
  <2> QED BY <2>1
<1>4. row'[j] = row[j]
  BY <1>1, <1>2, <1>3 DEF Row
<1> QED BY <1>2, <1>4 DEF Unmoved, KeepsPlace, KeepsHolder

LEMMA EffectLeaseExpires ==
  ASSUME IInv, Races = {}, NEW k \in Jobs, LeaseExpires(k), NEW j \in Jobs
  PROVE  IF j = k THEN Lapsed(j) ELSE Unmoved(j)
<1>1. row' = [row EXCEPT ![k] = [row[k] EXCEPT !.lease = "expired"]] /\ UNCHANGED <<steps, retries>>
  BY DEF LeaseExpires
<1>2. row[k] \in Row
  BY TypeFacts DEF IInv
<1>3. CASE j # k
  BY <1>1, <1>3 DEF Unmoved, KeepsPlace, KeepsHolder, IInv, TypeOK
<1>4. CASE j = k
  <2>1. row'[j] = [row[j] EXCEPT !.lease = "expired"]
    BY <1>1, <1>4 DEF IInv, TypeOK
  <2>2. ~Renewed(j) /\ row[j].lease = "live"
    BY <1>4 DEF LeaseExpires
  <2> QED BY <1>1, <1>2, <1>4, <2>1, <2>2 DEF Lapsed, KeepsPlace, Row
<1> QED BY <1>3, <1>4


-------------------------------------------------------------------------------
(* The second layer: what every effect preserves *)

SessionSound(w) ==
  \A j \in Jobs :
    /\ Working(w, j) =>
         /\ Held(w, j)
         /\ pc[w] \notin {"refresh", "start"} => stepping[w] = row[j].step
         /\ pc[w] \notin {"refresh", "failed"} =>
              \A col \in Columns \ {"cancel_requested"} : view[w][j][col] = row[j][col]
    /\ view[w][j] # NoRow =>
         LET v == view[w][j] IN
         /\ pc[w] = "cas" => v.state \in Waiting
         /\ pc[w] = "recover" =>
              /\ v.state = "RUNNING" /\ v.lease = "expired" /\ v.worker_id # Nobody
              /\ v.retry_count <= row[j].retry_count
              /\ v.retry_count = row[j].retry_count =>
                   row[j].state \in Stopped \/ (Expired(j) /\ row[j].step = v.step)

LEMMA SessionsSound ==
  (\A w \in Workers : SessionSound(w)) <=> Holding /\ SessionFresh /\ Scanned
BY DEF SessionSound, Holding, SessionFresh, Scanned, Held

EveryEffect == \A j \in Jobs : ByNobody(j) \/ \E w \in Workers : ByWorker(w, j)

LEMMA Naturals ==
  ASSUME IInv, NEW j \in Jobs
  PROVE  /\ row[j].retry_count \in Nat /\ row[j].step \in Nat /\ Length(j) \in Nat
         /\ row[j].step \in 1 .. Length(j) /\ retries[j] \in Nat
         /\ steps[j] \in [1 .. Length(j) -> StepStates]
         /\ \A w \in Workers : view[w][j] # NoRow => view[w][j].retry_count \in Nat
BY LengthType, TypeFacts DEF IInv, TypeOK, Row

LEMMA TablesSound ==
  ASSUME IInv, TypeOK', EveryEffect
  PROVE  (Leased /\ Checkpoints /\ RetriesCounted)'
<1> SUFFICES ASSUME NEW j \in Jobs, ByNobody(j) \/ \E w \in Workers : ByWorker(w, j)
             PROVE  /\ row'[j].state = "RUNNING" <=> row'[j].worker_id # Nobody
                    /\ row'[j].state = "RUNNING" <=> row'[j].lease # "none"
                    /\ \A i \in 1 .. Length(j) :
                         /\ i < row'[j].step => steps'[j][i] = "SUCCEEDED"
                         /\ i > row'[j].step => steps'[j][i] = "QUEUED"
                         /\ steps'[j][i] = "RUNNING" => row'[j].state = "RUNNING"
                    /\ steps'[j][row'[j].step] = "SUCCEEDED" <=> row'[j].state \in Finished
                    /\ row'[j].state \in Finished => row'[j].step = Length(j)
                    /\ retries'[j] = row'[j].retry_count /\ row'[j].retry_count <= MaxRetries
  BY DEF EveryEffect, Leased, Checkpoints, RetriesCounted
<1>1. /\ row[j].state = "RUNNING" <=> row[j].worker_id # Nobody
      /\ row[j].state = "RUNNING" <=> row[j].lease # "none"
      /\ \A i \in 1 .. Length(j) :
           /\ i < row[j].step => steps[j][i] = "SUCCEEDED"
           /\ i > row[j].step => steps[j][i] = "QUEUED"
           /\ steps[j][i] = "RUNNING" => row[j].state = "RUNNING"
      /\ steps[j][row[j].step] = "SUCCEEDED" <=> row[j].state \in Finished
      /\ row[j].state \in Finished => row[j].step = Length(j)
      /\ retries[j] = row[j].retry_count /\ row[j].retry_count <= MaxRetries
  BY DEF IInv, Leased, Checkpoints, RetriesCounted
<1> USE <1>1, Naturals, NobodyAssumption, BoundsAssumption
    DEF KeepsPlace, KeepsHolder, FreesHolder, Marks, Held, Waiting, Stopped, Finished
<1>2. CASE Unmoved(j)
  BY <1>2 DEF Unmoved
<1>3. CASE Dequeued(j)
  BY <1>3 DEF Dequeued
<1>4. CASE Resumed(j)
  BY <1>4 DEF Resumed
<1>5. CASE Lost(j)
  BY <1>5 DEF Lost, Expired
<1>6. CASE Lapsed(j)
  BY <1>6 DEF Lapsed
<1>7. ASSUME NEW w \in Workers, ByWorker(w, j)
      PROVE  /\ row'[j].state = "RUNNING" <=> row'[j].worker_id # Nobody
             /\ row'[j].state = "RUNNING" <=> row'[j].lease # "none"
             /\ \A i \in 1 .. Length(j) :
                  /\ i < row'[j].step => steps'[j][i] = "SUCCEEDED"
                  /\ i > row'[j].step => steps'[j][i] = "QUEUED"
                  /\ steps'[j][i] = "RUNNING" => row'[j].state = "RUNNING"
             /\ steps'[j][row'[j].step] = "SUCCEEDED" <=> row'[j].state \in Finished
             /\ row'[j].state \in Finished => row'[j].step = Length(j)
             /\ retries'[j] = row'[j].retry_count /\ row'[j].retry_count <= MaxRetries
  <2>1. CASE Won(w, j)
    BY <2>1 DEF Won
  <2>2. CASE Begun(w, j)
    BY <2>2 DEF Begun
  <2>3. CASE Passed(w, j)
    BY <2>3 DEF Passed
  <2>4. CASE Ended(w, j)
    BY <2>4 DEF Ended
  <2>5. CASE Broken(w, j)
    BY <2>5 DEF Broken
  <2> QED BY <1>7, <2>1, <2>2, <2>3, <2>4, <2>5 DEF ByWorker
<1> QED BY <1>2, <1>3, <1>4, <1>5, <1>6, <1>7 DEF ByNobody

RequestSound(c) ==
  request[c] # NoRequest =>
    LET q == request[c]
        r == row[q.job]
    IN
    /\ q.op = "cancel" => q.new = Cancelled(q.old) /\ q.old.state \notin TERMINAL
    /\ q.op \in {"retry", "resume"} =>
         /\ q.old.state \in Stopped
         /\ q.old.retry_count < MaxRetries
         /\ q.old.retry_count <= r.retry_count
         /\ q.old.retry_count = r.retry_count => r.state = q.old.state /\ r.step = q.old.step
    /\ q.op = "resume" =>
         \E i \in 1 .. Length(q.job) :
           /\ q.new = Retried(q.old, i)
           /\ q.old.retry_count = r.retry_count => i = r.step

LEMMA AllRequests == Requested <=> \A c \in Clients : RequestSound(c)
BY DEF Requested, RequestSound

\* A request in flight stays in agreement with the row it has loaded, whoever
\* takes a step.
LEMMA RequestStaysSound ==
  ASSUME IInv, EveryEffect, NEW c \in Clients, request'[c] = request[c]
  PROVE  RequestSound(c)'
<1> SUFFICES ASSUME request[c] # NoRequest, request[c].op \in {"retry", "resume"}
             PROVE  LET q == request[c] IN
                    /\ q.old.retry_count <= row'[q.job].retry_count
                    /\ q.old.retry_count = row'[q.job].retry_count =>
                         /\ q.old.retry_count = row[q.job].retry_count
                         /\ row'[q.job].state = row[q.job].state
                         /\ row'[q.job].step = row[q.job].step
  BY DEF IInv, Requested, RequestSound
<1> DEFINE j == request[c].job
<1>1. j \in Jobs /\ request[c].old.retry_count \in Nat /\ row[j].retry_count \in Nat
  BY Naturals, TypeFacts DEF IInv, Row
<1>2. /\ request[c].old.retry_count <= row[j].retry_count
      /\ request[c].old.retry_count = row[j].retry_count => row[j].state \in Stopped
  BY DEF IInv, Requested
<1>3. ByNobody(j) \/ \E w \in Workers : ByWorker(w, j)
  BY <1>1 DEF EveryEffect
<1> HIDE DEF j
<1>4. \/ row'[j].retry_count = row[j].retry_count + 1
      \/ /\ row'[j].retry_count = row[j].retry_count
         /\ row[j].state \in Stopped => row'[j].state = row[j].state /\ row'[j].step = row[j].step
  BY <1>3 DEF ByNobody, ByWorker, Unmoved, Dequeued, Resumed, Lost, Lapsed, Won, Begun, Passed, Ended,
              Broken, Held, Expired, KeepsPlace, Waiting, Stopped
<1> QED BY <1>1, <1>2, <1>4 DEF j

LEMMA LeasesSound ==
  ASSUME IInv, EveryEffect, Holding', \A w \in Workers : current'[w] \in {current[w], NoJob}
  PROVE  ExpiredForGood'
<1> SUFFICES ASSUME NEW j \in Jobs, row'[j].lease = "expired", NEW w \in Workers, row'[j].worker_id = w
             PROVE  current'[w] # j /\ ~Working(w, j)'
  BY DEF ExpiredForGood, Renewed
<1>1. ~Working(w, j)'
  BY DEF Holding
<1>2. ~Renewed(j) /\ row[j].worker_id = w
  BY DEF EveryEffect, ByNobody, ByWorker, Unmoved, Dequeued, Resumed, Lost, Lapsed, Won, Begun, Passed,
         Ended, Broken, Held, FreesHolder, KeepsHolder, IInv, ExpiredForGood
<1> QED BY <1>1, <1>2, JobsAssumption DEF Renewed

\* A worker that takes no step stays in agreement with the database, whoever
\* takes one.
LEMMA BystandersSound ==
  ASSUME IInv, NEW w \in Workers, pc'[w] = pc[w], view'[w] = view[w], stepping'[w] = stepping[w],
         \A j \in Jobs : ByNobody(j) \/ \E v \in Workers \ {w} : ByWorker(v, j)
  PROVE  SessionSound(w)'
<1> SUFFICES ASSUME NEW j \in Jobs, view[w][j] # NoRow
             PROVE  /\ Working(w, j) => Unmoved(j)
                    /\ pc[w] = "recover" =>
                         /\ view[w][j].retry_count <= row'[j].retry_count
                         /\ view[w][j].retry_count = row'[j].retry_count =>
                              \/ row'[j].state \in Stopped
                              \/ Expired(j)' /\ row'[j].step = view[w][j].step
  <2>1. SessionSound(w)
    BY SessionsSound DEF IInv
  <2>2. \A j \in Jobs : Working(w, j)' <=> Working(w, j)
    BY DEF Working
  <2>3. \A j \in Jobs : Unmoved(j) => \A col \in Columns \ {"cancel_requested"} : row'[j][col] = row[j][col]
    BY DEF Unmoved, KeepsPlace, KeepsHolder, Columns
  <2>4. \A j \in Jobs : Unmoved(j) /\ Held(w, j) => Held(w, j)' /\ row'[j].step = row[j].step
    BY DEF Unmoved, KeepsPlace, KeepsHolder, Held
  <2>5. \A j \in Jobs : Working(w, j) => view[w][j] # NoRow
    BY DEF Working
  <2> QED BY <2>1, <2>2, <2>3, <2>4, <2>5 DEF SessionSound
<1>1. ByNobody(j) \/ \E v \in Workers \ {w} : ByWorker(v, j)
  OBVIOUS
<1>2. ASSUME Working(w, j) PROVE Unmoved(j)
  <2>1. Held(w, j) /\ Renewed(j)
    BY <1>2, FreshFields DEF Renewed, Held
  <2> QED BY <1>1, <2>1 DEF ByNobody, ByWorker, Dequeued, Resumed, Lost, Lapsed, Won, Begun, Passed, Ended,
                            Broken, Held, Expired, Waiting, Stopped
<1>3. ASSUME pc[w] = "recover"
      PROVE  /\ view[w][j].retry_count <= row'[j].retry_count
             /\ view[w][j].retry_count = row'[j].retry_count =>
                  \/ row'[j].state \in Stopped
                  \/ Expired(j)' /\ row'[j].step = view[w][j].step
  <2>1. /\ view[w][j].retry_count \in Nat /\ row[j].retry_count \in Nat
        /\ view[w][j].retry_count <= row[j].retry_count
        /\ view[w][j].retry_count = row[j].retry_count =>
             row[j].state \in Stopped \/ (Expired(j) /\ row[j].step = view[w][j].step)
    BY <1>3, Naturals DEF IInv, Scanned
  <2>2. \/ row'[j].retry_count = row[j].retry_count + 1
        \/ /\ row'[j].retry_count = row[j].retry_count
           /\ row[j].state \in Stopped \/ Expired(j) =>
                \/ row'[j].state \in Stopped
                \/ Expired(j) /\ Expired(j)' /\ row'[j].step = row[j].step
    BY <1>1 DEF ByNobody, ByWorker, Unmoved, Dequeued, Resumed, Lost, Lapsed, Won, Begun, Passed, Ended,
                Broken, Held, Expired, KeepsPlace, KeepsHolder, Waiting, Stopped
  <2>3. row[j].state \in Stopped => ~Expired(j)
    BY DEF Stopped, Expired
  <2> QED BY <2>1, <2>2, <2>3
<1> QED BY <1>2, <1>3

-------------------------------------------------------------------------------
(* The third layer: the worker that takes the step *)

\* A step of a worker's main thread, or the death of it.
Acts(w) == WorkerStep(w) \/ Escape(w) \/ Crash(w)

\* A worker touches no request and no other worker's session.
LEMMA ActorFrame ==
  ASSUME IInv, NEW w \in Workers, Acts(w)
  PROVE  /\ request' = request
         /\ \A v \in Workers \ {w} : /\ pc'[v] = pc[v] /\ view'[v] = view[v]
                                    /\ stepping'[v] = stepping[v] /\ current'[v] = current[v]
<1> USE DEF IInv, TypeOK, GoTo, Raise, Return, Proceed, NextCandidate
<1>1. CASE Boot(w) \/ RecoverScan(w) \/ RecoverCommit(w) \/ ClaimRefused(w) \/ ClaimScan(w)
  BY <1>1 DEF Boot, RecoverScan, RecoverCommit, ClaimRefused, ClaimScan
<1>2. ASSUME NEW k \in Jobs, ClaimStep(w, k)
      PROVE  /\ request' = request
             /\ \A v \in Workers \ {w} : /\ pc'[v] = pc[v] /\ view'[v] = view[v]
                                        /\ stepping'[v] = stepping[v] /\ current'[v] = current[v]
  BY <1>2 DEF ClaimStep, ClaimCancelled, ClaimWon, ClaimLost, Refresh
<1>3. ASSUME NEW k \in Jobs, ExecuteStep(w, k)
      PROVE  /\ request' = request
             /\ \A v \in Workers \ {w} : /\ pc'[v] = pc[v] /\ view'[v] = view[v]
                                        /\ stepping'[v] = stepping[v] /\ current'[v] = current[v]
  <2>1. CASE StartRefused(w, k) \/ Start(w, k)
    BY <2>1 DEF StartRefused, Start
  <2>2. CASE Enter(w, k) \/ HandlerReturns(w, k) \/ HandlerCancelled(w, k) \/ Recheck(w, k) \/ StepRaises(w, k)
    BY <2>2 DEF Enter, HandlerReturns, HandlerCancelled, Recheck, StepRaises
  <2>3. CASE StepSucceeds(w, k) \/ Reload(w, k) \/ ReloadRefused(w, k) \/ StepFails(w, k)
    BY <2>3 DEF StepSucceeds, Reload, ReloadRefused, StepFails
  <2> QED BY <1>3, <2>1, <2>2, <2>3 DEF ExecuteStep
<1>4. CASE Escape(w) \/ Crash(w)
  BY <1>4 DEF Escape, Crash
<1> QED BY <1>1, <1>2, <1>3, <1>4 DEF Acts, WorkerStep

\* What a step of a worker does to every job: nothing, what anybody may do, or
\* what the worker that holds the job may do.
LEMMA ActorEffect ==
  ASSUME IInv, Races = {}, NEW w \in Workers, Acts(w), NEW j \in Jobs
  PROVE  ByNobody(j) \/ ByWorker(w, j)
<1>1. ASSUME UNCHANGED database PROVE Unmoved(j)
  BY <1>1 DEF database, Unmoved, KeepsPlace, KeepsHolder
<1>2. CASE Boot(w) \/ RecoverScan(w) \/ ClaimRefused(w) \/ ClaimScan(w) \/ Escape(w) \/ Crash(w)
  BY <1>1, <1>2 DEF Boot, RecoverScan, ClaimRefused, ClaimScan, Escape, Crash, ByNobody
<1>3. CASE RecoverCommit(w)
  BY <1>3, EffectRecoverCommit DEF ByNobody
<1>4. ASSUME NEW k \in Jobs, ClaimStep(w, k) PROVE ByNobody(j) \/ ByWorker(w, j)
  <2>1. CASE ClaimCancelled(w, k)
    BY <2>1, EffectClaimCancelled DEF ByNobody
  <2>2. CASE ClaimWon(w, k)
    BY <2>2, EffectClaimWon DEF ByNobody, ByWorker
  <2>3. CASE ClaimLost(w, k) \/ Refresh(w, k)
    BY <1>1, <2>3 DEF ClaimLost, Refresh, ByNobody
  <2> QED BY <1>4, <2>1, <2>2, <2>3 DEF ClaimStep
<1>5. ASSUME NEW k \in Jobs, ExecuteStep(w, k) PROVE ByNobody(j) \/ ByWorker(w, j)
  <2>1. CASE StartRefused(w, k) \/ Enter(w, k) \/ HandlerReturns(w, k) \/ HandlerCancelled(w, k)
             \/ Recheck(w, k) \/ StepRaises(w, k) \/ Reload(w, k) \/ ReloadRefused(w, k)
    BY <1>1, <2>1 DEF StartRefused, Enter, HandlerReturns, HandlerCancelled, Recheck, StepRaises,
                      Reload, ReloadRefused, ByNobody
  <2>2. CASE Start(w, k)
    BY <2>2, EffectStart DEF ByNobody, ByWorker
  <2>3. CASE StepSucceeds(w, k)
    <3>1. Succeed(w, k) /\ retries' = retries
      BY <2>3 DEF StepSucceeds
    <3> QED BY <3>1, EffectSucceed DEF ByNobody, ByWorker
  <2>4. CASE StepFails(w, k)
    BY <2>4, EffectStepFails DEF ByNobody, ByWorker
  <2> QED BY <1>5, <2>1, <2>2, <2>3, <2>4 DEF ExecuteStep
<1> QED BY <1>2, <1>3, <1>4, <1>5 DEF Acts, WorkerStep

\* A worker that is left with no claim to defend agrees with any database.
LEMMA IdleSound ==
  ASSUME NEW w \in Workers, pc'[w] \in {"off", "loop", "claim"}
  PROVE  SessionSound(w)'
BY DEF SessionSound, Working, Executing

\* A worker that only moves on inside execute_step keeps agreeing.
LEMMA StaysSound ==
  ASSUME IInv, NEW w \in Workers, UNCHANGED <<row, view, stepping>>,
         pc[w] \in {"enter", "handle", "recheck", "commit"},
         pc'[w] \in {"handle", "recheck", "commit", "failed"}
  PROVE  SessionSound(w)'
<1>1. SessionSound(w)
  BY SessionsSound DEF IInv
<1> QED BY <1>1 DEF SessionSound, Working, Executing, Held, Expired

\* The worker that takes a step agrees with the database after it: it has just
\* loaded the rows, or the row it holds has not been touched since it did.
LEMMA ActorSession ==
  ASSUME IInv, Races = {}, NEW w \in Workers, Acts(w), TypeOK'
  PROVE  SessionSound(w)'
<1> USE DEF GoTo, Raise, Return
<1>1. CASE Boot(w) \/ RecoverCommit(w) \/ ClaimRefused(w) \/ Escape(w) \/ Crash(w)
  BY <1>1, IdleSound DEF IInv, TypeOK, Boot, RecoverCommit, ClaimRefused, Escape, Crash
<1>2. CASE RecoverScan(w)
  <2>1. pc'[w] \in {"recover", "claim"} /\ row' = row
    BY <1>2 DEF RecoverScan, database, IInv, TypeOK
  <2>2. \A j \in Jobs : view'[w][j] # NoRow => Expired(j) /\ view'[w][j] = row[j]
    BY <1>2 DEF RecoverScan, IInv, TypeOK
  <2>3. \A j \in Jobs : /\ row[j].retry_count <= row[j].retry_count
                        /\ Expired(j) => /\ row[j].state = "RUNNING" /\ row[j].lease = "expired"
                                         /\ row[j].worker_id # Nobody /\ Expired(j)'
    BY <2>1, Naturals DEF Expired, IInv, Leased
  <2> QED BY <2>1, <2>2, <2>3 DEF SessionSound, Working, Executing
<1>3. CASE ClaimScan(w)
  <2>1. pc'[w] \in {"cas", "loop"}
    BY <1>3 DEF ClaimScan, IInv, TypeOK
  <2>2. \A j \in Jobs : view'[w][j] # NoRow => view'[w][j].state \in Waiting
    BY <1>3 DEF ClaimScan, Claimable, IInv, TypeOK
  <2> QED BY <2>1, <2>2 DEF SessionSound, Working, Executing
<1>4. ASSUME NEW k \in Jobs, ClaimStep(w, k) PROVE SessionSound(w)'
  <2>1. CASE ClaimCancelled(w, k) \/ ClaimLost(w, k)
    <3>1. pc'[w] \in {"cas", "loop"} /\ pc[w] = "cas"
      BY <2>1 DEF ClaimCancelled, ClaimLost, NextCandidate, Candidate, IInv, TypeOK
    <3>2. \A j \in Jobs : view'[w][j] # NoRow => view[w][j] # NoRow /\ view'[w][j] = view[w][j]
      BY <2>1 DEF ClaimCancelled, ClaimLost, NextCandidate, Drop, IInv, TypeOK
    <3> QED BY <3>1, <3>2 DEF SessionSound, Working, Executing, IInv, Scanned
  <2>2. CASE ClaimWon(w, k)
    <3>1. pc'[w] = "refresh" /\ \A j \in Jobs : view'[w][j] # NoRow => j = k
      BY <2>2 DEF ClaimWon, Only, NoView, IInv, TypeOK
    <3>2. Held(w, k)'
      BY <2>2, EffectClaimWon DEF Won, Held
    <3> QED BY <3>1, <3>2 DEF SessionSound, Working
  <2>3. CASE Refresh(w, k)
    <3>1. pc'[w] = "start" /\ row' = row
      BY <2>3 DEF Refresh, database, IInv, TypeOK
    <3>2. \A j \in Jobs : view'[w][j] # NoRow => j = k /\ view'[w][j] = row[j]
      BY <2>3 DEF Refresh, Only, NoView, IInv, TypeOK
    <3>3. Working(w, k)
      BY <2>3 DEF Refresh, Working, Executing
    <3>4. Held(w, k)'
      BY <3>1, <3>3, FreshFields DEF Held
    <3> QED BY <3>1, <3>2, <3>4 DEF SessionSound, Working
  <2> QED BY <1>4, <2>1, <2>2, <2>3 DEF ClaimStep
<1>5. ASSUME NEW k \in Jobs, ExecuteStep(w, k) PROVE SessionSound(w)'
  <2>1. CASE StartRefused(w, k) \/ StepSucceeds(w, k) \/ ReloadRefused(w, k) \/ StepFails(w, k)
    BY <2>1, IdleSound DEF IInv, TypeOK, StartRefused, StepSucceeds, ReloadRefused, StepFails
  <2>2. CASE Start(w, k)
    <3> DEFINE v == view[w][k]
               new == [v EXCEPT !.state = "RUNNING"]
    <3>1. Working(w, k) /\ pc[w] = "start"
      BY <2>2 DEF Start, At, Working, Executing
    <3>2. /\ Held(w, k) /\ v \in Row /\ v.state = row[k].state /\ v.step = row[k].step
          /\ v.retry_count = row[k].retry_count
          /\ v.worker_id = row[k].worker_id /\ v.lease = row[k].lease
      BY <3>1, FreshFields
    <3>3. /\ new.state = "RUNNING" /\ new.step = v.step /\ new.retry_count = v.retry_count
          /\ new.worker_id = v.worker_id /\ new.lease = v.lease
      BY <3>2, WriteFields DEF JobStates
    <3>4. /\ row'[k].state = "RUNNING" /\ row'[k].step = row[k].step
          /\ row'[k].retry_count = row[k].retry_count
          /\ row'[k].worker_id = row[k].worker_id /\ row'[k].lease = row[k].lease
      BY <2>2, EffectStart DEF Begun, KeepsPlace, KeepsHolder
    <3>5. /\ pc'[w] = "enter" /\ stepping'[w] = v.step /\ view'[w][k] = new
          /\ \A j \in Jobs : view'[w][j] # NoRow => j = k
      BY <2>2, <3>1 DEF Start, IInv, TypeOK, OneJob, Executing, At
    <3> HIDE DEF new
    <3>6. \A col \in Columns \ {"cancel_requested"} : view'[w][k][col] = row'[k][col]
      BY <3>2, <3>3, <3>4, <3>5 DEF Columns, Held
    <3>7. Held(w, k)' /\ stepping'[w] = row'[k].step
      BY <3>2, <3>4, <3>5 DEF Held
    <3> QED BY <3>5, <3>6, <3>7 DEF SessionSound, Working
  <2>3. CASE Enter(w, k) \/ HandlerReturns(w, k) \/ HandlerCancelled(w, k) \/ Recheck(w, k) \/ StepRaises(w, k)
    <3>1. /\ UNCHANGED <<row, view, stepping>> /\ pc[w] \in {"enter", "handle", "recheck", "commit"}
          /\ pc'[w] \in {"handle", "recheck", "commit", "failed"}
      BY <2>3 DEF Enter, HandlerReturns, HandlerCancelled, Recheck, StepRaises, Proceed, At, database, IInv, TypeOK
    <3> QED BY <3>1, StaysSound
  <2>4. CASE Reload(w, k)
    <3>1. Working(w, k) /\ pc[w] = "failed"
      BY <2>4 DEF Reload, At, Working, Executing
    <3>2. pc'[w] = "failing" /\ row' = row /\ stepping' = stepping /\ view'[w][k] = row[k]
      BY <2>4 DEF Reload, database, IInv, TypeOK
    <3>3. \A j \in Jobs : view'[w][j] # NoRow => j = k
      BY <2>4, <3>1 DEF Reload, IInv, TypeOK, OneJob, Working
    <3>4. Held(w, k)' /\ stepping'[w] = row'[k].step
      BY <3>1, <3>2, FreshFields DEF Held
    <3> QED BY <3>2, <3>3, <3>4 DEF SessionSound, Working
  <2> QED BY <1>5, <2>1, <2>2, <2>3, <2>4 DEF ExecuteStep
<1> QED BY <1>1, <1>2, <1>3, <1>4, <1>5 DEF Acts, WorkerStep

-------------------------------------------------------------------------------
(* The requests, and everything together *)

\* A request that loads a row, checks the checkpoints of it or commits remembers
\* what is true of the row.
LEMMA ClientSound ==
  ASSUME IInv, Races = {}, NEW c \in Clients, ClientStep(c)
  PROVE  EveryEffect /\ Requested' /\ UNCHANGED session
<1>1. ASSUME UNCHANGED database PROVE EveryEffect
  BY <1>1 DEF database, EveryEffect, ByNobody, Unmoved, KeepsPlace, KeepsHolder
<1>2. ASSUME EveryEffect, \A d \in Clients \ {c} : request'[d] = request[d], RequestSound(c)'
      PROVE  EveryEffect /\ Requested'
  <2>1. \A d \in Clients : RequestSound(d)'
    BY <1>2, RequestStaysSound
  <2> QED BY <1>2, <2>1, AllRequests DEF Requested, RequestSound
<1>3. ASSUME NEW j \in Jobs, CancelLoad(c, j) PROVE EveryEffect /\ Requested' /\ UNCHANGED session
  <2>1. RequestSound(c)'
    BY <1>3 DEF CancelLoad, RequestSound, IInv, TypeOK
  <2> QED BY <1>1, <1>2, <1>3, <2>1 DEF CancelLoad, IInv, TypeOK
<1>4. ASSUME NEW j \in Jobs, RetryLoad(c, j) PROVE EveryEffect /\ Requested' /\ UNCHANGED session
  <2>1. RequestSound(c)'
    BY <1>4, Naturals DEF RetryLoad, RequestSound, IInv, TypeOK, database
  <2> QED BY <1>1, <1>2, <1>4, <2>1 DEF RetryLoad, IInv, TypeOK
<1>5. CASE RetryCheck(c)
  <2> DEFINE q == request[c]
  <2>1. PICK i \in 1 .. Length(q.job) :
          /\ \A k \in 1 .. (i - 1) : steps[q.job][k] = "SUCCEEDED"
          /\ steps[q.job][i] # "SUCCEEDED"
          /\ request' = [request EXCEPT ![c] =
               [op |-> "resume", job |-> q.job, old |-> q.old, new |-> Retried(q.old, i)]]
    BY <1>5 DEF RetryCheck, MayResume, Passes
  <2>2. q # NoRequest /\ q.op = "retry" /\ UNCHANGED <<database, session>>
    BY <1>5 DEF RetryCheck
  <2>3. q.job \in Jobs /\ RequestSound(c)
    BY <2>2, TypeFacts, AllRequests DEF IInv
  <2>4. request'[c] = [op |-> "resume", job |-> q.job, old |-> q.old, new |-> Retried(q.old, i)]
    BY <2>1 DEF IInv, TypeOK
  <2>5. ASSUME q.old.retry_count = row[q.job].retry_count PROVE i = row[q.job].step
    <3>1. row[q.job].state \in Stopped
      BY <2>2, <2>3, <2>5 DEF RequestSound
    <3>2. steps[q.job][row[q.job].step] # "SUCCEEDED"
      BY <2>3, <3>1 DEF IInv, Checkpoints, Stopped, Finished
    <3>3. \A k \in 1 .. Length(q.job) : k < row[q.job].step => steps[q.job][k] = "SUCCEEDED"
      BY <2>3 DEF IInv, Checkpoints
    <3>4. row[q.job].step \in 1 .. Length(q.job) /\ Length(q.job) \in Nat
      BY <2>3, Naturals
    <3> HIDE DEF q
    <3> QED BY <2>1, <3>2, <3>3, <3>4
  <2>6. RequestSound(c)'
    BY <2>2, <2>3, <2>4, <2>5 DEF RequestSound, database
  <2> QED BY <1>1, <1>2, <2>1, <2>2, <2>6 DEF IInv, TypeOK
<1>6. CASE CancelCommit(c) \/ RetryCommit(c)
  <2>1. EveryEffect
    BY <1>6, EffectCancelCommit, EffectRetryCommit DEF EveryEffect, ByNobody
  <2>2. request' = [request EXCEPT ![c] = NoRequest] /\ UNCHANGED session
    BY <1>6 DEF CancelCommit, RetryCommit, Save
  <2> QED BY <1>2, <2>1, <2>2 DEF IInv, TypeOK, RequestSound
<1>7. CASE RequestFails(c)
  BY <1>1, <1>2, <1>7 DEF RequestFails, IInv, TypeOK, RequestSound
<1> QED BY <1>3, <1>4, <1>5, <1>6, <1>7 DEF ClientStep

\* No step of a worker lets a pulse renew an expired lease: current["job"] is
\* set only by the worker that has just won the job.
LEMMA ActorLeases ==
  ASSUME IInv, NEW w \in Workers, Acts(w), EveryEffect, Holding'
  PROVE  ExpiredForGood'
<1> USE DEF GoTo, Raise, Return, Proceed
<1>1. ASSUME current'[w] \in {current[w], NoJob} PROVE ExpiredForGood'
  BY <1>1, ActorFrame, LeasesSound
<1>2. CASE Boot(w) \/ RecoverScan(w) \/ RecoverCommit(w) \/ ClaimRefused(w) \/ ClaimScan(w)
           \/ Escape(w) \/ Crash(w)
  BY <1>1, <1>2 DEF Boot, RecoverScan, RecoverCommit, ClaimRefused, ClaimScan, Escape, Crash, IInv, TypeOK
<1>3. ASSUME NEW k \in Jobs, ClaimCancelled(w, k) \/ ClaimWon(w, k) \/ ClaimLost(w, k) PROVE ExpiredForGood'
  BY <1>1, <1>3 DEF ClaimCancelled, ClaimWon, ClaimLost
<1>4. ASSUME NEW k \in Jobs, Refresh(w, k) PROVE ExpiredForGood'
  <2>1. Held(w, k) /\ Working(w, k)
    BY <1>4, FreshFields DEF Refresh, Working, Executing
  <2>2. row' = row /\ current' = [current EXCEPT ![w] = k]
    BY <1>4 DEF Refresh, database
  <2> SUFFICES ASSUME NEW j \in Jobs, row[j].lease = "expired", NEW v \in Workers, row[j].worker_id = v,
                      current'[v] = j \/ Working(v, j)'
               PROVE  FALSE
    BY <2>2 DEF ExpiredForGood, Renewed
  <2>3. ~Working(v, j)'
    BY <2>2 DEF Holding
  <2>4. j # k
    BY <2>1 DEF Held
  <2>5. current[v] = j
    BY <2>2, <2>3, <2>4 DEF IInv, TypeOK
  <2> QED BY <2>5 DEF IInv, ExpiredForGood, Renewed
<1>5. ASSUME NEW k \in Jobs, ExecuteStep(w, k) PROVE ExpiredForGood'
  <2>1. CASE StartRefused(w, k) \/ Start(w, k) \/ StepSucceeds(w, k) \/ StepFails(w, k)
    BY <1>1, <2>1 DEF StartRefused, Start, StepSucceeds, StepFails, IInv, TypeOK
  <2>2. CASE Enter(w, k) \/ HandlerReturns(w, k) \/ HandlerCancelled(w, k) \/ Recheck(w, k)
             \/ StepRaises(w, k) \/ Reload(w, k) \/ ReloadRefused(w, k)
    BY <1>1, <2>2 DEF Enter, HandlerReturns, HandlerCancelled, Recheck, StepRaises, Reload, ReloadRefused
  <2> QED BY <1>5, <2>1, <2>2 DEF ExecuteStep
<1> QED BY <1>2, <1>3, <1>4, <1>5 DEF Acts, WorkerStep, ClaimStep

\* Every step preserves the inductive invariant, and moves every job by one of
\* the effects.
LEMMA InductiveStep ==
  ASSUME IInv, Races = {}, "late" \notin Faults, [Next]_vars
  PROVE  IInv' /\ EveryEffect
<1>1. TypeOK' /\ OneJob'
  BY TypeStep, OneJobStep DEF IInv, TypeInv
<1>2. ASSUME EveryEffect, \A w \in Workers : SessionSound(w)', Requested', ExpiredForGood'
      PROVE  IInv' /\ EveryEffect
  <2>1. (Leased /\ Checkpoints /\ RetriesCounted)'
    BY <1>1, <1>2, TablesSound
  <2>2. (Holding /\ SessionFresh /\ Scanned)'
    BY <1>2 DEF SessionSound, Holding, SessionFresh, Scanned, Held
  <2> QED BY <1>1, <1>2, <2>1, <2>2 DEF IInv
<1>3. ASSUME UNCHANGED session, \A j \in Jobs : ByNobody(j), Requested' PROVE IInv' /\ EveryEffect
  <2>1. \A w \in Workers : SessionSound(w)'
    BY <1>3, BystandersSound DEF session
  <2>2. EveryEffect
    BY <1>3 DEF EveryEffect
  <2>3. Holding'
    BY <2>1 DEF SessionSound, Holding, Held
  <2>4. ExpiredForGood'
    BY <1>3, <2>2, <2>3, LeasesSound DEF session
  <2> QED BY <1>2, <1>3, <2>1, <2>2, <2>4
<1>4. ASSUME UNCHANGED <<session, request>>, \A j \in Jobs : Unmoved(j) \/ Lapsed(j)
      PROVE  IInv' /\ EveryEffect
  <2>1. EveryEffect /\ \A j \in Jobs : ByNobody(j)
    BY <1>4 DEF EveryEffect, ByNobody
  <2>2. Requested'
    BY <1>4, <2>1, RequestStaysSound, AllRequests DEF Requested, RequestSound
  <2> QED BY <1>3, <1>4, <2>1, <2>2
<1>5. ASSUME NEW w \in Workers, Acts(w) PROVE IInv' /\ EveryEffect
  <2>1. \A j \in Jobs : ByNobody(j) \/ ByWorker(w, j)
    BY <1>5, ActorEffect
  <2>2. EveryEffect
    BY <2>1 DEF EveryEffect
  <2>3. \A v \in Workers : SessionSound(v)'
    <3>1. SessionSound(w)'
      BY <1>1, <1>5, ActorSession
    <3>2. ASSUME NEW v \in Workers \ {w} PROVE SessionSound(v)'
      BY <1>5, <2>1, ActorFrame, BystandersSound
    <3> QED BY <3>1, <3>2
  <2>4. Requested'
    BY <1>5, <2>2, ActorFrame, RequestStaysSound DEF Requested, RequestSound
  <2>5. Holding'
    BY <2>3 DEF SessionSound, Holding, Held
  <2> QED BY <1>2, <1>5, <2>2, <2>3, <2>4, <2>5, ActorLeases
<1>6. ASSUME NEW w \in Workers, FaultStep(w) \/ Pulse(w) PROVE IInv' /\ EveryEffect
  <2>1. CASE Escape(w) \/ Crash(w)
    BY <1>5, <2>1 DEF Acts
  <2>2. CASE HeartbeatExpires(w)
    BY <1>4, <2>2 DEF HeartbeatExpires, database, Unmoved, KeepsPlace, KeepsHolder
  <2>3. CASE Pulse(w)
    BY <1>4, <2>3, EffectPulse DEF Pulse
  <2> QED BY <1>6, <2>1, <2>2, <2>3 DEF FaultStep, RaisesAfterCommit
<1>7. ASSUME NEW k \in Jobs, LeaseExpires(k) PROVE IInv' /\ EveryEffect
  BY <1>4, <1>7, EffectLeaseExpires DEF LeaseExpires
<1>8. ASSUME NEW c \in Clients, ClientStep(c) PROVE IInv' /\ EveryEffect
  <2>1. \A j \in Jobs : ByNobody(j)
    BY <1>8, EffectCancelCommit, EffectRetryCommit
    DEF ClientStep, CancelLoad, RetryLoad, RetryCheck, RequestFails, database, ByNobody, Unmoved,
        KeepsPlace, KeepsHolder
  <2> QED BY <1>3, <1>8, <2>1, ClientSound
<1>9. CASE UNCHANGED vars
  BY <1>4, <1>9 DEF vars, session, Unmoved, KeepsPlace, KeepsHolder
<1> QED BY <1>5, <1>6, <1>7, <1>8, <1>9 DEF Next, Acts

-------------------------------------------------------------------------------
(* The theorems *)

\* No window is hit and no exception comes after a commit.
Undisturbed == Races = {} /\ "late" \notin Faults

LEMMA InitSound == Init => IInv
<1> SUFFICES ASSUME Init PROVE IInv
  OBVIOUS
<1> USE LengthType, NobodyAssumption, BoundsAssumption
<1>1. TypeOK /\ OneJob
  BY DEF Init, TypeOK, OneJob, CreatedRow, Row, JobStates, Waiting, StepStates, PCs, Executing, NoView
<1>2. /\ \A w \in Workers : pc[w] = "off" /\ \A j \in Jobs : view[w][j] = NoRow
      /\ \A c \in Clients : request[c] = NoRequest
  BY DEF Init, NoView
<1>3. /\ \A j \in Jobs : /\ row[j].state = "QUEUED" /\ row[j].step = 1 /\ row[j].retry_count = 0
                        /\ row[j].worker_id = Nobody /\ row[j].lease = "none" /\ retries[j] = 0
                        /\ \A i \in 1 .. Length(j) : steps[j][i] = "QUEUED"
  BY DEF Init, CreatedRow
<1>4. Holding /\ SessionFresh /\ Scanned /\ Requested
  BY <1>2 DEF Holding, SessionFresh, Scanned, Requested, Working
<1>5. Leased /\ ExpiredForGood /\ RetriesCounted
  BY <1>3 DEF Leased, ExpiredForGood, RetriesCounted
<1>6. Checkpoints
  BY <1>3 DEF Checkpoints, Finished
<1> QED BY <1>1, <1>4, <1>5, <1>6 DEF IInv

\* The inductive invariant holds in every undisturbed behaviour.
THEOREM Inductive == Undisturbed => (Spec => []IInv)
<1> SUFFICES ASSUME Undisturbed PROVE Spec => []IInv
  OBVIOUS
<1>1. Init => IInv
  BY InitSound
<1>2. IInv /\ [Next]_vars => IInv'
  BY InductiveStep DEF Undisturbed
<1> QED BY <1>1, <1>2, PTL DEF Spec

\* No two workers are ever between winning a job and giving it up.
THEOREM OneWorkerPerJob == Undisturbed => (Spec => []MutualExclusion)
<1>1. IInv => MutualExclusion
  BY DEF IInv, Holding, MutualExclusion
<1> QED BY <1>1, Inductive, PTL

\* A worker that executes a step owns the row of the job.
THEOREM WorkersOwnTheirJobs == Undisturbed => (Spec => []Ownership)
<1>1. IInv => Ownership
  BY DEF IInv, Holding, Ownership
<1> QED BY <1>1, Inductive, PTL

\* A row is RUNNING exactly if it has an owner, and exactly if it has a lease.
THEOREM LeasesMatchStates == Undisturbed => (Spec => []Leased)
<1>1. IInv => Leased
  BY DEF IInv
<1> QED BY <1>1, Inductive, PTL

\* The job row and its checkpoints agree in every state.
THEOREM CheckpointsAgree == Undisturbed => (Spec => []Checkpoints)
<1>1. IInv => Checkpoints
  BY DEF IInv
<1> QED BY <1>1, Inductive, PTL

\* The commits of execute_step never write over a change made since the claim.
THEOREM SessionsFresh == Undisturbed => (Spec => []SessionFresh)
<1>1. IInv => SessionFresh
  BY DEF IInv
<1> QED BY <1>1, Inductive, PTL

\* A step that has succeeded stays so.
THEOREM CheckpointsStay == Undisturbed => (Spec => CheckpointsKept)
<1> SUFFICES ASSUME Undisturbed PROVE Spec => CheckpointsKept
  OBVIOUS
<1>1. ASSUME IInv, [Next]_vars, NEW j \in Jobs, NEW i \in 1 .. Length(j), steps[j][i] = "SUCCEEDED"
      PROVE  steps'[j][i] = "SUCCEEDED"
  <2>1. ByNobody(j) \/ \E w \in Workers : ByWorker(w, j)
    BY <1>1, InductiveStep DEF Undisturbed, EveryEffect
  <2>2. steps[j][row[j].step] # "SUCCEEDED" \/ row[j].state \in Finished
    BY <1>1 DEF IInv, Checkpoints
  <2>3. steps[j] \in [1 .. Length(j) -> StepStates]
    BY <1>1, Naturals
  <2> QED BY <1>1, <2>1, <2>2, <2>3
          DEF ByNobody, ByWorker, Unmoved, Dequeued, Resumed, Lost, Lapsed, Won, Begun, Passed, Ended, Broken,
              Marks, Expired, Held, Finished
<1>2. IInv /\ [Next]_vars => [\A j \in Jobs : \A i \in 1 .. Length(j) :
        steps[j][i] = "SUCCEEDED" => steps'[j][i] = "SUCCEEDED"]_vars
  BY <1>1
<1> QED BY <1>2, Inductive, PTL DEF Spec, CheckpointsKept

\* Every effect is a move of the lifecycle or leaves the job alone.
LEMMA EffectsAreMoves ==
  ASSUME IInv, IInv', EveryEffect, NEW j \in Jobs
  PROVE  Seen(j)' = Seen(j) \/ Lifecycle!Move(Seen(j), Seen(j)', Length(j))
<1> DEFINE r == Seen(j)
           s == Seen(j)'
<1>1. ByNobody(j) \/ \E w \in Workers : ByWorker(w, j)
  BY DEF EveryEffect
<1>2. /\ row[j].step \in 1 .. Length(j) /\ retries[j] = row[j].retry_count /\ row[j].retry_count \in Nat
      /\ row'[j].retry_count \in Nat
  BY Naturals, TypeFacts DEF IInv, RetriesCounted, TypeOK, Row
<1> USE DEF Seen, KeepsPlace, Held, Expired, Waiting, Stopped, Finished,
            Lifecycle!Waiting, Lifecycle!Stopped, Lifecycle!Finished
<1>3. CASE Unmoved(j) \/ Lapsed(j) \/ \E w \in Workers : Begun(w, j)
  BY <1>3 DEF Unmoved, Lapsed, Begun
<1>4. CASE Dequeued(j)
  BY <1>4 DEF Dequeued, Lifecycle!Move, Lifecycle!Cancel
<1>5. CASE Resumed(j)
  BY <1>2, <1>5 DEF Resumed, Lifecycle!Move, Lifecycle!Retry
<1>6. CASE Lost(j)
  BY <1>6 DEF Lost, Lifecycle!Move, Lifecycle!Stop
<1>7. CASE \E w \in Workers : Won(w, j)
  BY <1>7 DEF Won, Lifecycle!Move, Lifecycle!Claim
<1>8. CASE \E w \in Workers : Passed(w, j)
  BY <1>2, <1>8 DEF Passed, Lifecycle!Move, Lifecycle!PassStep
<1>9. CASE \E w \in Workers : Ended(w, j)
  BY <1>9 DEF Ended, Lifecycle!Move, Lifecycle!Finish
<1>10. CASE \E w \in Workers : Broken(w, j)
  BY <1>10 DEF Broken, Lifecycle!Move, Lifecycle!Stop
<1> QED BY <1>1, <1>3, <1>4, <1>5, <1>6, <1>7, <1>8, <1>9, <1>10 DEF ByNobody, ByWorker

\* The queue implements the lifecycle: TRANSITIONS, the order of the pipeline,
\* one pass of each step, resumption at the step not passed, bounded retries.
THEOREM QueueImplementsLifecycle == Undisturbed => (Spec => ImplementsLifecycle)
<1> SUFFICES ASSUME Undisturbed PROVE Spec => ImplementsLifecycle
  OBVIOUS
<1>1. Init => Lifecycle!Init
  BY DEF Init, CreatedRow, Lifecycle!Init, AllSeen, Seen
<1>2. IInv /\ IInv' /\ [Next]_vars => [Lifecycle!Next]_AllSeen
  <2> SUFFICES ASSUME IInv, IInv', [Next]_vars PROVE Lifecycle!Next
    OBVIOUS
  <2>1. EveryEffect
    BY InductiveStep DEF Undisturbed
  <2>2. \A j \in Jobs : Seen(j)' \in Lifecycle!Job
    BY DEF IInv, TypeOK, Seen, Row, JobStates, TERMINAL, Waiting, Stopped, Finished, Lifecycle!Job,
           Lifecycle!JobStates, Lifecycle!TERMINAL, Lifecycle!Waiting, Lifecycle!Stopped, Lifecycle!Finished
  <2>3. \A j \in Jobs : Seen(j)' = Seen(j) \/ Lifecycle!Move(Seen(j), Seen(j)', Length(j))
    BY <2>1, EffectsAreMoves
  <2>4. AllSeen' \in [Jobs -> Lifecycle!Job]
    BY <2>2 DEF AllSeen
  <2> QED BY <2>3, <2>4 DEF Lifecycle!Next, AllSeen
<1> QED BY <1>1, <1>2, Inductive, PTL DEF Spec, ImplementsLifecycle, Lifecycle!Spec

-------------------------------------------------------------------------------
(* The right queue *)

\* As compose.yml starts them.
OneWorkerPerQueue == \A v, w \in Workers : Queue[v] = Queue[w] => v = w

\* w has scanned or won job j.
Eyes(w, j) == pc[w] \in {"cas"} \cup Executing /\ view[w][j] # NoRow

QueueInv ==
  \A w \in Workers : \A j \in Jobs : Eyes(w, j) => StepName(j, row[j].step) \in Serves[Queue[w]]

LEMMA ServesApart ==
  ASSUME OneWorkerPerQueue, NEW v \in Workers, NEW w \in Workers,
         NEW name, name \in Serves[Queue[v]], name \in Serves[Queue[w]]
  PROVE  v = w
<1>1. Queue[v] \in Queues /\ Queue[w] \in Queues
  BY QueueAssumption
<1>2. Queues = {"document", "llm", "image", "ppt", "video"}
  BY DEF Queues, Serves
<1>3. Queue[v] = Queue[w]
  BY <1>1, <1>2 DEF Serves
<1> QED BY <1>3 DEF OneWorkerPerQueue

\* A job moves on to another step only when its step has succeeded.
LEMMA PlaceMoves ==
  ASSUME IInv, Races = {}, NEW w \in Workers, Acts(w), NEW j \in Jobs
  PROVE  row'[j].step = row[j].step \/ StepSucceeds(w, j)
<1>1. ASSUME UNCHANGED row PROVE row'[j].step = row[j].step
  BY <1>1
<1>2. CASE Boot(w) \/ RecoverScan(w) \/ ClaimRefused(w) \/ ClaimScan(w) \/ Escape(w) \/ Crash(w)
  BY <1>1, <1>2 DEF Boot, RecoverScan, ClaimRefused, ClaimScan, Escape, Crash, database
<1>3. CASE RecoverCommit(w)
  BY <1>3, EffectRecoverCommit DEF Unmoved, Lost, KeepsPlace
<1>4. ASSUME NEW k \in Jobs, ClaimStep(w, k) PROVE row'[j].step = row[j].step
  <2>1. CASE ClaimCancelled(w, k)
    BY <2>1, EffectClaimCancelled DEF Unmoved, Dequeued, KeepsPlace
  <2>2. CASE ClaimWon(w, k)
    BY <2>2, EffectClaimWon DEF Won, Unmoved, KeepsPlace
  <2>3. CASE ClaimLost(w, k) \/ Refresh(w, k)
    BY <1>1, <2>3 DEF ClaimLost, Refresh, database
  <2> QED BY <1>4, <2>1, <2>2, <2>3 DEF ClaimStep
<1>5. ASSUME NEW k \in Jobs, ExecuteStep(w, k)
      PROVE  row'[j].step = row[j].step \/ StepSucceeds(w, j)
  <2>1. CASE StartRefused(w, k) \/ Enter(w, k) \/ HandlerReturns(w, k) \/ HandlerCancelled(w, k)
             \/ Recheck(w, k) \/ StepRaises(w, k) \/ Reload(w, k) \/ ReloadRefused(w, k)
    BY <1>1, <2>1 DEF StartRefused, Enter, HandlerReturns, HandlerCancelled, Recheck, StepRaises,
                      Reload, ReloadRefused, database
  <2>2. CASE Start(w, k)
    BY <2>2, EffectStart DEF Begun, Unmoved, KeepsPlace
  <2>3. CASE StepSucceeds(w, k)
    <3>1. Succeed(w, k) /\ retries' = retries
      BY <2>3 DEF StepSucceeds
    <3>2. j # k => Unmoved(j)
      BY <3>1, EffectSucceed
    <3> QED BY <2>3, <3>2 DEF Unmoved, KeepsPlace
  <2>4. CASE StepFails(w, k)
    BY <2>4, EffectStepFails DEF Broken, Unmoved, KeepsPlace
  <2> QED BY <1>5, <2>1, <2>2, <2>3, <2>4 DEF ExecuteStep
<1> QED BY <1>2, <1>3, <1>4, <1>5 DEF Acts, WorkerStep

\* A worker only ever takes up a job that its scan found for its queue.
LEMMA EyesOpen ==
  ASSUME IInv, NEW w \in Workers, Acts(w), NEW j \in Jobs, Eyes(w, j)'
  PROVE  Eyes(w, j) \/ (Claimable(w, j) /\ row' = row)
<1> USE DEF IInv, TypeOK, Eyes, Executing
<1>1. CASE Boot(w) \/ RecoverScan(w) \/ RecoverCommit(w) \/ ClaimRefused(w)
  BY <1>1 DEF Boot, RecoverScan, RecoverCommit, ClaimRefused
<1>2. CASE ClaimScan(w)
  BY <1>2 DEF ClaimScan, database
<1>3. ASSUME NEW k \in Jobs, ClaimStep(w, k) PROVE Eyes(w, j)
  <2>1. view'[w][j] # NoRow /\ pc'[w] \in {"cas"} \cup Executing
    OBVIOUS
  <2>2. CASE ClaimCancelled(w, k) \/ ClaimLost(w, k)
    <3>1. pc[w] = "cas" /\ view'[w] = Drop(w, k)
      BY <2>2 DEF ClaimCancelled, ClaimLost, Candidate, NextCandidate
    <3> QED BY <2>1, <3>1 DEF Drop
  <2>3. CASE ClaimWon(w, k)
    <3>1. pc[w] = "cas" /\ view'[w] = Only(k, view[w][k]) /\ view[w][k] # NoRow
      BY <2>3 DEF ClaimWon, Candidate
    <3> QED BY <2>1, <3>1 DEF Only, NoView
  <2>4. CASE Refresh(w, k)
    <3>1. pc[w] = "refresh" /\ view'[w] = Only(k, row[k]) /\ view[w][k] # NoRow
      BY <2>4 DEF Refresh
    <3> QED BY <2>1, <3>1 DEF Only, NoView
  <2> QED BY <1>3, <2>2, <2>3, <2>4 DEF ClaimStep
<1>4. ASSUME NEW k \in Jobs, ExecuteStep(w, k) PROVE Eyes(w, j)
  <2>1. CASE StartRefused(w, k) \/ StepSucceeds(w, k) \/ StepFails(w, k)
    BY <2>1 DEF StartRefused, StepSucceeds, StepFails, Return, GoTo
  <2>2. CASE Start(w, k)
    <3>1. /\ pc[w] = "start" /\ view[w][k] # NoRow
          /\ \A i \in Jobs : i # k => view'[w][i] = view[w][i]
      BY <2>2 DEF Start, At
    <3> QED BY <3>1
  <2>3. CASE Enter(w, k) \/ HandlerReturns(w, k) \/ HandlerCancelled(w, k) \/ Recheck(w, k)
             \/ StepRaises(w, k)
    BY <2>3 DEF Enter, HandlerReturns, HandlerCancelled, Recheck, StepRaises, At
  <2>4. CASE Reload(w, k)
    <3>1. /\ pc[w] = "failed" /\ view[w][k] # NoRow
          /\ \A i \in Jobs : i # k => view'[w][i] = view[w][i]
      BY <2>4 DEF Reload, At
    <3> QED BY <3>1
  <2>5. CASE ReloadRefused(w, k)
    BY <2>5 DEF ReloadRefused, GoTo
  <2> QED BY <1>4, <2>1, <2>2, <2>3, <2>4, <2>5 DEF ExecuteStep
<1>5. CASE Escape(w) \/ Crash(w)
  BY <1>5 DEF Escape, Crash, GoTo
<1> QED BY <1>1, <1>2, <1>3, <1>4, <1>5 DEF Acts, WorkerStep

LEMMA ActorKeepsQueues ==
  ASSUME IInv, Races = {}, OneWorkerPerQueue, QueueInv, NEW w \in Workers, Acts(w)
  PROVE  QueueInv'
<1> SUFFICES ASSUME NEW v \in Workers, NEW j \in Jobs, Eyes(v, j)'
             PROVE  StepName(j, row'[j].step) \in Serves[Queue[v]]
  BY DEF QueueInv
<1>1. Eyes(v, j) \/ (Claimable(v, j) /\ row' = row)
  <2>1. CASE v = w
    BY <2>1, EyesOpen
  <2>2. CASE v # w
    BY <2>2, ActorFrame DEF Eyes
  <2> QED BY <2>1, <2>2
<1>2. StepName(j, row[j].step) \in Serves[Queue[v]]
  BY <1>1 DEF QueueInv, Claimable
<1>3. CASE row'[j].step = row[j].step
  BY <1>2, <1>3
<1>4. CASE StepSucceeds(w, j)
  <2>1. pc[w] = "commit" /\ view[w][j] # NoRow /\ pc'[w] = "loop"
    BY <1>4 DEF StepSucceeds, Succeed, At, Return, GoTo, IInv, TypeOK
  <2>2. StepName(j, row[j].step) \in Serves[Queue[w]]
    BY <2>1 DEF QueueInv, Eyes, Executing
  <2>3. v = w
    BY <1>2, <2>2, ServesApart
  <2> QED BY <2>1, <2>3 DEF Eyes, Executing
<1> QED BY <1>3, <1>4, PlaceMoves

\* What is not a step of a main thread touches no session and no place.
LEMMA OthersKeepQueues ==
  ASSUME QueueInv, UNCHANGED <<pc, view>>, \A j \in Jobs : row'[j].step = row[j].step
  PROVE  QueueInv'
BY DEF QueueInv, Eyes

\* With one worker for each queue no worker ever executes a step of another queue,
\* also when it wins a job that has been moved since its scan (claim).
THEOREM StepsOnTheirQueue == Undisturbed /\ OneWorkerPerQueue => (Spec => []RightQueue)
<1> SUFFICES ASSUME Undisturbed, OneWorkerPerQueue PROVE Spec => []RightQueue
  OBVIOUS
<1>1. Init => QueueInv
  BY DEF Init, QueueInv, Eyes, Executing
<1>2. IInv /\ QueueInv /\ [Next]_vars => QueueInv'
  <2> SUFFICES ASSUME IInv, QueueInv, [Next]_vars PROVE QueueInv'
    OBVIOUS
  <2> USE DEF Undisturbed
  <2>1. CASE \E w \in Workers : Acts(w)
    BY <2>1, ActorKeepsQueues
  <2>2. CASE \E c \in Clients : ClientStep(c)
    BY <2>2, OthersKeepQueues, EffectCancelCommit, EffectRetryCommit
       DEF ClientStep, CancelLoad, RetryLoad, RetryCheck, RequestFails, database, session,
           CancelCommit, RetryCommit, Save, Unmoved, Dequeued, Resumed, KeepsPlace
  <2>3. CASE \E w \in Workers : Pulse(w)
    BY <2>3, OthersKeepQueues, EffectPulse DEF Pulse, session, Unmoved, KeepsPlace
  <2>4. CASE \E w \in Workers : HeartbeatExpires(w)
    BY <2>4, OthersKeepQueues DEF HeartbeatExpires, session, database
  <2>5. CASE \E k \in Jobs : LeaseExpires(k)
    BY <2>5, OthersKeepQueues, EffectLeaseExpires DEF LeaseExpires, session, Unmoved, Lapsed, KeepsPlace
  <2>6. CASE UNCHANGED vars
    BY <2>6, OthersKeepQueues DEF vars
  <2>7. ~\E w \in Workers : \E j \in Jobs : RaisesAfterCommit(w, j)
    BY DEF RaisesAfterCommit
  <2> QED BY <2>1, <2>2, <2>3, <2>4, <2>5, <2>6, <2>7 DEF Next, FaultStep, Acts
<1>3. QueueInv => RightQueue
  BY DEF QueueInv, RightQueue, Eyes, Working
<1> QED BY <1>1, <1>2, <1>3, Inductive, PTL DEF Spec
===============================================================================
