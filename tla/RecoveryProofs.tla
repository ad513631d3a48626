--------------------------- MODULE RecoveryProofs ---------------------------
(***************************************************************************)
(* What crashes and failures leave behind.  In the deployment that         *)
(* docker-compose.yml describes, one worker and requests that submit jobs, *)
(* a RUNNING job is the worker's own or one it is about to fail, and what  *)
(* a finished job says is final.  A COMPLETED job keeps or gets its report *)
(* with any processes, unless its finisher is killed on the way.           *)
(***************************************************************************)
EXTENDS JobLifecycleProofs

\* Where the RUNNING jobs are while worker w is in one of its operations.
AttInv(w) == \A j \in Jobs : db[j].status = "running" =>
    \/ pc[w] = "down"
    \/ pc[w] = "lock" /\ (j \in found[w] \/ lock[j] = w)
    \/ op[w] = "recover" /\ InRefresh(w) /\ lock[j] = w /\ new[j].status = "failed"
    \/ pc[w] \in {"exec", "save"} /\ job[w] = j

\* A step of another process neither makes a job RUNNING nor touches w's rows.
Apart(w) == \A j \in Jobs :
    /\ db'[j].status = "running" => db[j].status = "running"
    /\ lock[j] = w => lock'[j] = w /\ new'[j] = new[j]

LEMMA ApartKeeps ==
    ASSUME NEW w \in Procs, AttInv(w), Apart(w),
           pc'[w] = pc[w], op'[w] = op[w], job'[w] = job[w], found'[w] = found[w]
    PROVE  AttInv(w)'
  BY DEF AttInv, Apart, InRefresh

\* Requests are apart from the worker: they only ever create jobs.
LEMMA RequestStep ==
    ASSUME IInv, NEW w \in Procs, NEW p \in Procs \ {w}, op[p] = "create",
           \/ CountActiveJobs(p) \/ RejectSubmission(p) \/ InsertJob(p)
           \/ SelectPositions(p) \/ Commit(p) \/ Rollback(p)
           \/ \E j \in Jobs : UpdatePosition(p, j)
    PROVE  Apart(w) /\ OthersWait(p)
<1>i. TypeOK /\ LockInv /\ NoProc \notin Procs
  BY ProcsAssumption DEF IInv, JobInv
<1>t. /\ pc \in [Procs -> Statements] /\ op \in [Procs -> Operations]
      /\ job \in [Procs -> Jobs \cup {0}]
      /\ todo \in [Procs -> [Jobs -> Nat]] /\ found \in [Procs -> SUBSET Jobs]
  BY <1>i DEF TypeOK
<1>1. CASE CountActiveJobs(p) \/ RejectSubmission(p) \/ SelectPositions(p)
  BY <1>1, <1>t
     DEF CountActiveJobs, RejectSubmission, SelectPositions, Goto, tables, Apart, OthersWait
<1>2. CASE InsertJob(p)
  <2> DEFINE row == [status |-> "queued", queue_position |-> depth[p] + 1,
                     failure_message |-> ""]
  <2>1. Write(p, nextJob, row) /\ nextJob \in Jobs
    BY <1>2 DEF InsertJob
  <2> HIDE DEF row
  <2>2. lock[nextJob] \in {NoProc, p} /\ OtherRowsKept(nextJob) /\ db' = db
    BY <2>1, <1>i, WriteEffect
  <2>3. Apart(w)
    BY <2>1, <2>2, <1>i DEF Apart, OtherRowsKept
  <2> QED
    BY <1>2, <1>t, <2>3 DEF InsertJob, Goto, OthersWait
<1>3. ASSUME NEW j \in Jobs, UpdatePosition(p, j) PROVE Apart(w) /\ OthersWait(p)
  <2>1. Apart(w)
    <3>1. CASE Gone(j)
      BY <1>3, <3>1 DEF UpdatePosition, tables, Apart
    <3>2. CASE ~Gone(j)
      <4> DEFINE row == [View(p, j) EXCEPT !.queue_position = todo[p][j]]
      <4>1. Write(p, j, row)
        BY <1>3, <3>2 DEF UpdatePosition
      <4> HIDE DEF row
      <4>2. lock[j] \in {NoProc, p} /\ OtherRowsKept(j) /\ db' = db
        BY <4>1, <1>i, WriteEffect
      <4> QED
        BY <4>2, <1>i DEF Apart, OtherRowsKept
    <3> QED
      BY <3>1, <3>2
  <2> QED
    BY <1>3, <1>t, <2>1 DEF UpdatePosition, OthersWait
<1>4. CASE Commit(p)
  <2>1. \A j \in Jobs : lock[j] = w => lock'[j] = w /\ new'[j] = new[j]
    BY <1>4 DEF Commit
  <2>2. \A j \in Jobs : db'[j].status = "running" => db[j].status = "running"
    BY <1>4, CommitEffect DEF StatusChange
  <2> QED
    BY <1>4, <1>t, <2>1, <2>2 DEF Commit, Apart, OthersWait
<1>5. CASE Rollback(p)
  <2>1. \A j \in Jobs : lock[j] = w => lock'[j] = w /\ new'[j] = new[j]
    BY <1>5 DEF Rollback
  <2> QED
    BY <1>5, <1>t, <2>1 DEF Rollback, Apart, OthersWait
<1> QED
  BY <1>1, <1>2, <1>3, <1>4, <1>5

-----------------------------------------------------------------------------
(* The worker's own steps                                                  *)

\* A statement of w that leaves the committed statuses alone and moves neither
\* between operations nor into or out of the execution of a job.
LEMMA WorkerQuiet ==
    ASSUME NEW w \in Procs, AttInv(w), db' = db,
           \/ pc[w] \notin {"down", "lock", "exec", "save"} /\ ~InRefresh(w)
           \/ InRefresh(w) /\ op[w] # "recover"
    PROVE  AttInv(w)'
  BY DEF AttInv, InRefresh

LEMMA WorkerStep ==
    ASSUME IInv, NEW w \in Workers, w \notin Creators, AttInv(w),
           \/ CountActiveJobs(w) \/ RejectSubmission(w) \/ ArtifactFailure(w)
           \/ StartWorker(w) \/ Step(w) \/ Crash(w) \/ AbortDeadlocked(w)
    PROVE  AttInv(w)'
<1>p. w \in Procs
  BY DEF Procs, Executors
<1>i. TypeOK /\ PcInv /\ LockInv
  BY DEF IInv, JobInv
<1>t. /\ pc \in [Procs -> Statements] /\ op \in [Procs -> Operations]
      /\ job \in [Procs -> Jobs \cup {0}] /\ found \in [Procs -> SUBSET Jobs]
      /\ new \in [Jobs -> Row] /\ lock \in [Jobs -> Procs \cup {NoProc}]
  BY <1>i DEF TypeOK
<1>o. pc[w] \notin {"idle", "insert", "start"} /\ op[w] # "create"
  BY <1>p, <1>i DEF PcInv
<1>1. CASE StartWorker(w)
  BY <1>1, <1>p, <1>t DEF StartWorker, Goto, tables, StaleJobs, AttInv
<1>2. ASSUME NEW j \in Jobs, LockStaleJob(w, j) PROVE AttInv(w)'
  <2>1. \A i \in Jobs : db[i].status = "running" => i \in found[w] \/ lock[i] = w
    BY <1>2 DEF LockStaleJob, NextStale, AttInv, InRefresh
  <2>2. pc' = pc /\ db' = db /\ found'[w] = found[w] \ {j}
    BY <1>2, <1>p, <1>t DEF LockStaleJob
  <2>3. \A i \in Jobs : /\ lock[i] = w => lock'[i] = w
                        /\ i = j /\ db[i].status = "running" => lock'[i] = w
    BY <1>2, <1>t, <1>p DEF LockStaleJob
  <2>4. pc'[w] = "lock"
    BY <1>2, <2>2 DEF LockStaleJob, NextStale
  <2> QED
    BY <2>1, <2>2, <2>3, <2>4 DEF AttInv
<1>3. CASE SaveStaleJobs(w)
  <2>1. op[w] = "recover" /\ op' = op /\ db' = db /\ lock' = lock /\ pc'[w] = "refresh"
    BY <1>3, <1>p, <1>t, <1>i DEF SaveStaleJobs, Goto, PcInv
  <2>2. \A i \in Jobs : db[i].status = "running" => lock[i] = w
    BY <1>3 DEF SaveStaleJobs, AttInv, InRefresh
  <2>3. \A i \in Jobs : lock[i] = w => new'[i] = Stale(new[i])
    BY <1>3 DEF SaveStaleJobs
  <2> QED
    BY <2>1, <2>2, <2>3 DEF AttInv, InRefresh, Stale
<1>4. CASE SelectPositions(w)
  BY <1>4, <1>p, <1>t DEF SelectPositions, Goto, tables, AttInv, InRefresh
<1>5. ASSUME NEW j \in Jobs, UpdatePosition(w, j) PROVE AttInv(w)'
  <2>0. pc' = pc /\ op' = op /\ job' = job /\ found' = found /\ InRefresh(w)
    BY <1>5 DEF UpdatePosition, NextUpdate, InRefresh
  <2>1. CASE Gone(j)
    BY <1>5, <2>0, <2>1 DEF UpdatePosition, tables, AttInv, InRefresh
  <2>2. CASE ~Gone(j)
    <3> DEFINE row == [View(w, j) EXCEPT !.queue_position = todo[w][j]]
    <3>1. row.status = View(w, j).status
      BY <1>i, WrittenStatus
    <3>2. Write(w, j, row)
      BY <1>5, <2>2 DEF UpdatePosition
    <3> HIDE DEF row
    <3>3. /\ OtherRowsKept(j) /\ new'[j] = row
          /\ op[w] # "finish" => db' = db /\ lock'[j] = w
          /\ op[w] = "finish" => db'[j] = row /\ lock' = lock
      BY <1>i, <1>p, <3>2, WriteEffect
    <3>4. CASE op[w] = "recover"
      <4>1. \A i \in Jobs : db[i].status = "running"
                            => lock[i] = w /\ new[i].status = "failed"
        BY <1>5, <3>4 DEF AttInv, UpdatePosition, NextUpdate
      <4>2. \A i \in Jobs : lock[i] = w => lock'[i] = w /\ new'[i].status = new[i].status
        BY <3>1, <3>3, <3>4 DEF OtherRowsKept, View
      <4> QED
        BY <2>0, <3>3, <3>4, <4>1, <4>2 DEF AttInv, InRefresh
    <3>5. CASE op[w] # "recover"
      <4>1. \A i \in Jobs : db[i].status # "running"
        BY <1>5, <3>5 DEF AttInv, UpdatePosition, NextUpdate
      <4>2. op[w] = "finish" => View(w, j) = db[j]
        BY <1>p, <1>i, HoldsNothing DEF View
      <4>3. \A i \in Jobs : db'[i].status # "running"
        BY <3>1, <3>3, <4>1, <4>2 DEF OtherRowsKept
      <4> QED
        BY <4>3 DEF AttInv
    <3> QED
      BY <3>4, <3>5
  <2> QED
    BY <2>1, <2>2
<1>6. CASE Commit(w)
  <2>1. /\ pc[w] = "update" /\ pc'[w] = NextOperation(w)[1]
        /\ job'[w] = IF KeepsJob(w) THEN job[w] ELSE 0
        /\ \A i \in Jobs : db'[i] = View(w, i)
    BY <1>6, <1>p, <1>t DEF Commit
  <2>2. \A i \in Jobs : db'[i].status = "running" =>
            op[w] = "start" /\ job[w] = i
    <3> SUFFICES ASSUME NEW i \in Jobs, db'[i].status = "running"
                 PROVE  op[w] = "start" /\ job[w] = i
      OBVIOUS
    <3>1. db[i].status # "running" \/ (lock[i] = w /\ new[i].status = "failed")
      BY <2>1 DEF AttInv
    <3>2. lock[i] = w /\ new[i].status = "running" /\ db[i].status # "running"
      BY <2>1, <3>1 DEF View
    <3>3. StatusChange(w, i)
      BY <1>p, <1>i, <3>2 DEF LockInv, RowInv
    <3> QED
      BY <3>2, <3>3 DEF StatusChange
  <2>3. op[w] = "start" => pc'[w] = "exec" /\ job'[w] = job[w]
    BY <2>1 DEF NextOperation, KeepsJob
  <2> QED
    BY <2>2, <2>3 DEF AttInv
<1>7. ASSUME NEW j \in Jobs, ClaimNextQueuedJob(w, j) PROVE AttInv(w)'
  <2>1. op[w] = "start" /\ pc[w] = "poll"
    BY <1>7, <1>p, <1>i DEF ClaimNextQueuedJob, PcInv
  <2>2. db' = db
    BY <1>7, <2>1 DEF ClaimNextQueuedJob, Write, InTransaction
  <2> QED
    BY <1>p, <2>1, <2>2, WorkerQuiet DEF InRefresh
<1>8. CASE PollNothing(w)
  BY <1>8, <1>p, <1>t DEF PollNothing, Goto, AttInv
<1>9. CASE ExecuteJob(w)
  BY <1>9, <1>p, <1>t DEF ExecuteJob, Goto, tables, AttInv, InRefresh
<1>10. ASSUME NEW row, row.status # "running", pc[w] \in {"save", "unsaved"},
              Write(w, job[w], row)
       PROVE  AttInv(w)'
  <2>1. op[w] = "finish" /\ job[w] \in Jobs
    BY <1>10, <1>p, <1>i DEF PcInv, Executing
  <2>2. db'[job[w]] = row /\ OtherRowsKept(job[w])
    BY <1>10, <2>1, <1>p, <1>i, WriteEffect
  <2>3. \A i \in Jobs : db[i].status = "running" => job[w] = i
    BY <1>10 DEF AttInv, InRefresh
  <2> QED
    BY <1>10, <2>1, <2>2, <2>3 DEF AttInv, OtherRowsKept
<1>11. CASE SaveResult(w)
  BY <1>11, <1>10 DEF SaveResult, Finished
<1>12. CASE SaveUnsaved(w)
  <2>1. job[w] \in Jobs
    BY <1>12, <1>p, <1>i DEF SaveUnsaved, PcInv, Executing
  <2>2. [db[job[w]] EXCEPT !.status = "failed", !.failure_message = "unsaved"].status
            # "running"
    BY <2>1, <1>i, WrittenStatus
  <2> QED
    BY <1>12, <2>2, <1>10 DEF SaveUnsaved
<1>13. CASE ClearArtifacts(w) \/ CreateArtifact(w) \/ ArtifactFailure(w)
  <2>1. pc[w] \in {"clear", "report", "plot"} /\ db' = db
    BY <1>13 DEF ClearArtifacts, CreateArtifact, ArtifactFailure, tables
  <2> QED
    BY <1>p, <2>1, WorkerQuiet DEF InRefresh
<1>14. CASE Crash(w) \/ AbortDeadlocked(w) \/ SaveFails(w)
  BY <1>14, <1>p, <1>t DEF Crash, AbortDeadlocked, SaveFails, Rollback, AttInv
<1>15. ~(\/ CountActiveJobs(w) \/ RejectSubmission(w) \/ InsertJob(w)
         \/ StartQueuedJob(w) \/ RefuseToStart(w))
  BY <1>o DEF CountActiveJobs, RejectSubmission, InsertJob, StartQueuedJob, RefuseToStart
<1> QED
  BY <1>1, <1>2, <1>3, <1>4, <1>5, <1>6, <1>7, <1>8, <1>9, <1>11, <1>12, <1>13,
     <1>14, <1>15 DEF Step

-----------------------------------------------------------------------------
(* The theorem                                                             *)

\* No job is RUNNING before any is inserted.
LEMMA AttInit ==
    ASSUME NEW w
    PROVE  Init => AttInv(w)
<1>1. NoRow.status # "running"
  BY DEF NoRow
<1> QED
  BY <1>1 DEF Init, AttInv

\* The steps of the worker, of everybody else, and of an administrator.
LEMMA AttStep ==
    ASSUME NEW w, Workers = {w}, Smokes = {}, IInv, HoldInv, AttInv(w), [Next]_vars
    PROVE  AttInv(w)'
<1>w. w \in Procs /\ w \in Workers /\ w \notin Creators /\ Executors = {w}
  BY ProcsAssumption DEF Procs, Executors, Creators
<1>1. ASSUME NEW p \in Procs \ {w},
             \/ CountActiveJobs(p) \/ RejectSubmission(p) \/ ArtifactFailure(p)
             \/ StartWorker(p) \/ Step(p) \/ Crash(p) \/ AbortDeadlocked(p)
      PROVE  AttInv(w)'
  <2>1. op[p] = "create"
    BY <1>w DEF HoldInv
  <2>2. pc[p] \in {"idle", "insert", "refresh", "update"}
    BY <2>1 DEF IInv, JobInv, TypeOK, PcInv, Executing, Statements
  <2>3. \/ CountActiveJobs(p) \/ RejectSubmission(p) \/ InsertJob(p)
        \/ SelectPositions(p) \/ Commit(p) \/ Rollback(p)
        \/ \E j \in Jobs : UpdatePosition(p, j)
    BY <1>1, <2>2 DEF Step, ArtifactFailure, StartWorker, StartQueuedJob, RefuseToStart,
       ClaimNextQueuedJob, PollNothing, ExecuteJob, SaveResult, ClearArtifacts,
       CreateArtifact, SaveUnsaved, SaveFails, LockStaleJob, NextStale, SaveStaleJobs,
       Crash, AbortDeadlocked
  <2>4. Apart(w) /\ OthersWait(p)
    BY <1>w, <2>1, <2>3, RequestStep
  <2> QED
    BY <1>w, <2>4, ApartKeeps DEF OthersWait
<1>2. ASSUME NEW j \in Jobs, DeleteJob(j) PROVE AttInv(w)'
  <2>1. Apart(w) /\ UNCHANGED <<pc, op, job, found>>
    BY <1>2, <1>w, ProcsAssumption
       DEF DeleteJob, Apart, GoneRow, NoRow, IInv, TypeOK
  <2> QED
    BY <1>w, <2>1, ApartKeeps
<1>3. CASE UNCHANGED vars
  BY <1>3 DEF vars, AttInv, InRefresh
<1> QED
  BY <1>w, <1>1, <1>2, <1>3, WorkerStep DEF Next

\* With the one worker docker-compose.yml starts and no smoke command, a crash
\* never strands a job: what is RUNNING once recovery has committed is the job
\* the worker executes.
THEOREM RecoveryAttends ==
    ASSUME NEW w, Workers = {w}, Smokes = {}
    PROVE  Spec => []Attended
<1>1. Init => AttInv(w)
  BY AttInit
<1>2. IInv /\ HoldInv /\ AttInv(w) /\ [Next]_vars => AttInv(w)'
  BY AttStep
<1>3. AttInv(w) => Attended
  BY DEF AttInv, Attended, InRefresh
<1>4. Spec => []HoldInv
  BY HoldInit, HoldStep, Invariance, PTL DEF Spec
<1> QED
  BY <1>1, <1>2, <1>3, <1>4, Invariance, PTL DEF Spec

-----------------------------------------------------------------------------
(* Finality                                                                *)

\* An uncommitted version that keeps the status keeps the message.
MessageInv == \A j \in Jobs :
    new[j].status = db[j].status => new[j].failure_message = db[j].failure_message

\* The job whose end worker w has yet to save has no other.
OpenInv(w) == pc[w] \in {"exec", "save"} => db[job[w]].status \in {"running", "deleted"}

\* What a finished job says stays, is corrected once, or goes with the job.
Final == \A j \in Jobs : db[j].status \in TerminalStatuses =>
    \/ db'[j].status = "deleted"
    \/ /\ db'[j].status = db[j].status
       /\ db'[j].failure_message \in {db[j].failure_message, "unsaved"}
    \/ db'[j].status = "failed" /\ db'[j].failure_message = "unsaved"

\* A step that leaves w out of executions, or in the one it is in.
SameExecution(w) == pc'[w] \in {"exec", "save"} =>
    pc[w] \in {"exec", "save"} /\ job'[w] = job[w]

\* A step that changes neither status nor message of a committed row.
SaysTheSame == \A j \in Jobs :
    db'[j].status = db[j].status /\ db'[j].failure_message = db[j].failure_message

LEMMA SaysFrame ==
    ASSUME NEW w, OpenInv(w), job[w] \in Jobs \/ pc[w] \notin {"exec", "save"},
           SameExecution(w), SaysTheSame
    PROVE  OpenInv(w)' /\ Final
  BY DEF OpenInv, SameExecution, SaysTheSame, Final

\* The next row to insert is not there yet.
LEMMA NextIsAbsent ==
    ASSUME IInv, nextJob \in Jobs
    PROVE  db[nextJob].status = "absent"
<1>1. Fresh(nextJob)
  BY DEF Fresh, Jobs
<1> QED
  BY <1>1 DEF IInv, JobInv, FreshInv

LEMMA FinalInit ==
    ASSUME NEW w \in Workers
    PROVE  Init => MessageInv /\ OpenInv(w)
<1>1. w \in Procs
  BY DEF Procs, Executors
<1> QED
  BY <1>1 DEF Init, MessageInv, OpenInv

LEMMA FinalStep ==
    ASSUME NEW w, Workers = {w}, Smokes = {}, IInv, HoldInv,
           MessageInv, OpenInv(w), [Next]_vars
    PROVE  MessageInv' /\ OpenInv(w)' /\ Final
<1>w. w \in Procs /\ w \in Workers /\ w \notin Creators /\ Executors = {w}
  BY ProcsAssumption DEF Procs, Executors, Creators
<1>i. TypeOK /\ PcInv /\ LockInv /\ FreshInv /\ StartInv
  BY DEF IInv, JobInv
<1>t. /\ pc \in [Procs -> Statements] /\ op \in [Procs -> Operations]
      /\ job \in [Procs -> Jobs \cup {0}] /\ db \in [Jobs -> Row] /\ new \in [Jobs -> Row]
      /\ lock \in [Jobs -> Procs \cup {NoProc}]
  BY <1>i DEF TypeOK
<1>j. /\ job[w] \in Jobs \/ pc[w] \notin {"exec", "save"}
      /\ \A p \in Procs \ {w} : op[p] = "create"
  BY <1>i, <1>w DEF PcInv, Executing, HoldInv
<1>1. ASSUME NEW p \in Procs,
             \/ CountActiveJobs(p) \/ RejectSubmission(p) \/ SelectPositions(p)
             \/ ExecuteJob(p) \/ StartWorker(p) \/ PollNothing(p) \/ RefuseToStart(p)
             \/ ClearArtifacts(p) \/ CreateArtifact(p) \/ ArtifactFailure(p)
             \/ \E j \in Jobs : LockStaleJob(p, j)
      PROVE  MessageInv' /\ OpenInv(w)' /\ Final
  <2>1. db' = db /\ new' = new
    BY <1>1 DEF CountActiveJobs, RejectSubmission, SelectPositions, ExecuteJob,
       StartWorker, PollNothing, RefuseToStart, ClearArtifacts, CreateArtifact,
       ArtifactFailure, LockStaleJob, tables
  <2>2. SameExecution(w)
    BY <1>1, <1>t, <1>w DEF CountActiveJobs, RejectSubmission, SelectPositions, ExecuteJob,
       StartWorker, PollNothing, RefuseToStart, ClearArtifacts, CreateArtifact,
       ArtifactFailure, LockStaleJob, NextStale, Goto, SameExecution
  <2> QED
    BY <1>j, <2>1, <2>2, SaysFrame DEF MessageInv, SaysTheSame
<1>2. ASSUME NEW p \in Procs, NEW j \in Jobs, NEW row, Write(p, j, row),
             op[p] # "finish", row.status # db[j].status, SameExecution(w)
      PROVE  MessageInv' /\ OpenInv(w)' /\ Final
  <2>1. db' = db /\ new'[j] = row /\ OtherRowsKept(j)
    BY <1>2, <1>i, WriteEffect
  <2>2. MessageInv'
    BY <1>2, <2>1 DEF MessageInv, OtherRowsKept
  <2> QED
    BY <1>2, <1>j, <2>1, <2>2, SaysFrame DEF SaysTheSame
<1>3. ASSUME NEW p \in Procs, InsertJob(p) PROVE MessageInv' /\ OpenInv(w)' /\ Final
  <2> DEFINE row == [status |-> "queued", queue_position |-> depth[p] + 1,
                     failure_message |-> ""]
  <2>1. nextJob \in Jobs /\ op[p] # "finish" /\ Write(p, nextJob, row)
    BY <1>3, <1>i DEF InsertJob, PcInv
  <2>2. row.status # db[nextJob].status
    BY <2>1, NextIsAbsent
  <2> HIDE DEF row
  <2>3. SameExecution(w)
    BY <1>3, <1>t, <1>w DEF InsertJob, Goto, SameExecution
  <2> QED
    BY <1>2, <2>1, <2>2, <2>3
<1>4. ASSUME NEW p \in Procs, NEW j \in Jobs, Write(p, j, Started(db[j])),
             db[j].status = "queued", op[p] = "start", SameExecution(w)
      PROVE  MessageInv' /\ OpenInv(w)' /\ Final
  <2>1. Started(db[j]).status = "running"
    BY <1>i, WrittenStatus
  <2> QED
    BY <1>2, <1>4, <2>1
<1>5. ASSUME NEW p \in Procs, StartQueuedJob(p) PROVE MessageInv' /\ OpenInv(w)' /\ Final
  <2>1. op[p] = "start" /\ job[p] \in Jobs
    BY <1>5, <1>i DEF StartQueuedJob, PcInv
  <2>2. SameExecution(w)
    BY <1>5, <1>t, <1>w DEF StartQueuedJob, Goto, SameExecution
  <2> QED
    BY <1>4, <1>5, <2>1, <2>2 DEF StartQueuedJob, MayStart
<1>6. ASSUME NEW p \in Procs, NEW j \in Jobs, ClaimNextQueuedJob(p, j)
      PROVE  MessageInv' /\ OpenInv(w)' /\ Final
  <2>1. op[p] = "start"
    BY <1>6, <1>i DEF ClaimNextQueuedJob, PcInv
  <2>2. SameExecution(w)
    BY <1>6, <1>t, <1>w DEF ClaimNextQueuedJob, Goto, SameExecution
  <2> QED
    BY <1>4, <1>6, <2>1, <2>2 DEF ClaimNextQueuedJob, Claimable
<1>7. ASSUME NEW p \in Procs, NEW j \in Jobs, UpdatePosition(p, j)
      PROVE  MessageInv' /\ OpenInv(w)' /\ Final
  <2>0. SameExecution(w)
    BY <1>7 DEF UpdatePosition, SameExecution
  <2>1. CASE Gone(j)
    BY <1>7, <1>j, <2>0, <2>1, SaysFrame DEF UpdatePosition, tables, MessageInv, SaysTheSame
  <2>2. CASE ~Gone(j)
    <3> DEFINE row == [View(p, j) EXCEPT !.queue_position = todo[p][j]]
    <3>1. row.status = View(p, j).status
          /\ row.failure_message = View(p, j).failure_message
      <4>1. View(p, j) \in Row
        BY <1>i, ViewType
      <4> QED
        BY <4>1 DEF Row
    <3>2. Write(p, j, row)
      BY <1>7, <2>2 DEF UpdatePosition
    <3> HIDE DEF row
    <3>3. /\ OtherRowsKept(j) /\ new'[j] = row
          /\ op[p] # "finish" => db' = db
          /\ op[p] = "finish" => db'[j] = row
      BY <1>i, <3>2, WriteEffect
    <3>4. op[p] = "finish" => View(p, j) = db[j]
      BY <1>i, HoldsNothing DEF View
    <3>5. SaysTheSame
      BY <3>1, <3>3, <3>4 DEF SaysTheSame, OtherRowsKept
    <3>6. MessageInv'
      <4> SUFFICES ASSUME NEW i \in Jobs, new'[i].status = db'[i].status
                   PROVE  new'[i].failure_message = db'[i].failure_message
        BY DEF MessageInv
      <4>1. CASE i # j
        BY <4>1, <3>3 DEF MessageInv, OtherRowsKept
      <4>2. CASE i = j /\ op[p] = "finish"
        BY <4>2, <3>3
      <4>3. CASE i = j /\ op[p] # "finish"
        BY <4>3, <3>1, <3>3 DEF View, MessageInv
      <4> QED
        BY <4>1, <4>2, <4>3
    <3> QED
      BY <1>j, <2>0, <3>5, <3>6, SaysFrame
  <2> QED
    BY <2>1, <2>2
<1>8. ASSUME NEW p \in Procs, Commit(p) PROVE MessageInv' /\ OpenInv(w)' /\ Final
  <2>1. /\ new' = new
        /\ \A j \in Jobs : db'[j] = View(p, j)
    BY <1>8 DEF Commit
  <2>2. MessageInv'
    BY <2>1 DEF MessageInv, View
  <2>3. \A j \in Jobs :
           \/ /\ db'[j].status = db[j].status
              /\ db'[j].failure_message = db[j].failure_message
           \/ StatusChange(p, j) /\ db'[j] = new[j] /\ new[j].status # db[j].status
    BY <2>1, <1>i DEF View, MessageInv, LockInv, RowInv
  <2>4. Final
    BY <2>3 DEF StatusChange, Final, TerminalStatuses
  <2>5. OpenInv(w)'
    <3>1. CASE p = w
      <4>1. pc'[w] = NextOperation(w)[1]
        BY <1>8, <1>t, <3>1 DEF Commit
      <4>2. pc'[w] \in {"exec", "save"} => op[w] = "start"
        BY <4>1 DEF NextOperation
      <4>3. op[w] = "start" => job'[w] = job[w] /\ db'[job[w]].status = "running"
        BY <1>8, <3>1, CommitEffect
      <4> QED
        BY <4>2, <4>3 DEF OpenInv
    <3>2. CASE p # w
      <4>1. pc'[w] = pc[w] /\ job'[w] = job[w]
        BY <1>8, <1>t, <1>w, <3>2 DEF Commit
      <4>2. op[p] = "create"
        BY <1>j, <3>2
      <4>3. \A j \in Jobs : db[j].status \in {"running", "deleted"} =>
               db'[j].status = db[j].status
        BY <2>3, <4>2 DEF StatusChange
      <4> QED
        BY <1>j, <4>1, <4>3 DEF OpenInv
    <3> QED
      BY <3>1, <3>2
  <2> QED
    BY <2>2, <2>4, <2>5
<1>9. ASSUME NEW p \in Procs, NEW row, p = w, pc[w] \in {"save", "unsaved"},
             ~Gone(job[w]), Write(w, job[w], row), pc'[w] \notin {"exec", "save"},
             \/ pc[w] = "save"
             \/ row.status = "failed" /\ row.failure_message = "unsaved"
      PROVE  MessageInv' /\ OpenInv(w)' /\ Final
  <2>1. op[w] = "finish" /\ job[w] \in Jobs
    BY <1>9, <1>i, <1>w DEF PcInv, Executing
  <2>2. OtherRowsKept(job[w]) /\ db'[job[w]] = row /\ new'[job[w]] = row
    BY <1>9, <1>i, <1>w, <2>1, WriteEffect
  <2>3. MessageInv'
    BY <2>2 DEF MessageInv, OtherRowsKept
  <2>4. pc[w] = "save" => db[job[w]].status = "running"
    BY <1>9 DEF OpenInv, Gone
  <2>5. Final
    BY <1>9, <2>1, <2>2, <2>4 DEF Final, OtherRowsKept, TerminalStatuses
  <2> QED
    BY <1>9, <2>3, <2>5 DEF OpenInv
<1>10. ASSUME NEW p \in Procs, SaveResult(p) \/ SaveUnsaved(p)
       PROVE  MessageInv' /\ OpenInv(w)' /\ Final
  <2>1. p = w
    BY <1>10, <1>i, <1>j DEF SaveResult, SaveUnsaved, PcInv, Executing
  <2>2. CASE SaveResult(p)
    <3>1. pc'[w] \notin {"exec", "save"}
      BY <2>1, <2>2, <1>t, <1>w DEF SaveResult, Goto
    <3> QED
      BY <2>1, <2>2, <3>1, <1>9, <1>w DEF SaveResult
  <2>3. CASE SaveUnsaved(p)
    <3>1. pc'[w] \notin {"exec", "save"}
      BY <2>1, <2>3, <1>t, <1>w DEF SaveUnsaved, Goto
    <3> DEFINE row == [db[job[w]] EXCEPT !.status = "failed", !.failure_message = "unsaved"]
    <3>2. Write(w, job[w], row)
      BY <2>1, <2>3 DEF SaveUnsaved
    <3>3. row.status = "failed" /\ row.failure_message = "unsaved"
      <4>1. job[w] \in Jobs
        BY <2>1, <2>3, <1>i, <1>w DEF SaveUnsaved, PcInv, Executing
      <4>2. db[job[w]] \in Row
        BY <4>1, <1>t
      <4> QED
        BY <4>2 DEF Row
    <3>4. pc[w] = "unsaved" /\ ~Gone(job[w])
      BY <2>1, <2>3 DEF SaveUnsaved
    <3> HIDE DEF row
    <3> QED
      BY <2>1, <3>1, <3>2, <3>3, <3>4, <1>9, <1>w
  <2> QED
    BY <1>10, <2>2, <2>3
<1>11. ASSUME NEW p \in Procs, SaveStaleJobs(p)
       PROVE  MessageInv' /\ OpenInv(w)' /\ Final
  <2>1. /\ db' = db
        /\ \A j \in Jobs : new'[j] = IF lock[j] = p THEN Stale(new[j]) ELSE new[j]
    BY <1>11 DEF SaveStaleJobs
  <2>2. \A j \in Jobs : lock[j] = p => db[j].status = "running"
    BY <1>11, <1>i DEF SaveStaleJobs, LockInv, RowInv
  <2>3. MessageInv'
    BY <2>1, <2>2 DEF MessageInv, Stale
  <2>4. SameExecution(w)
    BY <1>11, <1>t, <1>w DEF SaveStaleJobs, Goto, SameExecution
  <2> QED
    BY <1>j, <2>1, <2>3, <2>4, SaysFrame DEF SaysTheSame
<1>12. ASSUME NEW p \in Procs, Crash(p) \/ AbortDeadlocked(p) \/ SaveFails(p)
       PROVE  MessageInv' /\ OpenInv(w)' /\ Final
  <2>1. /\ db' = db
        /\ \A j \in Jobs : new'[j] = IF lock[j] = p THEN db[j] ELSE new[j]
    BY <1>12 DEF Crash, AbortDeadlocked, SaveFails, Rollback
  <2>2. MessageInv'
    BY <2>1 DEF MessageInv
  <2>3. SameExecution(w)
    BY <1>12, <1>t, <1>w DEF Crash, AbortDeadlocked, SaveFails, Rollback, SameExecution
  <2> QED
    BY <1>j, <2>1, <2>2, <2>3, SaysFrame DEF SaysTheSame
<1>13. ASSUME NEW j \in Jobs, DeleteJob(j) PROVE MessageInv' /\ OpenInv(w)' /\ Final
  <2>1. /\ db'[j] = GoneRow /\ new'[j] = GoneRow /\ UNCHANGED <<pc, job>>
        /\ \A i \in Jobs \ {j} : db'[i] = db[i] /\ new'[i] = new[i]
    BY <1>13, <1>t DEF DeleteJob
  <2>2. GoneRow.status = "deleted"
    BY DEF GoneRow, NoRow
  <2>3. MessageInv'
    BY <2>1 DEF MessageInv
  <2>4. Final
    BY <2>1, <2>2 DEF Final
  <2>5. OpenInv(w)'
    BY <1>j, <2>1, <2>2 DEF OpenInv
  <2> QED
    BY <2>3, <2>4, <2>5
<1>14. CASE UNCHANGED vars
  BY <1>14 DEF vars, MessageInv, OpenInv, Final
<1> QED
  BY <1>1, <1>3, <1>5, <1>6, <1>7, <1>8, <1>10, <1>11, <1>12, <1>13, <1>14
     DEF Next, Step

\* With one worker and no smoke command, what a finished job says stays as it is,
\* but for the correction that its results could not be saved: no submission,
\* refresh, recovery or restart touches it.
THEOREM TerminalStays ==
    ASSUME NEW w, Workers = {w}, Smokes = {}
    PROVE  Spec => TerminalIsFinal
<1>1. Init => MessageInv /\ OpenInv(w)
  BY FinalInit
<1>2. IInv /\ HoldInv /\ MessageInv /\ OpenInv(w) /\ [Next]_vars
        => MessageInv' /\ OpenInv(w)' /\ Final
  BY FinalStep
<1>3. Spec => []HoldInv
  BY HoldInit, HoldStep, Invariance, PTL DEF Spec
<1>4. Spec => [][Final]_vars
  BY <1>1, <1>2, <1>3, Invariance, PTL DEF Spec
<1> QED
  BY <1>4 DEF TerminalIsFinal, Final

-----------------------------------------------------------------------------
(* Reports of completed jobs                                               *)

\* A COMPLETED job has its report or somebody who records it.
Reported(j) == db[j].status = "completed" =>
    "report" \in art[j] \/ \E p \in Procs : Recording(p) /\ job[p] = j

FinisherDies(j) == \E p \in Holders[j] : Recording(p) /\ Crash(p)

\* A step that does not complete j, takes no report from it and disturbs nobody who
\* records it.
LEMMA ReportFrame ==
    ASSUME NEW j \in Jobs, Reported(j),
           db'[j].status = "completed" => db[j].status = "completed",
           art[j] \subseteq art'[j] \/ db'[j].status # "completed",
           \A p \in Procs : Recording(p) /\ job[p] = j =>
               \/ Recording(p)' /\ job'[p] = job[p]
               \/ db'[j].status # "completed"
    PROVE  Reported(j)'
  BY DEF Reported

\* A job is left without report and recorder only by the death of its recorder.
LEMMA ReportStep ==
    ASSUME IInv, HoldInv, [Next]_vars, NEW j \in Jobs, Reported(j)
    PROVE  Reported(j)' \/ FinisherDies(j)
<1>i. TypeOK /\ PcInv /\ LockInv
  BY DEF IInv, JobInv
<1>t. /\ pc \in [Procs -> Statements] /\ op \in [Procs -> Operations]
      /\ job \in [Procs -> Jobs \cup {0}] /\ db \in [Jobs -> Row]
      /\ art \in [Jobs -> SUBSET {"report", "plot"}]
  BY <1>i DEF TypeOK
<1>r. \A p \in Procs : Recording(p) => op[p] = "finish"
  BY <1>i DEF Recording, PcInv, Executing
<1>1. ASSUME NEW p \in Procs,
             \/ CountActiveJobs(p) \/ RejectSubmission(p) \/ SelectPositions(p)
             \/ ExecuteJob(p) \/ StartWorker(p) \/ SaveStaleJobs(p)
             \/ PollNothing(p) \/ RefuseToStart(p)
             \/ \E i \in Jobs : LockStaleJob(p, i)
      PROVE  Reported(j)'
  <2>1. /\ db' = db /\ art' = art /\ ~Recording(p)
        /\ \A q \in Procs \ {p} : pc'[q] = pc[q] /\ job'[q] = job[q]
    BY <1>1, <1>t DEF CountActiveJobs, RejectSubmission, SelectPositions, ExecuteJob,
       StartWorker, SaveStaleJobs, PollNothing, RefuseToStart, LockStaleJob, NextStale,
       Goto, tables, Recording
  <2> QED
    BY <1>t, <2>1, ReportFrame DEF Recording
<1>2. ASSUME NEW p \in Procs,
             \/ InsertJob(p) \/ StartQueuedJob(p)
             \/ \E i \in Jobs : ClaimNextQueuedJob(p, i)
      PROVE  Reported(j)'
  <2>1. op[p] # "finish" /\ ~Recording(p)
    BY <1>2, <1>i DEF InsertJob, StartQueuedJob, ClaimNextQueuedJob, PcInv, Recording
  <2>2. /\ db' = db /\ art' = art
        /\ \A q \in Procs \ {p} : pc'[q] = pc[q] /\ job'[q] = job[q]
    BY <1>2, <1>t, <2>1
       DEF InsertJob, StartQueuedJob, ClaimNextQueuedJob, Write, InTransaction, Goto
  <2> QED
    BY <1>t, <2>1, <2>2, ReportFrame DEF Recording
<1>3. ASSUME NEW p \in Procs, Commit(p) PROVE Reported(j)'
  <2>1. ~Recording(p) /\ art' = art
    BY <1>3 DEF Commit, Recording
  <2>2. \A q \in Procs \ {p} : pc'[q] = pc[q] /\ job'[q] = job[q]
    BY <1>3, <1>t DEF Commit
  <2>3. db'[j].status = "completed" => db[j].status = "completed"
    BY <1>3, CommitEffect DEF StatusChange
  <2> QED
    BY <1>t, <2>1, <2>2, <2>3, ReportFrame DEF Recording
<1>4. ASSUME NEW p \in Procs, NEW i \in Jobs, UpdatePosition(p, i) PROVE Reported(j)'
  <2>1. UNCHANGED <<pc, job, art>>
    BY <1>4 DEF UpdatePosition
  <2>2. SameStatuses
    <3>1. CASE Gone(i)
      BY <1>4, <3>1 DEF UpdatePosition, tables, SameStatuses
    <3>2. CASE ~Gone(i)
      <4>1. View(p, i).status = db[i].status \/ op[p] # "finish"
        BY <1>i DEF View, LockInv, RowInv
      <4> DEFINE row == [View(p, i) EXCEPT !.queue_position = todo[p][i]]
      <4>2. row.status = View(p, i).status
        BY <1>i, WrittenStatus
      <4>3. Write(p, i, row)
        BY <1>4, <3>2 DEF UpdatePosition
      <4> HIDE DEF row
      <4> QED
        BY <4>1, <4>2, <4>3, <1>i, WriteEffect DEF SameStatuses, OtherRowsKept
    <3> QED
      BY <3>1, <3>2
  <2> QED
    BY <1>t, <2>1, <2>2, ReportFrame DEF SameStatuses, Recording
<1>5. ASSUME NEW p \in Procs, SaveResult(p) PROVE Reported(j)'
  <2>1. job[p] \in Jobs /\ op[p] = "finish"
    BY <1>5, <1>i DEF SaveResult, PcInv, Executing
  <2>2. OtherRowsKept(job[p]) /\ db'[job[p]] = Finished(result[p])
    BY <1>5, <1>i, <2>1, WriteEffect DEF SaveResult
  <2>3. /\ art' = art /\ job' = job /\ ~Recording(p)
        /\ \A q \in Procs \ {p} : pc'[q] = pc[q]
        /\ result[p] # "raised" => Recording(p)'
    BY <1>5, <1>t DEF SaveResult, Goto, Recording
  <2>4. result[p] = "raised" => db'[job[p]].status # "completed"
    BY <2>2 DEF Finished
  <2>5. CASE j = job[p]
    BY <2>5, <2>3, <2>4 DEF Reported, Recording
  <2>6. CASE j # job[p]
    <3>1. db'[j] = db[j]
      BY <2>2, <2>6 DEF OtherRowsKept
    <3> QED
      BY <3>1, <2>3 DEF Reported, Recording
  <2> QED
    BY <2>5, <2>6
<1>6. ASSUME NEW p \in Procs, SaveUnsaved(p) PROVE Reported(j)'
  <2>1. job[p] \in Jobs /\ op[p] = "finish"
    BY <1>6, <1>i DEF SaveUnsaved, PcInv, Executing
  <2> DEFINE row == [db[job[p]] EXCEPT !.status = "failed", !.failure_message = "unsaved"]
  <2>2. row.status = "failed"
    BY <2>1, <1>i, WrittenStatus
  <2>3. Write(p, job[p], row)
    BY <1>6 DEF SaveUnsaved
  <2> HIDE DEF row
  <2>4. OtherRowsKept(job[p]) /\ db'[job[p]].status = "failed"
    BY <1>i, <2>1, <2>2, <2>3, WriteEffect
  <2>5. /\ art' = art /\ job' = job
        /\ \A q \in Procs \ {p} : pc'[q] = pc[q]
    BY <1>6, <1>t DEF SaveUnsaved, Goto
  <2>6. db'[j].status = "completed" => db[j].status = "completed"
    BY <2>4 DEF OtherRowsKept
  <2> QED
    BY <1>t, <2>4, <2>5, <2>6, ReportFrame DEF Recording
<1>7. ASSUME NEW p \in Procs, ClearArtifacts(p) PROVE Reported(j)'
  <2>1. job[p] \in Jobs
    BY <1>7, <1>i DEF ClearArtifacts, PcInv, Executing
  <2>2. /\ db' = db /\ job' = job /\ Recording(p)'
        /\ \A q \in Procs \ {p} : pc'[q] = pc[q]
        /\ \A i \in Jobs \ {job[p]} : art'[i] = art[i]
    BY <1>7, <1>t DEF ClearArtifacts, Goto, tables, Recording
  <2>3. CASE j = job[p]
    BY <2>3, <2>2 DEF Reported, Recording
  <2>4. CASE j # job[p]
    <3>1. art'[j] = art[j]
      BY <2>2, <2>4
    <3> QED
      BY <3>1, <2>2 DEF Reported, Recording
  <2> QED
    BY <2>3, <2>4
<1>8. ASSUME NEW p \in Procs, CreateArtifact(p) PROVE Reported(j)'
  <2>1. job[p] \in Jobs
    BY <1>8, <1>i DEF CreateArtifact, PcInv, Executing
  <2>2. /\ db' = db /\ job' = job
        /\ \A q \in Procs \ {p} : pc'[q] = pc[q]
        /\ art[j] \subseteq art'[j]
        /\ Recording(p) => "report" \in art'[job[p]]
    BY <1>8, <1>t, <2>1 DEF CreateArtifact, Goto, tables, Recording
  <2> QED
    BY <2>2 DEF Reported, Recording
<1>9. ASSUME NEW p \in Procs, ArtifactFailure(p) PROVE Reported(j)'
  <2>1. /\ db' = db /\ job' = job /\ art' = art /\ Recording(p)'
        /\ \A q \in Procs \ {p} : pc'[q] = pc[q]
    BY <1>9, <1>t DEF ArtifactFailure, Goto, tables, Recording
  <2> QED
    BY <1>t, <2>1, ReportFrame DEF Recording
<1>10. ASSUME NEW p \in Procs, Dies(p) PROVE Reported(j)' \/ FinisherDies(j)
  <2>1. /\ db' = db /\ art' = art
        /\ \A q \in Procs \ {p} : pc'[q] = pc[q] /\ job'[q] = job[q]
    BY <1>10, <1>t DEF Dies, Rollback
  <2>2. CASE Recording(p) /\ job[p] = j /\ db[j].status = "completed"
    <3>1. p \in Holders[j]
      BY <2>2, <1>r DEF HoldInv, Holders
    <3>2. Crash(p)
      BY <1>10, <2>2, <1>r, NoVictim DEF Dies, SaveFails, Gone
    <3> QED
      BY <3>1, <3>2, <2>2 DEF FinisherDies
  <2>3. CASE ~(Recording(p) /\ job[p] = j /\ db[j].status = "completed")
    BY <2>1, <2>3, ReportFrame DEF Recording
  <2> QED
    BY <2>2, <2>3
<1>11. ASSUME NEW p \in Procs, Crash(p) \/ SaveFails(p) \/ AbortDeadlocked(p)
       PROVE  Dies(p)
  <2>1. Rollback(p)
    BY <1>11 DEF Crash, AbortDeadlocked, SaveFails
  <2> QED
    BY <1>11, <2>1 DEF Dies
<1>12. ASSUME NEW k \in Jobs, DeleteJob(k) PROVE Reported(j)'
  <2>1. /\ db'[k].status = "deleted" /\ \A i \in Jobs \ {k} : db'[i] = db[i]
        /\ \A i \in Jobs \ {k} : art'[i] = art[i]
        /\ UNCHANGED <<pc, job>>
    BY <1>12, <1>t DEF DeleteJob, GoneRow, NoRow
  <2> QED
    BY <1>t, <2>1, ReportFrame DEF Recording
<1>13. CASE UNCHANGED vars
  BY <1>13 DEF vars, tables, Reported, Recording
<1> QED
  BY <1>1, <1>2, <1>3, <1>4, <1>5, <1>6, <1>7, <1>8, <1>9, <1>10, <1>11, <1>12, <1>13
     DEF Next, Step

\* Executions of one job are one execution: a start commits only out of QUEUED,
\* which no executed job is.
OneHolder == \A p, q \in Procs :
    op[p] = "finish" /\ op[q] = "finish" /\ job[p] = job[q] => p = q

\* Who is in an execution was in it before, or starts a job that was QUEUED.
LEMMA HolderStep ==
    ASSUME IInv, HoldInv, [Next]_vars, NEW p \in Procs, op'[p] = "finish"
    PROVE  \/ op[p] = "finish" /\ job'[p] = job[p]
           \/ /\ job'[p] \in Jobs /\ db'[job'[p]].status = "running"
              /\ \A q \in Procs \ {p} : /\ op'[q] = op[q] /\ job'[q] = job[q]
                                        /\ op[q] = "finish" => job[q] # job'[p]
<1>1. CASE Internal
  BY <1>1 DEF Internal, Keeps, Turns
<1>2. ASSUME NEW r \in Procs, Commit(r), r # p PROVE op[p] = "finish" /\ job'[p] = job[p]
  BY <1>2, CommitEffect
<1>3. CASE Commit(p)
  <2>1. op[p] = "start"
    BY <1>3, CommitEffect
  <2>2. /\ job'[p] = job[p] /\ job[p] \in Jobs /\ StartsRow(p)
        /\ db'[job[p]].status = "running"
        /\ \A q \in Procs \ {p} : op'[q] = op[q] /\ job'[q] = job[q]
    BY <1>3, <2>1, CommitEffect
  <2>3. db[job[p]].status = "queued"
    BY <2>2 DEF StartsRow
  <2> QED
    BY <2>2, <2>3 DEF HoldInv
<1>4. ASSUME NEW r \in Procs, Dies(r) PROVE op[p] = "finish" /\ job'[p] = job[p]
  BY <1>4, RollbackEffect DEF Dies
<1>5. ASSUME NEW r \in Procs, Saves(r) PROVE op[p] = "finish" /\ job'[p] = job[p]
  BY <1>5 DEF Saves
<1>6. ASSUME NEW i \in Jobs, DeleteJob(i) PROVE op[p] = "finish" /\ job'[p] = job[p]
  BY <1>6 DEF DeleteJob
<1> QED
  BY <1>1, <1>2, <1>3, <1>4, <1>5, <1>6, StepEffect DEF Effect

LEMMA OneHolderStep ==
    ASSUME IInv, HoldInv, OneHolder, [Next]_vars
    PROVE  OneHolder'
<1> SUFFICES ASSUME NEW p \in Procs, NEW q \in Procs, p # q,
                    op'[p] = "finish", op'[q] = "finish", job'[p] = job'[q]
             PROVE  FALSE
  BY DEF OneHolder
<1>1. \A r \in Procs : op'[r] = "finish" =>
          \/ op[r] = "finish" /\ job'[r] = job[r]
          \/ \A s \in Procs \ {r} : /\ op'[s] = op[s] /\ job'[s] = job[s]
                                    /\ op[s] = "finish" => job[s] # job'[r]
  BY HolderStep
<1>2. \/ op[p] = "finish" /\ job'[p] = job[p]
      \/ op'[q] = op[q] /\ job'[q] = job[q] /\ job[q] # job'[p]
  BY <1>1
<1>3. \/ op[q] = "finish" /\ job'[q] = job[q]
      \/ op'[p] = op[p] /\ job'[p] = job[p] /\ job[p] # job'[q]
  BY <1>1
<1> QED
  BY <1>2, <1>3 DEF OneHolder

\* As long as a job is executed, it has its report or its recorder.
HeldInv == OneHolder /\ \A j \in Jobs : Holders[j] # {} => Reported(j)

LEMMA HeldInit == Init => HeldInv
<1> SUFFICES ASSUME Init PROVE HeldInv
  OBVIOUS
<1>1. \A p \in Procs : op[p] # "finish"
  BY DEF Init
<1>2. Executors \subseteq Procs
  BY DEF Procs
<1> QED
  BY <1>1, <1>2 DEF HeldInv, OneHolder, Holders

LEMMA HeldStep ==
    ASSUME IInv, HoldInv, HeldInv, [Next]_vars
    PROVE  HeldInv'
<1>1. OneHolder'
  BY OneHolderStep DEF HeldInv
<1>2. ASSUME NEW j \in Jobs, Holders'[j] # {} PROVE Reported(j)'
  <2>1. PICK p \in Executors : op'[p] = "finish" /\ job'[p] = j
    BY <1>2 DEF Holders, Executors, Jobs
  <2>2. p \in Procs
    BY DEF Procs
  <2>3. CASE op[p] = "finish" /\ job[p] = j
    <3>1. Holders[j] # {}
      BY <2>3 DEF Holders
    <3>2. ~FinisherDies(j)
      <4> SUFFICES ASSUME NEW q \in Holders[j], Crash(q) PROVE FALSE
        BY DEF FinisherDies
      <4>1. q \in Procs /\ op[q] = "finish" /\ job[q] = j
        BY DEF Holders, Procs
      <4>2. q = p
        BY <2>2, <2>3, <4>1 DEF HeldInv, OneHolder
      <4>3. op'[p] # "finish"
        BY <2>2, <4>2, RollbackEffect DEF Crash
      <4> QED
        BY <2>1, <4>3
    <3> QED
      BY <3>1, <3>2, ReportStep DEF HeldInv
  <2>4. CASE ~(op[p] = "finish" /\ job[p] = j)
    <3>1. db'[j].status = "running"
      BY <2>1, <2>2, <2>4, HolderStep
    <3> QED
      BY <3>1 DEF Reported
  <2> QED
    BY <2>3, <2>4
<1> QED
  BY <1>1, <1>2 DEF HeldInv

\* A job that is left without its report is so by the death of its finisher.
LeftByDeath(j) == ~Unreported(j) /\ Unreported(j)' => FinisherDies(j)

LEMMA LossStep ==
    ASSUME IInv, HoldInv, HeldInv, [Next]_vars, NEW j \in Jobs
    PROVE  LeftByDeath(j)
<1> SUFFICES ASSUME ~Unreported(j), Unreported(j)' PROVE FinisherDies(j)
  BY DEF LeftByDeath
<1>1. ASSUME Reported(j)' PROVE FALSE
  <2>1. PICK p \in Procs : Recording(p)' /\ job'[p] = j
    BY <1>1 DEF Reported, Unreported
  <2>2. IInv'
    BY InvStep
  <2>3. op'[p] = "finish"
    BY <2>1, <2>2 DEF IInv, JobInv, PcInv, Recording, Executing
  <2>4. HoldInv'
    BY HoldStep
  <2>5. p \in Executors
    BY <2>3, <2>4 DEF HoldInv, Executors, Procs
  <2>6. p \in Holders'[j]
    BY <2>1, <2>3, <2>5 DEF Holders, Executors, Jobs
  <2> QED
    BY <2>6 DEF Unreported, Holders, Executors, Jobs
<1>2. CASE Reported(j)
  BY <1>1, <1>2, ReportStep
<1>3. CASE ~Reported(j)
  <2>1. db[j].status = "completed" /\ "report" \notin art[j]
    BY <1>3 DEF Reported
  <2>2. Holders[j] # {}
    BY <2>1 DEF Unreported
  <2> QED
    BY <1>3, <2>2 DEF HeldInv
<1> QED
  BY <1>2, <1>3

LEMMA HeldInvariance == Spec => [](HoldInv /\ HeldInv)
<1>1. IInv /\ HoldInv /\ HeldInv /\ [Next]_vars => HoldInv' /\ HeldInv'
  BY HoldStep, HeldStep
<1> QED
  BY <1>1, HoldInit, HeldInit, Invariance, PTL DEF Spec

\* For one job.
LEMMA ReportRecorded ==
    ASSUME NEW j \in Jobs
    PROVE  Spec => [][LeftByDeath(j)]_vars
<1>1. IInv /\ HoldInv /\ HeldInv /\ [Next]_vars => LeftByDeath(j)
  BY LossStep
<1> QED
  BY <1>1, HeldInvariance, Invariance, PTL DEF Spec

\* A COMPLETED job is left without its report only by the death of the process that
\* was to record it, through failing artifacts, deadlocks, recovery and deletions,
\* for any number of workers and smoke commands.
THEOREM ReportsRecorded == Spec => CompletedHasReport
<1>1. IInv /\ HoldInv /\ HeldInv /\ [Next]_vars => \A j \in Jobs :
        ~Unreported(j) /\ Unreported(j)'
        => \E p \in Holders[j] : Recording(p) /\ Crash(p)
  BY LossStep DEF LeftByDeath, FinisherDies
<1> QED
  BY <1>1, HeldInvariance, Invariance, PTL DEF Spec, CompletedHasReport

-----------------------------------------------------------------------------
(* Whom recovery fails                                                     *)

\* A version that says it is stale, of a row that does not, is a recovery's.
StaleRow(j) == new[j].failure_message = "stale" /\ db[j].failure_message # "stale" =>
    \E p \in Procs : lock[j] = p /\ op[p] = "recover"

StaleInv == \A j \in Jobs : StaleRow(j)

\* Only the commit of a recovery that holds the row makes a row say so.
ByRecovery(j) == db'[j].failure_message = "stale" /\ db[j].failure_message # "stale" =>
    \E p \in Procs : Commit(p) /\ op[p] = "recover" /\ lock[j] = p

\* A step that leaves the row alone, or its message in both versions while the holder
\* keeps it.
LEMMA StaleFrame ==
    ASSUME IInv, [Next]_vars, NEW j \in Jobs, StaleRow(j),
           db'[j].failure_message = db[j].failure_message,
           \/ /\ new'[j].failure_message = new[j].failure_message
              /\ lock[j] # NoProc => lock'[j] = lock[j]
           \/ new'[j].failure_message = db[j].failure_message
    PROVE  StaleRow(j)' /\ ByRecovery(j)
<1>1. ByRecovery(j)
  BY DEF ByRecovery
<1>2. CASE new'[j].failure_message = db[j].failure_message
  BY <1>1, <1>2 DEF StaleRow
<1>3. CASE /\ new'[j].failure_message = new[j].failure_message
           /\ lock[j] # NoProc => lock'[j] = lock[j]
  <2> SUFFICES ASSUME new'[j].failure_message = "stale", db'[j].failure_message # "stale"
               PROVE  \E p \in Procs : lock'[j] = p /\ op'[p] = "recover"
    BY <1>1 DEF StaleRow
  <2>1. PICK p \in Procs : lock[j] = p /\ op[p] = "recover"
    BY <1>3 DEF StaleRow
  <2>2. lock'[j] = p
    BY <1>3, <2>1, ProcsAssumption
  <2>3. op'[p] = op[p]
    BY <2>2, HoldEffect
  <2> QED
    BY <2>1, <2>2, <2>3
<1> QED
  BY <1>1, <1>2, <1>3

\* A write whose message is that of the version the writer sees, or not "stale".
LEMMA StaleWrite ==
    ASSUME IInv, [Next]_vars, StaleInv, NEW p \in Procs, NEW i \in Jobs, NEW row,
           Write(p, i, row),
           row.failure_message \in {View(p, i).failure_message, "", "backend", "unsaved"}
    PROVE  \A j \in Jobs : StaleRow(j)' /\ ByRecovery(j)
<1>i. TypeOK /\ LockInv /\ NoProc \notin Procs
  BY ProcsAssumption DEF IInv, JobInv
<1>w. /\ lock[i] \in {NoProc, p} /\ OtherRowsKept(i) /\ new'[i] = row
      /\ op[p] # "finish" => db' = db /\ lock'[i] = p
      /\ op[p] = "finish" => db'[i] = row /\ lock' = lock
  BY <1>i, WriteEffect
<1>1. ASSUME NEW j \in Jobs \ {i} PROVE StaleRow(j)' /\ ByRecovery(j)
  BY <1>w, StaleFrame DEF OtherRowsKept, StaleInv
<1>2. StaleRow(i)' /\ ByRecovery(i)
  <2>1. CASE op[p] = "finish"
    <3>1. View(p, i) = db[i]
      BY <1>i, <2>1, HoldsNothing DEF View
    <3> QED
      BY <1>w, <2>1, <3>1 DEF StaleRow, ByRecovery
  <2>2. CASE op[p] # "finish"
    <3>1. CASE row.failure_message = View(p, i).failure_message /\ lock[i] = p
      BY <1>w, <2>2, <3>1, StaleFrame DEF StaleInv, View
    <3>2. CASE row.failure_message = View(p, i).failure_message /\ lock[i] # p
      BY <1>w, <2>2, <3>2, StaleFrame DEF StaleInv, View
    <3>3. CASE row.failure_message \in {"", "backend", "unsaved"}
      BY <1>w, <2>2, <3>3 DEF StaleRow, ByRecovery
    <3> QED
      BY <3>1, <3>2, <3>3
  <2> QED
    BY <2>1, <2>2
<1> QED
  BY <1>1, <1>2

LEMMA StaleStep ==
    IInv /\ StaleInv /\ [Next]_vars => StaleInv' /\ \A j \in Jobs : ByRecovery(j)
<1> SUFFICES ASSUME IInv, StaleInv, [Next]_vars
             PROVE  \A j \in Jobs : StaleRow(j)' /\ ByRecovery(j)
  BY DEF StaleInv
<1>i. TypeOK /\ PcInv /\ LockInv
  BY DEF IInv, JobInv
<1>t. /\ db \in [Jobs -> Row] /\ new \in [Jobs -> Row]
      /\ lock \in [Jobs -> Procs \cup {NoProc}] /\ nextJob \in Nat
  BY <1>i, BoundsAssumption DEF TypeOK
<1>s. \A j \in Jobs : StaleRow(j)
  BY DEF StaleInv
<1>q. ASSUME UNCHANGED tables PROVE \A j \in Jobs : StaleRow(j)' /\ ByRecovery(j)
  BY <1>q, <1>s, StaleFrame DEF tables
<1>1. ASSUME NEW p \in Procs,
             \/ CountActiveJobs(p) \/ RejectSubmission(p) \/ SelectPositions(p)
             \/ ExecuteJob(p) \/ ArtifactFailure(p) \/ StartWorker(p)
             \/ PollNothing(p) \/ RefuseToStart(p)
             \/ ClearArtifacts(p) \/ CreateArtifact(p)
      PROVE  UNCHANGED tables
  BY <1>1
     DEF CountActiveJobs, RejectSubmission, SelectPositions, ExecuteJob,
         ArtifactFailure, StartWorker, PollNothing, RefuseToStart,
         ClearArtifacts, CreateArtifact
<1>2. ASSUME NEW p \in Procs, InsertJob(p) PROVE \A j \in Jobs : StaleRow(j)' /\ ByRecovery(j)
  <2> DEFINE row == [status |-> "queued", queue_position |-> depth[p] + 1,
                     failure_message |-> ""]
  <2>1. nextJob \in Jobs /\ Write(p, nextJob, row)
    BY <1>2 DEF InsertJob
  <2>2. row.failure_message = ""
    OBVIOUS
  <2> HIDE DEF row
  <2> QED
    BY <2>1, <2>2, StaleWrite
<1>3. ASSUME NEW p \in Procs, NEW i \in Jobs, UpdatePosition(p, i)
      PROVE  \A j \in Jobs : StaleRow(j)' /\ ByRecovery(j)
  <2>1. CASE Gone(i)
    BY <1>3, <2>1, <1>q DEF UpdatePosition
  <2>2. CASE ~Gone(i)
    <3> DEFINE row == [View(p, i) EXCEPT !.queue_position = todo[p][i]]
    <3>1. Write(p, i, row)
      BY <1>3, <2>2 DEF UpdatePosition
    <3>2. row.failure_message = View(p, i).failure_message
      <4>1. View(p, i) \in Row
        BY <1>i, ViewType
      <4> QED
        BY <4>1 DEF Row
    <3> HIDE DEF row
    <3> QED
      BY <3>1, <3>2, StaleWrite
  <2> QED
    BY <2>1, <2>2
<1>4. ASSUME NEW p \in Procs, Commit(p) PROVE \A j \in Jobs : StaleRow(j)' /\ ByRecovery(j)
  <2>1. /\ new' = new
        /\ \A j \in Jobs : IF lock[j] = p THEN db'[j] = new[j]
                           ELSE db'[j] = db[j] /\ lock'[j] = lock[j]
    BY <1>4 DEF Commit, View
  <2>2. ASSUME NEW j \in Jobs, lock[j] # p PROVE StaleRow(j)' /\ ByRecovery(j)
    BY <1>s, <2>1, <2>2, StaleFrame
  <2>3. ASSUME NEW j \in Jobs, lock[j] = p PROVE StaleRow(j)' /\ ByRecovery(j)
    BY <1>4, <1>s, <2>1, <2>3 DEF StaleRow, ByRecovery
  <2> QED
    BY <2>2, <2>3
<1>5. ASSUME NEW p \in Procs, NEW i \in Jobs, Write(p, i, Started(db[i])), lock[i] # p
      PROVE  \A j \in Jobs : StaleRow(j)' /\ ByRecovery(j)
  <2>1. Started(db[i]).failure_message = View(p, i).failure_message
    BY <1>5, <1>t DEF Started, View, Row
  <2> QED
    BY <1>5, <2>1, StaleWrite
<1>6. ASSUME NEW p \in Procs, StartQueuedJob(p) \/ \E i \in Jobs : ClaimNextQueuedJob(p, i)
      PROVE  \A j \in Jobs : StaleRow(j)' /\ ByRecovery(j)
  <2>1. \A i \in Jobs : lock[i] # p
    BY <1>6, <1>i, HoldsNothing DEF StartQueuedJob, ClaimNextQueuedJob, InRefresh
  <2>2. StartQueuedJob(p) => job[p] \in Jobs
    BY <1>i DEF StartQueuedJob, PcInv
  <2>3. \E i \in Jobs : Write(p, i, Started(db[i]))
    BY <1>6, <2>2 DEF StartQueuedJob, ClaimNextQueuedJob
  <2> QED
    BY <2>1, <2>3, <1>5
<1>7. ASSUME NEW p \in Procs, SaveResult(p) \/ SaveUnsaved(p)
      PROVE  \A j \in Jobs : StaleRow(j)' /\ ByRecovery(j)
  <2>1. job[p] \in Jobs
    BY <1>7, <1>i DEF SaveResult, SaveUnsaved, PcInv, Executing
  <2>2. CASE SaveResult(p)
    <3>1. Finished(result[p]).failure_message \in {"", "backend"}
      BY DEF Finished
    <3>2. Write(p, job[p], Finished(result[p]))
      BY <2>2 DEF SaveResult
    <3> QED
      BY <2>1, <3>1, <3>2, StaleWrite
  <2>3. CASE SaveUnsaved(p)
    <3> DEFINE row == [db[job[p]] EXCEPT !.status = "failed", !.failure_message = "unsaved"]
    <3>1. row.failure_message = "unsaved"
      <4>1. db[job[p]] \in Row
        BY <2>1, <1>t
      <4> QED
        BY <4>1 DEF Row
    <3>2. Write(p, job[p], row)
      BY <2>3 DEF SaveUnsaved
    <3> HIDE DEF row
    <3> QED
      BY <2>1, <3>1, <3>2, StaleWrite
  <2> QED
    BY <1>7, <2>2, <2>3
<1>8. ASSUME NEW p \in Procs, NEW i \in Jobs, LockStaleJob(p, i)
      PROVE  \A j \in Jobs : StaleRow(j)' /\ ByRecovery(j)
  <2>1. /\ db' = db /\ new' = new
        /\ \A j \in Jobs : lock[j] # NoProc => lock'[j] = lock[j]
    BY <1>8, <1>t DEF LockStaleJob
  <2> QED
    BY <1>s, <2>1, StaleFrame
<1>9. ASSUME NEW p \in Procs, SaveStaleJobs(p)
      PROVE  \A j \in Jobs : StaleRow(j)' /\ ByRecovery(j)
  <2>1. /\ op[p] = "recover" /\ op' = op /\ db' = db /\ lock' = lock
        /\ \A j \in Jobs : lock[j] # p => new'[j] = new[j]
    BY <1>9, <1>i DEF SaveStaleJobs, PcInv
  <2>2. ASSUME NEW j \in Jobs, lock[j] = p PROVE StaleRow(j)' /\ ByRecovery(j)
    BY <2>1, <2>2 DEF StaleRow, ByRecovery
  <2>3. ASSUME NEW j \in Jobs, lock[j] # p PROVE StaleRow(j)' /\ ByRecovery(j)
    BY <1>s, <2>1, <2>3, StaleFrame
  <2> QED
    BY <2>2, <2>3
<1>10. ASSUME NEW p \in Procs, Crash(p) \/ AbortDeadlocked(p) \/ SaveFails(p)
       PROVE  \A j \in Jobs : StaleRow(j)' /\ ByRecovery(j)
  <2>1. Rollback(p)
    BY <1>10 DEF Crash, AbortDeadlocked, SaveFails
  <2>2. /\ db' = db
        /\ \A j \in Jobs : IF lock[j] = p THEN new'[j] = db[j]
                           ELSE new'[j] = new[j] /\ lock'[j] = lock[j]
    BY <2>1 DEF Rollback
  <2> QED
    BY <1>s, <2>2, StaleFrame
<1>11. ASSUME NEW i \in Jobs, DeleteJob(i) PROVE \A j \in Jobs : StaleRow(j)' /\ ByRecovery(j)
  <2>1. GoneRow.failure_message = ""
    BY DEF GoneRow, NoRow
  <2>2. /\ lock' = lock /\ db'[i] = GoneRow /\ new'[i] = GoneRow
        /\ \A j \in Jobs \ {i} : db'[j] = db[j] /\ new'[j] = new[j]
    BY <1>11, <1>t DEF DeleteJob
  <2>3. StaleRow(i)' /\ ByRecovery(i)
    BY <2>1, <2>2 DEF StaleRow, ByRecovery
  <2>4. ASSUME NEW j \in Jobs \ {i} PROVE StaleRow(j)' /\ ByRecovery(j)
    BY <1>s, <2>2, StaleFrame
  <2> QED
    BY <2>3, <2>4
<1>12. CASE UNCHANGED vars
  BY <1>12, <1>q DEF vars, tables
<1> QED
  BY <1>q, <1>1, <1>2, <1>3, <1>4, <1>6, <1>7, <1>8, <1>9, <1>10, <1>11, <1>12
     DEF Next, Step

\* A row says it was failed by a recovery only because one has committed that held
\* the row, for any processes.
THEOREM OnlyRecoveryFails == Spec => [][\A j \in Jobs : ByRecovery(j)]_vars
<1>1. Init => StaleInv
  BY DEF Init, StaleInv, StaleRow
<1> QED
  BY <1>1, StaleStep, Invariance, PTL DEF Spec

\* Where one process alone executes jobs, the worker of docker-compose.yml, recovery
\* fails none that a live process is running: the sentence of the specification that
\* a second worker or a smoke command breaks.
THEOREM OneExecutorRecovers ==
    ASSUME NEW w, Executors = {w}
    PROVE  Spec => RecoversOnlyAbandoned
<1>1. IInv /\ HoldInv /\ (\A j \in Jobs : ByRecovery(j)) =>
        \A j \in Jobs : db[j].failure_message = "" /\ db'[j].failure_message = "stale"
                        => \A p \in Procs : Executing(p) => job[p] # j
  BY DEF ByRecovery, HoldInv, IInv, JobInv, PcInv
<1>2. IInv /\ HoldInv /\ [\A j \in Jobs : ByRecovery(j)]_vars =>
        [\A j \in Jobs : db[j].failure_message = "" /\ db'[j].failure_message = "stale"
                         => \A p \in Procs : Executing(p) => job[p] # j]_vars
  BY <1>1
<1>3. Spec => []HoldInv
  BY HoldInit, HoldStep, Invariance, PTL DEF Spec
<1> QED
  BY <1>2, <1>3, OnlyRecoveryFails, Invariance, PTL DEF RecoversOnlyAbandoned

-----------------------------------------------------------------------------
(* What ends a worker                                                      *)

\* A worker goes down when it is killed, aborted in a deadlock, about to save a job
\* that went with its owner, or started with --once.
EndsFor(w) == pc[w] # "down" /\ pc'[w] = "down" =>
    \/ crashes' > crashes
    \/ w \in Once
    \/ \E S \in SUBSET Procs : w \in S /\ Deadlock(S)
    \/ pc[w] \in {"save", "unsaved"} /\ Gone(job[w])

\* The findings about workers that exit are all there is: neither the backend
\* nor the recording of its results ends a worker, nor does any refresh but by a
\* deadlock (process_job, run_worker).
THEOREM WorkersOutliveErrors == Spec => [][\A w \in Workers : EndsFor(w)]_vars
<1>1. ASSUME TypeOK, [Next]_vars, NEW w \in Workers PROVE EndsFor(w)
  <2> SUFFICES ASSUME pc[w] # "down", pc'[w] = "down", Next PROVE EndsFor(w)
    BY <1>1 DEF EndsFor, vars
  <2>t. /\ w \in Procs /\ w \notin Smokes
        /\ pc \in [Procs -> Statements] /\ crashes \in Nat
    BY <1>1, ProcsAssumption DEF TypeOK, Procs, Executors
  <2>1. ASSUME NEW p \in Procs, Step(p) PROVE EndsFor(w)
    <3>1. CASE Commit(p)
      <4>1. p = w /\ NextOperation(w)[1] = "down"
        BY <2>t, <3>1 DEF Commit
      <4>2. w \in Once
        BY <4>1 DEF NextOperation
      <4> QED
        BY <4>2 DEF EndsFor
    <3>2. CASE PollNothing(p)
      BY <2>t, <3>2 DEF PollNothing, Goto, EndsFor
    <3>3. CASE SaveFails(p)
      <4>1. p = w
        BY <2>t, <3>3 DEF SaveFails, Rollback
      <4> QED
        BY <3>3, <4>1 DEF SaveFails, EndsFor
    <3>4. CASE CreateArtifact(p)
      BY <2>t, <3>4 DEF CreateArtifact, Goto
    <3>5. CASE \/ InsertJob(p) \/ SelectPositions(p) \/ StartQueuedJob(p)
               \/ RefuseToStart(p) \/ ExecuteJob(p) \/ SaveResult(p)
               \/ ClearArtifacts(p) \/ ArtifactFailure(p) \/ SaveUnsaved(p)
               \/ SaveStaleJobs(p)
               \/ \E j \in Jobs : \/ UpdatePosition(p, j) \/ ClaimNextQueuedJob(p, j)
                                  \/ LockStaleJob(p, j)
      BY <2>t, <3>5 DEF InsertJob, SelectPositions, StartQueuedJob, RefuseToStart,
         ExecuteJob, SaveResult, ClearArtifacts, ArtifactFailure, SaveUnsaved,
         SaveStaleJobs, UpdatePosition, ClaimNextQueuedJob, LockStaleJob, Goto
    <3> QED
      BY <2>1, <3>1, <3>2, <3>3, <3>4, <3>5 DEF Step
  <2>2. ASSUME NEW p \in Procs, Crash(p) PROVE EndsFor(w)
    BY <2>t, <2>2 DEF Crash, EndsFor
  <2>3. ASSUME NEW p \in Procs, AbortDeadlocked(p) PROVE EndsFor(w)
    <3>1. p = w
      BY <2>t, <2>3 DEF AbortDeadlocked, Rollback
    <3> QED
      BY <2>3, <3>1 DEF AbortDeadlocked, EndsFor
  <2>4. ASSUME NEW p \in Procs,
               \/ CountActiveJobs(p) \/ RejectSubmission(p) \/ ArtifactFailure(p)
               \/ StartWorker(p)
        PROVE  EndsFor(w)
    BY <2>t, <2>4 DEF CountActiveJobs, RejectSubmission, ArtifactFailure, StartWorker,
       Goto
  <2>5. ASSUME NEW j \in Jobs, DeleteJob(j) PROVE EndsFor(w)
    BY <2>5 DEF DeleteJob
  <2> QED
    BY <2>1, <2>2, <2>3, <2>4, <2>5 DEF Next
<1>2. TypeOK /\ [Next]_vars => [\A w \in Workers : EndsFor(w)]_vars
  BY <1>1
<1> QED
  BY <1>2, TypeCorrect, PTL DEF Spec
=============================================================================
