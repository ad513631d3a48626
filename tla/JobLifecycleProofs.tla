------------------------- MODULE JobLifecycleProofs -------------------------
(***************************************************************************)
(* Proof that the job queue implements JobLifecycle, and what follows from *)
(* the same account of its steps, for all values of the constants.         *)
(***************************************************************************)
EXTENDS JobQueueProofs

\* q stays in its operation, and with its job while it executes one.
Keeps(q) == op'[q] = op[q] /\ (op[q] = "finish" => job'[q] = job[q])

\* q changes operations away from the execution of a job.
Turns(q) == /\ op[q] # "finish" /\ op'[q] # "finish"
            /\ op'[q] = "create" \/ q \in Executors

SameStatuses == \A j \in Jobs : db'[j].status = db[j].status

\* p saves how its job ended, which others may have changed meanwhile.
Saves(p) == /\ op[p] = "finish" /\ job[p] \in Jobs /\ Executing(p)
            /\ ~Gone(job[p])
            /\ db'[job[p]].status \in TerminalStatuses
            /\ \A i \in Jobs \ {job[p]} : db'[i] = db[i]
            /\ op' = op /\ job' = job /\ art' = art

\* A step that changes no status, ends no execution, and gives no artifact to a
\* job that is gone.
Internal == /\ SameStatuses
            /\ \A q \in Procs : Keeps(q) \/ Turns(q)
            /\ \A j \in Jobs : art'[j] = art[j] \/ art'[j] = {} \/ ~Gone(j)

\* p is gone with its transaction: killed, aborted, or by the error of a save.
Dies(p) == Rollback(p) /\ (Crash(p) \/ AbortDeadlocked(p) \/ SaveFails(p))

\* What a step is to a reader of the committed statuses.
Effect == \/ Internal
          \/ \E p \in Procs : Commit(p)
          \/ \E p \in Procs : Dies(p)
          \/ \E p \in Procs : Saves(p)
          \/ \E j \in Jobs : DeleteJob(j)

\* A statement that leaves rows, operations and artifacts alone is internal.
LEMMA QuietInternal ==
    ASSUME db' = db, op' = op, art' = art,
           \A q \in Procs : op[q] = "finish" => job'[q] = job[q]
    PROVE  Internal
  BY DEF Internal, SameStatuses, Keeps

\* A save outside a transaction changes the saved row alone.
LEMMA SaveEffect ==
    ASSUME IInv, NEW p \in Procs, NEW row, row.status \in TerminalStatuses,
           Executing(p), ~Gone(job[p]), Write(p, job[p], row),
           UNCHANGED <<op, job, art>>
    PROVE  Saves(p)
<1>1. TypeOK /\ op[p] = "finish" /\ job[p] \in Jobs
  BY DEF IInv, JobInv, PcInv
<1>2. db'[job[p]] = row /\ OtherRowsKept(job[p])
  BY <1>1, WriteEffect
<1> QED
  BY <1>1, <1>2 DEF Saves, OtherRowsKept

\* Every step has one of the effects.
LEMMA StepEffect == IInv /\ [Next]_vars => Effect
<1> SUFFICES ASSUME IInv, [Next]_vars PROVE Effect
  OBVIOUS
<1>i. TypeOK /\ PcInv /\ LockInv
  BY DEF IInv, JobInv
<1>t. /\ pc \in [Procs -> Statements] /\ op \in [Procs -> Operations]
      /\ job \in [Procs -> Jobs \cup {0}]
      /\ art \in [Jobs -> SUBSET {"report", "plot"}]
  BY <1>i DEF TypeOK
<1>1. ASSUME NEW p \in Procs,
             \/ CountActiveJobs(p) \/ RejectSubmission(p) \/ SelectPositions(p)
             \/ ExecuteJob(p) \/ ArtifactFailure(p) \/ StartWorker(p) \/ SaveStaleJobs(p)
             \/ \E j \in Jobs : LockStaleJob(p, j)
      PROVE  Internal
  BY <1>1, QuietInternal
     DEF CountActiveJobs, RejectSubmission, SelectPositions, ExecuteJob,
         ArtifactFailure, StartWorker, SaveStaleJobs, LockStaleJob, tables
<1>2. ASSUME NEW p \in Procs, InsertJob(p) PROVE Internal
  <2>1. op[p] = "create" /\ nextJob \in Jobs
    BY <1>2, <1>i DEF InsertJob, PcInv
  <2>2. db' = db
    BY <1>2, <2>1 DEF InsertJob, Write, InTransaction
  <2> QED
    BY <1>2, <1>t, <2>1, <2>2, QuietInternal DEF InsertJob
<1>3. ASSUME NEW p \in Procs, NEW j \in Jobs, UpdatePosition(p, j) PROVE Internal
  <2>1. CASE Gone(j)
    BY <1>3, <2>1, QuietInternal DEF UpdatePosition, tables
  <2>2. CASE ~Gone(j)
    <3>1. View(p, j).status = db[j].status \/ op[p] # "finish"
      BY <1>i DEF View, LockInv, RowInv
    <3> DEFINE row == [View(p, j) EXCEPT !.queue_position = todo[p][j]]
    <3>2. row.status = View(p, j).status
      BY <1>i, WrittenStatus
    <3>3. Write(p, j, row)
      BY <1>3, <2>2 DEF UpdatePosition
    <3> HIDE DEF row
    <3>4. SameStatuses
      BY <3>1, <3>2, <3>3, <1>i, WriteEffect DEF SameStatuses, OtherRowsKept
    <3>5. op' = op /\ job' = job /\ art' = art
      BY <1>3 DEF UpdatePosition
    <3> QED
      BY <3>4, <3>5 DEF Internal, Keeps
  <2> QED
    BY <2>1, <2>2
<1>4. ASSUME NEW p \in Procs, NEW j \in Jobs, ClaimNextQueuedJob(p, j) PROVE Internal
  <2>1. op[p] = "start"
    BY <1>4, <1>i DEF ClaimNextQueuedJob, PcInv
  <2>2. db' = db
    BY <1>4, <2>1 DEF ClaimNextQueuedJob, Write, InTransaction
  <2> QED
    BY <1>4, <1>t, <2>1, <2>2, QuietInternal DEF ClaimNextQueuedJob
<1>5. ASSUME NEW p \in Procs, StartQueuedJob(p) PROVE Internal
  <2>1. op[p] = "start"
    BY <1>5, <1>i DEF StartQueuedJob, PcInv
  <2>2. db' = db
    BY <1>5, <2>1 DEF StartQueuedJob, Write, InTransaction
  <2> QED
    BY <1>5, <2>2, QuietInternal DEF StartQueuedJob
<1>6. ASSUME NEW p \in Procs, PollNothing(p) \/ RefuseToStart(p) PROVE Internal
  <2>1. op[p] = "start"
    BY <1>6, <1>i DEF PollNothing, RefuseToStart, PcInv
  <2>2. /\ db' = db /\ art' = art
        /\ op'[p] = "create" \/ (op'[p] = "recover" /\ p \in Executors)
        /\ \A q \in Procs \ {p} : op'[q] = op[q] /\ job'[q] = job[q]
    <3>1. CASE PollNothing(p)
      <4>1. p \in Executors
        BY <3>1, ProcsAssumption DEF PollNothing, Executors
      <4>2. db' = db /\ art' = art /\ job' = job /\ op' = [op EXCEPT ![p] = "recover"]
        BY <3>1 DEF PollNothing, tables
      <4> QED
        BY <4>1, <4>2, <1>t
    <3>2. CASE RefuseToStart(p)
      BY <3>2, <1>t DEF RefuseToStart, tables
    <3> QED
      BY <1>6, <3>1, <3>2
  <2> QED
    BY <2>1, <2>2 DEF Internal, SameStatuses, Keeps, Turns
<1>7. ASSUME NEW p \in Procs, SaveResult(p) PROVE Saves(p)
  <2>1. Finished(result[p]).status \in TerminalStatuses
    BY DEF Finished, TerminalStatuses
  <2> QED
    BY <1>7, <2>1, SaveEffect DEF SaveResult, Executing
<1>8. ASSUME NEW p \in Procs, SaveUnsaved(p) PROVE Saves(p)
  <2> DEFINE row == [db[job[p]] EXCEPT !.status = "failed", !.failure_message = "unsaved"]
  <2>1. row.status \in TerminalStatuses
    <3>1. job[p] \in Jobs
      BY <1>8, <1>i DEF SaveUnsaved, PcInv, Executing
    <3> QED
      BY <3>1, <1>i, WrittenStatus DEF TerminalStatuses
  <2>2. Write(p, job[p], row)
    BY <1>8 DEF SaveUnsaved
  <2> HIDE DEF row
  <2> QED
    BY <1>8, <2>1, <2>2, SaveEffect DEF SaveUnsaved, Executing
<1>9. ASSUME NEW p \in Procs, ClearArtifacts(p) \/ CreateArtifact(p) PROVE Internal
  <2>1. job[p] \in Jobs
    BY <1>9, <1>i DEF ClearArtifacts, CreateArtifact, PcInv, Executing
  <2>2. \A j \in Jobs : art'[j] = art[j] \/ art'[j] = {} \/ ~Gone(j)
    BY <1>9, <1>t, <2>1 DEF ClearArtifacts, CreateArtifact
  <2>3. db' = db /\ op' = op /\ job' = job
    BY <1>9 DEF ClearArtifacts, CreateArtifact, tables
  <2> QED
    BY <2>2, <2>3 DEF Internal, SameStatuses, Keeps
<1>10. ASSUME NEW p \in Procs, Crash(p) \/ AbortDeadlocked(p) \/ SaveFails(p)
       PROVE  Dies(p)
  <2>1. Rollback(p)
    BY <1>10 DEF Crash, AbortDeadlocked, SaveFails
  <2> QED
    BY <1>10, <2>1 DEF Dies
<1>11. CASE UNCHANGED vars
  BY <1>11, QuietInternal DEF vars, tables, Effect
<1> QED
  BY <1>1, <1>2, <1>3, <1>4, <1>5, <1>6, <1>7, <1>8, <1>9, <1>10, <1>11
     DEF Next, Step, Effect
-----------------------------------------------------------------------------
(* Who may execute, and what                                               *)

\* Only executors leave submissions, and an executed job has been started.
HoldInv == \A p \in Procs :
    /\ op[p] # "create" => p \in Executors
    /\ op[p] = "finish" => /\ job[p] \in Jobs
                           /\ db[job[p]].status \notin {"absent", "queued"}

\* What a commit does to the statuses and to its own process.
LEMMA CommitEffect ==
    ASSUME IInv, NEW p \in Procs, Commit(p)
    PROVE  /\ \A q \in Procs \ {p} : op'[q] = op[q] /\ job'[q] = job[q]
           /\ op[p] # "start" => op'[p] # "finish"
           /\ op'[p] # "create" => p \in Smokes \/ op[p] # "create"
           /\ op[p] = "start" => /\ op'[p] = "finish" /\ job'[p] = job[p]
                                 /\ job[p] \in Jobs /\ StartsRow(p)
                                 /\ db'[job[p]].status = "running"
           /\ art' = art
           /\ \A j \in Jobs :
                  \/ db'[j].status = db[j].status
                  \/ lock[j] = p /\ StatusChange(p, j) /\ db'[j] = new[j]
<1>t. /\ pc \in [Procs -> Statements] /\ op \in [Procs -> Operations]
      /\ job \in [Procs -> Jobs \cup {0}]
  BY DEF IInv, TypeOK
<1>1. \A q \in Procs \ {p} : op'[q] = op[q] /\ job'[q] = job[q]
  BY <1>t DEF Commit
<1>2. op'[p] = NextOperation(p)[2] /\ art' = art
  BY <1>t DEF Commit
<1>3. \A j \in Jobs : \/ lock[j] = p /\ db'[j] = new[j]
                      \/ lock[j] # p /\ db'[j] = db[j]
  BY DEF Commit, View
<1>4. \A j \in Jobs : lock[j] = p => StatusChange(p, j)
  BY DEF IInv, JobInv, LockInv, RowInv
<1>5. op[p] = "start" => /\ op'[p] = "finish" /\ job'[p] = job[p]
                         /\ job[p] \in Jobs /\ StartsRow(p)
                         /\ db'[job[p]].status = "running"
  <2> SUFFICES ASSUME op[p] = "start"
               PROVE  /\ op'[p] = "finish" /\ job'[p] = job[p]
                      /\ job[p] \in Jobs /\ StartsRow(p)
                      /\ db'[job[p]].status = "running"
    OBVIOUS
  <2>1. op'[p] = "finish" /\ job'[p] = job[p]
    BY <1>2, <1>t DEF Commit, NextOperation, KeepsJob
  <2>2. job[p] \in Jobs /\ StartsRow(p)
    BY DEF IInv, JobInv, PcInv, StartInv, Starting, InRefresh, Commit
  <2> QED
    BY <2>1, <2>2, <1>3 DEF StartsRow
<1>6. op[p] # "start" => op'[p] # "finish"
  BY <1>2 DEF NextOperation
<1>7. op'[p] # "create" => p \in Smokes \/ op[p] # "create"
  BY <1>2, <1>t DEF NextOperation
<1> QED
  BY <1>1, <1>2, <1>3, <1>4, <1>5, <1>6, <1>7

\* What a rollback does to a reader.
LEMMA RollbackEffect ==
    ASSUME IInv, NEW p \in Procs, Rollback(p)
    PROVE  /\ db' = db /\ art' = art
           /\ \A q \in Procs \ {p} : op'[q] = op[q] /\ job'[q] = job[q]
           /\ op'[p] = IF p \in Workers THEN "recover" ELSE "create"
  BY DEF Rollback, IInv, TypeOK

\* The statuses an execution needs stay: nothing goes back to QUEUED.
LEMMA HoldStep == IInv /\ HoldInv /\ [Next]_vars => HoldInv'
<1> SUFFICES ASSUME IInv, HoldInv, [Next]_vars PROVE HoldInv'
  OBVIOUS
<1>1. \A j \in Jobs : db[j].status \notin {"absent", "queued"}
                      => db'[j].status \notin {"absent", "queued"}
  BY InvStep DEF StatusStep, TerminalStatuses
<1>2. CASE Internal
  BY <1>1, <1>2 DEF Internal, Keeps, Turns, HoldInv
<1>3. ASSUME NEW p \in Procs, Commit(p) PROVE HoldInv'
  <2>1. ASSUME NEW q \in Procs \ {p}
        PROVE  /\ op'[q] # "create" => q \in Executors
               /\ op'[q] = "finish" => /\ job'[q] \in Jobs
                                       /\ db'[job'[q]].status \notin {"absent", "queued"}
    BY <1>1, <1>3, CommitEffect DEF HoldInv
  <2>2. /\ op'[p] # "create" => p \in Executors
        /\ op'[p] = "finish" => /\ job'[p] \in Jobs
                                /\ db'[job'[p]].status \notin {"absent", "queued"}
    <3>1. op'[p] # "create" => p \in Executors
      BY <1>3, CommitEffect DEF HoldInv, Executors
    <3>2. ASSUME op'[p] = "finish"
          PROVE  job'[p] \in Jobs /\ db'[job'[p]].status \notin {"absent", "queued"}
      <4>1. op[p] = "start"
        BY <1>3, <3>2, CommitEffect
      <4>2. job'[p] = job[p] /\ job[p] \in Jobs /\ db'[job[p]].status = "running"
        BY <1>3, <4>1, CommitEffect
      <4> QED
        BY <4>2
    <3> QED
      BY <3>1, <3>2
  <2> QED
    BY <2>1, <2>2 DEF HoldInv
<1>4. ASSUME NEW p \in Procs, Rollback(p) PROVE HoldInv'
  <2>1. p \in Workers => p \in Executors
    BY DEF Executors
  <2> QED
    BY <1>4, <2>1, RollbackEffect DEF HoldInv
<1>5. ASSUME NEW p \in Procs, Saves(p) PROVE HoldInv'
  BY <1>1, <1>5 DEF Saves, HoldInv
<1>6. ASSUME NEW j \in Jobs, DeleteJob(j) PROVE HoldInv'
  BY <1>1, <1>6 DEF DeleteJob, HoldInv
<1> QED
  BY <1>2, <1>3, <1>4, <1>5, <1>6, StepEffect DEF Effect, Dies

\* Workers begin with recovery.
LEMMA HoldInit == Init => HoldInv
  BY DEF Init, HoldInv, Executors, Procs

-----------------------------------------------------------------------------
(* The refinement                                                          *)

LEMMA LifecycleInit == Init => Lifecycle!Init
<1> SUFFICES ASSUME Init PROVE Lifecycle!Init
  OBVIOUS
<1>1. CommittedStatus = [j \in Jobs |-> "absent"]
  BY DEF Init, CommittedStatus, NoRow
<1>2. \A p \in Executors : op[p] # "finish"
  BY DEF Init, Executors, Procs
<1>3. Holders = [j \in Jobs |-> {}]
  BY <1>2 DEF Holders
<1> QED
  BY <1>1, <1>3 DEF Lifecycle!Init

\* A step that changes no status and no holder is a stutter.
LEMMA Stutter ==
    ASSUME SameStatuses, \A q \in Executors :
               Keeps(q) \/ (op[q] # "finish" /\ op'[q] # "finish")
    PROVE  UNCHANGED Lifecycle!lifecycle
<1>1. CommittedStatus' = CommittedStatus
  BY DEF SameStatuses, CommittedStatus, Jobs
<1>2. Holders' = Holders
  BY DEF Keeps, Holders, Jobs, Executors
<1> QED
  BY <1>1, <1>2 DEF Lifecycle!lifecycle

LifecycleStep ==
    \/ \E j \in Jobs : \/ Lifecycle!Submit(j)
                      \/ Lifecycle!Delete(j)
                      \/ \E p \in Executors :
                            \/ Lifecycle!Take(p, j)
                            \/ Lifecycle!GiveUp(p, j)
                            \/ \E end \in Lifecycle!Ended : Lifecycle!Publish(p, j, end)
    \/ \E S \in SUBSET Jobs : Lifecycle!Recover(S)

\* A step of the lifecycle that shows nothing is a stutter.
LEMMA LifecycleSteps ==
    ASSUME LifecycleStep
    PROVE  Lifecycle!Next \/ UNCHANGED Lifecycle!lifecycle
<1>1. CASE CommittedStatus' # CommittedStatus /\ Holders' = Holders
  <2>1. ASSUME NEW j \in Jobs, NEW p \in Executors, Lifecycle!GiveUp(p, j)
        PROVE  FALSE
    BY <1>1, <2>1 DEF Lifecycle!GiveUp
  <2> QED
    BY <1>1, <2>1 DEF LifecycleStep, Lifecycle!Next
<1>2. CASE CommittedStatus' # CommittedStatus /\ Holders' # Holders
  BY <1>2 DEF LifecycleStep, Lifecycle!Next
<1>3. CASE CommittedStatus' = CommittedStatus /\ Holders' # Holders
  <2>1. ASSUME NEW j \in Jobs, NEW p \in Executors, Lifecycle!Take(p, j)
        PROVE  FALSE
    <3>1. CommittedStatus'[j] = "running" /\ CommittedStatus[j] = "queued"
      BY <2>1 DEF Lifecycle!Take, CommittedStatus
    <3> QED
      BY <1>3, <3>1
  <2> QED
    BY <1>3, <2>1 DEF LifecycleStep, Lifecycle!Next, Lifecycle!Submit, Lifecycle!Delete,
                      Lifecycle!Publish, Lifecycle!Recover
<1>4. CASE CommittedStatus' = CommittedStatus /\ Holders' = Holders
  BY <1>4 DEF Lifecycle!lifecycle
<1> QED
  BY <1>1, <1>2, <1>3, <1>4

\* An executor that turns from its job to something else has given it up.
LEMMA Released ==
    ASSUME HoldInv, NEW p \in Procs, op[p] = "finish", op'[p] # "finish",
           \A q \in Procs \ {p} : op'[q] = op[q] /\ job'[q] = job[q],
           CommittedStatus' = CommittedStatus
    PROVE  Lifecycle!GiveUp(p, job[p])
<1>1. p \in Executors /\ job[p] \in Jobs /\ Executors \subseteq Procs
  BY DEF HoldInv, Procs
<1>2. \A j \in Jobs : Holders'[j] = IF j = job[p] THEN Holders[j] \ {p} ELSE Holders[j]
  <2> TAKE j \in Jobs
  <2>1. Holders'[j] = {q \in Executors : op'[q] = "finish" /\ job'[q] = j}
    BY DEF Holders, Executors, Jobs
  <2>2. Holders[j] = {q \in Executors : op[q] = "finish" /\ job[q] = j}
    BY DEF Holders
  <2> QED
    BY <1>1, <2>1, <2>2
<1>3. Holders' = [Holders EXCEPT ![job[p]] = @ \ {p}]
  <2>1. Holders = [j \in Jobs |-> Holders[j]] /\ Holders' = [j \in Jobs |-> Holders'[j]]
    BY DEF Holders, Jobs
  <2> QED
    BY <1>1, <1>2, <2>1
<1>4. p \in Holders[job[p]]
  BY <1>1 DEF Holders
<1> QED
  BY <1>3, <1>4 DEF Lifecycle!GiveUp

\* The commit of a submission submits, that of a start takes, that of a recovery
\* recovers, that of an execution gives the job up.
LEMMA CommitRefines ==
    ASSUME IInv, HoldInv, NEW p \in Procs, Commit(p)
    PROVE  Lifecycle!Next \/ UNCHANGED Lifecycle!lifecycle
<1>e. /\ \A q \in Procs \ {p} : op'[q] = op[q] /\ job'[q] = job[q]
      /\ \A j \in Jobs : \/ db'[j].status = db[j].status
                         \/ lock[j] = p /\ StatusChange(p, j) /\ db'[j] = new[j]
  BY CommitEffect
<1>o. op[p] \in {"create", "start", "finish", "recover"}
  BY DEF IInv, TypeOK, Operations
<1>x. Executors \subseteq Procs
  BY DEF Procs
<1>h. op[p] # "start" => op'[p] # "finish"
  BY CommitEffect
<1>1. CASE op[p] = "create"
  <2>1. Holders' = Holders
    BY <1>1, <1>e, <1>h, <1>x DEF Holders, Jobs, Executors
  <2>2. \A j \in Jobs : \/ db'[j].status = db[j].status
                       \/ /\ job[p] = j /\ db[j].status = "absent"
                          /\ db'[j].status = "queued"
    BY <1>1, <1>e DEF StatusChange
  <2>3. CASE SameStatuses
    BY <2>3, <1>1, <1>e, <1>h, <1>x, Stutter DEF Keeps
  <2>4. CASE ~SameStatuses
    <3>1. PICK j \in Jobs : db'[j].status # db[j].status
      BY <2>4 DEF SameStatuses
    <3>2. /\ db[j].status = "absent" /\ db'[j].status = "queued"
          /\ \A i \in Jobs \ {j} : db'[i].status = db[i].status
      BY <2>2, <3>1
    <3>3. CommittedStatus' = [CommittedStatus EXCEPT ![j] = "queued"]
      BY <3>2 DEF CommittedStatus, Jobs
    <3>4. Lifecycle!Submit(j)
      BY <2>1, <3>2, <3>3 DEF Lifecycle!Submit, CommittedStatus
    <3> QED
      BY <3>4, LifecycleSteps DEF LifecycleStep
  <2> QED
    BY <2>3, <2>4
<1>2. CASE op[p] = "start"
  <2>1. /\ op'[p] = "finish" /\ job'[p] = job[p] /\ job[p] \in Jobs
        /\ db[job[p]].status = "queued" /\ db'[job[p]].status = "running"
    BY <1>2, CommitEffect DEF StartsRow
  <2>2. p \in Executors
    BY <1>2 DEF HoldInv
  <2>3. \A i \in Jobs \ {job[p]} : db'[i].status = db[i].status
    BY <1>2, <1>e DEF StatusChange
  <2>4. CommittedStatus' = [CommittedStatus EXCEPT ![job[p]] = "running"]
    BY <2>1, <2>3 DEF CommittedStatus, Jobs
  <2>5. Holders[job[p]] = {}
    BY <2>1, <1>x DEF Holders, HoldInv
  <2>6. Holders' = [Holders EXCEPT ![job[p]] = {p}]
    <3>1. \A j \in Jobs : Holders'[j] = IF j = job[p] THEN {p} ELSE Holders[j]
      <4> TAKE j \in Jobs
      <4>1. Holders'[j] = {q \in Executors : op'[q] = "finish" /\ job'[q] = j}
        BY DEF Holders, Executors, Jobs
      <4>2. Holders[j] = {q \in Executors : op[q] = "finish" /\ job[q] = j}
        BY DEF Holders
      <4>3. CASE j = job[p]
        BY <4>1, <4>2, <4>3, <2>1, <2>2, <2>5, <1>e, <1>x
      <4>4. CASE j # job[p]
        <5>1. \A q \in Executors : (op'[q] = "finish" /\ job'[q] = j)
                                    <=> (op[q] = "finish" /\ job[q] = j)
          BY <4>4, <1>2, <2>1, <1>e, <1>x
        <5> QED
          BY <4>1, <4>2, <4>4, <5>1
      <4> QED
        BY <4>3, <4>4
    <3> QED
      BY <3>1 DEF Holders, Jobs
  <2>7. Lifecycle!Take(p, job[p])
    BY <2>1, <2>4, <2>5, <2>6 DEF Lifecycle!Take, CommittedStatus
  <2> QED
    BY <2>1, <2>2, <2>7, LifecycleSteps DEF LifecycleStep
<1>3. CASE op[p] = "recover"
  <2>1. Holders' = Holders
    BY <1>3, <1>e, <1>h, <1>x DEF Holders, Jobs, Executors
  <2> DEFINE S == {j \in Jobs : db'[j].status # db[j].status}
  <2>2. \A j \in S : db[j].status = "running" /\ db'[j].status = "failed"
    BY <1>3, <1>e DEF StatusChange
  <2>3. CommittedStatus' = [j \in Jobs |-> IF j \in S THEN "failed" ELSE CommittedStatus[j]]
    BY <2>2 DEF CommittedStatus, Jobs
  <2>4. Lifecycle!Recover(S)
    BY <2>1, <2>2, <2>3 DEF Lifecycle!Recover, CommittedStatus
  <2> QED
    BY <2>4, LifecycleSteps DEF LifecycleStep
<1>4. CASE op[p] = "finish"
  <2>1. p \in Executors /\ job[p] \in Jobs
    BY <1>4 DEF HoldInv
  <2>2. CommittedStatus' = CommittedStatus
    BY <1>4, <1>e DEF StatusChange, CommittedStatus, Jobs
  <2>3. Lifecycle!GiveUp(p, job[p])
    BY <1>4, <1>e, <1>h, <1>x, <2>1, <2>2, Released
  <2> QED
    BY <2>1, <2>3, LifecycleSteps DEF LifecycleStep
<1> QED
  BY <1>o, <1>1, <1>2, <1>3, <1>4

\* A rollback gives up the job that p executes, if any.
LEMMA RollbackRefines ==
    ASSUME IInv, HoldInv, NEW p \in Procs, Rollback(p)
    PROVE  Lifecycle!Next \/ UNCHANGED Lifecycle!lifecycle
<1>1. /\ db' = db /\ op'[p] # "finish"
      /\ \A q \in Procs \ {p} : op'[q] = op[q] /\ job'[q] = job[q]
  BY RollbackEffect
<1>2. CommittedStatus' = CommittedStatus
  BY <1>1 DEF CommittedStatus, Jobs
<1>3. CASE op[p] = "finish"
  <2>1. p \in Executors /\ job[p] \in Jobs
    BY <1>3 DEF HoldInv
  <2>2. Lifecycle!GiveUp(p, job[p])
    BY <1>1, <1>2, <1>3, <2>1, Released
  <2> QED
    BY <2>1, <2>2, LifecycleSteps DEF LifecycleStep
<1>4. CASE op[p] # "finish"
  <2>1. SameStatuses
    BY <1>1 DEF SameStatuses
  <2>2. \A q \in Executors : Keeps(q) \/ (op[q] # "finish" /\ op'[q] # "finish")
    BY <1>1, <1>4 DEF Keeps, Procs
  <2> QED
    BY <2>1, <2>2, Stutter
<1> QED
  BY <1>3, <1>4

\* Every step of the queue is a step of the life of its jobs, or invisible there.
LEMMA StepRefines ==
    ASSUME IInv, HoldInv, [Next]_vars
    PROVE  Lifecycle!Next \/ UNCHANGED Lifecycle!lifecycle
<1>1. CASE Internal
  <2>1. \A q \in Executors : Keeps(q) \/ (op[q] # "finish" /\ op'[q] # "finish")
    BY <1>1 DEF Internal, Turns, Procs
  <2> QED
    BY <1>1, <2>1, Stutter DEF Internal
<1>2. ASSUME NEW p \in Procs, Saves(p)
      PROVE  Lifecycle!Next \/ UNCHANGED Lifecycle!lifecycle
  <2>1. /\ p \in Executors /\ job[p] \in Jobs
        /\ op[p] = "finish" /\ UNCHANGED <<op, job>>
        /\ db[job[p]].status \notin {"absent", "queued", "deleted"}
        /\ db'[job[p]].status \in {"completed", "failed"}
        /\ \A i \in Jobs \ {job[p]} : db'[i] = db[i]
    BY <1>2 DEF Saves, HoldInv, Gone, TerminalStatuses
  <2>2. Holders' = Holders /\ p \in Holders[job[p]]
    BY <2>1 DEF Holders, Jobs, Executors
  <2>3. PICK end \in {"completed", "failed"} : db'[job[p]].status = end
    BY <2>1
  <2>4. CommittedStatus' = [CommittedStatus EXCEPT ![job[p]] = end]
    BY <2>1, <2>3 DEF CommittedStatus, Jobs
  <2>5. CommittedStatus[job[p]] \in {"completed", "failed", "running"}
    <3>1. db[job[p]].status \in Statuses
      BY <2>1 DEF IInv, TypeOK, Row
    <3> QED
      BY <3>1, <2>1 DEF CommittedStatus, Statuses
  <2>6. Lifecycle!Publish(p, job[p], end)
    BY <2>2, <2>4, <2>5 DEF Lifecycle!Publish, Lifecycle!Ended
  <2> QED
    BY <2>1, <2>6, LifecycleSteps DEF LifecycleStep, Lifecycle!Ended
<1>3. ASSUME NEW j \in Jobs, DeleteJob(j)
      PROVE  Lifecycle!Next \/ UNCHANGED Lifecycle!lifecycle
  <2>1. /\ db[j].status # "absent" /\ db'[j].status = "deleted"
        /\ \A i \in Jobs \ {j} : db'[i] = db[i]
        /\ UNCHANGED <<op, job>>
    BY <1>3 DEF DeleteJob, GoneRow, NoRow, IInv, TypeOK
  <2>2. Holders' = Holders
    BY <2>1 DEF Holders, Jobs, Executors
  <2>3. CommittedStatus' = [CommittedStatus EXCEPT ![j] = "deleted"]
    BY <2>1 DEF CommittedStatus, Jobs
  <2>4. Lifecycle!Delete(j)
    BY <2>1, <2>2, <2>3 DEF Lifecycle!Delete, CommittedStatus
  <2> QED
    BY <2>4, LifecycleSteps DEF LifecycleStep
<1> QED
  BY <1>1, <1>2, <1>3, CommitRefines, RollbackRefines, StepEffect DEF Effect, Dies

\* The job queue implements the life of a job, for any jobs, processes, crashes
\* and deletions: who reads committed statuses and knows who executes what sees
\* nothing but JobLifecycle.
THEOREM RefinesLifecycle == Spec => ImplementsLifecycle
<1>1. IInv /\ HoldInv /\ [Next]_vars => [Lifecycle!Next]_(Lifecycle!lifecycle)
  BY StepRefines
<1>2. Spec => []HoldInv
  BY HoldInit, HoldStep, Invariance, PTL DEF Spec
<1> QED
  BY <1>1, <1>2, LifecycleInit, Invariance, PTL
     DEF Spec, ImplementsLifecycle, Lifecycle!Spec

-----------------------------------------------------------------------------
(* Deleted jobs                                                            *)

GoneInv == \A j \in Jobs : Gone(j) => art[j] = {}

LEMMA GoneInit == Init => GoneInv
  BY DEF Init, GoneInv

\* Only a deletion makes a job gone, and nothing brings it back.
LEMMA GoneStep ==
    ASSUME IInv, GoneInv, [Next]_vars
    PROVE  /\ GoneInv'
           /\ \A j \in Jobs : Gone(j) => db'[j].status = "deleted" /\ art'[j] = {}
<1>1. \A j \in Jobs : Gone(j) => Gone(j)'
  BY InvStep DEF StatusStep, Gone, TerminalStatuses
<1>2. \A j \in Jobs : Gone(j)' => art'[j] = {}
  <2>1. CASE Internal
    BY <2>1 DEF Internal, SameStatuses, Gone, GoneInv
  <2>2. ASSUME NEW p \in Procs, Commit(p) PROVE \A j \in Jobs : Gone(j)' => art'[j] = {}
    BY <2>2, CommitEffect DEF StatusChange, Gone, GoneInv
  <2>3. ASSUME NEW p \in Procs, Rollback(p) PROVE \A j \in Jobs : Gone(j)' => art'[j] = {}
    BY <2>3, RollbackEffect DEF Gone, GoneInv
  <2>4. ASSUME NEW p \in Procs, Saves(p) PROVE \A j \in Jobs : Gone(j)' => art'[j] = {}
    BY <2>4 DEF Saves, Gone, GoneInv, TerminalStatuses
  <2>5. ASSUME NEW j \in Jobs, DeleteJob(j) PROVE \A i \in Jobs : Gone(i)' => art'[i] = {}
    BY <2>5 DEF DeleteJob, Gone, GoneInv, IInv, TypeOK
  <2> QED
    BY <2>1, <2>2, <2>3, <2>4, <2>5, StepEffect DEF Effect, Dies
<1> QED
  BY <1>1, <1>2 DEF GoneInv, Gone

\* What was deleted with its owner stays deleted, row and artifacts, although an
\* executor of the job goes on to save both.
THEOREM DeletionLasts == Spec => DeletedIsGone
<1>1. IInv /\ GoneInv /\ [Next]_vars => GoneInv'
  BY GoneStep
<1>2. IInv /\ GoneInv /\ [Next]_vars => \A j \in Jobs :
        db[j].status = "deleted" => db'[j].status = "deleted" /\ art'[j] = {}
  BY GoneStep DEF Gone
<1>3. Spec => []GoneInv
  BY <1>1, GoneInit, Invariance, PTL DEF Spec
<1> QED
  BY <1>2, <1>3, Invariance, PTL DEF Spec, DeletedIsGone

-----------------------------------------------------------------------------
(* Stranded jobs                                                           *)

Over(j) == db[j].status \in TerminalStatuses \cup {"deleted"}

\* Past its save, an execution leaves its job ended.
DoneInv == \A p \in Procs :
    op[p] = "finish" /\ pc[p] \notin {"exec", "save"} => job[p] \in Jobs /\ Over(job[p])

LEMMA OverStays ==
    ASSUME IInv, [Next]_vars, NEW j \in Jobs, Over(j)
    PROVE  Over(j)'
  BY InvStep DEF StatusStep, Over, TerminalStatuses

\* How q may be in an execution after a step: from the start on, past the save, or
\* saving with this step.
Follows(q) == op'[q] = "finish" =>
    \/ pc'[q] \in {"exec", "save"}
    \/ /\ op[q] = "finish" /\ job'[q] = job[q]
       /\ pc[q] \notin {"exec", "save"}
    \/ job'[q] \in Jobs /\ db'[job'[q]].status \in TerminalStatuses

LEMMA FollowsStep ==
    ASSUME IInv, [Next]_vars, NEW q \in Procs
    PROVE  Follows(q)
<1>i. TypeOK /\ PcInv
  BY DEF IInv, JobInv
<1>t. /\ pc \in [Procs -> Statements] /\ op \in [Procs -> Operations]
      /\ job \in [Procs -> Jobs \cup {0}]
  BY <1>i DEF TypeOK
<1>0. ASSUME pc'[q] = pc[q], op'[q] = op[q], job'[q] = job[q] PROVE Follows(q)
  BY <1>0 DEF Follows
<1> USE DEF Goto
<1>1. ASSUME NEW p \in Procs,
             \/ CountActiveJobs(p) \/ RejectSubmission(p) \/ InsertJob(p)
             \/ StartQueuedJob(p) \/ RefuseToStart(p) \/ PollNothing(p)
             \/ StartWorker(p) \/ SaveStaleJobs(p)
             \/ \E j \in Jobs : \/ ClaimNextQueuedJob(p, j) \/ LockStaleJob(p, j)
      PROVE  Follows(q)
  <2>1. pc[p] \in {"idle", "insert", "start", "poll", "down", "lock"}
    BY <1>1 DEF CountActiveJobs, RejectSubmission, InsertJob, StartQueuedJob,
       RefuseToStart, PollNothing, StartWorker, SaveStaleJobs, ClaimNextQueuedJob,
       LockStaleJob, NextStale
  <2>2. op[p] # "finish"
    BY <2>1, <1>i DEF PcInv
  <2>3. op'[p] # "finish"
    BY <1>1, <1>t, <2>2 DEF CountActiveJobs, RejectSubmission, InsertJob,
       StartQueuedJob, RefuseToStart, PollNothing, StartWorker, SaveStaleJobs,
       ClaimNextQueuedJob, LockStaleJob
  <2>4. \A r \in Procs \ {p} : pc'[r] = pc[r] /\ op'[r] = op[r] /\ job'[r] = job[r]
    BY <1>1, <1>t DEF CountActiveJobs, RejectSubmission, InsertJob,
       StartQueuedJob, RefuseToStart, PollNothing, StartWorker, SaveStaleJobs,
       ClaimNextQueuedJob, LockStaleJob
  <2> QED
    BY <2>3, <2>4 DEF Follows
<1>2. ASSUME NEW p \in Procs, SelectPositions(p) \/ \E j \in Jobs : UpdatePosition(p, j)
      PROVE  Follows(q)
  BY <1>2, <1>t DEF SelectPositions, UpdatePosition, NextUpdate, Follows
<1>3. ASSUME NEW p \in Procs, Commit(p) PROVE Follows(q)
  <2>1. pc'[p] = NextOperation(p)[1] /\ op'[p] = NextOperation(p)[2]
        /\ \A r \in Procs \ {p} : pc'[r] = pc[r] /\ op'[r] = op[r] /\ job'[r] = job[r]
    BY <1>3, <1>t DEF Commit
  <2>2. op'[p] = "finish" => pc'[p] = "exec"
    BY <2>1 DEF NextOperation
  <2> QED
    BY <2>1, <2>2 DEF Follows
<1>4. ASSUME NEW p \in Procs, ExecuteJob(p) PROVE Follows(q)
  BY <1>4, <1>t DEF ExecuteJob, Follows
<1>5. ASSUME NEW p \in Procs, SaveResult(p) PROVE Follows(q)
  <2>1. op[p] = "finish" /\ job[p] \in Jobs
    BY <1>5, <1>i DEF PcInv, SaveResult, Executing
  <2>2. Finished(result[p]).status \in TerminalStatuses
    BY DEF Finished, TerminalStatuses
  <2>3. db'[job[p]].status \in TerminalStatuses
    BY <1>5, <2>2, SaveEffect DEF SaveResult, Executing, Saves
  <2> QED
    BY <1>5, <1>t, <2>1, <2>3 DEF SaveResult, Follows
<1>6. ASSUME NEW p \in Procs,
             \/ ClearArtifacts(p) \/ CreateArtifact(p) \/ ArtifactFailure(p)
             \/ SaveUnsaved(p)
      PROVE  Follows(q)
  <2>1. pc[p] \notin {"exec", "save"} /\ op[p] = "finish" /\ UNCHANGED <<op, job>>
    BY <1>6, <1>i DEF ClearArtifacts, CreateArtifact, ArtifactFailure, SaveUnsaved,
       PcInv, Executing
  <2>2. \A r \in Procs \ {p} : pc'[r] = pc[r]
    BY <1>6, <1>t DEF ClearArtifacts, CreateArtifact, ArtifactFailure, SaveUnsaved
  <2> QED
    BY <2>1, <2>2 DEF Follows
<1>7. ASSUME NEW p \in Procs, Rollback(p) PROVE Follows(q)
  BY <1>7, <1>t DEF Rollback, Follows
<1>8. ASSUME NEW j \in Jobs, DeleteJob(j) PROVE Follows(q)
  BY <1>8, <1>0 DEF DeleteJob
<1>9. ASSUME UNCHANGED vars PROVE Follows(q)
  BY <1>9, <1>0 DEF vars
<1> QED
  BY <1>1, <1>2, <1>3, <1>4, <1>5, <1>6, <1>7, <1>8, <1>9
  DEF Next, Step, SaveFails, Crash, AbortDeadlocked

LEMMA DoneStep == IInv /\ DoneInv /\ [Next]_vars => DoneInv'
<1> SUFFICES ASSUME IInv, DoneInv, [Next]_vars, NEW q \in Procs,
                    op'[q] = "finish", pc'[q] \notin {"exec", "save"}
             PROVE  job'[q] \in Jobs /\ Over(job[q])'
  BY DEF DoneInv
<1>1. \/ /\ op[q] = "finish" /\ job'[q] = job[q]
         /\ pc[q] \notin {"exec", "save"}
      \/ job'[q] \in Jobs /\ db'[job'[q]].status \in TerminalStatuses
  BY FollowsStep DEF Follows
<1>2. CASE /\ op[q] = "finish" /\ job'[q] = job[q]
           /\ pc[q] \notin {"exec", "save"}
  <2>1. job[q] \in Jobs /\ Over(job[q])
    BY <1>2 DEF DoneInv
  <2>2. db'[job[q]].status \in TerminalStatuses \cup {"deleted"}
    BY <2>1, OverStays DEF Over
  <2> QED
    BY <1>2, <2>1, <2>2 DEF Over
<1>3. CASE job'[q] \in Jobs /\ db'[job'[q]].status \in TerminalStatuses
  BY <1>3 DEF Over
<1> QED
  BY <1>1, <1>2, <1>3

LEMMA DoneInit == Init => DoneInv
  BY DEF Init, DoneInv

\* Who executes a job holds no row, and is no victim of a deadlock.
LEMMA NoVictim ==
    ASSUME IInv, NEW p \in Procs, AbortDeadlocked(p)
    PROVE  op[p] # "finish"
<1>1. PICK S \in SUBSET Procs : p \in S /\ Deadlock(S)
  BY DEF AbortDeadlocked
<1>2. PICK q \in S : WaitsFor(q, p)
  BY <1>1 DEF Deadlock
<1>3. PICK j \in Jobs : lock[j] = p
  BY <1>2 DEF WaitsFor
<1> QED
  BY <1>3 DEF IInv, JobInv, LockInv, RowInv

\* An execution of a RUNNING job ends with the job, or with its process.
LEMMA StrandStep ==
    ASSUME IInv, HoldInv, DoneInv, [Next]_vars, NEW j \in Jobs,
           db[j].status = "running", Holders[j] # {}, Holders'[j] = {},
           db'[j].status = "running"
    PROVE  \E p \in Holders[j] : Crash(p)
<1>1. PICK p \in Executors : op[p] = "finish" /\ job[p] = j
  BY DEF Holders
<1>2. p \in Procs /\ p \in Holders[j]
  BY <1>1 DEF Holders, Procs
<1>3. ~(op'[p] = "finish" /\ job'[p] = j)
  BY <1>1 DEF Holders
<1>4. ~Over(j) /\ ~Gone(j)
  BY DEF Over, TerminalStatuses, Gone
<1>5. pc[p] \in {"exec", "save"}
  BY <1>1, <1>2, <1>4 DEF DoneInv
<1>6. ~Keeps(p) /\ ~Turns(p)
  BY <1>1, <1>3 DEF Keeps, Turns
<1>7. ~Internal
  BY <1>2, <1>6 DEF Internal
<1>8. ASSUME NEW q \in Procs, Commit(q) PROVE FALSE
  <2>1. q = p
    BY <1>1, <1>2, <1>3, <1>8, CommitEffect
  <2> QED
    BY <1>5, <1>8, <2>1 DEF Commit
<1>9. ASSUME NEW q \in Procs, Saves(q) PROVE FALSE
  BY <1>1, <1>3, <1>9 DEF Saves
<1>10. ASSUME NEW i \in Jobs, DeleteJob(i) PROVE FALSE
  BY <1>1, <1>3, <1>10 DEF DeleteJob
<1>11. PICK q \in Procs : Dies(q)
  BY <1>7, <1>8, <1>9, <1>10, StepEffect DEF Effect
<1>12. q = p
  BY <1>1, <1>2, <1>3, <1>11, RollbackEffect DEF Dies
<1>13. ~SaveFails(p) /\ ~AbortDeadlocked(p)
  BY <1>1, <1>2, <1>4, NoVictim DEF SaveFails
<1> QED
  BY <1>2, <1>11, <1>12, <1>13 DEF Dies

\* No outcome of a backend run, no error of a save and no deadlock strands its job:
\* only the death of the process does (process_job), with any workers and smoke
\* commands.
THEOREM OnlyDeathStrands == Spec => StrandedByDeath
<1>1. Spec => []HoldInv
  BY HoldInit, HoldStep, Invariance, PTL DEF Spec
<1>2. Spec => []DoneInv
  BY DoneInit, DoneStep, Invariance, PTL DEF Spec
<1>3. IInv /\ HoldInv /\ DoneInv /\ [Next]_vars => \A j \in Jobs :
        db[j].status = "running" /\ Holders[j] # {}
            /\ db'[j].status = "running" /\ Holders'[j] = {}
        => \E p \in Holders[j] : Crash(p)
  BY StrandStep
<1> QED
  BY <1>1, <1>2, <1>3, Invariance, PTL DEF Spec, StrandedByDeath
=============================================================================
