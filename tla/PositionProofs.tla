---------------------------- MODULE PositionProofs ----------------------------
(***************************************************************************)
(* Proofs about what the rows of the queue say to a reader: the positions  *)
(* that refreshes write, and who can wait for whom while they write them.  *)
(***************************************************************************)
EXTENDS JobQueueProofs, WellFoundedInduction

-----------------------------------------------------------------------------
(* The inductive invariant behind NeverOptimistic                          *)

\* A job whose submission has inserted it and not committed.
Waiting(i) == db[i].status = "absent" /\ lock[i] # NoProc

\* The jobs a position has to count, and those of them that p's SELECT counts or
\* that somebody else is submitting.
Counted(i) == db[i].status \in ActiveStatuses \/ Waiting(i)
CountedBy(p, i) == \/ View(p, i).status \in ActiveStatuses
                   \/ db[i].status = "absent" /\ lock[i] \notin {NoProc, p}

Load(j) == {i \in 1..j : Counted(i)}
LoadSeen(p, j) == {i \in 1..j : CountedBy(p, i)}

\* The submissions under way besides one.
Slack == Cardinality(Creators) - 1

\* A refresh updates only rows it has seen.
SeenInv == \A p \in Procs, j \in Jobs :
    todo[p][j] # 0 => pc[p] = "update" /\ View(p, j).status # "absent"

\* Only a submission holds a row that is not there yet.
WaitInv == \A i \in Jobs : Waiting(i) => new[i].status # "absent"

\* Below an inserted row, no more rows wait for their commit than there are other
\* submissions.
PendInv == \A j \in Jobs : j < nextJob =>
    Cardinality({i \in 1..(j-1) : Waiting(i)}) <= Slack

\* The promise, of a committed position, of one a refresh is about to write, and of
\* one that it has written and not committed.
PosInv == \A j \in Jobs : db[j].status \in ActiveStatuses =>
    Cardinality(Load(j)) <= db[j].queue_position + Slack

TodoInv == \A p \in Procs, j \in Jobs : todo[p][j] # 0 =>
    Cardinality(LoadSeen(p, j)) <= todo[p][j] + Slack

NewInv == \A p \in Procs, j \in Jobs :
    pc[p] = "update" /\ todo[p][j] = 0 /\ lock[j] = p /\ new[j].status \in ActiveStatuses
    => Cardinality(LoadSeen(p, j)) <= new[j].queue_position + Slack

-----------------------------------------------------------------------------
(* What a step does to one row, and to the updates a refresh has to send   *)

RowKept(i) == db'[i] = db[i] /\ new'[i] = new[i] /\ lock'[i] = lock[i]

\* p writes or locks row i in its transaction.  A statement of a refresh writes the
\* position it has to send and leaves the status.
RowWritten(p, i) ==
    /\ lock[i] \in {NoProc, p} /\ lock'[i] = p /\ db'[i] = db[i]
    /\ View(p, i).status # "absent" /\ new'[i].status # "absent"
    /\ pc'[p] = "update" =>
          /\ NextUpdate(p, i) /\ todo'[p][i] = 0
          /\ new'[i].status = View(p, i).status
          /\ new'[i].queue_position = todo[p][i]
    /\ pc'[p] = "update" \/ op[p] \in {"start", "recover"}

\* A row is written, or deleted, outside a transaction: it stays active only in a
\* refresh that writes its position.
RowSaved(i) ==
    /\ lock[i] = NoProc /\ lock'[i] = NoProc /\ new'[i] = db'[i]
    /\ db[i].status # "absent" /\ db'[i].status # "absent"
    /\ db'[i].status \in ActiveStatuses =>
          /\ db[i].status \in ActiveStatuses
          /\ \E p \in Procs : /\ op[p] = "finish" /\ todo[p][i] # 0
                              /\ db'[i].queue_position = todo[p][i]

\* p's transaction ends.
RowEnded(p, i) ==
    /\ lock[i] = p /\ lock'[i] = NoProc /\ new'[i] = db'[i] /\ pc'[p] # "update"
    /\ db'[i] = db[i] \/ (Commit(p) /\ db'[i] = new[i])

RowStep(i) == \/ RowKept(i) \/ RowSaved(i)
              \/ \E p \in Procs : RowWritten(p, i) \/ RowEnded(p, i)

\* A write inside a transaction does to every row what RowStep says.
LEMMA WrittenRows ==
    ASSUME TypeOK, NEW p \in Procs, NEW j \in Jobs, NEW row, Write(p, j, row),
           op[p] # "finish", View(p, j).status # "absent", row.status # "absent",
           pc'[p] = "update" => /\ NextUpdate(p, j) /\ todo'[p][j] = 0
                                /\ row.status = View(p, j).status
                                /\ row.queue_position = todo[p][j],
           pc'[p] = "update" \/ op[p] \in {"start", "recover"}
    PROVE  \A i \in Jobs : RowStep(i)
<1>1. /\ lock[j] \in {NoProc, p} /\ OtherRowsKept(j) /\ new'[j] = row
      /\ db' = db /\ lock'[j] = p
  BY WriteEffect
<1>2. RowWritten(p, j)
  BY <1>1 DEF RowWritten
<1> QED
  BY <1>1, <1>2 DEF RowStep, RowKept, OtherRowsKept

\* So does one outside a transaction.
LEMMA SavedRows ==
    ASSUME IInv, NEW p \in Procs, NEW j \in Jobs, NEW row, Write(p, j, row),
           op[p] = "finish", db[j].status # "absent", row.status # "absent",
           row.status \in ActiveStatuses =>
               /\ db[j].status \in ActiveStatuses
               /\ todo[p][j] # 0 /\ row.queue_position = todo[p][j]
    PROVE  \A i \in Jobs : RowStep(i)
<1>i. TypeOK /\ LockInv
  BY DEF IInv, JobInv
<1>1. /\ lock[j] \in {NoProc, p} /\ OtherRowsKept(j) /\ new'[j] = row
      /\ db'[j] = row /\ lock' = lock
  BY <1>i, WriteEffect
<1>2. lock[j] # p
  BY <1>i, HoldsNothing
<1>3. RowSaved(j)
  BY <1>1, <1>2 DEF RowSaved
<1> QED
  BY <1>1, <1>3 DEF RowStep, RowKept, OtherRowsKept

\* The end of a transaction, by COMMIT or ROLLBACK.
LEMMA EndedRows ==
    ASSUME TypeOK, NEW p \in Procs, Commit(p) \/ Rollback(p)
    PROVE  \A i \in Jobs : RowStep(i)
<1>t. pc \in [Procs -> Statements]
  BY DEF TypeOK
<1>1. CASE Commit(p)
  <2>1. pc'[p] # "update"
    BY <1>1, <1>t DEF Commit, NextOperation
  <2>2. \A i \in Jobs : IF lock[i] = p THEN lock'[i] = NoProc /\ db'[i] = new[i]
                                       ELSE lock'[i] = lock[i] /\ db'[i] = db[i]
    BY <1>1 DEF Commit, View
  <2>3. new' = new
    BY <1>1 DEF Commit
  <2> QED
    BY <1>1, <2>1, <2>2, <2>3 DEF RowStep, RowKept, RowEnded
<1>2. CASE Rollback(p)
  <2>1. pc'[p] # "update"
    BY <1>2, <1>t DEF Rollback
  <2>2. \A i \in Jobs : IF lock[i] = p THEN lock'[i] = NoProc /\ new'[i] = db[i]
                                       ELSE lock'[i] = lock[i] /\ new'[i] = new[i]
    BY <1>2 DEF Rollback
  <2>3. \A i \in Jobs : db'[i] = db[i]
    BY <1>2 DEF Rollback
  <2>4. ASSUME NEW i \in Jobs, lock[i] = p PROVE RowEnded(p, i)
    <3>1. lock'[i] = NoProc /\ new'[i] = db[i] /\ db'[i] = db[i]
      BY <2>2, <2>3, <2>4
    <3> QED
      BY <2>1, <2>4, <3>1 DEF RowEnded
  <2>5. \A i \in Jobs : lock[i] # p => RowKept(i)
    BY <2>2, <2>3 DEF RowKept
  <2> QED
    BY <2>4, <2>5 DEF RowStep
<1> QED
  BY <1>1, <1>2

\* Every step does so to every row that has been inserted.
LEMMA RowEffect ==
    IInv /\ SeenInv /\ [Next]_vars => \A i \in Jobs : ~Fresh(i) => RowStep(i)
<1> SUFFICES ASSUME IInv, SeenInv, [Next]_vars
             PROVE  \A i \in Jobs : ~Fresh(i) => RowStep(i)
  OBVIOUS
<1>i. TypeOK /\ PcInv /\ LockInv /\ ExecInv
  BY DEF IInv, JobInv
<1>t. /\ db \in [Jobs -> Row] /\ new \in [Jobs -> Row]
      /\ lock \in [Jobs -> Procs \cup {NoProc}]
      /\ pc \in [Procs -> Statements] /\ todo \in [Procs -> [Jobs -> Nat]]
  BY <1>i DEF TypeOK
<1>q. UNCHANGED tables => \A i \in Jobs : RowStep(i)
  BY DEF tables, RowStep, RowKept
<1>1. ASSUME NEW p \in Procs,
             \/ CountActiveJobs(p) \/ RejectSubmission(p) \/ SelectPositions(p)
             \/ ExecuteJob(p) \/ ArtifactFailure(p) \/ StartWorker(p)
             \/ PollNothing(p) \/ RefuseToStart(p)
             \/ ClearArtifacts(p) \/ CreateArtifact(p)
      PROVE  UNCHANGED tables
  BY <1>1
     DEF CountActiveJobs, RejectSubmission, SelectPositions, ExecuteJob,
         ArtifactFailure, StartWorker, PollNothing, RefuseToStart,
         ClearArtifacts, CreateArtifact
<1>2. ASSUME NEW p \in Procs, InsertJob(p)
      PROVE  \A i \in Jobs : ~Fresh(i) => RowStep(i)
  <2> DEFINE row == [status |-> "queued", queue_position |-> depth[p] + 1,
                     failure_message |-> ""]
  <2>1. nextJob \in Jobs /\ Write(p, nextJob, row)
    BY <1>2 DEF InsertJob
  <2> HIDE DEF row
  <2>2. OtherRowsKept(nextJob) /\ Fresh(nextJob)
    BY <1>i, <2>1, WriteEffect, BoundsAssumption DEF Fresh, Jobs
  <2> QED
    BY <2>2 DEF OtherRowsKept, RowStep, RowKept
<1>3. ASSUME NEW p \in Procs, NEW j \in Jobs, UpdatePosition(p, j)
      PROVE  \A i \in Jobs : RowStep(i)
  <2>1. CASE Gone(j)
    BY <1>3, <2>1, <1>q DEF UpdatePosition
  <2>2. CASE ~Gone(j)
    <3> DEFINE row == [View(p, j) EXCEPT !.queue_position = todo[p][j]]
    <3>1. /\ Write(p, j, row) /\ NextUpdate(p, j) /\ todo'[p][j] = 0
          /\ todo[p][j] # 0 /\ pc'[p] = "update"
      BY <1>3, <1>t, <2>2 DEF UpdatePosition, NextUpdate
    <3>2. row.status = View(p, j).status /\ row.queue_position = todo[p][j]
      <4>1. View(p, j) \in Row
        BY <1>i, ViewType
      <4> QED
        BY <4>1 DEF Row
    <3>3. View(p, j).status # "absent"
      BY <3>1 DEF SeenInv
    <3> HIDE DEF row
    <3>4. CASE op[p] # "finish"
      BY <3>1, <3>2, <3>3, <3>4, <1>i, WrittenRows
    <3>5. CASE op[p] = "finish"
      <4>1. View(p, j) = db[j]
        BY <1>i, <3>5, HoldsNothing DEF View
      <4> QED
        BY <3>1, <3>2, <3>3, <3>5, <4>1, SavedRows
    <3> QED
      BY <3>4, <3>5
  <2> QED
    BY <2>1, <2>2
<1>4. ASSUME NEW p \in Procs, Commit(p) PROVE \A i \in Jobs : RowStep(i)
  BY <1>4, <1>i, EndedRows
<1>5. ASSUME NEW p \in Procs, NEW j \in Jobs, ClaimNextQueuedJob(p, j)
      PROVE  \A i \in Jobs : RowStep(i)
  <2>1. op[p] = "start" /\ pc'[p] # "update"
    BY <1>5, <1>i, <1>t DEF ClaimNextQueuedJob, PcInv, Goto
  <2>2. View(p, j).status # "absent"
    BY <1>5, ProcsAssumption DEF ClaimNextQueuedJob, Claimable, View
  <2>3. Started(db[j]).status = "running" /\ Write(p, j, Started(db[j]))
    BY <1>5, <1>i, WrittenStatus DEF ClaimNextQueuedJob
  <2> QED
    BY <1>i, <2>1, <2>2, <2>3, WrittenRows
<1>6. ASSUME NEW p \in Procs, StartQueuedJob(p) PROVE \A i \in Jobs : RowStep(i)
  <2>1. op[p] = "start" /\ pc'[p] # "update" /\ job[p] \in Jobs
    BY <1>6, <1>i, <1>t DEF StartQueuedJob, PcInv, Goto
  <2>2. lock[job[p]] # p
    BY <1>6, <1>i, <2>1, HoldsNothing DEF StartQueuedJob, InRefresh
  <2>3. View(p, job[p]).status # "absent"
    BY <1>6, <2>2 DEF StartQueuedJob, MayStart, View
  <2>4. Started(db[job[p]]).status = "running" /\ Write(p, job[p], Started(db[job[p]]))
    BY <1>6, <1>i, <2>1, WrittenStatus DEF StartQueuedJob
  <2> QED
    BY <1>i, <2>1, <2>3, <2>4, WrittenRows
<1>7. ASSUME NEW p \in Procs, SaveResult(p) \/ SaveUnsaved(p)
      PROVE  \A i \in Jobs : RowStep(i)
  <2>1. op[p] = "finish" /\ job[p] \in Jobs /\ db[job[p]].status # "absent"
    BY <1>7, <1>i DEF SaveResult, SaveUnsaved, PcInv, ExecInv, Executing
  <2>2. CASE SaveResult(p)
    <3>1. Finished(result[p]).status \in {"completed", "failed"}
      BY <1>i, <2>1, WrittenStatus
    <3>2. Write(p, job[p], Finished(result[p]))
      BY <2>2 DEF SaveResult
    <3> QED
      BY <2>1, <3>1, <3>2, SavedRows DEF ActiveStatuses
  <2>3. CASE SaveUnsaved(p)
    <3> DEFINE row == [db[job[p]] EXCEPT !.status = "failed", !.failure_message = "unsaved"]
    <3>1. row.status = "failed"
      BY <1>i, <2>1, WrittenStatus
    <3>2. Write(p, job[p], row)
      BY <2>3 DEF SaveUnsaved
    <3> HIDE DEF row
    <3> QED
      BY <2>1, <3>1, <3>2, SavedRows DEF ActiveStatuses
  <2> QED
    BY <1>7, <2>2, <2>3
<1>8. ASSUME NEW p \in Procs, NEW j \in Jobs, LockStaleJob(p, j)
      PROVE  \A i \in Jobs : RowStep(i)
  <2>1. /\ lock[j] = NoProc /\ pc[p] = "lock" /\ db' = db /\ new' = new /\ pc' = pc
        /\ op[p] = "recover"
        /\ IF db[j].status = "running" THEN lock' = [lock EXCEPT ![j] = p] ELSE lock' = lock
    BY <1>8, <1>i DEF LockStaleJob, NextStale, PcInv
  <2>2. db[j].status = "running" => RowWritten(p, j)
    BY <1>i, <1>t, <2>1, ProcsAssumption DEF RowWritten, View, LockInv, RowInv
  <2>3. \A i \in Jobs : i # j \/ db[j].status # "running" => RowKept(i)
    BY <1>t, <2>1 DEF RowKept
  <2> QED
    BY <2>2, <2>3 DEF RowStep
<1>9. ASSUME NEW p \in Procs, SaveStaleJobs(p) PROVE \A i \in Jobs : RowStep(i)
  <2>1. /\ pc[p] = "lock" /\ db' = db /\ lock' = lock /\ pc'[p] # "update"
        /\ op[p] = "recover"
        /\ \A i \in Jobs : new'[i] = IF lock[i] = p THEN Stale(new[i]) ELSE new[i]
    BY <1>9, <1>i, <1>t DEF SaveStaleJobs, Goto, PcInv
  <2>2. \A i \in Jobs : Stale(new[i]).status # "absent"
    BY DEF Stale
  <2>3. \A i \in Jobs : lock[i] = p => View(p, i).status # "absent"
    BY <1>i, <2>1 DEF View, LockInv, RowInv, StatusChange
  <2>4. \A i \in Jobs : lock[i] = p => RowWritten(p, i)
    BY <2>1, <2>2, <2>3 DEF RowWritten
  <2>5. \A i \in Jobs : lock[i] # p => RowKept(i)
    BY <2>1 DEF RowKept
  <2> QED
    BY <2>4, <2>5 DEF RowStep
<1>10. ASSUME NEW p \in Procs, Crash(p) \/ AbortDeadlocked(p) \/ SaveFails(p)
       PROVE  \A i \in Jobs : RowStep(i)
  <2>1. Rollback(p)
    BY <1>10 DEF Crash, AbortDeadlocked, SaveFails
  <2> QED
    BY <1>i, <2>1, EndedRows
<1>11. ASSUME NEW j \in Jobs, DeleteJob(j) PROVE \A i \in Jobs : RowStep(i)
  <2>1. GoneRow.status = "deleted"
    BY DEF GoneRow, NoRow
  <2>2. /\ lock[j] = NoProc /\ lock' = lock /\ db[j].status # "absent"
        /\ db'[j] = GoneRow /\ new'[j] = GoneRow
        /\ \A i \in Jobs \ {j} : db'[i] = db[i] /\ new'[i] = new[i]
    BY <1>11, <1>t DEF DeleteJob
  <2>3. RowSaved(j)
    BY <2>1, <2>2 DEF RowSaved, ActiveStatuses
  <2>4. \A i \in Jobs \ {j} : RowKept(i)
    BY <2>2 DEF RowKept
  <2> QED
    BY <2>3, <2>4 DEF RowStep
<1>12. CASE UNCHANGED vars
  BY <1>12, <1>q DEF vars, tables
<1> QED
  BY <1>q, <1>1, <1>2, <1>3, <1>4, <1>5, <1>6, <1>7, <1>8, <1>9, <1>10, <1>11, <1>12
     DEF Next, Step

\* A refresh's updates come from its SELECT and go one by one; who is in the middle of
\* them was there before.
Refreshes(q) ==
    /\ pc'[q] = "update" => pc[q] = "update"
    /\ \A j \in Jobs :
         /\ todo'[q][j] # 0 => pc'[q] = "update" /\ todo'[q][j] = todo[q][j]
         /\ pc'[q] = "update" /\ todo'[q][j] = 0 /\ todo[q][j] # 0 => UpdatePosition(q, j)

LEMMA RefreshFrame ==
    ASSUME SeenInv, NEW q \in Procs, todo'[q] = todo[q],
           pc[q] = "update" <=> pc'[q] = "update"
    PROVE  Refreshes(q)
  BY DEF SeenInv, Refreshes

LEMMA RefreshEffect ==
    IInv /\ SeenInv /\ [Next]_vars => \A q \in Procs : SelectPositions(q) \/ Refreshes(q)
<1> SUFFICES ASSUME IInv, SeenInv, [Next]_vars, NEW q \in Procs
             PROVE  SelectPositions(q) \/ Refreshes(q)
  OBVIOUS
<1>t. /\ pc \in [Procs -> Statements] /\ todo \in [Procs -> [Jobs -> Nat]]
  BY DEF IInv, TypeOK
<1>1. ASSUME NEW p \in Procs,
             \/ CountActiveJobs(p) \/ RejectSubmission(p) \/ InsertJob(p)
             \/ ExecuteJob(p) \/ ArtifactFailure(p) \/ StartWorker(p)
             \/ PollNothing(p) \/ RefuseToStart(p) \/ StartQueuedJob(p)
             \/ ClearArtifacts(p) \/ CreateArtifact(p) \/ SaveResult(p)
             \/ SaveUnsaved(p) \/ SaveStaleJobs(p)
             \/ \E j \in Jobs : ClaimNextQueuedJob(p, j) \/ LockStaleJob(p, j)
      PROVE  Refreshes(q)
  <2>1. todo' = todo
    BY <1>1
       DEF CountActiveJobs, RejectSubmission, InsertJob, ExecuteJob, ArtifactFailure,
           StartWorker, PollNothing, RefuseToStart, StartQueuedJob, ClearArtifacts,
           CreateArtifact, SaveResult, SaveUnsaved, SaveStaleJobs, ClaimNextQueuedJob,
           LockStaleJob
  <2>2. pc[q] = "update" <=> pc'[q] = "update"
    BY <1>1, <1>t
       DEF CountActiveJobs, RejectSubmission, InsertJob, ExecuteJob, ArtifactFailure,
           StartWorker, PollNothing, RefuseToStart, StartQueuedJob, ClearArtifacts,
           CreateArtifact, SaveResult, SaveUnsaved, SaveStaleJobs, ClaimNextQueuedJob,
           LockStaleJob, Goto
  <2> QED
    BY <2>1, <2>2, RefreshFrame
<1>2. ASSUME NEW p \in Procs, SelectPositions(p) PROVE SelectPositions(q) \/ Refreshes(q)
  <2>1. q # p => todo'[q] = todo[q] /\ pc'[q] = pc[q]
    BY <1>2, <1>t DEF SelectPositions, Goto
  <2> QED
    BY <1>2, <2>1, RefreshFrame
<1>3. ASSUME NEW p \in Procs, NEW j \in Jobs, UpdatePosition(p, j) PROVE Refreshes(q)
  <2>1. /\ todo' = [todo EXCEPT ![p][j] = 0] /\ pc' = pc /\ pc[p] = "update"
    BY <1>3 DEF UpdatePosition, NextUpdate
  <2>2. CASE q # p
    BY <2>1, <2>2, <1>t, RefreshFrame
  <2>3. CASE q = p
    <3>1. \A i \in Jobs : todo'[q][i] = IF i = j THEN 0 ELSE todo[q][i]
      BY <2>1, <2>3, <1>t
    <3> QED
      BY <1>3, <2>1, <2>3, <3>1 DEF Refreshes
  <2> QED
    BY <2>2, <2>3
<1>4. ASSUME NEW p \in Procs, Commit(p) PROVE Refreshes(q)
  <2>1. todo' = todo /\ pc[p] = "update" /\ \A j \in Jobs : todo[p][j] = 0
    BY <1>4 DEF Commit
  <2>2. pc'[p] # "update" /\ (q # p => pc'[q] = pc[q])
    BY <1>4, <1>t DEF Commit, NextOperation
  <2>3. CASE q = p
    BY <2>1, <2>2, <2>3 DEF Refreshes
  <2>4. CASE q # p
    BY <2>1, <2>2, <2>4, RefreshFrame
  <2> QED
    BY <2>3, <2>4
<1>5. ASSUME NEW p \in Procs, Crash(p) \/ AbortDeadlocked(p) \/ SaveFails(p)
      PROVE  Refreshes(q)
  <2>1. Rollback(p)
    BY <1>5 DEF Crash, AbortDeadlocked, SaveFails
  <2>2. /\ pc'[p] # "update" /\ \A j \in Jobs : todo'[p][j] = 0
        /\ q # p => pc'[q] = pc[q] /\ todo'[q] = todo[q]
    BY <2>1, <1>t DEF Rollback
  <2>3. CASE q = p
    BY <2>2, <2>3 DEF Refreshes
  <2>4. CASE q # p
    BY <2>2, <2>4, RefreshFrame
  <2> QED
    BY <2>3, <2>4
<1>6. CASE (\E j \in Jobs : DeleteJob(j)) \/ UNCHANGED vars
  BY <1>6, RefreshFrame DEF DeleteJob, vars
<1> QED
  BY <1>1, <1>2, <1>3, <1>4, <1>5, <1>6 DEF Next, Step

\* Only an insertion makes a fresh row another one.
LEMMA FreshEffect ==
    IInv /\ [Next]_vars => \/ nextJob' = nextJob
                           \/ nextJob' = nextJob + 1 /\ \E p \in Procs : InsertJob(p)
<1> SUFFICES ASSUME [Next]_vars
             PROVE  \/ nextJob' = nextJob
                    \/ nextJob' = nextJob + 1 /\ \E p \in Procs : InsertJob(p)
  OBVIOUS
<1>1. ASSUME NEW p \in Procs, InsertJob(p)
      PROVE  nextJob' = nextJob + 1 /\ \E q \in Procs : InsertJob(q)
  BY <1>1 DEF InsertJob
<1>2. nextJob' = nextJob \/ \E p \in Procs : InsertJob(p)
  BY DEF Next, Step, CountActiveJobs, RejectSubmission, ExecuteJob, ArtifactFailure,
         StartWorker, PollNothing, RefuseToStart, StartQueuedJob, ClearArtifacts,
         CreateArtifact, SaveResult, SaveUnsaved, SaveStaleJobs, ClaimNextQueuedJob,
         LockStaleJob, SelectPositions, UpdatePosition, Commit, Crash, AbortDeadlocked,
         SaveFails, Rollback, DeleteJob, vars
<1> QED
  BY <1>1, <1>2

-----------------------------------------------------------------------------
(* What a position has to count only shrinks                               *)

\* While a refresh goes on, no inserted job joins those it counted, nor those a
\* position has to count.
LEMMA RowShrinks ==
    ASSUME IInv, NEW i \in Jobs, RowStep(i)
    PROVE  /\ Waiting(i)' => Waiting(i)
           /\ Counted(i)' => Counted(i)
           /\ \A q \in Procs : pc[q] = "update" /\ pc'[q] = "update"
                               => (CountedBy(q, i)' => CountedBy(q, i))
<1>i. RowInv(i) /\ NoProc \notin Procs
  BY ProcsAssumption DEF IInv, JobInv, LockInv
<1>1. CASE RowKept(i)
  BY <1>1 DEF RowKept, Waiting, Counted, CountedBy, View
<1>2. CASE RowSaved(i)
  BY <1>2, <1>i DEF RowSaved, Waiting, Counted, CountedBy, View
<1>3. ASSUME NEW p \in Procs, RowWritten(p, i)
      PROVE  /\ Waiting(i)' => Waiting(i)
             /\ Counted(i)' => Counted(i)
             /\ \A q \in Procs : pc[q] = "update" /\ pc'[q] = "update"
                                 => (CountedBy(q, i)' => CountedBy(q, i))
  <2>1. Waiting(i)' => Waiting(i)
    BY <1>3, <1>i DEF RowWritten, Waiting, View, RowInv
  <2>2. Counted(i)' => Counted(i)
    BY <1>3, <2>1 DEF RowWritten, Counted
  <2>3. ASSUME NEW q \in Procs, pc[q] = "update", pc'[q] = "update", CountedBy(q, i)'
        PROVE  CountedBy(q, i)
    <3>1. CASE q = p
      BY <1>3, <1>i, <2>3, <3>1 DEF RowWritten, CountedBy, View
    <3>2. CASE q # p
      BY <1>3, <1>i, <2>1, <2>3, <3>2 DEF RowWritten, CountedBy, Waiting, View
    <3> QED
      BY <3>1, <3>2
  <2> QED
    BY <2>1, <2>2, <2>3
<1>4. ASSUME NEW p \in Procs, RowEnded(p, i)
      PROVE  /\ Waiting(i)' => Waiting(i)
             /\ Counted(i)' => Counted(i)
             /\ \A q \in Procs : pc[q] = "update" /\ pc'[q] = "update"
                                 => (CountedBy(q, i)' => CountedBy(q, i))
  <2>1. StatusChange(p, i)
    BY <1>4, <1>i DEF RowEnded, RowInv
  <2>2. db'[i].status \in ActiveStatuses => Counted(i)
    BY <1>4, <1>i, <2>1 DEF RowEnded, StatusChange, Counted, Waiting, ActiveStatuses
  <2> QED
    BY <1>4, <1>i, <2>2 DEF RowEnded, Waiting, Counted, CountedBy, View
<1> QED
  BY <1>1, <1>2, <1>3, <1>4 DEF RowStep

\* What a commit makes active or leaves waiting, its own refresh has counted.
LEMMA CommitSees ==
    ASSUME IInv, NEW p \in Procs, Commit(p), NEW i \in Jobs
    PROVE  Counted(i)' => CountedBy(p, i)
<1>1. db'[i] = View(p, i) /\ lock'[i] = IF lock[i] = p THEN NoProc ELSE lock[i]
  BY DEF Commit
<1> QED
  BY <1>1 DEF Counted, CountedBy, Waiting, View

\* A refresh that saves every update at once counts what a position has to count.
LEMMA SaverSees ==
    ASSUME IInv, NEW p \in Procs, op[p] = "finish", NEW i \in Jobs
    PROVE  Counted(i) <=> CountedBy(p, i)
<1>1. lock[i] # p
  BY HoldsNothing DEF IInv, JobInv
<1> QED
  BY <1>1 DEF Counted, CountedBy, Waiting, View

\* Fewer jobs do not make a bound false.
LEMMA Fewer ==
    ASSUME NEW j \in Jobs, NEW S, NEW T \in SUBSET (1..j), S \subseteq T
    PROVE  /\ Cardinality(S) \in Nat /\ Cardinality(T) \in Nat
           /\ Cardinality(S) <= Cardinality(T)
<1>1. IsFiniteSet(1..j)
  BY FS_Interval DEF Jobs
<1>2. IsFiniteSet(T)
  BY <1>1, FS_Subset
<1> QED
  BY <1>2, FS_Subset, FS_CardinalityType

LEMMA SlackType == Slack \in Nat
<1>1. IsFiniteSet(Creators) /\ Creators # {}
  BY ProcsAssumption, FS_Union DEF Creators
<1> QED
  BY <1>1, FS_CardinalityType, FS_EmptySet DEF Slack

-----------------------------------------------------------------------------
(* The invariant is inductive                                              *)

LEMMA SeenStep == IInv /\ SeenInv /\ [Next]_vars => SeenInv'
<1> SUFFICES ASSUME IInv, SeenInv, [Next]_vars, NEW q \in Procs, NEW j \in Jobs,
                    todo'[q][j] # 0
             PROVE  pc'[q] = "update" /\ View(q, j)'.status # "absent"
  BY DEF SeenInv
<1>i. TypeOK /\ FreshInv /\ RowInv(j) /\ NoProc \notin Procs
  BY ProcsAssumption DEF IInv, JobInv, LockInv
<1>t. /\ pc \in [Procs -> Statements] /\ todo \in [Procs -> [Jobs -> Nat]]
  BY <1>i DEF TypeOK
<1>1. CASE SelectPositions(q)
  <2>1. pc'[q] = "update" /\ UNCHANGED <<db, new, lock>>
    BY <1>1, <1>t DEF SelectPositions, Goto, tables
  <2>2. View(q, j).status \in ActiveStatuses
    BY <1>1, <1>t DEF SelectPositions
  <2> QED
    BY <2>1, <2>2 DEF View, ActiveStatuses
<1>2. CASE Refreshes(q)
  <2>1. /\ pc'[q] = "update" /\ pc[q] = "update"
        /\ todo'[q][j] = todo[q][j] /\ todo[q][j] # 0
    BY <1>2 DEF Refreshes
  <2>2. View(q, j).status # "absent" /\ ~Fresh(j)
    BY <1>i, <2>1 DEF SeenInv, FreshInv
  <2>3. RowStep(j)
    BY <2>2, RowEffect
  <2>4. CASE RowKept(j)
    BY <2>1, <2>2, <2>4 DEF RowKept, View
  <2>5. CASE RowSaved(j)
    BY <1>i, <2>1, <2>2, <2>5 DEF RowSaved, View
  <2>6. ASSUME NEW p \in Procs, RowWritten(p, j) PROVE View(q, j)'.status # "absent"
    BY <1>i, <2>1, <2>2, <2>6 DEF RowWritten, View
  <2>7. ASSUME NEW p \in Procs, RowEnded(p, j) PROVE View(q, j)'.status # "absent"
    <3>1. q # p /\ db[j].status # "absent" /\ StatusChange(p, j)
      BY <1>i, <2>1, <2>2, <2>7 DEF RowEnded, View, RowInv
    <3>2. new[j].status # "absent"
      BY <3>1 DEF StatusChange
    <3> QED
      BY <1>i, <2>7, <3>1, <3>2 DEF RowEnded, View
  <2> QED
    BY <2>1, <2>3, <2>4, <2>5, <2>6, <2>7 DEF RowStep
<1> QED
  BY <1>1, <1>2, RefreshEffect

\* A row that is not there yet and held is held by the submission that inserted it.
LEMMA WaitFacts ==
    ASSUME IInv, WaitInv, NEW i \in Jobs, Waiting(i)
    PROVE  /\ lock[i] \in Creators /\ op[lock[i]] = "create" /\ job[lock[i]] = i
           /\ InRefresh(lock[i])
<1>1. lock[i] \in Procs /\ RowInv(i)
  BY DEF Waiting, IInv, JobInv, LockInv, TypeOK
<1>2. new[i].status # "absent"
  BY DEF WaitInv
<1>3. op[lock[i]] = "create" /\ job[lock[i]] = i /\ InRefresh(lock[i])
  BY <1>1, <1>2 DEF Waiting, RowInv, StatusChange
<1> QED
  BY <1>1, <1>3 DEF IInv, JobInv, PcInv

LEMMA WaitStep == IInv /\ SeenInv /\ WaitInv /\ [Next]_vars => WaitInv'
<1> SUFFICES ASSUME IInv, SeenInv, WaitInv, [Next]_vars, NEW i \in Jobs, Waiting(i)'
             PROVE  new'[i].status # "absent"
  BY DEF WaitInv
<1>i. TypeOK /\ NoProc \notin Procs /\ FreshInv'
  BY InvStep, ProcsAssumption DEF IInv, JobInv
<1>1. CASE ~Fresh(i)
  <2>1. RowStep(i) /\ (Waiting(i)' => Waiting(i))
    BY <1>1, RowEffect, RowShrinks
  <2>2. Waiting(i) /\ lock'[i] # NoProc
    BY <2>1 DEF Waiting
  <2>3. RowKept(i) \/ \E p \in Procs : RowWritten(p, i)
    BY <2>1, <2>2 DEF RowStep, RowSaved, RowEnded
  <2> QED
    BY <2>2, <2>3 DEF WaitInv, RowKept, RowWritten
<1>2. CASE Fresh(i)
  <2>1. ~Fresh(i)'
    BY <1>i DEF FreshInv, Waiting
  <2>2. PICK p \in Procs : InsertJob(p) /\ nextJob' = nextJob + 1
    BY <1>2, <2>1, FreshEffect DEF Fresh
  <2>3. i = nextJob
    <3>1. nextJob \in Nat /\ i \in Nat
      BY <1>i, BoundsAssumption DEF TypeOK, Jobs
    <3> QED
      BY <1>2, <2>1, <2>2, <3>1 DEF Fresh
  <2> DEFINE row == [status |-> "queued", queue_position |-> depth[p] + 1,
                     failure_message |-> ""]
  <2>4. Write(p, i, row)
    BY <2>2, <2>3 DEF InsertJob
  <2>5. row.status = "queued"
    OBVIOUS
  <2> HIDE DEF row
  <2> QED
    BY <1>i, <2>4, <2>5, WriteEffect
<1> QED
  BY <1>1, <1>2

\* Whoever inserts holds no row, and every waiting row is held by another submission.
LEMMA InsertWaits ==
    ASSUME IInv, WaitInv, NEW p \in Procs, InsertJob(p)
    PROVE  Cardinality({i \in 1..(nextJob - 1) : Waiting(i)}) <= Slack
<1> DEFINE W == {i \in 1..(nextJob - 1) : Waiting(i)}
<1> DEFINE f == [i \in W |-> lock[i]]
<1>1. nextJob \in Jobs /\ pc[p] = "insert" /\ p \in Creators
  BY DEF InsertJob, IInv, JobInv, PcInv
<1>2. \A i \in W : i \in Jobs /\ Waiting(i)
  BY <1>1, BoundsAssumption DEF Jobs
<1>3. \A i \in W : lock[i] \in Creators \ {p} /\ job[lock[i]] = i
  BY <1>1, <1>2, WaitFacts DEF InRefresh
<1>4. f \in Injection(W, Creators \ {p})
  <2>1. f \in [W -> Creators \ {p}]
    BY <1>3
  <2>2. \A a, b \in W : f[a] = f[b] => a = b
    BY <1>3
  <2> QED
    BY <2>1, <2>2 DEF Injection, IsInjective
<1>5. IsFiniteSet(Creators)
  BY ProcsAssumption, FS_Union DEF Creators
<1>6. /\ IsFiniteSet(Creators \ {p})
      /\ Cardinality(Creators \ {p}) = Cardinality(Creators) - 1
  BY <1>1, <1>5, FS_RemoveElement
<1> HIDE DEF f, W
<1>7. Cardinality(W) <= Cardinality(Creators \ {p})
  BY <1>4, <1>6, FS_Injection
<1> QED
  BY <1>6, <1>7 DEF Slack, W

LEMMA PendStep ==
    IInv /\ SeenInv /\ WaitInv /\ PendInv /\ [Next]_vars => PendInv'
<1> SUFFICES ASSUME IInv, SeenInv, WaitInv, PendInv, [Next]_vars,
                    NEW j \in Jobs, j < nextJob'
             PROVE  Cardinality({i \in 1..(j-1) : Waiting(i)'}) <= Slack
  BY DEF PendInv
<1> DEFINE W(k) == {i \in 1..(k-1) : Waiting(i)}
<1>t. nextJob \in Nat /\ j \in Nat /\ MaxJobs \in Nat
  BY BoundsAssumption DEF IInv, TypeOK, Jobs
<1>1. Cardinality(W(j)) <= Slack
  <2>1. CASE j < nextJob
    BY <2>1 DEF PendInv
  <2>2. CASE ~(j < nextJob)
    <3>1. PICK p \in Procs : InsertJob(p) /\ nextJob' = nextJob + 1
      BY <2>2, FreshEffect
    <3>2. j = nextJob
      BY <1>t, <2>2, <3>1
    <3> QED
      BY <3>1, <3>2, InsertWaits
  <2> QED
    BY <2>1, <2>2
<1>2. j <= nextJob
  BY <1>t, FreshEffect
<1>3. \A i \in 1..(j-1) : Waiting(i)' => Waiting(i)
  <2> SUFFICES ASSUME NEW i \in 1..(j-1) PROVE Waiting(i)' => Waiting(i)
    OBVIOUS
  <2>1. i \in Jobs /\ ~Fresh(i)
    BY <1>t, <1>2 DEF Fresh, Jobs
  <2> QED
    BY <2>1, RowEffect, RowShrinks
<1>4. W(j) \in SUBSET (1..j) /\ {i \in 1..(j-1) : Waiting(i)'} \subseteq W(j)
  BY <1>t, <1>3
<1>5. /\ Cardinality({i \in 1..(j-1) : Waiting(i)'}) \in Nat /\ Cardinality(W(j)) \in Nat
      /\ Cardinality({i \in 1..(j-1) : Waiting(i)'}) <= Cardinality(W(j))
  BY <1>4, Fewer
<1> QED
  BY <1>1, <1>5, SlackType

\* From one state to the next, the loads up to an inserted job do not grow.
LEMMA LoadsShrink ==
    ASSUME IInv, SeenInv, [Next]_vars, NEW j \in Jobs, ~Fresh(j)
    PROVE  /\ Cardinality(Load(j)) \in Nat /\ Cardinality(Load(j)') \in Nat
           /\ Cardinality(Load(j)') <= Cardinality(Load(j))
           /\ \A q \in Procs : pc[q] = "update" /\ pc'[q] = "update" =>
                /\ Cardinality(LoadSeen(q, j)) \in Nat
                /\ Cardinality(LoadSeen(q, j)') \in Nat
                /\ Cardinality(LoadSeen(q, j)') <= Cardinality(LoadSeen(q, j))
<1>1. ASSUME NEW i \in 1..j PROVE i \in Jobs /\ RowStep(i)
  <2>1. i \in Jobs /\ ~Fresh(i)
    BY BoundsAssumption DEF IInv, TypeOK, Fresh, Jobs
  <2> QED
    BY <2>1, RowEffect
<1>2. Load(j)' \subseteq Load(j) /\ Load(j) \in SUBSET (1..j)
  BY <1>1, RowShrinks DEF Load
<1>3. ASSUME NEW q \in Procs, pc[q] = "update", pc'[q] = "update"
      PROVE  LoadSeen(q, j)' \subseteq LoadSeen(q, j) /\ LoadSeen(q, j) \in SUBSET (1..j)
  BY <1>1, <1>3, RowShrinks DEF LoadSeen
<1> QED
  BY <1>2, <1>3, Fewer

\* A position that is its refresh's rank keeps the promise: the refresh misses only
\* rows that wait for their commit.
LEMMA RankSees ==
    ASSUME IInv, PendInv, NEW p \in Procs, NEW j \in Jobs,
           View(p, j).status \in ActiveStatuses
    PROVE  Cardinality(LoadSeen(p, j)) <= Rank(p, j) + Slack
<1> DEFINE A == {i \in 1..j : View(p, i).status \in ActiveStatuses}
<1> DEFINE W == {i \in 1..(j-1) : Waiting(i)}
<1>t. j \in Nat /\ nextJob \in Nat
  BY BoundsAssumption DEF IInv, TypeOK, Jobs
<1>1. ~Fresh(j) /\ ~(db[j].status = "absent" /\ lock[j] \notin {NoProc, p})
  BY ProcsAssumption DEF IInv, JobInv, FreshInv, View, ActiveStatuses
<1>2. Cardinality(W) <= Slack
  BY <1>t, <1>1 DEF PendInv, Fresh
<1>3. LoadSeen(p, j) \subseteq A \cup W
  <2> SUFFICES ASSUME NEW i \in 1..j, CountedBy(p, i), i \notin A PROVE i \in W
    BY DEF LoadSeen
  <2>1. db[i].status = "absent" /\ lock[i] \notin {NoProc, p}
    BY DEF CountedBy
  <2>2. i # j
    BY <1>1, <2>1
  <2> QED
    BY <1>t, <2>1, <2>2 DEF Waiting
<1>4. A \in SUBSET (1..j) /\ W \in SUBSET (1..j) /\ A \cup W \in SUBSET (1..j)
  BY <1>t
<1>5. IsFiniteSet(1..j)
  BY FS_Interval DEF Jobs
<1> HIDE DEF A, W
<1>6. IsFiniteSet(A) /\ IsFiniteSet(W) /\ IsFiniteSet(A \cap W)
  <2>1. A \cap W \in SUBSET (1..j)
    BY <1>4
  <2> QED
    BY <1>4, <1>5, <2>1, FS_Subset
<1>7. /\ Cardinality(A) \in Nat /\ Cardinality(W) \in Nat /\ Cardinality(A \cap W) \in Nat
      /\ Cardinality(A \cup W) = Cardinality(A) + Cardinality(W) - Cardinality(A \cap W)
  BY <1>6, FS_CardinalityType, FS_Union
<1>8. /\ Cardinality(LoadSeen(p, j)) \in Nat /\ Cardinality(A \cup W) \in Nat
      /\ Cardinality(LoadSeen(p, j)) <= Cardinality(A \cup W)
  BY <1>3, <1>4, Fewer
<1>9. Rank(p, j) = Cardinality(A)
  BY DEF Rank, A
<1> QED
  BY <1>2, <1>7, <1>8, <1>9, SlackType

LEMMA SelectSees ==
    ASSUME IInv, PendInv, NEW p \in Procs, SelectPositions(p), NEW j \in Jobs
    PROVE  /\ LoadSeen(p, j)' = LoadSeen(p, j) /\ UNCHANGED tables
           /\ todo'[p][j] # 0 =>
                Cardinality(LoadSeen(p, j)) <= todo'[p][j] + Slack
           /\ todo'[p][j] = 0 /\ View(p, j).status \in ActiveStatuses =>
                Cardinality(LoadSeen(p, j)) <= View(p, j).queue_position + Slack
<1>1. UNCHANGED tables
  BY DEF SelectPositions
<1>2. LoadSeen(p, j)' = LoadSeen(p, j)
  BY <1>1 DEF tables, LoadSeen, CountedBy, View
<1>3. todo'[p][j] = IF /\ View(p, j).status \in ActiveStatuses
                       /\ View(p, j).queue_position # Rank(p, j)
                    THEN Rank(p, j) ELSE 0
  BY DEF SelectPositions, IInv, TypeOK
<1>4. View(p, j).status \in ActiveStatuses =>
        Cardinality(LoadSeen(p, j)) <= Rank(p, j) + Slack
  BY RankSees
<1>5. View(p, j).status \in ActiveStatuses => Rank(p, j) # 0
  <2> SUFFICES ASSUME View(p, j).status \in ActiveStatuses PROVE Rank(p, j) # 0
    OBVIOUS
  <2> DEFINE A == {i \in 1..j : View(p, i).status \in ActiveStatuses}
  <2>1. j \in A /\ A \in SUBSET (1..j)
    BY DEF Jobs
  <2>2. IsFiniteSet(A)
    BY <2>1, FS_Interval, FS_Subset DEF Jobs
  <2> HIDE DEF A
  <2>3. Cardinality(A) # 0
    BY <2>1, <2>2, FS_EmptySet
  <2> QED
    BY <2>3 DEF Rank, A
<1> QED
  BY <1>1, <1>2, <1>3, <1>4, <1>5

LEMMA TodoStep ==
    IInv /\ SeenInv /\ PendInv /\ TodoInv /\ [Next]_vars => TodoInv'
<1> SUFFICES ASSUME IInv, SeenInv, PendInv, TodoInv, [Next]_vars,
                    NEW q \in Procs, NEW j \in Jobs, todo'[q][j] # 0
             PROVE  Cardinality(LoadSeen(q, j)') <= todo'[q][j] + Slack
  BY DEF TodoInv
<1>1. CASE SelectPositions(q)
  BY <1>1, SelectSees
<1>2. CASE Refreshes(q)
  <2>1. /\ pc'[q] = "update" /\ pc[q] = "update"
        /\ todo'[q][j] = todo[q][j] /\ todo[q][j] # 0
    BY <1>2 DEF Refreshes
  <2>2. ~Fresh(j) /\ todo[q][j] \in Nat
    BY <2>1 DEF IInv, JobInv, FreshInv, TypeOK
  <2>3. Cardinality(LoadSeen(q, j)) <= todo[q][j] + Slack
    BY <2>1 DEF TodoInv
  <2> QED
    BY <2>1, <2>2, <2>3, LoadsShrink, SlackType
<1> QED
  BY <1>1, <1>2, RefreshEffect

LEMMA NewStep ==
    IInv /\ SeenInv /\ PendInv /\ TodoInv /\ NewInv /\ [Next]_vars => NewInv'
<1> SUFFICES ASSUME IInv, SeenInv, PendInv, TodoInv, NewInv, [Next]_vars,
                    NEW q \in Procs, NEW j \in Jobs,
                    pc'[q] = "update", todo'[q][j] = 0, lock'[j] = q,
                    new'[j].status \in ActiveStatuses
             PROVE  Cardinality(LoadSeen(q, j)') <= new'[j].queue_position + Slack
  BY DEF NewInv
<1>i. TypeOK /\ NoProc \notin Procs /\ FreshInv'
  BY InvStep, ProcsAssumption DEF IInv, JobInv
<1>1. CASE SelectPositions(q)
  <2>1. View(q, j) = new'[j]
    BY <1>1, SelectSees DEF tables, View
  <2> QED
    BY <1>1, <2>1, SelectSees
<1>2. CASE Refreshes(q)
  <2>1. pc[q] = "update"
    BY <1>2 DEF Refreshes
  <2>2. ~Fresh(j)
    <3>1. ~Fresh(j)'
      BY <1>i DEF FreshInv
    <3>2. \A p \in Procs : InsertJob(p) => p # q
      BY <2>1 DEF InsertJob
    <3>3. CASE nextJob' = nextJob
      BY <3>1, <3>3 DEF Fresh
    <3>4. ASSUME NEW p \in Procs, InsertJob(p), nextJob' = nextJob + 1, Fresh(j)
          PROVE  FALSE
      <4>1. j = nextJob
        <5>1. nextJob \in Nat /\ j \in Nat
          BY <1>i, BoundsAssumption DEF TypeOK, Jobs
        <5> QED
          BY <3>1, <3>4, <5>1 DEF Fresh
      <4> DEFINE row == [status |-> "queued", queue_position |-> depth[p] + 1,
                         failure_message |-> ""]
      <4>2. Write(p, j, row) /\ op[p] = "create"
        BY <3>4, <4>1 DEF InsertJob, IInv, JobInv, PcInv
      <4> HIDE DEF row
      <4>3. lock'[j] = p
        BY <1>i, <4>2, WriteEffect
      <4> QED
        BY <3>2, <3>4, <4>3
    <3> QED
      BY <3>3, <3>4, FreshEffect
  <2>3. RowStep(j)
    BY <2>2, RowEffect
  <2>4. /\ Cardinality(LoadSeen(q, j)) \in Nat /\ Cardinality(LoadSeen(q, j)') \in Nat
        /\ Cardinality(LoadSeen(q, j)') <= Cardinality(LoadSeen(q, j))
    BY <2>1, <2>2, LoadsShrink
  <2>5. new[j].queue_position \in Nat /\ todo[q][j] \in Nat
    <3>1. new[j] \in Row /\ todo[q][j] \in Nat
      BY <1>i DEF TypeOK
    <3> QED
      BY <3>1 DEF Row
  <2>6. CASE RowKept(j)
    <3>1. lock[j] = q /\ new'[j] = new[j] /\ db'[j] = db[j]
      BY <2>6 DEF RowKept
    <3>2. CASE todo[q][j] = 0
      <4>1. Cardinality(LoadSeen(q, j)) <= new[j].queue_position + Slack
        BY <2>1, <3>1, <3>2 DEF NewInv
      <4> QED
        BY <2>4, <2>5, <3>1, <4>1, SlackType
    <3>3. CASE todo[q][j] # 0
      <4>1. UpdatePosition(q, j)
        BY <1>2, <3>3 DEF Refreshes
      <4>2. RowInv(j)
        BY DEF IInv, JobInv, LockInv
      <4>3. ~Gone(j)
        BY <3>1, <4>2 DEF Gone, RowInv, StatusChange, ActiveStatuses
      <4> DEFINE row == [View(q, j) EXCEPT !.queue_position = todo[q][j]]
      <4>4. Write(q, j, row)
        BY <4>1, <4>3 DEF UpdatePosition
      <4>5. row.queue_position = todo[q][j]
        <5>1. View(q, j) \in Row
          BY <1>i, ViewType
        <5> QED
          BY <5>1 DEF Row
      <4> HIDE DEF row
      <4>6. new'[j].queue_position = todo[q][j]
        BY <1>i, <4>4, <4>5, WriteEffect
      <4>7. Cardinality(LoadSeen(q, j)) <= todo[q][j] + Slack
        BY <3>3 DEF TodoInv
      <4> QED
        BY <2>4, <2>5, <4>6, <4>7, SlackType
    <3> QED
      BY <3>2, <3>3
  <2>7. ASSUME NEW p \in Procs, RowWritten(p, j)
        PROVE  Cardinality(LoadSeen(q, j)') <= new'[j].queue_position + Slack
    <3>1. todo[q][j] # 0 /\ new'[j].queue_position = todo[q][j]
      BY <2>7 DEF RowWritten, NextUpdate
    <3>2. Cardinality(LoadSeen(q, j)) <= todo[q][j] + Slack
      BY <3>1 DEF TodoInv
    <3> QED
      BY <2>4, <2>5, <3>1, <3>2, SlackType
  <2> QED
    BY <1>i, <2>3, <2>6, <2>7 DEF RowStep, RowSaved, RowEnded
<1> QED
  BY <1>1, <1>2, RefreshEffect

\* A row that is not inserted yet is not there in the next state either.
LEMMA FreshAbsent ==
    ASSUME IInv, [Next]_vars, NEW j \in Jobs, Fresh(j)
    PROVE  db'[j].status = "absent"
<1>1. db[j].status = "absent" /\ lock[j] = NoProc
  BY DEF IInv, JobInv, FreshInv
<1>2. \A p \in Procs : Commit(p) => db'[j] = db[j]
  BY <1>1, ProcsAssumption DEF Commit, View
<1> QED
  BY <1>1, <1>2, InvStep DEF StatusStep, TerminalStatuses

LEMMA PosStep ==
    IInv /\ SeenInv /\ PosInv /\ TodoInv /\ NewInv /\ [Next]_vars => PosInv'
<1> SUFFICES ASSUME IInv, SeenInv, PosInv, TodoInv, NewInv, [Next]_vars,
                    NEW j \in Jobs, db'[j].status \in ActiveStatuses
             PROVE  Cardinality(Load(j)') <= db'[j].queue_position + Slack
  BY DEF PosInv
<1>i. TypeOK
  BY DEF IInv
<1>1. ~Fresh(j)
  BY FreshAbsent DEF ActiveStatuses
<1>2. RowStep(j)
  BY <1>1, RowEffect
<1>3. /\ Cardinality(Load(j)) \in Nat /\ Cardinality(Load(j)') \in Nat
      /\ Cardinality(Load(j)') <= Cardinality(Load(j))
  BY <1>1, LoadsShrink
<1>4. /\ db[j].queue_position \in Nat /\ new[j].queue_position \in Nat
      /\ \A p \in Procs : todo[p][j] \in Nat
  <2>1. /\ db[j] \in Row /\ new[j] \in Row
        /\ \A p \in Procs : todo[p][j] \in Nat
    BY <1>i DEF TypeOK
  <2> QED
    BY <2>1 DEF Row
<1>5. CASE db'[j] = db[j]
  <2>1. Cardinality(Load(j)) <= db[j].queue_position + Slack
    BY <1>5 DEF PosInv
  <2> QED
    BY <1>3, <1>4, <1>5, <2>1, SlackType
<1>6. CASE RowSaved(j)
  <2>1. PICK p \in Procs : /\ op[p] = "finish" /\ todo[p][j] # 0
                           /\ db'[j].queue_position = todo[p][j]
    BY <1>6 DEF RowSaved
  <2>2. Cardinality(LoadSeen(p, j)) <= todo[p][j] + Slack
    BY <2>1 DEF TodoInv
  <2>3. LoadSeen(p, j) = Load(j)
    <3>1. \A i \in 1..j : i \in Jobs
      BY BoundsAssumption DEF Jobs
    <3> QED
      BY <2>1, <3>1, SaverSees DEF LoadSeen, Load
  <2> QED
    BY <1>3, <1>4, <2>1, <2>2, <2>3, SlackType
<1>7. ASSUME NEW p \in Procs, Commit(p), lock[j] = p, db'[j] = new[j]
      PROVE  Cardinality(Load(j)') <= db'[j].queue_position + Slack
  <2>1. pc[p] = "update" /\ todo[p][j] = 0
    BY <1>7 DEF Commit
  <2>2. Cardinality(LoadSeen(p, j)) <= new[j].queue_position + Slack
    BY <1>7, <2>1 DEF NewInv
  <2>3. Load(j)' \subseteq LoadSeen(p, j) /\ LoadSeen(p, j) \in SUBSET (1..j)
    <3>1. \A i \in 1..j : i \in Jobs
      BY BoundsAssumption DEF Jobs
    <3> QED
      BY <1>7, <3>1, CommitSees DEF LoadSeen, Load
  <2>4. /\ Cardinality(LoadSeen(p, j)) \in Nat
        /\ Cardinality(Load(j)') <= Cardinality(LoadSeen(p, j))
    BY <2>3, Fewer
  <2> QED
    BY <1>3, <1>4, <1>7, <2>2, <2>4, SlackType
<1> QED
  BY <1>2, <1>5, <1>6, <1>7 DEF RowStep, RowKept, RowWritten, RowEnded

\* The strengthening: what rows and updates promise, and what they rest on.
PositionInv == SeenInv /\ WaitInv /\ PendInv /\ PosInv /\ TodoInv /\ NewInv

LEMMA PositionStep == IInv /\ PositionInv /\ [Next]_vars => PositionInv'
  BY SeenStep, WaitStep, PendStep, PosStep, TodoStep, NewStep DEF PositionInv

LEMMA PositionInit == Init => PositionInv
<1> SUFFICES ASSUME Init PROVE PositionInv
  OBVIOUS
<1>1. /\ \A j \in Jobs : db[j].status = "absent" /\ lock[j] = NoProc
      /\ \A p \in Procs, j \in Jobs : todo[p][j] = 0
  BY DEF Init, NoRow
<1>2. PendInv
  BY BoundsAssumption DEF Init, PendInv, Jobs
<1> QED
  BY <1>1, <1>2, ProcsAssumption DEF PositionInv, SeenInv, WaitInv, Waiting, PosInv, TodoInv, NewInv,
     ActiveStatuses

\* The strengthening holds in every reachable state.
THEOREM PositionInvariance == Spec => []PositionInv
  BY PositionInit, PositionStep, Invariance, PTL DEF Spec

\* No position a reader can see promises a shorter queue than there is, but for the
\* other submissions under way: through refreshes that write one row after the other
\* from an older count, starts, ends, recoveries, rollbacks and deletions among them.
THEOREM PromisesHold == Spec => []NeverOptimistic
<1>1. IInv /\ PositionInv => NeverOptimistic
  <2> SUFFICES ASSUME IInv, PositionInv, NEW j \in ActiveJobs
               PROVE  Cardinality({i \in ActiveJobs : i <= j})
                          <= db[j].queue_position + Cardinality(Creators) - 1
    BY DEF NeverOptimistic
  <2>1. j \in Jobs /\ db[j].status \in ActiveStatuses /\ db[j].queue_position \in Nat
    <3>1. j \in Jobs /\ db[j].status \in ActiveStatuses /\ db[j] \in Row
      BY DEF ActiveJobs, IInv, TypeOK
    <3> QED
      BY <3>1 DEF Row
  <2>2. Cardinality(Load(j)) <= db[j].queue_position + Slack
    BY <2>1 DEF PositionInv, PosInv
  <2>3. {i \in ActiveJobs : i <= j} \subseteq Load(j) /\ Load(j) \in SUBSET (1..j)
    BY <2>1, BoundsAssumption DEF ActiveJobs, Load, Counted, Jobs
  <2>4. /\ Cardinality({i \in ActiveJobs : i <= j}) \in Nat /\ Cardinality(Load(j)) \in Nat
        /\ Cardinality({i \in ActiveJobs : i <= j}) <= Cardinality(Load(j))
    BY <2>1, <2>3, Fewer
  <2>5. Cardinality(Creators) \in Nat
    BY ProcsAssumption, FS_Union, FS_CardinalityType DEF Creators
  <2> QED
    BY <2>1, <2>2, <2>4, <2>5, SlackType DEF Slack
<1> QED
  BY <1>1, PositionInvariance, Invariance, PTL

-----------------------------------------------------------------------------
(* Who deadlocks                                                           *)

\* A submission holds, besides its own new row, only rows that its refresh has
\* updated, and those come before every row it has yet to update.
OrderInv == \A p \in Procs, i \in Jobs :
    op[p] = "create" /\ lock[i] = p /\ db[i].status # "absent" =>
        /\ pc[p] = "update"
        /\ \A k \in Jobs : todo[p][k] # 0 => i < k

\* Everybody who waits in a cycle submits nothing else than this allows: one of
\* them starts a job or recovers.
StartsOrRecoversInDeadlock == \A S \in SUBSET Procs :
    S # {} /\ Deadlock(S) => \E p \in S : op[p] \in {"start", "recover"}

LEMMA OrderStep == IInv /\ SeenInv /\ OrderInv /\ [Next]_vars => OrderInv'
<1> SUFFICES ASSUME IInv, SeenInv, OrderInv, [Next]_vars, NEW p \in Procs, NEW i \in Jobs,
                    op'[p] = "create", lock'[i] = p, db'[i].status # "absent"
             PROVE  /\ pc'[p] = "update"
                    /\ \A k \in Jobs : todo'[p][k] # 0 => i < k
  BY DEF OrderInv
<1>i. NoProc \notin Procs
  BY ProcsAssumption
<1>1. op[p] = "create" /\ (pc[p] = "update" => pc'[p] = "update")
  BY HoldEffect
<1>2. RowStep(i)
  BY FreshAbsent, RowEffect
<1>3. CASE RowKept(i)
  <2>1. /\ pc[p] = "update" /\ pc'[p] = "update"
        /\ \A k \in Jobs : todo[p][k] # 0 => i < k
    BY <1>1, <1>3 DEF RowKept, OrderInv
  <2>2. Refreshes(p)
    BY <2>1, RefreshEffect DEF SelectPositions
  <2> QED
    BY <2>1, <2>2 DEF Refreshes
<1>4. CASE RowWritten(p, i)
  <2>1. pc'[p] = "update" /\ NextUpdate(p, i) /\ todo'[p][i] = 0
    BY <1>1, <1>4 DEF RowWritten
  <2>2. Refreshes(p)
    BY <2>1, RefreshEffect DEF SelectPositions, NextUpdate
  <2>3. ASSUME NEW k \in Jobs, todo'[p][k] # 0 PROVE i < k
    <3>1. todo[p][k] # 0 /\ k # i
      BY <2>1, <2>2, <2>3 DEF Refreshes
    <3>2. k \notin 1..(i-1)
      BY <2>1, <3>1 DEF NextUpdate
    <3> QED
      BY <3>1, <3>2, BoundsAssumption DEF Jobs
  <2> QED
    BY <2>1, <2>3
<1> QED
  BY <1>i, <1>2, <1>3, <1>4 DEF RowStep, RowSaved, RowWritten, RowEnded

LEMMA OrderInit == Init => OrderInv
  BY ProcsAssumption DEF Init, OrderInv

\* A set of jobs has its last.
LEMMA LastJob ==
    ASSUME NEW J \in SUBSET Jobs, J # {}
    PROVE  \E m \in J : \A k \in J : k <= m
<1> DEFINE T == {MaxJobs - k : k \in J}
<1> DEFINE R == OpToRel(<, Nat)
<1>1. T \subseteq Nat /\ T # {}
  <2>1. \A k \in J : MaxJobs - k \in Nat
    BY BoundsAssumption DEF Jobs
  <2>2. PICK k \in J : TRUE
    OBVIOUS
  <2>3. MaxJobs - k \in T
    BY <2>2
  <2> QED
    BY <2>1, <2>3
<1>2. IsWellFoundedOn(R, Nat)
  BY NatLessThanWellFounded
<1> HIDE DEF R
<1>3. PICK t \in T : \A u \in T : ~(<<u, t>> \in R)
  BY <1>1, <1>2, WFMin
<1>4. \A u \in T : ~(u < t)
  BY <1>1, <1>3 DEF R, OpToRel
<1>5. PICK m \in J : t = MaxJobs - m
  OBVIOUS
<1>6. \A k \in J : ~(MaxJobs - k < MaxJobs - m)
  BY <1>4, <1>5
<1> QED
  BY <1>6, BoundsAssumption DEF Jobs

\* However many requests submit at once, they never wait for each other in a circle:
\* refresh_queue_positions updates the rows in one order, and the row a request has
\* inserted is no one else's business.  Every deadlock that PostgreSQL has to break
\* takes a start or a recovery, which hold rows from before their refresh.
THEOREM SubmissionsNeverDeadlock == Spec => []StartsOrRecoversInDeadlock
<1>1. IInv /\ SeenInv /\ OrderInv => StartsOrRecoversInDeadlock
  <2> SUFFICES ASSUME IInv, SeenInv, OrderInv, NEW S \in SUBSET Procs, S # {}, Deadlock(S),
                      \A p \in S : op[p] \notin {"start", "recover"}
               PROVE  FALSE
    BY DEF StartsOrRecoversInDeadlock
  <2>i. PcInv /\ LockInv /\ TypeOK
    BY DEF IInv, JobInv
  <2>1. ASSUME NEW p \in S
        PROVE  /\ op[p] = "create"
               /\ \E k \in Jobs : NextUpdate(p, k) /\ lock[k] \in S /\ lock[k] # p
    <3>1. PICK q \in S : WaitsFor(q, p)
      BY DEF Deadlock
    <3>2. PICK j \in Jobs : lock[j] = p
      BY <3>1 DEF WaitsFor
    <3>3. op[p] # "finish" /\ op[p] \in Operations
      BY <2>i, <3>2 DEF LockInv, RowInv, TypeOK
    <3>4. op[p] = "create"
      BY <3>3 DEF Operations
    <3>5. PICK r \in S : WaitsFor(p, r)
      BY DEF Deadlock
    <3>6. PICK k \in Jobs : Needs(p, k) /\ lock[k] = r /\ r # p
      BY <3>5 DEF WaitsFor
    <3>7. NextUpdate(p, k)
      BY <2>i, <3>4, <3>6 DEF Needs, NextStale, PcInv, Executing
    <3> QED
      BY <3>4, <3>5, <3>6, <3>7
  <2> DEFINE J == {k \in Jobs : \E p \in S : /\ NextUpdate(p, k)
                                             /\ lock[k] \in S /\ lock[k] # p}
  <2>2. J \in SUBSET Jobs /\ J # {}
    <3>1. PICK p \in S : TRUE
      OBVIOUS
    <3> QED
      BY <2>1, <3>1
  <2>3. PICK m \in J : \A k \in J : k <= m
    <3> HIDE DEF J
    <3> QED
      BY <2>2, LastJob
  <2>4. PICK p \in S : NextUpdate(p, m) /\ lock[m] \in S /\ lock[m] # p
    BY <2>3
  <2>5. db[m].status # "absent"
    BY <2>3, <2>4 DEF NextUpdate, SeenInv, View
  <2>6. PICK k \in Jobs : /\ NextUpdate(lock[m], k)
                          /\ lock[k] \in S /\ lock[k] # lock[m]
    BY <2>1, <2>4
  <2>7. m < k
    BY <2>1, <2>3, <2>4, <2>5, <2>6 DEF OrderInv, NextUpdate
  <2>8. k <= m
    BY <2>3, <2>4, <2>6
  <2> QED
    BY <2>3, <2>7, <2>8, BoundsAssumption DEF Jobs
<1>2. IInv /\ PositionInv /\ OrderInv /\ [Next]_vars => OrderInv'
  BY OrderStep DEF PositionInv
<1>3. Spec => []OrderInv
  BY <1>2, OrderInit, Invariance, PositionInvariance, PTL DEF Spec
<1>4. PositionInv => SeenInv
  BY DEF PositionInv
<1> QED
  BY <1>1, <1>3, <1>4, Invariance, PositionInvariance, PTL

\* A process that is no executor, a web request, does nothing but submit.
OthersSubmit == \A p \in Procs \ Executors : op[p] = "create"

LEMMA OthersSubmitStep == TypeOK /\ OthersSubmit /\ [Next]_vars => OthersSubmit'
<1> SUFFICES ASSUME TypeOK, OthersSubmit, [Next]_vars, NEW q \in Procs \ Executors
             PROVE  op'[q] = "create"
  BY DEF OthersSubmit
<1>t. /\ op[q] = "create" /\ q \notin Workers /\ q \notin Smokes
      /\ op \in [Procs -> Operations]
  BY DEF OthersSubmit, TypeOK, Executors
<1>1. ASSUME NEW p \in Procs,
             \/ CountActiveJobs(p) \/ RejectSubmission(p) \/ InsertJob(p)
             \/ ExecuteJob(p) \/ ArtifactFailure(p) \/ StartWorker(p)
             \/ SelectPositions(p) \/ StartQueuedJob(p)
             \/ ClearArtifacts(p) \/ CreateArtifact(p) \/ SaveResult(p)
             \/ SaveUnsaved(p) \/ SaveStaleJobs(p)
             \/ \E j \in Jobs : \/ ClaimNextQueuedJob(p, j) \/ LockStaleJob(p, j)
                                \/ UpdatePosition(p, j)
      PROVE  op' = op
  BY <1>1 DEF CountActiveJobs, RejectSubmission, InsertJob, ExecuteJob,
     ArtifactFailure, StartWorker, SelectPositions, StartQueuedJob, ClearArtifacts,
     CreateArtifact, SaveResult, SaveUnsaved, SaveStaleJobs, ClaimNextQueuedJob,
     LockStaleJob, UpdatePosition
<1>2. ASSUME NEW p \in Procs, Commit(p) PROVE op'[q] = "create"
  <2>1. CASE p = q
    <3>1. op'[q] = NextOperation(q)[2]
      BY <1>2, <1>t, <2>1 DEF Commit
    <3>2. NextOperation(q) = <<"idle", "create">>
      BY <1>t DEF NextOperation
    <3> QED
      BY <3>1, <3>2
  <2>2. CASE p # q
    BY <1>2, <1>t, <2>2 DEF Commit
  <2> QED
    BY <2>1, <2>2
<1>3. ASSUME NEW p \in Procs, Rollback(p) PROVE op'[q] = "create"
  BY <1>3, <1>t DEF Rollback
<1>4. ASSUME NEW p \in Procs, PollNothing(p) \/ RefuseToStart(p) PROVE op'[q] = "create"
  BY <1>4, <1>t, ProcsAssumption DEF PollNothing, RefuseToStart
<1>5. ASSUME NEW j \in Jobs, DeleteJob(j) PROVE op' = op
  BY <1>5 DEF DeleteJob
<1>6. ASSUME UNCHANGED vars PROVE op' = op
  BY <1>6 DEF vars
<1> QED
  BY <1>t, <1>1, <1>2, <1>3, <1>4, <1>5, <1>6
     DEF Next, Step, Crash, AbortDeadlocked, SaveFails

\* Every deadlock that PostgreSQL has to break is one of an executor.
THEOREM DeadlocksTakeExecutors ==
    Spec => [](\A S \in SUBSET Procs : S # {} /\ Deadlock(S) => S \cap Executors # {})
<1>1. Init => OthersSubmit
  BY DEF Init, OthersSubmit, Executors
<1>2. Spec => []OthersSubmit
  BY <1>1, OthersSubmitStep, TypeCorrect, PTL DEF Spec
<1>3. OthersSubmit /\ StartsOrRecoversInDeadlock =>
          \A S \in SUBSET Procs : S # {} /\ Deadlock(S) => S \cap Executors # {}
  <2> SUFFICES ASSUME OthersSubmit, StartsOrRecoversInDeadlock, NEW S \in SUBSET Procs,
                      S # {}, Deadlock(S)
               PROVE  S \cap Executors # {}
    OBVIOUS
  <2>1. PICK p \in S : op[p] \in {"start", "recover"}
    BY DEF StartsOrRecoversInDeadlock
  <2>2. p \in Executors
    BY <2>1 DEF OthersSubmit
  <2> QED
    BY <2>1, <2>2
<1> QED
  BY <1>2, <1>3, SubmissionsNeverDeadlock, PTL
=============================================================================
