--------------------------- MODULE JobQueueProofs ---------------------------
(***************************************************************************)
(* Proofs about JobQueue, for every number of jobs, queue limit, and       *)
(* finite sets of requests, workers and smoke commands.                    *)
(***************************************************************************)
EXTENDS JobQueue, FiniteSetTheorems, TLAPS

\* A rank is a count of jobs: refresh_queue_positions writes naturals.
LEMMA RankType ==
    ASSUME NEW p, NEW j \in Jobs
    PROVE  Rank(p, j) \in Nat
<1>1. IsFiniteSet(1..j)
  BY FS_Interval DEF Jobs
<1>2. {i \in 1..j : View(p, i).status \in ActiveStatuses} \in SUBSET (1..j)
  OBVIOUS
<1> QED
  BY <1>1, <1>2, FS_Subset, FS_CardinalityType DEF Rank

\* The count create_job starts with is a natural number.
LEMMA CountType ==
    /\ IsFiniteSet(ActiveJobs)
    /\ ActiveJobCount \in Nat
<1>1. IsFiniteSet(Jobs)
  BY FS_Interval, BoundsAssumption DEF Jobs
<1> QED
  BY <1>1, FS_Subset, FS_CardinalityType DEF ActiveJobs, ActiveJobCount

\* Writing a row keeps the tables well typed.
LEMMA WriteType ==
    ASSUME TypeOK, NEW p \in Procs, NEW j, NEW row,
           j \in Jobs => row \in Row, Write(p, j, row)
    PROVE  /\ db' \in [Jobs -> Row]
           /\ new' \in [Jobs -> Row]
           /\ lock' \in [Jobs -> Procs \cup {NoProc}]
<1>1. /\ db \in [Jobs -> Row] /\ new \in [Jobs -> Row]
      /\ lock \in [Jobs -> Procs \cup {NoProc}]
  BY DEF TypeOK
<1>2. new' \in [Jobs -> Row]
  BY <1>1 DEF Write
<1>3. CASE InTransaction(p)
  BY <1>1, <1>2, <1>3 DEF Write
<1>4. CASE ~InTransaction(p)
  <2>1. db' = [db EXCEPT ![j] = row] /\ lock' = lock
    BY <1>4 DEF Write
  <2> QED
    BY <1>1, <1>2, <2>1
<1> QED
  BY <1>3, <1>4

\* What a process sees of a row is a row.
LEMMA ViewType ==
    ASSUME TypeOK, NEW p, NEW j \in Jobs
    PROVE  View(p, j) \in Row
  BY DEF TypeOK, View

\* Starting a job makes a row of a row, and so does a failed save.
LEMMA RowChangeType ==
    ASSUME TypeOK, NEW j \in Jobs
    PROVE  /\ Started(db[j]) \in Row
           /\ [db[j] EXCEPT !.status = "failed", !.failure_message = "unsaved"] \in Row
<1>1. db[j] \in Row
  BY DEF TypeOK
<1>2. /\ {"running", "failed"} \subseteq Statuses
      /\ 1 \in Nat
  BY DEF Statuses
<1> QED
  BY <1>1, <1>2 DEF Started, Row

\* Before any request, worker or smoke command has run, everything has its type.
LEMMA TypeInit == Init => TypeOK
<1> SUFFICES ASSUME Init PROVE TypeOK
  OBVIOUS
<1>1. NoRow \in Row
  BY DEF NoRow, Row, Statuses
<1>2. db \in [Jobs -> Row] /\ new \in [Jobs -> Row]
  BY <1>1 DEF Init
<1>3. nextJob \in 1..(MaxJobs + 1) /\ crashes \in 0..MaxCrashes
  BY BoundsAssumption DEF Init
<1>4. pc \in [Procs -> Statements] /\ op \in [Procs -> Operations]
  BY DEF Init, Statements, Operations
<1> QED
  BY <1>2, <1>3, <1>4 DEF Init, TypeOK, Results

\* A process that goes away with its transaction leaves everything well typed.
LEMMA RollbackType ==
    ASSUME TypeOK, NEW p \in Procs, Rollback(p), crashes' \in 0..MaxCrashes
    PROVE  TypeOK'
  BY BoundsAssumption DEF TypeOK, Rollback, Statements, Operations, Results

\* Every step keeps the types, one action after the other.
LEMMA TypeStep == TypeOK /\ [Next]_vars => TypeOK'
<1> SUFFICES ASSUME TypeOK, [Next]_vars PROVE TypeOK'
  OBVIOUS
<1> USE BoundsAssumption
<1>1. ASSUME NEW p \in Procs, CountActiveJobs(p) PROVE TypeOK'
  BY <1>1, CountType DEF TypeOK, CountActiveJobs, Goto, tables, Statements
<1>2. ASSUME NEW p \in Procs, RejectSubmission(p) PROVE TypeOK'
  BY <1>2 DEF TypeOK, RejectSubmission, Goto, tables, Statements
<1>3. ASSUME NEW p \in Procs, InsertJob(p) PROVE TypeOK'
  <2>0. depth[p] \in Nat
    BY DEF TypeOK
  <2>1. nextJob \in Jobs /\ nextJob + 1 \in 1..(MaxJobs + 1)
    <3>1. nextJob \in 1..MaxJobs
      BY <1>3 DEF InsertJob, Jobs
    <3> QED
      BY <3>1 DEF Jobs
  <2>2. [status |-> "queued", queue_position |-> depth[p] + 1,
         failure_message |-> ""] \in Row
    BY <2>0 DEF Row, Statuses
  <2>3. /\ db' \in [Jobs -> Row] /\ new' \in [Jobs -> Row]
        /\ lock' \in [Jobs -> Procs \cup {NoProc}]
    BY <1>3, <2>2, WriteType DEF InsertJob
  <2> QED
    BY <1>3, <2>1, <2>3 DEF TypeOK, InsertJob, Goto, Statements
<1>4. ASSUME NEW p \in Procs, SelectPositions(p) PROVE TypeOK'
  <2>1. \A j \in Jobs : Rank(p, j) \in Nat
    BY RankType
  <2>2. todo' \in [Procs -> [Jobs -> Nat]]
    BY <1>4, <2>1 DEF TypeOK, SelectPositions
  <2> QED
    BY <1>4, <2>2 DEF TypeOK, SelectPositions, Goto, tables, Statements
<1>5. ASSUME NEW p \in Procs, NEW j \in Jobs, UpdatePosition(p, j) PROVE TypeOK'
  <2>1. todo[p][j] \in Nat
    BY DEF TypeOK
  <2>2. [View(p, j) EXCEPT !.queue_position = todo[p][j]] \in Row
    BY <2>1, ViewType DEF Row
  <2>3. /\ db' \in [Jobs -> Row] /\ new' \in [Jobs -> Row]
        /\ lock' \in [Jobs -> Procs \cup {NoProc}]
    <3>1. CASE Gone(j)
      BY <1>5, <3>1 DEF UpdatePosition, tables, TypeOK
    <3>2. CASE ~Gone(j)
      BY <1>5, <3>2, <2>2, WriteType DEF UpdatePosition
    <3> QED
      BY <3>1, <3>2
  <2> QED
    BY <1>5, <2>3 DEF TypeOK, UpdatePosition
<1>6. ASSUME NEW p \in Procs, Commit(p) PROVE TypeOK'
  <2>1. /\ NextOperation(p)[1] \in Statements
        /\ NextOperation(p)[2] \in Operations
    BY DEF NextOperation, Statements, Operations
  <2>2. db' \in [Jobs -> Row]
    BY <1>6, ViewType DEF Commit
  <2> QED
    BY <1>6, <2>1, <2>2 DEF TypeOK, Commit, Results
<1>7. ASSUME NEW p \in Procs, NEW j \in Jobs, ClaimNextQueuedJob(p, j) PROVE TypeOK'
  <2>1. Started(db[j]) \in Row
    BY RowChangeType
  <2>2. /\ db' \in [Jobs -> Row] /\ new' \in [Jobs -> Row]
        /\ lock' \in [Jobs -> Procs \cup {NoProc}]
    BY <1>7, <2>1, WriteType DEF ClaimNextQueuedJob
  <2> QED
    BY <1>7, <2>2 DEF TypeOK, ClaimNextQueuedJob, Goto, Statements
<1>8. ASSUME NEW p \in Procs, StartQueuedJob(p) PROVE TypeOK'
  <2>1. job[p] \in Jobs => Started(db[job[p]]) \in Row
    BY RowChangeType
  <2>2. /\ db' \in [Jobs -> Row] /\ new' \in [Jobs -> Row]
        /\ lock' \in [Jobs -> Procs \cup {NoProc}]
    BY <1>8, <2>1, WriteType DEF StartQueuedJob
  <2> QED
    BY <1>8, <2>2 DEF TypeOK, StartQueuedJob, Goto, Statements
<1>9. ASSUME NEW p \in Procs, RefuseToStart(p) PROVE TypeOK'
  BY <1>9 DEF TypeOK, RefuseToStart, Goto, tables, Statements, Operations
<1>10. ASSUME NEW p \in Procs, ExecuteJob(p) PROVE TypeOK'
  BY <1>10 DEF TypeOK, ExecuteJob, Goto, tables, Statements, Results
<1>11. ASSUME NEW p \in Procs, SaveResult(p) PROVE TypeOK'
  <2>1. Finished(result[p]) \in Row
    BY DEF Finished, Row, Statuses
  <2>2. /\ db' \in [Jobs -> Row] /\ new' \in [Jobs -> Row]
        /\ lock' \in [Jobs -> Procs \cup {NoProc}]
    BY <1>11, <2>1, WriteType DEF SaveResult
  <2> QED
    BY <1>11, <2>2 DEF TypeOK, SaveResult, Goto, Statements
<1>12. ASSUME NEW p \in Procs, ClearArtifacts(p) PROVE TypeOK'
  BY <1>12 DEF TypeOK, ClearArtifacts, Goto, tables, Statements
<1>13. ASSUME NEW p \in Procs, CreateArtifact(p) PROVE TypeOK'
  <2>1. art' \in [Jobs -> SUBSET {"report", "plot"}]
    BY <1>13 DEF TypeOK, CreateArtifact
  <2>2. pc' \in [Procs -> Statements]
    BY <1>13 DEF TypeOK, CreateArtifact, Goto, Statements
  <2> QED
    BY <1>13, <2>1, <2>2 DEF TypeOK, CreateArtifact, tables
<1>14. ASSUME NEW p \in Procs, ArtifactFailure(p) PROVE TypeOK'
  BY <1>14 DEF TypeOK, ArtifactFailure, Goto, tables, Statements
<1>15. ASSUME NEW p \in Procs, SaveUnsaved(p) PROVE TypeOK'
  <2>1. job[p] \in Jobs =>
          [db[job[p]] EXCEPT !.status = "failed", !.failure_message = "unsaved"] \in Row
    BY RowChangeType
  <2>2. /\ db' \in [Jobs -> Row] /\ new' \in [Jobs -> Row]
        /\ lock' \in [Jobs -> Procs \cup {NoProc}]
    BY <1>15, <2>1, WriteType DEF SaveUnsaved
  <2> QED
    BY <1>15, <2>2 DEF TypeOK, SaveUnsaved, Goto, Statements
<1>16. ASSUME NEW p \in Procs, StartWorker(p) PROVE TypeOK'
  BY <1>16 DEF TypeOK, StartWorker, StaleJobs, Goto, tables, Statements
<1>17. ASSUME NEW p \in Procs, NEW j \in Jobs, LockStaleJob(p, j) PROVE TypeOK'
  BY <1>17 DEF TypeOK, LockStaleJob
<1>18. ASSUME NEW p \in Procs, SaveStaleJobs(p) PROVE TypeOK'
  <2>1. \A row : Stale(row) \in Row
    BY DEF Stale, Row, Statuses
  <2>2. new' \in [Jobs -> Row]
    BY <1>18, <2>1 DEF TypeOK, SaveStaleJobs
  <2> QED
    BY <1>18, <2>2 DEF TypeOK, SaveStaleJobs, Goto, Statements
<1>19. ASSUME NEW p \in Procs, Crash(p) PROVE TypeOK'
  <2>1. crashes' \in 0..MaxCrashes
    BY <1>19 DEF TypeOK, Crash
  <2> QED
    BY <1>19, <2>1, RollbackType DEF Crash
<1>20. ASSUME NEW p \in Procs, AbortDeadlocked(p) PROVE TypeOK'
  BY <1>20, RollbackType DEF AbortDeadlocked, TypeOK
<1>21. ASSUME NEW p \in Procs, PollNothing(p) PROVE TypeOK'
  BY <1>21 DEF TypeOK, PollNothing, Goto, tables, Statements, Operations
<1>22. ASSUME NEW p \in Procs, SaveFails(p) PROVE TypeOK'
  BY <1>22, RollbackType DEF SaveFails, TypeOK
<1>23. ASSUME NEW j \in Jobs, DeleteJob(j) PROVE TypeOK'
  <2>1. GoneRow \in Row
    BY DEF GoneRow, NoRow, Row, Statuses
  <2> QED
    BY <1>23, <2>1 DEF TypeOK, DeleteJob
<1>24. CASE UNCHANGED vars
  BY <1>24 DEF TypeOK, vars, tables
<1> QED
  BY <1>1, <1>2, <1>3, <1>4, <1>5, <1>6, <1>7, <1>8, <1>9, <1>10, <1>11, <1>12,
     <1>13, <1>14, <1>15, <1>16, <1>17, <1>18, <1>19, <1>20, <1>21, <1>22, <1>23,
     <1>24 DEF Next, Step

\* Every variable keeps its type in every behaviour.
THEOREM TypeCorrect == Spec => []TypeOK
  BY TypeInit, TypeStep, PTL DEF Spec

-----------------------------------------------------------------------------
(* The inductive invariant behind the safety properties                    *)

InRefresh(p) == pc[p] \in {"refresh", "update"}

\* Which operation a statement belongs to, and when it has a job.
PcInv == \A p \in Procs :
    /\ pc[p] \in {"idle", "insert"} => op[p] = "create"
    /\ pc[p] \in {"poll", "start"} => op[p] = "start"
    /\ Executing(p) => op[p] = "finish"
    /\ pc[p] \in {"down", "lock"} => op[p] = "recover"
    /\ op[p] = "create" \/ pc[p] = "start" => p \in Creators
    /\ \/ pc[p] = "start" \/ Executing(p)
       \/ op[p] \in {"create", "start"} /\ InRefresh(p)
       => job[p] \in Jobs

\* What the holder of row j may have done to its status.
StatusChange(p, j) ==
    \/ new[j].status = db[j].status
    \/ /\ op[p] = "create" /\ job[p] = j
       /\ db[j].status = "absent" /\ new[j].status = "queued"
    \/ /\ op[p] = "start" /\ job[p] = j
       /\ db[j].status = "queued" /\ new[j].status = "running"
    \/ /\ op[p] = "recover"
       /\ db[j].status = "running" /\ new[j].status = "failed"

\* A row is locked only by a transaction that is past its first write.
RowInv(j) ==
    /\ lock[j] = NoProc => new[j] = db[j]
    /\ \A p \in Procs : lock[j] = p =>
         /\ op[p] # "finish" /\ (pc[p] = "lock" \/ InRefresh(p))
         /\ pc[p] = "lock" => db[j].status = "running"
         /\ StatusChange(p, j)

LockInv == \A j \in Jobs : RowInv(j)

\* Nothing refers to a row before it is inserted.
Fresh(j) == j >= nextJob

FreshInv == \A j \in Jobs : Fresh(j) =>
    /\ lock[j] = NoProc /\ db[j].status = "absent"
    /\ \A p \in Procs : todo[p][j] = 0 /\ j \notin found[p]

\* Whoever starts a job holds its row, still queued, until it commits.
Starting(p) == op[p] = "start" /\ InRefresh(p)

StartsRow(p) == /\ lock[job[p]] = p
                /\ db[job[p]].status = "queued" /\ new[job[p]].status = "running"

StartInv == \A p \in Procs : Starting(p) => StartsRow(p)

\* A job in execution has been started for good.
ExecInv ==
    /\ \A p \in Procs : Executing(p) => db[job[p]].status \notin {"absent", "queued"}
    /\ SingleExecutor

\* Submissions that have passed the check of the limit and not committed.
Pending == {p \in Creators : op[p] = "create" /\ pc[p] \in {"insert", "refresh", "update"}}

QueueInv == ActiveJobCount + Cardinality(Pending)
                <= JobQueueLimit + Cardinality(Creators) - 1

\* How one step may change a committed status: a submission commits, a start
\* commits, a started job ends, or a job goes with its owner.
StatusStep == \A j \in Jobs :
    \/ db'[j].status = db[j].status
    \/ /\ db[j].status = "absent" /\ db'[j].status = "queued"
       /\ \E p \in Procs : Commit(p) /\ op[p] = "create" /\ job[p] = j
    \/ db[j].status = "queued" /\ db'[j].status = "running"
    \/ /\ db[j].status \notin {"absent", "queued", "deleted"}
       /\ db'[j].status \in TerminalStatuses
    \/ db[j].status # "absent" /\ db'[j].status = "deleted"

JobInv == PcInv /\ LockInv /\ FreshInv /\ StartInv /\ ExecInv

IInv == TypeOK /\ JobInv


-----------------------------------------------------------------------------
(* What one step changes, row by row and process by process                *)

\* Nobody but p moves.
OthersWait(p) == \A q \in Procs \ {p} :
    /\ pc'[q] = pc[q] /\ op'[q] = op[q] /\ job'[q] = job[q]
    /\ todo'[q] = todo[q] /\ found'[q] = found[q]

\* No row but j is written.
OtherRowsKept(j) == \A i \in Jobs \ {j} :
    db'[i] = db[i] /\ new'[i] = new[i] /\ lock'[i] = lock[i]

\* A write inside a transaction locks the row and leaves the committed version;
\* outside one it is committed at once.
LEMMA WriteEffect ==
    ASSUME TypeOK, NEW p \in Procs, NEW j \in Jobs, NEW row, Write(p, j, row)
    PROVE  /\ lock[j] \in {NoProc, p}
           /\ OtherRowsKept(j)
           /\ new'[j] = row
           /\ op[p] # "finish" => db' = db /\ lock'[j] = p
           /\ op[p] = "finish" => db'[j] = row /\ lock' = lock
<1>1. /\ db \in [Jobs -> Row] /\ new \in [Jobs -> Row]
      /\ lock \in [Jobs -> Procs \cup {NoProc}]
  BY DEF TypeOK
<1>2. new' = [new EXCEPT ![j] = row] /\ lock[j] \in {NoProc, p}
  BY DEF Write
<1>3. CASE op[p] # "finish"
  <2>1. lock' = [lock EXCEPT ![j] = p] /\ db' = db
    BY <1>3 DEF Write, InTransaction
  <2> QED
    BY <1>1, <1>2, <1>3, <2>1 DEF OtherRowsKept
<1>4. CASE op[p] = "finish"
  <2>1. db' = [db EXCEPT ![j] = row] /\ lock' = lock
    BY <1>4 DEF Write, InTransaction
  <2> QED
    BY <1>1, <1>2, <1>4, <2>1 DEF OtherRowsKept
<1> QED
  BY <1>3, <1>4

\* The statuses the written rows carry.
LEMMA WrittenStatus ==
    ASSUME TypeOK, NEW j \in Jobs, NEW p, NEW n
    PROVE  /\ Started(db[j]).status = "running"
           /\ [db[j] EXCEPT !.status = "failed", !.failure_message = "unsaved"].status
                = "failed"
           /\ [View(p, j) EXCEPT !.queue_position = n].status = View(p, j).status
           /\ \A r : Finished(r).status \in {"completed", "failed"}
           /\ \A row : Stale(row).status = "failed"
<1>1. db[j] \in Row /\ View(p, j) \in Row
  BY ViewType DEF TypeOK
<1> QED
  BY <1>1 DEF Row, Started, Finished, Stale

-----------------------------------------------------------------------------
(* The invariant is inductive                                              *)

\* The initial state satisfies it.
LEMMA InvInit == Init => IInv
<1> SUFFICES ASSUME Init PROVE IInv
  OBVIOUS
<1>1. TypeOK
  BY TypeInit
<1>2. \A p \in Procs : pc[p] \in {"down", "idle"} /\ op[p] \in {"recover", "create"}
  BY DEF Init
<1>3. PcInv
  BY ProcsAssumption DEF Init, PcInv, Executing, InRefresh, Procs, Creators, Executors
<1>4. LockInv
  BY ProcsAssumption DEF Init, LockInv, RowInv
<1>5. FreshInv
  BY DEF Init, FreshInv, NoRow
<1>6. StartInv
  BY <1>2 DEF StartInv, Starting, InRefresh
<1>7. ExecInv
  BY <1>2 DEF ExecInv, SingleExecutor, Executing
<1> QED
  BY <1>1, <1>3, <1>4, <1>5, <1>6, <1>7 DEF IInv, JobInv

\* A step of p keeps what it says of a row that it neither writes nor holds.
LEMMA RowFrame ==
    ASSUME NEW p \in Procs, OthersWait(p), NEW i \in Jobs, RowInv(i), lock[i] # p,
           db'[i] = db[i], new'[i] = new[i], lock'[i] = lock[i]
    PROVE  RowInv(i)'
  BY DEF RowInv, OthersWait, StatusChange, InRefresh

\* A process in an autocommitted or a first statement holds no row.
LEMMA HoldsNothing ==
    ASSUME LockInv, NEW p \in Procs, op[p] = "finish" \/ ~(pc[p] = "lock" \/ InRefresh(p))
    PROVE  \A i \in Jobs : lock[i] # p
  BY DEF LockInv, RowInv

\* A step of p on a row that is free, or p's, disturbs nobody else's start.
LEMMA StartFrame ==
    ASSUME PcInv, StartInv, NEW p \in Procs, OthersWait(p), NEW j \in Jobs,
           OtherRowsKept(j), lock[j] \in {NoProc, p}
    PROVE  \A q \in Procs \ {p} : Starting(q)' =>
              StartsRow(q)'
<1> SUFFICES ASSUME NEW q \in Procs \ {p}, Starting(q)'
             PROVE  StartsRow(q)'
  OBVIOUS
<1>1. Starting(q) /\ job'[q] = job[q]
  BY DEF Starting, OthersWait, InRefresh
<1>2. job[q] \in Jobs /\ StartsRow(q)
  BY <1>1 DEF PcInv, StartInv, Starting
<1>3. job[q] # j
  BY <1>2, ProcsAssumption DEF StartsRow
<1> QED
  BY <1>1, <1>2, <1>3 DEF OtherRowsKept, StartsRow

\* A step that writes no row and starts no job keeps StartInv.
LEMMA StartQuiet ==
    ASSUME StartInv, NEW p \in Procs, OthersWait(p), UNCHANGED <<db, new, lock>>,
           Starting(p)' => Starting(p) /\ job'[p] = job[p]
    PROVE  StartInv'
<1> SUFFICES ASSUME NEW q \in Procs, Starting(q)' PROVE StartsRow(q)'
  BY DEF StartInv
<1>1. Starting(q) /\ job'[q] = job[q]
  BY DEF Starting, OthersWait, InRefresh
<1> QED
  BY <1>1 DEF StartInv, StartsRow

\* A step that begins no execution and takes no job back keeps ExecInv.
LEMMA ExecFrame ==
    ASSUME PcInv, ExecInv, NEW p \in Procs, OthersWait(p),
           Executing(p)' => Executing(p) /\ job'[p] = job[p],
           \A i \in Jobs : db'[i].status \in {"absent", "queued"}
                           => db[i].status \in {"absent", "queued"}
    PROVE  ExecInv'
<1>1. \A q \in Procs : Executing(q)' => /\ Executing(q) /\ job'[q] = job[q]
                                        /\ job[q] \in Jobs
  BY DEF OthersWait, Executing, PcInv
<1>2. SingleExecutor'
  BY <1>1 DEF ExecInv, SingleExecutor
<1> QED
  BY <1>1, <1>2 DEF ExecInv

\* A step of p that touches no row, while p holds none, and starts nothing.
LEMMA QuietStep ==
    ASSUME IInv, NEW p \in Procs, OthersWait(p),
           UNCHANGED <<db, new, lock, nextJob, todo, found>>,
           ~(pc[p] = "lock" \/ InRefresh(p)), ~Starting(p)',
           Executing(p)' => Executing(p) /\ job'[p] = job[p],
           PcInv'
    PROVE  JobInv' /\ StatusStep
<1>i. PcInv /\ LockInv /\ FreshInv /\ StartInv /\ ExecInv
  BY DEF IInv, JobInv
<1>1. LockInv'
  <2> SUFFICES ASSUME NEW i \in Jobs PROVE RowInv(i)'
    BY DEF LockInv
  <2>1. RowInv(i) /\ lock[i] # p
    BY <1>i, HoldsNothing DEF LockInv
  <2> QED
    BY <2>1, RowFrame
<1>2. FreshInv'
  BY <1>i DEF FreshInv, Fresh
<1>3. StartInv'
  BY <1>i, StartQuiet
<1>4. ExecInv'
  BY <1>i, ExecFrame
<1>5. StatusStep
  BY DEF StatusStep
<1> QED
  BY <1>1, <1>2, <1>3, <1>4, <1>5 DEF JobInv

\* Every action keeps the invariant and changes statuses the way StatusStep says.
LEMMA InvStep == IInv /\ [Next]_vars => IInv' /\ StatusStep
<1> SUFFICES ASSUME IInv, [Next]_vars
             PROVE  JobInv' /\ StatusStep
  BY TypeStep DEF IInv
<1>i. TypeOK /\ PcInv /\ LockInv /\ FreshInv /\ StartInv /\ ExecInv
  BY DEF IInv, JobInv
<1>t. /\ pc \in [Procs -> Statements] /\ op \in [Procs -> Operations]
      /\ job \in [Procs -> Jobs \cup {0}]
      /\ todo \in [Procs -> [Jobs -> Nat]] /\ found \in [Procs -> SUBSET Jobs]
  BY DEF TypeOK, IInv
<1>n. NoProc \notin Procs
  BY ProcsAssumption
<1>1. ASSUME NEW p \in Procs, CountActiveJobs(p) PROVE JobInv' /\ StatusStep
  <2>f. /\ pc[p] = "idle" /\ p \in Creators
        /\ pc'[p] = "insert"
        /\ op' = op /\ job' = job /\ todo' = todo /\ found' = found
        /\ OthersWait(p) /\ UNCHANGED <<db, new, lock, nextJob>>
    BY <1>1, <1>t DEF CountActiveJobs, Goto, tables, OthersWait
  <2>1. PcInv'
    BY <2>f, <1>i, <1>t DEF PcInv, OthersWait, Executing, InRefresh
  <2> QED
    BY <2>f, <2>1, <1>i, QuietStep DEF InRefresh, Starting, Executing, PcInv
<1>2. ASSUME NEW p \in Procs, RejectSubmission(p) PROVE JobInv' /\ StatusStep
  <2>f. /\ pc[p] = "insert"
        /\ pc'[p] = "idle"
        /\ op' = op /\ job' = job /\ todo' = todo /\ found' = found
        /\ OthersWait(p) /\ UNCHANGED <<db, new, lock, nextJob>>
    BY <1>2, <1>t DEF RejectSubmission, Goto, tables, OthersWait
  <2>1. PcInv'
    BY <2>f, <1>i, <1>t DEF PcInv, OthersWait, Executing, InRefresh
  <2> QED
    BY <2>f, <2>1, <1>i, QuietStep DEF InRefresh, Starting, Executing, PcInv
<1>3. ASSUME NEW p \in Procs, InsertJob(p) PROVE JobInv' /\ StatusStep
  <2>a. /\ nextJob \in Jobs /\ pc[p] = "insert" /\ op[p] = "create"
        /\ Write(p, nextJob, [status |-> "queued", queue_position |-> depth[p] + 1,
                              failure_message |-> ""])
    BY <1>3, <1>i DEF InsertJob, PcInv
  <2>b. /\ nextJob \in Jobs /\ pc[p] = "insert" /\ op[p] = "create"
        /\ pc'[p] = "refresh" /\ op' = op /\ job'[p] = nextJob
        /\ todo' = todo /\ found' = found /\ nextJob' = nextJob + 1
        /\ OthersWait(p)
    BY <2>a, <1>3, <1>t DEF InsertJob, Goto, OthersWait
  <2>c. nextJob \in Nat
    BY DEF TypeOK, IInv
  <2>d. lock[nextJob] = NoProc /\ db[nextJob].status = "absent"
    <3>1. Fresh(nextJob)
      BY <2>c DEF Fresh
    <3> QED
      BY <3>1, <2>a, <1>i DEF FreshInv
  <2>e. /\ OtherRowsKept(nextJob) /\ db' = db /\ lock'[nextJob] = p
        /\ new'[nextJob].status = "queued" /\ lock[nextJob] \in {NoProc, p}
    <3> DEFINE row == [status |-> "queued", queue_position |-> depth[p] + 1,
                       failure_message |-> ""]
    <3>1. row.status = "queued"
      OBVIOUS
    <3> HIDE DEF row
    <3>2. Write(p, nextJob, row)
      BY <2>a DEF row
    <3> QED
      BY <2>b, <2>d, <3>1, <3>2, <1>i, WriteEffect
  <2>1. PcInv'
    BY <2>b, <1>i, <1>t DEF PcInv, OthersWait, Executing, InRefresh
  <2>2. LockInv'
    <3> SUFFICES ASSUME NEW i \in Jobs PROVE RowInv(i)'
      BY DEF LockInv
    <3>1. CASE i = nextJob
      BY <3>1, <2>b, <2>d, <2>e, <1>n DEF RowInv, InRefresh, StatusChange
    <3>2. CASE i # nextJob
      <4>1. /\ RowInv(i) /\ lock[i] # p
            /\ db'[i] = db[i] /\ new'[i] = new[i] /\ lock'[i] = lock[i]
        BY <3>2, <2>b, <2>e, <1>i, HoldsNothing DEF LockInv, OtherRowsKept, InRefresh
      <4> QED
        BY <4>1, <2>b, RowFrame
    <3> QED
      BY <3>1, <3>2
  <2>3. FreshInv'
    <3>1. \A i \in Jobs : Fresh(i)' => Fresh(i) /\ i # nextJob
      BY <2>b, <2>c DEF Fresh, Jobs
    <3> QED
      BY <3>1, <2>b, <2>e, <1>i DEF FreshInv, OtherRowsKept
  <2>4. StartInv'
    <3>2. \A q \in Procs \ {p} : Starting(q)' =>
             StartsRow(q)'
      BY <2>b, <2>e, <1>i, StartFrame
    <3>3. ~Starting(p)'
      BY <2>b DEF Starting
    <3> QED
      BY <3>2, <3>3 DEF StartInv
  <2>5. ExecInv'
    BY <2>b, <2>e, <1>i, ExecFrame DEF Executing
  <2>6. StatusStep
    BY <2>e DEF StatusStep
  <2> QED
    BY <2>1, <2>2, <2>3, <2>4, <2>5, <2>6 DEF JobInv
<1>4. ASSUME NEW p \in Procs, SelectPositions(p) PROVE JobInv' /\ StatusStep
  <2>f. /\ pc[p] = "refresh" /\ pc'[p] = "update"
        /\ op' = op /\ job' = job /\ found' = found
        /\ OthersWait(p) /\ UNCHANGED <<db, new, lock, nextJob>>
    BY <1>4, <1>t DEF SelectPositions, Goto, tables, OthersWait
  <2>1. PcInv'
    BY <2>f, <1>i, <1>t DEF PcInv, OthersWait, Executing, InRefresh
  <2>2. LockInv'
    BY <2>f, <1>i, <1>t DEF LockInv, RowInv, OthersWait, StatusChange, InRefresh, PcInv
  <2>3. FreshInv'
    <3>1. ASSUME NEW j \in Jobs, Fresh(j) PROVE todo'[p][j] = 0
      <4>1. View(p, j).status \notin ActiveStatuses
        BY <3>1, <1>i, <1>n DEF FreshInv, View, ActiveStatuses
      <4> QED
        BY <4>1, <1>4, <1>t DEF SelectPositions
    <3> QED
      BY <3>1, <2>f, <1>i, <1>t DEF FreshInv, Fresh, OthersWait
  <2>4. StartInv'
    BY <2>f, <1>i, StartQuiet DEF Starting, InRefresh
  <2>5. ExecInv'
    BY <2>f, <1>i, ExecFrame DEF Executing
  <2>6. StatusStep
    BY <2>f DEF StatusStep
  <2> QED
    BY <2>1, <2>2, <2>3, <2>4, <2>5, <2>6 DEF JobInv
<1>5. ASSUME NEW p \in Procs, NEW j \in Jobs, UpdatePosition(p, j), ~Gone(j)
      PROVE  JobInv' /\ StatusStep
  <2>a. /\ pc[p] = "update" /\ todo[p][j] # 0
        /\ Write(p, j, [View(p, j) EXCEPT !.queue_position = todo[p][j]])
    BY <1>5 DEF UpdatePosition, NextUpdate
  <2>b. /\ pc[p] = "update" /\ todo[p][j] # 0
        /\ pc' = pc /\ op' = op /\ job' = job /\ found' = found /\ nextJob' = nextJob
        /\ OthersWait(p)
    BY <2>a, <1>5, <1>t DEF UpdatePosition, OthersWait
  <2>c. \A i \in Jobs : todo[p][i] = 0 => todo'[p][i] = 0
    <3>1. todo' = [todo EXCEPT ![p][j] = 0]
      BY <1>5 DEF UpdatePosition
    <3> QED
      BY <3>1, <1>t
  <2>d. ~Fresh(j)
    BY <2>b, <1>i DEF FreshInv
  <2>e. /\ lock[j] \in {NoProc, p} /\ OtherRowsKept(j)
        /\ new'[j].status = View(p, j).status
        /\ op[p] # "finish" => db' = db /\ lock'[j] = p
        /\ op[p] = "finish" => db'[j] = new'[j] /\ lock' = lock
    <3> DEFINE row == [View(p, j) EXCEPT !.queue_position = todo[p][j]]
    <3>1. row.status = View(p, j).status
      BY <1>i, WrittenStatus
    <3> HIDE DEF row
    <3>2. Write(p, j, row)
      BY <2>a DEF row
    <3> QED
      BY <3>1, <3>2, <1>i, WriteEffect
  <2>g. /\ lock[j] = p => op[p] # "finish" /\ View(p, j) = new[j] /\ StatusChange(p, j)
        /\ lock[j] = NoProc => View(p, j) = db[j]
    BY <1>i, <1>n DEF View, LockInv, RowInv
  <2>h. op[p] = "finish" => lock[j] = NoProc /\ db'[j].status = db[j].status
    BY <2>e, <2>g
  <2>1. PcInv'
    BY <2>b, <1>i, <1>t DEF PcInv, OthersWait, Executing, InRefresh
  <2>2. LockInv'
    <3> SUFFICES ASSUME NEW i \in Jobs PROVE RowInv(i)'
      BY DEF LockInv
    <3>1. CASE i = j
      <4>1. CASE op[p] = "finish"
        BY <4>1, <3>1, <2>b, <2>e, <2>h, <1>n DEF RowInv
      <4>2. CASE op[p] # "finish"
        BY <4>2, <3>1, <2>b, <2>e, <2>g, <1>n DEF RowInv, StatusChange, InRefresh
      <4> QED
        BY <4>1, <4>2
    <3>2. CASE i # j
      <4>1. CASE lock[i] # p
        BY <4>1, <3>2, <2>b, <2>e, <1>i, RowFrame DEF LockInv, OtherRowsKept
      <4>2. CASE lock[i] = p
        BY <4>2, <3>2, <2>b, <2>e, <1>i, <1>n
           DEF LockInv, RowInv, OtherRowsKept, StatusChange, InRefresh
      <4> QED
        BY <4>1, <4>2
    <3> QED
      BY <3>1, <3>2
  <2>3. FreshInv'
    BY <2>b, <2>c, <2>d, <2>e, <1>i DEF FreshInv, Fresh, OtherRowsKept, OthersWait
  <2>4. StartInv'
    <3>1. \A q \in Procs \ {p} : Starting(q)' =>
             StartsRow(q)'
      BY <2>b, <2>e, <1>i, StartFrame
    <3>2. ASSUME Starting(p)'
          PROVE  StartsRow(p)'
      <4>1. Starting(p) /\ op[p] = "start"
        BY <3>2, <2>b DEF Starting, InRefresh
      <4>2. /\ StartsRow(p) /\ job[p] \in Jobs
        BY <4>1, <1>i DEF StartInv, PcInv, Starting
      <4> QED
        BY <4>1, <4>2, <2>b, <2>e, <2>g DEF OtherRowsKept, StartsRow
    <3> QED
      BY <3>1, <3>2 DEF StartInv
  <2>5. ExecInv'
    <3>1. \A i \in Jobs : db'[i].status = db[i].status
      BY <2>e, <2>h DEF OtherRowsKept
    <3> QED
      BY <3>1, <2>b, <1>i DEF ExecInv, SingleExecutor, Executing, PcInv
  <2>6. StatusStep
    BY <2>e, <2>h DEF StatusStep, OtherRowsKept
  <2> QED
    BY <2>1, <2>2, <2>3, <2>4, <2>5, <2>6 DEF JobInv
<1>6. ASSUME NEW p \in Procs, Commit(p) PROVE JobInv' /\ StatusStep
  <2>a. /\ pc[p] = "update" /\ OthersWait(p)
        /\ todo' = todo /\ found' = found /\ nextJob' = nextJob /\ new' = new
        /\ pc'[p] = NextOperation(p)[1] /\ op'[p] = NextOperation(p)[2]
        /\ job'[p] = IF KeepsJob(p) THEN job[p] ELSE 0
    BY <1>6, <1>t DEF Commit, OthersWait
  <2>b. /\ \A i \in Jobs : lock[i] = p => db'[i] = new[i] /\ lock'[i] = NoProc
        /\ \A i \in Jobs : lock[i] # p => db'[i] = db[i] /\ lock'[i] = lock[i]
    BY <1>6 DEF Commit, View
  <2>c. \/ op[p] = "create" /\ p \in Smokes /\ pc'[p] = "start" /\ op'[p] = "start"
        \/ op[p] = "start" /\ pc'[p] = "exec" /\ op'[p] = "finish"
        \/ op[p] # "start" /\ pc'[p] = "poll" /\ op'[p] = "start"
        \/ op[p] # "start" /\ pc'[p] = "down" /\ op'[p] = "recover"
        \/ /\ op[p] # "start" /\ (op[p] = "create" \/ p \notin Workers)
           /\ pc'[p] = "idle" /\ op'[p] = "create"
    <3>1. op[p] \in {"create", "start", "finish", "recover"}
      BY <1>t DEF Operations
    <3> QED
      BY <3>1, <2>a, ProcsAssumption DEF NextOperation
  <2>d. op[p] = "start" => /\ job[p] \in Jobs /\ job'[p] = job[p]
                           /\ StartsRow(p)
    BY <2>a, <1>i DEF PcInv, StartInv, Starting, InRefresh, KeepsJob
  <2>e. \A i \in Jobs : lock[i] = p => StatusChange(p, i) /\ op[p] # "finish"
    BY <1>i DEF LockInv, RowInv
  <2>1. PcInv'
    BY <2>a, <2>c, <2>d, <1>i, <1>t, ProcsAssumption
       DEF PcInv, OthersWait, Executing, InRefresh, KeepsJob, Procs, Creators, Executors
  <2>2. LockInv'
    <3> SUFFICES ASSUME NEW i \in Jobs PROVE RowInv(i)'
      BY DEF LockInv
    <3>1. CASE lock[i] = p
      BY <3>1, <2>a, <2>b, <1>n DEF RowInv
    <3>2. CASE lock[i] # p
      BY <3>2, <2>a, <2>b, <1>i, RowFrame DEF LockInv
    <3> QED
      BY <3>1, <3>2
  <2>3. FreshInv'
    BY <2>a, <2>b, <1>i, <1>n DEF FreshInv, Fresh
  <2>4. StartInv'
    <3> SUFFICES ASSUME NEW q \in Procs, Starting(q)'
                 PROVE  StartsRow(q)'
      BY DEF StartInv
    <3>1. q # p
      BY <2>c DEF Starting, InRefresh
    <3>2. Starting(q) /\ job'[q] = job[q]
      BY <3>1, <2>a DEF Starting, OthersWait, InRefresh
    <3>3. job[q] \in Jobs /\ StartsRow(q)
      BY <3>2, <1>i DEF PcInv, StartInv, Starting
    <3> QED
      BY <3>1, <3>2, <3>3, <2>a, <2>b DEF StartsRow
  <2>5. ExecInv'
    <3>1. \A i \in Jobs : /\ db'[i].status = "queued" => db[i].status \in {"queued", "absent"}
                          /\ db'[i].status = "absent" => db[i].status = "absent"
      BY <2>b, <2>e DEF StatusChange
    <3>2. Executing(p)' => op[p] = "start"
      BY <2>c DEF Executing
    <3>3. op[p] = "start" => db'[job[p]].status \notin {"absent", "queued"}
      <4> SUFFICES ASSUME op[p] = "start"
                   PROVE  db'[job[p]].status \notin {"absent", "queued"}
        OBVIOUS
      <4> QED
        BY <2>b, <2>d DEF StartsRow
    <3>4. \A q \in Procs \ {p} : Executing(q)' =>
             /\ Executing(q) /\ job'[q] = job[q] /\ job[q] \in Jobs
             /\ db[job[q]].status \notin {"absent", "queued"}
      BY <2>a, <1>i DEF OthersWait, Executing, PcInv, ExecInv
    <3>5. \A q \in Procs : Executing(q)' => db'[job'[q]].status \notin {"absent", "queued"}
      BY <3>1, <3>2, <3>3, <3>4, <2>d
    <3>6. SingleExecutor'
      <4> SUFFICES ASSUME NEW q \in Procs, NEW r \in Procs, Executing(q)', Executing(r)',
                          job'[q] = job'[r]
                   PROVE  q = r
        BY DEF SingleExecutor
      <4>1. CASE q # p /\ r # p
        BY <4>1, <3>4, <1>i DEF ExecInv, SingleExecutor
      <4>2. CASE q = p \/ r = p
        BY <4>2, <3>2, <3>4, <2>d DEF StartsRow
      <4> QED
        BY <4>1, <4>2
    <3> QED
      BY <3>5, <3>6 DEF ExecInv
  <2>6. StatusStep
    BY <2>b, <2>e, <1>6 DEF StatusStep, StatusChange, TerminalStatuses
  <2> QED
    BY <2>1, <2>2, <2>3, <2>4, <2>5, <2>6 DEF JobInv
<1>7. ASSUME NEW p \in Procs, NEW j \in Jobs, ClaimNextQueuedJob(p, j) PROVE JobInv' /\ StatusStep
  <2>a. /\ pc[p] = "poll" /\ op[p] = "start" /\ db[j].status = "queued"
        /\ Write(p, j, Started(db[j]))
    BY <1>7, <1>i DEF ClaimNextQueuedJob, Claimable, PcInv
  <2>b. /\ pc[p] \in {"poll", "start"} /\ op[p] = "start" /\ j \in Jobs
        /\ pc'[p] = "refresh" /\ op' = op /\ job'[p] = j
        /\ todo' = todo /\ found' = found /\ nextJob' = nextJob
        /\ OthersWait(p)
    BY <2>a, <1>7, <1>t DEF ClaimNextQueuedJob, Goto, OthersWait
  <2>e. /\ lock[j] = NoProc /\ db[j].status = "queued" /\ ~Fresh(j)
        /\ OtherRowsKept(j) /\ db' = db /\ lock'[j] = p
        /\ new'[j].status = "running"
    <3>1. lock[j] # p
      BY <2>b, <1>i, HoldsNothing DEF InRefresh
    <3>2. ~Fresh(j)
      BY <2>a, <1>i DEF FreshInv
    <3> QED
      BY <3>1, <3>2, <2>a, <1>i, WriteEffect, WrittenStatus
  <2>1. PcInv'
    BY <2>b, <1>i, <1>t DEF PcInv, OthersWait, Executing, InRefresh
  <2>2. LockInv'
    <3> SUFFICES ASSUME NEW i \in Jobs PROVE RowInv(i)'
      BY DEF LockInv
    <3>1. CASE i = j
      BY <3>1, <2>b, <2>e, <1>n DEF RowInv, InRefresh, StatusChange
    <3>2. CASE i # j
      <4>1. /\ RowInv(i) /\ lock[i] # p
            /\ db'[i] = db[i] /\ new'[i] = new[i] /\ lock'[i] = lock[i]
        BY <3>2, <2>b, <2>e, <1>i, HoldsNothing DEF LockInv, OtherRowsKept, InRefresh
      <4> QED
        BY <4>1, <2>b, RowFrame
    <3> QED
      BY <3>1, <3>2
  <2>3. FreshInv'
    BY <2>b, <2>e, <1>i DEF FreshInv, Fresh, OtherRowsKept, OthersWait
  <2>4. StartInv'
    <3>1. \A q \in Procs \ {p} : Starting(q)' =>
             StartsRow(q)'
      BY <2>b, <2>e, <1>i, StartFrame
    <3>2. Starting(p)' => StartsRow(p)'
      BY <2>b, <2>e DEF Starting, InRefresh, StartsRow
    <3> QED
      BY <3>1, <3>2 DEF StartInv
  <2>5. ExecInv'
    BY <2>b, <2>e, <1>i, ExecFrame DEF Executing
  <2>6. StatusStep
    BY <2>e DEF StatusStep
  <2> QED
    BY <2>1, <2>2, <2>3, <2>4, <2>5, <2>6 DEF JobInv
<1>8. ASSUME NEW p \in Procs, StartQueuedJob(p) PROVE JobInv' /\ StatusStep
  <2>a. /\ pc[p] = "start" /\ op[p] = "start" /\ db[job[p]].status = "queued"
        /\ job[p] \in Jobs /\ Write(p, job[p], Started(db[job[p]]))
    BY <1>8, <1>i DEF StartQueuedJob, MayStart, PcInv
  <2>b. /\ pc[p] \in {"poll", "start"} /\ op[p] = "start" /\ job[p] \in Jobs
        /\ pc'[p] = "refresh" /\ op' = op /\ job'[p] = job[p]
        /\ todo' = todo /\ found' = found /\ nextJob' = nextJob
        /\ OthersWait(p)
    BY <2>a, <1>8, <1>t DEF StartQueuedJob, Goto, OthersWait
  <2>e. /\ lock[job[p]] = NoProc /\ db[job[p]].status = "queued" /\ ~Fresh(job[p])
        /\ OtherRowsKept(job[p]) /\ db' = db /\ lock'[job[p]] = p
        /\ new'[job[p]].status = "running"
    <3>1. lock[job[p]] # p
      BY <2>b, <1>i, HoldsNothing DEF InRefresh
    <3>2. ~Fresh(job[p])
      BY <2>a, <1>i DEF FreshInv
    <3> QED
      BY <3>1, <3>2, <2>a, <1>i, WriteEffect, WrittenStatus
  <2>1. PcInv'
    BY <2>b, <1>i, <1>t DEF PcInv, OthersWait, Executing, InRefresh
  <2>2. LockInv'
    <3> SUFFICES ASSUME NEW i \in Jobs PROVE RowInv(i)'
      BY DEF LockInv
    <3>1. CASE i = job[p]
      BY <3>1, <2>b, <2>e, <1>n DEF RowInv, InRefresh, StatusChange
    <3>2. CASE i # job[p]
      <4>1. /\ RowInv(i) /\ lock[i] # p
            /\ db'[i] = db[i] /\ new'[i] = new[i] /\ lock'[i] = lock[i]
        BY <3>2, <2>b, <2>e, <1>i, HoldsNothing DEF LockInv, OtherRowsKept, InRefresh
      <4> QED
        BY <4>1, <2>b, RowFrame
    <3> QED
      BY <3>1, <3>2
  <2>3. FreshInv'
    BY <2>b, <2>e, <1>i DEF FreshInv, Fresh, OtherRowsKept, OthersWait
  <2>4. StartInv'
    <3>1. \A q \in Procs \ {p} : Starting(q)' =>
             StartsRow(q)'
      BY <2>b, <2>e, <1>i, StartFrame
    <3>2. Starting(p)' => StartsRow(p)'
      BY <2>b, <2>e DEF Starting, InRefresh, StartsRow
    <3> QED
      BY <3>1, <3>2 DEF StartInv
  <2>5. ExecInv'
    BY <2>b, <2>e, <1>i, ExecFrame DEF Executing
  <2>6. StatusStep
    BY <2>e DEF StatusStep
  <2> QED
    BY <2>1, <2>2, <2>3, <2>4, <2>5, <2>6 DEF JobInv
<1>9. ASSUME NEW p \in Procs, RefuseToStart(p) PROVE JobInv' /\ StatusStep
  <2>f. /\ pc[p] = "start"
        /\ pc'[p] = "idle" /\ op'[p] = "create"
        /\ todo' = todo /\ found' = found
        /\ OthersWait(p) /\ UNCHANGED <<db, new, lock, nextJob>>
    BY <1>9, <1>t DEF RefuseToStart, Goto, tables, OthersWait
  <2>1. PcInv'
    BY <2>f, <1>i, <1>t DEF PcInv, OthersWait, Executing, InRefresh
  <2> QED
    BY <2>f, <2>1, <1>i, QuietStep DEF InRefresh, Starting, Executing, PcInv
<1>10. ASSUME NEW p \in Procs, ExecuteJob(p) PROVE JobInv' /\ StatusStep
  <2>f. /\ pc[p] = "exec"
        /\ pc'[p] = "save"
        /\ op' = op /\ job' = job /\ todo' = todo /\ found' = found
        /\ OthersWait(p) /\ UNCHANGED <<db, new, lock, nextJob>>
    BY <1>10, <1>t DEF ExecuteJob, Goto, tables, OthersWait
  <2>1. PcInv'
    BY <2>f, <1>i, <1>t DEF PcInv, OthersWait, Executing, InRefresh
  <2> QED
    BY <2>f, <2>1, <1>i, QuietStep DEF InRefresh, Starting, Executing, PcInv
<1>11. ASSUME NEW p \in Procs, SaveResult(p) PROVE JobInv' /\ StatusStep
  <2>a. /\ pc[p] = "save" /\ op[p] = "finish" /\ job[p] \in Jobs /\ ~Gone(job[p])
        /\ Write(p, job[p], Finished(result[p]))
    BY <1>11, <1>i DEF SaveResult, Executing, PcInv
  <2>b. /\ pc[p] = "save" /\ op[p] = "finish" /\ job[p] \in Jobs
        /\ pc'[p] \in {"refresh", "clear"} /\ op' = op /\ job' = job
        /\ todo' = todo /\ found' = found /\ nextJob' = nextJob
        /\ OthersWait(p)
    BY <2>a, <1>11, <1>t DEF SaveResult, Goto, OthersWait
  <2>e. /\ lock[job[p]] = NoProc /\ ~Fresh(job[p])
        /\ OtherRowsKept(job[p]) /\ lock' = lock /\ db'[job[p]] = new'[job[p]]
        /\ db'[job[p]].status \in {"completed", "failed"}
    <3>1. lock[job[p]] # p
      BY <2>b, <1>i, HoldsNothing
    <3>2. ~Fresh(job[p])
      BY <2>b, <1>i DEF FreshInv, ExecInv, Executing
    <3> DEFINE row == Finished(result[p])
    <3>3. row.status \in {"completed", "failed"}
      BY <2>b, <1>i, WrittenStatus
    <3>4. Write(p, job[p], row)
      BY <2>a
    <3> HIDE DEF row
    <3> QED
      BY <3>1, <3>2, <3>3, <3>4, <2>b, <1>i, WriteEffect
  <2>1. PcInv'
    BY <2>b, <1>i, <1>t DEF PcInv, OthersWait, Executing, InRefresh
  <2>2. LockInv'
    <3> SUFFICES ASSUME NEW i \in Jobs PROVE RowInv(i)'
      BY DEF LockInv
    <3>1. CASE i = job[p]
      BY <3>1, <2>b, <2>e, <1>n DEF RowInv
    <3>2. CASE i # job[p]
      <4>1. /\ RowInv(i) /\ lock[i] # p
            /\ db'[i] = db[i] /\ new'[i] = new[i] /\ lock'[i] = lock[i]
        BY <3>2, <2>b, <2>e, <1>i, HoldsNothing DEF LockInv, OtherRowsKept, InRefresh
      <4> QED
        BY <4>1, <2>b, RowFrame
    <3> QED
      BY <3>1, <3>2
  <2>3. FreshInv'
    BY <2>b, <2>e, <1>i DEF FreshInv, Fresh, OtherRowsKept, OthersWait
  <2>4. StartInv'
    <3>1. \A q \in Procs \ {p} : Starting(q)' =>
             StartsRow(q)'
      BY <2>b, <2>e, <1>i, StartFrame
    <3>2. ~Starting(p)'
      BY <2>b DEF Starting
    <3> QED
      BY <3>1, <3>2 DEF StartInv
  <2>5. ExecInv'
    <3>1. \A q \in Procs : Executing(q)' => Executing(q) /\ job[q] \in Jobs
      BY <2>b, <1>i DEF OthersWait, Executing, PcInv
    <3> QED
      BY <3>1, <2>b, <2>e, <1>i DEF ExecInv, SingleExecutor, OtherRowsKept
  <2>6. StatusStep
    BY <2>a, <2>b, <2>e, <1>i
       DEF StatusStep, OtherRowsKept, TerminalStatuses, ExecInv, Executing, Gone
  <2> QED
    BY <2>1, <2>2, <2>3, <2>4, <2>5, <2>6 DEF JobInv
<1>12. ASSUME NEW p \in Procs, ClearArtifacts(p) PROVE JobInv' /\ StatusStep
  <2>f. /\ pc[p] = "clear"
        /\ pc'[p] = "report"
        /\ op' = op /\ job' = job /\ todo' = todo /\ found' = found
        /\ OthersWait(p) /\ UNCHANGED <<db, new, lock, nextJob>>
    BY <1>12, <1>t DEF ClearArtifacts, Goto, tables, OthersWait
  <2>1. PcInv'
    BY <2>f, <1>i, <1>t DEF PcInv, OthersWait, Executing, InRefresh
  <2> QED
    BY <2>f, <2>1, <1>i, QuietStep DEF InRefresh, Starting, Executing, PcInv
<1>13. ASSUME NEW p \in Procs, CreateArtifact(p) PROVE JobInv' /\ StatusStep
  <2>f. /\ pc[p] \in {"report", "plot"}
        /\ pc'[p] \in {"plot", "refresh"}
        /\ op' = op /\ job' = job /\ todo' = todo /\ found' = found
        /\ OthersWait(p) /\ UNCHANGED <<db, new, lock, nextJob>>
    BY <1>13, <1>t DEF CreateArtifact, Goto, tables, OthersWait
  <2>1. PcInv'
    BY <2>f, <1>i, <1>t DEF PcInv, OthersWait, Executing, InRefresh
  <2> QED
    BY <2>f, <2>1, <1>i, QuietStep DEF InRefresh, Starting, Executing, PcInv
<1>14. ASSUME NEW p \in Procs, ArtifactFailure(p) PROVE JobInv' /\ StatusStep
  <2>f. /\ pc[p] \in {"clear", "report", "plot"}
        /\ pc'[p] = "unsaved"
        /\ op' = op /\ job' = job /\ todo' = todo /\ found' = found
        /\ OthersWait(p) /\ UNCHANGED <<db, new, lock, nextJob>>
    BY <1>14, <1>t DEF ArtifactFailure, Goto, tables, OthersWait
  <2>1. PcInv'
    BY <2>f, <1>i, <1>t DEF PcInv, OthersWait, Executing, InRefresh
  <2> QED
    BY <2>f, <2>1, <1>i, QuietStep DEF InRefresh, Starting, Executing, PcInv
<1>15. ASSUME NEW p \in Procs, SaveUnsaved(p) PROVE JobInv' /\ StatusStep
  <2>a. /\ pc[p] = "unsaved" /\ op[p] = "finish" /\ job[p] \in Jobs /\ ~Gone(job[p])
        /\ Write(p, job[p], [db[job[p]] EXCEPT !.status = "failed", !.failure_message = "unsaved"])
    BY <1>15, <1>i DEF SaveUnsaved, Executing, PcInv
  <2>b. /\ pc[p] = "unsaved" /\ op[p] = "finish" /\ job[p] \in Jobs
        /\ pc'[p] = "refresh" /\ op' = op /\ job' = job
        /\ todo' = todo /\ found' = found /\ nextJob' = nextJob
        /\ OthersWait(p)
    BY <2>a, <1>15, <1>t DEF SaveUnsaved, Goto, OthersWait
  <2>e. /\ lock[job[p]] = NoProc /\ ~Fresh(job[p])
        /\ OtherRowsKept(job[p]) /\ lock' = lock /\ db'[job[p]] = new'[job[p]]
        /\ db'[job[p]].status \in {"completed", "failed"}
    <3>1. lock[job[p]] # p
      BY <2>b, <1>i, HoldsNothing
    <3>2. ~Fresh(job[p])
      BY <2>b, <1>i DEF FreshInv, ExecInv, Executing
    <3> DEFINE row == [db[job[p]] EXCEPT !.status = "failed", !.failure_message = "unsaved"]
    <3>3. row.status \in {"completed", "failed"}
      BY <2>b, <1>i, WrittenStatus
    <3>4. Write(p, job[p], row)
      BY <2>a
    <3> HIDE DEF row
    <3> QED
      BY <3>1, <3>2, <3>3, <3>4, <2>b, <1>i, WriteEffect
  <2>1. PcInv'
    BY <2>b, <1>i, <1>t DEF PcInv, OthersWait, Executing, InRefresh
  <2>2. LockInv'
    <3> SUFFICES ASSUME NEW i \in Jobs PROVE RowInv(i)'
      BY DEF LockInv
    <3>1. CASE i = job[p]
      BY <3>1, <2>b, <2>e, <1>n DEF RowInv
    <3>2. CASE i # job[p]
      <4>1. /\ RowInv(i) /\ lock[i] # p
            /\ db'[i] = db[i] /\ new'[i] = new[i] /\ lock'[i] = lock[i]
        BY <3>2, <2>b, <2>e, <1>i, HoldsNothing DEF LockInv, OtherRowsKept, InRefresh
      <4> QED
        BY <4>1, <2>b, RowFrame
    <3> QED
      BY <3>1, <3>2
  <2>3. FreshInv'
    BY <2>b, <2>e, <1>i DEF FreshInv, Fresh, OtherRowsKept, OthersWait
  <2>4. StartInv'
    <3>1. \A q \in Procs \ {p} : Starting(q)' =>
             StartsRow(q)'
      BY <2>b, <2>e, <1>i, StartFrame
    <3>2. ~Starting(p)'
      BY <2>b DEF Starting
    <3> QED
      BY <3>1, <3>2 DEF StartInv
  <2>5. ExecInv'
    <3>1. \A q \in Procs : Executing(q)' => Executing(q) /\ job[q] \in Jobs
      BY <2>b, <1>i DEF OthersWait, Executing, PcInv
    <3> QED
      BY <3>1, <2>b, <2>e, <1>i DEF ExecInv, SingleExecutor, OtherRowsKept
  <2>6. StatusStep
    BY <2>a, <2>b, <2>e, <1>i
       DEF StatusStep, OtherRowsKept, TerminalStatuses, ExecInv, Executing, Gone
  <2> QED
    BY <2>1, <2>2, <2>3, <2>4, <2>5, <2>6 DEF JobInv
<1>16. ASSUME NEW p \in Procs, StartWorker(p) PROVE JobInv' /\ StatusStep
  <2>f. /\ pc[p] = "down" /\ pc'[p] = "lock"
        /\ op' = op /\ job' = job /\ todo' = todo
        /\ OthersWait(p) /\ UNCHANGED <<db, new, lock, nextJob>>
        /\ found'[p] = StaleJobs
    BY <1>16, <1>t DEF StartWorker, Goto, tables, OthersWait
  <2>1. PcInv'
    BY <2>f, <1>i, <1>t DEF PcInv, OthersWait, Executing, InRefresh
  <2>2. LockInv'
    BY <2>f, <1>i, <1>t DEF LockInv, RowInv, OthersWait, StatusChange, InRefresh, PcInv
  <2>3. FreshInv'
    BY <2>f, <1>i, <1>t DEF FreshInv, Fresh, OthersWait, StaleJobs
  <2>4. StartInv'
    BY <2>f, <1>i, StartQuiet DEF Starting, InRefresh
  <2>5. ExecInv'
    BY <2>f, <1>i, ExecFrame DEF Executing
  <2>6. StatusStep
    BY <2>f DEF StatusStep
  <2> QED
    BY <2>1, <2>2, <2>3, <2>4, <2>5, <2>6 DEF JobInv
<1>17. ASSUME NEW p \in Procs, NEW j \in Jobs, LockStaleJob(p, j) PROVE JobInv' /\ StatusStep
  <2>f. /\ pc[p] = "lock" /\ lock[j] = NoProc
        /\ pc' = pc /\ op' = op /\ job' = job /\ todo' = todo
        /\ OthersWait(p) /\ UNCHANGED <<db, new, nextJob>>
        /\ found'[p] \subseteq found[p]
        /\ \A i \in Jobs \ {j} : lock'[i] = lock[i]
        /\ db[j].status = "running" => lock'[j] = p
        /\ db[j].status # "running" => lock'[j] = lock[j]
    <3>1. lock \in [Jobs -> Procs \cup {NoProc}]
      BY <1>i DEF TypeOK
    <3> QED
      BY <3>1, <1>17, <1>t DEF LockStaleJob, NextStale, OthersWait
  <2>1. PcInv'
    BY <2>f, <1>i DEF PcInv, Executing, InRefresh
  <2>2. LockInv'
    <3> SUFFICES ASSUME NEW i \in Jobs PROVE RowInv(i)'
      BY DEF LockInv
    <3>1. op[p] = "recover"
      BY <2>f, <1>i DEF PcInv
    <3>2. RowInv(i)
      BY <1>i DEF LockInv
    <3> QED
      BY <3>1, <3>2, <2>f, <1>n DEF RowInv, StatusChange, InRefresh
  <2>3. FreshInv'
    BY <2>f, <1>i DEF FreshInv, Fresh, OthersWait
  <2>4. StartInv'
    <3> SUFFICES ASSUME NEW q \in Procs, Starting(q)' PROVE StartsRow(q)'
      BY DEF StartInv
    <3>1. Starting(q) /\ job'[q] = job[q]
      BY <2>f DEF Starting, InRefresh
    <3>2. StartsRow(q) /\ job[q] \in Jobs
      BY <3>1, <1>i DEF StartInv, PcInv, Starting
    <3>3. job[q] # j
      BY <3>2, <2>f, <1>n DEF StartsRow
    <3> QED
      BY <3>1, <3>2, <3>3, <2>f DEF StartsRow
  <2>5. ExecInv'
    BY <2>f, <1>i, ExecFrame DEF Executing
  <2>6. StatusStep
    BY <2>f DEF StatusStep
  <2> QED
    BY <2>1, <2>2, <2>3, <2>4, <2>5, <2>6 DEF JobInv
<1>18. ASSUME NEW p \in Procs, SaveStaleJobs(p) PROVE JobInv' /\ StatusStep
  <2>f. /\ pc[p] = "lock" /\ pc'[p] = "refresh"
        /\ op' = op /\ job' = job /\ todo' = todo /\ found' = found
        /\ OthersWait(p) /\ UNCHANGED <<db, lock, nextJob>>
        /\ \A i \in Jobs : lock[i] # p => new'[i] = new[i]
        /\ \A i \in Jobs : lock[i] = p => new'[i].status = "failed"
    <3>1. \A row : Stale(row).status = "failed"
      BY DEF Stale
    <3> QED
      BY <3>1, <1>18, <1>t DEF SaveStaleJobs, Goto, OthersWait
  <2>a. op[p] = "recover"
    BY <2>f, <1>i DEF PcInv
  <2>1. PcInv'
    BY <2>f, <2>a, <1>i, <1>t DEF PcInv, OthersWait, Executing, InRefresh
  <2>2. LockInv'
    <3> SUFFICES ASSUME NEW i \in Jobs PROVE RowInv(i)'
      BY DEF LockInv
    <3>1. CASE lock[i] # p
      BY <3>1, <2>f, <1>i, RowFrame DEF LockInv
    <3>2. CASE lock[i] = p
      BY <3>2, <2>f, <2>a, <1>i, <1>n DEF LockInv, RowInv, StatusChange, InRefresh
    <3> QED
      BY <3>1, <3>2
  <2>3. FreshInv'
    BY <2>f, <1>i DEF FreshInv, Fresh
  <2>4. StartInv'
    <3> SUFFICES ASSUME NEW q \in Procs, Starting(q)' PROVE StartsRow(q)'
      BY DEF StartInv
    <3>1. q # p
      BY <2>f, <2>a DEF Starting, InRefresh
    <3>2. Starting(q) /\ job'[q] = job[q]
      BY <3>1, <2>f DEF Starting, InRefresh, OthersWait
    <3>3. StartsRow(q) /\ job[q] \in Jobs
      BY <3>2, <1>i DEF StartInv, PcInv, Starting
    <3> QED
      BY <3>1, <3>2, <3>3, <2>f DEF StartsRow
  <2>5. ExecInv'
    BY <2>f, <1>i, ExecFrame DEF Executing
  <2>6. StatusStep
    BY <2>f DEF StatusStep
  <2> QED
    BY <2>1, <2>2, <2>3, <2>4, <2>5, <2>6 DEF JobInv
<1>19. ASSUME NEW p \in Procs, Rollback(p) PROVE JobInv' /\ StatusStep
  <2>f. /\ \/ p \in Workers /\ pc'[p] = "down" /\ op'[p] = "recover"
           \/ p \notin Workers /\ pc'[p] = "idle" /\ op'[p] = "create"
        /\ OthersWait(p) /\ UNCHANGED <<db, nextJob>>
        /\ found'[p] = {} /\ \A i \in Jobs : todo'[p][i] = 0
        /\ \A i \in Jobs : lock[i] = p => lock'[i] = NoProc /\ new'[i] = db[i]
        /\ \A i \in Jobs : lock[i] # p => lock'[i] = lock[i] /\ new'[i] = new[i]
    BY <1>19, <1>t DEF Rollback, OthersWait
  <2>1. PcInv'
    BY <2>f, <1>i, <1>t DEF PcInv, OthersWait, Executing, InRefresh, Procs, Creators, Executors
  <2>2. LockInv'
    <3> SUFFICES ASSUME NEW i \in Jobs PROVE RowInv(i)'
      BY DEF LockInv
    <3>1. CASE lock[i] # p
      BY <3>1, <2>f, <1>i, RowFrame DEF LockInv
    <3>2. CASE lock[i] = p
      BY <3>2, <2>f, <1>n DEF RowInv
    <3> QED
      BY <3>1, <3>2
  <2>3. FreshInv'
    BY <2>f, <1>i, <1>n DEF FreshInv, Fresh, OthersWait
  <2>4. StartInv'
    <3> SUFFICES ASSUME NEW q \in Procs, Starting(q)' PROVE StartsRow(q)'
      BY DEF StartInv
    <3>1. q # p
      BY <2>f DEF Starting, InRefresh
    <3>2. Starting(q) /\ job'[q] = job[q]
      BY <3>1, <2>f DEF Starting, InRefresh, OthersWait
    <3>3. StartsRow(q) /\ job[q] \in Jobs
      BY <3>2, <1>i DEF StartInv, PcInv, Starting
    <3> QED
      BY <3>1, <3>2, <3>3, <2>f DEF StartsRow
  <2>5. ExecInv'
    BY <2>f, <1>i, ExecFrame DEF Executing
  <2>6. StatusStep
    BY <2>f DEF StatusStep
  <2> QED
    BY <2>1, <2>2, <2>3, <2>4, <2>5, <2>6 DEF JobInv
<1>20. ASSUME NEW p \in Procs, NEW j \in Jobs, UpdatePosition(p, j), Gone(j)
       PROVE  JobInv' /\ StatusStep
  <2>f. /\ pc[p] = "update"
        /\ pc' = pc /\ op' = op /\ job' = job /\ found' = found
        /\ OthersWait(p) /\ UNCHANGED <<db, new, lock, nextJob>>
        /\ \A i \in Jobs : todo[p][i] = 0 => todo'[p][i] = 0
    BY <1>20, <1>t DEF UpdatePosition, NextUpdate, tables, OthersWait
  <2>1. PcInv'
    BY <2>f, <1>i DEF PcInv, Executing, InRefresh
  <2>2. LockInv'
    BY <2>f, <1>i DEF LockInv, RowInv, StatusChange, InRefresh
  <2>3. FreshInv'
    BY <2>f, <1>i DEF FreshInv, Fresh, OthersWait
  <2>4. StartInv'
    BY <2>f, <1>i, StartQuiet DEF Starting, InRefresh
  <2>5. ExecInv'
    BY <2>f, <1>i, ExecFrame DEF Executing
  <2>6. StatusStep
    BY <2>f DEF StatusStep
  <2> QED
    BY <2>1, <2>2, <2>3, <2>4, <2>5, <2>6 DEF JobInv
<1>21. ASSUME NEW p \in Procs, PollNothing(p) PROVE JobInv' /\ StatusStep
  <2>f. /\ pc[p] = "poll"
        /\ pc'[p] = "down" /\ op'[p] = "recover"
        /\ job' = job /\ todo' = todo /\ found' = found
        /\ OthersWait(p) /\ UNCHANGED <<db, new, lock, nextJob>>
    BY <1>21, <1>t DEF PollNothing, Goto, tables, OthersWait
  <2>1. PcInv'
    BY <2>f, <1>i, <1>t DEF PcInv, OthersWait, Executing, InRefresh
  <2> QED
    BY <2>f, <2>1, <1>i, QuietStep DEF InRefresh, Starting, Executing, PcInv
<1>22. ASSUME NEW j \in Jobs, DeleteJob(j) PROVE JobInv' /\ StatusStep
  <2>f. /\ db[j].status # "absent" /\ lock[j] = NoProc
        /\ db'[j] = GoneRow /\ new'[j] = GoneRow
        /\ OtherRowsKept(j)
        /\ UNCHANGED <<lock, nextJob, pc, op, job, found, todo>>
    BY <1>22, <1>i DEF DeleteJob, OtherRowsKept, TypeOK
  <2>a. db'[j].status = "deleted"
    BY <2>f DEF GoneRow, NoRow
  <2>1. PcInv'
    BY <2>f, <1>i DEF PcInv, Executing, InRefresh
  <2>2. LockInv'
    <3> SUFFICES ASSUME NEW i \in Jobs PROVE RowInv(i)'
      BY DEF LockInv
    <3>1. CASE i = j
      BY <3>1, <2>f, <1>n DEF RowInv
    <3>2. CASE i # j
      BY <3>2, <2>f, <1>i DEF LockInv, RowInv, OtherRowsKept, StatusChange, InRefresh
    <3> QED
      BY <3>1, <3>2
  <2>3. FreshInv'
    <3>1. ~Fresh(j)
      BY <2>f, <1>i DEF FreshInv
    <3> QED
      BY <3>1, <2>f, <1>i DEF FreshInv, Fresh, OtherRowsKept
  <2>4. StartInv'
    <3> SUFFICES ASSUME NEW q \in Procs, Starting(q)' PROVE StartsRow(q)'
      BY DEF StartInv
    <3>1. Starting(q)
      BY <2>f DEF Starting, InRefresh
    <3>2. StartsRow(q) /\ job[q] \in Jobs
      BY <3>1, <1>i DEF StartInv, PcInv, Starting
    <3>3. job[q] # j
      BY <3>2, <2>f, <1>n DEF StartsRow
    <3> QED
      BY <3>2, <3>3, <2>f DEF StartsRow, OtherRowsKept
  <2>5. ExecInv'
    <3>1. ASSUME NEW q \in Procs, Executing(q)'
          PROVE  db'[job'[q]].status \notin {"absent", "queued"}
      <4>1. Executing(q) /\ job[q] \in Jobs /\ job'[q] = job[q]
        BY <3>1, <2>f, <1>i DEF Executing, PcInv
      <4> QED
        BY <4>1, <2>f, <2>a, <1>i DEF ExecInv, OtherRowsKept
    <3> QED
      BY <3>1, <2>f, <1>i DEF ExecInv, SingleExecutor, Executing
  <2>6. StatusStep
    BY <2>f, <2>a DEF StatusStep, OtherRowsKept
  <2> QED
    BY <2>1, <2>2, <2>3, <2>4, <2>5, <2>6 DEF JobInv
<1>23. CASE UNCHANGED vars
  BY <1>23, <1>i DEF vars, JobInv, tables, PcInv, LockInv, RowInv, FreshInv, Fresh, StartInv,
     Starting, StartsRow, ExecInv, SingleExecutor, Executing, InRefresh, StatusChange,
     StatusStep
<1> QED
  <2>1. ASSUME NEW p \in Procs, Crash(p) \/ AbortDeadlocked(p) \/ SaveFails(p)
        PROVE  JobInv' /\ StatusStep
    BY <2>1, <1>19 DEF Crash, AbortDeadlocked, SaveFails
  <2> QED
    BY <1>1, <1>2, <1>3, <1>4, <1>5, <1>6, <1>7, <1>8, <1>9, <1>10, <1>11, <1>12,
       <1>13, <1>14, <1>15, <1>16, <1>17, <1>18, <1>20, <1>21, <1>22, <1>23, <2>1
       DEF Next, Step

-----------------------------------------------------------------------------
(* Theorems                                                                *)

\* The invariant holds in every behaviour.
THEOREM Invariance == Spec => []IInv
  BY InvInit, InvStep, PTL DEF Spec

\* Every job is handed out once: no two processes execute, or save results for,
\* the same job, however many workers, smoke commands and crashes there are.
THEOREM ExecutesOnce == Spec => []SingleExecutor
<1>1. IInv => SingleExecutor
  BY DEF IInv, JobInv, ExecInv
<1> QED
  BY <1>1, Invariance, PTL

\* A job is never run again: RUNNING only follows QUEUED, and nothing goes back.
THEOREM NeverReruns == Spec => NoRerun
<1>1. StatusStep => \A j \in Jobs :
        /\ db[j].status # "running" /\ db'[j].status = "running"
              => db[j].status = "queued"
        /\ db[j].status # "absent" /\ db'[j].status = "queued"
              => db[j].status = "queued"
  BY DEF StatusStep, TerminalStatuses
<1> QED
  BY <1>1, Invariance, InvStep, PTL DEF Spec, NoRerun

\* A worker that polls takes a job only by claiming it.
LEMMA OnlyClaimTakes ==
    ASSUME TypeOK, Next, NEW w \in Workers, pc[w] = "poll",
           NEW j \in Jobs, job[w] # j, job'[w] = j
    PROVE  ClaimNextQueuedJob(w, j)
<1>t. job \in [Procs -> Jobs \cup {0}] /\ w \in Procs /\ 0 \notin Jobs
  BY DEF TypeOK, Procs, Executors, Jobs
<1>1. \A p \in Procs : Rollback(p) => job'[w] \in {0, job[w]}
  BY <1>t DEF Rollback
<1>2. ASSUME NEW p \in Procs, Step(p) PROVE ClaimNextQueuedJob(w, j)
  <2>1. \A i \in Jobs : ClaimNextQueuedJob(p, i) => p = w /\ i = j
    BY <1>t DEF ClaimNextQueuedJob
  <2>2. InsertJob(p) \/ Commit(p) \/ RefuseToStart(p) => job'[w] \in {0, job[w]}
    BY <1>t DEF InsertJob, Commit, RefuseToStart
  <2>3. SaveFails(p) => job'[w] \in {0, job[w]}
    BY <1>1 DEF SaveFails
  <2>4. \/ SelectPositions(p) \/ StartQueuedJob(p) \/ PollNothing(p) \/ ExecuteJob(p)
        \/ SaveResult(p) \/ ClearArtifacts(p) \/ CreateArtifact(p)
        \/ ArtifactFailure(p) \/ SaveUnsaved(p) \/ SaveStaleJobs(p)
        \/ (\E i \in Jobs : UpdatePosition(p, i) \/ LockStaleJob(p, i))
        => job' = job
    BY DEF SelectPositions, StartQueuedJob, PollNothing, ExecuteJob, SaveResult,
       ClearArtifacts, CreateArtifact, ArtifactFailure, SaveUnsaved, SaveStaleJobs,
       UpdatePosition, LockStaleJob
  <2> QED
    BY <1>2, <1>t, <2>1, <2>2, <2>3, <2>4 DEF Step
<1>3. \A p \in Procs :
        /\ Crash(p) \/ AbortDeadlocked(p) => job'[w] \in {0, job[w]}
        /\ CountActiveJobs(p) \/ RejectSubmission(p) \/ ArtifactFailure(p)
           \/ StartWorker(p) => job' = job
  BY <1>1 DEF Crash, AbortDeadlocked, CountActiveJobs, RejectSubmission,
     ArtifactFailure, StartWorker
<1>4. \A i \in Jobs : DeleteJob(i) => job' = job
  BY DEF DeleteJob
<1> QED
  BY <1>t, <1>2, <1>3, <1>4 DEF Next

\* A waiting job is passed over only while a transaction that has done its work, and
\* is at its positions, holds the row (claim_next_queued_job, refresh_queue_positions):
\* whoever runs a backend holds no row.
THEOREM HeldRowsAreOvertaken == Spec => OvertakesOnlyHeld
<1>1. IInv /\ [Next]_vars => [\A w \in Workers, j \in Jobs :
         pc[w] = "poll" /\ job[w] # j /\ job'[w] = j =>
             \A i \in 1..(j-1) : db[i].status = "queued" =>
                 \E q \in Procs \ {w} : /\ lock[i] = q /\ op[q] # "finish"
                                        /\ pc[q] \in {"refresh", "update"}]_vars
  <2> SUFFICES ASSUME IInv, Next, NEW w \in Workers, NEW j \in Jobs,
                      pc[w] = "poll", job[w] # j, job'[w] = j,
                      NEW i \in 1..(j-1), db[i].status = "queued"
               PROVE  \E q \in Procs \ {w} : /\ lock[i] = q /\ op[q] # "finish"
                                             /\ pc[q] \in {"refresh", "update"}
    OBVIOUS
  <2>1. ClaimNextQueuedJob(w, j) /\ TypeOK /\ LockInv
    BY OnlyClaimTakes DEF IInv, JobInv
  <2>2. w \in Procs /\ i \in Jobs
    BY BoundsAssumption DEF Procs, Executors, Jobs
  <2>3. lock[i] \in Procs
    BY <2>1, <2>2 DEF ClaimNextQueuedJob, Claimable, TypeOK
  <2>4. lock[i] # w
    BY <2>1, <2>2, HoldsNothing DEF InRefresh
  <2>5. /\ op[lock[i]] # "finish"
        /\ pc[lock[i]] = "lock" \/ pc[lock[i]] \in {"refresh", "update"}
        /\ pc[lock[i]] # "lock"
    BY <2>1, <2>2, <2>3 DEF LockInv, RowInv, InRefresh
  <2> QED
    BY <2>3, <2>4, <2>5
<1> QED
  BY <1>1, Invariance, PTL DEF Spec, OvertakesOnlyHeld

\* A process changes operations, or leaves its updates, with no row in its hands.
LEMMA HoldEffect ==
    ASSUME IInv, [Next]_vars, NEW q \in Procs
    PROVE  \/ \A i \in Jobs : lock'[i] # q
           \/ op'[q] = op[q] /\ (pc[q] = "update" => pc'[q] = "update")
<1>i. TypeOK /\ PcInv /\ LockInv /\ NoProc \notin Procs
  BY ProcsAssumption DEF IInv, JobInv
<1>t. pc \in [Procs -> Statements] /\ op \in [Procs -> Operations]
  BY <1>i DEF TypeOK
<1>1. ASSUME NEW p \in Procs,
             \/ CountActiveJobs(p) \/ RejectSubmission(p) \/ InsertJob(p)
             \/ ExecuteJob(p) \/ ArtifactFailure(p) \/ StartWorker(p)
             \/ SelectPositions(p) \/ StartQueuedJob(p)
             \/ ClearArtifacts(p) \/ CreateArtifact(p) \/ SaveResult(p)
             \/ SaveUnsaved(p) \/ SaveStaleJobs(p)
             \/ \E j \in Jobs : \/ ClaimNextQueuedJob(p, j) \/ LockStaleJob(p, j)
                                \/ UpdatePosition(p, j)
      PROVE  op'[q] = op[q] /\ (pc[q] = "update" => pc'[q] = "update")
  <2>1. op' = op
    BY <1>1
       DEF CountActiveJobs, RejectSubmission, InsertJob, ExecuteJob, ArtifactFailure,
           StartWorker, SelectPositions, StartQueuedJob, ClearArtifacts,
           CreateArtifact, SaveResult, SaveUnsaved, SaveStaleJobs, ClaimNextQueuedJob,
           LockStaleJob, UpdatePosition
  <2>2. pc[q] = "update" => pc'[q] = "update"
    BY <1>1, <1>t
       DEF CountActiveJobs, RejectSubmission, InsertJob, ExecuteJob, ArtifactFailure,
           StartWorker, SelectPositions, StartQueuedJob, ClearArtifacts,
           CreateArtifact, SaveResult, SaveUnsaved, SaveStaleJobs, ClaimNextQueuedJob,
           LockStaleJob, UpdatePosition, Goto
  <2> QED
    BY <2>1, <2>2
<1>2. ASSUME NEW p \in Procs, Commit(p)
      PROVE  \/ \A i \in Jobs : lock'[i] # q
             \/ op'[q] = op[q] /\ pc'[q] = pc[q]
  <2>1. CASE q = p
    BY <1>2, <1>i, <2>1 DEF Commit
  <2>2. CASE q # p
    BY <1>2, <1>t, <2>2 DEF Commit
  <2> QED
    BY <2>1, <2>2
<1>3. ASSUME NEW p \in Procs, PollNothing(p) \/ RefuseToStart(p)
      PROVE  \/ \A i \in Jobs : lock'[i] # q
             \/ op'[q] = op[q] /\ pc'[q] = pc[q]
  <2>1. lock' = lock /\ pc[p] \in {"poll", "start"}
    BY <1>3 DEF PollNothing, RefuseToStart, tables
  <2>2. \A i \in Jobs : lock[i] # p
    BY <1>i, <2>1, HoldsNothing DEF InRefresh
  <2>3. q # p => op'[q] = op[q] /\ pc'[q] = pc[q]
    BY <1>3, <1>t DEF PollNothing, RefuseToStart, Goto
  <2> QED
    BY <2>1, <2>2, <2>3
<1>4. ASSUME NEW p \in Procs, Crash(p) \/ AbortDeadlocked(p) \/ SaveFails(p)
      PROVE  \/ \A i \in Jobs : lock'[i] # q
             \/ op'[q] = op[q] /\ pc'[q] = pc[q]
  <2>1. Rollback(p)
    BY <1>4 DEF Crash, AbortDeadlocked, SaveFails
  <2>2. CASE q = p
    BY <2>1, <1>i, <2>2 DEF Rollback
  <2>3. CASE q # p
    BY <2>1, <1>t, <2>3 DEF Rollback
  <2> QED
    BY <2>2, <2>3
<1>5. CASE (\E j \in Jobs : DeleteJob(j)) \/ UNCHANGED vars
  BY <1>5 DEF DeleteJob, vars
<1> QED
  BY <1>1, <1>2, <1>3, <1>4, <1>5 DEF Next, Step

-----------------------------------------------------------------------------
(* The bound on the queue                                                  *)

\* A commit is a step of one process alone: everybody else's statement stays.
LEMMA CommitOnce ==
    ASSUME IInv, NEW p \in Procs, NEW q \in Procs, Commit(p), Commit(q)
    PROVE  p = q
<1>1. /\ pc \in [Procs -> Statements] /\ pc[q] = "update"
  BY DEF IInv, TypeOK, Commit
<1>2. pc'[q] \in {"start", "exec", "poll", "idle", "down"}
  BY <1>1 DEF Commit, NextOperation
<1> QED
  BY <1>1, <1>2 DEF Commit

\* Only create_job's count makes a submission pending, and its commit ends it.
LEMMA PendingStep ==
    ASSUME IInv, [Next]_vars
    PROVE  \/ \E p \in Procs : CountActiveJobs(p)
           \/ /\ Pending' \subseteq Pending
              /\ \A p \in Procs : Commit(p) => p \notin Pending'
<1>t. /\ pc \in [Procs -> Statements] /\ op \in [Procs -> Operations]
      /\ Creators \subseteq Procs
  BY DEF IInv, TypeOK, Procs
<1>q. ASSUME NEW p \in Procs, pc'[p] \notin {"insert", "refresh", "update"} \/ op'[p] # "create"
              \/ p \in Pending,
             \A q \in Procs \ {p} : pc'[q] = pc[q] /\ op'[q] = op[q]
      PROVE  Pending' \subseteq Pending
  BY <1>q, <1>t DEF Pending
<1>p. PcInv
  BY DEF IInv, JobInv
<1>1. ASSUME NEW p \in Procs, Commit(p)
      PROVE  Pending' \subseteq Pending /\ p \notin Pending'
  <2>1. NextOperation(p)[1] \in {"start", "exec", "poll", "idle", "down"}
    BY DEF NextOperation
  <2>2. pc'[p] \notin {"insert", "refresh", "update"}
    BY <2>1, <1>1, <1>t DEF Commit
  <2>3. \A q \in Procs \ {p} : pc'[q] = pc[q] /\ op'[q] = op[q]
    BY <1>1, <1>t DEF Commit
  <2> QED
    BY <2>2, <2>3, <1>q DEF Pending
<1>2. ASSUME NEW p \in Procs, RejectSubmission(p) PROVE Pending' \subseteq Pending
  <2>1. \/ pc'[p] \notin {"insert", "refresh", "update"} \/ op'[p] # "create"
        \/ p \in Pending
    BY <1>2, <1>t, <1>p DEF RejectSubmission, Goto, Pending, PcInv, Executing
  <2>2. \A q \in Procs \ {p} : pc'[q] = pc[q] /\ op'[q] = op[q]
    BY <1>2, <1>t DEF RejectSubmission, Goto
  <2> QED
    BY <2>1, <2>2, <1>q
<1>3. ASSUME NEW p \in Procs, InsertJob(p) PROVE Pending' \subseteq Pending
  <2>1. \/ pc'[p] \notin {"insert", "refresh", "update"} \/ op'[p] # "create"
        \/ p \in Pending
    BY <1>3, <1>t, <1>p DEF InsertJob, Goto, Pending, PcInv, Executing
  <2>2. \A q \in Procs \ {p} : pc'[q] = pc[q] /\ op'[q] = op[q]
    BY <1>3, <1>t DEF InsertJob, Goto
  <2> QED
    BY <2>1, <2>2, <1>q
<1>4. ASSUME NEW p \in Procs, SelectPositions(p) PROVE Pending' \subseteq Pending
  <2>1. \/ pc'[p] \notin {"insert", "refresh", "update"} \/ op'[p] # "create"
        \/ p \in Pending
    BY <1>4, <1>t, <1>p DEF SelectPositions, Goto, Pending, PcInv, Executing
  <2>2. \A q \in Procs \ {p} : pc'[q] = pc[q] /\ op'[q] = op[q]
    BY <1>4, <1>t DEF SelectPositions, Goto
  <2> QED
    BY <2>1, <2>2, <1>q
<1>5. ASSUME NEW p \in Procs, NEW j \in Jobs, UpdatePosition(p, j) PROVE Pending' \subseteq Pending
  <2>1. \/ pc'[p] \notin {"insert", "refresh", "update"} \/ op'[p] # "create"
        \/ p \in Pending
    BY <1>5, <1>t, <1>p DEF UpdatePosition, NextUpdate, Goto, Pending, PcInv, Executing
  <2>2. \A q \in Procs \ {p} : pc'[q] = pc[q] /\ op'[q] = op[q]
    BY <1>5, <1>t DEF UpdatePosition, Goto
  <2> QED
    BY <2>1, <2>2, <1>q
<1>6. ASSUME NEW p \in Procs, NEW j \in Jobs, ClaimNextQueuedJob(p, j) PROVE Pending' \subseteq Pending
  <2>1. \/ pc'[p] \notin {"insert", "refresh", "update"} \/ op'[p] # "create"
        \/ p \in Pending
    BY <1>6, <1>t, <1>p DEF ClaimNextQueuedJob, Goto, Pending, PcInv, Executing
  <2>2. \A q \in Procs \ {p} : pc'[q] = pc[q] /\ op'[q] = op[q]
    BY <1>6, <1>t DEF ClaimNextQueuedJob, Goto
  <2> QED
    BY <2>1, <2>2, <1>q
<1>7. ASSUME NEW p \in Procs, StartQueuedJob(p) PROVE Pending' \subseteq Pending
  <2>1. \/ pc'[p] \notin {"insert", "refresh", "update"} \/ op'[p] # "create"
        \/ p \in Pending
    BY <1>7, <1>t, <1>p DEF StartQueuedJob, Goto, Pending, PcInv, Executing
  <2>2. \A q \in Procs \ {p} : pc'[q] = pc[q] /\ op'[q] = op[q]
    BY <1>7, <1>t DEF StartQueuedJob, Goto
  <2> QED
    BY <2>1, <2>2, <1>q
<1>8. ASSUME NEW p \in Procs, RefuseToStart(p) PROVE Pending' \subseteq Pending
  <2>1. \/ pc'[p] \notin {"insert", "refresh", "update"} \/ op'[p] # "create"
        \/ p \in Pending
    BY <1>8, <1>t, <1>p DEF RefuseToStart, Goto, Pending, PcInv, Executing
  <2>2. \A q \in Procs \ {p} : pc'[q] = pc[q] /\ op'[q] = op[q]
    BY <1>8, <1>t DEF RefuseToStart, Goto
  <2> QED
    BY <2>1, <2>2, <1>q
<1>9. ASSUME NEW p \in Procs, ExecuteJob(p) PROVE Pending' \subseteq Pending
  <2>1. \/ pc'[p] \notin {"insert", "refresh", "update"} \/ op'[p] # "create"
        \/ p \in Pending
    BY <1>9, <1>t, <1>p DEF ExecuteJob, Goto, Pending, PcInv, Executing
  <2>2. \A q \in Procs \ {p} : pc'[q] = pc[q] /\ op'[q] = op[q]
    BY <1>9, <1>t DEF ExecuteJob, Goto
  <2> QED
    BY <2>1, <2>2, <1>q
<1>10. ASSUME NEW p \in Procs, SaveResult(p) PROVE Pending' \subseteq Pending
  <2>1. \/ pc'[p] \notin {"insert", "refresh", "update"} \/ op'[p] # "create"
        \/ p \in Pending
    BY <1>10, <1>t, <1>p DEF SaveResult, Goto, Pending, PcInv, Executing
  <2>2. \A q \in Procs \ {p} : pc'[q] = pc[q] /\ op'[q] = op[q]
    BY <1>10, <1>t DEF SaveResult, Goto
  <2> QED
    BY <2>1, <2>2, <1>q
<1>11. ASSUME NEW p \in Procs, ClearArtifacts(p) PROVE Pending' \subseteq Pending
  <2>1. \/ pc'[p] \notin {"insert", "refresh", "update"} \/ op'[p] # "create"
        \/ p \in Pending
    BY <1>11, <1>t, <1>p DEF ClearArtifacts, Goto, Pending, PcInv, Executing
  <2>2. \A q \in Procs \ {p} : pc'[q] = pc[q] /\ op'[q] = op[q]
    BY <1>11, <1>t DEF ClearArtifacts, Goto
  <2> QED
    BY <2>1, <2>2, <1>q
<1>12. ASSUME NEW p \in Procs, CreateArtifact(p) PROVE Pending' \subseteq Pending
  <2>1. \/ pc'[p] \notin {"insert", "refresh", "update"} \/ op'[p] # "create"
        \/ p \in Pending
    BY <1>12, <1>t, <1>p DEF CreateArtifact, Goto, Pending, PcInv, Executing
  <2>2. \A q \in Procs \ {p} : pc'[q] = pc[q] /\ op'[q] = op[q]
    BY <1>12, <1>t DEF CreateArtifact, Goto
  <2> QED
    BY <2>1, <2>2, <1>q
<1>13. ASSUME NEW p \in Procs, ArtifactFailure(p) PROVE Pending' \subseteq Pending
  <2>1. \/ pc'[p] \notin {"insert", "refresh", "update"} \/ op'[p] # "create"
        \/ p \in Pending
    BY <1>13, <1>t, <1>p DEF ArtifactFailure, Goto, Pending, PcInv, Executing
  <2>2. \A q \in Procs \ {p} : pc'[q] = pc[q] /\ op'[q] = op[q]
    BY <1>13, <1>t DEF ArtifactFailure, Goto
  <2> QED
    BY <2>1, <2>2, <1>q
<1>14. ASSUME NEW p \in Procs, SaveUnsaved(p) PROVE Pending' \subseteq Pending
  <2>1. \/ pc'[p] \notin {"insert", "refresh", "update"} \/ op'[p] # "create"
        \/ p \in Pending
    BY <1>14, <1>t, <1>p DEF SaveUnsaved, Goto, Pending, PcInv, Executing
  <2>2. \A q \in Procs \ {p} : pc'[q] = pc[q] /\ op'[q] = op[q]
    BY <1>14, <1>t DEF SaveUnsaved, Goto
  <2> QED
    BY <2>1, <2>2, <1>q
<1>15. ASSUME NEW p \in Procs, StartWorker(p) PROVE Pending' \subseteq Pending
  <2>1. \/ pc'[p] \notin {"insert", "refresh", "update"} \/ op'[p] # "create"
        \/ p \in Pending
    BY <1>15, <1>t, <1>p DEF StartWorker, Goto, Pending, PcInv, Executing
  <2>2. \A q \in Procs \ {p} : pc'[q] = pc[q] /\ op'[q] = op[q]
    BY <1>15, <1>t DEF StartWorker, Goto
  <2> QED
    BY <2>1, <2>2, <1>q
<1>16. ASSUME NEW p \in Procs, NEW j \in Jobs, LockStaleJob(p, j) PROVE Pending' \subseteq Pending
  <2>1. \/ pc'[p] \notin {"insert", "refresh", "update"} \/ op'[p] # "create"
        \/ p \in Pending
    BY <1>16, <1>t, <1>p DEF LockStaleJob, NextStale, Goto, Pending, PcInv, Executing
  <2>2. \A q \in Procs \ {p} : pc'[q] = pc[q] /\ op'[q] = op[q]
    BY <1>16, <1>t DEF LockStaleJob, Goto
  <2> QED
    BY <2>1, <2>2, <1>q
<1>17. ASSUME NEW p \in Procs, SaveStaleJobs(p) PROVE Pending' \subseteq Pending
  <2>1. \/ pc'[p] \notin {"insert", "refresh", "update"} \/ op'[p] # "create"
        \/ p \in Pending
    BY <1>17, <1>t, <1>p DEF SaveStaleJobs, Goto, Pending, PcInv, Executing
  <2>2. \A q \in Procs \ {p} : pc'[q] = pc[q] /\ op'[q] = op[q]
    BY <1>17, <1>t DEF SaveStaleJobs, Goto
  <2> QED
    BY <2>1, <2>2, <1>q
<1>18. ASSUME NEW p \in Procs, Rollback(p) PROVE Pending' \subseteq Pending
  <2>1. \/ pc'[p] \notin {"insert", "refresh", "update"} \/ op'[p] # "create"
        \/ p \in Pending
    BY <1>18, <1>t, <1>p DEF Rollback, Goto, Pending, PcInv, Executing
  <2>2. \A q \in Procs \ {p} : pc'[q] = pc[q] /\ op'[q] = op[q]
    BY <1>18, <1>t DEF Rollback, Goto
  <2> QED
    BY <2>1, <2>2, <1>q
<1>20. ASSUME NEW p \in Procs, PollNothing(p) PROVE Pending' \subseteq Pending
  <2>1. pc'[p] \notin {"insert", "refresh", "update"}
    BY <1>20, <1>t DEF PollNothing, Goto
  <2>2. \A q \in Procs \ {p} : pc'[q] = pc[q] /\ op'[q] = op[q]
    BY <1>20, <1>t DEF PollNothing, Goto
  <2> QED
    BY <2>1, <2>2, <1>q
<1>21. ASSUME NEW j \in Jobs, DeleteJob(j) PROVE Pending' \subseteq Pending
  BY <1>21 DEF DeleteJob, Pending
<1>22. ASSUME UNCHANGED vars PROVE Pending' \subseteq Pending
  BY <1>22 DEF vars, Pending
<1> QED
  <2>1. ASSUME NEW p \in Procs, Crash(p) \/ AbortDeadlocked(p) \/ SaveFails(p)
        PROVE  Pending' \subseteq Pending
    BY <2>1, <1>18 DEF Crash, AbortDeadlocked, SaveFails
  <2>2. (\E p \in Procs : CountActiveJobs(p)) \/ Pending' \subseteq Pending
    BY <1>1, <1>2, <1>3, <1>4, <1>5, <1>6, <1>7, <1>8, <1>9, <1>10, <1>11, <1>12,
       <1>13, <1>14, <1>15, <1>16, <1>17, <1>20, <1>21, <1>22, <2>1 DEF Next, Step
  <2> QED
    BY <2>2, <1>1

\* The committed active jobs and the pending submissions together never exceed
\* the limit by more than the number of submitters less one.
LEMMA QueueStep == IInv /\ QueueInv /\ [Next]_vars => QueueInv'
<1> SUFFICES ASSUME IInv, QueueInv, [Next]_vars PROVE QueueInv'
  OBVIOUS
<1>1. IsFiniteSet(Creators) /\ Cardinality(Creators) \in Nat
  <2>1. IsFiniteSet(Creators)
    BY ProcsAssumption, FS_Union DEF Creators
  <2> QED
    BY <2>1, FS_CardinalityType
<1>2. /\ IsFiniteSet(Pending) /\ Cardinality(Pending) \in Nat
      /\ Pending' \subseteq Creators
  <2>1. Pending \subseteq Creators
    BY DEF Pending
  <2>2. Pending' \subseteq Creators
    BY DEF Pending, Creators
  <2> QED
    BY <2>1, <2>2, <1>1, FS_Subset, FS_CardinalityType
<1>3. /\ IsFiniteSet(Pending') /\ Cardinality(Pending') \in Nat
      /\ Cardinality(Pending') <= Cardinality(Creators)
  BY <1>1, <1>2, FS_Subset, FS_CardinalityType
<1>4. IsFiniteSet(ActiveJobs) /\ ActiveJobCount \in Nat
  BY CountType
<1>5. IsFiniteSet(Jobs)
  BY FS_Interval, BoundsAssumption DEF Jobs
<1>6. /\ ActiveJobs' \subseteq Jobs /\ IsFiniteSet(ActiveJobs')
      /\ ActiveJobCount' = Cardinality(ActiveJobs') /\ ActiveJobCount' \in Nat
  <2>1. ActiveJobs' \subseteq Jobs
    BY DEF ActiveJobs, Jobs
  <2> QED
    BY <2>1, <1>5, FS_Subset, FS_CardinalityType DEF ActiveJobCount
<1>7. StatusStep
  BY InvStep
<1>8. CASE \E p \in Procs : CountActiveJobs(p)
  <2>1. db' = db /\ ActiveJobCount < JobQueueLimit
    BY <1>8 DEF CountActiveJobs, QueueHasRoom, tables
  <2>2. ActiveJobCount' = ActiveJobCount
    BY <2>1 DEF ActiveJobCount, ActiveJobs, Jobs
  <2> QED
    BY <2>1, <2>2, <1>1, <1>3, <1>4, BoundsAssumption DEF QueueInv
<1>9. CASE /\ Pending' \subseteq Pending
           /\ \E p \in Procs : /\ Commit(p) /\ op[p] = "create"
                              /\ p \notin Pending'
  <2>1. PICK p \in Procs : Commit(p) /\ op[p] = "create" /\ p \notin Pending'
    BY <1>9
  <2>2. p \in Pending
    BY <2>1 DEF IInv, JobInv, PcInv, Pending, Commit
  <2>3. Cardinality(Pending') <= Cardinality(Pending) - 1
    <3>1. Pending' \subseteq Pending \ {p}
      BY <1>9, <2>1
    <3>2. /\ IsFiniteSet(Pending \ {p})
          /\ Cardinality(Pending \ {p}) = Cardinality(Pending) - 1
      BY <1>2, <2>2, FS_RemoveElement
    <3>3. Cardinality(Pending') <= Cardinality(Pending \ {p})
      BY <3>1, <3>2, FS_Subset
    <3> QED
      BY <3>2, <3>3
  <2>4. ActiveJobs' \subseteq ActiveJobs \cup {job[p]}
    <3>1. \A q \in Procs : Commit(q) /\ op[q] = "create" => q = p
      BY <2>1, <2>2, <1>2, CommitOnce
    <3> QED
      BY <3>1, <1>7 DEF StatusStep, ActiveJobs, ActiveStatuses, TerminalStatuses, Jobs
  <2>5. ActiveJobCount' <= ActiveJobCount + 1
    <3>1. /\ IsFiniteSet(ActiveJobs \cup {job[p]})
          /\ Cardinality(ActiveJobs \cup {job[p]}) <= ActiveJobCount + 1
      BY <1>4, FS_AddElement DEF ActiveJobCount
    <3>2. Cardinality(ActiveJobs') <= Cardinality(ActiveJobs \cup {job[p]})
      BY <2>4, <3>1, FS_Subset
    <3>3. Cardinality(ActiveJobs \cup {job[p]}) \in Nat
      BY <3>1, FS_CardinalityType
    <3> QED
      BY <3>1, <3>2, <3>3, <1>4, <1>6
  <2> QED
    BY <2>3, <2>5, <1>1, <1>2, <1>3, <1>4, <1>6, BoundsAssumption DEF QueueInv
<1>10. CASE /\ Pending' \subseteq Pending
            /\ ~ \E p \in Procs : Commit(p) /\ op[p] = "create"
  <2>1. ActiveJobs' \subseteq ActiveJobs
    BY <1>10, <1>7 DEF StatusStep, ActiveJobs, ActiveStatuses, TerminalStatuses, Jobs
  <2>2. Cardinality(ActiveJobs') <= ActiveJobCount
    BY <2>1, <1>4, FS_Subset DEF ActiveJobCount
  <2>3. Cardinality(Pending') <= Cardinality(Pending)
    BY <1>10, <1>2, FS_Subset
  <2> QED
    BY <2>2, <2>3, <1>1, <1>2, <1>3, <1>4, <1>6, BoundsAssumption DEF QueueInv
<1> QED
  BY <1>8, <1>9, <1>10, PendingStep

\* The portal starts with an empty queue and no submission under way.
LEMMA QueueInit == Init => QueueInv
<1> SUFFICES ASSUME Init PROVE QueueInv
  OBVIOUS
<1>1. ActiveJobs = {} /\ Pending = {}
  BY DEF Init, NoRow, ActiveJobs, ActiveStatuses, Pending, Procs
<1>2. IsFiniteSet(Creators) /\ Cardinality(Creators) \in Nat /\ Cardinality(Creators) # 0
  <2>1. IsFiniteSet(Creators)
    BY ProcsAssumption, FS_Union DEF Creators
  <2> QED
    BY <2>1, ProcsAssumption, FS_CardinalityType, FS_EmptySet
<1> QED
  BY <1>1, <1>2, FS_EmptySet, BoundsAssumption DEF QueueInv, ActiveJobCount

\* The queue never holds more than the limit plus the submitters less one.
THEOREM QueueBounded == Spec => []QueueBound
<1>1. IInv /\ QueueInv => QueueBound
  <2>1. IsFiniteSet(Creators) /\ IsFiniteSet(Pending)
    <3>1. IsFiniteSet(Creators)
      BY ProcsAssumption, FS_Union DEF Creators
    <3>2. Pending \subseteq Creators
      BY DEF Pending
    <3> QED
      BY <3>1, <3>2, FS_Subset
  <2>2. /\ Cardinality(Creators) \in Nat /\ Cardinality(Pending) \in Nat
        /\ ActiveJobCount \in Nat
    BY <2>1, CountType, FS_CardinalityType
  <2> QED
    BY <2>2, BoundsAssumption DEF QueueInv, QueueBound
<1> QED
  BY <1>1, Invariance, QueueInit, QueueStep, PTL DEF Spec
=============================================================================
