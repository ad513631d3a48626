------------------------------ MODULE JobQueue ------------------------------
(***************************************************************************)
(* The job queue of portal/services.py, as run by the three kinds of       *)
(* process that share its table: web requests (create_job), the worker     *)
(* command (run_worker: recover, claim, execute, finish) and the smoke     *)
(* command (run_smoke_job: create, start, execute, finish).                *)
(*                                                                         *)
(* The database is PostgreSQL at READ COMMITTED, as docker-compose.yml     *)
(* deploys it.  A statement reads the committed rows plus the rows its own *)
(* transaction wrote; a write locks its row until the transaction ends and *)
(* waits for another holder; outside transaction.atomic every statement    *)
(* commits on its own.  One action is one such statement.                  *)
(*                                                                         *)
(* Jobs are numbered in submission order, the (submitted_at, pk) order of  *)
(* every query.                                                            *)
(*                                                                         *)
(* A definition Name_Variant is Name with a bug in it: the properties are  *)
(* tried on it, and nothing in the specification uses it.                  *)
(***************************************************************************)
EXTENDS Naturals, Integers, FiniteSets

CONSTANTS
    MaxJobs,        \* bound: rows ever inserted
    JobQueueLimit,  \* settings.JOB_QUEUE_LIMIT
    Web,            \* concurrent web requests, each able to submit a job
    Workers,        \* run_worker processes
    Once,           \* the workers started with --once
    Smokes,         \* run_smoke_job processes
    Deletable,      \* jobs whose owner an administrator may delete
    NoProc,         \* "no process", for the lock table
    MaxCrashes      \* bound: processes killed or cut off from the database

Creators  == Web \cup Smokes
Executors == Workers \cup Smokes
Procs     == Creators \cup Executors
Jobs      == 1..MaxJobs

ASSUME BoundsAssumption == /\ MaxJobs \in Nat \ {0}
                           /\ JobQueueLimit \in Nat
                           /\ MaxCrashes \in Nat
                           /\ Deletable \subseteq Jobs
ASSUME ProcsAssumption  == /\ IsFiniteSet(Web) /\ IsFiniteSet(Workers)
                           /\ IsFiniteSet(Smokes)
                           /\ Creators # {}
                           /\ Web \cap Executors = {}
                           /\ Workers \cap Smokes = {}
                           /\ Once \subseteq Workers
                           /\ NoProc \notin Procs

VARIABLES
    db,        \* the committed version of each row of portal_job
    new,       \* the version its lock holder sees; db[j] where nobody holds it
    lock,      \* the transaction that holds the row, or NoProc
    art,       \* the kinds of portal_jobartifact rows of each job
    nextJob,   \* number of the next row to insert
    crashes,   \* crashes so far
    pc,        \* the statement each process runs next
    op,        \* the service function it is in
    job,       \* the job it creates, starts or executes; 0 for none
    depth,     \* create_job's current_queue_depth
    found,     \* stale jobs mark_stale_running_jobs_failed has yet to lock
    todo,      \* position updates a refresh has yet to send; 0 for none
    result     \* how the backend run of an executor ended

tables == <<db, new, lock>>
vars == <<db, new, lock, art, nextJob, crashes,
          pc, op, job, depth, found, todo, result>>

\* "absent" is a row not inserted yet, "deleted" one that went with its owner.
Statuses == {"absent", "queued", "running", "completed", "failed", "deleted"}
ActiveStatuses   == {"queued", "running"}
TerminalStatuses == {"completed", "failed"}

\* queue_position 0 is None; failure_message is one of the texts services.py
\* writes: none, the stale-worker text, the backend's own, "could not be saved".
Row == [status : Statuses, queue_position : Nat,
        failure_message : {"", "stale", "backend", "unsaved"}]
NoRow == [status |-> "absent", queue_position |-> 0, failure_message |-> ""]
GoneRow == [NoRow EXCEPT !.status = "deleted"]

Statements == {"down", "idle", "insert", "start", "poll", "exec", "save",
               "clear", "report", "plot", "unsaved", "lock", "refresh", "update"}
Operations == {"create", "start", "finish", "recover"}
Results    == {"none", "ok", "error", "raised"}

-----------------------------------------------------------------------------
(* Reads and writes of one process                                         *)

View(p, j) == IF lock[j] = p THEN new[j] ELSE db[j]

\* mark_job_completed and mark_job_failed are the only operations that are not
\* wrapped in transaction.atomic.
InTransaction(p) == op[p] # "finish"

\* An UPDATE or INSERT of row j by p: waits for another holder of the row.
Write(p, j, row) ==
    /\ lock[j] \in {NoProc, p}
    /\ new' = [new EXCEPT ![j] = row]
    /\ IF InTransaction(p)
       THEN lock' = [lock EXCEPT ![j] = p] /\ UNCHANGED db
       ELSE db' = [db EXCEPT ![j] = row] /\ UNCHANGED lock

Gone(j) == db[j].status = "deleted"

Goto(p, label) == pc' = [pc EXCEPT ![p] = label]

\* p goes away with its transaction: a worker has to be started again, a
\* request or a smoke command is over.
Rollback(p) ==
    /\ lock' = [j \in Jobs |-> IF lock[j] = p THEN NoProc ELSE lock[j]]
    /\ new' = [j \in Jobs |-> IF lock[j] = p THEN db[j] ELSE new[j]]
    /\ pc' = [pc EXCEPT ![p] = IF p \in Workers THEN "down" ELSE "idle"]
    /\ op' = [op EXCEPT ![p] = IF p \in Workers THEN "recover" ELSE "create"]
    /\ job' = [job EXCEPT ![p] = 0]
    /\ depth' = [depth EXCEPT ![p] = 0]
    /\ found' = [found EXCEPT ![p] = {}]
    /\ todo' = [todo EXCEPT ![p] = [j \in Jobs |-> 0]]
    /\ result' = [result EXCEPT ![p] = "none"]
    /\ UNCHANGED <<db, art, nextJob>>

ActiveJobs == {j \in Jobs : db[j].status \in ActiveStatuses}
ActiveJobCount == Cardinality(ActiveJobs)

\* The index refresh_queue_positions gives job j.
Rank_FromZero(p, j) ==
    Cardinality({i \in 1..(j-1) : View(p, i).status \in ActiveStatuses})
Rank(p, j) ==
    Cardinality({i \in 1..j : View(p, i).status \in ActiveStatuses})

-----------------------------------------------------------------------------
(* create_job, in a web request or in the smoke command                    *)

QueueHasRoom_OffByOne == ActiveJobCount <= JobQueueLimit
QueueHasRoom == ActiveJobCount < JobQueueLimit

\* QueueFullError, the other outcome, leaves everything as it was.
CountActiveJobs(p) ==
    /\ pc[p] = "idle" /\ p \in Creators
    /\ nextJob \in Jobs
    /\ QueueHasRoom
    /\ depth' = [depth EXCEPT ![p] = ActiveJobCount]
    /\ Goto(p, "insert")
    /\ UNCHANGED <<tables, art, nextJob, crashes, op, job, found, todo, result>>

\* No dataset resolves (RuntimeError) or the profile is unknown (ValueError).
RejectSubmission(p) ==
    /\ pc[p] = "insert"
    /\ depth' = [depth EXCEPT ![p] = 0]
    /\ Goto(p, "idle")
    /\ UNCHANGED <<tables, art, nextJob, crashes, op, job, found, todo, result>>

InsertJob(p) ==
    /\ pc[p] = "insert"
    /\ nextJob \in Jobs
    /\ Write(p, nextJob, [status |-> "queued", queue_position |-> depth[p] + 1,
                          failure_message |-> ""])
    /\ job' = [job EXCEPT ![p] = nextJob]
    /\ depth' = [depth EXCEPT ![p] = 0]
    /\ nextJob' = nextJob + 1
    /\ Goto(p, "refresh")
    /\ UNCHANGED <<art, crashes, op, found, todo, result>>

-----------------------------------------------------------------------------
(* refresh_queue_positions, and the end of the operation it closes         *)

\* The SELECT: which rows carry another position than their rank.
SelectPositions(p) ==
    /\ pc[p] = "refresh"
    /\ todo' = [todo EXCEPT ![p] = [j \in Jobs |->
          IF /\ View(p, j).status \in ActiveStatuses
             /\ View(p, j).queue_position # Rank(p, j)
          THEN Rank(p, j) ELSE 0]]
    /\ Goto(p, "update")
    /\ UNCHANGED <<tables, art, nextJob, crashes, op, job, depth, found, result>>

NextUpdate(p, j) == /\ pc[p] = "update" /\ todo[p][j] # 0
                    /\ \A i \in 1..(j-1) : todo[p][i] = 0

\* One UPDATE: by primary key only, whatever the row's status is by now; of a row
\* that is gone it changes nothing.
UpdatePosition(p, j) ==
    /\ NextUpdate(p, j)
    /\ IF Gone(j) THEN UNCHANGED tables
       ELSE Write(p, j, [View(p, j) EXCEPT !.queue_position = todo[p][j]])
    /\ todo' = [todo EXCEPT ![p][j] = 0]
    /\ UNCHANGED <<art, nextJob, crashes, pc, op, job, depth, found, result>>

\* What follows: a smoke command starts the job it created, whoever started a
\* job executes it, a worker polls, once or again, everyone else is done.
NextOperation(p) ==
    CASE op[p] = "create" /\ p \in Smokes         -> <<"start", "start">>
      [] op[p] = "start"                          -> <<"exec", "finish">>
      [] op[p] = "recover"                        -> <<"poll", "start">>
      [] op[p] = "finish" /\ p \in Workers \ Once -> <<"poll", "start">>
      [] op[p] = "finish" /\ p \in Once           -> <<"down", "recover">>
      [] OTHER                                    -> <<"idle", "create">>

KeepsJob(p) == op[p] = "start" \/ (op[p] = "create" /\ p \in Smokes)

\* COMMIT of a transaction; after an autocommitted refresh p holds no lock.
Commit(p) ==
    /\ pc[p] = "update" /\ \A j \in Jobs : todo[p][j] = 0
    /\ db' = [j \in Jobs |-> View(p, j)]
    /\ lock' = [j \in Jobs |-> IF lock[j] = p THEN NoProc ELSE lock[j]]
    /\ pc' = [pc EXCEPT ![p] = NextOperation(p)[1]]
    /\ op' = [op EXCEPT ![p] = NextOperation(p)[2]]
    /\ job' = [job EXCEPT ![p] = IF KeepsJob(p) THEN @ ELSE 0]
    /\ result' = [result EXCEPT ![p] = "none"]
    /\ UNCHANGED <<new, art, nextJob, crashes, depth, found, todo>>

-----------------------------------------------------------------------------
(* start_queued_job, called by claim_next_queued_job and by the smoke command *)

Started(row) == [row EXCEPT !.status = "running", !.queue_position = 1]

MayStart_Unchecked(j) == db[j].status # "absent"
MayStart(j) == db[j].status = "queued"

\* claim_next_queued_job: FOR UPDATE SKIP LOCKED on the oldest queued row that
\* nobody has locked, started in the same transaction.
Claimable_ByPosition(j) == /\ db[j].status = "queued" /\ lock[j] = NoProc
                           /\ db[j].queue_position = 1
Claimable_RetryFailed(j) == /\ db[j].status \in {"queued", "failed"}
                            /\ lock[j] = NoProc
Claimable(j) == db[j].status = "queued" /\ lock[j] = NoProc

ClaimNextQueuedJob(p, j) ==
    /\ pc[p] = "poll"
    /\ Claimable(j) /\ \A i \in 1..(j-1) : ~Claimable(i)
    /\ Write(p, j, Started(db[j]))
    /\ job' = [job EXCEPT ![p] = j]
    /\ Goto(p, "refresh")
    /\ UNCHANGED <<art, nextJob, crashes, op, depth, found, todo, result>>

\* --once: a poll that finds no job ends the command.  Without it the worker
\* sleeps and polls again, which changes nothing.
PollNothing(p) ==
    /\ pc[p] = "poll" /\ p \in Once
    /\ ~ \E j \in Jobs : Claimable(j)
    /\ Goto(p, "down")
    /\ op' = [op EXCEPT ![p] = "recover"]
    /\ UNCHANGED <<tables, art, nextJob, crashes, job, depth, found, todo, result>>

StartQueuedJob(p) ==
    /\ pc[p] = "start"
    /\ MayStart(job[p])
    /\ Write(p, job[p], Started(db[job[p]]))
    /\ Goto(p, "refresh")
    /\ UNCHANGED <<art, nextJob, crashes, op, job, depth, found, todo, result>>

\* ValueError "Job must be queued before it can start", or DoesNotExist, ends the
\* smoke command.
RefuseToStart(p) ==
    /\ pc[p] = "start"
    /\ lock[job[p]] = NoProc /\ ~MayStart(job[p])
    /\ Goto(p, "idle")
    /\ op' = [op EXCEPT ![p] = "create"]
    /\ job' = [job EXCEPT ![p] = 0]
    /\ UNCHANGED <<tables, art, nextJob, crashes, depth, found, todo, result>>

-----------------------------------------------------------------------------
(* process_job: run the backend, then mark_job_completed / mark_job_failed *)

ExecuteJob_Uncaught(p) ==
    /\ pc[p] = "exec"
    /\ \/ /\ \E r \in {"ok", "error"} : result' = [result EXCEPT ![p] = r]
          /\ Goto(p, "save")
          /\ UNCHANGED <<tables, art, nextJob, op, job, depth, found, todo>>
       \/ Rollback(p)
    /\ UNCHANGED crashes
\* run_backend_job: exit code 0, another exit code, or an exception.
ExecuteJob(p) ==
    /\ pc[p] = "exec"
    /\ \E r \in {"ok", "error", "raised"} : result' = [result EXCEPT ![p] = r]
    /\ Goto(p, "save")
    /\ UNCHANGED <<tables, art, nextJob, crashes, op, job, depth, found, todo>>

Finished(r) == IF r = "ok"
    THEN [status |-> "completed", queue_position |-> 0, failure_message |-> ""]
    ELSE [status |-> "failed", queue_position |-> 0, failure_message |-> "backend"]

SaveResult_Inserts(p) ==
    /\ pc[p] = "save"
    /\ Write(p, job[p], Finished(result[p]))
    /\ Goto(p, IF result[p] = "raised" THEN "refresh" ELSE "clear")
    /\ UNCHANGED <<art, nextJob, crashes, op, job, depth, found, todo, result>>
SaveResult(p) ==
    /\ pc[p] = "save"
    /\ ~Gone(job[p])
    /\ Write(p, job[p], Finished(result[p]))
    /\ Goto(p, IF result[p] = "raised" THEN "refresh" ELSE "clear")
    /\ UNCHANGED <<art, nextJob, crashes, op, job, depth, found, todo, result>>

\* record_job_artifacts, one autocommitted statement at a time: the DELETE, the
\* report, then the plots, if the run made any.  A row for a job that is gone
\* violates the foreign key.
ClearArtifacts(p) ==
    /\ pc[p] = "clear"
    /\ art' = [art EXCEPT ![job[p]] = {}]
    /\ Goto(p, "report")
    /\ UNCHANGED <<tables, nextJob, crashes, op, job, depth, found, todo, result>>

CreateArtifact(p) ==
    /\ pc[p] \in {"report", "plot"}
    /\ ~Gone(job[p])
    /\ \/ /\ pc[p] = "report"
          /\ art' = [art EXCEPT ![job[p]] = @ \cup {"report"}]
          /\ pc' \in {[pc EXCEPT ![p] = "plot"], [pc EXCEPT ![p] = "refresh"]}
       \/ /\ pc[p] = "plot"
          /\ art' = [art EXCEPT ![job[p]] = @ \cup {"plot"}]
          /\ Goto(p, "refresh")
    /\ UNCHANGED <<tables, nextJob, crashes, op, job, depth, found, todo, result>>

ArtifactFailure_Ignored(p) ==
    /\ pc[p] \in {"clear", "report", "plot"}
    /\ Goto(p, "refresh")
    /\ UNCHANGED <<tables, art, nextJob, crashes, op, job, depth, found, todo, result>>
ArtifactFailure(p) ==
    /\ pc[p] \in {"clear", "report", "plot"}
    /\ Goto(p, "unsaved")
    /\ UNCHANGED <<tables, art, nextJob, crashes, op, job, depth, found, todo, result>>

SaveUnsaved(p) ==
    /\ pc[p] = "unsaved"
    /\ ~Gone(job[p])
    /\ Write(p, job[p], [db[job[p]] EXCEPT !.status = "failed",
                                           !.failure_message = "unsaved"])
    /\ Goto(p, "refresh")
    /\ UNCHANGED <<art, nextJob, crashes, op, job, depth, found, todo, result>>

-----------------------------------------------------------------------------
(* mark_stale_running_jobs_failed, the first thing a worker does           *)

StaleJobs_None == {}
StaleJobs == {j \in Jobs : db[j].status = "running"}

StartWorker(p) ==
    /\ pc[p] = "down"
    /\ found' = [found EXCEPT ![p] = StaleJobs]
    /\ Goto(p, "lock")
    /\ UNCHANGED <<tables, art, nextJob, crashes, op, job, depth, todo, result>>

NextStale(p, j) == /\ pc[p] = "lock" /\ j \in found[p]
                   /\ \A i \in found[p] : j <= i

\* FOR UPDATE locks the rows in order and tests a row again once it has it.
LockStaleJob(p, j) ==
    /\ NextStale(p, j)
    /\ lock[j] = NoProc
    /\ lock' = IF db[j].status = "running" THEN [lock EXCEPT ![j] = p] ELSE lock
    /\ found' = [found EXCEPT ![p] = @ \ {j}]
    /\ UNCHANGED <<db, new, art, nextJob, crashes, pc, op, job, depth, todo, result>>

Stale_Requeued(row) == [row EXCEPT !.status = "queued"]
Stale_Sentinel(row) ==
    [status |-> "failed", queue_position |-> -1, failure_message |-> "stale"]
Stale(row) == [status |-> "failed", queue_position |-> 0, failure_message |-> "stale"]

SaveStaleJobs(p) ==
    /\ pc[p] = "lock" /\ found[p] = {}
    /\ new' = [j \in Jobs |-> IF lock[j] = p THEN Stale(new[j]) ELSE new[j]]
    /\ Goto(p, "refresh")
    /\ UNCHANGED <<db, lock, art, nextJob, crashes, op, job, depth, found, todo, result>>

-----------------------------------------------------------------------------
(* Failures                                                                *)

\* save(update_fields=...) of a row that is gone raises DatabaseError, also the
\* one in the handler of mark_job_completed: the error ends the command.
SaveFails(p) ==
    /\ pc[p] \in {"save", "unsaved"}
    /\ Gone(job[p])
    /\ Rollback(p)
    /\ UNCHANGED crashes

Crash(p) ==
    /\ crashes < MaxCrashes
    /\ pc[p] \notin {"down", "idle"}
    /\ crashes' = crashes + 1
    /\ Rollback(p)

\* The row p's next statement has to wait for, if another transaction holds it.
Needs(p, j) == \/ NextUpdate(p, j)
               \/ NextStale(p, j)
               \/ pc[p] \in {"start", "save", "unsaved"} /\ j = job[p]
WaitsFor(p, q) == q # p /\ \E j \in Jobs : lock[j] = q /\ Needs(p, j)

\* Everybody in S waits for somebody in S, and is waited for by somebody in S.
Deadlock(S) == \A p \in S : /\ \E q \in S : WaitsFor(p, q)
                            /\ \E q \in S : WaitsFor(q, p)

\* PostgreSQL aborts one transaction of a waiting cycle; nothing in the code
\* catches the error, which ends the request or the command.
AbortDeadlocked(p) ==
    /\ \E q \in Procs : WaitsFor(p, q)
    /\ \E S \in SUBSET Procs : p \in S /\ Deadlock(S)
    /\ Rollback(p)
    /\ UNCHANGED crashes

-----------------------------------------------------------------------------
(* Users                                                                   *)

\* The Django admin site deletes the owner of j: Job.owner and JobArtifact.job
\* cascade.  The DELETE waits for the row's lock; one transaction, it leaves
\* everything or nothing, and an owner of several jobs is deleted job by job here.
DeleteJob(j) ==
    /\ j \in Deletable
    /\ db[j].status \notin {"absent", "deleted"}
    /\ lock[j] = NoProc
    /\ db' = [db EXCEPT ![j] = GoneRow]
    /\ new' = [new EXCEPT ![j] = GoneRow]
    /\ art' = [art EXCEPT ![j] = {}]
    /\ UNCHANGED <<lock, nextJob, crashes, pc, op, job, depth, found, todo, result>>

-----------------------------------------------------------------------------
Init ==
    /\ db = [j \in Jobs |-> NoRow]
    /\ new = [j \in Jobs |-> NoRow]
    /\ lock = [j \in Jobs |-> NoProc]
    /\ art = [j \in Jobs |-> {}]
    /\ nextJob = 1
    /\ crashes = 0
    /\ pc = [p \in Procs |-> IF p \in Workers THEN "down" ELSE "idle"]
    /\ op = [p \in Procs |-> IF p \in Workers THEN "recover" ELSE "create"]
    /\ job = [p \in Procs |-> 0]
    /\ depth = [p \in Procs |-> 0]
    /\ found = [p \in Procs |-> {}]
    /\ todo = [p \in Procs |-> [j \in Jobs |-> 0]]
    /\ result = [p \in Procs |-> "none"]

\* A process's own next statement, once it is in an operation.
Step(p) ==
    \/ InsertJob(p)
    \/ SelectPositions(p)
    \/ \E j \in Jobs : UpdatePosition(p, j)
    \/ Commit(p)
    \/ StartQueuedJob(p)
    \/ RefuseToStart(p)
    \/ \E j \in Jobs : ClaimNextQueuedJob(p, j)
    \/ PollNothing(p)
    \/ ExecuteJob(p)
    \/ SaveResult(p)
    \/ ClearArtifacts(p)
    \/ CreateArtifact(p)
    \/ ArtifactFailure(p) /\ Gone(job[p])
    \/ SaveUnsaved(p)
    \/ SaveFails(p)
    \/ \E j \in Jobs : LockStaleJob(p, j)
    \/ SaveStaleJobs(p)

Next ==
    \/ \E p \in Procs :
          \/ CountActiveJobs(p)
          \/ RejectSubmission(p)
          \/ ArtifactFailure(p)
          \/ StartWorker(p)
          \/ Step(p)
          \/ Crash(p)
          \/ AbortDeadlocked(p)
    \/ \E j \in Jobs : DeleteJob(j)

Spec == Init /\ [][Next]_vars

\* A process that is in an operation goes on with it: the operating system
\* schedules it, PostgreSQL queues those that wait for a row, so that each gets it
\* in the end, and breaks deadlocks; the backend run ends (services.py sets it no
\* timeout).  A claim skips locked rows and has no place in such a queue.  Whoever
\* operates the portal starts a worker that is down, as nothing here does.
Fairness == \A p \in Procs :
    /\ WF_vars(Step(p))
    /\ SF_vars(Step(p) /\ pc[p] # "poll")
    /\ WF_vars(AbortDeadlocked(p))
    /\ WF_vars(StartWorker(p))

FairSpec == Spec /\ Fairness

-----------------------------------------------------------------------------
(* Properties                                                              *)

\* Every variable has its type (portal/models.py, the local variables of
\* portal/services.py).
TypeOK ==
    /\ db \in [Jobs -> Row]
    /\ new \in [Jobs -> Row]
    /\ lock \in [Jobs -> Procs \cup {NoProc}]
    /\ art \in [Jobs -> SUBSET {"report", "plot"}]
    /\ nextJob \in 1..(MaxJobs + 1)
    /\ crashes \in 0..MaxCrashes
    /\ pc \in [Procs -> Statements]
    /\ op \in [Procs -> Operations]
    /\ job \in [Procs -> Jobs \cup {0}]
    /\ depth \in [Procs -> Nat]
    /\ found \in [Procs -> SUBSET Jobs]
    /\ todo \in [Procs -> [Jobs -> Nat]]
    /\ result \in [Procs -> Results]

\* create_job counts before it inserts, so concurrent submissions pass the
\* limit, but never by more than the submissions under way besides one.
QueueBound ==
    ActiveJobCount <= JobQueueLimit + Cardinality(Creators) - 1

Executing(p) == pc[p] \in {"exec", "save", "clear", "report", "plot", "unsaved"}

\* No two processes ever run the backend, or save results, for one job:
\* claim_next_queued_job and start_queued_job hand every job out once.
SingleExecutor ==
    \A p, q \in Procs : Executing(p) /\ Executing(q) /\ job[p] = job[q] => p = q

\* A job is started at most once: it becomes RUNNING only out of QUEUED and is
\* never QUEUED again, through crashes, recovery and deadlocks.
NoRerun == [][\A j \in Jobs :
    /\ db[j].status # "running" /\ db'[j].status = "running"
          => db[j].status = "queued"
    /\ db[j].status # "absent" /\ db'[j].status = "queued"
          => db[j].status = "queued"]_vars

\* With one worker and nobody else starting jobs, a RUNNING job past recovery is
\* in the hands of the worker: a crash never strands it.
Attended ==
    \A w \in Workers, j \in Jobs :
        db[j].status = "running" /\ pc[w] \notin {"down", "lock"} /\ op[w] # "recover"
        => job[w] = j

\* What a finished job says stays as it is, except that a COMPLETED one may
\* turn FAILED once, when its results could not be saved, and a user be deleted.
TerminalIsFinal == [][\A j \in Jobs :
    db[j].status \in TerminalStatuses =>
        \/ db'[j].status = "deleted"
        \/ /\ db'[j].status = db[j].status
           /\ db'[j].failure_message \in {db[j].failure_message, "unsaved"}
        \/ db'[j].status = "failed" /\ db'[j].failure_message = "unsaved"]_vars

\* The position a waiting or running job shows promises no shorter queue than
\* there is, but for the other submissions under way when it was counted: a refresh
\* that read an older queue can only err on the long side.
NeverOptimistic ==
    \A j \in ActiveJobs :
        Cardinality({i \in ActiveJobs : i <= j})
            <= db[j].queue_position + Cardinality(Creators) - 1

\* A younger job is started before an older one that waits only while another
\* process holds the older row on the way to the end of a transaction, never for as
\* long as a backend runs or its results are saved (SKIP LOCKED).
OvertakesOnlyHeld == [][\A w \in Workers, j \in Jobs :
    pc[w] = "poll" /\ job[w] # j /\ job'[w] = j =>
        \A i \in 1..(j-1) : db[i].status = "queued" =>
            \E q \in Procs \ {w} : /\ lock[i] = q /\ op[q] # "finish"
                                   /\ pc[q] \in {"refresh", "update"}]_vars

\* A job that went with its owner comes back neither as a row nor as an artifact,
\* although the worker that executes it goes on to save both.
DeletedIsGone == [][\A j \in Jobs :
    db[j].status = "deleted" => db'[j].status = "deleted" /\ art'[j] = {}]_vars

\* Who executes a job: from the commit that starts it to the end of process_job.
Holders == [j \in Jobs |-> {p \in Executors : op[p] = "finish" /\ job[p] = j}]

\* A job that is executed loses its last executor while it is RUNNING only if that
\* one is killed: no outcome of the backend, no error of a save and no deadlock
\* leaves it to the next recovery, whatever recovery, smoke commands and deletions do.
StrandedByDeath == [][\A j \in Jobs :
    db[j].status = "running" /\ Holders[j] # {}
        /\ db'[j].status = "running" /\ Holders'[j] = {}
    => \E p \in Holders[j] : Crash(p)]_vars

\* p has committed an outcome and is at the artifacts, or at the status that says
\* they could not be recorded.
Recording(p) == pc[p] \in {"clear", "report", "unsaved"}

Unreported(j) == /\ db[j].status = "completed" /\ "report" \notin art[j]
                 /\ Holders[j] = {}

\* docs/plan-v1-spec.md: "exactly one primary downloadable artifact per job".  A
\* COMPLETED job is left without its report only by the death of the very process
\* that finished it, after the save of the status and before that of the report.
CompletedHasReport == [][\A j \in Jobs :
    ~Unreported(j) /\ Unreported(j)'
    => \E p \in Holders[j] : Recording(p) /\ Crash(p)]_vars

\* The queue implements the life of a job: its statements, locks, crashes and
\* deadlocks show committed statuses, and executors between the commit that starts
\* a job and the end of process_job, only as JobLifecycle allows.
CommittedStatus == [j \in Jobs |-> db[j].status]

Lifecycle == INSTANCE JobLifecycle
             WITH status <- CommittedStatus, holders <- Holders

ImplementsLifecycle == Lifecycle!Spec

\* Every submitted job reaches a terminal status, or goes with its owner.
JobsFinish == \A j \in Jobs :
    db[j].status = "queued" ~> db[j].status \in TerminalStatuses \cup {"deleted"}

\* docs/2026-05-20-github-issues-spec.md: recovery fails the jobs "owned by a
\* previous worker lifetime", not one that a live process is running.
RecoversOnlyAbandoned == [][\A j \in Jobs :
    db[j].failure_message = "" /\ db'[j].failure_message = "stale"
    => \A p \in Procs : Executing(p) => job[p] # j]_vars

\* docs/2026-05-20-github-issues-spec.md: "Queue counts and positions exclude
\* these failed terminal jobs", the ones recovery has failed.
RecoveredHasNoPosition ==
    \A j \in Jobs : db[j].failure_message = "stale" => db[j].queue_position = 0

\* docs/2026-05-20-github-issues-spec.md: "Worker execution must catch unexpected
\* exceptions": only a crash takes a worker down, not an error it could catch.
WorkerCatchesErrors == [][\A w \in Workers :
    pc[w] # "down" /\ pc'[w] = "down" => crashes' > crashes]_vars
=============================================================================
