# hep-data-web in TLA+

hep-data-web is a Django portal: users sign in with GitHub, administrators
approve them, approved users submit analysis prompts, and a worker process runs
the `hep-data-llm` backend for one job after another and stores the report and
plots.  This directory models the parts of it that hold state and interact, checks
them with TLC, and proves the main results with TLAPS.

Paths below are relative to the repository root.

## 1. Inventory

| Component | State | Operations | Hard parts |
|---|---|---|---|
| Job queue: `portal/services.py`, `portal/management/commands/run_worker.py`, `run_smoke_job.py`, `portal/models.py` | tables `portal_job`, `portal_jobartifact`; the local variables of each process | `create_job`, `claim_next_queued_job`, `start_queued_job`, `process_job`, `mark_job_completed`, `mark_job_failed`, `record_job_artifacts`, `mark_stale_running_jobs_failed`, `refresh_queue_positions` | requests, worker and smoke command share the tables under READ COMMITTED; row locks, SKIP LOCKED, deadlocks; crash between statements; saves outside a transaction |
| Job page: `portal/views.py`, `templates/portal/job_detail.html`, `_job_detail_panel.html` | what a browser shows, its timer | `job_detail`, `job_detail_partial`, the polling script | two reads while the worker writes; failing requests; when to stop |
| Accounts and approval: `portal/auth.py`, `middleware.py`, `notifications.py`, `views.py`, `models.py` | `portal_userprofile`, sessions, mails | `github_login`, `github_callback`, `auth_status`, `logout`, the gate, `admin_users`, `admin_user_decision` | a profile read before a mail and saved after it; a session older than a decision; `send_mail` raising |
| Submission and backend command: `portal/backend.py`, `create_job`, `clone_job` | environment, form, stored job, backend command | dataset resolution, `load_example_questions`, `render_job_prompt`, `docker_image_for_profile` | two readings of one prompt; an environment that changes between a job and its clone |
| Artifact files and downloads: `portal/services.py`, `portal/views.py` | a directory of files per job | `run_backend_job` writes them, `record_job_artifacts` names them, `job_artifact_download`, `job_artifact_inline` serve them | files outlive rows, crashes and pages |
| Home page and history, settings, migrations, Django admin site, deployment files | none of their own | read or configure | not modelled, see section 8 |

How they interact.  A request that passes the gate may call `create_job`
(`submit_job`, `clone_job`), which inserts a row and renumbers the queue in one
transaction.  The worker first fails every RUNNING job (recovery), then repeats:
claim the oldest QUEUED row nobody has locked, run the backend, save the result.
`run_smoke_job` creates, starts and executes a job of its own.  The three meet in
the table only, through row locks.  Job pages read job and artifact rows while
they change, and their links lead to files a run left in its job's directory.
Approval and queue share no state but the user: the gate decides before the view
runs, and a decision may fall in between.  Deleting a user in the Django admin
site deletes the user's jobs, also one that is being executed.

What makes each correct:

* queue: bounded; a job handed out once, never run again, never stranded; a
  finished job stays as it is and has its report; positions are not too
  optimistic; a deleted job stays deleted; every job finishes;
* page: never goes back, never ahead of the job, reaches the end and shows the
  results; its links lead to files of its own job;
* approval: only a decision changes a state; whoever is admitted is approved;
  the administrators know of whoever waits; an approved user gets in; whose
  approval is withdrawn submits at most what was past the gate already;
* submission: the recorded dataset is the one the prompt names, and the backend is
  told of it; a clone repeats its job; each profile runs in its own image.

`PROJECT.json` lists the hazards behind these, each at its line.

## 2. Modules

| Module | About |
|---|---|
| `JobLifecycle` | what the queue promises of a job: submitted, taken once, ended by its executor or by recovery, deleted |
| `JobQueue` | the job queue, one action per SQL statement; implements `JobLifecycle` |
| `JobQueueProofs` | type correctness, one executor, no rerun, who is overtaken, queue bound |
| `JobLifecycleProofs` | the refinement; deletion; stranded jobs |
| `RecoveryProofs` | what crashes and failures leave behind, whom recovery fails, what ends a worker |
| `PositionProofs` | positions; who deadlocks |
| `JobPage` | EXTENDS `JobQueue`: pages over the queue |
| `JobFiles` | EXTENDS `JobPage`: the files behind the links of the pages |
| `PageProofs` | theorems about `JobPage` and `JobFiles` |
| `Membership` | what sign-in and approval promise of an account: a standing that administrators decide, the mail, who is signed in, who is inside |
| `Approval` | accounts, sessions, gate, decisions, in the statements of the code; implements `Membership` |
| `ApprovalProofs` | theorems about `Approval` and the refinement |
| `Portal`, `PortalProofs` | composes instances of `Approval` and `JobQueue`: submissions behind the gate |
| `Submission`, `SubmissionProofs` | datasets, clones, backend command |
| `MCJobQueue`, `MCJobPage`, `MCJobFiles`, `MCApproval`, `MCPortal`, `MCSubmission` | values and symmetry for TLC |

A definition named `Name_Variant` is `Name` with a plausible bug; the properties
are tried on it.  It is no part of any specification.

### JobQueue

| Model | Code |
|---|---|
| `db`, `new`, `lock` | rows of `portal_job`: committed, as the lock holder sees them, who holds the lock |
| `art` | rows of `portal_jobartifact`, by kind |
| `pc`, `op`, `job` | the statement a process runs next, the service function it is in, and its job |
| `depth`, `todo`, `found`, `result` | `current_queue_depth`; the updates of a refresh still to send; the stale jobs still to lock; how the backend ended |
| `CountActiveJobs`, `RejectSubmission`, `InsertJob` | `create_job` |
| `SelectPositions`, `UpdatePosition`, `Commit` | `refresh_queue_positions`, which ends every operation, and its COMMIT |
| `ClaimNextQueuedJob`, `StartQueuedJob`, `RefuseToStart` | `claim_next_queued_job`, `start_queued_job` |
| `ExecuteJob`, `SaveResult`, `ClearArtifacts`, `CreateArtifact`, `ArtifactFailure`, `SaveUnsaved` | `process_job`, `mark_job_completed`, `mark_job_failed`, `record_job_artifacts` |
| `StartWorker`, `LockStaleJob`, `SaveStaleJobs` | the start of `run_worker` and `mark_stale_running_jobs_failed` |
| `PollNothing` | a poll of `run_worker --once` that finds no job; the workers of `Once` also end with their first job |
| `DeleteJob` | the owner is deleted: `Job.owner` and `JobArtifact.job` cascade |
| `SaveFails` | `save(update_fields=...)` of a row that is gone raises, which ends the command |
| `Crash`, `AbortDeadlocked` | loss of a process; PostgreSQL aborting one of a cycle |

The database is PostgreSQL at READ COMMITTED, as `docker-compose.yml` deploys
it.  A statement sees committed rows and its own transaction's; a write waits for
another holder of the row.  `mark_job_completed` and `mark_job_failed` are not
wrapped in `transaction.atomic`, so each of their statements commits alone
(`InTransaction`).  `select_for_update` locks in order and tests the status
again once it has the row; `skip_locked` takes the first row nobody holds.
SQLite, the development default, serialises writers and is not modelled.

Jobs are numbered in `(submitted_at, pk)` order.  A rolled back insert leaves its
number unused.  Status CANCELLED is set by no code and is not in the model.
`claim_next_queued_job` re-reads the row it has locked in `start_queued_job`,
which can only agree with it, so the claim is one action.

`DeleteJob` deletes the jobs of one owner one by one, each with its artifacts,
and only committed ones: deleting an owner whose submission is under way makes
that submission fail, which `Crash` of a request is to the table.  An owner with
an artifact row inserted meanwhile rolls the deletion back, which is no step.

### JobLifecycle

`JobQueue` gives it the committed status of each job (`CommittedStatus`) and, as
`holders`, the executors between the commit that starts a job and the end of
`process_job` (`Holders`).  Statements inside a transaction are stutters; the
COMMIT is a `Submit`, `Take`, `Recover` or `GiveUp`; a save is a `Publish`; a crash
is a `GiveUp` or, of a process that holds nothing, a stutter.

### JobPage

The server reads the job (`ReadJob`, `_job_or_404`) and, in another statement,
its artifacts (`ShowPanel`).  The script asks again from `timer`; `AfterPanel` is
its test of `data-terminal`.  `PollFails` is a failed or non-OK fetch, `LosePanel`
a redirect to a page without the panel, after which the script stops.  A page
whose job was deleted polls on and gets a 404 each time, which changes nothing.

### JobFiles

`files` is the content of `ARTIFACT_STORAGE_ROOT`, by directory and kind of file, each
remembering whose run wrote it; `paths` is the `JobExecutionResult` of each run.
`RunLeaves` conjoins the end of a run, or the death of its worker, with the files it
may have written by then (`Outputs`), and `RecordsImages` ties the loop of
`record_job_artifacts` to the images the result lists.  `Served` is the answer of
the download and inline views.

### Portal

The browsers of `Approval` are the web processes of `JobQueue`, by instances of
both modules over the same variables.  A request that has passed the gate
(`page[b] = "app"`) may begin `create_job`; until its transaction ends, the browser
does nothing else, while other browsers and administrators go on.  `late` counts
the jobs a user has inserted since an approval was withdrawn.

### Approval

`profile` is `portal_userprofile` (timestamps as set or not), `session` the Django
session of each browser, `pc` where its request is.  `GithubCallback`,
`NotifyAdmins`, `MarkNotified`, `LoginUser` are the statements of `github_callback`
with the mail between them; `seen` is the profile object it read first.  `Gate` is
`ApprovalGateMiddleware`.  Its `allowed_prefixes` name `/auth/github/...`, while
`portal/urls.py` routes `/accounts/github/...`; the sign-in views are therefore
behind the gate for a user who is signed in and not admitted, and so they are in
the model.  `announced` records the mails to the administrators.  The mail that
tells a user of a decision is sent once the decision is saved, and nothing reads
whether it was: `AdminUserDecision` leaves it out.  `AdminEmails` is the setting
`ADMIN_EMAILS`.  Without an address the mail goes to nobody and the profile is marked
all the same, so `PendingIsAnnounced` and `Membership` need one
(`RecipientsAssumption`); the repository's `README.md:70-78` lists the setting among the least a
deployment has.

### Membership

`Approval` gives it the approval state of each profile (`Standing`), the user of each
session (`SignedIn`), the browsers whose request is in a view (`InApplication`) and
`announced`.  `GithubCallback` is a `Register`, `NotifyAdmins` a `Tell`, `LoginUser` a
`SignIn`, `Gate` an `Enter` where it lets the request through, `AdminUserDecision` a
`Decide`.  The state kept in the session, redirects, `seen` and the notification
marks are not seen: statements that change only those are stutters.  So a
decision or another sign-in of the same user may fall between the statements of a
callback, and the callback is still one `SignIn`, allowed at the moment it is done.

### Submission

A prompt is a sequence of tokens, one for each shape the regular expressions of
`backend.py` tell apart; a dataset is a token sequence.  `DatasetFromPrompt`
keeps two details of `r"rucio dataset\s+(.+)$"`: `\s+` crosses a line break and
`.` does not.  Quotes around a dataset are stripped like the trailing dots and
have no token.  The environment is read at every use, so `Restart` changes what a
later clone or command sees.

`config.candidates` lists what `load_example_questions` tries: a file name in a
package, with the fallback files of that package.  A direct file that is missing,
broken or blank is replaced by the first fallback file that can be read; if that one
is blank the fallback after it is not looked at, as the code leaves its loop there.  A
candidate without questions gives way to the next.

The views strip what a form sends (`Strip`), while a default dataset is recorded as
the setting has it.  A clone of a job with blanks around its dataset therefore stores
it without them, and `CloneRepeats` says so.

## 3. Runs that pass

Bounds: `MaxJobs` (rows ever inserted), `MaxCrashes`, and the sets of processes.
Three jobs are the least for a job ahead of, at and behind the one that moves;
two submitters the least for a race; one crash reaches every point of every
operation, and recovery after it meets any state.  The limit is below the number
of jobs so that the queue fills up.  One deletable job is enough, as nothing
relates two deleted ones.

| Run | Instance | Shows |
|---|---|---|
| `JobQueueWorker` | 3 jobs, limit 2, 2 requests, 1 worker, 1 crash, deletion of job 2 | `TypeOK`; `ImplementsLifecycle`; `Attended`: a job RUNNING after recovery is the worker's; `NoRerun`: RUNNING comes from QUEUED only and QUEUED never comes back; `TerminalIsFinal`; `DeletedIsGone`; `NeverOptimistic`; `CompletedHasReport`: a COMPLETED job lacks its report only if the process that finished it died before recording it; `OvertakesOnlyHeld`: a claim passes over an older queued job only while another process, at its refresh, holds the row |
| `JobQueueSmoke` | 3 jobs, limit 1, a request, a worker with `--once`, a smoke command, 1 crash, deletion of job 2 | `QueueBound`: the limit is passed by at most the other submitters; `SingleExecutor`: one process per job; `ImplementsLifecycle`; `StrandedByDeath`: only the death of its executor leaves a RUNNING job with nobody |
| `JobQueueLive` | 2 jobs, 2 requests, 1 worker, 1 crash, deletion of job 1, `FairSpec` | `JobsFinish`: every submitted job becomes COMPLETED or FAILED, or is deleted |
| `JobPageShown` | 2 jobs, 1 request, worker, crash, deletion, page, runs that write all files or none, `FairFilesSpec` | `PanelAdvances`, `PageReachesEnd`, `LinksWork`: a link leads to a file of the page's job, `PageTypeOK` |
| `ApprovalGate` | 2 users, administrator, 2 browsers, `FairSpec` | `DecisionsStick`, `DatesTellState`, `PendingIsAnnounced`, `TypeOK`; `ImplementsMembership`: among others, the gate opens for the approved only; `ApprovedGetIn`: an approved user's visit ends in the application |
| `PortalGate` | 1 user, administrator, 2 browsers, 3 jobs, limit 2 | `LateSubmissions`: a user whose approval was withdrawn submits at most one job for each browser |
| `SubmissionRequests` | 7 prompt shapes, 31 environments | `PromptWins`, `CloneRepeats`, `OwnImage`, `TypeOK` |

Deadlocks need three jobs and a smoke command (`JobQueueSmoke`) or four jobs and
two requests (`JobQueueWorkerExits`): positions must be wrong before a refresh
writes more than the row it has inserted.  `JobQueueLive` is too small for them.
What a deadlock does to a worker, though, is what a crash does, and the crash is
in the run.  In `JobQueueSmoke` both the worker and the smoke command may be the ones
killed, and a job may be deleted under either.  `StrandedByDeath` rules deadlocks out
as a cause: whoever executes a job commits each statement alone, holds no row between
two of them, and so is in no cycle of waiting transactions.

Which processes run matters.  `Attended` and `TerminalIsFinal` hold with one worker
and no smoke command, the stack as `docker-compose.yml` starts it.  With a smoke
command recovery may fail a live job and the smoke command then overwrites that
failure (`JobQueueRecoversLive`).  `NeverOptimistic` allows for the other submitters:
two that count the same queue both promise the same position.  `CompletedHasReport`
excuses one death only, at the step at which it happens: a process killed between
saving COMPLETED and recording the report leaves that job without one, which recovery
does not look at.  A crash of anything else, before or after, takes no report away.
Jobs are overtaken in `JobQueueWorker`: the head of the queue is passed over
while the refresh of a submission has its row.  `LinksWork` allows a report whose file the run did not write: its row
is recorded without a look at the file.

The 31 environments of `SubmissionRequests` cross the sources of the default dataset (a
setting; no file, a blank file before one whose second question names a dataset, a
blank fallback file that hides another, a package that has nothing before one whose
fallbacks have, a file without questions before one that names no dataset), give the
setting blanks, vary, apart from these, the profiles' images and both names of the
global one, and leave out the model or the repair cycles; the default and the image are
read by different operations.

`CHECK_DEADLOCK FALSE` in the queue, page and portal runs: the system does stop, when
`MaxJobs` jobs are done and the worker polls an empty queue (a poll that finds
nothing changes nothing and is not an action).

Symmetry: the requests of `JobQueueWorker` and the browsers of `PortalGate`, which
check no liveness, are interchangeable.

## 4. Fairness

* Queue: weak fairness of each process's own next statement, which the operating
  system schedules, and strong fairness of it where it is not a poll: a statement
  that waits for a row stands in PostgreSQL's queue for it and gets it in the end,
  however often others take the row before.  (With weak fairness alone a worker
  that loses a deadlock and is started again could take its row back for ever
  before the other transaction moves.)  A claim skips locked rows and stands in no
  queue, so it has weak fairness only.  The backend run ends: an assumption, as
  `run_backend_job` has no timeout, and `JOB_SOFT_TIMEOUT_SECONDS` and
  `JOB_HARD_TIMEOUT_SECONDS` are read nowhere.  Weak fairness of
  `AbortDeadlocked`: PostgreSQL's deadlock detector.  Weak fairness of
  `StartWorker`: an operator starts a worker that went down; the compose file has
  no restart policy, so without this assumption nothing is executed after a crash.
  Submitting, failing and crashing are not fair.
* Page: browsers run timers (weak), and not every poll fails (strong fairness of
  `ShowPanel`, which every failure disables).  `FairFilesSpec` is the same fairness
  over `JobFiles`.
* Approval: a request in progress goes on and redirects are followed.

## 5. Where the code and its documents differ

Each run finds the violation of one sentence of the repository; the finding in
`PROJECT.json` quotes it.

| Run | Sentence | What happens |
|---|---|---|
| `JobQueueRecoversLive` | `docs/2026-05-20-github-issues-spec.md:158`: jobs of a previous worker lifetime | recovery fails a live smoke job |
| `JobQueueRecoveredPosition` | same, line 181: positions exclude these failed terminal jobs | a refresh updates by primary key a job that recovery has failed |
| `JobQueueWorkerExits` | same, line 163: catch unexpected exceptions | a claim deadlocks with a submission, and the error ends the worker |
| `JobPageResults` | same, line 198: terminal results render | the page stops at COMPLETED, before the artifacts are there |
| `SubmissionUntold` | same, line 83: the form's dataset goes with the request | the prompt seems to name a dataset, and the form's is left out |

How far each goes is proved (section 6):

* where one process alone executes jobs, recovery fails none that is being executed
  (`OneExecutorRecovers`);
* a worker ends by a crash, by `--once`, in a deadlock or when it saves a job whose
  owner was deleted, and by nothing else (`WorkersOutliveErrors`); requests alone
  never deadlock (`DeadlocksTakeExecutors`);
* a page that stops at COMPLETED without the report stopped while the job was still
  being finished, or a process was killed with that job in hand
  (`PageMissesOnlyRecording`);
* a command leaves out the dataset of its job only if the prompt has a dataset word
  and no dataset can be read from it (`UntoldOnlyIfMentioned`).

Two sentences are answered by a passing property instead.  "Global queue limit:
20 jobs" (`docs/plan-v1-spec.md:209`) holds up to concurrent submissions, and
`QueueBound` says by how much it is passed.  "Queue position"
(`docs/plan-v1-spec.md:197`) may lag behind the rank, and `NeverOptimistic` says on
which side.

## 6. Proofs

All theorems hold for every value of the constants that satisfies the assumptions:
`BoundsAssumption` (`MaxJobs` positive, the limit and `MaxCrashes` natural),
`ProcsAssumption` (finite sets of processes, requests apart from executors,
workers apart from smoke commands, somebody who submits), `AccountsAssumption`
(users apart from administrators), `RecipientsAssumption` (an address in `ADMIN_EMAILS`),
`PortalAssumption` (both of these, for the composition), `ConfigsAssumption` and `FormsAssumption` (prompts, forms and environments
are of their types).

`JobQueueProofs`:

* `TypeCorrect`: `TypeOK` is inductive as it stands; one step per action.
* `Invariance`, `ExecutesOnce`, `NeverReruns`: `SingleExecutor` is not inductive,
  as it does not say who may own a job before it is executed.  `IInv` adds
  which operation a statement belongs to (`PcInv`), that an unlocked row has no
  uncommitted version and what the holder of a lock may have done to its row
  (`LockInv`), that nothing refers to a row before it is inserted (`FreshInv`),
  that whoever starts a job holds its row, still QUEUED in the committed version
  (`StartInv`), and that a job in execution is past QUEUED (`ExecInv`).  `NoRerun` follows from the
  statuses a step may write while `IInv` holds (`StatusStep`).
* `HeldRowsAreOvertaken`: a row that a claim skips is locked; whoever holds a row has
  done its work and is at its positions, or is a recovery that collects RUNNING rows
  (`LockInv`), and a worker at its poll holds nothing.
* `QueueBounded`: every submission that has counted and not yet committed has
  seen a queue with room, so active jobs and pending submissions together stay
  within the bound.  `QueueInv` says that, and `PendingStep` counts both sets over
  each action with the lemmas on finite sets.

`JobLifecycleProofs`: `StepEffect` sums up every action as one of five effects on
what `JobLifecycle` sees: nothing, a commit, the death of a process, a save, a
deletion.  `HoldInv` adds that holders hold started jobs.  From these:

* `RefinesLifecycle`: each effect is a step of `JobLifecycle` or a stutter;
* `DeletionLasts`: a job that is gone has no artifacts (`GoneInv`), and a save or an
  artifact for it fails;
* `OnlyDeathStrands`: past its save an execution leaves its job ended or gone
  (`DoneInv`), so whoever lets go of a RUNNING job was cut off before the save; no
  deadlock does that, as an executor that waits holds nothing (`NoVictim`), and a save
  fails only when the job is gone.

`RecoveryProofs`:

* `RecoveryAttends` and `TerminalStays` assume one worker and no smoke command, what
  `docker-compose.yml` starts; without that both are false, see section 3.
  `AttInv` says where every RUNNING job is while the worker is in each of its
  operations; `MessageInv` and `OpenInv` say that a transaction that leaves a
  status leaves its message, and that the job the worker has yet to save is not
  ended.
* `ReportsRecorded`: a COMPLETED job has its report or somebody who records it
  (`Reported`), and only the death of that process takes it out of this state
  (`ReportStep`).  A job that crash has left without a report is in that state no more,
  so what is inductive is that every job that is being executed is in it (`HeldInv`),
  with one executor for each (`OneHolder`); a job loses its last executor and lacks
  the report only at such a death (`LossStep`).
* `OnlyRecoveryFails`: a message that says a job was stale comes from the commit of a
  recovery that held the row, for any processes (`StaleInv`: an uncommitted version
  that says so is a recovery's).  `OneExecutorRecovers` follows: the only executor is
  recovering, so nobody executes.  It assumes one executor; with a smoke command
  `JobQueueRecoversLive` shows it false.
* `WorkersOutliveErrors` goes through the actions that end with a worker down.

`PositionProofs`:

* `PromisesHold`: `NeverOptimistic` speaks of committed positions, and a refresh writes
  what it has read some statements ago.  `PositionInv` makes the promise of three
  numbers: a committed position (`PosInv`), one that a refresh has read and not yet
  written (`TodoInv`), and one that it has written and not committed (`NewInv`).  The
  promise counts the rows at or ahead of a job that are active or wait for the commit
  of their submission; at most one row of each other submission waits (`PendInv`,
  `WaitInv`), and a refresh writes only rows it has seen (`SeenInv`).  Between the
  SELECT and the commit of a refresh the rows a position has to count only become
  fewer, except for rows of submissions, which are counted from the start
  (`RowShrinks`, `LoadsShrink`).  `RowEffect` sums up every action as one of four
  effects on a row, `RefreshEffect` what it does to the updates still to send.
* `SubmissionsNeverDeadlock`: the rows a submission holds come before all those it has
  yet to update (`OrderInv`), so in a cycle of submissions the last row anybody waits
  for has no holder that waits.  A claim, a start or a recovery holds a row from
  before its refresh, and one of them is in every deadlock.  Requests do nothing but
  submit (`OthersSubmit`), which gives `DeadlocksTakeExecutors`.

`PageProofs`: `PanelNeverGoesBack` needs that what the server has read is neither
behind the panel nor ahead of the job (`ShownInv`, in `PageInv`); `LinksLead` that a
directory, a result and the rows of a job are of its own run (`FilesInv`) and that
artifacts on a page are still recorded unless the job is gone (`ShownFiles`).
`PagesOnlyRead` shows that pages leave the queue the one that `JobQueue` specifies, so
what is proved of the queue holds with them.  `PageMissesOnlyRecording` takes
`ReportRecorded` over in this way, for one job: if no process dies with that job in hand
(`FinisherLives`, which says nothing of other crashes), a page that stops at COMPLETED
shows the report or stopped before the job's execution was over.

`SubmissionProofs`: `IInv` says what every stored job, an unedited clone form and a
command are made of; `PromptDecides`, `ImageOfProfile`, `ClonesRepeat` and
`TypeCorrect` follow.  `UntoldOnlyIfMentioned` needs more of the operators: a dataset read
from a prompt stands in the prompt, as a piece of one of its lines (`NamedIsInPrompt`,
from `SkipLinesEnd` and `RStripBegin`), and one that `RenderJobPrompt` adds stands in the
result (`AddedIsInPrompt`).  It adds no assumption.  `Tokens` is in its lemmas because
the provers do not know a literal for a string.

`ApprovalProofs`: `PendingIsAnnounced` is not inductive; `IInv` adds that a marked
profile has been announced (`MarkInv`), what a sign-in under way has done so far
(`SignInInv`) and that whoever is signed in has a profile (`SignedInInv`).
`Announced`, `DatesCorrect` and `TypeCorrect` follow; `DecisionsHold` is an action
property proved from it.  `RefinesMembership` has a lemma for
each kind of step: a sign-in is allowed at the moment it is done because the profile is
there and its user, if still pending, has been announced (`SignInInv`, `LoginStep`); a decision writes the profile of the administrator too (`DecideStep`).

`PortalProofs`: `QueueKept` and `ApprovalKept` show that the composition implements
both of its parts, so what is proved of them holds of it (`PortalBounded`,
`PortalAnnounces`, `PortalMembership`, `PortalPromises`; `RequestsNeverDeadlock`, as the
browsers of `Portal` execute nothing).  The second needs that a browser with a submission under way is
at a view for a signed-in user (`AtView`).  `LateBounded` counts, for a user who is
not approved, the jobs inserted since and the requests past the gate (`Past`):
together at most one for each browser (`LateInv`), as no request joins the latter.

Only model-checked: liveness (`JobsFinish`, `PageReachesEnd`, `ApprovedGetIn`), which is
beyond the prover.  Every other property of a passing run is a theorem.  The
sentences of section 5 are false as they stand; the theorems listed there say when they
hold.  What `DatasetFromPrompt` computes is proved as far as the theorems need it.

## 7. Plan

Done, in this order, most important behaviour first: `JobQueue` with its runs;
`JobQueueProofs`; `Approval`; `ApprovalProofs`; `JobPage`; `Submission`;
`JobLifecycle` and the refinement, as a PROPERTY and as a theorem; `--once` and
deletion of users; `RecoveryProofs`; `JobFiles` and `PageProofs`; example files and
`SubmissionProofs`; `Portal` and `PortalProofs`; `PositionProofs`, overtaking and how far
the findings go; `Membership` and its refinement.

Left:

1. several requests of one browser at a time over one stored session;
2. deletion of users in `Approval` and `Portal`.

## 8. Not modelled

* Home page and history, templates: they read and render.  Local times and wording
  are no subject of a property.  `queue_depth_at_submission`, times and the texts of
  a report are written once and shown.
* Settings, migrations, container files, the Django admin site, password log-in:
  configuration and framework.
* Cancelling jobs and job mails: described in `docs/`, not implemented.  The mail
  that tells a user of a decision: sent after the decision is saved, read by nothing.
* Deletion of users in `Approval`, and staff accounts as portal users.  In
  `JobQueue` a deletion takes one job at a time.
* Concurrent requests of one browser over one session.
* Blanks around a configured image or prompt: an image is stripped at its use, and the
  prompts of the model are stripped ones.
* Two artifacts of one kind: `plot` stands for all plots of a job.
