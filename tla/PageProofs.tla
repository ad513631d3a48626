----------------------------- MODULE PageProofs -----------------------------
(***************************************************************************)
(* Proofs about job pages over the job queue and about the files behind    *)
(* their links, for any pages, jobs and processes.                         *)
(***************************************************************************)
EXTENDS JobFiles, RecoveryProofs

\* How far a page, or the answer under way, may be: no further than its job.
ShownInv == \A t \in Pages :
    /\ stage[t] # "closed" => watched[t] \in Jobs
    /\ stage[t] \in {"timer", "asked", "done"} =>
          Progress(panel[t].status) <= Progress(db[watched[t]].status)
    /\ stage[t] \in {"loading", "lost", "closed"} => panel[t] = Blank
    /\ stage[t] \in {"loading", "asked"} =>
          /\ row[t] \notin {"absent", "deleted"}
          /\ Progress(row[t]) <= Progress(db[watched[t]].status)
          /\ Progress(panel[t].status) <= Progress(row[t])

PageInv == IInv /\ PageTypeOK /\ ShownInv

\* The phases are numbers, and a missing job has none.
LEMMA ProgressType ==
    /\ \A s : Progress(s) \in {0, 1, 2, 3}
    /\ Progress("absent") = 0 /\ Progress(Blank.status) = 0
    /\ \A s : Progress(s) = 0 => s = "absent"
  BY DEF Progress, Blank

\* A step of the queue takes no job back to an earlier phase.
LEMMA PhaseStep ==
    ASSUME IInv, [Next]_vars, NEW j \in Jobs
    PROVE  Progress(db[j].status) <= Progress(db'[j].status)
<1>1. StatusStep /\ db[j].status \in Statuses
  BY InvStep DEF IInv, TypeOK, Row
<1>2. \/ db'[j].status = db[j].status
      \/ db[j].status = "absent" /\ db'[j].status = "queued"
      \/ db[j].status = "queued" /\ db'[j].status = "running"
      \/ db'[j].status \in {"completed", "failed", "deleted"}
  BY <1>1 DEF StatusStep, TerminalStatuses
<1> QED
  BY <1>2 DEF Progress

LEMMA PageInvInit == PageInit => PageInv
<1> SUFFICES ASSUME PageInit PROVE PageInv
  OBVIOUS
<1>1. IInv
  BY InvInit DEF PageInit
<1>2. Blank \in Panel
  BY DEF Blank, Panel, Statuses
<1>3. PageTypeOK
  BY <1>2 DEF PageInit, PageTypeOK, Stages, Statuses
<1>4. ShownInv
  BY DEF PageInit, ShownInv
<1> QED
  BY <1>1, <1>3, <1>4 DEF PageInv

\* While pages wait, the queue moves on.
LEMMA QueueMoves ==
    ASSUME PageInv, [Next]_vars, UNCHANGED pageVars
    PROVE  PageInv'
<1>1. IInv'
  BY InvStep DEF PageInv
<1>2. PageTypeOK'
  BY DEF PageInv, PageTypeOK, pageVars
<1>3. ShownInv'
  <2> SUFFICES ASSUME NEW t \in Pages, stage[t] # "closed"
               PROVE  /\ stage[t] \in {"timer", "asked", "done"} =>
                            Progress(panel[t].status) <= Progress(db'[watched[t]].status)
                      /\ stage[t] \in {"loading", "asked"} =>
                            Progress(row[t]) <= Progress(db'[watched[t]].status)
    BY DEF PageInv, ShownInv, pageVars
  <2>1. Progress(db[watched[t]].status) <= Progress(db'[watched[t]].status)
    BY PhaseStep DEF PageInv, ShownInv
  <2>2. /\ Progress(panel[t].status) \in {0, 1, 2, 3} /\ Progress(row[t]) \in {0, 1, 2, 3}
        /\ Progress(db[watched[t]].status) \in {0, 1, 2, 3}
        /\ Progress(db'[watched[t]].status) \in {0, 1, 2, 3}
    BY ProgressType
  <2>3. /\ stage[t] \in {"timer", "asked", "done"} =>
              Progress(panel[t].status) <= Progress(db[watched[t]].status)
        /\ stage[t] \in {"loading", "asked"} =>
              Progress(row[t]) <= Progress(db[watched[t]].status)
    BY DEF PageInv, ShownInv
  <2> QED
    BY <2>1, <2>2, <2>3
<1> QED
  BY <1>1, <1>2, <1>3 DEF PageInv

\* What a step of page t shows next is no earlier, and no further than the job.
Advances(t) == panel'[t] # Blank =>
    /\ Progress(panel'[t].status) >= Progress(panel[t].status)
    /\ Progress(panel'[t].status) <= Progress(db[watched[t]].status)

\* While the queue waits, page t moves, and no other.
LEMMA PageMoves ==
    ASSUME PageInv, NEW t \in Pages, PageStep(t), UNCHANGED vars
    PROVE  /\ PageInv'
           /\ \A u \in Pages \ {t} : panel'[u] = panel[u]
           /\ Advances(t)
<1>i. IInv /\ PageTypeOK /\ ShownInv /\ TypeOK
  BY DEF PageInv, IInv
<1>t. /\ watched \in [Pages -> Jobs \cup {0}] /\ stage \in [Pages -> Stages]
      /\ row \in [Pages -> Statuses] /\ panel \in [Pages -> Panel]
      /\ \A u \in Pages : row[u] # "absent" <=> stage[u] \in {"loading", "asked"}
      /\ db \in [Jobs -> Row]
  BY <1>i DEF PageTypeOK, TypeOK
<1>v. db' = db /\ art' = art /\ IInv'
  <2>1. db' = db /\ art' = art
    BY DEF vars
  <2>2. IInv'
    BY <1>i, InvStep
  <2> QED
    BY <2>1, <2>2
<1>b. Blank \in Panel /\ "absent" \in Statuses
  BY DEF Blank, Panel, Statuses
<1>s. \A j \in Jobs : db[j].status \in Statuses
  BY <1>t DEF Row
<1> DEFINE Own == /\ watched'[t] \in Jobs
                  /\ stage'[t] \in {"timer", "asked", "done"} =>
                        Progress(panel'[t].status) <= Progress(db[watched'[t]].status)
                  /\ stage'[t] \in {"loading", "lost", "closed"} => panel'[t] = Blank
                  /\ stage'[t] \in {"loading", "asked"} =>
                        /\ row'[t] \notin {"absent", "deleted"}
                        /\ Progress(row'[t]) <= Progress(db[watched'[t]].status)
                        /\ Progress(panel'[t].status) <= Progress(row'[t])
<1>1. ASSUME NEW j \in Jobs, OpenPage(t, j) PROVE PageTypeOK' /\ Own /\ Advances(t)
  <2>1. /\ db[j].status \notin {"absent", "deleted"}
        /\ watched' = [watched EXCEPT ![t] = j]
        /\ row' = [row EXCEPT ![t] = db[j].status]
        /\ stage' = [stage EXCEPT ![t] = "loading"]
        /\ panel' = [panel EXCEPT ![t] = Blank]
    BY <1>1 DEF OpenPage, ReadJob
  <2>2. PageTypeOK'
    BY <1>t, <1>b, <1>s, <2>1 DEF PageTypeOK, Stages
  <2>3. Own
    BY <1>t, <2>1, ProgressType
  <2> QED
    BY <1>t, <2>1, <2>2, <2>3 DEF Advances
<1>2. ASSUME Poll(t) PROVE PageTypeOK' /\ Own /\ Advances(t)
  <2> DEFINE j == watched[t]
  <2>1. /\ stage[t] = "timer" /\ j \in Jobs
        /\ db[j].status \notin {"absent", "deleted"}
        /\ watched' = [watched EXCEPT ![t] = j]
        /\ row' = [row EXCEPT ![t] = db[j].status]
        /\ stage' = [stage EXCEPT ![t] = "asked"]
        /\ panel' = panel
    BY <1>2, <1>i DEF Poll, ReadJob, ShownInv
  <2>2. PageTypeOK'
    BY <1>t, <1>s, <2>1 DEF PageTypeOK, Stages
  <2>3. Progress(panel[t].status) <= Progress(db[j].status)
    BY <1>i, <2>1 DEF ShownInv
  <2>4. Own
    BY <1>t, <2>1, <2>3, ProgressType
  <2>5. Advances(t)
    BY <2>1, <2>3, ProgressType DEF Advances
  <2> QED
    BY <2>2, <2>4, <2>5
<1>3. ASSUME ShowPanel(t) PROVE PageTypeOK' /\ Own /\ Advances(t)
  <2> DEFINE j == watched[t]
  <2>1. /\ stage[t] \in {"loading", "asked"} /\ j \in Jobs
        /\ panel' = [panel EXCEPT ![t] = [status |-> row[t], artifacts |-> art[j]]]
        /\ stage' = [stage EXCEPT ![t] = AfterPanel(row[t])]
        /\ row' = [row EXCEPT ![t] = "absent"]
        /\ watched' = watched
        /\ Progress(row[t]) <= Progress(db[j].status)
        /\ Progress(panel[t].status) <= Progress(row[t])
    BY <1>3, <1>i DEF ShowPanel, ShownInv
  <2>2. [status |-> row[t], artifacts |-> art[j]] \in Panel
    BY <1>t, <1>i, <2>1 DEF Panel, TypeOK
  <2>3. AfterPanel(row[t]) \in {"timer", "done"}
    BY DEF AfterPanel
  <2>4. PageTypeOK'
    BY <1>t, <1>b, <2>1, <2>2, <2>3 DEF PageTypeOK, Stages
  <2>5. panel'[t].status = row[t] /\ stage'[t] \in {"timer", "done"} /\ watched'[t] = j
    BY <1>t, <2>1, <2>3
  <2>6. Own
    BY <2>1, <2>5, ProgressType
  <2>7. Advances(t)
    BY <2>1, <2>5, ProgressType DEF Advances
  <2> QED
    BY <2>4, <2>6, <2>7
<1>4. ASSUME PollFails(t) PROVE PageTypeOK' /\ Own /\ Advances(t)
  <2>1. /\ stage[t] = "asked" /\ watched[t] \in Jobs
        /\ stage' = [stage EXCEPT ![t] = "timer"]
        /\ row' = [row EXCEPT ![t] = "absent"]
        /\ watched' = watched /\ panel' = panel
        /\ Progress(panel[t].status) <= Progress(db[watched[t]].status)
    BY <1>4, <1>i DEF PollFails, ShownInv
  <2>2. PageTypeOK'
    BY <1>t, <1>b, <2>1 DEF PageTypeOK, Stages
  <2>3. Own
    BY <1>t, <2>1
  <2> QED
    BY <2>1, <2>2, <2>3, ProgressType DEF Advances
<1>5. ASSUME LosePanel(t) PROVE PageTypeOK' /\ Own /\ Advances(t)
  <2>1. /\ stage[t] = "timer" /\ watched[t] \in Jobs
        /\ stage' = [stage EXCEPT ![t] = "lost"]
        /\ panel' = [panel EXCEPT ![t] = Blank]
        /\ watched' = watched /\ row' = row
    BY <1>5, <1>i DEF LosePanel, ShownInv
  <2>2. PageTypeOK'
    BY <1>t, <1>b, <2>1 DEF PageTypeOK, Stages
  <2>3. Own
    BY <1>t, <2>1
  <2> QED
    BY <1>t, <2>1, <2>2, <2>3 DEF Advances
<1>6. PageTypeOK' /\ Own /\ Advances(t)
  BY <1>1, <1>2, <1>3, <1>4, <1>5 DEF PageStep
<1> HIDE DEF Own
<1>7. \A u \in Pages \ {t} : /\ panel'[u] = panel[u] /\ stage'[u] = stage[u]
                             /\ row'[u] = row[u] /\ watched'[u] = watched[u]
  BY <1>t DEF PageStep, OpenPage, Poll, ReadJob, ShowPanel, PollFails, LosePanel
<1>8. ShownInv'
  <2> SUFFICES ASSUME NEW u \in Pages
               PROVE  /\ stage'[u] # "closed" => watched'[u] \in Jobs
                      /\ stage'[u] \in {"timer", "asked", "done"} =>
                            Progress(panel'[u].status) <= Progress(db'[watched'[u]].status)
                      /\ stage'[u] \in {"loading", "lost", "closed"} => panel'[u] = Blank
                      /\ stage'[u] \in {"loading", "asked"} =>
                            /\ row'[u] \notin {"absent", "deleted"}
                            /\ Progress(row'[u]) <= Progress(db'[watched'[u]].status)
                            /\ Progress(panel'[u].status) <= Progress(row'[u])
    BY DEF ShownInv
  <2>1. CASE u = t
    BY <2>1, <1>6, <1>v DEF Own
  <2>2. CASE u # t
    BY <2>2, <1>7, <1>v, <1>i DEF ShownInv
  <2> QED
    BY <2>1, <2>2
<1> QED
  BY <1>v, <1>6, <1>7, <1>8 DEF PageInv

LEMMA PageInvStep ==
    ASSUME PageInv, [PageNext]_allVars
    PROVE  PageInv' /\ \A t \in Pages : Advances(t)
<1>1. ASSUME [Next]_vars, UNCHANGED pageVars PROVE PageInv' /\ \A t \in Pages : Advances(t)
  <2>1. PageInv'
    BY <1>1, QueueMoves
  <2>2. ASSUME NEW t \in Pages, panel[t] # Blank
        PROVE  Progress(panel[t].status) <= Progress(db[watched[t]].status)
    <3>1. stage[t] \in {"timer", "asked", "done"}
      BY <2>2 DEF PageInv, ShownInv, PageTypeOK, Stages
    <3> QED
      BY <3>1 DEF PageInv, ShownInv
  <2> QED
    BY <1>1, <2>1, <2>2, ProgressType DEF Advances, pageVars
<1>2. ASSUME NEW t \in Pages, PageStep(t), UNCHANGED vars
      PROVE  PageInv' /\ \A u \in Pages : Advances(u)
  <2>1. /\ PageInv' /\ Advances(t)
        /\ \A u \in Pages \ {t} : panel'[u] = panel[u]
    BY <1>2, PageMoves
  <2>2. ASSUME NEW u \in Pages, panel[u] # Blank
        PROVE  Progress(panel[u].status) <= Progress(db[watched[u]].status)
    <3>1. stage[u] \in {"timer", "asked", "done"}
      BY <2>2 DEF PageInv, ShownInv, PageTypeOK, Stages
    <3> QED
      BY <3>1 DEF PageInv, ShownInv
  <2> QED
    BY <2>1, <2>2, ProgressType DEF Advances
<1>3. CASE UNCHANGED allVars
  BY <1>1, <1>3 DEF allVars
<1> QED
  BY <1>1, <1>2, <1>3 DEF PageNext

\* The inductive invariant of the pages.
THEOREM PageInvariance == PageSpec => []PageInv
  BY PageInvInit, PageInvStep, PTL DEF PageSpec

\* The variables of the pages have their types, for any pages.
THEOREM PageTypeCorrect == PageSpec => []PageTypeOK
  BY PageInvariance, PTL DEF PageInv

\* However old what a page shows was when it was read, and however polls fail,
\* it never goes back nor runs ahead of its job: any pages, processes, crashes.
THEOREM PanelNeverGoesBack == PageSpec => PanelAdvances
<1>1. PageInv /\ [PageNext]_allVars => \A t \in Pages : Advances(t)
  BY PageInvStep
<1> QED
  BY <1>1, PageInvariance, PTL DEF PageSpec, PanelAdvances, Advances
-----------------------------------------------------------------------------
(* Files and links                                                         *)

\* The statements that follow one another while a process executes a job.
Successive == {<<"exec", "save">>, <<"save", "clear">>, <<"clear", "report">>,
               <<"report", "plot">>, <<"clear", "unsaved">>, <<"report", "unsaved">>,
               <<"plot", "unsaved">>}

\* p moves and nobody else: it begins to execute a queued job, goes on with its
\* job, or is in no execution afterwards; only it writes artifacts, of its job.
Moves(p) ==
    /\ \A q \in Procs \ {p} : pc'[q] = pc[q] /\ job'[q] = job[q]
    /\ \/ pc'[p] \notin {"exec", "save", "clear", "report", "plot", "unsaved"}
       \/ pc'[p] = pc[p] /\ job'[p] = job[p]
       \/ pc'[p] = "exec" /\ job'[p] \in Jobs /\ db[job'[p]].status = "queued"
       \/ <<pc[p], pc'[p]>> \in Successive /\ job'[p] = job[p]
    /\ \/ art' = art
       \/ pc[p] = "clear" /\ art' = [art EXCEPT ![job[p]] = {}]
       \/ /\ pc[p] = "report" /\ ~Gone(job[p])
          /\ art' = [art EXCEPT ![job[p]] = @ \cup {"report"}]
       \/ /\ pc[p] = "plot" /\ ~Gone(job[p])
          /\ art' = [art EXCEPT ![job[p]] = @ \cup {"plot"}]

\* A step that is not a deletion is one process's move.
LEMMA MoveStep ==
    ASSUME IInv, [Next]_vars
    PROVE  (\E p \in Procs : Moves(p)) \/ (\E j \in Jobs : DeleteJob(j))
<1>i. TypeOK /\ PcInv
  BY DEF IInv, JobInv
<1>t. /\ pc \in [Procs -> Statements] /\ op \in [Procs -> Operations]
      /\ job \in [Procs -> Jobs \cup {0}]
      /\ art \in [Jobs -> SUBSET {"report", "plot"}]
  BY <1>i DEF TypeOK
<1>1. ASSUME NEW p \in Procs,
             \/ CountActiveJobs(p) \/ RejectSubmission(p) \/ SelectPositions(p)
             \/ StartWorker(p) \/ SaveStaleJobs(p) \/ PollNothing(p) \/ RefuseToStart(p)
             \/ InsertJob(p) \/ StartQueuedJob(p)
             \/ \E j \in Jobs : ClaimNextQueuedJob(p, j)
      PROVE  Moves(p)
  BY <1>1, <1>t DEF CountActiveJobs, RejectSubmission, SelectPositions, StartWorker,
     SaveStaleJobs, PollNothing, RefuseToStart, InsertJob, StartQueuedJob,
     ClaimNextQueuedJob, Goto, Moves
<1>2. ASSUME NEW p \in Procs, NEW j \in Jobs, UpdatePosition(p, j) \/ LockStaleJob(p, j)
      PROVE  Moves(p)
  BY <1>2, <1>t DEF UpdatePosition, LockStaleJob, Moves
<1>3. ASSUME NEW p \in Procs, Commit(p) PROVE Moves(p)
  <2>1. /\ pc'[p] = NextOperation(p)[1] /\ art' = art
        /\ \A q \in Procs \ {p} : pc'[q] = pc[q] /\ job'[q] = job[q]
    BY <1>3, <1>t DEF Commit
  <2>2. /\ NextOperation(p)[1] \in {"start", "exec", "poll", "down", "idle"}
        /\ NextOperation(p)[1] = "exec" => op[p] = "start"
    BY DEF NextOperation
  <2>3. op[p] = "start" => job'[p] \in Jobs /\ db[job'[p]].status = "queued"
    BY <1>3, CommitEffect DEF StartsRow
  <2> QED
    BY <2>1, <2>2, <2>3 DEF Moves
<1>4. ASSUME NEW p \in Procs, ExecuteJob(p) \/ SaveResult(p) \/ SaveUnsaved(p) \/ ArtifactFailure(p)
      PROVE  Moves(p)
  BY <1>4, <1>t DEF ExecuteJob, SaveResult, SaveUnsaved, ArtifactFailure, Goto, Moves,
     Successive
<1>5. ASSUME NEW p \in Procs, ClearArtifacts(p) PROVE Moves(p)
  BY <1>5, <1>t DEF ClearArtifacts, Goto, Moves, Successive
<1>6. ASSUME NEW p \in Procs, CreateArtifact(p) PROVE Moves(p)
  BY <1>6, <1>t DEF CreateArtifact, Goto, Moves, Successive
<1>7. ASSUME NEW p \in Procs, Crash(p) \/ AbortDeadlocked(p) \/ SaveFails(p)
      PROVE  Moves(p)
  BY <1>7, <1>t DEF Crash, AbortDeadlocked, SaveFails, Rollback, Moves
<1>8. CASE UNCHANGED vars
  <2>1. PICK p \in Procs : TRUE
    BY ProcsAssumption DEF Procs
  <2>2. Moves(p)
    BY <1>8 DEF vars, Moves
  <2> QED
    BY <2>2
<1> QED
  BY <1>1, <1>2, <1>3, <1>4, <1>5, <1>6, <1>7, <1>8 DEF Next, Step

\* What a directory, a result and the artifacts of a job have to do with each
\* other: all are of the job's own run, and plots are recorded if it left any.
FilesTypeOK == /\ files \in [Jobs -> [Kinds -> Jobs \cup {0}]]
               /\ paths \in [Jobs -> [directory : Jobs \cup {0}, images : BOOLEAN]]

OwnFiles(j) ==
    /\ \A k \in Kinds : files[j][k] \in {0, j}
    /\ paths[j].directory \in {0, j}
    /\ paths[j].images => paths[j].directory = j /\ files[j]["plot"] = j
    /\ art[j] # {} => /\ paths[j].directory = j
                      /\ db[j].status \notin {"absent", "queued"}
    /\ "plot" \in art[j] => paths[j].images

\* An execution has a result once the run has ended, and artifacts only once it
\* has dropped those it found.
RunFiles(p) ==
    /\ Executing(p) /\ pc[p] # "exec" => paths[job[p]].directory = job[p]
    /\ pc[p] \in {"exec", "save", "clear"} => art[job[p]] = {}
    /\ pc[p] = "plot" => paths[job[p]].images

FilesInv == FilesTypeOK /\ (\A j \in Jobs : OwnFiles(j)) /\ (\A p \in Procs : RunFiles(p))

LEMMA FilesInvInit == FilesInit => FilesInv
<1> SUFFICES ASSUME FilesInit PROVE FilesInv
  OBVIOUS
<1>1. /\ art = [j \in Jobs |-> {}]
      /\ \A p \in Procs : pc[p] \in {"down", "idle"}
      /\ files = [d \in Jobs |-> [k \in Kinds |-> 0]]
      /\ paths = [j \in Jobs |-> NoPaths]
  BY DEF FilesInit, PageInit, Init
<1>2. FilesTypeOK
  BY <1>1 DEF FilesTypeOK, NoPaths
<1>3. \A j \in Jobs : OwnFiles(j)
  BY <1>1 DEF OwnFiles, NoPaths
<1>4. \A p \in Procs : RunFiles(p)
  BY <1>1 DEF RunFiles, Executing
<1> QED
  BY <1>2, <1>3, <1>4 DEF FilesInv

\* The one process whose run ends leaves files and result in its own directory.
LEMMA RunEffect ==
    ASSUME FilesInv, NEW p \in Procs, job[p] \in Jobs, RunLeaves(p)
    PROVE  /\ FilesTypeOK'
           /\ \A j \in Jobs \ {job[p]} : files'[j] = files[j] /\ paths'[j] = paths[j]
           /\ \A k \in Kinds : files'[job[p]][k] \in {0, job[p]}
           /\ paths'[job[p]].directory = job[p]
           /\ paths'[job[p]].images => files'[job[p]]["plot"] = job[p]
<1> DEFINE d == job[p]
<1>1. PICK out \in Outputs :
         files' = [files EXCEPT ![d] =
                     [k \in Kinds |-> IF k \in out THEN d ELSE files[d][k]]]
  BY DEF RunLeaves, ArtifactDirectory
<1>2. paths' = [paths EXCEPT ![d] =
                  [directory |-> d, images |-> files'[d]["plot"] # 0]]
  BY DEF RunLeaves, ArtifactDirectory
<1>3. /\ files \in [Jobs -> [Kinds -> Jobs \cup {0}]]
      /\ paths \in [Jobs -> [directory : Jobs \cup {0}, images : BOOLEAN]]
      /\ \A k \in Kinds : files[d][k] \in {0, d}
      /\ d \in Jobs /\ "plot" \in Kinds
  BY DEF FilesInv, FilesTypeOK, OwnFiles, Kinds
<1>4. /\ files'[d] = [k \in Kinds |-> IF k \in out THEN d ELSE files[d][k]]
      /\ \A j \in Jobs \ {d} : files'[j] = files[j]
      /\ files' \in [Jobs -> [Kinds -> Jobs \cup {0}]]
  BY <1>1, <1>3
<1>5. \A k \in Kinds : files'[d][k] \in {0, d}
  BY <1>3, <1>4
<1>6. /\ paths'[d] = [directory |-> d, images |-> files'[d]["plot"] # 0]
      /\ \A j \in Jobs \ {d} : paths'[j] = paths[j]
      /\ paths' \in [Jobs -> [directory : Jobs \cup {0}, images : BOOLEAN]]
  BY <1>2, <1>3
<1> QED
  BY <1>3, <1>4, <1>5, <1>6 DEF FilesTypeOK

\* A move keeps files, results and artifacts together.
LEMMA FilesMove ==
    ASSUME IInv, FilesInv, [Next]_vars, NEW p \in Procs, Moves(p),
           RecordsImages(p),
           IF \E q \in Procs : EndsRun(q)
           THEN \E q \in Procs : EndsRun(q) /\ RunLeaves(q)
           ELSE UNCHANGED fileVars
    PROVE  FilesInv'
<1>i. TypeOK /\ PcInv /\ SingleExecutor
  BY DEF IInv, JobInv, ExecInv
<1>t. /\ art \in [Jobs -> SUBSET {"report", "plot"}]
      /\ \A q \in Procs : Executing(q) => job[q] \in Jobs
  BY <1>i DEF TypeOK, PcInv
<1>s. \A j \in Jobs : db'[j].status \in {"absent", "queued"}
                      => db[j].status \in {"absent", "queued"}
  BY InvStep DEF StatusStep, TerminalStatuses
<1>e. \A q \in Procs : Executing(q) => db[job[q]].status \notin {"absent", "queued"}
  BY DEF IInv, JobInv, ExecInv
<1>1. CASE EndsRun(p)
  <2>1. /\ RunLeaves(p) /\ Executing(p) /\ pc[p] = "exec" /\ job[p] \in Jobs
        /\ art' = art /\ art[job[p]] = {}
    BY <1>1, <1>t DEF EndsRun, Moves, Executing, FilesInv, RunFiles
  <2>2. /\ FilesTypeOK'
        /\ \A j \in Jobs \ {job[p]} : files'[j] = files[j] /\ paths'[j] = paths[j]
        /\ \A k \in Kinds : files'[job[p]][k] \in {0, job[p]}
        /\ paths'[job[p]].directory = job[p]
        /\ paths'[job[p]].images => files'[job[p]]["plot"] = job[p]
    BY <2>1, RunEffect
  <2>3. ASSUME NEW j \in Jobs PROVE OwnFiles(j)'
    <3>1. CASE j = job[p]
      BY <3>1, <2>1, <2>2 DEF OwnFiles
    <3>2. CASE j # job[p]
      <4>1. OwnFiles(j) /\ files'[j] = files[j] /\ paths'[j] = paths[j] /\ art'[j] = art[j]
        BY <3>2, <2>1, <2>2 DEF FilesInv
      <4> QED
        BY <4>1, <1>s DEF OwnFiles
    <3> QED
      BY <3>1, <3>2
  <2>4. ASSUME NEW q \in Procs PROVE RunFiles(q)'
    <3>1. CASE q = p
      <4>1. pc'[p] \in {"exec", "save", "clear", "report", "plot", "unsaved"}
               => pc'[p] = "save" /\ job'[p] = job[p]
        BY <1>1, <2>1 DEF Moves, EndsRun, Successive
      <4> QED
        BY <3>1, <4>1, <2>1, <2>2 DEF RunFiles, Executing
    <3>2. CASE q # p
      <4>1. pc'[q] = pc[q] /\ job'[q] = job[q] /\ RunFiles(q)
        BY <3>2 DEF Moves, FilesInv
      <4>2. Executing(q) => job[q] # job[p] /\ job[q] \in Jobs
        BY <3>2, <1>i, <1>t, <2>1 DEF SingleExecutor
      <4>3. Executing(q) => paths'[job[q]] = paths[job[q]] /\ art' = art
        BY <4>2, <2>1, <2>2
      <4> QED
        BY <4>1, <4>3 DEF RunFiles, Executing
    <3> QED
      BY <3>1, <3>2
  <2> QED
    BY <2>2, <2>3, <2>4 DEF FilesInv
<1>2. CASE ~EndsRun(p)
  <2>1. ~ \E q \in Procs : EndsRun(q)
    BY <1>2 DEF Moves, EndsRun
  <2>2. files' = files /\ paths' = paths
    BY <2>1 DEF fileVars
  <2>3. FilesTypeOK'
    BY <2>2 DEF FilesInv, FilesTypeOK
  <2>4. ASSUME NEW j \in Jobs PROVE OwnFiles(j)'
    <3>1. OwnFiles(j)
      BY DEF FilesInv
    <3>2. \/ art'[j] \subseteq art[j]
          \/ /\ paths[j].directory = j /\ db[j].status \notin {"absent", "queued"}
             /\ "plot" \in art'[j] => "plot" \in art[j] \/ paths[j].images
      <4>1. CASE art' = art
        BY <4>1
      <4>2. CASE pc[p] = "clear" /\ art' = [art EXCEPT ![job[p]] = {}]
        BY <4>2, <1>t
      <4>3. CASE pc[p] = "report" /\ art' = [art EXCEPT ![job[p]] = @ \cup {"report"}]
        <5>1. Executing(p) /\ paths[job[p]].directory = job[p]
          BY <4>3 DEF Executing, FilesInv, RunFiles
        <5> QED
          BY <4>3, <5>1, <1>t, <1>e
      <4>4. CASE pc[p] = "plot" /\ art' = [art EXCEPT ![job[p]] = @ \cup {"plot"}]
        <5>1. Executing(p) /\ paths[job[p]].directory = job[p] /\ paths[job[p]].images
          BY <4>4 DEF Executing, FilesInv, RunFiles
        <5> QED
          BY <4>4, <5>1, <1>t, <1>e
      <4> QED
        BY <4>1, <4>2, <4>3, <4>4 DEF Moves
    <3> QED
      BY <3>1, <3>2, <2>2, <1>s DEF OwnFiles
  <2>5. ASSUME NEW q \in Procs PROVE RunFiles(q)'
    <3>1. CASE q = p
      <4>1. CASE pc'[p] \notin {"exec", "save", "clear", "report", "plot", "unsaved"}
        BY <3>1, <4>1 DEF RunFiles, Executing
      <4>2. CASE pc'[p] = "exec" /\ job'[p] \in Jobs /\ db[job'[p]].status = "queued"
        <5>1. art[job'[p]] = {}
          BY <4>2 DEF FilesInv, OwnFiles
        <5>2. Executing(p) => job'[p] # job[p]
          BY <4>2, <1>e
        <5>3. art'[job'[p]] = {}
          BY <4>2, <5>1, <5>2, <1>t DEF Moves, Executing
        <5> QED
          BY <3>1, <4>2, <5>3 DEF RunFiles, Executing
      <4>3. CASE pc'[p] = pc[p] /\ job'[p] = job[p]
        <5>1. RunFiles(p)
          BY DEF FilesInv
        <5>2. pc[p] \in {"exec", "save", "clear"} => art'[job[p]] = {}
          BY <5>1, <1>t DEF Moves, RunFiles, Executing
        <5> QED
          BY <3>1, <4>3, <5>1, <5>2, <2>2 DEF RunFiles, Executing
      <4>4. CASE <<pc[p], pc'[p]>> \in Successive /\ job'[p] = job[p]
        <5>1. RunFiles(p) /\ pc[p] # "exec"
          BY <4>4, <1>2 DEF FilesInv, EndsRun, Successive
        <5>2. /\ Executing(p) /\ pc'[p] # "exec"
              /\ pc'[p] \in {"save", "clear"} => pc[p] = "save"
              /\ pc'[p] = "plot" => pc[p] = "report"
          BY <4>4, <5>1 DEF Successive, Executing
        <5>3. pc[p] = "save" => art' = art
          BY DEF Moves
        <5>4. pc'[p] = "plot" => paths[job[p]].images
          BY <5>2 DEF RecordsImages
        <5> QED
          BY <3>1, <4>4, <5>1, <5>2, <5>3, <5>4, <2>2 DEF RunFiles
      <4> QED
        BY <4>1, <4>2, <4>3, <4>4 DEF Moves
    <3>2. CASE q # p
      <4>1. pc'[q] = pc[q] /\ job'[q] = job[q] /\ RunFiles(q)
        BY <3>2 DEF Moves, FilesInv
      <4>2. Executing(q) /\ Executing(p) => job[q] # job[p]
        BY <3>2, <1>i DEF SingleExecutor
      <4>3. Executing(q) => art'[job[q]] = art[job[q]]
        BY <4>2, <1>t DEF Moves, Executing
      <4> QED
        BY <4>1, <4>3, <2>2 DEF RunFiles, Executing
    <3> QED
      BY <3>1, <3>2
  <2> QED
    BY <2>3, <2>4, <2>5 DEF FilesInv
<1> QED
  BY <1>1, <1>2

\* Artifacts a page shows are recorded as long as their job is there.
ShownFiles == \A t \in Pages : \A k \in panel[t].artifacts :
    watched[t] \in Jobs /\ (Gone(watched[t]) \/ k \in art[watched[t]])

\* A step of the queue takes no artifact away but from a job that is deleted.
LEMMA ArtifactsStay ==
    ASSUME IInv, FilesInv, [Next]_vars, NEW j \in Jobs
    PROVE  art[j] \subseteq art'[j] \/ db'[j].status = "deleted"
<1>t. art \in [Jobs -> SUBSET {"report", "plot"}]
  BY DEF IInv, TypeOK
<1>1. ASSUME NEW p \in Procs, Moves(p) PROVE art[j] \subseteq art'[j]
  BY <1>1, <1>t DEF Moves, FilesInv, RunFiles
<1>2. ASSUME NEW i \in Jobs, DeleteJob(i) PROVE art[j] \subseteq art'[j] \/ db'[j].status = "deleted"
  <2>1. GoneRow.status = "deleted"
    BY DEF GoneRow, NoRow
  <2> QED
    BY <1>2, <2>1, <1>t DEF DeleteJob, IInv, TypeOK
<1> QED
  BY <1>1, <1>2, MoveStep

AllInv == PageInv /\ FilesInv /\ ShownFiles

LEMMA AllInit == FilesInit => AllInv
<1> SUFFICES ASSUME FilesInit PROVE AllInv
  OBVIOUS
<1>1. ShownFiles
  BY DEF FilesInit, PageInit, ShownFiles, Blank
<1> QED
  BY <1>1, PageInvInit, FilesInvInit DEF FilesInit, AllInv

LEMMA AllStep ==
    ASSUME AllInv, [FilesNext]_<<allVars, fileVars>>
    PROVE  AllInv'
<1>i. PageInv /\ FilesInv /\ ShownFiles /\ IInv
  BY DEF AllInv, PageInv
<1>p. PageInv'
  BY <1>i, PageInvStep DEF FilesNext
<1>1. ASSUME FilesNext, Next, UNCHANGED pageVars PROVE FilesInv' /\ ShownFiles'
  <2>1. ASSUME NEW p \in Procs, Moves(p) PROVE FilesInv'
    BY <1>1, <1>i, <2>1, FilesMove DEF FilesNext
  <2>2. ASSUME NEW j \in Jobs, DeleteJob(j) PROVE FilesInv'
    <3>1. /\ UNCHANGED <<pc, job>> /\ db'[j] = GoneRow /\ art'[j] = {}
          /\ \A i \in Jobs \ {j} : db'[i] = db[i] /\ art'[i] = art[i]
      BY <2>2, <1>i DEF DeleteJob, IInv, TypeOK
    <3>2. files' = files /\ paths' = paths
      BY <1>1, <3>1 DEF FilesNext, EndsRun, fileVars
    <3>3. GoneRow.status = "deleted"
      BY DEF GoneRow, NoRow
    <3>4. \A i \in Jobs : OwnFiles(i)'
      BY <1>i, <3>1, <3>2, <3>3 DEF FilesInv, OwnFiles
    <3>5. \A p \in Procs : RunFiles(p)'
      <4>1. \A p \in Procs : Executing(p) => job[p] \in Jobs
        BY <1>i DEF IInv, JobInv, PcInv
      <4> QED
        BY <1>i, <3>1, <3>2, <4>1 DEF FilesInv, RunFiles, Executing
    <3> QED
      BY <1>i, <3>2, <3>4, <3>5 DEF FilesInv, FilesTypeOK
  <2>3. FilesInv'
    BY <1>1, <1>i, <2>1, <2>2, MoveStep
  <2>4. ShownFiles'
    <3> SUFFICES ASSUME NEW t \in Pages, NEW k \in panel[t].artifacts
                 PROVE  /\ watched[t] \in Jobs
                        /\ db'[watched[t]].status = "deleted" \/ k \in art'[watched[t]]
      BY <1>1 DEF ShownFiles, pageVars, Gone
    <3>1. watched[t] \in Jobs /\ (Gone(watched[t]) \/ k \in art[watched[t]])
      BY <1>i DEF ShownFiles
    <3>2. Gone(watched[t]) => db'[watched[t]].status = "deleted"
      BY <1>1, <1>i, <3>1, InvStep DEF StatusStep, Gone, TerminalStatuses
    <3> QED
      BY <1>1, <1>i, <3>1, <3>2, ArtifactsStay
  <2> QED
    BY <2>3, <2>4
<1>2. ASSUME FilesNext, NEW t \in Pages, PageStep(t), UNCHANGED vars
      PROVE  FilesInv' /\ ShownFiles'
  <2>1. UNCHANGED fileVars
    BY <1>2 DEF FilesNext, EndsRun, vars
  <2>2. FilesInv'
    BY <1>2, <1>i, <2>1
       DEF vars, fileVars, FilesInv, FilesTypeOK, OwnFiles, RunFiles, Executing
  <2>3. /\ watched \in [Pages -> Jobs \cup {0}] /\ panel \in [Pages -> Panel]
    BY <1>i DEF PageInv, PageTypeOK
  <2>4. \/ panel'[t] = panel[t] /\ watched'[t] = watched[t]
        \/ panel'[t] = Blank
        \/ /\ panel'[t].artifacts = art[watched[t]] /\ watched'[t] = watched[t]
           /\ watched[t] \in Jobs
    BY <1>2, <1>i, <2>3
       DEF PageStep, OpenPage, Poll, ReadJob, ShowPanel, PollFails, LosePanel, PageInv, ShownInv
  <2>5. \A u \in Pages \ {t} : panel'[u] = panel[u] /\ watched'[u] = watched[u]
    BY <1>2, <2>3
       DEF PageStep, OpenPage, Poll, ReadJob, ShowPanel, PollFails, LosePanel
  <2>6. ShownFiles'
    BY <1>2, <1>i, <2>4, <2>5 DEF ShownFiles, Gone, vars, Blank
  <2> QED
    BY <2>2, <2>6
<1>3. ASSUME UNCHANGED <<allVars, fileVars>> PROVE FilesInv' /\ ShownFiles'
  BY <1>3, <1>i DEF allVars, vars, pageVars, fileVars, FilesInv, FilesTypeOK, OwnFiles,
     RunFiles, Executing, ShownFiles, Gone
<1>4. FilesInv' /\ ShownFiles'
  BY <1>1, <1>2, <1>3 DEF FilesNext, PageNext
<1> QED
  BY <1>p, <1>4 DEF AllInv

\* Whatever runs write, and whenever they are killed, however old the page: a link
\* to a plot leads to the plot of the page's own job, one to a report to that or to
\* nothing.
THEOREM LinksLead == FilesSpec => []LinksWork
<1>1. AllInv => LinksWork
  <2> SUFFICES ASSUME AllInv, NEW t \in Pages, NEW k \in Kinds,
                      k \in panel[t].artifacts, db[watched[t]].status # "deleted"
               PROVE  \/ Served(watched[t], k) = watched[t]
                      \/ /\ k = "report" /\ k \in art[watched[t]]
                         /\ Served(watched[t], k) = 0
    BY DEF LinksWork
  <2> DEFINE j == watched[t]
  <2>1. j \in Jobs /\ k \in art[j]
    BY DEF AllInv, ShownFiles, Gone
  <2>2. OwnFiles(j)
    BY <2>1 DEF AllInv, FilesInv
  <2>3. Served(j, k) = files[j][k]
    BY <2>1, <2>2 DEF Served, OwnFiles
  <2> QED
    BY <2>1, <2>2, <2>3 DEF OwnFiles, Kinds
<1>2. FilesSpec => []AllInv
  BY AllInit, AllStep, PTL DEF FilesSpec
<1> QED
  BY <1>1, <1>2, PTL

-----------------------------------------------------------------------------
(* Pages only read                                                         *)

\* Pages and polls change nothing of the queue (job_detail and job_detail_partial
\* are GETs): with any pages open the queue is the one JobQueue specifies, and all
\* that is proved of it holds.
THEOREM PagesOnlyRead == PageSpec => Spec
<1>1. PageInit => Init
  BY DEF PageInit
<1>2. [PageNext]_allVars => [Next]_vars
  BY DEF PageNext, allVars
<1> QED
  BY <1>1, <1>2, PTL DEF PageSpec, Spec

-----------------------------------------------------------------------------
(* What a page can miss                                                    *)

\* No process is killed while it has job j in hand.
FinisherLives(j) == [][\A p \in Procs : Crash(p) => job[p] # j]_vars

\* A page that asks no more while its job j is COMPLETED shows the report, unless the
\* job was still being finished when the page read the artifacts.
ReportUnlessRecording(j) == [][\A t \in Pages :
    watched[t] = j /\ stage[t] # "done" /\ stage'[t] = "done" /\ db[j].status = "completed"
    => "report" \in panel'[t].artifacts \/ Holders[j] # {}]_allVars

\* How far the page can be behind: the finding about the results of a page is the
\* window between the saves of mark_job_completed and record_job_artifacts and no
\* other (job_detail.html stops at a terminal status), for every job whose own
\* processes were never killed, whatever befalls the others.
THEOREM PageMissesOnlyRecording ==
    ASSUME NEW j \in Jobs
    PROVE  PageSpec /\ FinisherLives(j) => ReportUnlessRecording(j)
<1> DEFINE Stops(t) ==
      watched[t] = j /\ stage[t] # "done" /\ stage'[t] = "done"
          /\ db[j].status = "completed"
      => "report" \in panel'[t].artifacts \/ Holders[j] # {}
<1>1. PageInv /\ ~Unreported(j) /\ [PageNext]_allVars => [\A t \in Pages : Stops(t)]_allVars
  <2> SUFFICES ASSUME PageInv, ~Unreported(j), PageNext, NEW t \in Pages,
                      watched[t] = j, stage[t] # "done", stage'[t] = "done",
                      db[j].status = "completed",
                      "report" \notin panel'[t].artifacts
               PROVE  Holders[j] # {}
    OBVIOUS
  <2>1. PICK s \in Pages : PageStep(s)
    BY DEF PageNext, pageVars
  <2>2. stage \in [Pages -> Stages] /\ panel \in [Pages -> Panel]
    BY DEF PageInv, PageTypeOK
  <2>3. ShowPanel(s) /\ s = t
    BY <2>1, <2>2 DEF PageStep, OpenPage, Poll, ReadJob, ShowPanel, PollFails, LosePanel
  <2>4. panel'[t].artifacts = art[j]
    BY <2>2, <2>3 DEF ShowPanel
  <2> QED
    BY <2>4 DEF Unreported
<1>2. Init => ~Unreported(j)
  <2>1. NoRow.status # "completed"
    BY DEF NoRow
  <2> QED
    BY <2>1 DEF Init, Unreported
<1>3. ~Unreported(j) /\ [LeftByDeath(j)]_vars
          /\ [\A p \in Procs : Crash(p) => job[p] # j]_vars => ~Unreported(j)'
  <2> SUFFICES ASSUME ~Unreported(j), [LeftByDeath(j)]_vars,
                      [\A p \in Procs : Crash(p) => job[p] # j]_vars
               PROVE  ~Unreported(j)'
    OBVIOUS
  <2>1. CASE UNCHANGED vars
    <3>1. Holders'[j] = Holders[j]
      BY <2>1 DEF vars, Holders, Executors, Jobs
    <3> QED
      BY <2>1, <3>1 DEF vars, Unreported
  <2>2. CASE LeftByDeath(j) /\ \A p \in Procs : Crash(p) => job[p] # j
    <3>1. \A p \in Holders[j] : p \in Procs /\ job[p] = j
      BY DEF Holders, Procs
    <3> QED
      BY <2>2, <3>1 DEF LeftByDeath, FinisherDies
  <2> QED
    BY <2>1, <2>2
<1>4. Spec /\ FinisherLives(j) => []~Unreported(j)
  BY <1>2, <1>3, ReportRecorded, PTL DEF Spec, FinisherLives
<1> QED
  BY <1>1, <1>4, PagesOnlyRead, PageInvariance, PTL
     DEF PageSpec, ReportUnlessRecording
=============================================================================
