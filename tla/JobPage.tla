------------------------------ MODULE JobPage -------------------------------
(***************************************************************************)
(* Job pages over the job queue: the server renders one in two statements, *)
(* the job row and then its artifacts (_job_detail_context in              *)
(* portal/views.py), and while the job is not terminal the script of       *)
(* templates/portal/job_detail.html asks for the panel again, one request  *)
(* at a time.  The users of the pages may see the jobs they open.          *)
(***************************************************************************)
EXTENDS JobQueue

CONSTANT Pages    \* pages open in browsers

VARIABLES
    watched,   \* the job of each page; 0 before the first
    stage,     \* where the page is in its life
    row,       \* the status the server has read for it, before the artifacts
    panel      \* what the page shows

pageVars == <<watched, stage, row, panel>>

\* done: it showed a terminal status and asks no more.  lost: a login or status
\* page took the place of the panel.
Stages == {"closed", "loading", "timer", "asked", "done", "lost"}
Panel == [status : Statuses, artifacts : SUBSET {"report", "plot"}]
Blank == [status |-> "absent", artifacts |-> {}]

IsTerminal(status) == status \notin ActiveStatuses

ReadJob_Unchecked(t, j, next) ==
    /\ watched' = [watched EXCEPT ![t] = j]
    /\ row' = [row EXCEPT ![t] = db[j].status]
    /\ stage' = [stage EXCEPT ![t] = next]
\* _job_or_404.
ReadJob(t, j, next) ==
    /\ db[j].status \notin {"absent", "deleted"}
    /\ watched' = [watched EXCEPT ![t] = j]
    /\ row' = [row EXCEPT ![t] = db[j].status]
    /\ stage' = [stage EXCEPT ![t] = next]

\* job_detail; a page may also be loaded again once its script is silent.
OpenPage(t, j) ==
    /\ stage[t] \in {"closed", "done", "lost"}
    /\ ReadJob(t, j, "loading")
    /\ panel' = [panel EXCEPT ![t] = Blank]

\* The timer of scheduleRefresh: fetch, and job_detail_partial reads the job.  A 404
\* for a deleted one sets the timer again, and so on.
Poll(t) ==
    /\ stage[t] = "timer"
    /\ ReadJob(t, watched[t], "asked")
    /\ UNCHANGED panel

\* The artifacts are read, and the page shows the panel.
AfterPanel_StopsWhenRunning(status) == IF status = "queued" THEN "timer" ELSE "done"
AfterPanel(status) == IF IsTerminal(status) THEN "done" ELSE "timer"

ShowPanel(t) ==
    /\ stage[t] \in {"loading", "asked"}
    /\ panel' = [panel EXCEPT ![t] =
                   [status |-> row[t], artifacts |-> art[watched[t]]]]
    /\ stage' = [stage EXCEPT ![t] = AfterPanel(row[t])]
    /\ row' = [row EXCEPT ![t] = "absent"]
    /\ UNCHANGED watched

\* The fetch throws or answers with an error status: the old panel stays.
PollFails(t) ==
    /\ stage[t] = "asked"
    /\ stage' = [stage EXCEPT ![t] = "timer"]
    /\ row' = [row EXCEPT ![t] = "absent"]
    /\ UNCHANGED <<watched, panel>>

\* The user is signed out or no longer approved by now: the fetch follows a
\* redirect to a page that has no panel, and no timer is set again.
LosePanel(t) ==
    /\ stage[t] = "timer"
    /\ stage' = [stage EXCEPT ![t] = "lost"]
    /\ panel' = [panel EXCEPT ![t] = Blank]
    /\ UNCHANGED <<watched, row>>

-----------------------------------------------------------------------------
PageInit ==
    /\ Init
    /\ watched = [t \in Pages |-> 0]
    /\ stage = [t \in Pages |-> "closed"]
    /\ row = [t \in Pages |-> "absent"]
    /\ panel = [t \in Pages |-> Blank]

PageStep(t) ==
    \/ \E j \in Jobs : OpenPage(t, j)
    \/ Poll(t)
    \/ ShowPanel(t)
    \/ PollFails(t)
    \/ LosePanel(t)

PageNext ==
    \/ Next /\ UNCHANGED pageVars
    \/ \E t \in Pages : PageStep(t) /\ UNCHANGED vars

allVars == <<vars, pageVars>>

PageSpec == PageInit /\ [][PageNext]_allVars

\* Beside the fairness of the queue: browsers run their timers, and not every
\* poll of a page fails.
PageFairness ==
    /\ \A p \in Procs : /\ WF_allVars(Step(p) /\ UNCHANGED pageVars)
                        /\ SF_allVars(Step(p) /\ pc[p] # "poll" /\ UNCHANGED pageVars)
                        /\ WF_allVars(AbortDeadlocked(p) /\ UNCHANGED pageVars)
                        /\ WF_allVars(StartWorker(p) /\ UNCHANGED pageVars)
    /\ \A t \in Pages : /\ WF_allVars(Poll(t) /\ UNCHANGED vars)
                        /\ SF_allVars(ShowPanel(t) /\ UNCHANGED vars)

FairPageSpec == PageSpec /\ PageFairness

-----------------------------------------------------------------------------
(* Properties                                                              *)

\* The variables of the page have their types, and the server renders a page or
\* panel exactly when it has found the job (_job_or_404).
PageTypeOK ==
    /\ watched \in [Pages -> Jobs \cup {0}]
    /\ stage \in [Pages -> Stages]
    /\ row \in [Pages -> Statuses]
    /\ panel \in [Pages -> Panel]
    /\ \A t \in Pages : row[t] # "absent" <=> stage[t] \in {"loading", "asked"}

Progress(status) == CASE status = "absent" -> 0
                      [] status = "queued" -> 1
                      [] status = "running" -> 2
                      [] OTHER -> 3

\* A page that stays open never shows an earlier phase of its job than it did,
\* nor one its job has not reached, although what it shows was read a while ago.
PanelAdvances == [][\A t \in Pages :
    panel'[t] # Blank =>
        /\ Progress(panel'[t].status) >= Progress(panel[t].status)
        /\ Progress(panel'[t].status) <= Progress(db[watched[t]].status)]_allVars

\* A page that is opened reaches the end of its job (scheduleRefresh: "Keep
\* polling until the job reaches a terminal state"), unless its user loses access or
\* the job goes with its owner.
PageReachesEnd == \A t \in Pages :
    stage[t] \in {"loading", "timer", "asked"} ~>
        \/ stage[t] = "lost"
        \/ Progress(panel[t].status) = 3
        \/ \E j \in Jobs : watched[t] = j /\ db[j].status = "deleted"

\* docs/2026-05-20-github-issues-spec.md: "Terminal results render into the page
\* when available": a page that asks no more shows the report there is.
ResultsRender == \A t \in Pages :
    stage[t] = "done" /\ panel[t].status = "completed"
        /\ "report" \in art[watched[t]]
    => "report" \in panel[t].artifacts
=============================================================================
