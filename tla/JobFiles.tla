------------------------------ MODULE JobFiles ------------------------------
(***************************************************************************)
(* The files behind the artifact links of the job pages: what a backend    *)
(* run leaves in the directory of its job (run_backend_job in              *)
(* portal/services.py), the paths it reports, and what a link on a page    *)
(* is answered with (job_artifact_download and job_artifact_inline in      *)
(* portal/views.py).  Files outlive crashes and the rows that name them.   *)
(***************************************************************************)
EXTENDS JobPage

CONSTANT Outputs    \* the sets of files, "report" and "plot", a run may write

VARIABLES
    files,   \* which job's run wrote each file of each directory; 0 for no file
    paths    \* the directory and the images in the result of each job's run

fileVars == <<files, paths>>

Kinds == {"report", "plot"}
NoPaths == [directory |-> 0, images |-> FALSE]

ArtifactDirectory_Shared(j) == 1
\* artifact_directory_for_job: job-{submission_id}, which is unique.
ArtifactDirectory(j) == j

\* A run of the backend has ended, or was killed with its worker.  result.md is in
\* the result whether or not it was written, images are those found.
RunLeaves(p) ==
    LET d == ArtifactDirectory(job[p])
    IN /\ \E out \in Outputs :
             files' = [files EXCEPT ![d] =
                         [k \in Kinds |-> IF k \in out THEN job[p] ELSE @[k]]]
       /\ paths' = [paths EXCEPT ![job[p]] =
                      [directory |-> d, images |-> files'[d]["plot"] # 0]]

EndsRun(p) == pc[p] = "exec" /\ pc'[p] # "exec"

\* The loop of record_job_artifacts goes on to the plots if the run reported any.
RecordsImages(p) ==
    pc[p] = "report" /\ pc'[p] \in {"plot", "refresh"}
        => (pc'[p] = "plot") = paths[job[p]].images

-----------------------------------------------------------------------------
FilesInit ==
    /\ PageInit
    /\ files = [d \in Jobs |-> [k \in Kinds |-> 0]]
    /\ paths = [j \in Jobs |-> NoPaths]

FilesNext ==
    /\ PageNext
    /\ \A p \in Procs : RecordsImages(p)
    /\ IF \E p \in Procs : EndsRun(p)
       THEN \E p \in Procs : EndsRun(p) /\ RunLeaves(p)
       ELSE UNCHANGED fileVars

FilesSpec == FilesInit /\ [][FilesNext]_<<allVars, fileVars>>

FairFilesSpec == FilesSpec /\ PageFairness

\* The answer to a link for an artifact of kind k of job j: the job whose run
\* wrote the file that is sent, or 0, a 404, if row or file is missing.
Served(j, k) ==
    IF db[j].status \in {"absent", "deleted"} \/ k \notin art[j] THEN 0
    ELSE files[paths[j].directory][k]

-----------------------------------------------------------------------------
(* Properties                                                              *)

\* As long as its job is not deleted, every plot a page shows can be had and is of
\* that job's own run, however old the page; so is the report, unless the run wrote
\* none (the row of a report is recorded without a look at the file).
LinksWork ==
    \A t \in Pages, k \in Kinds :
        LET j == watched[t]
        IN k \in panel[t].artifacts /\ db[j].status # "deleted" =>
              \/ Served(j, k) = j
              \/ k = "report" /\ k \in art[j] /\ Served(j, k) = 0
=============================================================================
