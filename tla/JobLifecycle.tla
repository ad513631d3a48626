---------------------------- MODULE JobLifecycle ----------------------------
(***************************************************************************)
(* What the job queue promises, without its statements, locks and          *)
(* positions: a job is submitted once, taken by one executor, ended by it  *)
(* or given up, failed by recovery if it is still RUNNING, and gone once   *)
(* its owner is.  JobQueue implements it.                                  *)
(***************************************************************************)
CONSTANTS
    Jobs,       \* jobs that may be submitted
    Executors   \* processes that execute jobs

VARIABLES
    status,     \* the committed status of each job
    holders     \* who executes it, or saves what came of it

lifecycle == <<status, holders>>

Ended == {"completed", "failed"}

Init == /\ status = [j \in Jobs |-> "absent"]
        /\ holders = [j \in Jobs |-> {}]

Submit(j) ==
    /\ status[j] = "absent"
    /\ status' = [status EXCEPT ![j] = "queued"]
    /\ UNCHANGED holders

\* A job is taken once in its life, while nobody holds it.
Take(p, j) ==
    /\ status[j] = "queued" /\ holders[j] = {}
    /\ status' = [status EXCEPT ![j] = "running"]
    /\ holders' = [holders EXCEPT ![j] = {p}]

\* Its holder says how it ended, and may correct itself, unless it is gone.
Publish(p, j, end) ==
    /\ p \in holders[j]
    /\ status[j] \in Ended \cup {"running"}
    /\ status' = [status EXCEPT ![j] = end]
    /\ UNCHANGED holders

GiveUp(p, j) ==
    /\ p \in holders[j]
    /\ holders' = [holders EXCEPT ![j] = @ \ {p}]
    /\ UNCHANGED status

\* A starting worker fails jobs that are RUNNING, all at once.
Recover(S) ==
    /\ \A j \in S : status[j] = "running"
    /\ status' = [j \in Jobs |-> IF j \in S THEN "failed" ELSE status[j]]
    /\ UNCHANGED holders

\* A user is deleted; who executes the job finds out when it saves.
Delete(j) ==
    /\ status[j] # "absent"
    /\ status' = [status EXCEPT ![j] = "deleted"]
    /\ UNCHANGED holders

\* A step shows: it changes the status of a job, or somebody lets go of one.
Next ==
    \/ /\ status' # status
       /\ \/ \E j \in Jobs :
                \/ Submit(j)
                \/ Delete(j)
                \/ \E p \in Executors :
                      \/ Take(p, j)
                      \/ \E end \in Ended : Publish(p, j, end)
          \/ \E S \in SUBSET Jobs : Recover(S)
    \/ /\ holders' # holders
       /\ \E j \in Jobs, p \in Executors : GiveUp(p, j)

Spec == Init /\ [][Next]_lifecycle
=============================================================================
