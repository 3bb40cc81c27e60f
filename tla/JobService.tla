------------------------------ MODULE JobService ------------------------------
(***************************************************************************)
(* What scheduler, runners and lifespan promise together, without locks,   *)
(* registries, callbacks and cancellations: who may start and poll when.   *)
(*                                                                         *)
(*   - a runner that was told to end, by a stop or by an expired session,  *)
(*     may finish the poll it is in, and enters no other;                  *)
(*   - while somebody waits for a job's task to end, no task is started    *)
(*     for that job;                                                       *)
(*   - once the service is closed no task is started, until the process    *)
(*     is gone, and all tasks with it.                                     *)
(*                                                                         *)
(* JobLifecycleImplements shows that JobLifecycle keeps these promises.    *)
(***************************************************************************)
CONSTANTS Jobs, RunnerIds

VARIABLES
    open,      \* tasks may be started
    life,      \* life[r]: none, ready, polling; last: told during a poll; told
    job,       \* job[r]: the job of a runner that has a task
    waiting    \* jobs whose task somebody waits for

vars == <<open, life, job, waiting>>

Lives == {"none", "ready", "polling", "last", "told"}
Told  == {"last", "told"}

Init ==
    /\ open = TRUE
    /\ life = [r \in RunnerIds |-> "none"]
    /\ job \in [RunnerIds -> Jobs]
    /\ waiting = {}

Start(r, j) ==
    /\ open /\ life[r] = "none" /\ j \notin waiting
    /\ life' = [life EXCEPT ![r] = "ready"]
    /\ job' = [job EXCEPT ![r] = j]
    /\ UNCHANGED <<open, waiting>>

\* What a runner that is not told, or one that is, may go on to.
After(l) == CASE l \in Told      -> {"told", "none"}
              [] l = "ready"     -> {"ready", "polling", "told", "none"}
              [] l = "polling"   -> {"ready", "polling", "last", "told", "none"}
GoesOn(r) ==
    /\ UNCHANGED <<open, waiting>>
    /\ life[r] # "none"
    /\ \E l \in After(life[r]) : life' = [life EXCEPT ![r] = l]
    /\ \E j \in Jobs : job' = [job EXCEPT ![r] = j]
    /\ life'[r] # "none" => job' = job

\* stop_job tells the runner, and begins to wait for its task.
Stop(r) ==
    /\ UNCHANGED <<open, job>>
    /\ life[r] # "none"
    /\ waiting' = waiting \cup {job[r]}
    /\ life' = [life EXCEPT ![r] = IF @ \in {"polling", "last"} THEN "last" ELSE "told"]

\* The wait is over: the task has ended, or it has taken too long.
StopReturns(j) ==
    /\ waiting' = waiting \ {j}
    /\ UNCHANGED <<open, life, job>>

Close ==
    /\ open' = FALSE
    /\ UNCHANGED <<life, job, waiting>>

ProcessEnds ==
    /\ open' = TRUE
    /\ life' = [r \in RunnerIds |-> "none"]
    /\ job' \in [RunnerIds -> Jobs]
    /\ waiting' = {}

Next ==
    \/ \E j \in Jobs : StopReturns(j)
    \/ \E r \in RunnerIds : GoesOn(r) \/ Stop(r) \/ \E j \in Jobs : Start(r, j)
    \/ Close \/ ProcessEnds

Spec == Init /\ [][Next]_vars
=============================================================================
