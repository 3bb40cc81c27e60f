------------------------ MODULE JobLifecycleImplements ------------------------
(***************************************************************************)
(* JobLifecycle implements JobService.                                     *)
(***************************************************************************)
EXTENDS JobLifecycle

Life(r) ==
    CASE runner[r].pc = "free"    -> "none"
      [] runner[r].pc = "polling" -> IF runner[r].shutdown THEN "last" ELSE "polling"
      [] OTHER                    -> IF runner[r].shutdown THEN "told" ELSE "ready"

\* Those who called stop_job and wait for the task it cancelled.
Waiters == {a \in Actors : call[a].pc \in {"waitTask", "woken", "raised"}}

Open      == phase \notin {"stopping", "exiting"}
Lifes     == [r \in RunnerIds |-> Life(r)]
JobOf     == [r \in RunnerIds |-> runner[r].job]
WaitedFor == {call[a].job : a \in Waiters}

Service == INSTANCE JobService WITH
    open <- Open, life <- Lifes, job <- JobOf, waiting <- WaitedFor

\* Every interleaving of requests, watchdog, lifespan, callbacks, cancellations, failing
\* writes and crashes is one of the service: stop, start, expiry and shutdown in any order.
ImplementsService == Service!Spec
=============================================================================
