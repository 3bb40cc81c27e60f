------------------------ MODULE JobLifecycleRunnerProofs ------------------------
(***************************************************************************)
(* Theorems about the runners of JobLifecycle: what the shutdown event of  *)
(* a runner forbids, and what its polling says about its row.  They hold   *)
(* for any set of jobs, runner objects and clients.                        *)
(***************************************************************************)
EXTENDS JobLifecycleProofs

-----------------------------------------------------------------------------
(* What others may do to a runner: create it, end the process, set its     *)
(* shutdown event; the event comes with a cancellation unless the task is  *)
(* over.                                                                   *)

Undisturbed(r) ==
    /\ runner'[r].pc = runner[r].pc /\ runner'[r].job = runner[r].job
    /\ runner[r].shutdown => runner'[r].shutdown
    /\ runner[r].cancelled => runner'[r].cancelled
    /\ runner'[r].shutdown => \/ runner[r].shutdown \/ runner'[r].cancelled
                              \/ runner[r].pc = "done"
    /\ raced[runner[r].job] => raced'[runner[r].job]

NotInLoop(r) == runner'[r].pc \in {"free", "created"} /\ ~runner'[r].shutdown

\* A row keeps its status or is deleted, for ever.
RowsKept == \A j \in Jobs : \/ row'[j].status = row[j].status
                            \/ row'[j].status = "deleted"

LEMMA SameRunners ==
  ASSUME runner' = runner, raced' = raced
  PROVE  \A r \in RunnerIds : Undisturbed(r)
BY DEF Undisturbed

LEMMA StopBodyDisturbs ==
  ASSUME TypeOK, NEW a \in Actors, NEW k, NEW j \in Jobs, StopBody(a, k, j), raced' = raced
  PROVE  \A r \in RunnerIds : Undisturbed(r)
<1>1. runner \in [RunnerIds -> Runner]
  BY DEF TypeOK
<1>2. CASE reg[j] = NoRunner
  BY <1>2, SameRunners DEF StopBody, TaskActive
<1>3. CASE reg[j] # NoRunner
  <2>1. PICK q \in RunnerIds : q = reg[j]
    BY <1>3 DEF TypeOK
  <2>2. CASE TaskActive(j)
    <3>1. runner' = [runner EXCEPT ![q].shutdown = TRUE, ![q].cancelled = TRUE]
      BY <2>1, <2>2 DEF StopBody
    <3>2. /\ runner'[q].pc = runner[q].pc /\ runner'[q].job = runner[q].job
          /\ runner'[q].shutdown /\ runner'[q].cancelled
          /\ \A r \in RunnerIds \ {q} : runner'[r] = runner[r]
      BY <1>1, <3>1 DEF Runner
    <3>3. QED
      BY <3>2 DEF Undisturbed
  <2>3. CASE ~TaskActive(j)
    <3>1. runner' = [runner EXCEPT ![q].shutdown = TRUE] /\ runner[q].pc = "done"
      BY <1>3, <2>1, <2>3 DEF StopBody, TaskActive, TaskDone
    <3>2. /\ runner'[q].pc = runner[q].pc /\ runner'[q].job = runner[q].job
          /\ runner'[q].shutdown /\ runner'[q].cancelled = runner[q].cancelled
          /\ \A r \in RunnerIds \ {q} : runner'[r] = runner[r]
      BY <1>1, <3>1 DEF Runner
    <3>3. QED
      BY <3>1, <3>2 DEF Undisturbed
  <2>4. QED
    BY <2>2, <2>3
<1>4. QED
  BY <1>2, <1>3

LEMMA StartBodyDisturbs ==
  ASSUME TypeOK, NEW j \in Jobs, StartBody(j)
  PROVE  \A r \in RunnerIds : Undisturbed(r) \/ NotInLoop(r)
<1>1. CASE UNCHANGED <<reg, runner, raced>>
  BY <1>1, SameRunners
<1>2. CASE ~Refused(j)
  <2>1. PICK q \in RunnerIds : runner' = [runner EXCEPT ![q] = NewRunner("created", j)]
    BY <1>2 DEF StartBody
  <2>2. /\ runner'[q].pc = "created" /\ ~runner'[q].shutdown
        /\ \A r \in RunnerIds \ {q} : runner'[r] = runner[r]
    BY <2>1 DEF TypeOK, NewRunner
  <2>3. \A k \in Jobs : raced[k] => raced'[k]
    BY <1>2 DEF TypeOK, StartBody
  <2>4. \A r \in RunnerIds : runner[r].job \in Jobs
    BY DEF TypeOK, Runner
  <2>5. QED
    BY <2>2, <2>3, <2>4 DEF Undisturbed, NotInLoop
<1>3. QED
  BY <1>1, <1>2 DEF StartBody

LEMMA SchedulerStepDisturbs ==
  ASSUME TypeOK, NEW a \in Actors, SchedulerStep(a)
  PROVE  RowsKept /\ \A r \in RunnerIds : Undisturbed(r) \/ NotInLoop(r)
<1>1. call[a].job \in Jobs
  BY DEF TypeOK, Call
<1>2. CASE DeleteRow(a)
  <2>1. RowsKept
    BY <1>1, <1>2 DEF DeleteRow, RowsKept, TypeOK
  <2>2. QED
    BY <1>2, <2>1, SameRunners DEF DeleteRow
<1>3. ASSUME ~DeleteRow(a) PROVE RowsKept
  BY <1>3 DEF RowsKept, SchedulerStep, StartJob, StopJob, RestartJob, DeleteJob, EndPause,
     AcquireForStart, AcquireForStop, StopReturns, StopTimesOut, StopRaises
<1>4. CASE StartJob(a) \/ EndPause(a) \/ AcquireForStart(a)
  <2>1. StartBody(call[a].job) \/ UNCHANGED <<reg, runner, raced>>
    BY <1>4 DEF StartJob, EndPause, AcquireForStart, EnterStart
  <2>2. ~DeleteRow(a)
    BY <1>4 DEF StartJob, EndPause, AcquireForStart, DeleteRow, Ready
  <2>3. QED
    BY <1>1, <1>3, <2>1, <2>2, StartBodyDisturbs, SameRunners
<1>5. CASE ~DeleteRow(a) /\ ~(StartJob(a) \/ EndPause(a) \/ AcquireForStart(a))
  <2>1. raced' = raced
    BY <1>5 DEF SchedulerStep, StopJob, RestartJob, DeleteJob,
       AcquireForStop, StopReturns, StopTimesOut, StopRaises
  <2>2. runner' = runner \/ \E k : StopBody(a, k, call[a].job)
    BY <1>5 DEF SchedulerStep, StopJob, RestartJob, DeleteJob, EnterStop,
       AcquireForStop, StopReturns, StopTimesOut, StopRaises
  <2>3. QED
    BY <1>1, <1>3, <1>5, <2>1, <2>2, StopBodyDisturbs, SameRunners
<1>6. QED
  BY <1>2, <1>4, <1>5

LEMMA LifespanDisturbs ==
  ASSUME TypeOK, BootStep \/ ShutdownStep \/ Crash
  PROVE  RowsKept /\ \A r \in RunnerIds : Undisturbed(r) \/ NotInLoop(r)
<1>1. RowsKept
  BY DEF BootStep, Boot, BootDone, BootStart, ShutdownStep, BeginShutdown, ShutdownAll,
         ShutdownStop, CloseLoop, Exit, Crash, ProcessGone, RowsKept
<1>2. CASE Boot \/ BootDone \/ BeginShutdown \/ ShutdownAll
  BY <1>1, <1>2, SameRunners DEF Boot, BootDone, BeginShutdown, ShutdownAll
<1>3. ASSUME NEW j \in Jobs, BootStart(j)
      PROVE  \A r \in RunnerIds : Undisturbed(r) \/ NotInLoop(r)
  BY <1>3, StartBodyDisturbs DEF BootStart
<1>4. ASSUME NEW j \in Jobs, ShutdownStop(j) PROVE \A r \in RunnerIds : Undisturbed(r)
  BY <1>4, StopBodyDisturbs, SameRunners DEF ShutdownStop, EnterStop, Actors
<1>5. CASE CloseLoop
  <2>1. runner \in [RunnerIds -> Runner] /\ raced' = raced
    BY <1>5 DEF TypeOK, CloseLoop
  <2>2. ASSUME NEW r \in RunnerIds
        PROVE  runner'[r] = runner[r] \/ runner'[r] = [runner[r] EXCEPT !.cancelled = TRUE]
    BY <1>5 DEF CloseLoop
  <2>3. \A r \in RunnerIds : /\ runner'[r].pc = runner[r].pc /\ runner'[r].job = runner[r].job
                             /\ runner'[r].shutdown = runner[r].shutdown
                             /\ runner'[r].cancelled \/ runner'[r].cancelled = runner[r].cancelled
    BY <2>1, <2>2 DEF Runner
  <2>4. QED
    BY <1>1, <2>1, <2>3 DEF Undisturbed
<1>6. CASE ProcessGone
  BY <1>1, <1>6 DEF ProcessGone, FreeRunner, NewRunner, NotInLoop
<1>7. QED
  BY <1>1, <1>2, <1>3, <1>4, <1>5, <1>6 DEF BootStep, ShutdownStep, Exit, Crash

LEMMA OthersDisturb ==
  ASSUME TypeOK, [Next]_vars, \A r \in RunnerIds : ~RunnerStep(r)
  PROVE  RowsKept /\ \A r \in RunnerIds : Undisturbed(r) \/ NotInLoop(r)
<1>1. CASE UNCHANGED vars
  BY <1>1, SameRunners DEF vars, RowsKept
<1>2. ASSUME NEW a \in Actors, SchedulerStep(a)
      PROVE  RowsKept /\ \A r \in RunnerIds : Undisturbed(r) \/ NotInLoop(r)
  BY <1>2, SchedulerStepDisturbs
<1>3. CASE BootStep \/ ShutdownStep \/ Crash
  BY <1>3, LifespanDisturbs
<1>4. CASE \/ \E c \in Clients, k \in Requests \ {"enable"}, j \in Jobs : Request(c, k, j)
           \/ WatchdogStep
  BY <1>4, SameRunners DEF Request, WatchdogStep, CheckAllJobs, TriggerRecovery, RowsKept
<1>5. ASSUME NEW j \in Jobs, EnableJob(j) \/ GrowStale(j)
      PROVE  RowsKept /\ \A r \in RunnerIds : Undisturbed(r)
  <2>1. row \in [Jobs -> Row] /\ runner' = runner /\ raced' = raced
    BY <1>5, Zenon DEF TypeOK, EnableJob, GrowStale
  <2>2. CASE GrowStale(j)
    BY <2>1, <2>2, SameRunners DEF GrowStale, RowsKept, Row
  <2>3. CASE EnableJob(j)
    <3>1. PICK x, b : row' = [row EXCEPT ![j].active = x, ![j].beat = b]
      BY <2>3, Zenon DEF EnableJob
    <3>2. QED
      BY <2>1, <3>1, SameRunners DEF RowsKept, Row
  <2>4. QED
    BY <1>5, <2>2, <2>3
<1>6. QED
  BY <1>1, <1>2, <1>3, <1>4, <1>5 DEF Next

-----------------------------------------------------------------------------
(* The shutdown event.                                                     *)

\* At its first step, which clears the event, and at the head of its loop a runner that
\* was told to end has been cancelled: an event set before, by an expired session or a
\* stop, never lets it come here.
CancelPending ==
    \A r \in RunnerIds :
        runner[r].pc \in {"created", "top"} /\ runner[r].shutdown => runner[r].cancelled

\* The steps of a runner that lead to the head of the loop, or into a poll.
LEMMA RunnerStepLoop ==
  ASSUME TypeOK, CancelPending, NEW r \in RunnerIds, RunnerStep(r)
  PROVE  /\ runner'[r].pc # "created"
         /\ runner'[r].pc = "top" => ~runner'[r].shutdown
         /\ runner[r].shutdown /\ runner[r].pc # "polling" => runner'[r].pc # "polling"
<1>1. runner[r] \in Runner /\ runner \in [RunnerIds -> Runner]
  BY DEF TypeOK
<1>2. ASSUME NEW pc, GoTo(r, pc)
      PROVE  runner'[r].pc = pc /\ runner'[r].shutdown = runner[r].shutdown
  BY <1>1, <1>2 DEF GoTo, Runner
<1>3. ASSUME EnterCleanup(r) PROVE runner'[r].pc = "cleaning"
  BY <1>1, <1>3 DEF EnterCleanup, Runner
<1>4. ASSUME Iterate(r)
      PROVE  \/ runner'[r].pc = "cleaning"
             \/ runner'[r].pc = "top" /\ ~runner'[r].shutdown
  BY <1>2, <1>3, <1>4 DEF Iterate
<1>5. CASE LoadSeen(r) \/ TimeOutCycle(r) \/ EndWait(r) \/ EndBackoff(r)
  BY <1>4, <1>5 DEF LoadSeen, TimeOutCycle, EndWait, EndBackoff
<1>6. CASE BeginCycle(r)
  <2>1. runner'[r].pc \in {"polling", "cleaning", "erring"}
    BY <1>2, <1>3, <1>6 DEF BeginCycle
  <2>2. ~runner[r].shutdown
    BY <1>6 DEF BeginCycle, At, CancelPending
  <2>3. QED
    BY <2>1, <2>2
<1>7. CASE ExpireSession(r)
  <2>1. runner[r].pc = "polling" /\ runner'[r].pc = "polling"
    BY <1>1, <1>7 DEF ExpireSession, At, Runner
  <2>2. QED
    BY <2>1
<1>8. CASE \/ Begin(r) \/ MarkRunning(r) \/ EndPoll(r) \/ FailCycle(r) \/ RecordCycleError(r)
           \/ FatalError(r) \/ Cleanup(r) \/ DeliverCancel(r) \/ OnTaskDone(r)
  <2>1. CASE EndPoll(r) \/ FailCycle(r) \/ RecordCycleError(r)
    BY <1>2, <2>1 DEF EndPoll, FailCycle, RecordCycleError
  <2>2. CASE Begin(r) \/ OnTaskDone(r)
    BY <1>1, <2>2 DEF Begin, OnTaskDone, FreeRunner, NewRunner, Runner
  <2>3. CASE MarkRunning(r) \/ FatalError(r) \/ Cleanup(r)
    BY <1>1, <1>2, <1>3, <2>3 DEF MarkRunning, FatalError, Cleanup, Runner
  <2>4. CASE DeliverCancel(r)
    <3>1. runner'[r].pc \in {"done", "cleaning"}
      BY <1>1, <2>4 DEF DeliverCancel, Runner
    <3>2. QED
      BY <3>1
  <2>5. QED
    BY <1>8, <2>1, <2>2, <2>3, <2>4
<1>9. QED
  BY <1>5, <1>6, <1>7, <1>8 DEF RunnerStep

\* A step of one runner leaves the others as they are.
LEMMA RunnerStepOthers ==
  ASSUME TypeOK, NEW r \in RunnerIds, RunnerStep(r)
  PROVE  \A q \in RunnerIds \ {r} : runner'[q] = runner[q]
BY RunnerFrame DEF OnTaskDone, TypeOK

LEMMA CancelPendingStep ==
  ASSUME TypeOK, CancelPending, [Next]_vars
  PROVE  /\ CancelPending'
         /\ \A r \in RunnerIds : runner[r].shutdown /\ runner[r].pc # "polling"
                                 => runner'[r].pc # "polling"
<1>1. CASE \E q \in RunnerIds : RunnerStep(q)
  BY <1>1, RunnerStepLoop, RunnerStepOthers DEF CancelPending
<1>2. CASE \A r \in RunnerIds : ~RunnerStep(r)
  BY <1>2, OthersDisturb DEF Undisturbed, NotInLoop, CancelPending
<1>3. QED
  BY <1>1, <1>2

\* A runner whose shutdown event is set enters no further poll: the loop tests
\* the event before the head, and after the head only a stop sets it, which
\* cancels the task too.
THEOREM NoPollAfterShutdownCorrect == Spec => NoPollAfterShutdown
<1>1. Init => TypeOK /\ CancelPending
  BY InitType DEF Init, CancelPending, FreeRunner, NewRunner
<1>2. TypeOK /\ CancelPending /\ [Next]_vars => (TypeOK /\ CancelPending)'
  BY NextType, CancelPendingStep
<1>3. TypeOK /\ CancelPending /\ [Next]_vars
      => [\A r \in RunnerIds : runner[r].shutdown /\ runner[r].pc # "polling"
                               => runner'[r].pc # "polling"]_vars
  BY CancelPendingStep
<1>4. QED
  BY <1>1, <1>2, <1>3, PTL DEF Spec, NoPollAfterShutdown

-----------------------------------------------------------------------------
(* The status of a polled job.                                             *)

Polls(r) == runner[r].pc \in {"loading"} \cup PollPcs

\* The writes of a runner go to its own job's row.
LEMMA OwnRow ==
  ASSUME TypeOK, NEW r \in RunnerIds, RunnerStep(r)
  PROVE  \A j \in Jobs : \/ row'[j] = row[j]
                         \/ j = runner[r].job /\ RowExists(j)
<1>1. row \in [Jobs -> Row]
  BY DEF TypeOK
<1>2. \A s : WriteStatus(runner[r].job, s) \/ Heartbeat(runner[r].job)
      => \A j \in Jobs : row'[j] = row[j] \/ (j = runner[r].job /\ RowExists(j))
  BY <1>1 DEF WriteStatus, Heartbeat
<1>3. \/ UNCHANGED row
      \/ \E s : WriteStatus(runner[r].job, s) \/ Heartbeat(runner[r].job)
  BY DEF RunnerStep, Begin, MarkRunning, LoadSeen, BeginCycle, EndPoll, ExpireSession,
     FailCycle, TimeOutCycle, EndWait, RecordCycleError, EndBackoff, FatalError, Cleanup,
     DeliverCancel, OnTaskDone
<1>4. QED
  BY <1>2, <1>3

\* A runner is in its loop after it wrote that it runs, or that a cycle failed.
LEMMA RunnerStepStatus ==
  ASSUME TypeOK, NEW r \in RunnerIds, RunnerStep(r), Polls(r)', ~runner'[r].shutdown
  PROVE  \/ row'[runner[r].job].status \in {"running", "recovering"}
         \/ /\ Polls(r) /\ ~runner[r].shutdown
            /\ row'[runner[r].job].status = row[runner[r].job].status
<1>1. runner[r] \in Runner /\ runner \in [RunnerIds -> Runner] /\ row \in [Jobs -> Row]
  BY DEF TypeOK
<1>2. runner[r].job \in Jobs
  BY <1>1 DEF Runner
<1>3. ASSUME NEW s, WriteStatus(runner[r].job, s) PROVE row'[runner[r].job].status = s
  BY <1>1, <1>2, <1>3 DEF WriteStatus, Row
<1>4. ASSUME Heartbeat(runner[r].job) PROVE row'[runner[r].job].status = row[runner[r].job].status
  BY <1>1, <1>2, <1>4 DEF Heartbeat, Row
<1>5. ASSUME NEW pc, GoTo(r, pc)
      PROVE  runner'[r].pc = pc /\ runner'[r].shutdown = runner[r].shutdown
  BY <1>1, <1>5 DEF GoTo, Runner
<1>6. ~EnterCleanup(r)
  BY <1>1 DEF EnterCleanup, Runner, Polls, PollPcs
<1>7. Iterate(r) => ~runner[r].shutdown
  BY <1>6 DEF Iterate
<1>8. CASE MarkRunning(r)
  <2>1. WriteStatus(runner[r].job, "running")
    BY <1>1, <1>8 DEF MarkRunning, Runner, Polls, PollPcs
  <2>2. QED
    BY <1>3, <2>1
<1>9. CASE LoadSeen(r) \/ TimeOutCycle(r) \/ EndWait(r) \/ EndBackoff(r)
  BY <1>7, <1>9 DEF LoadSeen, TimeOutCycle, EndWait, EndBackoff, At, Polls, PollPcs
<1>10. CASE BeginCycle(r) \/ EndPoll(r) \/ FailCycle(r)
  BY <1>4, <1>5, <1>6, <1>10 DEF BeginCycle, EndPoll, FailCycle, At, Polls, PollPcs
<1>11. CASE RecordCycleError(r)
  <2>1. ~GoTo(r, "fatal")
    BY <1>5 DEF Polls, PollPcs
  <2>2. QED
    BY <1>3, <1>11, <2>1 DEF RecordCycleError
<1>12. CASE ExpireSession(r)
  BY <1>1, <1>12 DEF ExpireSession, Runner
<1>13. CASE FatalError(r) \/ Cleanup(r)
  BY <1>1, <1>5, <1>6, <1>13 DEF FatalError, Cleanup, Runner, Polls, PollPcs
<1>14. CASE Begin(r) \/ OnTaskDone(r)
  BY <1>1, <1>14 DEF Begin, OnTaskDone, FreeRunner, NewRunner, Runner, Polls, PollPcs
<1>15. CASE DeliverCancel(r)
  <2>1. runner'[r].pc \in {"done", "cleaning"}
    BY <1>1, <1>15 DEF DeliverCancel, Runner
  <2>2. QED
    BY <2>1 DEF Polls, PollPcs
<1>16. QED
  BY <1>8, <1>9, <1>10, <1>11, <1>12, <1>13, <1>14, <1>15 DEF RunnerStep

LEMMA StatusStep ==
  ASSUME TypeOK, Registry, StatusTellsPolling, [Next]_vars,
         NEW r \in RunnerIds, KeepsPolling(r)'
  PROVE  row'[runner'[r].job].status \in {"running", "recovering"}
<1>1. runner[r] \in Runner /\ runner[r].job \in Jobs
  BY DEF TypeOK, Runner
<1>2. Polls(r)' /\ ~runner'[r].shutdown /\ runner'[r].pc # "free"
  BY DEF KeepsPolling, Polls, PollPcs
<1>3. KeepsPolling(r) => row[runner[r].job].status \in {"running", "recovering"}
  BY DEF StatusTellsPolling
<1>4. ASSUME NEW q \in RunnerIds, RunnerStep(q), ~OnTaskDone(q)
      PROVE  row'[runner'[r].job].status \in {"running", "recovering"}
  <2>1. /\ runner'[r].job = runner[r].job /\ raced' = raced
        /\ runner[r].pc # "free" /\ runner[q].pc # "free"
    BY <1>2, <1>4, RunnerFrame DEF SameTasks
  <2>2. ~raced[runner[r].job]
    BY <2>1 DEF KeepsPolling
  <2>3. RowExists(runner[r].job)
    BY <1>1, <1>4, <2>1, OwnRow DEF KeepsPolling, RowExists
  <2>4. CASE q = r
    BY <1>2, <1>3, <1>4, <2>1, <2>2, <2>3, <2>4, RunnerStepStatus DEF KeepsPolling, Polls
  <2>5. CASE q # r
    <3>1. runner[q].job # runner[r].job
      BY <2>1, <2>2, <2>5 DEF Registry, OneTaskPerJob
    <3>2. row'[runner[r].job] = row[runner[r].job]
      BY <1>1, <1>4, <3>1, OwnRow
    <3>3. KeepsPolling(r)
      BY <1>2, <1>4, <2>2, <2>3, <2>5, RunnerStepOthers DEF KeepsPolling, Polls
    <3>4. QED
      BY <1>3, <2>1, <3>2, <3>3
  <2>6. QED
    BY <2>4, <2>5
<1>5. ASSUME NEW q \in RunnerIds, OnTaskDone(q)
      PROVE  row'[runner'[r].job].status \in {"running", "recovering"}
  <2>1. q # r
    BY <1>2, <1>5 DEF OnTaskDone, TypeOK, FreeRunner, NewRunner
  <2>2. runner'[r] = runner[r] /\ row' = row
    BY <1>5, <2>1 DEF OnTaskDone, TypeOK
  <2>3. ~raced[runner[r].job]
    <3>1. CASE runner[q].job = runner[r].job
      BY <1>1, <1>2, <1>5, <2>1, <2>2, <3>1 DEF OnTaskDone, TypeOK, KeepsPolling
    <3>2. CASE runner[q].job # runner[r].job
      BY <1>1, <1>5, <2>2, <3>2 DEF OnTaskDone, TypeOK, KeepsPolling
    <3>3. QED
      BY <3>1, <3>2
  <2>4. KeepsPolling(r)
    BY <2>2, <2>3 DEF KeepsPolling, RowExists
  <2>5. QED
    BY <1>3, <2>2, <2>4
<1>6. CASE \A q \in RunnerIds : ~RunnerStep(q)
  <2>1. RowsKept /\ Undisturbed(r)
    BY <1>2, <1>6, OthersDisturb DEF NotInLoop, Polls, PollPcs
  <2>2. KeepsPolling(r) /\ row'[runner[r].job].status = row[runner[r].job].status
    BY <1>1, <2>1 DEF RowsKept, Undisturbed, KeepsPolling, RowExists
  <2>3. QED
    BY <1>3, <2>1, <2>2 DEF Undisturbed
<1>7. QED
  BY <1>4, <1>5, <1>6 DEF RunnerStep

\* A job that is polled and not told to end has the status running or recovering:
\* its runner wrote it last, since no other runner of the job exists, and the
\* others never write a status but the one of a deleted row.
THEOREM StatusTellsPollingCorrect == Spec => []StatusTellsPolling
<1>1. Init => TypeOK /\ Registry /\ StatusTellsPolling
  BY InitType DEF Init, Registry, RegistrySound, OneTaskPerJob, StatusTellsPolling,
     KeepsPolling, PollPcs, FreeRunner, NewRunner
<1>2. TypeOK /\ Registry /\ StatusTellsPolling /\ [Next]_vars
      => (TypeOK /\ Registry /\ StatusTellsPolling)'
  BY NextType, RegistryStep, StatusStep DEF StatusTellsPolling
<1>3. QED
  BY <1>1, <1>2, PTL DEF Spec

=============================================================================
