----------------------------- MODULE JobLifecycle -----------------------------
(***************************************************************************)
(* The life of automation jobs in one backend process: the scheduler's     *)
(* registry and lock (scheduler.py), the runner coroutine of each job      *)
(* (job_runner.py: start, _run_loop, _cleanup), the control and delete     *)
(* endpoints (jobs.py), the watchdog (watchdog.py), boot and shutdown      *)
(* (main.py) and the job rows of the database, which survive a crash.      *)
(*                                                                         *)
(* Everything runs on one asyncio loop, so an action is what one coroutine *)
(* does from one await to the next.  What a poll cycle does with the page  *)
(* and the leads is abstracted to how it ends (EndPoll, ExpireSession,     *)
(* FailCycle, TimeOutCycle).  Time is abstracted too: a sleep or a timeout *)
(* may end at any moment, and a heartbeat may grow stale at any moment.    *)
(***************************************************************************)
EXTENDS Naturals, Sequences, FiniteSets

CONSTANTS
    Jobs,       \* rows of automation_jobs
    RunnerIds,  \* JobRunner objects, with their task, that exist at one time
    Clients,    \* API requests served at one time
    Watchdog,   \* the watchdog task
    Main,       \* the lifespan task: boot and shutdown
    NoRunner,   \* absent from scheduler._runners and scheduler._tasks
    Requests,   \* the kinds of request the clients make
    Faults      \* TRUE: a database call may fail at any time

Actors == Clients \cup {Watchdog, Main}

ASSUME DistinctActors == Watchdog # Main /\ Watchdog \notin Clients /\ Main \notin Clients
ASSUME SomeJob        == Jobs # {}
ASSUME NoRunnerIsNone == NoRunner \notin RunnerIds
ASSUME KnownRequests  == Requests \subseteq {"start", "stop", "restart", "delete", "enable"}
ASSUME FaultsIsFlag   == Faults \in BOOLEAN

VARIABLES
    phase,      \* of the process: off, booting, serving, draining, stopping, exiting
    row,        \* row[j]: status, is_active and age of the heartbeat of job j
    reg,        \* reg[j]: the runner in scheduler._runners[j] / _tasks[j]
    lockQ,      \* scheduler._lock: the holder, then the waiters (asyncio.Lock is FIFO)
    runner,     \* runner[r]: a JobRunner and the state of its task
    call,       \* call[a]: where actor a is in a call on the scheduler
    todo,       \* todo[a]: jobs the boot, watchdog or shutdown loop still has to visit
    raced       \* auxiliary: while j had a task, start_job was served between its end
                \* and its done-callback

vars == <<phase, row, reg, lockQ, runner, call, todo, raced>>

-----------------------------------------------------------------------------
(* Types.                                                                  *)

Statuses == {"idle", "running", "recovering", "error", "stopped", "deleted"}
Row      == [status : Statuses, active : BOOLEAN, beat : {"none", "fresh", "stale"}]

PollPcs   == {"top", "polling", "waiting", "erring", "backoff"}
RunnerPcs == {"free", "created", "marking", "loading", "fatal", "cleaning", "done"} \cup PollPcs
Runner    == [pc : RunnerPcs, job : Jobs, shutdown : BOOLEAN,
              cancelled : BOOLEAN, is_running : BOOLEAN, failed : BOOLEAN]

CallPcs == {"idle", "ready", "startLock", "stopLock", "waitTask", "woken", "raised",
            "pause", "deleting", "ended"}
CallOps == {"none", "start", "stop", "restart", "delete", "shutdown"}
Call    == [pc : CallPcs, op : CallOps, job : Jobs, on : RunnerIds \cup {NoRunner}]

Phases  == {"off", "booting", "serving", "draining", "stopping", "exiting"}

AnyJob     == CHOOSE j \in Jobs : TRUE
NewRunner(pc, j) == [pc |-> pc, job |-> j, shutdown |-> FALSE,
                     cancelled |-> FALSE, is_running |-> FALSE, failed |-> FALSE]
FreeRunner == NewRunner("free", AnyJob)
NoCall(pc) == [pc |-> pc, op |-> "none", job |-> AnyJob, on |-> NoRunner]
IdleCall   == NoCall("idle")

-----------------------------------------------------------------------------
(* What the code reads.                                                    *)

TaskDone(r)  == runner[r].pc = "done"
HasTask(j)   == \E r \in RunnerIds : runner[r].pc # "free" /\ runner[r].job = j
\* task and not task.done()
TaskActive(j) == reg[j] # NoRunner /\ ~TaskDone(reg[j])
\* AutomationScheduler.is_running
IsRunning(j)  == TaskActive(j) \/ (reg[j] # NoRunner /\ runner[reg[j]].is_running)

\* The ready queue is FIFO: a task created while a done-callback is queued, or
\* before the boot loop yields, takes its first step after them; and a request
\* whose I/O completes later than that is resumed later too.
CallbacksRun == phase # "booting" /\ \A r \in RunnerIds : ~TaskDone(r)

RowExists(j)  == row[j].status # "deleted"
WriteFails(j) == Faults \/ ~RowExists(j)

\* Fault: only the runner's own flag is looked at, not its task.
RefusedByFlag(j) == reg[j] # NoRunner /\ runner[reg[j]].is_running

\* AutomationScheduler.start_job refuses: a task that is not done, or a runner
\* still marked running.
Refused(j) == IsRunning(j)

-----------------------------------------------------------------------------
(* Database writes.  A flush that changes nothing emits no UPDATE, so it   *)
(* does not move updated_at; any other write makes a stale row fresh for   *)
(* the watchdog (updated_at), and only a heartbeat gives a first beat.     *)

WriteStatus(j, s) ==
    /\ RowExists(j)
    /\ row' = [row EXCEPT ![j].status = s,
                          ![j].beat = IF @ = "stale" /\ s # row[j].status THEN "fresh" ELSE @]

Heartbeat(j) == /\ RowExists(j)
                /\ row' = [row EXCEPT ![j].beat = "fresh"]

-----------------------------------------------------------------------------
(* scheduler.py.  A call enters at once when the lock is free and queues   *)
(* behind it otherwise; start_job never yields while it holds the lock.    *)

Holds(a) == lockQ # <<>> /\ Head(lockQ) = a
\* Fault: stop_job lets the lock go before it waits for the task.
Dropped(a) == IF lockQ = <<>> THEN <<>> ELSE Tail(lockQ)
Kept(a)    == IF lockQ = <<>> THEN <<a>> ELSE lockQ
Released   == IF lockQ = <<>> THEN <<>> ELSE Tail(lockQ)

SetCall(a, pc, op, j, r) == call' = [call EXCEPT ![a] = [pc |-> pc, op |-> op, job |-> j, on |-> r]]
Return(a) == call' = [call EXCEPT ![a] = IdleCall]

StartBody(j) ==
    /\ lockQ' = Released
    /\ \/ Refused(j) /\ UNCHANGED <<reg, runner, raced>>
       \/ /\ ~Refused(j)
          /\ \E r \in RunnerIds :
                /\ runner[r].pc = "free"
                /\ runner' = [runner EXCEPT ![r] = NewRunner("created", j)]
                /\ reg' = [reg EXCEPT ![j] = r]
          /\ raced' = [raced EXCEPT ![j] = @ \/ (reg[j] # NoRunner /\ TaskDone(reg[j]))]

EnterStart(a, j) ==
    \/ lockQ = <<>> /\ StartBody(j) /\ Return(a)
    \/ /\ lockQ # <<>>
       /\ lockQ' = Append(lockQ, a)
       /\ SetCall(a, "startLock", "start", j, NoRunner)
       /\ UNCHANGED <<reg, runner, raced>>

AfterStop(a, k, j) == CASE k = "restart" -> SetCall(a, "pause", k, j, NoRunner)
                        [] k = "delete"  -> SetCall(a, "deleting", k, j, NoRunner)
                        [] OTHER         -> Return(a)

StopBody(a, k, j) ==
    \/ /\ TaskActive(j)
       /\ runner' = [runner EXCEPT ![reg[j]].shutdown = TRUE, ![reg[j]].cancelled = TRUE]
       /\ lockQ' = Kept(a)
       /\ SetCall(a, "waitTask", k, j, reg[j])
    \/ /\ ~TaskActive(j)
       /\ runner' = IF reg[j] = NoRunner THEN runner
                                         ELSE [runner EXCEPT ![reg[j]].shutdown = TRUE]
       /\ lockQ' = Released
       /\ AfterStop(a, k, j)

EnterStop(a, k, j) ==
    \/ lockQ = <<>> /\ StopBody(a, k, j)
    \/ /\ lockQ # <<>>
       /\ lockQ' = Append(lockQ, a)
       /\ SetCall(a, "stopLock", k, j, NoRunner)
       /\ UNCHANGED runner

Ready(a, k) == call[a].pc = "ready" /\ call[a].op = k

StartJob(a) == /\ Ready(a, "start")
               /\ EnterStart(a, call[a].job)
               /\ UNCHANGED <<phase, row, todo>>

StopJob(a) == /\ Ready(a, "stop")
              /\ EnterStop(a, "stop", call[a].job)
              /\ UNCHANGED <<phase, row, reg, todo, raced>>

\* restart_job looks at the task before it takes the lock.
RestartJob(a) ==
    /\ Ready(a, "restart")
    /\ \/ TaskActive(call[a].job) /\ Return(a) /\ UNCHANGED <<lockQ, runner>>
       \/ ~TaskActive(call[a].job) /\ EnterStop(a, "restart", call[a].job)
    /\ UNCHANGED <<phase, row, reg, todo, raced>>

\* restart_job after its two seconds of sleep.
EndPause(a) == /\ call[a].pc = "pause"
               /\ EnterStart(a, call[a].job)
               /\ UNCHANGED <<phase, row, todo>>

AcquireForStart(a) == /\ call[a].pc = "startLock" /\ Holds(a)
                      /\ StartBody(call[a].job)
                      /\ Return(a)
                      /\ UNCHANGED <<phase, row, todo>>

AcquireForStop(a) == /\ call[a].pc = "stopLock" /\ Holds(a)
                     /\ StopBody(a, call[a].op, call[a].job)
                     /\ UNCHANGED <<phase, row, reg, todo, raced>>

\* wait_for(shield(task), 10): the task ended and its callbacks ran, ...
StopReturns(a) == /\ call[a].pc = "woken"
                  /\ lockQ' = Released
                  /\ AfterStop(a, call[a].op, call[a].job)
                  /\ UNCHANGED <<phase, row, reg, runner, todo, raced>>

\* Fault: no timeout.
NeverTimesOut(a) == FALSE

\* ... or ten seconds passed, which stop_job does not tell its caller, ...
StopTimesOut(a) == /\ call[a].pc = "waitTask"
                   /\ lockQ' = Released
                   /\ AfterStop(a, call[a].op, call[a].job)
                   /\ UNCHANGED <<phase, row, reg, runner, todo, raced>>

\* ... or the task raised: the exception leaves stop_job, and the caller's loop.
StopRaises(a) == /\ call[a].pc = "raised"
                 /\ lockQ' = Released
                 /\ Return(a)
                 /\ todo' = IF a \in DOMAIN todo THEN [todo EXCEPT ![a] = {}] ELSE todo
                 /\ UNCHANGED <<phase, row, reg, runner, raced>>

\* Fault: the entries of a task that failed are kept.
OnTaskDoneKeepsEntry(r) ==
    /\ TaskDone(r)
    /\ runner' = [runner EXCEPT ![r] = FreeRunner]
    /\ call' = [a \in Actors |-> IF call[a].pc = "waitTask" /\ call[a].on = r
                                THEN [call[a] EXCEPT !.pc = "woken"] ELSE call[a]]
    /\ reg' = [reg EXCEPT ![runner[r].job] = IF runner[r].failed THEN @ ELSE NoRunner]
    /\ UNCHANGED <<phase, row, lockQ, todo, raced>>

\* _on_task_done pops the job's entries, whichever runner they hold; the next
\* callback of the task wakes the stop_job that waits for it.
OnTaskDone(r) ==
    LET j == runner[r].job IN
    /\ TaskDone(r)
    /\ reg' = [reg EXCEPT ![j] = NoRunner]
    /\ call' = [a \in Actors |->
                  IF call[a].pc = "waitTask" /\ call[a].on = r
                  THEN [call[a] EXCEPT !.pc = IF runner[r].failed THEN "raised" ELSE "woken"]
                  ELSE call[a]]
    /\ runner' = [runner EXCEPT ![r] = FreeRunner]
    /\ raced' = [raced EXCEPT ![j] = @ /\ \E q \in RunnerIds \ {r} :
                                              runner[q].pc # "free" /\ runner[q].job = j]
    /\ UNCHANGED <<phase, row, lockQ, todo>>

-----------------------------------------------------------------------------
(* jobs.py.  An endpoint reads the row, then calls the scheduler without   *)
(* another await: is_active may have changed since the read.               *)

Request(c, k, j) ==
    /\ phase = "serving" /\ CallbacksRun
    /\ call[c].pc = "idle"
    /\ k # "delete" => RowExists(j)
    /\ k = "start" => row[j].active
    /\ SetCall(c, "ready", k, j, NoRunner)
    /\ UNCHANGED <<phase, row, reg, lockQ, runner, todo, raced>>

DeleteJob(a) ==
    /\ Ready(a, "delete")
    /\ \/ IsRunning(call[a].job) /\ EnterStop(a, "delete", call[a].job)
       \/ /\ ~IsRunning(call[a].job)
          /\ SetCall(a, "deleting", "delete", call[a].job, NoRunner)
          /\ UNCHANGED <<lockQ, runner>>
    /\ UNCHANGED <<phase, row, reg, todo, raced>>

DeleteRow(a) ==
    LET j == call[a].job IN
    /\ call[a].pc = "deleting"
    /\ \/ row' = [row EXCEPT ![j] = [status |-> "deleted", active |-> FALSE, beat |-> "none"]]
       \/ WriteFails(j) /\ UNCHANGED row
    /\ Return(a)
    /\ UNCHANGED <<phase, reg, lockQ, runner, todo, raced>>

\* PATCH is_active.
EnableJob(j) ==
    /\ "enable" \in Requests /\ phase = "serving" /\ RowExists(j)
    /\ row' = [row EXCEPT ![j].active = ~@, ![j].beat = IF @ = "stale" THEN "fresh" ELSE @]
    /\ UNCHANGED <<phase, reg, lockQ, runner, call, todo, raced>>

-----------------------------------------------------------------------------
(* watchdog.py.  The staleness of every job is judged on one snapshot.     *)

WatchdogIdle == /\ phase \in {"serving", "draining"} /\ CallbacksRun
                /\ call[Watchdog].pc = "idle"

\* Fault: only jobs the scheduler reports as running are watched.
CheckRunningJobs ==
    /\ WatchdogIdle /\ todo[Watchdog] = {}
    /\ todo' = [todo EXCEPT ![Watchdog] = {j \in Jobs : IsRunning(j) /\ row[j].beat = "stale"}]
    /\ UNCHANGED <<phase, row, reg, lockQ, runner, call, raced>>

CheckAllJobs ==
    /\ WatchdogIdle /\ todo[Watchdog] = {}
    /\ todo' = [todo EXCEPT ![Watchdog] = {j \in Jobs : /\ row[j].active
                                                        /\ row[j].status = "running"
                                                        /\ row[j].beat = "stale"}]
    /\ UNCHANGED <<phase, row, reg, lockQ, runner, call, raced>>

\* The event is logged first; when that fails the rest of the check is skipped.
TriggerRecovery(j) ==
    /\ WatchdogIdle /\ j \in todo[Watchdog]
    /\ \/ /\ RowExists(j)
          /\ SetCall(Watchdog, "ready", "restart", j, NoRunner)
          /\ todo' = [todo EXCEPT ![Watchdog] = @ \ {j}]
       \/ /\ WriteFails(j)
          /\ todo' = [todo EXCEPT ![Watchdog] = {}]
          /\ UNCHANGED call
    /\ UNCHANGED <<phase, row, reg, lockQ, runner, raced>>

-----------------------------------------------------------------------------
(* main.py: the lifespan of the process.                                   *)

ProcessGone ==
    /\ phase'  = "off"
    /\ reg'    = [j \in Jobs |-> NoRunner]
    /\ lockQ'  = <<>>
    /\ runner' = [r \in RunnerIds |-> FreeRunner]
    /\ call'   = [a \in Actors |-> IdleCall]
    /\ todo'   = [a \in {Watchdog, Main} |-> {}]
    /\ raced'  = [j \in Jobs |-> FALSE]
    /\ UNCHANGED row

Boot ==
    /\ phase = "off" /\ phase' = "booting"
    /\ todo' = [todo EXCEPT ![Main] = {j \in Jobs : /\ row[j].active
                                                    /\ row[j].status \in {"running", "recovering"}}]
    /\ UNCHANGED <<row, reg, lockQ, runner, call, raced>>

BootStart(j) ==
    /\ phase = "booting" /\ j \in todo[Main]
    /\ StartBody(j)
    /\ todo' = [todo EXCEPT ![Main] = @ \ {j}]
    /\ UNCHANGED <<phase, row, call>>

BootDone ==
    /\ phase = "booting" /\ todo[Main] = {} /\ phase' = "serving"
    /\ UNCHANGED <<row, reg, lockQ, runner, call, todo, raced>>

\* Fault: the watchdog is left alive while the jobs are stopped.
BeginShutdownKeepsWatchdog ==
    /\ phase = "serving" /\ phase' = "stopping"
    /\ \A c \in Clients : call[c].pc = "idle"
    /\ todo' = [todo EXCEPT ![Main] = {j \in Jobs : reg[j] # NoRunner}]
    /\ UNCHANGED <<row, reg, lockQ, runner, call, raced>>

\* uvicorn lets the requests finish, then the lifespan cancels the watchdog.
\* stop_job swallows a CancelledError while it waits for a task, also its own.
BeginShutdown ==
    /\ phase = "serving" /\ phase' = "draining"
    /\ \A c \in Clients : call[c].pc = "idle"
    /\ \/ /\ call[Watchdog].pc \in {"waitTask", "woken", "raised"}
          /\ call' = [call EXCEPT ![Watchdog].pc = "woken"]
          /\ UNCHANGED <<lockQ, todo>>
       \/ /\ call[Watchdog].pc \notin {"waitTask", "woken", "raised"}
          /\ call' = [call EXCEPT ![Watchdog] = NoCall("ended")]
          /\ lockQ' = <<>>
          /\ todo' = [todo EXCEPT ![Watchdog] = {}]
    /\ UNCHANGED <<row, reg, runner, raced>>

ShutdownAll ==
    /\ phase = "draining" /\ call[Watchdog].pc = "ended" /\ phase' = "stopping"
    /\ todo' = [todo EXCEPT ![Main] = {j \in Jobs : reg[j] # NoRunner}]
    /\ UNCHANGED <<row, reg, lockQ, runner, call, raced>>

ShutdownStop(j) ==
    /\ phase = "stopping" /\ call[Main].pc = "idle" /\ j \in todo[Main]
    /\ EnterStop(Main, "shutdown", j)
    /\ todo' = [todo EXCEPT ![Main] = @ \ {j}]
    /\ UNCHANGED <<phase, row, reg, raced>>

\* The loop closes: asyncio.run cancels the tasks that are left and waits for them.
CloseLoop ==
    /\ phase = "stopping" /\ call[Main].pc = "idle" /\ todo[Main] = {}
    /\ phase' = "exiting"
    /\ runner' = [r \in RunnerIds |->
                    IF runner[r].pc \in {"free", "done"} THEN runner[r]
                                                         ELSE [runner[r] EXCEPT !.cancelled = TRUE]]
    /\ UNCHANGED <<row, reg, lockQ, call, todo, raced>>

Exit  == phase = "exiting" /\ (\A r \in RunnerIds : runner[r].pc = "free") /\ ProcessGone
Crash == phase # "off" /\ ProcessGone

-----------------------------------------------------------------------------
(* job_runner.py.  A cancellation is delivered before anything else.       *)

At(r, pc) == runner[r].pc = pc /\ ~runner[r].cancelled
GoTo(r, pc) == runner' = [runner EXCEPT ![r].pc = pc]
EnterCleanup(r) == runner' = [runner EXCEPT ![r].pc = "cleaning", ![r].is_running = FALSE]
\* Fault: while True.
IterateForever(r) == GoTo(r, "top")
\* while not self._shutdown_event.is_set()
Iterate(r) == \/ runner[r].shutdown /\ EnterCleanup(r)
              \/ ~runner[r].shutdown /\ GoTo(r, "top")
RunnerOnly == UNCHANGED <<phase, reg, lockQ, call, todo, raced>>

Begin(r) ==
    /\ At(r, "created") /\ CallbacksRun
    /\ runner' = [runner EXCEPT ![r].pc = "marking", ![r].is_running = TRUE,
                                ![r].shutdown = FALSE]
    /\ UNCHANGED row /\ RunnerOnly

\* Fault: a failed first status write is ignored.
MarkRunningOrNot(r) ==
    /\ At(r, "marking") /\ GoTo(r, "loading") /\ RunnerOnly
    /\ WriteStatus(runner[r].job, "running") \/ (WriteFails(runner[r].job) /\ UNCHANGED row)

\* The first status write is outside every handler of start(): no cleanup.
MarkRunning(r) ==
    /\ At(r, "marking")
    /\ \/ WriteStatus(runner[r].job, "running") /\ GoTo(r, "loading")
       \/ /\ WriteFails(runner[r].job) /\ UNCHANGED row
          /\ runner' = [runner EXCEPT ![r].pc = "done", ![r].failed = TRUE]
    /\ RunnerOnly

\* Failing to load the dedup keys is swallowed.
LoadSeen(r) == At(r, "loading") /\ Iterate(r) /\ UNCHANGED row /\ RunnerOnly

\* _load_job, is_active, the heartbeat before slow navigation.
BeginCycle(r) ==
    LET j == runner[r].job IN
    /\ At(r, "top")
    /\ \/ row[j].active /\ Heartbeat(j) /\ GoTo(r, "polling")
       \/ RowExists(j) /\ ~row[j].active /\ EnterCleanup(r) /\ UNCHANGED row
       \/ WriteFails(j) /\ GoTo(r, "erring") /\ UNCHANGED row
    /\ RunnerOnly

\* _poll_cycle returned: the second heartbeat, recycling, then the wait.
EndPoll(r) == /\ At(r, "polling")
              /\ Heartbeat(runner[r].job) /\ GoTo(r, "waiting")
              /\ RunnerOnly

\* Fault: the job is paused, with the status nothing in the code knows.
ExpireSessionPauses(r) ==
    /\ At(r, "polling") /\ ~runner[r].shutdown
    /\ WriteStatus(runner[r].job, "paused")
    /\ runner' = [runner EXCEPT ![r].shutdown = TRUE]
    /\ RunnerOnly

\* _handle_session_expired; _poll_cycle then returns as usual.
ExpireSession(r) ==
    /\ At(r, "polling") /\ ~runner[r].shutdown
    /\ WriteStatus(runner[r].job, "error")
    /\ runner' = [runner EXCEPT ![r].shutdown = TRUE]
    /\ RunnerOnly

\* Any exception of the browser, the page or the database.
FailCycle(r) == At(r, "polling") /\ GoTo(r, "erring") /\ UNCHANGED row /\ RunnerOnly

\* A TimeoutError of the database driver is taken for the end of the poll
\* interval: no delay, no recovery.
TimeOutCycle(r) == /\ Faults /\ runner[r].pc \in {"top", "polling"} /\ ~runner[r].cancelled
                   /\ Iterate(r) /\ UNCHANGED row /\ RunnerOnly

\* The interval elapsed, or the event was set: both leave through the while.
EndWait(r) == At(r, "waiting") /\ Iterate(r) /\ UNCHANGED row /\ RunnerOnly

\* Fault: a status that cannot be written does not end the loop.
RecordCycleErrorOrNot(r) ==
    /\ At(r, "erring") /\ GoTo(r, "backoff") /\ RunnerOnly
    /\ \/ WriteStatus(runner[r].job, "recovering")
       \/ WriteFails(runner[r].job) /\ UNCHANGED row

\* The handler of a failed cycle; when it fails itself start() takes over.
RecordCycleError(r) ==
    /\ At(r, "erring")
    /\ \/ WriteStatus(runner[r].job, "recovering") /\ GoTo(r, "backoff")
       \/ Faults /\ WriteStatus(runner[r].job, "recovering") /\ GoTo(r, "fatal")
       \/ WriteFails(runner[r].job) /\ GoTo(r, "fatal") /\ UNCHANGED row
    /\ RunnerOnly

\* The growing delay and the browser restart, which may fail.
EndBackoff(r) == At(r, "backoff") /\ Iterate(r) /\ UNCHANGED row /\ RunnerOnly

FatalError(r) ==
    /\ At(r, "fatal")
    /\ \/ WriteStatus(runner[r].job, "error") /\ EnterCleanup(r)
       \/ /\ WriteFails(runner[r].job) /\ UNCHANGED row
          /\ runner' = [runner EXCEPT ![r].pc = "cleaning", ![r].is_running = FALSE,
                                      ![r].failed = TRUE]
    /\ RunnerOnly

\* _cleanup: the action tasks and the browser, then the status, whose failure is
\* suppressed.  An exception of the cancelled action task is not.
Cleanup(r) ==
    /\ At(r, "cleaning")
    /\ \/ WriteStatus(runner[r].job, "stopped") /\ GoTo(r, "done")
       \/ WriteFails(runner[r].job) /\ UNCHANGED row /\ GoTo(r, "done")
       \/ /\ Faults /\ UNCHANGED row
          /\ runner' = [runner EXCEPT ![r].pc = "done", ![r].failed = TRUE]
    /\ RunnerOnly

\* CancelledError at the current await.  Before the loop nothing catches it; in
\* the cleanup it ends the task early, or is absorbed with the action task's.
DeliverCancel(r) ==
    /\ runner[r].cancelled
    /\ \/ /\ runner[r].pc \in {"created", "marking", "loading", "cleaning"}
          /\ runner' = [runner EXCEPT ![r].pc = "done", ![r].cancelled = FALSE,
                                      ![r].failed = FALSE]
          /\ \/ UNCHANGED row
             \/ runner[r].pc = "marking" /\ WriteStatus(runner[r].job, "running")
       \/ /\ runner[r].pc = "cleaning" /\ UNCHANGED row
          /\ runner' = [runner EXCEPT ![r].cancelled = FALSE]
       \/ /\ runner[r].pc \in PollPcs \cup {"fatal"} /\ UNCHANGED row
          /\ runner' = [runner EXCEPT ![r].pc = "cleaning", ![r].is_running = FALSE,
                                      ![r].cancelled = FALSE]
    /\ RunnerOnly

\* Time passes without a write to the row: 300 s since the heartbeat.
GrowStale(j) == /\ row[j].beat = "fresh"
                /\ row' = [row EXCEPT ![j].beat = "stale"]
                /\ UNCHANGED <<phase, reg, lockQ, runner, call, todo, raced>>

-----------------------------------------------------------------------------
Init ==
    /\ phase = "off"
    /\ row = [j \in Jobs |-> [status |-> "idle", active |-> TRUE, beat |-> "none"]]
    /\ reg = [j \in Jobs |-> NoRunner]
    /\ lockQ = <<>>
    /\ runner = [r \in RunnerIds |-> FreeRunner]
    /\ call = [a \in Actors |-> IdleCall]
    /\ todo = [a \in {Watchdog, Main} |-> {}]
    /\ raced = [j \in Jobs |-> FALSE]

SchedulerStep(a) ==
    \/ StartJob(a) \/ StopJob(a) \/ RestartJob(a) \/ DeleteJob(a) \/ DeleteRow(a)
    \/ EndPause(a) \/ AcquireForStart(a) \/ AcquireForStop(a)
    \/ StopReturns(a) \/ StopTimesOut(a) \/ StopRaises(a)

WatchdogStep == CheckAllJobs \/ \E j \in Jobs : TriggerRecovery(j)

BootStep == Boot \/ BootDone \/ \E j \in Jobs : BootStart(j)
ShutdownStep == \/ BeginShutdown \/ ShutdownAll \/ CloseLoop \/ Exit
                \/ \E j \in Jobs : ShutdownStop(j)

RunnerStep(r) ==
    \/ Begin(r) \/ MarkRunning(r) \/ LoadSeen(r) \/ BeginCycle(r) \/ EndPoll(r)
    \/ ExpireSession(r) \/ FailCycle(r) \/ TimeOutCycle(r) \/ EndWait(r)
    \/ RecordCycleError(r) \/ EndBackoff(r) \/ FatalError(r) \/ Cleanup(r)
    \/ DeliverCancel(r) \/ OnTaskDone(r)

Next ==
    \/ \E c \in Clients, k \in Requests \ {"enable"}, j \in Jobs : Request(c, k, j)
    \/ \E a \in Actors : SchedulerStep(a)
    \/ \E j \in Jobs : EnableJob(j) \/ GrowStale(j)
    \/ WatchdogStep \/ BootStep \/ ShutdownStep \/ Crash
    \/ \E r \in RunnerIds : RunnerStep(r)

Spec == Init /\ [][Next]_vars

\* Fairness the event loop gives: a coroutine whose await is over is resumed, a
\* timer fires, time passes; the restart policy boots the process again.
\* Nothing says that a page or a browser answers (page.evaluate and
\* context.close have no timeout), that anybody calls the API or that the
\* process ever shuts down.
LoopStep(r) == Begin(r) \/ DeliverCancel(r) \/ OnTaskDone(r)
Fairness ==
    /\ \A a \in Actors : SF_vars(SchedulerStep(a))
    /\ SF_vars(WatchdogStep) /\ WF_vars(BootStep)
    /\ \A r \in RunnerIds : WF_vars(LoopStep(r))
    /\ \A j \in Jobs : WF_vars(GrowStale(j))

FairSpec == Spec /\ Fairness

\* A browser that always answers in the end.  The cleanup absorbs at most two
\* cancellations, at its two waits for an action task.
Answering == \A r \in RunnerIds : WF_vars(RunnerStep(r)) /\ SF_vars(Cleanup(r))

-----------------------------------------------------------------------------
(* Safety.                                                                 *)

\* Every variable has its type.
TypeOK ==
    /\ phase \in Phases
    /\ row \in [Jobs -> Row]
    /\ reg \in [Jobs -> RunnerIds \cup {NoRunner}]
    /\ lockQ \in Seq(Actors)
    /\ runner \in [RunnerIds -> Runner]
    /\ call \in [Actors -> Call]
    /\ todo \in [{Watchdog, Main} -> SUBSET Jobs]
    /\ raced \in [Jobs -> BOOLEAN]

\* A registry entry always names a task of that job that has not been called
\* back: stop_job never cancels, and is_running never reports, another one.
RegistrySound ==
    \A j \in Jobs : reg[j] # NoRunner =>
        runner[reg[j]].pc # "free" /\ runner[reg[j]].job = j

\* start_job gives a job a second task only in the loop iteration between the
\* end of the first one and its done-callback; otherwise the task the registry
\* holds is the job's only one, so one runner uses the browser profile.
OneTaskPerJob ==
    \A r \in RunnerIds :
        runner[r].pc # "free" /\ ~raced[runner[r].job] => reg[runner[r].job] = r

\* The lock makes "cancel, then wait for the end" one step for start_job: while
\* stop_job waits for a task no other task of the job is registered, and only
\* the lock's holder waits.
StopExcludesStart ==
    \A a \in Actors :
        /\ call[a].pc \in {"waitTask", "woken", "raised"} => Holds(a)
        /\ call[a].pc = "waitTask" => reg[call[a].job] \in {call[a].on, NoRunner}

\* What the dashboard shows of a job that is being polled and has not been told
\* to end: whatever stops, restarts, crashes and failed writes came before, its
\* status is running, or recovering after a failed cycle.
KeepsPolling(r) == /\ runner[r].pc \in {"loading"} \cup PollPcs
                   /\ ~runner[r].shutdown
                   /\ ~raced[runner[r].job] /\ RowExists(runner[r].job)
StatusTellsPolling ==
    \A r \in RunnerIds :
        KeepsPolling(r) => row[runner[r].job].status \in {"running", "recovering"}

\* Once the shutdown event of a runner is set, by stop_job or by an expired
\* session, it never enters another poll cycle, not even after a failed one.
NoPollAfterShutdown ==
    [][\A r \in RunnerIds : runner[r].shutdown /\ runner[r].pc # "polling"
                            => runner'[r].pc # "polling"]_vars

\* The lifespan stops the watchdog before it stops the jobs, and the requests
\* were over before that: from then on nothing can start a job again.
NoStartWhileStopping ==
    [][\A r \in RunnerIds : phase \in {"stopping", "exiting"} /\ runner[r].pc = "free"
                            => runner'[r].pc = "free"]_vars

-----------------------------------------------------------------------------
(* Liveness.                                                               *)

\* Every control or delete request is answered, whatever the runner does: the
\* lock is FIFO and its holder waits at most ten seconds.
RequestsReturn == \A c \in Clients : call[c].pc # "idle" ~> call[c].pc = "idle"

\* A row that says running, of an active job nobody runs (its runner was ended
\* before it could write its last status), is noticed by the watchdog: the job
\* gets a runner again, unless the row changes or the process ends first.
DeadJobRevived ==
    \A j \in Jobs :
        LET Dead == /\ phase = "serving" /\ ~HasTask(j)
                    /\ row[j].active /\ row[j].status = "running" /\ row[j].beat # "none"
        IN  Dead ~> ~Dead

\* The runner of a job whose row was deleted ends, although delete_job may have
\* given up waiting for it: if its browser answers it meets the missing row, and
\* gives up.
DeletedJobEnds ==
    Answering => \A j \in Jobs : ~RowExists(j) /\ HasTask(j) ~> ~HasTask(j)

-----------------------------------------------------------------------------
(* What the repository says and the code does not do: it is refuted.       *)

\* watchdog.py: it "monitors running automation jobs for heartbeat timeouts and
\* triggers auto-recovery".  A job whose poll hangs does not stay so for ever.
HungJobRecovered ==
    \A r \in RunnerIds :
        LET Hung == /\ phase = "serving" /\ At(r, "polling")
                    /\ row[runner[r].job] = [status |-> "running", active |-> TRUE,
                                             beat |-> "stale"]
        IN  Hung ~> ~Hung

=============================================================================
