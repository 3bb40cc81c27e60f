------------------------- MODULE JobLifecycleStopProofs -------------------------
(***************************************************************************)
(* Theorems about stopping in JobLifecycle: the lock that stop_job holds   *)
(* while it waits, the shutdown of the process, and the service that both  *)
(* keep up together with the runners (JobService).  They hold for any set  *)
(* of jobs, runner objects and clients.                                    *)
(***************************************************************************)
EXTENDS JobLifecycleRunnerProofs, JobLifecycleImplements

-----------------------------------------------------------------------------
(* Who can be inside the scheduler in each phase of the process.           *)

Waits(a) == call[a].pc \in {"waitTask", "woken", "raised"}

PhaseTellsCalls ==
    /\ phase \in {"off", "booting"} => lockQ = <<>> /\ \A a \in Actors : call[a].pc = "idle"
    /\ phase \in {"draining", "stopping", "exiting"} => \A c \in Clients : call[c].pc = "idle"
    /\ phase \in {"stopping", "exiting"} => call[Watchdog].pc = "ended"
    /\ phase # "stopping" => call[Main].pc = "idle"
    /\ call[Main].pc # "idle" => /\ call[Main].op = "shutdown"
                                 /\ call[Main].pc = "stopLock" \/ Waits(Main)

\* A call that its actor sets changes no other actor's.
LEMMA CallFrame ==
  ASSUME TypeOK, NEW a \in Actors
  PROVE  /\ Return(a) => /\ call'[a] = IdleCall
                         /\ \A b \in Actors \ {a} : call'[b] = call[b]
         /\ \A pc, op, j, r : SetCall(a, pc, op, j, r) =>
               /\ call'[a].pc = pc /\ call'[a].op = op
               /\ call'[a].job = j /\ call'[a].on = r
               /\ \A b \in Actors \ {a} : call'[b] = call[b]
BY DEF TypeOK, Return, SetCall

LEMMA AfterStopFrame ==
  ASSUME TypeOK, NEW a \in Actors, NEW k, NEW j, AfterStop(a, k, j)
  PROVE  /\ call'[a].pc \in {"idle", "pause", "deleting"}
         /\ k = "shutdown" => call'[a].pc = "idle"
         /\ \A b \in Actors \ {a} : call'[b] = call[b]
<1>1. CASE k = "restart"
  <2>1. SetCall(a, "pause", k, j, NoRunner)
    BY <1>1 DEF AfterStop
  <2>2. QED
    BY <1>1, <2>1 DEF SetCall, TypeOK
<1>2. CASE k = "delete"
  <2>1. SetCall(a, "deleting", k, j, NoRunner)
    BY <1>2 DEF AfterStop
  <2>2. QED
    BY <1>2, <2>1 DEF SetCall, TypeOK
<1>3. CASE k \notin {"restart", "delete"}
  BY <1>3, CallFrame DEF AfterStop, IdleCall, NoCall
<1>4. QED
  BY <1>1, <1>2, <1>3

\* What a call of start_job or stop_job leaves of the calls: only the caller's
\* changes, and stop_job waits for the task that the registry holds.
LEMMA StopBodyCalls ==
  ASSUME TypeOK, NEW a \in Actors, NEW k, NEW j, StopBody(a, k, j)
  PROVE  /\ \A b \in Actors \ {a} : call'[b] = call[b]
         /\ \/ /\ lockQ' = Kept(a)
               /\ call'[a].pc = "waitTask" /\ call'[a].op = k
               /\ call'[a].job = j /\ call'[a].on = reg[j]
            \/ /\ lockQ' = Released
               /\ call'[a].pc \in {"idle", "pause", "deleting"}
               /\ k = "shutdown" => call'[a].pc = "idle"
<1>1. CASE TaskActive(j)
  BY <1>1, CallFrame DEF StopBody
<1>2. CASE ~TaskActive(j)
  BY <1>2, AfterStopFrame DEF StopBody
<1>3. QED
  BY <1>1, <1>2

LEMMA EnterCalls ==
  ASSUME TypeOK, NEW a \in Actors, NEW j
  PROVE  /\ EnterStart(a, j) => \A b \in Actors \ {a} : call'[b] = call[b]
         /\ \A k : EnterStop(a, k, j) =>
               /\ \A b \in Actors \ {a} : call'[b] = call[b]
               /\ call'[a].pc \in {"idle", "stopLock", "waitTask", "pause", "deleting"}
               /\ call'[a].pc \in {"stopLock", "waitTask"} => call'[a].op = k
               /\ k = "shutdown" => call'[a].pc \notin {"pause", "deleting"}
<1>1. ASSUME EnterStart(a, j) PROVE \A b \in Actors \ {a} : call'[b] = call[b]
  BY <1>1, CallFrame DEF EnterStart
<1>2. ASSUME NEW k, EnterStop(a, k, j)
      PROVE  /\ \A b \in Actors \ {a} : call'[b] = call[b]
             /\ call'[a].pc \in {"idle", "stopLock", "waitTask", "pause", "deleting"}
             /\ call'[a].pc \in {"stopLock", "waitTask"} => call'[a].op = k
             /\ k = "shutdown" => call'[a].pc \notin {"pause", "deleting"}
  <2>1. CASE StopBody(a, k, j)
    BY <2>1, StopBodyCalls
  <2>2. CASE SetCall(a, "stopLock", k, j, NoRunner)
    BY <2>2, CallFrame
  <2>3. QED
    BY <1>2, <2>1, <2>2 DEF EnterStop
<1>3. QED
  BY <1>1, <1>2

\* A step inside the scheduler is one of an actor that is inside it.
LEMMA SchedulerStepCalls ==
  ASSUME TypeOK, NEW a \in Actors, SchedulerStep(a)
  PROVE  /\ phase' = phase
         /\ call[a].pc \notin {"idle", "ended"}
         /\ \A b \in Actors \ {a} : call'[b] = call[b]
<1>1. phase' = phase
  BY DEF SchedulerStep, StartJob, StopJob, RestartJob, DeleteJob, DeleteRow, EndPause,
         AcquireForStart, AcquireForStop, StopReturns, StopTimesOut, StopRaises
<1>2. call[a].pc \notin {"idle", "ended"}
  BY DEF SchedulerStep, StartJob, StopJob, RestartJob, DeleteJob, DeleteRow, EndPause, Ready,
         AcquireForStart, AcquireForStop, StopReturns, StopTimesOut, StopRaises
<1>3. CASE StartJob(a) \/ EndPause(a)
  BY <1>1, <1>2, <1>3, EnterCalls DEF StartJob, EndPause
<1>4. CASE StopJob(a) \/ RestartJob(a) \/ DeleteJob(a) \/ AcquireForStop(a)
  <2>1. ASSUME NEW k, NEW j, EnterStop(a, k, j) \/ StopBody(a, k, j)
        PROVE  \A b \in Actors \ {a} : call'[b] = call[b]
    BY <2>1, EnterCalls, StopBodyCalls
  <2>2. ASSUME NEW j, Return(a) \/ SetCall(a, "deleting", "delete", j, NoRunner)
        PROVE  \A b \in Actors \ {a} : call'[b] = call[b]
    BY <2>2 DEF SetCall, Return, TypeOK
  <2>3. QED
    BY <1>1, <1>2, <1>4, <2>1, <2>2 DEF StopJob, RestartJob, DeleteJob, AcquireForStop
<1>5. CASE AcquireForStart(a) \/ DeleteRow(a) \/ StopRaises(a)
  BY <1>1, <1>2, <1>5, CallFrame DEF AcquireForStart, DeleteRow, StopRaises
<1>6. CASE StopReturns(a) \/ StopTimesOut(a)
  BY <1>1, <1>2, <1>6, AfterStopFrame DEF StopReturns, StopTimesOut
<1>7. QED
  BY <1>3, <1>4, <1>5, <1>6 DEF SchedulerStep

\* The done-callback changes only the calls that wait for its task.
LEMMA RunnerStepCalls ==
  ASSUME TypeOK, NEW r \in RunnerIds, RunnerStep(r)
  PROVE  /\ phase' = phase /\ lockQ' = lockQ
         /\ \A a \in Actors :
               \/ call'[a] = call[a]
               \/ /\ call[a].pc = "waitTask" /\ call'[a].pc \in {"woken", "raised"}
                  /\ call'[a].op = call[a].op /\ call'[a].job = call[a].job
<1>1. CASE OnTaskDone(r)
  <2>1. phase' = phase /\ lockQ' = lockQ
    BY <1>1 DEF OnTaskDone
  <2>2. ASSUME NEW a \in Actors, call[a].pc = "waitTask", call[a].on = r
        PROVE  /\ call'[a].pc \in {"woken", "raised"}
               /\ call'[a].op = call[a].op /\ call'[a].job = call[a].job
    <3>1. PICK pc \in {"woken", "raised"} : call'[a] = [call[a] EXCEPT !.pc = pc]
      BY <1>1, <2>2 DEF OnTaskDone
    <3>2. call[a] \in Call
      BY DEF TypeOK
    <3>3. QED
      BY <3>1, <3>2 DEF Call
  <2>3. ASSUME NEW a \in Actors, ~(call[a].pc = "waitTask" /\ call[a].on = r)
        PROVE  call'[a] = call[a]
    BY <1>1, <2>3 DEF OnTaskDone
  <2>4. QED
    BY <2>1, <2>2, <2>3
<1>2. CASE ~OnTaskDone(r)
  BY <1>2 DEF RunnerStep, RunnerOnly, Begin, MarkRunning, LoadSeen, BeginCycle, EndPoll,
     ExpireSession, FailCycle, TimeOutCycle, EndWait, RecordCycleError, EndBackoff,
     FatalError, Cleanup, DeliverCancel
<1>3. QED
  BY <1>1, <1>2

\* In each phase only some actors can take a step inside the scheduler, and the
\* lifespan only the last ones of a stop.
LEMMA WhoSteps ==
  ASSUME TypeOK, PhaseTellsCalls, NEW a \in Actors, SchedulerStep(a)
  PROVE  /\ phase \notin {"off", "booting", "exiting"}
         /\ a \in Clients => phase = "serving"
         /\ a = Watchdog => phase \in {"serving", "draining"}
         /\ a = Main => /\ phase = "stopping" /\ call[Main].op = "shutdown"
                        /\ \/ AcquireForStop(Main) \/ StopReturns(Main)
                           \/ StopTimesOut(Main) \/ StopRaises(Main)
<1>1. call[a].pc \notin {"idle", "ended"}
  BY SchedulerStepCalls
<1>2. phase \in Phases /\ Main \in Actors
  BY DEF TypeOK, Actors
<1>3. ASSUME a = Main
      PROVE  /\ phase = "stopping" /\ call[Main].op = "shutdown"
             /\ \/ AcquireForStop(Main) \/ StopReturns(Main)
                \/ StopTimesOut(Main) \/ StopRaises(Main)
  BY <1>1, <1>3 DEF PhaseTellsCalls, Waits, SchedulerStep, StartJob, StopJob, RestartJob,
     DeleteJob, DeleteRow, EndPause, Ready, AcquireForStart
<1>4. QED
  BY <1>1, <1>2, <1>3, DistinctActors DEF PhaseTellsCalls, Phases, Actors

LEMMA SchedulerStepPhase ==
  ASSUME TypeOK, PhaseTellsCalls, NEW a \in Actors, SchedulerStep(a)
  PROVE  PhaseTellsCalls'
<1>1. /\ phase' = phase
      /\ \A b \in Actors \ {a} : call'[b] = call[b]
  BY SchedulerStepCalls
<1>2. Watchdog \in Actors /\ Main \in Actors /\ Clients \subseteq Actors
  BY DEF Actors
<1>3. CASE a # Main
  BY <1>1, <1>2, <1>3, WhoSteps, DistinctActors DEF PhaseTellsCalls, Waits, Actors
<1>4. CASE a = Main
  <2>1. /\ phase = "stopping" /\ call[Main].op = "shutdown"
        /\ \/ AcquireForStop(Main) \/ StopReturns(Main) \/ StopTimesOut(Main) \/ StopRaises(Main)
    BY <1>4, WhoSteps
  <2>2. \/ call'[Main].pc = "idle"
        \/ call'[Main].pc = "waitTask" /\ call'[Main].op = "shutdown"
    <3>1. CASE AcquireForStop(Main)
      BY <1>2, <2>1, <3>1, StopBodyCalls DEF AcquireForStop
    <3>2. CASE StopReturns(Main) \/ StopTimesOut(Main)
      BY <1>2, <2>1, <3>2, AfterStopFrame DEF StopReturns, StopTimesOut
    <3>3. CASE StopRaises(Main)
      BY <1>2, <3>3, CallFrame DEF StopRaises, IdleCall, NoCall
    <3>4. QED
      BY <2>1, <3>1, <3>2, <3>3
  <2>3. QED
    BY <1>1, <1>2, <1>4, <2>1, <2>2, DistinctActors DEF PhaseTellsCalls, Waits
<1>5. QED
  BY <1>3, <1>4

LEMMA LifespanPhase ==
  ASSUME TypeOK, PhaseTellsCalls, BootStep \/ ShutdownStep \/ Crash
  PROVE  PhaseTellsCalls'
<1>1. Watchdog \in Actors /\ Main \in Actors /\ Clients \subseteq Actors
  BY DEF Actors
<1>2. CASE Boot \/ BootDone
  BY <1>1, <1>2, DistinctActors DEF Boot, BootDone, PhaseTellsCalls, Waits
<1>3. ASSUME NEW j \in Jobs, BootStart(j) PROVE PhaseTellsCalls'
  BY <1>3 DEF BootStart, StartBody, Released, PhaseTellsCalls, Waits
<1>4. CASE BeginShutdown
  <2>1. \A a \in Actors \ {Watchdog} : call'[a] = call[a]
    BY <1>4 DEF BeginShutdown, TypeOK
  <2>2. phase' = "draining" /\ call[Main].pc = "idle" /\ \A c \in Clients : call[c].pc = "idle"
    BY <1>4 DEF BeginShutdown, PhaseTellsCalls
  <2>3. QED
    BY <1>1, <2>1, <2>2, DistinctActors DEF PhaseTellsCalls, Waits
<1>5. CASE ShutdownAll
  BY <1>5 DEF ShutdownAll, PhaseTellsCalls, Waits
<1>6. ASSUME NEW j \in Jobs, ShutdownStop(j) PROVE PhaseTellsCalls'
  <2>1. EnterStop(Main, "shutdown", j) /\ phase = "stopping" /\ phase' = "stopping"
    BY <1>6 DEF ShutdownStop
  <2>2. /\ \A b \in Actors \ {Main} : call'[b] = call[b]
        /\ call'[Main].pc \in {"idle", "stopLock", "waitTask"}
        /\ call'[Main].pc \in {"stopLock", "waitTask"} => call'[Main].op = "shutdown"
    BY <1>1, <2>1, EnterCalls
  <2>3. QED
    BY <1>1, <2>1, <2>2, DistinctActors DEF PhaseTellsCalls, Waits
<1>7. CASE CloseLoop
  BY <1>7 DEF CloseLoop, PhaseTellsCalls, Waits
<1>8. CASE ProcessGone
  BY <1>1, <1>8 DEF ProcessGone, PhaseTellsCalls, Waits, IdleCall, NoCall
<1>9. QED
  BY <1>2, <1>3, <1>4, <1>5, <1>6, <1>7, <1>8 DEF BootStep, ShutdownStep, Exit, Crash

LEMMA PhaseStep ==
  ASSUME TypeOK, PhaseTellsCalls, [Next]_vars
  PROVE  PhaseTellsCalls'
<1>1. Watchdog \in Actors /\ Main \in Actors /\ Clients \subseteq Actors
  BY DEF Actors
<1>2. CASE UNCHANGED vars
  BY <1>2 DEF vars, PhaseTellsCalls, Waits
<1>3. ASSUME NEW a \in Actors, SchedulerStep(a) PROVE PhaseTellsCalls'
  BY <1>3, SchedulerStepPhase
<1>4. CASE BootStep \/ ShutdownStep \/ Crash
  BY <1>4, LifespanPhase
<1>5. ASSUME NEW r \in RunnerIds, RunnerStep(r) PROVE PhaseTellsCalls'
  BY <1>1, <1>5, RunnerStepCalls DEF PhaseTellsCalls, Waits
<1>6. ASSUME NEW c \in Clients, NEW k, NEW j, Request(c, k, j) PROVE PhaseTellsCalls'
  <2>1. c \in Actors /\ phase = "serving" /\ phase' = phase /\ call'[Main] = call[Main]
    BY <1>1, <1>6, CallFrame, DistinctActors DEF Request
  <2>2. QED
    BY <2>1 DEF PhaseTellsCalls, Waits
<1>7. CASE WatchdogStep
  <2>1. /\ phase \in {"serving", "draining"} /\ phase' = phase
        /\ \A a \in Actors \ {Watchdog} : call'[a] = call[a]
    BY <1>1, <1>7, CallFrame DEF WatchdogStep, CheckAllJobs, TriggerRecovery, WatchdogIdle
  <2>2. QED
    BY <1>1, <2>1, DistinctActors DEF PhaseTellsCalls, Waits
<1>8. CASE \E j \in Jobs : EnableJob(j) \/ GrowStale(j)
  BY <1>8 DEF EnableJob, GrowStale, PhaseTellsCalls, Waits
<1>9. QED
  BY <1>2, <1>3, <1>4, <1>5, <1>6, <1>7, <1>8 DEF Next

LEMMA InitPhase == Init => PhaseTellsCalls
BY DEF Init, PhaseTellsCalls, Waits, IdleCall, NoCall, Actors

-----------------------------------------------------------------------------
(* The shutdown starts no job.                                             *)

LEMMA StoppingStep ==
  ASSUME TypeOK, PhaseTellsCalls, [Next]_vars,
         phase \in {"stopping", "exiting"}, NEW r \in RunnerIds, runner[r].pc = "free"
  PROVE  runner'[r].pc = "free"
<1>1. SameTasks => runner'[r].pc = "free"
  BY DEF SameTasks
<1>2. CASE runner' = runner
  BY <1>2
<1>3. ASSUME NEW a \in Actors, SchedulerStep(a) PROVE runner'[r].pc = "free"
  <2>1. a = Main /\ (\/ AcquireForStop(Main) \/ StopReturns(Main)
                     \/ StopTimesOut(Main) \/ StopRaises(Main))
    BY <1>3, WhoSteps DEF Actors
  <2>2. CASE AcquireForStop(Main)
    <3>1. call[Main].job \in Jobs /\ Main \in Actors
      BY DEF TypeOK, Call, Actors
    <3>2. QED
      BY <1>1, <2>2, <3>1, StopBodyFrame DEF AcquireForStop
  <2>3. QED
    BY <2>1, <2>2 DEF StopReturns, StopTimesOut, StopRaises
<1>4. ASSUME NEW j \in Jobs, ShutdownStop(j) PROVE runner'[r].pc = "free"
  <2>1. Main \in Actors /\ EnterStop(Main, "shutdown", j) /\ UNCHANGED <<reg, raced>>
    BY <1>4 DEF ShutdownStop, Actors
  <2>2. QED
    BY <1>1, <2>1, StopBodyFrame DEF EnterStop
<1>5. CASE CloseLoop
  BY <1>5 DEF CloseLoop
<1>6. CASE ProcessGone
  BY <1>6 DEF ProcessGone, FreeRunner, NewRunner
<1>7. ASSUME NEW q \in RunnerIds, RunnerStep(q) PROVE runner'[r].pc = "free"
  BY <1>1, <1>7, RunnerFrame DEF OnTaskDone, FreeRunner, NewRunner, TypeOK
<1>8. CASE Boot \/ BootDone \/ BeginShutdown \/ ShutdownAll \/ \E j \in Jobs : BootStart(j)
  BY <1>8 DEF Boot, BootDone, BeginShutdown, ShutdownAll, BootStart
<1>9. CASE \/ \E c \in Clients, k \in Requests \ {"enable"}, j \in Jobs : Request(c, k, j)
           \/ \E j \in Jobs : EnableJob(j) \/ GrowStale(j)
           \/ WatchdogStep
  <2>1. runner' = runner
    BY <1>9, Zenon DEF Request, EnableJob, GrowStale, WatchdogStep, CheckAllJobs, TriggerRecovery
  <2>2. QED
    BY <2>1
<1>10. QED
  BY <1>2, <1>3, <1>4, <1>5, <1>6, <1>7, <1>8, <1>9
     DEF vars, Next, BootStep, ShutdownStep, Exit, Crash

\* Once the lifespan stops the jobs nothing starts one: the clients were idle
\* before, the watchdog is over, and of the main task only stops are left.
THEOREM NoStartWhileStoppingCorrect == Spec => NoStartWhileStopping
<1>1. Init => TypeOK /\ PhaseTellsCalls
  BY InitType, InitPhase
<1>2. TypeOK /\ PhaseTellsCalls /\ [Next]_vars => (TypeOK /\ PhaseTellsCalls)'
  BY NextType, PhaseStep
<1>3. TypeOK /\ PhaseTellsCalls /\ [Next]_vars
      => [\A r \in RunnerIds : phase \in {"stopping", "exiting"} /\ runner[r].pc = "free"
                               => runner'[r].pc = "free"]_vars
  BY StoppingStep
<1>4. QED
  BY <1>1, <1>2, <1>3, PTL DEF Spec, NoStartWhileStopping

-----------------------------------------------------------------------------
(* The lock makes "cancel, then wait" one step for start_job.              *)

\* A holder leaves no waiter behind, and nobody waits when the lock is free.
LEMMA OneWaiter ==
  ASSUME TypeOK, StopExcludesStart, NEW a \in Actors, lockQ = <<>> \/ Holds(a)
  PROVE  \A b \in Actors \ {a} : ~Waits(b)
BY DEF StopExcludesStart, Waits, Holds

\* A waiter keeps the lock when another actor queues up.
LEMMA QueueKeepsHolder ==
  ASSUME TypeOK, NEW a \in Actors, lockQ # <<>>, lockQ' = Append(lockQ, a)
  PROVE  \A b \in Actors : Holds(b) => Holds(b)'
BY DEF TypeOK, Holds

LEMMA NoWaiterExcludes ==
  ASSUME \A b \in Actors : ~Waits(b)'
  PROVE  StopExcludesStart'
BY DEF StopExcludesStart, Waits

\* stop_job, called with the lock free or held by the caller.
LEMMA StopBodyExcludes ==
  ASSUME TypeOK, StopExcludesStart, NEW a \in Actors, NEW k, NEW j, StopBody(a, k, j),
         lockQ = <<>> \/ Holds(a), reg' = reg
  PROVE  StopExcludesStart'
<1>1. \A b \in Actors \ {a} : call'[b] = call[b] /\ ~Waits(b)
  BY StopBodyCalls, OneWaiter
<1>2. CASE /\ lockQ' = Kept(a)
           /\ call'[a].pc = "waitTask" /\ call'[a].job = j /\ call'[a].on = reg[j]
  <2>1. Holds(a)'
    BY <1>2 DEF Kept, Holds
  <2>2. QED
    BY <1>1, <1>2, <2>1 DEF StopExcludesStart, Waits
<1>3. CASE call'[a].pc \in {"idle", "pause", "deleting"}
  BY <1>1, <1>3, NoWaiterExcludes DEF Waits
<1>4. QED
  BY <1>2, <1>3, StopBodyCalls

LEMMA EnterExcludes ==
  ASSUME TypeOK, StopExcludesStart, NEW a \in Actors, NEW j, ~Waits(a)
  PROVE  /\ EnterStart(a, j) => StopExcludesStart'
         /\ \A k : EnterStop(a, k, j) /\ reg' = reg => StopExcludesStart'
<1>1. ASSUME lockQ # <<>>, lockQ' = Append(lockQ, a), reg' = reg,
             NEW pc \in {"startLock", "stopLock"}, NEW k, SetCall(a, pc, k, j, NoRunner)
      PROVE  StopExcludesStart'
  <2>1. \A b \in Actors \ {a} : call'[b] = call[b] /\ (Holds(b) => Holds(b)')
    BY <1>1, CallFrame, QueueKeepsHolder
  <2>2. call'[a].pc = pc
    BY <1>1, CallFrame
  <2>3. QED
    BY <1>1, <2>1, <2>2 DEF StopExcludesStart
<1>2. ASSUME EnterStart(a, j) PROVE StopExcludesStart'
  <2>1. CASE lockQ = <<>> /\ Return(a)
    <3>1. \A b \in Actors \ {a} : call'[b] = call[b] /\ ~Waits(b)
      BY <2>1, CallFrame, OneWaiter
    <3>2. call'[a].pc = "idle"
      BY <2>1, CallFrame DEF IdleCall, NoCall
    <3>3. QED
      BY <3>1, <3>2, NoWaiterExcludes DEF Waits
  <2>2. QED
    BY <1>1, <1>2, <2>1 DEF EnterStart
<1>3. ASSUME NEW k, EnterStop(a, k, j), reg' = reg PROVE StopExcludesStart'
  BY <1>1, <1>3, StopBodyExcludes DEF EnterStop
<1>4. QED
  BY <1>2, <1>3

LEMMA SchedulerStepExcludes ==
  ASSUME TypeOK, StopExcludesStart, NEW a \in Actors, SchedulerStep(a)
  PROVE  StopExcludesStart'
<1>1. \A b \in Actors \ {a} : call'[b] = call[b]
  BY SchedulerStepCalls
<1>2. CASE StartJob(a) \/ EndPause(a)
  BY <1>2, EnterExcludes DEF StartJob, EndPause, Ready, Waits
<1>3. CASE StopJob(a) \/ RestartJob(a) \/ DeleteJob(a)
  <2>1. CASE \E k, j : EnterStop(a, k, j)
    BY <1>3, <2>1, EnterExcludes DEF StopJob, RestartJob, DeleteJob, Ready, Waits
  <2>2. CASE /\ UNCHANGED lockQ
             /\ Return(a) \/ SetCall(a, "deleting", "delete", call[a].job, NoRunner)
    <3>1. call'[a].pc \in {"idle", "deleting"}
      BY <2>2, CallFrame DEF IdleCall, NoCall
    <3>2. reg' = reg
      BY <1>3 DEF StopJob, RestartJob, DeleteJob
    <3>3. QED
      BY <1>1, <2>2, <3>1, <3>2 DEF StopExcludesStart, Holds
  <2>3. QED
    BY <1>3, <2>1, <2>2 DEF StopJob, RestartJob, DeleteJob
<1>4. CASE DeleteRow(a)
  <2>1. call'[a].pc = "idle"
    BY <1>4, CallFrame DEF DeleteRow, IdleCall, NoCall
  <2>2. QED
    BY <1>1, <1>4, <2>1 DEF DeleteRow, StopExcludesStart, Holds
<1>5. CASE AcquireForStop(a)
  BY <1>5, StopBodyExcludes DEF AcquireForStop
<1>6. CASE AcquireForStart(a) \/ StopReturns(a) \/ StopTimesOut(a) \/ StopRaises(a)
  <2>1. Holds(a)
    BY <1>6 DEF AcquireForStart, StopReturns, StopTimesOut, StopRaises, StopExcludesStart
  <2>2. call'[a].pc \in {"idle", "pause", "deleting"}
    BY <1>6, CallFrame, AfterStopFrame
       DEF AcquireForStart, StopReturns, StopTimesOut, StopRaises, IdleCall, NoCall
  <2>3. QED
    BY <1>1, <2>1, <2>2, OneWaiter, NoWaiterExcludes DEF Waits
<1>7. QED
  BY <1>2, <1>3, <1>4, <1>5, <1>6 DEF SchedulerStep

LEMMA StopExcludesStep ==
  ASSUME TypeOK, PhaseTellsCalls, StopExcludesStart, [Next]_vars
  PROVE  StopExcludesStart'
<1>1. Watchdog \in Actors /\ Main \in Actors /\ Clients \subseteq Actors
  BY DEF Actors
<1>2. ASSUME lockQ' = lockQ, call' = call, reg' = reg PROVE StopExcludesStart'
  BY <1>2 DEF StopExcludesStart, Holds
<1>3. ASSUME NEW a \in Actors, SchedulerStep(a) PROVE StopExcludesStart'
  BY <1>3, SchedulerStepExcludes
<1>4. ASSUME NEW r \in RunnerIds, RunnerStep(r) PROVE StopExcludesStart'
  <2>1. \A j \in Jobs : reg'[j] \in {reg[j], NoRunner}
    BY <1>4, RunnerFrame DEF SameTasks, OnTaskDone, TypeOK
  <2>2. \A a \in Actors : call'[a].pc = "waitTask" => call'[a] = call[a] /\ call[a].job \in Jobs
    BY <1>4, RunnerStepCalls DEF TypeOK, Call
  <2>3. \A a \in Actors : Waits(a)' => Waits(a) /\ (Holds(a) => Holds(a)')
    BY <1>4, RunnerStepCalls DEF Waits, Holds
  <2>4. QED
    BY <2>1, <2>2, <2>3 DEF StopExcludesStart, Waits
<1>5. ASSUME NEW c \in Clients, NEW k, NEW j, Request(c, k, j) PROVE StopExcludesStart'
  <2>1. /\ c \in Actors /\ call'[c].pc = "ready" /\ reg' = reg /\ lockQ' = lockQ
        /\ \A b \in Actors \ {c} : call'[b] = call[b]
    BY <1>1, <1>5, CallFrame DEF Request
  <2>2. QED
    BY <2>1 DEF StopExcludesStart, Holds
<1>6. CASE WatchdogStep
  <2>1. /\ call'[Watchdog].pc = "ready" \/ call'[Watchdog] = call[Watchdog]
        /\ reg' = reg /\ lockQ' = lockQ
        /\ \A b \in Actors \ {Watchdog} : call'[b] = call[b]
    BY <1>1, <1>6, CallFrame DEF WatchdogStep, CheckAllJobs, TriggerRecovery
  <2>2. QED
    BY <1>1, <2>1 DEF StopExcludesStart, Holds
<1>7. CASE BeginShutdown
  <2>1. \A a \in Actors \ {Watchdog} : call[a].pc = "idle" /\ call'[a] = call[a]
    BY <1>7 DEF BeginShutdown, PhaseTellsCalls, Actors, TypeOK
  <2>2. CASE /\ Waits(Watchdog) /\ lockQ' = lockQ
             /\ call' = [call EXCEPT ![Watchdog].pc = "woken"]
    <3>1. call'[Watchdog].pc = "woken"
      BY <1>1, <2>2 DEF TypeOK, Call
    <3>2. Holds(Watchdog)'
      BY <1>1, <2>2 DEF StopExcludesStart, Waits, Holds
    <3>3. QED
      BY <2>1, <3>1, <3>2 DEF StopExcludesStart
  <2>3. CASE call' = [call EXCEPT ![Watchdog] = NoCall("ended")]
    BY <1>1, <2>1, <2>3, NoWaiterExcludes DEF Waits, NoCall, TypeOK
  <2>4. QED
    BY <1>7, <2>2, <2>3 DEF BeginShutdown, Waits
<1>8. ASSUME NEW j \in Jobs, BootStart(j) PROVE StopExcludesStart'
  BY <1>8, NoWaiterExcludes DEF BootStart, PhaseTellsCalls, Waits
<1>9. ASSUME NEW j \in Jobs, ShutdownStop(j) PROVE StopExcludesStart'
  BY <1>1, <1>9, EnterExcludes DEF ShutdownStop, Waits
<1>10. CASE ProcessGone
  BY <1>10, NoWaiterExcludes DEF ProcessGone, Waits, IdleCall, NoCall
<1>11. CASE \/ Boot \/ BootDone \/ ShutdownAll \/ CloseLoop
            \/ \E j \in Jobs : EnableJob(j) \/ GrowStale(j)
            \/ UNCHANGED vars
  BY <1>2, <1>11 DEF Boot, BootDone, ShutdownAll, CloseLoop, EnableJob, GrowStale, vars
<1>12. QED
  BY <1>3, <1>4, <1>5, <1>6, <1>7, <1>8, <1>9, <1>10, <1>11
     DEF Next, BootStep, ShutdownStep, Exit, Crash

\* Whoever waits in stop_job for the end of a task holds the lock, so no other
\* task of that job comes to be registered while it waits.
THEOREM StopExcludesStartCorrect == Spec => []StopExcludesStart
<1>1. Init => TypeOK /\ PhaseTellsCalls /\ StopExcludesStart
  BY InitType, InitPhase DEF Init, StopExcludesStart, IdleCall, NoCall
<1>2. TypeOK /\ PhaseTellsCalls /\ StopExcludesStart /\ [Next]_vars
      => (TypeOK /\ PhaseTellsCalls /\ StopExcludesStart)'
  BY NextType, PhaseStep, StopExcludesStep
<1>3. QED
  BY <1>1, <1>2, PTL DEF Spec

-----------------------------------------------------------------------------
(* The service that JobService promises.                                   *)

LEMMA SameWaits ==
  ASSUME \A a \in Actors : /\ Waits(a)' <=> Waits(a)
                           /\ Waits(a) => call'[a].job = call[a].job
  PROVE  WaitedFor' = WaitedFor
<1>1. Waiters = {a \in Actors : Waits(a)} /\ Waiters' = {a \in Actors : Waits(a)'}
  BY DEF Waiters, Waits
<1>2. QED
  BY <1>1 DEF WaitedFor

LEMMA SameLives ==
  ASSUME \A r \in RunnerIds : /\ runner'[r].pc = runner[r].pc /\ runner'[r].job = runner[r].job
                              /\ runner'[r].shutdown = runner[r].shutdown
  PROVE  Lifes' = Lifes /\ JobOf' = JobOf
BY DEF Lifes, JobOf, Life

\* The life and the job of one runner change.
LEMMA OneLife ==
  ASSUME NEW r \in RunnerIds, \A q \in RunnerIds \ {r} : runner'[q] = runner[q]
  PROVE  /\ Lifes' = [Lifes EXCEPT ![r] = Life(r)']
         /\ JobOf' = [JobOf EXCEPT ![r] = runner'[r].job]
<1>1. \A q \in RunnerIds \ {r} : Life(q)' = Life(q) /\ runner'[q].job = runner[q].job
  BY DEF Life
<1>2. QED
  BY <1>1 DEF Lifes, JobOf

\* stop_job, by somebody who has the lock or takes it.
LEMMA StopBodyService ==
  ASSUME TypeOK, Registry, NEW a \in Actors, NEW k, NEW j \in Jobs,
         StopBody(a, k, j), phase' = phase, ~Waits(a)
  PROVE  [Service!Next]_(Service!vars)
<1>1. runner \in [RunnerIds -> Runner] /\ call \in [Actors -> Call] /\ Open' = Open
  BY DEF TypeOK, Open
<1>2. \A b \in Actors \ {a} : call'[b] = call[b]
  BY StopBodyCalls
<1>3. CASE TaskActive(j)
  <2>1. PICK r \in RunnerIds : r = reg[j]
    BY <1>3 DEF TaskActive, TypeOK
  <2>2. runner[r].pc \notin {"free", "done"} /\ runner[r].job = j
    BY <1>3, <2>1 DEF TaskActive, TaskDone, Registry, RegistrySound
  <2>3. /\ runner' = [runner EXCEPT ![r].shutdown = TRUE, ![r].cancelled = TRUE]
        /\ SetCall(a, "waitTask", k, j, r)
    BY <1>3, <2>1 DEF StopBody
  <2>4. /\ runner'[r].pc = runner[r].pc /\ runner'[r].job = j /\ runner'[r].shutdown
        /\ \A q \in RunnerIds \ {r} : runner'[q] = runner[q]
    BY <1>1, <2>2, <2>3 DEF Runner
  <2>5. /\ Lifes[r] # "none" /\ JobOf[r] = j
        /\ Life(r)' = IF Lifes[r] \in {"polling", "last"} THEN "last" ELSE "told"
    BY <2>2, <2>4 DEF Life, Lifes, JobOf
  <2>6. /\ Lifes' = [Lifes EXCEPT ![r] = IF Lifes[r] \in {"polling", "last"} THEN "last" ELSE "told"]
        /\ JobOf' = JobOf
    <3>1. Lifes' = [Lifes EXCEPT ![r] = Life(r)'] /\ JobOf' = [JobOf EXCEPT ![r] = j]
      BY <2>4, OneLife
    <3>2. QED
      BY <2>5, <3>1 DEF JobOf
  <2>7. WaitedFor' = WaitedFor \cup {JobOf[r]}
    <3>1. call'[a].pc = "waitTask" /\ call'[a].job = j
      BY <1>1, <2>3 DEF SetCall
    <3>2. Waiters' = Waiters \cup {a} /\ a \notin Waiters
      BY <1>2, <3>1 DEF Waiters, Waits
    <3>3. QED
      BY <1>2, <2>5, <3>1, <3>2 DEF WaitedFor, Waiters
  <2>8. Service!Stop(r)
    BY <1>1, <2>5, <2>6, <2>7 DEF Service!Stop
  <2>9. QED
    BY <2>8 DEF Service!Next
<1>4. CASE ~TaskActive(j)
  <2>1. WaitedFor' = WaitedFor
    <3>1. AfterStop(a, k, j)
      BY <1>4 DEF StopBody
    <3>2. call'[a].pc \in {"idle", "pause", "deleting"}
      BY <3>1, AfterStopFrame
    <3>3. QED
      BY <1>2, <3>2, SameWaits DEF Waits
  <2>2. CASE reg[j] = NoRunner
    <3>1. runner' = runner
      BY <1>4, <2>2 DEF StopBody
    <3>2. QED
      BY <1>1, <2>1, <3>1, SameLives DEF Service!vars
  <2>3. CASE reg[j] # NoRunner
    <3>1. PICK r \in RunnerIds : r = reg[j]
      BY <2>3 DEF TypeOK
    <3>2. runner[r].pc = "done"
      BY <1>4, <2>3, <3>1 DEF TaskActive, TaskDone
    <3>3. runner' = [runner EXCEPT ![r].shutdown = TRUE]
      BY <1>4, <2>3, <3>1 DEF StopBody
    <3>4. /\ runner'[r].pc = "done" /\ runner'[r].job = runner[r].job /\ runner'[r].shutdown
          /\ runner[r].job \in Jobs /\ \A q \in RunnerIds \ {r} : runner'[q] = runner[q]
      BY <1>1, <3>2, <3>3 DEF Runner
    <3>5. Lifes[r] \in {"ready", "told"} /\ Life(r)' = "told" /\ JobOf[r] = runner[r].job
      BY <3>2, <3>4 DEF Lifes, Life, JobOf
    <3>6. /\ Lifes' = [Lifes EXCEPT ![r] = "told"]
          /\ JobOf' = [JobOf EXCEPT ![r] = runner[r].job]
      BY <3>4, <3>5, OneLife
    <3>7. JobOf' = JobOf
      BY <3>5, <3>6 DEF JobOf
    <3>8. Service!GoesOn(r)
      BY <1>1, <2>1, <3>4, <3>5, <3>6, <3>7 DEF Service!GoesOn, Service!After, Service!Told
    <3>9. QED
      BY <3>8 DEF Service!Next
  <2>4. QED
    BY <2>2, <2>3
<1>5. QED
  BY <1>3, <1>4

\* start_job, while nobody waits for the end of a task.
LEMMA StartBodyService ==
  ASSUME TypeOK, NEW j \in Jobs, StartBody(j), Open, phase' = phase,
         \A a \in Actors : ~Waits(a) /\ ~Waits(a)'
  PROVE  [Service!Next]_(Service!vars)
<1>1. Open' = Open /\ WaitedFor = {} /\ WaitedFor' = {}
  BY DEF Open, WaitedFor, Waiters, Waits
<1>2. CASE UNCHANGED <<reg, runner, raced>>
  BY <1>1, <1>2, SameLives DEF Service!vars
<1>3. CASE ~Refused(j)
  <2>1. PICK r \in RunnerIds :
          /\ runner[r].pc = "free"
          /\ runner' = [runner EXCEPT ![r] = NewRunner("created", j)]
    BY <1>3 DEF StartBody
  <2>2. /\ runner'[r].pc = "created" /\ runner'[r].job = j /\ ~runner'[r].shutdown
        /\ \A q \in RunnerIds \ {r} : runner'[q] = runner[q]
    BY <2>1 DEF TypeOK, NewRunner
  <2>3. Lifes[r] = "none" /\ Life(r)' = "ready"
    BY <2>1, <2>2 DEF Lifes, Life
  <2>4. Lifes' = [Lifes EXCEPT ![r] = "ready"] /\ JobOf' = [JobOf EXCEPT ![r] = j]
    BY <2>2, <2>3, OneLife
  <2>5. Service!Start(r, j)
    BY <1>1, <2>3, <2>4 DEF Service!Start
  <2>6. QED
    BY <2>5 DEF Service!Next
<1>4. QED
  BY <1>2, <1>3 DEF StartBody

\* A caller that waited for a task does so no more.
LEMMA WaitEnds ==
  ASSUME TypeOK, StopExcludesStart, NEW a \in Actors, Waits(a), phase' = phase,
         runner' = runner, call'[a].pc \in {"idle", "pause", "deleting"},
         \A b \in Actors \ {a} : call'[b] = call[b]
  PROVE  Service!Next
<1>1. \A b \in Actors \ {a} : ~Waits(b)
  BY OneWaiter DEF StopExcludesStart, Waits
<1>2. Waiters = {a} /\ Waiters' = {}
  BY <1>1 DEF Waiters, Waits
<1>3. WaitedFor = {call[a].job} /\ WaitedFor' = {} /\ call[a].job \in Jobs
  BY <1>2 DEF WaitedFor, TypeOK, Call
<1>4. Open' = Open /\ Lifes' = Lifes /\ JobOf' = JobOf
  BY SameLives DEF Open
<1>5. Service!StopReturns(call[a].job)
  BY <1>3, <1>4 DEF Service!StopReturns
<1>6. QED
  BY <1>3, <1>5 DEF Service!Next

\* A call that neither waits nor comes to wait, and leaves the runners alone.
LEMMA QuietCall ==
  ASSUME TypeOK, NEW a \in Actors, phase' = phase, runner' = runner,
         ~Waits(a), ~Waits(a)', \A b \in Actors \ {a} : call'[b] = call[b]
  PROVE  UNCHANGED Service!vars
<1>1. WaitedFor' = WaitedFor
  BY SameWaits DEF Waits
<1>2. QED
  BY <1>1, SameLives DEF Open, Service!vars

LEMMA EnterStopService ==
  ASSUME TypeOK, Registry, NEW a \in Actors, NEW k, NEW j \in Jobs,
         EnterStop(a, k, j), phase' = phase, ~Waits(a)
  PROVE  [Service!Next]_(Service!vars)
<1>1. CASE StopBody(a, k, j)
  BY <1>1, StopBodyService
<1>2. CASE SetCall(a, "stopLock", k, j, NoRunner) /\ UNCHANGED runner
  <2>1. ~Waits(a)' /\ \A b \in Actors \ {a} : call'[b] = call[b]
    BY <1>2, CallFrame DEF Waits
  <2>2. QED
    BY <1>2, <2>1, QuietCall
<1>3. QED
  BY <1>1, <1>2 DEF EnterStop

\* start_job, called by an actor that is not inside the scheduler or is first in line.
LEMMA StartService ==
  ASSUME TypeOK, StopExcludesStart, NEW a \in Actors, NEW j \in Jobs, StartBody(j), Return(a),
         lockQ = <<>> \/ Holds(a), ~Waits(a), Open, phase' = phase
  PROVE  [Service!Next]_(Service!vars)
<1>1. /\ \A b \in Actors \ {a} : ~Waits(b) /\ call'[b] = call[b]
      /\ call'[a].pc = "idle"
  BY OneWaiter, CallFrame DEF IdleCall, NoCall
<1>2. \A b \in Actors : ~Waits(b) /\ ~Waits(b)'
  BY <1>1 DEF Waits
<1>3. QED
  BY <1>2, StartBodyService

LEMMA EnterStartService ==
  ASSUME TypeOK, StopExcludesStart, NEW a \in Actors, NEW j \in Jobs, EnterStart(a, j),
         ~Waits(a), Open, phase' = phase
  PROVE  [Service!Next]_(Service!vars)
<1>1. CASE lockQ = <<>> /\ StartBody(j) /\ Return(a)
  BY <1>1, StartService
<1>2. CASE SetCall(a, "startLock", "start", j, NoRunner) /\ UNCHANGED runner
  <2>1. ~Waits(a)' /\ \A b \in Actors \ {a} : call'[b] = call[b]
    BY <1>2, CallFrame DEF Waits
  <2>2. QED
    BY <1>2, <2>1, QuietCall
<1>3. QED
  BY <1>1, <1>2 DEF EnterStart

LEMMA SchedulerStepService ==
  ASSUME TypeOK, Registry, PhaseTellsCalls, StopExcludesStart, NEW a \in Actors, SchedulerStep(a)
  PROVE  [Service!Next]_(Service!vars)
<1>1. call[a].job \in Jobs
  BY DEF TypeOK, Call
<1>2. phase' = phase /\ \A b \in Actors \ {a} : call'[b] = call[b]
  BY SchedulerStepCalls
<1>3. ASSUME StartJob(a) \/ EndPause(a) \/ AcquireForStart(a) PROVE Open
  <2>1. a # Main
    BY <1>3, WhoSteps DEF StartJob, EndPause, AcquireForStart, Ready, AcquireForStop, StopReturns,
                          StopTimesOut, StopRaises
  <2>2. QED
    BY <2>1, WhoSteps DEF Actors, Open
<1>4. CASE StartJob(a) \/ EndPause(a)
  BY <1>1, <1>2, <1>3, <1>4, EnterStartService DEF StartJob, EndPause, Ready, Waits
<1>5. CASE AcquireForStart(a)
  BY <1>1, <1>2, <1>3, <1>5, StartService DEF AcquireForStart, Waits
<1>6. CASE AcquireForStop(a)
  BY <1>1, <1>2, <1>6, StopBodyService DEF AcquireForStop, Waits
<1>7. CASE StopJob(a)
  BY <1>1, <1>2, <1>7, EnterStopService DEF StopJob, Ready, Waits
<1>8. CASE RestartJob(a)
  <2>1. CASE Return(a) /\ UNCHANGED runner
    BY <1>2, <1>8, <2>1, QuietCall, CallFrame DEF RestartJob, Ready, Waits, IdleCall, NoCall
  <2>2. CASE EnterStop(a, "restart", call[a].job)
    BY <1>1, <1>2, <1>8, <2>2, EnterStopService DEF RestartJob, Ready, Waits
  <2>3. QED
    BY <1>8, <2>1, <2>2 DEF RestartJob
<1>9. CASE DeleteJob(a)
  <2>1. CASE SetCall(a, "deleting", "delete", call[a].job, NoRunner) /\ UNCHANGED runner
    <3>1. ~Waits(a) /\ ~Waits(a)'
      BY <1>9, <2>1, CallFrame DEF DeleteJob, Ready, Waits
    <3>2. QED
      BY <1>2, <2>1, <3>1, QuietCall
  <2>2. CASE EnterStop(a, "delete", call[a].job)
    BY <1>1, <1>2, <1>9, <2>2, EnterStopService DEF DeleteJob, Ready, Waits
  <2>3. QED
    BY <1>9, <2>1, <2>2 DEF DeleteJob
<1>10. CASE DeleteRow(a)
  BY <1>2, <1>10, QuietCall, CallFrame DEF DeleteRow, Waits, IdleCall, NoCall
<1>11. CASE StopReturns(a) \/ StopTimesOut(a)
  <2>1. call'[a].pc \in {"idle", "pause", "deleting"}
    BY <1>11, AfterStopFrame DEF StopReturns, StopTimesOut
  <2>2. QED
    BY <1>2, <1>11, <2>1, WaitEnds DEF StopReturns, StopTimesOut, Waits
<1>12. CASE StopRaises(a)
  <2>1. call'[a].pc = "idle"
    BY <1>12, CallFrame DEF StopRaises, IdleCall, NoCall
  <2>2. QED
    BY <1>2, <1>12, <2>1, WaitEnds DEF StopRaises, Waits
<1>13. QED
  BY <1>4, <1>5, <1>6, <1>7, <1>8, <1>9, <1>10, <1>11, <1>12 DEF SchedulerStep

\* The event of a runner is set only in a poll, by an expired session, and cleared only by
\* the first step.
LEMMA OwnEvent ==
  ASSUME TypeOK, CancelPending, NEW r \in RunnerIds, RunnerStep(r), ~OnTaskDone(r)
  PROVE  /\ runner[r].shutdown => runner'[r].shutdown
         /\ runner'[r].shutdown => runner[r].shutdown \/ runner[r].pc = "polling"
<1>1. runner[r] \in Runner /\ runner \in [RunnerIds -> Runner]
  BY DEF TypeOK
<1>2. ASSUME NEW pc, GoTo(r, pc) PROVE runner'[r].shutdown = runner[r].shutdown
  BY <1>1, <1>2 DEF GoTo, Runner
<1>3. ASSUME EnterCleanup(r) PROVE runner'[r].shutdown = runner[r].shutdown
  BY <1>1, <1>3 DEF EnterCleanup, Runner
<1>4. ASSUME Iterate(r) PROVE runner'[r].shutdown = runner[r].shutdown
  BY <1>2, <1>3, <1>4 DEF Iterate
<1>5. CASE Begin(r)
  BY <1>1, <1>5 DEF Begin, At, CancelPending, Runner
<1>6. CASE ExpireSession(r)
  BY <1>1, <1>6 DEF ExpireSession, At, Runner
<1>7. CASE LoadSeen(r) \/ TimeOutCycle(r) \/ EndWait(r) \/ EndBackoff(r)
  BY <1>4, <1>7 DEF LoadSeen, TimeOutCycle, EndWait, EndBackoff
<1>8. CASE BeginCycle(r) \/ EndPoll(r) \/ FailCycle(r) \/ RecordCycleError(r)
  BY <1>2, <1>3, <1>8 DEF BeginCycle, EndPoll, FailCycle, RecordCycleError
<1>9. CASE MarkRunning(r) \/ FatalError(r) \/ Cleanup(r)
  BY <1>1, <1>2, <1>3, <1>9 DEF MarkRunning, FatalError, Cleanup, Runner
<1>10. CASE DeliverCancel(r)
  BY <1>1, <1>10 DEF DeliverCancel, Runner
<1>11. QED
  BY <1>5, <1>6, <1>7, <1>8, <1>9, <1>10 DEF RunnerStep

LEMMA RunnerStepService ==
  ASSUME TypeOK, CancelPending, NEW r \in RunnerIds, RunnerStep(r)
  PROVE  [Service!Next]_(Service!vars)
<1>1. runner[r] \in Runner /\ runner[r].job \in Jobs
  BY DEF TypeOK, Runner
<1>2. Open' = Open /\ WaitedFor' = WaitedFor
  <2>1. phase' = phase
    BY RunnerStepCalls
  <2>2. \A a \in Actors : /\ Waits(a)' <=> Waits(a)
                          /\ Waits(a) => call'[a].job = call[a].job
    BY RunnerStepCalls DEF Waits
  <2>3. QED
    BY <2>1, <2>2, SameWaits DEF Open
<1>3. /\ Lifes' = [Lifes EXCEPT ![r] = Life(r)'] /\ JobOf' = [JobOf EXCEPT ![r] = runner'[r].job]
      /\ Lifes[r] = Life(r) /\ JobOf[r] = runner[r].job
  BY RunnerStepOthers, OneLife DEF Lifes, JobOf
<1>4. CASE OnTaskDone(r)
  <2>1. runner[r].pc = "done" /\ runner'[r].pc = "free" /\ runner'[r].job \in Jobs
    BY <1>4, Defaults DEF OnTaskDone, TaskDone, TypeOK, FreeRunner, NewRunner
  <2>2. Life(r) \in {"ready", "told"} /\ Life(r)' = "none"
    BY <2>1 DEF Life
  <2>3. "none" \in Service!After(Life(r))
    BY <2>2 DEF Service!After, Service!Told
  <2>4. Service!GoesOn(r)
    <3>1. Lifes'[r] = "none"
      BY <1>3, <2>2 DEF Lifes
    <3>2. QED
      BY <1>2, <1>3, <2>1, <2>2, <2>3, <3>1 DEF Service!GoesOn
  <2>5. QED
    BY <2>4 DEF Service!Next
<1>5. CASE ~OnTaskDone(r)
  <2>1. /\ runner[r].pc # "free" /\ runner'[r].pc # "free" /\ runner'[r].job = runner[r].job
    BY <1>5, RunnerFrame DEF SameTasks
  <2>2. JobOf' = JobOf
    BY <1>3, <2>1 DEF JobOf
  <2>3. Life(r)' = Life(r) \/ Life(r)' \in Service!After(Life(r))
    <3>1. /\ runner[r].shutdown => runner'[r].shutdown
          /\ runner'[r].shutdown => runner[r].shutdown \/ runner[r].pc = "polling"
          /\ runner[r].shutdown /\ runner[r].pc # "polling" => runner'[r].pc # "polling"
      BY <1>5, OwnEvent, RunnerStepLoop
    <3>2. CASE runner[r].shutdown
      BY <2>1, <3>1, <3>2 DEF Life, Service!After, Service!Told
    <3>3. CASE ~runner[r].shutdown
      BY <2>1, <3>1, <3>3 DEF Life, Service!After, Service!Told
    <3>4. QED
      BY <3>2, <3>3
  <2>4. CASE Life(r)' = Life(r)
    <3>1. Lifes' = Lifes
      BY <1>3, <2>4 DEF Lifes
    <3>2. QED
      BY <1>2, <2>2, <3>1 DEF Service!vars
  <2>5. CASE Life(r)' \in Service!After(Life(r))
    <3>1. Life(r) # "none"
      BY <2>1 DEF Life
    <3>2. JobOf' = [JobOf EXCEPT ![r] = runner[r].job]
      BY <1>3, <2>1
    <3>3. Service!GoesOn(r)
      BY <1>1, <1>2, <1>3, <2>2, <2>5, <3>1, <3>2 DEF Service!GoesOn
    <3>4. QED
      BY <3>3 DEF Service!Next
  <2>6. QED
    BY <2>3, <2>4, <2>5
<1>6. QED
  BY <1>4, <1>5

LEMMA LifespanService ==
  ASSUME TypeOK, Registry, PhaseTellsCalls, BootStep \/ ShutdownStep \/ Crash
  PROVE  [Service!Next]_(Service!vars)
<1>1. Watchdog \in Actors /\ Main \in Actors
  BY DEF Actors
<1>2. ASSUME call' = call, runner' = runner PROVE WaitedFor' = WaitedFor /\ Lifes' = Lifes /\ JobOf' = JobOf
  BY <1>2, SameWaits, SameLives DEF Waits
<1>3. CASE Boot \/ BootDone
  BY <1>2, <1>3 DEF Boot, BootDone, Open, Service!vars
<1>4. ASSUME NEW j \in Jobs, BootStart(j) PROVE [Service!Next]_(Service!vars)
  <2>1. phase = "booting" /\ phase' = phase /\ call' = call /\ StartBody(j)
    BY <1>4 DEF BootStart
  <2>2. \A a \in Actors : ~Waits(a) /\ ~Waits(a)'
    BY <2>1 DEF PhaseTellsCalls, Waits
  <2>3. QED
    BY <2>1, <2>2, StartBodyService DEF Open
<1>5. CASE BeginShutdown
  <2>1. \A a \in Actors \ {Watchdog} : call'[a] = call[a]
    BY <1>5 DEF BeginShutdown, TypeOK
  <2>2. /\ Waits(Watchdog)' <=> Waits(Watchdog)
        /\ Waits(Watchdog) => call'[Watchdog].job = call[Watchdog].job
    BY <1>1, <1>5 DEF BeginShutdown, TypeOK, Call, Waits, NoCall
  <2>3. WaitedFor' = WaitedFor
    BY <2>1, <2>2, SameWaits DEF Waits
  <2>4. QED
    BY <1>5, <2>3, SameLives DEF BeginShutdown, Open, Service!vars
<1>6. CASE ShutdownAll
  <2>1. Service!Close
    BY <1>2, <1>6 DEF ShutdownAll, Open, Service!Close
  <2>2. QED
    BY <2>1 DEF Service!Next
<1>7. ASSUME NEW j \in Jobs, ShutdownStop(j) PROVE [Service!Next]_(Service!vars)
  BY <1>1, <1>7, EnterStopService DEF ShutdownStop, Waits
<1>8. CASE CloseLoop
  <2>1. \A r \in RunnerIds : /\ runner'[r].pc = runner[r].pc /\ runner'[r].job = runner[r].job
                             /\ runner'[r].shutdown = runner[r].shutdown
    BY <1>8 DEF CloseLoop, TypeOK, Runner
  <2>2. QED
    BY <1>8, <2>1, SameLives, SameWaits DEF CloseLoop, Open, Waits, Service!vars
<1>9. CASE ProcessGone
  <2>1. Open' = TRUE
    BY <1>9 DEF ProcessGone, Open
  <2>2. WaitedFor' = {}
    BY <1>9 DEF ProcessGone, WaitedFor, Waiters, IdleCall, NoCall
  <2>3. Lifes' = [r \in RunnerIds |-> "none"] /\ JobOf' \in [RunnerIds -> Jobs]
    BY <1>9, Defaults DEF ProcessGone, Lifes, Life, JobOf, FreeRunner, NewRunner
  <2>4. Service!ProcessEnds
    BY <2>1, <2>2, <2>3 DEF Service!ProcessEnds
  <2>5. QED
    BY <2>4 DEF Service!Next
<1>10. QED
  BY <1>3, <1>4, <1>5, <1>6, <1>7, <1>8, <1>9 DEF BootStep, ShutdownStep, Exit, Crash

\* Every step of scheduler, runners and lifespan is one of the service, or none.
LEMMA ServiceStep ==
  ASSUME TypeOK, Registry, PhaseTellsCalls, StopExcludesStart, CancelPending, [Next]_vars
  PROVE  [Service!Next]_(Service!vars)
<1>1. ASSUME NEW a \in Actors, SchedulerStep(a) PROVE [Service!Next]_(Service!vars)
  BY <1>1, SchedulerStepService
<1>2. ASSUME NEW r \in RunnerIds, RunnerStep(r) PROVE [Service!Next]_(Service!vars)
  BY <1>2, RunnerStepService
<1>3. CASE BootStep \/ ShutdownStep \/ Crash
  BY <1>3, LifespanService
<1>4. ASSUME NEW c \in Clients, NEW k, NEW j, Request(c, k, j) PROVE UNCHANGED Service!vars
  <2>1. /\ c \in Actors /\ call[c].pc = "idle" /\ SetCall(c, "ready", k, j, NoRunner)
        /\ phase' = phase /\ runner' = runner
    BY <1>4 DEF Request, Actors
  <2>2. ~Waits(c) /\ ~Waits(c)' /\ \A b \in Actors \ {c} : call'[b] = call[b]
    BY <2>1, CallFrame DEF Waits
  <2>3. QED
    BY <2>1, <2>2, QuietCall
<1>5. CASE WatchdogStep
  <2>1. Watchdog \in Actors /\ call[Watchdog].pc = "idle" /\ phase' = phase /\ runner' = runner
    BY <1>5 DEF WatchdogStep, CheckAllJobs, TriggerRecovery, WatchdogIdle, Actors
  <2>2. call' = call \/ \E j \in Jobs : SetCall(Watchdog, "ready", "restart", j, NoRunner)
    BY <1>5 DEF WatchdogStep, CheckAllJobs, TriggerRecovery
  <2>3. ~Waits(Watchdog) /\ ~Waits(Watchdog)' /\ \A b \in Actors \ {Watchdog} : call'[b] = call[b]
    BY <2>1, <2>2, CallFrame DEF Waits
  <2>4. QED
    BY <2>1, <2>3, QuietCall
<1>6. CASE (\E j \in Jobs : EnableJob(j) \/ GrowStale(j)) \/ UNCHANGED vars
  <2>1. phase' = phase /\ runner' = runner /\ call' = call
    BY <1>6, Zenon DEF EnableJob, GrowStale, vars
  <2>2. QED
    BY <2>1, SameLives, SameWaits DEF Open, Waits, Service!vars
<1>7. QED
  BY <1>1, <1>2, <1>3, <1>4, <1>5, <1>6 DEF Next

\* Scheduler, registry, lock, callbacks, cancellations, watchdog and lifespan keep the promise
\* of the service, for any number of jobs, runners and requests: a runner that was told to end
\* finishes its poll at most, no task of a job starts while somebody waits for one of that job
\* to end, and none starts once the lifespan stops them.
THEOREM ServiceCorrect == Spec => ImplementsService
<1>1. Init => TypeOK /\ Registry /\ PhaseTellsCalls /\ StopExcludesStart /\ CancelPending
  BY InitType, InitPhase DEF Init, Registry, RegistrySound, OneTaskPerJob, StopExcludesStart,
     CancelPending, IdleCall, NoCall, FreeRunner, NewRunner
<1>2. Init => Service!Init
  <2> SUFFICES ASSUME Init PROVE Service!Init
    OBVIOUS
  <2>1. Open /\ WaitedFor = {}
    BY DEF Init, Open, WaitedFor, Waiters, IdleCall, NoCall
  <2>2. Lifes = [r \in RunnerIds |-> "none"] /\ JobOf \in [RunnerIds -> Jobs]
    BY Defaults DEF Init, Lifes, Life, JobOf, FreeRunner, NewRunner
  <2>3. QED
    BY <2>1, <2>2 DEF Service!Init
<1>3. TypeOK /\ Registry /\ PhaseTellsCalls /\ StopExcludesStart /\ CancelPending /\ [Next]_vars
      => (TypeOK /\ Registry /\ PhaseTellsCalls /\ StopExcludesStart /\ CancelPending)'
  BY NextType, RegistryStep, PhaseStep, StopExcludesStep, CancelPendingStep
<1>4. TypeOK /\ Registry /\ PhaseTellsCalls /\ StopExcludesStart /\ CancelPending /\ [Next]_vars
      => [Service!Next]_(Service!vars)
  BY ServiceStep
<1>5. QED
  BY <1>1, <1>2, <1>3, <1>4, PTL DEF Spec, ImplementsService, Service!Spec

=============================================================================
