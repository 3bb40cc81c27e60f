-------------------------- MODULE JobLifecycleProofs --------------------------
(***************************************************************************)
(* Theorems about JobLifecycle, for any set of jobs, runner objects and    *)
(* clients, with or without failing database calls.                        *)
(***************************************************************************)
EXTENDS JobLifecycle, TLAPS

-----------------------------------------------------------------------------
(* Types.                                                                  *)

\* The parts of records that are given as values have their types.
LEMMA Defaults ==
    /\ AnyJob \in Jobs
    /\ \A pc \in RunnerPcs, j \in Jobs : NewRunner(pc, j) \in Runner
    /\ \A pc \in CallPcs : NoCall(pc) \in Call
    /\ FreeRunner \in Runner /\ IdleCall \in Call
<1>1. AnyJob \in Jobs
  BY SomeJob DEF AnyJob
<1>2. \A pc \in RunnerPcs, j \in Jobs : NewRunner(pc, j) \in Runner
  BY DEF NewRunner, Runner
<1>3. \A pc \in CallPcs : NoCall(pc) \in Call
  BY <1>1 DEF NoCall, Call, CallOps
<1>4. "free" \in RunnerPcs /\ "idle" \in CallPcs
  BY DEF RunnerPcs, CallPcs
<1>5. QED
  BY <1>1, <1>2, <1>3, <1>4 DEF FreeRunner, IdleCall

\* Releasing or keeping the lock gives a queue of actors.
LEMMA LockType ==
  ASSUME lockQ \in Seq(Actors), NEW a \in Actors
  PROVE  Released \in Seq(Actors) /\ Kept(a) \in Seq(Actors) /\ Append(lockQ, a) \in Seq(Actors)
BY DEF Released, Kept

\* A call record set by an actor has its type.
LEMMA CallType ==
  ASSUME call \in [Actors -> Call], NEW a \in Actors, NEW j \in Jobs,
         NEW pc \in CallPcs,
         NEW op \in CallOps,
         NEW r \in RunnerIds \cup {NoRunner}
  PROVE  /\ SetCall(a, pc, op, j, r) => call' \in [Actors -> Call]
         /\ Return(a) => call' \in [Actors -> Call]
BY Defaults DEF SetCall, Return, Call

\* start_job and stop_job keep the types, with or without waiting for the lock.
LEMMA StartBodyType ==
  ASSUME TypeOK, NEW j \in Jobs, StartBody(j)
  PROVE  /\ lockQ' \in Seq(Actors)
         /\ reg' \in [Jobs -> RunnerIds \cup {NoRunner}]
         /\ runner' \in [RunnerIds -> Runner]
         /\ raced' \in [Jobs -> BOOLEAN]
<1>1. lockQ' \in Seq(Actors)
  BY DEF TypeOK, StartBody, Released
<1>2. CASE Refused(j) /\ UNCHANGED <<reg, runner, raced>>
  BY <1>1, <1>2 DEF TypeOK
<1>3. CASE ~Refused(j)
  <2>1. PICK r \in RunnerIds :
          /\ runner' = [runner EXCEPT ![r] = NewRunner("created", j)]
          /\ reg' = [reg EXCEPT ![j] = r]
    BY <1>3 DEF StartBody
  <2>2. NewRunner("created", j) \in Runner
    BY Defaults DEF RunnerPcs
  <2>3. runner' \in [RunnerIds -> Runner] /\ reg' \in [Jobs -> RunnerIds \cup {NoRunner}]
    BY <2>1, <2>2 DEF TypeOK
  <2>4. raced' \in [Jobs -> BOOLEAN]
    BY <1>3 DEF TypeOK, StartBody
  <2>5. QED
    BY <1>1, <2>3, <2>4
<1>4. QED
  BY <1>2, <1>3 DEF StartBody

LEMMA StopBodyType ==
  ASSUME TypeOK, NEW a \in Actors, NEW j \in Jobs,
         NEW k \in CallOps, StopBody(a, k, j)
  PROVE  /\ lockQ' \in Seq(Actors)
         /\ runner' \in [RunnerIds -> Runner]
         /\ call' \in [Actors -> Call]
<1>0. runner \in [RunnerIds -> Runner]
  BY DEF TypeOK
<1>1. lockQ' \in Seq(Actors)
  BY LockType DEF TypeOK, StopBody
<1>2. \A pc \in CallPcs, r \in RunnerIds \cup {NoRunner} :
        SetCall(a, pc, k, j, r) => call' \in [Actors -> Call]
  BY CallType DEF TypeOK
<1>3. Return(a) => call' \in [Actors -> Call]
  BY Defaults DEF TypeOK, Return
<1>4. AfterStop(a, k, j) => call' \in [Actors -> Call]
  BY <1>2, <1>3 DEF AfterStop, CallPcs, CallOps
<1>5. CASE TaskActive(j)
  <2>1. PICK r \in RunnerIds : r = reg[j]
    BY <1>5 DEF TypeOK, TaskActive
  <2>2. runner' = [runner EXCEPT ![r].shutdown = TRUE, ![r].cancelled = TRUE]
    BY <1>5, <2>1 DEF StopBody
  <2>3. runner' \in [RunnerIds -> Runner]
    BY <1>0, <2>2 DEF Runner
  <2>4. call' \in [Actors -> Call]
    BY <1>2, <1>5, <2>1 DEF StopBody, CallPcs
  <2>5. QED
    BY <1>1, <2>3, <2>4
<1>6. CASE ~TaskActive(j)
  <2>1. CASE reg[j] = NoRunner
    BY <1>1, <1>4, <1>6, <2>1 DEF TypeOK, StopBody
  <2>2. CASE reg[j] # NoRunner
    <3>1. PICK r \in RunnerIds : r = reg[j]
      BY <2>2 DEF TypeOK
    <3>2. runner' = [runner EXCEPT ![r].shutdown = TRUE]
      BY <1>6, <2>2, <3>1 DEF StopBody
    <3>3. runner' \in [RunnerIds -> Runner]
      BY <1>0, <3>2 DEF Runner
    <3>4. QED
      BY <1>1, <1>4, <1>6, <3>3 DEF StopBody
  <2>3. QED
    BY <2>1, <2>2
<1>7. QED
  BY <1>5, <1>6

LEMMA EnterType ==
  ASSUME TypeOK, NEW a \in Actors, NEW j \in Jobs
  PROVE  /\ EnterStart(a, j) => /\ lockQ' \in Seq(Actors)
                                /\ reg' \in [Jobs -> RunnerIds \cup {NoRunner}]
                                /\ runner' \in [RunnerIds -> Runner]
                                /\ raced' \in [Jobs -> BOOLEAN]
                                /\ call' \in [Actors -> Call]
         /\ \A k \in CallOps :
               EnterStop(a, k, j) => /\ lockQ' \in Seq(Actors)
                                     /\ runner' \in [RunnerIds -> Runner]
                                     /\ call' \in [Actors -> Call]
<1>1. ASSUME EnterStart(a, j)
      PROVE  /\ lockQ' \in Seq(Actors)
             /\ reg' \in [Jobs -> RunnerIds \cup {NoRunner}]
             /\ runner' \in [RunnerIds -> Runner]
             /\ raced' \in [Jobs -> BOOLEAN]
             /\ call' \in [Actors -> Call]
  <2>1. CASE lockQ = <<>> /\ StartBody(j) /\ Return(a)
    BY <2>1, StartBodyType, Defaults DEF TypeOK, Return
  <2>2. CASE /\ lockQ' = Append(lockQ, a)
             /\ SetCall(a, "startLock", "start", j, NoRunner)
             /\ UNCHANGED <<reg, runner, raced>>
    BY <2>2, LockType, CallType DEF TypeOK, CallPcs, CallOps
  <2>3. QED
    BY <1>1, <2>1, <2>2 DEF EnterStart
<1>2. ASSUME NEW k \in CallOps, EnterStop(a, k, j)
      PROVE  /\ lockQ' \in Seq(Actors)
             /\ runner' \in [RunnerIds -> Runner]
             /\ call' \in [Actors -> Call]
  <2>1. CASE StopBody(a, k, j)
    BY <2>1, StopBodyType
  <2>2. CASE /\ lockQ' = Append(lockQ, a)
             /\ SetCall(a, "stopLock", k, j, NoRunner)
             /\ UNCHANGED runner
    BY <2>2, LockType, CallType DEF TypeOK, CallPcs, CallOps
  <2>3. QED
    BY <1>2, <2>1, <2>2 DEF EnterStop
<1>3. QED
  BY <1>1, <1>2

\* A write to a row gives a row.
LEMMA RowType ==
  ASSUME row \in [Jobs -> Row], NEW j \in Jobs, NEW s \in Statuses
  PROVE  (WriteStatus(j, s) \/ Heartbeat(j)) => row' \in [Jobs -> Row]
BY DEF WriteStatus, Heartbeat, Row

\* The steps of a runner.
LEMMA RunnerStepType ==
  ASSUME TypeOK, NEW r \in RunnerIds, RunnerStep(r)
  PROVE  TypeOK'
<1>1. runner \in [RunnerIds -> Runner] /\ row \in [Jobs -> Row]
  BY DEF TypeOK
<1>2. runner[r].job \in Jobs
  BY <1>1 DEF Runner
<1>3. \A pc \in RunnerPcs : GoTo(r, pc) => runner' \in [RunnerIds -> Runner]
  BY <1>1 DEF GoTo, Runner
<1>4. ASSUME EnterCleanup(r) PROVE runner' \in [RunnerIds -> Runner]
  <2>1. runner \in [RunnerIds -> Runner] /\ "cleaning" \in RunnerPcs
    BY <1>1 DEF RunnerPcs
  <2>2. QED
    BY <1>4, <2>1 DEF EnterCleanup, Runner
<1>5. Iterate(r) => runner' \in [RunnerIds -> Runner]
  BY <1>3, <1>4 DEF Iterate, RunnerPcs, PollPcs
<1>6. \A s \in Statuses : WriteStatus(runner[r].job, s) => row' \in [Jobs -> Row]
  BY <1>1, <1>2, RowType
<1>7. Heartbeat(runner[r].job) => row' \in [Jobs -> Row]
  BY <1>1, <1>2, RowType DEF Statuses
<1>8. ASSUME RunnerOnly, runner' \in [RunnerIds -> Runner], row' \in [Jobs -> Row]
      PROVE  TypeOK'
  BY <1>8 DEF TypeOK, RunnerOnly
<1>9. CASE Begin(r)
  <2>1. runner' \in [RunnerIds -> Runner]
    <3>1. runner' = [runner EXCEPT ![r].pc = "marking", ![r].is_running = TRUE,
                                   ![r].shutdown = FALSE]
      BY <1>9 DEF Begin
    <3>2. "marking" \in RunnerPcs
      BY DEF RunnerPcs
    <3>3. QED
      BY <1>1, <3>1, <3>2 DEF Runner
  <2>2. QED
    BY <1>1, <1>8, <1>9, <2>1 DEF Begin
<1>10. CASE MarkRunning(r)
  <2>1. runner' \in [RunnerIds -> Runner]
    BY <1>1, <1>3, <1>10 DEF MarkRunning, Runner, RunnerPcs
  <2>2. row' \in [Jobs -> Row]
    BY <1>1, <1>6, <1>10 DEF MarkRunning, Statuses
  <2>3. QED
    BY <1>8, <1>10, <2>1, <2>2 DEF MarkRunning
<1>11. CASE LoadSeen(r) \/ TimeOutCycle(r) \/ EndWait(r) \/ EndBackoff(r)
  BY <1>1, <1>5, <1>8, <1>11 DEF LoadSeen, TimeOutCycle, EndWait, EndBackoff
<1>12. CASE BeginCycle(r)
  <2>1. runner' \in [RunnerIds -> Runner]
    BY <1>3, <1>4, <1>12 DEF BeginCycle, RunnerPcs, PollPcs
  <2>2. row' \in [Jobs -> Row]
    BY <1>1, <1>7, <1>12 DEF BeginCycle
  <2>3. QED
    BY <1>8, <1>12, <2>1, <2>2 DEF BeginCycle
<1>13. CASE EndPoll(r) \/ FailCycle(r)
  BY <1>1, <1>3, <1>7, <1>8, <1>13 DEF EndPoll, FailCycle, RunnerPcs, PollPcs
<1>14. CASE ExpireSession(r)
  <2>1. runner' \in [RunnerIds -> Runner]
    BY <1>1, <1>14 DEF ExpireSession, Runner
  <2>2. QED
    BY <1>6, <1>8, <1>14, <2>1 DEF ExpireSession, Statuses
<1>15. CASE RecordCycleError(r)
  <2>1. runner' \in [RunnerIds -> Runner]
    BY <1>3, <1>15 DEF RecordCycleError, RunnerPcs, PollPcs
  <2>2. row' \in [Jobs -> Row]
    BY <1>1, <1>6, <1>15 DEF RecordCycleError, Statuses
  <2>3. QED
    BY <1>8, <1>15, <2>1, <2>2 DEF RecordCycleError
<1>16. CASE FatalError(r)
  <2>1. runner' \in [RunnerIds -> Runner]
    BY <1>1, <1>4, <1>16 DEF FatalError, Runner, RunnerPcs
  <2>2. row' \in [Jobs -> Row]
    BY <1>1, <1>6, <1>16 DEF FatalError, Statuses
  <2>3. QED
    BY <1>8, <1>16, <2>1, <2>2 DEF FatalError
<1>17. CASE Cleanup(r)
  <2>1. runner' \in [RunnerIds -> Runner]
    BY <1>1, <1>3, <1>17 DEF Cleanup, Runner, RunnerPcs
  <2>2. row' \in [Jobs -> Row]
    BY <1>1, <1>6, <1>17 DEF Cleanup, Statuses
  <2>3. QED
    BY <1>8, <1>17, <2>1, <2>2 DEF Cleanup
<1>18. CASE DeliverCancel(r)
  <2>1. runner' \in [RunnerIds -> Runner]
    <3>1. runner \in [RunnerIds -> Runner] /\ {"done", "cleaning"} \subseteq RunnerPcs
      BY <1>1 DEF RunnerPcs
    <3>2. CASE runner' = [runner EXCEPT ![r].pc = "done", ![r].cancelled = FALSE,
                                        ![r].failed = FALSE]
      BY <3>1, <3>2 DEF Runner
    <3>3. CASE runner' = [runner EXCEPT ![r].cancelled = FALSE]
      BY <3>1, <3>3 DEF Runner
    <3>4. CASE runner' = [runner EXCEPT ![r].pc = "cleaning", ![r].is_running = FALSE,
                                        ![r].cancelled = FALSE]
      BY <3>1, <3>4 DEF Runner
    <3>5. QED
      BY <1>18, <3>2, <3>3, <3>4 DEF DeliverCancel
  <2>2. row' \in [Jobs -> Row]
    BY <1>1, <1>6, <1>18 DEF DeliverCancel, Statuses
  <2>3. QED
    BY <1>8, <1>18, <2>1, <2>2 DEF DeliverCancel
<1>19. CASE OnTaskDone(r)
  <2>1. runner' \in [RunnerIds -> Runner]
    BY <1>1, <1>19, Defaults DEF OnTaskDone
  <2>2. reg' \in [Jobs -> RunnerIds \cup {NoRunner}] /\ raced' \in [Jobs -> BOOLEAN]
    BY <1>2, <1>19 DEF TypeOK, OnTaskDone
  <2>3. call \in [Actors -> Call]
    BY DEF TypeOK
  <2>4. call' \in [Actors -> Call]
    BY <1>19, <2>3 DEF OnTaskDone, Call, CallPcs
  <2>5. QED
    BY <1>19, <2>1, <2>2, <2>4 DEF OnTaskDone, TypeOK
<1>20. QED
  BY <1>9, <1>10, <1>11, <1>12, <1>13, <1>14, <1>15, <1>16, <1>17, <1>18, <1>19
     DEF RunnerStep

\* The steps of an actor inside a call on the scheduler.
LEMMA SchedulerStepType ==
  ASSUME TypeOK, NEW a \in Actors, SchedulerStep(a)
  PROVE  TypeOK'
<1>1. call[a] \in Call /\ call[a].job \in Jobs /\ call[a].op \in CallOps
  BY DEF TypeOK, Call
<1>2. CASE StartJob(a) \/ EndPause(a)
  BY <1>1, <1>2, EnterType DEF StartJob, EndPause, TypeOK
<1>3. CASE StopJob(a) \/ RestartJob(a) \/ DeleteJob(a)
  <2>1. CASE StopJob(a)
    BY <1>1, <2>1, EnterType DEF StopJob, TypeOK, CallOps
  <2>2. CASE RestartJob(a)
    <3>1. CASE Return(a) /\ UNCHANGED <<lockQ, runner>>
      BY <2>2, <3>1, Defaults DEF RestartJob, TypeOK, Return
    <3>2. CASE EnterStop(a, "restart", call[a].job)
      BY <1>1, <2>2, <3>2, EnterType DEF RestartJob, TypeOK, CallOps
    <3>3. QED
      BY <2>2, <3>1, <3>2 DEF RestartJob
  <2>3. CASE DeleteJob(a)
    <3>1. CASE /\ SetCall(a, "deleting", "delete", call[a].job, NoRunner)
               /\ UNCHANGED <<lockQ, runner>>
      BY <1>1, <2>3, <3>1, CallType DEF DeleteJob, TypeOK, CallPcs, CallOps
    <3>2. CASE EnterStop(a, "delete", call[a].job)
      BY <1>1, <2>3, <3>2, EnterType DEF DeleteJob, TypeOK, CallOps
    <3>3. QED
      BY <2>3, <3>1, <3>2 DEF DeleteJob
  <2>4. QED
    BY <1>3, <2>1, <2>2, <2>3
<1>4. CASE DeleteRow(a)
  <2>1. row \in [Jobs -> Row]
    BY DEF TypeOK
  <2>2. row' \in [Jobs -> Row]
    <3>1. [status |-> "deleted", active |-> FALSE, beat |-> "none"] \in Row
      BY DEF Row, Statuses
    <3>2. QED
      BY <1>1, <1>4, <2>1, <3>1 DEF DeleteRow
  <2>3. call' \in [Actors -> Call]
    BY <1>4, Defaults DEF DeleteRow, TypeOK, Return
  <2>4. QED
    BY <1>4, <2>2, <2>3 DEF DeleteRow, TypeOK
<1>5. CASE AcquireForStart(a)
  BY <1>1, <1>5, StartBodyType, Defaults DEF AcquireForStart, TypeOK, Return
<1>6. CASE AcquireForStop(a)
  BY <1>1, <1>6, StopBodyType DEF AcquireForStop, TypeOK
<1>7. CASE StopReturns(a) \/ StopTimesOut(a) \/ StopRaises(a)
  <2>1. lockQ' \in Seq(Actors)
    BY <1>7, LockType DEF StopReturns, StopTimesOut, StopRaises, TypeOK
  <2>2. call' \in [Actors -> Call]
    <3>1. Return(a) => call' \in [Actors -> Call]
      BY Defaults DEF Return, TypeOK
    <3>2. \A pc \in CallPcs, op \in {"restart", "delete"} :
            SetCall(a, pc, op, call[a].job, NoRunner) => call' \in [Actors -> Call]
      BY <1>1, CallType DEF TypeOK, CallOps
    <3>3. AfterStop(a, call[a].op, call[a].job) => call' \in [Actors -> Call]
      BY <3>1, <3>2 DEF AfterStop, CallPcs, CallOps
    <3>4. QED
      BY <1>7, <3>1, <3>3 DEF StopReturns, StopTimesOut, StopRaises
  <2>3. todo' \in [{Watchdog, Main} -> SUBSET Jobs]
    BY <1>7 DEF StopReturns, StopTimesOut, StopRaises, TypeOK
  <2>4. QED
    BY <1>7, <2>1, <2>2, <2>3 DEF StopReturns, StopTimesOut, StopRaises, TypeOK
<1>8. QED
  BY <1>2, <1>3, <1>4, <1>5, <1>6, <1>7 DEF SchedulerStep

\* The end of the process leaves initial values.
LEMMA ProcessGoneType == ASSUME TypeOK, ProcessGone PROVE TypeOK'
<1>1. lockQ' \in Seq(Actors) /\ runner' \in [RunnerIds -> Runner]
  BY Defaults DEF ProcessGone
<1>2. call' \in [Actors -> Call] /\ reg' \in [Jobs -> RunnerIds \cup {NoRunner}]
  BY Defaults DEF ProcessGone
<1>3. todo' \in [{Watchdog, Main} -> SUBSET Jobs] /\ raced' \in [Jobs -> BOOLEAN]
  BY DEF ProcessGone
<1>4. phase' \in Phases /\ row' \in [Jobs -> Row]
  BY DEF ProcessGone, TypeOK, Phases
<1>5. QED
  BY <1>1, <1>2, <1>3, <1>4 DEF TypeOK

LEMMA LifespanType ==
  ASSUME TypeOK, BootStep \/ ShutdownStep \/ Crash
  PROVE  TypeOK'
<1>1. CASE Boot \/ BootDone
  BY <1>1 DEF Boot, BootDone, TypeOK, Phases
<1>2. ASSUME NEW j \in Jobs, BootStart(j) PROVE TypeOK'
  BY <1>2, StartBodyType DEF BootStart, TypeOK
<1>3. CASE BeginShutdown
  <2>1. call \in [Actors -> Call] /\ Watchdog \in Actors
    BY DEF TypeOK, Actors
  <2>2. call' \in [Actors -> Call]
    BY <1>3, <2>1, Defaults DEF BeginShutdown, Call, CallPcs
  <2>3. lockQ' \in Seq(Actors)
    <3>1. lockQ \in Seq(Actors) /\ <<>> \in Seq(Actors)
      BY DEF TypeOK
    <3>2. lockQ' = lockQ \/ lockQ' = <<>>
      BY <1>3 DEF BeginShutdown
    <3>3. QED
      BY <3>1, <3>2
  <2>4. todo' \in [{Watchdog, Main} -> SUBSET Jobs]
    BY <1>3 DEF BeginShutdown, TypeOK
  <2>5. QED
    BY <1>3, <2>2, <2>3, <2>4 DEF BeginShutdown, TypeOK, Phases
<1>4. CASE ShutdownAll
  BY <1>4 DEF ShutdownAll, TypeOK, Phases
<1>5. ASSUME NEW j \in Jobs, ShutdownStop(j) PROVE TypeOK'
  <2>1. /\ lockQ' \in Seq(Actors)
        /\ runner' \in [RunnerIds -> Runner]
        /\ call' \in [Actors -> Call]
    BY <1>5, EnterType DEF ShutdownStop, Actors, CallOps
  <2>2. QED
    BY <1>5, <2>1 DEF ShutdownStop, TypeOK
<1>6. CASE CloseLoop
  <2>1. runner \in [RunnerIds -> Runner]
    BY DEF TypeOK
  <2>2. \A r \in RunnerIds : [runner[r] EXCEPT !.cancelled = TRUE] \in Runner
    BY <2>1 DEF Runner
  <2>3. runner' \in [RunnerIds -> Runner]
    BY <1>6, <2>1, <2>2 DEF CloseLoop
  <2>4. QED
    BY <1>6, <2>3 DEF CloseLoop, TypeOK, Phases
<1>7. CASE Exit \/ Crash
  BY <1>7, ProcessGoneType DEF Exit, Crash
<1>8. QED
  BY <1>1, <1>2, <1>3, <1>4, <1>5, <1>6, <1>7 DEF BootStep, ShutdownStep

\* Requests, the PATCH endpoint, the passing of time and the watchdog.
LEMMA EnvironmentType ==
  ASSUME TypeOK,
         \/ \E c \in Clients, k \in Requests \ {"enable"}, j \in Jobs : Request(c, k, j)
         \/ \E j \in Jobs : EnableJob(j) \/ GrowStale(j)
         \/ WatchdogStep
  PROVE  TypeOK'
<1>1. ASSUME NEW c \in Clients, NEW k \in Requests \ {"enable"}, NEW j \in Jobs,
             Request(c, k, j)
      PROVE  TypeOK'
  <2>1. c \in Actors /\ k \in CallOps
    BY KnownRequests DEF Actors, CallOps
  <2>2. call' \in [Actors -> Call]
    BY <1>1, <2>1, CallType DEF Request, TypeOK, CallPcs
  <2>3. QED
    BY <1>1, <2>2 DEF Request, TypeOK
<1>2. ASSUME NEW j \in Jobs, EnableJob(j) \/ GrowStale(j) PROVE TypeOK'
  <2>1. row \in [Jobs -> Row]
    BY DEF TypeOK
  <2>2. row' \in [Jobs -> Row]
    <3>1. CASE GrowStale(j)
      BY <2>1, <3>1 DEF GrowStale, Row
    <3>2. CASE EnableJob(j)
      <4>1. row[j].active \in BOOLEAN /\ row[j].beat \in {"none", "fresh", "stale"}
        BY <2>1 DEF Row
      <4>2. PICK x \in BOOLEAN, b \in {"none", "fresh", "stale"} :
              row' = [row EXCEPT ![j].active = x, ![j].beat = b]
        BY <3>2, <4>1 DEF EnableJob
      <4>3. QED
        BY <2>1, <4>2 DEF Row
    <3>3. QED
      BY <1>2, <3>1, <3>2
  <2>3. QED
    BY <1>2, <2>2 DEF EnableJob, GrowStale, TypeOK
<1>3. CASE CheckAllJobs
  BY <1>3 DEF CheckAllJobs, TypeOK
<1>4. ASSUME NEW j \in Jobs, TriggerRecovery(j) PROVE TypeOK'
  <2>1. call' \in [Actors -> Call]
    <3>1. Watchdog \in Actors /\ "ready" \in CallPcs /\ "restart" \in CallOps
      BY DEF Actors, CallPcs, CallOps
    <3>2. QED
      BY <1>4, <3>1, CallType DEF TriggerRecovery, TypeOK
  <2>2. todo' \in [{Watchdog, Main} -> SUBSET Jobs]
    BY <1>4 DEF TriggerRecovery, TypeOK
  <2>3. QED
    BY <1>4, <2>1, <2>2 DEF TriggerRecovery, TypeOK
<1>5. QED
  BY <1>1, <1>2, <1>3, <1>4 DEF WatchdogStep

LEMMA NextType == TypeOK /\ [Next]_vars => TypeOK'
<1>1. CASE UNCHANGED vars
  BY <1>1 DEF vars, TypeOK
<1>2. CASE Next
  BY <1>2, RunnerStepType, SchedulerStepType, LifespanType, EnvironmentType DEF Next
<1>3. QED
  BY <1>1, <1>2

LEMMA InitType == Init => TypeOK
BY Defaults DEF Init, TypeOK, Phases, Row, Statuses

\* Every variable keeps its type, whatever the requests, faults and crashes.
THEOREM TypeCorrect == Spec => []TypeOK
<1>1. QED
  BY InitType, NextType, PTL DEF Spec

-----------------------------------------------------------------------------
(* The registry.  Most steps leave it alone and neither create nor free a  *)
(* runner; the others are StartBody, OnTaskDone and the end of the process.*)

Registry == RegistrySound /\ OneTaskPerJob

SameTasks == /\ reg' = reg /\ raced' = raced
             /\ \A r \in RunnerIds : /\ runner'[r].job = runner[r].job
                                     /\ runner'[r].pc = "free" <=> runner[r].pc = "free"

LEMMA SameTasksKeepRegistry ==
  ASSUME TypeOK, Registry, SameTasks
  PROVE  Registry'
BY DEF TypeOK, Registry, RegistrySound, OneTaskPerJob, SameTasks

\* A step of a runner is a change of its own record only, and keeps its job.
LEMMA RunnerFrame ==
  ASSUME TypeOK, NEW r \in RunnerIds, RunnerStep(r), ~OnTaskDone(r)
  PROVE  /\ SameTasks
         /\ runner[r].pc # "free"
         /\ \A q \in RunnerIds \ {r} : runner'[q] = runner[q]
<1>1. runner \in [RunnerIds -> Runner]
  BY DEF TypeOK
<1>2. ASSUME runner[r].pc # "free", runner'[r].pc # "free", runner'[r].job = runner[r].job,
             RunnerOnly, \A q \in RunnerIds \ {r} : runner'[q] = runner[q]
      PROVE  SameTasks
  BY <1>2 DEF SameTasks, RunnerOnly
<1>3. ASSUME NEW pc, GoTo(r, pc)
      PROVE  /\ runner'[r].pc = pc /\ runner'[r].job = runner[r].job
             /\ \A q \in RunnerIds \ {r} : runner'[q] = runner[q]
  BY <1>1, <1>3 DEF GoTo, Runner
<1>4. ASSUME EnterCleanup(r)
      PROVE  /\ runner'[r].pc = "cleaning" /\ runner'[r].job = runner[r].job
             /\ \A q \in RunnerIds \ {r} : runner'[q] = runner[q]
  BY <1>1, <1>4 DEF EnterCleanup, Runner
<1>5. ASSUME Iterate(r)
      PROVE  /\ runner'[r].pc \in {"top", "cleaning"} /\ runner'[r].job = runner[r].job
             /\ \A q \in RunnerIds \ {r} : runner'[q] = runner[q]
  BY <1>3, <1>4, <1>5 DEF Iterate
<1>6. RunnerOnly
  BY DEF RunnerStep, Begin, MarkRunning, LoadSeen, BeginCycle, EndPoll, ExpireSession,
         FailCycle, TimeOutCycle, EndWait, RecordCycleError, EndBackoff, FatalError,
         Cleanup, DeliverCancel
<1>7. CASE Begin(r)
  BY <1>1, <1>2, <1>6, <1>7 DEF Begin, At, Runner
<1>8. CASE MarkRunning(r)
  BY <1>1, <1>2, <1>3, <1>6, <1>8 DEF MarkRunning, At, Runner
<1>9. CASE LoadSeen(r) \/ TimeOutCycle(r) \/ EndWait(r) \/ EndBackoff(r)
  BY <1>2, <1>5, <1>6, <1>9 DEF LoadSeen, TimeOutCycle, EndWait, EndBackoff, At
<1>10. CASE BeginCycle(r)
  BY <1>2, <1>3, <1>4, <1>6, <1>10 DEF BeginCycle, At
<1>11. CASE EndPoll(r) \/ FailCycle(r)
  BY <1>2, <1>3, <1>6, <1>11 DEF EndPoll, FailCycle, At
<1>12. CASE ExpireSession(r)
  BY <1>1, <1>2, <1>6, <1>12 DEF ExpireSession, At, Runner
<1>13. CASE RecordCycleError(r)
  BY <1>2, <1>3, <1>6, <1>13 DEF RecordCycleError, At
<1>14. CASE FatalError(r)
  BY <1>1, <1>2, <1>4, <1>6, <1>14 DEF FatalError, At, Runner
<1>15. CASE Cleanup(r)
  BY <1>1, <1>2, <1>3, <1>6, <1>15 DEF Cleanup, At, Runner
<1>16. CASE DeliverCancel(r)
  BY <1>1, <1>2, <1>6, <1>16 DEF DeliverCancel, PollPcs, Runner
<1>17. QED
  BY <1>7, <1>8, <1>9, <1>10, <1>11, <1>12, <1>13, <1>14, <1>15, <1>16 DEF RunnerStep

LEMMA StopBodyFrame ==
  ASSUME TypeOK, NEW a \in Actors, NEW j \in Jobs, NEW k, StopBody(a, k, j),
         UNCHANGED <<reg, raced>>
  PROVE  SameTasks
<1>1. runner \in [RunnerIds -> Runner]
  BY DEF TypeOK
<1>2. CASE reg[j] = NoRunner
  BY <1>2 DEF StopBody, SameTasks, TaskActive
<1>3. CASE reg[j] # NoRunner
  <2>1. PICK r \in RunnerIds : r = reg[j]
    BY <1>3 DEF TypeOK
  <2>2. \/ runner' = [runner EXCEPT ![r].shutdown = TRUE, ![r].cancelled = TRUE]
        \/ runner' = [runner EXCEPT ![r].shutdown = TRUE]
    BY <1>3, <2>1 DEF StopBody
  <2>3. QED
    BY <1>1, <2>2 DEF SameTasks, Runner
<1>4. QED
  BY <1>2, <1>3

\* start_job: a job gets a task when the registry has none of it, or when the
\* one it has is over but not called back; the latter is what raced records.
LEMMA StartBodyRegistry ==
  ASSUME TypeOK, Registry, NEW j \in Jobs, StartBody(j)
  PROVE  Registry'
<1>1. CASE UNCHANGED <<reg, runner, raced>>
  BY <1>1 DEF Registry, RegistrySound, OneTaskPerJob
<1>2. CASE ~Refused(j)
  <2>1. PICK r \in RunnerIds :
          /\ runner[r].pc = "free"
          /\ runner' = [runner EXCEPT ![r] = NewRunner("created", j)]
          /\ reg' = [reg EXCEPT ![j] = r]
    BY <1>2 DEF StartBody
  <2>2. /\ runner'[r].pc = "created" /\ runner'[r].job = j
        /\ \A q \in RunnerIds \ {r} : runner'[q] = runner[q]
    BY <2>1 DEF TypeOK, NewRunner
  <2>3. /\ reg'[j] = r
        /\ \A k \in Jobs \ {j} : reg'[k] = reg[k] /\ raced'[k] = raced[k]
        /\ raced'[j] = (raced[j] \/ (reg[j] # NoRunner /\ TaskDone(reg[j])))
    BY <1>2, <2>1 DEF TypeOK, StartBody
  <2>4. reg[j] = NoRunner \/ TaskDone(reg[j])
    BY <1>2 DEF Refused, IsRunning, TaskActive
  <2>5. RegistrySound'
    BY <2>1, <2>2, <2>3 DEF TypeOK, Registry, RegistrySound
  <2>6. ASSUME NEW q \in RunnerIds, runner'[q].pc # "free", ~raced'[runner'[q].job]
        PROVE  reg'[runner'[q].job] = q
    <3>1. CASE q = r
      BY <2>2, <2>3, <3>1
    <3>2. CASE q # r
      <4>1. runner'[q] = runner[q] /\ runner[q].job \in Jobs
        BY <2>2, <3>2 DEF TypeOK, Runner
      <4>2. CASE runner[q].job = j
        <5>1. ~raced[j] /\ reg[j] = NoRunner
          BY <2>3, <2>4, <2>6, <4>1, <4>2 DEF TypeOK
        <5>2. reg[j] = q
          BY <2>6, <4>1, <4>2, <5>1 DEF Registry, OneTaskPerJob
        <5>3. QED
          BY <5>1, <5>2, NoRunnerIsNone
      <4>3. CASE runner[q].job # j
        BY <2>3, <2>6, <4>1, <4>3 DEF Registry, OneTaskPerJob
      <4>4. QED
        BY <4>2, <4>3
    <3>3. QED
      BY <3>1, <3>2
  <2>7. QED
    BY <2>5, <2>6 DEF Registry, OneTaskPerJob
<1>3. QED
  BY <1>1, <1>2 DEF StartBody

\* The done-callback drops the job's entry, whichever runner it names: any other
\* runner of the job then has no entry, and raced says so.
LEMMA OnTaskDoneRegistry ==
  ASSUME TypeOK, Registry, NEW r \in RunnerIds, OnTaskDone(r)
  PROVE  Registry'
<1> DEFINE j == runner[r].job
<1>1. j \in Jobs /\ runner[r].pc # "free"
  BY DEF TypeOK, Runner, OnTaskDone, TaskDone
<1>2. /\ runner'[r].pc = "free"
      /\ \A q \in RunnerIds \ {r} : runner'[q] = runner[q]
  BY DEF TypeOK, OnTaskDone, FreeRunner, NewRunner
<1>3. /\ reg'[j] = NoRunner
      /\ \A k \in Jobs \ {j} : reg'[k] = reg[k] /\ raced'[k] = raced[k]
  BY <1>1 DEF TypeOK, OnTaskDone
<1>4. RegistrySound'
  <2>1. ASSUME NEW k \in Jobs, reg'[k] # NoRunner
        PROVE  runner'[reg'[k]].pc # "free" /\ runner'[reg'[k]].job = k
    <3>1. k # j /\ reg'[k] = reg[k]
      BY <1>3, <2>1
    <3>2. reg[k] \in RunnerIds /\ runner[reg[k]].pc # "free" /\ runner[reg[k]].job = k
      BY <2>1, <3>1 DEF TypeOK, Registry, RegistrySound
    <3>3. reg[k] # r
      BY <3>1, <3>2
    <3>4. QED
      BY <1>2, <3>1, <3>2, <3>3
  <2>2. QED
    BY <2>1 DEF RegistrySound
<1>5. ASSUME NEW q \in RunnerIds, runner'[q].pc # "free", ~raced'[runner'[q].job]
      PROVE  reg'[runner'[q].job] = q
  <2>1. q # r /\ runner'[q] = runner[q] /\ runner[q].job \in Jobs
    BY <1>2, <1>5 DEF TypeOK, Runner
  <2>2. CASE runner[q].job = j
    <3>1. raced'[j] = (raced[j] /\ \E p \in RunnerIds \ {r} :
                                      runner[p].pc # "free" /\ runner[p].job = j)
      BY <1>1 DEF TypeOK, OnTaskDone
    <3>2. ~raced[j]
      BY <1>5, <2>1, <2>2, <3>1 DEF TypeOK
    <3>3. reg[j] = r /\ reg[j] = q
      BY <1>1, <1>5, <2>1, <2>2, <3>2 DEF Registry, OneTaskPerJob
    <3>4. QED
      BY <2>1, <3>3
  <2>3. CASE runner[q].job # j
    BY <1>3, <1>5, <2>1, <2>3 DEF Registry, OneTaskPerJob
  <2>4. QED
    BY <2>2, <2>3
<1>6. QED
  BY <1>4, <1>5 DEF Registry, OneTaskPerJob

LEMMA EnterRegistry ==
  ASSUME TypeOK, Registry, NEW a \in Actors, NEW j \in Jobs
  PROVE  /\ EnterStart(a, j) => Registry'
         /\ \A k : EnterStop(a, k, j) /\ UNCHANGED <<reg, raced>> => Registry'
<1>1. ASSUME EnterStart(a, j) PROVE Registry'
  <2>1. CASE StartBody(j)
    BY <2>1, StartBodyRegistry
  <2>2. CASE UNCHANGED <<reg, runner, raced>>
    BY <2>2, SameTasksKeepRegistry DEF SameTasks
  <2>3. QED
    BY <1>1, <2>1, <2>2 DEF EnterStart
<1>2. ASSUME NEW k, EnterStop(a, k, j), UNCHANGED <<reg, raced>> PROVE Registry'
  <2>1. CASE StopBody(a, k, j)
    BY <1>2, <2>1, StopBodyFrame, SameTasksKeepRegistry
  <2>2. CASE UNCHANGED runner
    BY <1>2, <2>2, SameTasksKeepRegistry DEF SameTasks
  <2>3. QED
    BY <1>2, <2>1, <2>2 DEF EnterStop
<1>3. QED
  BY <1>1, <1>2

LEMMA SchedulerStepRegistry ==
  ASSUME TypeOK, Registry, NEW a \in Actors, SchedulerStep(a)
  PROVE  Registry'
<1>1. call[a].job \in Jobs
  BY DEF TypeOK, Call
<1>2. CASE StartJob(a) \/ EndPause(a)
  BY <1>1, <1>2, EnterRegistry DEF StartJob, EndPause
<1>3. CASE AcquireForStart(a)
  BY <1>1, <1>3, StartBodyRegistry DEF AcquireForStart
<1>4. CASE AcquireForStop(a)
  BY <1>1, <1>4, StopBodyFrame, SameTasksKeepRegistry DEF AcquireForStop
<1>5. CASE StopJob(a) \/ RestartJob(a) \/ DeleteJob(a)
  <2>1. CASE UNCHANGED <<runner, reg, raced>>
    BY <2>1, SameTasksKeepRegistry DEF SameTasks
  <2>2. CASE \E k \in CallOps : EnterStop(a, k, call[a].job) /\ UNCHANGED <<reg, raced>>
    BY <1>1, <2>2, EnterRegistry
  <2>3. QED
    BY <1>5, <2>1, <2>2 DEF StopJob, RestartJob, DeleteJob, CallOps
<1>6. CASE DeleteRow(a) \/ StopReturns(a) \/ StopTimesOut(a) \/ StopRaises(a)
  BY <1>6, SameTasksKeepRegistry
     DEF SameTasks, DeleteRow, StopReturns, StopTimesOut, StopRaises
<1>7. QED
  BY <1>2, <1>3, <1>4, <1>5, <1>6 DEF SchedulerStep

LEMMA LifespanRegistry ==
  ASSUME TypeOK, Registry, BootStep \/ ShutdownStep \/ Crash
  PROVE  Registry'
<1>1. CASE Boot \/ BootDone \/ BeginShutdown \/ ShutdownAll
  BY <1>1, SameTasksKeepRegistry DEF SameTasks, Boot, BootDone, BeginShutdown, ShutdownAll
<1>2. ASSUME NEW j \in Jobs, BootStart(j) PROVE Registry'
  BY <1>2, StartBodyRegistry DEF BootStart
<1>3. ASSUME NEW j \in Jobs, ShutdownStop(j) PROVE Registry'
  BY <1>3, EnterRegistry DEF ShutdownStop, Actors
<1>4. CASE CloseLoop
  <2>1. SameTasks
    BY <1>4 DEF TypeOK, Runner, CloseLoop, SameTasks
  <2>2. QED
    BY <2>1, SameTasksKeepRegistry
<1>5. CASE ProcessGone
  BY <1>5 DEF ProcessGone, FreeRunner, NewRunner, Registry, RegistrySound, OneTaskPerJob
<1>6. QED
  BY <1>1, <1>2, <1>3, <1>4, <1>5 DEF BootStep, ShutdownStep, Exit, Crash

LEMMA RegistryStep == TypeOK /\ Registry /\ [Next]_vars => Registry'
<1> SUFFICES ASSUME TypeOK, Registry, [Next]_vars PROVE Registry'
  OBVIOUS
<1>1. CASE UNCHANGED vars
  BY <1>1, SameTasksKeepRegistry DEF vars, SameTasks
<1>2. ASSUME NEW a \in Actors, SchedulerStep(a) PROVE Registry'
  BY <1>2, SchedulerStepRegistry
<1>3. CASE BootStep \/ ShutdownStep \/ Crash
  BY <1>3, LifespanRegistry
<1>4. ASSUME NEW r \in RunnerIds, RunnerStep(r) PROVE Registry'
  BY <1>4, RunnerFrame, OnTaskDoneRegistry, SameTasksKeepRegistry
<1>5. CASE \/ \E c \in Clients, k \in Requests \ {"enable"}, j \in Jobs : Request(c, k, j)
           \/ \E j \in Jobs : EnableJob(j) \/ GrowStale(j)
           \/ WatchdogStep
  <2>1. reg' = reg /\ raced' = raced /\ runner' = runner
    BY <1>5, Zenon DEF Request, EnableJob, GrowStale, WatchdogStep, CheckAllJobs, TriggerRecovery
  <2>2. QED
    BY <2>1, SameTasksKeepRegistry DEF SameTasks
<1>6. QED
  BY <1>1, <1>2, <1>3, <1>4, <1>5 DEF Next

\* A registry entry names a live task of its job, and a task of a job is the one
\* the registry names unless start_job was served before its done-callback.
THEOREM RegistryCorrect == Spec => [](RegistrySound /\ OneTaskPerJob)
<1>1. Init => TypeOK /\ Registry
  BY InitType DEF Init, Registry, RegistrySound, OneTaskPerJob, FreeRunner, NewRunner
<1>2. TypeOK /\ Registry /\ [Next]_vars => (TypeOK /\ Registry)'
  BY NextType, RegistryStep
<1>3. Registry => RegistrySound /\ OneTaskPerJob
  BY DEF Registry
<1>4. QED
  BY <1>1, <1>2, <1>3, PTL DEF Spec

\* The registry alone: whatever stop_job, is_running and the done-callback look up there
\* is a task of that job that has not been called back.
THEOREM RegistrySoundCorrect == Spec => []RegistrySound
<1>1. RegistrySound /\ OneTaskPerJob => RegistrySound
  OBVIOUS
<1>2. QED
  BY <1>1, RegistryCorrect, PTL

=============================================================================
