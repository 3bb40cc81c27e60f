---------------------------- MODULE BrowserProfile ----------------------------
(***************************************************************************)
(* The browser of one job: browser_manager.py and the parts of             *)
(* job_runner.py that create, use, restart, recycle and close it.          *)
(*                                                                         *)
(* A manager drives a Playwright driver process, which runs a Chromium on  *)
(* the job's profile directory; Chromium refuses to start on a directory   *)
(* that another one has.  The poll loop owns the manager self._browser.    *)
(* The action worker of an IndiaMART job keeps the manager it was created  *)
(* with and calls new_page() and get_page() on it, which launch a browser  *)
(* when there is none alive.  An action is what a task does between two    *)
(* awaits; closing, starting a driver, launching a context and dressing it *)
(* are awaits, at which the other task, a cancellation, an exception or    *)
(* the death of Chromium or of its page alone may come in between.         *)
(***************************************************************************)
EXTENDS Naturals, FiniteSets

CONSTANTS
    Managers,   \* BrowserManager objects
    Drivers,    \* Playwright driver processes, each with its Chromium
    None,       \* no manager, no driver
    PlainFaults,  \* bound: deaths of Chromium or of a page, failed launches, failed cycles
    WorkerFaults  \* the same bound for a job with a worker

ASSUME NoneIsNothing  == None \notin Managers \cup Drivers
ASSUME FaultsAreFew   == PlainFaults \in Nat /\ WorkerFaults \in Nat
ASSUME EnoughObjects  == Cardinality(Managers) >= 3 /\ Cardinality(Drivers) >= 3

VARIABLES
    kind,      \* "indiamart": the job has an action worker, "plain": it has none
    mgr,       \* mgr[m]: _playwright, _context, _page (the driver each belongs to)
    browser,   \* self._browser of the runner
    running,   \* drivers that are started and not stopped
    chromium,  \* the driver whose Chromium has the profile directory
    act,       \* act[a]: the poll loop and the worker
    faults,    \* what has failed so far
    forgot     \* the runner has dropped a manager whose Chromium was up

vars == <<kind, mgr, browser, running, chromium, act, faults, forgot>>

Actors == {"loop", "work"}

\* What a task waits for inside the manager: _context.close(), _playwright.stop(),
\* the pause of restart(), async_playwright().start(), the launch of the context, and
\* its scripts, cookies and page.
Awaits == {"closing", "stopping", "pause", "start", "context", "dress"}
Pcs    == Awaits \cup {"off", "load", "poll", "scan", "recycle", "recycling", "wait",
                       "backoff", "cleaning",
                       "created", "newpage", "use"}
\* The call of the runner a manager method serves.
Calls  == {"none", "get_or_create", "get_page", "shot", "recycle", "backoff", "cleanup", "new_page", "rule"}

Opt(S) == S \cup {None}
Manager == [pw : Opt(Drivers), ctx : Opt(Drivers), page : Opt(Drivers)]
Blank   == [pw |-> None, ctx |-> None, page |-> None]
Task == [pc : Pcs, call : Calls, m : Opt(Managers), drv : Opt(Drivers),
         then : {"none", "pause", "start", "off"}]
Off  == [pc |-> "off", call |-> "none", m |-> None, drv |-> None, then |-> "none"]
Busy(m, pc) == [Off EXCEPT !.m = m, !.pc = pc]

At(a, pc) == act[a].pc = pc
Become(a, t) == act' = [act EXCEPT ![a] = t]
MaxFaults == IF kind = "plain" THEN PlainFaults ELSE WorkerFaults
Fault == faults < MaxFaults /\ faults' = faults + 1

\* is_alive: a context, and an open page.  A page may be closed alone (PageCloses), and
\* goes with its Chromium.
Alive(m) == mgr[m].ctx # None /\ mgr[m].page # None /\ chromium = mgr[m].page

-----------------------------------------------------------------------------
(* How a call of the manager ends for the task that made it.               *)

\* The statement after the call.
Returned(t) ==
    Busy(t.m, CASE t.call = "get_or_create" -> "poll"
                [] t.call \in {"get_page", "shot"} -> "scan"
                [] t.call = "recycle"       -> "wait"
                [] t.call = "backoff"       -> "load"
                [] t.call = "new_page"      -> "newpage"
                [] OTHER                    -> "use")

\* The handler of the exception: the loop backs off, or forgets the manager that it
\* could not restart; the worker ends; a failed screenshot is only logged.
Raised(t) ==
    CASE t.call = "backoff"  -> [Off EXCEPT !.pc = "load"]
      [] t.call = "new_page" -> Off
      [] t.call = "rule"     -> Busy(t.m, "use")
      [] t.call = "shot"     -> Busy(t.m, "scan")
      [] OTHER               -> Busy(t.m, "backoff")

\* The runner drops its manager, whatever that one holds.
Abandons == browser # None /\ chromium # None /\ chromium \in {mgr[browser].pw, mgr[browser].ctx}
Forget   == forgot' = (forgot \/ Abandons)

\* Fault: any failure makes the runner forget its manager.
RaiseAndForget(a) == Become(a, Raised(act[a])) /\ browser' = None /\ UNCHANGED forgot
Raise(a) ==
    /\ Become(a, Raised(act[a]))
    /\ IF act[a].call = "backoff" THEN browser' = None /\ Forget ELSE UNCHANGED <<browser, forgot>>

\* close() of manager m, and what follows it.
CloseThen(m, call, then) ==
    LET pc == IF mgr[m].ctx # None THEN "closing" ELSE IF mgr[m].pw # None THEN "stopping" ELSE then
    IN  [pc |-> pc, call |-> call, m |-> m, then |-> then,
         drv |-> CASE pc = "closing" -> mgr[m].ctx [] pc = "stopping" -> mgr[m].pw [] OTHER -> None]

\* launch(): nothing to do when alive; what is left of an earlier launch is closed first.
Launch(m, call) ==
    LET t == CloseThen(m, call, "start") IN IF Alive(m) THEN Returned(t) ELSE t

-----------------------------------------------------------------------------
(* Inside the manager.                                                     *)

Finally(m) == mgr' = [mgr EXCEPT ![m] = Blank]
Quit(d)    == chromium' = IF chromium = d THEN None ELSE chromium

\* The context is closed; close() goes on to the driver, unless the context had died.
ContextClosed(a) ==
    LET t == act[a] IN
    /\ At(a, "closing")
    /\ Quit(t.drv)
    /\ \/ /\ mgr[t.m].pw # None
          /\ Become(a, [t EXCEPT !.pc = "stopping", !.drv = mgr[t.m].pw])
          /\ UNCHANGED mgr
       \/ /\ chromium # t.drv \/ mgr[t.m].pw = None
          /\ Become(a, [t EXCEPT !.pc = t.then, !.drv = None])
          /\ Finally(t.m)
    /\ UNCHANGED <<kind, forgot, browser, running, faults>>

\* The driver is stopped, which takes its Chromium along.
DriverStopped(a) ==
    LET t == act[a] IN
    /\ At(a, "stopping")
    /\ Quit(t.drv) /\ running' = running \ {t.drv} /\ Finally(t.m)
    /\ Become(a, [t EXCEPT !.pc = t.then, !.drv = None])
    /\ UNCHANGED <<kind, forgot, browser, faults>>

\* The two seconds of restart().
EndPause(a) ==
    /\ At(a, "pause")
    /\ Become(a, Launch(act[a].m, act[a].call))
    /\ UNCHANGED <<kind, forgot, mgr, browser, running, chromium, faults>>

\* Managers somebody refers to.
InUse == {m \in Managers : m = browser \/ \E a \in Actors : act[a].m = m}

\* Drivers nobody refers to; one that was lost without a Chromium does no harm.
Fresh == {d \in Drivers : /\ chromium # d
                          /\ \A m \in InUse : d \notin {mgr[m].pw, mgr[m].ctx, mgr[m].page}
                          /\ \A a \in Actors : act[a].drv # d}

DriverStarted(a) ==
    LET t == act[a] IN
    /\ At(a, "start")
    /\ \E d \in Fresh :
          /\ mgr' = [mgr EXCEPT ![t.m].pw = d]
          /\ running' = running \cup {d}
          /\ Become(a, [t EXCEPT !.pc = "context", !.drv = d])
    /\ UNCHANGED <<kind, forgot, browser, chromium, faults>>

\* launch_persistent_context succeeds when no other Chromium has the profile.
CanLaunch(d) == chromium = None /\ d \in running

ContextLaunched(a) ==
    LET t == act[a] IN
    /\ At(a, "context") /\ CanLaunch(t.drv)
    /\ chromium' = t.drv /\ mgr' = [mgr EXCEPT ![t.m].ctx = t.drv]
    /\ Become(a, [t EXCEPT !.pc = "dress"])
    /\ UNCHANGED <<kind, forgot, browser, running, faults>>

\* A driver or a context that does not come up; on a profile that is taken, or with a
\* driver that was stopped meanwhile, a context never does.
LaunchFails(a) ==
    /\ At(a, "start") \/ At(a, "context")
    /\ IF At(a, "context") /\ ~CanLaunch(act[a].drv) THEN UNCHANGED faults ELSE Fault
    /\ Raise(a)
    /\ UNCHANGED <<kind, mgr, running, chromium>>

\* The script or the page may fail with Chromium up: launch() raises, and the manager has
\* a context and no page.
Dressed(a) ==
    LET t  == act[a]
        up == chromium = t.drv /\ mgr[t.m].ctx = t.drv
    IN
    /\ At(a, "dress")
    /\ \/ /\ up /\ mgr' = [mgr EXCEPT ![t.m].page = t.drv]
          /\ Become(a, Returned(t)) /\ UNCHANGED <<browser, faults, forgot>>
       \/ /\ IF up THEN Fault ELSE UNCHANGED faults
          /\ Raise(a) /\ UNCHANGED mgr
    /\ UNCHANGED <<kind, running, chromium>>

-----------------------------------------------------------------------------
(* The poll loop.                                                          *)

Begin ==
    /\ act["loop"] = Off /\ Become("loop", [Off EXCEPT !.pc = "load"])
    /\ UNCHANGED <<kind, forgot, mgr, browser, running, chromium, faults>>

\* A manager that is not alive is replaced by a new one, and not closed, although its
\* Chromium may be up without a page.
GetOrCreate ==
    /\ At("loop", "load")
    /\ IF browser # None /\ Alive(browser)
       THEN Become("loop", Busy(browser, "poll")) /\ UNCHANGED <<mgr, browser, forgot>>
       ELSE /\ Forget
            /\ \E m \in Managers \ InUse :
                  /\ browser' = m /\ mgr' = [mgr EXCEPT ![m] = Blank]
                  /\ Become("loop", [Busy(m, "start") EXCEPT !.call = "get_or_create"])
    /\ UNCHANGED <<kind, running, chromium, faults>>

GetPage ==
    /\ At("loop", "poll")
    /\ Become("loop", Launch(act["loop"].m, "get_page"))
    /\ UNCHANGED <<kind, forgot, mgr, browser, running, chromium, faults>>

\* Navigation, rules and screenshots of the cycle ask for the page again.
AskAgain ==
    /\ At("loop", "scan")
    /\ \E call \in {"get_page", "shot"} : Become("loop", Launch(act["loop"].m, call))
    /\ UNCHANGED <<kind, forgot, mgr, browser, running, chromium, faults>>

\* The cycle is over; it may have created the worker, if there was none.
ScanEnds ==
    /\ At("loop", "scan")
    /\ \E w \in {act["work"]} \cup
                (IF kind = "indiamart" /\ At("work", "off") THEN {Busy(act["loop"].m, "created")} ELSE {}) :
          act' = [act EXCEPT !["loop"].pc = "recycle", !["work"] = w]
    /\ UNCHANGED <<kind, forgot, mgr, browser, running, chromium, faults>>

\* An exception of the cycle; on a page that is gone it costs no further fault.
CycleFails ==
    /\ At("loop", "load") \/ At("loop", "scan")
    /\ IF At("loop", "scan") /\ ~Alive(act["loop"].m) THEN UNCHANGED faults ELSE Fault
    /\ Become("loop", Busy(act["loop"].m, "backoff"))
    /\ UNCHANGED <<kind, forgot, mgr, browser, running, chromium>>

\* Fault: the browser is recycled without regard to the worker.
RecycleAnyway ==
    /\ At("loop", "recycle")
    /\ \/ Become("loop", Busy(browser, "wait"))
       \/ Become("loop", [Busy(browser, "recycling") EXCEPT !.call = "recycle"])
    /\ UNCHANGED <<kind, forgot, mgr, browser, running, chromium, faults>>

\* _maybe_recycle_browser: due or not, and never under a worker.
MaybeRecycle ==
    /\ At("loop", "recycle")
    /\ \/ Become("loop", Busy(browser, "wait"))
       \/ At("work", "off") /\ Become("loop", [Busy(browser, "recycling") EXCEPT !.call = "recycle"])
    /\ UNCHANGED <<kind, forgot, mgr, browser, running, chromium, faults>>

\* The event is logged, then restart() begins.
Recycle ==
    /\ At("loop", "recycling")
    /\ Become("loop", CloseThen(browser, "recycle", "pause"))
    /\ UNCHANGED <<kind, forgot, mgr, browser, running, chromium, faults>>

EndWait ==
    /\ At("loop", "wait") /\ Become("loop", [Off EXCEPT !.pc = "load"])
    /\ UNCHANGED <<kind, forgot, mgr, browser, running, chromium, faults>>

\* Fault: the backoff forgets the browser instead of restarting it.
ForgetBrowser ==
    /\ At("loop", "backoff")
    /\ Become("loop", [Off EXCEPT !.pc = "load"]) /\ browser' = None
    /\ UNCHANGED <<kind, forgot, mgr, running, chromium, faults>>

\* After the backoff the browser is restarted, worker or not.
EndBackoff ==
    /\ At("loop", "backoff")
    /\ Become("loop", IF browser = None THEN [Off EXCEPT !.pc = "load"]
                      ELSE CloseThen(browser, "backoff", "pause"))
    /\ UNCHANGED <<kind, forgot, mgr, browser, running, chromium, faults>>

-----------------------------------------------------------------------------
(* The action worker.                                                      *)

OpenActionPage ==
    /\ At("work", "created")
    /\ Become("work", Launch(act["work"].m, "new_page"))
    /\ UNCHANGED <<kind, forgot, mgr, browser, running, chromium, faults>>

\* new_page() after launch(): the context may be gone again.
NewPage ==
    LET m == act["work"].m IN
    /\ At("work", "newpage")
    /\ Become("work", IF mgr[m].ctx # None /\ chromium = mgr[m].ctx THEN Busy(m, "use") ELSE Off)
    /\ UNCHANGED <<kind, forgot, mgr, browser, running, chromium, faults>>

\* The rules run on the worker's page; a screenshot, of a rule or of its failure, asks the
\* manager for its own.
RunRule ==
    /\ At("work", "use")
    /\ Become("work", Launch(act["work"].m, "rule"))
    /\ UNCHANGED <<kind, forgot, mgr, browser, running, chromium, faults>>

\* The queue is empty, or an exception ends the drain.
WorkerEnds ==
    /\ At("work", "use") /\ Become("work", Off)
    /\ UNCHANGED <<kind, forgot, mgr, browser, running, chromium, faults>>

-----------------------------------------------------------------------------
(* The end of the runner.                                                  *)

\* A cancelled await: a close that was asked for happens, and its finally block runs; a
\* Chromium that was asked for may still come up.
Interrupt(a) ==
    LET t == act[a] IN
    /\ IF t.pc \in {"closing", "stopping"} THEN Finally(t.m) ELSE UNCHANGED mgr
    /\ running' = IF t.pc = "stopping" THEN running \ {t.drv} ELSE running
    /\ \/ t.pc \in {"closing", "stopping"} /\ Quit(t.drv)
       \/ t.pc \notin {"closing", "stopping"} /\ UNCHANGED chromium
       \/ t.pc = "context" /\ CanLaunch(t.drv) /\ chromium' = t.drv

Stopping == At("loop", "cleaning") \/ act["loop"].call = "cleanup"
Up == ~At("loop", "off") /\ ~Stopping

Stop ==
    /\ Up /\ Interrupt("loop") /\ Become("loop", [Off EXCEPT !.pc = "cleaning"])
    /\ UNCHANGED <<kind, forgot, browser, faults>>

CancelWorker ==
    /\ At("loop", "cleaning") /\ ~At("work", "off")
    /\ Interrupt("work") /\ Become("work", Off)
    /\ UNCHANGED <<kind, forgot, browser, faults>>

\* Fault: the cleanup drops the manager without closing it.
DropBrowser ==
    /\ At("loop", "cleaning") /\ At("work", "off")
    /\ Become("loop", Off) /\ browser' = None
    /\ UNCHANGED <<kind, forgot, mgr, running, chromium, faults>>

CloseBrowser ==
    /\ At("loop", "cleaning") /\ At("work", "off") /\ browser # None
    /\ Become("loop", CloseThen(browser, "cleanup", "off"))
    /\ UNCHANGED <<kind, forgot, mgr, browser, running, chromium, faults>>

CleanupEnds ==
    /\ \/ At("loop", "cleaning") /\ At("work", "off") /\ browser = None
       \/ At("loop", "off") /\ act["loop"].call = "cleanup"
    /\ Become("loop", Off) /\ browser' = None
    /\ UNCHANGED <<kind, forgot, mgr, running, chromium, faults>>

-----------------------------------------------------------------------------
\* Chromium dies, and all its pages with it.
ChromiumDies ==
    /\ chromium # None /\ Fault /\ chromium' = None
    /\ UNCHANGED <<kind, forgot, mgr, browser, running, act>>

\* The site or somebody at the screen closes a manager's page, and Chromium stays.
PageCloses ==
    /\ \E m \in Managers :
          /\ chromium # None /\ mgr[m].page = chromium
          /\ mgr' = [mgr EXCEPT ![m].page = None]
    /\ Fault
    /\ UNCHANGED <<kind, forgot, browser, running, chromium, act>>

Init ==
    /\ kind \in {"plain", "indiamart"}
    /\ mgr = [m \in Managers |-> Blank] /\ browser = None
    /\ running = {} /\ chromium = None
    /\ act = [a \in Actors |-> Off] /\ faults = 0 /\ forgot = FALSE

ManagerStep(a) ==
    \/ ContextClosed(a) \/ DriverStopped(a) \/ EndPause(a) \/ DriverStarted(a)
    \/ ContextLaunched(a) \/ LaunchFails(a) \/ Dressed(a)
LoopStep ==
    \/ ManagerStep("loop") \/ GetOrCreate \/ GetPage \/ AskAgain \/ ScanEnds \/ MaybeRecycle
    \/ Recycle \/ EndWait \/ EndBackoff \/ CancelWorker \/ CloseBrowser \/ CleanupEnds
WorkerStep == ManagerStep("work") \/ OpenActionPage \/ NewPage \/ RunRule \/ WorkerEnds

Next == Begin \/ LoopStep \/ WorkerStep \/ CycleFails \/ Stop \/ ChromiumDies \/ PageCloses

Spec == Init /\ [][Next]_vars

\* The event loop resumes its tasks, and the browser answers: every await in the manager
\* and every poll cycle ends.
FairSpec == Spec /\ WF_vars(LoopStep) /\ WF_vars(WorkerStep)

-----------------------------------------------------------------------------
\* The types; and the runner has a manager whenever it is about to recycle it.
TypeOK ==
    /\ kind \in {"plain", "indiamart"}
    /\ mgr \in [Managers -> Manager] /\ browser \in Opt(Managers)
    /\ running \in SUBSET Drivers /\ chromium \in Opt(Drivers)
    /\ act \in [Actors -> Task] /\ faults \in 0 .. MaxFaults /\ forgot \in BOOLEAN
    /\ act["loop"].pc \in {"poll", "scan", "recycle", "recycling"} => browser # None

\* Whatever Chromium has the profile can be closed: the runner's manager or one in a
\* task's hands holds its context or its driver.  One that nobody can close locks the
\* job out of its profile until the process ends.
Held ==
    \/ chromium = None
    \/ \E m \in InUse : chromium \in {mgr[m].pw, mgr[m].ctx}

\* There are two places where a job without a worker can lose a Chromium, the one that
\* replaces a manager and the one that drops it after a failed restart: wherever else
\* launches fail, Chromium or its page dies or the runner is cancelled, the job can close
\* what it has launched, and leaves none behind when it ends.  A job with a worker does
\* not lose one as long as nothing fails.
JobHoldsBrowser == (kind = "plain" /\ ~forgot) \/ faults = 0 => Held

\* The periodic recycling checks that there is no worker, then logs, closes, pauses and
\* launches: no worker is there at any of these awaits.
RecycleSparesWorker == act["loop"].call = "recycle" => At("work", "off")

\* A job without a worker that keeps running, and has dropped no manager whose Chromium
\* was up, comes back to a cycle with a live browser again and again, after any number of
\* failed launches, deaths and exceptions.
Recovers == []<>(At("loop", "scan") /\ Alive(act["loop"].m))
BrowserRecovers == (kind = "plain" /\ <>[]Up /\ []~forgot) => Recovers

\* browser_manager.py:41 claims session recovery and crash auto-restart, whatever
\* happened to page and launch before.
BrowserAutoRestarts == (kind = "plain" /\ <>[]Up) => Recovers
===============================================================================
