------------------------- MODULE BrowserProfileProofs -------------------------
(***************************************************************************)
(* Proofs about the browser of one job: that the periodic recycling finds  *)
(* no worker at any of its awaits, and that a job without a worker, or one *)
(* with a worker as long as nothing fails, can always close the Chromium   *)
(* that has its profile.                                                   *)
(***************************************************************************)
EXTENDS BrowserProfile, TLAPS

-----------------------------------------------------------------------------
(* Tasks.                                                                  *)

Things ==
    /\ kind \in {"plain", "indiamart"}
    /\ mgr \in [Managers -> Manager] /\ browser \in Opt(Managers)
    /\ running \in SUBSET Drivers /\ chromium \in Opt(Drivers)
    /\ faults \in 0 .. MaxFaults /\ forgot \in BOOLEAN

Typed == Things /\ act \in [Actors -> Task]

LEMMA BusyFacts ==
    ASSUME NEW m \in Opt(Managers), NEW pc \in Pcs
    PROVE  /\ Busy(m, pc) \in Task
           /\ Busy(m, pc).pc = pc /\ Busy(m, pc).m = m /\ Busy(m, pc).call = "none"
           /\ Busy(m, pc).drv = None /\ Busy(m, pc).then = "none"
<1>1. ASSUME NEW t, t = Busy(m, pc)
      PROVE  t \in Task /\ t.pc = pc /\ t.m = m /\ t.call = "none" /\ t.drv = None /\ t.then = "none"
  <2>1. t = [pc |-> pc, call |-> "none", m |-> m, drv |-> None, then |-> "none"]
    BY <1>1 DEF Busy, Off
  <2> QED
    BY <2>1 DEF Task, Opt, Calls
<1> QED
  BY <1>1

LEMMA OffFacts ==
    /\ Off \in Task /\ Off.pc = "off" /\ Off.m = None /\ Off.call = "none" /\ Off.drv = None
    /\ \A pc \in Pcs : [Off EXCEPT !.pc = pc] = Busy(None, pc)
<1>1. Off \in Task /\ Off.pc = "off" /\ Off.m = None /\ Off.call = "none" /\ Off.drv = None
  BY DEF Off, Task, Opt, Calls, Pcs
<1>2. ASSUME NEW pc \in Pcs, NEW t, t = [Off EXCEPT !.pc = pc], NEW u, u = Busy(None, pc)
      PROVE  t = u
  <2>1. t = [pc |-> pc, call |-> "none", m |-> None, drv |-> None, then |-> "none"]
    BY <1>2 DEF Off
  <2>2. u = [pc |-> pc, call |-> "none", m |-> None, drv |-> None, then |-> "none"]
    BY <1>2 DEF Busy, Off
  <2> QED
    BY <2>1, <2>2
<1> QED
  BY <1>1, <1>2

LEMMA ReturnedFacts ==
    ASSUME NEW t \in Task
    PROVE  /\ Returned(t) \in Task /\ Returned(t).m = t.m /\ Returned(t).call = "none"
           /\ Returned(t).drv = None
           /\ t.call = "get_or_create" => Returned(t).pc = "poll"
           /\ t.call \in {"get_page", "shot"} => Returned(t).pc = "scan"
           /\ t.call = "recycle" => Returned(t).pc = "wait"
           /\ t.call = "backoff" => Returned(t).pc = "load"
           /\ t.call = "new_page" => Returned(t).pc = "newpage"
           /\ t.call = "rule" => Returned(t).pc = "use"
<1> DEFINE to == CASE t.call = "get_or_create" -> "poll"
                   [] t.call \in {"get_page", "shot"} -> "scan"
                   [] t.call = "recycle"       -> "wait"
                   [] t.call = "backoff"       -> "load"
                   [] t.call = "new_page"      -> "newpage"
                   [] OTHER                    -> "use"
<1>1. /\ to \in Pcs
      /\ t.call = "get_or_create" => to = "poll"
      /\ t.call \in {"get_page", "shot"} => to = "scan"
      /\ t.call = "recycle" => to = "wait"
      /\ t.call = "backoff" => to = "load"
      /\ t.call = "new_page" => to = "newpage"
      /\ t.call = "rule" => to = "use"
  BY DEF Pcs
<1>2. Returned(t) = Busy(t.m, to)
  BY DEF Returned
<1>3. t.m \in Opt(Managers)
  BY DEF Task
<1> HIDE DEF to
<1> QED
  BY <1>1, <1>2, <1>3, BusyFacts

LEMMA RaisedFacts ==
    ASSUME NEW t \in Task
    PROVE  /\ Raised(t) \in Task /\ Raised(t).call = "none" /\ Raised(t).drv = None
           /\ t.call = "backoff" => Raised(t).pc = "load" /\ Raised(t).m = None
           /\ t.call = "new_page" => Raised(t) = Off
           /\ t.call = "rule" => Raised(t).pc = "use" /\ Raised(t).m = t.m
           /\ t.call = "shot" => Raised(t).pc = "scan" /\ Raised(t).m = t.m
           /\ t.call \notin {"backoff", "new_page", "rule", "shot"} =>
                  Raised(t).pc = "backoff" /\ Raised(t).m = t.m
<1>1. t.m \in Opt(Managers) /\ None \in Opt(Managers)
  BY DEF Task, Opt
<1>2. {"load", "use", "scan", "backoff"} \subseteq Pcs
  BY DEF Pcs
<1>3. [Off EXCEPT !.pc = "load"] = Busy(None, "load")
  BY <1>2, OffFacts
<1>4. CASE t.call = "backoff"
  BY <1>1, <1>2, <1>3, <1>4, BusyFacts DEF Raised
<1>5. CASE t.call = "new_page"
  BY <1>5, OffFacts DEF Raised
<1>6. CASE t.call = "rule"
  BY <1>1, <1>2, <1>6, BusyFacts DEF Raised
<1>7. CASE t.call = "shot"
  BY <1>1, <1>2, <1>7, BusyFacts DEF Raised
<1>8. CASE t.call \notin {"backoff", "new_page", "rule", "shot"}
  <2>1. Raised(t) = Busy(t.m, "backoff")
    BY <1>8 DEF Raised
  <2> QED
    BY <1>1, <1>2, <1>8, <2>1, BusyFacts
<1> QED
  BY <1>4, <1>5, <1>6, <1>7, <1>8

\* A close begins with the context, goes on with the driver, and does nothing to a manager
\* that has neither.
LEMMA CloseThenFacts ==
    ASSUME Typed, NEW m \in Managers, NEW call \in Calls, NEW then \in {"pause", "start", "off"}
    PROVE  /\ CloseThen(m, call, then) \in Task
           /\ CloseThen(m, call, then).m = m /\ CloseThen(m, call, then).call = call
           /\ CloseThen(m, call, then).then = then
           /\ \/ /\ CloseThen(m, call, then).pc = "closing" /\ mgr[m].ctx # None
                 /\ CloseThen(m, call, then).drv = mgr[m].ctx
              \/ /\ CloseThen(m, call, then).pc = "stopping" /\ mgr[m].ctx = None
                 /\ mgr[m].pw # None /\ CloseThen(m, call, then).drv = mgr[m].pw
              \/ /\ CloseThen(m, call, then).pc = then /\ mgr[m].ctx = None /\ mgr[m].pw = None
                 /\ CloseThen(m, call, then).drv = None
<1>1. mgr[m].ctx \in Opt(Drivers) /\ mgr[m].pw \in Opt(Drivers)
  BY DEF Typed, Things, Manager
<1>2. {"closing", "stopping", then} \subseteq Pcs
  BY DEF Pcs, Awaits
<1>3. CASE mgr[m].ctx # None
  BY <1>1, <1>2, <1>3 DEF CloseThen, Task, Opt
<1>4. CASE mgr[m].ctx = None /\ mgr[m].pw # None
  BY <1>1, <1>2, <1>4 DEF CloseThen, Task, Opt
<1>5. CASE mgr[m].ctx = None /\ mgr[m].pw = None
  BY <1>1, <1>2, <1>5 DEF CloseThen, Task, Opt
<1> QED
  BY <1>3, <1>4, <1>5

\* A launch returns at once when the browser is alive, and else closes what is left of it.
LEMMA LaunchFacts ==
    ASSUME Typed, NEW m \in Managers, NEW call \in Calls
    PROVE  /\ ~Alive(m) => Launch(m, call) = CloseThen(m, call, "start")
           /\ Alive(m) => \E t \in Task : t.m = m /\ t.call = call /\ Launch(m, call) = Returned(t)
BY CloseThenFacts DEF Launch

-----------------------------------------------------------------------------
(* Where the tasks are.                                                    *)

WithDriver == {"closing", "stopping", "context", "dress"}
LoopCalls  == {"get_or_create", "get_page", "shot", "recycle", "backoff"}

\* The poll loop works on the runner's manager, b; a call it makes is over when it is back
\* in its own code; and the close of the cleanup launches nothing.
LoopOK(t, b) ==
    /\ t.pc \notin {"created", "newpage", "use"}
    /\ t.m # None => t.m = b
    /\ t.pc \in Awaits \cup {"poll", "scan", "recycle", "recycling"} => t.m \in Managers
    /\ t.pc \in WithDriver => t.drv \in Drivers
    /\ \/ t.call = "none" /\ t.pc \notin Awaits \cup {"recycling"}
       \/ t.call = "recycle" /\ t.pc = "recycling"
       \/ t.call = "cleanup" /\ t.pc \in {"closing", "stopping", "off"} /\ t.then = "off"
       \/ /\ t.call \in LoopCalls /\ t.pc \in Awaits
          /\ t.pc \in {"closing", "stopping"} => t.then \in {"pause", "start"}

\* The worker has a manager, and waits in it only for a launch.
WorkOK(t) ==
    /\ t.pc \in Awaits \cup {"off", "created", "newpage", "use"}
    /\ t.pc # "off" => t.m \in Managers
    /\ t.pc \in WithDriver => t.drv \in Drivers
    /\ t.pc \in Awaits => t.call \in {"new_page", "rule"}
    /\ t.pc \in {"closing", "stopping"} => t.then = "start"

NoWorker == kind = "plain" => At("work", "off")

Inv == /\ Typed /\ LoopOK(act["loop"], browser) /\ WorkOK(act["work"])
       /\ NoWorker /\ RecycleSparesWorker

LEMMA TypesOfInv == Inv => TypeOK
<1> SUFFICES ASSUME Inv PROVE TypeOK
  OBVIOUS
<1>1. act["loop"].pc \in {"poll", "scan", "recycle", "recycling"} => browser # None
  BY NoneIsNothing DEF Inv, LoopOK
<1> QED
  BY <1>1 DEF Inv, Typed, Things, TypeOK

LEMMA Tasks ==
    ASSUME Inv
    PROVE  act["loop"] \in Task /\ act["work"] \in Task
BY DEF Inv, Typed, Actors

\* What a step of the loop has to say.
LEMMA LoopMoves ==
    ASSUME Inv, NEW t \in Task, Become("loop", t), kind' = kind, Things',
           LoopOK(t, browser'), t.call = "recycle" => At("work", "off")
    PROVE  Inv'
<1>1. act'["loop"] = t /\ act'["work"] = act["work"] /\ act' \in [Actors -> Task]
  BY DEF Inv, Typed, Become, Actors
<1>2. Typed' /\ LoopOK(act["loop"], browser)'
  BY <1>1 DEF Typed, LoopOK
<1>3. WorkOK(act["work"])' /\ NoWorker' /\ RecycleSparesWorker'
  BY <1>1 DEF Inv, WorkOK, NoWorker, RecycleSparesWorker, At
<1> QED
  BY <1>2, <1>3 DEF Inv

\* What a step of the worker has to say.
LEMMA WorkMoves ==
    ASSUME Inv, NEW t \in Task, Become("work", t), kind' = kind, Things',
           browser' = browser, ~At("work", "off"), WorkOK(t)
    PROVE  Inv'
<1>1. act'["work"] = t /\ act'["loop"] = act["loop"] /\ act' \in [Actors -> Task]
  BY DEF Inv, Typed, Become, Actors
<1>2. Typed' /\ LoopOK(act["loop"], browser)'
  BY <1>1 DEF Inv, Typed, LoopOK
<1>3. WorkOK(act["work"])' /\ NoWorker' /\ RecycleSparesWorker'
  BY <1>1 DEF Inv, WorkOK, NoWorker, RecycleSparesWorker, At
<1> QED
  BY <1>2, <1>3 DEF Inv

\* Inside the manager a task has one, and the calls of one task are not those of the other.
LEMMA InManager ==
    ASSUME Inv, NEW a \in Actors, act[a].pc \in Awaits
    PROVE  /\ act[a] \in Task /\ act[a].m \in Managers /\ act[a].call # "none"
           /\ a = "work" => act[a].call \in {"new_page", "rule"}
           /\ a = "loop" => act[a].call \in LoopCalls \cup {"cleanup"} /\ act[a].m = browser
           /\ act[a].pc \notin {"closing", "stopping"} => act[a].call # "cleanup"
           /\ act[a].pc \in WithDriver => act[a].drv \in Drivers
<1>1. act[a] \in Task
  BY DEF Inv, Typed
<1>2. CASE a = "loop"
  <2>1. act[a].m \in Managers /\ act[a].m = browser /\ act[a].call \in LoopCalls \cup {"cleanup"}
        /\ (act[a].pc \notin {"closing", "stopping"} => act[a].call # "cleanup")
        /\ (act[a].pc \in WithDriver => act[a].drv \in Drivers)
    BY <1>2, NoneIsNothing DEF Inv, LoopOK, LoopCalls, Awaits
  <2> QED
    BY <1>1, <1>2, <2>1 DEF LoopCalls
<1>3. CASE a = "work"
  <2>1. act[a].m \in Managers /\ act[a].call \in {"new_page", "rule"}
        /\ (act[a].pc \in WithDriver => act[a].drv \in Drivers)
    BY <1>3 DEF Inv, WorkOK, Awaits
  <2> QED
    BY <1>1, <1>3, <2>1
<1> QED
  BY <1>2, <1>3 DEF Actors

\* A task goes on inside the manager.
LEMMA StaysInside ==
    ASSUME Inv, NEW a \in Actors, act[a].pc \in Awaits,
           NEW t \in Task, Become(a, t), kind' = kind, browser' = browser, Things',
           t.call = act[a].call, t.m = act[a].m,
           t.pc \in WithDriver => t.drv \in Drivers,
           \/ /\ act[a].pc \in {"closing", "stopping"}
              /\ t.then = act[a].then /\ t.pc \in {"stopping", act[a].then}
           \/ /\ act[a].pc \notin {"closing", "stopping"} /\ t.pc \in Awaits
              /\ t.pc \in {"closing", "stopping"} => t.then = "start"
    PROVE  Inv'
<1>1. CASE a = "loop"
  <2>1. LoopOK(t, browser')
    BY <1>1 DEF Inv, LoopOK, LoopCalls, Awaits
  <2>2. t.call = "recycle" => At("work", "off")
    BY <1>1 DEF Inv, RecycleSparesWorker
  <2> QED
    BY <1>1, <2>1, <2>2, LoopMoves
<1>2. CASE a = "work"
  <2>1. WorkOK(t) /\ ~At("work", "off")
    BY <1>2 DEF Inv, WorkOK, Awaits, At
  <2> QED
    BY <1>2, <2>1, WorkMoves
<1> QED
  BY <1>1, <1>2 DEF Actors

\* A call of the manager returns.
LEMMA CallReturns ==
    ASSUME Inv, NEW a \in Actors, act[a].pc \in Awaits \ {"closing", "stopping"},
           NEW u \in Task, u.call = act[a].call, u.m = act[a].m, Become(a, Returned(u)),
           kind' = kind, browser' = browser, Things'
    PROVE  Inv'
<1> DEFINE t == Returned(u)
<1>1. /\ t \in Task /\ t.m = u.m /\ t.call = "none"
      /\ u.call = "get_or_create" => t.pc = "poll"
      /\ u.call \in {"get_page", "shot"} => t.pc = "scan"
      /\ u.call = "recycle" => t.pc = "wait"
      /\ u.call = "backoff" => t.pc = "load"
      /\ u.call = "new_page" => t.pc = "newpage"
      /\ u.call = "rule" => t.pc = "use"
  BY ReturnedFacts
<1>2. Become(a, t)
  OBVIOUS
<1> HIDE DEF t
<1>3. CASE a = "loop"
  <2>1. t.pc \in {"poll", "scan", "wait", "load"} /\ t.m \in Managers /\ t.m = browser
    BY <1>1, <1>3, InManager DEF LoopCalls
  <2>2. LoopOK(t, browser')
    BY <1>1, <2>1 DEF LoopOK, Awaits, WithDriver
  <2> QED
    BY <1>1, <1>2, <1>3, <2>2, LoopMoves
<1>4. CASE a = "work"
  <2>1. t.pc \in {"newpage", "use"} /\ t.m \in Managers /\ ~At("work", "off")
    BY <1>1, <1>4, InManager DEF At, Awaits
  <2>2. WorkOK(t)
    BY <1>1, <2>1 DEF WorkOK, Awaits, WithDriver
  <2> QED
    BY <1>1, <1>2, <1>4, <2>1, <2>2, WorkMoves
<1> QED
  BY <1>3, <1>4 DEF Actors

\* A launch fails; only the loop forgets its manager over it.
LEMMA CallRaises ==
    ASSUME Inv, NEW a \in Actors, act[a].pc \in {"start", "context", "dress"}, Raise(a),
           kind' = kind, mgr' = mgr, running' = running, chromium' = chromium,
           faults' \in 0 .. MaxFaults
    PROVE  Inv' /\ (a = "work" => browser' = browser)
<1> DEFINE u == act[a]
           t == Raised(u)
<1>1. /\ u \in Task /\ u.m \in Managers
      /\ a = "work" => u.call \in {"new_page", "rule"}
      /\ a = "loop" => u.call \in LoopCalls /\ u.m = browser
  BY InManager DEF Awaits
<1>2. /\ t \in Task /\ t.call = "none"
      /\ u.call = "backoff" => t.pc = "load" /\ t.m = None
      /\ u.call = "new_page" => t = Off
      /\ u.call = "rule" => t.pc = "use" /\ t.m = u.m
      /\ u.call = "shot" => t.pc = "scan" /\ t.m = u.m
      /\ u.call \notin {"backoff", "new_page", "rule", "shot"} => t.pc = "backoff" /\ t.m = u.m
  BY <1>1, RaisedFacts
<1>3. Become(a, t) /\ browser' = IF u.call = "backoff" THEN None ELSE browser
  BY DEF Raise
<1>f. forgot' \in BOOLEAN
  BY DEF Raise, Forget, Inv, Typed, Things
<1> HIDE DEF u, t
<1>4. Things'
  <2>1. browser \in Opt(Managers) /\ None \in Opt(Managers)
    BY DEF Inv, Typed, Things, Opt
  <2> QED
    BY <1>3, <1>f, <2>1 DEF Inv, Typed, Things, MaxFaults
<1>5. CASE a = "loop"
  <2>1. LoopOK(t, browser')
    <3>1. t.pc \in {"load", "scan", "backoff"}
      BY <1>1, <1>2, <1>5 DEF LoopCalls
    <3>2. t.m # None => t.m = browser'
      BY <1>1, <1>2, <1>3, <1>5 DEF LoopCalls
    <3>3. t.pc = "scan" => t.m \in Managers
      BY <1>1, <1>2, <1>5 DEF LoopCalls
    <3> QED
      BY <1>2, <3>1, <3>2, <3>3 DEF LoopOK, Awaits, WithDriver
  <2> QED
    BY <1>2, <1>3, <1>4, <1>5, <2>1, LoopMoves
<1>6. CASE a = "work"
  <2>1. browser' = browser
    BY <1>1, <1>3, <1>6
  <2>2. WorkOK(t)
    <3>1. CASE u.call = "new_page"
      BY <1>2, <3>1, OffFacts DEF WorkOK, Awaits, WithDriver
    <3>2. CASE u.call = "rule"
      BY <1>1, <1>2, <3>2 DEF WorkOK, Awaits, WithDriver
    <3> QED
      BY <1>1, <1>6, <3>1, <3>2
  <2>3. ~At("work", "off")
    BY <1>6 DEF At
  <2> QED
    BY <1>2, <1>3, <1>4, <1>6, <2>1, <2>2, <2>3, WorkMoves
<1> QED
  BY <1>5, <1>6 DEF Actors

LEMMA MaxFaultsFact ==
    ASSUME kind' = kind, faults \in 0 .. MaxFaults, faults' = faults \/ Fault
    PROVE  faults' \in 0 .. MaxFaults'
<1>1. MaxFaults \in Nat
  BY FaultsAreFew DEF MaxFaults
<1>2. MaxFaults' = MaxFaults
  BY DEF MaxFaults
<1> QED
  BY <1>1, <1>2 DEF Fault

LEMMA BlankManager == Blank \in Manager
BY DEF Blank, Manager, Opt

\* Every step inside the manager.
LEMMA ManagerKept ==
    ASSUME Inv, NEW a \in Actors, ManagerStep(a)
    PROVE  Inv'
<1> USE MaxFaultsFact
<1> DEFINE t == act[a]
<1>t. /\ Things /\ t.pc \in Awaits /\ t \in Task /\ t.m \in Managers
      /\ t.pc \in WithDriver => t.drv \in Drivers
  <2>1. t.pc \in Awaits
    BY DEF ManagerStep, ContextClosed, DriverStopped, EndPause, DriverStarted,
           ContextLaunched, LaunchFails, Dressed, At, Awaits
  <2> QED
    BY <2>1, InManager DEF Inv, Typed
<1>th. t.pc \in {"closing", "stopping"} => t.then \in Pcs
  <2>1. t.pc \in {"closing", "stopping"} => t.then \in {"pause", "start", "off"}
    BY DEF Inv, LoopOK, WorkOK, Actors, LoopCalls, Awaits
  <2> QED
    BY <2>1 DEF Pcs, Awaits
<1>goon. ASSUME NEW pc \in Pcs, NEW d \in Opt(Drivers)
         PROVE  LET u == [t EXCEPT !.pc = pc, !.drv = d]
                IN  u \in Task /\ u.pc = pc /\ u.drv = d /\ u.call = t.call /\ u.m = t.m /\ u.then = t.then
  <2>1. t \in Task
    BY <1>t
  <2> HIDE DEF t
  <2>2. ASSUME NEW u, u = [t EXCEPT !.pc = pc, !.drv = d]
        PROVE  u \in Task /\ u.pc = pc /\ u.drv = d /\ u.call = t.call /\ u.m = t.m /\ u.then = t.then
    BY <2>1, <2>2 DEF Task
  <2> QED
    BY <2>2
<1>1. CASE ContextClosed(a)
  <2>1. /\ t.pc = "closing" /\ Quit(t.drv)
        /\ UNCHANGED <<kind, forgot, browser, running, faults>>
    BY <1>1 DEF ContextClosed, At
  <2>2. CASE /\ mgr[t.m].pw # None
             /\ Become(a, [t EXCEPT !.pc = "stopping", !.drv = mgr[t.m].pw])
             /\ UNCHANGED mgr
    <3>1. mgr[t.m].pw \in Drivers
      BY <1>t, <2>2 DEF Things, Manager, Opt
    <3>2. Things'
      BY <1>t, <2>1, <2>2 DEF Things, Quit, Opt, MaxFaults
    <3> DEFINE u == [t EXCEPT !.pc = "stopping", !.drv = mgr[t.m].pw]
    <3>3. u \in Task /\ u.pc = "stopping" /\ u.drv = mgr[t.m].pw /\ u.call = t.call /\ u.m = t.m
          /\ u.then = t.then
      <4>1. "stopping" \in Pcs /\ mgr[t.m].pw \in Opt(Drivers)
        BY <3>1 DEF Pcs, Awaits, Opt
      <4> QED
        BY <4>1, <1>goon
    <3>4. Become(a, u)
      BY <2>2
    <3> HIDE DEF u
    <3> QED
      BY <1>t, <2>1, <3>1, <3>2, <3>3, <3>4, StaysInside
  <2>3. CASE /\ Become(a, [t EXCEPT !.pc = t.then, !.drv = None])
             /\ Finally(t.m)
    <3>1. mgr' \in [Managers -> Manager]
      BY <1>t, <2>3, BlankManager DEF Things, Finally
    <3>2. Things'
      BY <1>t, <2>1, <3>1 DEF Things, Quit, Opt, MaxFaults
    <3> DEFINE u == [t EXCEPT !.pc = t.then, !.drv = None]
    <3>3. u \in Task /\ u.pc = t.then /\ u.drv = None /\ u.call = t.call /\ u.m = t.m
          /\ u.then = t.then
      <4>1. t.then \in Pcs /\ None \in Opt(Drivers)
        BY <1>th, <2>1 DEF Opt
      <4> QED
        BY <4>1, <1>goon
    <3>4. Become(a, u)
      BY <2>3
    <3>5. t.then \notin WithDriver
      BY <1>t DEF Task, WithDriver
    <3> HIDE DEF u
    <3> QED
      BY <1>t, <2>1, <3>2, <3>3, <3>4, <3>5, StaysInside
  <2> QED
    BY <1>1, <2>2, <2>3 DEF ContextClosed
<1>2. CASE DriverStopped(a)
  <2>1. /\ t.pc = "stopping" /\ Quit(t.drv) /\ running' = running \ {t.drv} /\ Finally(t.m)
        /\ Become(a, [t EXCEPT !.pc = t.then, !.drv = None])
        /\ UNCHANGED <<kind, forgot, browser, faults>>
    BY <1>2 DEF DriverStopped, At
  <2>2. mgr' \in [Managers -> Manager]
    BY <1>t, <2>1, BlankManager DEF Things, Finally
  <2>3. Things'
    BY <1>t, <2>1, <2>2 DEF Things, Quit, Opt, MaxFaults
  <2> DEFINE u == [t EXCEPT !.pc = t.then, !.drv = None]
  <2>4. u \in Task /\ u.pc = t.then /\ u.drv = None /\ u.call = t.call /\ u.m = t.m
        /\ u.then = t.then
    <3>1. t.then \in Pcs /\ None \in Opt(Drivers)
      BY <1>th, <2>1 DEF Opt
    <3> QED
      BY <3>1, <1>goon
  <2>5. Become(a, u)
    BY <2>1
  <2>6. t.then \notin WithDriver
    BY <1>t DEF Task, WithDriver
  <2> HIDE DEF u
  <2> QED
    BY <1>t, <2>1, <2>3, <2>4, <2>5, <2>6, StaysInside
<1>3. CASE EndPause(a)
  <2>1. /\ t.pc = "pause" /\ Become(a, Launch(t.m, t.call))
        /\ UNCHANGED <<kind, forgot, mgr, browser, running, chromium, faults>>
    BY <1>3 DEF EndPause, At
  <2>2. Things'
    BY <1>t, <2>1 DEF Things, MaxFaults
  <2>3. t.call \in Calls
    BY <1>t DEF Task
  <2>4. CASE Alive(t.m)
    <3>1. PICK u \in Task : u.m = t.m /\ u.call = t.call /\ Launch(t.m, t.call) = Returned(u)
      BY <1>t, <2>3, <2>4, LaunchFacts DEF Inv
    <3> QED
      BY <1>t, <2>1, <2>2, <3>1, CallReturns
  <2>5. CASE ~Alive(t.m)
    <3> DEFINE u == CloseThen(t.m, t.call, "start")
    <3>1. Become(a, u)
      BY <1>t, <2>1, <2>3, <2>5, LaunchFacts DEF Inv
    <3>2. /\ u \in Task /\ u.m = t.m /\ u.call = t.call /\ u.then = "start"
          /\ u.pc \in {"closing", "stopping", "start"}
          /\ u.pc \in {"closing", "stopping"} => u.drv \in {mgr[t.m].ctx, mgr[t.m].pw} \ {None}
      BY <1>t, <2>3, CloseThenFacts DEF Inv
    <3>3. u.pc \in WithDriver => u.drv \in Drivers
      BY <1>t, <3>2 DEF WithDriver, Things, Manager, Opt
    <3> HIDE DEF u
    <3> QED
      BY <1>t, <2>1, <2>2, <3>1, <3>2, <3>3, StaysInside DEF Awaits
  <2> QED
    BY <2>4, <2>5
<1>4. CASE DriverStarted(a)
  <2>1. t.pc = "start" /\ UNCHANGED <<kind, forgot, browser, chromium, faults>>
    BY <1>4 DEF DriverStarted, At
  <2>2. PICK d \in Fresh : /\ mgr' = [mgr EXCEPT ![t.m].pw = d]
                           /\ running' = running \cup {d}
                           /\ Become(a, [t EXCEPT !.pc = "context", !.drv = d])
    BY <1>4 DEF DriverStarted
  <2>3. d \in Drivers
    BY DEF Fresh
  <2>4. mgr' \in [Managers -> Manager]
    BY <1>t, <2>2, <2>3 DEF Things, Manager, Opt
  <2>5. Things'
    BY <1>t, <2>1, <2>2, <2>3, <2>4 DEF Things, MaxFaults
  <2> DEFINE u == [t EXCEPT !.pc = "context", !.drv = d]
  <2>6. u \in Task /\ u.pc = "context" /\ u.drv = d /\ u.call = t.call /\ u.m = t.m
        /\ u.then = t.then
    <3>1. "context" \in Pcs /\ d \in Opt(Drivers)
      BY <2>3 DEF Pcs, Awaits, Opt
    <3> QED
      BY <3>1, <1>goon
  <2>7. Become(a, u)
    BY <2>2
  <2> HIDE DEF u
  <2> QED
    BY <1>t, <2>1, <2>3, <2>5, <2>6, <2>7, StaysInside DEF Awaits
<1>5. CASE ContextLaunched(a)
  <2>1. /\ t.pc = "context" /\ chromium' = t.drv /\ mgr' = [mgr EXCEPT ![t.m].ctx = t.drv]
        /\ Become(a, [t EXCEPT !.pc = "dress"])
        /\ UNCHANGED <<kind, forgot, browser, running, faults>>
    BY <1>5 DEF ContextLaunched, At
  <2>2. t.drv \in Drivers
    BY <1>t, <2>1 DEF WithDriver
  <2>3. mgr' \in [Managers -> Manager]
    BY <1>t, <2>1, <2>2 DEF Things, Manager, Opt
  <2>4. Things'
    BY <1>t, <2>1, <2>2, <2>3 DEF Things, MaxFaults, Opt
  <2> DEFINE u == [t EXCEPT !.pc = "dress"]
  <2>5. u \in Task /\ u.pc = "dress" /\ u.drv = t.drv /\ u.call = t.call /\ u.m = t.m
        /\ u.then = t.then
    BY <1>t DEF Task, Pcs, Awaits
  <2>6. Become(a, u)
    BY <2>1
  <2> HIDE DEF u
  <2> QED
    BY <1>t, <2>1, <2>2, <2>4, <2>5, <2>6, StaysInside DEF Awaits
<1>6. CASE LaunchFails(a)
  <2>1. /\ t.pc \in {"start", "context"} /\ Raise(a) /\ UNCHANGED <<kind, mgr, running, chromium>>
        /\ (faults' = faults \/ Fault)
    BY <1>6 DEF LaunchFails, At
  <2>2. faults' \in 0 .. MaxFaults
    BY <1>t, <2>1, MaxFaultsFact DEF Things, MaxFaults
  <2> QED
    BY <2>1, <2>2, CallRaises
<1>7. CASE Dressed(a)
  <2>1. t.pc = "dress" /\ UNCHANGED <<kind, running, chromium>>
    BY <1>7 DEF Dressed, At
  <2>2. CASE /\ mgr' = [mgr EXCEPT ![t.m].page = t.drv]
             /\ Become(a, Returned(t)) /\ UNCHANGED <<browser, faults, forgot>>
    <3>1. t.drv \in Drivers
      BY <1>t, <2>1 DEF WithDriver
    <3>2. mgr' \in [Managers -> Manager]
      BY <1>t, <2>2, <3>1 DEF Things, Manager, Opt
    <3>3. Things'
      BY <1>t, <2>1, <2>2, <3>2 DEF Things, MaxFaults
    <3> QED
      BY <1>t, <2>1, <2>2, <3>3, CallReturns
  <2>3. CASE Raise(a) /\ UNCHANGED mgr /\ (faults' = faults \/ Fault)
    <3>1. faults' \in 0 .. MaxFaults
      BY <1>t, <2>1, <2>3, MaxFaultsFact DEF Things, MaxFaults
    <3> QED
      BY <2>1, <2>3, <3>1, CallRaises
  <2> QED
    BY <1>7, <2>2, <2>3 DEF Dressed
<1> QED
  BY <1>1, <1>2, <1>3, <1>4, <1>5, <1>6, <1>7 DEF ManagerStep

\* The loop goes to a place of its own code.
LEMMA LoopAt ==
    ASSUME Inv, kind' = kind, Things', NEW m \in Opt(Managers),
           NEW pc \in {"off", "load", "poll", "scan", "recycle", "wait", "backoff", "cleaning"},
           m # None => m = browser',
           pc \in {"poll", "scan", "recycle"} => m \in Managers,
           Become("loop", Busy(m, pc))
    PROVE  Inv'
<1> DEFINE t == Busy(m, pc)
<1>1. t \in Task /\ t.pc = pc /\ t.m = m /\ t.call = "none" /\ Become("loop", t)
  BY BusyFacts DEF Pcs
<1> HIDE DEF t
<1>2. LoopOK(t, browser')
  BY <1>1 DEF LoopOK, Awaits, WithDriver
<1> QED
  BY <1>1, <1>2, LoopMoves

\* The loop asks for its page, or begins to close its manager.
LEMMA LoopLaunches ==
    ASSUME Inv, NEW m \in Managers, m = browser, NEW call \in {"get_page", "shot"},
           Become("loop", Launch(m, call)),
           UNCHANGED <<kind, forgot, mgr, browser, running, chromium, faults>>
    PROVE  Inv'
<1>1. Things' /\ call \in Calls /\ Typed
  BY DEF Inv, Typed, Things, MaxFaults, Calls
<1>2. CASE Alive(m)
  <2>1. PICK u \in Task : u.m = m /\ u.call = call /\ Launch(m, call) = Returned(u)
    BY <1>1, <1>2, LaunchFacts
  <2> DEFINE t == Returned(u)
  <2>2. t \in Task /\ t.m = m /\ t.call = "none" /\ t.pc = "scan" /\ Become("loop", t)
    BY <2>1, ReturnedFacts
  <2> HIDE DEF t
  <2>3. LoopOK(t, browser')
    BY <2>2 DEF LoopOK, Awaits, WithDriver
  <2> QED
    BY <1>1, <2>2, <2>3, LoopMoves
<1>3. CASE ~Alive(m)
  <2> DEFINE t == CloseThen(m, call, "start")
  <2>1. Become("loop", t)
    BY <1>1, <1>3, LaunchFacts
  <2>2. /\ t \in Task /\ t.m = m /\ t.call = call /\ t.then = "start"
        /\ t.pc \in {"closing", "stopping", "start"}
        /\ t.pc \in {"closing", "stopping"} => t.drv \in {mgr[m].ctx, mgr[m].pw} \ {None}
    BY <1>1, CloseThenFacts
  <2>3. t.pc \in WithDriver => t.drv \in Drivers
    BY <1>1, <2>2 DEF WithDriver, Typed, Things, Manager, Opt
  <2> HIDE DEF t
  <2>4. LoopOK(t, browser')
    BY <2>2, <2>3 DEF LoopOK, Awaits, LoopCalls
  <2> QED
    BY <1>1, <2>1, <2>2, <2>4, LoopMoves
<1> QED
  BY <1>2, <1>3

LEMMA LoopCloses ==
    ASSUME Inv, browser # None,
           NEW call \in {"recycle", "backoff", "cleanup"}, NEW then \in {"pause", "off"},
           call = "cleanup" <=> then = "off",
           call = "recycle" => At("work", "off"),
           Become("loop", CloseThen(browser, call, then)),
           UNCHANGED <<kind, forgot, mgr, browser, running, chromium, faults>>
    PROVE  Inv'
<1>1. Things' /\ call \in Calls /\ Typed /\ browser \in Managers
  BY DEF Inv, Typed, Things, MaxFaults, Calls, Opt
<1> DEFINE t == CloseThen(browser, call, then)
<1>2. /\ t \in Task /\ t.m = browser /\ t.call = call /\ t.then = then
      /\ t.pc \in {"closing", "stopping", then}
      /\ t.pc \in {"closing", "stopping"} => t.drv \in {mgr[browser].ctx, mgr[browser].pw} \ {None}
  BY <1>1, CloseThenFacts
<1>3. t.pc \in WithDriver => t.drv \in Drivers
  BY <1>1, <1>2 DEF WithDriver, Typed, Things, Manager, Opt
<1>4. Become("loop", t)
  OBVIOUS
<1> HIDE DEF t
<1>5. LoopOK(t, browser')
  BY <1>1, <1>2, <1>3 DEF LoopOK, Awaits, LoopCalls
<1> QED
  BY <1>1, <1>2, <1>4, <1>5, LoopMoves

\* What is true of the loop in its own code.
LEMMA LoopManager ==
    ASSUME Inv
    PROVE  /\ act["loop"].pc \in {"poll", "scan", "recycle", "recycling"} =>
                  act["loop"].m \in Managers /\ act["loop"].m = browser
           /\ act["loop"].m \in Opt(Managers) /\ browser \in Opt(Managers)
           /\ act["loop"].m # None => act["loop"].m = browser
           /\ Opt(Managers) = Managers \cup {None}
<1>1. act["loop"].m \in Opt(Managers) /\ browser \in Opt(Managers)
  BY Tasks DEF Inv, Typed, Things, Task
<1> QED
  BY <1>1, NoneIsNothing DEF Inv, LoopOK, Opt

\* The steps of the poll loop's own code.
LEMMA CycleKept ==
    ASSUME Inv, Begin \/ GetOrCreate \/ GetPage \/ AskAgain \/ CycleFails
    PROVE  Inv'
<1> USE LoopManager
<1>same. ASSUME UNCHANGED <<kind, forgot, mgr, browser, running, chromium, faults>>
         PROVE  Things' /\ kind' = kind
  BY <1>same DEF Inv, Typed, Things, MaxFaults
<1>load. [Off EXCEPT !.pc = "load"] = Busy(None, "load")
  BY OffFacts DEF Pcs
<1>1. CASE Begin
  BY <1>1, <1>same, <1>load, LoopAt DEF Begin
<1>2. CASE GetOrCreate
  <2>1. UNCHANGED <<kind, running, chromium, faults>> /\ forgot' \in BOOLEAN
    BY <1>2 DEF GetOrCreate, Forget, Inv, Typed, Things
  <2>2. CASE /\ browser # None /\ Become("loop", Busy(browser, "poll"))
             /\ UNCHANGED <<mgr, browser, forgot>>
    BY <1>same, <2>1, <2>2, LoopAt
  <2>3. CASE \E m \in Managers \ InUse :
                 /\ browser' = m /\ mgr' = [mgr EXCEPT ![m] = Blank]
                 /\ Become("loop", [Busy(m, "start") EXCEPT !.call = "get_or_create"])
    <3>1. PICK m \in Managers :
                 /\ browser' = m /\ mgr' = [mgr EXCEPT ![m] = Blank]
                 /\ Become("loop", [Busy(m, "start") EXCEPT !.call = "get_or_create"])
      BY <2>3
    <3>2. Things'
      BY <2>1, <3>1, BlankManager DEF Inv, Typed, Things, MaxFaults, Opt
    <3> DEFINE t == [Busy(m, "start") EXCEPT !.call = "get_or_create"]
    <3>3. t \in Task /\ t.pc = "start" /\ t.call = "get_or_create" /\ t.m = m
      <4>1. Busy(m, "start") \in Task /\ Busy(m, "start").pc = "start" /\ Busy(m, "start").m = m
        BY BusyFacts DEF Pcs, Awaits
      <4> QED
        BY <4>1 DEF Task, Calls
    <3>4. Become("loop", t)
      BY <3>1
    <3> HIDE DEF t
    <3>5. LoopOK(t, browser')
      BY <3>1, <3>3 DEF LoopOK, Awaits, WithDriver, LoopCalls
    <3> QED
      BY <2>1, <3>2, <3>3, <3>4, <3>5, LoopMoves
  <2> QED
    BY <1>2, <2>2, <2>3 DEF GetOrCreate
<1>3. CASE GetPage
  BY <1>3, LoopLaunches DEF GetPage, At
<1>4. CASE AskAgain
  BY <1>4, LoopLaunches DEF AskAgain, At
<1>5. CASE CycleFails
  <2>1. /\ UNCHANGED <<kind, forgot, mgr, browser, running, chromium>>
        /\ Become("loop", Busy(act["loop"].m, "backoff"))
        /\ (faults' = faults \/ Fault)
    BY <1>5 DEF CycleFails
  <2>2. Things'
    BY <2>1, MaxFaultsFact DEF Inv, Typed, Things
  <2> QED
    BY <2>1, <2>2, LoopAt
<1> QED
  BY <1>1, <1>2, <1>3, <1>4, <1>5

\* A cycle ends, the browser is recycled or not, and the loop waits.
LEMMA RecycleKept ==
    ASSUME Inv, ScanEnds \/ MaybeRecycle \/ Recycle \/ EndWait \/ EndBackoff
    PROVE  Inv'
<1> USE LoopManager
<1>same. UNCHANGED <<kind, forgot, mgr, browser, running, chromium, faults>> /\ Things'
  <2>1. UNCHANGED <<kind, forgot, mgr, browser, running, chromium, faults>>
    BY DEF ScanEnds, MaybeRecycle, Recycle, EndWait, EndBackoff
  <2> QED
    BY <2>1 DEF Inv, Typed, Things, MaxFaults
<1>load. [Off EXCEPT !.pc = "load"] = Busy(None, "load")
  BY OffFacts DEF Pcs
<1>1. CASE ScanEnds
  <2>1. act["loop"].pc = "scan"
    BY <1>1 DEF ScanEnds, At
  <2>2. PICK w \in {act["work"]} \cup
                   (IF kind = "indiamart" /\ At("work", "off")
                    THEN {Busy(act["loop"].m, "created")} ELSE {}) :
            act' = [act EXCEPT !["loop"].pc = "recycle", !["work"] = w]
    BY <1>1 DEF ScanEnds
  <2>3. w \in Task /\ WorkOK(w) /\ (kind = "plain" => w.pc = "off")
    <3>1. CASE w = act["work"]
      BY <3>1, Tasks DEF Inv, NoWorker, At
    <3>2. CASE kind = "indiamart" /\ w = Busy(act["loop"].m, "created")
      <4>1. w \in Task /\ w.pc = "created" /\ w.m \in Managers
        BY <2>1, <3>2, BusyFacts DEF Pcs
      <4> QED
        BY <3>2, <4>1 DEF WorkOK, Awaits, WithDriver
    <3> QED
      BY <2>2, <3>1, <3>2
  <2> DEFINE t == [act["loop"] EXCEPT !.pc = "recycle"]
  <2>4. t \in Task /\ t.pc = "recycle" /\ t.m = act["loop"].m /\ t.call = act["loop"].call
    BY Tasks DEF Task, Pcs
  <2>5. act'["loop"] = t /\ act'["work"] = w /\ act' \in [Actors -> Task]
    BY <2>2, <2>3, <2>4 DEF Inv, Typed, Actors
  <2> HIDE DEF t
  <2>6. t.call = "none" /\ LoopOK(t, browser')
    BY <1>same, <2>1, <2>4 DEF Inv, LoopOK, Awaits, WithDriver
  <2>7. NoWorker' /\ RecycleSparesWorker'
    BY <1>same, <2>3, <2>5, <2>6 DEF NoWorker, RecycleSparesWorker, At
  <2>8. Typed'
    BY <1>same, <2>5 DEF Typed
  <2> QED
    BY <2>3, <2>5, <2>6, <2>7, <2>8 DEF Inv
<1>2. CASE MaybeRecycle
  <2>1. act["loop"].pc = "recycle" /\ browser \in Managers
    BY <1>2 DEF MaybeRecycle, At
  <2>2. CASE Become("loop", Busy(browser, "wait"))
    BY <1>same, <2>1, <2>2, LoopAt
  <2>3. CASE At("work", "off") /\ Become("loop", [Busy(browser, "recycling") EXCEPT !.call = "recycle"])
    <3> DEFINE t == [Busy(browser, "recycling") EXCEPT !.call = "recycle"]
    <3>1. t \in Task /\ t.pc = "recycling" /\ t.call = "recycle" /\ t.m = browser
      <4>1. Busy(browser, "recycling") \in Task /\ Busy(browser, "recycling").pc = "recycling"
            /\ Busy(browser, "recycling").m = browser
        BY BusyFacts DEF Pcs
      <4> QED
        BY <4>1 DEF Task, Calls
    <3>2. Become("loop", t)
      BY <2>3
    <3> HIDE DEF t
    <3>3. LoopOK(t, browser')
      BY <1>same, <2>1, <3>1 DEF LoopOK, Awaits, WithDriver
    <3> QED
      BY <1>same, <2>3, <3>1, <3>2, <3>3, LoopMoves
  <2> QED
    BY <1>2, <2>2, <2>3 DEF MaybeRecycle
<1>3. CASE Recycle
  <2>1. act["loop"].pc = "recycling"
    BY <1>3 DEF Recycle, At
  <2>2. browser # None
    BY <2>1, NoneIsNothing
  <2>3. At("work", "off")
    BY <2>1 DEF Inv, LoopOK, Awaits, RecycleSparesWorker
  <2> QED
    BY <1>3, <1>same, <2>2, <2>3, LoopCloses DEF Recycle
<1>4. CASE EndWait
  BY <1>4, <1>same, <1>load, LoopAt DEF EndWait
<1>5. CASE EndBackoff
  <2>1. CASE browser = None
    BY <1>5, <1>same, <1>load, <2>1, LoopAt DEF EndBackoff
  <2>2. CASE browser # None
    BY <1>5, <1>same, <2>2, LoopCloses DEF EndBackoff
  <2> QED
    BY <2>1, <2>2
<1> QED
  BY <1>1, <1>2, <1>3, <1>4, <1>5

\* The steps of the worker's own code.
LEMMA WorkerKept ==
    ASSUME Inv, OpenActionPage \/ NewPage \/ RunRule \/ WorkerEnds
    PROVE  Inv'
<1>same. UNCHANGED <<kind, forgot, mgr, browser, running, chromium, faults>> /\ Things'
  <2>1. UNCHANGED <<kind, forgot, mgr, browser, running, chromium, faults>>
    BY DEF OpenActionPage, NewPage, RunRule, WorkerEnds
  <2> QED
    BY <2>1 DEF Inv, Typed, Things, MaxFaults
<1>w. ~At("work", "off") /\ act["work"].m \in Managers
  <2>1. ~At("work", "off")
    BY DEF OpenActionPage, NewPage, RunRule, WorkerEnds, At
  <2> QED
    BY <2>1 DEF Inv, WorkOK, At
<1> DEFINE m == act["work"].m
<1>off. Off \in Task /\ WorkOK(Off)
  BY OffFacts DEF WorkOK, Awaits, WithDriver
<1>launch. ASSUME NEW call \in {"new_page", "rule"}, Become("work", Launch(m, call))
           PROVE  Inv'
  <2>1. call \in Calls /\ Typed
    BY DEF Inv, Calls
  <2>2. CASE Alive(m)
    <3>1. PICK u \in Task : u.m = m /\ u.call = call /\ Launch(m, call) = Returned(u)
      BY <1>w, <2>1, <2>2, LaunchFacts
    <3> DEFINE t == Returned(u)
    <3>2. t \in Task /\ t.m = m /\ t.pc \in {"newpage", "use"}
      BY <3>1, ReturnedFacts
    <3>3. Become("work", t)
      BY <1>launch, <3>1
    <3> HIDE DEF t
    <3>4. WorkOK(t)
      BY <1>w, <3>2 DEF WorkOK, Awaits, WithDriver
    <3> QED
      BY <1>same, <1>w, <3>2, <3>3, <3>4, WorkMoves
  <2>3. CASE ~Alive(m)
    <3> DEFINE t == CloseThen(m, call, "start")
    <3>1. Become("work", t)
      BY <1>launch, <1>w, <2>1, <2>3, LaunchFacts
    <3>2. /\ t \in Task /\ t.m = m /\ t.call = call /\ t.then = "start"
          /\ t.pc \in {"closing", "stopping", "start"}
          /\ t.pc \in {"closing", "stopping"} => t.drv \in {mgr[m].ctx, mgr[m].pw} \ {None}
      BY <1>w, <2>1, CloseThenFacts
    <3>3. t.pc \in WithDriver => t.drv \in Drivers
      BY <1>w, <2>1, <3>2 DEF WithDriver, Typed, Things, Manager, Opt
    <3> HIDE DEF t
    <3>4. WorkOK(t)
      BY <1>w, <3>2, <3>3 DEF WorkOK, Awaits
    <3> QED
      BY <1>same, <1>w, <3>1, <3>2, <3>4, WorkMoves
  <2> QED
    BY <2>2, <2>3
<1>1. CASE OpenActionPage
  BY <1>1, <1>launch DEF OpenActionPage
<1>2. CASE NewPage
  <2>1. CASE Become("work", Busy(m, "use"))
    <3> DEFINE t == Busy(m, "use")
    <3>1. t \in Task /\ t.pc = "use" /\ t.m = m
      BY <1>w, BusyFacts DEF Pcs, Opt
    <3>2. Become("work", t)
      BY <2>1
    <3> HIDE DEF t
    <3>3. WorkOK(t)
      BY <1>w, <3>1 DEF WorkOK, Awaits, WithDriver
    <3> QED
      BY <1>same, <1>w, <3>1, <3>2, <3>3, WorkMoves
  <2>2. CASE Become("work", Off)
    BY <1>same, <1>w, <1>off, <2>2, WorkMoves
  <2> QED
    BY <1>2, <2>1, <2>2 DEF NewPage
<1>3. CASE RunRule
  BY <1>3, <1>launch DEF RunRule
<1>4. CASE WorkerEnds
  BY <1>4, <1>same, <1>w, <1>off, WorkMoves DEF WorkerEnds
<1> QED
  BY <1>1, <1>2, <1>3, <1>4

\* A cancelled await leaves a manager and a Chromium behind that are still of their types.
LEMMA InterruptTyped ==
    ASSUME Inv, NEW a \in Actors, Interrupt(a), UNCHANGED <<kind, forgot, browser, faults>>
    PROVE  Things'
<1>1. act[a].pc \in {"closing", "stopping"} => act[a].m \in Managers
  BY InManager DEF Awaits
<1>2. act[a].pc = "context" => act[a].drv \in Drivers
  BY InManager DEF Awaits, WithDriver
<1>3. mgr' \in [Managers -> Manager]
  BY <1>1, BlankManager DEF Interrupt, Finally, Inv, Typed, Things
<1>4. running' \subseteq Drivers
  BY DEF Interrupt, Inv, Typed, Things
<1>5. chromium' \in Opt(Drivers)
  <2>1. CASE Quit(act[a].drv)
    BY <2>1 DEF Quit, Inv, Typed, Things, Opt
  <2>2. CASE chromium' = chromium
    BY <2>2 DEF Inv, Typed, Things
  <2>3. CASE act[a].pc = "context" /\ chromium' = act[a].drv
    BY <1>2, <2>3 DEF Opt
  <2> QED
    BY <2>1, <2>2, <2>3 DEF Interrupt
<1> QED
  BY <1>3, <1>4, <1>5 DEF Inv, Typed, Things, MaxFaults

\* The end of the runner, and the death of Chromium.
LEMMA EndKept ==
    ASSUME Inv,
           Stop \/ CancelWorker \/ CloseBrowser \/ CleanupEnds \/ ChromiumDies \/ PageCloses
    PROVE  Inv'
<1> USE LoopManager
<1>0. Actors = {"loop", "work"}
  BY DEF Actors
<1>1. CASE Stop
  <2>1. Things'
    BY <1>0, <1>1, InterruptTyped DEF Stop
  <2>2. Become("loop", Busy(None, "cleaning"))
    BY <1>1, OffFacts DEF Stop, Pcs
  <2> QED
    BY <1>1, <2>1, <2>2, LoopAt DEF Stop
<1>2. CASE CancelWorker
  <2>1. Things'
    BY <1>0, <1>2, InterruptTyped DEF CancelWorker
  <2>2. Off \in Task /\ WorkOK(Off)
    BY OffFacts DEF WorkOK, Awaits, WithDriver
  <2> QED
    BY <1>2, <2>1, <2>2, WorkMoves DEF CancelWorker
<1>3. CASE CloseBrowser
  BY <1>3, LoopCloses DEF CloseBrowser
<1>4. CASE CleanupEnds
  <2>1. UNCHANGED <<kind, forgot, mgr, running, chromium, faults>> /\ browser' = None /\ Become("loop", Off)
    BY <1>4 DEF CleanupEnds
  <2>2. Things'
    BY <2>1 DEF Inv, Typed, Things, MaxFaults
  <2>3. Off \in Task /\ Off.call = "none" /\ LoopOK(Off, browser')
    BY OffFacts DEF LoopOK, Awaits, WithDriver
  <2> QED
    BY <2>1, <2>2, <2>3, LoopMoves
<1>5. CASE ChromiumDies
  <2>1. UNCHANGED <<kind, forgot, mgr, browser, running, act>> /\ chromium' = None /\ Fault
    BY <1>5 DEF ChromiumDies
  <2>2. Things'
    BY <2>1, MaxFaultsFact DEF Inv, Typed, Things, Opt
  <2> QED
    BY <2>1, <2>2 DEF Inv, Typed, LoopOK, WorkOK, NoWorker, RecycleSparesWorker, At
<1>6. CASE PageCloses
  <2>1. UNCHANGED <<kind, forgot, browser, running, chromium, act>> /\ Fault
    BY <1>6 DEF PageCloses
  <2>2. PICK m \in Managers : mgr' = [mgr EXCEPT ![m].page = None]
    BY <1>6 DEF PageCloses
  <2>3. mgr' \in [Managers -> Manager]
    BY <2>2 DEF Inv, Typed, Things, Manager, Opt
  <2>4. Things'
    BY <2>1, <2>3, MaxFaultsFact DEF Inv, Typed, Things
  <2> QED
    BY <2>1, <2>4 DEF Inv, Typed, LoopOK, WorkOK, NoWorker, RecycleSparesWorker, At
<1> QED
  BY <1>1, <1>2, <1>3, <1>4, <1>5, <1>6

LEMMA InitInv == Init => Inv
<1> SUFFICES ASSUME Init PROVE Inv
  OBVIOUS
<1>1. act["loop"] = Off /\ act["work"] = Off /\ act \in [Actors -> Task]
  BY OffFacts DEF Init, Actors
<1>2. 0 \in 0 .. MaxFaults
  BY FaultsAreFew DEF MaxFaults
<1>3. Typed
  BY <1>1, <1>2, BlankManager DEF Init, Typed, Things, Opt
<1>4. LoopOK(Off, browser) /\ WorkOK(Off)
  BY OffFacts DEF LoopOK, WorkOK, Awaits, WithDriver
<1> QED
  BY <1>1, <1>3, <1>4, OffFacts DEF Inv, NoWorker, RecycleSparesWorker, At

LEMMA NextInv ==
    ASSUME Inv, [Next]_vars
    PROVE  Inv'
<1>1. CASE \E a \in Actors : ManagerStep(a)
  BY <1>1, ManagerKept
<1>2. CASE Begin \/ GetOrCreate \/ GetPage \/ AskAgain \/ CycleFails
  BY <1>2, CycleKept
<1>3. CASE ScanEnds \/ MaybeRecycle \/ Recycle \/ EndWait \/ EndBackoff
  BY <1>3, RecycleKept
<1>4. CASE OpenActionPage \/ NewPage \/ RunRule \/ WorkerEnds
  BY <1>4, WorkerKept
<1>5. CASE Stop \/ CancelWorker \/ CloseBrowser \/ CleanupEnds \/ ChromiumDies \/ PageCloses
  BY <1>5, EndKept
<1>6. CASE UNCHANGED vars
  BY <1>6 DEF vars, Inv, Typed, Things, MaxFaults, LoopOK, WorkOK, NoWorker,
              RecycleSparesWorker, At
<1> QED
  BY <1>1, <1>2, <1>3, <1>4, <1>5, <1>6 DEF Next, LoopStep, WorkerStep, Actors

LEMMA InvHolds == Spec => []Inv
<1>1. Inv /\ [Next]_vars => Inv'
  BY NextInv
<1> QED
  BY InitInv, <1>1, PTL DEF Spec

\* Every variable of a job's browser keeps its type, and the runner has a manager whenever
\* _maybe_recycle_browser is about to use it.
THEOREM BrowserTypeCorrect == Spec => []TypeOK
BY InvHolds, TypesOfInv, PTL

\* No action worker exists at any await of the periodic recycling, though it checks for one
\* only before the first.
THEOREM RecycleSparesWorkerCorrect == Spec => []RecycleSparesWorker
<1>1. Inv => RecycleSparesWorker
  BY DEF Inv
<1> QED
  BY InvHolds, <1>1, PTL

-----------------------------------------------------------------------------
(* Who holds Chromium.                                                     *)

\* A job without a worker that has dropped no manager whose Chromium was up; or one with a
\* worker, as long as nothing has failed.
Calm == (kind = "plain" /\ ~forgot) \/ faults = 0

OwnPcs == {"load", "poll", "scan", "recycle", "recycling", "wait", "backoff"}

\* The runner's manager holds the driver of whatever Chromium has the profile.  It keeps
\* the two until a close has ended, the driver from before the launch on.
LoopHolds ==
    /\ chromium # None => browser # None /\ chromium = mgr[browser].pw
    /\ browser # None => mgr[browser].ctx \in {None, mgr[browser].pw}
    /\ At("loop", "closing") => act["loop"].drv = mgr[browser].ctx
    /\ At("loop", "stopping") => act["loop"].drv = mgr[browser].pw
    /\ At("loop", "pause") \/ At("loop", "start") =>
           mgr[browser].pw = None /\ mgr[browser].ctx = None
    /\ At("loop", "context") =>
           mgr[browser].pw = act["loop"].drv /\ mgr[browser].ctx = None /\ chromium = None
    /\ At("loop", "dress") =>
           mgr[browser].pw = act["loop"].drv /\ mgr[browser].ctx = act["loop"].drv
    /\ At("loop", "off") => chromium = None

\* As long as nothing fails, every launch succeeds, a cycle has a live browser, and between
\* two calls of the manager a Chromium that is there is one that is_alive sees, so that
\* get_or_create does not replace the manager under it.
NothingFails ==
    faults = 0 =>
        /\ act["loop"].pc \in OwnPcs /\ chromium # None => Alive(browser)
        /\ act["loop"].pc \in {"poll", "scan", "recycle", "recycling", "wait"} => Alive(browser)
        /\ At("loop", "context") => act["loop"].drv \in running
        /\ At("loop", "dress") => chromium = act["loop"].drv

\* A worker has the runner's own manager, finds it alive, and so never launches.
WorkHolds ==
    ~At("work", "off") =>
        /\ kind = "indiamart"
        /\ act["work"].pc \in {"created", "newpage", "use"}
        /\ act["work"].m = browser /\ Alive(browser)
        /\ act["loop"].pc \in {"load", "poll", "scan", "recycle", "wait", "cleaning"}

Holds == LoopHolds /\ NothingFails /\ WorkHolds

\* A step of the calm job, after which it is still calm.
LEMMA CalmBefore ==
    ASSUME Inv, [Next]_vars, Calm'
    PROVE  Calm /\ kind' = kind /\ faults \in Nat /\ (Fault => kind = "plain" /\ faults' # 0)
           /\ (faults' = 0 => faults = 0)
<1>1. kind' = kind
  BY DEF Next, LoopStep, WorkerStep, ManagerStep, ContextClosed, DriverStopped, EndPause,
         DriverStarted, ContextLaunched, LaunchFails, Dressed, Begin, GetOrCreate, GetPage,
         AskAgain, ScanEnds, CycleFails, MaybeRecycle, Recycle, EndWait, EndBackoff,
         OpenActionPage, NewPage, RunRule, WorkerEnds, Stop, CancelWorker, CloseBrowser,
         CleanupEnds, ChromiumDies, PageCloses, vars
<1>2. faults \in Nat
  BY FaultsAreFew DEF Inv, Typed, Things, MaxFaults
<1>3. faults' = faults \/ Fault
  BY DEF Next, LoopStep, WorkerStep, ManagerStep, ContextClosed, DriverStopped, EndPause,
         DriverStarted, ContextLaunched, LaunchFails, Dressed, Begin, GetOrCreate, GetPage,
         AskAgain, ScanEnds, CycleFails, MaybeRecycle, Recycle, EndWait, EndBackoff,
         OpenActionPage, NewPage, RunRule, WorkerEnds, Stop, CancelWorker, CloseBrowser,
         CleanupEnds, ChromiumDies, PageCloses, vars
<1>4. Fault => faults' = faults + 1
  BY DEF Fault
<1>5. forgot' = forgot \/ Forget
  BY DEF Next, LoopStep, WorkerStep, ManagerStep, ContextClosed, DriverStopped, EndPause,
         DriverStarted, ContextLaunched, LaunchFails, Dressed, Raise, Begin, GetOrCreate, GetPage,
         AskAgain, ScanEnds, CycleFails, MaybeRecycle, Recycle, EndWait, EndBackoff,
         OpenActionPage, NewPage, RunRule, WorkerEnds, Stop, CancelWorker, CloseBrowser,
         CleanupEnds, ChromiumDies, PageCloses, vars
<1>6. forgot => forgot'
  BY <1>5 DEF Forget
<1> QED
  BY <1>1, <1>2, <1>3, <1>4, <1>6 DEF Calm

\* The loop's new task.
LEMMA NewTask ==
    ASSUME Inv, NEW t, Become("loop", t)
    PROVE  act'["loop"] = t /\ act'["work"] = act["work"]
BY DEF Inv, Typed, Become, Actors

\* A worker that is not there does not come of a step of the loop but the end of a scan.
LEMMA StillNoWorker ==
    ASSUME At("work", "off"), act'["work"] = act["work"]
    PROVE  WorkHolds'
BY DEF WorkHolds, At

\* The two managers of the job at work on a close or a launch: the loop's, and none.
LEMMA ManagerHolds ==
    ASSUME Inv, Holds, ManagerStep("loop"), Calm', faults' = 0 => faults = 0,
           Fault => faults' # 0
    PROVE  Holds'
<1> DEFINE t == act["loop"]
           b == browser
<1>t. /\ t.pc \in Awaits /\ t \in Task /\ t.m = b /\ b \in Managers /\ b # None
      /\ t.call \in LoopCalls \cup {"cleanup"}
      /\ t.pc \notin {"closing", "stopping"} => t.call \in LoopCalls
      /\ t.pc \in WithDriver => t.drv \in Drivers /\ t.drv # None
      /\ mgr \in [Managers -> Manager] /\ act \in [Actors -> Task] /\ Typed
  <2>1. t.pc \in Awaits
    BY DEF ManagerStep, ContextClosed, DriverStopped, EndPause, DriverStarted,
           ContextLaunched, LaunchFails, Dressed, At, Awaits
  <2>2. /\ t \in Task /\ t.m \in Managers /\ t.call \in LoopCalls \cup {"cleanup"} /\ t.m = b
        /\ t.pc \notin {"closing", "stopping"} => t.call # "cleanup"
        /\ t.pc \in WithDriver => t.drv \in Drivers
    BY <2>1, InManager DEF Actors
  <2> QED
    BY <2>1, <2>2, NoneIsNothing DEF Inv, Typed, Things
<1>off. At("work", "off")
  BY <1>t DEF Holds, WorkHolds, Awaits
<1>then. t.pc \in {"closing", "stopping"} => t.then \in {"pause", "start", "off"}
  BY DEF Inv, LoopOK, Awaits
<1>goon. ASSUME NEW pc, NEW d, Become("loop", [t EXCEPT !.pc = pc, !.drv = d])
         PROVE  act'["loop"].pc = pc /\ act'["loop"].drv = d /\ act'["work"] = act["work"]
  <2> DEFINE u == [t EXCEPT !.pc = pc, !.drv = d]
  <2>1. u.pc = pc /\ u.drv = d
    BY <1>t DEF Task
  <2>2. Become("loop", u)
    BY <1>goon
  <2> HIDE DEF u
  <2> QED
    BY <2>1, <2>2, NewTask
<1>1. CASE ContextClosed("loop")
  <2>1. t.pc = "closing" /\ Quit(t.drv) /\ UNCHANGED <<kind, forgot, browser, running, faults>>
    BY <1>1 DEF ContextClosed, At
  <2>2. t.drv = mgr[b].ctx /\ mgr[b].ctx = mgr[b].pw
    BY <1>t, <2>1 DEF Holds, LoopHolds, At, WithDriver
  <2>3. chromium' = None
    BY <2>1, <2>2 DEF Holds, LoopHolds, Quit
  <2>4. CASE Become("loop", [t EXCEPT !.pc = "stopping", !.drv = mgr[t.m].pw]) /\ UNCHANGED mgr
    <3>1. act'["loop"].pc = "stopping" /\ act'["loop"].drv = mgr[b].pw /\ act'["work"] = act["work"]
      BY <1>t, <1>goon, <2>4
    <3>2. LoopHolds'
      BY <1>t, <2>1, <2>3, <2>4, <3>1 DEF Holds, LoopHolds, At, OwnPcs
    <3>3. NothingFails'
      BY <3>1 DEF NothingFails, At, OwnPcs
    <3> QED
      BY <1>off, <3>1, <3>2, <3>3, StillNoWorker DEF Holds
  <2>5. CASE Become("loop", [t EXCEPT !.pc = t.then, !.drv = None]) /\ Finally(t.m)
    <3>1. act'["loop"].pc \in {"pause", "start", "off"} /\ act'["work"] = act["work"]
      BY <1>t, <1>then, <1>goon, <2>1, <2>5
    <3>2. mgr'[b].pw = None /\ mgr'[b].ctx = None
      BY <1>t, <2>5 DEF Finally, Blank
    <3>3. LoopHolds'
      BY <1>t, <2>1, <2>3, <3>1, <3>2 DEF LoopHolds, At, OwnPcs
    <3>4. NothingFails'
      BY <3>1 DEF NothingFails, At, OwnPcs
    <3> QED
      BY <1>off, <3>1, <3>3, <3>4, StillNoWorker DEF Holds
  <2> QED
    BY <1>1, <2>4, <2>5 DEF ContextClosed
<1>2. CASE DriverStopped("loop")
  <2>1. /\ t.pc = "stopping" /\ Quit(t.drv) /\ Finally(t.m)
        /\ Become("loop", [t EXCEPT !.pc = t.then, !.drv = None])
        /\ UNCHANGED <<kind, forgot, browser, faults>>
    BY <1>2 DEF DriverStopped, At
  <2>2. chromium' = None
    BY <1>t, <2>1 DEF Holds, LoopHolds, At, Quit
  <2>3. act'["loop"].pc \in {"pause", "start", "off"} /\ act'["work"] = act["work"]
    BY <1>t, <1>then, <1>goon, <2>1
  <2>4. mgr'[b].pw = None /\ mgr'[b].ctx = None
    BY <1>t, <2>1 DEF Finally, Blank
  <2>5. LoopHolds'
    BY <1>t, <2>1, <2>2, <2>3, <2>4 DEF LoopHolds, At, OwnPcs
  <2>6. NothingFails'
    BY <2>3 DEF NothingFails, At, OwnPcs
  <2> QED
    BY <1>off, <2>3, <2>5, <2>6, StillNoWorker DEF Holds
<1>3. CASE EndPause("loop")
  <2>1. /\ t.pc = "pause" /\ Become("loop", Launch(t.m, t.call))
        /\ UNCHANGED <<kind, forgot, mgr, browser, running, chromium, faults>>
    BY <1>3 DEF EndPause, At
  <2>2. mgr[b].pw = None /\ mgr[b].ctx = None
    BY <2>1 DEF Holds, LoopHolds, At
  <2>3. t.call \in Calls /\ ~Alive(t.m)
    BY <1>t, <2>2 DEF Task, Alive
  <2>4. Launch(t.m, t.call).pc = "start"
    <3>1. Launch(t.m, t.call) = CloseThen(t.m, t.call, "start")
      BY <1>t, <2>3, LaunchFacts
    <3>2. CloseThen(t.m, t.call, "start").pc = "start"
      BY <1>t, <2>2, <2>3, CloseThenFacts
    <3> QED
      BY <3>1, <3>2
  <2>5. act'["loop"].pc = "start" /\ act'["work"] = act["work"]
    BY <2>1, <2>4, NewTask
  <2>6. LoopHolds'
    BY <2>1, <2>2, <2>5 DEF Holds, LoopHolds, At, OwnPcs
  <2>7. NothingFails'
    BY <2>5 DEF NothingFails, At, OwnPcs
  <2> QED
    BY <1>off, <2>5, <2>6, <2>7, StillNoWorker DEF Holds
<1>4. CASE DriverStarted("loop")
  <2>1. t.pc = "start" /\ UNCHANGED <<kind, forgot, browser, chromium, faults>>
    BY <1>4 DEF DriverStarted, At
  <2>2. mgr[b].pw = None /\ mgr[b].ctx = None /\ chromium = None
    BY <2>1 DEF Holds, LoopHolds, At
  <2>3. PICK d \in Fresh : /\ mgr' = [mgr EXCEPT ![t.m].pw = d]
                           /\ running' = running \cup {d}
                           /\ Become("loop", [t EXCEPT !.pc = "context", !.drv = d])
    BY <1>4 DEF DriverStarted
  <2>4. act'["loop"].pc = "context" /\ act'["loop"].drv = d /\ act'["work"] = act["work"]
    BY <1>goon, <2>3
  <2>5. mgr'[b].pw = d /\ mgr'[b].ctx = None
    BY <1>t, <2>2, <2>3 DEF Manager
  <2>6. LoopHolds'
    BY <2>1, <2>2, <2>4, <2>5 DEF LoopHolds, At, OwnPcs
  <2>7. NothingFails'
    BY <2>3, <2>4 DEF NothingFails, At, OwnPcs
  <2> QED
    BY <1>off, <2>4, <2>6, <2>7, StillNoWorker DEF Holds
<1>5. CASE ContextLaunched("loop")
  <2>1. /\ t.pc = "context" /\ chromium' = t.drv /\ mgr' = [mgr EXCEPT ![t.m].ctx = t.drv]
        /\ Become("loop", [t EXCEPT !.pc = "dress"])
        /\ UNCHANGED <<kind, forgot, browser, running, faults>>
    BY <1>5 DEF ContextLaunched, At
  <2>2. mgr[b].pw = t.drv
    BY <2>1 DEF Holds, LoopHolds, At
  <2>3. act'["loop"].pc = "dress" /\ act'["loop"].drv = t.drv /\ act'["work"] = act["work"]
    BY <1>t, <2>1, NewTask DEF Task
  <2>4. mgr'[b].pw = t.drv /\ mgr'[b].ctx = t.drv
    BY <1>t, <2>1, <2>2 DEF Manager
  <2>5. LoopHolds'
    BY <1>t, <2>1, <2>3, <2>4 DEF LoopHolds, At, OwnPcs
  <2>6. NothingFails'
    BY <2>1, <2>3 DEF NothingFails, At, OwnPcs
  <2> QED
    BY <1>off, <2>3, <2>5, <2>6, StillNoWorker DEF Holds
<1>raise. ASSUME t.pc \in {"start", "context", "dress"}, Raise("loop"), UNCHANGED <<mgr, chromium>>,
                 faults' # 0
          PROVE  Holds'
  <2>1. Raised(t).pc \in {"load", "scan", "backoff"}
    BY <1>t, <1>raise, RaisedFacts DEF LoopCalls
  <2>2. act'["loop"].pc \in {"load", "scan", "backoff"} /\ act'["work"] = act["work"]
    BY <1>raise, <2>1, NewTask DEF Raise
  <2>3. browser' = browser \/ (browser' = None /\ Forget)
    BY <1>raise DEF Raise
  <2>f. ~forgot'
    BY <1>raise DEF Calm
  <2>g. browser' = browser \/ (browser' = None /\ chromium = None)
    BY <2>3, <2>f DEF Forget, Abandons, Holds, LoopHolds
  <2>4. LoopHolds'
    BY <1>raise, <2>2, <2>g DEF Holds, LoopHolds, At
  <2>5. NothingFails'
    BY <1>raise DEF NothingFails
  <2> QED
    BY <1>off, <2>2, <2>4, <2>5, StillNoWorker DEF Holds
<1>6. CASE LaunchFails("loop")
  <2>1. /\ t.pc \in {"start", "context"} /\ Raise("loop") /\ UNCHANGED <<mgr, chromium>>
        /\ (IF t.pc = "context" /\ ~CanLaunch(t.drv) THEN UNCHANGED faults ELSE Fault)
    BY <1>6 DEF LaunchFails, At
  <2>2. t.pc = "context" => chromium = None
    BY DEF Holds, LoopHolds, At
  <2>3. faults' # 0
    BY <2>1, <2>2 DEF Holds, NothingFails, At, CanLaunch
  <2> QED
    BY <1>raise, <2>1, <2>3
<1>7. CASE Dressed("loop")
  <2>1. t.pc = "dress" /\ UNCHANGED <<kind, running, chromium>>
    BY <1>7 DEF Dressed, At
  <2>2. mgr[b].pw = t.drv /\ mgr[b].ctx = t.drv
    BY <2>1 DEF Holds, LoopHolds, At
  <2>3. CASE /\ chromium = t.drv /\ mgr' = [mgr EXCEPT ![t.m].page = t.drv]
             /\ Become("loop", Returned(t)) /\ UNCHANGED <<browser, faults, forgot>>
    <3>1. /\ mgr' = [mgr EXCEPT ![t.m].page = t.drv]
          /\ Become("loop", Returned(t)) /\ UNCHANGED browser
      BY <2>3
    <3>2. Returned(t).pc \in {"poll", "scan", "wait", "load"}
      BY <1>t, <2>1, ReturnedFacts DEF LoopCalls
    <3>3. act'["loop"].pc \in {"poll", "scan", "wait", "load"} /\ act'["work"] = act["work"]
      BY <3>1, <3>2, NewTask
    <3>4. mgr'[b].page = t.drv /\ mgr'[b].pw = t.drv /\ mgr'[b].ctx = t.drv
      BY <1>t, <2>2, <3>1 DEF Manager
    <3>5. t.drv # None
      BY <1>t, <2>1 DEF WithDriver
    <3>6. Alive(browser)'
      BY <2>1, <2>3, <3>1, <3>4, <3>5 DEF Alive
    <3>7. LoopHolds'
      BY <1>t, <2>1, <2>3, <3>1, <3>3, <3>4, <3>6 DEF LoopHolds, At
    <3>8. NothingFails'
      BY <3>3, <3>6 DEF NothingFails, At, OwnPcs
    <3> QED
      BY <1>off, <3>3, <3>7, <3>8, StillNoWorker DEF Holds
  <2>4. CASE /\ Raise("loop") /\ UNCHANGED mgr
             /\ IF chromium = t.drv THEN Fault ELSE UNCHANGED faults
    <3>1. faults' # 0
      BY <2>1, <2>4 DEF Holds, NothingFails, At, OwnPcs
    <3> QED
      BY <1>raise, <2>1, <2>4, <3>1
  <2> QED
    BY <1>7, <1>t, <2>2, <2>3, <2>4 DEF Dressed
<1> QED
  BY <1>1, <1>2, <1>3, <1>4, <1>5, <1>6, <1>7 DEF ManagerStep

\* A step of the loop's own code that leaves managers and Chromium as they are.
LEMMA LoopStays ==
    ASSUME Inv, Holds, UNCHANGED <<kind, forgot, mgr, browser, running, chromium, faults>>,
           act'["work"] = act["work"],
           act'["loop"].pc \in OwnPcs \cup {"cleaning"},
           faults = 0 /\ act'["loop"].pc \in OwnPcs /\ chromium # None => Alive(browser),
           faults = 0 /\ act'["loop"].pc \in {"poll", "scan", "recycle", "recycling", "wait"}
               => Alive(browser),
           At("work", "off")
               \/ act'["loop"].pc \in {"load", "poll", "scan", "recycle", "wait", "cleaning"}
    PROVE  Holds'
<1>1. Alive(browser)' = Alive(browser)
  BY DEF Alive
<1>2. LoopHolds'
  BY <1>1 DEF Holds, LoopHolds, At, OwnPcs
<1>3. NothingFails'
  BY <1>1 DEF NothingFails, At, OwnPcs
<1>4. WorkHolds'
  BY <1>1 DEF Holds, WorkHolds, At
<1> QED
  BY <1>2, <1>3, <1>4 DEF Holds

\* The loop begins a close, or a launch when what is there is not alive, and no worker is
\* there.
LEMMA LoopBegins ==
    ASSUME Inv, Holds, At("work", "off"), browser # None,
           NEW call \in Calls, NEW then \in {"pause", "start", "off"},
           Become("loop", CloseThen(browser, call, then)),
           UNCHANGED <<kind, forgot, mgr, browser, running, chromium, faults>>
    PROVE  Holds'
<1> DEFINE t == CloseThen(browser, call, then)
<1>1. browser \in Managers /\ Typed
  BY DEF Inv, Typed, Things, Opt
<1>2. \/ t.pc = "closing" /\ t.drv = mgr[browser].ctx
      \/ t.pc = "stopping" /\ t.drv = mgr[browser].pw
      \/ t.pc = then /\ mgr[browser].ctx = None /\ mgr[browser].pw = None
  BY <1>1, CloseThenFacts
<1>3. Become("loop", t)
  OBVIOUS
<1> HIDE DEF t
<1>4. act'["loop"] = t /\ act'["work"] = act["work"]
  BY <1>3, NewTask
<1>5. LoopHolds'
  BY <1>2, <1>4 DEF Holds, LoopHolds, At, OwnPcs
<1>6. NothingFails'
  BY <1>2, <1>4 DEF NothingFails, At, OwnPcs
<1> QED
  BY <1>4, <1>5, <1>6, StillNoWorker DEF Holds

LEMMA LaunchHolds ==
    ASSUME Inv, Holds, act["loop"].pc \in {"poll", "scan"},
           NEW call \in {"get_page", "shot"}, Become("loop", Launch(act["loop"].m, call)),
           UNCHANGED <<kind, forgot, mgr, browser, running, chromium, faults>>
    PROVE  Holds'
<1>1. browser \in Managers /\ act["loop"].m = browser /\ Typed /\ call \in Calls /\ browser # None
  BY LoopManager, NoneIsNothing DEF Inv, Calls
<1>2. CASE Alive(browser)
  <2>1. PICK u \in Task : u.m = browser /\ u.call = call /\ Launch(browser, call) = Returned(u)
    BY <1>1, <1>2, LaunchFacts
  <2>2. Returned(u).pc = "scan"
    BY <2>1, ReturnedFacts
  <2>3. act'["loop"].pc = "scan" /\ act'["work"] = act["work"]
    BY <1>1, <2>1, <2>2, NewTask
  <2> QED
    BY <1>2, <2>3, LoopStays DEF OwnPcs
<1>3. CASE ~Alive(browser)
  <2>1. At("work", "off")
    BY <1>3 DEF Holds, WorkHolds
  <2>2. Become("loop", CloseThen(browser, call, "start"))
    BY <1>1, <1>3, LaunchFacts
  <2> QED
    BY <1>1, <2>1, <2>2, LoopBegins
<1> QED
  BY <1>2, <1>3

\* The steps of the poll loop's own code.
LEMMA CycleHolds ==
    ASSUME Inv, Holds, Begin \/ GetOrCreate \/ GetPage \/ AskAgain \/ CycleFails,
           Calm', faults' = 0 => faults = 0, Fault => kind = "plain" /\ faults' # 0
    PROVE  Holds'
<1>load. [Off EXCEPT !.pc = "load"].pc = "load"
  BY DEF Off
<1>1. CASE Begin
  <2>1. /\ At("loop", "off") /\ UNCHANGED <<kind, forgot, mgr, browser, running, chromium, faults>>
        /\ Become("loop", [Off EXCEPT !.pc = "load"])
    BY <1>1, OffFacts DEF Begin, At
  <2>2. act'["loop"].pc = "load" /\ act'["work"] = act["work"]
    BY <1>load, <2>1, NewTask
  <2>3. chromium = None
    BY <2>1 DEF Holds, LoopHolds
  <2> QED
    BY <2>1, <2>2, <2>3, LoopStays DEF OwnPcs
<1>2. CASE GetOrCreate
  <2>1. act["loop"].pc = "load" /\ UNCHANGED <<kind, running, chromium, faults>>
    BY <1>2 DEF GetOrCreate, At
  <2>2. CASE browser # None /\ Alive(browser)
    <3>1. Become("loop", Busy(browser, "poll")) /\ UNCHANGED <<mgr, browser, forgot>>
      BY <1>2, <2>2 DEF GetOrCreate
    <3>2. Busy(browser, "poll").pc = "poll"
      BY LoopManager, BusyFacts DEF Pcs
    <3>3. act'["loop"].pc = "poll" /\ act'["work"] = act["work"]
      BY <3>1, <3>2, NewTask
    <3> QED
      BY <2>1, <2>2, <3>1, <3>3, LoopStays DEF OwnPcs
  <2>3. CASE ~(browser # None /\ Alive(browser))
    <3>1. PICK m \in Managers :
                 /\ browser' = m /\ mgr' = [mgr EXCEPT ![m] = Blank]
                 /\ Become("loop", [Busy(m, "start") EXCEPT !.call = "get_or_create"])
      BY <1>2, <2>3 DEF GetOrCreate
    <3>2. chromium = None
      <4>1. Forget
        BY <1>2, <2>3 DEF GetOrCreate
      <4>2. CASE faults = 0
        BY <2>1, <2>3, <4>2 DEF Holds, LoopHolds, NothingFails, OwnPcs
      <4>3. CASE faults # 0
        BY <2>1, <4>1, <4>3 DEF Calm, Forget, Abandons, Holds, LoopHolds
      <4> QED
        BY <4>2, <4>3
    <3>3. At("work", "off")
      <4>1. ~At("work", "off") => act["work"].m \in Managers
        BY DEF Inv, WorkOK, At
      <4> QED
        BY <2>3, <4>1, NoneIsNothing DEF Holds, WorkHolds
    <3>4. [Busy(m, "start") EXCEPT !.call = "get_or_create"].pc = "start"
      <4>1. Busy(m, "start") \in Task /\ Busy(m, "start").pc = "start"
        BY BusyFacts DEF Pcs, Awaits, Opt
      <4> QED
        BY <4>1 DEF Task
    <3>5. act'["loop"].pc = "start" /\ act'["work"] = act["work"]
      BY <3>1, <3>4, NewTask
    <3>6. mgr'[browser'].pw = None /\ mgr'[browser'].ctx = None
      BY <3>1 DEF Inv, Typed, Things, Blank
    <3>7. LoopHolds'
      BY <2>1, <3>2, <3>5, <3>6 DEF LoopHolds, At, OwnPcs
    <3>8. NothingFails'
      BY <3>5 DEF NothingFails, At, OwnPcs
    <3> QED
      BY <3>3, <3>5, <3>7, <3>8, StillNoWorker DEF Holds
  <2> QED
    BY <2>2, <2>3
<1>3. CASE GetPage
  BY <1>3, LaunchHolds DEF GetPage, At
<1>4. CASE AskAgain
  BY <1>4, LaunchHolds DEF AskAgain, At
<1>5. CASE CycleFails
  <2>1. /\ UNCHANGED <<kind, forgot, mgr, browser, running, chromium>>
        /\ Become("loop", Busy(act["loop"].m, "backoff"))
        /\ act["loop"].pc \in {"load", "scan"}
    BY <1>5 DEF CycleFails, At
  <2>2. Busy(act["loop"].m, "backoff").pc = "backoff"
    BY LoopManager, BusyFacts DEF Pcs
  <2>3. act'["loop"].pc = "backoff" /\ act'["work"] = act["work"]
    BY <2>1, <2>2, NewTask
  <2>4. At("work", "off") /\ faults' # 0
    <3>1. CASE Fault
      BY <3>1 DEF Inv, NoWorker
    <3>2. CASE act["loop"].pc = "scan" /\ ~Alive(act["loop"].m) /\ UNCHANGED faults
      <4>1. ~Alive(browser)
        BY <3>2, LoopManager
      <4> QED
        BY <3>2, <4>1 DEF Holds, WorkHolds, NothingFails
    <3> QED
      BY <1>5, <3>1, <3>2 DEF CycleFails, At
  <2>5. Alive(browser)' = Alive(browser)
    BY <2>1 DEF Alive
  <2>6. LoopHolds'
    BY <2>1, <2>3, <2>5 DEF Holds, LoopHolds, At, OwnPcs
  <2>7. NothingFails'
    BY <2>4 DEF NothingFails
  <2> QED
    BY <2>3, <2>4, <2>6, <2>7, StillNoWorker DEF Holds
<1> QED
  BY <1>1, <1>2, <1>3, <1>4, <1>5

\* A cycle ends, the browser is recycled or not, and the loop waits.
LEMMA RecycleHolds ==
    ASSUME Inv, Holds, Calm, ScanEnds \/ MaybeRecycle \/ Recycle \/ EndWait \/ EndBackoff
    PROVE  Holds'
<1>same. UNCHANGED <<kind, forgot, mgr, browser, running, chromium, faults>>
  BY DEF ScanEnds, MaybeRecycle, Recycle, EndWait, EndBackoff
<1>load. ASSUME Become("loop", [Off EXCEPT !.pc = "load"])
         PROVE  act'["loop"].pc = "load" /\ act'["work"] = act["work"]
  <2>1. [Off EXCEPT !.pc = "load"].pc = "load"
    BY DEF Off
  <2> QED
    BY <1>load, <2>1, NewTask
<1>1. CASE ScanEnds
  <2>1. act["loop"].pc = "scan" /\ act["loop"].m = browser /\ browser \in Managers
    BY <1>1, LoopManager DEF ScanEnds, At
  <2>2. PICK w \in {act["work"]} \cup
                   (IF kind = "indiamart" /\ At("work", "off")
                    THEN {Busy(act["loop"].m, "created")} ELSE {}) :
            act' = [act EXCEPT !["loop"].pc = "recycle", !["work"] = w]
    BY <1>1 DEF ScanEnds
  <2>3. act'["loop"].pc = "recycle" /\ act'["work"] = w
    BY <2>2, Tasks DEF Inv, Typed, Actors, Task
  <2>4. Alive(browser)' = Alive(browser)
    BY <1>same DEF Alive
  <2>5. LoopHolds'
    BY <1>same, <2>1, <2>3, <2>4 DEF Holds, LoopHolds, At, OwnPcs
  <2>6. NothingFails'
    BY <1>same, <2>1, <2>3, <2>4 DEF Holds, NothingFails, At, OwnPcs
  <2>7. WorkHolds'
    <3>1. CASE w = act["work"]
      BY <1>same, <2>1, <2>3, <2>4, <3>1 DEF Holds, WorkHolds, At
    <3>2. CASE kind = "indiamart" /\ w = Busy(act["loop"].m, "created")
      <4>1. w.pc = "created" /\ w.m = browser
        BY <2>1, <3>2, LoopManager, BusyFacts DEF Pcs
      <4>2. Alive(browser)
        BY <2>1, <3>2 DEF Calm, Holds, NothingFails
      <4> QED
        BY <1>same, <2>3, <2>4, <3>2, <4>1, <4>2 DEF WorkHolds, At
    <3> QED
      BY <2>2, <3>1, <3>2
  <2> QED
    BY <2>5, <2>6, <2>7 DEF Holds
<1>2. CASE MaybeRecycle
  <2>1. act["loop"].pc = "recycle" /\ browser \in Managers
    BY <1>2, LoopManager DEF MaybeRecycle, At
  <2>2. faults = 0 /\ chromium # None => Alive(browser)
    BY <2>1 DEF Holds, NothingFails, OwnPcs
  <2>3. faults = 0 => Alive(browser)
    BY <2>1 DEF Holds, NothingFails
  <2>4. CASE Become("loop", Busy(browser, "wait"))
    <3>1. Busy(browser, "wait").pc = "wait"
      BY <2>1, BusyFacts DEF Pcs, Opt
    <3>2. act'["loop"].pc = "wait" /\ act'["work"] = act["work"]
      BY <2>4, <3>1, NewTask
    <3> QED
      BY <1>same, <2>2, <2>3, <3>2, LoopStays DEF OwnPcs
  <2>5. CASE At("work", "off") /\ Become("loop", [Busy(browser, "recycling") EXCEPT !.call = "recycle"])
    <3>1. [Busy(browser, "recycling") EXCEPT !.call = "recycle"].pc = "recycling"
      <4>1. Busy(browser, "recycling") \in Task /\ Busy(browser, "recycling").pc = "recycling"
        BY <2>1, BusyFacts DEF Pcs, Opt
      <4> QED
        BY <4>1 DEF Task
    <3>2. act'["loop"].pc = "recycling" /\ act'["work"] = act["work"]
      BY <2>5, <3>1, NewTask
    <3> QED
      BY <1>same, <2>2, <2>3, <2>5, <3>2, LoopStays DEF OwnPcs
  <2> QED
    BY <1>2, <2>4, <2>5 DEF MaybeRecycle
<1>3. CASE Recycle
  <2>1. act["loop"].pc = "recycling" /\ Become("loop", CloseThen(browser, "recycle", "pause"))
    BY <1>3 DEF Recycle, At
  <2>2. browser # None
    BY <2>1, LoopManager, NoneIsNothing
  <2>3. At("work", "off")
    BY <2>1 DEF Holds, WorkHolds
  <2> QED
    BY <1>same, <2>1, <2>2, <2>3, LoopBegins DEF Calls
<1>4. CASE EndWait
  <2>1. act["loop"].pc = "wait" /\ Become("loop", [Off EXCEPT !.pc = "load"])
    BY <1>4 DEF EndWait, At
  <2>2. faults = 0 /\ chromium # None => Alive(browser)
    BY <2>1 DEF Holds, NothingFails, OwnPcs
  <2> QED
    BY <1>same, <1>load, <2>1, <2>2, LoopStays DEF OwnPcs
<1>5. CASE EndBackoff
  <2>1. act["loop"].pc = "backoff"
    BY <1>5 DEF EndBackoff, At
  <2>2. At("work", "off")
    BY <2>1 DEF Holds, WorkHolds
  <2>3. CASE browser = None
    <3>1. Become("loop", [Off EXCEPT !.pc = "load"])
      BY <1>5, <2>3 DEF EndBackoff
    <3>2. chromium = None
      BY <2>3 DEF Holds, LoopHolds
    <3> QED
      BY <1>same, <1>load, <2>2, <3>1, <3>2, LoopStays DEF OwnPcs
  <2>4. CASE browser # None
    BY <1>5, <1>same, <2>2, <2>4, LoopBegins DEF EndBackoff, Calls
  <2> QED
    BY <2>3, <2>4
<1> QED
  BY <1>1, <1>2, <1>3, <1>4, <1>5

\* The worker's steps: its launches find the browser alive and return at once.
LEMMA WorkerHolds ==
    ASSUME Inv, Holds,
           ManagerStep("work") \/ OpenActionPage \/ NewPage \/ RunRule \/ WorkerEnds
    PROVE  Holds'
<1>1. ~At("work", "off")
  BY DEF ManagerStep, ContextClosed, DriverStopped, EndPause, DriverStarted, ContextLaunched,
         LaunchFails, Dressed, OpenActionPage, NewPage, RunRule, WorkerEnds, At
<1>2. /\ kind = "indiamart" /\ act["work"].m = browser /\ Alive(browser)
      /\ act["work"].pc \in {"created", "newpage", "use"}
      /\ act["loop"].pc \in {"load", "poll", "scan", "recycle", "wait", "cleaning"}
  BY <1>1 DEF Holds, WorkHolds
<1>3. ~ManagerStep("work")
  BY <1>2 DEF ManagerStep, ContextClosed, DriverStopped, EndPause, DriverStarted,
              ContextLaunched, LaunchFails, Dressed, At
<1>4. UNCHANGED <<kind, forgot, mgr, browser, running, chromium, faults>>
  BY <1>3 DEF OpenActionPage, NewPage, RunRule, WorkerEnds
<1>5. browser \in Managers /\ browser \in Opt(Managers) /\ Typed
  BY <1>1, <1>2 DEF Inv, WorkOK, At, Opt
<1>6. PICK t : /\ Become("work", t)
               /\ t.pc = "off" \/ (t.pc \in {"newpage", "use"} /\ t.m = browser)
  <2>launch. ASSUME NEW call \in {"new_page", "rule"}
             PROVE  Launch(browser, call).pc \in {"newpage", "use"} /\ Launch(browser, call).m = browser
    <3>1. call \in Calls
      BY DEF Calls
    <3>2. PICK u \in Task : u.m = browser /\ u.call = call /\ Launch(browser, call) = Returned(u)
      BY <1>2, <1>5, <3>1, LaunchFacts
    <3>3. Returned(u).pc \in {"newpage", "use"} /\ Returned(u).m = browser
      BY <3>2, ReturnedFacts
    <3> QED
      BY <3>2, <3>3
  <2>1. CASE OpenActionPage
    BY <1>2, <2>1, <2>launch DEF OpenActionPage
  <2>2. CASE NewPage
    <3>1. Busy(browser, "use").pc = "use" /\ Busy(browser, "use").m = browser
      BY <1>5, BusyFacts DEF Pcs
    <3> QED
      BY <1>2, <2>2, <3>1, OffFacts DEF NewPage
  <2>3. CASE RunRule
    BY <1>2, <2>3, <2>launch DEF RunRule
  <2>4. CASE WorkerEnds
    BY <2>4, OffFacts DEF WorkerEnds
  <2> QED
    BY <1>3, <2>1, <2>2, <2>3, <2>4
<1>7. act'["work"] = t /\ act'["loop"] = act["loop"]
  BY <1>6 DEF Inv, Typed, Become, Actors
<1>8. Alive(browser)' = Alive(browser)
  BY <1>4 DEF Alive
<1>9. LoopHolds'
  BY <1>4, <1>7, <1>8 DEF Holds, LoopHolds, At, OwnPcs
<1>10. NothingFails'
  BY <1>4, <1>7, <1>8 DEF Holds, NothingFails, At, OwnPcs
<1>11. WorkHolds'
  BY <1>2, <1>4, <1>6, <1>7, <1>8 DEF WorkHolds, At
<1> QED
  BY <1>9, <1>10, <1>11 DEF Holds

\* The end of the runner, and the death of Chromium.
LEMMA EndHolds ==
    ASSUME Inv, Holds,
           Stop \/ CancelWorker \/ CloseBrowser \/ CleanupEnds \/ ChromiumDies \/ PageCloses,
           Fault => kind = "plain" /\ faults' # 0
    PROVE  Holds'
<1>1. CASE Stop
  <2>1. /\ Interrupt("loop") /\ Become("loop", [Off EXCEPT !.pc = "cleaning"])
        /\ UNCHANGED <<kind, forgot, browser, faults>>
    BY <1>1 DEF Stop
  <2>2. [Off EXCEPT !.pc = "cleaning"].pc = "cleaning"
    BY DEF Off
  <2>3. act'["loop"].pc = "cleaning" /\ act'["work"] = act["work"]
    BY <2>1, <2>2, NewTask
  <2>4. NothingFails'
    BY <2>3 DEF NothingFails, At, OwnPcs
  <2>5. CASE act["loop"].pc \in {"closing", "stopping"}
    <3>1. act["loop"].m = browser /\ browser \in Managers /\ act["loop"].drv \in Drivers
      BY <2>5, InManager DEF Actors, Awaits, WithDriver
    <3>2. chromium # None => chromium = act["loop"].drv
      BY <2>5, <3>1, NoneIsNothing DEF Holds, LoopHolds, At
    <3>3. chromium' = None
      BY <2>1, <2>5, <3>2 DEF Interrupt, Quit
    <3>4. mgr'[browser].ctx = None /\ mgr'[browser].pw = None
      BY <2>1, <2>5, <3>1 DEF Interrupt, Finally, Blank, Inv, Typed, Things
    <3>5. LoopHolds'
      BY <2>1, <2>3, <3>3, <3>4 DEF LoopHolds, At, OwnPcs
    <3>6. At("work", "off")
      BY <2>5 DEF Holds, WorkHolds
    <3> QED
      BY <2>3, <2>4, <3>5, <3>6, StillNoWorker DEF Holds
  <2>6. CASE act["loop"].pc = "context" /\ chromium' = act["loop"].drv
    <3>1. mgr' = mgr /\ browser # None
      <4>1. act["loop"].m = browser /\ act["loop"].m \in Managers
        BY <2>6, InManager DEF Actors, Awaits
      <4> QED
        BY <2>1, <2>6, <4>1, NoneIsNothing DEF Interrupt
    <3>2. mgr[browser].pw = act["loop"].drv /\ mgr[browser].ctx = None
      BY <2>6 DEF Holds, LoopHolds, At
    <3>3. LoopHolds'
      BY <2>1, <2>3, <2>6, <3>1, <3>2 DEF LoopHolds, At, OwnPcs
    <3>4. At("work", "off")
      BY <2>6 DEF Holds, WorkHolds
    <3> QED
      BY <2>3, <2>4, <3>3, <3>4, StillNoWorker DEF Holds
  <2>7. CASE mgr' = mgr /\ chromium' = chromium
    <3>1. Alive(browser)' = Alive(browser)
      BY <2>1, <2>7 DEF Alive
    <3>2. LoopHolds'
      BY <2>1, <2>3, <2>7 DEF Holds, LoopHolds, At, OwnPcs
    <3>3. WorkHolds'
      BY <2>1, <2>3, <3>1 DEF Holds, WorkHolds, At
    <3> QED
      BY <2>4, <3>2, <3>3 DEF Holds
  <2> QED
    BY <2>1, <2>5, <2>6, <2>7 DEF Interrupt
<1>2. CASE CancelWorker
  <2>1. /\ Interrupt("work") /\ Become("work", Off) /\ UNCHANGED <<kind, forgot, browser, faults>>
        /\ act["loop"].pc = "cleaning" /\ ~At("work", "off")
    BY <1>2 DEF CancelWorker, At
  <2>2. act["work"].pc \in {"created", "newpage", "use"}
    BY <2>1 DEF Holds, WorkHolds
  <2>3. mgr' = mgr /\ chromium' = chromium
    BY <2>1, <2>2 DEF Interrupt
  <2>4. act'["work"] = Off /\ act'["loop"] = act["loop"]
    BY <2>1 DEF Inv, Typed, Become, Actors
  <2>5. LoopHolds'
    BY <2>1, <2>3, <2>4 DEF Holds, LoopHolds, At, OwnPcs
  <2>6. NothingFails' /\ WorkHolds'
    BY <2>1, <2>4, OffFacts DEF NothingFails, WorkHolds, At, OwnPcs
  <2> QED
    BY <2>5, <2>6 DEF Holds
<1>3. CASE CloseBrowser
  BY <1>3, LoopBegins DEF CloseBrowser, Calls
<1>4. CASE CleanupEnds
  <2>1. /\ browser' = None /\ Become("loop", Off)
        /\ UNCHANGED <<kind, forgot, mgr, running, chromium, faults>>
    BY <1>4 DEF CleanupEnds
  <2>2. chromium = None
    BY <1>4 DEF CleanupEnds, Holds, LoopHolds
  <2>3. act'["loop"] = Off /\ act'["work"] = act["work"]
    BY <2>1, NewTask
  <2>4. At("work", "off")
    BY <1>4 DEF CleanupEnds, Holds, WorkHolds, At
  <2>5. LoopHolds' /\ NothingFails'
    BY <2>1, <2>2, <2>3, OffFacts DEF LoopHolds, NothingFails, At, OwnPcs
  <2> QED
    BY <2>3, <2>4, <2>5, StillNoWorker DEF Holds
<1>5. CASE ChromiumDies
  <2>1. UNCHANGED <<kind, forgot, mgr, browser, running, act>> /\ chromium' = None /\ Fault
    BY <1>5 DEF ChromiumDies
  <2>2. At("work", "off")
    BY <2>1 DEF Inv, NoWorker
  <2>3. LoopHolds'
    BY <2>1 DEF Holds, LoopHolds, At, OwnPcs
  <2>4. NothingFails'
    BY <2>1 DEF NothingFails
  <2> QED
    BY <2>1, <2>2, <2>3, <2>4, StillNoWorker DEF Holds
<1>6. CASE PageCloses
  <2>1. UNCHANGED <<kind, forgot, browser, running, chromium, act>> /\ Fault
    BY <1>6 DEF PageCloses
  <2>2. PICK m \in Managers : mgr' = [mgr EXCEPT ![m].page = None]
    BY <1>6 DEF PageCloses
  <2>3. At("work", "off")
    BY <2>1 DEF Inv, NoWorker
  <2>4. browser # None => mgr'[browser].pw = mgr[browser].pw /\ mgr'[browser].ctx = mgr[browser].ctx
    <3>1. browser # None => browser \in Managers
      BY DEF Inv, Typed, Things, Opt
    <3> QED
      BY <2>2, <3>1 DEF Inv, Typed, Things, Manager
  <2>5. act["loop"].pc \in Awaits => browser # None
    BY InManager, NoneIsNothing DEF Actors
  <2>6. LoopHolds'
    BY <2>1, <2>4, <2>5 DEF Holds, LoopHolds, At, Awaits
  <2>7. NothingFails'
    BY <2>1 DEF NothingFails
  <2> QED
    BY <2>1, <2>3, <2>6, <2>7, StillNoWorker DEF Holds
<1> QED
  BY <1>1, <1>2, <1>3, <1>4, <1>5, <1>6

CalmHolds == Calm => Holds

LEMMA InitHolds == Init => CalmHolds
<1> SUFFICES ASSUME Init PROVE Holds
  BY DEF CalmHolds
<1>1. act["loop"] = Off /\ act["work"] = Off /\ chromium = None /\ browser = None
  BY DEF Init, Actors
<1> QED
  BY <1>1, OffFacts DEF Holds, LoopHolds, NothingFails, WorkHolds, At, OwnPcs

LEMMA NextHolds ==
    ASSUME Inv, CalmHolds, [Next]_vars
    PROVE  CalmHolds'
<1> SUFFICES ASSUME Calm'
             PROVE  Holds'
  BY DEF CalmHolds
<1>0. /\ Holds /\ Calm /\ (Fault => kind = "plain" /\ faults' # 0)
      /\ faults' = 0 => faults = 0
  BY CalmBefore DEF CalmHolds
<1>1. CASE ManagerStep("loop")
  BY <1>0, <1>1, ManagerHolds
<1>2. CASE Begin \/ GetOrCreate \/ GetPage \/ AskAgain \/ CycleFails
  BY <1>0, <1>2, CycleHolds
<1>3. CASE ScanEnds \/ MaybeRecycle \/ Recycle \/ EndWait \/ EndBackoff
  BY <1>0, <1>3, RecycleHolds
<1>4. CASE ManagerStep("work") \/ OpenActionPage \/ NewPage \/ RunRule \/ WorkerEnds
  BY <1>0, <1>4, WorkerHolds
<1>5. CASE Stop \/ CancelWorker \/ CloseBrowser \/ CleanupEnds \/ ChromiumDies \/ PageCloses
  BY <1>0, <1>5, EndHolds
<1>6. CASE UNCHANGED vars
  <2>1. UNCHANGED <<kind, mgr, browser, running, chromium, act, faults>>
    BY <1>6 DEF vars
  <2>2. Alive(browser)' = Alive(browser)
    BY <2>1 DEF Alive
  <2> QED
    BY <1>0, <2>1, <2>2 DEF Holds, LoopHolds, NothingFails, WorkHolds, At, OwnPcs
<1> QED
  BY <1>1, <1>2, <1>3, <1>4, <1>5, <1>6 DEF Next, LoopStep, WorkerStep

\* Whatever fails, dies, is closed or is cancelled, a job without a worker that has not
\* dropped a manager with a Chromium up never loses the Chromium that has its profile, nor
\* does a job with a worker while nothing fails: the runner's manager can close it.
THEOREM JobHoldsBrowserCorrect == Spec => []JobHoldsBrowser
<1>1. Inv /\ CalmHolds => JobHoldsBrowser
  <2> SUFFICES ASSUME Inv, Calm, LoopHolds, chromium # None
               PROVE  \E m \in InUse : chromium \in {mgr[m].pw, mgr[m].ctx}
    BY DEF CalmHolds, Calm, Holds, JobHoldsBrowser, Held
  <2>1. browser # None /\ chromium = mgr[browser].pw
    BY DEF LoopHolds
  <2>2. browser \in InUse
    BY <2>1 DEF Inv, Typed, Things, Opt, InUse
  <2> QED
    BY <2>1, <2>2
<1>2. Inv /\ CalmHolds /\ [Next]_vars => CalmHolds'
  BY NextHolds
<1> QED
  BY InvHolds, InitHolds, <1>1, <1>2, PTL DEF Spec
=============================================================================
