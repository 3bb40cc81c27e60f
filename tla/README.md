# Velora Auto Clicker: specification and proofs

The program watches the *Recent* feed of buyer inquiries of the IndiaMART
marketplace for the keywords of a seller, opens the matching rows in a browser,
and saves the buyers' contacts.  It is one Python process (FastAPI, one uvicorn
worker, one asyncio loop) with a database and a directory of CSV files, a React
dashboard, and scripts that log a seller in.

This directory models the part of it that is concurrent and that has to survive
failures: who runs a job, who has its browser, how a poll cycle finds the feed and
reads a contact, what becomes of a lead, and how users see it all.  TLC checks the
models on small instances; TLAPS proves for all instances every safety property that the
runs check, and that the two core modules implement their abstract specifications.

Run everything from this directory:

    tlc -workers 2 -config LifecycleOneJob.cfg MCJobLifecycle.tla
    tlc -workers 2 -config PageWork.cfg MCLeadCapture.tla
    tlapm JobLifecycleProofs.tla        # likewise the other seven *Proofs modules

All paths below are relative to `src/backend/app/`; `DashboardHome.tsx` is in
`src/frontend/src/pages/`.

## 1. The system

| Component | State it keeps | Operations | Talks to | Model |
|---|---|---|---|---|
| Scheduler (`automation/scheduler.py`) | `_runners`, `_tasks` by job id; one asyncio lock | `start_job`, `stop_job`, `restart_job`, `is_running`, `_on_task_done`, boot and shutdown loops | creates and cancels runner tasks; called by API, watchdog, lifespan | JobLifecycle |
| Job runner, life cycle (`automation/job_runner.py`) | running flag, shutdown event, browser, backoff delay | `start`, `stop`, `_run_loop`, `_handle_session_expired`, `_cleanup` | status and heartbeat of its job row; browser | JobLifecycle, BrowserProfile |
| Job runner, lead pipeline (same file) | lead queue, its fingerprints, seen fingerprints, cool-downs, action task and lock | scan, enqueue, drain (two tasks), capture | page, database, CSV file | LeadPipeline, LeadCapture |
| Job runner, generic page (same file) | nothing | detect, record, run rules | page, engines, database, CSV file | KeywordJob |
| Watchdog (`automation/watchdog.py`) | nothing but its loop | find stale heartbeats, log, restart | job rows, scheduler | JobLifecycle |
| Jobs API (`api/v1/endpoints/jobs.py`) | none | create, update, control, delete, status | job rows, scheduler | JobLifecycle |
| Lifespan (`main.py`) | watchdog task | boot, serve, shut down | scheduler, watchdog | JobLifecycle |
| Job rows (`services/job_service.py`, `models/automation_job.py`) | status, is_active, heartbeat, counters | status writes, increments, reset | - | JobLifecycle, LeadPipeline |
| Lead files (`services/lead_store.py`, `api/v1/endpoints/leads.py`) | one CSV file per job, named after the job | append, load fingerprints, delete by index, clear | written by runners and API | LeadPipeline, KeywordJob |
| Browser manager (`automation/browser_manager.py`) | context, page, playwright | launch, get_page, new_page, restart, close | a profile directory on disk | BrowserProfile |
| Feed navigation (`automation/indiamart_page.py`) | none | open the feed, recover it, tell a login page | the live page | FeedNavigation |
| Feed and panel parsing (`automation/indiamart_leads.py`) | none | collect rows, fingerprint, click, match panel, reveal, extract | the live page | LeadCapture |
| Detection (`automation/detection_engine.py`) | cool-down per keyword, pattern cache | evaluate, rank | - | KeywordJob |
| Actions (`automation/action_engine.py`) | last lead | run a chain of rules with retries | page, webhooks, database | KeywordJob |
| Live dashboard (`api/v1/endpoints/ws.py`, `DashboardHome.tsx`) | socket per client; refs of the page | connect, push, disconnect; connect, reconnect | scheduler, event log | Dashboard |
| Logs, auth, users, keywords, rules, profiles, health | rows | CRUD and reports | database | - |
| Rest of the frontend, login scripts, migrations, deployment | tokens | - | API | - |

Interactions that carry the difficulty:

* A job has up to four parties acting on it at once: a request, the watchdog,
  the lifespan and its own runner.  They share the registry, which the lock
  protects only in `start_job` and `stop_job`; `restart_job` and `is_running`
  read it without the lock, and the done-callback writes it without the lock.
* Cancellation is the only way to stop a runner, and it lands at whatever
  `await` the runner is in: before its `try`, in a poll, in an error handler, in
  its cleanup.
* A runner has up to two tasks that drain one queue: the scanner itself (the
  "hot path") and the action worker.
* Both tasks call one browser manager, each of whose methods awaits several times
  and leaves its fields half set meanwhile, or when it is cancelled.
* The page belongs to somebody else's application: it renders late, redirects, logs
  the seller out, and opens a panel some time after the click that asked for it.
* A captured lead is written to three places, none of them in a transaction with
  another, and the dedup set of the next run is loaded from the last one.

### What makes each component correct

* Scheduler: a job has one task; whoever the registry names is the one that runs;
  stop means stopped before the next start; requests return; nothing starts
  during shutdown.
* Runner: no poll after its shutdown event; the status in the row tells what the
  runner is doing; it ends when its row is gone; a failed cycle does not end it.
* Watchdog: a job that should run and is not run, or hangs, runs again.
* Pipeline: the best row of the feed is captured in the end, one row in the file per
  contact; counter, log and file agree up to the write in progress; nothing is
  skipped that was not saved; no captured row is clicked again (a click costs
  the seller a credit).
* Browser manager: whatever Chromium has the profile can still be closed by the
  runner, and a job gets a live browser again after a failure (neither holds once the
  runner has dropped a manager whose Chromium is up); the recycling never takes a page
  from under the action worker.
* Navigation: a cycle ends; it pauses the job exactly in front of a login; rows that
  end a recovery are on the page that the caller gets.
* Capture: the contact is that of the row that was clicked, as far as its text can tell.
* Generic page: a keyword that stays on the page is detected again; a chain ends; a
  webhook that is retried takes effect at most as often as it may be tried.
* Lead files: a delete removes the row the user saw.
* Dashboard: what is registered is served, what was replaced ends, and a page that
  lost its connection comes back.

The behaviours that are hard to test are listed as hazards in `PROJECT.json`,
each at the line where it bites, with the properties that cover it.

## 2. The modules

| Module | What it is |
|---|---|
| `JobLifecycle` | scheduler, runner life cycle, control and delete requests, watchdog, boot, shutdown, crash, job rows |
| `JobService`, `JobLifecycleImplements` | what they promise together, and the refinement mapping |
| `MCJobLifecycle` | symmetry for its TLC instances |
| `JobLifecycleProofs` | type correctness and the registry invariant, proved |
| `JobLifecycleRunnerProofs` | the shutdown event and the status of a polled job, proved |
| `JobLifecycleStopProofs` | the lock of `stop_job`, the shutdown, and the refinement of JobService, proved |
| `LeadPipeline` | scanner, queue, worker, capture, the three writes, restart |
| `LeadRecorder`, `LeadPipelineImplements` | what the ledger promises, and the refinement mapping |
| `MCLeadPipeline` | buyers, keys and constraints of its TLC instances |
| `LeadPipelineProofs` | all safety properties of LeadPipeline and the refinement of LeadRecorder, proved |
| `BrowserProfile` | poll loop and action worker on the managers and Chromiums of one profile directory |
| `BrowserProfileProofs` | the browser a job holds, and its recycling, proved |
| `FeedNavigation` | a poll cycle up to its rows: target page, login, recoveries of the feed |
| `LeadCapture` | EXTENDS FeedNavigation: the rest of the cycle, rows, panels, reveal, contact |
| `MCLeadCapture` | two rows of one product, one of them without a word that tells products apart |
| `LeadCaptureProofs` | pauses, recoveries and contacts of a cycle, proved |
| `KeywordJob` | the cycle on a generic page, its rules, and the lead files it shares with the leads API |
| `MCKeywordJob` | two keywords, three rules |
| `KeywordJobProofs` | retries and deletes, proved |
| `Dashboard` | connection manager, both WebSocket handlers, and the page that reconnects |
| `DashboardProofs` | the registry of connections, proved |

JobLifecycle and LeadPipeline describe a poll cycle by how it ends and by what it
does to the queue; BrowserProfile, FeedNavigation with LeadCapture, and KeywordJob
each open it up on one side: the browser, the page, the generic path.

### JobLifecycle

*Grain.*  One asyncio loop, so one action is what a coroutine does between two
awaits.  Where a failing database call lies between, failing is an alternative of
the action.

| Variable | Code |
|---|---|
| `phase` | where `lifespan` (main.py:31-74) is; `off` = no process |
| `row[j]` | `status`, `is_active`, age of `last_heartbeat` of a job row; the only variable a crash keeps |
| `reg[j]` | the entry of `_runners` and `_tasks`, which are always written together |
| `lockQ` | `_lock`: holder first, then waiters in FIFO order |
| `runner[r]` | a `JobRunner` and its task: program counter, shutdown event, pending cancellation, `_is_running`, whether the task ended with an exception |
| `call[a]` | where a request, the watchdog or the lifespan is inside the scheduler |
| `todo[a]` | what is left of a `for job in ...` loop (boot, watchdog, `shutdown_all`) |
| `raced[j]` | auxiliary, see OneTaskPerJob |

*Requests* read the row, then call the scheduler (`Request`, then `StartJob`,
`StopJob`, `RestartJob` or `DeleteJob`); the row may change in between.
`StartBody` and `StopBody` are what the scheduler does when it has the lock.
`stop_job` waits at most ten seconds for the task: `StopReturns`,
`StopTimesOut` and `StopRaises` are its three outcomes; the third re-raises the
task's exception in the caller.  `restart_job` looks at the task first, and
sleeps two seconds outside the lock (`pause`).

*The runner* goes created, marking (writes `running`), loading, then polls:
top, polling, waiting; or erring, backoff after a failed cycle; fatal when
the error handler fails itself; cleaning; done.  `DeliverCancel` is a
`CancelledError` at the current await; a cancellation that is pending is
delivered before anything else happens.  Before the `try` blocks of `start()`
(`job_runner.py:174`) it ends the task without a cleanup.  `OnTaskDone` is the
done-callback: it runs one loop iteration after the end of the task, and until
then the entry of a finished task is in the registry.

*Time* is abstracted: any sleep or timeout may end at any moment, and a fresh
heartbeat may be found stale at any moment, also when it is not 300 s old.
`GrowStale` makes both ages the watchdog looks at pass their limits at once.

*CallbacksRun* is the one statement about the ready queue that the properties
need: a callback or task that became ready is run before a request whose I/O
completes later.  Only reads of the row by new requests, watchdog rounds and the
first step of new tasks wait for it.  A call that already waits for the
scheduler does not, and may be served between the end of a task and its callback.

### LeadPipeline

A buyer stands for a matching row of the feed with the contact behind it.  A row
has two fingerprints: `Key` (product and city, known before the click,
`lead_fingerprint(text, {})`), and the contact's, known after, for which the
buyer itself stands.  `Rank` is priority and score of the keyword match, and
`Compatible` the pairs of rows that `lead_identity_matches` takes for the same
lead although their keys differ.  They are constants: the text heuristics behind
them are not modelled, and the properties hold whatever they answer.

| Variable | Code |
|---|---|
| `feed` | rows on the page; the site changes it at will |
| `queue`, `queued` | `_indiamart_lead_queue`, `_queued_lead_fingerprints` |
| `seen` | `_seen_lead_fingerprints`, split by kind of print: rows `pk:`, contacts, `partial:` |
| `retry` | `_partial_contact_retry_until`: absent, in the future (`cooling`), in the past (`over`) |
| `lock` | `_indiamart_action_lock` |
| `task` | program counter and item of the scanner (`scan`) and of the action worker (`work`) |
| `counted`, `logged`, `saved` | per lead: increments of `total_leads_detected`, `lead_extracted` events, rows of the CSV file; a crash keeps them |

`EnqueueMatches` is one scan: sort, cut to the cap, drop what is seen, queued or
cooling, then drain on this page or leave the queue to a worker.  `TakeItem` to
`Beat` are the drain, the same code in both tasks.  `Click` may open another row
than the queued one (that is what `Compatible` and equal keys mean).  `Reveal`
marks the lead as seen; `Count`, `Log` and `AppendRow` then write it, and
`Fail` may strike before each of them.  `Start` loads what the file has.

Left out: rows that match no keyword; a second validation of the keyword before
queueing and clicking (it can only drop an item); the action rules run on a
captured lead; events other than `lead_extracted`; a lead whose contact
fingerprint changes between two readings of the same row.

### JobService and LeadRecorder

The two abstract specifications say what others may rely on, without the mechanism.
In *JobService* a runner is ready, polls, or was told to end; somebody may be waiting
for a job; the service is open or closed.  The mapping (`JobLifecycleImplements`) reads
`life` off program counter and shutdown event, `waiting` off the calls inside
`stop_job`, and `open` off the phase of the lifespan; lock, registry, callbacks and
cancellations vanish.  The refinement says more than the invariants of JobLifecycle
do one by one: *every* step of the detailed model, failing writes and crashes included,
is one that the service allows or changes nothing of it.

In *LeadRecorder* one lead at a time is counted, logged and appended, or given up at
any of these steps, and a contact in the file is not begun again.  The mapping
(`LeadPipelineImplements`) takes for `entries` the tasks that are in one of the three
steps: that there is never a second one is part of the claim, and is the work of the
action lock.

### BrowserProfile

A driver stands for a Playwright process with the Chromium it launched.  Chromium
itself refuses a profile that another one uses, so what can go wrong is not two
browsers on a profile but a browser nobody can close, on which every later launch
fails.

| Variable | Code |
|---|---|
| `kind` | whether the job is one with an action worker |
| `mgr[m]` | `_playwright`, `_context`, `_page` of a `BrowserManager`: each empty or the driver it belongs to |
| `browser` | `JobRunner._browser` |
| `running`, `chromium` | the drivers that are up; the one whose Chromium has the profile |
| `act[a]` | where the poll loop and the worker are: the statement of the runner, or the await inside the manager with the call it serves |
| `faults` | bound on deaths of Chromium or its page, failed launches and failed cycles |
| `forgot` | auxiliary: the runner has dropped a manager whose Chromium was up |

`Launch` and `CloseThen` are `launch()` and `close()` up to their first await, and
`ContextClosed`, `DriverStopped`, `EndPause`, `DriverStarted`, `ContextLaunched`,
`Dressed` what follows each of them, for whichever caller.  `Interrupt` is a
cancellation at any of these awaits: the `finally` of `close()` runs, and a context
that was being launched may or may not come up.  Script, cookies and page of a new
context are one await, `dress`, which may raise with Chromium up, and `PageCloses` takes
the page of a Chromium that stays: in both cases `is_alive` is false although the profile
is taken.  `GetOrCreate` replaces a manager that is not alive without closing it, as
`_get_or_create_browser` does (`job_runner.py:1345`), and `Raise` drops one that could not
be restarted (`job_runner.py:262`); `forgot` marks that its Chromium was up.
Rules run on the worker's own page (`PageScopedBrowser`), and only their screenshots
reach the manager (`RunRule`).

### FeedNavigation and LeadCapture

One cycle of an IndiaMART job on the scanner's page.  A page is a class of URLs and a
class of bodies; `Goto`, `ClickTab` and `ClickSidebar` say what each operation may
lead to, `Render` what the page does by itself.  FeedNavigation has one action per
await of `ensure_bltxn_leads_page` (`pc`, with the loop variable `attempt` and the
variant `cand`) and of the part of the cycle that calls it, at five places (`caller`).
`saw` says that its last look found rows.  The code looks in two ways, for the age of a
lead in `document.body` (`BodyRows`) and in the text of the first root it finds
(`RootRows`); a page whose rows are `aside` answers them differently.  The site may also
take the page to another host (`off`), which the code takes for logged out when its text
asks to log in, and for nothing in particular otherwise.

LeadCapture continues with each row: find it again, read the text in front, click in
up to three ways, wait for a panel, read it, reveal up to twice, read again, and save.
`panel` is the text that `_read_detail_panel_text` would return now, `stale` what it
returned before the click, or `NoText` when it raised or returned next to nothing.  What
is in front is a panel, a contact card, or the page itself with a card left in it, of any
row; the site changes it at any moment (`PanelChanges`), as the clock in it does.
`Includes` and `Alike` say which rows the tests on words take for each other, `Wordless`
which have no word to compare, `City` the address.  `Matches` is `_panel_matches_block`;
`MatchRaises` and `NameRaises` are the cases in which `_parse_name_from_panel` comes to
its last pattern, which is not a regular expression (`indiamart_leads.py:1963`): the
exception is swallowed by the click strategies and ends the cycle elsewhere.  `stray` is
auxiliary: since the click, a text with another row's contact has come in front.
Changes of the text are left out where none is read, because the site can as well act at
the next moment one is.

`page.evaluate` has no timeout, so that a page may hang at any of these reads
(`PageHangs`); the cycle then waits until the job is stopped, which `Restart` stands for.

### KeywordJob

`page` is what the keywords would find; `cooling`, `results` and `pc` are
`CooldownTracker` and the loop of `_handle_detection_results`; `rule` and `attempts`
are the loops of `execute_chain` and `execute_rule`, and `received` counts what the other
side of a webhook has got in this chain, which an attempt that failed may be part of.  The
rules that are told apart are those that post, those that open and write an inquiry, and
all others.  `file` holds the rows of the two CSV files (matches go to a file named after
the job, inquiries of rules to another), numbered as they are written.  A user picks a row from a list (`pick`) and deletes it
later by the id it had; `shifted` marks that a row of that file was removed meanwhile,
the case in which the id names another row.  After a new start of the process no id of
the old one is found, because `hash()` is different.

### Dashboard

`reg` is the entry of `_connections` of one user, whose tabs share a client id. `sock[s]`
is a connection and its handler's program counter, from `connect()` with the awaits at
which another handler may come in, to the loop that queries, sends and waits three
seconds; `endpoint` chooses between `websocket_dashboard`, which looks whether it is still
registered when it has sent an update, and `websocket_job`, which looks before.  `tab[p]`
holds the refs of `DashboardHome.tsx`: the socket, whether its `onclose` has run, the
timer and `wsReplacingRef`.

## 3. The runs

| Run | Asks | Instance |
|---|---|---|
| LifecycleOneJob | all safety properties of JobLifecycle, and ImplementsService | 1 job, 2 runner objects, 1 request, all requests, database faults |
| LifecycleProgress | RequestsReturn, DeadJobRevived, DeletedJobEnds | 1 job, 1 runner object, 1 request, no faults, FairSpec |
| LifecycleHang | HungJobRecovered is *violated* | 1 runner object, FairSpec |
| LeadLedger | LedgerOrder, OneRowPerContact, QueueMatchesFingerprints, NoSecondClick, and ImplementsRecorder | 2 buyers with keys of their own, one of which may be opened when the other is looked for; page, database and file faults; a cap of 2 |
| LeadProgress | SkippedIsSaved, BestRowSaved | 2 buyers with keys of their own, a cap of 1, page and load faults, FairSpec |
| LeadLost | SkippedIsSaved is *violated* | database faults |
| BrowserProfile | JobHoldsBrowser, RecycleSparesWorker, BrowserRecovers | both kinds of job, 3 managers, 3 drivers, 3 faults without and 1 with a worker, FairSpec |
| BrowserLost | BrowserAutoRestarts is *violated* | 1 fault, FairSpec |
| PageWork | PauseHasCause, SeenRowsAreKept, ContactBelongs, ContactIsSupported, CycleEnds, LogoutNoticed | 2 rows of one product from two cities, 4 kinds of text, FairSpec |
| RuleJob | RetriesBoundEffect, DeleteHitsSeen, KeywordDetected, ChainEnds | 2 keywords, 3 rules, 2 attempts, 2 rows |
| Dashboard | RegisteredIsServed, EndSparesOthers, ReplacedEnds | 2 tabs, 3 connections, both handlers |
| DashboardDead | PageReconnects is *violated* | 1 tab, 2 connections, FairSpec |

*Bounds.*  One job is enough for the safety of the registry, because no entry is shared
between jobs and the lock is contended by request, watchdog and lifespan already; the same
properties are proved for any number of jobs and runner objects (section 4).  Two runner
objects are what one job can have before its registry entry is lost: the task that ended
but was not called back, and its successor.  Runner objects are reused when they are free.
In the lead runs `MaxCount` saturates the ledger: it tells 0, 1 and "2 or more" apart,
which is what OneRowPerContact and LedgerOrder need (a difference beyond saturation is a
difference already at the step before it).  `FewCounted` stops a behaviour when more than
two leads were counted; states at the bound are still checked.  LeadProgress has no such
bound, because a liveness property would be checked on cut behaviours.  Its cap of one row
makes the better row hide the other at every scan, until it is captured and for ever
after; the queue then never holds more than the scanner drains itself, so that the worker
takes part in LeadLedger only.  In BrowserProfile three managers are what a job can have
at one time, the runner's, the worker's and the new one, and a driver is used again when
nobody refers to it; three faults let a launch fail, Chromium or its page die and a cycle
fail in one behaviour. In PageWork two rows suffice: a panel belongs to the row that was
clicked or to another, and the two differ in the one thing, the address, that the code can
tell them by when it shows it.  How often and when the site changes page and panel is not
bounded.  In RuleJob two rows are the fewest among which a delete can hit the wrong one; a
further append fails, which the code allows anyway.  In Dashboard three connections are an
old one, the one that replaces it and another tab's.

*Fairness.*  `FairSpec` of JobLifecycle assumes what the event loop gives:
coroutines that can go on go on (`SchedulerStep`, `WatchdogStep`; strong fairness,
because `CallbacksRun` and a runner object that is not free yet disable them for
moments), callbacks and cancellations are delivered, time passes, and the restart
policy of the container boots the process again.  It assumes nothing of pages and
browsers, which may hang for ever, nor that anybody sends a request, nor a
shutdown.  DeletedJobEnds states its extra assumption itself: `Answering`, a
browser that answers in the end.  `FairSpec` of LeadPipeline assumes that both
tasks go on, cool-downs pass, and the scanner does its periodic deep scan.  It does not
assume that the worker is ever idle, that the queue is ever empty, or anything of the
site.  What the site owes is the hypothesis `SiteAnswers` of BestRowSaved: the worker gets
a page, and of the infinitely many times the row is clicked, or its contact looked for,
one succeeds.  It is stated for the row in question only, so that the others may be
clicked in vain for ever.

BrowserProfile and RuleJob assume that every await ends: launches and waits of the driver
have timeouts, and the event loop resumes who waits.  PageWork assumes it of gotos, clicks
and waits, which have timeouts, and of reads as long as the page answers: a page that
hangs takes the cycle to `hung`, which CycleEnds and LogoutNoticed name as an outcome.  Of
the site PageWork assumes nothing.  RuleJob adds that cool-downs pass and
that a match that is to be recorded is not refused by the database each time.
`ServerSpec` of Dashboard runs the handlers; `FairSpec`, under which PageReconnects
fails all the same, adds that timers fire, `onclose` is called, and a server that is
asked again and again accepts once.

*What the passing runs show*, beyond the comments of the properties:

* OneTaskPerJob holds except in one window, which `raced` marks: `start_job` served
  between the end of a task and its callback.
* StatusTellsPolling says `running or recovering`, and no more: after a failed
  cycle a job stays `recovering` for ever although it polls well again, and the
  watchdog, which looks only at `running`, no longer watches it.
* RequestsReturn holds although runners hang, thanks to the ten-second timeout.
* DeadJobRevived holds although a crash, or a runner cancelled before its first step, may
  leave a row `running` with no runner.  Database faults are not part of that run.
* BestRowSaved is about the best row of the feed.  A lower one may wait for ever: ten
  captured rows above it fill the cap of each scan (`job_runner.py:529`), and better rows
  that are rejected and queued again stay ahead of it in the queue (`job_runner.py:577`).
* JobHoldsBrowser holds for a plain job through failed launches, deaths, closed pages and
  cancellations, until the runner drops a manager whose Chromium is up (`forgot`), which it
  does in two places and BrowserLost shows the consequence of.  For a job with a worker it
  holds only as long as nothing fails: when Chromium dies, loop and worker both launch,
  `GetOrCreate` replaces the manager that the worker goes on using, and the worker's
  Chromium may end up in a manager nobody refers to.  (`launch()` has a comment "Close
  stale context before relaunch", which is true of one manager only.)
* BrowserRecovers is claimed for plain jobs, and behaviours without `forgot`, for the same
  reasons.
* ContactBelongs excludes `stray`: the reveal clicks a control of *any* row in view, and
  a contact card that greets a buyer is accepted without the product's name, so that
  another buyer's contact may be read when the site brings another row's panel in front.
  It also excludes a row for which no text could be read before the click
  (`job_runner.py:864`): then nothing tells a panel that was open already from a new one
  (`indiamart_leads.py:2095`), and an old panel is accepted.  ContactIsSupported is what
  remains true of every contact that is saved.  It says less than one might hope: a panel
  of the same city that names *another* product is accepted too if it greets a buyer
  (`indiamart_leads.py:2117`).
* SeenRowsAreKept speaks of looks that end the recovery.  What the look after the hard
  reload finds is not used: the loop continues (`indiamart_page.py:987`) past the comment
  "If we have time markers, we're done" (`:989`), and the second attempt loads the page
  again.
* PauseHasCause and LogoutNoticed are the two halves of telling a logged-out page from a
  slow one.  LogoutNoticed has two exceptions: a job without active keywords returns before
  it looks (`job_runner.py:280`), and portable cookies that the site answers with a
  sign-in page of another host are tried again in every cycle, because
  `seller_session_is_authenticated` (`indiamart_page.py:1028`) takes any page that is not
  the marketing page, also one that cannot be read, for authenticated.  The second scan of a cycle (`job_runner.py:414`) may read the rows of a
  feed other than Recent, which the first scan takes care not to.
* RetriesBoundEffect allows a webhook to be received once per attempt, also when each
  attempt but the last seemed to fail.
* DeleteHitsSeen holds although the job appends; it does not when a row of the same file
  is deleted between the list and the delete, nor when the rewrite fails, in which case
  the request reports an error and rows are missing.
* ReplacedEnds: when two connections of a user are made at the same time neither sees
  the other, and the one that registers first ends only because it asks whether it is
  still registered.  Two tabs of one user replace each other for ever.

*What the violated ones show* (`findings` in `PROJECT.json` quotes the lines):

* Hang: the watchdog detects a hung poll and asks for a restart, which
  `restart_job` refuses because the task is not done.
* Lost: a lead is marked as seen before it is written; if a write fails the runner
  skips it as a duplicate as long as it lives.  A crash between counter and file
  has the opposite effect: the next run counts the buyer again (`counted` may
  exceed one, `saved` may not).
* BrowserLost: a page that closes alone, or that cannot be opened in a new Chromium, makes
  `is_alive` false.  The next cycle replaces the manager (`job_runner.py:1345`), nobody
  refers to the Chromium any more that has the profile directory, and each launch from
  then on fails, until the process ends.
* DashboardDead: on every reconnect `connectWs` sets the flag that tells `onclose` not
  to reconnect, for a socket whose close event has already come.  The flag stays set and
  swallows the close event of the new connection.

*Seen while modelling, and claimed by no run:*  a start served between the end of a task
and its callback leaves a runner without a registry entry (`raced`).  A graceful shutdown
leaves every job `stopped`, and boot starts only `running` and `recovering` ones.  The
second of two buyers of one product in one city is never opened, and ten captured rows
at the top of the feed hide the rows below them.

## 4. The proofs

Proved is every invariant and every action property that a run checks, and both
refinements, from the ASSUMEs of the modules only: for any finite or infinite sets of
jobs, runner objects, clients, rows, keys, pages and connections, any ranks, rules, caps,
kinds of request and faults.  The ASSUMEs say that constants have the types they are used
with, that the names for "nothing" name nothing, and that a set that a variable must take
a value from is not empty.  Three theorems exclude a fault, and say so.

| Theorem | Statement | Rests on |
|---|---|---|
| `TypeCorrect` | `Spec => []TypeOK` | itself |
| `RegistryCorrect` | `Spec => [](RegistrySound /\ OneTaskPerJob)` | TypeOK |
| `RegistrySoundCorrect` | `Spec => []RegistrySound` | RegistryCorrect |
| `StopExcludesStartCorrect` | `Spec => []StopExcludesStart` | TypeOK, PhaseTellsCalls |
| `NoStartWhileStoppingCorrect` | `Spec => NoStartWhileStopping` | TypeOK, PhaseTellsCalls |
| `NoPollAfterShutdownCorrect` | `Spec => NoPollAfterShutdown` | TypeOK, CancelPending |
| `StatusTellsPollingCorrect` | `Spec => []StatusTellsPolling` | TypeOK, Registry |
| `ServiceCorrect` | `Spec => Service!Spec` | TypeOK, Registry, CancelPending, PhaseTellsCalls |
| `PipelineTypeCorrect` | `Spec => []TypeOK` | Typed |
| `LedgerOrderCorrect` | `Spec => []LedgerOrder` | Typed, Exclusive, Ordered |
| `QueueCorrect` | `Spec => []QueueMatchesFingerprints` | Typed |
| `NoSecondClickCorrect` | `Spec => NoSecondClick` | Typed, Exclusive, FreshItem |
| `OneRowPerContactCorrect` | `Spec => []OneRowPerContact`, if loading the file never fails | Typed, Exclusive, Known |
| `SkippedIsSavedCorrect` | `Spec => []SkippedIsSaved`, if database and file can be written | Typed |
| `RecorderCorrect` | `Spec => Recorder!Spec`, if loading the file never fails | Typed, Exclusive, Known |
| `BrowserTypeCorrect` | `Spec => []TypeOK` | Typed, LoopOK, WorkOK, NoWorker |
| `RecycleSparesWorkerCorrect` | `Spec => []RecycleSparesWorker` | the same |
| `JobHoldsBrowserCorrect` | `Spec => []JobHoldsBrowser` | the same, CalmHolds |
| `CaptureTypeCorrect` | `Spec => []TypeOK` | Fed, CaptureTypeOK, OwnPanel, Accepted (one invariant) |
| `PauseHasCauseCorrect` | `Spec => []PauseHasCause` | the same |
| `SeenRowsAreKeptCorrect` | `Spec => SeenRowsAreKept` | the same |
| `ContactIsSupportedCorrect` | `Spec => []ContactIsSupported` | the same |
| `ContactBelongsCorrect` | `Spec => []ContactBelongs` | the same |
| `KeywordJobTypeCorrect` | `Spec => []TypeOK` | Filed |
| `RetriesBoundEffectCorrect` | `Spec => []RetriesBoundEffect` | TypeOK, Tried |
| `DeleteHitsSeenCorrect` | `Spec => DeleteHitsSeen` | Filed, SeenThere |
| `DashboardTypeCorrect` | `Spec => []TypeOK` | itself |
| `RegisteredIsServedCorrect` | `Spec => []RegisteredIsServed` | TypeOK |
| `EndSparesOthersCorrect` | `Spec => EndSparesOthers` | TypeOK |

The strengthened invariants were themselves checked by TLC before they were proved.  The
arguments, and why the strengthenings are needed:

*JobLifecycle*

* *Registry.*  RegistrySound and OneTaskPerJob are inductive together, but neither
  alone: that a registered runner belongs to the job is what makes a start
  overwrite no entry but the one of a finished task, and that an unregistered task
  implies `raced` is what lets the callback clear the entry without losing another
  task.
* *Stop.*  `PhaseTellsCalls` says who can be inside the scheduler in each phase of
  the process: nobody before it serves, no request while it drains, no watchdog
  once it stops the jobs, and of the lifespan only stops.  Without it boot, which
  ends in the same `StartBody` as a request, could run while somebody holds the
  lock, and a request could start a job behind the shutdown.
* *Shutdown event.*  `CancelPending`: at the head of the loop, where the event is not
  looked at any more, a runner with the event set also has a cancellation pending,
  because `_run_loop` tests the event on the way there and `stop_job` sets both.  The
  same holds before its first step, which clears the event: a stop is not forgotten
  there, because the cancellation ends the task before it.
* *Status.*  The only writers of a status are the runners of the job, and by
  OneTaskPerJob there is one; the delete endpoint is the only other, and a deleted
  row never comes back.
* *Service.*  One lemma per group of actions says which step of JobService it is, or that
  it is none: a start is a start of the service only because the lock holder's job has
  nobody waiting for it (Stop) and the service is open (PhaseTellsCalls); a runner polls
  only if it was not told to end (CancelPending); and an expired session, which sets the
  event of its own runner, makes the poll it is in the last.

*LeadPipeline*

* *Ledger.*  `Exclusive`: only the holder of the action lock drains.  `Ordered`
  adds what holds between two writes: the lead in hand is one ahead in the earlier
  place (or that place is at the bound of the model).
* *Click.*  `FreshItem`: an item is checked when it is taken, and `Exclusive` keeps
  the other task from learning a contact before the click.
* *One row.*  `Known`: while a runner is up it has seen every contact in the file,
  and the contact it is about to save is not in the file.  The step that needs the
  assumption is `Start`: when the file cannot be read, the runner begins with nothing seen
  (`job_runner.py:188`) and does write rows it already has.
* *Recorder.*  By `Exclusive` the set of entries has at most one element, so that a step
  of a task in one of the three writes is the recorder's; and the entry that `Reveal`
  begins is allowed because of `Known`.  Hence the same assumption.

*BrowserProfile*

* *Tasks.*  `LoopOK` and `WorkOK` say which call each task can be inside of at each await,
  and that the poll loop only ever works on the runner's manager: that call and await fit
  together is what the `then` of `close()` relies on to know where it was called from.
* *Recycling.*  The loop recycles only when there is no worker, and creates one only from
  a scan; the invariant has to say so for each await of the recycling.
* *Held.*  `LoopHolds` gives, for every await of `launch()` and `close()`, the driver the
  manager's fields name: the fields are cleared only after the driver is stopped, and the
  new driver is stored before Chromium is launched.  Between two calls the runner's manager
  names whatever Chromium has the profile, alive or not; only a step that sets `forgot`
  lets go of it.  `NothingFails` and `WorkHolds` are the case with a worker: without a
  failure what is up is alive in the eyes of `is_alive` too, so that the worker finds the
  runner's manager alive and never launches, which is exactly what the first fault breaks.

*FeedNavigation and LeadCapture*

* *Facing.*  Along the feed's program counter: everywhere but between cycles, before the
  first goto, in the backoff, in a pause and in a page that hangs, the cycle is on a page
  that was loaded; cookies are restored and the job paused only in front of a logged-out
  one; and the rows that ended a recovery are on the page until it returns or leaves
  another feed.
* *Contact.*  `OwnPanel`: a text with a contact that differs from the one before the click
  is the row's own, unless another row's came in front since (`stray`).  `Accepted`: a text
  whose contact was taken has passed `_panel_matches_block` for the row in hand
  (`FromRow`, with the two exceptions `stray` and `NoText`), through reveal, second reading
  and fallback; between rows no text is kept.

*KeywordJob*

* *Retries.*  `Tried`: the rule in hand has been received at most as often as it was
  attempted, those before it at most as often as they may be, and those behind it not at
  all.  The bound itself is not inductive: it says nothing about how many attempts are left.
* *Delete.*  `Filed`: a row has one place in one file, because numbers are given once.
  `SeenThere`: the row that was listed is where it was until a row of its file is removed,
  appends going behind it.  The lemmas about `RemoveAt`, and about files of which rows were
  lost (`Thins`), carry `Filed` through deletes and rewrites that fail.

*Dashboard*

* *Registry.*  A handler registers itself in the step in which `accept()` has returned and
  is served from then on; it leaves the loop only through `disconnect`, which forgets the
  registration if it is its own.  Between two handlers nothing is shared but the entry:
  a page's steps and the other handlers leave a handler where it is (`PageFrame`,
  `HandlerFrame`).

Two things came out of proof attempts that the runs had not shown.  A contact card is
accepted for a row whose product it does not name (section 3), which the rows of PageWork
do not show because they are of one product.  And in BrowserProfile a new runner could
begin between the close of the old one's browser and the moment its task is forgotten,
where the code has no await.

*Model-checked only:* the liveness properties, because the prover has no ENABLED and hence
no fairness: RequestsReturn, DeadJobRevived, DeletedJobEnds, BestRowSaved, BrowserRecovers,
CycleEnds, LogoutNoticed, KeywordDetected, ChainEnds, ReplacedEnds; and the four
violations, which are counterexamples on an instance.

## 5. Plan

1. Done: the models of section 2, their runs, and the proofs of section 4.
2. Next, proofs of what the liveness properties rest on and what is a safety property of
   its own: that a waiting request has a task that will be called back (RequestsReturn),
   that a deleted job's runner is told to end at its next look at the row
   (DeletedJobEnds), and that the best row of the feed, when it is neither saved nor
   queued, is one the next scan takes (BestRowSaved).

## 6. Not modelled

* What the text heuristics make of a text, and the scripts run in the page: their input
  is the DOM of a third-party site.  Fingerprints, identity of rows, and what a panel
  shows are abstract.
* Two jobs that use the default profile at once, and a second cancellation that
  interrupts `_cleanup` (after a stop that timed out), in BrowserProfile.
* Where portable cookies come from; that they may be stale is modelled.
* The watchdog cancelled while it waits in `stop_job`, where it swallows its cancellation:
  that takes two jobs, with which JobLifecycle is beyond TLC here.
* Renamed jobs (the CSV file has the job's name), edited keywords (the pattern cache is
  never invalidated), and the counters of a job other than that of leads, with
  `reset_stats`.
* A process that dies between the truncation and the rewrite of a lead file; a rewrite
  that fails, with the same effect, is modelled.
* A token that is refused closes the connection before it is accepted, so the page never
  sees the code 4001 for which it would refresh the token; that branch is left out.
* `broadcast` of the connection manager, the warm-page tasks of the runner, and
  `WatchdogService.stop`: nothing calls or creates them.
* CRUD of users, keywords and rules, reports and exports, login scripts, migrations.

The components are listed in `PROJECT.json` with the reason each is left out, the hazards
no property covers with theirs.
