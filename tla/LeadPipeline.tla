----------------------------- MODULE LeadPipeline -----------------------------
(***************************************************************************)
(* How one job captures IndiaMART buyer leads (job_runner.py and           *)
(* lead_store.py): the scanner, which is the runner's poll loop, queues    *)
(* the matching rows of the Recent feed and drains the queue itself, or    *)
(* leaves it to the action worker, a second task of the runner.  Draining  *)
(* an item clicks its row, reads the buyer's contact, counts the lead in   *)
(* the database, logs the event and appends a row to the job's CSV file,   *)
(* from which the next runner of the job loads what it must not repeat.    *)
(*                                                                         *)
(* A buyer stands for a row of the feed with the contact behind it, and    *)
(* only rows that match a keyword are modelled.  A row is fingerprinted    *)
(* twice: by Key, its product and city, before it is clicked; by the       *)
(* contact (the buyer itself) after.  What page and site answer is left    *)
(* open, and an action is what a task does from one await to the next.     *)
(***************************************************************************)
EXTENDS Naturals, FiniteSets, FiniteSetsExt

CONSTANTS
    Buyers,      \* matching rows of the Recent feed
    Keys,        \* fingerprints "pk:product|city"
    Key,         \* lead_fingerprint(block.text, {}) of a buyer's row
    Rank,        \* priority and score of the keyword match of a row
    Compatible,  \* pairs of rows of other keys that lead_identity_matches accepts
    MaxPerScan,  \* _MAX_LEADS_PER_SCAN
    MaxCount,    \* bound: the ledger does not tell larger numbers apart
    Faults       \* what may fail: "page", "db", "csv", "load"

ASSUME SomeBuyer        == Buyers # {}
ASSUME DistinctPrints   == Buyers \cap Keys = {}
ASSUME KeyIsKey         == Key \in [Buyers -> Keys]
ASSUME RankIsNumber     == Rank \in [Buyers -> Nat]
ASSUME CompatiblePairs  == Compatible \subseteq Buyers \X Buyers
ASSUME BoundsAreNumbers == MaxPerScan \in Nat \ {0} /\ MaxCount \in Nat \ {0}
ASSUME KnownFaults      == Faults \subseteq {"page", "db", "csv", "load"}

VARIABLES
    feed,     \* rows on the Recent feed
    queue,    \* _indiamart_lead_queue: the rows of its items
    queued,   \* _queued_lead_fingerprints
    seen,     \* _seen_lead_fingerprints, by kind: of rows, of contacts, "partial:" of rows
    retry,    \* _partial_contact_retry_until: none, cooling (not reached yet) or over
    lock,     \* _indiamart_action_lock: its holder
    task,     \* task[a]: the scanner and the worker
    counted,  \* counted[f]: increments of total_leads_detected for lead f
    logged,   \* logged[f]: lead_extracted events
    saved     \* saved[f]: rows of the CSV file

memory == <<queue, queued, seen, retry, lock>>
ledger == <<counted, logged, saved>>
vars   == <<feed, memory, task, ledger>>

-----------------------------------------------------------------------------
(* Types.                                                                  *)

Actors == {"scan", "work"}
Prints == Buyers \cup Keys   \* of a lead with a contact, and of a partial one
Free   == "free"

Inside == {"drain", "verify", "extract", "count", "log", "append", "beat"}
Pcs    == {"off", "wait", "cleaning", "created"} \cup Inside
Task   == [pc : Pcs, item : Buyers, print : Prints]

AnyBuyer == CHOOSE b \in Buyers : TRUE
NoTask   == [pc |-> "off", item |-> AnyBuyer, print |-> AnyBuyer]
NoSeen   == [rows |-> {}, contacts |-> {}, partials |-> {}]
KeysOf(S) == {Key[b] : b \in S}

-----------------------------------------------------------------------------
(* The runner object: its start, its end, and the end of the process.      *)

At(a, pc)   == task[a].pc = pc
GoTo(a, pc) == task' = [task EXCEPT ![a].pc = pc]
Rest(a, pc) == task' = [task EXCEPT ![a] = [NoTask EXCEPT !.pc = pc]]
Up          == task["scan"].pc \notin {"off", "cleaning"}
Stopping    == task["scan"].pc = "cleaning"

\* Fault: the partial rows block their buyers, too.
LoadedWithPartials == {f \in Prints : saved[f] > 0}
\* Fault: what is counted, not what is saved, is never done again.
LoadedFromCounter  == {b \in Buyers : counted[b] > 0}
\* load_seen_lead_fingerprints: rows with a contact, by the contact's fingerprint.
Loaded == {b \in Buyers : saved[b] > 0}

\* A runner that cannot load the job or the file starts with nothing seen.
Start ==
    /\ At("scan", "off") /\ At("work", "off")
    /\ GoTo("scan", "wait")
    /\ \/ seen' = [NoSeen EXCEPT !.contacts = Loaded]
       \/ "load" \in Faults /\ seen' = NoSeen
    /\ UNCHANGED <<feed, queue, queued, retry, lock, ledger>>

Forget ==
    /\ queue' = {} /\ queued' = {} /\ seen' = NoSeen /\ lock' = Free
    /\ retry' = [k \in Keys |-> "none"]
    /\ task' = [a \in Actors |-> NoTask]
    /\ UNCHANGED <<feed, ledger>>

\* The scanner is cancelled wherever it is, or ends after an expired session;
\* the worker goes on until the cleanup cancels it.
Stop ==
    /\ Up
    /\ Rest("scan", "cleaning")
    /\ lock' = IF lock = "scan" THEN Free ELSE lock
    /\ UNCHANGED <<feed, queue, queued, seen, retry, ledger>>

Cleanup == Stopping /\ Forget
Crash   == Up /\ Forget

-----------------------------------------------------------------------------
(* The scanner.                                                            *)

WorkerIdle == At("work", "off")

\* Fault: the matches are cut before they are sorted.
UnsortedCut(V) == {M \in SUBSET V : Cardinality(M) = Min({MaxPerScan, Cardinality(V)})}
\* The first MaxPerScan of the matches, best first; those seen before count.
Cut(V) == {M \in SUBSET V :
             /\ Cardinality(M) = Min({MaxPerScan, Cardinality(V)})
             /\ \A x \in M, y \in V \ M : Rank[x] >= Rank[y]}

Queueable(M) == {b \in M : /\ Key[b] \notin seen.rows \cup queued
                           /\ retry[Key[b]] # "cooling"}

\* Of two rows with one key the first is queued.
Batch(M) == {S \in SUBSET Queueable(M) :
               /\ KeysOf(S) = KeysOf(Queueable(M))
               /\ \A b \in S, c \in Queueable(M) :
                     Key[b] = Key[c] => b = c \/ (c \notin S /\ Rank[b] >= Rank[c])}

\* _enqueue_indiamart_matches, then the hot path when nobody drains the queue,
\* or else the worker, if there is none yet and there is something to do.
EnqueueMatches(V) ==
    \E M \in Cut(V) : \E S \in Batch(M) :
        LET drain  == S # {} /\ lock = Free /\ WorkerIdle
            worker == ~drain /\ queue \cup S # {} /\ WorkerIdle
        IN  /\ queue'  = queue \cup S
            /\ queued' = queued \cup KeysOf(S)
            /\ retry'  = [k \in Keys |-> IF k \in KeysOf(S) THEN "none" ELSE retry[k]]
            /\ lock'   = IF drain THEN "scan" ELSE lock
            /\ task'   = [task EXCEPT !["scan"].pc = IF drain THEN "drain" ELSE @,
                                      !["work"].pc = IF worker THEN "created" ELSE @]
            /\ UNCHANGED <<feed, seen, ledger>>

\* A scan reads what is in the window, or from time to time the whole feed.
VisibleScan == At("scan", "wait") /\ \E V \in SUBSET feed : EnqueueMatches(V)
DeepScan    == At("scan", "wait") /\ EnqueueMatches(feed)

-----------------------------------------------------------------------------
(* Draining the queue, in the scanner or in the worker.                    *)

\* The worker waits for the lock, then for its page.
BeginWork ==
    /\ At("work", "created") /\ lock = Free
    /\ lock' = "work" /\ GoTo("work", "drain")
    /\ UNCHANGED <<feed, queue, queued, seen, retry, ledger>>

LeaveTask(a) == Rest(a, IF a = "scan" THEN "wait" ELSE "off")

Leave(a) ==
    /\ At(a, "drain")
    /\ queue = {} \/ Stopping
    /\ lock' = Free /\ LeaveTask(a)
    /\ UNCHANGED <<feed, queue, queued, seen, retry, ledger>>

\* Fault: the fingerprint of an item that is taken stays queued.
KeepQueued(b) == UNCHANGED queued
Unqueue(b) == queued' = queued \ {Key[b]}

\* Fault: an item is not checked again when it is taken.
CoolingOnly(b) == retry[Key[b]] = "cooling"
\* Captured or put off while the item was in the queue.
Outdated(b) == Key[b] \in seen.rows \/ retry[Key[b]] = "cooling"

\* The queue is sorted, best first; the order of equals is left open.
TakeItem(a) ==
    /\ At(a, "drain") /\ ~Stopping
    /\ \E b \in queue :
          /\ \A c \in queue : Rank[b] >= Rank[c]
          /\ queue' = queue \ {b} /\ Unqueue(b)
          /\ \/ Outdated(b) /\ Rest(a, "beat") /\ UNCHANGED retry
             \/ /\ ~Outdated(b)
                /\ task' = [task EXCEPT ![a].pc = "verify", ![a].item = b]
                /\ retry' = [retry EXCEPT ![Key[b]] = "none"]
    /\ UNCHANGED <<feed, seen, lock, ledger>>

SameLead(c, b) == Key[c] = Key[b] \/ <<c, b>> \in Compatible

\* The row is found again on the live feed, maybe another one, and opened.
Click(a, c) ==
    /\ At(a, "verify")
    /\ c \in feed /\ SameLead(c, task[a].item)
    /\ task' = [task EXCEPT ![a].pc = "extract", ![a].print = c]
    /\ UNCHANGED <<feed, memory, ledger>>

NotVisible(a) == At(a, "verify") /\ Rest(a, "beat") /\ UNCHANGED <<feed, memory, ledger>>

CoolDown(a) == retry' = [retry EXCEPT ![Key[task[a].item]] = "cooling"]

\* The row does not open, or the panel that opens is not the row's.
ClickFails(a) ==
    /\ At(a, "verify") \/ At(a, "extract")
    /\ CoolDown(a) /\ Rest(a, "beat")
    /\ UNCHANGED <<feed, queue, queued, seen, lock, ledger>>

\* The contact is not revealed: a partial lead, saved once, and a later retry.
NoContact(a) ==
    LET k == Key[task[a].item] IN
    /\ At(a, "extract") /\ CoolDown(a)
    /\ seen' = [seen EXCEPT !.partials = @ \cup {k}]
    /\ IF k \in seen.partials
       THEN Rest(a, "beat")
       ELSE task' = [task EXCEPT ![a].pc = "count", ![a].item = AnyBuyer, ![a].print = k]
    /\ UNCHANGED <<feed, queue, queued, lock, ledger>>

\* lead_record_is_complete refuses the record; nothing is remembered.
Reject(a) == At(a, "extract") /\ Rest(a, "beat") /\ UNCHANGED <<feed, memory, ledger>>

\* Fault: the contact's fingerprint is not looked up.
RevealAgain(a) ==
    /\ At(a, "extract")
    /\ seen' = [seen EXCEPT !.rows = @ \cup {Key[task[a].item]},
                            !.contacts = @ \cup {task[a].print}]
    /\ task' = [task EXCEPT ![a].pc = "count", ![a].item = AnyBuyer]
    /\ UNCHANGED <<feed, queue, queued, retry, lock, ledger>>

\* The contact: a duplicate, or a new lead, which is marked seen before it is saved.
Reveal(a) ==
    /\ At(a, "extract")
    /\ seen' = [seen EXCEPT !.rows = @ \cup {Key[task[a].item]},
                            !.contacts = @ \cup {task[a].print}]
    /\ IF task[a].print \in seen.contacts
       THEN Rest(a, "beat")
       ELSE task' = [task EXCEPT ![a].pc = "count", ![a].item = AnyBuyer]
    /\ UNCHANGED <<feed, queue, queued, retry, lock, ledger>>

-----------------------------------------------------------------------------
(* Saving a lead: three writes, in three places.                           *)

Inc(n) == IF n < MaxCount THEN n + 1 ELSE n

\* Fault: a counter that cannot be written is ignored.
CountOrNot(a) ==
    /\ At(a, "count") /\ GoTo(a, "log")
    /\ \/ counted' = [counted EXCEPT ![task[a].print] = Inc(@)]
       \/ UNCHANGED counted
    /\ UNCHANGED <<feed, memory, logged, saved>>

Count(a) ==
    /\ At(a, "count")
    /\ counted' = [counted EXCEPT ![task[a].print] = Inc(@)]
    /\ GoTo(a, "log")
    /\ UNCHANGED <<feed, memory, logged, saved>>

Log(a) ==
    /\ At(a, "log")
    /\ logged' = [logged EXCEPT ![task[a].print] = Inc(@)]
    /\ GoTo(a, "append")
    /\ UNCHANGED <<feed, memory, counted, saved>>

\* append_lead_row, once the session of the event is closed; its failure is
\* logged and swallowed.
AppendRow(a) ==
    /\ At(a, "append")
    /\ \/ saved' = [saved EXCEPT ![task[a].print] = Inc(@)]
       \/ "csv" \in Faults /\ UNCHANGED saved
    /\ Rest(a, "beat")
    /\ UNCHANGED <<feed, memory, counted, logged>>

\* The action rules and the heartbeat after an item.
Beat(a) == At(a, "beat") /\ GoTo(a, "drain") /\ UNCHANGED <<feed, memory, ledger>>

\* An exception ends the drain: the item is dropped, the rest stays queued.  The
\* scanner backs off and polls again, the worker's task is over.
Fail(a) ==
    /\ \/ "page" \in Faults /\ task[a].pc \in {"created", "verify", "extract"}
       \/ "db" \in Faults /\ task[a].pc \in {"verify", "extract", "count", "log", "append", "beat"}
    /\ lock' = IF lock = a THEN Free ELSE lock
    /\ LeaveTask(a)
    /\ UNCHANGED <<feed, queue, queued, seen, retry, ledger>>

-----------------------------------------------------------------------------
(* The site and the clock.                                                 *)

FeedChanges(b) ==
    /\ feed' = IF b \in feed THEN feed \ {b} ELSE feed \cup {b}
    /\ UNCHANGED <<memory, task, ledger>>

RetryDue(k) ==
    /\ retry[k] = "cooling"
    /\ retry' = [retry EXCEPT ![k] = "over"]
    /\ UNCHANGED <<feed, queue, queued, seen, lock, task, ledger>>

-----------------------------------------------------------------------------
Init ==
    /\ feed = {} /\ queue = {} /\ queued = {} /\ seen = NoSeen /\ lock = Free
    /\ retry = [k \in Keys |-> "none"]
    /\ task = [a \in Actors |-> NoTask]
    /\ counted = [f \in Prints |-> 0]
    /\ logged  = [f \in Prints |-> 0]
    /\ saved   = [f \in Prints |-> 0]

DrainStep(a) ==
    \/ Leave(a) \/ TakeItem(a) \/ NotVisible(a) \/ ClickFails(a) \/ NoContact(a) \/ Reject(a)
    \/ Reveal(a) \/ Count(a) \/ Log(a) \/ AppendRow(a) \/ Beat(a)
    \/ \E c \in Buyers : Click(a, c)

Next ==
    \/ Start \/ Stop \/ Cleanup \/ Crash
    \/ VisibleScan \/ DeepScan \/ BeginWork
    \/ \E a \in Actors : DrainStep(a) \/ Fail(a)
    \/ \E b \in Buyers : FeedChanges(b)
    \/ \E k \in Keys : RetryDue(k)

Spec == Init /\ [][Next]_vars

\* The loop resumes its tasks, time passes, and the scanner polls again and does
\* a deep scan when it is due.
FairSpec ==
    /\ Spec
    /\ WF_vars(BeginWork) /\ SF_vars(DeepScan)
    /\ \A a \in Actors : WF_vars(DrainStep(a))
    /\ \A k \in Keys : WF_vars(RetryDue(k))

-----------------------------------------------------------------------------
(* Safety.                                                                 *)

TypeOK ==
    /\ feed \in SUBSET Buyers /\ queue \in SUBSET Buyers /\ queued \in SUBSET Keys
    /\ seen \in [rows : SUBSET Keys, contacts : SUBSET Buyers, partials : SUBSET Keys]
    /\ retry \in [Keys -> {"none", "cooling", "over"}]
    /\ lock \in Actors \cup {Free}
    /\ task \in [Actors -> Task]
    /\ counted \in [Prints -> Nat] /\ logged \in [Prints -> Nat] /\ saved \in [Prints -> Nat]

\* The fingerprints that keep the scanner from queueing a row twice are those
\* of the queue, however scanner and worker alternate and wherever they fail,
\* and no two items have the same one.
QueueMatchesFingerprints ==
    /\ queued = KeysOf(queue)
    /\ \A b, c \in queue : Key[b] = Key[c] => b = c

\* The CSV file never has a lead that the event log lacks, nor the log one that
\* the dashboard's counter lacks, whichever write fails or a crash interrupts.
LedgerOrder == \A f \in Prints : saved[f] <= logged[f] /\ logged[f] <= counted[f]

\* A buyer's contact has at most one row in the file, over any number of stops,
\* crashes and restarts, as long as the file can be loaded.
OneRowPerContact == \A b \in Buyers : saved[b] <= 1

\* A contact that the running job will skip as a duplicate is in the file, or
\* the task that found it is still on its way there.
SkippedIsSaved ==
    \A b \in seen.contacts :
        \/ saved[b] > 0
        \/ \E a \in Actors : task[a].pc \in {"count", "log", "append"} /\ task[a].print = b
        \/ Stopping

\* A runner never clicks for a row whose contact it has already got, although
\* the row may be queued again while the worker is reading that contact.
NoSecondClick ==
    [][\A a \in Actors : At(a, "verify") /\ task'[a].pc = "extract"
                         => Key[task[a].item] \notin seen.rows]_vars

-----------------------------------------------------------------------------
(* Liveness.                                                               *)

\* What the site owes a row that is tried again and again: a page for the
\* worker, a click that opens it or a row taken for it, and its contact.
SiteAnswers(b) ==
    /\ SF_vars(BeginWork)
    /\ SF_vars(\E a \in Actors, c \in Buyers : SameLead(c, b) /\ Click(a, c))
    /\ SF_vars(\E a \in Actors : Reveal(a) /\ SameLead(task[a].print, b))

BestOf(b, S) == b \in S /\ \A c \in S \ {b} : Rank[c] < Rank[b]

\* The best row of the feed is not starved by the cap of a scan, by a fuller
\* queue or by its cool-downs: if it stays the best while the job runs, a lead
\* that the code takes for it is saved with its contact, whatever failed before.
BestRowSaved ==
    \A b \in Buyers :
        SiteAnswers(b) /\ <>[](Up /\ BestOf(b, feed))
            => <>(\E c \in Buyers : SameLead(c, b) /\ saved[c] > 0)

=============================================================================
