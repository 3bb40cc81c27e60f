--------------------------- MODULE LeadPipelineProofs ---------------------------
(***************************************************************************)
(* Theorems about LeadPipeline, for any rows, keys, ranks and caps.  The   *)
(* faults are free, unless a theorem names those that it excludes.         *)
(***************************************************************************)
EXTENDS LeadPipelineImplements, TLAPS

-----------------------------------------------------------------------------
(* Types.                                                                  *)

\* A row that was opened has a contact behind it: what Reveal remembers of it
\* is the print of a contact, never the one of a partial lead.
Typed == TypeOK /\ \A a \in Actors : task[a].pc = "extract" => task[a].print \in Buyers

LEMMA Defaults ==
    /\ AnyBuyer \in Buyers
    /\ \A pc \in Pcs : [NoTask EXCEPT !.pc = pc] = [pc |-> pc, item |-> AnyBuyer, print |-> AnyBuyer]
    /\ NoTask \in Task
<1>1. AnyBuyer \in Buyers
  BY SomeBuyer DEF AnyBuyer
<1>2. QED
  BY <1>1 DEF NoTask, Task, Pcs, Prints

\* How a step changes the record of one task.
LEMMA TaskFrame ==
  ASSUME task \in [Actors -> Task], NEW a \in Actors, NEW pc \in Pcs
  PROVE  /\ GoTo(a, pc) => /\ task' \in [Actors -> Task]
                           /\ task'[a].pc = pc /\ task'[a].print = task[a].print
                           /\ \A c \in Actors \ {a} : task'[c] = task[c]
         /\ Rest(a, pc) => /\ task' \in [Actors -> Task]
                           /\ task'[a].pc = pc
                           /\ \A c \in Actors \ {a} : task'[c] = task[c]
         /\ \A f \in Prints :
               task' = [task EXCEPT ![a].pc = pc, ![a].item = AnyBuyer, ![a].print = f]
               => /\ task' \in [Actors -> Task]
                  /\ task'[a].pc = pc /\ task'[a].print = f
                  /\ \A c \in Actors \ {a} : task'[c] = task[c]
<1>1. AnyBuyer \in Buyers /\ AnyBuyer \in Prints
  BY Defaults DEF Prints
<1>2. ASSUME GoTo(a, pc)
      PROVE  /\ task' \in [Actors -> Task]
             /\ task'[a].pc = pc /\ task'[a].print = task[a].print
             /\ \A c \in Actors \ {a} : task'[c] = task[c]
  BY <1>2 DEF GoTo, Task
<1>3. ASSUME Rest(a, pc)
      PROVE  /\ task' \in [Actors -> Task]
             /\ task'[a].pc = pc
             /\ \A c \in Actors \ {a} : task'[c] = task[c]
  BY <1>1, <1>3, Defaults DEF Rest, Task
<1>4. ASSUME NEW f \in Prints,
             task' = [task EXCEPT ![a].pc = pc, ![a].item = AnyBuyer, ![a].print = f]
      PROVE  /\ task' \in [Actors -> Task]
             /\ task'[a].pc = pc /\ task'[a].print = f
             /\ \A c \in Actors \ {a} : task'[c] = task[c]
  BY <1>1, <1>4 DEF Task
<1>5. QED
  BY <1>2, <1>3, <1>4

LEMMA KeyType == \A b \in Buyers : Key[b] \in Keys
BY KeyIsKey

\* What one scan does to the queue and the tasks.
LEMMA EnqueueFrame ==
  ASSUME Typed, NEW V \in SUBSET Buyers, EnqueueMatches(V), task["scan"].pc = "wait"
  PROVE  /\ UNCHANGED <<feed, seen, ledger>>
         /\ task' \in [Actors -> Task]
         /\ \/ task'["scan"] = task["scan"] /\ lock' = lock
            \/ task'["scan"].pc = "drain" /\ lock = Free /\ lock' = "scan"
         /\ \/ task'["work"] = task["work"]
            \/ task["work"].pc = "off" /\ task'["work"].pc = "created"
         /\ retry' \in [Keys -> {"none", "cooling", "over"}]
         /\ \E S \in SUBSET Buyers :
               /\ queue' = queue \cup S /\ queued' = queued \cup KeysOf(S)
               /\ \A b \in S : Key[b] \notin queued
               /\ \A b, c \in S : Key[b] = Key[c] => b = c
<1> DEFINE drain(S)  == S # {} /\ lock = Free /\ WorkerIdle
           worker(S) == ~drain(S) /\ queue \cup S # {} /\ WorkerIdle
           Effect(S, d, w) ==
               /\ queue'  = queue \cup S
               /\ queued' = queued \cup KeysOf(S)
               /\ retry'  = [k \in Keys |-> IF k \in KeysOf(S) THEN "none" ELSE retry[k]]
               /\ lock'   = IF d THEN "scan" ELSE lock
               /\ task'   = [task EXCEPT !["scan"].pc = IF d THEN "drain" ELSE @,
                                         !["work"].pc = IF w THEN "created" ELSE @]
               /\ UNCHANGED <<feed, seen, ledger>>
<1>1. PICK M \in Cut(V) : \E S \in Batch(M) : Effect(S, drain(S), worker(S))
  BY DEF EnqueueMatches
<1>2. PICK S \in Batch(M) : Effect(S, drain(S), worker(S))
  BY <1>1
<1>3. S \subseteq Queueable(M) /\ M \subseteq V
  BY DEF Batch, Cut
<1>4. /\ S \in SUBSET Buyers
      /\ \A b \in S : Key[b] \notin queued
      /\ \A b, c \in S : Key[b] = Key[c] => b = c
  BY <1>3 DEF Batch, Queueable
<1>5. PICK d \in BOOLEAN, w \in BOOLEAN :
        Effect(S, d, w) /\ (d => lock = Free) /\ (w => task["work"].pc = "off")
  <2>1. /\ drain(S) \in BOOLEAN /\ worker(S) \in BOOLEAN
        /\ drain(S) => lock = Free
        /\ worker(S) => task["work"].pc = "off"
    BY DEF WorkerIdle, At
  <2> HIDE DEF drain, worker, Effect
  <2>2. QED
    BY <1>2, <2>1
<1>6. task \in [Actors -> Task] /\ {"drain", "created"} \subseteq Pcs
  BY DEF Typed, TypeOK, Pcs, Inside
<1>7. /\ task' \in [Actors -> Task]
      /\ task'["scan"] = [task["scan"] EXCEPT !.pc = IF d THEN "drain" ELSE @]
      /\ task'["work"] = [task["work"] EXCEPT !.pc = IF w THEN "created" ELSE @]
  BY <1>5, <1>6 DEF Task, Actors
<1>8. /\ \/ task'["scan"] = task["scan"] /\ lock' = lock
         \/ task'["scan"].pc = "drain" /\ lock = Free /\ lock' = "scan"
      /\ \/ task'["work"] = task["work"]
         \/ task["work"].pc = "off" /\ task'["work"].pc = "created"
  BY <1>5, <1>6, <1>7 DEF Task, Actors
<1>9. retry' \in [Keys -> {"none", "cooling", "over"}]
  BY <1>2 DEF Typed, TypeOK
<1>10. QED
  BY <1>2, <1>4, <1>7, <1>8, <1>9

\* The steps of a drain have the types, and keep to the task that takes them.
LEMMA DrainType ==
  ASSUME Typed, NEW a \in Actors, DrainStep(a) \/ Fail(a)
  PROVE  /\ Typed'
         /\ task[a].pc \in Inside \cup {"created"}
         /\ task'[a].pc \in Inside \cup {"wait", "off"}
         /\ task'[a].pc = "off" => a = "work"
         /\ task'[a].pc \in Inside => lock' = lock /\ task[a].pc \in Inside
         /\ \A c \in Actors \ {a} : task'[c] = task[c]
<1>1. /\ task \in [Actors -> Task] /\ task[a] \in Task
      /\ feed \in SUBSET Buyers /\ queue \in SUBSET Buyers /\ queued \in SUBSET Keys
      /\ seen \in [rows : SUBSET Keys, contacts : SUBSET Buyers, partials : SUBSET Keys]
      /\ retry \in [Keys -> {"none", "cooling", "over"}] /\ lock \in Actors \cup {Free}
      /\ counted \in [Prints -> Nat] /\ logged \in [Prints -> Nat] /\ saved \in [Prints -> Nat]
  BY DEF Typed, TypeOK
<1>2. /\ task[a].item \in Buyers /\ task[a].print \in Prints
      /\ Key[task[a].item] \in Keys /\ Keys \subseteq Prints /\ Buyers \subseteq Prints
  BY <1>1, KeyType DEF Task, Prints
<1>3. /\ Inside \subseteq Pcs /\ {"off", "wait"} \subseteq Pcs
      /\ Inside = {"drain", "verify", "extract", "count", "log", "append", "beat"}
  BY DEF Pcs, Inside
<1>4. \A n \in Nat : Inc(n) \in Nat
  BY BoundsAreNumbers DEF Inc
<1>5. ASSUME NEW pc \in Inside \cup {"wait", "off"}, Rest(a, pc) \/ GoTo(a, pc)
      PROVE  /\ task' \in [Actors -> Task] /\ task'[a].pc = pc
             /\ \A c \in Actors \ {a} : task'[c] = task[c]
  BY <1>1, <1>3, <1>5, TaskFrame
<1>6. ASSUME task' \in [Actors -> Task], task'[a].pc # "extract",
             \A c \in Actors \ {a} : task'[c] = task[c],
             UNCHANGED <<feed, queue, queued, seen, retry, lock, ledger>>
      PROVE  Typed'
  BY <1>1, <1>6 DEF Typed, TypeOK, ledger
<1>7. CASE Leave(a) \/ Fail(a)
  <2>1. PICK pc \in {"wait", "off"} : Rest(a, pc) /\ (pc = "off" => a = "work")
    BY <1>7 DEF Leave, Fail, LeaveTask, Actors
  <2>2. lock' \in Actors \cup {Free} /\ UNCHANGED <<feed, queue, queued, seen, retry, ledger>>
    BY <1>1, <1>7 DEF Leave, Fail
  <2>3. task[a].pc \in Inside \cup {"created"}
    BY <1>3, <1>7 DEF Leave, Fail, At
  <2>4. Typed'
    BY <1>1, <1>5, <2>1, <2>2 DEF Typed, TypeOK, ledger
  <2>5. QED
    BY <1>3, <1>5, <2>1, <2>3, <2>4
<1>8. CASE TakeItem(a)
  <2>1. PICK b \in queue :
          /\ queue' = queue \ {b} /\ queued' = queued \ {Key[b]}
          /\ \/ Rest(a, "beat") /\ UNCHANGED retry
             \/ /\ task' = [task EXCEPT ![a].pc = "verify", ![a].item = b]
                /\ retry' = [retry EXCEPT ![Key[b]] = "none"]
    BY <1>8 DEF TakeItem, Unqueue
  <2>2. /\ task' \in [Actors -> Task] /\ task'[a].pc \in {"beat", "verify"}
        /\ \A c \in Actors \ {a} : task'[c] = task[c]
    BY <1>1, <1>3, <1>5, <2>1 DEF Task
  <2>3. retry' \in [Keys -> {"none", "cooling", "over"}]
    BY <1>1, <2>1
  <2>4. Typed'
    BY <1>1, <1>8, <2>1, <2>2, <2>3 DEF TakeItem, Typed, TypeOK, ledger
  <2>5. QED
    BY <1>3, <1>8, <2>2, <2>4 DEF TakeItem, At
<1>9. ASSUME NEW c \in Buyers, Click(a, c)
      PROVE  /\ Typed' /\ task'[a].pc = "extract" /\ task[a].pc = "verify" /\ lock' = lock
             /\ \A d \in Actors \ {a} : task'[d] = task[d]
  <2>1. /\ task' \in [Actors -> Task] /\ task'[a].pc = "extract" /\ task'[a].print = c
        /\ \A d \in Actors \ {a} : task'[d] = task[d]
    BY <1>1, <1>2, <1>3, <1>9 DEF Click, Task
  <2>2. QED
    BY <1>1, <1>9, <2>1 DEF Click, At, Typed, TypeOK, memory, ledger
<1>10. CASE NotVisible(a) \/ Reject(a) \/ Beat(a)
  BY <1>3, <1>5, <1>6, <1>10 DEF NotVisible, Reject, Beat, At, memory, ledger
<1>11. CASE ClickFails(a)
  <2>1. retry' \in [Keys -> {"none", "cooling", "over"}]
    BY <1>1, <1>11 DEF ClickFails, CoolDown
  <2>2. QED
    BY <1>1, <1>3, <1>5, <1>11, <2>1 DEF ClickFails, At, Typed, TypeOK, ledger
<1>12. CASE NoContact(a) \/ Reveal(a)
  <2>1. PICK f \in Prints :
          \/ Rest(a, "beat")
          \/ task' = [task EXCEPT ![a].pc = "count", ![a].item = AnyBuyer, ![a].print = f]
    <3>1. CASE NoContact(a)
      BY <1>2, <3>1 DEF NoContact
    <3>2. CASE Reveal(a)
      <4>1. [task EXCEPT ![a].pc = "count", ![a].item = AnyBuyer]
            = [task EXCEPT ![a].pc = "count", ![a].item = AnyBuyer, ![a].print = task[a].print]
        BY <1>1 DEF Task
      <4>2. QED
        BY <1>2, <3>2, <4>1 DEF Reveal
    <3>3. QED
      BY <1>12, <3>1, <3>2
  <2>2. /\ task' \in [Actors -> Task] /\ task'[a].pc \in {"beat", "count"}
        /\ \A c \in Actors \ {a} : task'[c] = task[c]
    BY <1>1, <1>3, <1>5, <2>1, TaskFrame
  <2>3. seen' \in [rows : SUBSET Keys, contacts : SUBSET Buyers, partials : SUBSET Keys]
    <3>1. CASE NoContact(a)
      BY <1>1, <1>2, <3>1 DEF NoContact
    <3>2. CASE Reveal(a)
      <4>1. task[a].print \in Buyers
        BY <3>2 DEF Reveal, At, Typed
      <4>2. seen' = [seen EXCEPT !.rows = @ \cup {Key[task[a].item]},
                                 !.contacts = @ \cup {task[a].print}]
        BY <3>2 DEF Reveal
      <4>3. QED
        BY <1>1, <1>2, <4>1, <4>2
    <3>3. QED
      BY <1>12, <3>1, <3>2
  <2>4. retry' \in [Keys -> {"none", "cooling", "over"}] /\ task[a].pc = "extract"
    BY <1>1, <1>12 DEF NoContact, Reveal, CoolDown, At
  <2>5. UNCHANGED <<feed, queue, queued, lock, ledger>>
    BY <1>12 DEF NoContact, Reveal
  <2>6. Typed'
    BY <1>1, <2>2, <2>3, <2>4, <2>5 DEF Typed, TypeOK, ledger
  <2>7. QED
    BY <1>3, <2>2, <2>4, <2>5, <2>6
<1>13. CASE Count(a) \/ Log(a) \/ AppendRow(a)
  <2>1. /\ counted' \in [Prints -> Nat] /\ logged' \in [Prints -> Nat]
        /\ saved' \in [Prints -> Nat]
    BY <1>1, <1>4, <1>13 DEF Count, Log, AppendRow
  <2>2. /\ task' \in [Actors -> Task] /\ task'[a].pc \in {"log", "append", "beat"}
        /\ \A c \in Actors \ {a} : task'[c] = task[c]
    BY <1>3, <1>5, <1>13 DEF Count, Log, AppendRow
  <2>3. UNCHANGED <<feed, queue, queued, seen, retry, lock>> /\ task[a].pc \in Inside
    BY <1>3, <1>13 DEF Count, Log, AppendRow, At, memory
  <2>4. Typed'
    BY <1>1, <2>1, <2>2, <2>3 DEF Typed, TypeOK
  <2>5. QED
    BY <1>3, <2>2, <2>3, <2>4
<1>14. QED
  BY <1>3, <1>7, <1>8, <1>9, <1>10, <1>11, <1>12, <1>13 DEF DrainStep

\* The other steps.
LEMMA OtherType ==
  ASSUME Typed, ~\E a \in Actors : DrainStep(a) \/ Fail(a), [Next]_vars
  PROVE  Typed'
<1>1. /\ task \in [Actors -> Task] /\ {"wait", "cleaning", "created", "drain"} \subseteq Pcs
      /\ "scan" \in Actors /\ "work" \in Actors
  BY DEF Typed, TypeOK, Pcs, Inside, Actors
<1>2. NoSeen \in [rows : SUBSET Keys, contacts : SUBSET Buyers, partials : SUBSET Keys]
  BY DEF NoSeen
<1>3. CASE Start
  <2>1. Loaded \in SUBSET Buyers
    BY DEF Loaded
  <2>2. seen' \in [rows : SUBSET Keys, contacts : SUBSET Buyers, partials : SUBSET Keys]
    BY <1>2, <1>3, <2>1 DEF Start
  <2>3. task' \in [Actors -> Task] /\ \A a \in Actors : task'[a].pc = "extract" => task'[a] = task[a]
    BY <1>1, <1>3, TaskFrame DEF Start
  <2>4. QED
    BY <1>3, <2>2, <2>3 DEF Start, Typed, TypeOK, ledger
<1>4. CASE Stop
  <2>1. task' \in [Actors -> Task] /\ \A a \in Actors : task'[a].pc = "extract" => task'[a] = task[a]
    BY <1>1, <1>4, TaskFrame DEF Stop
  <2>2. QED
    BY <1>4, <2>1 DEF Stop, Typed, TypeOK, ledger, Actors
<1>5. CASE Cleanup \/ Crash
  <2>1. Forget
    BY <1>5 DEF Cleanup, Crash
  <2>2. task' \in [Actors -> Task] /\ \A a \in Actors : task'[a].pc # "extract"
    BY <2>1, Defaults DEF Forget, NoTask
  <2>3. QED
    BY <1>2, <2>1, <2>2 DEF Forget, Typed, TypeOK, ledger
<1>6. CASE VisibleScan \/ DeepScan
  <2>1. PICK V \in SUBSET Buyers : EnqueueMatches(V)
    BY <1>6 DEF VisibleScan, DeepScan, Typed, TypeOK
  <2>2. task["scan"].pc = "wait"
    BY <1>6 DEF VisibleScan, DeepScan, At
  <2>3. /\ UNCHANGED <<feed, seen, ledger>> /\ task' \in [Actors -> Task]
        /\ \A a \in Actors : task'[a].pc = "extract" => task'[a] = task[a]
        /\ lock' \in Actors \cup {Free}
        /\ retry' \in [Keys -> {"none", "cooling", "over"}]
    BY <1>1, <2>1, <2>2, EnqueueFrame DEF Typed, TypeOK, Actors
  <2>4. PICK S \in SUBSET Buyers : queue' = queue \cup S /\ queued' = queued \cup KeysOf(S)
    BY <2>1, <2>2, EnqueueFrame
  <2>5. KeysOf(S) \in SUBSET Keys
    BY KeyType DEF KeysOf
  <2>6. QED
    BY <2>3, <2>4, <2>5 DEF Typed, TypeOK, ledger
<1>7. CASE BeginWork
  <2>1. task' \in [Actors -> Task] /\ \A a \in Actors : task'[a].pc = "extract" => task'[a] = task[a]
    BY <1>1, <1>7, TaskFrame DEF BeginWork
  <2>2. QED
    BY <1>1, <1>7, <2>1 DEF BeginWork, Typed, TypeOK, ledger
<1>8. ASSUME NEW b \in Buyers, FeedChanges(b) PROVE Typed'
  BY <1>8 DEF FeedChanges, Typed, TypeOK, memory, ledger
<1>9. ASSUME NEW k \in Keys, RetryDue(k) PROVE Typed'
  BY <1>9 DEF RetryDue, Typed, TypeOK, ledger
<1>10. CASE UNCHANGED vars
  BY <1>10 DEF vars, memory, ledger, Typed, TypeOK
<1>11. QED
  BY <1>3, <1>4, <1>5, <1>6, <1>7, <1>8, <1>9, <1>10 DEF Next

LEMMA NextTyped == Typed /\ [Next]_vars => Typed'
BY DrainType, OtherType

LEMMA InitTyped == Init => Typed
BY Defaults DEF Init, Typed, TypeOK, NoSeen, NoTask, Actors

\* Every variable of the pipeline keeps its type, whatever fails.
THEOREM PipelineTypeCorrect == Spec => []TypeOK
<1>1. Typed => TypeOK
  BY DEF Typed
<1>2. QED
  BY <1>1, InitTyped, NextTyped, PTL DEF Spec

-----------------------------------------------------------------------------
(* The lock of the actions.                                                *)

\* Only the holder of the lock is draining, and no worker outlives its runner.
Exclusive ==
    /\ \A a \in Actors : task[a].pc \in Inside => lock = a
    /\ task["scan"].pc = "off" => task["work"].pc = "off"

LEMMA DrainExclusive ==
  ASSUME Typed, Exclusive, NEW a \in Actors, DrainStep(a) \/ Fail(a)
  PROVE  Exclusive'
<1>1. /\ \/ lock' = lock
         \/ lock' = Free /\ (task[a].pc \in Inside \/ lock = a)
  BY DEF DrainStep, Leave, TakeItem, Click, NotVisible, ClickFails, NoContact, Reject, Reveal,
         Count, Log, AppendRow, Beat, Fail, memory, At, Inside
<1>2. ASSUME NEW c \in Actors, task'[c].pc \in Inside PROVE lock' = c
  <2>1. CASE c = a
    BY <1>2, <2>1, DrainType DEF Exclusive
  <2>2. CASE c # a
    <3>1. lock = c
      BY <1>2, <2>2, DrainType DEF Exclusive
    <3>2. QED
      BY <1>1, <2>2, <3>1 DEF Exclusive
  <2>3. QED
    BY <2>1, <2>2
<1>3. task'["scan"].pc = "off" => task'["work"].pc = "off"
  BY DrainType DEF Exclusive, Actors
<1>4. QED
  BY <1>2, <1>3 DEF Exclusive

\* What the steps outside a drain do to the tasks.
LEMMA OutsideFrame ==
  ASSUME Typed, [Next]_vars, ~\E a \in Actors : DrainStep(a) \/ Fail(a)
  PROVE  /\ UNCHANGED ledger
         /\ \A a \in Actors : \/ task'[a] = task[a]
                              \/ task'[a].pc \in {"off", "wait", "cleaning", "created", "drain"}
<1>1. /\ task \in [Actors -> Task] /\ {"wait", "cleaning", "drain"} \subseteq Pcs
      /\ "scan" \in Actors /\ "work" \in Actors
  BY DEF Typed, TypeOK, Pcs, Inside, Actors
<1>2. CASE Start \/ Stop \/ BeginWork
  BY <1>1, <1>2, TaskFrame DEF Start, Stop, BeginWork
<1>3. CASE Cleanup \/ Crash
  BY <1>3, Defaults DEF Cleanup, Crash, Forget, NoTask
<1>4. CASE VisibleScan \/ DeepScan
  <2>1. PICK V \in SUBSET Buyers : EnqueueMatches(V)
    BY <1>4 DEF VisibleScan, DeepScan, Typed, TypeOK
  <2>2. task["scan"].pc = "wait"
    BY <1>4 DEF VisibleScan, DeepScan, At
  <2>3. QED
    BY <2>1, <2>2, EnqueueFrame DEF Actors
<1>5. CASE (\E b \in Buyers : FeedChanges(b)) \/ (\E k \in Keys : RetryDue(k)) \/ UNCHANGED vars
  BY <1>5 DEF FeedChanges, RetryDue, vars
<1>6. QED
  BY <1>2, <1>3, <1>4, <1>5 DEF Next

LEMMA OtherExclusive ==
  ASSUME Typed, Exclusive, [Next]_vars, ~\E a \in Actors : DrainStep(a) \/ Fail(a)
  PROVE  Exclusive'
<1>1. /\ task \in [Actors -> Task] /\ {"wait", "cleaning", "drain"} \subseteq Pcs
      /\ "scan" \in Actors /\ "work" \in Actors /\ Actors = {"scan", "work"}
      /\ {"off", "wait", "cleaning", "created"} \cap Inside = {}
  BY DEF Typed, TypeOK, Pcs, Inside, Actors
<1>2. CASE Start
  <2>1. /\ task["work"].pc = "off" /\ lock' = lock
        /\ task'["scan"].pc = "wait" /\ task'["work"] = task["work"]
    BY <1>1, <1>2, TaskFrame DEF Start, At
  <2>2. QED
    BY <1>1, <2>1 DEF Exclusive
<1>3. CASE Stop
  <2>1. /\ lock' = IF lock = "scan" THEN Free ELSE lock
        /\ task'["scan"].pc = "cleaning" /\ task'["work"] = task["work"]
    BY <1>1, <1>3, TaskFrame DEF Stop
  <2>2. QED
    BY <1>1, <2>1 DEF Exclusive
<1>4. CASE Cleanup \/ Crash
  BY <1>1, <1>4, Defaults DEF Cleanup, Crash, Forget, NoTask, Exclusive
<1>5. CASE VisibleScan \/ DeepScan
  <2>1. PICK V \in SUBSET Buyers : EnqueueMatches(V)
    BY <1>5 DEF VisibleScan, DeepScan, Typed, TypeOK
  <2>2. task["scan"].pc = "wait"
    BY <1>5 DEF VisibleScan, DeepScan, At
  <2>3. /\ \/ task'["scan"] = task["scan"] /\ lock' = lock
           \/ task'["scan"].pc = "drain" /\ lock = Free /\ lock' = "scan"
        /\ \/ task'["work"] = task["work"]
           \/ task["work"].pc = "off" /\ task'["work"].pc = "created"
    BY <2>1, <2>2, EnqueueFrame
  <2>4. QED
    BY <1>1, <2>2, <2>3 DEF Exclusive, Free
<1>6. CASE BeginWork
  <2>1. /\ task["work"].pc = "created" /\ lock = Free /\ lock' = "work"
        /\ task'["work"].pc = "drain" /\ task'["scan"] = task["scan"]
    BY <1>1, <1>6, TaskFrame DEF BeginWork, At
  <2>2. QED
    BY <1>1, <2>1 DEF Exclusive, Free
<1>7. CASE (\E b \in Buyers : FeedChanges(b)) \/ (\E k \in Keys : RetryDue(k)) \/ UNCHANGED vars
  BY <1>7 DEF FeedChanges, RetryDue, vars, memory, Exclusive
<1>8. QED
  BY <1>2, <1>3, <1>4, <1>5, <1>6, <1>7 DEF Next

LEMMA NextExclusive == Typed /\ Exclusive /\ [Next]_vars => Exclusive'
BY DrainExclusive, OtherExclusive

LEMMA InitExclusive == Init => Exclusive
BY Defaults DEF Init, Exclusive, NoTask, Inside, Actors

-----------------------------------------------------------------------------
(* The order of the three writes.                                          *)

\* Between two writes of a task its lead is one ahead in the first of them, or
\* the first is at the bound of the model.
Ordered ==
    /\ \A f \in Prints : /\ saved[f] <= logged[f] /\ logged[f] <= counted[f]
                         /\ counted[f] <= MaxCount
    /\ \A a \in Actors :
          LET f == task[a].print IN
          /\ task[a].pc = "log"    => logged[f] < counted[f] \/ counted[f] = MaxCount
          /\ task[a].pc = "append" => saved[f] < logged[f] \/ logged[f] = MaxCount

LEMMA IncFacts ==
  ASSUME NEW n \in Nat, NEW m \in Nat, n <= m, m <= MaxCount
  PROVE  /\ n <= Inc(m) /\ Inc(m) <= MaxCount
         /\ n < Inc(m) \/ Inc(m) = MaxCount
         /\ n < m \/ m = MaxCount => Inc(n) <= m
         /\ Inc(n) \in Nat /\ Inc(n) > 0
BY BoundsAreNumbers DEF Inc

Saving == {"count", "log", "append"}

\* A step that writes none of the three leaves no new task between two of them,
\* and only a record that was read brings a task before the first.
LEMMA QuietSteps ==
  ASSUME Typed, [Next]_vars, ~\E a \in Actors : Count(a) \/ Log(a) \/ AppendRow(a)
  PROVE  /\ UNCHANGED ledger
         /\ \A a \in Actors : task'[a].pc \in Saving =>
               \/ task'[a] = task[a]
               \/ task'[a].pc = "count" /\ (NoContact(a) \/ Reveal(a))
<1>1. ASSUME NEW a \in Actors, DrainStep(a) \/ Fail(a)
      PROVE  /\ UNCHANGED ledger
             /\ task'[a].pc \in Saving => /\ task'[a].pc = "count"
                                          /\ NoContact(a) \/ Reveal(a)
  <2>1. /\ task \in [Actors -> Task]
        /\ {"off", "wait", "beat", "drain", "verify", "extract", "count"} \subseteq Pcs
    BY DEF Typed, TypeOK, Pcs, Inside
  <2>2. UNCHANGED ledger
    BY <1>1 DEF DrainStep, Leave, TakeItem, Click, NotVisible, ClickFails, NoContact, Reject,
       Reveal, Beat, Fail
  <2>3. CASE Leave(a) \/ Fail(a)
    BY <2>1, <2>2, <2>3, TaskFrame DEF Leave, Fail, LeaveTask, Saving
  <2>4. CASE NotVisible(a) \/ ClickFails(a) \/ Reject(a) \/ Beat(a)
    BY <2>1, <2>2, <2>4, TaskFrame DEF NotVisible, ClickFails, Reject, Beat, Saving
  <2>5. CASE TakeItem(a)
    <3>1. \/ Rest(a, "beat")
          \/ \E b : task' = [task EXCEPT ![a].pc = "verify", ![a].item = b]
      BY <2>5, Zenon DEF TakeItem
    <3>2. Rest(a, "beat") => task'[a].pc = "beat"
      BY <2>1, TaskFrame
    <3>3. ~Rest(a, "beat") => task'[a].pc = "verify"
      BY <2>1, <3>1 DEF Task
    <3>4. QED
      BY <2>2, <3>2, <3>3 DEF Saving
  <2>6. CASE NoContact(a) \/ Reveal(a)
    <3>1. \/ Rest(a, "beat")
          \/ \E b, f : task' = [task EXCEPT ![a].pc = "count", ![a].item = b, ![a].print = f]
          \/ \E b : task' = [task EXCEPT ![a].pc = "count", ![a].item = b]
      BY <2>6, Zenon DEF NoContact, Reveal
    <3>2. Rest(a, "beat") => task'[a].pc = "beat"
      BY <2>1, TaskFrame
    <3>3. ~Rest(a, "beat") => task'[a].pc = "count"
      BY <2>1, <3>1 DEF Task
    <3>4. QED
      BY <2>2, <2>6, <3>2, <3>3 DEF Saving
  <2>7. ASSUME NEW c \in Buyers, Click(a, c) PROVE task'[a].pc = "extract"
    BY <2>1, <2>7 DEF Click, Task
  <2>8. QED
    BY <1>1, <2>2, <2>3, <2>4, <2>5, <2>6, <2>7 DEF DrainStep, Saving
<1>2. CASE \E a \in Actors : DrainStep(a) \/ Fail(a)
  BY <1>1, <1>2, DrainType
<1>3. CASE ~\E a \in Actors : DrainStep(a) \/ Fail(a)
  BY <1>3, OutsideFrame DEF Saving
<1>4. QED
  BY <1>2, <1>3

LEMMA OrderedStep ==
  ASSUME Typed, Exclusive, Ordered, [Next]_vars
  PROVE  Ordered'
<1>1. /\ counted \in [Prints -> Nat] /\ logged \in [Prints -> Nat] /\ saved \in [Prints -> Nat]
      /\ \A a \in Actors : task[a].print \in Prints
      /\ {"log", "append", "beat"} \subseteq Pcs /\ task \in [Actors -> Task]
  BY DEF Typed, TypeOK, Task, Pcs, Inside
<1>2. CASE ~\E a \in Actors : Count(a) \/ Log(a) \/ AppendRow(a)
  <2>1. \A a \in Actors : task'[a].pc \in {"log", "append"} => task'[a] = task[a]
    BY <1>2, QuietSteps DEF Saving
  <2>2. QED
    BY <1>2, <2>1, QuietSteps DEF Ordered, ledger
<1>3. ASSUME NEW a \in Actors, Count(a) \/ Log(a) \/ AppendRow(a)
      PROVE  \A c \in Actors \ {a} : task'[c].pc \notin {"log", "append"}
  BY <1>3, DrainType DEF DrainStep, Exclusive, Count, Log, AppendRow, At, Inside
<1>4. ASSUME NEW a \in Actors, Count(a) PROVE Ordered'
  <2>1. task'[a].pc = "log" /\ task'[a].print = task[a].print
    BY <1>1, <1>4, TaskFrame DEF Count
  <2>2. /\ logged' = logged /\ saved' = saved
        /\ counted' = [counted EXCEPT ![task[a].print] = Inc(@)]
    BY <1>4 DEF Count
  <2>3. QED
    BY <1>1, <1>3, <1>4, <2>1, <2>2, IncFacts DEF Ordered
<1>5. ASSUME NEW a \in Actors, Log(a) PROVE Ordered'
  <2>1. task'[a].pc = "append" /\ task'[a].print = task[a].print /\ task[a].pc = "log"
    BY <1>1, <1>5, TaskFrame DEF Log, At
  <2>2. /\ counted' = counted /\ saved' = saved
        /\ logged' = [logged EXCEPT ![task[a].print] = Inc(@)]
    BY <1>5 DEF Log
  <2>3. QED
    BY <1>1, <1>3, <1>5, <2>1, <2>2, IncFacts, BoundsAreNumbers DEF Ordered
<1>6. ASSUME NEW a \in Actors, AppendRow(a) PROVE Ordered'
  <2>1. task'[a].pc = "beat" /\ task[a].pc = "append"
    BY <1>1, <1>6, TaskFrame DEF AppendRow, At
  <2>2. /\ counted' = counted /\ logged' = logged
        /\ saved' = [saved EXCEPT ![task[a].print] = Inc(@)] \/ saved' = saved
    BY <1>6 DEF AppendRow
  <2>3. ASSUME NEW f \in Prints PROVE saved'[f] <= logged[f]
    <3>1. CASE f = task[a].print
      <4>1. saved'[f] = Inc(saved[f]) \/ saved'[f] = saved[f]
        BY <1>1, <2>2, <3>1
      <4>2. /\ saved[f] <= logged[f] /\ logged[f] <= MaxCount
            /\ saved[f] < logged[f] \/ logged[f] = MaxCount
        BY <1>1, <2>1, <3>1, BoundsAreNumbers DEF Ordered
      <4>3. QED
        BY <1>1, <4>1, <4>2, IncFacts
    <3>2. CASE f # task[a].print
      BY <1>1, <2>2, <3>2 DEF Ordered
    <3>3. QED
      BY <3>1, <3>2
  <2>4. \A c \in Actors : task'[c].pc \notin {"log", "append"}
    BY <1>3, <1>6, <2>1
  <2>5. QED
    BY <2>2, <2>3, <2>4 DEF Ordered
<1>7. QED
  BY <1>2, <1>4, <1>5, <1>6

\* The file is never ahead of the log, nor the log of the counter: a lead's three
\* writes come in that order, and only one task at a time writes.
THEOREM LedgerOrderCorrect == Spec => []LedgerOrder
<1>1. Init => Typed /\ Exclusive /\ Ordered
  BY InitTyped, InitExclusive, BoundsAreNumbers DEF Init, Ordered, NoTask, Actors
<1>2. Typed /\ Exclusive /\ Ordered /\ [Next]_vars => (Typed /\ Exclusive /\ Ordered)'
  BY NextTyped, NextExclusive, OrderedStep
<1>3. Ordered => LedgerOrder
  BY DEF Ordered, LedgerOrder
<1>4. QED
  BY <1>1, <1>2, <1>3, PTL DEF Spec

-----------------------------------------------------------------------------
(* The queue.                                                              *)

LEMMA QueueStep ==
  ASSUME Typed, QueueMatchesFingerprints, [Next]_vars
  PROVE  QueueMatchesFingerprints'
<1>1. CASE VisibleScan \/ DeepScan
  <2>1. PICK V \in SUBSET Buyers : EnqueueMatches(V)
    BY <1>1 DEF VisibleScan, DeepScan, Typed, TypeOK
  <2>2. task["scan"].pc = "wait"
    BY <1>1 DEF VisibleScan, DeepScan, At
  <2>3. PICK S \in SUBSET Buyers :
          /\ queue' = queue \cup S /\ queued' = queued \cup KeysOf(S)
          /\ \A b \in S : Key[b] \notin queued
          /\ \A b, c \in S : Key[b] = Key[c] => b = c
    BY <2>1, <2>2, EnqueueFrame
  <2>4. QED
    BY <2>3 DEF QueueMatchesFingerprints, KeysOf
<1>2. ASSUME NEW a \in Actors, TakeItem(a) PROVE QueueMatchesFingerprints'
  <2>1. PICK b \in queue : queue' = queue \ {b} /\ queued' = queued \ {Key[b]}
    BY <1>2 DEF TakeItem, Unqueue
  <2>2. QED
    BY <2>1 DEF QueueMatchesFingerprints, KeysOf
<1>3. CASE Cleanup \/ Crash
  BY <1>3 DEF Cleanup, Crash, Forget, QueueMatchesFingerprints, KeysOf
<1>4. CASE queue' = queue /\ queued' = queued
  BY <1>4 DEF QueueMatchesFingerprints, KeysOf
<1>5. ASSUME NEW a \in Actors, DrainStep(a) \/ Fail(a), ~TakeItem(a)
      PROVE  queue' = queue /\ queued' = queued
  BY <1>5 DEF DrainStep, Leave, Click, NotVisible, ClickFails, NoContact, Reject, Reveal,
     Count, Log, AppendRow, Beat, Fail, memory
<1>6. CASE \/ Start \/ Stop \/ BeginWork \/ UNCHANGED vars
           \/ \E b \in Buyers : FeedChanges(b)
           \/ \E k \in Keys : RetryDue(k)
  BY <1>4, <1>6 DEF Start, Stop, BeginWork, FeedChanges, RetryDue, vars, memory
<1>7. QED
  BY <1>1, <1>2, <1>3, <1>4, <1>5, <1>6 DEF Next

\* The fingerprints of the queue are those of its items, one each: a scan adds
\* both or none, taking an item removes both, and a failure touches neither.
THEOREM QueueCorrect == Spec => []QueueMatchesFingerprints
<1>1. Init => Typed /\ QueueMatchesFingerprints
  BY InitTyped DEF Init, QueueMatchesFingerprints, KeysOf
<1>2. Typed /\ QueueMatchesFingerprints /\ [Next]_vars => (Typed /\ QueueMatchesFingerprints)'
  BY NextTyped, QueueStep
<1>3. QED
  BY <1>1, <1>2, PTL DEF Spec

-----------------------------------------------------------------------------
(* What a runner remembers.                                                *)

LEMMA SeenFrame ==
  ASSUME Typed, [Next]_vars
  PROVE  \/ seen' = seen
         \/ Start \/ Cleanup \/ Crash \/ \E a \in Actors : NoContact(a) \/ Reveal(a)
<1>1. ASSUME NEW a \in Actors, DrainStep(a) \/ Fail(a), ~NoContact(a), ~Reveal(a)
      PROVE  seen' = seen
  BY <1>1 DEF DrainStep, Leave, TakeItem, Click, NotVisible, ClickFails, Reject,
     Count, Log, AppendRow, Beat, Fail, memory
<1>2. CASE VisibleScan \/ DeepScan
  BY <1>2 DEF VisibleScan, DeepScan, EnqueueMatches
<1>3. CASE \/ Stop \/ BeginWork \/ UNCHANGED vars
           \/ \E b \in Buyers : FeedChanges(b)
           \/ \E k \in Keys : RetryDue(k)
  BY <1>3 DEF Stop, BeginWork, FeedChanges, RetryDue, vars, memory
<1>4. QED
  BY <1>1, <1>2, <1>3 DEF Next

\* The row a task is about to click is not one whose contact is known.
FreshItem ==
    \A a \in Actors : task[a].pc = "verify" => Key[task[a].item] \notin seen.rows

LEMMA FreshItemStep ==
  ASSUME Typed, Exclusive, FreshItem, [Next]_vars
  PROVE  FreshItem'
<1>1. task \in [Actors -> Task] /\ "beat" \in Pcs /\ seen \in [rows : SUBSET Keys,
         contacts : SUBSET Buyers, partials : SUBSET Keys]
  BY DEF Typed, TypeOK, Pcs, Inside
<1>2. ASSUME NEW a \in Actors, TakeItem(a) PROVE FreshItem'
  <2>1. PICK b \in queue :
          \/ Rest(a, "beat")
          \/ /\ task' = [task EXCEPT ![a].pc = "verify", ![a].item = b]
             /\ Key[b] \notin seen.rows
    BY <1>2 DEF TakeItem, Outdated
  <2>2. /\ task'[a].pc = "verify" => Key[task'[a].item] \notin seen.rows
        /\ seen' = seen
    <3>1. seen' = seen /\ (Rest(a, "beat") => task'[a].pc = "beat")
      BY <1>1, <1>2, TaskFrame DEF TakeItem
    <3>2. CASE /\ task' = [task EXCEPT ![a].pc = "verify", ![a].item = b]
               /\ Key[b] \notin seen.rows
      BY <1>1, <3>1, <3>2 DEF Task
    <3>3. QED
      BY <2>1, <3>1, <3>2
  <2>3. QED
    BY <1>2, <2>2, DrainType DEF FreshItem, DrainStep
<1>3. ASSUME NEW a \in Actors, DrainStep(a) \/ Fail(a), ~TakeItem(a)
      PROVE  FreshItem'
  <2>1. task'[a].pc # "verify"
    <3>1. {"off", "wait", "beat", "drain", "log", "append"} \subseteq Pcs
      BY DEF Pcs, Inside
    <3>2. CASE Leave(a) \/ Fail(a) \/ NotVisible(a) \/ ClickFails(a) \/ Reject(a) \/ Beat(a)
      <4>1. \E pc \in {"off", "wait", "beat", "drain"} : Rest(a, pc) \/ GoTo(a, pc)
        BY <3>2 DEF Leave, Fail, LeaveTask, NotVisible, ClickFails, Reject, Beat
      <4>2. QED
        BY <1>1, <3>1, <4>1, TaskFrame
    <3>3. CASE Count(a) \/ Log(a) \/ AppendRow(a)
      BY <1>1, <3>1, <3>3, TaskFrame DEF Count, Log, AppendRow
    <3>4. ASSUME NEW c \in Buyers, Click(a, c) PROVE task'[a].pc = "extract"
      BY <1>1, <3>4 DEF Click, Task
    <3>5. CASE NoContact(a) \/ Reveal(a)
      <4>1. \/ Rest(a, "beat")
            \/ \E b, f : task' = [task EXCEPT ![a].pc = "count", ![a].item = b, ![a].print = f]
            \/ \E b : task' = [task EXCEPT ![a].pc = "count", ![a].item = b]
        BY <3>5, Zenon DEF NoContact, Reveal
      <4>2. Rest(a, "beat") => task'[a].pc = "beat"
        BY <1>1, TaskFrame
      <4>3. ~Rest(a, "beat") => task'[a].pc = "count"
        BY <1>1, <4>1 DEF Task
      <4>4. QED
        BY <4>2, <4>3
    <3>6. QED
      BY <1>3, <3>2, <3>3, <3>4, <3>5 DEF DrainStep
  <2>2. seen'.rows = seen.rows \/ \A c \in Actors \ {a} : task[c].pc # "verify"
    <3>1. CASE Reveal(a)
      BY <3>1 DEF Reveal, At, Exclusive, Inside
    <3>2. CASE NoContact(a)
      BY <1>1, <3>2 DEF NoContact
    <3>3. CASE ~Reveal(a) /\ ~NoContact(a)
      BY <1>3, <3>3 DEF DrainStep, Leave, Click, NotVisible, ClickFails, Reject,
         Count, Log, AppendRow, Beat, Fail, memory
    <3>4. QED
      BY <3>1, <3>2, <3>3
  <2>3. QED
    BY <1>3, <2>1, <2>2, DrainType DEF FreshItem
<1>4. CASE ~\E a \in Actors : DrainStep(a) \/ Fail(a)
  <2>1. \A a \in Actors : task'[a].pc = "verify" => task'[a] = task[a]
    BY <1>4, OutsideFrame
  <2>2. CASE Start \/ Cleanup \/ Crash
    <3>1. \A a \in Actors : task'[a].pc # "verify"
      BY <2>1, <2>2, Defaults DEF Start, At, Cleanup, Crash, Forget, NoTask, Actors
    <3>2. QED
      BY <3>1 DEF FreshItem
  <2>3. CASE ~(Start \/ Cleanup \/ Crash)
    BY <1>4, <2>1, <2>3, SeenFrame DEF FreshItem, DrainStep
  <2>4. QED
    BY <2>2, <2>3
<1>5. QED
  BY <1>2, <1>3, <1>4

\* No row is clicked whose contact the runner has: an item is checked when it is
\* taken, and until its click nobody else can learn a contact.
THEOREM NoSecondClickCorrect == Spec => NoSecondClick
<1>1. Init => Typed /\ Exclusive /\ FreshItem
  BY InitTyped, InitExclusive DEF Init, FreshItem, NoTask
<1>2. Typed /\ Exclusive /\ FreshItem /\ [Next]_vars => (Typed /\ Exclusive /\ FreshItem)'
  BY NextTyped, NextExclusive, FreshItemStep
<1>3. FreshItem => [\A a \in Actors : At(a, "verify") /\ task'[a].pc = "extract"
                                      => Key[task[a].item] \notin seen.rows]_vars
  BY DEF FreshItem, At
<1>4. QED
  BY <1>1, <1>2, <1>3, PTL DEF Spec, NoSecondClick

-----------------------------------------------------------------------------
(* One row per contact, when the file can always be loaded.                *)

\* While a runner is up it has seen every contact of the file, and a contact it
\* is about to save is not in the file yet.
Known ==
    /\ \A b \in Buyers : saved[b] <= 1
    /\ task["scan"].pc # "off" => \A b \in Buyers : saved[b] > 0 => b \in seen.contacts
    /\ \A a \in Actors :
          LET f == task[a].print IN
          task[a].pc \in Saving /\ f \in Buyers => f \in seen.contacts /\ saved[f] = 0

\* The two ends of reading a record that lead to saving it.
LEMMA RecordFrame ==
  ASSUME Typed, NEW a \in Actors, NoContact(a) \/ Reveal(a)
  PROVE  /\ task[a].pc = "extract"
         /\ UNCHANGED <<feed, queue, queued, lock, ledger>>
         /\ task'[a].pc \in {"beat", "count"}
         /\ NoContact(a) => /\ seen'.contacts = seen.contacts
                            /\ task'[a].pc = "count" => task'[a].print \in Keys
         /\ Reveal(a) => /\ seen'.contacts = seen.contacts \cup {task[a].print}
                         /\ task'[a].pc = "count" => /\ task'[a].print = task[a].print
                                                     /\ task[a].print \notin seen.contacts
                         /\ task'[a].pc = "beat" => task[a].print \in seen.contacts
<1>1. /\ task \in [Actors -> Task] /\ {"beat", "count"} \subseteq Pcs
      /\ seen \in [rows : SUBSET Keys, contacts : SUBSET Buyers, partials : SUBSET Keys]
  BY DEF Typed, TypeOK, Pcs, Inside
<1>2. task[a].item \in Buyers /\ Key[task[a].item] \in Keys
  BY <1>1, KeyType DEF Task
<1>3. task[a].pc = "extract" /\ UNCHANGED <<feed, queue, queued, lock, ledger>>
  BY DEF NoContact, Reveal, At
<1>4. Rest(a, "beat") => task'[a].pc = "beat"
  BY <1>1, TaskFrame
<1>5. ASSUME NoContact(a)
      PROVE  /\ seen'.contacts = seen.contacts
             /\ \/ task'[a].pc = "beat"
                \/ task'[a].pc = "count" /\ task'[a].print \in Keys
  <2>1. seen'.contacts = seen.contacts
    BY <1>1, <1>5 DEF NoContact
  <2>2. \/ Rest(a, "beat")
        \/ task' = [task EXCEPT ![a].pc = "count", ![a].item = AnyBuyer,
                                ![a].print = Key[task[a].item]]
    BY <1>5 DEF NoContact
  <2>3. QED
    BY <1>1, <1>2, <1>4, <2>1, <2>2 DEF Task
<1>6. ASSUME Reveal(a)
      PROVE  /\ seen'.contacts = seen.contacts \cup {task[a].print}
             /\ \/ task'[a].pc = "beat" /\ task[a].print \in seen.contacts
                \/ /\ task'[a].pc = "count" /\ task'[a].print = task[a].print
                   /\ task[a].print \notin seen.contacts
  <2>1. seen'.contacts = seen.contacts \cup {task[a].print}
    BY <1>1, <1>6 DEF Reveal
  <2>2. \/ Rest(a, "beat") /\ task[a].print \in seen.contacts
        \/ /\ task' = [task EXCEPT ![a].pc = "count", ![a].item = AnyBuyer]
           /\ task[a].print \notin seen.contacts
    BY <1>6 DEF Reveal
  <2>3. QED
    BY <1>1, <1>4, <2>1, <2>2 DEF Task
<1>7. QED
  BY <1>3, <1>5, <1>6

LEMMA KnownStep ==
  ASSUME "load" \notin Faults, Typed, Exclusive, Known, [Next]_vars
  PROVE  Known'
<1>1. /\ saved \in [Prints -> Nat] /\ Buyers \subseteq Prints /\ Actors = {"scan", "work"}
      /\ task \in [Actors -> Task] /\ {"log", "append", "beat"} \subseteq Pcs
      /\ \A a \in Actors : task[a].print \in Prints
  BY DEF Typed, TypeOK, Prints, Actors, Task, Pcs, Inside
<1>2. ASSUME NEW a \in Actors, NoContact(a) \/ Reveal(a) PROVE Known'
  <2>1. /\ saved' = saved /\ task[a].pc = "extract" /\ task[a].print \in Buyers
        /\ seen.contacts \subseteq seen'.contacts
    BY <1>2, RecordFrame DEF ledger, Typed
  <2>2. task["scan"].pc # "off"
    BY <1>1, <2>1 DEF Exclusive
  <2>3. ASSUME task'[a].pc \in Saving, task'[a].print \in Buyers
        PROVE  task'[a].print \in seen'.contacts /\ saved[task'[a].print] = 0
    <3>1. /\ seen'.contacts = seen.contacts \cup {task[a].print}
          /\ task'[a].print = task[a].print /\ task[a].print \notin seen.contacts
      BY <1>2, <2>3, RecordFrame, DistinctPrints DEF Saving
    <3>2. QED
      BY <1>1, <2>1, <2>2, <3>1 DEF Known
  <2>4. \A c \in Actors \ {a} : task'[c] = task[c]
    BY <1>2, DrainType DEF DrainStep
  <2>5. QED
    BY <2>1, <2>2, <2>3, <2>4 DEF Known
<1>3. ASSUME NEW a \in Actors, Count(a) \/ Log(a) \/ AppendRow(a) PROVE Known'
  <2>1. /\ task[a].pc \in Saving /\ seen' = seen
        /\ task[a].pc \in Inside
    BY <1>3 DEF Count, Log, AppendRow, At, Saving, Inside, memory
  <2>2. \A c \in Actors \ {a} : task'[c] = task[c] /\ task[c].pc \notin Saving
    BY <1>3, <2>1, DrainType DEF DrainStep, Exclusive, Saving, Inside
  <2>3. task["scan"].pc # "off"
    BY <1>1, <2>1 DEF Exclusive, Inside
  <2>4. CASE Count(a) \/ Log(a)
    <3>1. saved' = saved /\ task'[a].print = task[a].print
      BY <1>1, <2>4, TaskFrame DEF Count, Log
    <3>2. QED
      BY <2>1, <2>2, <2>3, <3>1 DEF Known
  <2>5. CASE AppendRow(a)
    <3>1. task'[a].pc = "beat"
      BY <1>1, <2>5, TaskFrame DEF AppendRow
    <3>2. saved' = [saved EXCEPT ![task[a].print] = Inc(@)] \/ saved' = saved
      BY <2>5 DEF AppendRow
    <3>3. Inc(0) = 1
      BY BoundsAreNumbers DEF Inc
    <3>4. ASSUME NEW b \in Buyers
          PROVE  saved'[b] <= 1 /\ (saved'[b] > 0 => b \in seen.contacts)
      <4>1. CASE b = task[a].print
        BY <1>1, <2>1, <2>3, <3>2, <3>3, <4>1 DEF Known
      <4>2. CASE b # task[a].print
        BY <1>1, <2>3, <3>2, <4>2 DEF Known
      <4>3. QED
        BY <4>1, <4>2
    <3>5. QED
      BY <2>1, <2>2, <3>1, <3>4 DEF Known, Saving
  <2>6. QED
    BY <1>3, <2>4, <2>5
<1>4. CASE ~\E a \in Actors : \/ NoContact(a) \/ Reveal(a)
                              \/ Count(a) \/ Log(a) \/ AppendRow(a)
  <2>1. saved' = saved /\ \A a \in Actors : task'[a].pc \in Saving => task'[a] = task[a]
    BY <1>4, QuietSteps DEF ledger
  <2>2. CASE Start
    <3>1. seen'.contacts = Loaded
      BY <2>2 DEF Start, NoSeen
    <3>2. \A a \in Actors : task'[a].pc \notin Saving
      BY <1>1, <2>1, <2>2 DEF Start, At, Saving
    <3>3. QED
      BY <2>1, <3>1, <3>2 DEF Known, Loaded
  <2>3. CASE Cleanup \/ Crash
    <3>1. \A a \in Actors : task'[a].pc = "off"
      BY <2>3, Defaults DEF Cleanup, Crash, Forget, NoTask
    <3>2. QED
      BY <1>1, <2>1, <3>1 DEF Known, Saving
  <2>4. CASE ~(Start \/ Cleanup \/ Crash)
    <3>1. seen' = seen
      BY <1>4, <2>4, SeenFrame
    <3>2. task["scan"].pc = "off" => task'["scan"].pc = "off"
      <4>1. CASE \E a \in Actors : DrainStep(a) \/ Fail(a)
        BY <1>1, <4>1, DrainType DEF Exclusive, Inside
      <4>2. CASE Stop
        BY <4>2 DEF Stop, Up
      <4>3. CASE VisibleScan \/ DeepScan
        BY <4>3 DEF VisibleScan, DeepScan, At
      <4>4. CASE BeginWork
        BY <1>1, <4>4, TaskFrame DEF BeginWork, Pcs, Inside
      <4>5. CASE (\E b \in Buyers : FeedChanges(b)) \/ (\E k \in Keys : RetryDue(k)) \/ UNCHANGED vars
        BY <4>5 DEF FeedChanges, RetryDue, vars
      <4>6. QED
        BY <2>4, <4>1, <4>2, <4>3, <4>4, <4>5 DEF Next
    <3>3. QED
      BY <2>1, <3>1, <3>2 DEF Known
  <2>5. QED
    BY <2>2, <2>3, <2>4
<1>5. QED
  BY <1>2, <1>3, <1>4

\* When the file can always be loaded a buyer's contact gets one row in it: a
\* runner saves what it has not seen, and has seen what the file holds.
THEOREM OneRowPerContactCorrect ==
  ASSUME "load" \notin Faults
  PROVE  Spec => []OneRowPerContact
<1>1. Init => Typed /\ Exclusive /\ Known
  BY InitTyped, InitExclusive DEF Init, Known, NoTask, Actors, Prints, Saving
<1>2. Typed /\ Exclusive /\ Known /\ [Next]_vars => (Typed /\ Exclusive /\ Known)'
  BY NextTyped, NextExclusive, KnownStep
<1>3. Known => OneRowPerContact
  BY DEF Known, OneRowPerContact
<1>4. QED
  BY <1>1, <1>2, <1>3, PTL DEF Spec

-----------------------------------------------------------------------------
(* Nothing is skipped that was not saved, when every write succeeds.       *)

LEMMA SkippedStep ==
  ASSUME Faults \cap {"db", "csv"} = {}, Typed, SkippedIsSaved, [Next]_vars
  PROVE  SkippedIsSaved'
<1> DEFINE Safe(b) == \/ saved[b] > 0
                      \/ \E a \in Actors : task[a].pc \in Saving /\ task[a].print = b
                      \/ Stopping
<1>1. /\ saved \in [Prints -> Nat] /\ Buyers \subseteq Prints /\ Actors = {"scan", "work"}
      /\ task \in [Actors -> Task]
      /\ {"off", "wait", "cleaning", "created", "log", "append", "beat"} \subseteq Pcs
      /\ \A a \in Actors : task[a].print \in Prints
      /\ seen \in [rows : SUBSET Keys, contacts : SUBSET Buyers, partials : SUBSET Keys]
  BY DEF Typed, TypeOK, Prints, Actors, Task, Pcs, Inside
<1>2. ASSUME NEW a \in Actors, NoContact(a) \/ Reveal(a), NEW b \in seen'.contacts
      PROVE  Safe(b)'
  <2>1. saved' = saved /\ task[a].pc = "extract" /\ \A c \in Actors \ {a} : task'[c] = task[c]
    BY <1>2, RecordFrame, DrainType DEF ledger, DrainStep
  <2>2. task'["scan"].pc = "cleaning" <=> task["scan"].pc = "cleaning"
    <3>1. task'[a].pc \in {"beat", "count"}
      BY <1>2, RecordFrame
    <3>2. QED
      BY <1>1, <2>1, <3>1
  <2>3. CASE b \in seen.contacts
    <3>1. Safe(b)
      BY <2>3 DEF SkippedIsSaved, Saving
    <3>2. \A c \in Actors : task[c].pc \in Saving => task'[c] = task[c]
      BY <2>1 DEF Saving
    <3>3. QED
      BY <2>1, <2>2, <3>1, <3>2 DEF Stopping
  <2>4. CASE b \notin seen.contacts
    <3>1. task'[a].pc = "count" /\ task'[a].print = b
      BY <1>2, <2>4, RecordFrame
    <3>2. QED
      BY <3>1 DEF Saving
  <2>5. QED
    BY <2>3, <2>4
<1>3. ASSUME NEW a \in Actors, Count(a) \/ Log(a) \/ AppendRow(a), NEW b \in seen'.contacts
      PROVE  Safe(b)'
  <2>1. b \in seen.contacts /\ b \in Buyers
    BY <1>1, <1>3 DEF Count, Log, AppendRow, memory
  <2>2. Safe(b)
    BY <2>1 DEF SkippedIsSaved, Saving
  <2>3. \A c \in Actors \ {a} : task'[c] = task[c]
    BY <1>3, DrainType DEF DrainStep
  <2>4. CASE Count(a) \/ Log(a)
    <3>1. /\ saved' = saved /\ task'[a].print = task[a].print
          /\ task'[a].pc \in {"log", "append"} /\ task[a].pc \in {"count", "log"}
      BY <1>1, <2>4, TaskFrame DEF Count, Log, At
    <3>2. QED
      BY <1>1, <2>2, <2>3, <3>1 DEF Saving, Stopping
  <2>5. CASE AppendRow(a)
    <3>1. /\ saved' = [saved EXCEPT ![task[a].print] = Inc(@)]
          /\ task'[a].pc = "beat" /\ task[a].pc = "append"
      BY <1>1, <2>5, TaskFrame DEF AppendRow, At
    <3>2. \A n \in Nat : Inc(n) > 0
      BY BoundsAreNumbers DEF Inc
    <3>3. /\ saved'[task[a].print] > 0
          /\ \A f \in Prints : saved[f] > 0 => saved'[f] > 0
      BY <1>1, <3>1, <3>2
    <3>4. QED
      BY <1>1, <2>1, <2>2, <2>3, <3>1, <3>3 DEF Saving, Stopping
  <2>6. QED
    BY <1>3, <2>4, <2>5
<1>4. ASSUME ~\E a \in Actors : \/ NoContact(a) \/ Reveal(a)
                                \/ Count(a) \/ Log(a) \/ AppendRow(a),
             NEW b \in seen'.contacts
      PROVE  Safe(b)'
  <2>1. saved' = saved
    BY <1>4, QuietSteps DEF ledger
  <2>2. CASE Start
    <3>1. b \in Loaded \/ b \in {}
      BY <2>2, <1>4 DEF Start, NoSeen
    <3>2. QED
      BY <2>1, <3>1 DEF Loaded
  <2>3. CASE Cleanup \/ Crash
    BY <1>4, <2>3 DEF Cleanup, Crash, Forget, NoSeen
  <2>4. CASE Stop
    <3>1. task'["scan"].pc = "cleaning"
      BY <1>1, <2>4, TaskFrame DEF Stop
    <3>2. QED
      BY <3>1 DEF Stopping
  <2>5. CASE ~(Start \/ Cleanup \/ Crash \/ Stop)
    <3>1. Safe(b)
      BY <1>4, <2>5, SeenFrame DEF SkippedIsSaved, Saving
    <3>2. \A a \in Actors : \/ task'[a] = task[a]
                            \/ task[a].pc \notin Saving \cup {"cleaning"}
      <4>1. ASSUME NEW c \in Actors, DrainStep(c) \/ Fail(c)
            PROVE  task[c].pc \notin Saving \cup {"cleaning"}
        BY <1>4, <4>1 DEF DrainStep, Leave, TakeItem, Click, NotVisible, ClickFails, Reject,
           Beat, Fail, At, Saving
      <4>2. CASE \E c \in Actors : DrainStep(c) \/ Fail(c)
        BY <4>1, <4>2, DrainType
      <4>3. CASE VisibleScan \/ DeepScan
        <5>1. PICK V \in SUBSET Buyers : EnqueueMatches(V)
          BY <4>3 DEF VisibleScan, DeepScan, Typed, TypeOK
        <5>2. task["scan"].pc = "wait"
          BY <4>3 DEF VisibleScan, DeepScan, At
        <5>3. task'["work"] = task["work"] \/ task["work"].pc = "off"
          BY <5>1, <5>2, EnqueueFrame
        <5>4. QED
          BY <1>1, <5>2, <5>3 DEF Saving
      <4>4. CASE BeginWork
        BY <1>1, <4>4 DEF BeginWork, GoTo, At, Saving
      <4>5. CASE (\E c \in Buyers : FeedChanges(c)) \/ (\E k \in Keys : RetryDue(k)) \/ UNCHANGED vars
        BY <4>5 DEF FeedChanges, RetryDue, vars
      <4>6. QED
        BY <2>5, <4>2, <4>3, <4>4, <4>5 DEF Next
    <3>3. QED
      BY <1>1, <2>1, <3>1, <3>2 DEF Stopping
  <2>6. QED
    BY <2>2, <2>3, <2>4, <2>5
<1>5. \A b \in seen'.contacts : Safe(b)'
  BY <1>2, <1>3, <1>4
<1>6. QED
  BY <1>5 DEF SkippedIsSaved, Saving

\* When counter, log and file can always be written, what a runner skips as a
\* duplicate is in the file, or on its way there.
THEOREM SkippedIsSavedCorrect ==
  ASSUME Faults \cap {"db", "csv"} = {}
  PROVE  Spec => []SkippedIsSaved
<1>1. Init => Typed /\ SkippedIsSaved
  BY InitTyped DEF Init, SkippedIsSaved, NoSeen
<1>2. Typed /\ SkippedIsSaved /\ [Next]_vars => (Typed /\ SkippedIsSaved)'
  BY NextTyped, SkippedStep
<1>3. QED
  BY <1>1, <1>2, PTL DEF Spec

-----------------------------------------------------------------------------
(* The ledger that a reader is promised.                                   *)

\* Of the tasks that are saving a lead, the ledger's reader sees at most one.
Single ==
    /\ Recording = {a \in Actors : task[a].pc \in Saving}
    /\ \A a \in Actors : task[a].pc \in Inside => Recording \subseteq {a}
    /\ \A a \in Recording : Entries = {[lead |-> task[a].print, step |-> task[a].pc]}

LEMMA OneEntry == Exclusive => Single
<1> SUFFICES ASSUME Exclusive PROVE Single
  OBVIOUS
<1>1. Recording = {a \in Actors : task[a].pc \in Saving}
  BY DEF Recording, Saving
<1>2. Saving \subseteq Inside
  BY DEF Saving, Inside
<1>3. \A a \in Actors : task[a].pc \in Inside => Recording \subseteq {a}
  BY <1>1, <1>2 DEF Exclusive
<1>4. \A a \in Recording : Recording = {a}
  BY <1>1, <1>2, <1>3
<1>5. QED
  BY <1>1, <1>3, <1>4 DEF Entries, Single

\* Each of the three writes is the recorder's; one that fails ends the entry.
LEMMA WriteStep ==
  ASSUME Typed, Exclusive, Exclusive', NEW a \in Actors, Count(a) \/ Log(a) \/ AppendRow(a)
  PROVE  Recorder!Next
<1> DEFINE f == task[a].print
<1> Single'
  BY OneEntry, PTL
<1>1. /\ task \in [Actors -> Task] /\ f \in Prints /\ {"log", "append", "beat"} \subseteq Pcs
      /\ Prints = Recorder!Leads
  BY DEF Typed, TypeOK, Task, Pcs, Inside, Prints, Recorder!Leads
<1>2. \A n : Inc(n) = Recorder!Inc(n)
  BY DEF Inc, Recorder!Inc
<1>3. \A c \in Actors \ {a} : task'[c] = task[c]
  BY <1>1, TaskFrame DEF Count, Log, AppendRow
<1>4. /\ task[a].pc \in Saving /\ a \in Recording
      /\ Entries = {[lead |-> f, step |-> task[a].pc]}
      /\ \A c \in Actors \ {a} : task[c].pc \notin Saving
  BY OneEntry DEF Single, Count, Log, AppendRow, At, Saving, Recording, Inside
<1>5. CASE Count(a)
  <2>1. task'[a].pc = "log" /\ task'[a].print = f
    BY <1>1, <1>5, TaskFrame DEF Count
  <2>2. a \in Recording'
    BY <2>1 DEF Recording
  <2>3. Entries' = {[lead |-> f, step |-> "log"]}
    BY <2>1, <2>2 DEF Single
  <2>4. Recorder!Count(f)
    BY <1>2, <1>4, <1>5, <2>3 DEF Count, At, Recorder!Count, Recorder!At
  <2>5. QED
    BY <1>1, <2>4 DEF Recorder!Next
<1>6. CASE Log(a)
  <2>1. task'[a].pc = "append" /\ task'[a].print = f
    BY <1>1, <1>6, TaskFrame DEF Log
  <2>2. a \in Recording'
    BY <2>1 DEF Recording
  <2>3. Entries' = {[lead |-> f, step |-> "append"]}
    BY <2>1, <2>2 DEF Single
  <2>4. Recorder!Log(f)
    BY <1>2, <1>4, <1>6, <2>3 DEF Log, At, Recorder!Log, Recorder!At
  <2>5. QED
    BY <1>1, <2>4 DEF Recorder!Next
<1>7. CASE AppendRow(a)
  <2>1. task'[a].pc = "beat"
    BY <1>1, <1>7, TaskFrame DEF AppendRow
  <2>2. \A c \in Actors : task'[c].pc \notin Saving
    BY <1>3, <1>4, <2>1 DEF Saving
  <2>3. Entries' = {}
    BY <2>2 DEF Entries, Recording, Saving
  <2>4. CASE saved' = [saved EXCEPT ![f] = Inc(saved[f])]
    <3>1. Recorder!Append(f)
      BY <1>2, <1>4, <1>7, <2>3, <2>4 DEF AppendRow, At, Recorder!Append, Recorder!At
    <3>2. QED
      BY <1>1, <3>1 DEF Recorder!Next
  <2>5. CASE UNCHANGED saved
    <3>1. Recorder!Abandon
      BY <1>4, <1>7, <2>3, <2>5 DEF AppendRow, Recorder!Abandon
    <3>2. QED
      BY <3>1 DEF Recorder!Next
  <2>6. QED
    BY <1>7, <2>4, <2>5 DEF AppendRow
<1>8. QED
  BY <1>5, <1>6, <1>7

\* A record that was read begins an entry, of a lead whose contact is not in the file.
LEMMA BeginStep ==
  ASSUME Typed, Typed', Exclusive, Exclusive', Known', NEW a \in Actors,
         NoContact(a) \/ Reveal(a), task'[a].pc = "count"
  PROVE  Recorder!Next
<1> DEFINE f == task'[a].print
<1> Single'
  BY OneEntry, PTL
<1>1. f \in Recorder!Leads
  BY DEF Typed, TypeOK, Task, Prints, Recorder!Leads
<1>2. task[a].pc = "extract" /\ UNCHANGED ledger
  BY RecordFrame
<1>3. Entries = {}
  <2>1. Recording \subseteq {a} /\ a \notin Recording
    BY <1>2, OneEntry DEF Single, Inside, Recording
  <2>2. QED
    BY <2>1 DEF Entries
<1>4. Entries' = {[lead |-> f, step |-> "count"]}
  <2>1. a \in Recording'
    BY DEF Recording
  <2>2. QED
    BY <2>1 DEF Single
<1>5. f \in Buyers => saved[f] = 0
  BY <1>2 DEF Known, Saving, ledger
<1>6. Recorder!Begin(f)
  BY <1>2, <1>3, <1>4, <1>5 DEF ledger, Recorder!Begin, Recorder!At
<1>7. QED
  BY <1>1, <1>6 DEF Recorder!Next

\* Every step of the pipeline is one of the recorder, or none.
LEMMA RecorderStep ==
  ASSUME "load" \notin Faults, Typed, Exclusive, Known, [Next]_vars
  PROVE  [Recorder!Next]_(Recorder!vars)
<1>1. Typed' /\ Exclusive' /\ Known'
  BY NextTyped, NextExclusive, KnownStep
<1> Single'
  BY <1>1, OneEntry, PTL
<1>2. CASE \E a \in Actors : Count(a) \/ Log(a) \/ AppendRow(a)
  BY <1>1, <1>2, WriteStep
<1>3. CASE \E a \in Actors : (NoContact(a) \/ Reveal(a)) /\ task'[a].pc = "count"
  BY <1>1, <1>3, BeginStep
<1>4. CASE /\ ~\E a \in Actors : Count(a) \/ Log(a) \/ AppendRow(a)
           /\ ~\E a \in Actors : (NoContact(a) \/ Reveal(a)) /\ task'[a].pc = "count"
  <2>1. /\ UNCHANGED ledger
        /\ \A a \in Actors : task'[a].pc \in Saving => task'[a] = task[a]
    BY <1>4, QuietSteps
  <2>2. CASE \E a \in Actors : task'[a].pc \in Saving
    <3>1. PICK a \in Actors : task'[a].pc \in Saving
      BY <2>2
    <3>2. task'[a] = task[a] /\ a \in Recording /\ a \in Recording'
      BY <2>1, <3>1 DEF Recording, Saving
    <3>3. Entries = {[lead |-> task[a].print, step |-> task[a].pc]}
      BY <3>2, OneEntry DEF Single
    <3>4. Entries' = {[lead |-> task'[a].print, step |-> task'[a].pc]}
      BY <3>2 DEF Single
    <3>5. QED
      BY <2>1, <3>2, <3>3, <3>4 DEF ledger, Recorder!vars
  <2>3. CASE ~\E a \in Actors : task'[a].pc \in Saving
    <3>1. Entries' = {}
      BY <2>3 DEF Entries, Recording, Saving
    <3>2. QED
      BY <2>1, <3>1 DEF ledger, Recorder!vars, Recorder!Next, Recorder!Abandon
  <2>4. QED
    BY <2>2, <2>3
<1>5. QED
  BY <1>2, <1>3, <1>4

\* Two tasks, a lock, a queue and three memories of fingerprints keep the recorder's promise:
\* one lead at a time is counted, logged and appended, in this order, and one whose contact is
\* in the file is not entered again, over stops, crashes and restarts.
THEOREM RecorderCorrect ==
  ASSUME "load" \notin Faults
  PROVE  Spec => ImplementsRecorder
<1>1. Init => Typed /\ Exclusive /\ Known
  BY InitTyped, InitExclusive DEF Init, Known, NoTask, Actors, Prints, Saving
<1>2. Init => Recorder!Init
  BY DEF Init, NoTask, Entries, Recording, Recorder!Init, Recorder!Leads, Prints
<1>3. Typed /\ Exclusive /\ Known /\ [Next]_vars => (Typed /\ Exclusive /\ Known)'
  BY NextTyped, NextExclusive, KnownStep
<1>4. Typed /\ Exclusive /\ Known /\ [Next]_vars => [Recorder!Next]_(Recorder!vars)
  BY RecorderStep
<1>5. QED
  BY <1>1, <1>2, <1>3, <1>4, PTL DEF Spec, ImplementsRecorder, Recorder!Spec

=============================================================================
