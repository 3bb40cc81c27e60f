----------------------------- MODULE LeadRecorder -----------------------------
(***************************************************************************)
(* What capturing leads promises to those who read the ledger, without     *)
(* feed, queue, fingerprints, tasks and lock: one lead at a time is        *)
(* entered, in three steps, counted, then logged, then appended to the     *)
(* file.  Any step may fail and end the entry, and what was written then   *)
(* stays.  A lead with a contact that is in the file is not entered again; *)
(* a partial lead may be.                                                  *)
(*                                                                         *)
(* LeadPipelineImplements shows that LeadPipeline keeps this promise.      *)
(***************************************************************************)
EXTENDS Naturals

CONSTANTS
    Contacts,  \* leads with a contact
    Partials,  \* leads without
    MaxCount   \* bound: the ledger does not tell larger numbers apart

VARIABLES
    entries,   \* the lead being entered, if any, and the step it is at
    counted, logged, saved

vars  == <<entries, counted, logged, saved>>
Leads == Contacts \cup Partials
At(f, step) == {[lead |-> f, step |-> step]}

Init ==
    /\ entries = {}
    /\ counted = [f \in Leads |-> 0]
    /\ logged  = [f \in Leads |-> 0]
    /\ saved   = [f \in Leads |-> 0]

Begin(f) ==
    /\ entries = {}
    /\ f \in Contacts => saved[f] = 0
    /\ entries' = At(f, "count")
    /\ UNCHANGED <<counted, logged, saved>>

Inc(n) == IF n < MaxCount THEN n + 1 ELSE n

Count(f) ==
    /\ entries = At(f, "count") /\ entries' = At(f, "log")
    /\ counted' = [counted EXCEPT ![f] = Inc(@)]
    /\ UNCHANGED <<logged, saved>>

Log(f) ==
    /\ entries = At(f, "log") /\ entries' = At(f, "append")
    /\ logged' = [logged EXCEPT ![f] = Inc(@)]
    /\ UNCHANGED <<counted, saved>>

Append(f) ==
    /\ entries = At(f, "append") /\ entries' = {}
    /\ saved' = [saved EXCEPT ![f] = Inc(@)]
    /\ UNCHANGED <<counted, logged>>

\* A write failed, the task was cancelled, or the process is gone.
Abandon ==
    /\ entries # {} /\ entries' = {}
    /\ UNCHANGED <<counted, logged, saved>>

Next == Abandon \/ \E f \in Leads : Begin(f) \/ Count(f) \/ Log(f) \/ Append(f)

Spec == Init /\ [][Next]_vars
=============================================================================
