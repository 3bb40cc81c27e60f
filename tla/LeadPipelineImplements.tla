------------------------ MODULE LeadPipelineImplements ------------------------
(***************************************************************************)
(* LeadPipeline implements LeadRecorder, as long as the file can be loaded.*)
(***************************************************************************)
EXTENDS LeadPipeline

\* The tasks that are between finding a new lead and appending its row.
Recording == {a \in Actors : task[a].pc \in {"count", "log", "append"}}

Entries   == {[lead |-> task[a].print, step |-> task[a].pc] : a \in Recording}

Recorder == INSTANCE LeadRecorder WITH
    Contacts <- Buyers, Partials <- Keys, entries <- Entries

\* Whatever scanner and worker do in turns, and wherever they fail, are stopped, crash
\* and start again: leads are entered one at a time, in order, and contacts once.
ImplementsRecorder == Recorder!Spec
=============================================================================
