------------------------------ MODULE KeywordJob ------------------------------
(***************************************************************************)
(* A job on a page of any site: each poll cycle evaluates the keywords on  *)
(* the page's text (detection_engine.py), records every match, and runs    *)
(* the job's action rules (action_engine.py).  Matches and inquiries are   *)
(* rows of CSV files (lead_store.py), which a user of the dashboard lists  *)
(* and deletes one by one (leads.py) while the job goes on.                *)
(*                                                                         *)
(* A rule is of one of three kinds: "webhook" posts to another program,    *)
(* "open_inquiry" reads an inquiry and writes it, "other" is any other.    *)
(***************************************************************************)
EXTENDS Naturals, Sequences, SequencesExt

CONSTANTS
    Keywords,   \* active keywords of the job
    Rank,       \* their priority and score
    Rules,      \* the kinds of the active rules, in their order
    Retries,    \* retry_count
    MaxRows     \* bound: an append beyond it fails

Kinds == {"webhook", "open_inquiry", "other"}
ASSUME RanksAreNumbers == Rank \in [Keywords -> Nat]
ASSUME RulesHaveKinds  == Rules \in Seq(Kinds)
ASSUME Bounds          == Retries \in Nat /\ MaxRows \in Nat

VARIABLES
    page,      \* keywords that the page's text satisfies, with their locations
    cooling,   \* keywords whose cool-down is not over
    pc,        \* where the cycle is
    results,   \* matches not recorded yet
    rule,      \* the rule being executed
    attempts,  \* its attempts so far
    received,  \* how often the other side has got the webhook of each rule of this chain
    file,      \* rows of the file named after the job, and of the rules' file
    rows,      \* rows ever written, which number them
    pick,      \* the row a user has on the screen and is about to delete
    shifted    \* since the user listed it, a row of its file has been removed

runner == <<cooling, pc, results, rule, attempts, received>>
disk   == <<file, rows>>
user   == <<pick, shifted>>
vars   == <<page, runner, disk, user>>

Files  == {"job", "rules"}
Row    == 1 .. MaxRows
Pick(f, i, r) == [file |-> f, pos |-> i, row |-> r]
NoPick == Pick("none", 0, 0)
Failed == Pick("failed", 0, 0)
Picked == pick.file \in Files

-----------------------------------------------------------------------------
(* The files.                                                              *)

\* append_lead_row: it fails without a word.
AppendRow(f) ==
    \/ rows < MaxRows /\ rows' = rows + 1 /\ file' = [file EXCEPT ![f] = Append(@, rows + 1)]
    \/ UNCHANGED disk

\* Fault: the id is the place in the sorted list, newest first.
NewestFirst(f, i) == Len(file[f]) + 1 - i
\* The row of file f that the id with number i names.
RowIndex(f, i) == i

\* list_leads: the user sees the row with its id.
ListLeads ==
    /\ \E f \in Files : \E i \in DOMAIN file[f] :
          pick' = Pick(f, i, file[f][RowIndex(f, i)])
    /\ shifted' = FALSE
    /\ UNCHANGED <<page, runner, disk>>

\* delete_lead: the files are read again, and the id looked up in them; no such row is a
\* 404, and a rewrite that fails leaves the rows it has written.
DeleteLead ==
    /\ Picked
    /\ LET f    == pick.file
           kept == RemoveAt(file[f], RowIndex(f, pick.pos))
       IN  IF pick.pos \notin DOMAIN file[f]
           THEN pick' = NoPick /\ UNCHANGED file
           ELSE \/ pick' = NoPick /\ file' = [file EXCEPT ![f] = kept]
                \/ /\ pick' = Failed
                   /\ \E n \in 0 .. Len(kept) : file' = [file EXCEPT ![f] = SubSeq(kept, 1, n)]
    /\ shifted' = FALSE
    /\ UNCHANGED <<page, runner, rows>>

\* Somebody else deletes a row.
DeleteOther ==
    /\ \E f \in Files : \E i \in DOMAIN file[f] :
          /\ file' = [file EXCEPT ![f] = RemoveAt(@, i)]
          /\ shifted' = (shifted \/ pick.file = f)
    /\ UNCHANGED <<page, runner, rows, pick>>

\* delete_all_leads and clear_lead_csv_files: every file whose name has the job's id.
ClearFiles ==
    /\ \E f \in Files : file[f] # <<>>
    /\ file' = [f \in Files |-> <<>>]
    /\ shifted' = (shifted \/ Picked)
    /\ UNCHANGED <<page, runner, rows, pick>>

-----------------------------------------------------------------------------
(* Detection.                                                              *)

\* Fault: the first match ends the evaluation's result.
BestOnly(S) == {k \in S : \A l \in S : Rank[l] <= Rank[k]}
\* What the runner goes through of the matches.
Handled(S) == S

\* evaluate: a match starts the keyword's cool-down, before anything is done about it.
Poll ==
    LET matches == page \ cooling IN
    /\ pc = "idle" /\ matches # {}
    /\ cooling' = cooling \cup matches
    /\ results' = Handled(matches) /\ pc' = "record"
    /\ UNCHANGED <<page, rule, attempts, received, disk, user>>

\* _log_event: the event is committed, and the row written.
LogEvent(k) ==
    /\ pc = "record" /\ k \in results /\ \A l \in results : Rank[l] <= Rank[k]
    /\ results' = results \ {k} /\ pc' = "count"
    /\ AppendRow("job")
    /\ UNCHANGED <<page, cooling, rule, attempts, received, user>>

\* _increment_lead; then the next match, or the rules.
Count ==
    /\ pc = "count"
    /\ pc' = IF results # {} THEN "record" ELSE "chain"
    /\ UNCHANGED <<page, cooling, results, rule, attempts, received, disk, user>>

\* The database fails: the cycle ends with an exception.
Fail ==
    /\ pc \in {"record", "count"}
    /\ pc' = "idle" /\ results' = {}
    /\ UNCHANGED <<page, cooling, rule, attempts, received, disk, user>>

-----------------------------------------------------------------------------
(* Actions.                                                                *)

Executing(kind) == pc = "chain" /\ rule <= Len(Rules) /\ Rules[rule] = kind
\* Fault: one attempt too many.
OneMoreAttempt == attempts <= Retries
MoreAttempts == attempts < Retries

NextRule == rule' = rule + 1 /\ attempts' = 0
Succeeds == NextRule
\* Fault: only an exception is counted, not a handler that returned False.
CountRaised == attempts' \in {attempts, attempts + 1} /\ UNCHANGED rule
\* The handler returned False, and is called again at once, or raised, and is called again
\* after a delay.
AttemptFails == attempts' = attempts + 1 /\ UNCHANGED rule

NoneReceived == [r \in DOMAIN Rules |-> 0]
Received == received' = [received EXCEPT ![rule] = @ + 1]
\* A post that fails may have been received: its answer is late, or an error.
Webhook ==
    /\ Executing("webhook") /\ MoreAttempts
    /\ \/ Succeeds /\ Received
       \/ AttemptFails /\ (Received \/ UNCHANGED received)
    /\ UNCHANGED <<page, cooling, pc, results, disk, user>>

\* extract_latest_inquiry: an inquiry that was opened in vain is written, too.
OpenInquiry ==
    /\ Executing("open_inquiry") /\ MoreAttempts
    /\ Succeeds \/ AttemptFails
    /\ AppendRow("rules")
    /\ UNCHANGED <<page, cooling, pc, results, received, user>>

OtherAction ==
    /\ Executing("other") /\ MoreAttempts
    /\ Succeeds \/ AttemptFails
    /\ UNCHANGED <<page, cooling, pc, results, received, disk, user>>

\* Fault: the chain begins again when a rule has failed.
StartOver ==
    /\ pc = "chain" /\ rule <= Len(Rules) /\ ~MoreAttempts
    /\ rule' = 1 /\ attempts' = 0 /\ received' = NoneReceived
    /\ UNCHANGED <<page, cooling, pc, results, disk, user>>
\* A rule that failed is recorded with a screenshot, and the chain goes on.
GiveUp ==
    /\ pc = "chain" /\ rule <= Len(Rules) /\ ~MoreAttempts
    /\ NextRule
    /\ UNCHANGED <<page, cooling, pc, results, received, disk, user>>

EndChain ==
    /\ pc = "chain" /\ rule > Len(Rules)
    /\ pc' = "idle" /\ rule' = 1 /\ attempts' = 0 /\ received' = NoneReceived
    /\ UNCHANGED <<page, cooling, results, disk, user>>

-----------------------------------------------------------------------------
(* The rest of the world.                                                  *)

CoolDownEnds(k) ==
    /\ k \in cooling /\ cooling' = cooling \ {k}
    /\ UNCHANGED <<page, pc, results, rule, attempts, received, disk, user>>

PageChanges ==
    /\ page' \in (SUBSET Keywords) \ {page}
    /\ UNCHANGED <<runner, disk, user>>

\* A runner is started anew, and knows of no cool-down.
NewRunner ==
    /\ cooling' = {} /\ pc' = "idle" /\ results' = {}
    /\ rule' = 1 /\ attempts' = 0 /\ received' = NoneReceived
RestartJob == NewRunner /\ UNCHANGED <<page, disk, user>>

\* hash() differs from process to process: no id of the old one names a row of the new.
Crash ==
    /\ NewRunner /\ pick' = NoPick /\ shifted' = FALSE
    /\ UNCHANGED <<page, disk>>

Init ==
    /\ page \in SUBSET Keywords
    /\ cooling = {} /\ pc = "idle" /\ results = {}
    /\ rule = 1 /\ attempts = 0 /\ received = NoneReceived
    /\ file = [f \in Files |-> <<>>] /\ rows = 0
    /\ pick = NoPick /\ shifted = FALSE

RunnerStep ==
    \/ Poll \/ Count \/ Fail \/ \E k \in Keywords : LogEvent(k)
    \/ Webhook \/ OpenInquiry \/ OtherAction \/ GiveUp \/ EndChain
UserStep == ListLeads \/ DeleteLead \/ DeleteOther \/ ClearFiles

Next ==
    \/ RunnerStep \/ UserStep \/ PageChanges \/ RestartJob \/ Crash
    \/ \E k \in Keywords : CoolDownEnds(k)

Spec == Init /\ [][Next]_vars
\* The cycle goes on, cool-downs pass, and no write fails each time it is tried.
FairSpec ==
    /\ Spec /\ WF_vars(RunnerStep)
    /\ \A k \in Keywords : WF_vars(CoolDownEnds(k))
    /\ \A S \in SUBSET Keywords \ {{}} : SF_vars(results = S /\ \E k \in S : LogEvent(k))
    /\ \A S \in SUBSET Keywords \ {Keywords} : SF_vars(results = S /\ Count)

-----------------------------------------------------------------------------
TypeOK ==
    /\ page \subseteq Keywords /\ cooling \subseteq Keywords /\ results \subseteq Keywords
    /\ pc \in {"idle", "record", "count", "chain"}
    /\ rule \in 1 .. Len(Rules) + 1 /\ attempts \in 0 .. Retries
    /\ received \in [DOMAIN Rules -> Nat]
    /\ rows \in 0 .. MaxRows /\ file \in [Files -> Seq(Row)]
    /\ pick \in [file : Files, pos : Row, row : Row] \cup {NoPick, Failed} /\ shifted \in BOOLEAN

\* A webhook takes effect at most as often as its rule may be tried, although attempts that
\* failed may have been received, and never before its turn in the chain.
RetriesBoundEffect ==
    \A r \in DOMAIN Rules : received[r] <= IF r <= rule THEN Retries ELSE 0

RemovesOnly(f, r) ==
    /\ ToSet(file'[f]) = ToSet(file[f]) \ {r}
    /\ \A g \in Files \ {f} : file'[g] = file[g]
\* A delete that is reported as done removes the row the user saw, and no other, although
\* the job appends rows meanwhile; unless a row of that file was removed since.
DeleteHitsSeen ==
    [][pick' = NoPick /\ Picked /\ ~shifted /\ file' # file
         => RemovesOnly(pick.file, pick.row)]_vars

\* A keyword that stays on the page is detected again and again, although its cool-down
\* starts before it is recorded, and a match that cannot be recorded is dropped.
KeywordDetected ==
    \A k \in Keywords : []<>(k \notin page) \/ []<><<LogEvent(k)>>_vars

\* A chain ends, whatever its rules answer.
ChainEnds == pc = "chain" ~> pc = "idle"
=============================================================================
