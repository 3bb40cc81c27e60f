------------------------------ MODULE LeadCapture ------------------------------
(***************************************************************************)
(* A poll cycle on the scanner's page: FeedNavigation brings the feed, and *)
(* the cycle opens the detail panel of each matching row, reveals the      *)
(* buyer's contact and reads it (indiamart_leads.py, and the drain of      *)
(* job_runner.py).                                                         *)
(*                                                                         *)
(* The site opens a panel some time after the click that asked for it, or  *)
(* never, and leaves it open.  All the code has is the text of whatever is *)
(* in front, which may be another row's panel or the page with an earlier  *)
(* row's card: it remembers the text from before the click, if it could be *)
(* read, and accepts one that differs from it and fits the row.            *)
(***************************************************************************)
EXTENDS FeedNavigation

CONSTANTS
    Leads,     \* matching rows of the feed
    Includes,  \* pairs <<l, m>>: the card of l has the title of m in it
    Alike,     \* pairs <<l, m>>: the panel of l has two words of m's title, or its only one
    Wordless,  \* rows whose title and text have no word that tells products apart
    City,      \* the address in a row's text, or NoCity
    NoCity,
    Looks,     \* what a text of a row may be like: its kind and what it shows
    None       \* no lead

ASSUME PairsOfRows    == Includes \subseteq Leads \X Leads /\ Alike \subseteq Leads \X Leads
ASSUME WordlessRows   == Wordless \subseteq Leads
ASSUME NoneIsNoLead   == None \notin Leads
ASSUME SomeLead       == Leads # {}
\* "titled": the panel names its product; "popup": a contact card that does not; "feed":
\* no panel is open, and the text is that of main or of the whole page, which has the row
\* that is looked for, and may have a contact that was revealed before.  A text may show an
\* address, the contact (phone or email), the buyer's name and greeting, and a time that ticks.
ASSUME LooksOfTexts  ==
    Looks \subseteq [kind : {"titled", "popup"},
                     shows : SUBSET {"address", "name", "contact", "ticked"}]
                    \cup [kind : {"feed"}, shows : SUBSET {"contact", "ticked"}]

VARIABLES
    todo,    \* rows queued and not processed
    item,    \* the row being processed
    panel,   \* the text _read_detail_panel_text would return
    stale,   \* the text it returned before the click, or NoText
    way,     \* the click strategy, 1 to 3: mouse, DOM events, locator
    tries,   \* reveal attempts so far
    text,    \* the panel text that was accepted last, if a contact is in it
    result,  \* the text a contact was read from
    stray    \* since the click, a text with another row's contact has come in front

capture == <<todo, item, panel, stale, way, tries, text, result, stray>>
vars == <<feedVars, capture>>

-----------------------------------------------------------------------------
(* Panel texts.                                                            *)

Text(k, l, S) == [kind |-> k, of |-> l, shows |-> S]
\* A read that raises, or returns next to nothing.
NoText == Text("none", None, {})
Plain  == Text("feed", None, {})
TextsOf(l) == {Text(k.kind, l, k.shows) : k \in Looks}
Texts  == {Plain} \cup UNION {TextsOf(l) : l \in Leads}

Shows(p, what) == what \in p.shows
Near(l, m)     == City[m] = NoCity \/ City[l] = City[m]
\* click_buyer_lead_block looks for a card with the row's title and address.
SameCard(l, m) == <<l, m>> \in Includes /\ Near(l, m)

AddressConflicts(p) == Shows(p, "address") /\ ~Near(p.of, item)
TitleFits(p) == \/ p.kind = "feed" \/ item \in Wordless
                \/ p.kind = "titled" /\ <<p.of, item>> \in Alike
\* _panel_has_fresh_buyer_response_popup; _parse_name_from_panel raises when it comes to
\* its last pattern, which is not a regular expression.
Greets(p)  == Shows(p, "contact") /\ Shows(p, "name")
\* Any text differs from one that could not be read.
Changed(p) == p # stale

\* Fault: a panel that was there before the click is accepted.
MatchesOld(p) == p # NoText /\ ~AddressConflicts(p) /\ (TitleFits(p) \/ Greets(p))
\* _panel_matches_block.  A greeting is not trusted when nothing was read before the click.
Matches(p) == /\ p # NoText /\ Changed(p) /\ ~AddressConflicts(p)
              /\ TitleFits(p) \/ (stale # NoText /\ Greets(p))
MatchRaises(p) ==
    /\ p # NoText /\ Changed(p) /\ ~AddressConflicts(p) /\ ~TitleFits(p)
    /\ stale # NoText /\ Shows(p, "contact") /\ ~Shows(p, "name")

-----------------------------------------------------------------------------
(* Taking a row and opening its panel.                                     *)

AnyLead == CHOOSE l \in Leads : TRUE
Locals  == <<item, stale, way, tries, text, result, stray>>
Work(from, to) == pc = from /\ GoTo(to) /\ UNCHANGED <<page, caller, attempt, cand, saw>>
Cleared ==
    /\ item' = AnyLead /\ stale' = Plain /\ way' = 1 /\ tries' = 0
    /\ text' = Plain /\ result' = Plain /\ stray' = FALSE
\* The row is done with, for now or for good.
Done(from, to) ==
    /\ Work(from, to) /\ Cleared

EnqueueMatches ==
    /\ Work("match", "take")
    /\ \E S \in SUBSET Leads : todo' = todo \cup S /\ todo' # {}
    /\ UNCHANGED <<Locals, panel>>

\* The next row; first back to the Recent feed when the page has left it.
TakeItem ==
    /\ pc = "take"
    /\ \E l \in todo : todo' = todo \ {l} /\ item' = l
    /\ IF page.url = "recent" THEN Work("take", "find") ELSE Ensure("drain")
    /\ UNCHANGED <<panel, stale, way, tries, text, result, stray>>

QueueIsEmpty == Work("take", "idle") /\ todo = {} /\ UNCHANGED capture

\* _find_current_indiamart_block_for_queue_item.
FindAgain ==
    /\ \/ Work("find", "before") /\ BodyRows(page) /\ UNCHANGED Locals
       \/ Done("find", "take")
    /\ UNCHANGED <<todo, panel>>

\* What a read of the panel may return.
Read == {panel, NoText}

ReadBefore ==
    /\ Work("before", "click") /\ stale' \in Read
    /\ UNCHANGED <<todo, item, panel, way, tries, text, result, stray>>

\* The next strategy, or the row cools down.
NextWay ==
    \/ way < 3 /\ Work(pc, "click") /\ way' = way + 1
       /\ UNCHANGED <<item, stale, tries, text, result, stray>>
    \/ way = 3 /\ Done(pc, "take")

Click ==
    /\ pc = "click"
    /\ \/ NextWay
       \/ Work("click", "opening") /\ UNCHANGED Locals
    /\ UNCHANGED <<todo, panel>>

Opened ==
    /\ Work("opening", "panel") /\ Matches(panel) /\ way' = 1
    /\ UNCHANGED <<todo, item, panel, stale, tries, text, result, stray>>
\* No matching panel is read in time, or an exception, which every strategy swallows.
NotOpened ==
    /\ pc = "opening" /\ NextWay
    /\ UNCHANGED <<todo, panel>>

-----------------------------------------------------------------------------
(* extract_buyer_details.                                                  *)

\* The text is applied to the lead: a contact in it may be parsed, or overlooked.
Apply(from, otherwise) ==
    /\ text' = IF Shows(panel, "contact") THEN panel ELSE Plain
    /\ \/ Shows(panel, "contact") /\ Work(from, "save") /\ result' = panel
       \/ Work(from, otherwise) /\ UNCHANGED result
    /\ UNCHANGED <<todo, item, panel, stale, way, tries, stray>>

ReadPanel ==
    /\ pc = "panel" /\ Matches(panel) /\ (panel.kind = "feed" \/ Shows(panel, "name"))
    /\ Apply("panel", "reveal")
\* Another panel came in front since the click, or none can be read: the row cools down.
Mismatch ==
    /\ Done("panel", "take") /\ \E p \in Read : ~Matches(p) /\ ~MatchRaises(p)
    /\ UNCHANGED <<todo, panel>>
\* A panel without anything like a name raises out of the drain, and the row is lost.
NameRaises ==
    /\ Done("panel", "backoff")
    /\ MatchRaises(panel) \/ (Matches(panel) /\ panel.kind # "feed" /\ ~Shows(panel, "name"))
    /\ UNCHANGED <<todo, panel>>

\* reveal_indiamart_buyer_contact: no control, or one of the panel or of any row in view.
Reveal ==
    /\ Work("reveal", "reread")
    /\ tries' \in {tries + 1, 2}
    /\ UNCHANGED <<todo, item, panel, stale, way, text, result, stray>>

\* Fault: a contact that is not shown is asked for again and again.
RevealForever == "reveal"
AfterReread == IF tries < 2 THEN "reveal" ELSE "fallback"

\* Fault: what is open after the reveal is read without being matched.
RereadAnything == Apply("reread", AfterReread)

\* The panel is matched again before it is read again.
Reread ==
    \/ pc = "reread" /\ Matches(panel) /\ Apply("reread", AfterReread)
    \/ /\ Work("reread", AfterReread) /\ text' = Plain
       /\ \E p \in Read : ~Matches(p) /\ ~MatchRaises(p)
       /\ UNCHANGED <<todo, item, panel, stale, way, tries, result, stray>>
RereadRaises ==
    Done("reread", "backoff") /\ MatchRaises(panel) /\ UNCHANGED <<todo, panel>>

\* _regex_fallback_extract on the text accepted last; without a contact the lead is partial.
Fallback ==
    \/ /\ Work("fallback", "save") /\ Shows(text, "contact") /\ result' = text
       /\ UNCHANGED <<todo, item, panel, stale, way, tries, text, stray>>
    \/ Done("fallback", "take") /\ UNCHANGED <<todo, panel>>

Save == Done("save", "take") /\ UNCHANGED <<todo, panel>>

-----------------------------------------------------------------------------
(* The site.                                                               *)

Reading == pc \in {"click", "opening", "panel", "reveal", "reread", "fallback", "save"}

\* Only the texts from ReadBefore on are ever read: what the site shows before that is
\* left out, as it could as well show it there.
InFront == pc = "before" \/ Reading

Strays(p) == Shows(p, "contact") /\ ~SameCard(p.of, item)
BringsUp(p) ==
    /\ InFront /\ panel' = p
    /\ stray' = (stray \/ (Reading /\ Strays(p)))
    /\ UNCHANGED <<feedVars, todo, item, stale, way, tries, text, result>>

\* A row's panel comes in front, late or at once, or what it shows changes, or it is closed.
PanelChanges == \E p \in Texts \ {panel} : BringsUp(p)

\* A page that is loaded has no panel open.
Navigating ==
    /\ IF page' # page THEN panel' = Plain ELSE UNCHANGED panel
    /\ UNCHANGED <<todo, Locals>>

\* page.evaluate is not answered: the cycle waits until the client stops the job, and what
\* it had in hand is lost.
PageHangs ==
    /\ pc \in Evaluates \cup {"find", "before", "click", "opening", "panel", "reveal", "reread"}
    /\ pc' = "hung" /\ Forgotten /\ UNCHANGED page
    /\ todo' = {} /\ panel' = Plain /\ Cleared

\* A new runner, with a new browser and an empty queue.
Restart ==
    /\ LogIn
    /\ todo' = {} /\ panel' = Plain /\ Cleared

CaptureStep ==
    \/ EnqueueMatches \/ TakeItem \/ QueueIsEmpty \/ FindAgain \/ ReadBefore \/ Click
    \/ Opened \/ NotOpened \/ ReadPanel \/ Mismatch \/ NameRaises \/ Reveal
    \/ Reread \/ RereadRaises \/ Fallback \/ Save

Init ==
    /\ FeedInit
    /\ todo = {} /\ item = AnyLead
    /\ panel = Plain /\ stale = Plain /\ way = 1 /\ tries = 0
    /\ text = Plain /\ result = Plain /\ stray = FALSE

RunnerStep == (FeedStep /\ Navigating) \/ CaptureStep
Next ==
    \/ RunnerStep \/ PageHangs \/ Restart
    \/ (Render /\ Navigating) \/ PanelChanges

Spec == Init /\ [][Next]_vars
\* The cycle goes on as long as the page answers: every other wait has a timeout.  The site
\* and the client promise nothing.
FairSpec == Spec /\ WF_vars(RunnerStep)

-----------------------------------------------------------------------------
TypeOK ==
    /\ FeedTypeOK
    /\ pc \in NavPcs \cup {"take", "find", "before", "click", "opening", "panel", "reveal",
                           "reread", "fallback", "save"}
    /\ todo \in SUBSET Leads /\ item \in Leads
    /\ panel \in Texts /\ stale \in Texts \cup {NoText} /\ text \in Texts /\ result \in Texts
    /\ way \in 1 .. 3 /\ tries \in 0 .. 2 /\ stray \in BOOLEAN

\* A job pauses for a login only in front of a page that asks for one or is the public
\* one, never for a feed that is empty, slow or not readable, unless the page is gone.
PauseHasCause == pc = "paused" => LoggedOut(page) \/ page = Blank

\* Rows with which a look ended the recovery are there when it returns, but for another
\* feed that it leaves because its text does not show them.  (The look after a hard reload
\* ends nothing: LookAfterReload.)
SeenRowsAreKept == [][saw /\ ~saw' => BodyRows(page') \/ pc = "force"]_vars

\* Unless a text with another row's contact has come in front since the click, the contact
\* read is that of the row that was clicked, although panels and cards of earlier rows stay
\* there; but not when the text from before the click could not be read.
ContactBelongs == pc = "save" /\ ~stray /\ stale # NoText => SameCard(result.of, item)

\* Whatever the site opens, and when, and however often the panel is read again: no contact
\* comes from a text that shows another address or that was read before the click, and one
\* that does not name the row's product greets its buyer and was compared with that text.
ContactIsSupported ==
    pc = "save" => /\ Changed(result) /\ ~AddressConflicts(result)
                   /\ TitleFits(result) \/ (stale # NoText /\ Greets(result))

\* Every poll cycle ends or hangs in a page that does not answer, whatever it shows.
CycleEnds ==
    pc \notin {"idle", "paused", "hung"} ~> pc \in {"idle", "paused", "hung"}

\* A cycle that begins on a logged-out page pauses the job, unless the page hangs or some
\* page loads that is not logged out.  It may never notice when the job has no active
\* keywords, or when it tries portable cookies again and again, and the site answers them
\* with a sign-in page of another host, which the code does not tell from a feed.
LogoutNoticed ==
    \/ (pc = "idle" /\ LoggedOut(page)) ~> (pc \in {"paused", "hung"} \/ ~LoggedOut(page))
    \/ []<><<NoKeywords>>_vars
    \/ []<>(pc = "cookies")
=============================================================================
