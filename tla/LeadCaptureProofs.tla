--------------------------- MODULE LeadCaptureProofs ---------------------------
(***************************************************************************)
(* Proofs about a poll cycle on the scanner's page: that the job pauses    *)
(* only in front of a logged-out page, that a recovery hands the rows that *)
(* ended it to its caller, and that a contact is read from a text that     *)
(* fits the row and, when none with another row's contact came in front,   *)
(* is the row's own.                                                       *)
(***************************************************************************)
EXTENDS LeadCapture, TLAPS

-----------------------------------------------------------------------------
(* Pages.                                                                  *)

GoodPage(p) ==
    /\ p \in [url : Urls, body : Bodies]
    /\ p.url = "login" => p.body = "none"
    /\ p.body = "landing" => OnSeller(p)
    /\ p.body = "signin" => p.url = "off"

\* A page that has been loaded.
SitePage(p) == GoodPage(p) /\ p.url # "blank"

\* A page that renders is one of the site, wherever it is.
LEMMA RenderedIsSitePage ==
    ASSUME NEW u \in Urls \ {"blank", "login"}, NEW b \in Rendered
    PROVE  SitePage(Page(u, b))
BY DEF SitePage, GoodPage, Page, Rendered, Urls, Bodies

\* So are those that the site sends a seller to whom it does not take for logged in.
LEMMA RefusedIsSitePage ==
    ASSUME NEW u, NEW p \in Refused(u)
    PROVE  SitePage(p)
<1>1. \/ p = Page("login", "none")
      \/ p = Page("off", "signin")
      \/ \E v \in BuyLeads \cup {"seller"} : p = Page(v, "landing")
  BY DEF Refused
<1> QED
  BY <1>1 DEF SitePage, GoodPage, Page, Urls, Bodies, OnSeller, BuyLeads

\* What a goto of the feed's URLs loads is a page of the site.
LEMMA LoadedIsSitePage ==
    ASSUME NEW u \in {"recent", "plain", "seller"}, NEW p \in Loaded(u)
    PROVE  SitePage(p)
<1>1. CASE p \in LoggedIn(u)
  <2>1. CASE p = Page("off", "empty")
    BY <2>1, RenderedIsSitePage DEF Urls, Rendered
  <2>2. CASE p # Page("off", "empty")
    <3> PICK v \in {u, "other"}, b \in Rendered : p = Page(v, b)
      BY <1>1, <2>2 DEF LoggedIn
    <3> QED
      BY RenderedIsSitePage DEF Urls
  <2> QED
    BY <2>1, <2>2
<1>2. CASE p \in Refused(u)
  BY <1>2, RefusedIsSitePage
<1> QED
  BY <1>1, <1>2 DEF Loaded

\* A goto that fails leaves the page it was on.
LEMMA GotoStaysOnSite ==
    ASSUME NEW u \in {"recent", "plain", "seller"}, SitePage(page), Goto(u)
    PROVE  SitePage(page')
BY LoadedIsSitePage DEF Goto

LEMMA ClickStaysOnSite ==
    ASSUME SitePage(page), UNCHANGED page \/ TabClicked
    PROVE  SitePage(page')
<1>1. CASE TabClicked
  <2> PICK b \in Rendered : page' = Page("recent", b)
    BY <1>1 DEF TabClicked
  <2> QED
    BY RenderedIsSitePage DEF Urls
<1> QED
  BY <1>1

LEMMA SidebarStaysOnSite ==
    ASSUME ClickSidebar
    PROVE  SitePage(page')
<1> PICK u \in BuyLeads \cup {"seller"}, b \in Rendered : page' = Page(u, b)
  BY DEF ClickSidebar
<1> QED
  BY RenderedIsSitePage DEF Urls, BuyLeads

LEMMA ReloadStaysOnSite ==
    ASSUME SitePage(page), HardReload
    PROVE  SitePage(page')
<1>1. CASE page' \in Refused(page.url)
  BY <1>1, RefusedIsSitePage
<1>2. CASE OnSeller(page) /\ page' \in {Page(page.url, b) : b \in Rendered}
  <2> PICK b \in Rendered : page' = Page(page.url, b)
    BY <1>2
  <2> QED
    BY <1>2, RenderedIsSitePage DEF Urls, OnSeller, BuyLeads
<1> QED
  BY <1>1, <1>2 DEF HardReload

\* A rendering page stays a page of the site, keeps its rows, and never was logged out.
LEMMA RenderStaysOnSite ==
    ASSUME Render
    PROVE  SitePage(page') /\ (BodyRows(page) => BodyRows(page'))
           /\ ~LoggedOut(page) /\ page.url # "blank"
<1>1. /\ OnSeller(page) /\ page.body \in {"shell", "empty", "aside"}
      /\ \E u \in {page.url, "other"}, b \in Unfinished[page.body] : page' = Page(u, b)
  BY DEF Render, Unfinished
<1>2. PICK u \in {page.url, "other"}, b \in Unfinished[page.body] : page' = Page(u, b)
  BY <1>1
<1>3. b \in Rendered /\ (page.body = "aside" => b = "rows")
  BY <1>1 DEF Unfinished, Rendered
<1>4. SitePage(page')
  BY <1>1, <1>2, <1>3, RenderedIsSitePage DEF OnSeller, BuyLeads, Urls
<1>5. BodyRows(page) => BodyRows(page')
  BY <1>1, <1>2, <1>3 DEF BodyRows, Page
<1> QED
  BY <1>1, <1>4, <1>5 DEF LoggedOut, Landing, OnSeller, BuyLeads

-----------------------------------------------------------------------------
(* Bringing the feed.                                                      *)

\* Where the page may be blank: before the first goto, and when it is gone or is not used.
Offsite == {"idle", "open", "backoff", "paused", "hung"}

\* What the cycle's place says of its page: elsewhere it is on the site; the cookies are
\* restored, and the job paused, in front of a logged-out page; and rows that were seen
\* are still there when the recovery returns, unless it leaves another feed.
Facing ==
    /\ pc \notin Offsite => page.url # "blank"
    /\ pc = "cookies" => Landing(page)
    /\ PauseHasCause
    /\ saw => pc \in {"final", "force"} /\ (BodyRows(page) \/ pc = "force")

Fed == FeedTypeOK /\ Facing

\* Where such a step leads: a drain that returns to the feed looks for its row there.
FeedPcs == NavPcs \cup {"find"}

\* What a step that brings the feed leaves behind.
FedStep ==
    Fed' /\ pc' \in FeedPcs /\ (saw /\ ~saw' => BodyRows(page') \/ pc = "force")

LEMMA PageOfFeed == FeedTypeOK <=>
    /\ GoodPage(page)
    /\ caller \in DOMAIN Return /\ attempt \in {0, 1} /\ cand \in 1 .. 3 /\ saw \in BOOLEAN
BY DEF FeedTypeOK, GoodPage

\* A step between two places of a recovery where no rows have been seen and the page is on
\* the site needs to say no more than where it goes and what it sees.
LEMMA OnTheWay ==
    ASSUME SitePage(page)',
           caller' \in DOMAIN Return, attempt' \in {0, 1}, cand' \in 1 .. 3, saw' \in BOOLEAN,
           pc' \in FeedPcs \ {"cookies", "paused"},
           saw' => pc' \in {"final", "force"} /\ (BodyRows(page') \/ pc' = "force"),
           saw /\ ~saw' => BodyRows(page') \/ pc = "force"
    PROVE  FedStep
<1>1. FeedTypeOK'
  BY DEF SitePage, GoodPage, FeedTypeOK
<1>2. Facing'
  BY DEF SitePage, Facing, PauseHasCause
<1> QED
  BY <1>1, <1>2 DEF FedStep, Fed
LEMMA Callers ==
    /\ DOMAIN Return = {"target", "restore", "recent", "rows", "drain"}
    /\ \A c \in DOMAIN Return : Return[c] \in {"expiry", "reauth", "recheck", "rescan", "find"}
BY DEF Return

\* When ensure_bltxn_leads_page is left, nothing of its local variables is.
LEMMA ForgottenTypes ==
    ASSUME Forgotten
    PROVE  /\ caller' \in DOMAIN Return /\ attempt' \in {0, 1} /\ cand' \in 1 .. 3
           /\ ~saw' /\ saw' \in BOOLEAN
<1>1. caller' = "target" /\ attempt' = 0 /\ cand' = 1 /\ saw' = FALSE
  BY DEF Forgotten
<1>2. caller' \in DOMAIN Return
  BY <1>1, Callers
<1>3. attempt' \in {0, 1} /\ cand' \in 1 .. 3
  BY <1>1
<1>4. ~saw' /\ saw' \in BOOLEAN
  BY <1>1
<1> QED
  BY <1>2, <1>3, <1>4

\* Every action of a recovery.
LEMMA EnsureStepFed ==
    ASSUME Fed, EnsureStep
    PROVE  FedStep
<1> USE PageOfFeed, Callers
<1>s. /\ SitePage(page)
      /\ caller \in DOMAIN Return /\ attempt \in {0, 1} /\ cand \in 1 .. 3 /\ saw \in BOOLEAN
      /\ saw => pc \in {"final", "force"} /\ (BodyRows(page) \/ pc = "force")
  <2>1. pc \notin Offsite
    BY DEF EnsureStep, OpenRecent, ForceRecent, ClickRecentTab, WaitForMarkers, CheckBody,
           TryAgain, Look, OpenSidebar, LookAfterSidebar, PageLost, OpenVariant, LookAtVariant,
           ClickVariantTab, LookAfterTab, HardReload, LookAfterReload, Finish,
           ForceBeforeReturn, Offsite
  <2> QED
    BY <2>1 DEF Fed, Facing, SitePage
<1>1. CASE OpenRecent
  <2>1. SitePage(page')
    BY <1>1, <1>s, GotoStaysOnSite DEF OpenRecent
  <2> QED
    BY <1>1, <1>s, <2>1, OnTheWay DEF OpenRecent, GoTo, FeedPcs, NavPcs, Evaluates
<1>2. CASE ForceRecent
  <2>1. SitePage(page')
    BY <1>2, <1>s, GotoStaysOnSite DEF ForceRecent
  <2> QED
    BY <1>2, <1>s, <2>1, OnTheWay DEF ForceRecent, GoTo, FeedPcs, NavPcs, Evaluates
<1>3. CASE ClickRecentTab
  <2>1. SitePage(page')
    BY <1>3, <1>s, ClickStaysOnSite DEF ClickRecentTab, ClickTab
  <2> QED
    BY <1>3, <1>s, <2>1, OnTheWay DEF ClickRecentTab, GoTo, FeedPcs, NavPcs, Evaluates
<1>look. ASSUME NEW rows \in BOOLEAN, NEW l \in {"body", "sidebar", "variant", "vtab"},
                pc \notin {"final", "force"}, Look(rows, l), rows => BodyRows(page)
         PROVE  FedStep
  BY <1>look, <1>s, OnTheWay DEF Look, GoTo, FeedPcs, NavPcs, Evaluates, BodyRows
<1>rows. /\ BodyRows(page) \in BOOLEAN /\ RootRows(page) \in BOOLEAN
         /\ RootRows(page) => BodyRows(page)
  BY DEF BodyRows, RootRows
<1>4. CASE WaitForMarkers
  BY <1>4, <1>look, <1>rows DEF WaitForMarkers
<1>next. ASSUME NextAttempt
         PROVE  pc' \in {"goto", "final"} /\ attempt' \in {0, 1}
  BY <1>next, <1>s DEF NextAttempt, GoTo
<1>5. CASE CheckBody
  <2>1. CASE Look(RootRows(page), "sidebar")
    BY <1>5, <2>1, <1>look, <1>rows DEF CheckBody
  <2>2. CASE TryAgain
    BY <1>5, <1>s, <2>2, <1>next, OnTheWay DEF CheckBody, TryAgain, FeedPcs, NavPcs, Evaluates
  <2> QED
    BY <1>5, <2>1, <2>2 DEF CheckBody
<1>6. CASE OpenSidebar
  <2>1. SitePage(page')
    BY <1>6, <1>s, SidebarStaysOnSite DEF OpenSidebar
  <2> QED
    BY <1>6, <1>s, <2>1, OnTheWay DEF OpenSidebar, GoTo, FeedPcs, NavPcs, Evaluates
<1>7. CASE LookAfterSidebar
  BY <1>7, <1>look, <1>rows DEF LookAfterSidebar
<1>8. CASE PageLost
  <2>1. /\ pc = "clicked" /\ page' = Blank /\ pc' \in {"paused", "backoff"}
        /\ caller' = "target" /\ attempt' = 0 /\ cand' = 1 /\ saw' = FALSE
    BY <1>8 DEF PageLost, GoTo, Forgotten
  <2>2. FeedTypeOK'
    <3>1. page'.url = "blank" /\ page'.body = "none" /\ GoodPage(page)'
      BY <2>1 DEF GoodPage, Blank, Page, Urls, Bodies
    <3> QED
      BY <1>8, <3>1, ForgottenTypes DEF PageLost, FeedTypeOK, GoodPage
  <2>3. Facing'
    BY <2>1 DEF Facing, PauseHasCause, Offsite
  <2> QED
    BY <1>s, <2>1, <2>2, <2>3 DEF FedStep, Fed, FeedPcs, NavPcs, Evaluates
<1>9. CASE OpenVariant
  <2>1. PICK u \in {"recent", "plain", "seller"} :
            \/ page' \in Loaded(u) /\ GoTo("vlook") /\ UNCHANGED cand
            \/ Goto(u) /\ NextVariant
    BY <1>9 DEF OpenVariant
  <2>2. SitePage(page')
    BY <1>s, <2>1, GotoStaysOnSite DEF Goto
  <2>3. pc' \in {"vlook", "variant", "reload"} /\ cand' \in 1 .. 3
    BY <1>s, <2>1 DEF NextVariant, GoTo
  <2> QED
    BY <1>9, <1>s, <2>2, <2>3, OnTheWay DEF OpenVariant, FeedPcs, NavPcs, Evaluates
<1>10. CASE LookAtVariant
  BY <1>10, <1>look, <1>rows DEF LookAtVariant
<1>11. CASE ClickVariantTab
  <2>1. SitePage(page')
    BY <1>11, <1>s, ClickStaysOnSite DEF ClickVariantTab
  <2> QED
    BY <1>11, <1>s, <2>1, OnTheWay DEF ClickVariantTab, GoTo, FeedPcs, NavPcs, Evaluates
<1>12. CASE LookAfterTab
  <2>1. /\ cand' \in 1 .. 3 /\ saw' \in BOOLEAN /\ (saw' => BodyRows(page))
        /\ pc' \in {"final", "variant", "reload"} /\ (saw' => pc' = "final")
    BY <1>12, <1>s, <1>rows DEF LookAfterTab, NextVariant, GoTo
  <2>2. /\ pc \notin {"final", "force"}
        /\ page' = page /\ caller' = caller /\ attempt' = attempt
    BY <1>12 DEF LookAfterTab
  <2>3. pc' \in FeedPcs \ {"cookies", "paused"}
    BY <2>1 DEF FeedPcs, NavPcs, Evaluates
  <2> QED
    BY <1>s, <2>1, <2>2, <2>3, OnTheWay
<1>13. CASE HardReload
  <2>1. SitePage(page')
    BY <1>13, <1>s, ReloadStaysOnSite
  <2> QED
    BY <1>13, <1>s, <2>1, OnTheWay DEF HardReload, GoTo, FeedPcs, NavPcs, Evaluates
<1>14. CASE LookAfterReload
  BY <1>14, <1>s, <1>next, OnTheWay DEF LookAfterReload, FeedPcs, NavPcs, Evaluates
<1>return. ASSUME ToCaller
           PROVE  /\ pc' \in FeedPcs \ {"cookies", "paused"} /\ ~saw' /\ saw' \in BOOLEAN
                  /\ caller' \in DOMAIN Return /\ attempt' \in {0, 1} /\ cand' \in 1 .. 3
  <2>1. pc' \in {"expiry", "reauth", "recheck", "rescan", "find"}
    BY <1>return, <1>s, Callers DEF ToCaller, GoTo
  <2>2. pc' \in FeedPcs \ {"cookies", "paused"}
    BY <2>1 DEF FeedPcs, NavPcs, Evaluates
  <2> QED
    BY <1>return, <2>2, ForgottenTypes DEF ToCaller
<1>15. CASE Finish
  <2>1. pc = "final" /\ page' = page
    BY <1>15 DEF Finish
  <2>2. CASE ToCaller
    BY <1>s, <2>1, <2>2, <1>return, OnTheWay
  <2>3. CASE GoTo("force") /\ UNCHANGED <<caller, attempt, cand, saw>>
    BY <1>s, <2>1, <2>3, OnTheWay DEF GoTo, FeedPcs, NavPcs, Evaluates
  <2> QED
    BY <1>15, <2>2, <2>3 DEF Finish
<1>16. CASE ForceBeforeReturn
  <2>1. SitePage(page')
    BY <1>16, <1>s, GotoStaysOnSite DEF ForceBeforeReturn
  <2> QED
    BY <1>16, <1>s, <2>1, <1>return, OnTheWay DEF ForceBeforeReturn
<1> QED
  BY <1>1, <1>2, <1>3, <1>4, <1>5, <1>6, <1>7, <1>8, <1>9, <1>10, <1>11, <1>12, <1>13, <1>14,
     <1>15, <1>16 DEF EnsureStep

\* A step that leaves the page as it is: of bringing the feed, or of working on a row.
LEMMA WorkFed ==
    ASSUME Fed, NEW from, NEW to, Work(from, to), from \notin {"final", "force"},
           to \in Offsite \/ page.url # "blank",
           to = "cookies" => Landing(page),
           to = "paused" => LoggedOut(page)
    PROVE  Fed' /\ ~saw
<1>1. /\ pc = from /\ pc' = to /\ page' = page
      /\ caller' = caller /\ attempt' = attempt /\ cand' = cand /\ saw' = saw
  BY DEF Work, GoTo
<1>2. ~saw
  BY <1>1 DEF Fed, Facing
<1>3. FeedTypeOK'
  BY <1>1 DEF Fed, FeedTypeOK, OnSeller
<1>4. Facing'
  BY <1>1, <1>2 DEF Facing, PauseHasCause, Landing, LoggedOut
<1> QED
  BY <1>2, <1>3, <1>4 DEF Fed

LEMMA StepFed ==
    ASSUME Fed, NEW from \in NavPcs \ {"final", "force"}, NEW to \in NavPcs, Step(from, to),
           to \in Offsite \/ page.url # "blank",
           to = "cookies" => Landing(page),
           to = "paused" => LoggedOut(page)
    PROVE  FedStep
<1>1. Work(from, to) /\ pc' = to
  BY DEF Work, Step, GoTo
<1>2. Fed' /\ ~saw
  BY <1>1, WorkFed
<1> QED
  BY <1>1, <1>2 DEF FedStep, FeedPcs

\* A recovery begins on whatever page of the site there is.
LEMMA EnsureFed ==
    ASSUME Fed, NEW from \in DOMAIN Return, Ensure(from), page.url # "blank", ~saw
    PROVE  FedStep
<1>1. /\ page' = page /\ pc' = "goto" /\ caller' = from
      /\ attempt' = 0 /\ cand' = 1 /\ saw' = FALSE
  BY DEF Ensure
<1>2. SitePage(page)'
  BY <1>1, PageOfFeed DEF Fed, SitePage
<1>3. pc' \in FeedPcs \ {"cookies", "paused"} /\ attempt' \in {0, 1} /\ cand' \in 1 .. 3
  BY <1>1 DEF FeedPcs, NavPcs, Evaluates
<1>4. caller' \in DOMAIN Return /\ ~saw' /\ saw' \in BOOLEAN
  BY <1>1
<1> QED
  BY <1>2, <1>3, <1>4, OnTheWay

\* Every other action of a cycle that brings the feed.
LEMMA CycleStepFed ==
    ASSUME Fed, CycleStep
    PROVE  FedStep
<1> USE Callers
<1>s. ~saw /\ (pc \in Offsite \/ page.url # "blank")
  <2>1. pc \notin {"final", "force"}
    BY DEF CycleStep, Poll, Navigate, CheckExpiry, NoKeywords, Authenticate, RestoreCookies,
           Reauthenticate, CheckFeed, RecheckFeed, Scan, Rescan, NoMatch, Backoff, Step, Pause
  <2> QED
    BY <2>1 DEF Fed, Facing
<1>1. CASE Poll
  <2>1. CASE page.url = "blank" /\ Step("idle", "open")
    BY <2>1, StepFed DEF NavPcs, Evaluates, Offsite
  <2>2. CASE page.url \in {"login", "recent"} /\ Step("idle", "expiry")
    BY <2>2, StepFed DEF NavPcs, Offsite, Evaluates
  <2>3. CASE page.url \in {"other", "plain", "seller", "off"} /\ Ensure("target")
    BY <1>s, <2>3, EnsureFed DEF Offsite
  <2> QED
    BY <1>1, <2>1, <2>2, <2>3 DEF Poll
<1>2. CASE Navigate
  <2>1. caller' = caller /\ attempt' = attempt /\ cand' = cand /\ saw' = saw
    BY <1>2 DEF Navigate
  <2>2. CASE page' \in Loaded("recent") /\ GoTo("expiry")
    <3>1. SitePage(page)'
      BY <2>2, LoadedIsSitePage
    <3> QED
      BY <1>s, <2>1, <2>2, <3>1, OnTheWay DEF Fed, FeedTypeOK, GoTo, FeedPcs, NavPcs, Evaluates
  <2>3. CASE Step("open", "backoff")
    BY <2>3, StepFed DEF NavPcs, Evaluates, Offsite
  <2> QED
    BY <1>2, <2>2, <2>3 DEF Navigate, Step
<1>3. CASE CheckExpiry \/ NoKeywords
  <2>1. pc = "expiry" /\ page.url # "blank"
    BY <1>3, <1>s DEF CheckExpiry, NoKeywords, Pause, Step, Offsite
  <2>2. Expired(page) => LoggedOut(page)
    BY DEF Expired, LoggedOut
  <2>3. CASE Step("expiry", "paused") /\ LoggedOut(page)
    BY <2>1, <2>3, StepFed DEF NavPcs, Evaluates, Offsite
  <2>4. CASE Step("expiry", "auth")
    BY <2>1, <2>4, StepFed DEF NavPcs, Evaluates, Offsite
  <2>5. CASE Step("expiry", "idle")
    BY <2>1, <2>5, StepFed DEF NavPcs, Evaluates, Offsite
  <2> QED
    BY <1>3, <2>2, <2>3, <2>4, <2>5 DEF CheckExpiry, NoKeywords, Pause
<1>4. CASE Authenticate
  <2>1. pc = "auth"
    BY <1>4 DEF Authenticate, Step
  <2>2. CASE Step("auth", "feed")
    BY <1>s, <2>1, <2>2, StepFed DEF NavPcs, Evaluates, Offsite
  <2>3. CASE Step("auth", "paused") /\ Landing(page)
    BY <1>s, <2>1, <2>3, StepFed DEF NavPcs, Evaluates, Offsite, LoggedOut
  <2>4. CASE Step("auth", "cookies") /\ Landing(page)
    BY <1>s, <2>1, <2>4, StepFed DEF NavPcs, Evaluates, Offsite
  <2> QED
    BY <1>4, <2>2, <2>3, <2>4 DEF Authenticate, Pause
<1>5. CASE RestoreCookies
  <2>1. pc = "cookies"
    BY <1>5 DEF RestoreCookies, Pause, Step
  <2>2. LoggedOut(page)
    BY <2>1 DEF Fed, Facing, LoggedOut
  <2>3. CASE Step("cookies", "paused")
    BY <1>s, <2>1, <2>2, <2>3, StepFed DEF NavPcs, Evaluates, Offsite
  <2>4. CASE Ensure("restore")
    BY <1>s, <2>1, <2>4, EnsureFed DEF Offsite
  <2> QED
    BY <1>5, <2>3, <2>4 DEF RestoreCookies, Pause
<1>6. CASE Reauthenticate
  <2>1. pc = "reauth"
    BY <1>6 DEF Reauthenticate, Pause, Step
  <2>2. CASE Step("reauth", "paused") /\ Landing(page)
    BY <1>s, <2>1, <2>2, StepFed DEF NavPcs, Evaluates, Offsite, LoggedOut
  <2>3. CASE Step("reauth", "feed")
    BY <1>s, <2>1, <2>3, StepFed DEF NavPcs, Evaluates, Offsite
  <2> QED
    BY <1>6, <2>2, <2>3 DEF Reauthenticate, Pause
<1>7. CASE CheckFeed
  <2>1. pc = "feed"
    BY <1>7 DEF CheckFeed, Step
  <2>2. CASE Ensure("recent")
    BY <1>s, <2>1, <2>2, EnsureFed DEF Offsite
  <2>3. CASE Step("feed", "scan")
    BY <1>s, <2>1, <2>3, StepFed DEF NavPcs, Evaluates, Offsite
  <2> QED
    BY <1>7, <2>2, <2>3 DEF CheckFeed
<1>8. CASE RecheckFeed
  <2>1. pc = "recheck"
    BY <1>8 DEF RecheckFeed, Step
  <2>2. CASE Step("recheck", "idle")
    BY <2>2, StepFed DEF NavPcs, Evaluates, Offsite
  <2>3. CASE Step("recheck", "scan")
    BY <1>s, <2>1, <2>3, StepFed DEF NavPcs, Evaluates, Offsite
  <2> QED
    BY <1>8, <2>2, <2>3 DEF RecheckFeed
<1>9. CASE Scan
  <2>1. pc = "scan"
    BY <1>9 DEF Scan, Step
  <2>2. CASE Step("scan", "match")
    BY <1>s, <2>1, <2>2, StepFed DEF NavPcs, Evaluates, Offsite
  <2>3. CASE Ensure("rows")
    BY <1>s, <2>1, <2>3, EnsureFed DEF Offsite
  <2> QED
    BY <1>9, <2>2, <2>3 DEF Scan
<1>10. CASE Rescan
  <2>1. pc = "rescan"
    BY <1>10 DEF Rescan, Pause, Step
  <2>2. CASE Step("rescan", "match")
    BY <1>s, <2>1, <2>2, StepFed DEF NavPcs, Evaluates, Offsite
  <2>3. CASE Step("rescan", "idle")
    BY <2>3, StepFed DEF NavPcs, Evaluates, Offsite
  <2>4. CASE Step("rescan", "paused") /\ Landing(page)
    BY <1>s, <2>1, <2>4, StepFed DEF NavPcs, Evaluates, Offsite, LoggedOut
  <2> QED
    BY <1>10, <2>2, <2>3, <2>4 DEF Rescan, Pause
<1>11. CASE NoMatch
  BY <1>11, StepFed DEF NoMatch, NavPcs, Evaluates, Offsite
<1>12. CASE Backoff
  <2>1. /\ page' = Blank /\ pc' = "idle"
        /\ caller' = caller /\ attempt' = attempt /\ cand' = cand /\ saw' = saw
    BY <1>12 DEF Backoff, GoTo
  <2>2. FeedTypeOK'
    BY <2>1 DEF Fed, FeedTypeOK, Blank, Page, Urls, Bodies
  <2>3. Facing'
    BY <1>s, <2>1 DEF Facing, PauseHasCause, Offsite
  <2> QED
    BY <1>s, <2>1, <2>2, <2>3 DEF FedStep, Fed, FeedPcs, NavPcs, Evaluates
<1> QED
  BY <1>1, <1>2, <1>3, <1>4, <1>5, <1>6, <1>7, <1>8, <1>9, <1>10, <1>11, <1>12 DEF CycleStep

LEMMA RenderFed ==
    ASSUME Fed, Render
    PROVE  Fed' /\ saw' = saw /\ pc' = pc
<1>1. /\ pc' = pc /\ caller' = caller /\ attempt' = attempt /\ cand' = cand /\ saw' = saw
  BY DEF Render, nav
<1>2. /\ SitePage(page') /\ (BodyRows(page) => BodyRows(page'))
      /\ ~LoggedOut(page) /\ page.url # "blank"
  BY RenderStaysOnSite
<1>3. FeedTypeOK'
  BY <1>1, <1>2 DEF Fed, FeedTypeOK, SitePage, GoodPage
<1>4. pc \notin {"paused", "cookies"}
  BY <1>2 DEF Fed, Facing, PauseHasCause, LoggedOut, Blank, Page
<1>5. Facing'
  BY <1>1, <1>2, <1>4 DEF Fed, Facing, PauseHasCause, SitePage
<1> QED
  BY <1>1, <1>3, <1>5 DEF Fed

LEMMA LogInFed ==
    ASSUME Fed, LogIn
    PROVE  FedStep
<1>1. /\ pc \in {"paused", "hung"} /\ page' = Blank /\ pc' = "idle"
      /\ caller' = caller /\ attempt' = attempt /\ cand' = cand /\ saw' = saw
  BY DEF LogIn
<1>2. ~saw
  BY <1>1 DEF Fed, Facing
<1>3. FeedTypeOK'
  BY <1>1 DEF Fed, FeedTypeOK, Blank, Page, Urls, Bodies
<1>4. Facing'
  BY <1>1, <1>2 DEF Facing, PauseHasCause, Offsite
<1> QED
  BY <1>1, <1>2, <1>3, <1>4 DEF FedStep, Fed, FeedPcs, NavPcs, Evaluates

-----------------------------------------------------------------------------
(* Panel texts.                                                            *)

\* The page without a panel shows no contact that has not been revealed.
LEMMA PlainText == Plain \in Texts /\ ~Shows(Plain, "contact")
BY DEF Plain, Texts, Text, Shows

-----------------------------------------------------------------------------
(* Working on a row.                                                       *)

WorkPcs == {"take", "find", "before", "click", "opening", "panel", "reveal", "reread",
            "fallback", "save"}

CaptureTypeOK ==
    /\ todo \in SUBSET Leads /\ item \in Leads
    /\ panel \in Texts /\ stale \in Texts \cup {NoText} /\ text \in Texts /\ result \in Texts
    /\ way \in 1 .. 3 /\ tries \in 0 .. 2 /\ stray \in BOOLEAN

\* A text was matched against the row, and is its own, unless a text with another row's
\* contact came in front or there was none to compare it with.
FromRow(t) == Matches(t) /\ (stray \/ stale = NoText \/ SameCard(t.of, item))

\* A contact that differs from what was there before the click is the row's own, unless a
\* text with another row's came in front.
OwnPanel ==
    Reading /\ ~stray /\ stale # NoText /\ Changed(panel) /\ Shows(panel, "contact")
        => SameCard(panel.of, item)

\* A contact in the accepted text, and in the one a contact was read from, was matched
\* against the row being processed; between rows there is neither.  The contact is not asked
\* for more than twice.
HasTextPcs == {"reveal", "reread", "fallback", "save"}
Accepted ==
    /\ Shows(text, "contact") => FromRow(text)
    /\ Shows(result, "contact") => FromRow(result)
    /\ pc = "save" => Shows(result, "contact")
    /\ pc \notin HasTextPcs => text = Plain /\ result = Plain
    /\ pc \in {"reread", "fallback", "save"} \/ tries < 2

Inv == Fed /\ pc \in NavPcs \cup WorkPcs /\ CaptureTypeOK /\ OwnPanel /\ Accepted

\* What every step does.
Kept == Inv' /\ (saw /\ ~saw' => BodyRows(page') \/ pc = "force")

LEMMA TypesOfInv == Inv => TypeOK
BY DEF Inv, TypeOK, Fed, CaptureTypeOK, NavPcs, WorkPcs

\* A step of the work on a row keeps what is known of the page.
LEMMA WorkKeepsPage ==
    ASSUME Inv, NEW from \in WorkPcs \cup {"match"},
           NEW to \in WorkPcs \cup {"idle", "backoff"}, Work(from, to)
    PROVE  Fed' /\ pc' \in NavPcs \cup WorkPcs /\ ~saw /\ pc = from /\ pc' = to
<1>1. pc = from /\ pc' = to
  BY DEF Work, GoTo
<1>2. page.url # "blank"
  BY <1>1 DEF Inv, Fed, Facing, WorkPcs, Offsite
<1>3. from \notin {"final", "force"} /\ to # "cookies" /\ to # "paused"
  BY DEF WorkPcs
<1>4. Fed' /\ ~saw
  BY <1>2, <1>3, WorkFed DEF Inv
<1>5. to \in NavPcs \cup WorkPcs
  BY DEF NavPcs, WorkPcs
<1> QED
  BY <1>1, <1>4, <1>5

\* Between rows nothing has been accepted.
LEMMA BetweenRows ==
    ASSUME pc' \notin HasTextPcs, text' = Plain, result' = Plain, tries' < 2
    PROVE  Accepted'
<1>1. ~Shows(text, "contact")' /\ ~Shows(result, "contact")'
  BY PlainText
<1> QED
  BY <1>1 DEF Accepted, HasTextPcs

\* When a row is done with, or the job is gone, nothing of it is left.
LEMMA ClearedKept ==
    ASSUME Cleared, todo' \in SUBSET Leads, panel' \in Texts, pc' \notin HasTextPcs, ~Reading'
    PROVE  CaptureTypeOK' /\ OwnPanel' /\ Accepted'
<1>1. /\ item' = AnyLead /\ stale' = Plain /\ way' = 1 /\ tries' = 0
      /\ text' = Plain /\ result' = Plain /\ stray' = FALSE
  BY DEF Cleared
<1>2. CaptureTypeOK'
  <2>1. AnyLead \in Leads
    BY SomeLead DEF AnyLead
  <2>2. way' \in 1 .. 3 /\ tries' \in 0 .. 2
    BY <1>1
  <2>3. stray' \in BOOLEAN
    BY <1>1
  <2>4. item' \in Leads /\ stale' \in Texts /\ text' \in Texts /\ result' \in Texts
    BY <1>1, <2>1, PlainText
  <2> QED
    BY <2>2, <2>3, <2>4 DEF CaptureTypeOK
<1>3. Accepted'
  <2>1. tries' < 2
    BY <1>1
  <2> QED
    BY <1>1, <2>1, BetweenRows
<1> QED
  BY <1>2, <1>3 DEF OwnPanel

LEMMA DoneKept ==
    ASSUME Inv, NEW from \in WorkPcs, NEW to \in {"take", "backoff"}, Done(from, to),
           UNCHANGED <<todo, panel>>
    PROVE  Kept
<1>1. Fed' /\ pc' \in NavPcs \cup WorkPcs /\ ~saw /\ pc' = to
  BY WorkKeepsPage DEF Done, WorkPcs
<1>2. todo' \in SUBSET Leads /\ panel' \in Texts
  BY DEF Inv, CaptureTypeOK
<1>3. pc' \notin HasTextPcs /\ ~Reading'
  BY <1>1 DEF HasTextPcs, Reading
<1>4. CaptureTypeOK' /\ OwnPanel' /\ Accepted'
  BY <1>2, <1>3, ClearedKept DEF Done
<1> QED
  BY <1>1, <1>4 DEF Kept, Inv

\* A step before the row's panel is read leaves what was accepted as it is: nothing.
LEMMA BeforeReading ==
    ASSUME Inv, pc \notin HasTextPcs, pc' \notin HasTextPcs, UNCHANGED <<text, result, tries>>
    PROVE  Accepted'
BY BetweenRows DEF Inv, Accepted, HasTextPcs

\* A step while the row's panel is awaited or read, that takes no other row, looks at no
\* other old text, and sees no other panel.
LEMMA StillOwnPanel ==
    ASSUME Inv, Reading, UNCHANGED <<item, panel, stale, stray>>
    PROVE  OwnPanel'
BY DEF Inv, OwnPanel, Changed, Shows, SameCard, Near

\* Taking a row, and looking for it in the feed.
LEMMA TakeKept ==
    ASSUME Inv, EnqueueMatches \/ TakeItem \/ QueueIsEmpty \/ FindAgain
    PROVE  Kept
<1>1. CASE EnqueueMatches
  <2>1. Work("match", "take") /\ UNCHANGED <<Locals, panel>> /\ todo' \subseteq Leads
    BY <1>1 DEF EnqueueMatches, Inv, CaptureTypeOK
  <2>2. Fed' /\ pc' \in NavPcs \cup WorkPcs /\ ~saw /\ pc = "match" /\ pc' = "take"
    BY <2>1, WorkKeepsPage DEF WorkPcs
  <2>3. CaptureTypeOK'
    BY <2>1 DEF Inv, CaptureTypeOK, Locals
  <2>4. OwnPanel' /\ Accepted'
    BY <2>1, <2>2, BeforeReading DEF OwnPanel, Reading, HasTextPcs, Locals
  <2> QED
    BY <2>2, <2>3, <2>4 DEF Kept, Inv
<1>2. CASE TakeItem
  <2>1. /\ pc = "take" /\ todo' \subseteq Leads /\ item' \in Leads
        /\ UNCHANGED <<panel, stale, way, tries, text, result, stray>>
    BY <1>2 DEF TakeItem, Inv, CaptureTypeOK
  <2>2. Fed' /\ (pc' = "find" \/ pc' = "goto") /\ ~saw
    <3>1. page.url # "blank" /\ ~saw
      BY <2>1 DEF Inv, Fed, Facing, Offsite
    <3>2. CASE Work("take", "find")
      BY <3>2, WorkKeepsPage DEF WorkPcs
    <3>3. CASE Ensure("drain")
      <4>1. FedStep
        BY <3>1, <3>3, EnsureFed, Callers DEF Inv
      <4> QED
        BY <3>1, <3>3, <4>1 DEF FedStep, Ensure
    <3> QED
      BY <1>2, <3>2, <3>3 DEF TakeItem
  <2>3. CaptureTypeOK'
    BY <2>1 DEF Inv, CaptureTypeOK
  <2>4. OwnPanel' /\ Accepted'
    BY <2>1, <2>2, BeforeReading DEF OwnPanel, Reading, HasTextPcs
  <2> QED
    BY <2>2, <2>3, <2>4 DEF Kept, Inv, NavPcs, WorkPcs
<1>3. CASE QueueIsEmpty
  <2>1. Work("take", "idle") /\ UNCHANGED capture
    BY <1>3 DEF QueueIsEmpty
  <2>2. Fed' /\ pc' \in NavPcs \cup WorkPcs /\ ~saw /\ pc = "take" /\ pc' = "idle"
    BY <2>1, WorkKeepsPage DEF WorkPcs
  <2>3. CaptureTypeOK'
    BY <2>1 DEF Inv, CaptureTypeOK, capture
  <2>4. OwnPanel' /\ Accepted'
    BY <2>1, <2>2, BeforeReading DEF OwnPanel, Reading, HasTextPcs, capture
  <2> QED
    BY <2>2, <2>3, <2>4 DEF Kept, Inv
<1>4. CASE FindAgain
  <2>1. CASE Work("find", "before") /\ UNCHANGED <<Locals, todo, panel>>
    <3>1. Fed' /\ pc' \in NavPcs \cup WorkPcs /\ ~saw /\ pc = "find" /\ pc' = "before"
      BY <2>1, WorkKeepsPage DEF WorkPcs
    <3>2. CaptureTypeOK'
      BY <2>1 DEF Inv, CaptureTypeOK, Locals
    <3>3. OwnPanel' /\ Accepted'
      BY <2>1, <3>1, BeforeReading DEF OwnPanel, Reading, HasTextPcs, Locals
    <3> QED
      BY <3>1, <3>2, <3>3 DEF Kept, Inv
  <2>2. CASE Done("find", "take") /\ UNCHANGED <<todo, panel>>
    BY <2>2, DoneKept DEF WorkPcs
  <2> QED
    BY <1>4, <2>1, <2>2 DEF FindAgain
<1> QED
  BY <1>1, <1>2, <1>3, <1>4

\* The next click strategy, or the row cools down.
LEMMA NextWayKept ==
    ASSUME Inv, pc \in {"click", "opening"}, NextWay, UNCHANGED <<todo, panel>>
    PROVE  Kept
<1>1. CASE way < 3 /\ Work(pc, "click") /\ way' = way + 1
           /\ UNCHANGED <<item, stale, tries, text, result, stray>>
  <2>1. Fed' /\ pc' \in NavPcs \cup WorkPcs /\ ~saw /\ pc' = "click"
    BY <1>1, WorkKeepsPage DEF WorkPcs
  <2>2. CaptureTypeOK'
    <3>1. way' \in 1 .. 3
      BY <1>1 DEF Inv, CaptureTypeOK
    <3> QED
      BY <1>1, <3>1 DEF Inv, CaptureTypeOK
  <2>3. OwnPanel'
    BY <1>1, StillOwnPanel DEF Reading
  <2>4. Accepted'
    BY <1>1, <2>1, BeforeReading DEF HasTextPcs
  <2> QED
    BY <2>1, <2>2, <2>3, <2>4 DEF Kept, Inv
<1>2. CASE Done(pc, "take")
  BY <1>2, DoneKept DEF WorkPcs
<1> QED
  BY <1>1, <1>2 DEF NextWay

\* Opening the row's panel.
LEMMA OpenKept ==
    ASSUME Inv, ReadBefore \/ Click \/ Opened \/ NotOpened
    PROVE  Kept
<1>1. CASE ReadBefore
  <2>1. Work("before", "click") /\ (stale' = panel \/ stale' = NoText)
        /\ UNCHANGED <<todo, item, panel, way, tries, text, result, stray>>
    BY <1>1 DEF ReadBefore, Read
  <2>2. Fed' /\ pc' \in NavPcs \cup WorkPcs /\ ~saw /\ pc = "before" /\ pc' = "click"
    BY <2>1, WorkKeepsPage DEF WorkPcs
  <2>3. CaptureTypeOK'
    BY <2>1 DEF Inv, CaptureTypeOK
  <2>4. OwnPanel'
    BY <2>1 DEF OwnPanel, Changed, NoText, Text
  <2>5. Accepted'
    BY <2>1, <2>2, BeforeReading DEF HasTextPcs
  <2> QED
    BY <2>2, <2>3, <2>4, <2>5 DEF Kept, Inv
<1>2. CASE Click
  <2>1. CASE NextWay /\ UNCHANGED <<todo, panel>>
    BY <1>2, <2>1, NextWayKept DEF Click
  <2>2. CASE Work("click", "opening") /\ UNCHANGED <<Locals, todo, panel>>
    <3>1. Fed' /\ pc' \in NavPcs \cup WorkPcs /\ ~saw /\ pc = "click" /\ pc' = "opening"
      BY <2>2, WorkKeepsPage DEF WorkPcs
    <3>2. CaptureTypeOK'
      BY <2>2 DEF Inv, CaptureTypeOK, Locals
    <3>3. OwnPanel'
      BY <2>2, <3>1, StillOwnPanel DEF Reading, Locals
    <3>4. Accepted'
      BY <2>2, <3>1, BeforeReading DEF HasTextPcs, Locals
    <3> QED
      BY <3>1, <3>2, <3>3, <3>4 DEF Kept, Inv
  <2> QED
    BY <1>2, <2>1, <2>2 DEF Click
<1>3. CASE Opened
  <2>1. Work("opening", "panel") /\ way' = 1
        /\ UNCHANGED <<todo, item, panel, stale, tries, text, result, stray>>
    BY <1>3 DEF Opened
  <2>2. Fed' /\ pc' \in NavPcs \cup WorkPcs /\ ~saw /\ pc = "opening" /\ pc' = "panel"
    BY <2>1, WorkKeepsPage DEF WorkPcs
  <2>3. CaptureTypeOK'
    BY <2>1 DEF Inv, CaptureTypeOK
  <2>4. OwnPanel'
    BY <2>1, <2>2, StillOwnPanel DEF Reading
  <2>5. Accepted'
    BY <2>1, <2>2, BeforeReading DEF HasTextPcs
  <2> QED
    BY <2>2, <2>3, <2>4, <2>5 DEF Kept, Inv
<1>4. CASE NotOpened
  BY <1>4, NextWayKept DEF NotOpened
<1> QED
  BY <1>1, <1>2, <1>3, <1>4

\* While a row is worked on, a matched panel that shows a contact is the row's.
LEMMA PanelFromRow ==
    ASSUME Inv, Reading, Matches(panel), Shows(panel, "contact")
    PROVE  FromRow(panel)
BY DEF Inv, OwnPanel, FromRow, Matches

\* While the row and the old text stay the same, so does what a text says of the row.
LEMMA SameRow ==
    ASSUME UNCHANGED <<item, stale, stray>>
    PROVE  /\ text' = text /\ FromRow(text) => FromRow(text)'
           /\ text' = panel /\ FromRow(panel) => FromRow(text)'
           /\ result' = result /\ FromRow(result) => FromRow(result)'
           /\ result' = panel /\ FromRow(panel) => FromRow(result)'
           /\ result' = text /\ FromRow(text) => FromRow(result)'
BY DEF FromRow, Matches, Changed, AddressConflicts, TitleFits, Greets, Shows, SameCard, Near

LEMMA ApplyKept ==
    ASSUME Inv, NEW from \in {"panel", "reread"}, NEW otherwise \in {"reveal", "fallback"},
           Matches(panel), Apply(from, otherwise),
           from = "reread" /\ otherwise = "reveal" => tries < 2
    PROVE  Kept
<1>1. PICK to \in {"save", otherwise} :
          /\ Work(from, to)
          /\ to = "save" => Shows(panel, "contact") /\ result' = panel
          /\ to # "save" => result' = result
  <2>1. CASE Shows(panel, "contact") /\ Work(from, "save") /\ result' = panel
    BY <2>1
  <2>2. CASE Work(from, otherwise) /\ UNCHANGED result
    BY <2>2
  <2> QED
    BY <2>1, <2>2 DEF Apply
<1>2. /\ text' = IF Shows(panel, "contact") THEN panel ELSE Plain
      /\ UNCHANGED <<todo, item, panel, stale, way, tries, stray>>
  BY DEF Apply
<1>3. Fed' /\ pc' \in NavPcs \cup WorkPcs /\ ~saw /\ pc = from /\ pc' = to
  BY <1>1, WorkKeepsPage DEF WorkPcs
<1>4. CaptureTypeOK'
  <2>1. text' \in Texts /\ result' \in Texts
    BY <1>1, <1>2, PlainText DEF Inv, CaptureTypeOK
  <2> QED
    BY <1>2, <2>1 DEF Inv, CaptureTypeOK
<1>5. OwnPanel'
  BY <1>2, <1>3, StillOwnPanel DEF Reading
<1>6. Accepted'
  <2>1. Shows(panel, "contact") => FromRow(panel)
    BY <1>3, PanelFromRow DEF Reading
  <2>2. Shows(text', "contact") => Shows(panel, "contact") /\ text' = panel
    BY <1>2, PlainText
  <2>3. Shows(text', "contact") => FromRow(text)'
    BY <1>2, <2>1, <2>2, SameRow
  <2>4. Shows(result', "contact") => FromRow(result)'
    <3>1. CASE to = "save"
      BY <1>1, <1>2, <2>1, <3>1, SameRow
    <3>2. CASE to # "save"
      BY <1>1, <1>2, <3>2, SameRow DEF Inv, Accepted
    <3> QED
      BY <3>1, <3>2
  <2>5. pc' = "save" => Shows(result', "contact")
    BY <1>1, <1>3
  <2>6. pc' \in HasTextPcs
    BY <1>1, <1>3 DEF HasTextPcs
  <2>7. pc' \in {"reread", "fallback", "save"} \/ tries' < 2
    BY <1>1, <1>2, <1>3 DEF Inv, Accepted
  <2>8. Shows(text, "contact")' = Shows(text', "contact")
        /\ Shows(result, "contact")' = Shows(result', "contact")
    BY DEF Shows
  <2> QED
    BY <2>3, <2>4, <2>5, <2>6, <2>7, <2>8 DEF Accepted
<1> QED
  BY <1>3, <1>4, <1>5, <1>6 DEF Kept, Inv

\* Reading the panel, and revealing the contact.
LEMMA ReadKept ==
    ASSUME Inv, ReadPanel \/ Mismatch \/ NameRaises \/ Reveal
    PROVE  Kept
<1>1. CASE ReadPanel
  BY <1>1, ApplyKept DEF ReadPanel
<1>2. CASE Mismatch
  BY <1>2, DoneKept DEF Mismatch, WorkPcs
<1>3. CASE NameRaises
  BY <1>3, DoneKept DEF NameRaises, WorkPcs
<1>4. CASE Reveal
  <2>1. /\ Work("reveal", "reread")
        /\ UNCHANGED <<todo, item, panel, stale, way, text, result, stray>>
    BY <1>4 DEF Reveal
  <2>2. tries' \in 0 .. 2
    <3>1. tries \in 0 .. 2 /\ tries < 2
      BY <1>4 DEF Inv, CaptureTypeOK, Accepted, Reveal, Work
    <3> QED
      BY <1>4, <3>1 DEF Reveal
  <2>3. Fed' /\ pc' \in NavPcs \cup WorkPcs /\ ~saw /\ pc = "reveal" /\ pc' = "reread"
    BY <2>1, WorkKeepsPage DEF WorkPcs
  <2>4. CaptureTypeOK'
    BY <2>1, <2>2 DEF Inv, CaptureTypeOK
  <2>5. OwnPanel'
    BY <2>1, <2>3, StillOwnPanel DEF Reading
  <2>6. Accepted'
    BY <2>1, <2>3, SameRow DEF Inv, Accepted, HasTextPcs, Shows
  <2> QED
    BY <2>3, <2>4, <2>5, <2>6 DEF Kept, Inv
<1> QED
  BY <1>1, <1>2, <1>3, <1>4

\* Reading the panel again, falling back on the accepted text, and saving the lead.
LEMMA RereadKept ==
    ASSUME Inv, Reread \/ RereadRaises \/ Fallback \/ Save
    PROVE  Kept
<1>1. CASE Reread
  <2>1. PICK to \in {"reveal", "fallback"} : AfterReread = to /\ (to = "reveal" => tries < 2)
    BY DEF AfterReread
  <2>2. CASE Matches(panel) /\ Apply("reread", AfterReread)
    BY <2>1, <2>2, ApplyKept
  <2>3. CASE /\ Work("reread", AfterReread) /\ text' = Plain
             /\ UNCHANGED <<todo, item, panel, stale, way, tries, result, stray>>
    <3>1. Fed' /\ pc' \in NavPcs \cup WorkPcs /\ ~saw /\ pc = "reread" /\ pc' = to
      BY <2>1, <2>3, WorkKeepsPage DEF WorkPcs
    <3>2. CaptureTypeOK'
      BY <2>3, PlainText DEF Inv, CaptureTypeOK
    <3>3. OwnPanel'
      BY <2>3, <3>1, StillOwnPanel DEF Reading
    <3>4. Accepted'
      <4>1. ~Shows(text, "contact")'
        BY <2>3, PlainText
      <4>2. Shows(result, "contact")' => FromRow(result)'
        BY <2>3, SameRow DEF Inv, Accepted, Shows
      <4>3. tries' = tries
        BY <2>3
      <4> QED
        BY <2>1, <3>1, <4>1, <4>2, <4>3 DEF Accepted, HasTextPcs
    <3> QED
      BY <3>1, <3>2, <3>3, <3>4 DEF Kept, Inv
  <2> QED
    BY <1>1, <2>2, <2>3 DEF Reread
<1>2. CASE RereadRaises
  BY <1>2, DoneKept DEF RereadRaises, WorkPcs
<1>3. CASE Fallback
  <2>1. CASE /\ Work("fallback", "save") /\ Shows(text, "contact") /\ result' = text
             /\ UNCHANGED <<todo, item, panel, stale, way, tries, text, stray>>
    <3>1. Fed' /\ pc' \in NavPcs \cup WorkPcs /\ ~saw /\ pc = "fallback" /\ pc' = "save"
      BY <2>1, WorkKeepsPage DEF WorkPcs
    <3>2. CaptureTypeOK'
      BY <2>1 DEF Inv, CaptureTypeOK
    <3>3. OwnPanel'
      BY <2>1, <3>1, StillOwnPanel DEF Reading
    <3>4. Accepted'
      BY <2>1, <3>1, SameRow DEF Inv, Accepted, HasTextPcs, Shows
    <3> QED
      BY <3>1, <3>2, <3>3, <3>4 DEF Kept, Inv
  <2>2. CASE Done("fallback", "take") /\ UNCHANGED <<todo, panel>>
    BY <2>2, DoneKept DEF WorkPcs
  <2> QED
    BY <1>3, <2>1, <2>2 DEF Fallback
<1>4. CASE Save
  BY <1>4, DoneKept DEF Save, WorkPcs
<1> QED
  BY <1>1, <1>2, <1>3, <1>4

\* The cycle brings the feed, or the page renders: one that is loaded has no panel open.
LEMMA NavigatingKept ==
    ASSUME Inv, FeedStep \/ Render, Navigating
    PROVE  Kept
<1>1. /\ UNCHANGED <<todo, item, stale, way, tries, text, result, stray>>
      /\ panel' = panel \/ panel' = Plain
  BY DEF Navigating, Locals
<1>2. CaptureTypeOK'
  BY <1>1, PlainText DEF Inv, CaptureTypeOK
<1>3. CASE FeedStep
  <2>1. FedStep
    BY <1>3, EnsureStepFed, CycleStepFed DEF FeedStep, Inv
  <2>2. pc \in NavPcs
    BY <1>3 DEF FeedStep, EnsureStep, OpenRecent, ForceRecent, ClickRecentTab,
       WaitForMarkers, CheckBody, Look, TryAgain, OpenSidebar, LookAfterSidebar, PageLost,
       OpenVariant, LookAtVariant, ClickVariantTab, LookAfterTab, HardReload, LookAfterReload,
       Finish, ForceBeforeReturn, CycleStep, Poll, Navigate, CheckExpiry, NoKeywords,
       Authenticate, RestoreCookies, Reauthenticate, CheckFeed, RecheckFeed, Scan, Rescan,
       NoMatch, Backoff, Step, Pause, NavPcs, Evaluates
  <2>3. pc' \in FeedPcs /\ ~Reading'
    BY <2>1 DEF FedStep, FeedPcs, NavPcs, Evaluates, Reading
  <2>4. OwnPanel'
    BY <2>3 DEF OwnPanel
  <2>5. Accepted'
    BY <1>1, <2>2, <2>3, BeforeReading DEF HasTextPcs, FeedPcs, NavPcs, Evaluates
  <2>6. pc' \in NavPcs \cup WorkPcs
    BY <2>3 DEF FeedPcs, WorkPcs
  <2> QED
    BY <1>2, <2>1, <2>4, <2>5, <2>6 DEF Kept, Inv, FedStep
<1>4. CASE Render
  <2>1. Fed' /\ saw' = saw /\ pc' = pc
    BY <1>4, RenderFed DEF Inv
  <2>2. OwnPanel'
    <3>1. CASE panel' = panel
      BY <1>1, <2>1, <3>1 DEF Inv, OwnPanel, Reading, Changed, Shows, SameCard, Near
    <3>2. CASE panel' = Plain
      BY <3>2, PlainText DEF OwnPanel, Shows
    <3> QED
      BY <1>1, <3>1, <3>2
  <2>3. Accepted'
    BY <1>1, <2>1, SameRow DEF Inv, Accepted, HasTextPcs, Shows
  <2> QED
    BY <1>2, <2>1, <2>2, <2>3 DEF Kept, Inv
<1> QED
  BY <1>3, <1>4

\* The page hangs, or the client starts a new runner.
LEMMA ResetKept ==
    ASSUME Inv, PageHangs \/ Restart
    PROVE  Kept
<1>1. Fed' /\ pc' \in {"hung", "idle"} /\ (saw /\ ~saw' => BodyRows(page') \/ pc = "force")
  <2>1. CASE PageHangs
    <3>1. /\ page' = page /\ pc' = "hung"
          /\ caller' = "target" /\ attempt' = 0 /\ cand' = 1 /\ saw' = FALSE
      BY <2>1 DEF PageHangs, Forgotten
    <3>2. FeedTypeOK'
      <4>1. GoodPage(page)'
        BY <3>1, PageOfFeed DEF Inv, Fed, GoodPage, OnSeller
      <4> QED
        BY <2>1, <4>1, ForgottenTypes DEF PageHangs, FeedTypeOK, GoodPage
    <3>3. Facing'
      BY <3>1 DEF Facing, PauseHasCause, Offsite
    <3> QED
      BY <3>1, <3>2, <3>3 DEF Inv, Fed, Facing, BodyRows
  <2>2. CASE Restart
    BY <2>2, LogInFed DEF Restart, LogIn, Inv, FedStep
  <2> QED
    BY <2>1, <2>2
<1>2. Cleared /\ todo' = {} /\ panel' = Plain
  BY DEF PageHangs, Restart
<1>3. CaptureTypeOK' /\ OwnPanel' /\ Accepted'
  BY <1>1, <1>2, ClearedKept, PlainText DEF HasTextPcs, Reading
<1> QED
  BY <1>1, <1>3 DEF Kept, Inv, NavPcs

\* The site brings another text in front.
LEMMA PanelKept ==
    ASSUME Inv, PanelChanges
    PROVE  Kept
<1>1. PICK p \in Texts : BringsUp(p)
  BY DEF PanelChanges
<1>2. /\ panel' = p /\ stray' = (stray \/ (Reading /\ Strays(p)))
      /\ UNCHANGED <<page, pc, caller, attempt, cand, saw>>
      /\ UNCHANGED <<todo, item, stale, way, tries, text, result>>
  BY <1>1 DEF BringsUp, feedVars, nav
<1>3. Fed'
  BY <1>2 DEF Inv, Fed, FeedTypeOK, OnSeller, Facing, PauseHasCause, LoggedOut, Landing, BodyRows
<1>4. stray' \in BOOLEAN /\ (stray => stray')
  BY <1>2
<1>5. CaptureTypeOK'
  BY <1>2, <1>4 DEF Inv, CaptureTypeOK
<1>6. OwnPanel'
  BY <1>2 DEF OwnPanel, Strays, Reading, Shows, SameCard, Near
<1>7. Accepted'
  BY <1>2, <1>4 DEF Inv, Accepted, FromRow, HasTextPcs, Matches, Changed, AddressConflicts,
                    TitleFits, Greets, Shows, SameCard, Near
<1> QED
  BY <1>2, <1>3, <1>5, <1>6, <1>7 DEF Kept, Inv

LEMMA StutterKept ==
    ASSUME Inv, UNCHANGED vars
    PROVE  Kept
<1>1. Fed'
  BY DEF Inv, Fed, FeedTypeOK, OnSeller, Facing, PauseHasCause, LoggedOut, Landing, BodyRows,
         vars, feedVars, nav
<1>2. CaptureTypeOK'
  BY DEF Inv, CaptureTypeOK, vars, capture
<1>3. OwnPanel'
  BY DEF Inv, OwnPanel, Reading, Changed, Shows, SameCard, Near, vars, feedVars, nav, capture
<1>4. Accepted'
  BY DEF Inv, Accepted, FromRow, HasTextPcs, Matches, Changed, AddressConflicts, TitleFits,
         Greets, Shows, SameCard, Near, vars, feedVars, nav, capture
<1> QED
  BY <1>1, <1>2, <1>3, <1>4 DEF Kept, Inv, vars, feedVars, nav

-----------------------------------------------------------------------------
(* The theorems.                                                           *)

LEMMA InitInv == Init => Inv
<1> SUFFICES ASSUME Init PROVE Inv
  OBVIOUS
<1>1. FeedTypeOK
  <2>1. page \in [url : Urls, body : Bodies] /\ page.url = "blank" /\ page.body = "none"
    BY DEF Init, FeedInit, Blank, Page, Urls, Bodies
  <2>2. caller = "target" /\ attempt = 0 /\ cand = 1 /\ saw = FALSE
    BY DEF Init, FeedInit
  <2>3. caller \in DOMAIN Return
    BY <2>2, Callers
  <2>4. attempt \in {0, 1} /\ cand \in 1 .. 3
    BY <2>2
  <2>5. saw \in BOOLEAN
    BY <2>2
  <2> QED
    BY <2>1, <2>3, <2>4, <2>5 DEF FeedTypeOK
<1>2. pc = "idle" /\ ~saw
  BY DEF Init, FeedInit
<1>3. Facing
  BY <1>2 DEF Facing, PauseHasCause, Offsite
<1>4. CaptureTypeOK
  <2>1. AnyLead \in Leads
    BY SomeLead DEF AnyLead
  <2>2. Plain \in Texts
    BY PlainText
  <2>3. way \in 1 .. 3 /\ tries \in 0 .. 2
    BY DEF Init
  <2>4. stray \in BOOLEAN
    BY DEF Init
  <2>5. todo \in SUBSET Leads
    BY DEF Init
  <2>6. item \in Leads /\ panel \in Texts /\ stale \in Texts /\ text \in Texts /\ result \in Texts
    BY <2>1, <2>2 DEF Init
  <2> QED
    BY <2>3, <2>4, <2>5, <2>6 DEF CaptureTypeOK
<1>5. OwnPanel
  BY <1>2 DEF OwnPanel, Reading
<1>6. Accepted
  <2>1. text = Plain /\ result = Plain /\ tries = 0
    BY DEF Init
  <2> QED
    BY <1>2, <2>1, PlainText DEF Accepted
<1> QED
  BY <1>1, <1>2, <1>3, <1>4, <1>5, <1>6 DEF Inv, Fed, NavPcs

LEMMA NextKept ==
    ASSUME Inv, [Next]_vars
    PROVE  Kept
<1>1. CASE CaptureStep
  BY <1>1, TakeKept, OpenKept, ReadKept, RereadKept DEF CaptureStep
<1>2. CASE (FeedStep \/ Render) /\ Navigating
  BY <1>2, NavigatingKept
<1>3. CASE PageHangs \/ Restart
  BY <1>3, ResetKept
<1>4. CASE PanelChanges
  BY <1>4, PanelKept
<1>5. CASE UNCHANGED vars
  BY <1>5, StutterKept
<1> QED
  BY <1>1, <1>2, <1>3, <1>4, <1>5 DEF Next, RunnerStep

\* The invariant holds in every state the cycle can be in.
LEMMA InvHolds == Spec => []Inv
<1>1. Inv /\ [Next]_vars => Inv'
  BY NextKept DEF Kept
<1> QED
  BY InitInv, <1>1, PTL DEF Spec

\* Every variable of a poll cycle keeps its type: in particular the marketing page is one
\* of the seller site, and only another host's page asks to log in without being the login
\* page.
THEOREM CaptureTypeCorrect == Spec => []TypeOK
BY InvHolds, TypesOfInv, PTL

\* A job pauses for a login only in front of a page that asks for one or is the public one,
\* or because the page is gone, whichever statement calls _handle_session_expired.
THEOREM PauseHasCauseCorrect == Spec => []PauseHasCause
<1>1. Inv => PauseHasCause
  BY DEF Inv, Fed, Facing
<1> QED
  BY InvHolds, <1>1, PTL

\* Rows with which a look of ensure_bltxn_leads_page ended the recovery are on the page it
\* hands to its caller, but for another feed that it leaves because its text shows none.
THEOREM SeenRowsAreKeptCorrect == Spec => SeenRowsAreKept
<1>1. Inv /\ [Next]_vars => [saw /\ ~saw' => BodyRows(page') \/ pc = "force"]_vars
  BY NextKept DEF Kept
<1> QED
  BY InvHolds, <1>1, PTL DEF Spec, SeenRowsAreKept

\* Whatever texts the site shows and however titles and addresses resemble each other: no
\* contact is read from a text that was read before the click or shows another address
\* than the row's, and one that does not name the row's product greets its buyer and was
\* compared with the text from before the click.
THEOREM ContactIsSupportedCorrect == Spec => []ContactIsSupported
<1>1. Inv => ContactIsSupported
  BY DEF Inv, Accepted, ContactIsSupported, FromRow, Matches
<1> QED
  BY InvHolds, <1>1, PTL

\* Unless a text with another row's contact came in front since the click, or none could be
\* read before it, the contact is the row's own.
THEOREM ContactBelongsCorrect == Spec => []ContactBelongs
<1>1. Inv => ContactBelongs
  BY DEF Inv, Accepted, ContactBelongs, FromRow
<1> QED
  BY InvHolds, <1>1, PTL
=============================================================================
