---------------------------- MODULE FeedNavigation ----------------------------
(***************************************************************************)
(* How a poll cycle of an IndiaMART job gets its page onto the Recent feed *)
(* of buyer leads (indiamart_page.py and the cycle of job_runner.py): it   *)
(* tells a page that is logged out from one that is slow, restores the     *)
(* portable cookies, and recovers from a feed that shows its menu and no   *)
(* rows.  The seller site is modelled by what a page of it may show.       *)
(*                                                                         *)
(* An action is what the cycle does from one await to the next; in between *)
(* the site goes on rendering.  LeadCapture adds what the cycle does with  *)
(* the rows it finds, and is the specification of the whole.               *)
(***************************************************************************)
EXTENDS Naturals

VARIABLES
    page,      \* what the browser's page shows: its URL and its body
    pc,        \* where the cycle is
    caller,    \* the statement that called ensure_bltxn_leads_page
    attempt,   \* its loop variable, 0 or 1
    cand,      \* the route variant it tries, 1 to 3
    saw        \* its last look at the page found rows

nav  == <<pc, caller, attempt, cand, saw>>
feedVars == <<page, nav>>

-----------------------------------------------------------------------------
(* Pages.                                                                  *)

\* "recent": pref=recent; "other": a feed _is_non_recent_buy_leads_url names; "plain":
\* buy leads without a preference; "seller": the rest of the seller site; "off": a page
\* of another host, none that is_indiamart_login_url names.
Urls   == {"blank", "recent", "other", "plain", "seller", "login", "off"}
\* "landing": the public marketing page; "shell": the menu alone; "empty": no rows;
\* "rows": lines with the age of a lead; "aside": such lines, but not in the part of the
\* page that read_indiamart_page_text returns; "signin": a page that asks to log in.
Bodies == {"none", "landing", "shell", "empty", "aside", "rows", "signin"}
Page(u, b) == [url |-> u, body |-> b]
Blank  == Page("blank", "none")

BuyLeads == {"recent", "other", "plain"}
OnSeller(p) == p.url \in BuyLeads \cup {"seller"}
\* The age of a lead in document.body, as _page_has_time_marker looks for it, ...
BodyRows(p) == p.body \in {"aside", "rows"}
\* ... and in the text of the first root that read_indiamart_page_text finds.
RootRows(p) == p.body = "rows"
\* is_indiamart_marketing_landing and is_indiamart_logged_out_body.
Landing(p) == p.body = "landing"
NonRecent(p) == p.url = "other"
LoggedOut(p) == p.url = "login" \/ Landing(p) \/ p.body = "signin"

Rendered == {"shell", "empty", "aside", "rows"}
\* page.goto(u): the site may send a seller to another feed, and whoever it does not take
\* for logged in, to the login or the marketing page; a goto that fails changes nothing.
LoggedIn(u)  == {Page(v, b) : v \in {u, "other"}, b \in Rendered} \cup {Page("off", "empty")}
Refused(u)   == {Page("login", "none"), Page("off", "signin")}
                \cup {Page(v, "landing") : v \in {u} \cap (BuyLeads \cup {"seller"})}
Loaded(u)    == LoggedIn(u) \cup Refused(u)
Goto(u) == page' \in Loaded(u) \cup {page}
\* click_recent_buy_leads_tab: no such tab, or the Recent feed begins to load.
TabClicked == OnSeller(page) /\ ~Landing(page) /\ page' \in {Page("recent", b) : b \in Rendered}
ClickTab   == UNCHANGED page \/ TabClicked
\* open_buy_leads_main_panel and its aggressive strategies open some view of the site.
ClickSidebar == page' \in {Page(u, b) : u \in BuyLeads \cup {"seller"}, b \in Rendered}

-----------------------------------------------------------------------------
(* ensure_bltxn_leads_page.                                                *)

GoTo(l) == pc' = l

\* The cycle calls it; nothing is known of the page yet.
Ensure(from) ==
    /\ pc' = "goto" /\ caller' = from /\ attempt' = 0 /\ cand' = 1 /\ saw' = FALSE
    /\ UNCHANGED page

\* Its local variables are gone when it returns or raises.
Forgotten == caller' = "target" /\ attempt' = 0 /\ cand' = 1 /\ saw' = FALSE

OpenRecent ==
    /\ pc = "goto" /\ Goto("recent")
    /\ GoTo(IF NonRecent(page') THEN "again" ELSE "tab")
    /\ UNCHANGED <<caller, attempt, cand, saw>>

ForceRecent ==
    /\ pc = "again" /\ Goto("recent") /\ GoTo("tab")
    /\ UNCHANGED <<caller, attempt, cand, saw>>

ClickRecentTab ==
    /\ pc = "tab" /\ ClickTab /\ GoTo("markers")
    /\ UNCHANGED <<caller, attempt, cand, saw>>

\* The next attempt, or no more of them.
NextAttempt ==
    IF attempt = 0 THEN GoTo("goto") /\ attempt' = 1 ELSE GoTo("final") /\ UNCHANGED attempt

\* Rows that a look finds end the recovery; which of the two tests the look is, the code says.
Look(rows, otherwise) ==
    /\ saw' = rows
    /\ GoTo(IF rows THEN "final" ELSE otherwise)
    /\ UNCHANGED <<page, caller, attempt, cand>>

\* Four seconds for the rows to appear, then a scroll that loads more.
WaitForMarkers == pc = "markers" /\ Look(BodyRows(page), "body")

TryAgain ==
    /\ ~RootRows(page) /\ saw' = FALSE /\ NextAttempt
    /\ UNCHANGED <<page, caller, cand>>

\* The text of the root is the menu alone; beside rows elsewhere it may be, too.
NavOnly == page.body \in {"shell", "aside"} /\ attempt = 0

\* Fault: every attempt that finds the menu alone is made again.
RetryOnShell ==
    /\ pc = "body"
    /\ IF RootRows(page) \/ page.body = "shell" THEN Look(RootRows(page), "goto") ELSE TryAgain

\* The menu alone is worth a recovery, once; any other page without rows is loaded again.
CheckBody ==
    /\ pc = "body"
    /\ \/ (RootRows(page) \/ NavOnly) /\ Look(RootRows(page), "sidebar")
       \/ ~(page.body = "shell" /\ NavOnly) /\ TryAgain

OpenSidebar ==
    /\ pc = "sidebar"
    /\ \/ OnSeller(page) /\ ClickSidebar /\ GoTo("clicked")
       \/ GoTo("variant") /\ UNCHANGED page
    /\ UNCHANGED <<caller, attempt, cand, saw>>

\* Fault: rows that the sidebar brought do not end the recovery.
LookAndGoOn ==
    /\ pc = "clicked" /\ saw' = RootRows(page) /\ GoTo("variant")
    /\ UNCHANGED <<page, caller, attempt, cand>>
LookAfterSidebar == pc = "clicked" /\ Look(RootRows(page), "variant")

\* The wait for the sidebar's page is the one statement that raises when the page is
\* gone: an error of the cycle, or portable cookies that are held for useless.
PageLost ==
    /\ pc = "clicked" /\ page' = Blank
    /\ GoTo(IF caller = "restore" THEN "paused" ELSE "backoff")
    /\ Forgotten

NextVariant ==
    IF cand < 3 THEN GoTo("variant") /\ cand' = cand + 1 ELSE GoTo("reload") /\ UNCHANGED cand

\* _try_bltxn_route_variants: three URLs of links or of its list, none of another feed; one
\* whose goto raises is not looked at, even if something was loaded.
OpenVariant ==
    /\ pc = "variant"
    /\ \E u \in {"recent", "plain", "seller"} :
          \/ page' \in Loaded(u) /\ GoTo("vlook") /\ UNCHANGED cand
          \/ Goto(u) /\ NextVariant
    /\ UNCHANGED <<caller, attempt, saw>>
LookAtVariant == pc = "vlook" /\ Look(BodyRows(page), "vtab")
ClickVariantTab ==
    /\ pc = "vtab"
    /\ \/ TabClicked /\ GoTo("vrecent")
       \/ UNCHANGED page /\ GoTo("vmiss")
    /\ UNCHANGED <<caller, attempt, cand, saw>>
\* Both tests after a click on the tab, and the second one without.
LookAfterTab ==
    /\ pc \in {"vrecent", "vmiss"}
    /\ LET rows == RootRows(page) \/ (pc = "vrecent" /\ BodyRows(page))
       IN  /\ saw' = rows
           /\ IF rows THEN GoTo("final") /\ UNCHANGED cand ELSE NextVariant
    /\ UNCHANGED <<page, caller, attempt>>

HardReload ==
    /\ pc = "reload" /\ GoTo("rlook")
    /\ page' \in (IF OnSeller(page) THEN {Page(page.url, b) : b \in Rendered} ELSE {})
                 \cup Refused(page.url) \cup {page}
    /\ UNCHANGED <<caller, attempt, cand, saw>>
\* Whatever the reload shows, rows or the marketing page, the second attempt loads the
\* page again: rows are looked for, and what is found is not used.
LookAfterReload == pc = "rlook" /\ NextAttempt /\ UNCHANGED <<page, caller, cand, saw>>

Return == [target |-> "expiry", restore |-> "reauth", recent |-> "recheck",
           rows |-> "rescan", drain |-> "find"]
ToCaller ==
    /\ GoTo(Return[caller])
    /\ Forgotten

\* Another feed is left once more, unless its text shows rows.
Finish ==
    /\ pc = "final" /\ UNCHANGED page
    /\ IF NonRecent(page) /\ ~RootRows(page)
       THEN GoTo("force") /\ UNCHANGED <<caller, attempt, cand, saw>>
       ELSE ToCaller
ForceBeforeReturn == pc = "force" /\ Goto("recent") /\ ToCaller

-----------------------------------------------------------------------------
(* The poll cycle.                                                         *)

Step(from, to) == pc = from /\ GoTo(to) /\ UNCHANGED <<page, caller, attempt, cand, saw>>

\* _ensure_on_target_page.
Poll ==
    /\ pc = "idle"
    /\ \/ page.url = "blank" /\ Step("idle", "open")
       \/ page.url \in {"login", "recent"} /\ Step("idle", "expiry")
       \/ page.url \in {"other", "plain", "seller", "off"} /\ Ensure("target")

\* browser.navigate raises when the goto fails.
Navigate ==
    /\ pc = "open"
    /\ \/ page' \in Loaded("recent") /\ GoTo("expiry")
       \/ UNCHANGED page /\ GoTo("backoff")
    /\ UNCHANGED <<caller, attempt, cand, saw>>

Pause(from) == Step(from, "paused")   \* _handle_session_expired

\* Fault: a login page is not told from the feed.
MarketingOnly(p) == (p.url = "seller" /\ Landing(p)) \/ (p.url = "off" /\ p.body = "signin")
\* _is_session_expired: by the URL, and by the body unless it is a page of buy leads.
Expired(p) == \/ p.url = "login"
              \/ p.url = "seller" /\ Landing(p)
              \/ p.url = "off" /\ p.body = "signin"

CheckExpiry == IF Expired(page) THEN Pause("expiry") ELSE Step("expiry", "auth")
\* A job without active keywords looks no further.
NoKeywords == Step("expiry", "idle") /\ ~Expired(page)

\* seller_session_is_authenticated; when it says no, the portable cookies, if there are any.
Authenticate ==
    \/ Step("auth", "feed") /\ ~Landing(page)
    \/ pc = "auth" /\ Landing(page) /\ (Pause("auth") \/ Step("auth", "cookies"))

\* They may be stale, or fail to be set.
RestoreCookies ==
    \/ Pause("cookies")
    \/ pc = "cookies" /\ Ensure("restore")

Reauthenticate == IF Landing(page) THEN Pause("reauth") ELSE Step("reauth", "feed")

\* Another feed is not scanned: back to Recent, or no scan in this cycle.
CheckFeed ==
    \/ pc = "feed" /\ NonRecent(page) /\ Ensure("recent")
    \/ Step("feed", "scan") /\ ~NonRecent(page)
RecheckFeed == Step("recheck", IF NonRecent(page) THEN "idle" ELSE "scan")

\* collect_buyer_lead_blocks: none without rows, and rows may not be readable.
Scan ==
    \/ Step("scan", "match") /\ BodyRows(page)
    \/ pc = "scan" /\ Ensure("rows")

\* Fault: a page without readable rows is taken for a logged-out one.
PauseOnNoRows ==
    \/ Step("rescan", "match") /\ BodyRows(page)
    \/ Pause("rescan")

\* The second scan; without rows the job pauses on the marketing page, and otherwise only
\* reports the layout.
Rescan ==
    \/ Step("rescan", "match") /\ BodyRows(page)
    \/ Step("rescan", "idle") /\ ~Landing(page)
    \/ Pause("rescan") /\ Landing(page)

\* No row matches a keyword.
NoMatch == Step("match", "idle")

\* After an exception the browser is restarted.
Backoff ==
    /\ pc = "backoff" /\ page' = Blank /\ GoTo("idle")
    /\ UNCHANGED <<caller, attempt, cand, saw>>

-----------------------------------------------------------------------------
(* The site, and the client who logs in again and starts the job.          *)

\* The single-page application renders, and may choose another feed as it does.
Unfinished == [shell |-> {"empty", "aside", "rows"}, empty |-> {"aside", "rows"},
               aside |-> {"rows"}]
Render ==
    /\ OnSeller(page) /\ page.body \in DOMAIN Unfinished
    /\ \/ page' \in {Page(page.url, b) : b \in Unfinished[page.body]}
       \/ page.body = "shell" /\ page' \in {Page("other", b) : b \in Unfinished["shell"]}
    /\ UNCHANGED nav

\* Where the code waits for page.evaluate or inner_text, which a page that hangs never
\* answers and which have no timeout.
Evaluates == {"tab", "markers", "body", "sidebar", "clicked", "variant", "vlook", "vtab",
              "vrecent", "vmiss", "reload", "rlook", "final", "force", "expiry", "auth",
              "reauth", "scan", "rescan"}

LogIn ==
    /\ pc \in {"paused", "hung"} /\ page' = Blank /\ pc' = "idle"
    /\ UNCHANGED <<caller, attempt, cand, saw>>

FeedInit ==
    /\ page = Blank
    /\ pc = "idle" /\ caller = "target" /\ attempt = 0 /\ cand = 1 /\ saw = FALSE

EnsureStep ==
    \/ OpenRecent \/ ForceRecent \/ ClickRecentTab \/ WaitForMarkers \/ CheckBody
    \/ OpenSidebar \/ LookAfterSidebar \/ PageLost \/ OpenVariant \/ LookAtVariant
    \/ ClickVariantTab \/ LookAfterTab \/ HardReload \/ LookAfterReload
    \/ Finish \/ ForceBeforeReturn

CycleStep ==
    \/ Poll \/ Navigate \/ CheckExpiry \/ NoKeywords \/ Authenticate \/ RestoreCookies
    \/ Reauthenticate \/ CheckFeed \/ RecheckFeed \/ Scan \/ Rescan \/ NoMatch \/ Backoff

FeedStep == EnsureStep \/ CycleStep

NavPcs == Evaluates \cup {"idle", "open", "cookies", "feed", "recheck", "match", "backoff",
                          "paused", "hung", "goto", "again"}

FeedTypeOK ==
    /\ page \in [url : Urls, body : Bodies]
    /\ caller \in DOMAIN Return /\ attempt \in {0, 1} /\ cand \in 1 .. 3 /\ saw \in BOOLEAN
    /\ page.url = "login" => page.body = "none"
    /\ page.body = "landing" => OnSeller(page)
    /\ page.body = "signin" => page.url = "off"
=============================================================================
