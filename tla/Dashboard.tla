------------------------------- MODULE Dashboard -------------------------------
(***************************************************************************)
(* The live dashboard: the handlers of ws.py that push to it, the          *)
(* ConnectionManager that keeps one socket per user, and the page of       *)
(* DashboardHome.tsx, which reconnects when its socket closes.             *)
(*                                                                         *)
(* Several pages of one user share one client id.  A handler runs from one *)
(* await to the next without interruption; the connections, the server     *)
(* process and the pages may go away in between.                           *)
(***************************************************************************)
CONSTANTS
    Pages,      \* browser tabs of one user
    Sockets,    \* connections, used again when nobody knows them any more
    None        \* no socket

ASSUME NoneIsNoSocket == None \notin Sockets

VARIABLES
    endpoint,   \* the handler they talk to: websocket_dashboard or websocket_job
    reg,        \* _connections[client_id]
    sock,       \* a connection, and where its handler is
    tab         \* the refs of a page

vars == <<endpoint, reg, sock, tab>>

Links    == {"connecting", "open", "closed"}
Serving  == {"query", "send", "receive"}
Handlers == {"start", "closing", "accepting", "done"} \cup Serving
Socket   == [link : Links, pc : Handlers, old : Sockets \cup {None}]
NoSocket == [link |-> "closed", pc |-> "done", old |-> None]

\* up: mounted; heard: onclose of ws has run; timer: wsReconnectTimerRef;
\* replacing: wsReplacingRef.
Tab    == [up : BOOLEAN, ws : Sockets \cup {None}, heard : BOOLEAN, timer : BOOLEAN,
           replacing : BOOLEAN]
NoTab  == [up |-> FALSE, ws |-> None, heard |-> FALSE, timer |-> FALSE, replacing |-> FALSE]

Init ==
    /\ endpoint \in {"dashboard", "job"}
    /\ reg = None
    /\ sock = [s \in Sockets |-> NoSocket]
    /\ tab = [p \in Pages |-> NoTab]

-----------------------------------------------------------------------------
(* The page.                                                               *)

Free(s) ==
    /\ sock[s] = NoSocket
    /\ \A p \in Pages : tab[p].ws # s
    /\ \A t \in Sockets : sock[t].old # s

\* connectWs: a socket that is still there is left alone; one that is closed is replaced,
\* and the flag set for a close event of it that will not come.
ConnectWs(p) ==
    \E s \in Sockets :
       /\ Free(s)
       /\ sock' = [sock EXCEPT ![s] = [link |-> "connecting", pc |-> "start", old |-> None]]
       /\ tab' = [tab EXCEPT ![p] = [up |-> TRUE, ws |-> s, heard |-> FALSE, timer |-> FALSE,
                                     replacing |-> tab[p].ws # None]]

Mount(p) == ~tab[p].up /\ ConnectWs(p) /\ UNCHANGED <<endpoint, reg>>

Unmount(p) ==
    /\ tab[p].up
    /\ sock' = [sock EXCEPT ![tab[p].ws].link = "closed"]
    /\ tab' = [tab EXCEPT ![p] = NoTab]
    /\ UNCHANGED <<endpoint, reg>>

Live(p) == tab[p].up /\ sock[tab[p].ws].link = "open"

\* onclose: reconnect after a delay, unless the page closed the socket itself.
OnClose(p) ==
    /\ tab[p].up /\ ~tab[p].heard /\ sock[tab[p].ws].link = "closed"
    /\ tab' = [tab EXCEPT ![p].heard = TRUE, ![p].replacing = FALSE,
                          ![p].timer = ~tab[p].replacing]
    /\ UNCHANGED <<endpoint, reg, sock>>

Reconnect(p) == tab[p].timer /\ ConnectWs(p) /\ UNCHANGED <<endpoint, reg>>

-----------------------------------------------------------------------------
(* The handlers.                                                           *)

\* The token is not valid, or nobody listens.
Refuse(s) ==
    /\ sock[s].pc = "start"
    /\ sock' = [sock EXCEPT ![s] = NoSocket]
    /\ UNCHANGED <<endpoint, reg, tab>>

\* Fault: the old socket is closed without a look whether there is one.
CloseAnyway(s) ==
    /\ sock[s].pc = "start"
    /\ sock' = [sock EXCEPT ![s].pc = "closing", ![s].old = reg]
    /\ reg' = None
    /\ UNCHANGED <<endpoint, tab>>
\* ConnectionManager.connect: the old socket is out of the registry before it is closed, and
\* the new one is in it when it is accepted.
BeginConnect(s) ==
    /\ sock[s].pc = "start"
    /\ sock' = [sock EXCEPT ![s].pc = IF reg = None THEN "accepting" ELSE "closing",
                            ![s].old = reg]
    /\ reg' = None
    /\ UNCHANGED <<endpoint, tab>>

CloseOld(s) ==
    /\ sock[s].pc = "closing"
    /\ sock' = [sock EXCEPT ![sock[s].old].link = "closed",
                            ![s].pc = "accepting", ![s].old = None]
    /\ UNCHANGED <<endpoint, reg, tab>>

\* A client that has left meanwhile is accepted like another, or raises.
Accept(s) ==
    /\ sock[s].pc = "accepting"
    /\ \/ /\ reg' = s
          /\ sock' = [sock EXCEPT ![s].pc = "query",
                                  ![s].link = IF @ = "connecting" THEN "open" ELSE @]
       \/ /\ sock[s].link = "closed"
          /\ sock' = [sock EXCEPT ![s] = NoSocket] /\ UNCHANGED reg
    /\ UNCHANGED <<endpoint, tab>>

GoOn(s, l) == sock' = [sock EXCEPT ![s].pc = l] /\ UNCHANGED <<endpoint, reg, tab>>

\* Fault: disconnect does not ask whose socket is registered.
EndAnyone(s) ==
    /\ sock' = [sock EXCEPT ![s] = NoSocket]
    /\ reg' = None
    /\ UNCHANGED <<endpoint, tab>>
\* Fault: disconnect is not called on every way out.
EndSilently(s) ==
    /\ sock' = [sock EXCEPT ![s] = NoSocket]
    /\ UNCHANGED <<endpoint, reg, tab>>
\* The finally clause: disconnect, and the server closes what is still open.
End(s) ==
    /\ sock' = [sock EXCEPT ![s] = NoSocket]
    /\ reg' = IF reg = s THEN None ELSE reg
    /\ UNCHANGED <<endpoint, tab>>

\* The database answers, or fails; websocket_job asks here whether it is still active.
Query(s) ==
    /\ sock[s].pc = "query"
    /\ \/ ~(endpoint = "job" /\ reg # s) /\ GoOn(s, "send")
       \/ End(s)

\* The update is sent; websocket_dashboard asks here.
Send(s) ==
    /\ sock[s].pc = "send"
    /\ IF sock[s].link # "open" \/ (endpoint = "dashboard" /\ reg # s)
       THEN End(s) ELSE GoOn(s, "receive")

\* Fault: the wait for the client has no timeout.
ReceiveForever(s) == sock[s].pc = "receive" /\ sock[s].link = "closed" /\ End(s)
\* Three seconds pass, or the connection is found closed.
Receive(s) ==
    /\ sock[s].pc = "receive"
    /\ \/ reg = s /\ GoOn(s, "query")
       \/ reg # s /\ End(s)
       \/ sock[s].link = "closed" /\ End(s)

\* The server process goes down, and comes up again.
Restart ==
    /\ reg' = None
    /\ sock' = [s \in Sockets |-> NoSocket]
    /\ UNCHANGED <<endpoint, tab>>

HandlerStep(s) ==
    \/ BeginConnect(s) \/ CloseOld(s) \/ Accept(s) \/ Query(s) \/ Send(s) \/ Receive(s)

Next ==
    \/ \E p \in Pages : Mount(p) \/ Unmount(p) \/ OnClose(p) \/ Reconnect(p)
    \/ \E s \in Sockets : HandlerStep(s) \/ Refuse(s)
    \/ Restart

Spec == Init /\ [][Next]_vars
\* The loop runs its handlers, and the wait of a handler has a timeout.
ServerSpec == Spec /\ \A s \in Sockets : WF_vars(HandlerStep(s))
\* A server that is asked again and again accepts a connection in the end, and the timers
\* of a page fire.
FairSpec ==
    /\ ServerSpec
    /\ \A s \in Sockets : SF_vars(BeginConnect(s)) /\ SF_vars(Accept(s))
    /\ \A p \in Pages : WF_vars(OnClose(p)) /\ WF_vars(Reconnect(p))

-----------------------------------------------------------------------------
TypeOK ==
    /\ endpoint \in {"dashboard", "job"}
    /\ reg \in Sockets \cup {None}
    /\ sock \in [Sockets -> Socket]
    /\ tab \in [Pages -> Tab]
    /\ \A s \in Sockets : sock[s].pc = "closing" <=> sock[s].old # None

\* Whatever is registered for a user is served: no interleaving of connects, ends and
\* failures leaves a socket in the registry whose handler has ended or not begun.
RegisteredIsServed == reg # None => sock[reg].pc \in Serving

\* A handler that ends late does not take the registration of the one that replaced it.
EndSparesOthers ==
    [][\A s \in Sockets : sock[s].pc \in Serving /\ sock'[s].pc = "done" /\ reg' # reg
          => reg = s \/ \A t \in Sockets : sock'[t].pc = "done"]_vars

\* A handler whose socket is not the registered one any more ends, also when nobody closed
\* its connection (two pages that connected at the same time).
ReplacedEnds ==
    \A s \in Sockets : (sock[s].pc \in Serving /\ reg # s) ~> sock[s].pc = "done"

\* What the comment in connectWs says of onclose: a page that stays open is connected
\* again whenever its connection is lost.
PageReconnects == \A p \in Pages : []<>(tab[p].up => Live(p))
=============================================================================
