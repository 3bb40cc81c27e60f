---------------------------- MODULE DashboardProofs ----------------------------
(***************************************************************************)
(* Theorems about Dashboard, for any number of pages and connections.      *)
(***************************************************************************)
EXTENDS Dashboard, TLAPS

-----------------------------------------------------------------------------
(* Types.                                                                  *)

LEMMA SocketValues ==
    /\ NoSocket \in Socket
    /\ [link |-> "connecting", pc |-> "start", old |-> None] \in Socket
    /\ NoTab \in Tab
BY DEF NoSocket, Socket, NoTab, Tab, Links, Handlers, Serving

LEMMA InitType == Init => TypeOK
BY SocketValues, NoneIsNoSocket DEF Init, TypeOK, NoSocket

\* A connection is opened, and the refs of the page name it.
LEMMA ConnectType ==
  ASSUME TypeOK, NEW p \in Pages, ConnectWs(p)
  PROVE  /\ sock' \in [Sockets -> Socket] /\ tab' \in [Pages -> Tab]
         /\ \A s \in Sockets : sock'[s].pc = "closing" <=> sock'[s].old # None
<1>1. PICK s \in Sockets :
        /\ sock' = [sock EXCEPT ![s] = [link |-> "connecting", pc |-> "start", old |-> None]]
        /\ tab' = [tab EXCEPT ![p] = [up |-> TRUE, ws |-> s, heard |-> FALSE, timer |-> FALSE,
                                      replacing |-> tab[p].ws # None]]
  BY DEF ConnectWs
<1>2. [up |-> TRUE, ws |-> s, heard |-> FALSE, timer |-> FALSE,
       replacing |-> tab[p].ws # None] \in Tab
  BY DEF Tab
<1>3. QED
  BY <1>1, <1>2, SocketValues DEF TypeOK

\* What a handler does keeps the types.
LEMMA HandlerType ==
  ASSUME TypeOK, NEW s \in Sockets, HandlerStep(s) \/ Refuse(s)
  PROVE  TypeOK'
<1> USE SocketValues, NoneIsNoSocket DEF TypeOK
<1>1. sock[s] \in Socket
  OBVIOUS
<1>2. CASE Refuse(s)
  BY <1>2 DEF Refuse, NoSocket
<1>3. CASE BeginConnect(s)
  BY <1>1, <1>3 DEF BeginConnect, Socket, Handlers
<1>4. CASE CloseOld(s)
  <2>1. sock[s].old \in Sockets
    BY <1>1, <1>4 DEF CloseOld, Socket
  <2>2. QED
    BY <1>1, <1>4, <2>1 DEF CloseOld, Socket, Handlers, Links
<1>5. CASE Accept(s)
  BY <1>1, <1>5 DEF Accept, Socket, Handlers, Serving, Links, NoSocket
<1>6. ASSUME NEW l \in Serving, sock[s].pc \in Serving, GoOn(s, l)
      PROVE  TypeOK'
  BY <1>1, <1>6 DEF GoOn, Socket, Handlers, Serving
<1>7. CASE End(s)
  BY <1>7 DEF End, NoSocket
<1>8. QED
  BY <1>2, <1>3, <1>4, <1>5, <1>6, <1>7 DEF HandlerStep, Query, Send, Receive, Serving

LEMMA NextType == TypeOK /\ [Next]_vars => TypeOK'
<1> SUFFICES ASSUME TypeOK, [Next]_vars PROVE TypeOK'
  OBVIOUS
<1>1. ASSUME NEW p \in Pages, Mount(p) \/ Reconnect(p) PROVE TypeOK'
  BY <1>1, ConnectType DEF Mount, Reconnect, TypeOK
<1>2. ASSUME NEW p \in Pages, Unmount(p) PROVE TypeOK'
  BY <1>2, SocketValues DEF Unmount, TypeOK, Socket, Links
<1>3. ASSUME NEW p \in Pages, OnClose(p) PROVE TypeOK'
  BY <1>3 DEF OnClose, TypeOK, Tab
<1>4. ASSUME NEW s \in Sockets, HandlerStep(s) \/ Refuse(s) PROVE TypeOK'
  BY <1>4, HandlerType
<1>5. CASE Restart
  BY <1>5, SocketValues DEF Restart, TypeOK, NoSocket
<1>6. CASE UNCHANGED vars
  BY <1>6 DEF vars, TypeOK
<1>7. QED
  BY <1>1, <1>2, <1>3, <1>4, <1>5, <1>6 DEF Next

\* Every reachable state of the dashboard is well typed, and a handler has an old socket in
\* hand exactly while it closes it.
THEOREM DashboardTypeCorrect == Spec => []TypeOK
BY InitType, NextType, PTL DEF Spec

-----------------------------------------------------------------------------
(* The registry.                                                           *)

\* What a page does begins no handler that was there and ends none.
LEMMA PageFrame ==
  ASSUME TypeOK, NEW p \in Pages, Mount(p) \/ Unmount(p) \/ OnClose(p) \/ Reconnect(p)
  PROVE  /\ reg' = reg
         /\ \A s \in Sockets : sock[s].pc # "done" => sock'[s].pc = sock[s].pc
         /\ \A s \in Sockets : sock'[s].pc \in {sock[s].pc, "start"}
<1>1. CASE Mount(p) \/ Reconnect(p)
  <2>1. PICK s \in Sockets :
          /\ Free(s)
          /\ sock' = [sock EXCEPT ![s] = [link |-> "connecting", pc |-> "start", old |-> None]]
    BY <1>1 DEF Mount, Reconnect, ConnectWs
  <2>2. sock[s].pc = "done"
    BY <2>1 DEF Free, NoSocket
  <2>3. QED
    BY <1>1, <2>1, <2>2 DEF Mount, Reconnect, TypeOK
<1>2. CASE Unmount(p)
  BY <1>2 DEF Unmount, TypeOK, Socket
<1>3. CASE OnClose(p)
  BY <1>3 DEF OnClose
<1>4. QED
  BY <1>1, <1>2, <1>3

\* A handler changes where no other handler is.
LEMMA HandlerFrame ==
  ASSUME TypeOK, NEW s \in Sockets, HandlerStep(s) \/ Refuse(s)
  PROVE  /\ \A t \in Sockets \ {s} : sock'[t].pc = sock[t].pc
         /\ \/ reg' = None
            \/ reg' = s /\ sock'[s].pc \in Serving
            \/ reg' = reg /\ reg # s
            \/ reg' = reg /\ sock[s].pc \in Serving /\ sock'[s].pc \in Serving
            \/ reg' = reg /\ sock[s].pc \notin Serving
         /\ (sock[s].pc \in Serving /\ reg' # reg) => reg = s
<1> USE DEF TypeOK
<1>1. CASE Refuse(s)
  BY <1>1 DEF Refuse, Serving
<1>2. CASE BeginConnect(s)
  BY <1>2 DEF BeginConnect, Serving
<1>3. CASE CloseOld(s)
  BY <1>3 DEF CloseOld, Serving, Socket
<1>4. CASE Accept(s)
  BY <1>4 DEF Accept, Serving, Socket
<1>5. ASSUME NEW l \in Serving, sock[s].pc \in Serving, GoOn(s, l)
      PROVE  /\ \A t \in Sockets \ {s} : sock'[t].pc = sock[t].pc
             /\ reg' = reg /\ sock[s].pc \in Serving /\ sock'[s].pc \in Serving
  BY <1>5 DEF GoOn, Socket
<1>6. CASE End(s)
  BY <1>6 DEF End
<1>7. QED
  BY <1>1, <1>2, <1>3, <1>4, <1>5, <1>6 DEF HandlerStep, Query, Send, Receive, Serving

LEMMA ServedStep == TypeOK /\ RegisteredIsServed /\ [Next]_vars => RegisteredIsServed'
<1> SUFFICES ASSUME TypeOK, RegisteredIsServed, [Next]_vars PROVE RegisteredIsServed'
  OBVIOUS
<1>1. reg \in Sockets \cup {None}
  BY DEF TypeOK
<1>2. ASSUME NEW p \in Pages, Mount(p) \/ Unmount(p) \/ OnClose(p) \/ Reconnect(p)
      PROVE  RegisteredIsServed'
  <2>1. reg # None => sock[reg].pc # "done"
    BY DEF RegisteredIsServed, Serving
  <2>2. QED
    BY <1>1, <1>2, <2>1, PageFrame DEF RegisteredIsServed
<1>3. ASSUME NEW s \in Sockets, HandlerStep(s) \/ Refuse(s)
      PROVE  RegisteredIsServed'
  BY <1>1, <1>3, HandlerFrame, NoneIsNoSocket DEF RegisteredIsServed
<1>4. CASE Restart \/ UNCHANGED vars
  BY <1>4 DEF Restart, vars, RegisteredIsServed
<1>5. QED
  BY <1>2, <1>3, <1>4 DEF Next

\* Whatever is registered for a user has a handler that serves it: connects, ends, failures
\* and restarts in any order leave no dead entry in _connections.
THEOREM RegisteredIsServedCorrect == Spec => []RegisteredIsServed
<1>1. Init => RegisteredIsServed
  BY DEF Init, RegisteredIsServed
<1>2. QED
  BY <1>1, InitType, NextType, ServedStep, PTL DEF Spec

\* A handler that ends takes no registration but its own.
LEMMA EndStep ==
  ASSUME TypeOK, [Next]_vars, NEW s \in Sockets,
         sock[s].pc \in Serving, sock'[s].pc = "done", reg' # reg
  PROVE  reg = s \/ \A t \in Sockets : sock'[t].pc = "done"
<1>1. ASSUME NEW p \in Pages, Mount(p) \/ Unmount(p) \/ OnClose(p) \/ Reconnect(p)
      PROVE  FALSE
  BY <1>1, PageFrame
<1>2. ASSUME NEW t \in Sockets, HandlerStep(t) \/ Refuse(t)
      PROVE  reg = s
  <2>1. CASE t = s
    BY <1>2, <2>1, HandlerFrame
  <2>2. CASE t # s
    BY <1>2, <2>2, HandlerFrame DEF Serving
  <2>3. QED
    BY <2>1, <2>2
<1>3. CASE Restart
  BY <1>3 DEF Restart, NoSocket
<1>4. CASE UNCHANGED vars
  BY <1>4 DEF vars
<1>5. QED
  BY <1>1, <1>2, <1>3, <1>4 DEF Next

\* A handler that ends late leaves the registration of its replacement alone; only the end of
\* the process takes all of them.
THEOREM EndSparesOthersCorrect == Spec => EndSparesOthers
<1>1. TypeOK /\ [Next]_vars =>
        [\A s \in Sockets : sock[s].pc \in Serving /\ sock'[s].pc = "done" /\ reg' # reg
            => reg = s \/ \A t \in Sockets : sock'[t].pc = "done"]_vars
  BY EndStep
<1>2. QED
  BY <1>1, InitType, NextType, PTL DEF Spec, EndSparesOthers

=============================================================================
