--------------------------- MODULE LiveRefreshProofs ---------------------------
(***************************************************************************)
(* No signal is lost on the way to a page, for any nodes and pages, any    *)
(* number of changes, and any broken listeners and streams.                *)
(***************************************************************************)
EXTENDS LiveRefresh, TLAPS

\* All pages are up to date and no stream is open.
LEMMA TypeInit == Init => TypeOK
<1> SUFFICES ASSUME Init PROVE TypeOK
  OBVIOUS
<1>1. /\ version \in 0 .. MaxChanges /\ losses \in 0 .. MaxLosses
      /\ signal \in [Pages -> 0 .. 1] /\ shown \in [Pages -> 0 .. version]
  BY LiveRefreshAssumptions DEF Init
<1>2. \A n \in Nodes : targets[n] \subseteq Clients(n)
  BY DEF Init
<1> QED
  BY <1>1, <1>2 DEF Init, TypeOK

\* A step on the way of a signal takes it from one stage to the next.
LEMMA TypeStep == TypeOK /\ [Next]_vars => TypeOK'
<1> SUFFICES ASSUME TypeOK, [Next]_vars PROVE TypeOK'
  OBVIOUS
<1> USE LiveRefreshAssumptions DEF TypeOK, Clients
<1>1. CASE Change
  BY <1>1 DEF Change
<1>2. CASE PGNotify
  BY <1>2 DEF PGNotify
<1>3. ASSUME NEW n \in Nodes, Disconnect(n) PROVE TypeOK'
  BY <1>3 DEF Disconnect, Loss
<1>4. ASSUME NEW n \in Nodes, Reconnect(n) PROVE TypeOK'
  BY <1>4 DEF Reconnect
<1>5. ASSUME NEW n \in Nodes, Notify(n) PROVE TypeOK'
  BY <1>5 DEF Notify
<1>6. ASSUME NEW n \in Nodes, NEW p \in Pages, Send(n, p) PROVE TypeOK'
  BY <1>6 DEF Send, Buffered
<1>7. ASSUME NEW p \in Pages, Subscribe(p) PROVE TypeOK'
  BY <1>7 DEF Subscribe
<1>8. ASSUME NEW p \in Pages, Open(p) PROVE TypeOK'
  BY <1>8 DEF Open
<1>9. ASSUME NEW p \in Pages, Forward(p) PROVE TypeOK'
  BY <1>9 DEF Forward
<1>10. ASSUME NEW p \in Pages, Close(p) PROVE TypeOK'
  BY <1>10 DEF Close, Loss
<1>11. ASSUME NEW p \in Pages, Fetch(p) PROVE TypeOK'
  BY <1>11 DEF Fetch
<1>12. CASE UNCHANGED vars
  BY <1>12 DEF vars
<1> QED
  BY <1>1, <1>2, <1>3, <1>4, <1>5, <1>6, <1>7, <1>8, <1>9, <1>10, <1>11, <1>12
     DEF Next, Listener, Page

\* The types; a channel holds one signal at most, however many changes come in a
\* burst, and Notify signals channels of streams that are there (Broadcaster).
THEOREM TypeCorrect == Spec => []TypeOK
<1> QED
  BY TypeInit, TypeStep, PTL DEF Spec

\* A signal leaves a stage only for the next one, or because the page is up to
\* date, or with a stream or listener that signals when it is back.
LEMMA StaleIsSignalledKept ==
    ASSUME TypeOK, StaleIsSignalled, [Next]_vars
    PROVE  StaleIsSignalled'
<1> SUFFICES ASSUME NEW q \in Pages, shown'[q] # version' PROVE OnTheWay(q)'
  BY DEF StaleIsSignalled
<1> USE LiveRefreshAssumptions DEF TypeOK, OnTheWay
<1>0. shown[q] # version => OnTheWay(q)
  BY DEF StaleIsSignalled
<1>1. CASE Change
  BY <1>1 DEF Change
<1>2. CASE PGNotify
  BY <1>0, <1>2 DEF PGNotify
<1>3. ASSUME NEW n \in Nodes, Disconnect(n) PROVE OnTheWay(q)'
  BY <1>0, <1>3 DEF Disconnect
<1>4. ASSUME NEW n \in Nodes, Reconnect(n) PROVE OnTheWay(q)'
  BY <1>0, <1>4 DEF Reconnect
<1>5. ASSUME NEW n \in Nodes, Notify(n) PROVE OnTheWay(q)'
  BY <1>0, <1>5 DEF Notify, Clients
<1>6. ASSUME NEW n \in Nodes, NEW p \in Pages, Send(n, p) PROVE OnTheWay(q)'
  BY <1>0, <1>6 DEF Send, Buffered
<1>7. ASSUME NEW p \in Pages, Subscribe(p) PROVE OnTheWay(q)'
  BY <1>0, <1>7 DEF Subscribe
<1>8. ASSUME NEW p \in Pages, Open(p) PROVE OnTheWay(q)'
  BY <1>0, <1>8 DEF Open
<1>9. ASSUME NEW p \in Pages, Forward(p) PROVE OnTheWay(q)'
  BY <1>0, <1>9 DEF Forward
<1>10. ASSUME NEW p \in Pages, Close(p) PROVE OnTheWay(q)'
  BY <1>0, <1>10 DEF Close
<1>11. ASSUME NEW p \in Pages, Fetch(p) PROVE OnTheWay(q)'
  BY <1>0, <1>11 DEF Fetch
<1>12. CASE UNCHANGED vars
  BY <1>0, <1>12 DEF vars
<1> QED
  BY <1>1, <1>2, <1>3, <1>4, <1>5, <1>6, <1>7, <1>8, <1>9, <1>10, <1>11, <1>12
     DEF Next, Listener, Page

\* A page that does not show the last change has a signal on its way, through
\* full channels, subscriptions during Notify, and streams and listeners that
\* connect again (Broadcaster, Events, the listener of main).
THEOREM NoSignalIsLost == Spec => []StaleIsSignalled
<1>1. Init => StaleIsSignalled
  BY DEF Init, StaleIsSignalled
<1>2. TypeOK /\ StaleIsSignalled /\ [Next]_vars => StaleIsSignalled'
  BY StaleIsSignalledKept
<1> QED
  BY <1>1, <1>2, TypeCorrect, PTL DEF Spec

=============================================================================
