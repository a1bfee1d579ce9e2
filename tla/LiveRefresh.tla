------------------------------ MODULE LiveRefresh ------------------------------
(***************************************************************************)
(* How an open page learns that an instance changed: the call that changed *)
(* it sends NOTIFY (engine.go, notifyStateChange; repository.go, PGNotify),*)
(* the listener of every node passes it on (cmd/server/main.go), the       *)
(* node's Broadcaster signals the streams of its clients                   *)
(* (internal/ui/broadcaster.go), and a stream sends an event on which the  *)
(* browser fetches the current state (internal/ui/ui.go, Events).          *)
(*                                                                         *)
(* No message carries data: only whether one is on its way matters, so a   *)
(* stage holds a signal or it does not.  PostgreSQL, lib/pq and the        *)
(* browser's EventSource are external.                                     *)
(***************************************************************************)
EXTENDS Naturals

CONSTANTS
    Nodes,
    Pages,          \* open pages
    Serves,         \* page -> the node its stream goes to
    MaxChanges,     \* bound: changes of rows
    MaxLosses       \* bound: broken listeners and streams

ASSUME LiveRefreshAssumptions ==
    /\ Serves \in [Pages -> Nodes]
    /\ MaxChanges \in Nat /\ MaxLosses \in Nat

VARIABLES
    version,        \* changes committed so far
    unsignalled,    \* a change was committed and its NOTIFY is to follow
    listening,      \* nodes whose listener is connected
    notified,       \* nodes whose listener has a notification to pass on
    targets,        \* node -> pages the Notify under way has yet to signal
    stream,         \* page -> "closed", "subscribed", "open"
    signal,         \* page -> signals in its channel
    event,          \* pages with an event on the way to the browser
    shown,          \* page -> the version it shows
    losses

vars == <<version, unsignalled, listening, notified, targets, stream, signal, event,
          shown, losses>>

Init ==
    /\ version = 0
    /\ unsignalled = FALSE
    /\ listening = Nodes
    /\ notified = {}
    /\ targets = [n \in Nodes |-> {}]
    /\ stream = [p \in Pages |-> "closed"]
    /\ signal = [p \in Pages |-> 0]
    /\ event = {}
    /\ shown = [p \in Pages |-> 0]
    /\ losses = 0

Change ==
    /\ version < MaxChanges
    /\ version' = version + 1
    /\ unsignalled' = TRUE
    /\ UNCHANGED <<listening, notified, targets, stream, signal, event, shown, losses>>

\* PGNotify: it reaches the listeners that are connected.
PGNotify ==
    /\ unsignalled
    /\ unsignalled' = FALSE
    /\ notified' = notified \union listening
    /\ UNCHANGED <<version, listening, targets, stream, signal, event, shown, losses>>

Loss ==
    /\ losses < MaxLosses
    /\ losses' = losses + 1

\* The listener of a node loses its connection, and what was on the way to it.
Disconnect(n) ==
    /\ n \in listening
    /\ Loss
    /\ listening' = listening \ {n}
    /\ notified' = notified \ {n}
    /\ UNCHANGED <<version, unsignalled, targets, stream, signal, event, shown>>

\* Slip: the reconnected listener waits for the next notification.
ReconnectSilently(n) ==
    /\ n \notin listening
    /\ listening' = listening \union {n}
    /\ UNCHANGED <<version, unsignalled, notified, targets, stream, signal, event, shown, losses>>

\* It listens again before it reports ListenerEventReconnected.
Reconnect(n) ==
    /\ n \notin listening
    /\ listening' = listening \union {n}
    /\ notified' = notified \union {n}
    /\ UNCHANGED <<version, unsignalled, targets, stream, signal, event, shown, losses>>

-----------------------------------------------------------------------------
\* Broadcaster

Clients(n) == {p \in Pages : stream[p] # "closed" /\ Serves[p] = n}

\* Notify copies the set of channels under the lock ...
Notify(n) ==
    /\ n \in notified
    /\ targets[n] = {}
    /\ notified' = notified \ {n}
    /\ targets' = [targets EXCEPT ![n] = Clients(n)]
    /\ UNCHANGED <<version, unsignalled, listening, stream, signal, event, shown, losses>>

\* A full channel takes no second signal: the first has not been read yet.
Buffered(p) == 1

\* ... and signals them one by one after unlocking.
Send(n, p) ==
    /\ p \in targets[n]
    /\ targets' = [targets EXCEPT ![n] = @ \ {p}]
    /\ signal' = [signal EXCEPT ![p] = Buffered(p)]
    /\ UNCHANGED <<version, unsignalled, listening, notified, stream, event, shown, losses>>

-----------------------------------------------------------------------------
\* Events, and the browser

\* A new channel, registered before the stream writer runs.
Subscribe(p) ==
    /\ stream[p] = "closed"
    /\ stream' = [stream EXCEPT ![p] = "subscribed"]
    /\ signal' = [signal EXCEPT ![p] = 0]
    /\ UNCHANGED <<version, unsignalled, listening, notified, targets, event, shown, losses>>

\* Slip: a new stream waits for the first change.
OpenSilently(p) ==
    /\ stream[p] = "subscribed"
    /\ stream' = [stream EXCEPT ![p] = "open"]
    /\ UNCHANGED <<version, unsignalled, listening, notified, targets, signal, event, shown, losses>>

\* The catchup event.
Open(p) ==
    /\ stream[p] = "subscribed"
    /\ stream' = [stream EXCEPT ![p] = "open"]
    /\ event' = event \union {p}
    /\ UNCHANGED <<version, unsignalled, listening, notified, targets, signal, shown, losses>>

Forward(p) ==
    /\ stream[p] = "open"
    /\ signal[p] > 0
    /\ signal' = [signal EXCEPT ![p] = @ - 1]
    /\ event' = event \union {p}
    /\ UNCHANGED <<version, unsignalled, listening, notified, targets, stream, shown, losses>>

\* The stream breaks: its channel and the events on it are gone.
Close(p) ==
    /\ stream[p] # "closed"
    /\ Loss
    /\ stream' = [stream EXCEPT ![p] = "closed"]
    /\ targets' = [targets EXCEPT ![Serves[p]] = @ \ {p}]
    /\ signal' = [signal EXCEPT ![p] = 0]
    /\ event' = event \ {p}
    /\ UNCHANGED <<version, unsignalled, listening, notified, shown>>

\* The browser gets the event and fetches what it shows.
Fetch(p) ==
    /\ p \in event
    /\ event' = event \ {p}
    /\ shown' = [shown EXCEPT ![p] = version]
    /\ UNCHANGED <<version, unsignalled, listening, notified, targets, stream, signal, losses>>

-----------------------------------------------------------------------------
Listener(n) ==
    \/ Reconnect(n)
    \/ Notify(n)
    \/ \E p \in Pages : Send(n, p)

Page(p) ==
    \/ Subscribe(p)
    \/ Open(p)
    \/ Forward(p)
    \/ Fetch(p)

Next ==
    \/ Change
    \/ PGNotify
    \/ \E n \in Nodes : Disconnect(n) \/ Listener(n)
    \/ \E p \in Pages : Close(p) \/ Page(p)

Spec == Init /\ [][Next]_vars

\* Listeners reconnect, goroutines run, and an EventSource connects again after
\* its retry time.
FairSpec ==
    /\ Spec
    /\ WF_vars(PGNotify)
    /\ \A n \in Nodes : WF_vars(Listener(n))
    /\ \A p \in Pages : WF_vars(Page(p))

-----------------------------------------------------------------------------
\* Types; a channel holds one signal at most, however many changes come in a
\* burst, and Notify signals channels of streams that are there.
TypeOK ==
    /\ version \in 0 .. MaxChanges
    /\ unsignalled \in BOOLEAN
    /\ listening \subseteq Nodes /\ notified \subseteq listening
    /\ targets \in [Nodes -> SUBSET Pages]
    /\ stream \in [Pages -> {"closed", "subscribed", "open"}]
    /\ signal \in [Pages -> 0 .. 1]
    /\ event \subseteq Pages
    /\ shown \in [Pages -> 0 .. version]
    /\ losses \in 0 .. MaxLosses
    /\ \A n \in Nodes : targets[n] \subseteq Clients(n)
    /\ \A p \in event : stream[p] = "open"

\* A signal that will make page p fetch is somewhere on the way.
OnTheWay(p) ==
    \/ unsignalled
    \/ Serves[p] \in notified \/ Serves[p] \notin listening
    \/ p \in targets[Serves[p]]
    \/ stream[p] # "open"
    \/ signal[p] > 0
    \/ p \in event

\* A page that does not show the last change has a signal on its way, at every
\* moment: none is lost to a full channel, to a subscription during Notify, to
\* a stream that connects again or to a listener that does.
StaleIsSignalled == \A p \in Pages : shown[p] # version => OnTheWay(p)

\* Once the changes end, every page comes to show the last one and stays there.
PagesCatchUp == \A p \in Pages : <>[](shown[p] = version)

=============================================================================
