---------------------------- MODULE InstancePoller ----------------------------
(***************************************************************************)
(* internal/workflow/instance_poller.go: the consumers that start an       *)
(* instance for every message on a trigger's topic.                        *)
(*                                                                         *)
(* Sync runs under p.mu; so does the deferred delete of a consumer that    *)
(* exits, but it deletes by key, whoever is registered under it by then.   *)
(* A message is delivered to the consumer group again when the callback    *)
(* returned an error (queue-ti, external: it is modelled from the way      *)
(* Consume is used, not from its source).                                  *)
(***************************************************************************)
EXTENDS Naturals, FiniteSets

CONSTANTS
    Keys,           \* "workflowName:topic"
    Groups,         \* consumer groups a trigger may name
    Consumers,      \* goroutines, in the order they are started: 1 .. n
    Messages,       \* messages published on the topics
    MaxSyncs,       \* bound: reloads of the definitions
    MaxFaults,      \* bound: broken streams and failing starts
    None            \* no goroutine, no message

ASSUME InstancePollerAssumptions ==
    /\ Consumers \subseteq Nat /\ None \notin Consumers \union Messages
    /\ MaxSyncs \in Nat /\ MaxFaults \in Nat

\* The queue-ti triggers of the loaded definitions: a set of [key, group], one
\* for each key.
TriggerSets ==
    {S \in SUBSET [key : Keys, group : Groups] : \A t, u \in S : t.key = u.key => t = u}

VARIABLES
    triggers,       \* the triggers Sync was last called with
    active,         \* p.active: key -> the goroutine whose cancel it holds
    state,          \* goroutine -> "new", "consuming", "cancelled", "gone"
    trigger,        \* goroutine -> the trigger it was started with
    busy,           \* goroutine -> the message its callback works on
    inbox,          \* <<message, key, group>> not acknowledged yet
    started,        \* <<message, key, group>> -> instances started with it
    acked,          \* <<message, key, group>> acknowledged
    raced,          \* keys started again before their last consumer had exited
    syncs, faults

work == <<busy, inbox, started, acked>>
vars == <<triggers, active, state, trigger, work, raced, syncs, faults>>

Init ==
    /\ triggers = {}
    /\ active = [k \in Keys |-> None]
    /\ state = [c \in Consumers |-> "new"]
    /\ trigger = [c \in Consumers |-> None]
    /\ busy = [c \in Consumers |-> None]
    /\ inbox = Messages \X Keys \X Groups
    /\ started = [x \in Messages \X Keys \X Groups |-> 0]
    /\ acked = {}
    /\ raced = {}
    /\ syncs = 0
    /\ faults = 0

\* A message as it is delivered to a consumer, and the one its callback has.
Delivery(c, m) == <<m, trigger[c].key, trigger[c].group>>
Held(c) == Delivery(c, busy[c])

-----------------------------------------------------------------------------
\* Sync(defs): start what is missing, cancel what is not wanted any more.

Missing(S) == {t \in S : active[t.key] = None}

\* Of those, the keys whose cancelled consumer has yet to run its deferred delete.
Racing(S) ==
    {k \in Keys : /\ \E t \in Missing(S) : t.key = k
                 /\ \E c \in Consumers : state[c] = "cancelled" /\ trigger[c].key = k}

\* Slip: consumers of triggers that went away are not cancelled.
NothingUnwanted(S) == {}

\* Slip: the consumers of the previous definitions are cancelled, after what
\* was missing beside them has been started.
UnwantedBefore(S) == {k \in Keys : active[k] # None /\ \E t \in triggers : t.key = k}

Unwanted(S) == {k \in Keys : active[k] # None /\ \A t \in S : t.key # k}

\* The goroutines that start: the first new ones, one for each missing trigger.
Starts(S, new) ==
    /\ new \in [Missing(S) -> {c \in Consumers : state[c] = "new"}]
    /\ \A t, u \in Missing(S) : new[t] = new[u] => t = u
    /\ \A t \in Missing(S), c \in Consumers :
        (state[c] = "new" /\ c < new[t]) => \E u \in Missing(S) : new[u] = c

Sync(S) ==
    /\ syncs < MaxSyncs
    /\ syncs' = syncs + 1
    /\ triggers' = S
    /\ raced' = raced \union Racing(S)
    /\ \E new \in [Missing(S) -> Consumers] :
        /\ Starts(S, new)
        /\ active' = [k \in Keys |->
             IF k \in Unwanted(S) THEN None
             ELSE IF \E t \in Missing(S) : t.key = k
                    THEN new[CHOOSE t \in Missing(S) : t.key = k]
                    ELSE active[k]]
        /\ state' = [c \in Consumers |->
             IF \E t \in Missing(S) : new[t] = c THEN "consuming"
             ELSE IF \E k \in Unwanted(S) : active[k] = c THEN "cancelled"
             ELSE state[c]]
        /\ trigger' = [c \in Consumers |->
             IF \E t \in Missing(S) : new[t] = c
               THEN CHOOSE t \in Missing(S) : new[t] = c
               ELSE trigger[c]]
    /\ UNCHANGED <<work, faults>>

\* Consume returned: its context was cancelled, or the stream broke; no reload
\* of the definitions follows a broken stream.
Break(c) ==
    /\ state[c] = "consuming"
    /\ faults < MaxFaults
    /\ faults' = faults + 1
    /\ state' = [state EXCEPT ![c] = "gone"]

\* The deferred delete goes by key.
Deregistered(c) == [active EXCEPT ![trigger[c].key] = None]

\* Slip: a cancelled consumer leaves the message it has.
ExitAtWork(c) ==
    /\ state[c] = "cancelled"
    /\ state' = [state EXCEPT ![c] = "gone"]
    /\ busy' = [busy EXCEPT ![c] = None]
    /\ active' = Deregistered(c)
    /\ UNCHANGED <<triggers, trigger, inbox, started, acked, raced, syncs, faults>>

Exit(c) ==
    /\ busy[c] = None
    /\ \/ state[c] = "cancelled" /\ state' = [state EXCEPT ![c] = "gone"] /\ UNCHANGED faults
       \/ Break(c)
    /\ active' = Deregistered(c)
    /\ UNCHANGED <<triggers, trigger, work, raced, syncs>>

-----------------------------------------------------------------------------
\* The callback of Consume: StartInstance, then Ack or Nack. A cancelled
\* consumer gets no more messages and finishes the one it has.

Receive(c, m) ==
    /\ state[c] = "consuming"
    /\ busy[c] = None
    /\ Delivery(c, m) \in inbox
    /\ busy' = [busy EXCEPT ![c] = m]
    /\ inbox' = inbox \ {Delivery(c, m)}
    /\ UNCHANGED <<triggers, active, state, trigger, started, acked, raced, syncs, faults>>

\* Slip: the callback returns an error although the instance was started.
StartAndNack(c) ==
    /\ busy[c] # None
    /\ started' = [started EXCEPT ![Held(c)] = @ + 1]
    /\ inbox' = inbox \union {Held(c)}
    /\ busy' = [busy EXCEPT ![c] = None]
    /\ UNCHANGED <<triggers, active, state, trigger, acked, raced, syncs, faults>>

StartAndAck(c) ==
    /\ busy[c] # None
    /\ started' = [started EXCEPT ![Held(c)] = @ + 1]
    /\ acked' = acked \union {Held(c)}
    /\ busy' = [busy EXCEPT ![c] = None]
    /\ UNCHANGED <<triggers, active, state, trigger, inbox, raced, syncs, faults>>

\* StartInstance fails, before or after it inserted the instance: Nack.
StartFails(c) ==
    /\ busy[c] # None
    /\ faults < MaxFaults
    /\ faults' = faults + 1
    /\ \/ started' = [started EXCEPT ![Held(c)] = @ + 1]
       \/ started' = started
    /\ inbox' = inbox \union {Held(c)}
    /\ busy' = [busy EXCEPT ![c] = None]
    /\ UNCHANGED <<triggers, active, state, trigger, acked, raced, syncs>>

-----------------------------------------------------------------------------
Next ==
    \/ \E S \in TriggerSets : Sync(S)
    \/ \E c \in Consumers :
        \/ Exit(c)
        \/ \E m \in Messages : Receive(c, m)
        \/ StartAndAck(c)
        \/ StartFails(c)

Spec == Init /\ [][Next]_vars

\* A cancelled consumer exits: Consume returns when its context is done.
FairSpec ==
    /\ Spec
    /\ \A c \in Consumers :
        /\ WF_vars(Exit(c) /\ state[c] = "cancelled")
        /\ WF_vars(StartAndAck(c) \/ StartFails(c))
        /\ WF_vars(\E m \in Messages : Receive(c, m))

-----------------------------------------------------------------------------
\* Types; and p.active holds, under a key, the cancel of a goroutine that
\* consumes for that key: none that is gone or was cancelled before.
TypeOK ==
    /\ triggers \in TriggerSets
    /\ active \in [Keys -> Consumers \union {None}]
    /\ state \in [Consumers -> {"new", "consuming", "cancelled", "gone"}]
    /\ \A c \in Consumers : state[c] # "new" => trigger[c] \in [key : Keys, group : Groups]
    /\ busy \in [Consumers -> Messages \union {None}]
    /\ inbox \subseteq Messages \X Keys \X Groups
    /\ acked \subseteq Messages \X Keys \X Groups
    /\ raced \subseteq Keys
    /\ \A k \in Keys : active[k] # None =>
           state[active[k]] = "consuming" /\ trigger[active[k]].key = k

\* Whatever consumes is wanted, and is the goroutine a later Sync would cancel:
\* none is out of reach, except for a key that was started again while its
\* cancelled consumer had yet to run the deferred delete of instance_poller.go:63.
NoOrphans ==
    \A c \in Consumers : (state[c] = "consuming" /\ trigger[c].key \notin raced) =>
        /\ active[trigger[c].key] = c
        /\ \E t \in triggers : t.key = trigger[c].key

\* It follows that two consumers never take messages for the same trigger, with
\* the same exception.
OneConsumerPerTrigger ==
    \A c, d \in Consumers :
        (/\ state[c] = "consuming" /\ state[d] = "consuming"
         /\ trigger[c].key = trigger[d].key /\ trigger[c].key \notin raced)
          => c = d

\* A message leaves the queue only after an instance was started with it, with
\* failing starts, cancelled consumers and broken streams.
AckedMeansStarted == \A x \in acked : started[x] > 0

\* Without faults no message starts two instances of a workflow for one group,
\* not even if two consumers of the group are running.
StartedOnce ==
    faults = 0 => \A x \in DOMAIN started : started[x] <= 1

\* What the consumers make of the deliveries; they start an instance and
\* acknowledge in one step.
Q == INSTANCE AtLeastOnce WITH
        Deliveries <- Messages \X Keys \X Groups,
        queue <- inbox,
        held <- {Held(c) : c \in {d \in Consumers : busy[d] # None}},
        done <- {},
        used <- {x \in DOMAIN started : started[x] > 0},
        faulty <- faults > 0

\* With reloads that cancel consumers at work, consumers out of reach and failing
\* starts, no message gets lost, is acknowledged by another callback than the one
\* that started an instance with it, or starts another one before something failed.
DeliversAtLeastOnce == Q!Spec

\* Without faults a message for a trigger that stays is eventually used, by a
\* consumer of the group the trigger has now or had when it was started.
MessagesUsed ==
    \A m \in Messages, k \in Keys :
        <>(faults > 0) \/ []<>(\/ ~\E t \in triggers : t.key = k
                               \/ \E g \in Groups : started[<<m, k, g>>] > 0)

\* instance_poller.go:29: "Sync reconciles running goroutines with the current
\* definitions"; so after a Sync, and with no consumer about to exit, what
\* consumes is exactly what the definitions ask for.
Reconciled ==
    (faults = 0 /\ \A c \in Consumers : state[c] # "cancelled") =>
        {trigger[c] : c \in {d \in Consumers : state[d] = "consuming"}} = triggers

=============================================================================
