------------------------- MODULE InstancePollerProofs -------------------------
(***************************************************************************)
(* The safety properties of InstancePoller, for any triggers, groups,      *)
(* messages and consumers, any number of reloads and any number of faults. *)
(***************************************************************************)
EXTENDS InstancePoller, TLAPS

-----------------------------------------------------------------------------
\* The inductive invariant

Triggers == [key : Keys, group : Groups]
Deliveries == Messages \X Keys \X Groups

Types ==
    /\ TypeOK
    /\ trigger \in [Consumers -> Triggers \union {None}]
    /\ started \in [Deliveries -> Nat]
    /\ faults \in Nat

\* A consumer works on a message until it exits, not longer.
BusyRuns == \A c \in Consumers : busy[c] # None => state[c] \in {"consuming", "cancelled"}

\* A message is in the queue, or with one consumer of its group, or acknowledged.
HeldByOne ==
    /\ \A c \in Consumers : busy[c] # None => Held(c) \notin inbox \union acked
    /\ \A c, d \in Consumers :
        (busy[c] # None /\ busy[d] # None /\ Held(c) = Held(d)) => c = d
    /\ inbox \intersect acked = {}

\* Without faults a message with which an instance was started is acknowledged.
StartedIsAcked ==
    faults = 0 => \A x \in Deliveries : started[x] <= 1 /\ (started[x] > 0 => x \in acked)

\* The deferred delete of a cancelled consumer finds nothing to delete, unless its
\* key was started again in the meantime.
CancelledIsDeregistered ==
    \A c \in Consumers : (state[c] = "cancelled" /\ trigger[c].key \notin raced) =>
        active[trigger[c].key] = None

QInv ==
    /\ Types
    /\ BusyRuns
    /\ HeldByOne
    /\ AckedMeansStarted
    /\ StartedIsAcked
    /\ CancelledIsDeregistered
    /\ NoOrphans

-----------------------------------------------------------------------------
\* What a Sync does

\* A Sync registers a new goroutine for every trigger that has none, cancels the
\* goroutines of the keys that have no trigger any more, and leaves the others
\* alone.
LEMMA SyncMoves ==
    ASSUME Types, NEW S \in TriggerSets, Sync(S)
    PROVE  /\ \A k \in Unwanted(S) : active'[k] = None
           /\ \A k \in Keys \ Unwanted(S) : active[k] # None => active'[k] = active[k]
           /\ \A k \in Keys : (active[k] = None /\ \A t \in S : t.key # k) => active'[k] = None
           /\ \A t \in Missing(S) :
                /\ state[active'[t.key]] = "new"
                /\ active'[t.key] \in Consumers
                /\ trigger'[active'[t.key]] = t
                /\ state'[active'[t.key]] = "consuming"
           /\ \A c \in Consumers :
                (\A t \in Missing(S) : active'[t.key] # c) =>
                  /\ trigger'[c] = trigger[c]
                  /\ state'[c] = IF \E k \in Unwanted(S) : active[k] = c THEN "cancelled"
                                                                         ELSE state[c]
           /\ \A t, u \in Missing(S) : active'[t.key] = active'[u.key] => t = u
           /\ \A t, u \in S : t.key = u.key => t = u
           /\ active' \in [Keys -> Consumers \union {None}]
           /\ state' \in [Consumers -> {"new", "consuming", "cancelled", "gone"}]
           /\ trigger' \in [Consumers -> Triggers \union {None}]
           /\ UNCHANGED <<work, faults>> /\ triggers' = S
           /\ raced' = raced \union Racing(S) /\ raced' \subseteq Keys
<1> DEFINE M == Missing(S)
<1>1. PICK new \in [M -> Consumers] :
        /\ Starts(S, new)
        /\ active' = [k \in Keys |->
             IF k \in Unwanted(S) THEN None
             ELSE IF \E t \in M : t.key = k THEN new[CHOOSE t \in M : t.key = k]
                                            ELSE active[k]]
        /\ state' = [c \in Consumers |->
             IF \E t \in M : new[t] = c THEN "consuming"
             ELSE IF \E k \in Unwanted(S) : active[k] = c THEN "cancelled"
             ELSE state[c]]
        /\ trigger' = [c \in Consumers |->
             IF \E t \in M : new[t] = c THEN CHOOSE t \in M : new[t] = c ELSE trigger[c]]
  BY DEF Sync
<1>2. /\ M \subseteq Triggers /\ \A t, u \in S : t.key = u.key => t = u
      /\ \A t \in M : t \in S /\ active[t.key] = None
  BY DEF Missing, TriggerSets, Triggers
<1>3. \A t, u \in M : new[t] = new[u] => t = u
  BY <1>1 DEF Starts
<1>4. \A t \in M : state[new[t]] = "new"
  BY <1>1 DEF Starts
<1>5. ASSUME NEW t \in M
      PROVE  active'[t.key] = new[t]
  <2>1. t.key \in Keys /\ t.key \notin Unwanted(S)
    BY <1>2 DEF Triggers, Unwanted
  <2>2. (CHOOSE u \in M : u.key = t.key) = t
    BY <1>2
  <2> QED
    BY <1>1, <2>1, <2>2
<1>6. ASSUME NEW t \in M
      PROVE  trigger'[new[t]] = t /\ state'[new[t]] = "consuming"
  <2>1. (CHOOSE u \in M : new[u] = new[t]) = t
    BY <1>3
  <2> QED
    BY <1>1, <2>1
<1>7. \A k \in Unwanted(S) : active'[k] = None
  BY <1>1 DEF Unwanted
<1>8. \A k \in Keys \ Unwanted(S) : active[k] # None => active'[k] = active[k]
  BY <1>1, <1>2
<1>9. \A k \in Keys : (active[k] = None /\ \A t \in S : t.key # k) => active'[k] = None
  BY <1>1, <1>2
<1>10. ASSUME NEW c \in Consumers, \A t \in M : active'[t.key] # c
       PROVE  /\ trigger'[c] = trigger[c]
              /\ state'[c] = IF \E k \in Unwanted(S) : active[k] = c THEN "cancelled"
                                                                     ELSE state[c]
  <2>1. ~\E t \in M : new[t] = c
    BY <1>5, <1>10
  <2> QED
    BY <1>1, <2>1
<1>11. active' \in [Keys -> Consumers \union {None}]
  <2> SUFFICES ASSUME NEW k \in Keys PROVE active'[k] \in Consumers \union {None}
    BY <1>1
  <2>1. CASE \E t \in M : t.key = k
    BY <1>5, <2>1
  <2>2. CASE ~\E t \in M : t.key = k
    BY <1>1, <2>2 DEF Types, TypeOK
  <2> QED
    BY <2>1, <2>2
<1>12. state' \in [Consumers -> {"new", "consuming", "cancelled", "gone"}]
  BY <1>1 DEF Types, TypeOK
<1>13. trigger' \in [Consumers -> Triggers \union {None}]
  <2> SUFFICES ASSUME NEW c \in Consumers PROVE trigger'[c] \in Triggers \union {None}
    BY <1>1
  <2>1. CASE \E t \in M : new[t] = c
    BY <1>2, <1>6, <2>1
  <2>2. CASE ~\E t \in M : new[t] = c
    BY <1>1, <2>2 DEF Types
  <2> QED
    BY <2>1, <2>2
<1>14. /\ UNCHANGED <<work, faults>> /\ triggers' = S
       /\ raced' = raced \union Racing(S) /\ raced' \subseteq Keys
  BY DEF Sync, Racing, Types, TypeOK
<1> QED
  <2>1. \A t \in M : /\ state[active'[t.key]] = "new"
                     /\ active'[t.key] \in Consumers
                     /\ trigger'[active'[t.key]] = t
                     /\ state'[active'[t.key]] = "consuming"
    BY <1>4, <1>5, <1>6
  <2>2. \A t, u \in M : active'[t.key] = active'[u.key] => t = u
    BY <1>3, <1>5
  <2> QED
    BY <1>2, <1>7, <1>8, <1>9, <1>10, <1>11, <1>12, <1>13, <1>14, <2>1, <2>2

-----------------------------------------------------------------------------
\* A callback's message is one of the queue's.
LEMMA HeldIsDelivery ==
    ASSUME Types, BusyRuns, NEW c \in Consumers, busy[c] # None
    PROVE  Held(c) \in Deliveries
<1>1. trigger[c] \in Triggers /\ busy[c] \in Messages
  BY DEF Types, TypeOK, BusyRuns, Triggers
<1> QED
  BY <1>1 DEF Held, Delivery, Deliveries, Triggers

-----------------------------------------------------------------------------
\* The invariant holds initially

LEMMA QInvInit == Init => QInv
<1> SUFFICES ASSUME Init PROVE QInv
  OBVIOUS
<1> USE InstancePollerAssumptions DEF Init
<1>1. Types
  BY DEF Types, TypeOK, TriggerSets, Triggers, Deliveries
<1>2. BusyRuns /\ HeldByOne /\ AckedMeansStarted /\ StartedIsAcked
  BY DEF BusyRuns, HeldByOne, AckedMeansStarted, StartedIsAcked, Deliveries
<1>3. CancelledIsDeregistered /\ NoOrphans
  BY DEF CancelledIsDeregistered, NoOrphans
<1> QED
  BY <1>1, <1>2, <1>3 DEF QInv

-----------------------------------------------------------------------------
\* ... and every step keeps it, conjunct by conjunct

\* Every step keeps the types; what is cancelled or gone is registered
\* nowhere.
LEMMA TypesKept ==
    ASSUME Types, BusyRuns, [Next]_vars
    PROVE  Types'
<1>1. ASSUME NEW S \in TriggerSets, Sync(S) PROVE Types'
  <2>1. UNCHANGED <<busy, inbox, started, acked, faults>> /\ triggers' \in TriggerSets
    BY <1>1, SyncMoves DEF work
  <2>2. \A c \in Consumers : state'[c] # "new" => trigger'[c] \in Triggers
    <3> SUFFICES ASSUME NEW c \in Consumers, state'[c] # "new"
                 PROVE  trigger'[c] \in Triggers
      OBVIOUS
    <3>1. CASE \E t \in Missing(S) : active'[t.key] = c
      BY <1>1, <3>1, SyncMoves DEF Missing, TriggerSets, Triggers
    <3>2. CASE ~\E t \in Missing(S) : active'[t.key] = c
      <4>1. state[c] # "new"
        BY <1>1, <3>2, SyncMoves DEF Unwanted, Types, TypeOK
      <4> QED
        BY <1>1, <3>2, <4>1, SyncMoves DEF Types, TypeOK, Triggers
    <3> QED
      BY <3>1, <3>2
  <2>3. ASSUME NEW k \in Keys, active'[k] # None
        PROVE  state'[active'[k]] = "consuming" /\ trigger'[active'[k]].key = k
    <3>1. CASE \E t \in Missing(S) : t.key = k
      BY <1>1, <3>1, SyncMoves
    <3>2. CASE ~\E t \in Missing(S) : t.key = k
      <4>1. k \notin Unwanted(S) /\ active[k] # None /\ active'[k] = active[k]
        BY <1>1, <2>3, <3>2, SyncMoves DEF Missing, Unwanted
      <4>2. active[k] \in Consumers /\ state[active[k]] = "consuming" /\ trigger[active[k]].key = k
        BY <4>1 DEF Types, TypeOK
      <4>3. \A t \in Missing(S) : active'[t.key] # active[k]
        BY <1>1, <4>2, SyncMoves
      <4>4. ~\E l \in Unwanted(S) : active[l] = active[k]
        BY <4>1, <4>2 DEF Unwanted, Types, TypeOK
      <4> QED
        BY <1>1, <4>1, <4>2, <4>3, <4>4, SyncMoves
    <3> QED
      BY <3>1, <3>2
  <2> QED
    BY <1>1, <2>1, <2>2, <2>3, SyncMoves DEF Types, TypeOK, Triggers
<1>2. ASSUME NEW c \in Consumers, Exit(c) PROVE Types'
  <2>1. /\ active' = [active EXCEPT ![trigger[c].key] = None]
        /\ state' = [state EXCEPT ![c] = "gone"] /\ state[c] # "new"
        /\ UNCHANGED <<triggers, trigger, busy, inbox, started, acked, raced>>
        /\ faults' \in Nat
    BY <1>2 DEF Exit, Break, Deregistered, work, Types
  <2>2. \A k \in Keys : active'[k] # None => active'[k] = active[k] /\ active[k] # c
    BY <2>1, InstancePollerAssumptions DEF Types, TypeOK
  <2>3. active' \in [Keys -> Consumers \union {None}]
    BY <2>1 DEF Types, TypeOK
  <2> QED
    BY <2>1, <2>2, <2>3 DEF Types, TypeOK
<1>3. ASSUME NEW c \in Consumers, NEW m \in Messages, Receive(c, m) PROVE Types'
  BY <1>3, InstancePollerAssumptions DEF Receive, Types, TypeOK, Triggers, Deliveries,
     Delivery, Held
<1>4. ASSUME NEW c \in Consumers, StartAndAck(c) PROVE Types'
  <2>1. Held(c) \in Deliveries
    BY <1>4, HeldIsDelivery DEF StartAndAck
  <2> QED
    BY <1>4, <2>1 DEF StartAndAck, Types, TypeOK, Deliveries
<1>5. ASSUME NEW c \in Consumers, StartFails(c) PROVE Types'
  <2>1. Held(c) \in Deliveries
    BY <1>5, HeldIsDelivery DEF StartFails
  <2> QED
    BY <1>5, <2>1 DEF StartFails, Types, TypeOK, Deliveries
<1>6. CASE UNCHANGED vars
  BY <1>6, InstancePollerAssumptions DEF vars, work, Types, TypeOK, Triggers, Deliveries,
     Delivery, Held
<1> QED
  BY <1>1, <1>2, <1>3, <1>4, <1>5, <1>6 DEF Next

\* A consumer exits when its callback has returned.
LEMMA BusyRunsKept ==
    ASSUME Types, BusyRuns, [Next]_vars
    PROVE  BusyRuns'
<1>1. ASSUME NEW S \in TriggerSets, Sync(S) PROVE BusyRuns'
  BY <1>1, SyncMoves DEF work, Types, TypeOK, BusyRuns
<1>2. ASSUME NEW c \in Consumers, Exit(c) PROVE BusyRuns'
  BY <1>2 DEF Exit, Break, Deregistered, work, Types, TypeOK, BusyRuns
<1>3. ASSUME NEW c \in Consumers, NEW m \in Messages, Receive(c, m) PROVE BusyRuns'
  BY <1>3 DEF Receive, Types, TypeOK, BusyRuns
<1>4. ASSUME NEW c \in Consumers, StartAndAck(c) PROVE BusyRuns'
  BY <1>4 DEF StartAndAck, Types, TypeOK, BusyRuns
<1>5. ASSUME NEW c \in Consumers, StartFails(c) PROVE BusyRuns'
  BY <1>5 DEF StartFails, Types, TypeOK, BusyRuns
<1>6. CASE UNCHANGED vars
  BY <1>6 DEF vars, work, Types, TypeOK, BusyRuns
<1> QED
  BY <1>1, <1>2, <1>3, <1>4, <1>5, <1>6 DEF Next

\* A message that is taken from the queue or put back is nowhere else.
LEMMA HeldByOneKept ==
    ASSUME Types, BusyRuns, HeldByOne, [Next]_vars
    PROVE  HeldByOne'
<1>1. ASSUME NEW S \in TriggerSets, Sync(S) PROVE HeldByOne'
  BY <1>1, SyncMoves DEF work, Types, TypeOK, Triggers, BusyRuns, HeldByOne, Delivery, Held
<1>2. ASSUME NEW c \in Consumers, NEW m \in Messages, Receive(c, m) PROVE HeldByOne'
  BY <1>2 DEF Receive, Types, TypeOK, Triggers, BusyRuns, HeldByOne, Delivery, Held
<1>3. ASSUME NEW c \in Consumers, StartAndAck(c) PROVE HeldByOne'
  BY <1>3 DEF StartAndAck, Types, TypeOK, Triggers, BusyRuns, HeldByOne, Delivery, Held
<1>4. ASSUME NEW c \in Consumers, StartFails(c) PROVE HeldByOne'
  BY <1>4 DEF StartFails, Types, TypeOK, Triggers, BusyRuns, HeldByOne, Delivery, Held
<1>5. ASSUME NEW c \in Consumers,
           Exit(c)
      PROVE  HeldByOne'
  BY <1>5 DEF Exit, Break, Deregistered, work, Types, TypeOK, Triggers, BusyRuns, HeldByOne,
     Delivery, Held
<1>6. CASE UNCHANGED vars
  BY <1>6 DEF vars, work, Types, TypeOK, Triggers, BusyRuns, HeldByOne, Delivery, Held
<1> QED
  BY <1>1, <1>2, <1>3, <1>4, <1>5, <1>6 DEF Next

\* The callback acknowledges with the start of an instance.
LEMMA AckedMeansStartedKept ==
    ASSUME Types, BusyRuns, AckedMeansStarted, [Next]_vars
    PROVE  AckedMeansStarted'
<1>1. ASSUME NEW S \in TriggerSets, Sync(S) PROVE AckedMeansStarted'
  BY <1>1, SyncMoves DEF work, Types, TypeOK, Triggers, Deliveries, BusyRuns,
     AckedMeansStarted, Delivery, Held
<1>2. ASSUME NEW c \in Consumers, StartAndAck(c) PROVE AckedMeansStarted'
  <2>1. Held(c) \in Deliveries
    BY <1>2, HeldIsDelivery DEF StartAndAck
  <2> QED
    BY <1>2, <2>1 DEF StartAndAck, Types, TypeOK, AckedMeansStarted, Deliveries
<1>3. ASSUME NEW c \in Consumers, StartFails(c) PROVE AckedMeansStarted'
  <2>1. Held(c) \in Deliveries
    BY <1>3, HeldIsDelivery DEF StartFails
  <2> QED
    BY <1>3, <2>1 DEF StartFails, Types, TypeOK, AckedMeansStarted, Deliveries
<1>4. ASSUME NEW c \in Consumers,
           Exit(c) \/ (\E m \in Messages : Receive(c, m))
      PROVE  AckedMeansStarted'
  BY <1>4 DEF Exit, Break, Deregistered, work, Receive, Types, TypeOK, Triggers, Deliveries,
     BusyRuns, AckedMeansStarted, Delivery, Held
<1>5. CASE UNCHANGED vars
  BY <1>5 DEF vars, work, Types, TypeOK, Triggers, Deliveries, BusyRuns, AckedMeansStarted,
     Delivery, Held
<1> QED
  BY <1>1, <1>2, <1>3, <1>4, <1>5 DEF Next

\* Without faults every start is acknowledged, so that the message is gone.
LEMMA StartedIsAckedKept ==
    ASSUME Types, HeldByOne, StartedIsAcked, [Next]_vars
    PROVE  StartedIsAcked'
<1>1. ASSUME NEW S \in TriggerSets, Sync(S) PROVE StartedIsAcked'
  BY <1>1, SyncMoves DEF work, Types, TypeOK, Triggers, Deliveries, HeldByOne,
     StartedIsAcked, Delivery, Held
<1>2. ASSUME NEW c \in Consumers, Exit(c) PROVE StartedIsAcked'
  BY <1>2 DEF Exit, Break, Deregistered, work, Types, TypeOK, Triggers, Deliveries,
     HeldByOne, StartedIsAcked, Delivery, Held
<1>3. ASSUME NEW c \in Consumers, StartAndAck(c) PROVE StartedIsAcked'
  BY <1>3 DEF StartAndAck, Types, TypeOK, Triggers, Deliveries, HeldByOne, StartedIsAcked,
     Delivery, Held
<1>4. ASSUME NEW c \in Consumers, StartFails(c) PROVE StartedIsAcked'
  BY <1>4 DEF StartFails, Types, TypeOK, Triggers, Deliveries, HeldByOne, StartedIsAcked,
     Delivery, Held
<1>5. ASSUME NEW c \in Consumers,
           (\E m \in Messages : Receive(c, m))
      PROVE  StartedIsAcked'
  BY <1>5 DEF Receive, Types, TypeOK, Triggers, Deliveries, HeldByOne, StartedIsAcked,
     Delivery, Held
<1>6. CASE UNCHANGED vars
  BY <1>6 DEF vars, work, Types, TypeOK, Triggers, Deliveries, HeldByOne, StartedIsAcked,
     Delivery, Held
<1> QED
  BY <1>1, <1>2, <1>3, <1>4, <1>5, <1>6 DEF Next

\* A Sync that cancels a consumer frees its key, and starts none for it.
LEMMA CancelledIsDeregisteredKept ==
    ASSUME Types, CancelledIsDeregistered, [Next]_vars
    PROVE  CancelledIsDeregistered'
<1>1. ASSUME NEW S \in TriggerSets, Sync(S) PROVE CancelledIsDeregistered'
  <2> SUFFICES ASSUME NEW c \in Consumers, state'[c] = "cancelled", trigger'[c].key \notin raced'
               PROVE  active'[trigger'[c].key] = None
    BY DEF CancelledIsDeregistered
  <2>1. \A t \in Missing(S) : active'[t.key] # c
    BY <1>1, SyncMoves
  <2>2. trigger'[c] = trigger[c]
    BY <1>1, <2>1, SyncMoves
  <2>3. CASE \E k \in Unwanted(S) : active[k] = c
    <3>1. PICK k \in Unwanted(S) : active[k] = c
      BY <2>3
    <3>2. trigger[c].key = k
      BY <3>1 DEF Unwanted, Types, TypeOK
    <3> QED
      BY <1>1, <2>2, <3>1, <3>2, SyncMoves
  <2>4. CASE ~\E k \in Unwanted(S) : active[k] = c
    \* It was cancelled before: its key is free, and this Sync does not start it.
    <3>1. state[c] = "cancelled"
      BY <1>1, <2>1, <2>4, SyncMoves
    <3>2. trigger[c].key \in Keys /\ trigger[c].key \notin raced
      BY <1>1, <2>2, <3>1, SyncMoves DEF Types, TypeOK
    <3>3. active[trigger[c].key] = None
      BY <3>1, <3>2 DEF CancelledIsDeregistered
    <3>4. \A t \in Missing(S) : t.key # trigger[c].key
      BY <1>1, <2>2, <3>1, <3>2, SyncMoves DEF Racing
    <3>5. \A t \in S : t.key # trigger[c].key
      BY <3>3, <3>4 DEF Missing
    <3> QED
      BY <1>1, <2>2, <3>2, <3>3, <3>5, SyncMoves
  <2> QED
    BY <2>3, <2>4
<1>2. ASSUME NEW c \in Consumers, Exit(c) PROVE CancelledIsDeregistered'
  BY <1>2, InstancePollerAssumptions DEF Exit, Break, Deregistered, work, Types, TypeOK,
     CancelledIsDeregistered
<1>3. ASSUME NEW c \in Consumers,
           (\E m \in Messages : Receive(c, m)) \/ StartAndAck(c) \/ StartFails(c)
      PROVE  CancelledIsDeregistered'
  BY <1>3, InstancePollerAssumptions DEF Receive, StartAndAck, StartFails, Types, TypeOK,
     CancelledIsDeregistered
<1>4. CASE UNCHANGED vars
  BY <1>4, InstancePollerAssumptions DEF vars, work, Types, TypeOK, CancelledIsDeregistered
<1> QED
  BY <1>1, <1>2, <1>3, <1>4 DEF Next

\* A consumer that starts is registered, wanted, and alone.
LEMMA NoOrphansKept ==
    ASSUME Types, CancelledIsDeregistered, NoOrphans, [Next]_vars
    PROVE  NoOrphans'
<1>1. ASSUME NEW S \in TriggerSets, Sync(S) PROVE NoOrphans'
  <2> SUFFICES ASSUME NEW c \in Consumers, state'[c] = "consuming", trigger'[c].key \notin raced'
               PROVE  /\ active'[trigger'[c].key] = c
                      /\ \E t \in S : t.key = trigger'[c].key
    BY <1>1, SyncMoves DEF NoOrphans
  <2>1. CASE \E t \in Missing(S) : active'[t.key] = c
    BY <1>1, <2>1, SyncMoves DEF Missing
  <2>2. CASE ~\E t \in Missing(S) : active'[t.key] = c
    <3>1. /\ trigger'[c] = trigger[c] /\ state[c] = "consuming"
          /\ ~\E k \in Unwanted(S) : active[k] = c
      BY <1>1, <2>2, SyncMoves
    <3>2. active[trigger[c].key] = c
      BY <1>1, <3>1, SyncMoves DEF NoOrphans
    <3>3. trigger[c].key \in Keys
      BY <3>1 DEF Types, TypeOK
    <3>4. c # None
      BY InstancePollerAssumptions
    <3> QED
      BY <1>1, <3>1, <3>2, <3>3, <3>4, SyncMoves DEF Unwanted
  <2> QED
    BY <2>1, <2>2
<1>2. ASSUME NEW c \in Consumers, Exit(c) PROVE NoOrphans'
  BY <1>2, InstancePollerAssumptions DEF Exit, Break, Deregistered, work, Types, TypeOK,
     CancelledIsDeregistered, NoOrphans
<1>3. ASSUME NEW c \in Consumers,
           (\E m \in Messages : Receive(c, m)) \/ StartAndAck(c) \/ StartFails(c)
      PROVE  NoOrphans'
  BY <1>3, InstancePollerAssumptions DEF Receive, StartAndAck, StartFails, Types, TypeOK,
     CancelledIsDeregistered, NoOrphans
<1>4. CASE UNCHANGED vars
  BY <1>4, InstancePollerAssumptions DEF vars, work, Types, TypeOK, CancelledIsDeregistered,
     NoOrphans
<1> QED
  BY <1>1, <1>2, <1>3, <1>4 DEF Next

-----------------------------------------------------------------------------
\* The theorems

\* What consumers rely on while reloads, broken streams and messages interleave.
THEOREM Invariance == Spec => []QInv
<1>1. QInv /\ [Next]_vars => QInv'
  <2> SUFFICES ASSUME QInv, [Next]_vars PROVE QInv'
    OBVIOUS
  <2> QED
    BY TypesKept, BusyRunsKept, HeldByOneKept, AckedMeansStartedKept, StartedIsAckedKept,
       CancelledIsDeregisteredKept, NoOrphansKept DEF QInv
<1> QED
  BY QInvInit, <1>1, PTL DEF Spec

\* p.active never holds the cancel of a goroutine that is gone, was cancelled, or
\* consumes for another key (Sync, and the deferred delete of run).
THEOREM TypeCorrect == Spec => []TypeOK
<1>1. QInv => TypeOK
  BY DEF QInv, Types
<1> QED
  BY Invariance, <1>1, PTL

\* Whatever consumes is wanted and can be cancelled by a later Sync, as long as its
\* key was never started again before its cancelled consumer had exited: nothing
\* but that interleaving puts a consumer out of reach (Sync; the deferred delete).
THEOREM NothingIsOrphaned == Spec => []NoOrphans
<1>1. QInv => NoOrphans
  BY DEF QInv
<1> QED
  BY Invariance, <1>1, PTL

\* ... and nothing else gives a trigger two consumers.
THEOREM ConsumersAreAlone == Spec => []OneConsumerPerTrigger
<1>1. NoOrphans => OneConsumerPerTrigger
  BY DEF NoOrphans, OneConsumerPerTrigger
<1> QED
  BY NothingIsOrphaned, <1>1, PTL

\* No message is acknowledged before an instance was started with it, whatever
\* fails and however reloads overlap.
THEOREM AcksAreStarts == Spec => []AckedMeansStarted
<1>1. QInv => AckedMeansStarted
  BY DEF QInv
<1> QED
  BY Invariance, <1>1, PTL

\* Without faults no message starts two instances, also with two consumers.
THEOREM StartsOnce == Spec => []StartedOnce
<1>1. QInv => StartedOnce
  BY DEF QInv, Types, StartedIsAcked, StartedOnce
<1> QED
  BY Invariance, <1>1, PTL

-----------------------------------------------------------------------------
\* The refinement

\* What the callbacks have in hand, and what an instance was started with.
InHand == {Held(c) : c \in {d \in Consumers : busy[d] # None}}
Used == {x \in DOMAIN started : started[x] > 0}

\* Steps of the abstract queue.
LEMMA QueueSteps ==
    /\ \A x \in Messages \X Keys \X Groups : Q!Take(x) \/ Q!UseAndAck(x) => Q!Next
    /\ \A S \in SUBSET (Messages \X Keys \X Groups) : Q!Fail(S) => Q!Next
<1> QED
  BY DEF Q!Next

\* A callback that returns has nothing any more, and nobody else had what it had.
LEMMA HandsOver ==
    ASSUME Types, HeldByOne, NEW c \in Consumers, busy[c] # None,
           busy' = [busy EXCEPT ![c] = None], trigger' = trigger
    PROVE  InHand' = InHand \ {Held(c)} /\ Held(c) \in InHand
<1>1. /\ \A d \in Consumers : d # c => busy'[d] = busy[d] /\ Held(d)' = Held(d)
      /\ busy'[c] = None
  BY DEF Types, TypeOK, Held, Delivery
<1>2. \A d \in Consumers : d # c /\ busy[d] # None => Held(d) # Held(c)
  BY DEF HeldByOne
<1> QED
  BY <1>1, <1>2 DEF InHand

\* Every step of the consumers is one of the queue's, or none.
LEMMA ImplementsStep == QInv /\ [Next]_vars => [Q!Next]_Q!vars
<1> SUFFICES ASSUME QInv, [Next]_vars PROVE [Q!Next]_Q!vars
  OBVIOUS
<1> USE DEF QInv
<1>1. ASSUME NEW S \in TriggerSets, Sync(S) PROVE UNCHANGED Q!vars
  <2>1. UNCHANGED <<busy, inbox, started, acked, faults>>
    BY <1>1 DEF Sync, work
  <2>2. ASSUME NEW c \in Consumers, busy[c] # None
        PROVE  Held(c)' = Held(c)
    <3>1. \A t \in Missing(S) : active'[t.key] # c
      BY <1>1, <2>2, SyncMoves DEF BusyRuns
    <3>2. trigger'[c] = trigger[c]
      BY <1>1, <3>1, SyncMoves
    <3> QED
      BY <2>1, <3>2 DEF Held, Delivery
  <2>3. InHand' = InHand
    BY <2>1, <2>2 DEF InHand
  <2> QED
    BY <2>1, <2>3 DEF Q!vars, InHand
<1>2. ASSUME NEW c \in Consumers, Exit(c) PROVE [Q!Next]_Q!vars
  <2>1. UNCHANGED <<busy, inbox, started, acked, trigger>>
    BY <1>2 DEF Exit, work
  <2>2. InHand' = InHand
    BY <2>1 DEF InHand, Held, Delivery
  <2>3. CASE faults' = faults
    BY <2>1, <2>2, <2>3 DEF Q!vars, InHand
  <2>4. CASE Break(c)
    <3>1. faults' > 0
      BY <2>4 DEF Break, Types
    <3>2. PICK S \in SUBSET (Messages \X Keys \X Groups) : S = {}
      OBVIOUS
    <3>3. Q!Fail(S)
      BY <2>1, <2>2, <3>1, <3>2 DEF Q!Fail, InHand
    <3> QED
      BY <3>3, QueueSteps
  <2> QED
    BY <1>2, <2>3, <2>4 DEF Exit
<1>3. ASSUME NEW c \in Consumers, NEW m \in Messages, Receive(c, m) PROVE Q!Next
  <2>1. PICK x \in Messages \X Keys \X Groups : x = Delivery(c, m)
    BY <1>3 DEF Receive, Types, TypeOK
  <2>2. m # None /\ busy[c] = None /\ x \in inbox
    BY <1>3, <2>1, InstancePollerAssumptions DEF Receive, Types, TypeOK
  <2>3. /\ \A d \in Consumers : d # c => busy'[d] = busy[d] /\ Held(d)' = Held(d)
        /\ busy'[c] = m /\ Held(c)' = x
    BY <1>3, <2>1 DEF Receive, Types, TypeOK, Held, Delivery
  <2>4. InHand' = InHand \union {x}
    BY <2>2, <2>3 DEF InHand
  <2>5. Q!Take(x)
    BY <1>3, <2>1, <2>4 DEF Receive, Q!Take, InHand
  <2> QED
    BY <2>5, QueueSteps
<1>4. ASSUME NEW c \in Consumers, StartAndAck(c) PROVE Q!Next
  <2>1. PICK x \in Messages \X Keys \X Groups : x = Held(c)
    BY <1>4, HeldIsDelivery DEF StartAndAck, Deliveries
  <2>2. InHand' = InHand \ {x} /\ x \in InHand
    BY <1>4, <2>1, HandsOver DEF StartAndAck
  <2>3. Used' = Used \union {x}
    BY <1>4, <2>1 DEF StartAndAck, Used, Types, Deliveries
  <2>4. x \in Used => faults > 0
    BY <1>4, <2>1 DEF StartAndAck, Used, Types, Deliveries, HeldByOne, StartedIsAcked
  <2>5. Q!UseAndAck(x)
    BY <1>4, <2>1, <2>2, <2>3, <2>4 DEF StartAndAck, Q!UseAndAck, Q!Usable, InHand, Used
  <2> QED
    BY <2>5, QueueSteps
<1>5. ASSUME NEW c \in Consumers, StartFails(c) PROVE Q!Next
  <2>1. PICK x \in Messages \X Keys \X Groups : x = Held(c)
    BY <1>5, HeldIsDelivery DEF StartFails, Deliveries
  <2>2. PICK S \in SUBSET (Messages \X Keys \X Groups) : S = {x}
    OBVIOUS
  <2>3. InHand' = InHand \ {x} /\ x \in InHand
    BY <1>5, <2>1, HandsOver DEF StartFails
  <2>4. Used' \in {Used, Used \union {x}}
    <3>1. CASE started' = started
      BY <3>1 DEF Used
    <3>2. CASE started' = [started EXCEPT ![Held(c)] = @ + 1]
      BY <2>1, <3>2 DEF Used, Types, Deliveries
    <3> QED
      BY <1>5, <3>1, <3>2 DEF StartFails
  <2>5. faults' > 0
    BY <1>5 DEF StartFails, Types
  <2>6. Q!Fail(S)
    BY <1>5, <2>1, <2>2, <2>3, <2>4, <2>5 DEF StartFails, Q!Fail, InHand, Used
  <2> QED
    BY <2>6, QueueSteps
<1>6. CASE UNCHANGED vars
  BY <1>6 DEF vars, work, Q!vars, Held, Delivery
<1> QED
  BY <1>1, <1>2, <1>3, <1>4, <1>5, <1>6 DEF Next

\* The consumers of triggers deliver at least once (run, and the callback of
\* Consume), also those that are cancelled or that no Sync can reach.
THEOREM Refinement == Spec => DeliversAtLeastOnce
<1>1. Init => Q!Init
  BY InstancePollerAssumptions DEF Init, Q!Init
<1>2. QInv /\ [Next]_vars => [Q!Next]_Q!vars
  BY ImplementsStep
<1> QED
  BY <1>1, <1>2, Invariance, PTL DEF Spec, DeliversAtLeastOnce, Q!Spec

=============================================================================
