----------------------------- MODULE AtLeastOnce -----------------------------
(***************************************************************************)
(* What the consumers of queue-ti promise of the messages they take, with  *)
(* no consumers, steps or reloads: a delivery (a message, for one of its   *)
(* groups) is in the queue, in the hands of one callback, or acknowledged; *)
(* it is acknowledged only after it was used, by the callback that has it; *)
(* a callback that fails puts back what it had, used or not; and what was  *)
(* used is used again only if something failed.  StepConsumer and          *)
(* InstancePoller implement it.                                            *)
(***************************************************************************)
CONSTANT Deliveries

VARIABLES
    queue,      \* deliveries that can be taken
    held,       \* taken, not used in these hands
    done,       \* taken and used in these hands
    acked,      \* acknowledged
    used,       \* used, once or more
    faulty      \* something failed

vars == <<queue, held, done, acked, used, faulty>>

Init ==
    /\ queue = Deliveries
    /\ held = {} /\ done = {} /\ acked = {} /\ used = {}
    /\ faulty = FALSE

Take(x) ==
    /\ x \in queue
    /\ queue' = queue \ {x}
    /\ held' = held \union {x}
    /\ UNCHANGED <<done, acked, used, faulty>>

Usable(x) == x \in held /\ (x \in used => faulty)

\* A callback uses what it has, and acknowledges it later ...
Use(x) ==
    /\ Usable(x)
    /\ held' = held \ {x}
    /\ done' = done \union {x}
    /\ used' = used \union {x}
    /\ UNCHANGED <<queue, acked, faulty>>

Ack(x) ==
    /\ x \in done
    /\ done' = done \ {x}
    /\ acked' = acked \union {x}
    /\ UNCHANGED <<queue, held, used, faulty>>

\* ... or at once.
UseAndAck(x) ==
    /\ Usable(x)
    /\ held' = held \ {x}
    /\ used' = used \union {x}
    /\ acked' = acked \union {x}
    /\ UNCHANGED <<queue, done, faulty>>

\* It has no use for what it has.
Reject(x) ==
    /\ x \in held
    /\ held' = held \ {x}
    /\ queue' = queue \union {x}
    /\ UNCHANGED <<done, acked, used, faulty>>

\* Callbacks end before they acknowledge, and one may have used what it had.
Fail(S) ==
    /\ S \subseteq held \union done
    /\ queue' = queue \union S
    /\ held' = held \ S
    /\ done' = done \ S
    /\ used' \in {used, used \union S}
    /\ faulty' = TRUE
    /\ UNCHANGED acked

Next ==
    \/ \E x \in Deliveries : Take(x) \/ Use(x) \/ Ack(x) \/ UseAndAck(x) \/ Reject(x)
    \/ \E S \in SUBSET Deliveries : Fail(S)

Spec == Init /\ [][Next]_vars

=============================================================================
