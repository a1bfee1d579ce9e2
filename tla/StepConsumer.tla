----------------------------- MODULE StepConsumer -----------------------------
(***************************************************************************)
(* internal/workflow/poller.go: the consumers that answer steps in         *)
(* waiting_queueti with the messages of a topic, on the nodes whose calls  *)
(* activated those steps.                                                  *)
(*                                                                         *)
(* Watch is called once for a step, by the call that claimed it; nothing   *)
(* calls Stop, and nothing calls Watch again after a restart.  A consumer  *)
(* lives until its stream breaks or its node stops, also when its step has *)
(* long been completed.  The call of TriggerStep is taken from Engine: a   *)
(* check, then a write that does not repeat it, then an advance that may   *)
(* fail.  Queue-ti is external, modelled from the way Consume is used: a   *)
(* message goes to one consumer of a group at a time, and again to some    *)
(* consumer of the group when the callback failed.                         *)
(***************************************************************************)
EXTENDS Naturals, FiniteSets

CONSTANTS
    Nodes,
    Waiters,        \* the steps with trigger: queueti, of one or several instances
    Group,          \* step -> consumer group (queueti_group, or one of its own)
    Messages,       \* messages published on the topic; every group gets each
    ByHand,         \* the document of a trigger request through the API
    MaxFaults,      \* bound: restarts, broken streams, failing advances
    None            \* no node, no message

ASSUME StepConsumerAssumptions ==
    /\ MaxFaults \in Nat
    /\ None \notin Messages \union Nodes \union {ByHand}
    /\ ByHand \notin Messages

Groups == {Group[s] : s \in Waiters}

VARIABLES
    status,         \* step_executions.status
    owner,          \* the node whose call claimed the step
    consumer,       \* "none", "idle", "checking", "writing", "answering", "gone"
    busy,           \* the message the consumer's callback works on
    manual,         \* a trigger request: "none", "writing"
    answers,        \* step -> documents written as its output, as a set
    overlapped,     \* steps that two calls were answering at the same time
    inbox,          \* <<message, group>> that can be delivered
    acked,          \* <<message, group>> acknowledged
    faults

vars == <<status, owner, consumer, busy, manual, answers, overlapped, inbox, acked, faults>>

Init ==
    /\ status = [s \in Waiters |-> "pending"]
    /\ owner = [s \in Waiters |-> None]
    /\ consumer = [s \in Waiters |-> "none"]
    /\ busy = [s \in Waiters |-> None]
    /\ manual = [s \in Waiters |-> "none"]
    /\ answers = [s \in Waiters |-> {}]
    /\ overlapped = {}
    /\ inbox = Messages \X Groups
    /\ acked = {}
    /\ faults = 0

Fault ==
    /\ faults < MaxFaults
    /\ faults' = faults + 1

\* advance claims the step on node n; Watch is its next statement.
Claim(n, s) ==
    /\ status[s] = "pending"
    /\ status' = [status EXCEPT ![s] = "waiting_queueti"]
    /\ owner' = [owner EXCEPT ![s] = n]
    /\ UNCHANGED <<consumer, busy, manual, answers, overlapped, inbox, acked, faults>>

\* Slip: consumers are registered by group.
WatchByGroup(s) ==
    /\ owner[s] # None
    /\ \A t \in Waiters : Group[t] = Group[s] => consumer[t] = "none"
    /\ consumer' = [consumer EXCEPT ![s] = "idle"]
    /\ UNCHANGED <<status, owner, busy, manual, answers, overlapped, inbox, acked, faults>>

\* Watch: a no-op if a consumer is registered.
Watch(s) ==
    /\ owner[s] # None
    /\ consumer[s] = "none"
    /\ consumer' = [consumer EXCEPT ![s] = "idle"]
    /\ UNCHANGED <<status, owner, busy, manual, answers, overlapped, inbox, acked, faults>>

-----------------------------------------------------------------------------
\* The callback of Consume: TriggerStep, then Ack or Nack.

Receive(s, m) ==
    /\ consumer[s] = "idle"
    /\ <<m, Group[s]>> \in inbox
    /\ inbox' = inbox \ {<<m, Group[s]>>}
    /\ busy' = [busy EXCEPT ![s] = m]
    /\ consumer' = [consumer EXCEPT ![s] = "checking"]
    /\ UNCHANGED <<status, owner, manual, answers, overlapped, acked, faults>>

\* The callback returns: nil acknowledges, an error puts the message back.
Ack(s) ==
    /\ acked' = acked \union {<<busy[s], Group[s]>>}
    /\ inbox' = inbox

Nack(s) ==
    /\ inbox' = inbox \union {<<busy[s], Group[s]>>}
    /\ acked' = acked

Return(s) ==
    /\ consumer' = [consumer EXCEPT ![s] = "idle"]
    /\ busy' = [busy EXCEPT ![s] = None]

\* Slip: a completed step is taken for one that waits.
WaitsOrWasAnswered(s) == status[s] # "pending"

Waits(s) == status[s] = "waiting_queueti"

\* One more call is about to answer the step; it overlaps with another one.
Answering(s) ==
    overlapped' = IF consumer[s] = "writing" \/ manual[s] = "writing"
                    THEN overlapped \union {s}
                    ELSE overlapped

Check(s) ==
    /\ consumer[s] = "checking"
    /\ Waits(s)
    /\ Answering(s)
    /\ consumer' = [consumer EXCEPT ![s] = "writing"]
    /\ UNCHANGED <<status, owner, busy, manual, answers, inbox, acked, faults>>

\* Slip: a message for a step that does not wait is acknowledged.
NotWaitingAcks(s) ==
    /\ consumer[s] = "checking"
    /\ status[s] # "waiting_queueti"
    /\ Ack(s)
    /\ Return(s)
    /\ UNCHANGED <<status, owner, manual, answers, overlapped, faults>>

NotWaiting(s) ==
    /\ consumer[s] = "checking"
    /\ status[s] # "waiting_queueti"
    /\ Nack(s)
    /\ Return(s)
    /\ UNCHANGED <<status, owner, manual, answers, overlapped, faults>>

Write(s) ==
    /\ consumer[s] = "writing"
    /\ status' = [status EXCEPT ![s] = "completed"]
    /\ answers' = [answers EXCEPT ![s] = @ \union {busy[s]}]
    /\ consumer' = [consumer EXCEPT ![s] = "answering"]
    /\ UNCHANGED <<owner, busy, manual, overlapped, inbox, acked, faults>>

\* Slip: the callback reports every result as an error.
AnswerNacks(s) ==
    /\ consumer[s] = "answering"
    /\ Nack(s)
    /\ Return(s)
    /\ UNCHANGED <<status, owner, manual, answers, overlapped, faults>>

Answer(s) ==
    /\ consumer[s] = "answering"
    /\ Ack(s)
    /\ Return(s)
    /\ UNCHANGED <<status, owner, manual, answers, overlapped, faults>>

\* Slip: the error is logged and the message acknowledged.
ErrorAcknowledges(s) ==
    /\ consumer[s] \in {"checking", "writing", "answering"}
    /\ Fault
    /\ Ack(s)
    /\ Return(s)
    /\ UNCHANGED <<status, owner, manual, answers, overlapped>>

\* A statement of TriggerStep fails, before or after the write: the message is
\* put back, what was written stays.
TriggerError(s) ==
    /\ consumer[s] \in {"checking", "writing", "answering"}
    /\ Fault
    /\ Nack(s)
    /\ Return(s)
    /\ UNCHANGED <<status, owner, manual, answers, overlapped>>

-----------------------------------------------------------------------------
\* The API may trigger a step in waiting_queueti as well.

TriggerByHand(s) ==
    /\ manual[s] = "none"
    /\ Waits(s)
    /\ Answering(s)
    /\ manual' = [manual EXCEPT ![s] = "writing"]
    /\ UNCHANGED <<status, owner, consumer, busy, answers, inbox, acked, faults>>

WriteByHand(s) ==
    /\ manual[s] = "writing"
    /\ status' = [status EXCEPT ![s] = "completed"]
    /\ answers' = [answers EXCEPT ![s] = @ \union {ByHand}]
    /\ manual' = [manual EXCEPT ![s] = "none"]
    /\ UNCHANGED <<owner, consumer, busy, overlapped, inbox, acked, faults>>

\* The request ends before its write.
ErrorByHand(s) ==
    /\ manual[s] = "writing"
    /\ Fault
    /\ manual' = [manual EXCEPT ![s] = "none"]
    /\ UNCHANGED <<status, owner, consumer, busy, answers, overlapped, inbox, acked>>

-----------------------------------------------------------------------------
\* Messages that were delivered and not acknowledged go back to their group.
Redeliver(dying) ==
    inbox' = inbox \union {<<busy[s], Group[s]>> : s \in {t \in dying : busy[t] # None}}

\* The stream of a consumer breaks; its entry is deleted.
Break(s) ==
    /\ consumer[s] = "idle"
    /\ Fault
    /\ consumer' = [consumer EXCEPT ![s] = "gone"]
    /\ UNCHANGED <<status, owner, busy, manual, answers, overlapped, inbox, acked>>

\* Node n restarts: its consumers are gone, and those it was about to start.
Restart(n) ==
    /\ Fault
    /\ LET dying == {s \in Waiters : owner[s] = n} IN
        /\ consumer' = [s \in Waiters |-> IF s \in dying THEN "gone" ELSE consumer[s]]
        /\ busy' = [s \in Waiters |-> IF s \in dying THEN None ELSE busy[s]]
        /\ Redeliver(dying)
    /\ UNCHANGED <<status, owner, manual, answers, overlapped, acked>>

-----------------------------------------------------------------------------
Callback(s) ==
    \/ Check(s)
    \/ NotWaiting(s)
    \/ Write(s)
    \/ Answer(s)

Next ==
    \/ \E s \in Waiters :
        \/ \E n \in Nodes : Claim(n, s)
        \/ Watch(s)
        \/ \E m \in Messages : Receive(s, m)
        \/ Callback(s)
        \/ TriggerError(s)
        \/ TriggerByHand(s)
        \/ WriteByHand(s)
        \/ ErrorByHand(s)
        \/ Break(s)
    \/ \E n \in Nodes : Restart(n)

Spec == Init /\ [][Next]_vars

\* Calls go on; and queue-ti offers the messages of a group to each of its
\* streams again and again, so that a consumer whose step is over does not win
\* them all.
FairSpec ==
    /\ Spec
    /\ \A s \in Waiters :
        /\ WF_vars(Watch(s))
        /\ WF_vars(Callback(s))
        /\ WF_vars(WriteByHand(s) \/ ErrorByHand(s))
        /\ SF_vars(\E m \in Messages : Receive(s, m))

-----------------------------------------------------------------------------
\* Types; a callback has a message, and only for a step that is past pending;
\* a message is on one way at most: to be delivered, acknowledged, or held.
TypeOK ==
    /\ status \in [Waiters -> {"pending", "waiting_queueti", "completed"}]
    /\ owner \in [Waiters -> Nodes \union {None}]
    /\ consumer \in [Waiters -> {"none", "idle", "checking", "writing", "answering", "gone"}]
    /\ manual \in [Waiters -> {"none", "writing"}]
    /\ answers \in [Waiters -> SUBSET (Messages \union {ByHand})]
    /\ overlapped \subseteq Waiters
    /\ inbox \subseteq Messages \X Groups
    /\ acked \subseteq Messages \X Groups
    /\ \A s \in Waiters :
        /\ busy[s] # None <=> consumer[s] \in {"checking", "writing", "answering"}
        /\ busy[s] # None =>
             /\ status[s] # "pending"
             /\ <<busy[s], Group[s]>> \notin inbox \union acked
    /\ inbox \intersect acked = {}

\* An acknowledged message is the output of a step of its group, written by the
\* callback that acknowledged it: none is dropped when nodes restart, streams
\* break and calls fail.
AckedMeansAnswered ==
    \A x \in acked : \E s \in Waiters : Group[s] = x[2] /\ x[1] \in answers[s]

\* A step that no two calls answered at the same time has one answer, from a
\* message or by hand, whatever is redelivered, and although consumers outlive
\* their steps.
AnsweredOnce ==
    \A s \in Waiters \ overlapped : Cardinality(answers[s]) <= 1

\* Without faults a message answers one step at most, although a group is
\* shared by the steps of several instances.
OneStepPerMessage ==
    faults = 0 =>
        \A s, t \in Waiters :
            (Group[s] = Group[t] /\ answers[s] \intersect answers[t] \intersect Messages # {})
              => s = t

\* What the consumers make of the deliveries of their groups.
Having(s) == <<busy[s], Group[s]>>
InHand(stages) == {Having(s) : s \in {t \in Waiters : consumer[t] \in stages}}

Q == INSTANCE AtLeastOnce WITH
        Deliveries <- Messages \X Groups,
        queue <- inbox,
        held <- InHand({"checking", "writing"}),
        done <- InHand({"answering"}),
        used <- {x \in Messages \X Groups :
                   \E s \in Waiters : Group[s] = x[2] /\ x[1] \in answers[s]},
        faulty <- faults > 0

\* With restarts, broken streams, failing calls, answers by hand and consumers
\* that outlive their steps, no message gets lost, is acknowledged by another
\* callback than the one that used it, or is used again before something failed.
DeliversAtLeastOnce == Q!Spec

\* A message arrived for the group of s and was not used.
Unused(s) == \E m \in Messages : <<m, Group[s]>> \notin acked

\* A step that waits and has a consumer does not wait for ever beside an unused
\* message of its group, even if consumers of completed steps keep taking and
\* rejecting it.
MessagesReachWaiters ==
    \A s \in Waiters :
        []<>(status[s] # "waiting_queueti" \/ consumer[s] = "gone" \/ ~Unused(s))

\* docs/guide/how-it-works.md:24: a queueti step completes when a message
\* arrives on the configured topic.
CompletesOnMessage ==
    \A s \in Waiters : []<>(status[s] # "waiting_queueti" \/ ~Unused(s))

=============================================================================
