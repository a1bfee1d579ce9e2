-------------------------- MODULE StepConsumerProofs --------------------------
(***************************************************************************)
(* The safety properties of StepConsumer, for any nodes, steps, groups and *)
(* messages and any number of faults.                                      *)
(***************************************************************************)
EXTENDS StepConsumer, FiniteSetTheorems, TLAPS

-----------------------------------------------------------------------------
\* The inductive invariant

Holding == {"checking", "writing", "answering"}

Types ==
    /\ TypeOK
    /\ busy \in [Waiters -> Messages \union {None}]
    /\ faults \in Nat

\* A step has an owner from its claim on, and a consumer only then.
OwnedSinceClaim ==
    \A s \in Waiters :
        /\ owner[s] # None <=> status[s] # "pending"
        /\ consumer[s] \in Holding \union {"idle"} \/ manual[s] = "writing" => owner[s] # None

\* Queue-ti delivers a message to one consumer of a group at a time.
HeldByOne ==
    \A s, t \in Waiters :
        (busy[s] # None /\ busy[s] = busy[t] /\ Group[s] = Group[t]) => s = t

\* A callback is about to acknowledge what it wrote.
AnsweringWrote ==
    \A s \in Waiters : consumer[s] = "answering" => busy[s] \in answers[s]

\* A step is completed together with its first answer.
AnswersComplete ==
    \A s \in Waiters : answers[s] # {} => status[s] = "completed"

\* A call that answers a step alone finds it waiting, up to its write.
WritesAlone ==
    \A s \in Waiters \ overlapped :
        /\ ~(consumer[s] = "writing" /\ manual[s] = "writing")
        /\ consumer[s] = "writing" \/ manual[s] = "writing" => status[s] = "waiting_queueti"

OneAnswer == \A s \in Waiters \ overlapped : \A a, b \in answers[s] : a = b

\* Without faults a message that was written is acknowledged, or about to be.
WrittenIsUsed ==
    faults = 0 =>
        \A s \in Waiters : \A m \in answers[s] \intersect Messages :
            \/ <<m, Group[s]>> \in acked
            \/ consumer[s] = "answering" /\ busy[s] = m

CInv ==
    /\ Types
    /\ OwnedSinceClaim
    /\ HeldByOne
    /\ AnsweringWrote
    /\ AckedMeansAnswered
    /\ AnswersComplete
    /\ WritesAlone
    /\ OneAnswer
    /\ WrittenIsUsed
    /\ OneStepPerMessage

-----------------------------------------------------------------------------
\* It holds initially

LEMMA CInvInit == Init => CInv
<1> SUFFICES ASSUME Init PROVE CInv
  OBVIOUS
<1> USE StepConsumerAssumptions DEF Init
<1>1. Types
  BY DEF Types, TypeOK, Groups
<1>2. OwnedSinceClaim
  BY DEF OwnedSinceClaim, Holding
<1>3. HeldByOne /\ AnsweringWrote /\ AckedMeansAnswered /\ AnswersComplete
  BY DEF HeldByOne, AnsweringWrote, AckedMeansAnswered, AnswersComplete
<1>4. WritesAlone /\ OneAnswer /\ WrittenIsUsed /\ OneStepPerMessage
  BY DEF WritesAlone, OneAnswer, WrittenIsUsed, OneStepPerMessage
<1> QED
  BY <1>1, <1>2, <1>3, <1>4 DEF CInv

-----------------------------------------------------------------------------
\* ... and is kept by every step, conjunct by conjunct

\* Every step keeps the types; a message that is put back is held by nobody
\* else.
LEMMA TypesKept ==
    ASSUME Types, OwnedSinceClaim, HeldByOne, [Next]_vars
    PROVE  Types'
<1>1. ASSUME NEW s \in Waiters, NEW n \in Nodes, Claim(n, s) PROVE Types'
  BY <1>1, StepConsumerAssumptions DEF Claim, Types, TypeOK, OwnedSinceClaim, HeldByOne,
     Groups, Holding
<1>2. ASSUME NEW s \in Waiters, Watch(s) PROVE Types'
  BY <1>2, StepConsumerAssumptions DEF Watch, Types, TypeOK, OwnedSinceClaim, HeldByOne,
     Groups, Holding
<1>3. ASSUME NEW s \in Waiters, NEW m \in Messages, Receive(s, m) PROVE Types'
  BY <1>3, StepConsumerAssumptions DEF Receive, Types, TypeOK, OwnedSinceClaim, HeldByOne,
     Groups, Holding
<1>4. ASSUME NEW s \in Waiters, Check(s) PROVE Types'
  BY <1>4, StepConsumerAssumptions DEF Check, Answering, Waits, Types, TypeOK,
     OwnedSinceClaim, HeldByOne, Groups, Holding
<1>5. ASSUME NEW s \in Waiters, NotWaiting(s) PROVE Types'
  BY <1>5, StepConsumerAssumptions DEF NotWaiting, Nack, Return, Types, TypeOK,
     OwnedSinceClaim, HeldByOne, Groups, Holding
<1>6. ASSUME NEW s \in Waiters, Write(s) PROVE Types'
  BY <1>6, StepConsumerAssumptions DEF Write, Types, TypeOK, OwnedSinceClaim, HeldByOne,
     Groups, Holding
<1>7. ASSUME NEW s \in Waiters, Answer(s) PROVE Types'
  BY <1>7, StepConsumerAssumptions DEF Answer, Ack, Return, Types, TypeOK, OwnedSinceClaim,
     HeldByOne, Groups, Holding
<1>8. ASSUME NEW s \in Waiters, TriggerError(s) PROVE Types'
  BY <1>8, StepConsumerAssumptions DEF TriggerError, Fault, Nack, Return, Types, TypeOK,
     OwnedSinceClaim, HeldByOne, Groups, Holding
<1>9. ASSUME NEW s \in Waiters, TriggerByHand(s) PROVE Types'
  BY <1>9, StepConsumerAssumptions DEF TriggerByHand, Answering, Waits, Types, TypeOK,
     OwnedSinceClaim, HeldByOne, Groups, Holding
<1>10. ASSUME NEW s \in Waiters, WriteByHand(s) PROVE Types'
  BY <1>10, StepConsumerAssumptions DEF WriteByHand, Types, TypeOK, OwnedSinceClaim,
     HeldByOne, Groups, Holding
<1>11. ASSUME NEW s \in Waiters, ErrorByHand(s) PROVE Types'
  BY <1>11, StepConsumerAssumptions DEF ErrorByHand, Fault, Types, TypeOK, OwnedSinceClaim,
     HeldByOne, Groups, Holding
<1>12. ASSUME NEW s \in Waiters, Break(s) PROVE Types'
  BY <1>12, StepConsumerAssumptions DEF Break, Fault, Types, TypeOK, OwnedSinceClaim,
     HeldByOne, Groups, Holding
<1>13. ASSUME NEW n \in Nodes, Restart(n) PROVE Types'
  BY <1>13, StepConsumerAssumptions DEF Restart, Fault, Redeliver, Types, TypeOK,
     OwnedSinceClaim, HeldByOne, Groups, Holding
<1>14. CASE UNCHANGED vars
  BY <1>14, StepConsumerAssumptions DEF vars, Types, TypeOK, OwnedSinceClaim, HeldByOne,
     Groups, Holding
<1> QED
  BY <1>1, <1>2, <1>3, <1>4, <1>5, <1>6, <1>7, <1>8, <1>9, <1>10, <1>11, <1>12, <1>13, <1>14
     DEF Next, Callback

\* A step is claimed once, and only claimed steps are watched or answered.
LEMMA OwnedSinceClaimKept ==
    ASSUME Types, OwnedSinceClaim, [Next]_vars
    PROVE  OwnedSinceClaim'
<1>1. ASSUME NEW s \in Waiters, NEW n \in Nodes, Claim(n, s) PROVE OwnedSinceClaim'
  BY <1>1, StepConsumerAssumptions DEF Claim, Types, TypeOK, OwnedSinceClaim, Holding
<1>2. ASSUME NEW s \in Waiters, Watch(s) PROVE OwnedSinceClaim'
  BY <1>2, StepConsumerAssumptions DEF Watch, Types, TypeOK, OwnedSinceClaim, Holding
<1>3. ASSUME NEW s \in Waiters, NEW m \in Messages, Receive(s, m) PROVE OwnedSinceClaim'
  BY <1>3, StepConsumerAssumptions DEF Receive, Types, TypeOK, OwnedSinceClaim, Holding
<1>4. ASSUME NEW s \in Waiters, Check(s) PROVE OwnedSinceClaim'
  BY <1>4, StepConsumerAssumptions DEF Check, Answering, Waits, Types, TypeOK,
     OwnedSinceClaim, Holding
<1>5. ASSUME NEW s \in Waiters, NotWaiting(s) PROVE OwnedSinceClaim'
  BY <1>5, StepConsumerAssumptions DEF NotWaiting, Nack, Return, Types, TypeOK,
     OwnedSinceClaim, Holding
<1>6. ASSUME NEW s \in Waiters, Write(s) PROVE OwnedSinceClaim'
  BY <1>6, StepConsumerAssumptions DEF Write, Types, TypeOK, OwnedSinceClaim, Holding
<1>7. ASSUME NEW s \in Waiters, Answer(s) PROVE OwnedSinceClaim'
  BY <1>7, StepConsumerAssumptions DEF Answer, Ack, Return, Types, TypeOK, OwnedSinceClaim,
     Holding
<1>8. ASSUME NEW s \in Waiters, TriggerError(s) PROVE OwnedSinceClaim'
  BY <1>8, StepConsumerAssumptions DEF TriggerError, Fault, Nack, Return, Types, TypeOK,
     OwnedSinceClaim, Holding
<1>9. ASSUME NEW s \in Waiters, TriggerByHand(s) PROVE OwnedSinceClaim'
  BY <1>9, StepConsumerAssumptions DEF TriggerByHand, Answering, Waits, Types, TypeOK,
     OwnedSinceClaim, Holding
<1>10. ASSUME NEW s \in Waiters, WriteByHand(s) PROVE OwnedSinceClaim'
  BY <1>10, StepConsumerAssumptions DEF WriteByHand, Types, TypeOK, OwnedSinceClaim, Holding
<1>11. ASSUME NEW s \in Waiters, ErrorByHand(s) PROVE OwnedSinceClaim'
  BY <1>11, StepConsumerAssumptions DEF ErrorByHand, Fault, Types, TypeOK, OwnedSinceClaim,
     Holding
<1>12. ASSUME NEW s \in Waiters, Break(s) PROVE OwnedSinceClaim'
  BY <1>12, StepConsumerAssumptions DEF Break, Fault, Types, TypeOK, OwnedSinceClaim,
     Holding
<1>13. ASSUME NEW n \in Nodes, Restart(n) PROVE OwnedSinceClaim'
  BY <1>13, StepConsumerAssumptions DEF Restart, Fault, Redeliver, Types, TypeOK,
     OwnedSinceClaim, Holding
<1>14. CASE UNCHANGED vars
  BY <1>14, StepConsumerAssumptions DEF vars, Types, TypeOK, OwnedSinceClaim, Holding
<1> QED
  BY <1>1, <1>2, <1>3, <1>4, <1>5, <1>6, <1>7, <1>8, <1>9, <1>10, <1>11, <1>12, <1>13, <1>14
     DEF Next, Callback

\* What is delivered was held by nobody.
LEMMA HeldByOneKept ==
    ASSUME Types, HeldByOne, [Next]_vars
    PROVE  HeldByOne'
<1>1. ASSUME NEW s \in Waiters, NEW m \in Messages, Receive(s, m) PROVE HeldByOne'
  BY <1>1 DEF Receive, Types, TypeOK, HeldByOne
<1>2. ASSUME NEW s \in Waiters, NotWaiting(s) PROVE HeldByOne'
  BY <1>2 DEF NotWaiting, Nack, Return, Types, TypeOK, HeldByOne
<1>3. ASSUME NEW s \in Waiters, Answer(s) PROVE HeldByOne'
  BY <1>3 DEF Answer, Ack, Return, Types, TypeOK, HeldByOne
<1>4. ASSUME NEW s \in Waiters, TriggerError(s) PROVE HeldByOne'
  BY <1>4 DEF TriggerError, Fault, Nack, Return, Types, TypeOK, HeldByOne
<1>5. ASSUME NEW n \in Nodes, Restart(n) PROVE HeldByOne'
  BY <1>5 DEF Restart, Fault, Redeliver, Types, TypeOK, HeldByOne
<1>6. ASSUME NEW s \in Waiters,
           (\E n \in Nodes : Claim(n, s)) \/ Watch(s) \/ Check(s) \/ Write(s)
             \/ TriggerByHand(s) \/ WriteByHand(s) \/ ErrorByHand(s) \/ Break(s)
      PROVE  HeldByOne'
  BY <1>6 DEF Claim, Watch, Check, Answering, Waits, Write, TriggerByHand, WriteByHand,
     ErrorByHand, Fault, Break, Types, TypeOK, HeldByOne
<1>7. CASE UNCHANGED vars
  BY <1>7 DEF vars, Types, TypeOK, HeldByOne
<1> QED
  BY <1>1, <1>2, <1>3, <1>4, <1>5, <1>6, <1>7 DEF Next, Callback

\* A callback comes to its end by way of its write.
LEMMA AnsweringWroteKept ==
    ASSUME Types, AnsweringWrote, [Next]_vars
    PROVE  AnsweringWrote'
<1>1. ASSUME NEW s \in Waiters, Watch(s) PROVE AnsweringWrote'
  BY <1>1 DEF Watch, Types, TypeOK, AnsweringWrote
<1>2. ASSUME NEW s \in Waiters, NEW m \in Messages, Receive(s, m) PROVE AnsweringWrote'
  BY <1>2 DEF Receive, Types, TypeOK, AnsweringWrote
<1>3. ASSUME NEW s \in Waiters, Check(s) PROVE AnsweringWrote'
  BY <1>3 DEF Check, Answering, Waits, Types, TypeOK, AnsweringWrote
<1>4. ASSUME NEW s \in Waiters, NotWaiting(s) PROVE AnsweringWrote'
  BY <1>4 DEF NotWaiting, Nack, Return, Types, TypeOK, AnsweringWrote
<1>5. ASSUME NEW s \in Waiters, Write(s) PROVE AnsweringWrote'
  BY <1>5 DEF Write, Types, TypeOK, AnsweringWrote
<1>6. ASSUME NEW s \in Waiters, Answer(s) PROVE AnsweringWrote'
  BY <1>6 DEF Answer, Ack, Return, Types, TypeOK, AnsweringWrote
<1>7. ASSUME NEW s \in Waiters, TriggerError(s) PROVE AnsweringWrote'
  BY <1>7 DEF TriggerError, Fault, Nack, Return, Types, TypeOK, AnsweringWrote
<1>8. ASSUME NEW s \in Waiters, WriteByHand(s) PROVE AnsweringWrote'
  BY <1>8 DEF WriteByHand, Types, TypeOK, AnsweringWrote
<1>9. ASSUME NEW s \in Waiters, Break(s) PROVE AnsweringWrote'
  BY <1>9 DEF Break, Fault, Types, TypeOK, AnsweringWrote
<1>10. ASSUME NEW n \in Nodes, Restart(n) PROVE AnsweringWrote'
  BY <1>10 DEF Restart, Fault, Redeliver, Types, TypeOK, AnsweringWrote
<1>11. ASSUME NEW s \in Waiters,
           (\E n \in Nodes : Claim(n, s)) \/ TriggerByHand(s) \/ ErrorByHand(s)
      PROVE  AnsweringWrote'
  BY <1>11 DEF Claim, TriggerByHand, Answering, Waits, ErrorByHand, Fault, Types, TypeOK,
     AnsweringWrote
<1>12. CASE UNCHANGED vars
  BY <1>12 DEF vars, Types, TypeOK, AnsweringWrote
<1> QED
  BY <1>1, <1>2, <1>3, <1>4, <1>5, <1>6, <1>7, <1>8, <1>9, <1>10, <1>11, <1>12 DEF Next,
     Callback

\* Answers stay, and only a callback that wrote acknowledges.
LEMMA AckedMeansAnsweredKept ==
    ASSUME Types, AnsweringWrote, AckedMeansAnswered, [Next]_vars
    PROVE  AckedMeansAnswered'
<1>1. ASSUME NEW s \in Waiters, Write(s) PROVE AckedMeansAnswered'
  BY <1>1 DEF Write, Types, TypeOK, AckedMeansAnswered, AnsweringWrote
<1>2. ASSUME NEW s \in Waiters, Answer(s) PROVE AckedMeansAnswered'
  BY <1>2 DEF Answer, Ack, Return, Types, TypeOK, AckedMeansAnswered, AnsweringWrote
<1>3. ASSUME NEW s \in Waiters, WriteByHand(s) PROVE AckedMeansAnswered'
  BY <1>3 DEF WriteByHand, Types, TypeOK, AckedMeansAnswered, AnsweringWrote
<1>4. ASSUME NEW n \in Nodes, Restart(n) PROVE AckedMeansAnswered'
  BY <1>4 DEF Restart, Fault, Redeliver, Types, TypeOK, AckedMeansAnswered, AnsweringWrote
<1>5. ASSUME NEW s \in Waiters,
           (\E n \in Nodes : Claim(n, s)) \/ Watch(s)
             \/ (\E m \in Messages : Receive(s, m)) \/ Check(s) \/ NotWaiting(s)
             \/ TriggerError(s) \/ TriggerByHand(s) \/ ErrorByHand(s) \/ Break(s)
      PROVE  AckedMeansAnswered'
  BY <1>5 DEF Claim, Watch, Receive, Check, Answering, Waits, NotWaiting, Nack, Return,
     TriggerError, Fault, TriggerByHand, ErrorByHand, Break, Types, TypeOK,
     AckedMeansAnswered, AnsweringWrote
<1>6. CASE UNCHANGED vars
  BY <1>6 DEF vars, Types, TypeOK, AckedMeansAnswered, AnsweringWrote
<1> QED
  BY <1>1, <1>2, <1>3, <1>4, <1>5, <1>6 DEF Next, Callback

\* The answer and the status are written by one statement.
LEMMA AnswersCompleteKept ==
    ASSUME Types, AnswersComplete, [Next]_vars
    PROVE  AnswersComplete'
<1>1. ASSUME NEW s \in Waiters, NEW n \in Nodes, Claim(n, s) PROVE AnswersComplete'
  BY <1>1 DEF Claim, Types, TypeOK, AnswersComplete
<1>2. ASSUME NEW s \in Waiters, Write(s) PROVE AnswersComplete'
  BY <1>2 DEF Write, Types, TypeOK, AnswersComplete
<1>3. ASSUME NEW s \in Waiters, WriteByHand(s) PROVE AnswersComplete'
  BY <1>3 DEF WriteByHand, Types, TypeOK, AnswersComplete
<1>4. ASSUME NEW n \in Nodes, Restart(n) PROVE AnswersComplete'
  BY <1>4 DEF Restart, Fault, Redeliver, Types, TypeOK, AnswersComplete
<1>5. ASSUME NEW s \in Waiters,
           Watch(s) \/ (\E m \in Messages : Receive(s, m)) \/ Check(s)
             \/ NotWaiting(s) \/ Answer(s) \/ TriggerError(s) \/ TriggerByHand(s)
             \/ ErrorByHand(s) \/ Break(s)
      PROVE  AnswersComplete'
  BY <1>5 DEF Watch, Receive, Check, Answering, Waits, NotWaiting, Nack, Return, Answer,
     Ack, TriggerError, Fault, TriggerByHand, ErrorByHand, Break, Types, TypeOK,
     AnswersComplete
<1>6. CASE UNCHANGED vars
  BY <1>6 DEF vars, Types, TypeOK, AnswersComplete
<1> QED
  BY <1>1, <1>2, <1>3, <1>4, <1>5, <1>6 DEF Next, Callback

\* A call that goes on to its write beside another one is recorded as
\* overlapping.
LEMMA WritesAloneKept ==
    ASSUME Types, WritesAlone, [Next]_vars
    PROVE  WritesAlone'
<1>1. ASSUME NEW s \in Waiters, NEW n \in Nodes, Claim(n, s) PROVE WritesAlone'
  BY <1>1 DEF Claim, Types, TypeOK, WritesAlone
<1>2. ASSUME NEW s \in Waiters, Watch(s) PROVE WritesAlone'
  BY <1>2 DEF Watch, Types, TypeOK, WritesAlone
<1>3. ASSUME NEW s \in Waiters, NEW m \in Messages, Receive(s, m) PROVE WritesAlone'
  BY <1>3 DEF Receive, Types, TypeOK, WritesAlone
<1>4. ASSUME NEW s \in Waiters, Check(s) PROVE WritesAlone'
  BY <1>4 DEF Check, Answering, Waits, Types, TypeOK, WritesAlone
<1>5. ASSUME NEW s \in Waiters, NotWaiting(s) PROVE WritesAlone'
  BY <1>5 DEF NotWaiting, Nack, Return, Types, TypeOK, WritesAlone
<1>6. ASSUME NEW s \in Waiters, Write(s) PROVE WritesAlone'
  BY <1>6 DEF Write, Types, TypeOK, WritesAlone
<1>7. ASSUME NEW s \in Waiters, Answer(s) PROVE WritesAlone'
  BY <1>7 DEF Answer, Ack, Return, Types, TypeOK, WritesAlone
<1>8. ASSUME NEW s \in Waiters, TriggerError(s) PROVE WritesAlone'
  BY <1>8 DEF TriggerError, Fault, Nack, Return, Types, TypeOK, WritesAlone
<1>9. ASSUME NEW s \in Waiters, TriggerByHand(s) PROVE WritesAlone'
  BY <1>9 DEF TriggerByHand, Answering, Waits, Types, TypeOK, WritesAlone
<1>10. ASSUME NEW s \in Waiters, WriteByHand(s) PROVE WritesAlone'
  BY <1>10 DEF WriteByHand, Types, TypeOK, WritesAlone
<1>11. ASSUME NEW s \in Waiters, ErrorByHand(s) PROVE WritesAlone'
  BY <1>11 DEF ErrorByHand, Fault, Types, TypeOK, WritesAlone
<1>12. ASSUME NEW s \in Waiters, Break(s) PROVE WritesAlone'
  BY <1>12 DEF Break, Fault, Types, TypeOK, WritesAlone
<1>13. ASSUME NEW n \in Nodes, Restart(n) PROVE WritesAlone'
  BY <1>13 DEF Restart, Fault, Redeliver, Types, TypeOK, WritesAlone
<1>14. CASE UNCHANGED vars
  BY <1>14 DEF vars, Types, TypeOK, WritesAlone
<1> QED
  BY <1>1, <1>2, <1>3, <1>4, <1>5, <1>6, <1>7, <1>8, <1>9, <1>10, <1>11, <1>12, <1>13, <1>14
     DEF Next, Callback

\* A call that writes alone finds no answer.
LEMMA OneAnswerKept ==
    ASSUME Types, WritesAlone, AnswersComplete, OneAnswer, [Next]_vars
    PROVE  OneAnswer'
<1>1. ASSUME NEW s \in Waiters, Check(s) PROVE OneAnswer'
  BY <1>1 DEF Check, Answering, Waits, Types, TypeOK, WritesAlone, AnswersComplete,
     OneAnswer
<1>2. ASSUME NEW s \in Waiters, Write(s) PROVE OneAnswer'
  BY <1>2 DEF Write, Types, TypeOK, WritesAlone, AnswersComplete, OneAnswer
<1>3. ASSUME NEW s \in Waiters, TriggerByHand(s) PROVE OneAnswer'
  BY <1>3 DEF TriggerByHand, Answering, Waits, Types, TypeOK, WritesAlone, AnswersComplete,
     OneAnswer
<1>4. ASSUME NEW s \in Waiters, WriteByHand(s) PROVE OneAnswer'
  BY <1>4 DEF WriteByHand, Types, TypeOK, WritesAlone, AnswersComplete, OneAnswer
<1>5. ASSUME NEW n \in Nodes, Restart(n) PROVE OneAnswer'
  BY <1>5 DEF Restart, Fault, Redeliver, Types, TypeOK, WritesAlone, AnswersComplete,
     OneAnswer
<1>6. ASSUME NEW s \in Waiters,
           (\E n \in Nodes : Claim(n, s)) \/ Watch(s)
             \/ (\E m \in Messages : Receive(s, m)) \/ NotWaiting(s) \/ Answer(s)
             \/ TriggerError(s) \/ ErrorByHand(s) \/ Break(s)
      PROVE  OneAnswer'
  BY <1>6 DEF Claim, Watch, Receive, NotWaiting, Nack, Return, Answer, Ack, TriggerError,
     Fault, ErrorByHand, Break, Types, TypeOK, WritesAlone, AnswersComplete, OneAnswer
<1>7. CASE UNCHANGED vars
  BY <1>7 DEF vars, Types, TypeOK, WritesAlone, AnswersComplete, OneAnswer
<1> QED
  BY <1>1, <1>2, <1>3, <1>4, <1>5, <1>6, <1>7 DEF Next, Callback

\* Without faults a callback that wrote goes on to acknowledge.
LEMMA WrittenIsUsedKept ==
    ASSUME Types, WrittenIsUsed, [Next]_vars
    PROVE  WrittenIsUsed'
<1>1. ASSUME NEW s \in Waiters, Watch(s) PROVE WrittenIsUsed'
  BY <1>1 DEF Watch, Types, TypeOK, WrittenIsUsed
<1>2. ASSUME NEW s \in Waiters, NEW m \in Messages, Receive(s, m) PROVE WrittenIsUsed'
  BY <1>2 DEF Receive, Types, TypeOK, WrittenIsUsed
<1>3. ASSUME NEW s \in Waiters, Check(s) PROVE WrittenIsUsed'
  BY <1>3 DEF Check, Answering, Waits, Types, TypeOK, WrittenIsUsed
<1>4. ASSUME NEW s \in Waiters, NotWaiting(s) PROVE WrittenIsUsed'
  BY <1>4 DEF NotWaiting, Nack, Return, Types, TypeOK, WrittenIsUsed
<1>5. ASSUME NEW s \in Waiters, Write(s) PROVE WrittenIsUsed'
  BY <1>5 DEF Write, Types, TypeOK, WrittenIsUsed
<1>6. ASSUME NEW s \in Waiters, Answer(s) PROVE WrittenIsUsed'
  BY <1>6 DEF Answer, Ack, Return, Types, TypeOK, WrittenIsUsed
<1>7. ASSUME NEW s \in Waiters, TriggerError(s) PROVE WrittenIsUsed'
  BY <1>7 DEF TriggerError, Fault, Nack, Return, Types, TypeOK, WrittenIsUsed
<1>8. ASSUME NEW s \in Waiters, WriteByHand(s) PROVE WrittenIsUsed'
  BY <1>8, StepConsumerAssumptions DEF WriteByHand, Types, TypeOK, WrittenIsUsed
<1>9. ASSUME NEW s \in Waiters, ErrorByHand(s) PROVE WrittenIsUsed'
  BY <1>9 DEF ErrorByHand, Fault, Types, TypeOK, WrittenIsUsed
<1>10. ASSUME NEW s \in Waiters, Break(s) PROVE WrittenIsUsed'
  BY <1>10 DEF Break, Fault, Types, TypeOK, WrittenIsUsed
<1>11. ASSUME NEW n \in Nodes, Restart(n) PROVE WrittenIsUsed'
  BY <1>11 DEF Restart, Fault, Redeliver, Types, TypeOK, WrittenIsUsed
<1>12. ASSUME NEW s \in Waiters,
           (\E n \in Nodes : Claim(n, s)) \/ TriggerByHand(s)
      PROVE  WrittenIsUsed'
  BY <1>12 DEF Claim, TriggerByHand, Answering, Waits, Types, TypeOK, WrittenIsUsed
<1>13. CASE UNCHANGED vars
  BY <1>13 DEF vars, Types, TypeOK, WrittenIsUsed
<1> QED
  BY <1>1, <1>2, <1>3, <1>4, <1>5, <1>6, <1>7, <1>8, <1>9, <1>10, <1>11, <1>12, <1>13 DEF
     Next, Callback

\* Without faults the message that is written was not used before.
LEMMA OneStepPerMessageKept ==
    ASSUME Types, HeldByOne, WrittenIsUsed, OneStepPerMessage, [Next]_vars
    PROVE  OneStepPerMessage'
<1>1. ASSUME NEW s \in Waiters, Write(s) PROVE OneStepPerMessage'
  <2> SUFFICES ASSUME faults = 0, NEW t \in Waiters, NEW u \in Waiters, Group[t] = Group[u],
                      NEW m \in answers'[t] \intersect answers'[u] \intersect Messages
               PROVE  t = u
    BY <1>1 DEF Write, OneStepPerMessage
  <2>1. answers' = [answers EXCEPT ![s] = @ \union {busy[s]}] /\ busy[s] # None
    BY <1>1 DEF Write, Types, TypeOK
  <2>2. ASSUME NEW v \in Waiters, Group[v] = Group[s], m \in answers[v], m = busy[s]
        PROVE  FALSE
    <3>1. <<m, Group[s]>> \notin acked
      BY <2>1, <2>2 DEF Types, TypeOK
    <3>2. consumer[v] = "answering" /\ busy[v] = m
      BY <2>2, <3>1 DEF WrittenIsUsed
    <3>3. v = s
      BY <2>1, <2>2, <3>2 DEF HeldByOne
    <3> QED
      BY <1>1, <3>2, <3>3 DEF Write
  <2>3. CASE m \in answers[t] /\ m \in answers[u]
    BY <2>3 DEF OneStepPerMessage
  <2>4. CASE m \notin answers[t] \/ m \notin answers[u]
    BY <2>1, <2>2, <2>4 DEF Types, TypeOK
  <2> QED
    BY <2>3, <2>4
<1>2. ASSUME NEW s \in Waiters, TriggerError(s) PROVE OneStepPerMessage'
  BY <1>2 DEF TriggerError, Fault, Nack, Return, Types, TypeOK, OneStepPerMessage
<1>3. ASSUME NEW s \in Waiters, WriteByHand(s) PROVE OneStepPerMessage'
  BY <1>3, StepConsumerAssumptions DEF WriteByHand, Types, TypeOK, OneStepPerMessage
<1>4. ASSUME NEW s \in Waiters, ErrorByHand(s) PROVE OneStepPerMessage'
  BY <1>4 DEF ErrorByHand, Fault, Types, TypeOK, OneStepPerMessage
<1>5. ASSUME NEW s \in Waiters, Break(s) PROVE OneStepPerMessage'
  BY <1>5 DEF Break, Fault, Types, TypeOK, OneStepPerMessage
<1>6. ASSUME NEW n \in Nodes, Restart(n) PROVE OneStepPerMessage'
  BY <1>6 DEF Restart, Fault, Redeliver, Types, TypeOK, OneStepPerMessage
<1>7. ASSUME NEW s \in Waiters,
           (\E n \in Nodes : Claim(n, s)) \/ Watch(s)
             \/ (\E m \in Messages : Receive(s, m)) \/ Check(s) \/ NotWaiting(s)
             \/ Answer(s) \/ TriggerByHand(s)
      PROVE  OneStepPerMessage'
  BY <1>7 DEF Claim, Watch, Receive, Check, Answering, Waits, NotWaiting, Nack, Return,
     Answer, Ack, TriggerByHand, Types, TypeOK, OneStepPerMessage
<1>8. CASE UNCHANGED vars
  BY <1>8 DEF vars, Types, TypeOK, OneStepPerMessage
<1> QED
  BY <1>1, <1>2, <1>3, <1>4, <1>5, <1>6, <1>7, <1>8 DEF Next, Callback

-----------------------------------------------------------------------------
\* The theorems

\* What a call relies on while consumers, requests and restarts interleave.
THEOREM Invariance == Spec => []CInv
<1>1. CInv /\ [Next]_vars => CInv'
  <2> SUFFICES ASSUME CInv, [Next]_vars PROVE CInv'
    OBVIOUS
  <2> QED
    BY TypesKept, OwnedSinceClaimKept, HeldByOneKept, AnsweringWroteKept,
       AckedMeansAnsweredKept, AnswersCompleteKept, WritesAloneKept, OneAnswerKept,
       WrittenIsUsedKept, OneStepPerMessageKept DEF CInv
<1> QED
  BY CInvInit, <1>1, PTL DEF Spec

\* A message is on one way at most: in the queue, held by a callback, or
\* acknowledged (Consume, and the callback of Watch).
THEOREM TypeCorrect == Spec => []TypeOK
<1>1. CInv => TypeOK
  BY DEF CInv, Types
<1> QED
  BY Invariance, <1>1, PTL

\* A message that is acknowledged became the output of a step of its group,
\* with restarts, broken streams and failing calls.
THEOREM AcksAreAnswers == Spec => []AckedMeansAnswered
<1>1. CInv => AckedMeansAnswered
  BY DEF CInv
<1> QED
  BY Invariance, <1>1, PTL

\* A step that no two calls answered at once has one answer, also when its
\* message is delivered again.
THEOREM AnswersOnce == Spec => []AnsweredOnce
<1>1. CInv => AnsweredOnce
  <2> SUFFICES ASSUME CInv, NEW s \in Waiters \ overlapped
               PROVE  Cardinality(answers[s]) <= 1
    BY DEF AnsweredOnce
  <2>1. CASE answers[s] = {}
    BY <2>1, FS_EmptySet
  <2>2. ASSUME NEW a \in answers[s]
        PROVE  Cardinality(answers[s]) <= 1
    <3>1. answers[s] = {a}
      BY DEF CInv, OneAnswer
    <3>2. Cardinality({a}) = 1
      BY FS_Singleton
    <3> QED
      BY <3>1, <3>2
  <2> QED
    BY <2>1, <2>2
<1> QED
  BY Invariance, <1>1, PTL

\* Without faults the consumers of a group never use one message twice.
THEOREM MessagesAnswerOneStep == Spec => []OneStepPerMessage
<1>1. CInv => OneStepPerMessage
  BY DEF CInv
<1> QED
  BY Invariance, <1>1, PTL

-----------------------------------------------------------------------------
\* The refinement

\* What the callbacks have in hand, and the messages that answered some step.
Reading == InHand({"checking", "writing"})
Wrote == InHand({"answering"})
Used == {x \in Messages \X Groups : \E s \in Waiters : Group[s] = x[2] /\ x[1] \in answers[s]}

\* A callback has one message, which nobody else of its group has.
LEMMA InHandOnce ==
    ASSUME Types, HeldByOne, NEW s \in Waiters
    PROVE  /\ Having(s) \in Reading <=> consumer[s] \in {"checking", "writing"}
           /\ Having(s) \in Wrote <=> consumer[s] = "answering"
           /\ consumer[s] \in Holding => Having(s) \in Messages \X Groups
<1> QED
  BY DEF Types, TypeOK, HeldByOne, Holding, Reading, Wrote, InHand, Having, Groups

\* Calls that take and return no message move nothing.
LEMMA NothingMoves ==
    ASSUME Types, NEW s \in Waiters, UNCHANGED <<busy, inbox, acked, faults>>,
           \A t \in Waiters : consumer'[t] = consumer[t]
             \/ {consumer[t], consumer'[t]} \intersect Holding = {}
             \/ {consumer[t], consumer'[t]} \subseteq {"checking", "writing"},
           Used' = Used
    PROVE  UNCHANGED Q!vars
<1>1. Reading' = Reading /\ Wrote' = Wrote
  BY DEF Reading, Wrote, InHand, Having, Holding
<1> QED
  BY <1>1 DEF Q!vars, Reading, Wrote, Used

\* Steps of the abstract queue.
LEMMA QueueSteps ==
    /\ \A x \in Messages \X Groups :
        Q!Take(x) \/ Q!Use(x) \/ Q!Ack(x) \/ Q!Reject(x) => Q!Next
    /\ \A S \in SUBSET (Messages \X Groups) : Q!Fail(S) => Q!Next
<1> QED
  BY DEF Q!Next

\* A callback puts back what it has.
LEMMA PutsBack ==
    ASSUME Types, HeldByOne, NEW s \in Waiters, consumer[s] \in Holding, Nack(s), Return(s),
           UNCHANGED <<acked, answers>>
    PROVE  /\ Reading' = Reading \ {Having(s)} /\ Wrote' = Wrote \ {Having(s)} /\ Used' = Used
           /\ inbox' = inbox \union {Having(s)}
<1>1. \A t \in Waiters : t # s => consumer'[t] = consumer[t] /\ busy'[t] = busy[t]
  BY DEF Return, Types, TypeOK
<1>2. consumer'[s] = "idle"
  BY DEF Return, Types, TypeOK
<1>3. \A t \in Waiters : t # s /\ consumer[t] \in Holding => Having(t) # Having(s)
  BY DEF Types, TypeOK, HeldByOne, Holding, Having
<1>4. \A t \in Waiters : t # s => Having(t)' = Having(t)
  BY <1>1 DEF Having
<1>5. Reading' = Reading \ {Having(s)} /\ Wrote' = Wrote \ {Having(s)}
  BY <1>1, <1>2, <1>3, <1>4 DEF Reading, Wrote, InHand, Holding
<1> QED
  BY <1>5 DEF Nack, Used, Having

\* Every step of the consumers is one of the queue's, or none.
LEMMA ImplementsStep == CInv /\ [Next]_vars => [Q!Next]_Q!vars
<1> SUFFICES ASSUME CInv, [Next]_vars PROVE [Q!Next]_Q!vars
  OBVIOUS
<1> USE DEF CInv
<1>1. ASSUME NEW s \in Waiters, NEW n \in Nodes, Claim(n, s) PROVE UNCHANGED Q!vars
  BY <1>1, NothingMoves DEF Claim, Used
<1>2. ASSUME NEW s \in Waiters, Watch(s) PROVE UNCHANGED Q!vars
  <2>1. \A t \in Waiters : consumer'[t] = consumer[t]
          \/ {consumer[t], consumer'[t]} \intersect Holding = {}
    BY <1>2 DEF Watch, Types, TypeOK, Holding
  <2> QED
    BY <1>2, <2>1, NothingMoves DEF Watch, Used
<1>3. ASSUME NEW s \in Waiters, NEW m \in Messages, Receive(s, m) PROVE Q!Next
  <2> DEFINE x == <<m, Group[s]>>
  <2>1. /\ \A t \in Waiters : t # s => consumer'[t] = consumer[t] /\ busy'[t] = busy[t]
        /\ consumer[s] = "idle" /\ consumer'[s] = "checking" /\ Having(s)' = x
    BY <1>3 DEF Receive, Types, TypeOK, Having
  <2>2. \A t \in Waiters : t # s => Having(t)' = Having(t)
    BY <2>1 DEF Having
  <2>3. Reading' = Reading \union {x} /\ Wrote' = Wrote
    BY <2>1, <2>2 DEF Reading, Wrote, InHand
  <2>4. x \in Messages \X Groups
    BY DEF Groups
  <2>5. Q!Take(x)
    BY <1>3, <2>3 DEF Receive, Q!Take, Reading, Wrote, Used
  <2> QED
    BY <2>4, <2>5, QueueSteps
<1>4. ASSUME NEW s \in Waiters, Check(s) PROVE UNCHANGED Q!vars
  <2>1. \A t \in Waiters : consumer'[t] = consumer[t]
          \/ {consumer[t], consumer'[t]} \subseteq {"checking", "writing"}
    BY <1>4 DEF Check, Types, TypeOK
  <2> QED
    BY <1>4, <2>1, NothingMoves DEF Check, Used
<1>5. ASSUME NEW s \in Waiters, NotWaiting(s) PROVE Q!Next
  <2>1. consumer[s] = "checking"
    BY <1>5 DEF NotWaiting
  <2>2. Having(s) \in Reading /\ Having(s) \notin Wrote /\ Having(s) \in Messages \X Groups
    BY <2>1, InHandOnce DEF Holding
  <2>3. /\ Reading' = Reading \ {Having(s)} /\ Wrote' = Wrote \ {Having(s)} /\ Used' = Used
        /\ inbox' = inbox \union {Having(s)}
    BY <1>5, <2>1, PutsBack DEF NotWaiting, Nack, Holding
  <2>4. Q!Reject(Having(s))
    BY <1>5, <2>2, <2>3 DEF NotWaiting, Nack, Q!Reject, Reading, Wrote, Used
  <2> QED
    BY <2>2, <2>4, QueueSteps
<1>6. ASSUME NEW s \in Waiters, Write(s) PROVE Q!Next
  <2> DEFINE x == Having(s)
  <2>1. consumer[s] = "writing"
    BY <1>6 DEF Write
  <2>2. x \in Reading /\ x \in Messages \X Groups /\ busy[s] \in Messages
    BY <2>1, InHandOnce DEF Holding, Types, TypeOK
  <2>3. /\ \A t \in Waiters : t # s => consumer'[t] = consumer[t]
        /\ consumer'[s] = "answering" /\ \A t \in Waiters : Having(t)' = Having(t)
    BY <1>6 DEF Write, Types, TypeOK, Having
  <2>4. \A t \in Waiters : t # s /\ consumer[t] \in Holding => Having(t) # x
    BY <2>1 DEF Types, TypeOK, HeldByOne, Holding, Having
  <2>5. Reading' = Reading \ {x} /\ Wrote' = Wrote \union {x}
    BY <2>1, <2>3, <2>4 DEF Reading, Wrote, InHand, Holding
  <2>6. Used' = Used \union {x}
    BY <1>6, <2>2 DEF Write, Used, Having, Types, TypeOK
  <2>7. ASSUME x \in Used, faults = 0 PROVE FALSE
    <3>1. PICK t \in Waiters : Group[t] = Group[s] /\ busy[s] \in answers[t]
      BY <2>7 DEF Used, Having
    <3>2. <<busy[s], Group[s]>> \notin acked
      BY <2>1 DEF Types, TypeOK
    <3>3. consumer[t] = "answering" /\ busy[t] = busy[s]
      BY <2>2, <2>7, <3>1, <3>2 DEF WrittenIsUsed
    <3> QED
      BY <2>1, <2>4, <3>1, <3>3 DEF Holding, Having
  <2>8. x \in Used => faults > 0
    BY <2>7 DEF Types
  <2>9. PICK y \in Messages \X Groups : y = x
    BY <2>2
  <2>10. Q!Use(y)
    BY <1>6, <2>2, <2>5, <2>6, <2>8, <2>9 DEF Write, Q!Use, Q!Usable, Reading, Wrote, Used
  <2> QED
    BY <2>10, QueueSteps
<1>7. ASSUME NEW s \in Waiters, Answer(s) PROVE Q!Next
  <2> DEFINE x == Having(s)
  <2>1. consumer[s] = "answering"
    BY <1>7 DEF Answer
  <2>2. x \in Wrote /\ x \notin Reading /\ x \in Messages \X Groups
    BY <2>1, InHandOnce DEF Holding
  <2>3. /\ \A t \in Waiters : t # s => consumer'[t] = consumer[t] /\ busy'[t] = busy[t]
        /\ consumer'[s] = "idle"
    BY <1>7 DEF Answer, Return, Types, TypeOK
  <2>4. \A t \in Waiters : t # s => Having(t)' = Having(t)
    BY <2>3 DEF Having
  <2>5. \A t \in Waiters : t # s /\ consumer[t] \in Holding => Having(t) # x
    BY <2>1 DEF Types, TypeOK, HeldByOne, Holding, Having
  <2>6. Reading' = Reading /\ Wrote' = Wrote \ {x}
    BY <2>1, <2>3, <2>4, <2>5 DEF Reading, Wrote, InHand, Holding
  <2>7. Q!Ack(x)
    BY <1>7, <2>2, <2>6 DEF Answer, Ack, Having, Q!Ack, Reading, Wrote, Used
  <2> QED
    BY <2>2, <2>7, QueueSteps
<1>8. ASSUME NEW s \in Waiters, TriggerError(s) PROVE Q!Next
  <2>1. consumer[s] \in Holding
    BY <1>8 DEF TriggerError, Holding
  <2>2. Having(s) \in Reading \union Wrote /\ Having(s) \in Messages \X Groups
    BY <2>1, InHandOnce DEF Holding
  <2>3. /\ Reading' = Reading \ {Having(s)} /\ Wrote' = Wrote \ {Having(s)} /\ Used' = Used
        /\ inbox' = inbox \union {Having(s)}
    BY <1>8, <2>1, PutsBack DEF TriggerError, Nack
  <2>4. acked' = acked /\ faults' > 0
    BY <1>8 DEF TriggerError, Nack, Fault, Types
  <2>5. PICK S \in SUBSET (Messages \X Groups) : S = {Having(s)}
    BY <2>2
  <2>6. Q!Fail(S)
    BY <2>2, <2>3, <2>4, <2>5 DEF Q!Fail, Reading, Wrote, Used
  <2> QED
    BY <2>6, QueueSteps
<1>9. ASSUME NEW s \in Waiters, TriggerByHand(s) PROVE UNCHANGED Q!vars
  BY <1>9, NothingMoves DEF TriggerByHand, Used
<1>10. ASSUME NEW s \in Waiters, WriteByHand(s) PROVE UNCHANGED Q!vars
  <2>1. Used' = Used
    BY <1>10, StepConsumerAssumptions DEF WriteByHand, Used, Types, TypeOK
  <2> QED
    BY <1>10, <2>1, NothingMoves DEF WriteByHand
<1>11. ASSUME NEW s \in Waiters, ErrorByHand(s) \/ Break(s) PROVE Q!Next
  <2>1. \A t \in Waiters : consumer'[t] = consumer[t]
          \/ {consumer[t], consumer'[t]} \intersect Holding = {}
    BY <1>11 DEF ErrorByHand, Break, Types, TypeOK, Holding
  <2>2. Reading' = Reading /\ Wrote' = Wrote /\ Used' = Used
    BY <1>11, <2>1 DEF ErrorByHand, Break, Reading, Wrote, InHand, Having, Holding, Used
  <2>3. acked' = acked /\ inbox' = inbox /\ faults' > 0
    BY <1>11 DEF ErrorByHand, Break, Fault, Types
  <2>4. Q!Fail({})
    BY <2>2, <2>3 DEF Q!Fail, Reading, Wrote, Used
  <2> QED
    BY <2>4, QueueSteps
<1>12. ASSUME NEW n \in Nodes, Restart(n) PROVE Q!Next
  <2> DEFINE dying == {s \in Waiters : owner[s] = n}
             lost == {Having(s) : s \in {t \in dying : busy[t] # None}}
  <2>1. /\ \A t \in Waiters \ dying : consumer'[t] = consumer[t] /\ busy'[t] = busy[t]
        /\ \A t \in dying : consumer'[t] = "gone"
    BY <1>12 DEF Restart
  <2>2. \A t \in Waiters \ dying : Having(t)' = Having(t)
    BY <2>1 DEF Having
  <2>3. \A s, t \in Waiters :
          consumer[s] \in Holding /\ consumer[t] \in Holding /\ Having(s) = Having(t) => s = t
    BY DEF Types, TypeOK, HeldByOne, Holding, Having
  <2>4. \A t \in Waiters : busy[t] # None <=> consumer[t] \in Holding
    BY DEF Types, TypeOK, Holding
  <2>5. Reading' = Reading \ lost /\ Wrote' = Wrote \ lost
    BY <2>1, <2>2, <2>3, <2>4 DEF Reading, Wrote, InHand, Holding
  <2>6. lost \subseteq Reading \union Wrote /\ lost \subseteq Messages \X Groups
    BY <2>4, InHandOnce DEF Holding
  <2>7. inbox' = inbox \union lost /\ acked' = acked /\ Used' = Used /\ faults' > 0
    BY <1>12 DEF Restart, Redeliver, Fault, Having, Used, Types
  <2>8. PICK S \in SUBSET (Messages \X Groups) : S = lost
    BY <2>6
  <2>9. Q!Fail(S)
    BY <2>5, <2>6, <2>7, <2>8 DEF Q!Fail, Reading, Wrote, Used
  <2> QED
    BY <2>9, QueueSteps
<1>13. CASE UNCHANGED vars
  BY <1>13 DEF vars, Q!vars, InHand, Having
<1> QED
  BY <1>1, <1>2, <1>3, <1>4, <1>5, <1>6, <1>7, <1>8, <1>9, <1>10, <1>11, <1>12, <1>13
     DEF Next, Callback

\* The consumers of steps deliver at least once (Watch, and the callback of
\* Consume).
THEOREM Refinement == Spec => DeliversAtLeastOnce
<1>1. Init => Q!Init
  BY StepConsumerAssumptions DEF Init, Q!Init, InHand
<1>2. CInv /\ [Next]_vars => [Q!Next]_Q!vars
  BY ImplementsStep
<1> QED
  BY <1>1, <1>2, Invariance, PTL DEF Spec, DeliversAtLeastOnce, Q!Spec

=============================================================================
