-------------------------- MODULE CronFiringProofs --------------------------
(***************************************************************************)
(* The safety properties of CronFiring, for any number of nodes, triggers, *)
(* reloads and faults, and any clocks that differ by Spread at most.       *)
(***************************************************************************)
EXTENDS CronFiring, TLAPS

-----------------------------------------------------------------------------
\* The inductive invariant

\* A list has the schedule s at index idx.
Names(idx, s) == \E l \in Lists : idx + 1 \in DOMAIN l /\ l[idx + 1] = s

Firing(j) == <<j.schedule, j.at>>

\* The jobs that won the lock.
Starting == {j \in jobs : j.stage = "start"}

\* Some job has the lock of the firing f, or had it and started an instance.
Taken(f) == started[f] > 0 \/ \E j \in Starting : Firing(j) = f

BoundsRespected ==
    /\ \A n \in Nodes : gen[n] <= 1 + syncs + faults
    /\ syncs \in 0 .. MaxSyncs /\ faults \in 0 .. MaxFaults

\* Jobs are those of fired triggers, at the index some list has them at.
JobsSound ==
    \A j \in jobs :
        /\ Firing(j) \in fired
        /\ Names(j.idx, j.schedule)

\* The database's clock is not further ahead than Spread.
InTime ==
    /\ \A n \in Nodes : now <= clock[n] + Spread
    /\ \A j \in jobs : now <= j.at + Spread

\* A firing is taken once ...
TakenOnce ==
    \A f \in (Schedules \X Times) \ misread :
        /\ started[f] <= 1
        /\ \A j \in Starting : Firing(j) = f => started[f] = 0
        /\ \A i, j \in Starting : (Firing(i) = f /\ Firing(j) = f) => i = j

\* ... and its lock is there as long as anybody may ask for it.
TakenIsLocked ==
    \A idx \in Indexes, s \in Schedules, b \in Times :
        (Names(idx, s) /\ <<s, b>> \notin misread /\ Taken(<<s, b>>)) =>
            <<idx, b>> \in locks \/ b + Day < now

\* Without faults a lock stands for a firing that is taken.
LockedIsTaken ==
    (faults = 0 /\ misread = {}) =>
        \A x \in locks : \E s \in Schedules : Names(x[1], s) /\ Taken(<<s, x[2]>>)

FInv ==
    /\ TypeOK
    /\ BoundsRespected
    /\ JobsSound
    /\ InTime
    /\ Steady => TakenOnce /\ TakenIsLocked /\ LockedIsTaken /\ FiringsUsed

-----------------------------------------------------------------------------
\* Trigger lists

\* A list has two triggers at most.
LEMMA ListShape ==
    ASSUME NEW l \in Lists, NEW i \in DOMAIN l
    PROVE  i \in 1 .. 2 /\ i - 1 \in Indexes /\ l[i] \in Schedules
<1>1. PICK k \in 0 .. 2 : l \in [1 .. k -> Schedules]
  BY CronAssumptions
<1> QED
  BY <1>1 DEF Indexes

\* If lists only grow and shrink at the end, an index and a schedule determine
\* each other, whatever list a node has.
LEMMA IndexIsSchedule ==
    ASSUME Steady, NEW i \in Indexes, NEW k \in Indexes, NEW s, NEW t, Names(i, s), Names(k, t)
    PROVE  i = k <=> s = t
<1>1. PICK l \in Lists : i + 1 \in DOMAIN l /\ l[i + 1] = s
  BY DEF Names
<1>2. PICK m \in Lists : k + 1 \in DOMAIN m /\ m[k + 1] = t
  BY DEF Names
<1>3. PICK a \in 0 .. 2 : DOMAIN l = 1 .. a
  BY CronAssumptions
<1>4. PICK b \in 0 .. 2 : DOMAIN m = 1 .. b
  BY CronAssumptions
<1>5. i + 1 \in DOMAIN m \/ k + 1 \in DOMAIN l
  BY <1>1, <1>2, <1>3, <1>4 DEF Indexes
<1>6. CASE i + 1 \in DOMAIN m
  <2>1. m[i + 1] = s
    BY <1>1, <1>6 DEF Steady
  <2> QED
    BY <1>2, <1>6, <2>1 DEF Steady, Indexes
<1>7. CASE k + 1 \in DOMAIN l
  <2>1. l[k + 1] = t
    BY <1>2, <1>7 DEF Steady
  <2> QED
    BY <1>1, <1>7, <2>1 DEF Steady, Indexes
<1> QED
  BY <1>5, <1>6, <1>7

\* Nobody has won the lock of a firing if a job that knows its boundary finds the
\* lock free, or old enough to be pruned.
LEMMA LockFreeIsUntaken ==
    ASSUME Steady, TypeOK, JobsSound, InTime, TakenIsLocked, NEW j \in jobs,
           j.stage = "lock", Firing(j) \notin misread, LockOf(j) \notin locks \/ Old(j.key)
    PROVE  ~Taken(Firing(j))
<1>1. /\ j.key = j.at /\ j.at \in Nat /\ now \in Nat /\ j.at \in Times
      /\ j.idx \in Indexes /\ j.schedule \in Schedules
  BY DEF TypeOK, Jobs, Firing, Times
<1>2. ~Old(j.key)
  <2>1. now <= j.at + Spread /\ Day >= Spread
    BY DEF InTime, Steady
  <2> QED
    BY <1>1, <2>1, CronAssumptions DEF Old
<1>3. Names(j.idx, j.schedule)
  BY DEF JobsSound
<1> QED
  BY <1>1, <1>2, <1>3 DEF TakenIsLocked, LockOf, Old, Firing

-----------------------------------------------------------------------------
\* The invariant holds initially

LEMMA FInvInit == Init => FInv
<1> SUFFICES ASSUME Init PROVE FInv
  OBVIOUS
<1> USE CronAssumptions DEF Init
<1>1. TypeOK
  BY DEF TypeOK, Times, Zero
<1>2. BoundsRespected /\ JobsSound /\ InTime
  BY DEF BoundsRespected, JobsSound, InTime
<1>3. TakenOnce /\ TakenIsLocked /\ LockedIsTaken /\ FiringsUsed
  BY DEF TakenOnce, TakenIsLocked, LockedIsTaken, FiringsUsed, Taken, Starting
<1> QED
  BY <1>1, <1>2, <1>3 DEF FInv

-----------------------------------------------------------------------------
\* ... and every step keeps it, conjunct by conjunct

\* Every registration of a node is counted as a Sync or as a fault.
LEMMA BoundsRespectedKept ==
    ASSUME TypeOK, BoundsRespected, [Next]_vars
    PROVE  BoundsRespected'
<1>1. ASSUME NEW n \in Nodes, NEW l \in Lists, Sync(n, l) PROVE BoundsRespected'
  BY <1>1, CronAssumptions DEF Sync, MayPass, BoundsRespected, TypeOK
<1>2. ASSUME NEW n \in Nodes, Restart(n) PROVE BoundsRespected'
  BY <1>2, CronAssumptions DEF Restart, BoundsRespected, TypeOK
<1>3. ASSUME NEW j \in jobs, JobFails(j) PROVE BoundsRespected'
  BY <1>3, CronAssumptions DEF JobFails, cron, BoundsRespected, TypeOK
<1>4. CASE Tick \/ (\E n \in Nodes : Boundary(n)) \/ (\E j \in jobs : ReadPrev(j))
             \/ (\E j \in jobs : TryAcquireCronLock(j))
             \/ (\E j \in jobs : StartInstance(j))
  BY <1>4, CronAssumptions DEF Tick, cron, Boundary, MayPass, ReadPrev, TryAcquireCronLock,
     StartInstance, BoundsRespected, TypeOK
<1>5. CASE UNCHANGED vars
  BY <1>5, CronAssumptions DEF vars, cron, BoundsRespected, TypeOK
<1> QED
  BY <1>1, <1>2, <1>3, <1>4, <1>5 DEF Next

\* Every step keeps the types; a job takes the boundary it was started for as
\* its key, or its firing is misread.
LEMMA TypesKept ==
    ASSUME TypeOK, BoundsRespected, JobsSound, [Next]_vars
    PROVE  TypeOK'
<1>1. CASE Tick
  BY <1>1, CronAssumptions DEF Tick, cron, TypeOK, Jobs, Times, Indexes
<1>2. ASSUME NEW n \in Nodes, Boundary(n) PROVE TypeOK'
  <2>1. /\ clock'[n] \in Times
        /\ clock' \in [Nodes -> Times] /\ prev' \in [Nodes -> Times]
    BY <1>2, CronAssumptions DEF Boundary, MayPass, TypeOK, Times
  <2>2. \A i \in DOMAIN list[n] : i - 1 \in Indexes /\ list[n][i] \in Schedules
    BY ListShape DEF TypeOK
  <2>3. jobs' \subseteq Jobs
    <3>1. gen[n] \in 1 .. MaxSyncs + MaxFaults + 1 /\ Zero \in Times
      BY CronAssumptions DEF TypeOK, Times, Zero
    <3>2. \A i \in DOMAIN list[n] :
            [node |-> n, gen |-> gen[n], idx |-> i - 1, schedule |-> list[n][i],
             at |-> clock'[n], stage |-> "read", key |-> Zero] \in Jobs
      BY <2>1, <2>2, <3>1 DEF Jobs
    <3> QED
      BY <1>2, <3>2 DEF Boundary, TypeOK
  <2>4. fired \subseteq fired' /\ fired' \subseteq Schedules \X Times
    BY <1>2, <2>1, <2>2 DEF Boundary, TypeOK
  <2>5. \A j \in jobs' : j.stage # "read" => j \in jobs
    BY <1>2 DEF Boundary
  <2> QED
    BY <1>2, <2>1, <2>3, <2>4, <2>5 DEF Boundary, TypeOK
<1>3. ASSUME NEW n \in Nodes, NEW l \in Lists, Sync(n, l) PROVE TypeOK'
  <2>1. clock' \in [Nodes -> Times]
    <3>1. CASE clock' = clock
      BY <3>1 DEF TypeOK
    <3>2. CASE MayPass(n) /\ clock' = [clock EXCEPT ![n] = @ + 1]
      <4>1. clock[n] + 1 \in Times
        BY <3>2, CronAssumptions DEF MayPass, TypeOK, Times
      <4> QED
        BY <3>2, <4>1 DEF TypeOK
    <3> QED
      BY <1>3, <3>1, <3>2 DEF Sync
  <2>2. prev' \in [Nodes -> Times] /\ list' \in [Nodes -> Lists]
    BY <1>3, CronAssumptions DEF Sync, TypeOK, Times, Zero
  <2>3. gen[n] + 1 \in 1 .. MaxSyncs + MaxFaults + 1
    BY <1>3, CronAssumptions DEF Sync, TypeOK, BoundsRespected
  <2>4. gen' \in [Nodes -> 1 .. MaxSyncs + MaxFaults + 1]
    BY <1>3, <2>3 DEF Sync, TypeOK
  <2> QED
    BY <1>3, <2>1, <2>2, <2>4 DEF Sync, TypeOK
<1>4. ASSUME NEW n \in Nodes, Restart(n) PROVE TypeOK'
  <2>1. prev' \in [Nodes -> Times]
    BY <1>4, CronAssumptions DEF Restart, TypeOK, Times, Zero
  <2>2. gen[n] + 1 \in 1 .. MaxSyncs + MaxFaults + 1
    BY <1>4, CronAssumptions DEF Restart, TypeOK, BoundsRespected
  <2>3. gen' \in [Nodes -> 1 .. MaxSyncs + MaxFaults + 1]
    BY <1>4, <2>2 DEF Restart, TypeOK
  <2> QED
    BY <1>4, <2>1, <2>3 DEF Restart, TypeOK
<1>5. ASSUME NEW j \in jobs, ReadPrev(j) PROVE TypeOK'
  <2>1. EntryPrev(j) \in Times
    BY CronAssumptions DEF EntryPrev, TypeOK, Jobs, Times, Zero
  <2> DEFINE i == [j EXCEPT !.stage = "lock", !.key = EntryPrev(j)]
  <2>2. /\ i \in Jobs /\ i.key = EntryPrev(j)
        /\ i.schedule = j.schedule /\ i.at = j.at
    BY <2>1 DEF TypeOK, Jobs
  <2>3. jobs' = (jobs \ {j}) \union {i}
    BY <1>5 DEF ReadPrev
  <2>4. <<j.schedule, j.at>> \in fired
    BY DEF JobsSound, Firing
  <2>5. misread \subseteq misread' /\ misread' \subseteq fired'
    BY <1>5, <2>4 DEF ReadPrev, TypeOK
  <2>6. i.key = i.at \/ <<i.schedule, i.at>> \in misread'
    BY <1>5, <2>2 DEF ReadPrev
  <2> HIDE DEF i
  <2> QED
    BY <1>5, <2>2, <2>3, <2>5, <2>6 DEF ReadPrev, cron, TypeOK
<1>6. ASSUME NEW j \in jobs, TryAcquireCronLock(j) PROVE TypeOK'
  <2> DEFINE i == [j EXCEPT !.stage = "start"]
  <2>1. /\ i \in Jobs /\ i.key = j.key /\ i.schedule = j.schedule /\ i.at = j.at
        /\ LockOf(j) \in Indexes \X Times
    BY DEF TypeOK, Jobs, LockOf
  <2>2. jobs' \subseteq jobs \union {i}
    BY <1>6 DEF TryAcquireCronLock
  <2>3. locks' \subseteq locks \union {LockOf(j)}
    BY <1>6 DEF TryAcquireCronLock, Pruned
  <2>4. j.stage # "read"
    BY <1>6 DEF TryAcquireCronLock
  <2> HIDE DEF i
  <2> QED
    BY <1>6, <2>1, <2>2, <2>3, <2>4 DEF TryAcquireCronLock, cron, TypeOK
<1>7. ASSUME NEW j \in jobs, StartInstance(j) PROVE TypeOK'
  BY <1>7, CronAssumptions DEF StartInstance, cron, TypeOK, Jobs, Times, Indexes
<1>8. ASSUME NEW j \in jobs, JobFails(j) PROVE TypeOK'
  <2>1. started' \in [Schedules \X Times -> Nat]
    BY <1>8 DEF JobFails, TypeOK, Jobs
  <2> QED
    BY <1>8, <2>1 DEF JobFails, cron, TypeOK
<1>9. CASE UNCHANGED vars
  BY <1>9, CronAssumptions DEF vars, cron, TypeOK, Jobs, Times, Indexes
<1> QED
  BY <1>1, <1>2, <1>3, <1>4, <1>5, <1>6, <1>7, <1>8, <1>9 DEF Next

\* A job is started for a trigger of a list, and stays what it was started
\* for.
LEMMA JobsSoundKept ==
    ASSUME TypeOK, JobsSound, [Next]_vars
    PROVE  JobsSound'
<1>1. ASSUME NEW n \in Nodes, Boundary(n) PROVE JobsSound'
  <2> SUFFICES ASSUME NEW j \in jobs' PROVE Firing(j) \in fired' /\ Names(j.idx, j.schedule)
    BY DEF JobsSound, Names
  <2>1. CASE j \in jobs
    BY <1>1, <2>1 DEF Boundary, JobsSound
  <2>2. CASE j \notin jobs
    <3>1. PICK i \in DOMAIN list[n] :
            j.idx = i - 1 /\ j.schedule = list[n][i] /\ j.at = clock'[n]
      BY <1>1, <2>2 DEF Boundary
    <3>2. list[n] \in Lists /\ (i - 1) + 1 = i
      BY <3>1, ListShape DEF TypeOK
    <3> QED
      BY <1>1, <3>1, <3>2 DEF Boundary, Firing, Names
  <2> QED
    BY <2>1, <2>2
<1>2. ASSUME NEW n \in Nodes, Restart(n) PROVE JobsSound'
  BY <1>2, CronAssumptions DEF Restart, JobsSound, TypeOK, Jobs, Firing, Names, Indexes
<1>3. ASSUME NEW j \in jobs, ReadPrev(j) PROVE JobsSound'
  BY <1>3, CronAssumptions DEF ReadPrev, cron, JobsSound, TypeOK, Jobs, Firing, Names,
     Indexes
<1>4. ASSUME NEW j \in jobs, TryAcquireCronLock(j) PROVE JobsSound'
  BY <1>4, CronAssumptions DEF TryAcquireCronLock, cron, JobsSound, TypeOK, Jobs, Firing,
     Names, Indexes
<1>5. ASSUME NEW j \in jobs, StartInstance(j) PROVE JobsSound'
  BY <1>5, CronAssumptions DEF StartInstance, cron, JobsSound, TypeOK, Jobs, Firing, Names,
     Indexes
<1>6. ASSUME NEW j \in jobs, JobFails(j) PROVE JobsSound'
  BY <1>6, CronAssumptions DEF JobFails, cron, JobsSound, TypeOK, Jobs, Firing, Names,
     Indexes
<1>7. CASE Tick \/ (\E n \in Nodes, l \in Lists : Sync(n, l))
  BY <1>7, CronAssumptions DEF Tick, cron, Sync, MayPass, JobsSound, TypeOK, Jobs, Firing,
     Names, Indexes
<1>8. CASE UNCHANGED vars
  BY <1>8, CronAssumptions DEF vars, cron, JobsSound, TypeOK, Jobs, Firing, Names, Indexes
<1> QED
  BY <1>1, <1>2, <1>3, <1>4, <1>5, <1>6, <1>7, <1>8 DEF Next

\* The database's clock waits for nodes and jobs that are late.
LEMMA InTimeKept ==
    ASSUME TypeOK, InTime, [Next]_vars
    PROVE  InTime'
<1>1. CASE Tick
  BY <1>1, CronAssumptions DEF Tick, cron, InTime, TypeOK, Jobs, Times
<1>2. ASSUME NEW n \in Nodes, Boundary(n) PROVE InTime'
  BY <1>2, CronAssumptions DEF Boundary, MayPass, InTime, TypeOK, Jobs, Times
<1>3. ASSUME NEW n \in Nodes, NEW l \in Lists, Sync(n, l) PROVE InTime'
  <2>1. \A m \in Nodes : clock'[m] \in Nat /\ clock[m] \in Nat /\ clock'[m] >= clock[m]
    BY <1>3 DEF Sync, TypeOK, Times
  <2>2. UNCHANGED <<now, jobs>> /\ now \in Nat
    BY <1>3 DEF Sync, TypeOK, Times
  <2>3. ASSUME NEW m \in Nodes PROVE now <= clock'[m] + Spread
    <3>1. now <= clock[m] + Spread
      BY DEF InTime
    <3> QED
      BY <2>1, <2>2, <3>1, CronAssumptions
  <2> QED
    BY <2>2, <2>3 DEF InTime
<1>4. ASSUME NEW n \in Nodes, Restart(n) PROVE InTime'
  BY <1>4, CronAssumptions DEF Restart, InTime, TypeOK, Jobs, Times
<1>5. ASSUME NEW j \in jobs, ReadPrev(j) PROVE InTime'
  BY <1>5, CronAssumptions DEF ReadPrev, cron, InTime, TypeOK, Jobs, Times
<1>6. ASSUME NEW j \in jobs, TryAcquireCronLock(j) PROVE InTime'
  BY <1>6, CronAssumptions DEF TryAcquireCronLock, cron, InTime, TypeOK, Jobs, Times
<1>7. ASSUME NEW j \in jobs, StartInstance(j) PROVE InTime'
  BY <1>7, CronAssumptions DEF StartInstance, cron, InTime, TypeOK, Jobs, Times
<1>8. ASSUME NEW j \in jobs, JobFails(j) PROVE InTime'
  BY <1>8, CronAssumptions DEF JobFails, cron, InTime, TypeOK, Jobs, Times
<1>9. CASE UNCHANGED vars
  BY <1>9, CronAssumptions DEF vars, cron, InTime, TypeOK, Jobs, Times
<1> QED
  BY <1>1, <1>2, <1>3, <1>4, <1>5, <1>6, <1>7, <1>8, <1>9 DEF Next

\* A job wins the lock only if no job of its firing has won before.
LEMMA TakenOnceKept ==
    ASSUME Steady, TypeOK, JobsSound, InTime, TakenOnce, TakenIsLocked, [Next]_vars
    PROVE  TakenOnce'
<1>1. ASSUME NEW n \in Nodes, Boundary(n) PROVE TakenOnce'
  BY <1>1 DEF Boundary, MayPass, TakenOnce, TypeOK, Jobs, Starting, Firing
<1>2. ASSUME NEW n \in Nodes, Restart(n) PROVE TakenOnce'
  BY <1>2 DEF Restart, TakenOnce, TypeOK, Jobs, Starting, Firing
<1>3. ASSUME NEW j \in jobs, ReadPrev(j) PROVE TakenOnce'
  <2>1. Starting' = Starting
    <3>1. [j EXCEPT !.stage = "lock", !.key = EntryPrev(j)].stage = "lock"
      BY DEF TypeOK, Jobs
    <3> QED
      BY <1>3, <3>1 DEF ReadPrev, Starting
  <2>2. started' = started /\ misread \subseteq misread'
    BY <1>3 DEF ReadPrev
  <2> QED
    BY <2>1, <2>2 DEF TakenOnce, Firing
<1>4. ASSUME NEW j \in jobs, TryAcquireCronLock(j) PROVE TakenOnce'
  <2> DEFINE i == [j EXCEPT !.stage = "start"]
  <2>1. Firing(i) = Firing(j) /\ Firing(j) \in Schedules \X Times
    BY DEF TypeOK, Jobs, Firing
  <2>2. UNCHANGED <<started, misread>>
    BY <1>4 DEF TryAcquireCronLock
  <2>3. CASE Starting' \subseteq Starting
    BY <2>2, <2>3 DEF TakenOnce, Firing
  <2>4. CASE /\ LockOf(j) \notin locks \/ Old(j.key)
             /\ jobs' = (jobs \ {j}) \union {i}
    <3>1. Starting' \subseteq Starting \union {i}
      BY <2>4 DEF Starting
    <3>2. CASE Firing(j) \in misread
      BY <2>1, <2>2, <3>1, <3>2 DEF TakenOnce, Firing
    <3>3. CASE Firing(j) \notin misread
      <4>1. ~Taken(Firing(j))
        BY <1>4, <2>4, <3>3, LockFreeIsUntaken DEF TryAcquireCronLock
      <4>2. started[Firing(j)] = 0
        BY <2>1, <4>1 DEF Taken, TypeOK
      <4>3. \A k \in Starting : Firing(k) # Firing(j)
        BY <4>1 DEF Taken
      <4> HIDE DEF i
      <4> QED
        BY <2>1, <2>2, <3>1, <4>2, <4>3 DEF TakenOnce, Firing
    <3> QED
      BY <3>2, <3>3
  <2> QED
    BY <1>4, <2>3, <2>4 DEF TryAcquireCronLock, Starting
<1>5. ASSUME NEW j \in jobs, StartInstance(j) PROVE TakenOnce'
  BY <1>5 DEF StartInstance, cron, TakenOnce, TypeOK, Jobs, Starting, Firing
<1>6. ASSUME NEW j \in jobs, JobFails(j) PROVE TakenOnce'
  BY <1>6 DEF JobFails, cron, TakenOnce, TypeOK, Jobs, Starting, Firing
<1>7. CASE Tick \/ (\E n \in Nodes, l \in Lists : Sync(n, l))
  BY <1>7 DEF Tick, cron, Sync, MayPass, TakenOnce, TypeOK, Jobs, Starting, Firing
<1>8. CASE UNCHANGED vars
  BY <1>8 DEF vars, cron, TakenOnce, TypeOK, Jobs, Starting, Firing
<1> QED
  BY <1>1, <1>2, <1>3, <1>4, <1>5, <1>6, <1>7, <1>8 DEF Next

\* A lock that is pruned is one that nobody asks for any more.
LEMMA TakenIsLockedKept ==
    ASSUME Steady, TypeOK, JobsSound, TakenIsLocked, [Next]_vars
    PROVE  TakenIsLocked'
<1>1. CASE Tick
  <2>1. now \in Nat /\ now' = now + 1
    BY <1>1 DEF Tick, TypeOK, Times
  <2>2. \A b \in Times : b + Day < now => b + Day < now'
    BY <2>1, CronAssumptions DEF Times
  <2> QED
    BY <1>1, <2>2 DEF Tick, TakenIsLocked, Taken, Starting, Names
<1>2. ASSUME NEW n \in Nodes, Boundary(n) PROVE TakenIsLocked'
  BY <1>2 DEF Boundary, MayPass, TakenIsLocked, Taken, Starting, Firing, TypeOK, Jobs
<1>3. ASSUME NEW n \in Nodes, Restart(n) PROVE TakenIsLocked'
  BY <1>3 DEF Restart, TakenIsLocked, Taken, Starting, Firing, TypeOK, Jobs
<1>4. ASSUME NEW j \in jobs, ReadPrev(j) PROVE TakenIsLocked'
  BY <1>4 DEF ReadPrev, cron, TakenIsLocked, Taken, Starting, Firing, TypeOK, Jobs
<1>5. ASSUME NEW j \in jobs, TryAcquireCronLock(j) PROVE TakenIsLocked'
  <2> SUFFICES ASSUME NEW idx \in Indexes, NEW s \in Schedules, NEW b \in Times,
                      Names(idx, s), <<s, b>> \notin misread', Taken(<<s, b>>)'
               PROVE  <<idx, b>> \in locks' \/ b + Day < now'
    BY DEF TakenIsLocked, Names
  <2>1. UNCHANGED <<started, misread, now>>
    BY <1>5 DEF TryAcquireCronLock
  <2>2. CASE Taken(<<s, b>>)
    <3>1. <<idx, b>> \in locks \/ b + Day < now
      BY <2>1, <2>2 DEF TakenIsLocked
    <3>2. Pruned(j.idx) \subseteq locks'
      BY <1>5 DEF TryAcquireCronLock
    <3> QED
      BY <2>1, <3>1, <3>2 DEF Pruned, Old
  <2>3. CASE ~Taken(<<s, b>>)
    <3>1. PICK i \in Starting' : i \notin Starting /\ Firing(i) = <<s, b>>
      BY <2>1, <2>3 DEF Taken
    <3>2. /\ i = [j EXCEPT !.stage = "start"]
          /\ locks' = Pruned(j.idx) \union {LockOf(j)} /\ j.stage = "lock"
      BY <1>5, <3>1 DEF TryAcquireCronLock, Starting
    <3>3. j.schedule = s /\ j.at = b
      BY <3>1, <3>2 DEF Firing, TypeOK, Jobs
    <3>4. j.key = b
      BY <2>1, <3>2, <3>3 DEF TypeOK
    <3>5. j.idx = idx
      <4>1. Names(j.idx, s) /\ j.idx \in Indexes
        BY <3>3 DEF JobsSound, TypeOK, Jobs
      <4> QED
        BY <4>1, IndexIsSchedule
    <3> QED
      BY <3>2, <3>4, <3>5 DEF LockOf
  <2> QED
    BY <2>2, <2>3
<1>6. ASSUME NEW j \in jobs, StartInstance(j) PROVE TakenIsLocked'
  BY <1>6 DEF StartInstance, cron, TakenIsLocked, Taken, Starting, Firing, TypeOK, Jobs
<1>7. ASSUME NEW j \in jobs, JobFails(j) PROVE TakenIsLocked'
  BY <1>7 DEF JobFails, cron, TakenIsLocked, Taken, Starting, Firing, TypeOK, Jobs
<1>8. CASE (\E n \in Nodes, l \in Lists : Sync(n, l))
  BY <1>8 DEF Sync, MayPass, TakenIsLocked, Taken, Starting, Firing, TypeOK, Jobs
<1>9. CASE UNCHANGED vars
  BY <1>9 DEF vars, cron, TakenIsLocked, Taken, Starting, Firing, TypeOK, Jobs
<1> QED
  BY <1>1, <1>2, <1>3, <1>4, <1>5, <1>6, <1>7, <1>8, <1>9 DEF Next

\* Without faults a job that won the lock starts its instance.
LEMMA LockedIsTakenKept ==
    ASSUME TypeOK, BoundsRespected, JobsSound, LockedIsTaken, [Next]_vars
    PROVE  LockedIsTaken'
<1>1. ASSUME NEW n \in Nodes, Boundary(n) PROVE LockedIsTaken'
  BY <1>1 DEF Boundary, MayPass, LockedIsTaken, Taken, Starting, Firing, TypeOK, Jobs
<1>2. ASSUME NEW n \in Nodes, Restart(n) PROVE LockedIsTaken'
  <2>1. faults' # 0
    BY <1>2 DEF Restart, BoundsRespected
  <2> QED
    BY <2>1 DEF LockedIsTaken
<1>3. ASSUME NEW j \in jobs, ReadPrev(j) PROVE LockedIsTaken'
  <2>1. Starting' = Starting
    <3>1. [j EXCEPT !.stage = "lock", !.key = EntryPrev(j)].stage = "lock"
      BY DEF TypeOK, Jobs
    <3> QED
      BY <1>3, <3>1 DEF ReadPrev, Starting
  <2>2. UNCHANGED <<started, locks, faults>> /\ misread \subseteq misread'
    BY <1>3 DEF ReadPrev
  <2> QED
    BY <2>1, <2>2 DEF LockedIsTaken, Taken, Names, Firing
<1>4. ASSUME NEW j \in jobs, TryAcquireCronLock(j) PROVE LockedIsTaken'
  <2> SUFFICES ASSUME faults = 0, misread = {}, NEW x \in locks'
               PROVE  \E s \in Schedules : Names(x[1], s) /\ Taken(<<s, x[2]>>)'
    BY <1>4 DEF TryAcquireCronLock, LockedIsTaken, Names
  <2>1. started' = started /\ Starting \subseteq Starting'
    BY <1>4 DEF TryAcquireCronLock, Starting
  <2>2. CASE x \in locks
    BY <2>1, <2>2 DEF LockedIsTaken, Taken, Firing
  <2>3. CASE x \notin locks
    <3> DEFINE i == [j EXCEPT !.stage = "start"]
    <3>1. x = LockOf(j) /\ i \in jobs'
      BY <1>4, <2>3 DEF TryAcquireCronLock, Pruned
    <3>2. i \in Starting' /\ Firing(i) = <<j.schedule, j.at>>
      BY <3>1 DEF Starting, Firing, TypeOK, Jobs
    <3>3. x[1] = j.idx /\ x[2] = j.at
      BY <1>4, <3>1 DEF TryAcquireCronLock, LockOf, TypeOK
    <3>4. j.schedule \in Schedules /\ Names(j.idx, j.schedule)
      BY DEF JobsSound, TypeOK, Jobs
    <3>5. Taken(<<j.schedule, j.at>>)'
      BY <3>2 DEF Taken, Firing
    <3> QED
      BY <3>3, <3>4, <3>5
  <2> QED
    BY <2>2, <2>3
<1>5. ASSUME NEW j \in jobs, StartInstance(j) PROVE LockedIsTaken'
  <2>1. \A f \in Schedules \X Times : Taken(f) => Taken(f)'
    <3> SUFFICES ASSUME NEW f \in Schedules \X Times, Taken(f) PROVE Taken(f)'
      OBVIOUS
    <3>1. CASE f = Firing(j)
      BY <1>5, <3>1 DEF StartInstance, Taken, Firing, TypeOK
    <3>2. CASE f # Firing(j)
      BY <1>5, <3>2 DEF StartInstance, Taken, Starting, Firing, TypeOK
    <3> QED
      BY <3>1, <3>2
  <2> QED
    BY <1>5, <2>1 DEF StartInstance, LockedIsTaken, Names, TypeOK
<1>6. ASSUME NEW j \in jobs, JobFails(j) PROVE LockedIsTaken'
  <2>1. faults' # 0
    BY <1>6 DEF JobFails, BoundsRespected
  <2> QED
    BY <2>1 DEF LockedIsTaken
<1>7. CASE Tick \/ (\E n \in Nodes, l \in Lists : Sync(n, l))
  BY <1>7 DEF Tick, cron, Sync, MayPass, LockedIsTaken, Taken, Starting, Firing, TypeOK,
     Jobs
<1>8. CASE UNCHANGED vars
  BY <1>8 DEF vars, cron, LockedIsTaken, Taken, Starting, Firing, TypeOK, Jobs
<1> QED
  BY <1>1, <1>2, <1>3, <1>4, <1>5, <1>6, <1>7, <1>8 DEF Next

\* Without faults a job gives way only to one of its own firing.
LEMMA FiringsUsedKept ==
    ASSUME Steady, TypeOK, BoundsRespected, JobsSound, TakenOnce, LockedIsTaken,
           FiringsUsed, [Next]_vars
    PROVE  FiringsUsed'
<1>1. ASSUME NEW n \in Nodes, Boundary(n) PROVE FiringsUsed'
  <2>1. jobs \subseteq jobs' /\ UNCHANGED <<started, faults, misread>>
    BY <1>1 DEF Boundary
  <2>2. ASSUME NEW f \in fired', f \notin fired
        PROVE  \E j \in jobs' : <<j.schedule, j.at>> = f
    <3>1. PICK i \in DOMAIN list[n] : f = <<list[n][i], clock'[n]>>
      BY <1>1, <2>2 DEF Boundary
    <3> DEFINE j == [node |-> n, gen |-> gen[n], idx |-> i - 1, schedule |-> list[n][i],
                     at |-> clock'[n], stage |-> "read", key |-> Zero]
    <3>2. j \in jobs'
      BY <1>1 DEF Boundary
    <3> QED
      BY <3>1, <3>2
  <2> QED
    BY <2>1, <2>2 DEF FiringsUsed, Steady
<1>2. ASSUME NEW n \in Nodes, Restart(n) PROVE FiringsUsed'
  <2>1. faults' # 0
    BY <1>2 DEF Restart, BoundsRespected
  <2> QED
    BY <2>1 DEF FiringsUsed
<1>3. ASSUME NEW j \in jobs, ReadPrev(j) PROVE FiringsUsed'
  <2> DEFINE i == [j EXCEPT !.stage = "lock", !.key = EntryPrev(j)]
  <2>1. i.schedule = j.schedule /\ i.at = j.at
    BY DEF TypeOK, Jobs
  <2>2. jobs' = (jobs \ {j}) \union {i}
    BY <1>3 DEF ReadPrev
  <2>3. UNCHANGED <<fired, started, faults>> /\ misread \subseteq misread'
    BY <1>3 DEF ReadPrev
  <2> HIDE DEF i
  <2>4. \A f : (\E k \in jobs : <<k.schedule, k.at>> = f)
                 => \E k \in jobs' : <<k.schedule, k.at>> = f
    BY <2>1, <2>2
  <2> QED
    BY <2>3, <2>4 DEF FiringsUsed, Steady
<1>4. ASSUME NEW j \in jobs, TryAcquireCronLock(j) PROVE FiringsUsed'
  <2> SUFFICES ASSUME faults = 0, misread = {}, NEW f \in fired
               PROVE  started[f] = 1 \/ \E k \in jobs' : <<k.schedule, k.at>> = f
    BY <1>4 DEF TryAcquireCronLock, FiringsUsed, Steady
  <2> DEFINE i == [j EXCEPT !.stage = "start"]
  <2>1. i.schedule = j.schedule /\ i.at = j.at
    BY DEF TypeOK, Jobs
  <2>2. started[f] = 1 \/ \E k \in jobs : <<k.schedule, k.at>> = f
    BY DEF FiringsUsed
  <2>3. CASE jobs' = (jobs \ {j}) \union {i}
    BY <2>1, <2>2, <2>3
  <2>4. CASE LockOf(j) \in locks /\ jobs' = jobs \ {j}
    <3>1. CASE Firing(j) # f
      BY <2>2, <2>4, <3>1 DEF Firing
    <3>2. CASE Firing(j) = f
      <4>1. LockOf(j) = <<j.idx, j.at>>
        BY <1>4 DEF TryAcquireCronLock, TypeOK, LockOf
      <4>2. PICK s \in Schedules : Names(j.idx, s) /\ Taken(<<s, j.at>>)
        BY <2>4, <4>1 DEF LockedIsTaken
      <4>3. j.idx \in Indexes /\ Names(j.idx, j.schedule)
        BY DEF JobsSound, TypeOK, Jobs
      <4>4. Taken(f)
        BY <3>2, <4>2, <4>3, IndexIsSchedule DEF Firing
      <4>5. j \notin Starting
        BY <1>4 DEF TryAcquireCronLock, Starting
      <4>6. CASE started[f] > 0
        BY <4>6 DEF TakenOnce, TypeOK
      <4>7. CASE \E k \in Starting : Firing(k) = f
        BY <2>4, <4>5, <4>7 DEF Starting, Firing
      <4> QED
        BY <4>4, <4>6, <4>7 DEF Taken
    <3> QED
      BY <3>1, <3>2
  <2> QED
    BY <1>4, <2>3, <2>4 DEF TryAcquireCronLock
<1>5. ASSUME NEW j \in jobs, StartInstance(j) PROVE FiringsUsed'
  <2> SUFFICES ASSUME faults = 0, misread = {}, NEW f \in fired
               PROVE  started'[f] = 1 \/ \E k \in jobs' : <<k.schedule, k.at>> = f
    BY <1>5 DEF StartInstance, FiringsUsed, Steady
  <2>1. f \in Schedules \X Times
    BY DEF TypeOK
  <2>2. CASE Firing(j) # f
    <3>1. started'[f] = started[f]
      BY <1>5, <2>1, <2>2 DEF StartInstance, Firing, TypeOK
    <3>2. started[f] = 1 \/ \E k \in jobs : <<k.schedule, k.at>> = f
      BY DEF FiringsUsed
    <3> QED
      BY <1>5, <2>2, <3>1, <3>2 DEF StartInstance, Firing
  <2>3. CASE Firing(j) = f
    <3>1. started[f] = 0
      BY <1>5, <2>1, <2>3 DEF StartInstance, TakenOnce, Starting
    <3> QED
      BY <1>5, <2>1, <2>3, <3>1 DEF StartInstance, Firing, TypeOK
  <2> QED
    BY <2>2, <2>3
<1>6. ASSUME NEW j \in jobs, JobFails(j) PROVE FiringsUsed'
  <2>1. faults' # 0
    BY <1>6 DEF JobFails, BoundsRespected
  <2> QED
    BY <2>1 DEF FiringsUsed
<1>7. CASE Tick \/ (\E n \in Nodes, l \in Lists : Sync(n, l))
  BY <1>7 DEF Tick, cron, Sync, MayPass, FiringsUsed, Firing, TypeOK, Jobs
<1>8. CASE UNCHANGED vars
  BY <1>8 DEF vars, cron, FiringsUsed, Firing, TypeOK, Jobs
<1> QED
  BY <1>1, <1>2, <1>3, <1>4, <1>5, <1>6, <1>7, <1>8 DEF Next

-----------------------------------------------------------------------------
\* The theorems

\* What jobs rely on while clocks differ, entries vanish and locks are pruned.
THEOREM Invariance == Spec => []FInv
<1>1. FInv /\ [Next]_vars => FInv'
  <2> SUFFICES ASSUME FInv, [Next]_vars PROVE FInv'
    OBVIOUS
  <2> QED
    BY BoundsRespectedKept, TypesKept, JobsSoundKept, InTimeKept, TakenOnceKept,
       TakenIsLockedKept, LockedIsTakenKept, FiringsUsedKept DEF FInv
<1> QED
  BY FInvInit, <1>1, PTL DEF Spec

\* The types; and a job whose firing nobody misread has its boundary as its key.
THEOREM TypeCorrect == Spec => []TypeOK
<1>1. FInv => TypeOK
  BY DEF FInv
<1> QED
  BY Invariance, <1>1, PTL

\* A firing whose jobs all read its boundary starts one instance at most, on any
\* number of nodes, whatever fails, and although locks are pruned
\* (TryAcquireCronLock).
THEOREM FiresOnce == Spec => []OncePerFiring
<1>1. FInv => OncePerFiring
  BY DEF FInv, TakenOnce, OncePerFiring, TypeOK
<1> QED
  BY Invariance, <1>1, PTL

\* Without faults no firing is lost to the jobs that compete for it.
THEOREM FiringsAreUsed == Spec => []FiringsUsed
<1>1. FInv => FiringsUsed
  BY DEF FInv, FiringsUsed
<1> QED
  BY Invariance, <1>1, PTL

=============================================================================
