------------------------------ MODULE CronFiring ------------------------------
(***************************************************************************)
(* internal/workflow/cron.go over Repository.TryAcquireCronLock: several   *)
(* nodes run the same cron triggers of a workflow, and a row of cron_locks *)
(* decides which of them starts the instance of a firing.                  *)
(*                                                                         *)
(* Time is counted in schedule boundaries; every node has a clock of its   *)
(* own, and the database a third one.  robfig/cron is external: its run    *)
(* loop sets Entry.Prev of the entries that are due, starts their jobs as  *)
(* goroutines, and answers Entry, Remove and AddFunc between boundaries;   *)
(* Entry of a removed id is the zero Entry.                                *)
(***************************************************************************)
EXTENDS Naturals, Sequences, FiniteSets

CONSTANTS
    Nodes,
    Schedules,      \* what the triggers stand for, whatever their index
    Lists,          \* trigger lists a definition may have
    FirstList,      \* the list all nodes are started with
    Spread,         \* how far clocks and late jobs are behind or ahead of the database
    Day,            \* age at which locks are pruned
    MaxTime, MaxJobs, MaxSyncs, MaxFaults   \* bounds; MaxJobs on jobs at a time

Zero == 0           \* time.Time{}; boundaries are counted from 1
Indexes == 0 .. 1   \* positions in a trigger list

ASSUME CronAssumptions ==
    /\ Lists \subseteq UNION {[1 .. k -> Schedules] : k \in 0 .. 2} /\ FirstList \in Lists
    /\ Spread \in Nat /\ Day \in Nat
    /\ MaxTime \in Nat /\ MaxJobs \in Nat /\ MaxSyncs \in Nat /\ MaxFaults \in Nat

VARIABLES
    now,            \* the database's clock
    clock,          \* the last boundary of each node
    list,           \* node -> the triggers it registered
    gen,            \* node -> how often it registered; entry ids are not used again
    prev,           \* node -> Entry.Prev of the registered entries
    jobs,           \* running job goroutines
    locks,          \* cron_locks: <<trigger_idx, scheduled_at>>
    started,        \* <<schedule, boundary>> -> instances started for it
    fired,          \* <<schedule, boundary>> for which some node ran a job
    misread,        \* those for which some job took another key than the boundary
    syncs, faults

cron == <<clock, list, gen, prev>>
vars == <<now, cron, jobs, locks, started, fired, misread, syncs, faults>>

Times == 0 .. MaxTime

\* A job: the closure of Sync, for the boundary at.
Jobs == [node : Nodes, gen : 1 .. MaxSyncs + MaxFaults + 1, idx : Indexes, schedule : Schedules,
         at : Times, stage : {"read", "lock", "start"}, key : Times]

Init ==
    /\ now = 0
    /\ clock = [n \in Nodes |-> 0]
    /\ list = [n \in Nodes |-> FirstList]
    /\ gen = [n \in Nodes |-> 1]
    /\ prev = [n \in Nodes |-> Zero]
    /\ jobs = {}
    /\ locks = {}
    /\ started = [f \in Schedules \X Times |-> 0]
    /\ fired = {}
    /\ misread = {}
    /\ syncs = 0
    /\ faults = 0

\* The database's clock goes on; nothing is left further behind than Spread.
Tick ==
    /\ now < MaxTime
    /\ \A n \in Nodes : now < clock[n] + Spread
    /\ \A j \in jobs : now < j.at + Spread
    /\ now' = now + 1
    /\ UNCHANGED <<cron, jobs, locks, started, fired, misread, syncs, faults>>

MayPass(n) ==
    /\ clock[n] < MaxTime
    /\ clock[n] < now + Spread

\* A schedule boundary on node n: Prev is set, then the jobs start.
Boundary(n) ==
    /\ MayPass(n)
    /\ Cardinality(jobs) + Len(list[n]) <= MaxJobs
    /\ clock' = [clock EXCEPT ![n] = @ + 1]
    /\ prev' = [prev EXCEPT ![n] = clock'[n]]
    /\ jobs' = jobs \union
         {[node |-> n, gen |-> gen[n], idx |-> i - 1, schedule |-> list[n][i],
           at |-> clock'[n], stage |-> "read", key |-> Zero] : i \in DOMAIN list[n]}
    /\ fired' = fired \union {<<list[n][i], clock'[n]>> : i \in DOMAIN list[n]}
    /\ UNCHANGED <<now, list, gen, locks, started, misread, syncs, faults>>

\* Sync removes all entries and registers those of the new list. The next fire
\* time is computed from the clock: a boundary that passes at that moment is
\* not fired by this node.
Sync(n, l) ==
    /\ syncs < MaxSyncs
    /\ syncs' = syncs + 1
    /\ list' = [list EXCEPT ![n] = l]
    /\ gen' = [gen EXCEPT ![n] = @ + 1]
    /\ prev' = [prev EXCEPT ![n] = Zero]
    /\ \/ clock' = clock
       \/ MayPass(n) /\ clock' = [clock EXCEPT ![n] = @ + 1]
    /\ UNCHANGED <<now, jobs, locks, started, fired, misread, faults>>

-----------------------------------------------------------------------------
\* The job.

EntryPrev(j) == IF j.gen = gen[j.node] THEN prev[j.node] ELSE Zero

\* Prev is that of another boundary if the job is late, and zero if a Sync or
\* the run loop has removed the entry.
ReadPrev(j) ==
    /\ j.stage = "read"
    /\ jobs' = (jobs \ {j}) \union {[j EXCEPT !.stage = "lock", !.key = EntryPrev(j)]}
    /\ misread' = IF EntryPrev(j) = j.at THEN misread
                  ELSE misread \union {<<j.schedule, j.at>>}
    /\ UNCHANGED <<now, cron, locks, started, fired, syncs, faults>>

Old(k) == k + Day < now

\* The locks of the trigger that the cleanup leaves.
Pruned(idx) == {x \in locks : x[1] # idx \/ ~Old(x[2])}

\* Slip: the time of the statement is taken for the time of the firing.
LockOfArrival(j) == <<j.idx, now>>

\* Slip: scheduled_at is left out of the primary key.
LockOfTrigger(j) == <<j.idx, Zero>>

LockOf(j) == <<j.idx, j.key>>

\* TryAcquireCronLock, one statement. Its DELETE and INSERT see one snapshot and
\* run in either order: an old row of the same key is deleted and makes the
\* INSERT fail, or is deleted first.
TryAcquireCronLock(j) ==
    /\ j.stage = "lock"
    /\ \/ /\ LockOf(j) \notin locks \/ Old(j.key)
          /\ locks' = Pruned(j.idx) \union {LockOf(j)}
          /\ jobs' = (jobs \ {j}) \union {[j EXCEPT !.stage = "start"]}
       \/ /\ LockOf(j) \in locks
          /\ locks' = Pruned(j.idx)
          /\ jobs' = jobs \ {j}
    /\ UNCHANGED <<now, cron, started, fired, misread, syncs, faults>>

StartInstance(j) ==
    /\ j.stage = "start"
    /\ started' = [started EXCEPT ![<<j.schedule, j.at>>] = @ + 1]
    /\ jobs' = jobs \ {j}
    /\ UNCHANGED <<now, cron, locks, fired, misread, syncs, faults>>

\* A statement fails: the error is logged and the job ends. StartInstance may
\* have inserted the instance by then.
JobFails(j) ==
    /\ j.stage \in {"lock", "start"}
    /\ faults < MaxFaults
    /\ faults' = faults + 1
    /\ jobs' = jobs \ {j}
    /\ \/ started' = started
       \/ j.stage = "start" /\ started' = [started EXCEPT ![<<j.schedule, j.at>>] = @ + 1]
    /\ UNCHANGED <<now, cron, locks, fired, misread, syncs>>

\* A node dies with its jobs, and is started again.
Restart(n) ==
    /\ faults < MaxFaults
    /\ faults' = faults + 1
    /\ jobs' = {j \in jobs : j.node # n}
    /\ gen' = [gen EXCEPT ![n] = @ + 1]
    /\ prev' = [prev EXCEPT ![n] = Zero]
    /\ UNCHANGED <<now, clock, list, locks, started, fired, misread, syncs>>

-----------------------------------------------------------------------------
Next ==
    \/ Tick
    \/ \E n \in Nodes :
        \/ Boundary(n)
        \/ \E l \in Lists : Sync(n, l)
        \/ Restart(n)
    \/ \E j \in jobs :
        \/ ReadPrev(j)
        \/ TryAcquireCronLock(j)
        \/ StartInstance(j)
        \/ JobFails(j)

Spec == Init /\ [][Next]_vars

-----------------------------------------------------------------------------
\* Types; and a job whose firing nobody misread holds the boundary it was started
\* for as its key.
TypeOK ==
    /\ now \in Times
    /\ clock \in [Nodes -> Times]
    /\ list \in [Nodes -> Lists]
    /\ gen \in [Nodes -> 1 .. MaxSyncs + MaxFaults + 1]
    /\ prev \in [Nodes -> Times]
    /\ jobs \subseteq Jobs
    /\ locks \subseteq Indexes \X Times
    /\ started \in [Schedules \X Times -> Nat]
    /\ misread \subseteq fired /\ fired \subseteq Schedules \X Times
    /\ \A j \in jobs :
        (j.stage # "read" /\ <<j.schedule, j.at>> \notin misread) => j.key = j.at

\* The lists name a trigger by the same index, so that changes only append triggers
\* or take the last ones away; and locks outlast the latest job.
Steady ==
    /\ \A l, m \in Lists : \A i \in DOMAIN l \intersect DOMAIN m : l[i] = m[i]
    /\ \A l \in Lists : \A i, k \in DOMAIN l : l[i] = l[k] => i = k
    /\ Day >= Spread

\* One instance at most is started for a firing whose jobs all read its boundary,
\* however the nodes' clocks differ, whatever fails, although locks are pruned
\* and although jobs of other firings read a wrong one.
OncePerFiring ==
    Steady => \A f \in DOMAIN started : f \notin misread => started[f] <= 1

\* Without faults, and as long as every job read its boundary, a firing that some
\* node saw is not lost: the jobs that do not win the lock leave it to one that
\* does.
FiringsUsed ==
    (Steady /\ faults = 0 /\ misread = {}) =>
        \A f \in fired : started[f] = 1 \/ \E j \in jobs : <<j.schedule, j.at>> = f

=============================================================================
