---------------------------- MODULE ReloadProofs ----------------------------
(***************************************************************************)
(* The safety properties of Reload, for any files and texts, any number of *)
(* reloads, saves and edits, and any faults.                               *)
(***************************************************************************)
EXTENDS Reload, TLAPS

-----------------------------------------------------------------------------
\* The inductive invariant

\* Savers whose draft is, or was, in the place of the file.
Replacing == {r \in Savers : pc[r] \notin {"idle", "rename"}}

WellFormed(D) ==
    \A d \in D :
        /\ d.valid
        /\ \A e \in D : e.name = d.name => e = d

\* What a load has parsed is what the registry may hold.
LoadsWellFormed ==
    /\ WellFormed(registry)
    /\ \A r \in Handlers : WellFormed(loaded[r])

DownIsSettled == ~up => Settled

Accepted(f) == <<f, disk[f]>> \in accepted

\* What a file that could not be read is taken for.
Blank == EmptyTexts \union {NoText}

\* A file holds what was accepted for it, except while a save replaces it, or
\* next to nothing if one that could not read it was rejected ...
FilesAccepted ==
    \A f \in Files \ torn :
        (\A r \in Replacing : draft[r].name # f) =>
            Accepted(f) \/ (f \in lost /\ disk[f] \in Blank)

\* ... what the save would put back was accepted, if it could be read ...
PriorAccepted ==
    \A r \in Savers :
        (pc[r] # "idle" /\ draft[r].name \notin torn) =>
            \/ <<draft[r].name, prior[r]>> \in accepted
            \/ (r \in unread \/ draft[r].name \in lost) /\ prior[r] \in Blank

\* ... and a save that succeeds leaves its draft, or what an operator wrote since.
DraftOrAccepted ==
    \A r \in Replacing :
        pc[r] \notin {"restore", "write"} =>
            disk[draft[r].name] = draft[r] \/ Accepted(draft[r].name)

\* The files as the save found them.
Before(r) == [disk EXCEPT ![draft[r].name] = prior[r]]

\* The files a load has read.
Parsed(r) == {f \in Files \ files[r] : disk[f] # NoText}

Undamaged == torn \union lost = {}

\* Without edits, and while loads see every file, the server starts from what a
\* save found and from what it has loaded.
UntilLoaded ==
    /\ (Undamaged /\ Replacing = {}) => Loads(disk)
    /\ \A r \in Savers :
        /\ (pc[r] = "rename" /\ r \notin unread) => prior[r] = disk[draft[r].name]
        /\ (Undamaged /\ r \notin unread /\ pc[r] \in {"glob", "parse", "restore", "write"}) =>
              Loads(Before(r))
        /\ pc[r] = "parse" =>
            \A f \in Parsed(r) :
                /\ disk[f] \in loaded[r] /\ disk[f].valid
                /\ \A g \in Parsed(r) \ {f} : disk[g].name # disk[f].name
        /\ pc[r] \in {"cron", "consumers"} => Loads(disk)

OneAtATime ==
    \A r, s \in Handlers : (pc[r] # "idle" /\ pc[s] # "idle") => r = s

Syncing == {r \in Handlers : pc[r] \in {"cron", "consumers"}}

Loading == {r \in Handlers : pc[r] \in {"parse", "cron", "consumers"}}

\* The schedulers differ from the registry only while the hook runs.
InStep ==
    /\ Syncing = {} => cronJobs = registry /\ consumers = registry
    /\ \A r \in Syncing : registry = loaded[r]
    /\ \A r \in Syncing : pc[r] = "consumers" => cronJobs = loaded[r]

Known(d) == \E f \in Files : <<f, d>> \in accepted

\* Loads read what was accepted, a save also its own draft.
ReadsAccepted ==
    /\ \A r \in Loading \intersect Reloaders : torn = {} =>
        \A d \in loaded[r] : Known(d)
    /\ \A r \in Loading \intersect Savers : torn \subseteq {draft[r].name} =>
        \A d \in loaded[r] : Known(d) \/ d = draft[r]
    /\ (torn = {} /\ Syncing = {}) => \A d \in registry : Known(d)

LInv ==
    /\ TypeOK
    /\ edits \in Nat
    /\ LoadsWellFormed
    /\ DownIsSettled
    /\ FilesAccepted /\ PriorAccepted /\ DraftOrAccepted
    /\ (edits = 0 /\ unlisted = {}) => UntilLoaded
    /\ ~overlapped => OneAtATime /\ InStep /\ ReadsAccepted


-----------------------------------------------------------------------------
\* Lemmas

\* saveMu keeps saves apart.
LEMMA SaverIsAlone ==
    ASSUME TypeOK, NEW r \in Savers, NEW s \in Savers, pc[r] # "idle", pc[s] # "idle"
    PROVE  r = s /\ saveMu = r /\ draft[r] \in Texts /\ draft[r].name \in Files
BY ReloadAssumptions DEF TypeOK

\* The definitions of files that load are well formed.
LEMMA LoadsAreWellFormed ==
    ASSUME TypeOK, Loads(disk)
    PROVE  OnDisk \subseteq Texts /\ WellFormed(OnDisk)
<1>1. ASSUME NEW d \in OnDisk
      PROVE  d \in Texts /\ d.valid /\ \A e \in OnDisk : e.name = d.name => e = d
  <2>1. PICK f \in Files : d = disk[f] /\ d # NoText
    BY DEF OnDisk
  <2>2. d.valid /\ \A g \in Files \ {f} : disk[g] # NoText => disk[g].name # d.name
    BY <2>1 DEF Loads
  <2>3. d \notin EmptyTexts
    BY <2>2 DEF EmptyTexts, EmptyText
  <2> QED
    BY <2>1, <2>2, <2>3 DEF TypeOK, OnDisk
<1> QED
  BY <1>1 DEF WellFormed

\* A save whose load fails goes on to restore the file, a reload ends.
LEMMA LoadFailsMoves ==
    ASSUME NEW r \in Handlers, NEW f \in Files, LoadFails(r, f)
    PROVE  /\ pc[r] = "parse" /\ UNCHANGED <<disk, registry, schedulers, save, accepted>>
           /\ UNCHANGED <<overlapped, edits, up, torn, history>>
           /\ files' = [files EXCEPT ![r] = {}] /\ loaded' = [loaded EXCEPT ![r] = {}]
           /\ pc' = [pc EXCEPT ![r] = IF r \in Savers THEN "restore" ELSE "idle"]
           /\ answer' \in {answer, [answer EXCEPT ![r] = "error"]}
BY DEF LoadFails, NextFile

\* When a save returns nobody saves.
LEMMA SaveIsOver ==
    ASSUME TypeOK, NEW r \in Savers, pc[r] # "idle", pc' = [pc EXCEPT ![r] = "idle"]
    PROVE  (\A s \in Savers : pc'[s] = "idle") /\ Replacing' = {} /\ Replacing \subseteq {r}
<1>1. \A s \in Savers : pc[s] # "idle" => s = r
  BY SaverIsAlone
<1>2. \A s \in Savers : pc'[s] = "idle"
  BY <1>1 DEF TypeOK, Handlers
<1> QED
  BY <1>1, <1>2 DEF Replacing

\* What was taken for a file that could not be read does not validate.
LEMMA BlanksFail ==
    ASSUME NEW text \in Blank
    PROVE  text = NoText \/ ~text.valid
BY DEF Blank, EmptyTexts, EmptyText

\* While no save holds saveMu, nobody saves.
LEMMA NobodySaves ==
    ASSUME TypeOK, saveMu = NoText, NEW r \in Savers
    PROVE  pc[r] = "idle"
BY ReloadAssumptions DEF TypeOK

-----------------------------------------------------------------------------
\* The invariant holds initially

LEMMA LInvInit == Init => LInv
<1> SUFFICES ASSUME Init PROVE LInv
  OBVIOUS
<1>1. TypeOK
  <2>1. registry \subseteq Texts
    BY ReloadAssumptions DEF Init, OnDisk
  <2> QED
    BY <2>1, ReloadAssumptions DEF Init, TypeOK, Handlers
<1>2. Settled /\ Replacing = {} /\ Loads(disk)
  BY ReloadAssumptions DEF Init, Settled, Replacing, Handlers
<1>3. LoadsWellFormed
  BY <1>1, <1>2, LoadsAreWellFormed DEF Init, LoadsWellFormed, WellFormed
<1>4. edits \in Nat /\ DownIsSettled
  BY <1>2 DEF Init, DownIsSettled
<1>5. FilesAccepted /\ PriorAccepted /\ DraftOrAccepted
  BY <1>2 DEF Init, FilesAccepted, Blank, PriorAccepted, DraftOrAccepted, Accepted, Handlers
<1>6. UntilLoaded
  BY <1>2 DEF Init, UntilLoaded, Undamaged, Handlers
<1>7. OneAtATime /\ InStep
  BY DEF Init, OneAtATime, InStep, Syncing
<1>8. ReadsAccepted
  BY DEF Init, ReadsAccepted, Loading, Known, OnDisk
<1> QED
  BY <1>1, <1>3, <1>4, <1>5, <1>6, <1>7, <1>8 DEF LInv

-----------------------------------------------------------------------------
\* ... and every step keeps it, conjunct by conjunct

\* Every step keeps the types.
LEMMA TypesKept ==
    ASSUME TypeOK, [Next]_vars
    PROVE  TypeOK'
<1>1. ASSUME NEW f \in Files, NEW text \in Texts \union {NoText}, Edit(f, text)
      PROVE  TypeOK'
  BY <1>1, ReloadAssumptions DEF Edit, Begins, schedulers, save, process, history, TypeOK,
     EmptyTexts, Handlers, EmptyText, Loads, OnDisk
<1>2. ASSUME NEW r \in Reloaders, ReloadWorkflows(r) PROVE TypeOK'
  BY <1>2, ReloadAssumptions, ReloadAssumptions DEF Handlers, ReloadWorkflows, MayStart,
     Begins, schedulers, save, process, history, TypeOK, EmptyTexts, EmptyText, Loads,
     OnDisk
<1>3. ASSUME NEW r \in Savers, NEW text \in Texts, BuilderSave(r, text) PROVE TypeOK'
  BY <1>3, ReloadAssumptions DEF BuilderSave, KeepPrior, MayStart, Begins, SaveMuFree,
     schedulers, process, history, TypeOK, EmptyTexts, Handlers, EmptyText, Loads, OnDisk
<1>4. ASSUME NEW r \in Savers, Rename(r) PROVE TypeOK'
  BY <1>4, ReloadAssumptions DEF Rename, schedulers, save, process, history, TypeOK,
     EmptyTexts, Handlers, EmptyText, Loads, OnDisk
<1>5. ASSUME NEW r \in Savers, DraftFails(r) PROVE TypeOK'
  BY <1>5, ReloadAssumptions DEF DraftFails, EndSave, history, Fault, schedulers, TypeOK,
     EmptyTexts, Handlers, EmptyText, Loads, OnDisk
<1>6. ASSUME NEW r \in Savers, Truncate(r) PROVE TypeOK'
  <2>1. draft[r].name \in Files
    BY <1>6, SaverIsAlone DEF Truncate
  <2>2. EmptyText(draft[r].name) \in EmptyTexts
    BY <2>1 DEF EmptyTexts
  <2>3. disk' \in [Files -> Texts \union EmptyTexts \union {NoText}]
    BY <1>6, <2>2 DEF Truncate, TypeOK
  <2> QED
    BY <1>6, <2>3, ReloadAssumptions DEF Truncate, schedulers, save, process, history, TypeOK,
       Handlers
<1>7. ASSUME NEW r \in Savers, Restore(r) PROVE TypeOK'
  BY <1>7, ReloadAssumptions DEF Restore, EndSave, history, Restored, schedulers, process,
     TypeOK, EmptyTexts, Handlers, EmptyText, Loads, OnDisk
<1>8. ASSUME NEW r \in Savers, RestoreFails(r) PROVE TypeOK'
  BY <1>8, ReloadAssumptions DEF RestoreFails, EndSave, history, Fault, schedulers, TypeOK,
     EmptyTexts, Handlers, EmptyText, Loads, OnDisk
<1>9. ASSUME NEW r \in Handlers, Glob(r) PROVE TypeOK'
  BY <1>9, ReloadAssumptions DEF Glob, Present, schedulers, save, process, history, TypeOK,
     EmptyTexts, Handlers, EmptyText, Loads, OnDisk
<1>10. ASSUME NEW r \in Handlers, NEW f \in Files, ParseFile(r, f) PROVE TypeOK'
  BY <1>10, ReloadAssumptions DEF ParseFile, NextFile, Parses, schedulers, save, process,
     history, TypeOK, EmptyTexts, Handlers, EmptyText, Loads, OnDisk
<1>11. ASSUME NEW r \in Handlers, NEW f \in Files, LoadFails(r, f) PROVE TypeOK'
  BY <1>11, ReloadAssumptions, LoadFailsMoves DEF schedulers, save, process, history,
     TypeOK, EmptyTexts, Handlers, EmptyText, Loads, OnDisk
<1>12. ASSUME NEW r \in Handlers, Install(r) PROVE TypeOK'
  BY <1>12, ReloadAssumptions DEF Install, Installed, schedulers, save, process, history,
     TypeOK, EmptyTexts, Handlers, EmptyText, Loads, OnDisk
<1>13. ASSUME NEW r \in Handlers, SyncCron(r) PROVE TypeOK'
  BY <1>13, ReloadAssumptions DEF Handlers, SyncCron, save, process, history, TypeOK,
     EmptyTexts, EmptyText, Loads, OnDisk
<1>14. ASSUME NEW r \in Handlers, SyncConsumers(r) PROVE TypeOK'
  BY <1>14, ReloadAssumptions DEF SyncConsumers, EndSave, save, SyncedConsumers, TypeOK,
     EmptyTexts, Handlers, EmptyText, Loads, OnDisk
<1>15. CASE Die
  <2>1. {draft[r].name : r \in {q \in Savers : pc[q] \notin {"idle", "rename"}}} \subseteq Files
    BY SaverIsAlone
  <2>2. torn' \subseteq Files
    BY <1>15, <2>1 DEF Die, TypeOK
  <2>3. unread' \subseteq Savers /\ lost' \subseteq Files /\ unlisted' \subseteq Savers
    BY <1>15 DEF Die, history, TypeOK
  <2>4. saveMu' = NoText /\ NoText \notin Savers
    BY <1>15, ReloadAssumptions DEF Die, history
  <2>5. answer' \in [Handlers -> {"none", "ok", "error"}]
    BY <1>15 DEF Die, history, TypeOK
  <2> QED
    <3>1. pc' = [r \in Handlers |-> "idle"] /\ prior' = [r \in Savers |-> NoText]
      BY <1>15 DEF Die, history
    <3>2. draft' = [r \in Savers |-> NoText]
      BY <1>15 DEF Die, history
    <3>3. files' \in [Handlers -> SUBSET Files] /\ loaded' \in [Handlers -> SUBSET Texts]
      BY <1>15 DEF Die, history
    <3>4. /\ disk' = disk /\ registry' = {} /\ cronJobs' = {} /\ consumers' = {}
          /\ up' = FALSE
      BY <1>15 DEF Die, history
    <3>5. \A r \in Savers : pc'[r] = "idle" /\ saveMu' # r
      BY <2>4, <3>1 DEF Handlers
    <3>6. \A r \in Reloaders : pc'[r] = "idle"
      BY <3>1 DEF Handlers
    <3>7. /\ pc' \in [Handlers -> {"idle", "rename", "glob", "parse", "restore", "write",
                                  "cron", "consumers"}]
          /\ draft' \in [Savers -> Texts \union {NoText}]
          /\ prior' \in [Savers -> Texts \union EmptyTexts \union {NoText}]
      BY <3>1, <3>2
    <3> QED
      BY <2>2, <2>3, <2>4, <2>5, <3>3, <3>4, <3>5, <3>6, <3>7 DEF TypeOK
<1>16. CASE Restart
  BY <1>16, ReloadAssumptions DEF Restart, history, save, TypeOK, EmptyTexts, Handlers,
     EmptyText, Loads, OnDisk
<1>17. CASE UNCHANGED vars
  BY <1>17, ReloadAssumptions DEF vars, schedulers, save, process, history, TypeOK,
     EmptyTexts, Handlers, EmptyText, Loads, OnDisk
<1> QED
  BY <1>1, <1>2, <1>3, <1>4, <1>5, <1>6, <1>7, <1>8, <1>9, <1>10, <1>11, <1>12, <1>13,
     <1>14, <1>15, <1>16, <1>17 DEF Next, Load

\* Edits are counted.
LEMMA EditsKept ==
    ASSUME edits \in Nat, [Next]_vars
    PROVE  (edits \in Nat)'
<1>1. ASSUME NEW f \in Files, NEW text \in Texts \union {NoText}, Edit(f, text)
      PROVE  (edits \in Nat)'
  BY <1>1 DEF Edit, Begins, schedulers, save, process, history
<1>2. CASE (\E r \in Reloaders : ReloadWorkflows(r))
             \/ (\E r \in Savers, text \in Texts : BuilderSave(r, text))
             \/ (\E r \in Savers : Rename(r)) \/ (\E r \in Savers : DraftFails(r))
             \/ (\E r \in Savers : Truncate(r)) \/ (\E r \in Savers : Restore(r))
             \/ (\E r \in Savers : RestoreFails(r)) \/ (\E r \in Handlers : Glob(r))
             \/ (\E r \in Handlers, f \in Files : ParseFile(r, f))
             \/ (\E r \in Handlers, f \in Files : LoadFails(r, f))
             \/ (\E r \in Handlers : Install(r)) \/ (\E r \in Handlers : SyncCron(r))
             \/ (\E r \in Handlers : SyncConsumers(r)) \/ Die \/ Restart
  BY <1>2, ReloadAssumptions, LoadFailsMoves DEF Handlers, ReloadWorkflows, MayStart,
     Begins, schedulers, save, process, history, BuilderSave, KeepPrior, SaveMuFree, Rename,
     DraftFails, EndSave, Fault, Truncate, Restore, Restored, RestoreFails, Glob, Present,
     ParseFile, NextFile, Parses, Install, Installed, SyncCron, SyncConsumers,
     SyncedConsumers, Die, Restart
<1>3. CASE UNCHANGED vars
  BY <1>3 DEF vars, schedulers, save, process, history
<1> QED
  BY <1>1, <1>2, <1>3 DEF Next, Load

\* A load takes what validates and has a name of its own, whatever it finds on
\* the disk.
LEMMA LoadsWellFormedKept ==
    ASSUME TypeOK, LoadsWellFormed, [Next]_vars
    PROVE  LoadsWellFormed'
<1>1. ASSUME NEW r \in Handlers, Glob(r) PROVE LoadsWellFormed'
  BY <1>1 DEF Glob, Present, schedulers, save, process, history, LoadsWellFormed,
     WellFormed, TypeOK, EmptyTexts, Handlers
<1>2. ASSUME NEW r \in Handlers, NEW f \in Files, ParseFile(r, f) PROVE LoadsWellFormed'
  BY <1>2 DEF ParseFile, NextFile, Parses, schedulers, save, process, history,
     LoadsWellFormed, WellFormed, TypeOK, EmptyTexts, Handlers
<1>3. ASSUME NEW r \in Handlers, NEW f \in Files, LoadFails(r, f) PROVE LoadsWellFormed'
  BY <1>3, LoadFailsMoves DEF schedulers, save, process, history, LoadsWellFormed,
     WellFormed, TypeOK, EmptyTexts, Handlers
<1>4. ASSUME NEW r \in Handlers, Install(r) PROVE LoadsWellFormed'
  BY <1>4 DEF Install, Installed, schedulers, save, process, history, LoadsWellFormed,
     WellFormed, TypeOK, EmptyTexts, Handlers
<1>5. ASSUME NEW r \in Handlers, SyncConsumers(r) PROVE LoadsWellFormed'
  BY <1>5 DEF SyncConsumers, EndSave, save, SyncedConsumers, LoadsWellFormed, WellFormed,
     TypeOK, EmptyTexts, Handlers
<1>6. CASE Die
  BY <1>6 DEF Handlers, Die, history, Fault, LoadsWellFormed, WellFormed, TypeOK, EmptyTexts
<1>7. CASE Restart
  BY <1>7, LoadsAreWellFormed DEF Restart, history, LoadsWellFormed, WellFormed
<1>8. CASE (\E f \in Files, text \in Texts \union {NoText} : Edit(f, text))
             \/ (\E r \in Reloaders : ReloadWorkflows(r))
             \/ (\E r \in Savers, text \in Texts : BuilderSave(r, text))
             \/ (\E r \in Savers : Rename(r)) \/ (\E r \in Savers : DraftFails(r))
             \/ (\E r \in Savers : Truncate(r)) \/ (\E r \in Savers : Restore(r))
             \/ (\E r \in Savers : RestoreFails(r))
             \/ (\E r \in Handlers : SyncCron(r))
  BY <1>8, ReloadAssumptions DEF Edit, Begins, schedulers, save, process, history, Handlers,
     ReloadWorkflows, MayStart, BuilderSave, KeepPrior, SaveMuFree, Rename, DraftFails,
     EndSave, Fault, Truncate, Restore, Restored, RestoreFails, SyncCron, LoadsWellFormed,
     WellFormed, TypeOK, EmptyTexts
<1>9. CASE UNCHANGED vars
  BY <1>9 DEF vars, schedulers, save, process, history, LoadsWellFormed, WellFormed, TypeOK,
     EmptyTexts, Handlers
<1> QED
  BY <1>1, <1>2, <1>3, <1>4, <1>5, <1>6, <1>7, <1>8, <1>9 DEF Next, Load

\* Requests die with the process.
LEMMA DownIsSettledKept ==
    ASSUME TypeOK, DownIsSettled, [Next]_vars
    PROVE  DownIsSettled'
<1>1. ASSUME NEW r \in Reloaders, ReloadWorkflows(r) PROVE DownIsSettled'
  BY <1>1, ReloadAssumptions DEF Handlers, ReloadWorkflows, MayStart, Begins, schedulers,
     save, process, history, DownIsSettled, Settled
<1>2. ASSUME NEW r \in Savers, NEW text \in Texts, BuilderSave(r, text) PROVE DownIsSettled'
  BY <1>2 DEF BuilderSave, KeepPrior, MayStart, Begins, SaveMuFree, schedulers, process,
     history, DownIsSettled, Settled, Handlers
<1>3. ASSUME NEW r \in Savers, Rename(r) PROVE DownIsSettled'
  BY <1>3 DEF Rename, schedulers, save, process, history, DownIsSettled, Settled, Handlers
<1>4. ASSUME NEW r \in Savers, DraftFails(r) PROVE DownIsSettled'
  BY <1>4 DEF DraftFails, EndSave, history, Fault, schedulers, DownIsSettled, Settled,
     Handlers
<1>5. ASSUME NEW r \in Savers, Truncate(r) PROVE DownIsSettled'
  BY <1>5 DEF Truncate, schedulers, save, process, history, DownIsSettled, Settled, Handlers
<1>6. ASSUME NEW r \in Savers, Restore(r) PROVE DownIsSettled'
  BY <1>6 DEF Restore, EndSave, history, Restored, schedulers, process, DownIsSettled,
     Settled, Handlers
<1>7. ASSUME NEW r \in Savers, RestoreFails(r) PROVE DownIsSettled'
  BY <1>7 DEF RestoreFails, EndSave, history, Fault, schedulers, DownIsSettled, Settled,
     Handlers
<1>8. ASSUME NEW r \in Handlers, Glob(r) PROVE DownIsSettled'
  BY <1>8 DEF Glob, Present, schedulers, save, process, history, DownIsSettled, Settled,
     Handlers
<1>9. ASSUME NEW r \in Handlers, NEW f \in Files, LoadFails(r, f) PROVE DownIsSettled'
  BY <1>9, LoadFailsMoves DEF schedulers, save, process, history, DownIsSettled, Settled,
     Handlers
<1>10. ASSUME NEW r \in Handlers, Install(r) PROVE DownIsSettled'
  BY <1>10 DEF Install, Installed, schedulers, save, process, history, DownIsSettled,
     Settled, Handlers
<1>11. ASSUME NEW r \in Handlers, SyncCron(r) PROVE DownIsSettled'
  BY <1>11 DEF Handlers, SyncCron, save, process, history, DownIsSettled, Settled
<1>12. ASSUME NEW r \in Handlers, SyncConsumers(r) PROVE DownIsSettled'
  BY <1>12 DEF SyncConsumers, EndSave, save, SyncedConsumers, DownIsSettled, Settled,
     Handlers
<1>13. CASE Die
  BY <1>13 DEF Handlers, Die, history, Fault, DownIsSettled, Settled
<1>14. CASE Restart
  BY <1>14 DEF Restart, history, save, DownIsSettled, Settled, Handlers
<1>15. CASE (\E f \in Files, text \in Texts \union {NoText} : Edit(f, text))
             \/ (\E r \in Handlers, f \in Files : ParseFile(r, f))
  BY <1>15 DEF Edit, Begins, schedulers, save, process, history, ParseFile, NextFile,
     Parses, DownIsSettled, Settled, Handlers
<1>16. CASE UNCHANGED vars
  BY <1>16 DEF vars, schedulers, save, process, history, DownIsSettled, Settled, Handlers
<1> QED
  BY <1>1, <1>2, <1>3, <1>4, <1>5, <1>6, <1>7, <1>8, <1>9, <1>10, <1>11, <1>12, <1>13,
     <1>14, <1>15, <1>16 DEF Next, Load

\* A save that ends leaves what was accepted, unless it is cut short.
LEMMA FilesAcceptedKept ==
    ASSUME TypeOK, FilesAccepted, PriorAccepted, DraftOrAccepted, [Next]_vars
    PROVE  FilesAccepted'
<1>1. ASSUME NEW f \in Files, NEW text \in Texts \union {NoText}, Edit(f, text)
      PROVE  FilesAccepted'
  BY <1>1 DEF Edit, Begins, schedulers, save, process, history, FilesAccepted, Blank,
     Accepted, Replacing, TypeOK
<1>2. ASSUME NEW r \in Reloaders, ReloadWorkflows(r) PROVE FilesAccepted'
  BY <1>2, ReloadAssumptions DEF Handlers, ReloadWorkflows, MayStart, Begins, schedulers,
     save, process, history, FilesAccepted, Blank, Accepted, Replacing, TypeOK
<1>3. ASSUME NEW r \in Savers, NEW text \in Texts, BuilderSave(r, text) PROVE FilesAccepted'
  BY <1>3 DEF BuilderSave, KeepPrior, MayStart, Begins, SaveMuFree, schedulers, process,
     history, FilesAccepted, Blank, Accepted, Replacing, TypeOK
<1>4. ASSUME NEW r \in Savers, Rename(r) PROVE FilesAccepted'
  <2> SUFFICES ASSUME NEW f \in Files \ torn, \A q \in Replacing' : draft[q].name # f
               PROVE  <<f, disk'[f]>> \in accepted \/ (f \in lost /\ disk'[f] \in Blank)
    BY <1>4 DEF Rename, FilesAccepted, Blank, Accepted, Replacing, save, process, history
  <2>1. Replacing \subseteq Replacing' /\ r \in Replacing'
    BY <1>4 DEF Rename, Replacing, TypeOK, Handlers
  <2>2. disk'[f] = disk[f]
    BY <1>4, <2>1 DEF Rename, TypeOK
  <2> QED
    BY <2>1, <2>2 DEF FilesAccepted, Blank, Accepted
<1>5. ASSUME NEW r \in Savers, DraftFails(r) PROVE FilesAccepted'
  BY <1>5 DEF DraftFails, EndSave, history, Fault, schedulers, FilesAccepted, Blank,
     Accepted, Replacing, TypeOK
<1>6. ASSUME NEW r \in Savers, Truncate(r) PROVE FilesAccepted'
  BY <1>6 DEF Truncate, schedulers, save, process, history, FilesAccepted, Blank, Accepted,
     Replacing, TypeOK
<1>7. ASSUME NEW r \in Savers, Restore(r) PROVE FilesAccepted'
  <2> SUFFICES ASSUME NEW f \in Files \ torn
               PROVE  <<f, disk'[f]>> \in accepted \/ (f \in lost' /\ disk'[f] \in Blank)
    BY <1>7 DEF Restore, EndSave, history, FilesAccepted, Blank, Accepted, process
  <2>1. /\ pc[r] # "idle" /\ disk' = [disk EXCEPT ![draft[r].name] = prior[r]]
        /\ lost' = IF r \in unread THEN lost \union {draft[r].name} ELSE lost
    BY <1>7 DEF Restore, Restored
  <2>2. CASE f = draft[r].name
    <3>1. disk'[f] = prior[r]
      BY <2>1, <2>2 DEF TypeOK
    <3> QED
      BY <2>1, <2>2, <3>1 DEF PriorAccepted
  <2>3. CASE f # draft[r].name
    <3>1. Replacing \subseteq {r} /\ disk'[f] = disk[f] /\ lost \subseteq lost'
      BY <2>1, <2>3, SaverIsAlone DEF Replacing, TypeOK
    <3>2. \A q \in Replacing : draft[q].name # f
      BY <2>3, <3>1
    <3> QED
      BY <3>1, <3>2 DEF FilesAccepted, Accepted
  <2> QED
    BY <2>2, <2>3
<1>8. ASSUME NEW r \in Savers, RestoreFails(r) PROVE FilesAccepted'
  BY <1>8 DEF RestoreFails, EndSave, history, Fault, schedulers, FilesAccepted, Blank,
     Accepted, Replacing, TypeOK
<1>9. ASSUME NEW r \in Handlers, Glob(r) PROVE FilesAccepted'
  BY <1>9 DEF Glob, Present, schedulers, save, process, history, FilesAccepted, Blank,
     Accepted, Replacing, TypeOK
<1>10. ASSUME NEW r \in Handlers, NEW f \in Files, LoadFails(r, f) PROVE FilesAccepted'
  <2>1. Replacing' = Replacing
    <3>1. pc[r] = "parse" /\ pc' = [pc EXCEPT ![r] = IF r \in Savers THEN "restore" ELSE "idle"]
      BY <1>10, LoadFailsMoves
    <3> QED
      BY <3>1 DEF Replacing, TypeOK, Handlers
  <2> QED
    BY <1>10, <2>1, LoadFailsMoves DEF FilesAccepted, Blank, Accepted, save, process,
       history
<1>11. ASSUME NEW r \in Handlers, Install(r) PROVE FilesAccepted'
  BY <1>11 DEF Install, Installed, schedulers, save, process, history, FilesAccepted, Blank,
     Accepted, Replacing, TypeOK
<1>12. ASSUME NEW r \in Handlers, SyncCron(r) PROVE FilesAccepted'
  BY <1>12 DEF Handlers, SyncCron, save, process, history, FilesAccepted, Blank, Accepted,
     Replacing, TypeOK
<1>13. ASSUME NEW r \in Handlers, SyncConsumers(r) PROVE FilesAccepted'
  <2> SUFFICES ASSUME NEW f \in Files \ torn', \A q \in Replacing' : draft'[q].name # f
               PROVE  <<f, disk[f]>> \in accepted' \/ (f \in lost' /\ disk[f] \in Blank)
    BY <1>13 DEF SyncConsumers, EndSave, save, FilesAccepted, Blank, Accepted, Replacing
  <2>1. Replacing \subseteq Replacing' \union {r} /\ accepted \subseteq accepted'
    BY <1>13 DEF SyncConsumers, EndSave, save, Replacing, TypeOK
  <2>2. CASE r \notin Savers
    BY <1>13, <2>1, <2>2 DEF SyncConsumers, EndSave, save, FilesAccepted, Blank, Accepted,
       Replacing
  <2>3. CASE r \in Savers
    <3>1. CASE f = draft[r].name
      BY <1>13, <2>3, <3>1 DEF SyncConsumers, EndSave, save, DraftOrAccepted, Accepted,
         Replacing
    <3>2. CASE f # draft[r].name
      <4>1. /\ torn' = torn \ {draft[r].name} /\ lost' = lost \ {draft[r].name}
            /\ disk' = disk /\ pc[r] # "idle"
        BY <1>13, <2>3 DEF SyncConsumers
      <4>2. Replacing \subseteq {r}
        BY <2>3, <4>1, SaverIsAlone DEF Replacing
      <4> QED
        BY <2>1, <3>2, <4>1, <4>2 DEF FilesAccepted, Accepted
    <3> QED
      BY <3>1, <3>2
  <2> QED
    BY <2>2, <2>3
<1>14. CASE Die
  BY <1>14 DEF Handlers, Die, history, Fault, FilesAccepted, Blank, Accepted, Replacing,
     TypeOK
<1>15. CASE (\E r \in Handlers, f \in Files : ParseFile(r, f)) \/ Restart
  BY <1>15 DEF ParseFile, NextFile, Parses, schedulers, save, process, history, Restart,
     FilesAccepted, Blank, Accepted, Replacing, TypeOK
<1>16. CASE UNCHANGED vars
  BY <1>16 DEF vars, schedulers, save, process, history, FilesAccepted, Blank, Accepted,
     Replacing, TypeOK
<1> QED
  BY <1>1, <1>2, <1>3, <1>4, <1>5, <1>6, <1>7, <1>8, <1>9, <1>10, <1>11, <1>12, <1>13,
     <1>14, <1>15, <1>16 DEF Next, Load

\* A save keeps what was accepted before it.
LEMMA PriorAcceptedKept ==
    ASSUME TypeOK, FilesAccepted, PriorAccepted, [Next]_vars
    PROVE  PriorAccepted'
<1>1. ASSUME NEW f \in Files, NEW text \in Texts \union {NoText}, Edit(f, text)
      PROVE  PriorAccepted'
  BY <1>1 DEF Edit, Begins, schedulers, save, process, history, PriorAccepted, Blank, TypeOK
<1>2. ASSUME NEW r \in Reloaders, ReloadWorkflows(r) PROVE PriorAccepted'
  BY <1>2, ReloadAssumptions DEF Handlers, ReloadWorkflows, MayStart, Begins, schedulers,
     save, process, history, PriorAccepted, Blank, TypeOK
<1>3. ASSUME NEW r \in Savers, NEW text \in Texts, BuilderSave(r, text) PROVE PriorAccepted'
  <2>1. Replacing = {}
    BY <1>3, NobodySaves DEF BuilderSave, KeepPrior, SaveMuFree, Replacing
  <2>2. \A s \in Savers : pc'[s] # "idle" => s = r
    BY <1>3, NobodySaves DEF BuilderSave, KeepPrior, SaveMuFree, TypeOK
  <2>3. /\ draft'[r] = text /\ UNCHANGED <<torn, lost, accepted>> /\ text.name \in Files
    BY <1>3, ReloadAssumptions DEF BuilderSave, TypeOK
  <2>4. \/ prior'[r] = disk[text.name]
        \/ r \in unread' /\ prior'[r] \in Blank
    BY <1>3, <2>3 DEF BuilderSave, KeepPrior, TypeOK, Blank, EmptyTexts
  <2>5. text.name \notin torn =>
          \/ <<text.name, disk[text.name]>> \in accepted
          \/ text.name \in lost /\ disk[text.name] \in Blank
    BY <2>1, <2>3 DEF FilesAccepted, Accepted
  <2> QED
    BY <2>2, <2>3, <2>4, <2>5 DEF PriorAccepted
<1>4. ASSUME NEW r \in Savers, Rename(r) PROVE PriorAccepted'
  BY <1>4 DEF Rename, schedulers, save, process, history, PriorAccepted, Blank, TypeOK
<1>5. ASSUME NEW r \in Savers, DraftFails(r) PROVE PriorAccepted'
  <2>1. \A s \in Savers : pc'[s] = "idle"
    BY <1>5, SaveIsOver DEF DraftFails
  <2> QED
    BY <2>1 DEF PriorAccepted
<1>6. ASSUME NEW r \in Savers, Truncate(r) PROVE PriorAccepted'
  BY <1>6 DEF Truncate, schedulers, save, process, history, PriorAccepted, Blank, TypeOK
<1>7. ASSUME NEW r \in Savers, Restore(r) PROVE PriorAccepted'
  <2>1. \A s \in Savers : pc'[s] = "idle"
    BY <1>7, SaveIsOver DEF Restore
  <2> QED
    BY <2>1 DEF PriorAccepted
<1>8. ASSUME NEW r \in Savers, RestoreFails(r) PROVE PriorAccepted'
  <2>1. \A s \in Savers : pc'[s] = "idle"
    BY <1>8, SaveIsOver DEF RestoreFails
  <2> QED
    BY <2>1 DEF PriorAccepted
<1>9. ASSUME NEW r \in Handlers, Glob(r) PROVE PriorAccepted'
  BY <1>9 DEF Glob, Present, schedulers, save, process, history, PriorAccepted, Blank,
     TypeOK
<1>10. ASSUME NEW r \in Handlers, NEW f \in Files, LoadFails(r, f) PROVE PriorAccepted'
  <2>1. /\ UNCHANGED <<torn, lost, unread, accepted, draft, prior>> /\ pc[r] = "parse"
        /\ pc' = [pc EXCEPT ![r] = IF r \in Savers THEN "restore" ELSE "idle"]
    BY <1>10, LoadFailsMoves DEF save, process, history
  <2>2. \A s \in Savers : pc'[s] # "idle" => pc[s] # "idle"
    BY <2>1 DEF TypeOK, Handlers
  <2> QED
    BY <2>1, <2>2 DEF PriorAccepted
<1>11. ASSUME NEW r \in Handlers, Install(r) PROVE PriorAccepted'
  BY <1>11 DEF Install, Installed, schedulers, save, process, history, PriorAccepted, Blank,
     TypeOK
<1>12. ASSUME NEW r \in Handlers, SyncCron(r) PROVE PriorAccepted'
  BY <1>12 DEF Handlers, SyncCron, save, process, history, PriorAccepted, Blank, TypeOK
<1>13. ASSUME NEW r \in Handlers, SyncConsumers(r) PROVE PriorAccepted'
  BY <1>13 DEF SyncConsumers, EndSave, save, SyncedConsumers, PriorAccepted, Blank, TypeOK
<1>14. CASE Die
  BY <1>14 DEF Handlers, Die, history, Fault, PriorAccepted, Blank, TypeOK
<1>15. CASE (\E r \in Handlers, f \in Files : ParseFile(r, f)) \/ Restart
  BY <1>15 DEF ParseFile, NextFile, Parses, schedulers, save, process, history, Restart,
     PriorAccepted, Blank, TypeOK
<1>16. CASE UNCHANGED vars
  BY <1>16 DEF vars, schedulers, save, process, history, PriorAccepted, Blank, TypeOK
<1> QED
  BY <1>1, <1>2, <1>3, <1>4, <1>5, <1>6, <1>7, <1>8, <1>9, <1>10, <1>11, <1>12, <1>13,
     <1>14, <1>15, <1>16 DEF Next, Load

\* Nobody but an operator writes the file that is being saved.
LEMMA DraftOrAcceptedKept ==
    ASSUME TypeOK, DraftOrAccepted, [Next]_vars
    PROVE  DraftOrAccepted'
<1>1. ASSUME NEW f \in Files, NEW text \in Texts \union {NoText}, Edit(f, text)
      PROVE  DraftOrAccepted'
  BY <1>1 DEF Edit, Begins, schedulers, save, process, history, DraftOrAccepted, Accepted,
     Replacing, TypeOK, Handlers
<1>2. ASSUME NEW r \in Reloaders, ReloadWorkflows(r) PROVE DraftOrAccepted'
  BY <1>2, ReloadAssumptions DEF Handlers, ReloadWorkflows, MayStart, Begins, schedulers,
     save, process, history, DraftOrAccepted, Accepted, Replacing, TypeOK
<1>3. ASSUME NEW r \in Savers, NEW text \in Texts, BuilderSave(r, text)
      PROVE  DraftOrAccepted'
  BY <1>3 DEF BuilderSave, KeepPrior, MayStart, Begins, SaveMuFree, schedulers, process,
     history, DraftOrAccepted, Accepted, Replacing, TypeOK, Handlers
<1>4. ASSUME NEW r \in Savers, Rename(r) PROVE DraftOrAccepted'
  <2>1. Replacing' = {r}
    BY <1>4, SaverIsAlone DEF Rename, Replacing, TypeOK, Handlers
  <2>2. disk'[draft[r].name] = draft[r]
    BY <1>4, SaverIsAlone DEF Rename, TypeOK
  <2> QED
    BY <1>4, <2>1, <2>2 DEF Rename, DraftOrAccepted, save
<1>5. ASSUME NEW r \in Savers, DraftFails(r) PROVE DraftOrAccepted'
  BY <1>5 DEF DraftFails, EndSave, history, Fault, schedulers, DraftOrAccepted, Accepted,
     Replacing, TypeOK, Handlers
<1>6. ASSUME NEW r \in Savers, Truncate(r) PROVE DraftOrAccepted'
  BY <1>6 DEF Truncate, schedulers, save, process, history, DraftOrAccepted, Accepted,
     Replacing, TypeOK, Handlers
<1>7. ASSUME NEW r \in Savers, Restore(r) PROVE DraftOrAccepted'
  BY <1>7 DEF Restore, EndSave, history, Restored, schedulers, process, DraftOrAccepted,
     Accepted, Replacing, TypeOK, Handlers
<1>8. ASSUME NEW r \in Savers, RestoreFails(r) PROVE DraftOrAccepted'
  BY <1>8 DEF RestoreFails, EndSave, history, Fault, schedulers, DraftOrAccepted, Accepted,
     Replacing, TypeOK, Handlers
<1>9. ASSUME NEW r \in Handlers, Glob(r) PROVE DraftOrAccepted'
  BY <1>9 DEF Glob, Present, schedulers, save, process, history, DraftOrAccepted, Accepted,
     Replacing, TypeOK, Handlers
<1>10. ASSUME NEW r \in Handlers, NEW f \in Files, LoadFails(r, f) PROVE DraftOrAccepted'
  BY <1>10, LoadFailsMoves DEF schedulers, save, process, history, DraftOrAccepted,
     Accepted, Replacing, TypeOK, Handlers
<1>11. ASSUME NEW r \in Handlers, Install(r) PROVE DraftOrAccepted'
  BY <1>11 DEF Install, Installed, schedulers, save, process, history, DraftOrAccepted,
     Accepted, Replacing, TypeOK, Handlers
<1>12. ASSUME NEW r \in Handlers, SyncCron(r) PROVE DraftOrAccepted'
  BY <1>12 DEF Handlers, SyncCron, save, process, history, DraftOrAccepted, Accepted,
     Replacing, TypeOK
<1>13. ASSUME NEW r \in Handlers, SyncConsumers(r) PROVE DraftOrAccepted'
  BY <1>13 DEF SyncConsumers, EndSave, save, SyncedConsumers, DraftOrAccepted, Accepted,
     Replacing, TypeOK, Handlers
<1>14. CASE Die
  BY <1>14 DEF Handlers, Die, history, Fault, DraftOrAccepted, Accepted, Replacing, TypeOK
<1>15. CASE (\E r \in Handlers, f \in Files : ParseFile(r, f)) \/ Restart
  BY <1>15 DEF ParseFile, NextFile, Parses, schedulers, save, process, history, Restart,
     DraftOrAccepted, Accepted, Replacing, TypeOK, Handlers
<1>16. CASE UNCHANGED vars
  BY <1>16 DEF vars, schedulers, save, process, history, DraftOrAccepted, Accepted,
     Replacing, TypeOK, Handlers
<1> QED
  BY <1>1, <1>2, <1>3, <1>4, <1>5, <1>6, <1>7, <1>8, <1>9, <1>10, <1>11, <1>12, <1>13,
     <1>14, <1>15, <1>16 DEF Next, Load

\* A save that fails puts back files the server starts from.
LEMMA UntilLoadedKept ==
    ASSUME TypeOK, edits \in Nat, (edits = 0 /\ unlisted = {}) => UntilLoaded, [Next]_vars
    PROVE  ((edits = 0 /\ unlisted = {}) => UntilLoaded)'
<1>1. ASSUME NEW f \in Files, NEW text \in Texts \union {NoText}, Edit(f, text)
      PROVE  ((edits = 0 /\ unlisted = {}) => UntilLoaded)'
  BY <1>1 DEF Edit, Begins, schedulers, save, process, history, UntilLoaded, Undamaged,
     Replacing, Before, Parsed, Loads, TypeOK
<1>2. ASSUME NEW r \in Reloaders, ReloadWorkflows(r)
      PROVE  ((edits = 0 /\ unlisted = {}) => UntilLoaded)'
  BY <1>2, ReloadAssumptions DEF Handlers, ReloadWorkflows, MayStart, Begins, schedulers,
     save, process, history, UntilLoaded, Undamaged, Replacing, Before, Parsed, Loads,
     TypeOK
<1>3. ASSUME NEW r \in Savers, NEW text \in Texts, BuilderSave(r, text)
      PROVE  ((edits = 0 /\ unlisted = {}) => UntilLoaded)'
  BY <1>3 DEF BuilderSave, KeepPrior, MayStart, Begins, SaveMuFree, schedulers, process,
     history, UntilLoaded, Undamaged, Replacing, Before, Parsed, Loads, TypeOK
<1>4. ASSUME NEW r \in Savers, Rename(r)
      PROVE  ((edits = 0 /\ unlisted = {}) => UntilLoaded)'
  <2> SUFFICES ASSUME edits = 0, unlisted = {} PROVE UntilLoaded'
    BY <1>4 DEF Rename, process, history
  <2>1. Replacing = {} /\ Replacing' = {r}
    BY <1>4, SaverIsAlone DEF Rename, Replacing, TypeOK, Handlers
  <2>2. \A s \in Savers : pc'[s] = IF s = r THEN "glob" ELSE "idle"
    BY <1>4, SaverIsAlone DEF Rename, TypeOK, Handlers
  <2>3. disk \in [Files -> Texts \union EmptyTexts \union {NoText}] /\ draft[r].name \in Files
    BY <1>4, SaverIsAlone DEF Rename, TypeOK
  <2>4. r \notin unread' => Before(r)' = disk
    BY <1>4, <2>3 DEF Rename, Before, UntilLoaded, save, process, history
  <2>5. Undamaged' => Loads(disk)
    BY <1>4, <2>1 DEF Rename, UntilLoaded, Undamaged, process, history
  <2>6. Undamaged' /\ r \notin unread' => Loads(Before(r)')
    BY <2>4, <2>5
  <2>7. Undamaged' /\ r \notin unread' => Loads(Before(r))'
    BY <2>6 DEF Loads
  <2> QED
    BY <2>1, <2>2, <2>7 DEF UntilLoaded
<1>5. ASSUME NEW r \in Savers, DraftFails(r)
      PROVE  ((edits = 0 /\ unlisted = {}) => UntilLoaded)'
  <2> SUFFICES ASSUME edits = 0, unlisted = {} PROVE UntilLoaded'
    BY <1>5 DEF DraftFails, history
  <2>1. \A s \in Savers : pc'[s] = "idle"
    BY <1>5, SaveIsOver DEF DraftFails
  <2>2. Undamaged' => Loads(disk)
    BY <1>5, <2>1, SaverIsAlone DEF DraftFails, UntilLoaded, Undamaged, Replacing, history
  <2>3. disk' = disk
    BY <1>5 DEF DraftFails
  <2> QED
    BY <2>1, <2>2, <2>3 DEF UntilLoaded, Loads, Replacing
<1>6. ASSUME NEW r \in Savers, Truncate(r)
      PROVE  ((edits = 0 /\ unlisted = {}) => UntilLoaded)'
  BY <1>6 DEF Truncate, schedulers, save, process, history, UntilLoaded, Undamaged,
     Replacing, Before, Parsed, Loads, TypeOK
<1>7. ASSUME NEW r \in Savers, Restore(r)
      PROVE  ((edits = 0 /\ unlisted = {}) => UntilLoaded)'
  <2> SUFFICES ASSUME edits = 0, unlisted = {} PROVE UntilLoaded'
    BY <1>7 DEF Restore, history
  <2>1. \A s \in Savers : pc'[s] = "idle"
    BY <1>7, SaveIsOver DEF Restore
  <2>2. /\ disk' = Before(r) /\ pc[r] \in {"restore", "write"} /\ torn' = torn
        /\ lost' = IF r \in unread THEN lost \union {draft[r].name} ELSE lost
    BY <1>7 DEF Restore, Restored, Before
  <2>3. Undamaged' => Undamaged /\ r \notin unread
    BY <2>2 DEF Undamaged
  <2>4. Undamaged' => Loads(disk')
    BY <2>2, <2>3 DEF UntilLoaded
  <2> QED
    BY <2>1, <2>2, <2>3, <2>4 DEF UntilLoaded, Loads
<1>8. ASSUME NEW r \in Savers, RestoreFails(r)
      PROVE  ((edits = 0 /\ unlisted = {}) => UntilLoaded)'
  <2> SUFFICES ASSUME edits = 0, unlisted = {} PROVE UntilLoaded'
    BY <1>8 DEF RestoreFails, history
  <2>1. \A s \in Savers : pc'[s] = "idle"
    BY <1>8, SaveIsOver DEF RestoreFails
  <2>2. ~Undamaged'
    BY <1>8 DEF RestoreFails, Undamaged
  <2> QED
    BY <2>1, <2>2 DEF UntilLoaded
<1>9. ASSUME NEW r \in Handlers, Glob(r)
      PROVE  ((edits = 0 /\ unlisted = {}) => UntilLoaded)'
  <2> SUFFICES ASSUME edits = 0, unlisted = {}, unlisted' = {} PROVE UntilLoaded'
    BY <1>9 DEF Glob
  <2>1. /\ UNCHANGED <<disk, draft, prior, torn, lost, unread>>
        /\ pc[r] = "glob" /\ pc' = [pc EXCEPT ![r] = "parse"]
        /\ loaded' = [loaded EXCEPT ![r] = {}]
    BY <1>9 DEF Glob, save
  <2>2. r \in Savers => files' = [files EXCEPT ![r] = Present]
    BY <1>9 DEF Glob
  <2>3. Replacing' = Replacing /\ Undamaged' = Undamaged
    BY <2>1 DEF Replacing, Undamaged, TypeOK
  <2>4. \A s \in Savers :
          /\ pc'[s] = IF s = r THEN "parse" ELSE pc[s]
          /\ s # r => files'[s] = files[s] /\ loaded'[s] = loaded[s]
          /\ s = r => Parsed(s)' = {}
    BY <1>9, <2>1, <2>2 DEF Glob, TypeOK, Handlers, Parsed, Present
  <2>5. \A s \in Savers : s # r => Parsed(s)' = Parsed(s)
    BY <2>1, <2>4 DEF Parsed
  <2> QED
    BY <2>1, <2>3, <2>4, <2>5 DEF UntilLoaded, Before, Loads
<1>10. ASSUME NEW r \in Handlers, NEW f \in Files, ParseFile(r, f)
       PROVE  ((edits = 0 /\ unlisted = {}) => UntilLoaded)'
  BY <1>10 DEF ParseFile, NextFile, Parses, schedulers, save, process, history, UntilLoaded,
     Undamaged, Replacing, Before, Parsed, Loads, TypeOK
<1>11. ASSUME NEW r \in Handlers, NEW f \in Files, LoadFails(r, f)
      PROVE  ((edits = 0 /\ unlisted = {}) => UntilLoaded)'
  <2>1. Replacing' = Replacing
    <3>1. pc[r] = "parse" /\ pc' = [pc EXCEPT ![r] = IF r \in Savers THEN "restore" ELSE "idle"]
      BY <1>11, LoadFailsMoves
    <3> QED
      BY <3>1 DEF Replacing, TypeOK, Handlers
  <2>2. /\ UNCHANGED <<disk, draft, prior, torn, edits, lost, unread, unlisted>>
        /\ pc[r] = "parse"
    BY <1>11, LoadFailsMoves DEF save, history
  <2>3. /\ files' = [files EXCEPT ![r] = {}] /\ loaded' = [loaded EXCEPT ![r] = {}]
        /\ pc' = [pc EXCEPT ![r] = IF r \in Savers THEN "restore" ELSE "idle"]
    BY <1>11, LoadFailsMoves
  <2>4. \A s \in Savers :
          /\ pc'[s] = IF s = r THEN "restore" ELSE pc[s]
          /\ s # r => files'[s] = files[s] /\ loaded'[s] = loaded[s]
    BY <2>3 DEF TypeOK, Handlers
  <2> QED
    BY <2>1, <2>2, <2>4 DEF UntilLoaded, Undamaged, Before, Parsed, Loads
<1>12. ASSUME NEW r \in Handlers, Install(r)
      PROVE  ((edits = 0 /\ unlisted = {}) => UntilLoaded)'
  BY <1>12 DEF Install, Installed, schedulers, save, process, history, UntilLoaded,
     Undamaged, Replacing, Before, Parsed, Loads, TypeOK
<1>13. ASSUME NEW r \in Handlers, SyncCron(r)
      PROVE  ((edits = 0 /\ unlisted = {}) => UntilLoaded)'
  BY <1>13 DEF Handlers, SyncCron, save, process, history, UntilLoaded, Undamaged,
     Replacing, Before, Parsed, Loads, TypeOK
<1>14. ASSUME NEW r \in Handlers, SyncConsumers(r)
      PROVE  ((edits = 0 /\ unlisted = {}) => UntilLoaded)'
  BY <1>14 DEF SyncConsumers, EndSave, save, SyncedConsumers, UntilLoaded, Undamaged,
     Replacing, Before, Parsed, Loads, TypeOK
<1>15. CASE Die
  <2>1. \A s \in Savers : pc'[s] = "idle"
    BY <1>15 DEF Die, history, Handlers
  <2>2. Undamaged' => Undamaged /\ Replacing = {}
    BY <1>15 DEF Die, history, Replacing, Undamaged
  <2>3. UNCHANGED <<disk, edits, unlisted>>
    BY <1>15 DEF Die, history
  <2> QED
    BY <2>1, <2>2, <2>3 DEF UntilLoaded, Loads
<1>16. CASE Restart
  BY <1>16 DEF Restart, history, save, UntilLoaded, Undamaged, Replacing, Before, Parsed,
     Loads, TypeOK
<1>17. CASE UNCHANGED vars
  BY <1>17 DEF vars, schedulers, save, process, history, UntilLoaded, Undamaged, Replacing,
     Before, Parsed, Loads, TypeOK
<1> QED
  BY <1>1, <1>2, <1>3, <1>4, <1>5, <1>6, <1>7, <1>8, <1>9, <1>10, <1>11, <1>12, <1>13,
     <1>14, <1>15, <1>16, <1>17 DEF Next, Load

\* A second request at a time overlaps.
LEMMA OneAtATimeKept ==
    ASSUME TypeOK, ~overlapped => OneAtATime, [Next]_vars
    PROVE  (~overlapped => OneAtATime)'
<1>1. ASSUME NEW f \in Files, NEW text \in Texts \union {NoText}, Edit(f, text)
      PROVE  (~overlapped => OneAtATime)'
  BY <1>1 DEF Edit, Begins, schedulers, save, process, history, OneAtATime, Settled,
     Handlers, TypeOK
<1>2. ASSUME NEW r \in Reloaders, ReloadWorkflows(r) PROVE (~overlapped => OneAtATime)'
  <2>1. /\ overlapped' = (overlapped \/ ~Settled)
        /\ pc' = [pc EXCEPT ![r] = "glob"]
    BY <1>2 DEF ReloadWorkflows, MayStart, Begins
  <2> QED
    BY <2>1 DEF OneAtATime, Settled, Handlers, TypeOK
<1>3. ASSUME NEW r \in Savers, NEW text \in Texts, BuilderSave(r, text)
      PROVE  (~overlapped => OneAtATime)'
  <2>1. /\ overlapped' = (overlapped \/ ~Settled)
        /\ pc' = [pc EXCEPT ![r] = "rename"]
    BY <1>3 DEF BuilderSave, KeepPrior, MayStart, Begins
  <2> QED
    BY <2>1 DEF OneAtATime, Settled, Handlers, TypeOK
<1>4. ASSUME NEW r \in Savers, Rename(r) PROVE (~overlapped => OneAtATime)'
  BY <1>4 DEF Rename, schedulers, save, process, history, OneAtATime, Settled, Handlers,
     TypeOK
<1>5. ASSUME NEW r \in Savers, DraftFails(r) PROVE (~overlapped => OneAtATime)'
  BY <1>5 DEF DraftFails, EndSave, history, Fault, schedulers, OneAtATime, Settled,
     Handlers, TypeOK
<1>6. ASSUME NEW r \in Savers, Truncate(r) PROVE (~overlapped => OneAtATime)'
  BY <1>6 DEF Truncate, schedulers, save, process, history, OneAtATime, Settled, Handlers,
     TypeOK
<1>7. ASSUME NEW r \in Savers, Restore(r) PROVE (~overlapped => OneAtATime)'
  BY <1>7 DEF Restore, EndSave, history, Restored, schedulers, process, OneAtATime, Settled,
     Handlers, TypeOK
<1>8. ASSUME NEW r \in Savers, RestoreFails(r) PROVE (~overlapped => OneAtATime)'
  BY <1>8 DEF RestoreFails, EndSave, history, Fault, schedulers, OneAtATime, Settled,
     Handlers, TypeOK
<1>9. ASSUME NEW r \in Handlers, Glob(r) PROVE (~overlapped => OneAtATime)'
  BY <1>9 DEF Glob, Present, schedulers, save, process, history, OneAtATime, Settled,
     Handlers, TypeOK
<1>10. ASSUME NEW r \in Handlers, NEW f \in Files, LoadFails(r, f)
       PROVE  (~overlapped => OneAtATime)'
  BY <1>10, LoadFailsMoves DEF schedulers, save, process, history, OneAtATime, Settled,
     Handlers, TypeOK
<1>11. ASSUME NEW r \in Handlers, Install(r) PROVE (~overlapped => OneAtATime)'
  BY <1>11 DEF Install, Installed, schedulers, save, process, history, OneAtATime, Settled,
     Handlers, TypeOK
<1>12. ASSUME NEW r \in Handlers, SyncCron(r) PROVE (~overlapped => OneAtATime)'
  BY <1>12 DEF Handlers, SyncCron, save, process, history, OneAtATime, Settled, TypeOK
<1>13. ASSUME NEW r \in Handlers, SyncConsumers(r) PROVE (~overlapped => OneAtATime)'
  BY <1>13 DEF SyncConsumers, EndSave, save, SyncedConsumers, OneAtATime, Settled, Handlers,
     TypeOK
<1>14. CASE Die
  BY <1>14 DEF Handlers, Die, history, Fault, OneAtATime, Settled, TypeOK
<1>15. CASE (\E r \in Handlers, f \in Files : ParseFile(r, f)) \/ Restart
  BY <1>15 DEF ParseFile, NextFile, Parses, schedulers, save, process, history, Restart,
     OneAtATime, Settled, Handlers, TypeOK
<1>16. CASE UNCHANGED vars
  BY <1>16 DEF vars, schedulers, save, process, history, OneAtATime, Settled, Handlers,
     TypeOK
<1> QED
  BY <1>1, <1>2, <1>3, <1>4, <1>5, <1>6, <1>7, <1>8, <1>9, <1>10, <1>11, <1>12, <1>13,
     <1>14, <1>15, <1>16 DEF Next, Load

\* The hook leaves both schedulers with what its load installed.
LEMMA InStepKept ==
    ASSUME TypeOK, DownIsSettled, ~overlapped => OneAtATime /\ InStep, [Next]_vars
    PROVE  (~overlapped => InStep)'
<1>1. ASSUME NEW f \in Files, NEW text \in Texts \union {NoText}, Edit(f, text)
      PROVE  (~overlapped => InStep)'
  BY <1>1 DEF Edit, Begins, schedulers, save, process, history, InStep, Syncing, Settled,
     Handlers, TypeOK
<1>2. ASSUME NEW r \in Reloaders, ReloadWorkflows(r) PROVE (~overlapped => InStep)'
  <2>1. /\ overlapped' = (overlapped \/ ~Settled)
        /\ pc' = [pc EXCEPT ![r] = "glob"]
        /\ UNCHANGED <<registry, cronJobs, consumers, loaded>>
    BY <1>2 DEF ReloadWorkflows, MayStart, Begins, schedulers
  <2>2. Settled => Syncing = {} /\ Syncing' = {}
    BY <2>1 DEF Settled, Syncing, TypeOK
  <2> QED
    BY <2>1, <2>2 DEF InStep
<1>3. ASSUME NEW r \in Savers, NEW text \in Texts, BuilderSave(r, text)
      PROVE  (~overlapped => InStep)'
  <2>1. /\ overlapped' = (overlapped \/ ~Settled)
        /\ pc' = [pc EXCEPT ![r] = "rename"]
        /\ UNCHANGED <<registry, cronJobs, consumers, loaded>>
    BY <1>3 DEF BuilderSave, KeepPrior, MayStart, Begins, schedulers
  <2>2. Settled => Syncing = {} /\ Syncing' = {}
    BY <2>1 DEF Settled, Syncing, TypeOK
  <2> QED
    BY <2>1, <2>2 DEF InStep
<1>4. ASSUME NEW r \in Savers, Rename(r) PROVE (~overlapped => InStep)'
  BY <1>4 DEF Rename, schedulers, save, process, history, InStep, Syncing, Settled,
     Handlers, TypeOK
<1>5. ASSUME NEW r \in Savers, DraftFails(r) PROVE (~overlapped => InStep)'
  BY <1>5 DEF DraftFails, EndSave, history, Fault, schedulers, InStep, Syncing, Settled,
     Handlers, TypeOK
<1>6. ASSUME NEW r \in Savers, Truncate(r) PROVE (~overlapped => InStep)'
  BY <1>6 DEF Truncate, schedulers, save, process, history, InStep, Syncing, Settled,
     Handlers, TypeOK
<1>7. ASSUME NEW r \in Savers, Restore(r) PROVE (~overlapped => InStep)'
  BY <1>7 DEF Restore, EndSave, history, Restored, schedulers, process, InStep, Syncing,
     Settled, Handlers, TypeOK
<1>8. ASSUME NEW r \in Savers, RestoreFails(r) PROVE (~overlapped => InStep)'
  BY <1>8 DEF RestoreFails, EndSave, history, Fault, schedulers, InStep, Syncing, Settled,
     Handlers, TypeOK
<1>9. ASSUME NEW r \in Handlers, Glob(r) PROVE (~overlapped => InStep)'
  BY <1>9 DEF Glob, Present, schedulers, save, process, history, InStep, Syncing, Settled,
     Handlers, TypeOK
<1>10. ASSUME NEW r \in Handlers, NEW f \in Files, ParseFile(r, f)
       PROVE  (~overlapped => InStep)'
  BY <1>10 DEF ParseFile, NextFile, Parses, schedulers, save, process, history, InStep,
     Syncing, Settled, Handlers, TypeOK
<1>11. ASSUME NEW r \in Handlers, NEW f \in Files, LoadFails(r, f)
      PROVE  (~overlapped => InStep)'
  <2>1. Syncing' = Syncing /\ r \notin Syncing
    BY <1>11, LoadFailsMoves DEF Syncing, TypeOK
  <2>2. \A s \in Syncing : pc'[s] = pc[s] /\ loaded'[s] = loaded[s]
    BY <1>11, <2>1, LoadFailsMoves DEF Syncing, TypeOK
  <2> QED
    BY <1>11, <2>1, <2>2, LoadFailsMoves DEF InStep, schedulers
<1>12. ASSUME NEW r \in Handlers, Install(r) PROVE (~overlapped => InStep)'
  <2>1. ~overlapped => Syncing' = {r}
    BY <1>12 DEF Install, OneAtATime, Syncing, TypeOK
  <2>2. pc'[r] = "cron" /\ registry' = loaded'[r]
    BY <1>12 DEF Install, Installed, TypeOK
  <2> QED
    BY <1>12, <2>1, <2>2 DEF Install, InStep
<1>13. ASSUME NEW r \in Handlers, SyncCron(r) PROVE (~overlapped => InStep)'
  BY <1>13 DEF Handlers, SyncCron, save, process, history, InStep, Syncing, Settled, TypeOK
<1>14. ASSUME NEW r \in Handlers, SyncConsumers(r) PROVE (~overlapped => InStep)'
  <2>1. ~overlapped => Syncing' = {} /\ r \in Syncing
    BY <1>14 DEF SyncConsumers, EndSave, save, OneAtATime, Syncing, TypeOK
  <2> QED
    BY <1>14, <2>1 DEF SyncConsumers, EndSave, save, SyncedConsumers, InStep
<1>15. CASE Die
  BY <1>15 DEF Handlers, Die, history, Fault, InStep, Syncing, Settled, TypeOK
<1>16. CASE Restart
  <2>1. Syncing = {} /\ Syncing' = {}
    BY <1>16 DEF Restart, history, DownIsSettled, Settled, Syncing
  <2> QED
    BY <1>16, <2>1 DEF Restart, history, InStep
<1>17. CASE UNCHANGED vars
  BY <1>17 DEF vars, schedulers, save, process, history, InStep, Syncing, Settled, Handlers,
     TypeOK
<1> QED
  BY <1>1, <1>2, <1>3, <1>4, <1>5, <1>6, <1>7, <1>8, <1>9, <1>10, <1>11, <1>12, <1>13,
     <1>14, <1>15, <1>16, <1>17 DEF Next, Load

\* What a load installs was accepted by the time the request is over.
LEMMA ReadsAcceptedKept ==
    ASSUME TypeOK, DownIsSettled, FilesAccepted, DraftOrAccepted, ~overlapped => OneAtATime
           /\ InStep /\ ReadsAccepted, [Next]_vars
    PROVE  (~overlapped => ReadsAccepted)'
<1>1. ASSUME NEW f \in Files, NEW text \in Texts \union {NoText}, Edit(f, text)
      PROVE  (~overlapped => ReadsAccepted)'
  BY <1>1 DEF Edit, Begins, schedulers, save, process, history, ReadsAccepted, Known,
     Loading, Syncing, TypeOK
<1>2. ASSUME NEW r \in Reloaders, ReloadWorkflows(r) PROVE (~overlapped => ReadsAccepted)'
  BY <1>2, ReloadAssumptions DEF Handlers, ReloadWorkflows, MayStart, Begins, schedulers,
     save, process, history, ReadsAccepted, Known, Loading, Syncing, TypeOK
<1>3. ASSUME NEW r \in Savers, NEW text \in Texts, BuilderSave(r, text)
      PROVE  (~overlapped => ReadsAccepted)'
  BY <1>3 DEF BuilderSave, KeepPrior, MayStart, Begins, SaveMuFree, schedulers, process,
     history, ReadsAccepted, Known, Loading, Syncing, TypeOK
<1>4. ASSUME NEW r \in Savers, Rename(r) PROVE (~overlapped => ReadsAccepted)'
  BY <1>4 DEF Rename, schedulers, save, process, history, ReadsAccepted, Known, Loading,
     Syncing, TypeOK
<1>5. ASSUME NEW r \in Savers, DraftFails(r) PROVE (~overlapped => ReadsAccepted)'
  BY <1>5 DEF DraftFails, EndSave, history, Fault, schedulers, ReadsAccepted, Known,
     Loading, Syncing, TypeOK
<1>6. ASSUME NEW r \in Savers, Truncate(r) PROVE (~overlapped => ReadsAccepted)'
  BY <1>6 DEF Truncate, schedulers, save, process, history, ReadsAccepted, Known, Loading,
     Syncing, TypeOK
<1>7. ASSUME NEW r \in Savers, Restore(r) PROVE (~overlapped => ReadsAccepted)'
  BY <1>7 DEF Restore, EndSave, history, Restored, schedulers, process, ReadsAccepted,
     Known, Loading, Syncing, TypeOK
<1>8. ASSUME NEW r \in Savers, RestoreFails(r) PROVE (~overlapped => ReadsAccepted)'
  BY <1>8 DEF RestoreFails, EndSave, history, Fault, schedulers, ReadsAccepted, Known,
     Loading, Syncing, TypeOK
<1>9. ASSUME NEW r \in Handlers, Glob(r) PROVE (~overlapped => ReadsAccepted)'
  BY <1>9 DEF Glob, Present, schedulers, save, process, history, ReadsAccepted, Known,
     Loading, Syncing, TypeOK
<1>10. ASSUME NEW r \in Handlers, NEW f \in Files, ParseFile(r, f)
      PROVE  (~overlapped => ReadsAccepted)'
  <2> SUFFICES ASSUME ~overlapped PROVE ReadsAccepted'
    BY <1>10 DEF ParseFile
  <2>1. /\ UNCHANGED <<pc, torn, disk, registry, accepted, draft>> /\ pc[r] = "parse"
        /\ loaded' = [loaded EXCEPT ![r] = @ \union {disk[f]}]
    BY <1>10 DEF ParseFile, NextFile, save, process, history
  <2>2. Replacing \subseteq {r}
    BY <2>1 DEF OneAtATime, Replacing, Handlers
  <2>3. disk[f] \notin Blank
    BY <1>10, BlanksFail DEF ParseFile, Parses
  <2>4. r \in Reloaders /\ torn = {} => Known(disk[f])
    <3> SUFFICES ASSUME r \in Reloaders, torn = {} PROVE Known(disk[f])
      OBVIOUS
    <3>1. Replacing = {}
      BY <2>2, ReloadAssumptions DEF Replacing
    <3> QED
      BY <2>3, <3>1 DEF FilesAccepted, Accepted, Known
  <2>5. r \in Savers /\ torn \subseteq {draft[r].name} => Known(disk[f]) \/ disk[f] = draft[r]
    <3> SUFFICES ASSUME r \in Savers, torn \subseteq {draft[r].name}
                 PROVE  Known(disk[f]) \/ disk[f] = draft[r]
      OBVIOUS
    <3>1. CASE f = draft[r].name
      BY <2>1, <3>1 DEF DraftOrAccepted, Replacing, Accepted, Known
    <3>2. CASE f # draft[r].name
      BY <2>2, <2>3, <3>2 DEF FilesAccepted, Accepted, Known
    <3> QED
      BY <3>1, <3>2
  <2>6. Loading' = Loading /\ Syncing' = Syncing /\ \A d : Known(d)' <=> Known(d)
    BY <2>1 DEF Loading, Syncing, Known
  <2>7. ASSUME NEW s \in Loading, NEW d \in loaded'[s]
        PROVE  d \in loaded[s] \/ (s = r /\ d = disk[f])
    BY <2>1, <2>7 DEF TypeOK, Loading
  <2> QED
    BY <2>1, <2>4, <2>5, <2>6, <2>7 DEF ReadsAccepted
<1>11. ASSUME NEW r \in Handlers, NEW f \in Files, LoadFails(r, f)
      PROVE  (~overlapped => ReadsAccepted)'
  <2>1. /\ UNCHANGED <<torn, accepted, registry, draft, overlapped>> /\ pc[r] = "parse"
        /\ pc' = [pc EXCEPT ![r] = IF r \in Savers THEN "restore" ELSE "idle"]
        /\ loaded' = [loaded EXCEPT ![r] = {}]
    BY <1>11, LoadFailsMoves DEF save, process, history
  <2>2. Loading' = Loading \ {r} /\ Syncing' = Syncing
    BY <2>1 DEF Loading, Syncing, TypeOK
  <2>3. \A s \in Loading' : loaded'[s] = loaded[s]
    BY <2>1, <2>2 DEF Loading, TypeOK
  <2> QED
    BY <2>1, <2>2, <2>3 DEF ReadsAccepted, Known
<1>12. ASSUME NEW r \in Handlers, Install(r) PROVE (~overlapped => ReadsAccepted)'
  BY <1>12 DEF Install, Installed, schedulers, save, process, history, ReadsAccepted, Known,
     Loading, Syncing, TypeOK
<1>13. ASSUME NEW r \in Handlers, SyncCron(r) PROVE (~overlapped => ReadsAccepted)'
  BY <1>13 DEF Handlers, SyncCron, save, process, history, ReadsAccepted, Known, Loading,
     Syncing, TypeOK
<1>14. ASSUME NEW r \in Handlers, SyncConsumers(r) PROVE (~overlapped => ReadsAccepted)'
  <2> SUFFICES ASSUME ~overlapped PROVE ReadsAccepted'
    BY <1>14 DEF SyncConsumers, EndSave, save
  <2>1. Loading' = {}
    BY <1>14 DEF SyncConsumers, EndSave, save, OneAtATime, Loading, TypeOK
  <2>2. registry' = loaded[r] /\ r \in Loading
    BY <1>14 DEF SyncConsumers, EndSave, save, InStep, Syncing, Loading
  <2>3. accepted \subseteq accepted'
    BY <1>14 DEF SyncConsumers, EndSave, save
  <2>4. ASSUME torn' = {}, NEW d \in loaded[r] PROVE Known(d)'
    <3>1. CASE r \in Savers
      <4>1. draft[r].name \in Files /\ <<draft[r].name, draft[r]>> \in accepted'
        BY <1>14, <3>1, SaverIsAlone DEF SyncConsumers, EndSave, save
      <4>2. torn \subseteq {draft[r].name}
        BY <1>14, <2>4, <3>1 DEF SyncConsumers, EndSave, save
      <4>3. Known(d) \/ d = draft[r]
        BY <2>2, <2>4, <3>1, <4>2 DEF ReadsAccepted
      <4> QED
        BY <2>3, <4>1, <4>3 DEF Known
    <3>2. CASE r \notin Savers
      <4>1. torn = {} /\ r \in Reloaders
        BY <1>14, <2>4, <3>2 DEF SyncConsumers, EndSave, save, Handlers
      <4> QED
        BY <2>2, <2>3, <2>4, <4>1 DEF ReadsAccepted, Known
    <3> QED
      BY <3>1, <3>2
  <2> QED
    BY <2>1, <2>2, <2>4 DEF ReadsAccepted
<1>15. CASE Die
  BY <1>15 DEF Handlers, Die, history, Fault, ReadsAccepted, Known, Loading, Syncing, TypeOK
<1>16. CASE Restart
  <2>1. Loading' = {} /\ Replacing = {}
    BY <1>16 DEF Restart, history, DownIsSettled, Settled, Loading, Replacing, Handlers
  <2>2. \A f \in Files : disk[f] # NoText => disk[f] \notin Blank
    BY <1>16, BlanksFail DEF Restart, Loads
  <2>3. torn = {} => \A d \in OnDisk : Known(d)
    BY <2>1, <2>2 DEF FilesAccepted, Accepted, OnDisk, Known
  <2> QED
    BY <1>16, <2>1, <2>3 DEF Restart, ReadsAccepted, Known
<1>17. CASE UNCHANGED vars
  BY <1>17 DEF vars, schedulers, save, process, history, ReadsAccepted, Known, Loading,
     Syncing, TypeOK
<1> QED
  BY <1>1, <1>2, <1>3, <1>4, <1>5, <1>6, <1>7, <1>8, <1>9, <1>10, <1>11, <1>12, <1>13,
     <1>14, <1>15, <1>16, <1>17 DEF Next, Load

-----------------------------------------------------------------------------
\* The theorems

\* What loads, saves and the reload hook rely on, with the files that reads which
\* failed unnoticed, or saves cut short, may have changed set apart.
THEOREM Invariance == Spec => []LInv
<1>1. LInv /\ [Next]_vars => LInv'
  <2> SUFFICES ASSUME LInv, [Next]_vars PROVE LInv'
    OBVIOUS
  <2> QED
    BY TypesKept, EditsKept, LoadsWellFormedKept, DownIsSettledKept, FilesAcceptedKept,
       PriorAcceptedKept, DraftOrAcceptedKept, UntilLoadedKept, OneAtATimeKept, InStepKept,
       ReadsAcceptedKept DEF LInv
<1> QED
  BY LInvInit, <1>1, PTL DEF Spec

\* The types; and a save holds saveMu from its first step to its answer
\* (BuilderSave).
THEOREM TypeCorrect == Spec => []TypeOK
<1>1. LInv => TypeOK
  BY DEF LInv
<1> QED
  BY Invariance, <1>1, PTL

\* The registry never holds a definition that is invalid, or two of one name,
\* however the files change while they are read (Registry.Load).
THEOREM RegistryIsWellFormed == Spec => []RegistryWellFormed
<1>1. LInv => RegistryWellFormed
  BY DEF LInv, LoadsWellFormed, WellFormed, RegistryWellFormed
<1> QED
  BY Invariance, <1>1, PTL

\* Once nobody saves, every file is as an operator or an accepted save left it,
\* whatever else fails: except where a save was cut short, or where one that was
\* rejected could not read the file it replaced (BuilderSave).
THEOREM RejectedDraftsGo == Spec => []RejectedNeverPersists
<1>1. LInv => RejectedNeverPersists
  BY DEF LInv, FilesAccepted, Blank, Replacing, Accepted, RejectedNeverPersists
<1> QED
  BY Invariance, <1>1, PTL

\* Without overlapping requests both schedulers run what the registry holds, and
\* no rejected draft is served (syncSchedulers).
THEOREM SchedulersAreInStep == Spec => []SchedulersFollow
<1>1. LInv => SchedulersFollow
  BY DEF LInv, InStep, ReadsAccepted, Syncing, Settled, Known, SchedulersFollow
<1> QED
  BY Invariance, <1>1, PTL

\* Saves alone, while what they read can be read and none is cut short, never
\* leave files the server does not start from (the restore of BuilderSave).
THEOREM ServerStartsAgain == Spec => []StartsAgain
<1>1. LInv => StartsAgain
  BY DEF LInv, DownIsSettled, Settled, UntilLoaded, Undamaged, Replacing, StartsAgain,
     Handlers
<1> QED
  BY Invariance, <1>1, PTL

=============================================================================
