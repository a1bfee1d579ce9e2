-------------------------------- MODULE Reload --------------------------------
(***************************************************************************)
(* Loading workflow definitions while the server runs: Registry.Load       *)
(* (internal/workflow/registry.go), called by the reload handler           *)
(* (internal/api/handler.go) and by the builder's save handler             *)
(* (internal/ui/ui.go), and the reload hook that hands the definitions to  *)
(* the cron scheduler and the instance poller (cmd/server/main.go).        *)
(*                                                                         *)
(* Only the swap of the registry map is under its lock: the files are read *)
(* before it, one by one, and the hook runs after it.                      *)
(***************************************************************************)
EXTENDS Naturals

CONSTANTS
    NumFiles,       \* file names, in the order Glob returns them
    Texts,          \* contents: [name, version, valid]; name is the file Builder saves to
    Reloaders,      \* requests to POST /workflows/reload
    Savers,         \* requests to save from the builder
    InitialDisk,    \* the files the server was started with; they load, or it had exited
    MaxEdits,       \* bound: changes an operator makes to the files
    MaxFaults,      \* bound: times the process dies or the disk refuses a read or a write
    NoText          \* no such file, or nothing to save

Files == 1 .. NumFiles
Handlers == Reloaders \union Savers

\* All files parse, validate and have names of their own.
Loads(dir) ==
    \A f \in Files : dir[f] # NoText =>
        /\ dir[f].valid
        /\ \A g \in Files \ {f} : dir[g] # NoText => dir[g].name # dir[f].name

\* An empty file: the definition it parses to has no name and does not validate.
EmptyText(f) == [name |-> f, version |-> 0, valid |-> FALSE]
EmptyTexts == {EmptyText(f) : f \in Files}

ASSUME ReloadAssumptions ==
    /\ NumFiles \in Nat /\ MaxEdits \in Nat /\ MaxFaults \in Nat
    /\ Texts \subseteq [name : Files, version : Nat, valid : BOOLEAN]
    /\ InitialDisk \in [Files -> Texts \union {NoText}] /\ Loads(InitialDisk)
    /\ Reloaders \intersect Savers = {}
    /\ NoText \notin Texts \union EmptyTexts \union Savers

VARIABLES
    disk,           \* the files of workflows.dir
    registry,       \* Registry.definitions
    cronJobs,       \* the definitions CronScheduler was last synced with
    consumers,      \* the definitions InstancePoller was last synced with
    pc,             \* where each request is
    files,          \* the files it has still to parse
    loaded,         \* the definitions it has parsed
    draft, prior,   \* what a save writes, and what was there before
    saveMu,         \* the saver that holds Handler.saveMu, or NoText
    answer,         \* how a request was answered
    accepted,       \* <<file, text>> an operator wrote or a save was answered ok for
    overlapped,     \* a load or an edit began while a request was under way
    edits,          \* operator edits so far
    up,             \* the process runs
    torn,           \* files of which a save was cut short, until one is accepted
    faults,
    \* History: what reads that failed unnoticed led to
    unread,         \* saves that could not read the file they replace
    lost,           \* files such a save was rejected for, until one is accepted
    unlisted        \* saves whose load did not see every file

schedulers == <<cronJobs, consumers>>
save == <<draft, prior, saveMu>>
history == <<unread, lost, unlisted>>
process == <<up, torn, faults, history>>
vars == <<disk, registry, schedulers, pc, files, loaded, save, answer, accepted, overlapped,
          edits, process>>

OnDisk == {disk[f] : f \in Files} \ {NoText}

Init ==
    /\ disk = InitialDisk
    /\ registry = OnDisk
    /\ cronJobs = registry
    /\ consumers = registry
    /\ pc = [r \in Handlers |-> "idle"]
    /\ files = [r \in Handlers |-> {}]
    /\ loaded = [r \in Handlers |-> {}]
    /\ draft = [r \in Savers |-> NoText]
    /\ prior = [r \in Savers |-> NoText]
    /\ saveMu = NoText
    /\ answer = [r \in Handlers |-> "none"]
    /\ accepted = {<<f, disk[f]>> : f \in Files}
    /\ overlapped = FALSE
    /\ edits = 0
    /\ up = TRUE
    /\ torn = {}
    /\ faults = 0
    /\ unread = {} /\ lost = {} /\ unlisted = {}

Settled == \A r \in Handlers : pc[r] = "idle"

\* What begins now overlaps with the requests under way.
Begins == overlapped' = (overlapped \/ ~Settled)

\* An operator writes or removes a file by hand.
Edit(f, text) ==
    /\ edits < MaxEdits
    /\ Begins
    /\ edits' = edits + 1
    /\ disk' = [disk EXCEPT ![f] = text]
    /\ accepted' = accepted \union {<<f, text>>}
    /\ UNCHANGED <<registry, schedulers, pc, files, loaded, save, answer, process>>

MayStart(r) ==
    /\ up
    /\ pc[r] = "idle"
    /\ answer[r] = "none"
    /\ Begins

ReloadWorkflows(r) ==
    /\ MayStart(r)
    /\ pc' = [pc EXCEPT ![r] = "glob"]
    /\ UNCHANGED <<disk, registry, schedulers, files, loaded, save, answer,
                   accepted, edits, process>>

\* Slip: saves are not serialized.
SaveMuUnused == TRUE

SaveMuFree == saveMu = NoText

Fault == faults < MaxFaults /\ faults' = faults + 1

\* The file as it is. The error of ReadFile is ignored: a file that cannot be
\* opened counts as absent, one that cannot be read as empty.
KeepPrior(r, f) ==
    \/ /\ prior' = [prior EXCEPT ![r] = disk[f]]
       /\ UNCHANGED <<faults, unread>>
    \/ /\ disk[f] # NoText
       /\ Fault
       /\ \E text \in {NoText, EmptyText(f)} : prior' = [prior EXCEPT ![r] = text]
       /\ unread' = unread \union {r}

\* BuilderSave: lock, keep the file's current content, rename the draft over it.
BuilderSave(r, text) ==
    /\ MayStart(r)
    /\ SaveMuFree
    /\ saveMu' = r
    /\ draft' = [draft EXCEPT ![r] = text]
    /\ KeepPrior(r, text.name)
    /\ pc' = [pc EXCEPT ![r] = "rename"]
    /\ UNCHANGED <<disk, registry, schedulers, files, loaded, answer, accepted, edits,
                   up, torn, lost, unlisted>>

Rename(r) ==
    /\ pc[r] = "rename"
    /\ disk' = [disk EXCEPT ![draft[r].name] = draft[r]]
    /\ pc' = [pc EXCEPT ![r] = "glob"]
    /\ UNCHANGED <<registry, schedulers, files, loaded, save, answer,
                   accepted, overlapped, edits, process>>

\* A save returns: it unlocks saveMu.
EndSave(r) ==
    /\ saveMu' = NoText
    /\ draft' = [draft EXCEPT ![r] = NoText]
    /\ prior' = [prior EXCEPT ![r] = NoText]

\* The draft cannot be created, written or renamed: the file is as it was.
DraftFails(r) ==
    /\ pc[r] = "rename"
    /\ Fault
    /\ EndSave(r)
    /\ pc' = [pc EXCEPT ![r] = "idle"]
    /\ answer' = [answer EXCEPT ![r] = "error"]
    /\ UNCHANGED <<disk, registry, schedulers, files, loaded, accepted, overlapped,
                   edits, up, torn, history>>

-----------------------------------------------------------------------------
\* Registry.Load

Present == {f \in Files : disk[f] # NoText}

\* filepath.Glob ignores the errors of reading the directory: it returns what
\* it has found.
Glob(r) ==
    /\ pc[r] = "glob"
    /\ \/ /\ files' = [files EXCEPT ![r] = Present]
          /\ UNCHANGED <<faults, unlisted>>
       \/ /\ Fault
          /\ \E found \in SUBSET Present \ {Present} : files' = [files EXCEPT ![r] = found]
          /\ unlisted' = unlisted \union ({r} \intersect Savers)
    /\ loaded' = [loaded EXCEPT ![r] = {}]
    /\ pc' = [pc EXCEPT ![r] = "parse"]
    /\ UNCHANGED <<disk, registry, schedulers, save, answer,
                   accepted, overlapped, edits, up, torn, unread, lost>>

\* Slip: a file that does not parse, or is gone, does not stop the load.
ParsesAnyway(r, text) == \A d \in loaded[r] : d.name # text.name

\* ParseFile succeeds and the name is new.
Parses(r, text) ==
    /\ text # NoText
    /\ text.valid
    /\ \A d \in loaded[r] : d.name # text.name

NextFile(r, f) ==
    /\ pc[r] = "parse"
    /\ f \in files[r]
    /\ \A g \in files[r] : f <= g

ParseFile(r, f) ==
    /\ NextFile(r, f)
    /\ Parses(r, disk[f])
    /\ files' = [files EXCEPT ![r] = @ \ {f}]
    /\ loaded' = [loaded EXCEPT ![r] = @ \union {disk[f]}]
    /\ UNCHANGED <<disk, registry, schedulers, pc, save, answer,
                   accepted, overlapped, edits, process>>

\* The first file that fails, or cannot be read, ends the load; nothing was
\* installed.
LoadFails(r, f) ==
    /\ NextFile(r, f)
    /\ \/ ~Parses(r, disk[f]) /\ UNCHANGED faults
       \/ Fault
    /\ files' = [files EXCEPT ![r] = {}]
    /\ loaded' = [loaded EXCEPT ![r] = {}]
    /\ IF r \in Savers
         THEN /\ pc' = [pc EXCEPT ![r] = "restore"]
              /\ UNCHANGED answer
         ELSE /\ pc' = [pc EXCEPT ![r] = "idle"]
              /\ answer' = [answer EXCEPT ![r] = "error"]
    /\ UNCHANGED <<disk, registry, schedulers, save, accepted, overlapped, edits, up, torn,
                   history>>

Installed(r) == loaded[r]

Install(r) ==
    /\ pc[r] = "parse"
    /\ files[r] = {}
    /\ registry' = Installed(r)
    /\ pc' = [pc EXCEPT ![r] = "cron"]
    /\ UNCHANGED <<disk, schedulers, files, loaded, save, answer,
                   accepted, overlapped, edits, process>>

\* The hook, syncSchedulers, outside the registry's lock; each Sync has a lock
\* of its own.
SyncCron(r) ==
    /\ pc[r] = "cron"
    /\ cronJobs' = loaded[r]
    /\ pc' = [pc EXCEPT ![r] = "consumers"]
    /\ UNCHANGED <<disk, registry, consumers, files, loaded, save, answer,
                   accepted, overlapped, edits, process>>

\* Slip: the consumers keep what they were started with.
SyncNoConsumers(r) == consumers

SyncedConsumers(r) == loaded[r]

SyncConsumers(r) ==
    /\ pc[r] = "consumers"
    /\ consumers' = SyncedConsumers(r)
    /\ loaded' = [loaded EXCEPT ![r] = {}]
    /\ pc' = [pc EXCEPT ![r] = "idle"]
    /\ answer' = [answer EXCEPT ![r] = "ok"]
    /\ IF r \in Savers
         THEN /\ EndSave(r)
              /\ accepted' = accepted \union {<<draft[r].name, draft[r]>>}
              /\ torn' = torn \ {draft[r].name}
              /\ lost' = lost \ {draft[r].name}
         ELSE UNCHANGED <<save, accepted, torn, lost>>
    /\ UNCHANGED <<disk, registry, cronJobs, files, overlapped, edits, up, faults,
                   unread, unlisted>>

\* BuilderSave after a failed Load: put the file back, or remove it. WriteFile
\* truncates the file before it writes: a load in between reads an empty one.
Truncate(r) ==
    /\ pc[r] = "restore"
    /\ prior[r] # NoText
    /\ disk' = [disk EXCEPT ![draft[r].name] = EmptyText(draft[r].name)]
    /\ pc' = [pc EXCEPT ![r] = "write"]
    /\ UNCHANGED <<registry, schedulers, files, loaded, save, answer,
                   accepted, overlapped, edits, process>>

\* Slip: a file that was not there before is left.
RestoredIfAny(r) == IF prior[r] = NoText THEN draft[r] ELSE prior[r]

Restored(r) == prior[r]

Restore(r) ==
    /\ \/ pc[r] = "write"
       \/ pc[r] = "restore" /\ prior[r] = NoText
    /\ disk' = [disk EXCEPT ![draft[r].name] = Restored(r)]
    /\ EndSave(r)
    /\ pc' = [pc EXCEPT ![r] = "idle"]
    /\ answer' = [answer EXCEPT ![r] = "error"]
    /\ lost' = IF r \in unread THEN lost \union {draft[r].name} ELSE lost
    /\ UNCHANGED <<registry, schedulers, files, loaded,
                   accepted, overlapped, edits, up, torn, faults, unread, unlisted>>

\* The errors of WriteFile and Remove are ignored: the file stays truncated, or
\* the draft in its place.
RestoreFails(r) ==
    /\ pc[r] \in {"restore", "write"}
    /\ Fault
    /\ torn' = torn \union {draft[r].name}
    /\ EndSave(r)
    /\ pc' = [pc EXCEPT ![r] = "idle"]
    /\ answer' = [answer EXCEPT ![r] = "error"]
    /\ UNCHANGED <<disk, registry, schedulers, files, loaded, accepted, overlapped,
                   edits, up, history>>

-----------------------------------------------------------------------------
\* The process dies, in the middle of whatever it was doing; a draft that was
\* renamed stays, and so does a file that was truncated.
Die ==
    /\ up
    /\ Fault
    /\ up' = FALSE
    /\ torn' = torn \union {draft[r].name : r \in {q \in Savers : pc[q] \notin {"idle", "rename"}}}
    /\ registry' = {} /\ cronJobs' = {} /\ consumers' = {}
    /\ pc' = [r \in Handlers |-> "idle"]
    /\ files' = [r \in Handlers |-> {}]
    /\ loaded' = [r \in Handlers |-> {}]
    /\ draft' = [r \in Savers |-> NoText]
    /\ prior' = [r \in Savers |-> NoText]
    /\ saveMu' = NoText
    /\ answer' = [r \in Handlers |-> IF pc[r] = "idle" THEN answer[r] ELSE "error"]
    /\ UNCHANGED <<disk, accepted, overlapped, edits, history>>

\* main loads before anything else runs; if that fails it exits.
Restart ==
    /\ ~up
    /\ Loads(disk)
    /\ up' = TRUE
    /\ registry' = OnDisk /\ cronJobs' = OnDisk /\ consumers' = OnDisk
    /\ UNCHANGED <<disk, pc, files, loaded, save, answer, accepted, overlapped, edits, torn, faults,
                   history>>

-----------------------------------------------------------------------------
Load(r) ==
    \/ Glob(r)
    \/ \E f \in Files : ParseFile(r, f) \/ LoadFails(r, f)
    \/ Install(r)
    \/ SyncCron(r)
    \/ SyncConsumers(r)

Next ==
    \/ \E f \in Files, text \in Texts \union {NoText} : Edit(f, text)
    \/ \E r \in Reloaders : ReloadWorkflows(r)
    \/ \E r \in Savers :
        \/ \E text \in Texts : BuilderSave(r, text)
        \/ Rename(r)
        \/ DraftFails(r)
        \/ Truncate(r)
        \/ Restore(r)
        \/ RestoreFails(r)
    \/ \E r \in Handlers : Load(r)
    \/ Die
    \/ Restart

Spec == Init /\ [][Next]_vars

-----------------------------------------------------------------------------
\* Types; and a save holds saveMu from its first step to its answer, also over
\* a failed load and the restore.
TypeOK ==
    /\ disk \in [Files -> Texts \union EmptyTexts \union {NoText}]
    /\ registry \subseteq Texts /\ cronJobs \subseteq Texts /\ consumers \subseteq Texts
    /\ pc \in [Handlers -> {"idle", "rename", "glob", "parse", "restore", "write",
                            "cron", "consumers"}]
    /\ files \in [Handlers -> SUBSET Files]
    /\ loaded \in [Handlers -> SUBSET Texts]
    /\ draft \in [Savers -> Texts \union {NoText}]
    /\ prior \in [Savers -> Texts \union EmptyTexts \union {NoText}]
    /\ answer \in [Handlers -> {"none", "ok", "error"}]
    /\ saveMu \in Savers \union {NoText}
    /\ up \in BOOLEAN
    /\ torn \subseteq Files
    /\ unread \subseteq Savers /\ lost \subseteq Files /\ unlisted \subseteq Savers
    /\ \A r \in Savers : pc[r] # "idle" <=> (saveMu = r /\ draft[r] \in Texts)
    /\ \A r \in Reloaders : pc[r] \notin {"rename", "restore", "write"}

\* The registry only ever holds definitions that validated, one per name, even
\* when files change while they are read (Load installs all or nothing).
RegistryWellFormed ==
    \A d \in registry :
        /\ d.valid
        /\ \A e \in registry : e.name = d.name => e = d

\* A definition whose save was answered with an error is not left on the disk:
\* when nobody saves, every file is as an operator or an accepted save left it,
\* although saves read, replace and put back files that others save too. Only
\* two kinds of files may be otherwise: that of a save that was cut short, by
\* the end of the process or by a restore that failed, and that of a rejected
\* save that could not read the file it replaced (although ui.go:951 says "put back
\* the original file or remove if it was new").
RejectedNeverPersists ==
    (\A r \in Savers : pc[r] = "idle") =>
        \A f \in Files \ (torn \union lost) : <<f, disk[f]>> \in accepted

\* As long as requests did not overlap, the schedulers run what the registry
\* holds once a load is over, also if it failed halfway (syncSchedulers), and
\* that is what operators wrote or saves were accepted for: no rejected draft is
\* served (a reload beside the save might have read it).
SchedulersFollow ==
    (~overlapped /\ Settled) =>
        /\ cronJobs = registry /\ consumers = registry
        /\ torn = {} => \A d \in registry : \E f \in Files : <<f, d>> \in accepted

\* Saves alone, accepted or rejected, two at a time or beside a reload, never
\* leave files the server does not start from again (the restore of BuilderSave);
\* that takes an operator, a save that is cut short, or one that could not read
\* the file it replaced or list the directory it loads.
StartsAgain == (~up /\ torn \union lost \union unlisted = {} /\ edits = 0) => Loads(disk)

=============================================================================
