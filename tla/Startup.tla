------------------------------- MODULE Startup -------------------------------
(***************************************************************************)
(* Which server process runs the watchers: OpenBench/apps.py, in the       *)
(* processes that Deploy/server/entrypoint.sh starts.  Every process that  *)
(* loads the application opens the lock file and tries to lock it; the one *)
(* that succeeds runs the ArtifactWatcher and the PGNWatcher, the others   *)
(* never try again.  The lock belongs to the file that was opened, which   *)
(* need not be the one that has the name now.                              *)
(***************************************************************************)
EXTENDS Naturals

CONSTANTS
    Processes,     \* gunicorn's workers
    Migration,     \* the command that runs before them
    NoFile,        \* no file has the name
    MaxFiles,      \* bound: lock files ever created
    MaxEnds        \* bound: processes that end, by a signal or in order

ASSUME StartupAssumption ==
    /\ MaxFiles \in Nat \ {0} /\ MaxEnds \in Nat
    /\ Migration \notin Processes /\ NoFile \notin Nat \ {0}

VARIABLES
    process,    \* process[p]: "new", "opened", "watches", "serves", "removes" or "gone"
    opened,     \* opened[p]: the file it opened
    named,      \* the file with the name LOCKFILE_PATH
    files,      \* the number of files created
    ends,       \* the number of processes that ended
    overtaken   \* history: a file was removed under a process that had opened it

startupVars == <<process, opened, named, files, ends, overtaken>>

Everyone == Processes \cup {Migration}

\* The master of gunicorn starts its workers after the migration, and another
\* worker for one that is gone.
MayStart(p) == p = Migration \/ process[Migration] = "gone"

OpenLockfile_Exclusive(p) ==
    /\ process[p] = "new" /\ MayStart(p)
    /\ IF named = NoFile
       THEN /\ files < MaxFiles
            /\ files' = files + 1 /\ named' = files'
            /\ opened' = [opened EXCEPT ![p] = named']
            /\ process' = [process EXCEPT ![p] = "opened"]
       ELSE /\ process' = [process EXCEPT ![p] = "serves"]
            /\ UNCHANGED <<files, named, opened>>
    /\ UNCHANGED <<ends, overtaken>>

\* open(LOCKFILE_PATH, 'w') in acquire_watcher_lockfile.
OpenLockfile(p) ==
    /\ process[p] = "new" /\ MayStart(p)
    /\ named = NoFile => files < MaxFiles
    /\ files' = IF named = NoFile THEN files + 1 ELSE files
    /\ named' = IF named = NoFile THEN files + 1 ELSE named
    /\ opened' = [opened EXCEPT ![p] = named']
    /\ process' = [process EXCEPT ![p] = "opened"]
    /\ UNCHANGED <<ends, overtaken>>

Locked(f) == \E p \in Everyone : process[p] = "watches" /\ opened[p] = f

\* lockf, which does not wait, and the start of the watchers.
TryLock(p) ==
    /\ process[p] = "opened"
    /\ process' = [process EXCEPT ![p] = IF Locked(opened[p]) THEN "serves" ELSE "watches"]
    /\ UNCHANGED <<opened, named, files, ends, overtaken>>

\* OpenBenchConfig.shutdown, registered by the process that watches: it stops the
\* watchers, closes the file, and removes what has its name then.
EndInOrder(p) ==
    /\ process[p] \in {"watches", "serves"}
    /\ p \in Processes => ends < MaxEnds
    /\ ends' = IF p \in Processes THEN ends + 1 ELSE ends
    /\ process' = [process EXCEPT ![p] = IF @ = "watches" THEN "removes" ELSE "gone"]
    /\ UNCHANGED <<opened, named, files, overtaken>>

RemoveLockfile(p) ==
    /\ process[p] = "removes"
    /\ named' = NoFile
    /\ overtaken' = (overtaken \/ \E o \in Everyone \ {p} :
           process[o] \in {"opened", "watches"} /\ opened[o] = named)
    /\ process' = [process EXCEPT ![p] = "gone"]
    /\ UNCHANGED <<opened, files, ends>>

\* A signal, or gunicorn's timeout: the lock is gone with the process, the file
\* stays.
Killed(p) ==
    /\ p \in Processes /\ process[p] \notin {"new", "gone"} /\ ends < MaxEnds
    /\ ends' = ends + 1
    /\ process' = [process EXCEPT ![p] = "gone"]
    /\ UNCHANGED <<opened, named, files, overtaken>>

Replace(p) ==
    /\ p \in Processes /\ process[p] = "gone"
    /\ process' = [process EXCEPT ![p] = "new"]
    /\ UNCHANGED <<opened, named, files, ends, overtaken>>

-----------------------------------------------------------------------------
\* A lock file may be left from before.
StartupInit ==
    /\ process = [p \in Everyone |-> "new"]
    /\ opened = [p \in Everyone |-> NoFile]
    /\ named \in {NoFile, 1}
    /\ files = 1 /\ ends = 0 /\ overtaken = FALSE

\* The migration ends by itself, as does everything that begins to start or end.
StartupStep ==
    \/ EndInOrder(Migration)
    \/ \E p \in Everyone : OpenLockfile(p) \/ TryLock(p) \/ RemoveLockfile(p) \/ Replace(p)

StartupNext == StartupStep \/ \E p \in Processes : EndInOrder(p) \/ Killed(p)

StartupSpec == StartupInit /\ [][StartupNext]_startupVars /\ WF_startupVars(StartupStep)

-----------------------------------------------------------------------------
Watching == {p \in Everyone : process[p] = "watches"}

\* The types of the variables.
StartupTypeOK ==
    /\ process \in [Everyone -> {"new", "opened", "watches", "serves", "removes", "gone"}]
    /\ opened \in [Everyone -> 1 .. MaxFiles \cup {NoFile}]
    /\ named \in 1 .. MaxFiles \cup {NoFile} /\ files \in 1 .. MaxFiles
    /\ ends \in 0 .. MaxEnds /\ overtaken \in BOOLEAN

\* One process at a time runs the watchers, unless one that ended removed the file
\* that another had opened meanwhile (apps.py: "globally once"; entrypoint.sh: "only
\* one set runs per host").
OnceUnlessOvertaken == overtaken \/ \A p, q \in Watching : p = q

\* That, and however processes end, and whatever file they leave, some process runs
\* the watchers again in the end (apps.py, acquire_watcher_lockfile and shutdown).
WatchersRunOnce == []OnceUnlessOvertaken /\ <>[](Watching # {})
=============================================================================
