----------------------------- MODULE Supervision -----------------------------
(***************************************************************************)
(* The processes on a worker's machine: the restart loops that people      *)
(* start (Deploy/worker/setup_worker.sh, or older ones), the client each   *)
(* of them runs (Client/client.py, worker.py), and the SPSA tuner that a   *)
(* client starts detached (Client/spsa_rshogi.py).                         *)
(*                                                                         *)
(* Whoever connects again starts another loop from the same directory.     *)
(* A new loop first stops those it finds; a client that finds the lock of  *)
(* the directory taken ends with 65, and one whose key is revoked with 66, *)
(* and loops that know these codes end with it.  An older loop is killed   *)
(* by the client, if its command line shows what it is.                    *)
(***************************************************************************)
EXTENDS Naturals, FiniteSets

CONSTANTS
    Loops,          \* the restart loops
    Acks,           \* those that know the exit codes: SHOGIBENCH_WRAPPER_ACK
    Named,          \* those with the script's name in their command line
    Shells,         \* those that are shells; others are supervisors of their own
    Keyed,          \* those that sign in with a worker key; others use a password
    Nobody,         \* in place of a loop
    MaxSupEvents    \* bound: crashes, and what people do

ASSUME SupervisionAssumption ==
    /\ Acks \cup Named \subseteq Shells /\ Shells \cup Keyed \subseteq Loops /\ Nobody \notin Loops
    /\ MaxSupEvents \in Nat

VARIABLES
    loop,       \* loop[l]: "absent", "boot", "check", "loop", "failed" or "ended"
    client,     \* client[l]: the client that l runs: "none", "start", "asks", "works",
                \* "updates", "refused" (it repeats a request in vain) or "hung"
    booting,    \* the loop that holds the lock of the bootstrap
    dirLock,    \* the loop whose client holds .worker.lock
    exitFile,   \* openbench.exit is there
    keyGood,    \* the worker key is enabled
    outdated,   \* the server was deployed with another client version
    tuner,      \* a detached tuner runs
    supEvents

supVars == <<loop, client, booting, dirLock, exitFile, keyGood, outdated, tuner, supEvents>>

SupEvent == supEvents < MaxSupEvents /\ supEvents' = supEvents + 1

\* What is asked with this credential is answered with the flag shutdown.
Revoked(l) == ~keyGood /\ l \in Keyed

-----------------------------------------------------------------------------
(* setup_worker.sh.                                                        *)

\* Two at nearly the same moment: the second one ends.
ConnectAgain(l) ==
    /\ loop[l] \in {"absent", "failed"} /\ l \in Acks /\ SupEvent
    /\ IF booting = Nobody
       THEN loop' = [loop EXCEPT ![l] = "boot"] /\ booting' = l
       ELSE loop' = [loop EXCEPT ![l] = "ended"] /\ UNCHANGED booting
    /\ UNCHANGED <<client, dirLock, exitFile, keyGood, outdated, tuner>>

\* stop_previous_workers finds a loop by its name, or, when it is a shell, as
\* the parent of a client; clients are killed wherever they come from.
Found(o) == o \in Named \/ (o \in Shells /\ client[o] # "none")

TakeOver(l) ==
    /\ loop[l] = "boot"
    /\ loop' = [o \in Loops |->
           IF o = l THEN "check"
           ELSE IF loop[o] \in {"check", "loop"} /\ Found(o) THEN "ended" ELSE loop[o]]
    /\ client' = [o \in Loops |-> "none"]
    /\ dirLock' = Nobody /\ booting' = Nobody
    /\ UNCHANGED <<exitFile, keyGood, outdated, tuner, supEvents>>

\* A refused credential ends the bootstrap; else the stop mark is withdrawn.
CheckKey(l) ==
    /\ loop[l] = "check"
    /\ loop' = [loop EXCEPT ![l] = IF Revoked(l) THEN "failed" ELSE "loop"]
    /\ exitFile' = (exitFile /\ Revoked(l))
    /\ UNCHANGED <<client, booting, dirLock, keyGood, outdated, tuner, supEvents>>

\* No answer ends it too, after it has stopped the loop there was before.
CheckUnanswered(l) ==
    /\ loop[l] = "check" /\ SupEvent
    /\ loop' = [loop EXCEPT ![l] = "failed"]
    /\ UNCHANGED <<client, booting, dirLock, exitFile, keyGood, outdated, tuner>>

StartClient(l) ==
    /\ loop[l] = "loop" /\ client[l] = "none"
    /\ client' = [client EXCEPT ![l] = "start"]
    /\ UNCHANGED <<loop, booting, dirLock, exitFile, keyGood, outdated, tuner, supEvents>>

-----------------------------------------------------------------------------
(* The client.                                                             *)

ExitForGood_AckOnly(l) ==
    /\ client' = [client EXCEPT ![l] = "none"]
    /\ loop' = [loop EXCEPT ![l] = IF l \in Acks THEN "ended" ELSE @]

\* sys.exit(65) or sys.exit(66) after terminate_legacy_wrapper.
ExitForGood(l) ==
    /\ client' = [client EXCEPT ![l] = "none"]
    /\ loop' = [loop EXCEPT ![l] = IF l \in Acks \cup Named THEN "ended" ELSE @]

\* acquire_single_instance_lock, where the file system has flock.  A process
\* that ends lets go of the lock it held.
TakeLock(l) ==
    /\ client[l] = "start"
    /\ IF dirLock = Nobody
       THEN /\ dirLock' = l /\ client' = [client EXCEPT ![l] = "asks"]
            /\ UNCHANGED loop
       ELSE /\ ExitForGood(l)
            /\ dirLock' = IF dirLock = l THEN Nobody ELSE dirLock
    /\ UNCHANGED <<booting, exitFile, keyGood, outdated, tuner, supEvents>>

\* stop_all_running_spsa, which finds them by their run directories.
StopDetachedTuner == tuner' = FALSE

\* shutdown_if_revoked, or openbench.exit.
Shutdown(l) ==
    /\ StopDetachedTuner
    /\ ExitForGood(l)
    /\ dirLock' = Nobody
    /\ UNCHANGED <<booting, exitFile, keyGood, outdated, supEvents>>

\* wait_for_server_version and the registration: the credential comes first.
Ask(l) ==
    /\ client[l] = "asks"
    /\ \/ Revoked(l) /\ Shutdown(l)
       \/ /\ ~Revoked(l)
          /\ client' = [client EXCEPT ![l] = IF outdated THEN "updates" ELSE "works"]
          /\ UNCHANGED <<loop, booting, dirLock, exitFile, keyGood, outdated, tuner, supEvents>>

\* The loop of run_openbench_worker, with workloads that run a tuner.  The server
\* compares the version before it looks at the key.
Work(l) ==
    /\ client[l] = "works"
    /\ \/ exitFile /\ Shutdown(l)
       \/ ~outdated /\ Revoked(l) /\ Shutdown(l)
       \/ /\ ~outdated /\ ~Revoked(l) /\ ~exitFile
          /\ tuner' = ~tuner
          /\ UNCHANGED <<loop, client, booting, dirLock, exitFile, keyGood, outdated, supEvents>>
       \/ /\ outdated
          /\ client' = [client EXCEPT ![l] = "updates"]
          /\ UNCHANGED <<loop, booting, dirLock, exitFile, keyGood, outdated, tuner, supEvents>>

\* The session's Machine row was removed or is another session's, or the
\* configuration of the server changed: try_forever asks for a workload again
\* and again, and of all refusals only that of the version gets through.
RefuseSession(l) ==
    /\ client[l] = "works" /\ SupEvent
    /\ client' = [client EXCEPT ![l] = "refused"]
    /\ UNCHANGED <<loop, booting, dirLock, exitFile, keyGood, outdated, tuner>>

AskInVain(l) ==
    /\ client[l] = "refused" /\ outdated
    /\ client' = [client EXCEPT ![l] = "updates"]
    /\ UNCHANGED <<loop, booting, dirLock, exitFile, keyGood, outdated, tuner, supEvents>>

\* A call without a timeout stalls: the files of the client or of the match
\* runner, or what a workload needs (Preparation).
HangClient(l) ==
    /\ client[l] \in {"asks", "works", "updates"} /\ SupEvent
    /\ client' = [client EXCEPT ![l] = "hung"]
    /\ UNCHANGED <<loop, booting, dirLock, exitFile, keyGood, outdated, tuner>>

UpdateClient_HoldsLock(l) ==
    /\ client[l] = "updates" /\ ~Revoked(l)
    /\ client' = [client EXCEPT ![l] = "start"]
    /\ outdated' = FALSE
    /\ UNCHANGED <<loop, booting, dirLock, exitFile, keyGood, tuner, supEvents>>

\* The main loop of client.py: the files are fetched and worker is loaded again,
\* which drops the only reference to the lock.  A refusal is repeated.
UpdateClient(l) ==
    /\ client[l] = "updates" /\ ~Revoked(l)
    /\ client' = [client EXCEPT ![l] = "start"]
    /\ dirLock' = Nobody /\ outdated' = FALSE
    /\ UNCHANGED <<loop, booting, exitFile, keyGood, tuner, supEvents>>

-----------------------------------------------------------------------------
\* A client is killed; the tuner goes on.
CrashClient(l) ==
    /\ client[l] # "none" /\ SupEvent
    /\ client' = [client EXCEPT ![l] = "none"]
    /\ dirLock' = IF dirLock = l THEN Nobody ELSE dirLock
    /\ UNCHANGED <<loop, booting, exitFile, keyGood, outdated, tuner>>

RevokeKey ==
    /\ SupEvent /\ keyGood
    /\ keyGood' = FALSE
    /\ UNCHANGED <<loop, client, booting, dirLock, exitFile, outdated, tuner>>

TouchExit ==
    /\ SupEvent /\ ~exitFile
    /\ exitFile' = TRUE
    /\ UNCHANGED <<loop, client, booting, dirLock, keyGood, outdated, tuner>>

DeployServer ==
    /\ SupEvent /\ ~outdated
    /\ outdated' = TRUE
    /\ UNCHANGED <<loop, client, booting, dirLock, exitFile, keyGood, tuner>>

\* Loops that do not know the codes were started before there were any; which
\* of them still turn on this machine is open.
SupInit ==
    /\ loop \in {f \in [Loops -> {"absent", "loop"}] : \A l \in Acks : f[l] = "absent"}
    /\ client = [l \in Loops |-> "none"]
    /\ booting = Nobody /\ dirLock = Nobody
    /\ exitFile = FALSE /\ keyGood = TRUE /\ outdated = FALSE /\ tuner = FALSE /\ supEvents = 0

SupStep(l) ==
    \/ TakeOver(l) \/ CheckKey(l) \/ StartClient(l) \/ TakeLock(l)
    \/ Ask(l) \/ Work(l) \/ AskInVain(l) \/ UpdateClient(l)

SupNext ==
    \/ \E l \in Loops :
          \/ SupStep(l) \/ ConnectAgain(l) \/ CheckUnanswered(l)
          \/ RefuseSession(l) \/ HangClient(l) \/ CrashClient(l)
    \/ RevokeKey \/ TouchExit \/ DeployServer

\* Each process goes on, but for a client that hangs; the server is reached again
\* and again.
SupSpec == SupInit /\ [][SupNext]_supVars /\ \A l \in Loops : WF_supVars(SupStep(l))

-----------------------------------------------------------------------------
\* The types of the variables.
SupTypeOK ==
    /\ loop \in [Loops -> {"absent", "boot", "check", "loop", "failed", "ended"}]
    /\ client \in [Loops -> {"none", "start", "asks", "works", "updates", "refused", "hung"}]
    /\ {booting, dirLock} \subseteq Loops \cup {Nobody}
    /\ {exitFile, keyGood, outdated, tuner} \subseteq BOOLEAN
    /\ supEvents \in 0 .. MaxSupEvents

Running(l) == client[l] \in {"asks", "works", "updates", "refused", "hung"}

\* A client that hears no more of its key, and one that gets no work.
Deaf(l) == client[l] \in {"updates", "refused", "hung"}
Stuck(l) == client[l] \in {"refused", "hung"}

\* However often one connects, and whatever loops are left from before, one
\* client at a time runs from the directory, although an update lets go of its
\* lock (worker.py acquire_single_instance_lock, client.py; the head of
\* setup_worker.sh: "One machine runs at most ONE worker").
OneWorkerRuns == \A l, o \in Loops : Running(l) /\ Running(o) => l = o

\* Once the key is revoked, every loop that signs in with it, and that knows the
\* exit codes or shows its name, is down for good in the end, however often one
\* connects again, and no tuner goes on without a client.  This excepts loops
\* whose client the refusal does not reach: it is updating itself, is refused for
\* another reason, or hangs; and a tuner that a bootstrap left behind, which was
\* itself refused after it had stopped the client (worker.py shutdown_if_revoked,
\* terminate_legacy_wrapper, stop_detached_spsa; setup_worker.sh).
RevokedStaysDown ==
    <>[](keyGood \/ /\ \A l \in (Acks \cup Named) \cap Keyed : loop[l] # "loop" \/ Deaf(l)
                    /\ tuner => \E l \in Loops : client[l] # "none" \/ loop[l] = "failed")

\* While the key is good and nobody asks for a stop, a machine on which a loop
\* was started gets a worker again and again: no order of connections, crashes,
\* updates and exits with 65 leaves it without one, unless a bootstrap that got no
\* answer is not started again, or a client repeats a refusal or hangs for good
\* (setup_worker.sh, client.py, worker.py acquire_single_instance_lock).
MachineIsServed ==
    (/\ <>[](keyGood /\ ~exitFile /\ \A l \in Loops : loop[l] # "failed" /\ ~Stuck(l))
     /\ <>(\E l \in Loops : loop[l] = "loop"))
        => []<>(\E l \in Loops : client[l] = "works")
=============================================================================
