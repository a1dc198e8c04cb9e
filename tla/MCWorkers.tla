------------------------------ MODULE MCWorkers ------------------------------
(***************************************************************************)
(* The workers' side, for TLC: which workload a machine is given, how it   *)
(* prepares one, which of its processes is alive, and which process of the *)
(* server runs the watchers.  These do not share state, so that a          *)
(* behaviour is one of one of them, its subject, and the run looks at the  *)
(* sum of their states and not at the product.                             *)
(***************************************************************************)
EXTENDS Preparation, Selection, Supervision, Startup, TLC

VARIABLE subject

workersVars == <<prepVars, selVars, supVars, startupVars, subject>>

-----------------------------------------------------------------------------
(* Preparation: an option alone tells t1's engines apart, t2 does not      *)
(* compile, t3's bench is wrong, and t4 and t5 cannot be had.              *)
CONSTANTS n1, n2, t1, t2, t3, t4, t5

Source(sha, n, tune, private) ==
    [sha |-> sha, net |-> n, args |-> "", tune |-> tune, private |-> private]

MCSide ==
       t1 :> [dev |-> Source("good", n1, "tuned", FALSE), base |-> Source("good", n1, "", FALSE)]
    @@ t2 :> [dev |-> Source("broken", n2, "", FALSE), base |-> Source("good", n2, "", FALSE)]
    @@ t3 :> [dev |-> Source("wrong", NoNet, "", TRUE), base |-> Source("good", n1, "", FALSE)]
    @@ t4 :> [dev |-> Source("gone", NoNet, "", FALSE), base |-> Source("good", n1, "", FALSE)]
    @@ t5 :> [dev |-> Source("missing", NoNet, "", TRUE), base |-> Source("good", n1, "", FALSE)]

-----------------------------------------------------------------------------
(* Selection: fewer tests than machines, and more, with one server thread; *)
(* machines and tests that differ in everything the filters look at, with  *)
(* several threads.                                                        *)
CONSTANTS h1, h2, h3, g1, g2, g3, g4

Test(engine) ==
    [engine |-> engine, baseEngine |-> engine, mode |-> "SPRT", dev |-> 1, base |-> 1,
     ponder |-> FALSE, size |-> 2, reverses |-> TRUE, batch |-> 1, throughput |-> 1000,
     priority |-> 0, author |-> "x", private |-> FALSE, timed |-> TRUE, syzygy |-> 0,
     wrapper |-> TRUE]

Host ==
    [threads |-> 4, sockets |-> 1, cores |-> 4, affinity |-> TRUE, linux |-> TRUE,
     engines |-> {"A", "B"}, owner |-> "x", noisy |-> FALSE, syzygy |-> 0, focus |-> {}]

Even == [tests   |-> g1 :> Test("A") @@ g2 :> Test("A"),
         hosts   |-> h1 :> Host @@ h2 :> Host @@ h3 :> Host,
         balance |-> FALSE, serial |-> TRUE]

More == [Even EXCEPT !.tests = @ @@ g3 :> Test("A"), !.hosts = h1 :> Host @@ h2 :> Host]

Mixed ==
    [tests |->
           g1 :> [Test("A") EXCEPT !.mode = "SPSA", !.private = TRUE]
        @@ g2 :> [Test("A") EXCEPT !.dev = 2, !.ponder = TRUE]
        @@ g3 :> [Test("B") EXCEPT !.mode = "DATAGEN", !.reverses = FALSE, !.timed = FALSE, !.syzygy = 6]
        @@ g4 :> [Test("B") EXCEPT !.base = 2, !.throughput = 3000],
     hosts |->
           h1 :> [Host EXCEPT !.cores = 3, !.sockets = 2, !.syzygy = 6]
        @@ h2 :> [Host EXCEPT !.threads = 5, !.cores = 3, !.owner = "y", !.affinity = FALSE,
                              !.linux = FALSE, !.focus = {"B"}]
        @@ h3 :> [Host EXCEPT !.threads = 2, !.noisy = TRUE, !.syzygy = 7],
     balance |-> TRUE, serial |-> FALSE]

MCWorlds == <<Even, More, Mixed>>

-----------------------------------------------------------------------------
WorkersInit ==
    /\ subject \in {"preparation", "selection", "supervision", "startup"}
    /\ PreparationInit /\ SelectionInit /\ SupInit /\ StartupInit
    /\ subject # "selection" => world = 3
    /\ subject # "startup" => named = NoFile
    /\ subject # "supervision" => \A l \in Loops : loop[l] = "absent"

PreparationSteps == subject = "preparation" /\ PreparationNext
SelectionSteps   == subject = "selection" /\ SelectionNext
SupervisionSteps == subject = "supervision" /\ SupNext
StartupSteps     == subject = "startup" /\ StartupNext

WorkersNext ==
    \/ PreparationSteps /\ UNCHANGED <<selVars, supVars, startupVars, subject>>
    \/ SelectionSteps /\ UNCHANGED <<prepVars, supVars, startupVars, subject>>
    \/ SupervisionSteps /\ UNCHANGED <<prepVars, selVars, startupVars, subject>>
    \/ StartupSteps /\ UNCHANGED <<prepVars, selVars, supVars, subject>>

\* The fairness of each specification, for the behaviours about it.
WorkersSpec ==
    /\ WorkersInit /\ [][WorkersNext]_workersVars
    /\ WF_prepVars(subject = "preparation" /\ WorkStep)
    /\ \A h \in AllHosts : /\ SF_selVars(subject = "selection" /\ FairSelect(h))
                           /\ WF_selVars(subject = "selection" /\ FairAssign(h))
    /\ \A l \in Loops : WF_supVars(subject = "supervision" /\ SupStep(l))
    /\ WF_startupVars(subject = "startup" /\ StartupStep)

\* The types of all the variables.
WorkersTypeOK ==
    PreparationTypeOK /\ SelectionTypeOK /\ SupTypeOK /\ StartupTypeOK

\* Whatever breaks off, the worker asks the server for work again and again, as
\* long as no staged network is older than the networks are kept, and none of
\* the calls without a timeout stalls for good (worker.py run_openbench_worker,
\* cleanup_client; utils.py).
AsksForWork == subject = "preparation" => AsksWhileStagesAreYoung

\* When the requests come one at a time and nothing changes any more, machines
\* alike settle so that each of their tests has one, if they are enough
\* (get_workload.py select_workload).
TestsAreServed == subject = "selection" => AllServed

\* While the key is good and nobody asks for a stop, a machine on which a loop was
\* started gets a worker again and again, whatever connects, crashes or updates,
\* unless a bootstrap that got no answer is not started again, or a client repeats
\* a refusal or hangs for good (client.py, setup_worker.sh).
MachinesServed == subject = "supervision" => MachineIsServed

\* One server process at a time runs the watchers, unless one that ended removed
\* the lock file of another, and some process runs them again in the end (apps.py).
OneSetOfWatchers == subject = "startup" => WatchersRunOnce
=============================================================================
