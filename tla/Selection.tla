------------------------------ MODULE Selection ------------------------------
(***************************************************************************)
(* Which test a machine is given: select_workload and the filters of       *)
(* OpenBench/workloads/get_workload.py.                                    *)
(*                                                                         *)
(* The server keeps no plan: at every request it counts the threads of the *)
(* machines it heard of lately, by the workload each was given last, and   *)
(* sends the machine to a test that has the fewest for its throughput, or  *)
(* back to the one it had.  The workload is saved after the count, and     *)
(* several server threads may be between the two.  Nothing is saved for a  *)
(* machine that is given nothing.                                          *)
(***************************************************************************)
EXTENDS Distribution, FiniteSetsExt, Functions, Combinatorics

CONSTANTS
    Worlds,         \* the cases to look at, each with tests: id -> Test row,
                    \* hosts: name -> Machine.info and owner, balance (the option
                    \* balance_engine_throughputs) and serial (one thread serves)
    Nothing,        \* in place of a test
    MaxSelChanges   \* bound: what happens from outside

ASSUME SelectionAssumption ==
    /\ \A x \in DOMAIN Worlds :
          /\ \A w \in DOMAIN Worlds[x].tests : IsTest(Worlds[x].tests[w])
          /\ \A h \in DOMAIN Worlds[x].hosts : IsMachine(Worlds[x].hosts[h])
          /\ Nothing \notin DOMAIN Worlds[x].tests
    /\ MaxSelChanges \in Nat

VARIABLES
    world,    \* one of the cases
    open,     \* the active tests
    works,    \* host -> Machine.workload
    seen,     \* host -> the minutes since Machine.updated: 0, 3 or 5, or more
    refuses,  \* host -> the blacklist of its session
    choice,   \* host -> what a request in progress has selected
    selChanges

selVars == <<world, open, works, seen, refuses, choice, selChanges>>

Tests == DOMAIN Worlds[world].tests
Hosts == DOMAIN Worlds[world].hosts
T(w) == Worlds[world].tests[w]
H(h) == Worlds[world].hosts[h]

Recent(h) == seen[h] <= 3

-----------------------------------------------------------------------------
(* filter_valid_workloads.                                                 *)

\* The filters that depend on the test and the machine only.
Admitted(w, h) ==
    /\ {w.engine, w.baseEngine} \subseteq h.engines
    /\ w.syzygy <= h.syzygy
    /\ w.private => w.author = h.owner
    /\ h.noisy => ~w.timed
    /\ w.mode = "SPSA" => w.wrapper /\ h.linux
    /\ ValidHardware(w, h)

\* For each case and machine of it, the tests they let through.
AdmittedIn == [x \in DOMAIN Worlds |->
    [h \in DOMAIN Worlds[x].hosts |->
        {w \in DOMAIN Worlds[x].tests : Admitted(Worlds[x].tests[w], Worlds[x].hosts[h])}]]

\* One runner for a tuning test: nobody gets it while another machine that was
\* heard of within three minutes has it.
ValidSpsa(w, h) ==
    T(w).mode = "SPSA" => \A o \in Hosts \ {h} : works[o] = w => seen[o] > 0

Options(h) == {w \in (open \ refuses[h]) \cap AdmittedIn[world][h] : ValidSpsa(w, h)}

Candidates(h) ==
    LET options == Options(h)
        highest == {w \in options : \A v \in options : T(v).priority <= T(w).priority}
        focused == {w \in highest : T(w).engine \in H(h).focus}
    IN IF focused # {} THEN focused ELSE highest

-----------------------------------------------------------------------------
(* compute_resource_distribution and the ratios of select_workload.        *)

\* The threads of the other machines, without those that are there by focus.
ThreadsOn(w, h, hasFocus) ==
    MapThenSumSet(LAMBDA o : H(o).threads,
        {o \in Hosts \ {h} : /\ Recent(o) /\ works[o] = w
                             /\ hasFocus \/ T(w).engine \notin H(o).focus})

\* The throughput, shared among the tests of an engine; times a common factor.
Throughput(w, C) ==
    IF Worlds[world].balance
    THEN (T(w).throughput * factorial[Cardinality(C)])
            \div Cardinality({v \in C : T(v).engine = T(w).engine})
    ELSE T(w).throughput

Fairest_Loyal(h, C, threads, weight) ==
    LET load(w) == threads[w] + H(h).threads
    IN IF works[h] \in C THEN {works[h]}
       ELSE {w \in C : \A v \in C : load(w) * weight[v] <= load(v) * weight[w]}

\* Any test that has the least ratio of threads to throughput, or the one the
\* machine had, within a quarter of the fair ratio.
Fairest(h, C, threads, weight) ==
    LET load(w) == threads[w] + H(h).threads
        Least == {w \in C : \A v \in C : load(w) * weight[v] <= load(v) * weight[w]}
        AllThreads == SumFunction(threads) + H(h).threads
        AllWeight == SumFunction(weight)
        NearFair(w) ==
            /\ \A v \in Least : 4 * load(v) * AllWeight > 3 * weight[v] * AllThreads
            /\ 4 * load(w) * AllWeight < 5 * weight[w] * AllThreads
    IN IF works[h] \in C /\ NearFair(works[h]) THEN {works[h]} ELSE Least

\* The tests a machine may be given.
Selectable(h) ==
    LET C == Candidates(h)
        hasFocus == \E w \in C : T(w).engine \in H(h).focus
    IN Fairest(h, C, [w \in C |-> ThreadsOn(w, h, hasFocus)], [w \in C |-> Throughput(w, C)])

-----------------------------------------------------------------------------
\* The first half of get_workload: a worker asks and the handler selects.
Asks(h) ==
    /\ choice[h] = Nothing
    /\ Worlds[world].serial => \A o \in Hosts : choice[o] = Nothing
    /\ UNCHANGED <<world, open, works, seen, refuses, selChanges>>

Chooses(h, tests) == \E w \in tests : choice' = [choice EXCEPT ![h] = w]

Select(h) == Asks(h) /\ Chooses(h, Selectable(h))

\* The second half saves the row and hands out the workload.
Assign(h) ==
    /\ choice[h] # Nothing
    /\ works' = [works EXCEPT ![h] = choice[h]]
    /\ seen' = [seen EXCEPT ![h] = 0]
    /\ choice' = [choice EXCEPT ![h] = Nothing]
    /\ UNCHANGED <<world, open, refuses, selChanges>>

\* A heartbeat or a report of a machine that has something to do.
Beat(h) ==
    /\ works[h] # Nothing /\ choice[h] = Nothing
    /\ seen' = [seen EXCEPT ![h] = 0]
    /\ UNCHANGED <<world, open, works, refuses, choice, selChanges>>

SelChange == selChanges < MaxSelChanges /\ selChanges' = selChanges + 1

\* The worker cannot reach the server for some minutes.
Lapse(h) ==
    /\ SelChange /\ choice[h] = Nothing
    /\ \E m \in {3, 5} : m > seen[h] /\ seen' = [seen EXCEPT ![h] = m]
    /\ UNCHANGED <<world, open, works, refuses, choice>>

\* The worker registers, or starts again.
Connect(h) ==
    /\ SelChange /\ choice[h] = Nothing
    /\ works' = [works EXCEPT ![h] = Nothing]
    /\ seen' = [seen EXCEPT ![h] = 0]
    /\ refuses' = [refuses EXCEPT ![h] = {}]
    /\ UNCHANGED <<world, open, choice>>

\* The workload is stopped by the server, or its engine does not compile.
Blacklist(h) ==
    /\ SelChange /\ choice[h] = Nothing /\ works[h] # Nothing
    /\ refuses' = [refuses EXCEPT ![h] = @ \cup {works[h]}]
    /\ UNCHANGED <<world, open, works, seen, choice>>

\* A test finishes or is paused, or it is approved or continued.
OpenOrClose(w) ==
    /\ SelChange
    /\ open' = IF w \in open THEN open \ {w} ELSE open \cup {w}
    /\ UNCHANGED <<world, works, seen, refuses, choice>>

-----------------------------------------------------------------------------
SelectionInit ==
    /\ world \in DOMAIN Worlds
    /\ open = Tests
    /\ works = [h \in Hosts |-> Nothing]
    /\ seen = [h \in Hosts |-> 0]
    /\ refuses = [h \in Hosts |-> {}]
    /\ choice = [h \in Hosts |-> Nothing]
    /\ selChanges = 0

SelectionNext ==
    \/ \E h \in Hosts : Select(h) \/ Assign(h) \/ Beat(h) \/ Lapse(h) \/ Connect(h) \/ Blacklist(h)
    \/ \E w \in Tests : OpenOrClose(w)

\* Every worker asks again and again, and each request is answered; it is said of
\* the cases with one server thread, where something must come of it.  A step that
\* chooses an option is a Select, which is possible whenever there is an option.
FairSelect(h) == Worlds[world].serial /\ h \in Hosts /\ Asks(h) /\ Chooses(h, Options(h))
FairAssign(h) == Worlds[world].serial /\ h \in Hosts /\ Assign(h)
AllHosts == UNION {DOMAIN Worlds[x].hosts : x \in DOMAIN Worlds}

SelectionSpec ==
    /\ SelectionInit /\ [][SelectionNext]_selVars
    /\ \A h \in AllHosts : SF_selVars(FairSelect(h)) /\ WF_selVars(FairAssign(h))

-----------------------------------------------------------------------------
\* The types of the variables.
SelectionTypeOK ==
    /\ world \in DOMAIN Worlds /\ open \subseteq Tests
    /\ works \in [Hosts -> Tests \cup {Nothing}]
    /\ choice \in [Hosts -> Tests \cup {Nothing}]
    /\ seen \in [Hosts -> {0, 3, 5}]
    /\ refuses \in [Hosts -> SUBSET Tests]
    /\ selChanges \in 0 .. MaxSelChanges

\* Whatever a machine is given, the match it is told to run keeps a game going,
\* stays within the threads it registered and the cores it has, and finds the
\* openings it starts from (get_workload.py game_distribution, worker.py
\* affinity_settings): the filter and the distribution agree.
AssignmentFits ==
    \A h \in Hosts : works[h] # Nothing =>
        LET w == T(works[h])
        IN Fits(w, H(h)) /\ SpsaFits(w, H(h)) /\ OpeningsFit(w, H(h))

\* The tests that all these machines may be given, when nothing tells them apart.
Shared(hosts) ==
    IF \/ hosts = {}
       \/ \E h, o \in hosts : H(h).threads # H(o).threads \/ H(h).focus # {}
    THEN {}
    ELSE LET C == Candidates(CHOOSE h \in hosts : TRUE)
         IN IF /\ \A h \in hosts : Candidates(h) = C
               /\ \A w, v \in C : Throughput(w, C) = Throughput(v, C)
            THEN C ELSE {}

\* When the requests come one at a time and nothing changes any more, machines
\* alike settle so that each of their tests has one, if they are enough.
AllServed ==
    <>[](Worlds[world].serial =>
            LET C == Shared(Hosts)
            IN Cardinality(C) <= Cardinality(Hosts) =>
                  \A w \in C : \E h \in Hosts : Recent(h) /\ works[h] = w)
=============================================================================
