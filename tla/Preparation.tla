----------------------------- MODULE Preparation ----------------------------
(***************************************************************************)
(* How a worker prepares a workload (Client/worker.py complete_workload,   *)
(* utils.py, bench.py): it cleans its directory, asks for a workload,      *)
(* fetches the book, the networks and the two engines, stages the networks *)
(* and benches the engines before the first game.                          *)
(*                                                                         *)
(* What was fetched stays on the disk for the next workloads, and for the  *)
(* next start of a worker that was killed in the middle of a job.  A file  *)
(* is "none", "good" or "bad" (partial, or not what the server's hash      *)
(* says); a built engine is what it was built from, under a name           *)
(* that is to tell the builds apart.                                       *)
(***************************************************************************)
EXTENDS Naturals, Sequences, FiniteSets

CONSTANTS PrepTests,    \* the workloads the server can hand out
          Side,         \* Side[t]["dev"], Side[t]["base"]: the branches of a test
          BrokenShas,   \* commits that do not compile
          WrongShas,    \* commits whose bench is not the one the test states
          GoneShas,     \* commits whose source or artifact cannot be had
          NoNet,        \* the network of an engine that uses none
          NoBinary,     \* no file under the name of an engine
          Torn,         \* the beginning of an engine's file
          NoTest,       \* no workload
          SameDevice,   \* the temporary directory is on the client's file system
          MaxMishaps,   \* bound: downloads, calls and processes that fail or stall
          MaxAgings     \* bound: files that grow older than they are kept

Sides == {"dev", "base"}
Branches == {Side[t][s] : t \in PrepTests, s \in Sides}
Nets == {b.net : b \in Branches} \ {NoNet}
FileState == {"none", "good", "bad"}

BinaryName_WithoutTune(b) == IF b.private THEN <<b.sha>> ELSE <<b.sha, b.net, b.args>>

\* utils.engine_binary_name: the name under Engines/.
BinaryName(b) == IF b.private THEN <<b.sha>> ELSE <<b.sha, b.net, b.args, b.tune>>
Names == {BinaryName(b) : b \in Branches}

\* What an engine was built from.  The artifact of a private engine is its
\* commit's, and is given its network as an option when it runs.
Built(b) == IF b.private THEN [b EXCEPT !.net = NoNet, !.args = "", !.tune = ""] ELSE b
Builds == {Built(b) : b \in Branches}

ASSUME PreparationAssumption ==
    /\ Side \in [PrepTests -> [Sides -> Branches]]
    /\ \A b \in Branches :
          /\ b = [sha |-> b.sha, net |-> b.net, args |-> b.args, tune |-> b.tune,
                  private |-> b.private]
          /\ b.private \in BOOLEAN
    /\ NoBinary # Torn /\ {NoBinary, Torn} \cap Builds = {} /\ NoTest \notin PrepTests
    /\ SameDevice \in BOOLEAN /\ {MaxMishaps, MaxAgings} \subseteq Nat

VARIABLES book,       \* the opening book
          net,        \* net[n]: Networks/<n>
          stage,      \* stage[n]: Networks/<n>-dir/, which holds a copy or a link
          binary,     \* binary[x]: Engines/<x>, by what it was built from
          old,        \* the paths that are older than cleanup_client keeps them
          blacklist,  \* the tests this session does not want again
          prep,       \* where the worker is: the test, and the jobs that are left
          stopped,    \* the tests the server stopped for a bad bench
          \* History.
          blamed,     \* tests with a bench that failed by the machine's fault
          mishaps, agings

disk == <<book, net, stage, binary, old>>
told == <<stopped, blamed>>
prepVars == <<book, net, stage, binary, old, blacklist, prep, stopped,
              blamed, mishaps, agings>>

Job(what, s) == [what |-> what, side |-> s]

\* complete_workload, in its order; a bench stages the network of its branch.
Jobs == << Job("book", "dev"), Job("net", "dev"), Job("net", "base"),
           Job("engine", "dev"), Job("engine", "base"),
           Job("stage", "dev"), Job("bench", "dev"), Job("stage", "base"), Job("bench", "base"),
           Job("play", "dev") >>

\* The job that is under way, and one whose calls do return.
Doing(what) == prep.left # <<>> /\ Head(prep.left).what = what
At(what) == prep.at = "work" /\ Doing(what)
Branch == Side[prep.test][Head(prep.left).side]

NextJob == prep' = [prep EXCEPT !.left = Tail(prep.left)]
\* Back to the loop of run_openbench_worker.
Loop == [at |-> "loop", test |-> NoTest, left |-> <<>>]

BackToLoop_KeepsJobs == prep' = [prep EXCEPT !.at = "loop"]

BackToLoop == prep' = Loop

\* OpenBenchFatalWorkerException: a new Configuration and a new registration.
Restart == /\ BackToLoop /\ blacklist' = {}

Mishap == mishaps < MaxMishaps /\ mishaps' = mishaps + 1

-----------------------------------------------------------------------------
(* The loop: cleanup_client, then server_request_workload.                 *)

OldStages == {n \in Nets : <<"stage", n>> \in old}
OldNets == {n \in Nets : <<"net", n>> \in old}

Without(f, gone, none) == [x \in DOMAIN f |-> IF x \in gone THEN none ELSE f[x]]

\* The entries of Networks/ are removed one by one; a directory cannot be, and
\* ends the cleanup with an exception which the loop prints.
Cleanup ==
    /\ prep.at = "loop"
    /\ binary' = Without(binary, {x \in Names : <<"binary", x>> \in old}, NoBinary)
    /\ \E gone \in SUBSET OldNets :
          /\ OldStages = {} => gone = OldNets
          /\ net' = Without(net, gone, "none")
          /\ old' = old \ ({<<"net", n>> : n \in gone} \cup {<<"binary", x>> : x \in Names})
    /\ prep' = [prep EXCEPT !.at = IF OldStages = {} THEN "ask" ELSE "loop"]
    /\ UNCHANGED <<book, stage, blacklist, told, mishaps, agings>>

AskWorkload ==
    /\ prep.at = "ask"
    /\ \/ \E t \in PrepTests \ (stopped \cup blacklist) :
             prep' = [at |-> "work", test |-> t, left |-> Jobs]
       \/ BackToLoop
    /\ UNCHANGED <<disk, blacklist, told, mishaps, agings>>

-----------------------------------------------------------------------------
(* Files that are verified each time.                                      *)

\* download_opening_book.  A book that is there is not fetched again; one with
\* the wrong hash is removed, and the workload is given up.
Book ==
    /\ At("book")
    /\ \/ /\ book # "bad"
          /\ book' = "good" /\ NextJob /\ UNCHANGED mishaps
       \/ /\ book = "bad"
          /\ book' = "none" /\ BackToLoop /\ UNCHANGED mishaps
       \/ /\ book = "none" /\ Mishap
          /\ BackToLoop /\ UNCHANGED book
    /\ UNCHANGED <<net, stage, binary, old, blacklist, told, agings>>

\* safe_download_network_weights: not every engine has a network.
NoNetwork ==
    /\ At("net") /\ Branch.net = NoNet
    /\ NextJob
    /\ UNCHANGED <<disk, blacklist, told, mishaps, agings>>

\* download_network: the same, but what came before a connection broke stays.
Network ==
    /\ At("net") /\ Branch.net # NoNet
    /\ LET n == Branch.net
       IN \/ /\ net[n] = "good"
             /\ NextJob /\ UNCHANGED <<net, old, mishaps>>
          \/ /\ net[n] = "none"
             /\ net' = [net EXCEPT ![n] = "good"] /\ old' = old \ {<<"net", n>>}
             /\ NextJob /\ UNCHANGED mishaps
          \/ /\ net[n] = "none" /\ Mishap
             /\ \E left \in {"none", "bad"} : net' = [net EXCEPT ![n] = left]
             /\ old' = old \ {<<"net", n>>}
             /\ BackToLoop
          \/ /\ net[n] = "bad"
             /\ net' = [net EXCEPT ![n] = "none"] /\ old' = old \ {<<"net", n>>}
             /\ BackToLoop /\ UNCHANGED mishaps
    /\ UNCHANGED <<book, stage, binary, blacklist, told, agings>>

\* stage_hashed_file: a staged file with another hash is made again from the
\* network, and removed when that is bad too.
Staged(n) == IF stage[n] = "good" THEN "good" ELSE net[n]

Stage_IfAbsent ==
    /\ At("stage")
    /\ LET n == Branch.net
       IN IF n = NoNet \/ Branch.private \/ stage[n] # "none"
          THEN UNCHANGED <<stage, old>>
          ELSE stage' = [stage EXCEPT ![n] = net[n]] /\ old' = old \ {<<"stage", n>>}
    /\ NextJob
    /\ UNCHANGED <<book, net, binary, blacklist, told, mishaps, agings>>

Stage ==
    /\ At("stage")
    /\ LET n == Branch.net
       IN IF n = NoNet \/ Branch.private
          THEN NextJob /\ UNCHANGED <<stage, old>>
          ELSE /\ stage' = [stage EXCEPT ![n] = IF Staged(n) = "good" THEN "good" ELSE "bad"]
               /\ old' = IF stage[n] = "good" THEN old ELSE old \ {<<"stage", n>>}
               /\ IF Staged(n) = "good" THEN NextJob ELSE BackToLoop
    /\ UNCHANGED <<book, net, binary, blacklist, told, mishaps, agings>>

-----------------------------------------------------------------------------
(* Engines, which are not verified before the bench.                       *)

FoundEngine ==
    /\ At("engine") /\ binary[BinaryName(Branch)] # NoBinary
    /\ NextJob
    /\ UNCHANGED <<disk, blacklist, told, mishaps, agings>>

Missing == binary[BinaryName(Branch)] = NoBinary
BuildsHere == At("engine") /\ Missing

\* The final move, to the name under Engines/.
Keep ==
    /\ binary' = [binary EXCEPT ![BinaryName(Branch)] = Built(Branch)]
    /\ old' = old \ {<<"binary", BinaryName(Branch)>>}
    /\ NextJob
    /\ UNCHANGED <<book, net, stage, blacklist, told, mishaps, agings>>

\* download_public_engine: the source, the kit of a tuning test, make.
BuildEngine ==
    /\ BuildsHere /\ ~Branch.private /\ Branch.sha \notin BrokenShas \cup GoneShas
    /\ Keep

\* download_private_engine: the best artifact that GitHub has for this machine.
FetchEngine ==
    /\ BuildsHere /\ Branch.private /\ Branch.sha \notin GoneShas
    /\ Keep

\* download_engine_source: an HTTP status other than 200 restarts the session,
\* any other failure of a download does not.
LoseSource ==
    /\ BuildsHere /\ ~Branch.private
    /\ \/ Branch.sha \in GoneShas /\ UNCHANGED mishaps
       \/ Branch.sha \notin GoneShas /\ Mishap
    /\ Restart
    /\ UNCHANGED <<disk, stopped, blamed, agings>>

BreakDownload ==
    /\ BuildsHere /\ Mishap
    /\ BackToLoop
    /\ UNCHANGED <<disk, blacklist, told, agings>>

FailBuild_AndTryAgain ==
    /\ BuildsHere /\ ~Branch.private /\ Branch.sha \in BrokenShas
    /\ blacklist' = blacklist \cup {prep.test}
    /\ UNCHANGED <<disk, prep, told, mishaps, agings>>

\* The compiler's failure: the test is not wanted again, then the server is told,
\* or is not, as a call that fails raises in place of the first exception.
FailBuild ==
    /\ BuildsHere /\ ~Branch.private /\ Branch.sha \in BrokenShas
    /\ blacklist' = blacklist \cup {prep.test}
    /\ UNCHANGED mishaps \/ Mishap
    /\ BackToLoop
    /\ UNCHANGED <<disk, stopped, blamed, agings>>

\* No artifact fits: select_best_artifact or the reply of GitHub raises
\* something else than OpenBenchMissingArtifactException, and the handler of
\* that one calls report_missing_artifact with an argument too many.
FailArtifact ==
    /\ BuildsHere /\ Branch.private /\ Branch.sha \in GoneShas
    /\ BackToLoop
    /\ UNCHANGED <<disk, blacklist, told, mishaps, agings>>

-----------------------------------------------------------------------------
(* safe_run_benchmarks and the server's client_bench_error.                *)

BenchFails == binary[BinaryName(Branch)] # Built(Branch) \/ Branch.sha \in WrongShas

PassBench ==
    /\ At("bench") /\ ~BenchFails
    /\ NextJob
    /\ UNCHANGED <<disk, blacklist, told, mishaps, agings>>

\* Wrong, or not finished in a minute: the server stops the test for everybody.
FailBench ==
    /\ At("bench")
    /\ \/ BenchFails /\ UNCHANGED mishaps
       \/ ~BenchFails /\ Mishap
    /\ blamed' = IF ~BenchFails \/ binary[BinaryName(Branch)] = Torn
                 THEN blamed \cup {prep.test} ELSE blamed
    /\ stopped' \in {stopped, stopped \cup {prep.test}}
    /\ BackToLoop
    /\ UNCHANGED <<disk, blacklist, agings>>

\* The match is played, or an exception ends it.
Play ==
    /\ At("play")
    /\ BackToLoop
    /\ UNCHANGED <<disk, blacklist, told, mishaps, agings>>

-----------------------------------------------------------------------------
(* What happens to the worker.                                             *)

\* The calls that nothing bounds: the requests for a book, a network and an
\* artifact have no timeout, and nobody limits make or the tuner's cargo.  When
\* the other side stalls, the only thread of the worker waits for ever.
Unbounded ==
    \/ At("book") /\ book = "none"
    \/ At("net") /\ Branch.net # NoNet /\ net[Branch.net] = "none"
    \/ BuildsHere /\ (Branch.private \/ Branch.sha \notin GoneShas)
    \/ At("play")

Hang ==
    /\ Unbounded /\ Mishap
    /\ prep' = [prep EXCEPT !.at = "hung"]
    /\ UNCHANGED <<disk, blacklist, told, agings>>

\* A kill: the file that is being written stays as it is, the session is lost.
Kill ==
    /\ Mishap
    /\ \/ UNCHANGED <<book, net, stage, binary, old>>
       \/ /\ Doing("book") /\ book = "none" /\ ~SameDevice
          /\ book' = "bad"
          /\ UNCHANGED <<net, stage, binary, old>>
       \/ /\ Doing("net") /\ Branch.net # NoNet /\ net[Branch.net] = "none"
          /\ net' = [net EXCEPT ![Branch.net] = "bad"]
          /\ UNCHANGED <<book, stage, binary, old>>
       \/ /\ Doing("stage") /\ Branch.net # NoNet /\ ~Branch.private /\ stage[Branch.net] # "good"
          /\ stage' = [stage EXCEPT ![Branch.net] = "bad"]
          /\ old' = old \ {<<"stage", Branch.net>>}
          /\ UNCHANGED <<book, net, binary>>
       \/ /\ Doing("engine") /\ Missing /\ ~SameDevice /\ Branch.sha \notin BrokenShas \cup GoneShas
          /\ binary' = [binary EXCEPT ![BinaryName(Branch)] = Torn]
          /\ UNCHANGED <<book, net, stage, old>>
    /\ Restart
    /\ UNCHANGED <<stopped, blamed, agings>>

\* A week passes for an engine, four for a network and the directory of one.
Present == {<<"net", n>> : n \in {x \in Nets : net[x] # "none"}}
      \cup {<<"stage", n>> : n \in {x \in Nets : stage[x] # "none"}}
      \cup {<<"binary", x>> : x \in {y \in Names : binary[y] # NoBinary}}

Age ==
    /\ agings < MaxAgings /\ agings' = agings + 1
    /\ \E f \in Present \ old : old' = old \cup {f}
    /\ UNCHANGED <<book, net, stage, binary, blacklist, prep, told, mishaps>>

-----------------------------------------------------------------------------
PreparationInit ==
    /\ book = "none"
    /\ net = [n \in Nets |-> "none"]
    /\ stage = [n \in Nets |-> "none"]
    /\ binary = [x \in Names |-> NoBinary]
    /\ old = {} /\ blacklist = {}
    /\ prep = Loop
    /\ stopped = {} /\ blamed = {}
    /\ mishaps = 0 /\ agings = 0

WorkStep ==
    \/ Cleanup \/ AskWorkload
    \/ Book \/ NoNetwork \/ Network \/ Stage
    \/ FoundEngine \/ BuildEngine \/ FetchEngine
    \/ LoseSource \/ BreakDownload \/ FailBuild \/ FailArtifact
    \/ PassBench \/ FailBench \/ Play

PreparationNext == WorkStep \/ Hang \/ Kill \/ Age

\* The worker is never idle: but for those of Hang, every call of its loop
\* returns, raises or times out.
PreparationSpec == PreparationInit /\ [][PreparationNext]_prepVars /\ WF_prepVars(WorkStep)

-----------------------------------------------------------------------------
\* The types of the variables.
PreparationTypeOK ==
    /\ book \in FileState
    /\ net \in [Nets -> FileState]
    /\ stage \in [Nets -> FileState]
    /\ binary \in [Names -> Builds \cup {NoBinary, Torn}]
    /\ old \subseteq Present
    /\ blacklist \subseteq PrepTests /\ stopped \subseteq PrepTests /\ blamed \subseteq PrepTests
    /\ prep.at \in {"loop", "ask", "work", "hung"}
    /\ prep.test \in PrepTests \cup {NoTest}
    /\ (prep.at \in {"work", "hung"}) = (prep.left # <<>>)
    /\ mishaps \in 0 .. MaxMishaps /\ agings \in 0 .. MaxAgings

\* A match is only started with what the test asks for, whatever was left by
\* kills, broken connections, earlier tests and the cleanup: the book and the
\* networks have the server's hashes, and each engine was built from its own
\* branch (worker.py complete_workload, utils.py engine_binary_name).
GamesUseTheRightFiles ==
    At("play") =>
        /\ book = "good"
        /\ \A s \in Sides :
              LET b == Side[prep.test][s]
              IN /\ b.net # NoNet => net[b.net] = "good"
                 /\ b.net # NoNet /\ ~b.private => stage[b.net] = "good"
                 /\ binary[BinaryName(b)] = Built(b)

\* A bench report stops a test for everybody; it does so only for a commit whose
\* bench is not what the test states, or by the fault of a machine whose bench
\* took too long or whose engine's file is incomplete (bench.py, views.py
\* client_bench_error).
BenchStopIsDeserved ==
    \A t \in stopped : t \in blamed \/ \E s \in Sides : Side[t][s].sha \in WrongShas

\* Whatever breaks off, the worker asks the server for work again and again, as
\* long as no staged network is older than the networks are kept, and none of
\* the calls without a timeout stalls for good (worker.py run_openbench_worker,
\* cleanup_client; utils.py).
AsksWhileStagesAreYoung ==
    <>(OldStages # {}) \/ <>[](prep.at = "hung") \/ []<>(prep.at = "ask")
=============================================================================
