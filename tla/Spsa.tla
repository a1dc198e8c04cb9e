-------------------------------- MODULE Spsa --------------------------------
(***************************************************************************)
(* One SPSA workload.                                                      *)
(*                                                                         *)
(* A single machine is meant to run the external tuner (rshogi spsa) as a  *)
(* detached process, to watch its run directory and to report cumulative   *)
(* progress; the server overwrites the test with what is reported.  When   *)
(* a machine is gone for three minutes the workload goes to another one,   *)
(* which carries on from the server's state; a machine that finds a run    *)
(* directory of its own resumes that instead.                              *)
(*                                                                         *)
(* Progress is counted in pairs.  The parameter values come with the pairs *)
(* of the same report, so that pairs stand for them too.                   *)
(***************************************************************************)
EXTENDS Integers, FiniteSets, FiniteSetsExt

CONSTANTS
    Machines,
    Threads,     \* the server threads that can be busy with clientSubmitSpsa
    TotalPairs,  \* spsa['total_pairs']
    EarlyStop,   \* spsa['early_stop'] lets the tuner end before its last pair
    MaxExpiries, \* bound: times the row of a machine at work gets older than
                 \* three minutes
    MaxFailures, \* bound: lost calls, failed threads, deaths of processes
    MaxEdits,    \* bound: STOP and RESTART
    MaxCredit    \* bound: where the pairs of a Result row stop counting, as
                 \* two tuners that report in turns are credited for ever

ASSUME SpsaAssumption ==
    /\ IsFiniteSet(Machines) /\ IsFiniteSet(Threads)
    /\ TotalPairs \in Nat \ {0} /\ EarlyStop \in BOOLEAN
    /\ MaxExpiries \in Nat /\ MaxFailures \in Nat /\ MaxEdits \in Nat
    /\ MaxCredit \in Nat

VARIABLES
    test,       \* the Test row: its flags, and the progress last reported
    result,     \* machine -> the pairs credited to its Result row
    row,        \* machine -> its Machine row
    assign,     \* machine -> what its get_workload thread has read
    worker,     \* machine -> the loop of worker.py
    dir,        \* machine -> SPSA/<test_id>/: offsets.json and run/
    proc,       \* machine -> an spsa process is running in its run directory
    thread,     \* thread -> the report it is handling
    \* History.
    ran,        \* machine -> the pairs its processes really ran
    expiries, failures, edits

server == <<test, result, row, assign>>
bounds == <<expiries, failures, edits>>
vars == <<test, result, row, assign, worker, dir, proc, thread, ran, expiries, failures, edits>>

NoAssignment == [pc |-> "none"]
NoReport     == [pc |-> "idle"]
Idle         == [pc |-> "idle", carry |-> 0, blacklisted |-> FALSE]
NoRun        == [base |-> 0, done |-> 0, total |-> 0, meta |-> FALSE, final |-> FALSE]

Test   == [finished : BOOLEAN, passed : BOOLEAN, pairs : Nat]
Row    == [workload : BOOLEAN, recent : BOOLEAN]
Worker == [pc : {"idle", "waiting", "building", "monitoring", "reporting",
                 "stopped", "stopping", "closing"},
           carry : Nat, blacklisted : BOOLEAN]
Run    == [base : Nat, done : Nat, total : Nat, meta : BOOLEAN, final : BOOLEAN]
Report == [pc : {"received", "committed", "handled"}, from : Machines,
           pairs : Nat, final : BOOLEAN, delta : Nat, stop : BOOLEAN,
           awaited : BOOLEAN]

TypeOK ==
    /\ test \in Test
    /\ result \in [Machines -> Nat]
    /\ row \in [Machines -> Row]
    /\ assign \in [Machines -> {NoAssignment} \union [pc : {"selected"}, carry : Nat]]
    /\ worker \in [Machines -> Worker]
    /\ dir \in [Machines -> Run]
    /\ proc \in [Machines -> BOOLEAN]
    /\ thread \in [Threads -> {NoReport} \union Report]
    /\ ran \in [Machines -> Nat]
    /\ expiries \in Nat /\ failures \in Nat /\ edits \in Nat

Init ==
    /\ test = [finished |-> FALSE, passed |-> FALSE, pairs |-> 0]
    /\ result = [m \in Machines |-> 0]
    /\ row = [m \in Machines |-> [workload |-> FALSE, recent |-> TRUE]]
    /\ assign = [m \in Machines |-> NoAssignment]
    /\ worker = [m \in Machines |-> Idle]
    /\ dir = [m \in Machines |-> NoRun]
    /\ proc = [m \in Machines |-> FALSE]
    /\ thread = [t \in Threads |-> NoReport]
    /\ ran = [m \in Machines |-> 0]
    /\ expiries = 0 /\ failures = 0 /\ edits = 0

Failure == failures < MaxFailures /\ failures' = failures + 1

-----------------------------------------------------------------------------
(***************************************************************************)
(* clientGetWorkload.                                                      *)
(***************************************************************************)
Free_AnyAge(m) == \A o \in Machines \ {m} : ~row[o].workload

\* valid_spsa_assignment: no other recent machine works on the workload.
Free(m) == \A o \in Machines \ {m} : ~(row[o].recent /\ row[o].workload)

SelectWorkload(m) ==
    /\ worker[m].pc = "idle" /\ ~worker[m].blacklisted /\ assign[m] = NoAssignment
    /\ ~test.finished /\ Free(m)
    /\ assign' = [assign EXCEPT ![m] = [pc |-> "selected", carry |-> test.pairs]]
    /\ worker' = [worker EXCEPT ![m].pc = "waiting"]
    /\ UNCHANGED <<test, result, row, dir, proc, thread, ran, bounds>>

\* machine.save(), and the reply.
HandOut(m) ==
    /\ assign[m] # NoAssignment
    /\ assign' = [assign EXCEPT ![m] = NoAssignment]
    /\ row' = [row EXCEPT ![m] = [workload |-> TRUE, recent |-> TRUE]]
    /\ worker' = IF worker[m].pc = "waiting"
                 THEN [worker EXCEPT ![m].pc = "building", ![m].carry = assign[m].carry]
                 ELSE worker
    /\ UNCHANGED <<test, result, dir, proc, thread, ran, bounds>>

GiveUpWorkload(m) ==
    /\ worker[m].pc = "waiting" /\ Failure
    /\ worker' = [worker EXCEPT ![m].pc = "idle"]
    /\ UNCHANGED <<server, dir, proc, thread, ran, expiries, edits>>

\* The machine plays some other workload meanwhile.
TakeOther(m) ==
    /\ worker[m].pc = "idle" /\ assign[m] = NoAssignment
    /\ row[m].workload
    /\ row' = [row EXCEPT ![m] = [workload |-> FALSE, recent |-> TRUE]]
    /\ UNCHANGED <<test, result, assign, worker, dir, proc, thread, ran, bounds>>

\* Three minutes without a report, which a machine that monitors a tuner makes
\* every 30 seconds.  Downloads, builds and benches go unreported.
Expire(m) ==
    /\ row[m].recent /\ row[m].workload
    /\ \/ worker[m].pc = "idle" /\ UNCHANGED <<expiries, failures>>
       \/ /\ worker[m].pc # "idle" /\ expiries < MaxExpiries
          /\ expiries' = expiries + 1
          /\ \/ worker[m].pc \in {"waiting", "building"} /\ UNCHANGED failures
             \/ worker[m].pc \notin {"waiting", "building"} /\ Failure
    /\ row' = [row EXCEPT ![m].recent = FALSE]
    /\ UNCHANGED <<test, result, assign, worker, dir, proc, thread, ran, edits>>

-----------------------------------------------------------------------------
(***************************************************************************)
(* run_workload: the launch, and the tuner itself.                         *)
(***************************************************************************)
Started(m, run) ==
    /\ dir' = [dir EXCEPT ![m] = run]
    /\ proc' = [proc EXCEPT ![m] = TRUE]

Takeover(base, remaining) ==
    [NoRun EXCEPT !.base = base, !.total = IF remaining > 1 THEN remaining ELSE 1]

LaunchRun_CarryOnResume(m) ==
    LET carry == worker[m].carry
    IN  \/ proc[m] /\ UNCHANGED <<dir, proc>>
        \/ ~proc[m] /\ dir[m].meta /\ Started(m, [dir[m] EXCEPT !.base = carry])
        \/ ~proc[m] /\ ~dir[m].meta /\ Started(m, Takeover(carry, TotalPairs - carry))

LaunchRun_NoOffsets(m) ==
    LET carry == worker[m].carry
    IN  \/ proc[m] /\ UNCHANGED <<dir, proc>>
        \/ ~proc[m] /\ dir[m].meta /\ Started(m, dir[m])
        \/ ~proc[m] /\ ~dir[m].meta /\ Started(m, Takeover(0, TotalPairs - carry))

\* A process that survived is attached to.  Otherwise choose_launch_mode:
\* resume, takeover (with what remains of the schedule), or fresh, which is a
\* takeover of nothing.
LaunchRun(m) ==
    LET carry == worker[m].carry
    IN  \/ proc[m] /\ UNCHANGED <<dir, proc>>
        \/ ~proc[m] /\ dir[m].meta /\ Started(m, dir[m])
        \/ ~proc[m] /\ ~dir[m].meta /\ Started(m, Takeover(carry, TotalPairs - carry))

Launch(m) ==
    /\ worker[m].pc = "building"
    /\ LaunchRun(m)
    /\ worker' = [worker EXCEPT ![m].pc = "monitoring", ![m].carry = 0]
    /\ UNCHANGED <<server, thread, ran, bounds>>

\* The first batch leaves meta.json behind, the last one final.params.
RunPair(m) ==
    /\ proc[m] /\ dir[m].done < dir[m].total
    /\ dir' = [dir EXCEPT ![m].done = @ + 1, ![m].meta = TRUE]
    /\ ran' = [ran EXCEPT ![m] = @ + 1]
    /\ UNCHANGED <<server, worker, proc, thread, bounds>>

EndRun(m) ==
    /\ proc[m]
    /\ dir[m].done = dir[m].total \/ (EarlyStop /\ dir[m].meta)
    /\ dir' = [dir EXCEPT ![m].final = TRUE]
    /\ proc' = [proc EXCEPT ![m] = FALSE]
    /\ UNCHANGED <<server, worker, thread, ran, bounds>>

KillRun(m) ==
    /\ proc[m] /\ Failure
    /\ proc' = [proc EXCEPT ![m] = FALSE]
    /\ UNCHANGED <<server, worker, dir, thread, ran, expiries, edits>>

-----------------------------------------------------------------------------
(***************************************************************************)
(* monitor_spsa.                                                           *)
(***************************************************************************)
Send(m, t, final, next) ==
    /\ thread[t] = NoReport
    /\ thread' = [thread EXCEPT ![t] = [pc |-> "received", from |-> m,
            pairs |-> dir[m].base + dir[m].done, final |-> final,
            delta |-> 0, stop |-> FALSE, awaited |-> TRUE]]
    /\ worker' = [worker EXCEPT ![m].pc = next]
    /\ UNCHANGED <<server, dir, proc, ran, bounds>>

SendProgress(m, t) ==
    /\ worker[m].pc = "monitoring" /\ proc[m]
    /\ Send(m, t, FALSE, "reporting")

SendFinal(m, t) ==
    /\ worker[m].pc = "monitoring" /\ ~proc[m] /\ dir[m].final
    /\ Send(m, t, TRUE, "closing")

\* The last report of a tuner that was stopped; its failure is ignored.
SendStopped(m, t) == worker[m].pc = "stopped" /\ Send(m, t, FALSE, "stopping")

\* The tuner ended without final.params: no more of this workload until the
\* worker is restarted.
Blacklist(m) ==
    /\ worker[m].pc = "monitoring" /\ ~proc[m] /\ ~dir[m].final
    /\ worker' = [worker EXCEPT ![m] = [Idle EXCEPT !.blacklisted = TRUE]]
    /\ UNCHANGED <<server, dir, proc, thread, ran, bounds>>

\* openbench.exit; the wrapper starts the worker again some time.
ExitFile(m) ==
    /\ worker[m].pc = "monitoring" /\ Failure
    /\ proc' = [proc EXCEPT ![m] = FALSE]
    /\ worker' = [worker EXCEPT ![m].pc = "stopped"]
    /\ UNCHANGED <<server, dir, thread, ran, expiries, edits>>

\* The worker dies or is thrown back to client.py, and starts again; the tuner
\* has a process group of its own and goes on.
RestartWorker(m) ==
    /\ worker[m] # Idle /\ Failure
    /\ worker' = [worker EXCEPT ![m] = Idle]
    /\ thread' = [t \in Threads |-> IF thread[t] # NoReport /\ thread[t].from = m
                                    THEN [thread[t] EXCEPT !.awaited = FALSE]
                                    ELSE thread[t]]
    /\ UNCHANGED <<server, dir, proc, ran, expiries, edits>>

-----------------------------------------------------------------------------
(***************************************************************************)
(* clientSubmitSpsa: update_spsa_workload.                                 *)
(***************************************************************************)
CommitSpsa_NoDelta(t) ==
    /\ thread[t].pc = "received"
    /\ IF test.finished
       THEN /\ thread' = [thread EXCEPT ![t].pc = "handled", ![t].stop = TRUE]
            /\ UNCHANGED test
       ELSE LET r == thread[t]
            IN  /\ test' = [test EXCEPT !.pairs = r.pairs,
                                        !.finished = r.final, !.passed = @ \/ r.final]
                /\ thread' = [thread EXCEPT ![t].pc = "committed", ![t].stop = r.final]
    /\ UNCHANGED <<result, row, assign, worker, dir, proc, ran, bounds>>

CommitSpsa_NegativeDelta(t) ==
    /\ thread[t].pc = "received"
    /\ IF test.finished
       THEN /\ thread' = [thread EXCEPT ![t].pc = "handled", ![t].stop = TRUE]
            /\ UNCHANGED test
       ELSE LET r == thread[t]
            IN  /\ test' = [test EXCEPT !.pairs = r.pairs,
                                        !.finished = r.final, !.passed = @ \/ r.final]
                /\ thread' = [thread EXCEPT ![t].pc = "committed",
                        ![t].delta = r.pairs - test.pairs, ![t].stop = r.final]
    /\ UNCHANGED <<result, row, assign, worker, dir, proc, ran, bounds>>

CommitSpsa(t) ==
    /\ thread[t].pc = "received"
    /\ IF test.finished
       THEN /\ thread' = [thread EXCEPT ![t].pc = "handled", ![t].stop = TRUE]
            /\ UNCHANGED test
       ELSE LET r == thread[t]
            IN  /\ test' = [test EXCEPT !.pairs = r.pairs,
                                        !.finished = r.final, !.passed = @ \/ r.final]
                /\ thread' = [thread EXCEPT ![t].pc = "committed",
                        ![t].delta = IF r.pairs > test.pairs THEN r.pairs - test.pairs ELSE 0,
                        ![t].stop = r.final]
    /\ UNCHANGED <<result, row, assign, worker, dir, proc, ran, bounds>>

\* The Result row, and the time stamp of the Machine row.
CreditSpsa(t) ==
    /\ thread[t].pc = "committed"
    /\ result' = [result EXCEPT ![thread[t].from] = Min({@ + thread[t].delta, MaxCredit})]
    /\ row' = [row EXCEPT ![thread[t].from].recent = TRUE]
    /\ thread' = [thread EXCEPT ![t].pc = "handled", ![t].delta = 0]
    /\ UNCHANGED <<test, assign, worker, dir, proc, ran, bounds>>

\* asked: the machine was stopped from /workers/, or its key was revoked.
ReplySpsa(t) ==
    /\ thread[t].pc = "handled"
    /\ LET m == thread[t].from
           Stopped == /\ worker' = [worker EXCEPT ![m].pc = "stopped"]
                      /\ proc' = [proc EXCEPT ![m] = FALSE]
       IN  \/ ~thread[t].awaited /\ UNCHANGED <<worker, proc, failures>>
           \/ thread[t].awaited /\ worker[m].pc = "reporting" /\ thread[t].stop
              /\ Stopped /\ UNCHANGED failures
           \/ thread[t].awaited /\ worker[m].pc = "reporting" /\ ~thread[t].stop
              /\ \/ worker' = [worker EXCEPT ![m].pc = "monitoring"] /\ UNCHANGED <<proc, failures>>
                 \/ Stopped /\ Failure
           \/ thread[t].awaited /\ worker[m].pc # "reporting"
              /\ worker' = [worker EXCEPT ![m].pc = "idle"] /\ UNCHANGED <<proc, failures>>
    /\ thread' = [thread EXCEPT ![t] = NoReport]
    /\ UNCHANGED <<server, dir, ran, expiries, edits>>

\* No answer: a progress report is made anew after 30 seconds, the final one is
\* tried five times, the last one of a stopped tuner once.
NoAnswer(m) ==
    \E next \in CASE worker[m].pc = "reporting" -> {"monitoring"}
                  [] worker[m].pc = "closing"   -> {"monitoring", "idle"}
                  [] worker[m].pc = "stopping"  -> {"idle"} :
        worker' = [worker EXCEPT ![m].pc = next]

GiveUpReport(t) ==
    /\ thread[t] # NoReport /\ thread[t].awaited /\ Failure
    /\ NoAnswer(thread[t].from)
    /\ thread' = [thread EXCEPT ![t].awaited = FALSE]
    /\ UNCHANGED <<server, dir, proc, ran, expiries, edits>>

FailReport(t) ==
    /\ thread[t].pc \in {"received", "committed"} /\ Failure
    /\ IF thread[t].awaited THEN NoAnswer(thread[t].from) ELSE UNCHANGED worker
    /\ thread' = [thread EXCEPT ![t] = NoReport]
    /\ UNCHANGED <<server, dir, proc, ran, expiries, edits>>

\* The buttons; what their whole-row saves can undo is the subject of Results.
StopOrRestart ==
    /\ edits < MaxEdits
    /\ test' = [test EXCEPT !.finished = ~@]
    /\ edits' = edits + 1
    /\ UNCHANGED <<result, row, assign, worker, dir, proc, thread, ran,
                   expiries, failures>>

-----------------------------------------------------------------------------
MachineStep(m) ==
    \/ SelectWorkload(m) \/ HandOut(m) \/ Launch(m)
    \/ \E t \in Threads : SendProgress(m, t) \/ SendFinal(m, t) \/ SendStopped(m, t)
    \/ Blacklist(m)

TunerStep(m) == RunPair(m) \/ EndRun(m)

ThreadStep(t) == CommitSpsa(t) \/ CreditSpsa(t) \/ ReplySpsa(t)

Fault ==
    \/ \E m \in Machines : GiveUpWorkload(m) \/ KillRun(m) \/ ExitFile(m) \/ RestartWorker(m)
    \/ \E t \in Threads : GiveUpReport(t) \/ FailReport(t)

Next ==
    \/ \E m \in Machines : MachineStep(m) \/ TunerStep(m) \/ TakeOther(m) \/ Expire(m)
    \/ \E t \in Threads : ThreadStep(t)
    \/ Fault
    \/ StopOrRestart

Spec == Init /\ [][Next]_vars

\* The worker's loop turns, games end, requests with a thread are executed, and
\* a machine that no longer reports gets three minutes older.
Fairness ==
    /\ \A m \in Machines : /\ WF_vars(MachineStep(m)) /\ WF_vars(TunerStep(m))
                           /\ SF_vars(HandOut(m)) /\ SF_vars(Launch(m))
                           /\ WF_vars(Expire(m) /\ worker[m].pc = "idle")
    /\ \A t \in Threads : WF_vars(ThreadStep(t))

FairSpec == Spec /\ Fairness

-----------------------------------------------------------------------------
(***************************************************************************)
(* Properties.                                                             *)
(***************************************************************************)
Ran      == SumFunction(ran)
Credited == SumFunction(result)
Due      == SumFunction([t \in Threads |-> IF thread[t] = NoReport THEN 0 ELSE thread[t].delta])

\* The progress the server shows, and hands on to the next machine, was really
\* run by somebody: offsets and cumulative reports never count a pair twice.
ProgressIsReal == test.pairs <= Ran

\* Without early stopping a tuning is only finished by a final report that
\* covers its whole schedule, however often it changed machines.
FinishedIsComplete ==
    [][~EarlyStop /\ test'.passed /\ ~test.passed => test'.pairs >= TotalPairs]_vars

\* Without a failure every pair of the progress, as far as pairs are counted, is
\* credited to some Result row, or will be.
ProgressIsCredited == failures = 0 => Min({test.pairs, MaxCredit}) <= Credited + Due

\* A tuning that nobody stops is finished, although calls are lost and processes
\* die, unless every machine has blacklisted it: what one machine leaves behind
\* another one takes over.
TuningFinishes == <>(test.finished \/ \A m \in Machines : worker[m].blacklisted)

(***************************************************************************)
(* What the repository says, and the code does not do.                     *)
(***************************************************************************)
\* "An SPSA workload is always owned by one worker" (SPSA.md).
SingleRunner == Cardinality({ m \in Machines : proc[m] }) <= 1
=============================================================================
