------------------------------ MODULE Results ------------------------------
(***************************************************************************)
(* How the games that workers play become the numbers of a test.           *)
(*                                                                         *)
(* A worker (Client/worker.py) is handed a workload, plays game pairs in   *)
(* its match runners, collects the finished pairs in ResultsReporter and   *)
(* posts their sum.  The server (Django, two gunicorn processes of four    *)
(* threads, SQLite) adds a report to the Test row inside a transaction,    *)
(* and then credits the Result row of that machine and the owner's         *)
(* Profile.  Three kinds of requests save a whole Test row they read       *)
(* earlier: the buttons of modify_workload, client_bench_error and the     *)
(* ArtifactWatcher thread.                                                 *)
(*                                                                         *)
(* One Test row, any number of workers.  A thread can fail between any two *)
(* of its database statements ("database is locked", a killed process), a  *)
(* request can be lost, and a worker can give up on a request whose thread *)
(* is still running.                                                       *)
(***************************************************************************)
EXTENDS TestRow, FiniteSets, Functions

CONSTANTS
    Workers,    \* the machines
    Threads,    \* the server threads that can be busy with reports
    Editors,    \* the server threads that can be busy with whole-row saves
    StartRows,  \* the rows create_workload may have made, a subset of NewRows
    Ops,        \* the whole-row saves that may happen, a subset of EditOps
    Pairs,      \* the tallies one finished game pair may add
    Allot,      \* pairs of games one workload hands to a worker
    MaxPairs,   \* bound: pairs handed out in all
    MaxFailures,\* bound: lost requests, lost replies, failed threads, aborts
    MaxEdits    \* bound: whole-row saves begun

ASSUME ResultsAssumption ==
    /\ StartRows \subseteq NewRows
    /\ Ops \subseteq EditOps
    /\ Pairs \subseteq Tally /\ \A p \in Pairs : p["games"] = 2
    /\ IsFiniteSet(Workers) /\ IsFiniteSet(Threads)
    /\ Allot \in Nat \ {0}
    /\ MaxPairs \in Nat /\ MaxFailures \in Nat /\ MaxEdits \in Nat

VARIABLES
    test,       \* the Test row
    result,     \* worker -> the tally of its Result row
    profile,    \* games credited to the owner's Profile
    worker,     \* worker -> its loop, and its ResultsReporter
    assign,     \* worker -> the copies of rows its get_workload thread holds
    thread,     \* thread -> the report it is handling
    editor,     \* editor -> the whole-row save it is handling
    \* History of what happened, read by the properties only.
    played,     \* worker -> the tally of all the pairs it ever finished
    delivered,  \* worker -> the tally of its reports added to the Test row
    dropped,    \* worker -> the tally it finished and gave up
    handed,     \* the openings below it have been handed to some worker
    overlap,    \* a workload's openings began below handed
    clobbered,  \* some whole-row save overwrote a newer row
    rounds,     \* pairs handed out in all
    failures, edits

credits == <<result, profile>>
spans   == <<handed, overlap, rounds>>
bounds  == <<failures, edits>>
vars == <<test, result, profile, worker, assign, thread, editor, played, delivered,
          dropped, handed, overlap, clobbered, rounds, failures, edits>>

NoAssignment == [pc |-> "none"]
IdleThread == [pc |-> "idle"]
NoEdit == [op |-> "none"]

Worker == [pc : {"idle", "assigning", "playing", "reporting", "closing"},
           left : 0..Allot, queue : Tally, pending : Tally]

\* mine is the copy of the worker's Result row between its read and its save.
Assignment == [pc : {"selected", "opened", "saved"}, row : Row, mine : Tally]

Busy == [pc : {"received", "committed", "credited", "handled"}, from : Workers,
         report : Tally, added : BOOLEAN, stop : BOOLEAN, awaited : BOOLEAN]

TypeOK ==
    /\ test \in Row
    /\ result \in [Workers -> Tally]
    /\ profile \in Nat
    /\ worker \in [Workers -> Worker]
    /\ assign \in [Workers -> {NoAssignment} \union Assignment]
    /\ thread \in [Threads -> {IdleThread} \union Busy]
    /\ editor \in [Editors -> {NoEdit} \union [op : Ops, row : Row]]
    /\ played \in [Workers -> Tally] /\ delivered \in [Workers -> Tally]
    /\ dropped \in [Workers -> Tally]
    /\ handed \in Nat /\ overlap \in BOOLEAN /\ clobbered \in BOOLEAN
    /\ rounds \in Nat /\ failures \in Nat /\ edits \in Nat

IdleWorker == [pc |-> "idle", left |-> 0, queue |-> NoGames, pending |-> NoGames]

Init ==
    /\ test \in StartRows
    /\ result = [w \in Workers |-> NoGames]
    /\ profile = 0
    /\ worker = [w \in Workers |-> IdleWorker]
    /\ assign = [w \in Workers |-> NoAssignment]
    /\ thread = [t \in Threads |-> IdleThread]
    /\ editor = [e \in Editors |-> NoEdit]
    /\ played = [w \in Workers |-> NoGames]
    /\ delivered = [w \in Workers |-> NoGames]
    /\ dropped = [w \in Workers |-> NoGames]
    /\ handed = 1 /\ overlap = FALSE /\ clobbered = FALSE
    /\ rounds = 0 /\ failures = 0 /\ edits = 0

Empty(t) == t["games"] = 0
Failure == failures < MaxFailures /\ failures' = failures + 1

-----------------------------------------------------------------------------
(***************************************************************************)
(* clientGetWorkload.  select_workload reads the row.  get_or_create reads *)
(* the Result row, and result.save() writes that copy back.  A test older  *)
(* than the scale_nps column is then saved whole from the copy read first; *)
(* the openings are taken in a transaction that reads the row again.       *)
(***************************************************************************)
SelectTest(w) ==
    /\ worker[w].pc = "idle" /\ assign[w] = NoAssignment
    /\ rounds + Allot <= MaxPairs
    /\ IsActive(test)
    /\ assign' = [assign EXCEPT ![w] = [pc |-> "selected", row |-> test, mine |-> NoGames]]
    /\ worker' = [worker EXCEPT ![w].pc = "assigning"]
    /\ rounds' = rounds + Allot
    /\ UNCHANGED <<test, credits, thread, editor, played, delivered, dropped,
                   handed, overlap, clobbered, bounds>>

OpenResult(w) ==
    /\ assign[w].pc = "selected"
    /\ assign' = [assign EXCEPT ![w].pc = "opened", ![w].mine = result[w]]
    /\ UNCHANGED <<test, credits, worker, thread, editor, played, delivered,
                   dropped, spans, clobbered, bounds>>

SaveResult(w) ==
    /\ assign[w].pc = "opened"
    /\ result' = [result EXCEPT ![w] = assign[w].mine]
    /\ assign' = [assign EXCEPT ![w].pc = "saved", ![w].mine = NoGames]
    /\ UNCHANGED <<test, profile, worker, thread, editor, played, delivered,
                   dropped, spans, clobbered, bounds>>

SaveScale(w) ==
    /\ assign[w].pc = "saved" /\ ~assign[w].row.scaled
    /\ test' = Scaled(assign[w].row)
    /\ clobbered' = (clobbered \/ assign[w].row # test)
    /\ assign' = [assign EXCEPT ![w].row = Scaled(@)]
    /\ UNCHANGED <<credits, worker, thread, editor, played, delivered, dropped,
                   spans, bounds>>

TakeBookIndex_OldCopy(w) ==
    /\ assign[w].pc = "saved" /\ assign[w].row.scaled
    /\ test' = TakeOpenings(assign[w].row, Allot)
    /\ assign' = [assign EXCEPT ![w] = NoAssignment]
    /\ worker' = [worker EXCEPT ![w].pc = "playing", ![w].left = Allot]
    /\ UNCHANGED <<credits, thread, editor, played, delivered, dropped, spans,
                   clobbered, bounds>>

\* The reply with the workload reaches the worker, if it still waits for it.
TakeBookIndex(w) ==
    /\ assign[w].pc = "saved" /\ assign[w].row.scaled
    /\ test' = TakeOpenings(test, Allot)
    /\ LET next == test.book_index + OpeningsUsed(test, Allot)
       IN  /\ overlap' = (overlap \/ (test.book_index < handed /\ test.book_index < next))
           /\ handed' = IF next > handed THEN next ELSE handed
    /\ assign' = [assign EXCEPT ![w] = NoAssignment]
    /\ worker' = IF worker[w].pc = "assigning"
                 THEN [worker EXCEPT ![w].pc = "playing", ![w].left = Allot]
                 ELSE worker
    /\ UNCHANGED <<credits, thread, editor, played, delivered, dropped,
                   clobbered, rounds, bounds>>

\* The request fails or times out for the worker; its thread may go on.
GiveUpAssignment(w) ==
    /\ worker[w].pc = "assigning" /\ Failure
    /\ worker' = [worker EXCEPT ![w] = IdleWorker]
    /\ \/ UNCHANGED assign
       \/ assign' = [assign EXCEPT ![w] = NoAssignment]
    /\ UNCHANGED <<test, credits, thread, editor, played, delivered,
                   dropped, spans, clobbered, edits>>

-----------------------------------------------------------------------------
(***************************************************************************)
(* The match runners and ResultsReporter.                                  *)
(***************************************************************************)
FinishPair_Unlimited(w, p) ==
    /\ worker[w].pc \in {"playing", "reporting"}
    /\ worker' = [worker EXCEPT ![w].left = @ - 1, ![w].queue = Plus(@, p)]
    /\ played' = [played EXCEPT ![w] = Plus(@, p)]
    /\ UNCHANGED <<test, credits, assign, thread, editor, delivered, dropped,
                   spans, clobbered, bounds>>

\* run_and_parse_runner puts a finished pair into the queue, also while the
\* reporter is blocked in a request.
FinishPair(w, p) ==
    /\ worker[w].pc \in {"playing", "reporting"} /\ worker[w].left > 0
    /\ worker' = [worker EXCEPT ![w].left = @ - 1, ![w].queue = Plus(@, p)]
    /\ played' = [played EXCEPT ![w] = Plus(@, p)]
    /\ UNCHANGED <<test, credits, assign, thread, editor, delivered, dropped,
                   spans, clobbered, bounds>>

Collect(w) ==
    /\ worker[w].pc = "playing" /\ ~Empty(worker[w].queue)
    /\ worker' = [worker EXCEPT ![w].pending = Plus(@, worker[w].queue),
                                ![w].queue = NoGames]
    /\ UNCHANGED <<test, credits, assign, thread, editor, played, delivered,
                   dropped, spans, clobbered, bounds>>

\* The match runners are done and the queue is exhausted.
AtEnd(w) == worker[w].pc = "playing" /\ worker[w].left = 0 /\ Empty(worker[w].queue)

Report(w, t, next) ==
    /\ ~Empty(worker[w].pending)
    /\ thread[t] = IdleThread
    /\ thread' = [thread EXCEPT ![t] = [pc |-> "received", from |-> w,
                        report |-> worker[w].pending, added |-> FALSE,
                        stop |-> FALSE, awaited |-> TRUE]]
    /\ worker' = [worker EXCEPT ![w].pc = next]
    /\ UNCHANGED <<test, credits, assign, editor, played, delivered, dropped,
                   spans, clobbered, bounds>>

SendReport(w, t) == worker[w].pc = "playing" /\ Report(w, t, "reporting")
SendFinalReport(w, t) == AtEnd(w) /\ Report(w, t, "closing")

\* The final report never reaches the server.  An earlier report that is lost
\* changes nothing: its results stay pending.
LoseFinalReport(w) ==
    /\ AtEnd(w) /\ ~Empty(worker[w].pending) /\ Failure
    /\ worker' = [worker EXCEPT ![w] = IdleWorker]
    /\ dropped' = [dropped EXCEPT ![w] = Plus(@, worker[w].pending)]
    /\ UNCHANGED <<test, credits, assign, thread, editor, played, delivered,
                   spans, clobbered, edits>>

FinishWorkload(w) ==
    /\ AtEnd(w) /\ Empty(worker[w].pending)
    /\ worker' = [worker EXCEPT ![w] = IdleWorker]
    /\ UNCHANGED <<test, credits, assign, thread, editor, played, delivered,
                   dropped, spans, clobbered, bounds>>

\* A heartbeat is sent when nothing is pending.  It answers stop for a
\* finished test, and not for a deleted one; any other answer changes nothing.
HeartbeatStop(w) ==
    /\ worker[w].pc = "playing" /\ Empty(worker[w].pending)
    /\ test.finished
    /\ worker' = [worker EXCEPT ![w] = IdleWorker]
    /\ dropped' = [dropped EXCEPT ![w] = Plus(@, worker[w].queue)]
    /\ UNCHANGED <<test, credits, assign, thread, editor, played, delivered,
                   spans, clobbered, bounds>>

\* openbench.exit, a fatal answer, or the death of the worker's process.
Abort(w) ==
    /\ worker[w].pc \in {"playing", "reporting", "closing"} /\ Failure
    /\ worker' = [worker EXCEPT ![w] = IdleWorker]
    /\ dropped' = [dropped EXCEPT ![w] = Plus(@, Plus(worker[w].queue, worker[w].pending))]
    /\ thread' = [t \in Threads |-> IF thread[t] # IdleThread /\ thread[t].from = w
                                    THEN [thread[t] EXCEPT !.awaited = FALSE]
                                    ELSE thread[t]]
    /\ UNCHANGED <<test, credits, assign, editor, played, delivered, spans,
                   clobbered, edits>>
-----------------------------------------------------------------------------
(***************************************************************************)
(* clientSubmitResults: update_test, and the reply.                        *)
(***************************************************************************)
CommitReport_NoReturn(t) ==
    /\ thread[t].pc = "received"
    /\ test' = IF IsClosed(test) THEN test ELSE AddReport(test, thread[t].report)
    /\ thread' = [thread EXCEPT ![t].pc = "committed", ![t].added = ~IsClosed(test),
                                ![t].stop = test'.finished]
    /\ delivered' = IF IsClosed(test) THEN delivered
                    ELSE [delivered EXCEPT ![thread[t].from] = Plus(@, thread[t].report)]
    /\ UNCHANGED <<credits, worker, assign, editor, played, dropped, spans,
                   clobbered, bounds>>

\* The transaction: select_for_update, the checks, the sums, the verdict.
CommitReport(t) ==
    /\ thread[t].pc = "received"
    /\ IF IsClosed(test)
       THEN /\ thread' = [thread EXCEPT ![t].pc = "handled", ![t].stop = TRUE]
            /\ UNCHANGED <<test, delivered>>
       ELSE /\ test' = AddReport(test, thread[t].report)
            /\ thread' = [thread EXCEPT ![t].pc = "committed", ![t].added = TRUE,
                                        ![t].stop = test'.finished]
            /\ delivered' = [delivered EXCEPT ![thread[t].from] =
                                 Plus(@, thread[t].report)]
    /\ UNCHANGED <<credits, worker, assign, editor, played, dropped, spans,
                   clobbered, bounds>>

\* The F() updates that follow the transaction, one statement each.
CreditResult(t) ==
    /\ thread[t].pc = "committed"
    /\ result' = [result EXCEPT ![thread[t].from] = Plus(@, thread[t].report)]
    /\ thread' = [thread EXCEPT ![t].pc = "credited"]
    /\ UNCHANGED <<test, profile, worker, assign, editor, played, delivered,
                   dropped, spans, clobbered, bounds>>

CreditProfile(t) ==
    /\ thread[t].pc = "credited"
    /\ profile' = profile + thread[t].report["games"]
    /\ thread' = [thread EXCEPT ![t].pc = "handled"]
    /\ UNCHANGED <<test, result, worker, assign, editor, played, delivered,
                   dropped, spans, clobbered, bounds>>

Answer_KeepPending(t, stop) ==
    /\ worker' = [worker EXCEPT ![thread[t].from] =
            IF stop \/ @.pc = "closing" THEN IdleWorker ELSE [@ EXCEPT !.pc = "playing"]]
    /\ dropped' = [dropped EXCEPT ![thread[t].from] =
            Plus(@, IF stop THEN worker[thread[t].from].queue ELSE NoGames)]

\* A worker that waits reads the reply.  Any well-formed reply clears what was
\* pending; stop also abandons what the runners queued meanwhile.
Answer(t, stop) ==
    LET w == thread[t].from
        lost == IF thread[t].added THEN NoGames ELSE worker[w].pending
    IN  /\ worker' = [worker EXCEPT ![w] =
                IF stop \/ @.pc = "closing" THEN IdleWorker
                ELSE [@ EXCEPT !.pc = "playing", !.pending = NoGames]]
        /\ dropped' = [dropped EXCEPT ![w] =
                Plus(@, IF stop THEN Plus(lost, worker[w].queue) ELSE lost)]

\* asked: the machine was stopped from /workers/, or its key was revoked.
Reply(t) ==
    /\ thread[t].pc = "handled" /\ thread[t].awaited
    /\ \/ Answer(t, thread[t].stop) /\ UNCHANGED failures
       \/ ~thread[t].stop /\ Failure /\ Answer(t, TRUE)
    /\ thread' = [thread EXCEPT ![t] = IdleThread]
    /\ UNCHANGED <<test, credits, assign, editor, played, delivered, spans,
                   clobbered, edits>>

NoAnswer_ForgetPending(w) ==
    /\ worker' = [worker EXCEPT ![w] =
            IF @.pc = "closing" THEN IdleWorker
            ELSE [@ EXCEPT !.pc = "playing", !.pending = NoGames]]
    /\ UNCHANGED dropped

NoAnswer_Hang(w) == UNCHANGED <<worker, dropped>>

\* The worker gets no answer it can read: an error page, a broken connection
\* or a timeout.  The results stay pending, but for a final report.
NoAnswer(w) ==
    /\ worker' = [worker EXCEPT ![w] =
            IF @.pc = "closing" THEN IdleWorker ELSE [@ EXCEPT !.pc = "playing"]]
    /\ dropped' = [dropped EXCEPT ![w] =
            IF worker[w].pc = "closing" THEN Plus(@, worker[w].pending) ELSE @]

GiveUpReport(t) ==
    /\ thread[t] # IdleThread /\ thread[t].awaited /\ Failure
    /\ NoAnswer(thread[t].from)
    /\ thread' = [thread EXCEPT ![t].awaited = FALSE]
    /\ UNCHANGED <<test, credits, assign, editor, played, delivered, spans,
                   clobbered, edits>>

\* The thread raises or dies between two of its statements.
FailThread(t) ==
    /\ thread[t] # IdleThread /\ thread[t].pc # "handled" /\ Failure
    /\ IF thread[t].awaited THEN NoAnswer(thread[t].from)
                            ELSE UNCHANGED <<worker, dropped>>
    /\ thread' = [thread EXCEPT ![t] = IdleThread]
    /\ UNCHANGED <<test, credits, assign, editor, played, delivered, spans,
                   clobbered, edits>>

\* Nobody reads the reply of a request its worker gave up.
EndThread(t) ==
    /\ thread[t].pc = "handled" /\ ~thread[t].awaited
    /\ thread' = [thread EXCEPT ![t] = IdleThread]
    /\ UNCHANGED <<test, credits, worker, assign, editor, played, delivered,
                   dropped, spans, clobbered, bounds>>
-----------------------------------------------------------------------------
(***************************************************************************)
(* The requests that read a row, change a field of the copy, and save the  *)
(* whole copy with neither a lock nor a transaction around the two.        *)
(***************************************************************************)
BeginEdit(e, op) ==
    /\ editor[e] = NoEdit /\ op \in Ops /\ edits < MaxEdits
    /\ editor' = [editor EXCEPT ![e] = [op |-> op, row |-> test]]
    /\ edits' = edits + 1

BeginPageOp(e) ==
    /\ \E op \in PageOps : BeginEdit(e, op)
    /\ UNCHANGED <<test, credits, worker, assign, thread, played, delivered,
                   dropped, spans, clobbered, failures>>

\* One watcher thread; it fetches over the network between its read and save.
BeginArtifacts(e) ==
    /\ IsAwaiting(test)
    /\ \A f \in Editors : editor[f].op # "ARTIFACTS"
    /\ BeginEdit(e, "ARTIFACTS")
    /\ UNCHANGED <<test, credits, worker, assign, thread, played, delivered,
                   dropped, spans, clobbered, failures>>

\* The bench, run before the first game, gives a wrong node count.
BeginBenchError(e, w) ==
    /\ worker[w].pc = "playing" /\ worker[w].left = Allot
    /\ BeginEdit(e, "BENCH_ERROR")
    /\ worker' = [worker EXCEPT ![w] = IdleWorker]
    /\ UNCHANGED <<test, credits, assign, thread, played, delivered, dropped,
                   spans, clobbered, failures>>

SaveEdit(e) ==
    /\ editor[e] # NoEdit
    /\ test' = Edited(editor[e].op, editor[e].row)
    /\ clobbered' = (clobbered \/ editor[e].row # test)
    /\ editor' = [editor EXCEPT ![e] = NoEdit]
    /\ UNCHANGED <<credits, worker, assign, thread, played, delivered, dropped,
                   spans, bounds>>

-----------------------------------------------------------------------------
WorkerStep(w) ==
    \/ SelectTest(w)
    \/ \E p \in Pairs : FinishPair(w, p)
    \/ Collect(w)
    \/ \E t \in Threads : SendReport(w, t)
    \/ \E t \in Threads : SendFinalReport(w, t)
    \/ FinishWorkload(w)
    \/ HeartbeatStop(w)

AssignStep(w) == OpenResult(w) \/ SaveResult(w) \/ SaveScale(w) \/ TakeBookIndex(w)

ThreadStep(t) ==
    \/ CommitReport(t)
    \/ CreditResult(t)
    \/ CreditProfile(t)
    \/ Reply(t)
    \/ EndThread(t)

Fault ==
    \/ \E w \in Workers : GiveUpAssignment(w) \/ LoseFinalReport(w) \/ Abort(w)
    \/ \E t \in Threads : GiveUpReport(t) \/ FailThread(t)

EditStep(e) ==
    \/ BeginPageOp(e)
    \/ BeginArtifacts(e)
    \/ \E w \in Workers : BeginBenchError(e, w)
    \/ SaveEdit(e)

Next ==
    \/ \E w \in Workers : WorkerStep(w) \/ AssignStep(w)
    \/ \E t \in Threads : ThreadStep(t)
    \/ Fault
    \/ \E e \in Editors : EditStep(e)

Spec == Init /\ [][Next]_vars

(***************************************************************************)
(* A worker's loop turns every few seconds and sends something every       *)
(* REPORT_INTERVAL; games end; a request that has a thread is executed.    *)
(* Nothing is assumed of the buttons, of the watcher or of the faults.     *)
(***************************************************************************)
Fairness ==
    /\ \A w \in Workers : WF_vars(WorkerStep(w)) /\ WF_vars(AssignStep(w))
    /\ \A t \in Threads : WF_vars(ThreadStep(t))

FairSpec == Spec /\ Fairness

-----------------------------------------------------------------------------
(***************************************************************************)
(* Properties.                                                             *)
(***************************************************************************)
\* The verdict of the row is the verdict of the row's own numbers, whatever
\* reports, restarts and stale saves came in between (update_test computes it
\* from the sums it has just written, in the same transaction).
VerdictSound ==
    /\ test.passed <=> Accepted(test.mode, test.tally)
    /\ test.failed <=> Rejected(test.mode, test.tally)

\* No finished pair is lost on its way to the Test row: it is in the worker's
\* queue, or pending, or was added to the row, or the worker gave it up (it was
\* told to stop, its final report failed, it was aborted).  ResultsReporter
\* forgets pending results only after an answer, and resends them otherwise.
DeliveredAtLeastOnce ==
    \A w \in Workers :
        AtMost(played[w], Plus(Plus(delivered[w], dropped[w]),
                               Plus(worker[w].queue, worker[w].pending)))

InFlight(w) == { t \in Threads : thread[t] # IdleThread /\ thread[t].from = w }

\* Without a failure a pair is added to the Test row once, and to the Result
\* row of its machine once: nothing is resent that was already added.
ExactlyOnceWithoutFailure ==
    failures = 0 =>
        \A w \in Workers :
            LET settled == \E t \in InFlight(w) : thread[t].added
                unsent  == Plus(worker[w].queue,
                                IF settled THEN NoGames ELSE worker[w].pending)
            IN  /\ played[w] = Plus(Plus(delivered[w], dropped[w]), unsent)
                /\ InFlight(w) = {} => result[w] = delivered[w]

Total(f) == FoldFunction(Plus, NoGames, f)

\* The Test row never holds more than the reports it was given, whatever saves
\* of old copies come in between.  As long as none of them (modify_workload,
\* client_bench_error, ArtifactWatcher, the scale_nps save) overwrote a newer
\* row it holds exactly those; and if no call failed either, it is the "collection
\* of all individual Result() objects" of models.py whenever no thread is between
\* its transaction and its credit, although get_workload writes back a copy of
\* the Result row, and takes the openings after it read the Test row.
TestCountsReports ==
    /\ AtMost(test.tally, Total(delivered))
    /\ ~clobbered => test.tally = Total(delivered)
    /\ ~clobbered /\ failures = 0 /\ (\A t \in Threads : thread[t].pc # "committed") =>
          test.tally = Total(result)

\* A Result row and the Profile are never credited for a report that the Test
\* row did not take: their F() updates follow the transaction.
CreditFollowsCommit ==
    /\ \A w \in Workers : AtMost(result[w], delivered[w])
    /\ profile <= Total(delivered)["games"]

\* Two workloads never get the same openings, as book_index is read and
\* advanced in one transaction (and no stale save put an older one back).
OpeningsDisjoint == overlap => clobbered

\* A test does not run on past its limit: the games beyond max_games are less
\* than what one report can carry, although every worker keeps playing until
\* its next report.  A restart of a finished test is the exception.
OverrunBounded ==
    test.mode \in {"GAMES", "DATAGEN"} /\ "RESTART" \notin Ops =>
        test.tally["games"] < MaxGames + 2 * Allot

\* Every workload ends: it is played out and reported, stopped, or given up.
\* No lost request, lost reply or failed thread leaves a worker waiting.
WorkloadEnds == \A w \in Workers : []<>(worker[w].pc = "idle")

(***************************************************************************)
(* What the repository says, and the code does not do.                     *)
(***************************************************************************)
\* "Collection of all individual Result() objects" (models.py): with nothing
\* under way, the numbers of the test are the sum of its Result rows.
TestIsSumOfResults ==
    (\A t \in Threads : thread[t] = IdleThread) => test.tally = Total(result)
=============================================================================
