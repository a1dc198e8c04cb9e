--------------------------- MODULE ResultsProofs ---------------------------
(***************************************************************************)
(* Theorems about Results: the types, and the soundness of the verdict and *)
(* of the opening ranges, for any number of workers and threads, any       *)
(* tallies and any likelihood ratio.                                       *)
(***************************************************************************)
EXTENDS Results, TLAPS

-----------------------------------------------------------------------------
(***************************************************************************)
(* What the functions on rows and tallies return.                          *)
(***************************************************************************)
\* The sum of two tallies is a tally.
LEMMA PlusType == ASSUME NEW s \in Tally, NEW t \in Tally
                  PROVE  Plus(s, t) \in Tally
BY DEF Tally, Plus

LEMMA NoGamesType == NoGames \in Tally
BY DEF Tally, NoGames

\* A row carries the verdict of its own numbers.
Consistent(r) == /\ r.passed <=> Accepted(r.mode, r.tally)
                 /\ r.failed <=> Rejected(r.mode, r.tally)

\* create_workload makes consistent rows: no verdict holds of no games.
LEMMA NewRowsConsistent == \A r \in NewRows : r \in Row /\ Consistent(r)
<1> SUFFICES ASSUME NEW r \in NewRows PROVE r \in Row /\ Consistent(r)
    OBVIOUS
<1>2. /\ r.tally = NoGames /\ r.mode \in AllModes
      /\ r.passed = FALSE /\ r.failed = FALSE
  BY DEF NewRows
<1>1. r \in Row
  <2>1. {NoGames} \subseteq Tally /\ {1} \subseteq Nat
    BY NoGamesType
  <2>2. {FALSE} \subseteq BOOLEAN
    OBVIOUS
  <2> HIDE DEF NoGames
  <2> QED BY <2>1, <2>2, Zenon DEF NewRows, Row
<1>3. NoGames["games"] = 0
  BY DEF NoGames, Columns
<1>4. ~Accepted(r.mode, NoGames) /\ ~Rejected(r.mode, NoGames)
  BY <1>2, <1>3, ConstantsAssumption DEF Accepted, Rejected
<1> QED BY <1>1, <1>2, <1>4 DEF Consistent

\* A report leaves the row it is added to consistent, as the verdict is
\* computed from the new sums.
LEMMA AddReportConsistent ==
    ASSUME NEW r \in Row, NEW t \in Tally, Consistent(r)
    PROVE  AddReport(r, t) \in Row /\ Consistent(AddReport(r, t))
<1> DEFINE s == [r EXCEPT !.tally = Plus(@, t)]
<1>1. s \in Row /\ s.mode = r.mode /\ s.failed = r.failed
  BY PlusType DEF Row
<1>2. AddReport(r, t) = WithVerdict(s)
  BY DEF AddReport
<1> HIDE DEF s
<1>3. Accepted(s.mode, s.tally) \in BOOLEAN /\ Rejected(s.mode, s.tally) \in BOOLEAN
  BY DEF Accepted, Rejected
<1>4. WithVerdict(s) \in Row
  BY <1>1, <1>3 DEF WithVerdict, Row
<1>5. /\ WithVerdict(s).mode = s.mode /\ WithVerdict(s).tally = s.tally
      /\ WithVerdict(s).passed <=> Accepted(s.mode, s.tally)
  BY <1>1 DEF WithVerdict, Row
<1>6. WithVerdict(s).failed <=> Rejected(s.mode, s.tally)
  <2>1. CASE s.mode = "DATAGEN"
    <3>1. ~Rejected(s.mode, s.tally) /\ ~Rejected(r.mode, r.tally)
      BY <2>1, <1>1 DEF Rejected
    <3>2. r.failed = FALSE
      BY <3>1 DEF Consistent, Row
    <3> QED BY <2>1, <3>1, <3>2, <1>1, <1>3 DEF WithVerdict, Row
  <2>2. CASE s.mode # "DATAGEN"
    BY <2>2, <1>1 DEF WithVerdict, Row
  <2> QED BY <2>1, <2>2
<1> QED BY <1>2, <1>4, <1>5, <1>6 DEF Consistent

\* The buttons, the watcher and a bench error keep a row consistent: none of
\* them touches a tally or a verdict.
LEMMA EditedConsistent ==
    ASSUME NEW r \in Row, NEW op \in EditOps, Consistent(r)
    PROVE  Edited(op, r) \in Row /\ Consistent(Edited(op, r))
BY DEF Edited, Row, EditOps, PageOps, Consistent

LEMMA ScaledConsistent ==
    ASSUME NEW r \in Row, Consistent(r)
    PROVE  Scaled(r) \in Row /\ Consistent(Scaled(r))
BY DEF Scaled, Row, Consistent

\* Openings are only ever handed out forwards.
LEMMA TakeOpeningsForward ==
    ASSUME NEW r \in Row, NEW n \in Nat \ {0}, Consistent(r)
    PROVE  /\ TakeOpenings(r, n) \in Row /\ Consistent(TakeOpenings(r, n))
           /\ TakeOpenings(r, n).book_index >= r.book_index + OpeningsUsed(r, n)
           /\ OpeningsUsed(r, n) \in Nat
<1>1. PerOpening(r) \in {1, 2}
  BY DEF PerOpening
<1>2. n * PerOpening(r) \in Nat /\ n * PerOpening(r) >= n
  BY <1>1
<1>3. TakeOpenings(r, n).book_index = r.book_index + n * PerOpening(r)
  BY DEF TakeOpenings, Row
<1>4. TakeOpenings(r, n) \in Row /\ Consistent(TakeOpenings(r, n))
  BY <1>2 DEF TakeOpenings, Row, Consistent
<1>5. OpeningsUsed(r, n) \in Nat /\ OpeningsUsed(r, n) <= n
  BY DEF OpeningsUsed
<1> QED BY <1>2, <1>3, <1>4, <1>5 DEF Row
-----------------------------------------------------------------------------
(***************************************************************************)
(* The inductive invariant behind VerdictSound and OpeningsDisjoint.  A    *)
(* whole-row save writes a copy that was read at any earlier time, so the  *)
(* copies must be as consistent as the row; and while no copy was stale at *)
(* its save, book_index has only moved forwards.                           *)
(***************************************************************************)
CopiesConsistent ==
    /\ Consistent(test)
    /\ \A w \in Workers : assign[w] # NoAssignment => Consistent(assign[w].row)
    /\ \A e \in Editors : editor[e] # NoEdit => Consistent(editor[e].row)

SpansForward ==
    /\ overlap => clobbered
    /\ ~clobbered => handed <= test.book_index

RowInv == TypeOK /\ CopiesConsistent /\ SpansForward

\* The parts of TypeOK, by what they are about.
RowTypes == /\ test \in Row
            /\ assign \in [Workers -> {NoAssignment} \union Assignment]
            /\ editor \in [Editors -> {NoEdit} \union [op : Ops, row : Row]]
PairTypes == /\ worker \in [Workers -> Worker]
             /\ thread \in [Threads -> {IdleThread} \union Busy]
             /\ result \in [Workers -> Tally] /\ profile \in Nat
             /\ played \in [Workers -> Tally] /\ delivered \in [Workers -> Tally]
             /\ dropped \in [Workers -> Tally]
CountTypes == /\ handed \in Nat /\ overlap \in BOOLEAN /\ clobbered \in BOOLEAN
              /\ rounds \in Nat /\ failures \in Nat /\ edits \in Nat

LEMMA TypeParts == TypeOK <=> RowTypes /\ PairTypes /\ CountTypes
BY DEF TypeOK, RowTypes, PairTypes, CountTypes

LEMMA IdleWorkerType == IdleWorker \in Worker
BY NoGamesType, ResultsAssumption DEF IdleWorker, Worker

LEMMA RowInvInit == Init => RowInv
<1> SUFFICES ASSUME Init PROVE RowInv
    OBVIOUS
<1>1. test \in Row /\ Consistent(test) /\ test.book_index = 1
  <2>1. test \in NewRows
    BY ResultsAssumption DEF Init
  <2> QED BY <2>1, NewRowsConsistent DEF NewRows
<1>2. TypeOK
  BY <1>1, NoGamesType, IdleWorkerType DEF Init, TypeOK
<1>3. CopiesConsistent
  BY <1>1 DEF Init, CopiesConsistent, NoAssignment
<1>4. SpansForward
  BY <1>1 DEF Init, SpansForward
<1> QED BY <1>2, <1>3, <1>4 DEF RowInv

\* Every step that leaves the row and its copies alone keeps RowInv, but for
\* the types of what it does change.
LEMMA RowsUntouched ==
    ASSUME RowInv, PairTypes', failures' \in Nat, rounds' \in Nat, edits' \in Nat,
           UNCHANGED <<test, assign, editor, handed, overlap, clobbered>>
    PROVE  RowInv'
<1>1. RowTypes' /\ CountTypes'
  BY TypeParts DEF RowInv, RowTypes, CountTypes
<1>2. CopiesConsistent'
  BY DEF RowInv, CopiesConsistent, Consistent
<1>3. SpansForward'
  BY DEF RowInv, SpansForward
<1>4. TypeOK'
  BY <1>1 DEF TypeOK, RowTypes, PairTypes, CountTypes
<1> QED BY <1>2, <1>3, <1>4 DEF RowInv

-----------------------------------------------------------------------------
(***************************************************************************)
(* The steps that read or write rows.                                      *)
(***************************************************************************)
\* An assignment that only moves on keeps its copy of the row.
LEMMA AssignStepCopies ==
    ASSUME NEW w \in Workers, RowInv, NEW a \in Assignment, assign[w] # NoAssignment,
           Consistent(a.row), assign' = [assign EXCEPT ![w] = a], UNCHANGED editor,
           Consistent(test')
    PROVE  /\ assign' \in [Workers -> {NoAssignment} \union Assignment]
           /\ CopiesConsistent'
<1>1. assign' \in [Workers -> {NoAssignment} \union Assignment]
  BY DEF RowInv, TypeOK
<1>2. ASSUME NEW v \in Workers, assign'[v] # NoAssignment
      PROVE  Consistent(assign'[v].row)
  <2>1. CASE v = w
    BY <2>1 DEF RowInv, TypeOK
  <2>2. CASE v # w
    BY <2>2, <1>2 DEF RowInv, TypeOK, CopiesConsistent
  <2> QED BY <2>1, <2>2
<1>3. Consistent(test)' /\ \A e \in Editors : editor'[e] # NoEdit => Consistent(editor'[e].row)
  BY DEF RowInv, CopiesConsistent, Consistent
<1>4. (\A v \in Workers : assign[v] # NoAssignment => Consistent(assign[v].row))'
  BY <1>2 DEF Consistent
<1>5. (\A e \in Editors : editor[e] # NoEdit => Consistent(editor[e].row))'
  BY <1>3 DEF Consistent
<1> QED BY <1>1, <1>3, <1>4, <1>5 DEF CopiesConsistent

LEMMA SelectTestRowInv ==
    ASSUME NEW w \in Workers, RowInv, SelectTest(w) PROVE RowInv'
<1> USE DEF RowInv, SelectTest, credits, bounds
<1>1. RowTypes' /\ CountTypes'
  BY ResultsAssumption, NoGamesType DEF TypeOK, RowTypes, CountTypes, Assignment
<1>2. PairTypes'
  <2>1. worker' \in [Workers -> Worker]
    BY DEF TypeOK, Worker
  <2> QED BY <2>1 DEF TypeOK, PairTypes
<1>3. CopiesConsistent'
  BY DEF TypeOK, CopiesConsistent, Consistent
<1>4. SpansForward'
  BY DEF SpansForward
<1> QED BY <1>1, <1>2, <1>3, <1>4 DEF TypeOK, RowTypes, CountTypes, PairTypes

LEMMA OpenResultRowInv ==
    ASSUME NEW w \in Workers, RowInv, OpenResult(w) PROVE RowInv'
<1> USE DEF RowInv, OpenResult, credits, spans, bounds
<1> DEFINE a == [assign[w] EXCEPT !.pc = "opened", !.mine = result[w]]
<1>1. assign[w] # NoAssignment /\ assign[w] \in Assignment /\ result[w] \in Tally
  BY DEF NoAssignment, TypeOK
<1>2. a \in Assignment /\ a.row = assign[w].row /\ assign' = [assign EXCEPT ![w] = a]
  BY <1>1 DEF Assignment, TypeOK
<1> HIDE DEF a
<1>3. Consistent(a.row) /\ Consistent(test')
  BY <1>1, <1>2 DEF CopiesConsistent
<1>4. assign' \in [Workers -> {NoAssignment} \union Assignment] /\ CopiesConsistent'
  BY <1>1, <1>2, <1>3, AssignStepCopies
<1> QED BY <1>4 DEF TypeOK, SpansForward

LEMMA SaveResultRowInv ==
    ASSUME NEW w \in Workers, RowInv, SaveResult(w) PROVE RowInv'
<1> USE DEF RowInv, SaveResult, credits, spans, bounds
<1> DEFINE a == [assign[w] EXCEPT !.pc = "saved", !.mine = NoGames]
<1>1. assign[w] # NoAssignment /\ assign[w] \in Assignment
  BY DEF NoAssignment, TypeOK
<1>2. a \in Assignment /\ a.row = assign[w].row /\ assign' = [assign EXCEPT ![w] = a]
  BY <1>1, NoGamesType DEF Assignment, TypeOK
<1> HIDE DEF a
<1>3. Consistent(a.row) /\ Consistent(test')
  BY <1>1, <1>2 DEF CopiesConsistent
<1>4. assign' \in [Workers -> {NoAssignment} \union Assignment] /\ CopiesConsistent'
  BY <1>1, <1>2, <1>3, AssignStepCopies
<1>5. result' \in [Workers -> Tally]
  BY <1>1 DEF TypeOK, Assignment
<1> QED BY <1>4, <1>5 DEF TypeOK, SpansForward

LEMMA SaveScaleRowInv ==
    ASSUME NEW w \in Workers, RowInv, SaveScale(w) PROVE RowInv'
<1> USE DEF RowInv, SaveScale, credits, spans, bounds
<1> DEFINE r == assign[w].row
           a == [assign[w] EXCEPT !.row = Scaled(r)]
<1>1. /\ assign[w] # NoAssignment /\ assign[w] \in Assignment
      /\ r \in Row /\ Consistent(r)
  <2>1. assign[w] # NoAssignment
    BY DEF NoAssignment
  <2>2. assign[w] \in Assignment
    BY <2>1 DEF TypeOK
  <2> QED BY <2>1, <2>2 DEF CopiesConsistent, Assignment
<1>2. Scaled(r) \in Row /\ Consistent(Scaled(r)) /\ Scaled(r).book_index = r.book_index
  <2>1. Scaled(r).book_index = r.book_index
    BY <1>1 DEF Scaled, Row
  <2> QED BY <1>1, <2>1, ScaledConsistent
<1>3. test' = Scaled(r) /\ assign' = [assign EXCEPT ![w] = a]
  OBVIOUS
<1>4. a \in Assignment /\ a.row = Scaled(r)
  BY <1>1, <1>2 DEF Assignment
<1> HIDE DEF a
<1>5. assign' \in [Workers -> {NoAssignment} \union Assignment] /\ CopiesConsistent'
  BY <1>1, <1>2, <1>3, <1>4, AssignStepCopies
<1>6. SpansForward'
  BY <1>1, <1>2, <1>3 DEF SpansForward, r, TypeOK
<1>7. TypeOK'
  BY <1>2, <1>3, <1>5 DEF TypeOK
<1> QED BY <1>5, <1>6, <1>7

LEMMA TakeBookIndexRowInv ==
    ASSUME NEW w \in Workers, RowInv, TakeBookIndex(w) PROVE RowInv'
<1> USE DEF RowInv, TakeBookIndex, credits, bounds
<1>1. /\ test' \in Row /\ Consistent(test')
      /\ test'.book_index >= test.book_index + OpeningsUsed(test, Allot)
      /\ OpeningsUsed(test, Allot) \in Nat /\ test.book_index \in Nat
      /\ test'.book_index \in Nat
  <2>1. test \in Row /\ Consistent(test) /\ test' = TakeOpenings(test, Allot)
    BY DEF TypeOK, CopiesConsistent
  <2>2. Allot \in Nat \ {0}
    BY ResultsAssumption
  <2> QED BY <2>1, <2>2, TakeOpeningsForward DEF Row
<1>2. worker' \in [Workers -> Worker]
  <2>1. worker \in [Workers -> Worker] /\ Allot \in 0..Allot
    BY ResultsAssumption DEF TypeOK
  <2>2. [worker[w] EXCEPT !.pc = "playing", !.left = Allot] \in Worker
    BY <2>1 DEF Worker
  <2>3. \/ worker' = worker
        \/ worker' = [worker EXCEPT ![w] =
                           [worker[w] EXCEPT !.pc = "playing", !.left = Allot]]
    BY <2>1
  <2> QED BY <2>1, <2>2, <2>3
<1>3. handed' \in Nat /\ overlap' \in BOOLEAN
  BY <1>1 DEF TypeOK
<1>4. assign' \in [Workers -> {NoAssignment} \union Assignment]
  BY DEF TypeOK
<1>5. CopiesConsistent'
  <2>1. \A v \in Workers : assign'[v] # NoAssignment => Consistent(assign'[v].row)
    BY DEF TypeOK, CopiesConsistent, NoAssignment, Consistent
  <2> QED BY <1>1, <2>1 DEF CopiesConsistent, Consistent
<1>6. SpansForward'
  BY <1>1 DEF SpansForward, TypeOK
<1> QED BY <1>1, <1>2, <1>3, <1>4, <1>5, <1>6 DEF TypeOK

LEMMA CommitReportRowInv ==
    ASSUME NEW t \in Threads, RowInv, CommitReport(t) PROVE RowInv'
<1> USE DEF RowInv, CommitReport, credits, spans, bounds
<1>1. thread[t] \in Busy
  BY DEF TypeOK, IdleThread
<1>2. CASE IsClosed(test)
  <2>1. thread' \in [Threads -> {IdleThread} \union Busy]
    BY <1>1, <1>2 DEF TypeOK, Busy
  <2> QED BY <1>2, <2>1, RowsUntouched DEF TypeOK, PairTypes
<1>3. CASE ~IsClosed(test)
  <2>1. test' = AddReport(test, thread[t].report) /\ thread[t].report \in Tally
    BY <1>1, <1>3 DEF Busy
  <2>2. test' \in Row /\ Consistent(test')
    BY <2>1, AddReportConsistent DEF TypeOK, CopiesConsistent
  <2>3. test'.book_index = test.book_index
    BY <2>1 DEF AddReport, WithVerdict, Row, TypeOK
  <2>4. thread' \in [Threads -> {IdleThread} \union Busy]
    BY <1>1, <1>3, <2>2 DEF TypeOK, Busy, Row
  <2>5. delivered' \in [Workers -> Tally]
    BY <1>1, <1>3, PlusType DEF TypeOK, Busy
  <2>6. CopiesConsistent'
    BY <2>2 DEF CopiesConsistent, Consistent
  <2>7. SpansForward'
    BY <2>3 DEF SpansForward
  <2> QED BY <2>2, <2>4, <2>5, <2>6, <2>7 DEF TypeOK
<1> QED BY <1>2, <1>3

LEMMA BeginEditRowInv ==
    ASSUME NEW e \in Editors, NEW op \in Ops, RowInv, BeginEdit(e, op),
           worker' \in [Workers -> Worker],
           UNCHANGED <<test, credits, assign, thread, played, delivered, dropped,
                       spans, clobbered, failures>>
    PROVE  RowInv'
<1> USE DEF RowInv, BeginEdit, credits, spans
<1>1. edits' \in Nat /\ editor' \in [Editors -> {NoEdit} \union [op : Ops, row : Row]]
  BY DEF TypeOK
<1>2. CopiesConsistent'
  BY DEF TypeOK, CopiesConsistent, Consistent
<1> QED BY <1>1, <1>2 DEF TypeOK, SpansForward

LEMMA SaveEditRowInv ==
    ASSUME NEW e \in Editors, RowInv, SaveEdit(e) PROVE RowInv'
<1> USE DEF RowInv, SaveEdit, credits, spans, bounds
<1>1. /\ editor[e].row \in Row /\ editor[e].op \in EditOps
      /\ Consistent(editor[e].row)
  BY ResultsAssumption DEF TypeOK, CopiesConsistent
<1>2. test' \in Row /\ Consistent(test')
  BY <1>1, EditedConsistent
<1>3. test'.book_index = editor[e].row.book_index
  BY <1>1 DEF Edited, Row, EditOps, PageOps
<1>4. editor' \in [Editors -> {NoEdit} \union [op : Ops, row : Row]]
  BY DEF TypeOK
<1>5. CopiesConsistent'
  BY <1>2 DEF TypeOK, CopiesConsistent, Consistent
<1>6. SpansForward'
  BY <1>3 DEF SpansForward
<1> QED BY <1>2, <1>4, <1>5, <1>6 DEF TypeOK
-----------------------------------------------------------------------------
(***************************************************************************)
(* The steps of workers, of report threads and of the faults: they change  *)
(* no row and no copy, so their types are all there is to check.           *)
(***************************************************************************)
LEMMA WorkerStepRowInv ==
    ASSUME NEW w \in Workers, RowInv, WorkerStep(w) PROVE RowInv'
<1> USE DEF RowInv, TypeOK, PairTypes, credits, spans, bounds
<1>1. CASE SelectTest(w)
  BY <1>1, SelectTestRowInv
<1>2. ASSUME NEW p \in Pairs, FinishPair(w, p) PROVE RowInv'
  <2>1. p \in Tally
    BY ResultsAssumption
  <2>2. Plus(worker[w].queue, p) \in Tally /\ Plus(played[w], p) \in Tally
    BY <2>1, PlusType DEF Worker
  <2>3. worker[w].left - 1 \in 0..Allot
    BY <1>2, ResultsAssumption DEF FinishPair, Worker
  <2>4. worker' \in [Workers -> Worker] /\ played' \in [Workers -> Tally]
    BY <1>2, <2>2, <2>3 DEF FinishPair, Worker
  <2> QED BY <1>2, <2>4, RowsUntouched DEF FinishPair
<1>3. CASE Collect(w)
  <2>1. Plus(worker[w].pending, worker[w].queue) \in Tally
    BY PlusType DEF Worker
  <2>2. worker' \in [Workers -> Worker]
    BY <1>3, <2>1, NoGamesType DEF Collect, Worker
  <2> QED BY <1>3, <2>2, RowsUntouched DEF Collect
<1>4. ASSUME NEW t \in Threads, NEW next \in {"reporting", "closing"}, Report(w, t, next)
      PROVE  RowInv'
  <2>1. worker' \in [Workers -> Worker]
    BY <1>4 DEF Report, Worker
  <2>2. thread' \in [Threads -> {IdleThread} \union Busy]
    BY <1>4 DEF Report, Worker, Busy
  <2> QED BY <1>4, <2>1, <2>2, RowsUntouched DEF Report
<1>5. CASE FinishWorkload(w)
  <2>1. worker' \in [Workers -> Worker]
    BY <1>5, IdleWorkerType DEF FinishWorkload
  <2> QED BY <1>5, <2>1, RowsUntouched DEF FinishWorkload
<1>6. CASE HeartbeatStop(w)
  <2>1. Plus(dropped[w], worker[w].queue) \in Tally
    BY PlusType DEF Worker
  <2>2. worker' \in [Workers -> Worker] /\ dropped' \in [Workers -> Tally]
    BY <1>6, <2>1, IdleWorkerType DEF HeartbeatStop
  <2> QED BY <1>6, <2>2, RowsUntouched DEF HeartbeatStop
<1> QED BY <1>1, <1>2, <1>3, <1>4, <1>5, <1>6
        DEF WorkerStep, SendReport, SendFinalReport

LEMMA NoAnswerTypes ==
    ASSUME NEW w \in Workers, TypeOK, NoAnswer(w)
    PROVE  worker' \in [Workers -> Worker] /\ dropped' \in [Workers -> Tally]
<1>1. [worker[w] EXCEPT !.pc = "playing"] \in Worker
  BY DEF TypeOK, Worker
<1>2. Plus(dropped[w], worker[w].pending) \in Tally
  BY PlusType DEF TypeOK, Worker
<1> QED BY <1>1, <1>2, IdleWorkerType DEF NoAnswer, TypeOK

LEMMA AnswerTypes ==
    ASSUME NEW t \in Threads, TypeOK, thread[t] \in Busy, NEW stop \in BOOLEAN,
           Answer(t, stop)
    PROVE  worker' \in [Workers -> Worker] /\ dropped' \in [Workers -> Tally]
<1> DEFINE w == thread[t].from
           lost == IF thread[t].added THEN NoGames ELSE worker[w].pending
<1>1. w \in Workers
  BY DEF Busy
<1>2. [worker[w] EXCEPT !.pc = "playing", !.pending = NoGames] \in Worker
  <2>1. worker[w] \in Worker
    BY <1>1 DEF TypeOK
  <2> QED BY <2>1, NoGamesType DEF Worker
<1>3. lost \in Tally /\ worker[w].queue \in Tally /\ dropped[w] \in Tally
  <2>1. worker[w] \in Worker /\ dropped[w] \in Tally
    BY <1>1 DEF TypeOK
  <2>2. worker[w].queue \in Tally /\ worker[w].pending \in Tally
    BY <2>1 DEF Worker
  <2> QED BY <2>1, <2>2, NoGamesType
<1>4. Plus(dropped[w], IF stop THEN Plus(lost, worker[w].queue) ELSE lost) \in Tally
  BY <1>3, PlusType
<1>5. worker' \in [Workers -> Worker]
  BY <1>1, <1>2, IdleWorkerType DEF Answer, TypeOK
<1>6. dropped' \in [Workers -> Tally]
  BY <1>1, <1>4 DEF Answer, TypeOK
<1> QED BY <1>5, <1>6

LEMMA ThreadStepRowInv ==
    ASSUME NEW t \in Threads, RowInv, ThreadStep(t) PROVE RowInv'
<1> USE DEF RowInv, TypeOK, PairTypes, credits, spans, bounds
<1>1. CASE CommitReport(t)
  BY <1>1, CommitReportRowInv
<1>2. CASE CreditResult(t)
  <2>1. thread[t] \in Busy
    BY <1>2 DEF CreditResult, IdleThread
  <2>2. result' \in [Workers -> Tally]
    BY <1>2, <2>1, PlusType DEF CreditResult, Busy
  <2>3. thread' \in [Threads -> {IdleThread} \union Busy]
    BY <1>2, <2>1 DEF CreditResult, Busy
  <2> QED BY <1>2, <2>2, <2>3, RowsUntouched DEF CreditResult
<1>3. CASE CreditProfile(t)
  <2>1. thread[t] \in Busy
    BY <1>3 DEF CreditProfile, IdleThread
  <2>2. thread[t].report["games"] \in Nat
    BY <2>1 DEF Busy, Tally, Columns
  <2>3. profile' \in Nat
    BY <1>3, <2>2 DEF CreditProfile
  <2>4. thread' \in [Threads -> {IdleThread} \union Busy]
    BY <1>3, <2>1 DEF CreditProfile, Busy
  <2> QED BY <1>3, <2>3, <2>4, RowsUntouched DEF CreditProfile
<1>4. CASE Reply(t)
  <2>1. thread[t] \in Busy
    BY <1>4 DEF Reply, IdleThread
  <2>8. failures' = failures \/ failures' = failures + 1
    BY <1>4, Zenon DEF Reply, Failure
  <2>2. failures' \in Nat
    BY <2>8
  <2>6. thread[t].stop \in BOOLEAN
    BY <2>1 DEF Busy
  <2>7. Answer(t, thread[t].stop) \/ Answer(t, TRUE)
    BY <1>4, Zenon DEF Reply
  <2>3. \E stop \in BOOLEAN : Answer(t, stop)
    BY <2>6, <2>7, Zenon
  <2>4. worker' \in [Workers -> Worker] /\ dropped' \in [Workers -> Tally]
    BY <2>1, <2>3, AnswerTypes
  <2>5. thread' \in [Threads -> {IdleThread} \union Busy]
    BY <1>4 DEF Reply
  <2> QED BY <1>4, <2>2, <2>4, <2>5, RowsUntouched DEF Reply
<1>5. CASE EndThread(t)
  <2>1. thread' \in [Threads -> {IdleThread} \union Busy]
    BY <1>5 DEF EndThread
  <2> QED BY <1>5, <2>1, RowsUntouched DEF EndThread
<1> QED BY <1>1, <1>2, <1>3, <1>4, <1>5 DEF ThreadStep

LEMMA FaultRowInv == ASSUME RowInv, Fault PROVE RowInv'
<1> USE DEF RowInv, TypeOK, PairTypes, credits, spans, bounds, Failure
<1>1. ASSUME NEW w \in Workers, GiveUpAssignment(w) PROVE RowInv'
  <2>1. worker' \in [Workers -> Worker]
    BY <1>1, IdleWorkerType DEF GiveUpAssignment
  <2>2. CASE UNCHANGED assign
    BY <1>1, <2>1, <2>2, RowsUntouched DEF GiveUpAssignment
  <2>3. CASE assign' = [assign EXCEPT ![w] = NoAssignment]
    <3>1. assign' \in [Workers -> {NoAssignment} \union Assignment] /\ failures' \in Nat
      BY <1>1, <2>3 DEF GiveUpAssignment
    <3>2. CopiesConsistent'
      BY <1>1, <2>3 DEF GiveUpAssignment, CopiesConsistent, Consistent
    <3>3. UNCHANGED <<test, result, profile, thread, editor, played, delivered,
                      dropped, handed, overlap, clobbered, rounds, edits>>
      BY <1>1 DEF GiveUpAssignment
    <3> QED BY <2>1, <3>1, <3>2, <3>3 DEF SpansForward
  <2> QED BY <1>1, <2>2, <2>3 DEF GiveUpAssignment
<1>2. ASSUME NEW w \in Workers, LoseFinalReport(w) PROVE RowInv'
  <2>1. Plus(dropped[w], worker[w].pending) \in Tally
    BY PlusType DEF Worker
  <2>2. worker' \in [Workers -> Worker] /\ dropped' \in [Workers -> Tally]
    BY <1>2, <2>1, IdleWorkerType DEF LoseFinalReport
  <2> QED BY <1>2, <2>2, RowsUntouched DEF LoseFinalReport
<1>3. ASSUME NEW w \in Workers, Abort(w) PROVE RowInv'
  <2>1. Plus(worker[w].queue, worker[w].pending) \in Tally
    BY PlusType DEF Worker
  <2>2. Plus(dropped[w], Plus(worker[w].queue, worker[w].pending)) \in Tally
    BY <2>1, PlusType
  <2>3. worker' \in [Workers -> Worker] /\ dropped' \in [Workers -> Tally]
    BY <1>3, <2>2, IdleWorkerType DEF Abort
  <2>4. thread' \in [Threads -> {IdleThread} \union Busy]
    <3>1. \A t \in Threads : thread[t] # IdleThread =>
                [thread[t] EXCEPT !.awaited = FALSE] \in Busy
      BY DEF Busy
    <3> QED BY <1>3, <3>1 DEF Abort
  <2> QED BY <1>3, <2>3, <2>4, RowsUntouched DEF Abort
<1>4. ASSUME NEW t \in Threads, GiveUpReport(t) PROVE RowInv'
  <2>1. thread[t] \in Busy
    BY <1>4 DEF GiveUpReport
  <2>2. worker' \in [Workers -> Worker] /\ dropped' \in [Workers -> Tally]
    BY <1>4, <2>1, NoAnswerTypes DEF GiveUpReport, Busy
  <2>3. thread' \in [Threads -> {IdleThread} \union Busy]
    BY <1>4, <2>1 DEF GiveUpReport, Busy
  <2> QED BY <1>4, <2>2, <2>3, RowsUntouched DEF GiveUpReport
<1>5. ASSUME NEW t \in Threads, FailThread(t) PROVE RowInv'
  <2>1. thread[t] \in Busy
    BY <1>5 DEF FailThread
  <2>2. worker' \in [Workers -> Worker] /\ dropped' \in [Workers -> Tally]
    BY <1>5, <2>1, NoAnswerTypes DEF FailThread, Busy
  <2>3. thread' \in [Threads -> {IdleThread} \union Busy]
    BY <1>5 DEF FailThread
  <2> QED BY <1>5, <2>2, <2>3, RowsUntouched DEF FailThread
<1> QED BY <1>1, <1>2, <1>3, <1>4, <1>5 DEF Fault

LEMMA EditStepRowInv ==
    ASSUME NEW e \in Editors, RowInv, EditStep(e) PROVE RowInv'
<1> USE DEF RowInv
<1>1. CASE BeginPageOp(e)
  <2>1. PICK op \in PageOps : BeginEdit(e, op)
    BY <1>1 DEF BeginPageOp
  <2> QED BY <1>1, <2>1, BeginEditRowInv DEF BeginPageOp, BeginEdit, TypeOK
<1>2. CASE BeginArtifacts(e)
  BY <1>2, BeginEditRowInv DEF BeginArtifacts, BeginEdit, TypeOK
<1>3. ASSUME NEW w \in Workers, BeginBenchError(e, w) PROVE RowInv'
  <2>1. worker' \in [Workers -> Worker]
    BY <1>3, IdleWorkerType DEF BeginBenchError, TypeOK
  <2> QED BY <1>3, <2>1, BeginEditRowInv DEF BeginBenchError, BeginEdit
<1>4. CASE SaveEdit(e)
  BY <1>4, SaveEditRowInv
<1> QED BY <1>1, <1>2, <1>3, <1>4 DEF EditStep

\* RowInv is inductive.
LEMMA RowInvNext == RowInv /\ [Next]_vars => RowInv'
<1> SUFFICES ASSUME RowInv, [Next]_vars PROVE RowInv'
    OBVIOUS
<1>1. ASSUME NEW w \in Workers, WorkerStep(w) PROVE RowInv'
  BY <1>1, WorkerStepRowInv
<1>2. ASSUME NEW w \in Workers, AssignStep(w) PROVE RowInv'
  BY <1>2, OpenResultRowInv, SaveResultRowInv, SaveScaleRowInv,
     TakeBookIndexRowInv DEF AssignStep
<1>3. ASSUME NEW t \in Threads, ThreadStep(t) PROVE RowInv'
  BY <1>3, ThreadStepRowInv
<1>4. CASE Fault
  BY <1>4, FaultRowInv
<1>5. ASSUME NEW e \in Editors, EditStep(e) PROVE RowInv'
  BY <1>5, EditStepRowInv
<1>6. CASE UNCHANGED vars
  BY <1>6, RowsUntouched DEF vars, RowInv, TypeOK, PairTypes
<1> QED BY <1>1, <1>2, <1>3, <1>4, <1>5, <1>6 DEF Next

\* Every reachable state is well typed.
THEOREM TypeCorrect == Spec => []TypeOK
<1>1. RowInv => TypeOK
  BY DEF RowInv
<1> QED BY <1>1, RowInvInit, RowInvNext, PTL DEF Spec

\* In every reachable state passed and failed are the verdict of the numbers
\* the row holds, however reports, buttons, watcher and stale saves interleave.
THEOREM VerdictIsSound == Spec => []VerdictSound
<1>1. RowInv => VerdictSound
  BY DEF RowInv, CopiesConsistent, Consistent, VerdictSound
<1> QED BY <1>1, RowInvInit, RowInvNext, PTL DEF Spec

\* No two workloads are handed the same opening, unless a whole-row save put
\* an old book_index back.
THEOREM OpeningsAreDisjoint == Spec => []OpeningsDisjoint
<1>1. RowInv => OpeningsDisjoint
  BY DEF RowInv, SpansForward, OpeningsDisjoint
<1> QED BY <1>1, RowInvInit, RowInvNext, PTL DEF Spec
=============================================================================
