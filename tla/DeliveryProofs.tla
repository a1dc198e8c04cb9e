--------------------------- MODULE DeliveryProofs ---------------------------
(***************************************************************************)
(* That no finished pair is lost on its way to the Test row, that none is  *)
(* counted twice without a failure, and that the Test row, the Result rows *)
(* and the Profile add up, for any number of workers and server threads    *)
(* and any failures and whole-row saves.                                   *)
(***************************************************************************)
EXTENDS ResultsProofs, FiniteSetTheorems, WellFoundedInduction

-----------------------------------------------------------------------------
(***************************************************************************)
(* Induction over the subsets of a finite set, and over the numbers, with  *)
(* a set in the place of a predicate.                                      *)
(***************************************************************************)
LEMMA SubsetInduction ==
    ASSUME NEW S, IsFiniteSet(S), NEW G,
           \A T \in SUBSET S : (\A x \in T : T \ {x} \in G) => T \in G
    PROVE  SUBSET S \subseteq G
<1> DEFINE R == StrictSubsetOrdering(S)
           Bad == (SUBSET S) \ G
<1>1. IsWellFoundedOn(R, SUBSET S)
  BY FS_StrictSubsetOrderingWellFounded, FS_FiniteSubsetsOfFinite
<1>2. ASSUME Bad # {} PROVE FALSE
  <2> HIDE DEF R
  <2>1. PICK T \in Bad : \A U \in Bad : ~(<<U, T>> \in R)
    <3>1. Bad \subseteq SUBSET S
      OBVIOUS
    <3> HIDE DEF Bad
    <3> QED BY <1>1, <1>2, <3>1, WFMin
  <2>2. \A x \in T : T \ {x} \in G
    <3> TAKE x \in T
    <3>1. <<T \ {x}, T>> \in R
      BY DEF R, StrictSubsetOrdering
    <3> QED BY <2>1, <3>1
  <2> QED BY <2>2
<1> QED BY <1>2

LEMMA NumberInduction ==
    ASSUME NEW G, 0 \in G, \A n \in Nat : n \in G => n + 1 \in G
    PROVE  Nat \subseteq G
<1> SUFFICES ASSUME NEW m \in Nat PROVE m \in G
    OBVIOUS
<1> DEFINE H == { T \in SUBSET (1..m) : \A n \in 0..m : T = 1..n => n \in G }
<1>1. \A T \in SUBSET (1..m) : (\A x \in T : T \ {x} \in H) => T \in H
  <2> SUFFICES ASSUME NEW T \in SUBSET (1..m), \A x \in T : T \ {x} \in H,
                      NEW n \in 0..m, T = 1..n
               PROVE  n \in G
    OBVIOUS
  <2>1. CASE n = 0
    BY <2>1
  <2>2. CASE n # 0
    <3>1. n - 1 \in 0..m /\ n \in T /\ T \ {n} = 1..(n - 1)
      BY <2>2
    <3>2. n - 1 \in G
      BY <3>1
    <3> QED BY <3>1, <3>2
  <2> QED BY <2>1, <2>2
<1>2. IsFiniteSet(1..m)
  BY FS_Interval
<1>3. SUBSET (1..m) \subseteq H
  <2> HIDE DEF H
  <2> QED BY <1>1, <1>2, SubsetInduction
<1>4. 1..m \in H
  <2> HIDE DEF H
  <2> QED BY <1>3
<1>5. m \in 0..m
  OBVIOUS
<1> QED BY <1>4, <1>5

-----------------------------------------------------------------------------
(***************************************************************************)
(* Totals.  Total folds a function over its domain; Iter is the recursive  *)
(* function that the fold is made of.                                      *)
(***************************************************************************)
Pick(s) == CHOOSE y \in s : TRUE
Folded(f, g, s) == IF s = {} THEN NoGames ELSE Plus(f[Pick(s)], g[s \ {Pick(s)}])
Iter(f, S) == CHOOSE g : g = [s \in SUBSET S |-> Folded(f, g, s)]

LEMMA TotalIsIter == ASSUME NEW W, NEW f, DOMAIN f = W PROVE Total(f) = Iter(f, W)[W]
BY DEF Total, FoldFunction, FoldFunctionOnSet, MapThenFoldSet, Iter, Folded, Pick

\* The fold is defined: on the sets of up to n elements, for every n.
LEMMA IterIsFold ==
    ASSUME NEW S, IsFiniteSet(S), NEW f
    PROVE  Iter(f, S) = [s \in SUBSET S |-> Folded(f, Iter(f, S), s)]
<1> DEFINE Small(n) == { s \in SUBSET S : Cardinality(s) <= n }
           G == { n \in Nat : \E g : g = [s \in Small(n) |-> Folded(f, g, s)] }
<1>1. \A s \in SUBSET S : /\ IsFiniteSet(s) /\ Cardinality(s) \in Nat
                          /\ Cardinality(s) = 0 <=> s = {}
                          /\ Cardinality(s) <= Cardinality(S)
  BY FS_Subset, FS_CardinalityType, FS_EmptySet
<1>2. \A s \in SUBSET S : s # {} => /\ Pick(s) \in s
                                    /\ Cardinality(s \ {Pick(s)}) = Cardinality(s) - 1
  <2> SUFFICES ASSUME NEW s \in SUBSET S, s # {}
               PROVE  Pick(s) \in s /\ Cardinality(s \ {Pick(s)}) = Cardinality(s) - 1
    OBVIOUS
  <2>1. Pick(s) \in s
    BY DEF Pick
  <2> QED BY <1>1, <2>1, FS_RemoveElement
<1>3. 0 \in G
  <2> DEFINE g == [s \in Small(0) |-> NoGames]
  <2>1. \A s \in Small(0) : s = {}
    BY <1>1
  <2>2. \A h : [s \in Small(0) |-> Folded(f, h, s)] = g
    BY <2>1 DEF Folded
  <2> QED BY <2>2
<1>4. \A n \in Nat : n \in G => n + 1 \in G
  <2> SUFFICES ASSUME NEW n \in Nat, n \in G PROVE n + 1 \in G
    OBVIOUS
  <2>1. PICK g : g = [s \in Small(n) |-> Folded(f, g, s)]
    OBVIOUS
  <2> DEFINE h == [s \in Small(n + 1) |-> Folded(f, g, s)]
  <2>2. Small(n) \subseteq Small(n + 1)
    BY <1>1
  <2>3. \A s \in Small(n) : h[s] = g[s]
    BY <2>1, <2>2
  <2>4. \A s \in Small(n + 1) : s # {} => s \ {Pick(s)} \in Small(n)
    BY <1>1, <1>2
  <2>5. \A s \in Small(n + 1) : Folded(f, h, s) = Folded(f, g, s)
    <3> SUFFICES ASSUME NEW s \in Small(n + 1) PROVE Folded(f, h, s) = Folded(f, g, s)
      OBVIOUS
    <3>1. s # {} => h[s \ {Pick(s)}] = g[s \ {Pick(s)}]
      BY <2>3, <2>4
    <3> HIDE DEF h, Small
    <3> QED BY <3>1 DEF Folded
  <2>6. h = [s \in Small(n + 1) |-> Folded(f, h, s)]
    BY <2>5
  <2> HIDE DEF h, Small
  <2> QED BY <2>6
<1>5. Cardinality(S) \in G
  <2> HIDE DEF G
  <2> QED BY <1>1, <1>3, <1>4, NumberInduction
<1>6. Small(Cardinality(S)) = SUBSET S
  BY <1>1
<1>7. \E g : g = [s \in SUBSET S |-> Folded(f, g, s)]
  BY <1>5, <1>6
<1> QED BY <1>7 DEF Iter

LEMMA IterStep ==
    ASSUME NEW S, IsFiniteSet(S), NEW f, NEW T \in SUBSET S
    PROVE  /\ T = {} => Iter(f, S)[T] = NoGames
           /\ T # {} => /\ Pick(T) \in T
                        /\ Iter(f, S)[T] = Plus(f[Pick(T)], Iter(f, S)[T \ {Pick(T)}])
<1>1. \A g : g = [s \in SUBSET S |-> Folded(f, g, s)] => g[T] = Folded(f, g, T)
  OBVIOUS
<1>2. Iter(f, S)[T] = Folded(f, Iter(f, S), T)
  BY <1>1, IterIsFold
<1> QED BY <1>2 DEF Folded, Pick

LEMMA PlusIsSum ==
    ASSUME NEW s \in Tally, NEW t \in Tally
    PROVE  Plus(s, t) \in Tally /\ \A c \in Columns : Plus(s, t)[c] = s[c] + t[c]
BY DEF Tally, Plus

LEMMA TallyEqual ==
    ASSUME NEW s \in Tally, NEW t \in Tally, \A c \in Columns : s[c] = t[c]
    PROVE  s = t
BY DEF Tally

LEMMA TallyShape ==
    ASSUME NEW s \in Tally
    PROVE  /\ \A c \in Columns : s[c] \in Nat
           /\ s["games"] \in Nat /\ "games" \in Columns
BY DEF Tally, Columns

LEMMA IterType ==
    ASSUME NEW S, IsFiniteSet(S), NEW f \in [S -> Tally]
    PROVE  \A T \in SUBSET S : Iter(f, S)[T] \in Tally
<1> DEFINE G == { T \in SUBSET S : Iter(f, S)[T] \in Tally }
<1>1. \A T \in SUBSET S : (\A x \in T : T \ {x} \in G) => T \in G
  <2> SUFFICES ASSUME NEW T \in SUBSET S, \A x \in T : T \ {x} \in G
               PROVE  Iter(f, S)[T] \in Tally
    OBVIOUS
  <2>1. CASE T = {}
    BY <2>1, IterStep, NoGamesType
  <2>2. CASE T # {}
    <3>1. Pick(T) \in T /\ Iter(f, S)[T] = Plus(f[Pick(T)], Iter(f, S)[T \ {Pick(T)}])
      <4> HIDE DEF G
      <4> QED BY <2>2, IterStep, Zenon
    <3>2. Iter(f, S)[T \ {Pick(T)}] \in Tally /\ f[Pick(T)] \in Tally
      BY <3>1
    <3> QED BY <3>1, <3>2, PlusIsSum
  <2> QED BY <2>1, <2>2
<1> HIDE DEF G
<1>2. SUBSET S \subseteq G
  BY <1>1, SubsetInduction
<1> QED BY <1>2 DEF G

LEMMA TotalType ==
    ASSUME NEW S, IsFiniteSet(S), NEW f \in [S -> Tally]
    PROVE  Total(f) \in Tally
BY TotalIsIter, IterType

\* The total of nothing is nothing.
LEMMA TotalOfNothing ==
    ASSUME NEW S, IsFiniteSet(S), NEW f \in [S -> Tally], \A x \in S : f[x] = NoGames
    PROVE  Total(f) = NoGames
<1> DEFINE G == { T \in SUBSET S : Iter(f, S)[T] = NoGames }
<1>1. Plus(NoGames, NoGames) = NoGames
  BY DEF Plus, NoGames
<1>2. \A T \in SUBSET S : (\A x \in T : T \ {x} \in G) => T \in G
  <2> SUFFICES ASSUME NEW T \in SUBSET S, \A x \in T : T \ {x} \in G
               PROVE  Iter(f, S)[T] = NoGames
    OBVIOUS
  <2> QED BY <1>1, IterStep
<1> HIDE DEF G
<1>3. SUBSET S \subseteq G
  BY <1>2, SubsetInduction
<1>4. Iter(f, S)[S] = NoGames
  BY <1>3 DEF G
<1> QED BY <1>4, TotalIsIter

\* What is added to one is added to the total.
LEMMA TotalPlus ==
    ASSUME NEW S, IsFiniteSet(S), NEW f \in [S -> Tally], NEW g \in [S -> Tally],
           NEW w \in S, NEW r \in Tally,
           g[w] = Plus(f[w], r), \A x \in S \ {w} : g[x] = f[x]
    PROVE  Total(g) = Plus(Total(f), r)
<1> DEFINE G == { T \in SUBSET S :
                     Iter(g, S)[T] = IF w \in T THEN Plus(Iter(f, S)[T], r) ELSE Iter(f, S)[T] }
<1>1. \A T \in SUBSET S : (\A x \in T : T \ {x} \in G) => T \in G
  <2> SUFFICES ASSUME NEW T \in SUBSET S, \A x \in T : T \ {x} \in G
               PROVE  Iter(g, S)[T] = IF w \in T THEN Plus(Iter(f, S)[T], r) ELSE Iter(f, S)[T]
    OBVIOUS
  <2>1. CASE T = {}
    BY <2>1, IterStep
  <2>2. CASE T # {}
    <3> DEFINE x == Pick(T)
               U == T \ {x}
               a == Iter(f, S)[U]
    <3>1. /\ x \in T /\ Iter(f, S)[T] = Plus(f[x], a)
          /\ Iter(g, S)[T] = Plus(g[x], Iter(g, S)[U])
      <4>1. /\ Pick(T) \in T
            /\ Iter(f, S)[T] = Plus(f[Pick(T)], Iter(f, S)[T \ {Pick(T)}])
        BY <2>2, IterStep
      <4>2. Iter(g, S)[T] = Plus(g[Pick(T)], Iter(g, S)[T \ {Pick(T)}])
        BY <2>2, IterStep
      <4> QED BY <4>1, <4>2
    <3>2. Iter(g, S)[U] = IF w \in U THEN Plus(a, r) ELSE a
      BY <3>1
    <3>3. a \in Tally /\ f[x] \in Tally
      BY <3>1, IterType
    <3> HIDE DEF a, U
    <3>4. CASE x = w
      <4>1. Iter(g, S)[T] = Plus(Plus(f[x], r), a)
        BY <3>1, <3>2, <3>4 DEF U
      <4>2. Plus(Plus(f[x], r), a) = Plus(Plus(f[x], a), r)
        BY <3>3 DEF Plus, Tally
      <4> QED BY <3>1, <3>4, <4>1, <4>2
    <3>5. CASE x # w
      <4>1. Plus(f[x], Plus(a, r)) = Plus(Plus(f[x], a), r)
        BY <3>3 DEF Plus, Tally
      <4> QED BY <3>1, <3>2, <3>5, <4>1 DEF U
    <3> QED BY <3>4, <3>5
  <2> QED BY <2>1, <2>2
<1> HIDE DEF G
<1>2. SUBSET S \subseteq G
  BY <1>1, SubsetInduction
<1>3. Iter(g, S)[S] = Plus(Iter(f, S)[S], r)
  BY <1>2 DEF G
<1> QED BY <1>3, TotalIsIter

-----------------------------------------------------------------------------
(***************************************************************************)
(* The invariant.  Its parts are operators on the values of the variables, *)
(* so that the lemmas about them speak of values before and after a step.  *)
(***************************************************************************)
Awaits(u) == u # IdleThread /\ u.awaited
AwaitsFrom(u, w) == Awaits(u) /\ u.from = w

\* A worker holds no more games than it was handed, and none between workloads;
\* a pair is games, so that nothing is hidden where no games are.
HoldsItsGames(q) ==
    /\ Empty(q.queue) => q.queue = NoGames
    /\ Empty(q.pending) => q.pending = NoGames
    /\ q.queue["games"] + q.pending["games"] + 2 * q.left <= 2 * Allot
    /\ q.pc \in {"idle", "assigning"} => q.queue = NoGames /\ q.pending = NoGames /\ q.left = 0
    /\ q.pc = "closing" => q.queue = NoGames

\* The worker q waits and holds what the report u carries.
Holds(q, u) == q.pc \in {"reporting", "closing"} /\ q.pending = u.report

ReportOf(u, ws) ==
    u # IdleThread =>
        /\ u.report["games"] <= 2 * Allot
        /\ u.added => u.pc # "received"
        /\ u.pc \in {"committed", "credited"} => u.added
        /\ u.awaited => Holds(ws[u.from], u)

OneAwaited(ths) == \A s, t \in Threads :
    Awaits(ths[s]) /\ Awaits(ths[t]) /\ ths[s].from = ths[t].from => s = t

Reports(ths, ws) ==
    /\ \A w \in Workers : HoldsItsGames(ws[w])
    /\ \A t \in Threads : ReportOf(ths[t], ws)
    /\ OneAwaited(ths)

ReportInv == Reports(thread, worker)

\* Where the pairs are that a worker finished; what is pending counts until it is
\* added to the row, although the worker keeps it until the reply.
Settled(ths, w) == \E t \in Threads : AwaitsFrom(ths[t], w) /\ ths[t].added
Unsent(ths, q, w) == IF Settled(ths, w) THEN NoGames ELSE q.pending
Accounted(d, x, q, n) == Plus(Plus(d, x), Plus(q.queue, n))

Kept(f, p, sum) == AtMost(p, sum) /\ (f = 0 => p = sum)

DeliveredInv == \A w \in Workers :
    Kept(failures, played[w],
         Accounted(delivered[w], dropped[w], worker[w], Unsent(thread, worker[w], w)))

\* The Result row of a worker without a failure: behind by the report that was
\* added and not credited yet, and nothing else.
Commits(u, w) == u.pc = "committed" /\ u.from = w
CreditedOnce ==
    failures = 0 =>
        /\ \A t \in Threads : thread[t] # IdleThread => thread[t].awaited
        /\ \A w \in Workers : assign[w] # NoAssignment => worker[w].pc = "assigning"
        /\ \A w \in Workers : assign[w].pc = "opened" => assign[w].mine = result[w]
        /\ \A w \in Workers : (\A t \in Threads : ~Commits(thread[t], w)) => result[w] = delivered[w]
        /\ \A t \in Threads : thread[t].pc = "committed" =>
              delivered[thread[t].from] = Plus(result[thread[t].from], thread[t].report)

\* With failures: the reports that threads still have to credit are delivered too.
Owed(ths, w) == [t \in Threads |-> IF Commits(ths[t], w) THEN ths[t].report ELSE NoGames]
OwedToProfile(ths) ==
    [t \in Threads |-> IF ths[t].pc \in {"committed", "credited"}
                       THEN ths[t].report ELSE NoGames]

CreditInv ==
    /\ \A w \in Workers : AtMost(Plus(result[w], Total(Owed(thread, w))), delivered[w])
    /\ \A w \in Workers : assign[w].pc = "opened" => AtMost(assign[w].mine, result[w])
    /\ profile + Total(OwedToProfile(thread))["games"] <= Total(delivered)["games"]

\* A copy of the row holds no more than the row was given, and is finished when
\* it reaches the limit.
Limited(r) ==
    r.mode \in {"GAMES", "DATAGEN"} /\ "RESTART" \notin Ops =>
        /\ r.tally["games"] >= MaxGames => r.finished
        /\ r.tally["games"] < MaxGames + 2 * Allot
CopyOf(r, sum) == AtMost(r.tally, sum) /\ Limited(r)

CopiesInv ==
    /\ CopyOf(test, Total(delivered))
    /\ \A w \in Workers : assign[w] # NoAssignment => CopyOf(assign[w].row, Total(delivered))
    /\ \A e \in Editors : editor[e] # NoEdit => CopyOf(editor[e].row, Total(delivered))
    /\ ~clobbered => test.tally = Total(delivered)

DeliveryInv == ReportInv /\ DeliveredInv /\ CreditedOnce /\ CreditInv /\ CopiesInv
-----------------------------------------------------------------------------
(***************************************************************************)
(* The reports: what a step of a worker, and a step of a thread, may do.   *)
(***************************************************************************)
LEMMA TwiceAllot == Allot \in Nat /\ 2 * Allot \in Nat
BY ResultsAssumption

LEMMA WorkerShape ==
    ASSUME NEW q \in Worker
    PROVE  /\ q.queue \in Tally /\ q.pending \in Tally /\ q.left \in 0..Allot
           /\ q.queue["games"] \in Nat /\ q.pending["games"] \in Nat
<1>1. q.queue \in Tally /\ q.pending \in Tally /\ q.left \in 0..Allot
  BY DEF Worker
<1> QED BY <1>1, TallyShape

LEMMA IdleHoldsNothing == HoldsItsGames(IdleWorker)
<1>1. NoGames["games"] = 0
  BY DEF NoGames, Columns
<1>2. /\ IdleWorker.pc = "idle" /\ IdleWorker.left = 0
      /\ IdleWorker.queue = NoGames /\ IdleWorker.pending = NoGames
  BY DEF IdleWorker
<1> QED BY <1>1, <1>2, TwiceAllot DEF HoldsItsGames

\* Worker w moves on to q.
LEMMA WorkerMoves ==
    ASSUME NEW ths, NEW ws \in [Workers -> Worker], Reports(ths, ws),
           NEW w \in Workers, NEW q, HoldsItsGames(q),
           \A t \in Threads : AwaitsFrom(ths[t], w) => Holds(q, ths[t])
    PROVE  Reports(ths, [ws EXCEPT ![w] = q])
<1> DEFINE ws2 == [ws EXCEPT ![w] = q]
<1>1. ws2[w] = q /\ \A v \in Workers : v # w => ws2[v] = ws[v]
  OBVIOUS
<1>2. \A v : v \notin Workers => ws2[v] = ws[v]
  OBVIOUS
<1> HIDE DEF ws2
<1>3. \A v \in Workers : HoldsItsGames(ws2[v])
  BY <1>1 DEF Reports
<1>4. \A t \in Threads : ReportOf(ths[t], ws2)
  BY <1>1, <1>2 DEF Reports, ReportOf, AwaitsFrom, Awaits
<1> QED BY <1>3, <1>4 DEF Reports, ws2

\* Thread t moves on to u: it waits for a worker that no other one waits for.
LEMMA ThreadMoves ==
    ASSUME NEW ths \in [Threads -> {IdleThread} \union Busy], NEW ws, Reports(ths, ws),
           NEW t \in Threads, NEW u, ReportOf(u, ws),
           Awaits(u) => \A s \in Threads \ {t} : ~AwaitsFrom(ths[s], u.from)
    PROVE  Reports([ths EXCEPT ![t] = u], ws)
<1> DEFINE ths2 == [ths EXCEPT ![t] = u]
<1>1. ths2[t] = u /\ \A s \in Threads : s # t => ths2[s] = ths[s]
  OBVIOUS
<1> HIDE DEF ths2
<1>2. \A s \in Threads : ReportOf(ths2[s], ws)
  BY <1>1 DEF Reports
<1>3. ASSUME NEW r \in Threads, NEW s \in Threads, Awaits(ths2[r]), Awaits(ths2[s]),
             ths2[r].from = ths2[s].from
      PROVE  r = s
  <2>1. CASE r # t /\ s # t
    BY <1>1, <1>3, <2>1 DEF Reports, OneAwaited
  <2>2. CASE r = t \/ s = t
    BY <1>1, <1>3, <2>2 DEF AwaitsFrom
  <2> QED BY <2>1, <2>2
<1>4. OneAwaited(ths2)
  BY <1>3 DEF OneAwaited
<1> QED BY <1>2, <1>4 DEF Reports, ths2

\* Nobody waits for a worker that does not wait itself.
LEMMA NobodyAwaits ==
    ASSUME NEW ths, NEW ws, Reports(ths, ws), NEW w \in Workers,
           ws[w].pc \notin {"reporting", "closing"}
    PROVE  (\A t \in Threads : ~AwaitsFrom(ths[t], w)) /\ ~Settled(ths, w)
BY DEF Reports, ReportOf, AwaitsFrom, Awaits, Holds, Settled

\* Who waits for the worker of t is t.
LEMMA OnlyOneAwaits ==
    ASSUME NEW ths, NEW ws, Reports(ths, ws), NEW t \in Threads, Awaits(ths[t])
    PROVE  /\ \A s \in Threads : AwaitsFrom(ths[s], ths[t].from) => s = t
           /\ Settled(ths, ths[t].from) <=> ths[t].added
           /\ Holds(ws[ths[t].from], ths[t])
BY DEF Reports, ReportOf, OneAwaited, AwaitsFrom, Awaits, Settled

\* A worker that waits no longer, because t ended its wait, may do anything.
LEMMA WaitEnds ==
    ASSUME NEW ths \in [Threads -> {IdleThread} \union Busy], NEW ws \in [Workers -> Worker],
           Reports(ths, ws), NEW t \in Threads, Awaits(ths[t]), ths[t].from \in Workers,
           NEW u, ~Awaits(u), ReportOf(u, ws), NEW q, HoldsItsGames(q)
    PROVE  Reports([ths EXCEPT ![t] = u], [ws EXCEPT ![ths[t].from] = q])
<1> DEFINE ths2 == [ths EXCEPT ![t] = u]
           w == ths[t].from
<1>1. Reports(ths2, ws)
  BY ThreadMoves
<1>2. \A s \in Threads : ~AwaitsFrom(ths2[s], w)
  BY OnlyOneAwaits DEF AwaitsFrom
<1> HIDE DEF ths2, w
<1>3. w \in Workers
  BY DEF w
<1>4. Reports(ths2, [ws EXCEPT ![w] = q])
  BY <1>1, <1>2, <1>3, WorkerMoves
<1> QED BY <1>4 DEF ths2, w

\* What a worker holds after each of its moves.
LEMMA WorkerMovesHold ==
    ASSUME NEW q \in Worker, HoldsItsGames(q)
    PROVE  /\ q.pc = "idle" => HoldsItsGames([q EXCEPT !.pc = "assigning"])
           /\ q.pc = "assigning" => HoldsItsGames([q EXCEPT !.pc = "playing", !.left = Allot])
           /\ q.pc \notin {"idle", "assigning"} =>
                 /\ HoldsItsGames([q EXCEPT !.pc = "playing"])
                 /\ HoldsItsGames([q EXCEPT !.pc = "playing", !.pending = NoGames])
                 /\ HoldsItsGames([q EXCEPT !.pc = "reporting"])
                 /\ Empty(q.queue) => HoldsItsGames([q EXCEPT !.pc = "closing"])
           /\ q.pc = "playing" /\ ~Empty(q.queue) =>
                 HoldsItsGames([q EXCEPT !.pending = Plus(@, q.queue), !.queue = NoGames])
           /\ \A p \in Pairs : q.pc \in {"playing", "reporting"} /\ q.left > 0 =>
                 HoldsItsGames([q EXCEPT !.left = @ - 1, !.queue = Plus(@, p)])
<1>1. NoGames["games"] = 0
  BY DEF NoGames, Columns
<1>2. /\ q.queue["games"] \in Nat /\ q.pending["games"] \in Nat /\ q.left \in Int
      /\ q.queue \in Tally /\ q.pending \in Tally
  BY WorkerShape
<1>3. \A s, t \in Tally : Plus(s, t)["games"] = s["games"] + t["games"]
  BY PlusIsSum, TallyShape
<1>4. \A p \in Pairs : p \in Tally /\ p["games"] = 2
  BY ResultsAssumption
<1> HIDE DEF NoGames
<1>5. q.pc = "idle" => HoldsItsGames([q EXCEPT !.pc = "assigning"])
  BY DEF HoldsItsGames, Worker, Empty
<1>6. q.pc = "assigning" => HoldsItsGames([q EXCEPT !.pc = "playing", !.left = Allot])
  BY <1>1, TwiceAllot DEF HoldsItsGames, Worker, Empty
<1>7. ASSUME q.pc \notin {"idle", "assigning"}
      PROVE  /\ HoldsItsGames([q EXCEPT !.pc = "playing"])
             /\ HoldsItsGames([q EXCEPT !.pc = "playing", !.pending = NoGames])
             /\ HoldsItsGames([q EXCEPT !.pc = "reporting"])
             /\ Empty(q.queue) => HoldsItsGames([q EXCEPT !.pc = "closing"])
  BY <1>1, <1>2, <1>7, TwiceAllot DEF HoldsItsGames, Worker, Empty
<1>8. ASSUME q.pc = "playing", ~Empty(q.queue)
      PROVE  HoldsItsGames([q EXCEPT !.pending = Plus(@, q.queue), !.queue = NoGames])
  <2>1. Plus(q.pending, q.queue)["games"] = q.queue["games"] + q.pending["games"]
    BY <1>2, <1>3
  <2> QED BY <1>1, <1>2, <1>8, <2>1, TwiceAllot DEF HoldsItsGames, Worker, Empty
<1>9. ASSUME NEW p \in Pairs, q.pc \in {"playing", "reporting"}, q.left > 0
      PROVE  HoldsItsGames([q EXCEPT !.left = @ - 1, !.queue = Plus(@, p)])
  <2>1. Plus(q.queue, p)["games"] = q.queue["games"] + 2
    BY <1>2, <1>3, <1>4
  <2> QED BY <1>2, <1>9, <2>1, TwiceAllot DEF HoldsItsGames, Worker, Empty
<1> QED BY <1>5, <1>6, <1>7, <1>8, <1>9

LEMMA WorkerStepReports ==
    ASSUME NEW w \in Workers, RowInv, ReportInv, WorkerStep(w) PROVE ReportInv'
<1>1. /\ worker \in [Workers -> Worker] /\ worker[w] \in Worker /\ HoldsItsGames(worker[w])
      /\ thread \in [Threads -> {IdleThread} \union Busy] /\ Reports(thread, worker)
  BY DEF RowInv, TypeOK, ReportInv, Reports
<1> SUFFICES Reports(thread', worker')
    BY DEF ReportInv
<1>2. ASSUME NEW q, worker' = [worker EXCEPT ![w] = q], HoldsItsGames(q), thread' = thread,
             \/ worker[w].pc \notin {"reporting", "closing"}
             \/ q.pc = worker[w].pc /\ q.pending = worker[w].pending
      PROVE  Reports(thread', worker')
  <2>1. \A t \in Threads : AwaitsFrom(thread[t], w) => Holds(q, thread[t])
    BY <1>1, <1>2, NobodyAwaits, OnlyOneAwaits DEF AwaitsFrom, Holds
  <2> QED BY <1>1, <1>2, <2>1, WorkerMoves
<1>3. CASE SelectTest(w)
  BY <1>1, <1>2, <1>3, WorkerMovesHold DEF SelectTest
<1>4. ASSUME NEW p \in Pairs, FinishPair(w, p) PROVE Reports(thread', worker')
  <2> DEFINE q == [worker[w] EXCEPT !.left = @ - 1, !.queue = Plus(@, p)]
  <2>1. worker' = [worker EXCEPT ![w] = q] /\ thread' = thread
    BY <1>4 DEF FinishPair
  <2>2. HoldsItsGames(q)
    BY <1>1, <1>4, WorkerMovesHold DEF FinishPair
  <2>3. q.pc = worker[w].pc /\ q.pending = worker[w].pending
    BY <1>1 DEF Worker
  <2> HIDE DEF q
  <2> QED BY <1>2, <2>1, <2>2, <2>3
<1>5. CASE Collect(w)
  <2> DEFINE q == [worker[w] EXCEPT !.pending = Plus(@, worker[w].queue), !.queue = NoGames]
  <2>1. worker' = [worker EXCEPT ![w] = q] /\ thread' = thread
    BY <1>5 DEF Collect
  <2>2. HoldsItsGames(q)
    BY <1>1, <1>5, WorkerMovesHold DEF Collect
  <2> HIDE DEF q
  <2> QED BY <1>2, <1>5, <2>1, <2>2 DEF Collect
<1>6. ASSUME NEW t \in Threads, NEW next \in {"reporting", "closing"}, Report(w, t, next),
             worker[w].pc = "playing", next = "closing" => Empty(worker[w].queue)
      PROVE  Reports(thread', worker')
  <2> DEFINE q == [worker[w] EXCEPT !.pc = next]
             u == [pc |-> "received", from |-> w, report |-> worker[w].pending,
                   added |-> FALSE, stop |-> FALSE, awaited |-> TRUE]
             ws == [worker EXCEPT ![w] = q]
  <2>1. worker' = ws /\ thread' = [thread EXCEPT ![t] = u]
    BY <1>6 DEF Report
  <2>2. HoldsItsGames(q)
    BY <1>1, <1>6, WorkerMovesHold
  <2>3. \A s \in Threads : ~AwaitsFrom(thread[s], w)
    BY <1>1, <1>6, NobodyAwaits
  <2>4. Reports(thread, ws)
    BY <1>1, <2>2, <2>3, WorkerMoves
  <2>5. ws[w] = q /\ q.pc \in {"reporting", "closing"} /\ q.pending = worker[w].pending
    BY <1>1, <1>6 DEF Worker
  <2>6. worker[w].pending["games"] <= 2 * Allot
    BY <1>1, WorkerShape, TwiceAllot DEF HoldsItsGames
  <2> HIDE DEF q, ws
  <2>7. ReportOf(u, ws)
    BY <2>5, <2>6 DEF ReportOf, Holds
  <2>8. u.from = w
    OBVIOUS
  <2> HIDE DEF u
  <2> QED BY <1>1, <2>1, <2>3, <2>4, <2>7, <2>8, ThreadMoves
<1>7. CASE FinishWorkload(w) \/ HeartbeatStop(w)
  BY <1>2, <1>7, IdleHoldsNothing DEF FinishWorkload, HeartbeatStop, AtEnd
<1> QED BY <1>3, <1>4, <1>5, <1>6, <1>7
        DEF WorkerStep, SendReport, SendFinalReport, AtEnd, Report

LEMMA AssignStepReports ==
    ASSUME NEW w \in Workers, RowInv, ReportInv, AssignStep(w) PROVE ReportInv'
<1>1. /\ worker \in [Workers -> Worker] /\ worker[w] \in Worker /\ HoldsItsGames(worker[w])
      /\ Reports(thread, worker)
  BY DEF RowInv, TypeOK, ReportInv, Reports
<1> SUFFICES Reports(thread', worker')
    BY DEF ReportInv
<1>2. thread' = thread
  BY DEF AssignStep, OpenResult, SaveResult, SaveScale, TakeBookIndex
<1>3. CASE worker' = worker
  BY <1>1, <1>2, <1>3
<1>4. CASE worker[w].pc = "assigning"
           /\ worker' = [worker EXCEPT ![w].pc = "playing", ![w].left = Allot]
  <2> DEFINE q == [worker[w] EXCEPT !.pc = "playing", !.left = Allot]
  <2>1. HoldsItsGames(q) /\ worker' = [worker EXCEPT ![w] = q]
    BY <1>1, <1>4, WorkerMovesHold
  <2>2. \A t \in Threads : ~AwaitsFrom(thread[t], w)
    BY <1>1, <1>4, NobodyAwaits
  <2> HIDE DEF q
  <2> QED BY <1>1, <1>2, <2>1, <2>2, WorkerMoves
<1> QED BY <1>3, <1>4 DEF AssignStep, OpenResult, SaveResult, SaveScale, TakeBookIndex

LEMMA EditStepReports ==
    ASSUME NEW e \in Editors, RowInv, ReportInv, EditStep(e) PROVE ReportInv'
<1>1. worker \in [Workers -> Worker] /\ Reports(thread, worker)
  BY DEF RowInv, TypeOK, ReportInv
<1> SUFFICES Reports(thread', worker')
    BY DEF ReportInv
<1>2. thread' = thread
  BY DEF EditStep, BeginPageOp, BeginArtifacts, BeginBenchError, SaveEdit
<1>3. CASE worker' = worker
  BY <1>1, <1>2, <1>3
<1>4. ASSUME NEW w \in Workers, BeginBenchError(e, w) PROVE Reports(thread', worker')
  <2>1. \A t \in Threads : ~AwaitsFrom(thread[t], w)
    BY <1>1, <1>4, NobodyAwaits DEF BeginBenchError
  <2> QED BY <1>1, <1>2, <1>4, <2>1, WorkerMoves, IdleHoldsNothing DEF BeginBenchError
<1> QED BY <1>3, <1>4 DEF EditStep, BeginPageOp, BeginArtifacts, SaveEdit

\* A thread that goes on with its report still carries it.
LEMMA ThreadGoesOn ==
    ASSUME NEW ths \in [Threads -> {IdleThread} \union Busy], NEW ws, Reports(ths, ws),
           NEW t \in Threads, ths[t] # IdleThread, NEW u,
           u.report = ths[t].report, u.from = ths[t].from, u.awaited = ths[t].awaited,
           u.added => u.pc # "received", u.pc \in {"committed", "credited"} => u.added
    PROVE  Reports([ths EXCEPT ![t] = u], ws)
<1>1. ReportOf(ths[t], ws)
  BY DEF Reports
<1>2. ReportOf(u, ws)
  BY <1>1 DEF ReportOf, Holds
<1>3. Awaits(u) => \A s \in Threads \ {t} : ~AwaitsFrom(ths[s], u.from)
  BY OnlyOneAwaits DEF Awaits
<1> QED BY <1>2, <1>3, ThreadMoves

\* What an answer and the lack of one leave the worker with.
LEMMA AnswerHolds ==
    ASSUME NEW q \in Worker, HoldsItsGames(q), q.pc \in {"reporting", "closing"}, NEW stop
    PROVE  /\ HoldsItsGames(IF stop \/ q.pc = "closing" THEN IdleWorker
                            ELSE [q EXCEPT !.pc = "playing", !.pending = NoGames])
           /\ HoldsItsGames(IF q.pc = "closing" THEN IdleWorker ELSE [q EXCEPT !.pc = "playing"])
BY WorkerMovesHold, IdleHoldsNothing

\* Only a busy thread takes a step.
LEMMA ThreadStepBusy ==
    ASSUME NEW t \in Threads, RowInv, ThreadStep(t)
    PROVE  thread[t] \in Busy /\ thread[t] # IdleThread /\ thread[t].from \in Workers
<1>1. CASE thread[t].pc \in {"received", "committed", "credited", "handled"}
  BY <1>1 DEF RowInv, TypeOK, IdleThread, Busy
<1>2. CASE CommitReport(t)
  BY <1>1, <1>2 DEF CommitReport
<1>3. CASE CreditResult(t)
  BY <1>1, <1>3 DEF CreditResult
<1>4. CASE CreditProfile(t)
  BY <1>1, <1>4 DEF CreditProfile
<1>5. CASE Reply(t)
  BY <1>1, <1>5 DEF Reply
<1>6. CASE EndThread(t)
  BY <1>1, <1>6 DEF EndThread
<1> QED BY <1>2, <1>3, <1>4, <1>5, <1>6 DEF ThreadStep

LEMMA ThreadStepReports ==
    ASSUME NEW t \in Threads, RowInv, ReportInv, ThreadStep(t) PROVE ReportInv'
<1>1. /\ worker \in [Workers -> Worker] /\ Reports(thread, worker)
      /\ thread \in [Threads -> {IdleThread} \union Busy]
  BY DEF RowInv, TypeOK, ReportInv
<1>2. thread[t] \in Busy /\ thread[t] # IdleThread
  BY ThreadStepBusy
<1>7. ReportOf(thread[t], worker)
  BY <1>1 DEF Reports
<1> SUFFICES Reports(thread', worker')
    BY DEF ReportInv
<1>3. CASE CommitReport(t)
  <2>1. PICK u : thread' = [thread EXCEPT ![t] = u] /\ u.report = thread[t].report
                 /\ u.from = thread[t].from /\ u.awaited = thread[t].awaited
                 /\ (u.added => u.pc # "received")
                 /\ (u.pc \in {"committed", "credited"} => u.added)
    <3>1. CASE IsClosed(test)
      <4> WITNESS [thread[t] EXCEPT !.pc = "handled", !.stop = TRUE]
      <4> QED BY <1>2, <1>3, <3>1 DEF CommitReport, Busy
    <3>2. CASE ~IsClosed(test)
      <4> WITNESS [thread[t] EXCEPT !.pc = "committed", !.added = TRUE, !.stop = test'.finished]
      <4> QED BY <1>2, <1>3, <3>2 DEF CommitReport, Busy
    <3> QED BY <3>1, <3>2
  <2> QED BY <1>1, <1>2, <1>3, <2>1, ThreadGoesOn DEF CommitReport
<1>4. CASE CreditResult(t) \/ CreditProfile(t)
  <2>1. PICK pc \in {"credited", "handled"} : thread' = [thread EXCEPT ![t].pc = pc]
    BY <1>4 DEF CreditResult, CreditProfile
  <2> DEFINE u == [thread[t] EXCEPT !.pc = pc]
  <2>2. /\ u.report = thread[t].report /\ u.from = thread[t].from
        /\ u.awaited = thread[t].awaited /\ u.added = thread[t].added /\ u.pc = pc
    BY <1>2 DEF Busy
  <2>3. thread[t].added /\ thread' = [thread EXCEPT ![t] = u]
    BY <1>2, <1>4, <1>7, <2>1 DEF ReportOf, CreditResult, CreditProfile
  <2> HIDE DEF u
  <2> QED BY <1>1, <1>2, <1>4, <2>2, <2>3, ThreadGoesOn DEF CreditResult, CreditProfile
<1>5. CASE Reply(t)
  <2>1. PICK stop \in BOOLEAN : Answer(t, stop)
    BY <1>2, <1>5 DEF Reply, Busy
  <2> DEFINE w == thread[t].from
             q == IF stop \/ worker[w].pc = "closing" THEN IdleWorker
                  ELSE [worker[w] EXCEPT !.pc = "playing", !.pending = NoGames]
  <2>2. Awaits(thread[t]) /\ w \in Workers
    BY <1>2, <1>5 DEF Reply, Awaits, Busy
  <2>3. worker' = [worker EXCEPT ![w] = q]
    BY <2>1, <2>2, <1>1 DEF Answer
  <2>4. worker[w].pc \in {"reporting", "closing"} /\ worker[w] \in Worker /\ HoldsItsGames(worker[w])
    BY <1>1, <2>2, OnlyOneAwaits DEF Holds, Reports
  <2>5. HoldsItsGames(q)
    BY <2>4, AnswerHolds
  <2>6. thread' = [thread EXCEPT ![t] = IdleThread]
    BY <1>5 DEF Reply
  <2>7. ~Awaits(IdleThread) /\ ReportOf(IdleThread, worker)
    BY DEF Awaits, ReportOf
  <2> HIDE DEF q
  <2> QED BY <1>1, <2>2, <2>3, <2>5, <2>6, <2>7, WaitEnds
<1>6. CASE EndThread(t)
  <2>1. ~Awaits(IdleThread) /\ ReportOf(IdleThread, worker)
    BY DEF Awaits, ReportOf
  <2> QED BY <1>1, <1>6, <2>1, ThreadMoves DEF EndThread
<1> QED BY <1>3, <1>4, <1>5, <1>6 DEF ThreadStep

\* A wait that ends without an answer.
LEMMA NoAnswerReports ==
    ASSUME NEW t \in Threads, RowInv, ReportInv, Awaits(thread[t]), NoAnswer(thread[t].from),
           NEW u, ~Awaits(u), ReportOf(u, worker), thread' = [thread EXCEPT ![t] = u]
    PROVE  Reports(thread', worker')
<1> DEFINE w == thread[t].from
           q == IF worker[w].pc = "closing" THEN IdleWorker ELSE [worker[w] EXCEPT !.pc = "playing"]
<1>1. /\ worker \in [Workers -> Worker] /\ Reports(thread, worker)
      /\ thread \in [Threads -> {IdleThread} \union Busy]
  BY DEF RowInv, TypeOK, ReportInv
<1>2. w \in Workers
  BY <1>1 DEF Awaits, Busy
<1>3. worker' = [worker EXCEPT ![w] = q]
  BY <1>1, <1>2 DEF NoAnswer
<1>4. worker[w].pc \in {"reporting", "closing"} /\ worker[w] \in Worker /\ HoldsItsGames(worker[w])
  BY <1>1, <1>2, OnlyOneAwaits DEF Holds, Reports
<1>5. HoldsItsGames(q)
  BY <1>4, AnswerHolds
<1> HIDE DEF q
<1> QED BY <1>1, <1>2, <1>3, <1>5, WaitEnds

LEMMA AbortReports ==
    ASSUME NEW w \in Workers, RowInv, ReportInv, Abort(w) PROVE ReportInv'
<1>1. /\ worker \in [Workers -> Worker] /\ Reports(thread, worker)
      /\ thread \in [Threads -> {IdleThread} \union Busy]
  BY DEF RowInv, TypeOK, ReportInv
<1>2. worker' = [worker EXCEPT ![w] = IdleWorker]
  BY DEF Abort
<1>3. ASSUME NEW t \in Threads
      PROVE  /\ thread'[t] = IdleThread <=> thread[t] = IdleThread
             /\ thread[t] # IdleThread =>
                   /\ thread'[t].pc = thread[t].pc /\ thread'[t].added = thread[t].added
                   /\ thread'[t].from = thread[t].from /\ thread'[t].report = thread[t].report
                   /\ thread[t].from = w => ~thread'[t].awaited
             /\ ~AwaitsFrom(thread'[t], w)
             /\ thread[t] # IdleThread /\ thread[t].from # w => thread'[t] = thread[t]
  <2>1. CASE thread[t] # IdleThread /\ thread[t].from = w
    <3>1. thread'[t] = [thread[t] EXCEPT !.awaited = FALSE] /\ thread[t] \in Busy
      BY <1>1, <2>1 DEF Abort
    <3> QED BY <2>1, <3>1 DEF Busy, IdleThread, AwaitsFrom, Awaits
  <2>2. CASE ~(thread[t] # IdleThread /\ thread[t].from = w)
    <3>1. thread'[t] = thread[t]
      BY <1>1, <2>2 DEF Abort
    <3> QED BY <2>2, <3>1 DEF AwaitsFrom, Awaits
  <2> QED BY <2>1, <2>2
<1>4. Reports(thread', worker)
  <2>1. \A t \in Threads : Awaits(thread'[t]) => Awaits(thread[t]) /\ thread'[t] = thread[t]
    BY <1>3 DEF Awaits
  <2>2. \A t \in Threads : ReportOf(thread'[t], worker)
    BY <1>1, <1>3, <2>1 DEF Reports, ReportOf, Awaits
  <2>3. OneAwaited(thread')
    BY <1>1, <2>1 DEF Reports, OneAwaited
  <2> QED BY <1>1, <2>2, <2>3 DEF Reports
<1>5. Reports(thread', worker')
  BY <1>1, <1>2, <1>3, <1>4, WorkerMoves, IdleHoldsNothing
<1> QED BY <1>5 DEF ReportInv

LEMMA FaultReports == ASSUME RowInv, ReportInv, Fault PROVE ReportInv'
<1>1. /\ worker \in [Workers -> Worker] /\ Reports(thread, worker)
      /\ thread \in [Threads -> {IdleThread} \union Busy]
  BY DEF RowInv, TypeOK, ReportInv
<1> SUFFICES Reports(thread', worker')
    BY DEF ReportInv
<1>2. ASSUME NEW w \in Workers, GiveUpAssignment(w) \/ LoseFinalReport(w)
      PROVE  Reports(thread', worker')
  <2>1. /\ worker' = [worker EXCEPT ![w] = IdleWorker] /\ thread' = thread
        /\ worker[w].pc \notin {"reporting", "closing"}
    BY <1>2 DEF GiveUpAssignment, LoseFinalReport, AtEnd
  <2> QED BY <1>1, <2>1, NobodyAwaits, IdleHoldsNothing, WorkerMoves
<1>3. ASSUME NEW w \in Workers, Abort(w) PROVE Reports(thread', worker')
  BY <1>3, AbortReports DEF ReportInv
<1>4. ASSUME NEW t \in Threads, GiveUpReport(t) PROVE Reports(thread', worker')
  <2> DEFINE u == [thread[t] EXCEPT !.awaited = FALSE]
  <2>1. Awaits(thread[t]) /\ NoAnswer(thread[t].from) /\ thread[t] \in Busy
    BY <1>1, <1>4 DEF GiveUpReport, Awaits
  <2>2. thread' = [thread EXCEPT ![t] = u]
    BY <1>4 DEF GiveUpReport
  <2>3. ~Awaits(u) /\ ReportOf(u, worker)
    <3>1. ReportOf(thread[t], worker)
      BY <1>1 DEF Reports
    <3> QED BY <2>1, <3>1 DEF Awaits, ReportOf, Busy
  <2> HIDE DEF u
  <2> QED BY <2>1, <2>2, <2>3, NoAnswerReports
<1>5. ASSUME NEW t \in Threads, FailThread(t) PROVE Reports(thread', worker')
  <2>1. ~Awaits(IdleThread) /\ ReportOf(IdleThread, worker)
    BY DEF Awaits, ReportOf
  <2>2. thread' = [thread EXCEPT ![t] = IdleThread]
    BY <1>5 DEF FailThread
  <2>3. CASE thread[t].awaited
    BY <1>5, <2>1, <2>2, <2>3, NoAnswerReports DEF FailThread, Awaits
  <2>4. CASE ~thread[t].awaited
    <3>1. worker' = worker
      BY <1>5, <2>4 DEF FailThread
    <3> QED BY <1>1, <2>1, <2>2, <3>1, ThreadMoves
  <2> QED BY <2>3, <2>4
<1> QED BY <1>2, <1>3, <1>4, <1>5 DEF Fault

LEMMA ReportInvNext == ASSUME RowInv, ReportInv, [Next]_vars PROVE ReportInv'
<1>1. CASE UNCHANGED vars
  BY <1>1 DEF vars, ReportInv
<1> QED BY <1>1, WorkerStepReports, AssignStepReports, ThreadStepReports, FaultReports,
        EditStepReports DEF Next

-----------------------------------------------------------------------------
(***************************************************************************)
(* The pairs: no step loses one, and without a failure none is counted     *)
(* twice.                                                                  *)
(***************************************************************************)
LEMMA PlusEqual ==
    ASSUME NEW s \in Tally, NEW t \in Tally
    PROVE  Plus(s, t) = Plus(t, s) /\ Plus(s, NoGames) = s
BY DEF Plus, Tally, NoGames

\* A pair that is played is queued; pairs that are collected, added to the row, or
\* given up stay accounted for.
LEMMA Played ==
    ASSUME NEW d \in Tally, NEW x \in Tally, NEW a \in Tally, NEW n \in Tally, NEW p \in Tally
    PROVE  Plus(Plus(d, x), Plus(Plus(a, p), n)) = Plus(Plus(Plus(d, x), Plus(a, n)), p)
BY DEF Plus, Tally

LEMMA Collected ==
    ASSUME NEW d \in Tally, NEW x \in Tally, NEW a \in Tally, NEW n \in Tally
    PROVE  Plus(Plus(d, x), Plus(NoGames, Plus(n, a))) = Plus(Plus(d, x), Plus(a, n))
BY DEF Plus, Tally, NoGames

LEMMA Added ==
    ASSUME NEW d \in Tally, NEW x \in Tally, NEW a \in Tally, NEW n \in Tally
    PROVE  Plus(Plus(Plus(d, n), x), Plus(a, NoGames)) = Plus(Plus(d, x), Plus(a, n))
BY DEF Plus, Tally, NoGames

LEMMA GivenUp ==
    ASSUME NEW d \in Tally, NEW x \in Tally, NEW a \in Tally, NEW n \in Tally
    PROVE  Plus(Plus(d, Plus(x, n)), Plus(a, NoGames)) = Plus(Plus(d, x), Plus(a, n))
BY DEF Plus, Tally, NoGames

LEMMA GivenUpAll ==
    ASSUME NEW d \in Tally, NEW x \in Tally, NEW a \in Tally, NEW n \in Tally
    PROVE  Plus(Plus(d, Plus(x, Plus(n, a))), Plus(NoGames, NoGames)) = Plus(Plus(d, x), Plus(a, n))
BY DEF Plus, Tally, NoGames

LEMMA GivenUpQueue ==
    ASSUME NEW d \in Tally, NEW x \in Tally, NEW a \in Tally
    PROVE  Plus(Plus(d, Plus(x, a)), Plus(NoGames, NoGames)) = Plus(Plus(d, x), Plus(a, NoGames))
BY DEF Plus, Tally, NoGames

LEMMA AtMostMoves ==
    ASSUME NEW s \in Tally, NEW t \in Tally, NEW u \in Tally
    PROVE  /\ AtMost(s, s)
           /\ AtMost(s, t) => AtMost(Plus(s, u), Plus(t, u))
           /\ AtMost(s, t) /\ AtMost(t, u) => AtMost(s, u)
           /\ AtMost(s, Plus(s, u)) /\ AtMost(s, Plus(u, s))
           /\ AtMost(s, t) => AtMost(Plus(u, s), Plus(u, t))
BY DEF Plus, Tally, AtMost

LEMMA PairShape ==
    ASSUME NEW w \in Workers, RowInv
    PROVE  /\ played[w] \in Tally /\ delivered[w] \in Tally /\ dropped[w] \in Tally
           /\ worker[w].queue \in Tally /\ worker[w].pending \in Tally
           /\ result[w] \in Tally /\ worker[w] \in Worker
           /\ Unsent(thread, worker[w], w) \in Tally
<1>1. /\ played[w] \in Tally /\ delivered[w] \in Tally /\ dropped[w] \in Tally
      /\ result[w] \in Tally /\ worker[w] \in Worker
  BY DEF RowInv, TypeOK
<1>2. worker[w].queue \in Tally /\ worker[w].pending \in Tally
  BY <1>1, WorkerShape
<1> QED BY <1>1, <1>2, NoGamesType DEF Unsent

LEMMA SettledStays ==
    ASSUME NEW ths, NEW ths2, NEW w,
           \A t \in Threads : AwaitsFrom(ths2[t], w) <=> AwaitsFrom(ths[t], w),
           \A t \in Threads : AwaitsFrom(ths[t], w) => ths2[t].added = ths[t].added
    PROVE  \A q : Unsent(ths2, q, w) = Unsent(ths, q, w)
BY DEF Unsent, Settled

\* A step that leaves what is known of a worker's pairs alone.
LEMMA KeptStays ==
    ASSUME NEW w \in Workers, RowInv, DeliveredInv, failures' \in {failures, failures + 1},
           played'[w] = played[w], delivered'[w] = delivered[w], dropped'[w] = dropped[w],
           worker'[w].queue = worker[w].queue,
           Unsent(thread', worker'[w], w) = Unsent(thread, worker[w], w)
    PROVE  Kept(failures', played'[w],
                Accounted(delivered'[w], dropped'[w], worker'[w], Unsent(thread', worker'[w], w)))
BY DEF RowInv, TypeOK, DeliveredInv, Kept, Accounted

\* What one step of a worker adds on one side it adds, or moves, on the other.
LEMMA WorkerStepDelivers ==
    ASSUME NEW w \in Workers, RowInv, ReportInv, DeliveredInv, WorkerStep(w)
    PROVE  DeliveredInv'
<1> DEFINE q == worker[w]
           After(v) == Accounted(delivered'[v], dropped'[v], worker'[v],
                                 Unsent(thread', worker'[v], v))
<1>1. /\ worker \in [Workers -> Worker] /\ dropped \in [Workers -> Tally]
      /\ played \in [Workers -> Tally] /\ thread \in [Threads -> {IdleThread} \union Busy]
      /\ Reports(thread, worker) /\ HoldsItsGames(q)
  BY DEF RowInv, TypeOK, ReportInv, Reports
<1>2. /\ played[w] \in Tally /\ delivered[w] \in Tally /\ dropped[w] \in Tally
      /\ q.queue \in Tally /\ q.pending \in Tally /\ q \in Worker
      /\ Unsent(thread, q, w) \in Tally /\ NoGames \in Tally
  BY PairShape, NoGamesType
<1>3. failures' = failures /\ delivered' = delivered
  BY DEF WorkerStep, SelectTest, FinishPair, Collect, SendReport, SendFinalReport, Report,
         FinishWorkload, HeartbeatStop, bounds
<1>4. Kept(failures, played[w], Accounted(delivered[w], dropped[w], q, Unsent(thread, q, w)))
  BY DEF DeliveredInv
<1> SUFFICES \A v \in Workers : Kept(failures', played'[v], After(v))
    BY DEF DeliveredInv
<1>5. ASSUME NEW v \in Workers, v # w PROVE Kept(failures', played'[v], After(v))
  <2>1. played'[v] = played[v] /\ dropped'[v] = dropped[v] /\ worker'[v] = worker[v]
    BY <1>1, <1>5 DEF WorkerStep, SelectTest, FinishPair, Collect, SendReport,
           SendFinalReport, Report, FinishWorkload, HeartbeatStop
  <2>2. \A t \in Threads : \/ thread'[t] = thread[t]
                           \/ ~AwaitsFrom(thread[t], v) /\ ~AwaitsFrom(thread'[t], v)
    <3>1. CASE thread' = thread
      BY <3>1
    <3>2. ASSUME NEW t \in Threads, NEW next, Report(w, t, next)
          PROVE  /\ thread[t] = IdleThread /\ thread'[t].from = w
                 /\ \A s \in Threads : s # t => thread'[s] = thread[s]
      BY <1>1, <3>2 DEF Report
    <3> QED BY <1>5, <3>1, <3>2 DEF WorkerStep, SelectTest, FinishPair, Collect, SendReport,
           SendFinalReport, FinishWorkload, HeartbeatStop, AwaitsFrom, Awaits
  <2>3. Unsent(thread', worker[v], v) = Unsent(thread, worker[v], v)
    BY <2>2, SettledStays
  <2> QED BY <1>3, <2>1, <2>3, KeptStays
<1>6. q.pc \notin {"reporting", "closing"} => Unsent(thread, q, w) = q.pending
  BY <1>1, NobodyAwaits DEF Unsent
<1> SUFFICES Kept(failures', played'[w], After(w))
    BY <1>5
<1> HIDE DEF q
<1>7. CASE SelectTest(w)
  BY <1>1, <1>2, <1>3, <1>7, KeptStays DEF SelectTest, Unsent, Worker, q
<1>8. ASSUME NEW p \in Pairs, FinishPair(w, p) PROVE Kept(failures', played'[w], After(w))
  <2>1. p \in Tally
    BY ResultsAssumption
  <2>2. /\ played'[w] = Plus(played[w], p) /\ dropped' = dropped /\ thread' = thread
        /\ worker'[w].queue = Plus(q.queue, p) /\ worker'[w].pending = q.pending
    BY <1>1, <1>2, <1>8 DEF FinishPair, Worker, q
  <2> DEFINE n == Unsent(thread, q, w)
  <2>3. Unsent(thread', worker'[w], w) = n
    BY <2>2 DEF Unsent
  <2> HIDE DEF n
  <2>6. n \in Tally
    BY <1>2 DEF n
  <2>4. After(w) = Plus(Accounted(delivered[w], dropped[w], q, n), p)
    <3>1. After(w) = Plus(Plus(delivered[w], dropped[w]), Plus(Plus(q.queue, p), n))
      BY <1>3, <2>2, <2>3 DEF Accounted
    <3>2. Plus(Plus(delivered[w], dropped[w]), Plus(Plus(q.queue, p), n))
             = Plus(Plus(Plus(delivered[w], dropped[w]), Plus(q.queue, n)), p)
      <4>1. /\ delivered[w] \in Tally /\ dropped[w] \in Tally /\ q.queue \in Tally
            /\ n \in Tally /\ p \in Tally
        BY <1>2, <2>1, <2>6
      <4> QED BY <4>1, Played
    <3> QED BY <3>1, <3>2 DEF Accounted
  <2>5. Accounted(delivered[w], dropped[w], q, n) \in Tally
    BY <1>2, PlusType DEF Accounted, n
  <2> QED BY <1>2, <1>3, <1>4, <2>1, <2>2, <2>4, <2>5, AtMostMoves DEF Kept, n
<1>9. CASE Collect(w)
  <2>1. /\ played' = played /\ dropped' = dropped /\ thread' = thread
        /\ worker'[w].queue = NoGames /\ worker'[w].pending = Plus(q.pending, q.queue)
        /\ worker'[w].pc = "playing" /\ q.pc = "playing"
    BY <1>1, <1>2, <1>9 DEF Collect, Worker, q
  <2>2. Unsent(thread', worker'[w], w) = Plus(q.pending, q.queue) /\ Unsent(thread, q, w) = q.pending
    BY <1>1, <1>6, <2>1, NobodyAwaits DEF Unsent, q
  <2>3. After(w) = Accounted(delivered[w], dropped[w], q, Unsent(thread, q, w))
    <3>1. After(w) = Plus(Plus(delivered[w], dropped[w]), Plus(NoGames, Plus(q.pending, q.queue)))
      BY <1>3, <2>1, <2>2 DEF Accounted
    <3> QED BY <1>2, <2>2, <3>1, Collected DEF Accounted
  <2> QED BY <1>3, <1>4, <2>1, <2>3
<1>10. ASSUME NEW t \in Threads, NEW next \in {"reporting", "closing"}, Report(w, t, next),
              q.pc = "playing"
       PROVE  Kept(failures', played'[w], After(w))
  <2>1. /\ worker'[w].queue = q.queue /\ worker'[w].pending = q.pending
        /\ played' = played /\ dropped' = dropped
    BY <1>1, <1>2, <1>10 DEF Report, Worker, q
  <2>2. \A s \in Threads : ~AwaitsFrom(thread[s], w)
    BY <1>1, <1>10, NobodyAwaits DEF q
  <2>3. thread'[t].added = FALSE /\ \A s \in Threads : s # t => thread'[s] = thread[s]
    BY <1>1, <1>10 DEF Report
  <2>4. ~Settled(thread', w)
    BY <2>2, <2>3 DEF Settled
  <2>5. Unsent(thread', worker'[w], w) = q.pending
    BY <2>1, <2>4 DEF Unsent
  <2> QED BY <1>3, <1>6, <1>10, <2>1, <2>5, KeptStays DEF q
<1>11. CASE FinishWorkload(w) \/ HeartbeatStop(w)
  <2>1. /\ q.pending = NoGames /\ q.pc = "playing" /\ played' = played /\ thread' = thread
        /\ worker'[w].queue = NoGames /\ worker'[w].pending = NoGames
    BY <1>1, <1>11 DEF FinishWorkload, HeartbeatStop, AtEnd, HoldsItsGames, IdleWorker, q
  <2>2. dropped'[w] = Plus(dropped[w], q.queue)
    <3>1. CASE FinishWorkload(w)
      BY <1>1, <1>2, <3>1, PlusEqual DEF FinishWorkload, AtEnd, HoldsItsGames, q
    <3>2. CASE HeartbeatStop(w)
      BY <1>1, <3>2 DEF HeartbeatStop, q
    <3> QED BY <1>11, <3>1, <3>2
  <2>3. Unsent(thread', worker'[w], w) = NoGames /\ Unsent(thread, q, w) = NoGames
    BY <1>6, <2>1 DEF Unsent
  <2>5. After(w) = Accounted(delivered[w], dropped[w], q, NoGames)
    <3>1. After(w) = Plus(Plus(delivered[w], Plus(dropped[w], q.queue)), Plus(NoGames, NoGames))
      BY <1>3, <2>1, <2>2, <2>3 DEF Accounted
    <3>2. Plus(Plus(delivered[w], Plus(dropped[w], q.queue)), Plus(NoGames, NoGames))
             = Plus(Plus(delivered[w], dropped[w]), Plus(q.queue, NoGames))
      <4>1. delivered[w] \in Tally /\ dropped[w] \in Tally /\ q.queue \in Tally
        BY <1>2
      <4> QED BY <4>1, GivenUpQueue
    <3> QED BY <3>1, <3>2 DEF Accounted
  <2> QED BY <1>3, <1>4, <2>1, <2>3, <2>5
<1> HIDE DEF After
<1> QED BY <1>7, <1>8, <1>9, <1>10, <1>11 DEF WorkerStep, SendReport, SendFinalReport, AtEnd, q

LEMMA AssignStepDelivers ==
    ASSUME NEW w \in Workers, RowInv, ReportInv, DeliveredInv, AssignStep(w)
    PROVE  DeliveredInv'
<1>1. /\ failures' = failures /\ played' = played /\ delivered' = delivered
      /\ dropped' = dropped /\ thread' = thread
  BY DEF AssignStep, OpenResult, SaveResult, SaveScale, TakeBookIndex, bounds
<1>2. worker \in [Workers -> Worker]
  BY DEF RowInv, TypeOK
<1>3. ASSUME NEW v \in Workers
      PROVE  worker'[v].queue = worker[v].queue /\ worker'[v].pending = worker[v].pending
  <2>1. CASE worker' = worker
    BY <2>1
  <2>2. CASE worker' = [worker EXCEPT ![w].pc = "playing", ![w].left = Allot]
    BY <1>2, <2>2 DEF Worker
  <2> QED BY <2>1, <2>2 DEF AssignStep, OpenResult, SaveResult, SaveScale, TakeBookIndex
<1>4. \A v \in Workers : Unsent(thread', worker'[v], v) = Unsent(thread, worker[v], v)
  BY <1>1, <1>3 DEF Unsent
<1>5. \A v \in Workers :
          Kept(failures', played'[v],
               Accounted(delivered'[v], dropped'[v], worker'[v], Unsent(thread', worker'[v], v)))
  BY <1>1, <1>3, <1>4, KeptStays
<1> QED BY <1>5 DEF DeliveredInv

\* A worker that has played nothing yet has nothing to lose.
LEMMA BenchHasNothing ==
    ASSUME NEW q \in Worker, HoldsItsGames(q), q.left = Allot
    PROVE  q.queue = NoGames /\ q.pending = NoGames
BY WorkerShape, TwiceAllot DEF HoldsItsGames, Empty

LEMMA EditStepDelivers ==
    ASSUME NEW e \in Editors, RowInv, ReportInv, DeliveredInv, EditStep(e)
    PROVE  DeliveredInv'
<1>1. /\ failures' = failures /\ played' = played /\ delivered' = delivered
      /\ dropped' = dropped /\ thread' = thread
  BY DEF EditStep, BeginPageOp, BeginArtifacts, BeginBenchError, SaveEdit, bounds
<1>2. worker \in [Workers -> Worker] /\ \A v \in Workers : HoldsItsGames(worker[v])
  BY DEF RowInv, TypeOK, ReportInv, Reports
<1>3. ASSUME NEW v \in Workers
      PROVE  worker'[v].queue = worker[v].queue /\ worker'[v].pending = worker[v].pending
  <2>1. CASE worker' = worker
    BY <2>1
  <2>2. ASSUME NEW w \in Workers, BeginBenchError(e, w)
        PROVE  worker'[v].queue = worker[v].queue /\ worker'[v].pending = worker[v].pending
    <3>1. worker[w].queue = NoGames /\ worker[w].pending = NoGames
      BY <1>2, <2>2, BenchHasNothing DEF BeginBenchError
    <3>2. worker' = [worker EXCEPT ![w] = IdleWorker]
      BY <2>2 DEF BeginBenchError
    <3> QED BY <1>2, <3>1, <3>2 DEF IdleWorker
  <2> QED BY <2>1, <2>2 DEF EditStep, BeginPageOp, BeginArtifacts, SaveEdit
<1>4. \A v \in Workers : Unsent(thread', worker'[v], v) = Unsent(thread, worker[v], v)
  BY <1>1, <1>3 DEF Unsent
<1>5. \A v \in Workers :
          Kept(failures', played'[v],
               Accounted(delivered'[v], dropped'[v], worker'[v], Unsent(thread', worker'[v], v)))
  BY <1>1, <1>3, <1>4, KeptStays
<1> QED BY <1>5 DEF DeliveredInv

\* A step that accounts for as much as before, and after a failure for more.
LEMMA KeptSame ==
    ASSUME NEW w \in Workers, RowInv, DeliveredInv, failures' \in {failures, failures + 1},
           played'[w] = played[w]
    PROVE  Kept(failures', played'[w], Accounted(delivered[w], dropped[w], worker[w],
                                                 Unsent(thread, worker[w], w)))
BY DEF RowInv, TypeOK, DeliveredInv, Kept

LEMMA KeptGrows ==
    ASSUME NEW w \in Workers, RowInv, DeliveredInv, failures' # 0,
           played'[w] = played[w], NEW sum \in Tally,
           AtMost(Accounted(delivered[w], dropped[w], worker[w], Unsent(thread, worker[w], w)), sum)
    PROVE  Kept(failures', played'[w], sum)
<1> DEFINE before == Accounted(delivered[w], dropped[w], worker[w], Unsent(thread, worker[w], w))
<1>1. before \in Tally /\ AtMost(before, sum)
  BY PairShape, PlusType DEF Accounted
<1>2. AtMost(played[w], before)
  BY DEF DeliveredInv, Kept
<1> HIDE DEF before
<1>3. failures \in Nat /\ played[w] \in Tally
  BY DEF RowInv, TypeOK
<1>4. AtMost(played[w], sum)
  BY <1>1, <1>2, <1>3, AtMostMoves
<1> QED BY <1>3, <1>4 DEF Kept

\* A worker that gets no answer keeps what is pending, or gives it up.
LEMMA NoAnswerDelivers ==
    ASSUME NEW t \in Threads, RowInv, ReportInv, DeliveredInv, Awaits(thread[t]),
           NoAnswer(thread[t].from), NEW u, ~Awaits(u), thread' = [thread EXCEPT ![t] = u],
           failures' = failures + 1, UNCHANGED <<played, delivered>>
    PROVE  DeliveredInv'
<1> DEFINE w == thread[t].from
           q == worker[w]
           After(v) == Accounted(delivered'[v], dropped'[v], worker'[v],
                                 Unsent(thread', worker'[v], v))
<1>1. /\ worker \in [Workers -> Worker] /\ dropped \in [Workers -> Tally]
      /\ thread \in [Threads -> {IdleThread} \union Busy] /\ failures \in Nat
      /\ Reports(thread, worker) /\ w \in Workers
  BY DEF RowInv, TypeOK, ReportInv, Awaits, Busy
<1>2. \A s \in Threads : s # t => thread'[s] = thread[s] /\ ~AwaitsFrom(thread[s], w)
  BY <1>1, OnlyOneAwaits
<1>3. ~AwaitsFrom(thread'[t], w)
  BY <1>1 DEF AwaitsFrom
<1> SUFFICES \A v \in Workers : Kept(failures', played'[v], After(v))
    BY DEF DeliveredInv
<1>4. ASSUME NEW v \in Workers, v # w PROVE Kept(failures', played'[v], After(v))
  <2>1. \A s \in Threads : thread'[s] = thread[s]
                           \/ (~AwaitsFrom(thread[s], v) /\ ~AwaitsFrom(thread'[s], v))
    BY <1>1, <1>2, <1>4 DEF AwaitsFrom
  <2>2. Unsent(thread', worker[v], v) = Unsent(thread, worker[v], v)
    <3>1. \A s \in Threads : AwaitsFrom(thread'[s], v) <=> AwaitsFrom(thread[s], v)
      BY <2>1
    <3>2. \A s \in Threads : AwaitsFrom(thread[s], v) => thread'[s].added = thread[s].added
      BY <2>1
    <3> HIDE DEF q, w
    <3>3. \A x : Unsent(thread', x, v) = Unsent(thread, x, v)
      BY <3>1, <3>2 DEF Unsent, Settled
    <3> QED BY <3>3
  <2>3. worker'[v] = worker[v] /\ dropped'[v] = dropped[v]
    BY <1>1, <1>4 DEF NoAnswer
  <2> QED BY <2>2, <2>3, KeptStays
<1>5. Kept(failures', played'[w], After(w))
  <2>1. ~Settled(thread', w)
    BY <1>1, <1>2, <1>3 DEF Settled
  <2>2. /\ delivered[w] \in Tally /\ dropped[w] \in Tally /\ q.queue \in Tally
        /\ q.pending \in Tally /\ Unsent(thread, q, w) \in Tally /\ q \in Worker
        /\ NoGames \in Tally /\ played[w] \in Tally
    BY <1>1, PairShape, NoGamesType
  <2>3. Unsent(thread, q, w) \in {NoGames, q.pending}
    BY DEF Unsent
  <2>4. HoldsItsGames(q) /\ q.pc \in {"reporting", "closing"}
    BY <1>1, OnlyOneAwaits DEF Reports, Holds
  <2>5. CASE q.pc = "closing"
    <3>1. worker'[w] = IdleWorker /\ dropped'[w] = Plus(dropped[w], q.pending)
      BY <1>1, <2>5 DEF NoAnswer
    <3>2. Unsent(thread', worker'[w], w) = NoGames /\ worker'[w].queue = NoGames
      BY <2>1, <3>1 DEF Unsent, IdleWorker
    <3>3. q.queue = NoGames
      BY <2>4, <2>5 DEF HoldsItsGames
    <3>4. After(w) = Plus(Plus(delivered[w], Plus(dropped[w], q.pending)), Plus(NoGames, NoGames))
      BY <3>1, <3>2 DEF Accounted
    <3> HIDE DEF After, q
    <3>5. AtMost(Accounted(delivered[w], dropped[w], q, Unsent(thread, q, w)), After(w))
      BY <2>2, <2>3, <3>3, <3>4 DEF AtMost, Accounted, Plus, Tally, NoGames
    <3>6. After(w) \in Tally
      BY <2>2, <3>4, PlusType
    <3> QED BY <1>1, <3>5, <3>6, KeptGrows DEF q
  <2>6. CASE q.pc = "reporting"
    <3>1. worker'[w] = [q EXCEPT !.pc = "playing"] /\ dropped'[w] = dropped[w]
      BY <1>1, <2>6 DEF NoAnswer
    <3>2. worker'[w].queue = q.queue /\ worker'[w].pending = q.pending
      BY <2>2, <3>1 DEF Worker
    <3>3. Unsent(thread', worker'[w], w) = q.pending
      BY <2>1, <3>2 DEF Unsent
    <3>4. After(w) = Plus(Plus(delivered[w], dropped[w]), Plus(q.queue, q.pending))
      BY <3>1, <3>2, <3>3 DEF Accounted
    <3> HIDE DEF After, q
    <3>5. AtMost(Accounted(delivered[w], dropped[w], q, Unsent(thread, q, w)), After(w))
      BY <2>2, <2>3, <3>4 DEF AtMost, Accounted, Plus, Tally, NoGames
    <3>6. After(w) \in Tally
      BY <2>2, <3>4, PlusType
    <3> QED BY <1>1, <3>5, <3>6, KeptGrows DEF q
  <2> QED BY <2>4, <2>5, <2>6
<1> QED BY <1>4, <1>5

LEMMA FaultDelivers ==
    ASSUME RowInv, ReportInv, DeliveredInv, Fault PROVE DeliveredInv'
<1> DEFINE After(v) == Accounted(delivered'[v], dropped'[v], worker'[v],
                                 Unsent(thread', worker'[v], v))
<1>1. /\ worker \in [Workers -> Worker] /\ dropped \in [Workers -> Tally]
      /\ thread \in [Threads -> {IdleThread} \union Busy] /\ failures \in Nat
      /\ Reports(thread, worker) /\ \A v \in Workers : HoldsItsGames(worker[v])
  BY DEF RowInv, TypeOK, ReportInv, Reports
<1>2. failures' = failures + 1 /\ played' = played /\ delivered' = delivered
  BY DEF Fault, GiveUpAssignment, LoseFinalReport, Abort, GiveUpReport, FailThread, Failure
<1>3. ASSUME NEW w \in Workers, GiveUpAssignment(w) PROVE DeliveredInv'
  <2>1. dropped' = dropped /\ thread' = thread
    BY <1>3 DEF GiveUpAssignment
  <2>2. worker[w].queue = NoGames /\ worker[w].pending = NoGames
    BY <1>1, <1>3 DEF GiveUpAssignment, HoldsItsGames
  <2>3. \A v \in Workers :
            worker'[v].queue = worker[v].queue /\ worker'[v].pending = worker[v].pending
    BY <1>1, <1>3, <2>2 DEF GiveUpAssignment, IdleWorker
  <2>4. \A v \in Workers : Unsent(thread', worker'[v], v) = Unsent(thread, worker[v], v)
    BY <2>1, <2>3 DEF Unsent
  <2>5. \A v \in Workers : Kept(failures', played'[v], After(v))
    BY <1>2, <2>1, <2>3, <2>4, KeptStays
  <2> QED BY <2>5 DEF DeliveredInv
<1>4. ASSUME NEW w \in Workers, LoseFinalReport(w) \/ Abort(w) PROVE DeliveredInv'
  <2> DEFINE q == worker[w]
  <2>1. worker' = [worker EXCEPT ![w] = IdleWorker] /\ \A v \in Workers : v # w => dropped'[v] = dropped[v]
    BY <1>1, <1>4 DEF LoseFinalReport, Abort
  <2>2. ASSUME NEW v \in Workers, v # w PROVE Kept(failures', played'[v], After(v))
    <3>1. \A s \in Threads : thread'[s] = thread[s]
                             \/ (~AwaitsFrom(thread[s], v) /\ ~AwaitsFrom(thread'[s], v))
      <4>1. CASE LoseFinalReport(w)
        BY <4>1 DEF LoseFinalReport
      <4>2. CASE Abort(w)
        <5> SUFFICES ASSUME NEW s \in Threads, thread[s] # IdleThread, thread[s].from = w
                     PROVE  ~AwaitsFrom(thread[s], v) /\ ~AwaitsFrom(thread'[s], v)
          BY <1>1, <4>2 DEF Abort
        <5>1. thread'[s] = [thread[s] EXCEPT !.awaited = FALSE] /\ thread[s] \in Busy
          BY <1>1, <4>2 DEF Abort
        <5> QED BY <2>2, <5>1 DEF Busy, AwaitsFrom, Awaits
      <4> QED BY <1>4, <4>1, <4>2
    <3>2. \A s \in Threads : AwaitsFrom(thread'[s], v) <=> AwaitsFrom(thread[s], v)
      BY <3>1
    <3>3. \A s \in Threads : AwaitsFrom(thread[s], v) => thread'[s].added = thread[s].added
      BY <3>1
    <3>4. Unsent(thread', worker[v], v) = Unsent(thread, worker[v], v)
      BY <3>2, <3>3, SettledStays
    <3>5. worker'[v] = worker[v]
      BY <1>1, <2>1, <2>2
    <3> QED BY <1>2, <2>1, <2>2, <3>4, <3>5, KeptStays
  <2>3. Kept(failures', played'[w], After(w))
    <3>1. worker'[w].queue = NoGames /\ Unsent(thread', worker'[w], w) = NoGames
      BY <1>1, <2>1 DEF IdleWorker, Unsent
    <3>2. /\ delivered[w] \in Tally /\ dropped[w] \in Tally /\ q.queue \in Tally
          /\ q.pending \in Tally /\ Unsent(thread, q, w) \in Tally /\ NoGames \in Tally
      BY PairShape, NoGamesType
    <3>3. Unsent(thread, q, w) \in {NoGames, q.pending}
      BY DEF Unsent
    <3>4. dropped'[w] = Plus(dropped[w], Plus(q.queue, q.pending))
      <4>1. CASE LoseFinalReport(w)
        <5>1. q.queue = NoGames
          BY <1>1, <4>1 DEF LoseFinalReport, AtEnd, HoldsItsGames
        <5>2. Plus(NoGames, q.pending) = q.pending
          BY <3>2, PlusEqual
        <5> QED BY <1>1, <4>1, <5>1, <5>2 DEF LoseFinalReport
      <4>2. CASE Abort(w)
        BY <1>1, <4>2 DEF Abort
      <4> QED BY <1>4, <4>1, <4>2
    <3>5. After(w) = Plus(Plus(delivered[w], Plus(dropped[w], Plus(q.queue, q.pending))),
                          Plus(NoGames, NoGames))
      BY <1>2, <3>1, <3>4 DEF Accounted
    <3> HIDE DEF After, q
    <3>6. AtMost(Accounted(delivered[w], dropped[w], q, Unsent(thread, q, w)), After(w))
      BY <3>2, <3>3, <3>5 DEF AtMost, Accounted, Plus, Tally, NoGames
    <3>7. After(w) \in Tally
      BY <3>2, <3>5, PlusType
    <3> QED BY <1>1, <1>2, <3>6, <3>7, KeptGrows DEF q
  <2> QED BY <2>2, <2>3 DEF DeliveredInv
<1>5. ASSUME NEW t \in Threads, GiveUpReport(t) PROVE DeliveredInv'
  <2> DEFINE u == [thread[t] EXCEPT !.awaited = FALSE]
  <2>1. Awaits(thread[t]) /\ NoAnswer(thread[t].from) /\ thread[t] \in Busy
    BY <1>1, <1>5 DEF GiveUpReport, Awaits
  <2>2. ~Awaits(u) /\ thread' = [thread EXCEPT ![t] = u]
    BY <1>5, <2>1 DEF GiveUpReport, Awaits, Busy
  <2> HIDE DEF u
  <2> QED BY <1>2, <2>1, <2>2, NoAnswerDelivers
<1>6. ASSUME NEW t \in Threads, FailThread(t) PROVE DeliveredInv'
  <2>1. ~Awaits(IdleThread) /\ thread' = [thread EXCEPT ![t] = IdleThread]
    BY <1>6 DEF FailThread, Awaits
  <2>2. CASE Awaits(thread[t])
    BY <1>2, <1>6, <2>1, <2>2, NoAnswerDelivers DEF FailThread, Awaits
  <2>3. CASE ~Awaits(thread[t])
    <3>1. worker' = worker /\ dropped' = dropped
      BY <1>6, <2>3 DEF FailThread, Awaits
    <3>2. \A v : \A s \in Threads : thread'[s] = thread[s]
                          \/ (~AwaitsFrom(thread[s], v) /\ ~AwaitsFrom(thread'[s], v))
      BY <1>1, <2>1, <2>3 DEF AwaitsFrom
    <3>3. \A v : Unsent(thread', worker[v], v) = Unsent(thread, worker[v], v)
      <4> TAKE v
      <4>1. \A s \in Threads : AwaitsFrom(thread'[s], v) <=> AwaitsFrom(thread[s], v)
        BY <3>2
      <4>2. \A s \in Threads : AwaitsFrom(thread[s], v) => thread'[s].added = thread[s].added
        BY <3>2
      <4> QED BY <4>1, <4>2, SettledStays
    <3>4. \A v \in Workers : Kept(failures', played'[v], After(v))
      BY <1>2, <3>1, <3>3, KeptStays
    <3> QED BY <3>4 DEF DeliveredInv
  <2> QED BY <2>2, <2>3
<1> QED BY <1>3, <1>4, <1>5, <1>6 DEF Fault

\* A reply clears what is pending: it was added, or it is given up with the reply.
LEMMA ReplyDelivers ==
    ASSUME NEW t \in Threads, RowInv, ReportInv, DeliveredInv, Reply(t)
    PROVE  DeliveredInv'
<1>0. PICK w \in Workers : w = thread[t].from
  BY ThreadStepBusy DEF ThreadStep
<1> DEFINE After(v) == Accounted(delivered'[v], dropped'[v], worker'[v],
                                 Unsent(thread', worker'[v], v))
<1>1. /\ worker \in [Workers -> Worker] /\ dropped \in [Workers -> Tally]
      /\ thread \in [Threads -> {IdleThread} \union Busy]
      /\ Reports(thread, worker) /\ \A v \in Workers : HoldsItsGames(worker[v])
  BY DEF RowInv, TypeOK, ReportInv, Reports
<1>2. Awaits(thread[t]) /\ thread[t] \in Busy
  BY ThreadStepBusy DEF Reply, Awaits, ThreadStep
<1>3. /\ failures' \in {failures, failures + 1} /\ played' = played /\ delivered' = delivered
      /\ thread' = [thread EXCEPT ![t] = IdleThread]
  BY DEF Reply, Failure
<1>4. PICK stop \in BOOLEAN : Answer(t, stop)
  BY <1>2 DEF Reply, Busy
<1>5. \A s \in Threads : s # t => thread'[s] = thread[s] /\ ~AwaitsFrom(thread[s], w)
  BY <1>0, <1>1, <1>2, <1>3, OnlyOneAwaits
<1>6. thread'[t] = IdleThread
  BY <1>1, <1>3
<1> SUFFICES \A v \in Workers : Kept(failures', played'[v], After(v))
    BY DEF DeliveredInv
<1>7. ASSUME NEW v \in Workers, v # w PROVE Kept(failures', played'[v], After(v))
  <2>1. \A s \in Threads : AwaitsFrom(thread'[s], v) <=> AwaitsFrom(thread[s], v)
    BY <1>0, <1>5, <1>6, <1>7 DEF AwaitsFrom, Awaits
  <2>2. \A s \in Threads : AwaitsFrom(thread[s], v) => thread'[s].added = thread[s].added
    BY <1>0, <1>5, <1>7 DEF AwaitsFrom
  <2>3. \A x : Unsent(thread', x, v) = Unsent(thread, x, v)
    BY <2>1, <2>2, SettledStays
  <2>4. worker'[v] = worker[v] /\ dropped'[v] = dropped[v]
    BY <1>0, <1>1, <1>4, <1>7 DEF Answer
  <2> QED BY <1>3, <2>3, <2>4, KeptStays
<1>8. Kept(failures', played'[w], After(w))
  <2> DEFINE q == worker[w]
             lost == IF thread[t].added THEN NoGames ELSE q.pending
  <2>1. /\ delivered[w] \in Tally /\ dropped[w] \in Tally /\ q.queue \in Tally
        /\ q.pending \in Tally /\ NoGames \in Tally /\ q \in Worker
    BY <1>2, PairShape, NoGamesType
  <2>2. Unsent(thread, q, w) = lost /\ lost \in Tally
    BY <1>0, <1>1, <1>2, <2>1, OnlyOneAwaits DEF Unsent
  <2>3. ~Settled(thread', w)
    BY <1>5, <1>6 DEF Settled, AwaitsFrom, Awaits
  <2>4. HoldsItsGames(q) /\ q.pc \in {"reporting", "closing"}
    BY <1>0, <1>1, <1>2, OnlyOneAwaits DEF Holds
  <2>5. worker'[w].pending = NoGames
        /\ worker'[w].queue = IF stop THEN NoGames ELSE q.queue
    <3>1. CASE stop \/ q.pc = "closing"
      <4>1. worker'[w] = IdleWorker
        BY <1>0, <1>1, <1>4, <3>1 DEF Answer
      <4>2. ~stop => q.queue = NoGames
        BY <2>4, <3>1 DEF HoldsItsGames
      <4> QED BY <4>1, <4>2 DEF IdleWorker
    <3>2. CASE ~(stop \/ q.pc = "closing")
      <4>1. worker'[w] = [q EXCEPT !.pc = "playing", !.pending = NoGames]
        BY <1>0, <1>1, <1>4, <3>2 DEF Answer
      <4> QED BY <2>1, <3>2, <4>1 DEF Worker
    <3> QED BY <3>1, <3>2
  <2>6. dropped'[w] = Plus(dropped[w], IF stop THEN Plus(lost, q.queue) ELSE lost)
    BY <1>0, <1>1, <1>4 DEF Answer
  <2>7. Unsent(thread', worker'[w], w) = NoGames
    BY <2>3, <2>5 DEF Unsent
  <2>8. After(w) = Plus(Plus(delivered[w], dropped'[w]), Plus(worker'[w].queue, NoGames))
    BY <1>3, <2>7 DEF Accounted
  <2> HIDE DEF lost, q, After
  <2>9. After(w) = Accounted(delivered[w], dropped[w], q, lost)
    <3>1. CASE stop
      <4>1. After(w) = Plus(Plus(delivered[w], Plus(dropped[w], Plus(lost, q.queue))),
                            Plus(NoGames, NoGames))
        BY <2>5, <2>6, <2>8, <3>1
      <4>2. /\ delivered[w] \in Tally /\ dropped[w] \in Tally /\ q.queue \in Tally
            /\ lost \in Tally
        BY <2>1, <2>2
      <4>3. After(w) = Plus(Plus(delivered[w], dropped[w]), Plus(q.queue, lost))
        BY <4>1, <4>2, GivenUpAll
      <4> QED BY <4>3 DEF Accounted
    <3>2. CASE ~stop
      <4>1. After(w) = Plus(Plus(delivered[w], Plus(dropped[w], lost)), Plus(q.queue, NoGames))
        BY <2>5, <2>6, <2>8, <3>2
      <4>2. /\ delivered[w] \in Tally /\ dropped[w] \in Tally /\ q.queue \in Tally
            /\ lost \in Tally
        BY <2>1, <2>2
      <4>3. After(w) = Plus(Plus(delivered[w], dropped[w]), Plus(q.queue, lost))
        BY <4>1, <4>2, GivenUp
      <4> QED BY <4>3 DEF Accounted
    <3> QED BY <3>1, <3>2
  <2>10. After(w) = Accounted(delivered[w], dropped[w], q, Unsent(thread, q, w))
    BY <2>2, <2>9
  <2> QED BY <1>3, <2>10, KeptSame DEF q
<1> QED BY <1>7, <1>8

\* A report is added once while its worker holds it, and what it carried then is
\* no longer to be sent.
LEMMA CommitDelivers ==
    ASSUME NEW t \in Threads, RowInv, ReportInv, DeliveredInv, CreditedOnce, CommitReport(t)
    PROVE  DeliveredInv'
<1>0. PICK w \in Workers : w = thread[t].from
  BY ThreadStepBusy DEF ThreadStep
<1>8. PICK r \in Tally : r = thread[t].report
  BY ThreadStepBusy DEF ThreadStep, Busy
<1> DEFINE After(v) == Accounted(delivered'[v], dropped'[v], worker'[v],
                                 Unsent(thread', worker'[v], v))
<1>1. /\ thread \in [Threads -> {IdleThread} \union Busy] /\ delivered \in [Workers -> Tally]
      /\ Reports(thread, worker) /\ thread[t] \in Busy
      /\ thread[t] # IdleThread /\ failures \in Nat
  BY ThreadStepBusy DEF RowInv, TypeOK, ReportInv, ThreadStep
<1>2. failures' = failures /\ played' = played /\ dropped' = dropped /\ worker' = worker
  BY DEF CommitReport, bounds
<1>3. /\ thread'[t].from = w /\ (Awaits(thread'[t]) <=> Awaits(thread[t]))
      /\ thread[t].added = FALSE /\ \A s \in Threads : s # t => thread'[s] = thread[s]
      /\ IF IsClosed(test) THEN thread'[t].added = FALSE /\ delivered' = delivered
         ELSE thread'[t].added = TRUE /\ delivered' = [delivered EXCEPT ![w] = Plus(@, r)]
  <2>1. ReportOf(thread[t], worker)
    BY <1>1 DEF Reports
  <2>2. thread[t].added = FALSE
    BY <1>1, <2>1 DEF ReportOf, CommitReport, Busy
  <2>3. CASE IsClosed(test)
    BY <1>1, <2>2, <2>3, <1>0, <1>8 DEF CommitReport, Busy, Awaits, IdleThread
  <2>4. CASE ~IsClosed(test)
    BY <1>1, <2>2, <2>4, <1>0, <1>8 DEF CommitReport, Busy, Awaits, IdleThread
  <2> QED BY <2>2, <2>3, <2>4
<1> SUFFICES \A v \in Workers : Kept(failures', played'[v], After(v))
    BY DEF DeliveredInv
<1>4. \A v : \A s \in Threads : AwaitsFrom(thread'[s], v) <=> AwaitsFrom(thread[s], v)
  BY <1>0, <1>3 DEF AwaitsFrom
<1>5. ASSUME NEW v \in Workers, v # w \/ IsClosed(test) \/ ~Awaits(thread[t])
      PROVE  \A x : Unsent(thread', x, v) = Unsent(thread, x, v)
  <2>1. \A s \in Threads : AwaitsFrom(thread[s], v) => thread'[s].added = thread[s].added
    BY <1>0, <1>3, <1>5 DEF AwaitsFrom
  <2> QED BY <1>4, <2>1, SettledStays
<1>6. ASSUME NEW v \in Workers, v # w \/ IsClosed(test) PROVE Kept(failures', played'[v], After(v))
  <2>1. delivered'[v] = delivered[v]
    BY <1>1, <1>3, <1>6
  <2> QED BY <1>2, <1>5, <1>6, <2>1, KeptStays
<1>7. ASSUME ~IsClosed(test) PROVE Kept(failures', played'[w], After(w))
  <2> DEFINE q == worker[w]
             n == Unsent(thread, q, w)
  <2>1. /\ delivered[w] \in Tally /\ dropped[w] \in Tally /\ q.queue \in Tally
        /\ q.pending \in Tally /\ NoGames \in Tally /\ n \in Tally
    BY <1>1, PairShape, NoGamesType
  <2>2. delivered'[w] = Plus(delivered[w], r)
    BY <1>1, <1>3, <1>7
  <2>3. CASE Awaits(thread[t])
    <3>1. n = r
      BY <1>0, <1>8, <1>1, <1>3, <2>3, OnlyOneAwaits DEF Unsent, Holds
    <3>2. Unsent(thread', worker'[w], w) = NoGames
      BY <1>1, <1>3, <1>7, <2>3 DEF Unsent, Settled, AwaitsFrom
    <3>3. After(w) = Plus(Plus(Plus(delivered[w], r), dropped[w]), Plus(q.queue, NoGames))
      BY <1>2, <2>2, <3>2 DEF Accounted
    <3> HIDE DEF n, q, After
    <3>4. After(w) = Accounted(delivered[w], dropped[w], q, n)
      BY <1>1, <2>1, <3>1, <3>3, Added DEF Accounted
    <3> QED BY <1>2, <3>4, KeptSame DEF n, q
  <2>4. CASE ~Awaits(thread[t])
    <3>1. failures' # 0
      BY <1>1, <1>2, <2>4 DEF CreditedOnce, Awaits
    <3>2. Unsent(thread', worker'[w], w) = n
      BY <1>1, <1>2, <1>5, <2>4
    <3>3. After(w) = Plus(Plus(Plus(delivered[w], r), dropped[w]), Plus(q.queue, n))
      BY <1>2, <2>2, <3>2 DEF Accounted
    <3> HIDE DEF n, q, After
    <3>4. AtMost(Accounted(delivered[w], dropped[w], q, n), After(w))
      BY <1>1, <2>1, <3>3 DEF Accounted, AtMost, Plus, Tally
    <3>5. After(w) \in Tally
      BY <1>1, <2>1, <3>3, PlusType
    <3> QED BY <1>1, <1>2, <3>1, <3>4, <3>5, KeptGrows DEF n, q
  <2> QED BY <2>3, <2>4
<1> QED BY <1>6, <1>7

LEMMA ThreadStepDelivers ==
    ASSUME NEW t \in Threads, RowInv, ReportInv, DeliveredInv, CreditedOnce, ThreadStep(t)
    PROVE  DeliveredInv'
<1> DEFINE After(v) == Accounted(delivered'[v], dropped'[v], worker'[v],
                                 Unsent(thread', worker'[v], v))
<1>1. CASE CommitReport(t)
  BY <1>1, CommitDelivers
<1>2. CASE Reply(t)
  BY <1>2, ReplyDelivers
<1>3. CASE CreditResult(t) \/ CreditProfile(t) \/ EndThread(t)
  <2>1. /\ failures' = failures /\ played' = played /\ dropped' = dropped
        /\ worker' = worker /\ delivered' = delivered
    BY <1>3 DEF CreditResult, CreditProfile, EndThread, bounds
  <2>2. /\ thread \in [Threads -> {IdleThread} \union Busy] /\ thread[t] \in Busy
        /\ thread[t] # IdleThread
    BY ThreadStepBusy DEF RowInv, TypeOK
  <2>3. \A s \in Threads : /\ Awaits(thread'[s]) <=> Awaits(thread[s])
                           /\ Awaits(thread[s]) => /\ thread'[s].from = thread[s].from
                                                   /\ thread'[s].added = thread[s].added
    BY <1>3, <2>2 DEF CreditResult, CreditProfile, EndThread, Awaits, Busy, IdleThread
  <2>4. \A v : \A x : Unsent(thread', x, v) = Unsent(thread, x, v)
    <3> TAKE v
    <3>1. \A s \in Threads : AwaitsFrom(thread'[s], v) <=> AwaitsFrom(thread[s], v)
      BY <2>3 DEF AwaitsFrom
    <3>2. \A s \in Threads : AwaitsFrom(thread[s], v) => thread'[s].added = thread[s].added
      BY <2>3 DEF AwaitsFrom
    <3> QED BY <3>1, <3>2, SettledStays
  <2>5. \A v \in Workers : Kept(failures', played'[v], After(v))
    BY <2>1, <2>4, KeptStays
  <2> QED BY <2>5 DEF DeliveredInv
<1> QED BY <1>1, <1>2, <1>3 DEF ThreadStep

LEMMA DeliveredInvNext ==
    ASSUME RowInv, ReportInv, DeliveredInv, CreditedOnce, [Next]_vars PROVE DeliveredInv'
<1>1. CASE UNCHANGED vars
  BY <1>1 DEF vars, DeliveredInv, Unsent, Settled, AwaitsFrom, Awaits, Kept, Accounted, AtMost
<1> QED BY <1>1, WorkerStepDelivers, AssignStepDelivers, ThreadStepDelivers, FaultDelivers,
        EditStepDelivers DEF Next

-----------------------------------------------------------------------------
(***************************************************************************)
(* The Result rows: without a failure they are behind the Test row by the  *)
(* report that is being credited, and by nothing else.                     *)
(***************************************************************************)
LEMMA WorkerStepCredits ==
    ASSUME NEW w \in Workers, RowInv, ReportInv, CreditedOnce, WorkerStep(w)
    PROVE  CreditedOnce'
<1>1. /\ worker \in [Workers -> Worker] /\ assign \in [Workers -> {NoAssignment} \union Assignment]
      /\ thread \in [Threads -> {IdleThread} \union Busy]
  BY DEF RowInv, TypeOK
<1>2. failures' = failures /\ result' = result /\ delivered' = delivered
  BY DEF WorkerStep, SelectTest, FinishPair, Collect, SendReport, SendFinalReport, Report,
         FinishWorkload, HeartbeatStop, bounds, credits
<1> SUFFICES ASSUME failures = 0 PROVE CreditedOnce'
    BY <1>2 DEF CreditedOnce
<1>3. ASSUME NEW t \in Threads
      PROVE  \/ thread'[t] = thread[t]
             \/ thread[t] = IdleThread /\ thread'[t].pc = "received" /\ thread'[t].awaited
  <2>1. CASE thread' = thread
    BY <2>1
  <2>2. ASSUME NEW s \in Threads, NEW next, Report(w, s, next)
        PROVE  \/ thread'[t] = thread[t]
               \/ thread[t] = IdleThread /\ thread'[t].pc = "received" /\ thread'[t].awaited
    BY <1>1, <2>2 DEF Report
  <2> QED BY <2>1, <2>2 DEF WorkerStep, SelectTest, FinishPair, Collect, SendReport,
           SendFinalReport, FinishWorkload, HeartbeatStop
<1>4. \A t \in Threads : thread'[t] # IdleThread => thread'[t].awaited
  BY <1>3 DEF CreditedOnce
<1>5. \A t \in Threads : \/ thread'[t] = thread[t]
                         \/ thread[t].pc # "committed" /\ thread'[t].pc # "committed"
  BY <1>3 DEF IdleThread
<1>6. \A v \in Workers : assign'[v] = assign[v] \/ (assign'[v].pc = "selected" /\ v = w)
  <2>1. CASE SelectTest(w)
    BY <1>1, <2>1 DEF SelectTest
  <2>2. CASE assign' = assign
    BY <2>2
  <2> QED BY <2>1, <2>2 DEF WorkerStep, FinishPair, Collect, SendReport, SendFinalReport, Report,
           FinishWorkload, HeartbeatStop
<1>7. ASSUME NEW v \in Workers, assign'[v] # NoAssignment PROVE worker'[v].pc = "assigning"
  <2>1. CASE v # w
    <3>1. worker'[v] = worker[v]
      BY <1>1, <2>1 DEF WorkerStep, SelectTest, FinishPair, Collect, SendReport,
         SendFinalReport, Report, FinishWorkload, HeartbeatStop
    <3> QED BY <1>6, <1>7, <2>1, <3>1 DEF CreditedOnce
  <2>2. CASE v = w
    <3>1. CASE SelectTest(w)
      BY <1>1, <2>2, <3>1 DEF SelectTest, Worker
    <3>2. CASE ~SelectTest(w)
      <4>1. worker[w].pc \in {"playing", "reporting"} /\ assign' = assign
        BY <3>2 DEF WorkerStep, FinishPair, Collect, SendReport, SendFinalReport, Report,
           FinishWorkload, HeartbeatStop, AtEnd
      <4> QED BY <1>7, <2>2, <4>1 DEF CreditedOnce
    <3> QED BY <3>1, <3>2
  <2> QED BY <2>1, <2>2
<1>8. \A v \in Workers : assign'[v].pc = "opened" => assign'[v].mine = result'[v]
  BY <1>2, <1>6 DEF CreditedOnce
<1>9. ASSUME NEW v \in Workers, \A t \in Threads : ~Commits(thread'[t], v)
      PROVE  result'[v] = delivered'[v]
  BY <1>2, <1>5, <1>9 DEF CreditedOnce, Commits
<1>10. ASSUME NEW t \in Threads, thread'[t].pc = "committed"
       PROVE  delivered'[thread'[t].from] = Plus(result'[thread'[t].from], thread'[t].report)
  BY <1>2, <1>5, <1>10 DEF CreditedOnce
<1> QED BY <1>4, <1>7, <1>8, <1>9, <1>10 DEF CreditedOnce, Commits

LEMMA AssignStepCredits ==
    ASSUME NEW w \in Workers, RowInv, ReportInv, CreditedOnce, AssignStep(w)
    PROVE  CreditedOnce'
<1>1. /\ worker \in [Workers -> Worker] /\ assign \in [Workers -> {NoAssignment} \union Assignment]
      /\ result \in [Workers -> Tally]
  BY DEF RowInv, TypeOK
<1>2. failures' = failures /\ thread' = thread /\ delivered' = delivered
  BY DEF AssignStep, OpenResult, SaveResult, SaveScale, TakeBookIndex, bounds
<1> SUFFICES ASSUME failures = 0 PROVE CreditedOnce'
    BY <1>2 DEF CreditedOnce
<1>3. assign[w] # NoAssignment
  BY DEF AssignStep, OpenResult, SaveResult, SaveScale, TakeBookIndex, NoAssignment
<1>4. result' = result
  <2>1. CASE SaveResult(w)
    <3>1. assign[w].mine = result[w]
      BY <2>1 DEF SaveResult, CreditedOnce
    <3> QED BY <1>1, <2>1, <3>1 DEF SaveResult
  <2>2. CASE ~SaveResult(w)
    BY <2>2 DEF AssignStep, OpenResult, SaveScale, TakeBookIndex, credits
  <2> QED BY <2>1, <2>2
<1>5. \A v \in Workers : v # w => assign'[v] = assign[v] /\ worker'[v] = worker[v]
  BY <1>1 DEF AssignStep, OpenResult, SaveResult, SaveScale, TakeBookIndex
<1>6. assign'[w] # NoAssignment => worker' = worker
  BY <1>1 DEF AssignStep, OpenResult, SaveResult, SaveScale, TakeBookIndex
<1>7. assign'[w].pc = "opened" => assign'[w].mine = result[w]
  <2>1. CASE OpenResult(w)
    BY <1>1, <1>3, <2>1 DEF OpenResult, Assignment
  <2>2. CASE SaveResult(w)
    BY <1>1, <1>3, <2>2 DEF SaveResult, Assignment
  <2>3. CASE SaveScale(w)
    BY <1>1, <1>3, <2>3 DEF SaveScale, Assignment
  <2>4. CASE TakeBookIndex(w)
    BY <1>1, <2>4 DEF TakeBookIndex, NoAssignment
  <2> QED BY <2>1, <2>2, <2>3, <2>4 DEF AssignStep
<1>8. \A v \in Workers : assign'[v] # NoAssignment => worker'[v].pc = "assigning"
  BY <1>3, <1>5, <1>6 DEF CreditedOnce
<1>9. \A v \in Workers : assign'[v].pc = "opened" => assign'[v].mine = result'[v]
  BY <1>4, <1>5, <1>7 DEF CreditedOnce
<1> QED BY <1>2, <1>4, <1>8, <1>9 DEF CreditedOnce, Commits

LEMMA EditStepCredits ==
    ASSUME NEW e \in Editors, RowInv, ReportInv, CreditedOnce, EditStep(e)
    PROVE  CreditedOnce'
<1>1. worker \in [Workers -> Worker]
  BY DEF RowInv, TypeOK
<1>2. /\ failures' = failures /\ thread' = thread /\ delivered' = delivered
      /\ result' = result /\ assign' = assign
  BY DEF EditStep, BeginPageOp, BeginArtifacts, BeginBenchError, SaveEdit, bounds, credits
<1> SUFFICES ASSUME failures = 0 PROVE CreditedOnce'
    BY <1>2 DEF CreditedOnce
<1>3. ASSUME NEW v \in Workers PROVE worker'[v] = worker[v] \/ worker[v].pc = "playing"
  BY <1>1 DEF EditStep, BeginPageOp, BeginArtifacts, BeginBenchError, SaveEdit
<1>4. \A v \in Workers : assign'[v] # NoAssignment => worker'[v].pc = "assigning"
  BY <1>2, <1>3 DEF CreditedOnce
<1> QED BY <1>2, <1>4 DEF CreditedOnce, Commits

LEMMA ThreadStepCredits ==
    ASSUME NEW t \in Threads, RowInv, ReportInv, CreditedOnce, ThreadStep(t)
    PROVE  CreditedOnce'
<1>0. PICK w \in Workers : w = thread[t].from
  BY ThreadStepBusy
<1>1. /\ worker \in [Workers -> Worker] /\ result \in [Workers -> Tally]
      /\ delivered \in [Workers -> Tally] /\ thread \in [Threads -> {IdleThread} \union Busy]
      /\ thread[t] \in Busy /\ thread[t] # IdleThread /\ Reports(thread, worker)
  BY ThreadStepBusy DEF RowInv, TypeOK, ReportInv
<1>2. assign' = assign /\ failures' \in {failures, failures + 1} /\ failures \in Nat
  BY DEF ThreadStep, CommitReport, CreditResult, CreditProfile, Reply, EndThread, bounds, Failure,
         RowInv, TypeOK
<1> SUFFICES ASSUME failures = 0, failures' = 0 PROVE CreditedOnce'
    BY <1>2 DEF CreditedOnce
\* Every report is awaited, so the one of t is the only one of its worker.
<1>3. /\ worker[w].pc \in {"reporting", "closing"} /\ assign[w] = NoAssignment
      /\ \A s \in Threads : s # t /\ thread[s] # IdleThread => thread[s].from # w
  <2>1. \A s \in Threads : thread[s] # IdleThread => Awaits(thread[s])
    BY DEF CreditedOnce, Awaits
  <2>2. worker[w].pc \in {"reporting", "closing"}
    BY <1>0, <1>1, <2>1, OnlyOneAwaits DEF Holds
  <2>3. \A s \in Threads : s # t /\ thread[s] # IdleThread => thread[s].from # w
    BY <1>0, <1>1, <2>1, OnlyOneAwaits DEF AwaitsFrom
  <2> QED BY <2>2, <2>3 DEF CreditedOnce
<1>4. \A s \in Threads : s # t => thread'[s] = thread[s]
  BY <1>1 DEF ThreadStep, CommitReport, CreditResult, CreditProfile, Reply, EndThread
<1>5. \A v \in Workers : v # w => /\ worker'[v] = worker[v] /\ result'[v] = result[v]
                                  /\ delivered'[v] = delivered[v]
  <2>1. CASE CommitReport(t)
    BY <1>0, <1>1, <2>1 DEF CommitReport, credits
  <2>2. CASE CreditResult(t) \/ CreditProfile(t) \/ EndThread(t)
    BY <1>0, <1>1, <2>2 DEF CreditResult, CreditProfile, EndThread, credits
  <2>3. CASE Reply(t)
    BY <1>0, <1>1, <2>3 DEF Reply, Answer, credits
  <2> QED BY <2>1, <2>2, <2>3 DEF ThreadStep
<1>6. \A v \in Workers : v # w => ~Commits(thread'[t], v) /\ ~Commits(thread[t], v)
  <2>1. thread'[t].from = w \/ thread'[t] = IdleThread
    <3>1. CASE CommitReport(t)
      BY <1>0, <1>1, <3>1 DEF CommitReport, Busy
    <3>2. CASE CreditResult(t) \/ CreditProfile(t)
      BY <1>0, <1>1, <3>2 DEF CreditResult, CreditProfile, Busy
    <3>3. CASE Reply(t) \/ EndThread(t)
      BY <1>1, <3>3 DEF Reply, EndThread
    <3> QED BY <3>1, <3>2, <3>3 DEF ThreadStep
  <2> QED BY <1>0, <2>1 DEF Commits, IdleThread
<1>7. /\ thread'[t] # IdleThread => thread'[t].awaited
      /\ thread'[t].pc # "committed" => result'[w] = delivered'[w]
      /\ thread'[t].pc = "committed" =>
            /\ thread'[t].from = w
            /\ delivered'[w] = Plus(result'[w], thread'[t].report)
  <2>1. /\ thread[t].awaited
        /\ thread[t].pc # "committed" => result[w] = delivered[w]
        /\ thread[t].pc = "committed" => delivered[w] = Plus(result[w], thread[t].report)
    <3>1. thread[t].pc # "committed" => \A s \in Threads : ~Commits(thread[s], w)
      BY <1>3 DEF Commits, IdleThread
    <3> QED BY <1>0, <1>1, <3>1 DEF CreditedOnce
  <2>2. CASE CommitReport(t)
    <3>1. CASE IsClosed(test)
      BY <1>0, <1>1, <2>1, <2>2, <3>1 DEF CommitReport, Busy, credits
    <3>2. CASE ~IsClosed(test)
      <4>1. delivered'[w] = Plus(delivered[w], thread[t].report) /\ result' = result
        BY <1>0, <1>1, <2>2, <3>2 DEF CommitReport, credits
      <4>2. thread'[t].report = thread[t].report /\ thread'[t].from = w
            /\ thread'[t].awaited /\ thread'[t].pc = "committed"
        BY <1>0, <1>1, <2>1, <2>2, <3>2 DEF CommitReport, Busy
      <4>3. thread[t].pc = "received"
        BY <2>2 DEF CommitReport
      <4> QED BY <2>1, <4>1, <4>2, <4>3
    <3> QED BY <3>1, <3>2
  <2>3. CASE CreditResult(t)
    <3>1. result'[w] = Plus(result[w], thread[t].report) /\ delivered' = delivered
      BY <1>0, <1>1, <2>3 DEF CreditResult
    <3>2. thread'[t].awaited /\ thread'[t].pc = "credited" /\ thread[t].pc = "committed"
      BY <1>1, <2>1, <2>3 DEF CreditResult, Busy
    <3> QED BY <2>1, <3>1, <3>2
  <2>4. CASE CreditProfile(t)
    BY <1>1, <2>1, <2>4 DEF CreditProfile, Busy
  <2>5. CASE Reply(t) \/ EndThread(t)
    BY <1>1, <2>1, <2>5 DEF Reply, EndThread, IdleThread, credits
  <2> QED BY <2>2, <2>3, <2>4, <2>5 DEF ThreadStep
<1>8. \A v \in Workers : assign'[v] # NoAssignment => worker'[v].pc = "assigning"
  BY <1>2, <1>3, <1>5 DEF CreditedOnce
<1>9. \A v \in Workers : assign'[v].pc = "opened" => assign'[v].mine = result'[v]
  BY <1>2, <1>3, <1>5 DEF CreditedOnce, NoAssignment
<1>10. \A s \in Threads : thread'[s] # IdleThread => thread'[s].awaited
  BY <1>4, <1>7 DEF CreditedOnce
<1>11. ASSUME NEW v \in Workers, \A s \in Threads : ~Commits(thread'[s], v)
       PROVE  result'[v] = delivered'[v]
  <2>1. CASE v = w
    <3>1. thread'[t].pc # "committed"
      BY <1>7, <1>11, <2>1 DEF Commits
    <3> QED BY <1>7, <2>1, <3>1
  <2>2. CASE v # w
    <3>1. \A s \in Threads : ~Commits(thread[s], v)
      BY <1>4, <1>6, <1>11, <2>2
    <3> QED BY <1>5, <2>2, <3>1 DEF CreditedOnce
  <2> QED BY <2>1, <2>2
<1>12. ASSUME NEW s \in Threads, thread'[s].pc = "committed"
       PROVE  delivered'[thread'[s].from] = Plus(result'[thread'[s].from], thread'[s].report)
  <2>1. CASE s = t
    BY <1>7, <1>12, <2>1
  <2>2. CASE s # t
    <3>1. thread'[s] = thread[s] /\ thread[s] \in Busy /\ thread[s].from # w
      BY <1>1, <1>3, <1>4, <1>12, <2>2 DEF IdleThread
    <3>2. thread[s].from \in Workers
      BY <3>1 DEF Busy
    <3> QED BY <1>5, <1>12, <2>2, <3>1, <3>2 DEF CreditedOnce
  <2> QED BY <2>1, <2>2
<1> QED BY <1>8, <1>9, <1>10, <1>11, <1>12 DEF CreditedOnce, Commits

LEMMA CreditedOnceNext ==
    ASSUME RowInv, ReportInv, CreditedOnce, [Next]_vars PROVE CreditedOnce'
<1>1. CASE Fault
  <2>1. failures' = failures + 1 /\ failures \in Nat
    BY <1>1 DEF Fault, GiveUpAssignment, LoseFinalReport, Abort, GiveUpReport, FailThread, Failure,
         RowInv, TypeOK
  <2> QED BY <2>1 DEF CreditedOnce
<1>2. CASE UNCHANGED vars
  BY <1>2 DEF vars, CreditedOnce, Commits
<1> QED BY <1>1, <1>2, WorkerStepCredits, AssignStepCredits, ThreadStepCredits, EditStepCredits
        DEF Next

-----------------------------------------------------------------------------
(***************************************************************************)
(* The credits, with failures: what the Result rows and the Profile hold,  *)
(* and what threads still owe them, was added to the Test row.             *)
(***************************************************************************)
LEMMA TotalOne ==
    ASSUME NEW S, IsFiniteSet(S), NEW f \in [S -> Tally], NEW g \in [S -> Tally],
           NEW x \in S, f[x] = NoGames, \A y \in S \ {x} : g[y] = f[y]
    PROVE  Total(g) = Plus(Total(f), g[x])
<1>1. g[x] \in Tally
  OBVIOUS
<1>2. g[x] = Plus(f[x], g[x])
  BY <1>1, PlusEqual, NoGamesType
<1> QED BY <1>1, <1>2, TotalPlus

LEMMA OwedTypes ==
    ASSUME NEW ths \in [Threads -> {IdleThread} \union Busy]
    PROVE  /\ \A w : Owed(ths, w) \in [Threads -> Tally] /\ Total(Owed(ths, w)) \in Tally
           /\ OwedToProfile(ths) \in [Threads -> Tally] /\ Total(OwedToProfile(ths)) \in Tally
           /\ Total(OwedToProfile(ths))["games"] \in Nat
<1>1. \A t \in Threads : ths[t].pc \in {"committed", "credited"} => ths[t].report \in Tally
  BY DEF IdleThread, Busy
<1>2. \A w : Owed(ths, w) \in [Threads -> Tally]
  BY <1>1, NoGamesType DEF Owed, Commits
<1>3. OwedToProfile(ths) \in [Threads -> Tally]
  BY <1>1, NoGamesType DEF OwedToProfile
<1>4. IsFiniteSet(Threads)
  BY ResultsAssumption
<1>5. \A w : Total(Owed(ths, w)) \in Tally
  BY <1>2, <1>4, TotalType
<1>6. Total(OwedToProfile(ths)) \in Tally
  BY <1>3, <1>4, TotalType
<1> QED BY <1>2, <1>3, <1>5, <1>6, TallyShape

\* Thread t moves on to u, and owes nobody anything else by it.
LEMMA OwedMoves ==
    ASSUME NEW ths \in [Threads -> {IdleThread} \union Busy], NEW t \in Threads,
           NEW u \in {IdleThread} \union Busy, NEW w \in Workers
    PROVE  LET ths2 == [ths EXCEPT ![t] = u] IN
           /\ ~Commits(ths[t], w) /\ ~Commits(u, w) => Owed(ths2, w) = Owed(ths, w)
           /\ ~Commits(ths[t], w) /\ Commits(u, w) =>
                 Total(Owed(ths2, w)) = Plus(Total(Owed(ths, w)), u.report)
           /\ Commits(ths[t], w) /\ ~Commits(u, w) =>
                 Total(Owed(ths, w)) = Plus(Total(Owed(ths2, w)), ths[t].report)
<1> DEFINE ths2 == [ths EXCEPT ![t] = u]
<1>1. ths2 \in [Threads -> {IdleThread} \union Busy] /\ ths2[t] = u
      /\ \A s \in Threads \ {t} : ths2[s] = ths[s]
  OBVIOUS
<1> HIDE DEF ths2
<1>2. \A s \in Threads \ {t} : Owed(ths2, w)[s] = Owed(ths, w)[s]
  BY <1>1 DEF Owed
<1>3. /\ Owed(ths, w) \in [Threads -> Tally] /\ Owed(ths2, w) \in [Threads -> Tally]
      /\ IsFiniteSet(Threads)
  BY <1>1, OwedTypes, ResultsAssumption
<1>4. /\ Owed(ths, w)[t] = IF Commits(ths[t], w) THEN ths[t].report ELSE NoGames
      /\ Owed(ths2, w)[t] = IF Commits(u, w) THEN u.report ELSE NoGames
  BY <1>1 DEF Owed
<1>5. ASSUME ~Commits(ths[t], w), ~Commits(u, w) PROVE Owed(ths2, w) = Owed(ths, w)
  BY <1>2, <1>3, <1>4, <1>5
<1>6. ASSUME ~Commits(ths[t], w), Commits(u, w)
      PROVE  Total(Owed(ths2, w)) = Plus(Total(Owed(ths, w)), u.report)
  BY <1>2, <1>3, <1>4, <1>6, TotalOne
<1>7. ASSUME Commits(ths[t], w), ~Commits(u, w)
      PROVE  Total(Owed(ths, w)) = Plus(Total(Owed(ths2, w)), ths[t].report)
  <2>1. \A s \in Threads \ {t} : Owed(ths, w)[s] = Owed(ths2, w)[s]
    BY <1>2
  <2> QED BY <1>3, <1>4, <1>7, <2>1, TotalOne
<1> QED BY <1>5, <1>6, <1>7 DEF ths2

OwesProfile(u) == u.pc \in {"committed", "credited"}

LEMMA OwedToProfileMoves ==
    ASSUME NEW ths \in [Threads -> {IdleThread} \union Busy], NEW t \in Threads,
           NEW u \in {IdleThread} \union Busy
    PROVE  LET ths2 == [ths EXCEPT ![t] = u] IN
           /\ /\ OwesProfile(ths[t]) <=> OwesProfile(u)
              /\ OwesProfile(u) => u.report = ths[t].report
              => OwedToProfile(ths2) = OwedToProfile(ths)
           /\ ~OwesProfile(ths[t]) /\ OwesProfile(u) =>
                 Total(OwedToProfile(ths2)) = Plus(Total(OwedToProfile(ths)), u.report)
           /\ OwesProfile(ths[t]) /\ ~OwesProfile(u) =>
                 Total(OwedToProfile(ths)) = Plus(Total(OwedToProfile(ths2)), ths[t].report)
<1> DEFINE ths2 == [ths EXCEPT ![t] = u]
<1>1. ths2 \in [Threads -> {IdleThread} \union Busy] /\ ths2[t] = u
      /\ \A s \in Threads \ {t} : ths2[s] = ths[s]
  OBVIOUS
<1> HIDE DEF ths2
<1>2. \A s \in Threads \ {t} : OwedToProfile(ths2)[s] = OwedToProfile(ths)[s]
  BY <1>1 DEF OwedToProfile
<1>3. /\ OwedToProfile(ths) \in [Threads -> Tally] /\ OwedToProfile(ths2) \in [Threads -> Tally]
      /\ IsFiniteSet(Threads)
  BY <1>1, OwedTypes, ResultsAssumption
<1>4. /\ OwedToProfile(ths)[t] = IF OwesProfile(ths[t]) THEN ths[t].report ELSE NoGames
      /\ OwedToProfile(ths2)[t] = IF OwesProfile(u) THEN u.report ELSE NoGames
  BY <1>1 DEF OwedToProfile, OwesProfile
<1>5. ASSUME OwesProfile(ths[t]) <=> OwesProfile(u), OwesProfile(u) => u.report = ths[t].report
      PROVE  OwedToProfile(ths2) = OwedToProfile(ths)
  BY <1>2, <1>3, <1>4, <1>5
<1>6. ASSUME ~OwesProfile(ths[t]), OwesProfile(u)
      PROVE  Total(OwedToProfile(ths2)) = Plus(Total(OwedToProfile(ths)), u.report)
  BY <1>2, <1>3, <1>4, <1>6, TotalOne
<1>7. ASSUME OwesProfile(ths[t]), ~OwesProfile(u)
      PROVE  Total(OwedToProfile(ths)) = Plus(Total(OwedToProfile(ths2)), ths[t].report)
  <2>1. \A s \in Threads \ {t} : OwedToProfile(ths)[s] = OwedToProfile(ths2)[s]
    BY <1>2
  <2> QED BY <1>3, <1>4, <1>7, <2>1, TotalOne
<1> QED BY <1>5, <1>6, <1>7 DEF ths2

\* The same of a step of thread t.
LEMMA OwingMoves ==
    ASSUME RowInv, NEW t \in Threads, NEW u \in {IdleThread} \union Busy,
           thread' = [thread EXCEPT ![t] = u]
    PROVE  /\ thread' \in [Threads -> {IdleThread} \union Busy]
           /\ \A w \in Workers :
                /\ ~Commits(thread[t], w) /\ ~Commits(u, w) => Owed(thread', w) = Owed(thread, w)
                /\ ~Commits(thread[t], w) /\ Commits(u, w) =>
                      Total(Owed(thread', w)) = Plus(Total(Owed(thread, w)), u.report)
                /\ Commits(thread[t], w) /\ ~Commits(u, w) =>
                      Total(Owed(thread, w)) = Plus(Total(Owed(thread', w)), thread[t].report)
<1>1. thread \in [Threads -> {IdleThread} \union Busy]
  BY DEF RowInv, TypeOK
<1> QED BY <1>1, OwedMoves

\* A step that neither adds nor credits a report.
LEMMA CreditStays ==
    ASSUME RowInv, CreditInv, UNCHANGED <<result, profile, delivered>>,
           \A w \in Workers : assign'[w].pc = "opened" => AtMost(assign'[w].mine, result[w]),
           \A t \in Threads : \/ thread'[t] = thread[t]
                              \/ ~OwesProfile(thread'[t]) /\ ~OwesProfile(thread[t])
                              \/ /\ thread'[t].pc = thread[t].pc
                                 /\ thread'[t].from = thread[t].from
                                 /\ thread'[t].report = thread[t].report
    PROVE  CreditInv'
<1>1. \A w \in Workers : Owed(thread', w) = Owed(thread, w)
  BY DEF Owed, Commits, OwesProfile
<1>2. OwedToProfile(thread') = OwedToProfile(thread)
  BY DEF OwedToProfile, OwesProfile
<1>3. \A w \in Workers : AtMost(Plus(result'[w], Total(Owed(thread', w))), delivered'[w])
  BY <1>1 DEF CreditInv
<1>4. \A w \in Workers : assign'[w].pc = "opened" => AtMost(assign'[w].mine, result'[w])
  OBVIOUS
<1>5. profile' + Total(OwedToProfile(thread'))["games"] <= Total(delivered')["games"]
  BY <1>2 DEF CreditInv
<1> QED BY <1>3, <1>4, <1>5 DEF CreditInv

LEMMA CommitCredits ==
    ASSUME NEW t \in Threads, RowInv, CreditInv, CommitReport(t) PROVE CreditInv'
<1>0. PICK w \in Workers : w = thread[t].from
  BY ThreadStepBusy DEF ThreadStep
<1>1. /\ thread \in [Threads -> {IdleThread} \union Busy] /\ thread[t] \in Busy
      /\ result \in [Workers -> Tally] /\ delivered \in [Workers -> Tally] /\ profile \in Nat
      /\ IsFiniteSet(Workers) /\ thread[t].report \in Tally
  BY ThreadStepBusy, ResultsAssumption DEF RowInv, TypeOK, ThreadStep, Busy
<1>2. result' = result /\ profile' = profile /\ assign' = assign /\ thread[t].pc = "received"
  BY DEF CommitReport, credits
<1>3. CASE IsClosed(test)
  <2>1. \A s \in Threads : thread'[s] = thread[s]
                           \/ (~OwesProfile(thread'[s]) /\ ~OwesProfile(thread[s]))
    BY <1>1, <1>2, <1>3 DEF CommitReport, OwesProfile, Busy
  <2>2. delivered' = delivered
    BY <1>3 DEF CommitReport
  <2>3. \A v \in Workers : assign'[v].pc = "opened" => AtMost(assign'[v].mine, result[v])
    BY <1>2 DEF CreditInv
  <2> QED BY <1>2, <2>1, <2>2, <2>3, CreditStays
<1>4. CASE ~IsClosed(test)
  <2> DEFINE r == thread[t].report
  <2>2. PICK u \in Busy : thread' = [thread EXCEPT ![t] = u]
                          /\ u.pc = "committed" /\ u.from = w /\ u.report = r
    <3>1. test'.finished \in BOOLEAN
      BY CommitReportRowInv DEF RowInv, TypeOK, Row
    <3>2. thread'[t] \in Busy /\ thread' = [thread EXCEPT ![t] = thread'[t]]
          /\ thread'[t].pc = "committed" /\ thread'[t].from = w /\ thread'[t].report = r
      BY <1>0, <1>1, <1>4, <3>1 DEF Busy, CommitReport
    <3> QED BY <3>2
  <2>1. thread' = [thread EXCEPT ![t] = u] /\ delivered' = [delivered EXCEPT ![w] = Plus(@, r)]
    BY <1>0, <1>1, <1>4, <2>2 DEF CommitReport
  <2>3. thread' \in [Threads -> {IdleThread} \union Busy] /\ delivered' \in [Workers -> Tally]
    BY <1>1, <2>1, <2>2, PlusType
  <2>4. /\ Total(Owed(thread', w)) = Plus(Total(Owed(thread, w)), r)
        /\ \A v \in Workers : v # w => Owed(thread', v) = Owed(thread, v)
    <3>1. ~Commits(thread[t], w) /\ Commits(u, w)
      BY <1>2, <2>2 DEF Commits
    <3>2. \A v \in Workers : v # w => ~Commits(thread[t], v) /\ ~Commits(u, v)
      BY <1>2, <2>2 DEF Commits
    <3> QED BY <2>2, <3>1, <3>2, OwingMoves
  <2>5. Total(OwedToProfile(thread')) = Plus(Total(OwedToProfile(thread)), r)
    BY <1>1, <1>2, <2>1, <2>2, OwedToProfileMoves DEF OwesProfile
  <2>6. Total(delivered') = Plus(Total(delivered), r)
    <3>1. delivered'[w] = Plus(delivered[w], r) /\ \A v \in Workers \ {w} : delivered'[v] = delivered[v]
      BY <1>1, <2>1
    <3> QED BY <1>1, <2>3, <3>1, TotalPlus
  <2> HIDE DEF r
  <2>7. ASSUME NEW v \in Workers
        PROVE  AtMost(Plus(result'[v], Total(Owed(thread', v))), delivered'[v])
    <3>1. /\ Total(Owed(thread, v)) \in Tally /\ result[v] \in Tally /\ delivered[v] \in Tally
          /\ r \in Tally
      BY <1>1, OwedTypes DEF r
    <3>2. AtMost(Plus(result[v], Total(Owed(thread, v))), delivered[v])
      BY DEF CreditInv
    <3>3. CASE v = w
      <4>1. delivered'[v] = Plus(delivered[v], r)
            /\ Total(Owed(thread', v)) = Plus(Total(Owed(thread, v)), r)
        BY <1>1, <2>1, <2>4, <3>3
      <4> QED BY <1>2, <3>1, <3>2, <4>1 DEF AtMost, Plus, Tally
    <3>4. CASE v # w
      BY <1>1, <1>2, <2>1, <2>4, <3>2, <3>4
    <3> QED BY <3>3, <3>4
  <2>8. profile' + Total(OwedToProfile(thread'))["games"] <= Total(delivered')["games"]
    <3>1. /\ Total(OwedToProfile(thread)) \in Tally /\ Total(delivered) \in Tally
          /\ r \in Tally /\ "games" \in Columns
      BY <1>1, OwedTypes, TotalType, TallyShape DEF r
    <3>2. /\ Total(OwedToProfile(thread'))["games"]
               = Total(OwedToProfile(thread))["games"] + r["games"]
          /\ Total(delivered')["games"] = Total(delivered)["games"] + r["games"]
      BY <2>5, <2>6, <3>1, PlusIsSum
    <3>3. /\ Total(OwedToProfile(thread))["games"] \in Nat /\ Total(delivered)["games"] \in Nat
          /\ r["games"] \in Nat
      BY <3>1, TallyShape
    <3>4. profile + Total(OwedToProfile(thread))["games"] <= Total(delivered)["games"]
      BY DEF CreditInv
    <3> QED BY <1>1, <1>2, <3>2, <3>3, <3>4
  <2>9. \A v \in Workers : assign'[v].pc = "opened" => AtMost(assign'[v].mine, result'[v])
    BY <1>2 DEF CreditInv
  <2> QED BY <2>7, <2>8, <2>9 DEF CreditInv
<1> QED BY <1>3, <1>4

LEMMA CreditResultCredits ==
    ASSUME NEW t \in Threads, RowInv, CreditInv, CreditResult(t) PROVE CreditInv'
<1>0. PICK w \in Workers : w = thread[t].from
  BY ThreadStepBusy DEF ThreadStep
<1>1. /\ thread \in [Threads -> {IdleThread} \union Busy] /\ thread[t] \in Busy
      /\ result \in [Workers -> Tally] /\ delivered \in [Workers -> Tally]
      /\ assign \in [Workers -> {NoAssignment} \union Assignment] /\ thread[t].report \in Tally
  BY ThreadStepBusy DEF RowInv, TypeOK, ThreadStep, Busy
<1> DEFINE r == thread[t].report
<1>3. PICK u \in Busy : /\ thread' = [thread EXCEPT ![t] = u] /\ u.pc = "credited"
                        /\ u.report = r /\ thread[t].pc = "committed"
  <2>1. /\ thread'[t] \in Busy /\ thread' = [thread EXCEPT ![t] = thread'[t]]
        /\ thread'[t].pc = "credited" /\ thread'[t].report = r /\ thread[t].pc = "committed"
    BY <1>1 DEF Busy, CreditResult
  <2> QED BY <2>1
<1>2. /\ thread' = [thread EXCEPT ![t] = u] /\ result' = [result EXCEPT ![w] = Plus(@, r)]
      /\ delivered' = delivered /\ profile' = profile /\ assign' = assign
  BY <1>0, <1>1, <1>3 DEF CreditResult
<1>4. thread' \in [Threads -> {IdleThread} \union Busy]
  BY <1>1, <1>2, <1>3
<1>5. /\ Total(Owed(thread, w)) = Plus(Total(Owed(thread', w)), r)
      /\ \A v \in Workers : v # w => Owed(thread', v) = Owed(thread, v)
  <2>1. Commits(thread[t], w) /\ ~Commits(u, w)
    BY <1>0, <1>3 DEF Commits
  <2>2. \A v \in Workers : v # w => ~Commits(thread[t], v) /\ ~Commits(u, v)
    BY <1>0, <1>3 DEF Commits
  <2> QED BY <1>3, <2>1, <2>2, OwingMoves
<1>6. OwedToProfile(thread') = OwedToProfile(thread)
  <2>1. OwesProfile(thread[t]) /\ OwesProfile(u) /\ u.report = thread[t].report
    BY <1>3 DEF OwesProfile
  <2> QED BY <1>1, <1>3, <2>1, OwedToProfileMoves
<1> HIDE DEF r
<1>7. ASSUME NEW v \in Workers
      PROVE  /\ AtMost(Plus(result'[v], Total(Owed(thread', v))), delivered'[v])
             /\ assign'[v].pc = "opened" => AtMost(assign'[v].mine, result'[v])
  <2>1. /\ Total(Owed(thread, v)) \in Tally /\ Total(Owed(thread', v)) \in Tally
        /\ result[v] \in Tally /\ delivered[v] \in Tally /\ r \in Tally
    BY <1>1, <1>4, OwedTypes DEF r
  <2>2. /\ AtMost(Plus(result[v], Total(Owed(thread, v))), delivered[v])
        /\ assign[v].pc = "opened" => AtMost(assign[v].mine, result[v])
    BY DEF CreditInv
  <2>3. assign[v].pc = "opened" => assign[v].mine \in Tally
    BY <1>1 DEF NoAssignment, Assignment
  <2>4. CASE v = w
    <3>1. result'[v] = Plus(result[v], r)
          /\ Total(Owed(thread, v)) = Plus(Total(Owed(thread', v)), r)
      BY <1>1, <1>2, <1>5, <2>4
    <3>2. AtMost(Plus(result'[v], Total(Owed(thread', v))), delivered'[v])
      <4> DEFINE o == Total(Owed(thread, v))
                 o2 == Total(Owed(thread', v))
      <4>1. /\ o = Plus(o2, r) /\ o2 \in Tally /\ AtMost(Plus(result[v], o), delivered[v])
            /\ result'[v] = Plus(result[v], r) /\ delivered'[v] = delivered[v]
        BY <1>2, <2>1, <2>2, <3>1
      <4> HIDE DEF o, o2
      <4>2. AtMost(Plus(Plus(result[v], r), o2), delivered[v])
        BY <2>1, <4>1 DEF AtMost, Plus, Tally
      <4> QED BY <4>1, <4>2 DEF o2
    <3>3. assign[v].pc = "opened" => AtMost(assign[v].mine, result'[v])
      BY <2>1, <2>2, <2>3, <3>1 DEF AtMost, Plus, Tally
    <3> QED BY <1>2, <3>2, <3>3
  <2>5. CASE v # w
    BY <1>1, <1>2, <1>5, <2>2, <2>5
  <2> QED BY <2>4, <2>5
<1>8. profile' + Total(OwedToProfile(thread'))["games"] <= Total(delivered')["games"]
  BY <1>2, <1>6 DEF CreditInv
<1> QED BY <1>7, <1>8 DEF CreditInv

\* Thread t stops to owe, be it that it credited the Profile or that it failed.
LEMMA OwingEnds ==
    ASSUME NEW t \in Threads, RowInv, CreditInv, NEW u \in {IdleThread} \union Busy,
           ~OwesProfile(u), OwesProfile(thread[t]), thread' = [thread EXCEPT ![t] = u],
           profile' \in {profile, profile + thread[t].report["games"]},
           UNCHANGED <<result, delivered, assign>>
    PROVE  CreditInv'
<1>1. /\ thread \in [Threads -> {IdleThread} \union Busy] /\ thread[t] \in Busy
      /\ result \in [Workers -> Tally] /\ delivered \in [Workers -> Tally] /\ profile \in Nat
      /\ IsFiniteSet(Workers)
  BY ResultsAssumption DEF RowInv, TypeOK, OwesProfile, IdleThread
<1>2. thread' \in [Threads -> {IdleThread} \union Busy] /\ thread[t].report \in Tally
  BY <1>1 DEF Busy
<1>3. Total(OwedToProfile(thread)) = Plus(Total(OwedToProfile(thread')), thread[t].report)
  BY <1>1, OwedToProfileMoves
<1>4. profile' + Total(OwedToProfile(thread'))["games"] <= Total(delivered')["games"]
  <2>1. /\ Total(OwedToProfile(thread')) \in Tally /\ Total(delivered) \in Tally
        /\ "games" \in Columns
    BY <1>1, <1>2, OwedTypes, TotalType, TallyShape
  <2>2. Total(OwedToProfile(thread))["games"]
           = Total(OwedToProfile(thread'))["games"] + thread[t].report["games"]
    BY <1>2, <1>3, <2>1, PlusIsSum
  <2>3. /\ Total(OwedToProfile(thread'))["games"] \in Nat /\ Total(delivered)["games"] \in Nat
        /\ thread[t].report["games"] \in Nat
    BY <1>2, <2>1, TallyShape
  <2>4. profile + Total(OwedToProfile(thread))["games"] <= Total(delivered)["games"]
    BY DEF CreditInv
  <2> QED BY <1>1, <2>2, <2>3, <2>4
<1>5. ASSUME NEW v \in Workers
      PROVE  AtMost(Plus(result'[v], Total(Owed(thread', v))), delivered'[v])
  <2>1. /\ Total(Owed(thread, v)) \in Tally /\ Total(Owed(thread', v)) \in Tally
        /\ result[v] \in Tally /\ delivered[v] \in Tally
    BY <1>1, <1>2, OwedTypes
  <2>2. AtMost(Plus(result[v], Total(Owed(thread, v))), delivered[v])
    BY DEF CreditInv
  <2>3. ~Commits(u, v)
    BY DEF Commits, OwesProfile
  <2>4. CASE Commits(thread[t], v)
    <3>1. Total(Owed(thread, v)) = Plus(Total(Owed(thread', v)), thread[t].report)
      BY <2>3, <2>4, OwingMoves
    <3> DEFINE o == Total(Owed(thread, v))
               o2 == Total(Owed(thread', v))
               r == thread[t].report
    <3>2. o = Plus(o2, r) /\ o2 \in Tally /\ r \in Tally /\ AtMost(Plus(result[v], o), delivered[v])
      BY <1>2, <2>1, <2>2, <3>1
    <3> HIDE DEF o, o2, r
    <3>3. AtMost(Plus(result[v], o2), delivered[v])
      BY <2>1, <3>2 DEF AtMost, Plus, Tally
    <3> QED BY <3>3 DEF o2
  <2>5. CASE ~Commits(thread[t], v)
    <3>1. Owed(thread', v) = Owed(thread, v)
      BY <2>3, <2>5, OwingMoves
    <3> QED BY <2>2, <3>1
  <2> QED BY <2>4, <2>5
<1>6. \A v \in Workers : assign'[v].pc = "opened" => AtMost(assign'[v].mine, result'[v])
  BY DEF CreditInv
<1> QED BY <1>4, <1>5, <1>6 DEF CreditInv

LEMMA WorkerStepOwes ==
    ASSUME NEW w \in Workers, RowInv, CreditInv, WorkerStep(w) PROVE CreditInv'
<1>1. /\ assign \in [Workers -> {NoAssignment} \union Assignment]
      /\ thread \in [Threads -> {IdleThread} \union Busy]
  BY DEF RowInv, TypeOK
<1>2. UNCHANGED <<result, profile, delivered>>
  BY DEF WorkerStep, SelectTest, FinishPair, Collect, SendReport, SendFinalReport, Report,
         FinishWorkload, HeartbeatStop, credits
<1>3. \A v \in Workers : assign'[v] = assign[v] \/ assign'[v].pc = "selected"
  <2>1. CASE SelectTest(w)
    BY <1>1, <2>1 DEF SelectTest
  <2>2. CASE assign' = assign
    BY <2>2
  <2> QED BY <2>1, <2>2 DEF WorkerStep, FinishPair, Collect, SendReport, SendFinalReport, Report,
           FinishWorkload, HeartbeatStop
<1>4. ASSUME NEW t \in Threads
      PROVE  thread'[t] = thread[t] \/ (~OwesProfile(thread'[t]) /\ ~OwesProfile(thread[t]))
  <2>1. CASE thread' = thread
    BY <2>1
  <2>2. ASSUME NEW s \in Threads, NEW next, Report(w, s, next)
        PROVE  thread'[t] = thread[t] \/ (~OwesProfile(thread'[t]) /\ ~OwesProfile(thread[t]))
    BY <1>1, <2>2 DEF Report, OwesProfile, IdleThread
  <2> QED BY <2>1, <2>2 DEF WorkerStep, SelectTest, FinishPair, Collect, SendReport,
           SendFinalReport, FinishWorkload, HeartbeatStop
<1>5. \A v \in Workers : assign'[v].pc = "opened" => AtMost(assign'[v].mine, result[v])
  BY <1>3 DEF CreditInv
<1> QED BY <1>2, <1>4, <1>5, CreditStays

\* result.save() writes back a copy that is no newer than the row, so that a credit
\* can be lost to it, and none is added.
LEMMA AssignStepOwes ==
    ASSUME NEW w \in Workers, RowInv, CreditInv, AssignStep(w) PROVE CreditInv'
<1>1. /\ assign \in [Workers -> {NoAssignment} \union Assignment]
      /\ thread \in [Threads -> {IdleThread} \union Busy] /\ result \in [Workers -> Tally]
      /\ delivered \in [Workers -> Tally] /\ assign[w] \in Assignment
  BY DEF RowInv, TypeOK, AssignStep, OpenResult, SaveResult, SaveScale, TakeBookIndex, NoAssignment
<1>2. thread' = thread /\ profile' = profile /\ delivered' = delivered
  BY DEF AssignStep, OpenResult, SaveResult, SaveScale, TakeBookIndex, credits
<1>3. CASE SaveResult(w)
  <2>1. /\ result' = [result EXCEPT ![w] = assign[w].mine] /\ assign'[w].pc = "saved"
        /\ \A v \in Workers : v # w => assign'[v] = assign[v]
    BY <1>1, <1>3 DEF SaveResult, Assignment
  <2>2. AtMost(assign[w].mine, result[w]) /\ assign[w].mine \in Tally
    BY <1>1, <1>3 DEF SaveResult, CreditInv, Assignment
  <2>3. ASSUME NEW v \in Workers
        PROVE  AtMost(Plus(result'[v], Total(Owed(thread', v))), delivered'[v])
    <3>1. AtMost(Plus(result[v], Total(Owed(thread, v))), delivered[v])
      BY DEF CreditInv
    <3>2. CASE v = w
      <4> DEFINE o == Total(Owed(thread, w))
      <4>1. o \in Tally /\ AtMost(Plus(result[w], o), delivered[w]) /\ result'[w] = assign[w].mine
            /\ result[w] \in Tally /\ delivered[w] \in Tally
        BY <1>1, <2>1, <3>1, <3>2, OwedTypes
      <4> HIDE DEF o
      <4>2. AtMost(Plus(result'[w], o), delivered[w])
        BY <2>2, <4>1 DEF AtMost, Plus, Tally
      <4> QED BY <1>2, <3>2, <4>2 DEF o
    <3>3. CASE v # w
      BY <1>1, <1>2, <2>1, <3>1, <3>3
    <3> QED BY <3>2, <3>3
  <2>4. ASSUME NEW v \in Workers, assign'[v].pc = "opened"
        PROVE  AtMost(assign'[v].mine, result'[v])
    <3>1. v # w
      BY <2>1, <2>4
    <3> QED BY <1>1, <2>1, <2>4, <3>1 DEF CreditInv
  <2>5. profile' + Total(OwedToProfile(thread'))["games"] <= Total(delivered')["games"]
    BY <1>2 DEF CreditInv
  <2> QED BY <2>3, <2>4, <2>5 DEF CreditInv
<1>4. CASE ~SaveResult(w)
  <2>1. result' = result
    BY <1>4 DEF AssignStep, OpenResult, SaveScale, TakeBookIndex, credits
  <2>2. ASSUME NEW v \in Workers, assign'[v].pc = "opened"
        PROVE  AtMost(assign'[v].mine, result[v])
    <3>1. CASE OpenResult(w) /\ v = w
      <4>1. assign'[v].mine = result[v] /\ result[v] \in Tally
        BY <1>1, <3>1 DEF OpenResult, Assignment
      <4> QED BY <4>1, AtMostMoves
    <3>2. CASE v # w
      BY <1>1, <2>2, <3>2 DEF AssignStep, OpenResult, SaveResult, SaveScale, TakeBookIndex, CreditInv
    <3>3. CASE SaveScale(w) /\ v = w
      <4>1. assign[v].pc = "saved" /\ assign'[v].pc = assign[v].pc
        BY <1>1, <3>3 DEF SaveScale, Assignment
      <4> QED BY <2>2, <4>1
    <3>4. CASE TakeBookIndex(w) /\ v = w
      BY <1>1, <2>2, <3>4 DEF TakeBookIndex, NoAssignment
    <3> QED BY <1>4, <3>1, <3>2, <3>3, <3>4 DEF AssignStep
  <2> QED BY <1>2, <2>1, <2>2, CreditStays
<1> QED BY <1>3, <1>4

LEMMA ThreadStepOwes ==
    ASSUME NEW t \in Threads, RowInv, CreditInv, ThreadStep(t) PROVE CreditInv'
<1>1. thread \in [Threads -> {IdleThread} \union Busy] /\ thread[t] \in Busy
  BY ThreadStepBusy DEF RowInv, TypeOK
<1>2. CASE CommitReport(t)
  BY <1>2, CommitCredits
<1>3. CASE CreditResult(t)
  BY <1>3, CreditResultCredits
<1>4. CASE CreditProfile(t)
  <2>1. PICK u \in Busy : thread' = [thread EXCEPT ![t] = u] /\ u.pc = "handled"
    <3>1. thread'[t] \in Busy /\ thread' = [thread EXCEPT ![t] = thread'[t]]
          /\ thread'[t].pc = "handled"
      BY <1>1, <1>4 DEF Busy, CreditProfile
    <3> QED BY <3>1
  <2>2. ~OwesProfile(u) /\ OwesProfile(thread[t])
    BY <1>4, <2>1 DEF OwesProfile, CreditProfile
  <2>3. profile' = profile + thread[t].report["games"] /\ UNCHANGED <<result, delivered, assign>>
    BY <1>4 DEF CreditProfile
  <2> QED BY <2>1, <2>2, <2>3, OwingEnds
<1>5. CASE Reply(t) \/ EndThread(t)
  <2>1. UNCHANGED <<result, profile, delivered, assign>>
    BY <1>5 DEF Reply, EndThread, credits
  <2>2. \A s \in Threads : thread'[s] = thread[s]
                           \/ (~OwesProfile(thread'[s]) /\ ~OwesProfile(thread[s]))
    <3>1. thread' = [thread EXCEPT ![t] = IdleThread] /\ thread[t].pc = "handled"
      BY <1>5 DEF Reply, EndThread
    <3>2. ~OwesProfile(IdleThread) /\ ~OwesProfile(thread[t])
      BY <3>1 DEF OwesProfile, IdleThread
    <3> QED BY <1>1, <3>1, <3>2
  <2>3. \A v \in Workers : assign'[v].pc = "opened" => AtMost(assign'[v].mine, result[v])
    BY <2>1 DEF CreditInv
  <2> QED BY <2>1, <2>2, <2>3, CreditStays
<1> QED BY <1>2, <1>3, <1>4, <1>5 DEF ThreadStep

LEMMA FaultOwes == ASSUME RowInv, CreditInv, Fault PROVE CreditInv'
<1>1. /\ thread \in [Threads -> {IdleThread} \union Busy]
      /\ assign \in [Workers -> {NoAssignment} \union Assignment]
  BY DEF RowInv, TypeOK
<1>2. UNCHANGED <<result, profile, delivered>>
  BY DEF Fault, GiveUpAssignment, LoseFinalReport, Abort, GiveUpReport, FailThread, credits
<1>3. \A v \in Workers : assign'[v] = assign[v] \/ assign'[v] = NoAssignment
  BY <1>1 DEF Fault, GiveUpAssignment, LoseFinalReport, Abort, GiveUpReport, FailThread
<1>4. \A v \in Workers : assign'[v].pc = "opened" => AtMost(assign'[v].mine, result[v])
  BY <1>3 DEF CreditInv, NoAssignment
<1>5. ASSUME NEW t \in Threads, FailThread(t), OwesProfile(thread[t]) PROVE CreditInv'
  <2>1. ~OwesProfile(IdleThread) /\ thread' = [thread EXCEPT ![t] = IdleThread] /\ assign' = assign
    BY <1>5 DEF FailThread, OwesProfile, IdleThread
  <2> QED BY <1>2, <1>5, <2>1, OwingEnds
<1>6. ASSUME \A t \in Threads : FailThread(t) => ~OwesProfile(thread[t]) PROVE CreditInv'
  <2>1. ASSUME NEW s \in Threads
        PROVE  \/ thread'[s] = thread[s]
               \/ ~OwesProfile(thread'[s]) /\ ~OwesProfile(thread[s])
               \/ /\ thread'[s].pc = thread[s].pc /\ thread'[s].from = thread[s].from
                  /\ thread'[s].report = thread[s].report
    <3>1. ASSUME NEW t \in Threads, FailThread(t)
          PROVE  thread'[s] = thread[s] \/ (~OwesProfile(thread'[s]) /\ ~OwesProfile(thread[s]))
      BY <1>1, <1>6, <3>1 DEF FailThread, OwesProfile, IdleThread
    <3>2. CASE thread' = thread
      BY <3>2
    <3>3. CASE thread'[s] = [thread[s] EXCEPT !.awaited = FALSE] /\ thread[s] # IdleThread
      BY <1>1, <3>3 DEF Busy
    <3>4. ASSUME NEW t \in Threads, GiveUpReport(t), s # t PROVE thread'[s] = thread[s]
      BY <1>1, <3>4 DEF GiveUpReport
    <3>5. ASSUME NEW t \in Threads, GiveUpReport(t), s = t
          PROVE  thread'[s] = [thread[s] EXCEPT !.awaited = FALSE] /\ thread[s] # IdleThread
      BY <1>1, <3>5 DEF GiveUpReport
    <3>6. ASSUME NEW w \in Workers, Abort(w)
          PROVE  \/ thread'[s] = thread[s]
                 \/ thread'[s] = [thread[s] EXCEPT !.awaited = FALSE] /\ thread[s] # IdleThread
      BY <1>1, <3>6 DEF Abort
    <3> QED BY <3>1, <3>2, <3>3, <3>4, <3>5, <3>6 DEF Fault, GiveUpAssignment, LoseFinalReport
  <2> QED BY <1>2, <1>4, <2>1, CreditStays
<1> QED BY <1>5, <1>6

LEMMA CreditInvNext == ASSUME RowInv, CreditInv, [Next]_vars PROVE CreditInv'
<1>1. ASSUME NEW e \in Editors, EditStep(e) PROVE CreditInv'
  <2>1. UNCHANGED <<result, profile, delivered, assign, thread>>
    BY <1>1 DEF EditStep, BeginPageOp, BeginArtifacts, BeginBenchError, SaveEdit, credits
  <2> QED BY <2>1, CreditStays DEF CreditInv
<1>2. CASE UNCHANGED vars
  BY <1>2, CreditStays DEF vars, CreditInv
<1> QED BY <1>1, <1>2, WorkerStepOwes, AssignStepOwes, ThreadStepOwes, FaultOwes DEF Next

-----------------------------------------------------------------------------
(***************************************************************************)
(* The copies of the row.  A copy was the row once, and the row and all    *)
(* that was delivered only grow.                                           *)
(***************************************************************************)
LEMMA CopyStays ==
    ASSUME NEW r \in Row, NEW s \in Tally, NEW z \in Tally, CopyOf(r, s), AtMost(s, z)
    PROVE  CopyOf(r, z)
<1>1. r.tally \in Tally
  BY DEF Row
<1>2. ASSUME NEW c \in Columns PROVE r.tally[c] <= z[c]
  <2>1. r.tally[c] \in Nat /\ s[c] \in Nat /\ z[c] \in Nat
    BY <1>1, TallyShape
  <2>2. r.tally[c] <= s[c] /\ s[c] <= z[c]
    BY DEF CopyOf, AtMost
  <2> QED BY <2>1, <2>2
<1> QED BY <1>2 DEF CopyOf, AtMost

\* create_workload makes rows without a game.
LEMMA NewRowIsCopy ==
    ASSUME NEW r \in NewRows PROVE CopyOf(r, NoGames) /\ r.tally = NoGames
<1>1. r.tally = NoGames /\ NoGames["games"] = 0 /\ NoGames \in Tally
  BY NoGamesType DEF NewRows, NoGames, Columns
<1>2. MaxGames \in Nat \ {0} /\ Allot \in Nat \ {0}
  BY ConstantsAssumption, ResultsAssumption
<1>3. Limited(r)
  BY <1>1, <1>2 DEF Limited
<1> QED BY <1>1, <1>3 DEF CopyOf, AtMost, Tally

\* A report adds the same to both, and finishes a row that reached its limit.
LEMMA AddedIsCopy ==
    ASSUME NEW r \in Row, NEW s \in Tally, NEW report \in Tally,
           CopyOf(r, s), ~r.finished, report["games"] <= 2 * Allot
    PROVE  CopyOf(AddReport(r, report), Plus(s, report))
<1> DEFINE q == AddReport(r, report)
<1>1. /\ q.tally = Plus(r.tally, report) /\ q.mode = r.mode /\ r.tally \in Tally
      /\ q.finished = (Accepted(r.mode, Plus(r.tally, report))
                       \/ Rejected(r.mode, Plus(r.tally, report)))
  BY DEF AddReport, WithVerdict, Row
<1> HIDE DEF q
<1>2. AtMost(q.tally, Plus(s, report))
  <2> SUFFICES ASSUME NEW c \in Columns PROVE q.tally[c] <= Plus(s, report)[c]
      BY DEF AtMost
  <2>1. r.tally[c] \in Nat /\ s[c] \in Nat /\ report[c] \in Nat
    BY <1>1, TallyShape
  <2>2. r.tally[c] <= s[c]
    BY DEF CopyOf, AtMost
  <2>3. q.tally[c] = r.tally[c] + report[c] /\ Plus(s, report)[c] = s[c] + report[c]
    BY <1>1, PlusIsSum
  <2> QED BY <2>1, <2>2, <2>3
<1>3. Limited(q)
  <2> SUFFICES ASSUME q.mode \in {"GAMES", "DATAGEN"}, "RESTART" \notin Ops
               PROVE  /\ q.tally["games"] >= MaxGames => q.finished
                      /\ q.tally["games"] < MaxGames + 2 * Allot
      BY DEF Limited
  <2>1. /\ r.tally["games"] \in Nat /\ report["games"] \in Nat /\ MaxGames \in Nat
        /\ Allot \in Nat /\ q.tally["games"] = r.tally["games"] + report["games"]
    BY <1>1, TallyShape, PlusIsSum, ConstantsAssumption, ResultsAssumption
  <2>2. ~(r.tally["games"] >= MaxGames)
    BY <1>1 DEF CopyOf, Limited
  <2>3. q.tally["games"] < MaxGames + 2 * Allot
    BY <2>1, <2>2
  <2>4. ASSUME q.tally["games"] >= MaxGames PROVE q.finished
    <3>1. q.tally["wins"] \in Nat /\ q.tally["losses"] \in Nat
      BY <1>1, PlusType DEF Tally, Columns
    <3>2. q.mode = r.mode /\ q.tally = Plus(r.tally, report)
      BY <1>1
    <3>3. Accepted(q.mode, q.tally) \/ Rejected(q.mode, q.tally)
      BY <2>4, <3>1 DEF Accepted, Rejected
    <3> QED BY <1>1, <3>2, <3>3
  <2> QED BY <2>3, <2>4
<1> QED BY <1>2, <1>3 DEF CopyOf, q

\* The buttons, the watcher, a bench error and the old column: no games change,
\* and only a restart makes a finished test run again.
LEMMA EditedIsCopy ==
    ASSUME NEW r \in Row, NEW s, NEW op \in Ops, CopyOf(r, s)
    PROVE  CopyOf(Edited(op, r), s) /\ Edited(op, r).tally = r.tally
<1>1. op \in EditOps
  BY ResultsAssumption
<1>2. /\ Edited(op, r).tally = r.tally /\ Edited(op, r).mode = r.mode
      /\ r.finished /\ op # "RESTART" => Edited(op, r).finished
  BY <1>1 DEF Edited, Row, EditOps, PageOps
<1> QED BY <1>2 DEF CopyOf, Limited

LEMMA MovedIsCopy ==
    ASSUME NEW r \in Row, NEW s, CopyOf(r, s)
    PROVE  /\ CopyOf(Scaled(r), s) /\ Scaled(r).tally = r.tally
           /\ CopyOf(TakeOpenings(r, Allot), s) /\ TakeOpenings(r, Allot).tally = r.tally
<1>1. /\ Scaled(r).tally = r.tally /\ Scaled(r).mode = r.mode /\ Scaled(r).finished = r.finished
  BY DEF Scaled, Row
<1>2. /\ TakeOpenings(r, Allot).tally = r.tally /\ TakeOpenings(r, Allot).mode = r.mode
      /\ TakeOpenings(r, Allot).finished = r.finished
  BY DEF TakeOpenings, Row
<1> QED BY <1>1, <1>2 DEF CopyOf, Limited

LEMMA DeliveredTotal == ASSUME TypeOK PROVE Total(delivered) \in Tally
BY TotalType, ResultsAssumption DEF TypeOK

LEMMA CommitIsCopied ==
    ASSUME NEW t \in Threads, RowInv, ReportInv, CopiesInv, CommitReport(t)
    PROVE  CopiesInv'
<1>1. /\ test \in Row /\ thread[t] \in Busy /\ delivered \in [Workers -> Tally]
      /\ assign \in [Workers -> {NoAssignment} \union Assignment]
      /\ editor \in [Editors -> {NoEdit} \union [op : Ops, row : Row]]
      /\ Total(delivered) \in Tally
  BY ThreadStepBusy, DeliveredTotal DEF RowInv, TypeOK, ThreadStep
<1>2. UNCHANGED <<assign, editor, clobbered>>
  BY DEF CommitReport
<1>3. CASE IsClosed(test)
  <2>1. UNCHANGED <<test, delivered>>
    BY <1>3 DEF CommitReport
  <2> QED BY <1>2, <2>1 DEF CopiesInv
<1>4. CASE ~IsClosed(test)
  <2>1. PICK w \in Workers : w = thread[t].from
    BY <1>1 DEF Busy
  <2>2. PICK r \in Tally : r = thread[t].report
    BY <1>1 DEF Busy
  <2>3. test' = AddReport(test, r) /\ delivered' = [delivered EXCEPT ![w] = Plus(@, r)]
    BY <1>4, <2>1, <2>2 DEF CommitReport
  <2>4. Total(delivered') = Plus(Total(delivered), r)
    <3>1. /\ delivered' \in [Workers -> Tally] /\ delivered'[w] = Plus(delivered[w], r)
          /\ \A v \in Workers \ {w} : delivered'[v] = delivered[v]
      BY <1>1, <2>3, PlusType
    <3> QED BY <1>1, <3>1, TotalPlus, ResultsAssumption
  <2>5. r["games"] <= 2 * Allot /\ ~test.finished
    BY <1>1, <1>4, <2>2 DEF ReportInv, Reports, ReportOf, IsClosed, Busy, IdleThread
  <2> DEFINE d == Total(delivered)
  <2>6. d \in Tally /\ Total(delivered') = Plus(d, r) /\ Plus(d, r) \in Tally /\ AtMost(d, Plus(d, r))
    <3>1. d \in Tally /\ Total(delivered') = Plus(d, r)
      BY <1>1, <2>4
    <3> HIDE DEF d
    <3>2. AtMost(d, Plus(d, r))
      BY <3>1 DEF AtMost, Plus, Tally
    <3> QED BY <3>1, <3>2, PlusType
  <2>7. CopyOf(test, d) /\ (~clobbered => test.tally = d)
    BY DEF CopiesInv
  <2>8. ASSUME NEW v \in Workers, assign[v] # NoAssignment
        PROVE  assign[v].row \in Row /\ CopyOf(assign[v].row, d)
    BY <1>1, <2>8 DEF CopiesInv, Assignment
  <2>9. ASSUME NEW e \in Editors, editor[e] # NoEdit
        PROVE  editor[e].row \in Row /\ CopyOf(editor[e].row, d)
    BY <1>1, <2>9 DEF CopiesInv
  <2>10. test'.tally = Plus(test.tally, r)
    BY <1>1, <2>3 DEF AddReport, WithVerdict, Row
  <2> HIDE DEF d
  <2>11. CopyOf(test', Plus(d, r))
    BY <1>1, <2>3, <2>5, <2>6, <2>7, AddedIsCopy
  <2>12. \A v \in Workers : assign[v] # NoAssignment => CopyOf(assign[v].row, Plus(d, r))
    BY <2>6, <2>8, CopyStays
  <2>13. \A e \in Editors : editor[e] # NoEdit => CopyOf(editor[e].row, Plus(d, r))
    BY <2>6, <2>9, CopyStays
  <2>14. ~clobbered => test'.tally = Plus(d, r)
    BY <2>7, <2>10
  <2> QED BY <1>2, <2>6, <2>11, <2>12, <2>13, <2>14 DEF CopiesInv, d
<1> QED BY <1>3, <1>4

\* A step of the threads that hold copies.
LEMMA RowStepIsCopied ==
    ASSUME RowInv, CopiesInv, UNCHANGED delivered,
           CopyOf(test', Total(delivered)), ~clobbered' => test'.tally = Total(delivered),
           \A w \in Workers : assign'[w] = assign[w] \/ assign'[w] = NoAssignment
                              \/ CopyOf(assign'[w].row, Total(delivered)),
           \A e \in Editors : editor'[e] = editor[e] \/ editor'[e] = NoEdit
                              \/ CopyOf(editor'[e].row, Total(delivered))
    PROVE  CopiesInv'
BY DEF CopiesInv

LEMMA AssignStepIsCopied ==
    ASSUME NEW w \in Workers, RowInv, CopiesInv, AssignStep(w) PROVE CopiesInv'
<1> DEFINE d == Total(delivered)
<1>1. /\ test \in Row /\ CopyOf(test, d) /\ (~clobbered => test.tally = d)
      /\ assign \in [Workers -> {NoAssignment} \union Assignment]
      /\ assign[w] \in Assignment /\ assign[w].row \in Row /\ CopyOf(assign[w].row, d)
  <2>1. assign \in [Workers -> {NoAssignment} \union Assignment] /\ test \in Row
    BY DEF RowInv, TypeOK
  <2>2. assign[w] # NoAssignment
    BY DEF AssignStep, OpenResult, SaveResult, SaveScale, TakeBookIndex, NoAssignment
  <2>3. assign[w] \in Assignment /\ assign[w].row \in Row
    BY <2>1, <2>2 DEF Assignment
  <2> QED BY <2>1, <2>2, <2>3 DEF CopiesInv
<1>2. UNCHANGED <<delivered, editor>>
  BY DEF AssignStep, OpenResult, SaveResult, SaveScale, TakeBookIndex
<1>3. CASE OpenResult(w) \/ SaveResult(w)
  <2>1. UNCHANGED <<test, clobbered>>
    BY <1>3 DEF OpenResult, SaveResult
  <2>2. \A v \in Workers : assign'[v] = assign[v] \/ (v = w /\ assign'[v].row = assign[w].row)
    BY <1>1, <1>3 DEF OpenResult, SaveResult, Assignment
  <2> HIDE DEF d
  <2> QED BY <1>1, <1>2, <2>1, <2>2, RowStepIsCopied DEF d
<1>4. CASE SaveScale(w)
  <2>1. test' = Scaled(assign[w].row) /\ clobbered' = (clobbered \/ assign[w].row # test)
    BY <1>4 DEF SaveScale
  <2>2. \A v \in Workers : assign'[v] = assign[v] \/ (v = w /\ assign'[v].row = Scaled(assign[w].row))
    BY <1>1, <1>4 DEF SaveScale, Assignment
  <2>3. CopyOf(Scaled(assign[w].row), d) /\ Scaled(assign[w].row).tally = assign[w].row.tally
    <3> HIDE DEF d
    <3> QED BY <1>1, MovedIsCopy
  <2>4. ~clobbered' => test'.tally = d
    BY <1>1, <2>1, <2>3
  <2> HIDE DEF d
  <2> QED BY <1>1, <1>2, <2>1, <2>2, <2>3, <2>4, RowStepIsCopied DEF d
<1>5. CASE TakeBookIndex(w)
  <2>1. test' = TakeOpenings(test, Allot) /\ clobbered' = clobbered
    BY <1>5 DEF TakeBookIndex
  <2>2. \A v \in Workers : assign'[v] = assign[v] \/ assign'[v] = NoAssignment
    BY <1>1, <1>5 DEF TakeBookIndex
  <2>3. CopyOf(TakeOpenings(test, Allot), d) /\ TakeOpenings(test, Allot).tally = test.tally
    <3> HIDE DEF d
    <3> QED BY <1>1, MovedIsCopy
  <2> HIDE DEF d
  <2> QED BY <1>1, <1>2, <2>1, <2>2, <2>3, RowStepIsCopied DEF d
<1> QED BY <1>3, <1>4, <1>5 DEF AssignStep

LEMMA EditStepIsCopied ==
    ASSUME NEW e \in Editors, RowInv, CopiesInv, EditStep(e) PROVE CopiesInv'
<1> DEFINE d == Total(delivered)
<1>1. /\ test \in Row /\ CopyOf(test, d) /\ (~clobbered => test.tally = d)
      /\ editor \in [Editors -> {NoEdit} \union [op : Ops, row : Row]]
  BY DEF RowInv, TypeOK, CopiesInv
<1>2. UNCHANGED <<delivered, assign>>
  BY DEF EditStep, BeginPageOp, BeginArtifacts, BeginBenchError, SaveEdit
<1>3. CASE SaveEdit(e)
  <2>1. editor[e].op \in Ops /\ editor[e].row \in Row /\ CopyOf(editor[e].row, d)
    BY <1>1, <1>3 DEF SaveEdit, CopiesInv
  <2>2. CopyOf(Edited(editor[e].op, editor[e].row), d)
        /\ Edited(editor[e].op, editor[e].row).tally = editor[e].row.tally
    <3> HIDE DEF d
    <3> QED BY <2>1, EditedIsCopy
  <2>3. \A f \in Editors : editor'[f] = editor[f] \/ editor'[f] = NoEdit
    BY <1>1, <1>3 DEF SaveEdit
  <2>4. /\ test' = Edited(editor[e].op, editor[e].row)
        /\ clobbered' = (clobbered \/ editor[e].row # test)
    BY <1>3 DEF SaveEdit
  <2>5. ~clobbered' => test'.tally = d
    BY <1>1, <2>2, <2>4
  <2> HIDE DEF d
  <2> QED BY <1>2, <2>2, <2>3, <2>4, <2>5, RowStepIsCopied DEF d
<1>4. CASE ~SaveEdit(e)
  <2>1. UNCHANGED <<test, clobbered>>
    BY <1>4 DEF EditStep, BeginPageOp, BeginArtifacts, BeginBenchError
  <2>2. \E op \in Ops : BeginEdit(e, op)
    BY <1>4 DEF EditStep, BeginPageOp, BeginArtifacts, BeginBenchError, BeginEdit
  <2>3. \A f \in Editors : editor'[f] = editor[f] \/ editor'[f].row = test
    BY <1>1, <2>2 DEF BeginEdit
  <2> HIDE DEF d
  <2> QED BY <1>1, <1>2, <2>1, <2>3, RowStepIsCopied DEF d
<1> QED BY <1>3, <1>4

LEMMA CopiesInvNext ==
    ASSUME RowInv, ReportInv, CopiesInv, [Next]_vars PROVE CopiesInv'
<1> DEFINE d == Total(delivered)
<1>1. /\ test \in Row /\ CopyOf(test, d) /\ (~clobbered => test.tally = d)
      /\ assign \in [Workers -> {NoAssignment} \union Assignment]
  BY DEF RowInv, TypeOK, CopiesInv
<1>2. ASSUME NEW w \in Workers, SelectTest(w) PROVE CopiesInv'
  <2>1. UNCHANGED <<test, delivered, editor, clobbered>>
    BY <1>2 DEF SelectTest
  <2>2. \A v \in Workers : assign'[v] = assign[v] \/ assign'[v].row = test
    BY <1>1, <1>2 DEF SelectTest
  <2> HIDE DEF d
  <2> QED BY <1>1, <2>1, <2>2, RowStepIsCopied DEF d
<1>3. ASSUME UNCHANGED <<test, delivered, editor, clobbered>>,
             \A v \in Workers : assign'[v] = assign[v] \/ assign'[v] = NoAssignment
      PROVE  CopiesInv'
  <2> HIDE DEF d
  <2> QED BY <1>1, <1>3, RowStepIsCopied DEF d
<1>4. ASSUME NEW w \in Workers, WorkerStep(w), ~SelectTest(w) PROVE CopiesInv'
  <2>1. UNCHANGED <<test, delivered, editor, clobbered, assign>>
    BY <1>4 DEF WorkerStep, FinishPair, Collect, SendReport, SendFinalReport, Report,
                FinishWorkload, HeartbeatStop
  <2> QED BY <1>3, <2>1
<1>5. ASSUME NEW t \in Threads, ThreadStep(t), ~CommitReport(t) PROVE CopiesInv'
  <2>1. UNCHANGED <<test, delivered, editor, clobbered, assign>>
    BY <1>5 DEF ThreadStep, CreditResult, CreditProfile, Reply, EndThread
  <2> QED BY <1>3, <2>1
<1>6. CASE Fault
  <2>1. UNCHANGED <<test, delivered, editor, clobbered>>
    BY <1>6 DEF Fault, GiveUpAssignment, LoseFinalReport, Abort, GiveUpReport, FailThread
  <2>2. \A v \in Workers : assign'[v] = assign[v] \/ assign'[v] = NoAssignment
    BY <1>1, <1>6 DEF Fault, GiveUpAssignment, LoseFinalReport, Abort, GiveUpReport, FailThread
  <2> QED BY <1>3, <2>1, <2>2
<1>7. CASE UNCHANGED vars
  BY <1>3, <1>7 DEF vars
<1> QED BY <1>2, <1>4, <1>5, <1>6, <1>7, CommitIsCopied, AssignStepIsCopied,
           EditStepIsCopied DEF Next

-----------------------------------------------------------------------------
(***************************************************************************)
(* The invariant of the specification.                                     *)
(***************************************************************************)
LEMMA ReportInvInit == Init => ReportInv
<1> SUFFICES ASSUME Init PROVE ReportInv
    OBVIOUS
<1>1. \A w \in Workers : worker[w] = IdleWorker
  BY DEF Init
<1>2. \A t \in Threads : thread[t] = IdleThread
  BY DEF Init
<1>3. OneAwaited(thread) /\ \A t \in Threads : ReportOf(thread[t], worker)
  BY <1>2 DEF OneAwaited, Awaits, ReportOf
<1> QED BY <1>1, <1>3, IdleHoldsNothing DEF ReportInv, Reports

LEMMA DeliveredInvInit == Init => DeliveredInv
<1> SUFFICES ASSUME Init PROVE DeliveredInv
    OBVIOUS
<1>1. SUFFICES ASSUME NEW w \in Workers
               PROVE  Kept(failures, played[w],
                           Accounted(delivered[w], dropped[w], worker[w],
                                     Unsent(thread, worker[w], w)))
      BY DEF DeliveredInv
<1>2. /\ played[w] = NoGames /\ delivered[w] = NoGames /\ dropped[w] = NoGames
      /\ worker[w].queue = NoGames /\ worker[w].pending = NoGames
  BY DEF Init, IdleWorker
<1>3. Unsent(thread, worker[w], w) = NoGames
  BY <1>2 DEF Unsent
<1>4. Plus(NoGames, NoGames) = NoGames /\ AtMost(NoGames, NoGames)
  BY DEF Plus, NoGames, AtMost
<1> QED BY <1>2, <1>3, <1>4 DEF Kept, Accounted

LEMMA CreditedOnceInit == Init => CreditedOnce
BY DEF Init, CreditedOnce, IdleThread, NoAssignment

LEMMA CreditInvInit == Init => CreditInv
<1> SUFFICES ASSUME Init PROVE CreditInv
    OBVIOUS
<1>1. /\ thread \in [Threads -> {IdleThread} \union Busy] /\ delivered \in [Workers -> Tally]
      /\ \A t \in Threads : thread[t].pc = "idle"
      /\ \A w \in Workers : /\ result[w] = NoGames /\ delivered[w] = NoGames
                            /\ assign[w].pc = "none"
      /\ profile = 0
  BY NoGamesType DEF Init, IdleThread, NoAssignment
<1>2. \A w \in Workers : Total(Owed(thread, w)) = NoGames
  <2> SUFFICES ASSUME NEW w \in Workers PROVE Total(Owed(thread, w)) = NoGames
      OBVIOUS
  <2>1. Owed(thread, w) \in [Threads -> Tally] /\ \A t \in Threads : Owed(thread, w)[t] = NoGames
    BY <1>1, NoGamesType DEF Owed, Commits
  <2> QED BY <2>1, TotalOfNothing, ResultsAssumption
<1>3. Total(OwedToProfile(thread)) = NoGames
  <2>1. /\ OwedToProfile(thread) \in [Threads -> Tally]
        /\ \A t \in Threads : OwedToProfile(thread)[t] = NoGames
    BY <1>1, NoGamesType DEF OwedToProfile
  <2> QED BY <2>1, TotalOfNothing, ResultsAssumption
<1>4. Total(delivered) = NoGames
  BY <1>1, TotalOfNothing, ResultsAssumption
<1>5. /\ Plus(NoGames, NoGames) = NoGames /\ AtMost(NoGames, NoGames)
      /\ NoGames["games"] = 0
  BY DEF Plus, NoGames, AtMost, Columns
<1> QED BY <1>1, <1>2, <1>3, <1>4, <1>5 DEF CreditInv

LEMMA CopiesInvInit == Init => CopiesInv
<1> SUFFICES ASSUME Init PROVE CopiesInv
    OBVIOUS
<1>1. delivered \in [Workers -> Tally] /\ \A w \in Workers : delivered[w] = NoGames
  BY NoGamesType DEF Init
<1>2. Total(delivered) = NoGames
  BY <1>1, TotalOfNothing, ResultsAssumption
<1>3. CopyOf(test, NoGames) /\ test.tally = NoGames
  BY NewRowIsCopy, ResultsAssumption DEF Init
<1>4. /\ \A w \in Workers : assign[w] = NoAssignment
      /\ \A e \in Editors : editor[e] = NoEdit
  BY DEF Init
<1> QED BY <1>2, <1>3, <1>4 DEF CopiesInv

\* The parts hold together: each is kept by the help of those before it.
THEOREM DeliveryInvariant == Spec => [](RowInv /\ DeliveryInv)
<1>1. Init => RowInv /\ DeliveryInv
  BY RowInvInit, ReportInvInit, DeliveredInvInit, CreditedOnceInit, CreditInvInit,
     CopiesInvInit DEF DeliveryInv
<1>2. RowInv /\ DeliveryInv /\ [Next]_vars => (RowInv /\ DeliveryInv)'
  BY RowInvNext, ReportInvNext, DeliveredInvNext, CreditedOnceNext, CreditInvNext,
     CopiesInvNext DEF DeliveryInv
<1> QED BY <1>1, <1>2, PTL DEF Spec

-----------------------------------------------------------------------------
(***************************************************************************)
(* What follows from it.                                                   *)
(***************************************************************************)
\* In every state, each pair that a worker finished is in its queue, or pending,
\* or was added to the Test row, or was given up: ResultsReporter forgets what is
\* pending only when an answer says that the server took it, or wants no more.
THEOREM NoPairIsLost == Spec => []DeliveredAtLeastOnce
<1>1. RowInv /\ DeliveryInv => DeliveredAtLeastOnce
  <2> SUFFICES ASSUME RowInv, DeliveryInv, NEW w \in Workers
               PROVE  AtMost(played[w], Plus(Plus(delivered[w], dropped[w]),
                                             Plus(worker[w].queue, worker[w].pending)))
      BY DEF DeliveredAtLeastOnce
  <2> DEFINE n == Unsent(thread, worker[w], w)
  <2>1. /\ played[w] \in Tally /\ delivered[w] \in Tally /\ dropped[w] \in Tally
        /\ worker[w].queue \in Tally /\ worker[w].pending \in Tally
    BY DEF RowInv, TypeOK, Worker
  <2>2. n \in Tally /\ AtMost(n, worker[w].pending)
    BY <2>1, NoGamesType DEF Unsent, AtMost, NoGames, Tally
  <2>3. AtMost(played[w], Plus(Plus(delivered[w], dropped[w]), Plus(worker[w].queue, n)))
    BY DEF DeliveryInv, DeliveredInv, Kept, Accounted
  <2> HIDE DEF n
  <2> SUFFICES ASSUME NEW c \in Columns
               PROVE  played[w][c] <= Plus(Plus(delivered[w], dropped[w]),
                                           Plus(worker[w].queue, worker[w].pending))[c]
      BY DEF AtMost
  <2>4. /\ delivered[w][c] \in Nat /\ dropped[w][c] \in Nat /\ worker[w].queue[c] \in Nat
        /\ worker[w].pending[c] \in Nat /\ n[c] \in Nat /\ played[w][c] \in Nat
    BY <2>1, <2>2, TallyShape
  <2>5. played[w][c] <= (delivered[w][c] + dropped[w][c]) + (worker[w].queue[c] + n[c])
    BY <2>3 DEF AtMost, Plus
  <2>6. n[c] <= worker[w].pending[c]
    BY <2>2 DEF AtMost
  <2>7. Plus(Plus(delivered[w], dropped[w]), Plus(worker[w].queue, worker[w].pending))[c]
        = (delivered[w][c] + dropped[w][c]) + (worker[w].queue[c] + worker[w].pending[c])
    BY DEF Plus
  <2> QED BY <2>4, <2>5, <2>6, <2>7
<1> QED BY <1>1, DeliveryInvariant, PTL

\* As long as nothing failed, each pair was added to the Test row once, and to
\* the Result row once when no report of the worker is under way: no report is
\* sent again after it was added, and none is credited twice.
THEOREM NoPairCountsTwice == Spec => []ExactlyOnceWithoutFailure
<1>1. RowInv /\ DeliveryInv => ExactlyOnceWithoutFailure
  <2> SUFFICES ASSUME RowInv, DeliveryInv, failures = 0, NEW w \in Workers
               PROVE  LET settled == \E t \in InFlight(w) : thread[t].added
                          unsent  == Plus(worker[w].queue,
                                          IF settled THEN NoGames ELSE worker[w].pending)
                      IN  /\ played[w] = Plus(Plus(delivered[w], dropped[w]), unsent)
                          /\ InFlight(w) = {} => result[w] = delivered[w]
      BY DEF ExactlyOnceWithoutFailure
  <2>1. \A t \in Threads : thread[t] # IdleThread => thread[t].awaited
    BY DEF DeliveryInv, CreditedOnce
  <2>2. (\E t \in InFlight(w) : thread[t].added) <=> Settled(thread, w)
    BY <2>1 DEF InFlight, Settled, AwaitsFrom, Awaits
  <2>3. played[w] = Plus(Plus(delivered[w], dropped[w]),
                         Plus(worker[w].queue,
                              IF Settled(thread, w) THEN NoGames ELSE worker[w].pending))
    BY DEF DeliveryInv, DeliveredInv, Kept, Accounted, Unsent
  <2>4. ASSUME InFlight(w) = {} PROVE result[w] = delivered[w]
    <3>1. \A t \in Threads : ~Commits(thread[t], w)
      BY <2>4 DEF InFlight, Commits, IdleThread
    <3> QED BY <3>1 DEF DeliveryInv, CreditedOnce
  <2> QED BY <2>2, <2>3, <2>4
<1> QED BY <1>1, DeliveryInvariant, PTL

\* The Test row never counts more than the reports it was given, and counts all
\* of them unless some handler saved a whole row over a newer one; without a
\* failed call it is then the sum of the Result rows, once every thread that
\* committed a report has credited it.
THEOREM TestNeverOvercounts == Spec => []TestCountsReports
<1>1. RowInv /\ DeliveryInv => TestCountsReports
  <2> SUFFICES ASSUME RowInv, DeliveryInv PROVE TestCountsReports
      OBVIOUS
  <2>1. /\ AtMost(test.tally, Total(delivered))
        /\ ~clobbered => test.tally = Total(delivered)
    BY DEF DeliveryInv, CopiesInv, CopyOf
  <2>2. ASSUME failures = 0, \A t \in Threads : thread[t].pc # "committed"
        PROVE  result = delivered
    <3>1. \A w \in Workers : result[w] = delivered[w]
      BY <2>2 DEF DeliveryInv, CreditedOnce, Commits
    <3>2. result \in [Workers -> Tally] /\ delivered \in [Workers -> Tally]
      BY DEF RowInv, TypeOK
    <3> QED BY <3>1, <3>2
  <2> QED BY <2>1, <2>2 DEF TestCountsReports
<1> QED BY <1>1, DeliveryInvariant, PTL

\* No Result row and no Profile is ever ahead of the Test row's reports, although
\* get_workload writes back copies of Result rows and threads die between the
\* statements that follow the transaction.
THEOREM CreditsNeverLead == Spec => []CreditFollowsCommit
<1>1. RowInv /\ DeliveryInv => CreditFollowsCommit
  <2> SUFFICES ASSUME RowInv, DeliveryInv PROVE CreditFollowsCommit
      OBVIOUS
  <2>1. thread \in [Threads -> {IdleThread} \union Busy] /\ TypeOK
    BY DEF RowInv, TypeOK
  <2>2. ASSUME NEW w \in Workers PROVE AtMost(result[w], delivered[w])
    <3> DEFINE o == Total(Owed(thread, w))
    <3>1. /\ o \in Tally /\ AtMost(Plus(result[w], o), delivered[w])
          /\ result[w] \in Tally /\ delivered[w] \in Tally
      BY <2>1, OwedTypes DEF TypeOK, DeliveryInv, CreditInv
    <3> HIDE DEF o
    <3> QED BY <3>1 DEF AtMost, Plus, Tally
  <2>3. profile <= Total(delivered)["games"]
    <3> DEFINE g == Total(OwedToProfile(thread))["games"]
               d == Total(delivered)["games"]
    <3>1. g \in Nat /\ d \in Nat /\ profile \in Nat
      BY <2>1, OwedTypes, DeliveredTotal, TallyShape DEF TypeOK
    <3>2. profile + g <= d
      BY DEF DeliveryInv, CreditInv
    <3> HIDE DEF g, d
    <3>3. profile <= d
      BY <3>1, <3>2
    <3> QED BY <3>3 DEF d
  <2> QED BY <2>2, <2>3 DEF CreditFollowsCommit
<1> QED BY <1>1, DeliveryInvariant, PTL

\* A GAMES or DATAGEN test overruns its limit by less than one report, however
\* many workers play it: the transaction finishes the test at the limit, and the
\* reports that come later find it closed.
THEOREM OverrunIsOneReport == Spec => []OverrunBounded
<1>1. RowInv /\ DeliveryInv => OverrunBounded
  BY DEF DeliveryInv, CopiesInv, CopyOf, Limited, OverrunBounded
<1> QED BY <1>1, DeliveryInvariant, PTL
=============================================================================
