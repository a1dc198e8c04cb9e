----------------------------- MODULE SpsaProofs -----------------------------
(***************************************************************************)
(* That the progress of a tuning was really run, that it is credited, and  *)
(* that a tuning is only finished when its schedule is covered, for any    *)
(* machines and threads, expiries, failures and takeovers.                 *)
(*                                                                         *)
(* No invariant says who runs the tuning: two machines can.  What carries  *)
(* the argument is that every number of pairs that is on its way (in a     *)
(* report, in an assignment, in offsets.json with the pairs of a run       *)
(* directory) was run before it was written down.                          *)
(***************************************************************************)
EXTENDS Spsa, FiniteSetTheorems, WellFoundedInduction, TLAPS

-----------------------------------------------------------------------------
(* Induction over the subsets of a finite set, and over the numbers, with a set in the    *)
(* place of a predicate.                                                                  *)
LEMMA SubsetInduction ==
    ASSUME NEW S, IsFiniteSet(S), NEW G,
           \A T \in SUBSET S : (\A x \in T : T \ {x} \in G) => T \in G
    PROVE  SUBSET S \subseteq G
  <1> DEFINE R == StrictSubsetOrdering(S)
           Bad == (SUBSET S) \ G
  <1>1. IsWellFoundedOn(R, SUBSET S)
    BY FS_StrictSubsetOrderingWellFounded, FS_FiniteSubsetsOfFinite
  <1>2. ASSUME Bad # {} PROVE FALSE
    <2> HIDE DEF R
    <2>1. PICK T \in Bad : \A U \in Bad : ~(<<U, T>> \in R)
      <3>1. Bad \subseteq SUBSET S
        OBVIOUS
      <3> HIDE DEF Bad
      <3> QED BY <1>1, <1>2, <3>1, WFMin
    <2>2. \A x \in T : T \ {x} \in G
      <3> TAKE x \in T
      <3>1. <<T \ {x}, T>> \in R
        BY DEF R, StrictSubsetOrdering
      <3> QED BY <2>1, <3>1
    <2> QED BY <2>2
  <1> QED BY <1>2

LEMMA NumberInduction ==
    ASSUME NEW G, 0 \in G, \A n \in Nat : n \in G => n + 1 \in G
    PROVE  Nat \subseteq G
  <1> SUFFICES ASSUME NEW m \in Nat PROVE m \in G
      OBVIOUS
  <1> DEFINE H == { T \in SUBSET (1..m) : \A n \in 0..m : T = 1..n => n \in G }
  <1>1. \A T \in SUBSET (1..m) : (\A x \in T : T \ {x} \in H) => T \in H
    <2> SUFFICES ASSUME NEW T \in SUBSET (1..m), \A x \in T : T \ {x} \in H,
                      NEW n \in 0..m, T = 1..n
               PROVE  n \in G
      OBVIOUS
    <2>1. CASE n = 0
      BY <2>1
    <2>2. CASE n # 0
      <3>1. n - 1 \in 0..m /\ n \in T /\ T \ {n} = 1..(n - 1)
        BY <2>2
      <3>2. n - 1 \in G
        BY <3>1
      <3> QED BY <3>1, <3>2
    <2> QED BY <2>1, <2>2
  <1>2. IsFiniteSet(1..m)
    BY FS_Interval
  <1>3. SUBSET (1..m) \subseteq H
    <2> HIDE DEF H
    <2> QED BY <1>1, <1>2, SubsetInduction
  <1>4. 1..m \in H
    <2> HIDE DEF H
    <2> QED BY <1>3
  <1>5. m \in 0..m
    OBVIOUS
  <1> QED BY <1>4, <1>5

-----------------------------------------------------------------------------
(***************************************************************************)
(* Sums of a function over a finite set.  Iter is the recursive function   *)
(* that SumFunction is made of.                                            *)
(***************************************************************************)
Pick(s) == CHOOSE x \in s : TRUE
Summed(f, g, s) == IF s = {} THEN 0 ELSE f[Pick(s)] + g[s \ {Pick(s)}]
Iter(f, S) == CHOOSE g : g = [s \in SUBSET S |-> Summed(f, g, s)]

LEMMA SumIsIter == ASSUME NEW W, NEW f, DOMAIN f = W PROVE SumFunction(f) = Iter(f, W)[W]
  BY DEF SumFunction, SumFunctionOnSet, FoldFunctionOnSet, MapThenFoldSet, Iter, Summed, Pick

\* The fold is defined: on the sets of up to n elements, for every n.
LEMMA IterIsFold ==
    ASSUME NEW S, IsFiniteSet(S), NEW f
    PROVE  Iter(f, S) = [s \in SUBSET S |-> Summed(f, Iter(f, S), s)]
<1> DEFINE Small(n) == { s \in SUBSET S : Cardinality(s) <= n }
           G == { n \in Nat : \E g : g = [s \in Small(n) |-> Summed(f, g, s)] }
<1>1. \A s \in SUBSET S : /\ IsFiniteSet(s) /\ Cardinality(s) \in Nat
                          /\ Cardinality(s) = 0 <=> s = {}
                          /\ Cardinality(s) <= Cardinality(S)
  BY FS_Subset, FS_CardinalityType, FS_EmptySet
<1>2. \A s \in SUBSET S : s # {} => /\ Pick(s) \in s
                                    /\ Cardinality(s \ {Pick(s)}) = Cardinality(s) - 1
  <2> SUFFICES ASSUME NEW s \in SUBSET S, s # {}
               PROVE  Pick(s) \in s /\ Cardinality(s \ {Pick(s)}) = Cardinality(s) - 1
    OBVIOUS
  <2>1. Pick(s) \in s
    BY DEF Pick
  <2> QED BY <1>1, <2>1, FS_RemoveElement
<1>3. 0 \in G
  <2> DEFINE g == [s \in Small(0) |-> 0]
  <2>1. \A s \in Small(0) : s = {}
    BY <1>1
  <2>2. \A h : [s \in Small(0) |-> Summed(f, h, s)] = g
    BY <2>1 DEF Summed
  <2> QED BY <2>2
<1>4. \A n \in Nat : n \in G => n + 1 \in G
  <2> SUFFICES ASSUME NEW n \in Nat, n \in G PROVE n + 1 \in G
    OBVIOUS
  <2>1. PICK g : g = [s \in Small(n) |-> Summed(f, g, s)]
    OBVIOUS
  <2> DEFINE h == [s \in Small(n + 1) |-> Summed(f, g, s)]
  <2>2. Small(n) \subseteq Small(n + 1)
    BY <1>1
  <2>3. \A s \in Small(n) : h[s] = g[s]
    BY <2>1, <2>2
  <2>4. \A s \in Small(n + 1) : s # {} => s \ {Pick(s)} \in Small(n)
    BY <1>1, <1>2
  <2>5. \A s \in Small(n + 1) : Summed(f, h, s) = Summed(f, g, s)
    <3> SUFFICES ASSUME NEW s \in Small(n + 1) PROVE Summed(f, h, s) = Summed(f, g, s)
      OBVIOUS
    <3>1. s # {} => h[s \ {Pick(s)}] = g[s \ {Pick(s)}]
      BY <2>3, <2>4
    <3> HIDE DEF h, Small
    <3> QED BY <3>1 DEF Summed
  <2>6. h = [s \in Small(n + 1) |-> Summed(f, h, s)]
    BY <2>5
  <2> HIDE DEF h, Small
  <2> QED BY <2>6
<1>5. Cardinality(S) \in G
  <2> HIDE DEF G
  <2> QED BY <1>1, <1>3, <1>4, NumberInduction
<1>6. Small(Cardinality(S)) = SUBSET S
  BY <1>1
<1>7. \E g : g = [s \in SUBSET S |-> Summed(f, g, s)]
  BY <1>5, <1>6
<1> QED BY <1>7 DEF Iter

LEMMA IterStep ==
    ASSUME NEW S, IsFiniteSet(S), NEW f, NEW T \in SUBSET S
    PROVE  /\ T = {} => Iter(f, S)[T] = 0
           /\ T # {} => /\ Pick(T) \in T
                        /\ Iter(f, S)[T] = f[Pick(T)] + Iter(f, S)[T \ {Pick(T)}]
<1>1. \A g : g = [s \in SUBSET S |-> Summed(f, g, s)] => g[T] = Summed(f, g, T)
  OBVIOUS
<1>2. Iter(f, S)[T] = Summed(f, Iter(f, S), T)
  BY <1>1, IterIsFold
<1> QED BY <1>2 DEF Summed, Pick


LEMMA SumType ==
    ASSUME NEW S, IsFiniteSet(S), NEW f \in [S -> Nat]
    PROVE  /\ \A T \in SUBSET S : Iter(f, S)[T] \in Nat
           /\ SumFunction(f) \in Nat
  <1> DEFINE G == {T \in SUBSET S : Iter(f, S)[T] \in Nat}
  <1>1. \A T \in SUBSET S : (\A x \in T : T \ {x} \in G) => T \in G
    <2> SUFFICES ASSUME NEW T \in SUBSET S, \A x \in T : T \ {x} \in G
                 PROVE  Iter(f, S)[T] \in Nat
      OBVIOUS
    <2>1. CASE T = {}
      <3>1. Iter(f, S)[T] = 0
        <4> HIDE DEF G
        <4> QED BY <2>1, IterStep, Zenon
      <3> QED BY <3>1
    <2>2. CASE T # {}
      <3>1. Pick(T) \in T /\ Iter(f, S)[T] = f[Pick(T)] + Iter(f, S)[T \ {Pick(T)}]
        <4> HIDE DEF G
        <4> QED BY <2>2, IterStep, Zenon
      <3>2. f[Pick(T)] \in Nat /\ Iter(f, S)[T \ {Pick(T)}] \in Nat
        BY <3>1
      <3> QED BY <3>1, <3>2
    <2> QED BY <2>1, <2>2
  <1> HIDE DEF G
  <1>2. SUBSET S \subseteq G
    BY <1>1, SubsetInduction
  <1>3. S \in G /\ SumFunction(f) = Iter(f, S)[S]
    BY <1>2, SumIsIter
  <1> QED BY <1>2, <1>3 DEF G

\* What is added to one is added to the sum.
LEMMA SumChange ==
    ASSUME NEW S, IsFiniteSet(S), NEW f \in [S -> Nat], NEW g \in [S -> Nat],
           NEW w \in S, \A x \in S \ {w} : g[x] = f[x]
    PROVE  SumFunction(g) + f[w] = SumFunction(f) + g[w]
  <1> DEFINE G == {T \in SUBSET S :
                      IF w \in T THEN Iter(g, S)[T] + f[w] = Iter(f, S)[T] + g[w]
                                 ELSE Iter(g, S)[T] = Iter(f, S)[T]}
  <1>1. \A T \in SUBSET S : (\A x \in T : T \ {x} \in G) => T \in G
    <2> SUFFICES ASSUME NEW T \in SUBSET S, \A x \in T : T \ {x} \in G
                 PROVE  T \in G
      OBVIOUS
    <2>1. CASE T = {}
      BY <2>1, IterStep
    <2>2. CASE T # {}
      <3>1. /\ Pick(T) \in T /\ Iter(f, S)[T] = f[Pick(T)] + Iter(f, S)[T \ {Pick(T)}]
            /\ Iter(g, S)[T] = g[Pick(T)] + Iter(g, S)[T \ {Pick(T)}]
        <4> HIDE DEF G
        <4> QED BY <2>2, IterStep, Zenon
      <3>2. Iter(f, S)[T \ {Pick(T)}] \in Nat /\ Iter(g, S)[T \ {Pick(T)}] \in Nat
        BY SumType
      <3>3. T \ {Pick(T)} \in G
        BY <3>1
      <3>4. CASE Pick(T) = w
        BY <3>1, <3>2, <3>3, <3>4
      <3>5. CASE Pick(T) # w
        BY <3>1, <3>2, <3>3, <3>5
      <3> QED BY <3>4, <3>5
    <2> QED BY <2>1, <2>2
  <1> HIDE DEF G
  <1>2. SUBSET S \subseteq G
    BY <1>1, SubsetInduction
  <1>3. Iter(g, S)[S] + f[w] = Iter(f, S)[S] + g[w]
    BY <1>2 DEF G
  <1>4. SumFunction(f) = Iter(f, S)[S] /\ SumFunction(g) = Iter(g, S)[S]
    BY SumIsIter
  <1> QED BY <1>3, <1>4

\* No number is larger than a sum that it is in; a sum of noughts is nought.
LEMMA SumHasEach ==
    ASSUME NEW S, IsFiniteSet(S), NEW f \in [S -> Nat]
    PROVE  /\ \A w \in S : f[w] <= SumFunction(f)
           /\ (\A w \in S : f[w] = 0) => SumFunction(f) = 0
  <1> DEFINE G == {T \in SUBSET S : /\ \A w \in T : f[w] <= Iter(f, S)[T]
                                    /\ (\A w \in T : f[w] = 0) => Iter(f, S)[T] = 0}
  <1>1. \A T \in SUBSET S : (\A x \in T : T \ {x} \in G) => T \in G
    <2> SUFFICES ASSUME NEW T \in SUBSET S, \A x \in T : T \ {x} \in G
                 PROVE  T \in G
      OBVIOUS
    <2>1. CASE T = {}
      BY <2>1, IterStep
    <2>2. CASE T # {}
      <3>1. Pick(T) \in T /\ Iter(f, S)[T] = f[Pick(T)] + Iter(f, S)[T \ {Pick(T)}]
        <4> HIDE DEF G
        <4> QED BY <2>2, IterStep, Zenon
      <3>2. Iter(f, S)[T \ {Pick(T)}] \in Nat
        BY SumType
      <3>3. T \ {Pick(T)} \in G
        BY <3>1
      <3> QED BY <3>1, <3>2, <3>3
    <2> QED BY <2>1, <2>2
  <1> HIDE DEF G
  <1>2. SUBSET S \subseteq G
    BY <1>1, SubsetInduction
  <1>3. S \in G /\ SumFunction(f) = Iter(f, S)[S]
    BY <1>2, SumIsIter
  <1> QED BY <1>2, <1>3 DEF G

-----------------------------------------------------------------------------
(***************************************************************************)
(* The invariant.                                                          *)
(***************************************************************************)
\* A machine waits for one answer at a time, and for nothing else meanwhile.
Asking == {"reporting", "closing", "stopping"}
Awaited(t) == thread[t] # NoReport /\ thread[t].awaited

OneQuestion ==
    /\ \A t \in Threads : Awaited(t) => worker[thread[t].from].pc \in Asking
    /\ \A t, u \in Threads : Awaited(t) /\ Awaited(u) /\ thread[t].from = thread[u].from => t = u

\* Every number of pairs that is written down or on its way was run before.
AllIsReal ==
    /\ test.pairs <= Ran
    /\ \A m \in Machines : /\ worker[m].carry <= Ran
                           /\ dir[m].base + dir[m].done <= Ran
                           /\ assign[m] # NoAssignment => assign[m].carry <= Ran
    /\ \A t \in Threads : thread[t] # NoReport => thread[t].pairs <= Ran

\* A run, with the offsets it was launched with, covers the schedule at its end;
\* what is final has come to that end.
SchedulesAreCovered ==
    /\ \A m \in Machines : /\ proc[m] \/ dir[m].meta => dir[m].base + dir[m].total >= TotalPairs
                           /\ dir[m].final => dir[m].base + dir[m].done >= TotalPairs
    /\ \A t \in Threads : thread[t] # NoReport /\ thread[t].final => thread[t].pairs >= TotalPairs

\* Only a report whose pairs are in the Test row and not in a Result row has any due.
DueIsCommitted ==
    \A t \in Threads : thread[t] # NoReport /\ thread[t].pc # "committed" => thread[t].delta = 0

-----------------------------------------------------------------------------
(* Types, and one question at a time.                                       *)

TypesAndQuestions == TypeOK /\ OneQuestion

LEMMA TypesStart == Init => TypesAndQuestions
  BY SpsaAssumption
     DEF Init, TypesAndQuestions, TypeOK, OneQuestion, Awaited, Test, Row, Worker, Run, Idle, NoRun,
         NoAssignment, NoReport

\* What a thread handles is a report, and what it may not touch is the rest.
LEMMA ReportType ==
    ASSUME TypeOK, NEW t \in Threads, thread[t].pc # "idle"
    PROVE  thread[t] \in Report /\ thread[t] # NoReport /\ thread[t].from \in Machines
  BY DEF TypeOK, NoReport, Report

LEMMA IdleType ==
    ASSUME TypeOK, NEW t \in Threads
    PROVE  thread[t] # NoReport <=> thread[t].pc # "idle"
  BY DEF TypeOK, NoReport, Report

LEMMA TakeoverType ==
    ASSUME NEW c \in Nat
    PROVE  LET run == Takeover(c, TotalPairs - c)
           IN  /\ run \in Run
               /\ run.base = c /\ run.done = 0 /\ ~run.meta /\ ~run.final
               /\ run.base + run.total >= TotalPairs
  <1> DEFINE n == IF TotalPairs - c > 1 THEN TotalPairs - c ELSE 1
             r == [NoRun EXCEPT !.base = c]
             run == [r EXCEPT !.total = n]
  <1>1. n \in Nat /\ c + n >= TotalPairs
    BY SpsaAssumption
  <1>2. r \in Run /\ r.base = c /\ r.done = 0 /\ ~r.meta /\ ~r.final
    BY DEF NoRun, Run
  <1>3. run = Takeover(c, TotalPairs - c)
    BY DEF Takeover
  <1>4. /\ run \in Run /\ run.total = n
        /\ run.base = c /\ run.done = 0 /\ ~run.meta /\ ~run.final
    <2> HIDE DEF n, r
    <2> QED BY <1>1, <1>2 DEF Run
  <1> HIDE DEF n, r, run
  <1> QED BY <1>1, <1>3, <1>4

LEMMA LaunchTypes ==
    ASSUME TypeOK, NEW m \in Machines, LaunchRun(m)
    PROVE  dir' \in [Machines -> Run] /\ proc' \in [Machines -> BOOLEAN]
  <1> DEFINE run == Takeover(worker[m].carry, TotalPairs - worker[m].carry)
  <1>1. worker[m].carry \in Nat /\ dir[m] \in Run
    BY DEF TypeOK, Worker
  <1>2. run \in Run
    BY <1>1, TakeoverType
  <1>3. \/ UNCHANGED <<dir, proc>>
        \/ dir' = [dir EXCEPT ![m] = dir[m]] /\ proc' = [proc EXCEPT ![m] = TRUE]
        \/ dir' = [dir EXCEPT ![m] = run] /\ proc' = [proc EXCEPT ![m] = TRUE]
    BY DEF LaunchRun, Started
  <1> HIDE DEF run
  <1> QED BY <1>1, <1>2, <1>3 DEF TypeOK

\* The machine's own steps.
LEMMA MachineTypes ==
    ASSUME TypesAndQuestions, NEW m \in Machines,
           \/ SelectWorkload(m) \/ HandOut(m) \/ GiveUpWorkload(m) \/ TakeOther(m) \/ Expire(m)
           \/ Launch(m) \/ RunPair(m) \/ EndRun(m) \/ KillRun(m) \/ Blacklist(m) \/ ExitFile(m)
    PROVE  TypesAndQuestions'
  <1> USE DEF TypesAndQuestions
  <1>1. thread' = thread
    BY DEF SelectWorkload, HandOut, GiveUpWorkload, TakeOther, Expire, Launch, RunPair, EndRun, KillRun,
           Blacklist, ExitFile, server, bounds
  <1>2. worker[m] \in Worker /\ row[m] \in Row /\ dir[m] \in Run /\ test \in Test
    BY DEF TypeOK
  <1>3. \/ worker' = worker
        \/ /\ worker[m].pc \notin Asking
           /\ \E w \in Worker : worker' = [worker EXCEPT ![m] = w]
    <2>1. CASE SelectWorkload(m)
      BY <1>2, <2>1 DEF SelectWorkload, Worker, TypeOK, Asking
    <2>2. CASE HandOut(m)
      <3> DEFINE w == [worker[m] EXCEPT !.pc = "building", !.carry = assign[m].carry]
      <3>1. assign[m].carry \in Nat
        BY <2>2 DEF HandOut, TypeOK
      <3>2. w \in Worker
        BY <1>2, <3>1 DEF Worker
      <3>3. CASE worker[m].pc = "waiting"
        <4>1. worker' = [worker EXCEPT ![m] = w]
          BY <2>2, <3>3 DEF HandOut, TypeOK
        <4> QED BY <3>2, <3>3, <4>1 DEF Asking
      <3> QED BY <2>2, <3>3 DEF HandOut
    <2>3. CASE GiveUpWorkload(m)
      BY <1>2, <2>3 DEF GiveUpWorkload, Worker, TypeOK, Asking
    <2>4. CASE Launch(m)
      <3> DEFINE w == [worker[m] EXCEPT !.pc = "monitoring", !.carry = 0]
      <3>1. w \in Worker /\ worker' = [worker EXCEPT ![m] = w]
        BY <1>2, <2>4 DEF Launch, Worker, TypeOK
      <3> QED BY <2>4, <3>1 DEF Launch, Asking
    <2>5. CASE Blacklist(m)
      BY <1>2, <2>5 DEF Blacklist, Worker, TypeOK, Asking, Idle
    <2>6. CASE ExitFile(m)
      BY <1>2, <2>6 DEF ExitFile, Worker, TypeOK, Asking
    <2> QED
      BY <2>1, <2>2, <2>3, <2>4, <2>5, <2>6 DEF TakeOther, Expire, RunPair, EndRun, KillRun
  <1>4. worker' \in [Machines -> Worker]
    BY <1>3 DEF TypeOK
  <1>5. OneQuestion'
    <2>1. \A t \in Threads : Awaited(t)' <=> Awaited(t)
      BY <1>1 DEF Awaited
    <2>2. \A t \in Threads : Awaited(t) => worker'[thread[t].from].pc \in Asking
      <3> SUFFICES ASSUME NEW t \in Threads, Awaited(t)
                   PROVE  worker'[thread[t].from].pc \in Asking
        OBVIOUS
      <3>1. thread[t].from \in Machines /\ worker[thread[t].from].pc \in Asking
        BY IdleType, ReportType DEF Awaited, OneQuestion
      <3> QED BY <1>3, <3>1 DEF TypeOK
    <2> QED BY <1>1, <2>1, <2>2 DEF OneQuestion
  <1>6. assign' \in [Machines -> {NoAssignment} \union [pc : {"selected"}, carry : Nat]]
    BY <1>2 DEF SelectWorkload, HandOut, GiveUpWorkload, TakeOther, Expire, Launch, RunPair, EndRun,
                KillRun, Blacklist, ExitFile, server, TypeOK, Test
  <1>7. row' \in [Machines -> Row]
    <2>1. CASE HandOut(m) \/ TakeOther(m)
      <3>1. \A b \in BOOLEAN : [workload |-> b, recent |-> TRUE] \in Row
        BY DEF Row
      <3> QED BY <2>1, <3>1 DEF HandOut, TakeOther, TypeOK
    <2>2. CASE Expire(m)
      <3> DEFINE r == [row[m] EXCEPT !.recent = FALSE]
      <3>1. r \in Row /\ row' = [row EXCEPT ![m] = r]
        BY <1>2, <2>2 DEF Expire, TypeOK, Row
      <3> HIDE DEF r
      <3> QED BY <3>1 DEF TypeOK
    <2> QED
      BY <2>1, <2>2 DEF SelectWorkload, GiveUpWorkload, Launch, RunPair, EndRun, KillRun, Blacklist,
                        ExitFile, server, TypeOK
  <1>8. dir' \in [Machines -> Run] /\ proc' \in [Machines -> BOOLEAN]
    <2>1. CASE Launch(m)
      BY <2>1, LaunchTypes DEF Launch
    <2>2. CASE RunPair(m)
      <3> DEFINE e == [dir[m] EXCEPT !.done = dir[m].done + 1]
                 d == [e EXCEPT !.meta = TRUE]
      <3>3. e \in Run
        BY <1>2 DEF Run
      <3>1. d \in Run
        <4> HIDE DEF e
        <4> QED BY <3>3 DEF Run
      <3>2. dir' = [dir EXCEPT ![m] = d] /\ proc' = proc
        BY <2>2 DEF RunPair, TypeOK
      <3> HIDE DEF d
      <3> QED BY <3>1, <3>2 DEF TypeOK
    <2>3. CASE EndRun(m)
      <3> DEFINE d == [dir[m] EXCEPT !.final = TRUE]
      <3>1. d \in Run
        BY <1>2 DEF Run
      <3>2. dir' = [dir EXCEPT ![m] = d] /\ proc' = [proc EXCEPT ![m] = FALSE]
        BY <2>3 DEF EndRun, TypeOK
      <3> HIDE DEF d
      <3> QED BY <3>1, <3>2 DEF TypeOK
    <2>4. CASE KillRun(m) \/ ExitFile(m)
      BY <2>4 DEF KillRun, ExitFile, TypeOK
    <2> QED
      BY <2>1, <2>2, <2>3, <2>4
         DEF SelectWorkload, HandOut, GiveUpWorkload, TakeOther, Expire, Blacklist, TypeOK
  <1>9. ran' \in [Machines -> Nat] /\ failures' \in Nat /\ expiries' \in Nat
    BY DEF SelectWorkload, HandOut, GiveUpWorkload, TakeOther, Expire, Launch, RunPair, EndRun, KillRun,
           Blacklist, ExitFile, bounds, Failure, TypeOK
  <1>10. UNCHANGED <<test, result, edits>>
    BY DEF SelectWorkload, HandOut, GiveUpWorkload, TakeOther, Expire, Launch, RunPair, EndRun, KillRun,
           Blacklist, ExitFile, server, bounds
  <1> QED BY <1>1, <1>4, <1>5, <1>6, <1>7, <1>8, <1>9, <1>10 DEF TypeOK

\* A machine that asks has no other question open.
LEMMA SendTypes ==
    ASSUME TypesAndQuestions, NEW m \in Machines, NEW t \in Threads,
           NEW final \in BOOLEAN, NEW next \in Asking,
           worker[m].pc \notin Asking, Send(m, t, final, next)
    PROVE  TypesAndQuestions'
  <1> USE DEF TypesAndQuestions
  <1> DEFINE r == [pc |-> "received", from |-> m, pairs |-> dir[m].base + dir[m].done,
                   final |-> final, delta |-> 0, stop |-> FALSE, awaited |-> TRUE]
             w == [worker[m] EXCEPT !.pc = next]
  <1>1. worker[m] \in Worker /\ dir[m] \in Run
    BY DEF TypeOK
  <1>2. r \in Report /\ w \in Worker /\ w.pc = next
    BY <1>1 DEF Report, Run, Worker, Asking
  <1>3. thread' = [thread EXCEPT ![t] = r] /\ worker' = [worker EXCEPT ![m] = w]
        /\ UNCHANGED <<test, result, row, assign, dir, proc, ran, expiries, failures, edits>>
    BY DEF Send, server, bounds, TypeOK
  <1>4. r.from = m
    OBVIOUS
  <1> HIDE DEF r, w
  <1>5. TypeOK'
    BY <1>2, <1>3 DEF TypeOK
  <1>6. \A u \in Threads : u # t => /\ Awaited(u)' <=> Awaited(u)
                                    /\ thread'[u] = thread[u]
    BY <1>3 DEF Awaited, TypeOK
  <1>7. thread'[t] = r /\ worker'[m] = w /\ \A o \in Machines \ {m} : worker'[o] = worker[o]
    BY <1>3 DEF TypeOK
  <1>8. \A u \in Threads : Awaited(u) => thread[u].from # m
    BY DEF OneQuestion
  <1>9. \A u \in Threads : Awaited(u) => thread[u].from \in Machines
    BY IdleType, ReportType DEF Awaited
  <1>10. OneQuestion'
    BY <1>2, <1>4, <1>6, <1>7, <1>8, <1>9 DEF OneQuestion
  <1> QED BY <1>5, <1>10

\* A thread at work on a report: it stays the same question, or it is answered.
LEMMA AnsweredTypes ==
    ASSUME TypesAndQuestions, NEW t \in Threads, thread[t] # NoReport,
           UNCHANGED <<dir, ran, expiries, edits, assign>>,
           test' \in Test, result' \in [Machines -> Nat], row' \in [Machines -> Row],
           proc' \in [Machines -> BOOLEAN], failures' \in Nat,
           NEW r \in Report \union {NoReport}, thread' = [thread EXCEPT ![t] = r],
           \/ worker' = worker /\ (r = NoReport \/ (r.from = thread[t].from /\ r.awaited = thread[t].awaited))
           \/ /\ Awaited(t) /\ (r = NoReport \/ ~r.awaited)
              /\ \E w \in Worker : worker' = [worker EXCEPT ![thread[t].from] = w]
    PROVE  TypesAndQuestions'
  <1> USE DEF TypesAndQuestions
  <1>1. TypeOK'
    BY DEF TypeOK
  <1>2. \A u \in Threads : u # t => thread'[u] = thread[u] /\ (Awaited(u)' <=> Awaited(u))
    BY DEF Awaited, TypeOK
  <1>3. thread'[t] = r
    BY DEF TypeOK
  <1>4. \A u \in Threads : Awaited(u) => thread[u].from \in Machines
    BY IdleType, ReportType DEF Awaited
  <1>5. CASE worker' = worker /\ (r = NoReport \/ (r.from = thread[t].from /\ r.awaited = thread[t].awaited))
    <2>1. Awaited(t)' => Awaited(t) /\ thread'[t].from = thread[t].from
      BY <1>3, <1>5 DEF Awaited
    <2> QED BY <1>1, <1>2, <1>5, <2>1 DEF OneQuestion
  <1>6. CASE /\ Awaited(t) /\ (r = NoReport \/ ~r.awaited)
             /\ \E w \in Worker : worker' = [worker EXCEPT ![thread[t].from] = w]
    <2>1. ~Awaited(t)'
      BY <1>3, <1>6 DEF Awaited
    <2>2. \A u \in Threads : Awaited(u) /\ u # t => worker'[thread[u].from] = worker[thread[u].from]
      BY <1>4, <1>6 DEF OneQuestion, TypeOK
    <2> QED BY <1>1, <1>2, <2>1, <2>2 DEF OneQuestion
  <1> QED BY <1>5, <1>6

\* No answer leaves the machine in its loop, or out of it.
LEMMA NoAnswerTypes ==
    ASSUME TypesAndQuestions, NEW t \in Threads, Awaited(t), NoAnswer(thread[t].from)
    PROVE  \E w \in Worker : worker' = [worker EXCEPT ![thread[t].from] = w]
  <1> DEFINE m == thread[t].from
  <1>1. m \in Machines /\ worker[m] \in Worker /\ worker[m].pc \in Asking
    BY IdleType, ReportType DEF Awaited, TypesAndQuestions, OneQuestion, TypeOK
  <1> HIDE DEF m
  <1>2. \A p \in {"monitoring", "idle"} : [worker[m] EXCEPT !.pc = p] \in Worker
    BY <1>1 DEF Worker
  <1>3. \E p \in {"monitoring", "idle"} : worker' = [worker EXCEPT ![m].pc = p]
    <2>1. worker[m].pc = "reporting" \/ worker[m].pc = "closing" \/ worker[m].pc = "stopping"
      BY <1>1 DEF Asking
    <2> QED BY <2>1 DEF NoAnswer, m
  <1>4. \E p \in {"monitoring", "idle"} : worker' = [worker EXCEPT ![m] = [worker[m] EXCEPT !.pc = p]]
    BY <1>1, <1>3 DEF TypesAndQuestions, TypeOK
  <1> QED BY <1>2, <1>4 DEF m

LEMMA CommitTypes ==
    ASSUME TypesAndQuestions, NEW t \in Threads, CommitSpsa(t)
    PROVE  TypesAndQuestions'
  <1> USE DEF TypesAndQuestions
  <1> DEFINE q == thread[t]
             delta == IF q.pairs > test.pairs THEN q.pairs - test.pairs ELSE 0
  <1>1. q \in Report /\ q # NoReport /\ test \in Test
    BY ReportType DEF CommitSpsa, TypeOK
  <1>2. UNCHANGED <<result, row, assign, worker, dir, proc, ran, expiries, failures, edits>>
    BY DEF CommitSpsa, bounds
  <1>3. result' \in [Machines -> Nat] /\ row' \in [Machines -> Row]
        /\ proc' \in [Machines -> BOOLEAN] /\ failures' \in Nat
    BY <1>2 DEF TypeOK
  <1>4. CASE test.finished
    <2> DEFINE r == [q EXCEPT !.pc = "handled", !.stop = TRUE]
    <2>1. thread' = [thread EXCEPT ![t] = r] /\ test' = test
      BY <1>4 DEF CommitSpsa, TypeOK
    <2>2. r \in Report /\ r.from = q.from /\ r.awaited = q.awaited
      <3> DEFINE e == [q EXCEPT !.pc = "handled"]
      <3>1. e \in Report /\ e.from = q.from /\ e.awaited = q.awaited
        BY <1>1 DEF Report
      <3>2. r = [e EXCEPT !.stop = TRUE]
        OBVIOUS
      <3> HIDE DEF e, r
      <3> QED BY <3>1, <3>2 DEF Report
    <2> HIDE DEF r
    <2> QED BY <1>1, <1>2, <1>3, <2>1, <2>2, AnsweredTypes
  <1>5. CASE ~test.finished
    <2> DEFINE e == [q EXCEPT !.pc = "committed"]
               f == [e EXCEPT !.delta = delta]
               r == [f EXCEPT !.stop = q.final]
               a == [test EXCEPT !.pairs = q.pairs]
               b == [a EXCEPT !.finished = q.final]
               c == [b EXCEPT !.passed = test.passed \/ q.final]
    <2>1. thread' = [thread EXCEPT ![t] = r]
      BY <1>5 DEF CommitSpsa, TypeOK
    <2>2. test' = c
      BY <1>5 DEF CommitSpsa
    <2>3. delta \in Nat
      BY <1>1 DEF Report, Test
    <2>4. e \in Report /\ e.from = q.from /\ e.awaited = q.awaited
      BY <1>1 DEF Report
    <2>5. f \in Report /\ f.from = q.from /\ f.awaited = q.awaited
      <3> HIDE DEF e, delta
      <3> QED BY <2>3, <2>4 DEF Report
    <2>6. r \in Report /\ r.from = q.from /\ r.awaited = q.awaited
      <3> HIDE DEF f
      <3> QED BY <1>1, <2>5 DEF Report
    <2>7. a \in Test
      BY <1>1 DEF Test, Report
    <2>8. b \in Test
      <3> HIDE DEF a
      <3> QED BY <1>1, <2>7 DEF Test, Report
    <2>9. c \in Test
      <3> HIDE DEF b
      <3> QED BY <1>1, <2>8 DEF Test, Report
    <2> HIDE DEF r, c
    <2> QED BY <1>1, <1>2, <1>3, <2>1, <2>2, <2>6, <2>9, AnsweredTypes
  <1> QED BY <1>4, <1>5

LEMMA CreditedType ==
    ASSUME NEW x \in Nat
    PROVE  /\ Min({x, MaxCredit}) \in Nat /\ Min({x, MaxCredit}) <= MaxCredit
           /\ Min({x, MaxCredit}) = x \/ (Min({x, MaxCredit}) = MaxCredit /\ MaxCredit <= x)
  <1>1. \E y \in {x, MaxCredit} : \A z \in {x, MaxCredit} : y <= z
    BY SpsaAssumption
  <1>2. Min({x, MaxCredit}) \in {x, MaxCredit} /\ \A z \in {x, MaxCredit} : Min({x, MaxCredit}) <= z
    BY <1>1 DEF Min
  <1> QED BY <1>2, SpsaAssumption

LEMMA CreditTypes ==
    ASSUME TypesAndQuestions, NEW t \in Threads, CreditSpsa(t)
    PROVE  TypesAndQuestions'
  <1> USE DEF TypesAndQuestions
  <1> DEFINE q == thread[t]
             e == [q EXCEPT !.pc = "handled"]
             r == [e EXCEPT !.delta = 0]
             w == [row[q.from] EXCEPT !.recent = TRUE]
  <1>1. q \in Report /\ q # NoReport /\ q.from \in Machines /\ q.delta \in Nat
    BY ReportType DEF CreditSpsa, Report
  <1>2. UNCHANGED <<test, assign, worker, dir, proc, ran, expiries, failures, edits>>
    BY DEF CreditSpsa, bounds
  <1>3. test' \in Test /\ proc' \in [Machines -> BOOLEAN] /\ failures' \in Nat
    BY <1>2 DEF TypeOK
  <1>4. thread' = [thread EXCEPT ![t] = r]
    BY DEF CreditSpsa, TypeOK
  <1>5. e \in Report /\ e.from = q.from /\ e.awaited = q.awaited
    BY <1>1 DEF Report
  <1>6. r \in Report /\ r.from = q.from /\ r.awaited = q.awaited
    <2> HIDE DEF e
    <2> QED BY <1>5 DEF Report
  <1>7. row' \in [Machines -> Row]
    <2>1. w \in Row /\ row' = [row EXCEPT ![q.from] = w]
      BY <1>1 DEF CreditSpsa, TypeOK, Row
    <2> HIDE DEF w
    <2> QED BY <2>1 DEF TypeOK
  <1>8. result' \in [Machines -> Nat]
    <2>1. result' = [result EXCEPT ![q.from] = Min({result[q.from] + q.delta, MaxCredit})]
      BY <1>1 DEF CreditSpsa, TypeOK
    <2>2. result[q.from] + q.delta \in Nat
      BY <1>1 DEF TypeOK
    <2>3. Min({result[q.from] + q.delta, MaxCredit}) \in Nat
      BY <2>2, CreditedType
    <2> QED BY <2>1, <2>3 DEF TypeOK
  <1> HIDE DEF r
  <1> QED BY <1>1, <1>2, <1>3, <1>4, <1>6, <1>7, <1>8, AnsweredTypes

LEMMA ReplyTypes ==
    ASSUME TypesAndQuestions, NEW t \in Threads,
           ReplySpsa(t) \/ GiveUpReport(t) \/ FailReport(t)
    PROVE  TypesAndQuestions'
  <1> USE DEF TypesAndQuestions
  <1> DEFINE q == thread[t]
             m == q.from
  <1>1. q \in Report /\ q # NoReport /\ m \in Machines
    BY ReportType, IdleType DEF ReplySpsa, GiveUpReport, FailReport
  <1>2. UNCHANGED <<test, result, row, assign, dir, ran, expiries, edits>>
    BY DEF ReplySpsa, GiveUpReport, FailReport, server
  <1>3. failures' \in Nat
    BY DEF ReplySpsa, GiveUpReport, FailReport, Failure, TypeOK
  <1>4. \A p \in BOOLEAN : [proc EXCEPT ![m] = p] \in [Machines -> BOOLEAN]
    BY DEF TypeOK
  <1>5. proc' \in [Machines -> BOOLEAN]
    BY <1>4 DEF ReplySpsa, GiveUpReport, FailReport, TypeOK
  <1>6. \E r \in Report \union {NoReport} :
           thread' = [thread EXCEPT ![t] = r] /\ (r = NoReport \/ (r.from = m /\ ~r.awaited))
    <2>1. CASE GiveUpReport(t)
      <3> DEFINE r == [q EXCEPT !.awaited = FALSE]
      <3>1. r \in Report /\ r.from = m /\ ~r.awaited
        BY <1>1 DEF Report
      <3>2. thread' = [thread EXCEPT ![t] = r]
        BY <2>1 DEF GiveUpReport, TypeOK
      <3> HIDE DEF r
      <3> QED BY <3>1, <3>2
    <2> QED BY <2>1 DEF ReplySpsa, FailReport
  <1>7. \/ worker' = worker /\ ~q.awaited
        \/ Awaited(t) /\ \E w \in Worker : worker' = [worker EXCEPT ![m] = w]
    <2>1. CASE ReplySpsa(t)
      <3>1. worker[m] \in Worker
        BY <1>1 DEF TypeOK
      <3>2. \A p \in {"idle", "monitoring", "stopped"} :
              /\ [worker[m] EXCEPT !.pc = p] \in Worker
              /\ [worker EXCEPT ![m].pc = p] = [worker EXCEPT ![m] = [worker[m] EXCEPT !.pc = p]]
        BY <1>1, <3>1 DEF Worker, TypeOK
      <3>3. \/ worker' = worker /\ ~q.awaited
            \/ q.awaited /\ \E p \in {"idle", "monitoring", "stopped"} : worker' = [worker EXCEPT ![m].pc = p]
        BY <2>1 DEF ReplySpsa
      <3> QED BY <1>1, <3>2, <3>3 DEF Awaited
    <2>2. CASE GiveUpReport(t)
      BY <1>1, <2>2, NoAnswerTypes DEF GiveUpReport, Awaited
    <2>3. CASE FailReport(t)
      BY <1>1, <2>3, NoAnswerTypes DEF FailReport, Awaited
    <2> QED BY <2>1, <2>2, <2>3
  <1>8. test' \in Test /\ result' \in [Machines -> Nat] /\ row' \in [Machines -> Row]
    BY <1>2 DEF TypeOK
  <1>9. PICK r \in Report \union {NoReport} :
           thread' = [thread EXCEPT ![t] = r] /\ (r = NoReport \/ (r.from = m /\ ~r.awaited))
    BY <1>6
  <1>10. CASE worker' = worker /\ ~q.awaited
    <2>1. r = NoReport \/ (r.from = thread[t].from /\ r.awaited = thread[t].awaited)
      BY <1>1, <1>9, <1>10 DEF Report
    <2> QED BY <1>1, <1>2, <1>3, <1>5, <1>8, <1>9, <1>10, <2>1, AnsweredTypes
  <1>11. CASE Awaited(t) /\ \E w \in Worker : worker' = [worker EXCEPT ![m] = w]
    BY <1>1, <1>2, <1>3, <1>5, <1>8, <1>9, <1>11, AnsweredTypes
  <1> QED BY <1>7, <1>10, <1>11

LEMMA RestartTypes ==
    ASSUME TypesAndQuestions, NEW m \in Machines, RestartWorker(m)
    PROVE  TypesAndQuestions'
  <1> USE DEF TypesAndQuestions
  <1>1. \A t \in Threads :
          /\ thread[t] # NoReport /\ thread[t].from = m =>
                /\ thread'[t] = [thread[t] EXCEPT !.awaited = FALSE]
                /\ thread'[t] \in Report /\ ~thread'[t].awaited
          /\ ~(thread[t] # NoReport /\ thread[t].from = m) => thread'[t] = thread[t]
    BY DEF RestartWorker, TypeOK, Report
  <1>2. thread' \in [Threads -> {NoReport} \union Report]
    <2>1. thread' = [t \in Threads |-> thread'[t]]
      BY DEF RestartWorker
    <2> QED BY <1>1, <2>1 DEF TypeOK
  <1>3. worker' = [worker EXCEPT ![m] = Idle] /\ Idle \in Worker
    BY DEF RestartWorker, Idle, Worker
  <1>4. TypeOK'
    BY <1>2, <1>3 DEF RestartWorker, Failure, server, TypeOK
  <1>5. \A t \in Threads : Awaited(t)' => Awaited(t) /\ thread'[t] = thread[t] /\ thread[t].from # m
    BY <1>1 DEF Awaited
  <1>6. \A t \in Threads : Awaited(t) => thread[t].from \in Machines
    BY IdleType, ReportType DEF Awaited
  <1>7. \A o \in Machines \ {m} : worker'[o] = worker[o]
    BY <1>3 DEF TypeOK
  <1> QED BY <1>4, <1>5, <1>6, <1>7 DEF OneQuestion

LEMMA TypesStep == TypesAndQuestions /\ [Next]_vars => TypesAndQuestions'
  <1> SUFFICES ASSUME TypesAndQuestions, [Next]_vars PROVE TypesAndQuestions'
    OBVIOUS
  <1>1. ASSUME NEW m \in Machines, MachineStep(m) PROVE TypesAndQuestions'
    <2>1. ASSUME NEW t \in Threads, SendProgress(m, t) \/ SendFinal(m, t) \/ SendStopped(m, t)
          PROVE  TypesAndQuestions'
      BY <2>1, SendTypes DEF SendProgress, SendFinal, SendStopped, Asking
    <2> QED BY <1>1, <2>1, MachineTypes DEF MachineStep
  <1>2. ASSUME NEW m \in Machines, TunerStep(m) \/ TakeOther(m) \/ Expire(m) PROVE TypesAndQuestions'
    BY <1>2, MachineTypes DEF TunerStep
  <1>3. ASSUME NEW t \in Threads, ThreadStep(t) PROVE TypesAndQuestions'
    BY <1>3, CommitTypes, CreditTypes, ReplyTypes DEF ThreadStep
  <1>4. CASE Fault
    BY <1>4, MachineTypes, RestartTypes, ReplyTypes DEF Fault
  <1>5. CASE StopOrRestart
    <2> DEFINE c == [test EXCEPT !.finished = ~test.finished]
    <2>1. c \in Test /\ test' = c
      BY <1>5 DEF StopOrRestart, TypesAndQuestions, TypeOK, Test
    <2> HIDE DEF c
    <2> QED BY <1>5, <2>1 DEF StopOrRestart, TypesAndQuestions, TypeOK, OneQuestion, Awaited
  <1>6. CASE UNCHANGED vars
    BY <1>6 DEF vars, TypesAndQuestions, TypeOK, OneQuestion, Awaited
  <1> QED BY <1>1, <1>2, <1>3, <1>4, <1>5, <1>6 DEF Next

LEMMA TypesAlways == Spec => []TypesAndQuestions
  BY TypesStart, TypesStep, PTL DEF Spec

\* The variables keep their types for any machines and threads; an answer that does
\* not come leaves a machine in a state of its loop (spsa_rshogi.py, monitor_spsa).
THEOREM TypesHold == Spec => []TypeOK
  BY TypesAlways, PTL DEF TypesAndQuestions

-----------------------------------------------------------------------------
(* What was run.                                                            *)

LEMMA RanType == ASSUME TypeOK PROVE Ran \in Nat
  BY SumType, SpsaAssumption DEF Ran, TypeOK

LEMMA RanGrows ==
    ASSUME TypeOK, NEW m \in Machines, RunPair(m)
    PROVE  Ran' = Ran + 1
  <1> DEFINE g == [ran EXCEPT ![m] = ran[m] + 1]
  <1>1. ran \in [Machines -> Nat] /\ ran' = g
    BY DEF RunPair, TypeOK
  <1>2. g \in [Machines -> Nat] /\ g[m] = ran[m] + 1 /\ \A x \in Machines \ {m} : g[x] = ran[x]
    BY <1>1
  <1> HIDE DEF g
  <1>3. SumFunction(g) + ran[m] = SumFunction(ran) + g[m]
    BY <1>1, <1>2, SumChange, SpsaAssumption
  <1>4. SumFunction(g) \in Nat /\ SumFunction(ran) \in Nat /\ ran[m] \in Nat
    BY <1>1, <1>2, SumType, SpsaAssumption
  <1>5. Ran = SumFunction(ran) /\ Ran' = SumFunction(g)
    BY <1>1 DEF Ran
  <1> QED BY <1>2, <1>3, <1>4, <1>5

LEMMA RanStays == ASSUME ran' = ran PROVE Ran' = Ran
  BY DEF Ran

\* Only the tuner itself adds to what was run.
LEMMA RanGrowsOrStays ==
    ASSUME TypeOK, [Next]_vars
    PROVE  Ran \in Nat /\ Ran' \in Nat /\ Ran <= Ran'
  <1>1. Ran \in Nat
    BY RanType
  <1>2. CASE \E m \in Machines : RunPair(m)
    BY <1>1, <1>2, RanGrows
  <1>3. CASE ~\E m \in Machines : RunPair(m)
    <2>1. ran' = ran
      BY <1>3 DEF Next, MachineStep, TunerStep, ThreadStep, Fault, SelectWorkload, HandOut, Launch, SendProgress,
             SendFinal, SendStopped, Send, Blacklist, EndRun, TakeOther, Expire, CommitSpsa, CreditSpsa,
             ReplySpsa, GiveUpWorkload, KillRun, ExitFile, RestartWorker, GiveUpReport, FailReport,
             StopOrRestart, vars
    <2> QED BY <1>1, <2>1, RanStays
  <1> QED BY <1>2, <1>3

RealRow == test.pairs <= Ran
RealMachine(m) == /\ worker[m].carry <= Ran
                  /\ dir[m].base + dir[m].done <= Ran
                  /\ assign[m] # NoAssignment => assign[m].carry <= Ran
RealReport(t) == thread[t] # NoReport => thread[t].pairs <= Ran

LEMMA RealParts ==
    AllIsReal <=> RealRow /\ (\A m \in Machines : RealMachine(m)) /\ (\A t \in Threads : RealReport(t))
  BY DEF AllIsReal, RealRow, RealMachine, RealReport

LEMMA RealStarts == Init => AllIsReal
  <1> SUFFICES ASSUME Init PROVE AllIsReal
    OBVIOUS
  <1>1. Ran \in Nat
    BY TypesStart, RanType DEF TypesAndQuestions
  <1> QED BY <1>1 DEF Init, AllIsReal, Idle, NoRun

\* Numbers: what a state's parts are, for the arithmetic.
LEMMA Numbers ==
    ASSUME TypeOK
    PROVE  /\ test.pairs \in Nat
           /\ \A m \in Machines : /\ worker[m].carry \in Nat /\ dir[m].base \in Nat /\ dir[m].done \in Nat
                                  /\ dir[m].total \in Nat
                                  /\ assign[m] # NoAssignment => assign[m].carry \in Nat
           /\ \A t \in Threads : thread[t] # NoReport => thread[t].pairs \in Nat /\ thread[t].delta \in Nat
  BY DEF TypeOK, Test, Worker, Run, Report

\* Where a machine's numbers come from.
LEMMA MachineSources ==
    ASSUME TypeOK, [Next]_vars, NEW m \in Machines
    PROVE  /\ worker'[m].carry \in {worker[m].carry, 0}
              \/ (assign[m] # NoAssignment /\ worker'[m].carry = assign[m].carry)
           /\ assign'[m] = assign[m] \/ assign'[m] = NoAssignment \/ assign'[m].carry = test.pairs
  <1>1. worker \in [Machines -> Worker] /\ DOMAIN assign = Machines
    BY DEF TypeOK
  <1>2. /\ worker'[m].carry \in {worker[m].carry, 0}
              \/ (assign[m] # NoAssignment /\ worker'[m].carry = assign[m].carry)
    <2>1. ASSUME NEW o \in Machines, NEW p, worker' = [worker EXCEPT ![o].pc = p]
          PROVE  worker'[m].carry = worker[m].carry
      BY <1>1, <2>1 DEF Worker
    <2>2. ASSUME NEW o \in Machines, HandOut(o) \/ Launch(o) \/ RestartWorker(o) \/ Blacklist(o)
          PROVE  /\ worker'[m].carry \in {worker[m].carry, 0}
                    \/ (assign[m] # NoAssignment /\ worker'[m].carry = assign[m].carry)
      <3>1. CASE m # o
        BY <1>1, <2>2, <3>1 DEF HandOut, Launch, RestartWorker, Blacklist
      <3>2. CASE m = o
        BY <1>1, <2>2, <3>2 DEF HandOut, Launch, RestartWorker, Blacklist, Idle, Worker
      <3> QED BY <3>1, <3>2
    <2>3. ASSUME NEW o \in Machines,
                 SelectWorkload(o) \/ GiveUpWorkload(o) \/ ExitFile(o)
                 \/ \E t \in Threads : SendProgress(o, t) \/ SendFinal(o, t) \/ SendStopped(o, t)
          PROVE  worker'[m].carry = worker[m].carry
      BY <2>1, <2>3 DEF SelectWorkload, GiveUpWorkload, ExitFile, SendProgress, SendFinal, SendStopped, Send
    <2>4. ASSUME NEW t \in Threads, ReplySpsa(t) \/ GiveUpReport(t) \/ FailReport(t)
          PROVE  worker'[m].carry = worker[m].carry
      <3>1. thread[t].from \in Machines
        BY <2>4, IdleType, ReportType DEF ReplySpsa, GiveUpReport, FailReport
      <3> QED BY <2>1, <2>4, <3>1 DEF ReplySpsa, GiveUpReport, FailReport, NoAnswer
    <2>5. CASE worker' = worker
      BY <2>5
    <2> QED
      BY <2>2, <2>3, <2>4, <2>5
         DEF Next, MachineStep, TunerStep, ThreadStep, Fault, TakeOther, Expire, RunPair, EndRun, KillRun,
             CommitSpsa, CreditSpsa, StopOrRestart, vars
  <1>3. assign'[m] = assign[m] \/ assign'[m] = NoAssignment \/ assign'[m].carry = test.pairs
    <2>1. ASSUME NEW o \in Machines, SelectWorkload(o) \/ HandOut(o)
          PROVE  assign'[m] = assign[m] \/ assign'[m] = NoAssignment \/ assign'[m].carry = test.pairs
      BY <1>1, <2>1 DEF SelectWorkload, HandOut
    <2>2. CASE assign' = assign
      BY <2>2
    <2> QED
      BY <2>1, <2>2
         DEF Next, MachineStep, TunerStep, ThreadStep, Fault, Launch, SendProgress, SendFinal, SendStopped, Send,
             Blacklist, RunPair, EndRun, TakeOther, Expire, CommitSpsa, CreditSpsa, ReplySpsa,
             GiveUpWorkload, KillRun, ExitFile, RestartWorker, GiveUpReport, FailReport, StopOrRestart,
             vars, server
  <1> QED BY <1>2, <1>3

\* What becomes of a run directory.
LEMMA RunSources ==
    ASSUME TypeOK, [Next]_vars, NEW m \in Machines
    PROVE  \/ dir'[m] = dir[m] /\ (proc'[m] => proc[m] \/ dir[m].meta)
           \/ /\ ~proc[m] /\ ~dir[m].meta
              /\ dir'[m] = Takeover(worker[m].carry, TotalPairs - worker[m].carry)
           \/ RunPair(m)
           \/ /\ EndRun(m)
              /\ dir'[m] = [dir[m] EXCEPT !.final = TRUE] /\ ~proc'[m]
  <1>1. DOMAIN dir = Machines /\ DOMAIN proc = Machines
    BY DEF TypeOK
  <1>2. ASSUME NEW o \in Machines, Launch(o)
        PROVE  \/ dir'[m] = dir[m] /\ (proc'[m] => proc[m] \/ dir[m].meta)
               \/ /\ ~proc[m] /\ ~dir[m].meta
                  /\ dir'[m] = Takeover(worker[m].carry, TotalPairs - worker[m].carry)
    BY <1>1, <1>2 DEF Launch, LaunchRun, Started
  <1>3. ASSUME NEW o \in Machines, o # m, RunPair(o) \/ EndRun(o)
        PROVE  dir'[m] = dir[m] /\ (proc'[m] => proc[m])
    BY <1>1, <1>3 DEF RunPair, EndRun
  <1>4. CASE EndRun(m)
    BY <1>1, <1>4 DEF EndRun
  <1>5. ASSUME NEW o \in Machines, KillRun(o) \/ ExitFile(o)
        PROVE  dir'[m] = dir[m] /\ (proc'[m] => proc[m])
    BY <1>1, <1>5 DEF KillRun, ExitFile
  <1>6. ASSUME NEW t \in Threads, ReplySpsa(t)
        PROVE  dir'[m] = dir[m] /\ (proc'[m] => proc[m])
    <2>1. thread[t].from \in Machines
      BY <1>6, ReportType DEF ReplySpsa
    <2> QED BY <1>1, <1>6, <2>1 DEF ReplySpsa
  <1>7. CASE UNCHANGED <<dir, proc>>
    BY <1>7
  <1> QED
    BY <1>2, <1>3, <1>4, <1>5, <1>6, <1>7
       DEF Next, MachineStep, TunerStep, ThreadStep, Fault, SelectWorkload, HandOut, SendProgress, SendFinal,
           SendStopped, Send, Blacklist, TakeOther, Expire, CommitSpsa, CreditSpsa, GiveUpWorkload,
           RestartWorker, GiveUpReport, FailReport, StopOrRestart, vars

\* What becomes of a report: a new one carries the numbers of its machine.
LEMMA ReportSources ==
    ASSUME TypeOK, [Next]_vars, NEW t \in Threads
    PROVE  \/ thread'[t] = NoReport
           \/ /\ thread[t] # NoReport
              /\ thread'[t].pairs = thread[t].pairs /\ thread'[t].final = thread[t].final
           \/ \E m \in Machines : /\ thread'[t].pairs = dir[m].base + dir[m].done
                                  /\ thread'[t].final => dir[m].final
  <1>1. thread \in [Threads -> {NoReport} \union Report]
    BY DEF TypeOK
  <1>2. ASSUME NEW m \in Machines, NEW u \in Threads,
               SendProgress(m, u) \/ SendFinal(m, u) \/ SendStopped(m, u)
        PROVE  \/ thread'[t] = thread[t]
               \/ \E n \in Machines : /\ thread'[t].pairs = dir[n].base + dir[n].done
                                      /\ thread'[t].final => dir[n].final
    BY <1>1, <1>2 DEF SendProgress, SendFinal, SendStopped, Send
  <1>3. ASSUME NEW u \in Threads, CommitSpsa(u) \/ CreditSpsa(u) \/ GiveUpReport(u)
        PROVE  \/ thread'[t] = thread[t]
               \/ /\ thread[t] # NoReport
                  /\ thread'[t].pairs = thread[t].pairs /\ thread'[t].final = thread[t].final
    <2>1. CASE u # t
      BY <1>1, <1>3, <2>1 DEF CommitSpsa, CreditSpsa, GiveUpReport
    <2>2. CASE u = t
      <3>1. thread[t] \in Report /\ thread[t] # NoReport
        BY <1>3, <2>2, ReportType, IdleType DEF CommitSpsa, CreditSpsa, GiveUpReport
      <3> QED BY <1>1, <1>3, <2>2, <3>1 DEF CommitSpsa, CreditSpsa, GiveUpReport, Report
    <2> QED BY <2>1, <2>2
  <1>4. ASSUME NEW u \in Threads, ReplySpsa(u) \/ FailReport(u)
        PROVE  thread'[t] = thread[t] \/ thread'[t] = NoReport
    BY <1>1, <1>4 DEF ReplySpsa, FailReport
  <1>5. ASSUME NEW m \in Machines, RestartWorker(m)
        PROVE  \/ thread'[t] = thread[t]
               \/ /\ thread[t] # NoReport
                  /\ thread'[t].pairs = thread[t].pairs /\ thread'[t].final = thread[t].final
    BY <1>1, <1>5 DEF RestartWorker, Report
  <1>6. CASE thread' = thread
    BY <1>6
  <1> QED
    BY <1>2, <1>3, <1>4, <1>5, <1>6
       DEF Next, MachineStep, TunerStep, ThreadStep, Fault, SelectWorkload, HandOut, Launch, Blacklist, RunPair,
           EndRun, TakeOther, Expire, GiveUpWorkload, KillRun, ExitFile, StopOrRestart, vars

\* What becomes of the row: a report overwrites it, and only a final one ends it well.
LEMMA RowSources ==
    ASSUME TypeOK, [Next]_vars
    PROVE  \/ test'.pairs = test.pairs /\ test'.passed = test.passed
           \/ \E t \in Threads : /\ CommitSpsa(t) /\ thread[t] # NoReport
                                 /\ test'.pairs = thread[t].pairs
                                 /\ test'.passed => test.passed \/ thread[t].final
  <1>1. test \in Test
    BY DEF TypeOK
  <1>2. ASSUME NEW t \in Threads, CommitSpsa(t)
        PROVE  \/ test' = test
               \/ /\ test'.pairs = thread[t].pairs /\ thread[t] # NoReport
                  /\ test'.passed => test.passed \/ thread[t].final
    BY <1>1, <1>2, ReportType DEF CommitSpsa, Test
  <1>3. CASE StopOrRestart
    BY <1>1, <1>3 DEF StopOrRestart, Test
  <1>4. CASE test' = test
    BY <1>4
  <1> QED
    BY <1>2, <1>3, <1>4
       DEF Next, MachineStep, TunerStep, ThreadStep, Fault, SelectWorkload, HandOut, Launch, SendProgress,
           SendFinal, SendStopped, Send, Blacklist, RunPair, EndRun, TakeOther, Expire, CreditSpsa,
           ReplySpsa, GiveUpWorkload, KillRun, ExitFile, RestartWorker, GiveUpReport, FailReport, vars, server

LEMMA RunPairDir ==
    ASSUME TypeOK, NEW m \in Machines, RunPair(m)
    PROVE  /\ dir'[m].base = dir[m].base /\ dir'[m].done = dir[m].done + 1
           /\ dir'[m].total = dir[m].total /\ dir'[m].final = dir[m].final
           /\ proc[m]
  BY DEF RunPair, TypeOK, Run

-----------------------------------------------------------------------------
(* The progress was run.                                                    *)

LEMMA RealStep == TypeOK /\ TypeOK' /\ AllIsReal /\ [Next]_vars => AllIsReal'
  <1> SUFFICES ASSUME TypeOK, TypeOK', AllIsReal, [Next]_vars PROVE AllIsReal'
    OBVIOUS
  <1>1. Ran \in Nat /\ Ran' \in Nat /\ Ran <= Ran'
    BY RanGrowsOrStays
  <1>2. test'.pairs <= Ran'
    <2>1. test'.pairs \in Nat /\ test'.pairs <= Ran
      BY RowSources, Numbers DEF AllIsReal
    <2> QED BY <1>1, <2>1
  <1>3. ASSUME NEW m \in Machines
        PROVE  /\ worker'[m].carry <= Ran'
               /\ dir'[m].base + dir'[m].done <= Ran'
               /\ assign'[m] # NoAssignment => assign'[m].carry <= Ran'
    <2>1. /\ worker[m].carry \in Nat /\ worker[m].carry <= Ran
          /\ dir[m].base \in Nat /\ dir[m].done \in Nat /\ dir[m].base + dir[m].done <= Ran
          /\ assign[m] # NoAssignment => assign[m].carry \in Nat /\ assign[m].carry <= Ran
          /\ test.pairs \in Nat /\ test.pairs <= Ran
      BY Numbers DEF AllIsReal
    <2>2. worker'[m].carry <= Ran'
      BY <1>1, <2>1, MachineSources
    <2>3. assign'[m] # NoAssignment => assign'[m].carry <= Ran'
      BY <1>1, <2>1, MachineSources
    <2>4. dir'[m].base + dir'[m].done <= Ran'
      <3>1. CASE dir'[m] = dir[m]
        BY <1>1, <2>1, <3>1
      <3>2. CASE dir'[m] = Takeover(worker[m].carry, TotalPairs - worker[m].carry)
        <4>1. dir'[m].base = worker[m].carry /\ dir'[m].done = 0
          BY <2>1, <3>2, TakeoverType
        <4> QED BY <1>1, <2>1, <4>1
      <3>3. CASE RunPair(m)
        <4>1. Ran' = Ran + 1 /\ dir'[m].base = dir[m].base /\ dir'[m].done = dir[m].done + 1
          BY <3>3, RanGrows, RunPairDir
        <4> QED BY <1>1, <2>1, <4>1
      <3>4. CASE dir'[m] = [dir[m] EXCEPT !.final = TRUE]
        <4>1. dir'[m].base = dir[m].base /\ dir'[m].done = dir[m].done
          BY <3>4 DEF TypeOK, Run
        <4> QED BY <1>1, <2>1, <4>1
      <3> QED BY <3>1, <3>2, <3>3, <3>4, RunSources
    <2> QED BY <2>2, <2>3, <2>4
  <1>4. ASSUME NEW t \in Threads, thread'[t] # NoReport PROVE thread'[t].pairs <= Ran'
    <2>1. thread'[t].pairs \in Nat
      BY <1>4 DEF TypeOK, Report
    <2>2. thread'[t].pairs <= Ran
      BY <1>4, ReportSources DEF AllIsReal
    <2> QED BY <1>1, <2>1, <2>2
  <1>5. (\A m \in Machines : /\ worker[m].carry <= Ran
                             /\ dir[m].base + dir[m].done <= Ran
                             /\ assign[m] # NoAssignment => assign[m].carry <= Ran)'
    BY <1>3
  <1>6. (\A t \in Threads : thread[t] # NoReport => thread[t].pairs <= Ran)'
    BY <1>4
  <1> QED BY <1>2, <1>5, <1>6 DEF AllIsReal

LEMMA RealAlways == Spec => [](TypesAndQuestions /\ AllIsReal)
  <1>1. TypesAndQuestions /\ AllIsReal /\ [Next]_vars => (TypesAndQuestions /\ AllIsReal)'
    BY TypesStep, RealStep DEF TypesAndQuestions
  <1> QED BY <1>1, TypesStart, RealStarts, PTL DEF Spec

\* However often a tuning changes machines, is stopped and restarted, or has two
\* tuners at work at once, and whatever reports are lost or late: the progress of
\* the Test row was run by somebody (spsa_rshogi.py, choose_launch_mode and
\* report_progress; utils.py, update_spsa_workload).
THEOREM ProgressWasRun == Spec => []ProgressIsReal
  BY RealAlways, PTL DEF AllIsReal, ProgressIsReal

-----------------------------------------------------------------------------
(* A final report covers the schedule.                                      *)

LEMMA CoverStarts == Init => SchedulesAreCovered
  BY DEF Init, SchedulesAreCovered, NoRun

LEMMA CoverStep ==
    TypeOK /\ SchedulesAreCovered /\ ~EarlyStop /\ [Next]_vars => SchedulesAreCovered'
  <1> SUFFICES ASSUME TypeOK, SchedulesAreCovered, ~EarlyStop, [Next]_vars PROVE SchedulesAreCovered'
    OBVIOUS
  <1>1. ASSUME NEW m \in Machines
        PROVE  /\ proc'[m] \/ dir'[m].meta => dir'[m].base + dir'[m].total >= TotalPairs
               /\ dir'[m].final => dir'[m].base + dir'[m].done >= TotalPairs
    <2>1. /\ proc[m] \/ dir[m].meta => dir[m].base + dir[m].total >= TotalPairs
          /\ dir[m].final => dir[m].base + dir[m].done >= TotalPairs
      BY DEF SchedulesAreCovered
    <2>2. /\ worker[m].carry \in Nat /\ TotalPairs \in Nat
          /\ dir[m].base \in Nat /\ dir[m].done \in Nat /\ dir[m].total \in Nat
      BY Numbers, SpsaAssumption
    <2>3. CASE dir'[m] = dir[m] /\ (proc'[m] => proc[m] \/ dir[m].meta)
      BY <2>1, <2>3
    <2>4. CASE dir'[m] = Takeover(worker[m].carry, TotalPairs - worker[m].carry)
      <3>1. dir'[m].base + dir'[m].total >= TotalPairs /\ ~dir'[m].final
        BY <2>2, <2>4, TakeoverType
      <3> QED BY <3>1
    <2>5. CASE RunPair(m)
      BY <2>1, <2>2, <2>5, RunPairDir
    <2>6. CASE EndRun(m) /\ dir'[m] = [dir[m] EXCEPT !.final = TRUE] /\ ~proc'[m]
      <3>1. /\ dir'[m].base = dir[m].base /\ dir'[m].done = dir[m].done /\ dir'[m].total = dir[m].total
            /\ dir'[m].meta = dir[m].meta
        BY <2>6 DEF TypeOK, Run
      <3>2. proc[m] /\ dir[m].done = dir[m].total
        BY <2>6 DEF EndRun
      <3> QED BY <2>1, <2>2, <3>1, <3>2
    <2> QED BY <2>3, <2>4, <2>5, <2>6, RunSources
  <1>2. ASSUME NEW t \in Threads, thread'[t] # NoReport, thread'[t].final
        PROVE  thread'[t].pairs >= TotalPairs
    BY <1>2, ReportSources DEF SchedulesAreCovered
  <1> QED BY <1>1, <1>2 DEF SchedulesAreCovered

\* Without early stopping a tuning ends well only by a final report that covers its
\* schedule, whichever machines ran it (choose_launch_mode, monitor_spsa,
\* update_spsa_workload).
THEOREM FinishedWasComplete == Spec => FinishedIsComplete
  <1> DEFINE Covered == TypesAndQuestions /\ (EarlyStop \/ SchedulesAreCovered)
  <1>1. Init => Covered
    BY TypesStart, CoverStarts
  <1>2. Covered /\ [Next]_vars => Covered'
    BY TypesStep, CoverStep DEF TypesAndQuestions
  <1>3. Covered /\ [Next]_vars => [~EarlyStop /\ test'.passed /\ ~test.passed => test'.pairs >= TotalPairs]_vars
    <2> SUFFICES ASSUME Covered, [Next]_vars, ~EarlyStop, test'.passed, ~test.passed
                 PROVE  test'.pairs >= TotalPairs
      OBVIOUS
    <2>1. TypeOK
      BY DEF TypesAndQuestions
    <2> QED BY <2>1, RowSources DEF SchedulesAreCovered
  <1> HIDE DEF Covered
  <1> QED BY <1>1, <1>2, <1>3, PTL DEF Spec, FinishedIsComplete

-----------------------------------------------------------------------------
(* The progress is credited.                                                *)

DueOf == [t \in Threads |-> IF thread[t] = NoReport THEN 0 ELSE thread[t].delta]

Counted(n) == Min({n, MaxCredit})

CreditInv == DueIsCommitted /\ ProgressIsCredited

LEMMA SumsType ==
    ASSUME TypeOK
    PROVE  /\ DueOf \in [Threads -> Nat] /\ Due = SumFunction(DueOf) /\ Due \in Nat
           /\ result \in [Machines -> Nat] /\ Credited = SumFunction(result) /\ Credited \in Nat
  <1>1. DueOf \in [Threads -> Nat]
    BY Numbers DEF DueOf
  <1>2. result \in [Machines -> Nat]
    BY DEF TypeOK
  <1> QED BY <1>1, <1>2, SumType, SpsaAssumption DEF Due, DueOf, Credited

LEMMA SumsTypeNext ==
    ASSUME TypeOK'
    PROVE  /\ DueOf' \in [Threads -> Nat] /\ Due' = SumFunction(DueOf') /\ Due' \in Nat
           /\ result' \in [Machines -> Nat] /\ Credited' = SumFunction(result') /\ Credited' \in Nat
           /\ test'.pairs \in Nat
  <1>1. \A t \in Threads : thread'[t] # NoReport => thread'[t].delta \in Nat
    BY DEF TypeOK, Report
  <1>2. DueOf' \in [Threads -> Nat]
    BY <1>1 DEF DueOf
  <1>3. result' \in [Machines -> Nat] /\ test'.pairs \in Nat
    BY DEF TypeOK, Test
  <1>4. Due' = SumFunction(DueOf') /\ Credited' = SumFunction(result')
    BY DEF Due, DueOf, Credited
  <1> QED BY <1>2, <1>3, <1>4, SumType, SpsaAssumption

LEMMA CreditStarts == Init => CreditInv
  <1> SUFFICES ASSUME Init PROVE CreditInv
    OBVIOUS
  <1>1. Credited \in Nat /\ Due \in Nat
    BY TypesStart, SumsType DEF TypesAndQuestions
  <1>2. Min({0, MaxCredit}) = 0
    BY CreditedType, SpsaAssumption
  <1> QED BY <1>1, <1>2 DEF Init, CreditInv, DueIsCommitted, ProgressIsCredited

\* A step that changes what one thread has due.
LEMMA DueChanges ==
    ASSUME TypeOK, TypeOK', NEW t \in Threads, \A u \in Threads \ {t} : thread'[u] = thread[u]
    PROVE  Due' + DueOf[t] = Due + DueOf'[t]
  <1>1. DueOf \in [Threads -> Nat] /\ DueOf' \in [Threads -> Nat]
        /\ Due = SumFunction(DueOf) /\ Due' = SumFunction(DueOf')
    BY SumsType, SumsTypeNext
  <1>2. \A u \in Threads \ {t} : DueOf'[u] = DueOf[u]
    BY DEF DueOf
  <1> QED BY <1>1, <1>2, SumChange, SpsaAssumption

LEMMA CommitCredits ==
    ASSUME TypeOK, TypeOK', CreditInv, NEW t \in Threads, CommitSpsa(t)
    PROVE  CreditInv'
  <1>1. thread \in [Threads -> {NoReport} \union Report] /\ thread[t] \in Report /\ thread[t] # NoReport
        /\ test \in Test
    BY ReportType DEF CommitSpsa, TypeOK
  <1>2. \A u \in Threads \ {t} : thread'[u] = thread[u]
    BY <1>1 DEF CommitSpsa
  <1>3. thread[t].delta = 0 /\ DueOf[t] = 0
    BY <1>1 DEF CommitSpsa, CreditInv, DueIsCommitted, DueOf
  <1>4. result' = result /\ failures' = failures /\ Credited' = Credited
    BY DEF CommitSpsa, bounds, Credited
  <1>5. Due \in Nat /\ Due' \in Nat /\ Credited \in Nat /\ DueOf'[t] \in Nat
    BY SumsType, SumsTypeNext
  <1>6. Due' = Due + DueOf'[t]
    BY <1>2, <1>3, <1>5, DueChanges
  <1>7. test.pairs \in Nat /\ test'.pairs \in Nat
    BY Numbers, SumsTypeNext
  <1>8. CASE test.finished
    <2>1. thread'[t].delta = 0 /\ test' = test
      BY <1>1, <1>3, <1>8 DEF CommitSpsa, Report
    <2>2. DueOf'[t] = 0
      BY <2>1 DEF DueOf
    <2> QED
      BY <1>2, <1>4, <1>5, <1>6, <2>1, <2>2 DEF CreditInv, DueIsCommitted, ProgressIsCredited
  <1>9. CASE ~test.finished
    <2> DEFINE d == IF thread[t].pairs > test.pairs THEN thread[t].pairs - test.pairs ELSE 0
    <2>1. /\ thread'[t].pc = "committed" /\ thread'[t].delta = d
          /\ test'.pairs = thread[t].pairs
      <3> DEFINE e == [thread[t] EXCEPT !.pc = "committed"]
                 f == [e EXCEPT !.delta = d]
                 r == [f EXCEPT !.stop = thread[t].final]
                 a == [test EXCEPT !.pairs = thread[t].pairs]
                 b == [a EXCEPT !.finished = thread[t].final]
                 c == [b EXCEPT !.passed = test.passed \/ thread[t].final]
      <3>1. thread'[t] = r /\ test' = c
        BY <1>1, <1>9 DEF CommitSpsa
      <3>2. e \in Report /\ e.pc = "committed" /\ a \in Test /\ a.pairs = thread[t].pairs
        BY <1>1 DEF Report, Test
      <3>3. DOMAIN f = DOMAIN e /\ f.pc = e.pc /\ f.delta = d
        <4> HIDE DEF e, d
        <4> QED BY <3>2 DEF Report
      <3>4. r.pc = f.pc /\ r.delta = f.delta
        <4> HIDE DEF f
        <4> QED BY <3>2, <3>3 DEF Report
      <3>5. DOMAIN b = DOMAIN a /\ b.pairs = a.pairs
        <4> HIDE DEF a
        <4> QED BY <3>2 DEF Test
      <3>6. c.pairs = b.pairs
        <4> HIDE DEF b
        <4> QED BY <3>2, <3>5 DEF Test
      <3> HIDE DEF r, f, e, a, b, c
      <3> QED BY <3>1, <3>2, <3>3, <3>4, <3>5, <3>6
    <2>2. DueOf'[t] = d
      BY <2>1 DEF DueOf, NoReport
    <2>3. failures = 0 => Min({test.pairs, MaxCredit}) <= Credited + Due
      BY DEF CreditInv, ProgressIsCredited
    <2>4. failures = 0 => Min({test'.pairs, MaxCredit}) <= Credited + Due'
      <3>1. thread[t].pairs \in Nat
        BY <1>1 DEF Report
      <3>2. d \in Nat /\ test'.pairs <= test.pairs + d
        BY <1>7, <2>1, <3>1
      <3> DEFINE a == Min({test.pairs, MaxCredit})
                 b == Min({test'.pairs, MaxCredit})
      <3>3. /\ a \in Nat /\ b \in Nat
            /\ b = test'.pairs \/ (b = MaxCredit /\ MaxCredit <= test'.pairs)
            /\ a = test.pairs \/ (a = MaxCredit /\ MaxCredit <= test.pairs)
            /\ b <= MaxCredit /\ MaxCredit \in Nat
        BY <1>7, CreditedType, SpsaAssumption
      <3> HIDE DEF a, b, d
      <3>4. b <= a + d
        BY <1>7, <3>2, <3>3
      <3>5. failures = 0 => b <= Credited + Due'
        BY <1>5, <1>6, <2>2, <2>3, <3>2, <3>3, <3>4 DEF a
      <3> QED BY <3>5 DEF b
    <2> QED BY <1>2, <1>4, <2>1, <2>4 DEF CreditInv, DueIsCommitted, ProgressIsCredited
  <1> QED BY <1>8, <1>9

LEMMA CreditCredits ==
    ASSUME TypeOK, TypeOK', CreditInv, NEW t \in Threads, CreditSpsa(t)
    PROVE  CreditInv'
  <1> DEFINE m == thread[t].from
             d == thread[t].delta
             x == result[m] + d
  <1>1. thread[t] \in Report /\ thread[t] # NoReport /\ m \in Machines /\ d \in Nat
    BY ReportType DEF CreditSpsa, Report
  <1>2. \A u \in Threads \ {t} : thread'[u] = thread[u]
    BY DEF CreditSpsa, TypeOK
  <1>3. thread'[t].delta = 0 /\ test' = test /\ failures' = failures
    BY <1>1 DEF CreditSpsa, TypeOK, Report, bounds
  <1>4. DueOf[t] = d /\ DueOf'[t] = 0
    BY <1>1, <1>3 DEF DueOf
  <1>5. Due \in Nat /\ Due' \in Nat /\ Credited \in Nat /\ Credited' \in Nat
        /\ result \in [Machines -> Nat] /\ result' \in [Machines -> Nat]
        /\ Credited = SumFunction(result) /\ Credited' = SumFunction(result')
    BY SumsType, SumsTypeNext
  <1>6. Due' + d = Due
    BY <1>2, <1>4, <1>5, DueChanges
  <1>7. result'[m] = Min({x, MaxCredit}) /\ \A o \in Machines \ {m} : result'[o] = result[o]
    BY <1>1, <1>5 DEF CreditSpsa
  <1>8. Credited' + result[m] = Credited + result'[m]
    BY <1>1, <1>5, <1>7, SumChange, SpsaAssumption
  <1>9. result'[m] <= Credited' /\ result[m] \in Nat /\ result'[m] \in Nat
    BY <1>1, <1>5, SumHasEach, SpsaAssumption
  <1>10. x \in Nat /\ (result'[m] = x \/ result'[m] = MaxCredit)
    BY <1>1, <1>7, <1>9, CreditedType
  <1>11. failures = 0 => Min({test.pairs, MaxCredit}) <= Credited' + Due'
    <2>1. test.pairs \in Nat
      BY Numbers
    <2> DEFINE b == Min({test.pairs, MaxCredit})
    <2>2. b \in Nat /\ b <= MaxCredit /\ MaxCredit \in Nat
      BY <2>1, CreditedType, SpsaAssumption
    <2>3. failures = 0 => b <= Credited + Due
      BY DEF CreditInv, ProgressIsCredited
    <2> HIDE DEF b, d, m
    <2>4. failures = 0 => b <= Credited' + Due'
      <3>1. CASE result'[m] = x
        <4>1. d \in Nat /\ x = result[m] + d
          BY <1>1 DEF d, m
        <4> HIDE DEF x
        <4> QED BY <1>5, <1>6, <1>8, <1>9, <2>2, <2>3, <3>1, <4>1 DEF d, m
      <3>2. CASE result'[m] = MaxCredit
        BY <1>5, <1>9, <2>2, <3>2
      <3> QED BY <1>10, <3>1, <3>2
    <2> QED BY <2>4 DEF b
  <1>12. DueIsCommitted'
    BY <1>2, <1>3 DEF CreditInv, DueIsCommitted
  <1> QED BY <1>3, <1>11, <1>12 DEF CreditInv, ProgressIsCredited

\* Every other step owes nothing new, or is a failure.
LEMMA OthersCredit ==
    ASSUME TypeOK, TypeOK', CreditInv, UNCHANGED <<test, result>>,
           \A t \in Threads : thread'[t] # NoReport /\ thread'[t].pc # "committed" => thread'[t].delta = 0,
           failures' > 0 \/ (failures' = failures /\ \A t \in Threads : DueOf'[t] = DueOf[t])
    PROVE  CreditInv'
  <1>1. DueIsCommitted'
    BY DEF DueIsCommitted
  <1>2. Credited' = Credited
    BY DEF Credited
  <1>3. CASE failures' > 0
    BY <1>1, <1>3 DEF CreditInv, ProgressIsCredited
  <1>4. CASE failures' = failures /\ \A t \in Threads : DueOf'[t] = DueOf[t]
    <2>1. DueOf \in [Threads -> Nat] /\ DueOf' \in [Threads -> Nat]
          /\ Due = SumFunction(DueOf) /\ Due' = SumFunction(DueOf')
      BY SumsType, SumsTypeNext
    <2>2. DueOf' = DueOf
      BY <1>4, <2>1
    <2> QED BY <1>1, <1>2, <1>4, <2>1, <2>2 DEF CreditInv, ProgressIsCredited
  <1> QED BY <1>3, <1>4

LEMMA CreditStep == TypeOK /\ TypeOK' /\ CreditInv /\ [Next]_vars => CreditInv'
  <1> SUFFICES ASSUME TypeOK, TypeOK', CreditInv, [Next]_vars PROVE CreditInv'
    OBVIOUS
  <1>1. thread \in [Threads -> {NoReport} \union Report] /\ failures \in Nat
        /\ \A t \in Threads : thread[t] # NoReport /\ thread[t].pc # "committed" => thread[t].delta = 0
    BY DEF TypeOK, CreditInv, DueIsCommitted
  <1>2. ASSUME NEW m \in Machines, NEW t \in Threads,
               SendProgress(m, t) \/ SendFinal(m, t) \/ SendStopped(m, t)
        PROVE  CreditInv'
    <2>1. /\ UNCHANGED <<test, result, failures>> /\ thread[t] = NoReport
          /\ thread'[t].delta = 0 /\ thread'[t] # NoReport
          /\ \A u \in Threads \ {t} : thread'[u] = thread[u]
      BY <1>1, <1>2 DEF SendProgress, SendFinal, SendStopped, Send, server, bounds, NoReport
    <2> QED BY <1>1, <2>1, OthersCredit DEF DueOf
  <1>3. ASSUME NEW t \in Threads, ReplySpsa(t) PROVE CreditInv'
    <2>1. /\ UNCHANGED <<test, result>> /\ thread[t].pc = "handled" /\ thread[t] # NoReport
          /\ thread'[t] = NoReport /\ \A u \in Threads \ {t} : thread'[u] = thread[u]
      BY <1>1, <1>3, ReportType DEF ReplySpsa, server
    <2>2. failures' = failures \/ failures' > 0
      BY <1>1, <1>3 DEF ReplySpsa, Failure
    <2> QED BY <1>1, <2>1, <2>2, OthersCredit DEF DueOf
  <1>4. ASSUME NEW t \in Threads, GiveUpReport(t) PROVE CreditInv'
    <2>1. /\ UNCHANGED <<test, result>> /\ failures' > 0
          /\ thread' = [thread EXCEPT ![t].awaited = FALSE] /\ thread[t] \in Report
      BY <1>1, <1>4, ReportType DEF GiveUpReport, Failure, server
    <2>2. \A u \in Threads : u # t => thread'[u] = thread[u]
      BY <1>1, <2>1
    <2>3. thread'[t].pc = thread[t].pc /\ thread'[t].delta = thread[t].delta /\ thread[t] # NoReport
      BY <1>1, <1>4, <2>1 DEF Report, GiveUpReport
    <2> QED BY <1>1, <2>1, <2>2, <2>3, OthersCredit
  <1>5. ASSUME NEW t \in Threads, FailReport(t) PROVE CreditInv'
    <2>1. /\ UNCHANGED <<test, result>> /\ failures' > 0
          /\ \A u \in Threads : thread'[u] = thread[u] \/ thread'[u] = NoReport
      BY <1>1, <1>5 DEF FailReport, Failure, server
    <2> QED BY <1>1, <2>1, OthersCredit
  <1>6. ASSUME NEW m \in Machines, RestartWorker(m) PROVE CreditInv'
    <2>1. UNCHANGED <<test, result>> /\ failures' > 0
      BY <1>1, <1>6 DEF RestartWorker, Failure, server
    <2>2. \A u \in Threads : thread'[u] # NoReport =>
              /\ thread[u] # NoReport /\ thread'[u].pc = thread[u].pc
              /\ thread'[u].delta = thread[u].delta
      BY <1>1, <1>6 DEF RestartWorker, Report
    <2> QED BY <1>1, <2>1, <2>2, OthersCredit
  <1>7. CASE UNCHANGED <<test, result, thread>> /\ (failures' = failures \/ failures' = failures + 1)
    <2>1. failures' = failures \/ failures' > 0
      BY <1>1, <1>7
    <2> QED BY <1>1, <1>7, <2>1, OthersCredit DEF DueOf
  <1>8. CASE StopOrRestart
    <2>1. UNCHANGED <<result, thread, failures>> /\ test'.pairs = test.pairs
      BY <1>8 DEF StopOrRestart, TypeOK, Test
    <2> QED
      BY <2>1 DEF CreditInv, DueIsCommitted, ProgressIsCredited, Credited, Due
  <1>9. ASSUME NEW m \in Machines,
               \/ SelectWorkload(m) \/ HandOut(m) \/ Launch(m) \/ Blacklist(m) \/ RunPair(m) \/ EndRun(m)
               \/ TakeOther(m) \/ Expire(m) \/ GiveUpWorkload(m) \/ KillRun(m) \/ ExitFile(m)
        PROVE  CreditInv'
    <2>1. UNCHANGED <<test, result, thread>> /\ (failures' = failures \/ failures' = failures + 1)
      BY <1>9 DEF SelectWorkload, HandOut, Launch, Blacklist, RunPair, EndRun, TakeOther, Expire,
                  GiveUpWorkload, KillRun, ExitFile, Failure, server, bounds
    <2> QED BY <1>7, <2>1
  <1>10. CASE UNCHANGED vars
    BY <1>7, <1>10 DEF vars
  <1> QED
    BY <1>2, <1>3, <1>4, <1>5, <1>6, <1>8, <1>9, <1>10, CommitCredits, CreditCredits
       DEF Next, MachineStep, TunerStep, ThreadStep, Fault

\* Without a failure the Result rows have, or the threads that handle reports still
\* owe them, all the pairs of the progress, however many machines took the tuning
\* over and in whatever order reports of two of them are handled (utils.py,
\* update_spsa_workload).
THEOREM ProgressWasCredited == Spec => []ProgressIsCredited
  <1> DEFINE I == TypesAndQuestions /\ CreditInv
  <1>1. I /\ [Next]_vars => I'
    BY TypesStep, CreditStep DEF TypesAndQuestions
  <1>2. Init => I
    BY TypesStart, CreditStarts
  <1>3. I => ProgressIsCredited
    BY DEF CreditInv
  <1> HIDE DEF I
  <1> QED BY <1>1, <1>2, <1>3, PTL DEF Spec
=============================================================================
