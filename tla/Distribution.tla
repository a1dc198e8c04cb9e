---------------------------- MODULE Distribution ----------------------------
(***************************************************************************)
(* How many games of a test a machine plays at once, and with what: the    *)
(* arithmetic of OpenBench/workloads/get_workload.py, which admits a test  *)
(* to a machine and tells it how to run the match, and of the worker that  *)
(* turns that into processors and openings (Client/worker.py, genfens.py). *)
(*                                                                         *)
(* A test w has fields dev and base (threads of each engine), ponder,      *)
(* mode, size (workload_size), reverses and batch (SPSA's batch_pairs); a  *)
(* machine h has threads (what it registered as its concurrency), sockets, *)
(* cores (physical) and affinity (Linux, with processors it may pin).      *)
(***************************************************************************)
EXTENDS Integers

Lesser(a, b) == IF a < b THEN a ELSE b
Greater(a, b) == IF a > b THEN a ELSE b

Modes == {"SPRT", "GAMES", "SPSA", "DATAGEN"}

\* The sets of tests that creation lets through, and of machines that start.
IsTest(w) ==
    /\ {w.dev, w.base, w.size, w.batch} \subseteq Nat \ {0}
    /\ w.ponder \in BOOLEAN /\ w.reverses \in BOOLEAN /\ w.mode \in Modes

IsMachine(h) ==
    /\ {h.threads, h.sockets, h.cores} \subseteq Nat \ {0}
    /\ h.affinity \in BOOLEAN
    /\ h.sockets <= h.threads /\ h.threads % h.sockets = 0

-----------------------------------------------------------------------------
(* The server.                                                             *)

\* Pondering keeps both engines busy, else one of them waits.
GameThreads(w) == IF w.ponder THEN w.dev + w.base ELSE Greater(w.dev, w.base)

\* Core odds do without hyperthreads; pondering engines get a core each.
MatchThreads(w, h) ==
    IF w.ponder THEN Lesser(h.threads, h.cores)
    ELSE IF h.cores < h.threads /\ w.dev # w.base THEN h.threads \div 2
    ELSE h.threads

ValidHardware_AnySystem(w, h) ==
    (IF w.mode = "SPSA" THEN 2 ELSE 1) * GameThreads(w) <= MatchThreads(w, h)

ValidHardware(w, h) ==
    /\ w.ponder => h.affinity
    /\ (IF w.mode = "SPSA" THEN 2 ELSE 1) * GameThreads(w) <= MatchThreads(w, h)

\* The copies of the match runner; one when a game takes more than one thread.
Runners(w, h) == IF w.mode = "SPSA" \/ GameThreads(w) > 1 THEN 1 ELSE h.sockets

\* The games one copy plays at once; SPSA divides by the sockets all the same.
GamesAtOnce(w, h) ==
    (MatchThreads(w, h) \div (IF GameThreads(w) > 1 THEN 1 ELSE h.sockets)) \div GameThreads(w)

\* SPSA's are those of the whole tuning, and only shown.
GamesPerRunner(w, h) == 2 * w.size * GamesAtOnce(w, h)

\* spsa_to_dictionary: at most two games per pair of a batch.
SpsaGamesAtOnce(w, h) == Greater(1, Lesser(h.threads \div Greater(1, w.dev), 2 * w.batch))

\* The openings by which book_index advances.
OpeningsTaken(w, h) ==
    Runners(w, h) * (GamesPerRunner(w, h) \div 2)
        * (IF w.mode = "DATAGEN" /\ ~w.reverses THEN 2 ELSE 1)

-----------------------------------------------------------------------------
(* The worker.                                                             *)

\* affinity_settings: the positions, in the list of one logical processor per
\* core, that copy r is pinned to, and what it checks before.
CpusPerRunner(w, h) == GamesAtOnce(w, h) * GameThreads(w)
Pinned(w, h, r) == (r * CpusPerRunner(w, h)) .. (r * CpusPerRunner(w, h) + CpusPerRunner(w, h) - 1)
AffinityAccepted(w, h) ==
    h.affinity /\ Runners(w, h) * CpusPerRunner(w, h) <= Lesser(h.threads, h.cores)

\* book_settings: where copy r begins, counted from the openings of the workload.
OpeningsPerRunner(w, h) ==
    (GamesPerRunner(w, h) \div 2) * (IF w.mode = "DATAGEN" /\ ~w.reverses THEN 2 ELSE 1)
BookStart(w, h, r) == r * OpeningsPerRunner(w, h)

\* genfens_required_openings_each: what each of h.threads processes writes.
OpeningsEach(w, h) ==
    LET games == (Runners(w, h) * GamesPerRunner(w, h)) \div (IF w.reverses THEN 2 ELSE 1)
    IN (games + h.threads - 1) \div h.threads

-----------------------------------------------------------------------------
\* A workload that is handed out keeps at least one game going, and never takes
\* more threads than the machine registered; when the engines ponder, the worker's
\* own check of the budget passes, and every copy is pinned to cores there are.
Fits(w, h) ==
    /\ GamesAtOnce(w, h) >= 1
    /\ Runners(w, h) * GamesAtOnce(w, h) * GameThreads(w) <= h.threads
    /\ w.ponder => /\ AffinityAccepted(w, h)
                   /\ \A r \in 0 .. Runners(w, h) - 1 : Pinned(w, h, r) \subseteq 0 .. h.cores - 1

\* The tuner's games never take more threads than the machine registered.
SpsaFits(w, h) == w.mode = "SPSA" => SpsaGamesAtOnce(w, h) * w.dev <= h.threads

\* The copies begin where the one before has ended, up to where the next workload
\* begins, and the book that is generated for DATAGEN reaches that far; the tuner
\* draws its openings itself.
OpeningsFit(w, h) ==
    /\ w.mode # "SPSA" => BookStart(w, h, Runners(w, h)) = OpeningsTaken(w, h)
    /\ w.mode = "DATAGEN" => OpeningsTaken(w, h) <= OpeningsEach(w, h) * h.threads
=============================================================================
