------------------------------ MODULE TestRow ------------------------------
(***************************************************************************)
(* The Test row of the ShogiBench server, and the pure functions that the  *)
(* request handlers apply to it.  Nothing here is a state variable: the    *)
(* modules that hold a row in a variable (Results) say when each function  *)
(* is applied, and to which copy of the row.                               *)
(***************************************************************************)
EXTENDS Integers

CONSTANTS
    MaxGames,   \* Test.max_games of a GAMES or DATAGEN test
    LLR(_),     \* the log-likelihood ratio of a tally (PentanomialSPRT)
    LowerLLR, UpperLLR    \* Test.lowerllr and Test.upperllr

\* SPSA rows never take game results, see Spsa.tla.
AllModes == {"SPRT", "GAMES", "DATAGEN"}

(***************************************************************************)
(* Tallies.  Columns are the integer counters that Test and Result share:  *)
(* the trinomial, the pentanomial, and the overall number of games.        *)
(***************************************************************************)
Columns == {"losses", "draws", "wins", "LL", "LD", "DD", "DW", "WW", "games"}
Tally   == [Columns -> Nat]
NoGames == [c \in Columns |-> 0]

Plus(s, t) == [c \in Columns |-> s[c] + t[c]]
AtMost(s, t) == \A c \in Columns : s[c] <= t[c]

ASSUME ConstantsAssumption ==
    /\ MaxGames \in Nat \ {0}
    /\ LowerLLR \in Int /\ UpperLLR \in Int /\ LowerLLR < UpperLLR
    /\ LLR(NoGames) \in Int /\ LowerLLR <= LLR(NoGames) /\ LLR(NoGames) <= UpperLLR

(***************************************************************************)
(* The fields of the row that the handlers read or write.                  *)
(***************************************************************************)
Row == [mode : AllModes, reverses : BOOLEAN, tally : Tally, book_index : Nat, scaled : BOOLEAN,
        approved : BOOLEAN, awaiting : BOOLEAN, finished : BOOLEAN,
        passed : BOOLEAN, failed : BOOLEAN, deleted : BOOLEAN]

\* A row as create_workload leaves it.  An engine without artifacts is
\* awaiting; a row older than the scale_nps column has scaled = FALSE.
NewRows == [mode : AllModes, reverses : BOOLEAN, tally : {NoGames},
            book_index : {1}, scaled : BOOLEAN, approved : BOOLEAN, awaiting : BOOLEAN,
            finished : {FALSE}, passed : {FALSE}, failed : {FALSE},
            deleted : {FALSE}]

IsActive(r) == r.approved /\ ~r.awaiting /\ ~r.finished /\ ~r.deleted
IsAwaiting(r) == r.awaiting /\ ~r.finished /\ ~r.deleted
IsClosed_DeletedOnly(r) == r.deleted
IsClosed(r) == r.finished \/ r.deleted

Accepted(mode, tally) ==
    \/ mode = "SPRT"    /\ LLR(tally) > UpperLLR
    \/ mode = "GAMES"   /\ tally["games"] >= MaxGames
                        /\ tally["wins"] >= tally["losses"]
    \/ mode = "DATAGEN" /\ tally["games"] >= MaxGames

Rejected(mode, tally) ==
    \/ mode = "SPRT"    /\ LLR(tally) < LowerLLR
    \/ mode = "GAMES"   /\ tally["games"] >= MaxGames
                        /\ tally["wins"] < tally["losses"]

\* DATAGEN assigns passed and finished together and leaves failed alone.
WithVerdict(r) ==
    [r EXCEPT !.passed   = Accepted(r.mode, r.tally),
              !.failed   = IF r.mode = "DATAGEN" THEN @ ELSE Rejected(r.mode, r.tally),
              !.finished = Accepted(r.mode, r.tally) \/ Rejected(r.mode, r.tally)]

\* The body of update_test's transaction, for a row that is not closed.
AddReport_StaleVerdict(r, report) == [WithVerdict(r) EXCEPT !.tally = Plus(@, report)]
AddReport(r, report) == WithVerdict([r EXCEPT !.tally = Plus(@, report)])

\* The body of workload_to_dictionary's transaction.  A pair needs one
\* opening, unless DATAGEN plays both of its games from openings of their own.
PerOpening(r) == IF r.mode = "DATAGEN" /\ ~r.reverses THEN 2 ELSE 1
TakeOpenings_Short(r, pairs) == [r EXCEPT !.book_index = @ + pairs - 1]
TakeOpenings(r, pairs) == [r EXCEPT !.book_index = @ + pairs * PerOpening(r)]

\* The openings that the match runners of a workload then play, from the
\* book_index they were sent on; DATAGEN plays from a book it generates.
OpeningsUsed(r, pairs) == IF r.mode = "DATAGEN" THEN 0 ELSE pairs

(***************************************************************************)
(* What the handlers that save a whole row change in the copy they hold.   *)
(* MODIFY edits only names, priority, throughput and size, none of which   *)
(* is a field here, so that the save alone is left of it.                  *)
(***************************************************************************)
PageOps == {"APPROVE", "RESTART", "STOP", "DELETE", "RESTORE", "MODIFY"}
EditOps == PageOps \union {"BENCH_ERROR", "ARTIFACTS"}

Edited(op, r) ==
    CASE op = "APPROVE"     -> [r EXCEPT !.approved = TRUE]
      [] op = "RESTART"     -> [r EXCEPT !.finished = FALSE]
      [] op = "STOP"        -> [r EXCEPT !.finished = TRUE]
      [] op = "DELETE"      -> [r EXCEPT !.deleted  = TRUE]
      [] op = "RESTORE"     -> [r EXCEPT !.deleted  = FALSE]
      [] op = "MODIFY"      -> r
      [] op = "BENCH_ERROR" -> [r EXCEPT !.finished = TRUE]
      [] op = "ARTIFACTS"   -> [r EXCEPT !.awaiting = FALSE]

Scaled(r) == [r EXCEPT !.scaled = TRUE]
=============================================================================
