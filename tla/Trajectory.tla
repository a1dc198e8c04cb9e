----------------------------- MODULE Trajectory -----------------------------
(***************************************************************************)
(* The curve of one SPSA workload: the parameter values and the statistics *)
(* the server keeps for every batch.                                       *)
(*                                                                         *)
(* The tuner writes its files one after the other when a batch is done; a  *)
(* machine that monitors it reads meta.json and state.params, then         *)
(* stats.csv and values.csv, and reports the rows from the one before the  *)
(* newest the server is known to have; the server merges them by number.   *)
(* A machine that takes over counts its batches from those reported when   *)
(* it was assigned.  Spsa.tla shows that several may monitor at a time, so *)
(* nothing keeps them apart here.                                          *)
(*                                                                         *)
(* A value is abstracted to whether it is that of its batch in the run it  *)
(* comes from ("exact") or not ("off").                                    *)
(***************************************************************************)
EXTENDS Integers, FiniteSets, FiniteSetsExt

CONSTANTS
    Tuners,      \* the machines
    LastBatch,   \* total_batches
    MaxRows,     \* TRAJECTORY_MAX_ROWS, which the server applies too
    MaxRuns,     \* bound: runs that are started
    MaxUntidy,   \* bound: reports that are made while the tuner writes its files
    MaxMishaps   \* bound: reports that are given up and machines that leave

ASSUME TrajectoryAssumption ==
    /\ IsFiniteSet(Tuners)
    /\ LastBatch \in Nat \ {0} /\ MaxRows \in Nat \ {0}
    /\ MaxRuns \in Nat /\ MaxUntidy \in Nat /\ MaxMishaps \in Nat

VARIABLES
    curve,     \* batch -> trajectory['values']
    counted,   \* the batches of trajectory['stats']
    reached,   \* progress['completed_batches'], and whether the test is over
    run,       \* machine -> its run directory: offset, the batch that is done, and
               \* whether there is a final.params
    monitor,   \* machine -> the loop of run_workload, the newest batch that the server is
               \* known to have, and until the launch what was reported when it was assigned
    posted,    \* machine -> the report it waits for
    late,      \* reports whose senders wait no longer
    \* History.
    runs,      \* the runs that were started
    disorder,  \* a report was handled after its sender had given it up, or made
               \* without its meta.json
    clipped,   \* a report has left rows out because there were too many
    untidy, mishaps

pointVars == <<curve, counted, reached>>
trajectoryVars ==
    <<pointVars, run, monitor, posted, late, runs, disorder, clipped, untidy, mishaps>>

Files    == {"meta", "state", "csv"}    \* csv: stats.csv and values.csv
NoRunYet == [base |-> -1, done |-> 0, final |-> FALSE]
Away     == [pc |-> "away", after |-> 0, carry |-> 0]
NoPost   == [pc |-> "none"]
Batches  == 0 .. LastBatch

Points == [Batches -> {"none", "off", "exact"}]
Runs == [base : Int, done : Nat, final : BOOLEAN]
Monitors == [pc : {"away", "assigned", "monitoring", "waiting"}, after : Nat, carry : Nat]
Posts == [pc : {"sent"}, base : Nat, meta : Nat, exact : BOOLEAN, rows : SUBSET Nat,
          torn : SUBSET Nat, final : BOOLEAN]

TrajectoryTypeOK ==
    /\ curve \in Points /\ counted \subseteq 1 .. LastBatch
    /\ reached \in [batch : Nat, over : BOOLEAN]
    /\ run \in [Tuners -> Runs] /\ monitor \in [Tuners -> Monitors]
    /\ posted \in [Tuners -> {NoPost} \union Posts] /\ late \subseteq Posts
    /\ runs \in Nat /\ disorder \in BOOLEAN /\ clipped \in BOOLEAN
    /\ untidy \in Nat /\ mishaps \in Nat

\* previous = {'values': [[0, start values]]}
TrajectoryInit ==
    /\ curve = [b \in Batches |-> IF b = 0 THEN "exact" ELSE "none"]
    /\ counted = {}
    /\ reached = [batch |-> 0, over |-> FALSE]
    /\ run = [m \in Tuners |-> NoRunYet]
    /\ monitor = [m \in Tuners |-> Away]
    /\ posted = [m \in Tuners |-> NoPost] /\ late = {}
    /\ runs = 0 /\ disorder = FALSE /\ clipped = FALSE
    /\ untidy = 0 /\ mishaps = 0

\* max([row[0] for row in trajectory['values']] + [0])
Newest(values) == Max({b \in Batches : values[b] # "none"})

-----------------------------------------------------------------------------
(***************************************************************************)
(* The machine and its tuner.                                              *)
(***************************************************************************)
\* spsa_to_dictionary: what the server has when it assigns the workload.
Assign(m) ==
    /\ ~reached.over /\ monitor[m].pc = "away"
    /\ monitor' = [monitor EXCEPT ![m] =
           [pc |-> "assigned", after |-> Newest(curve), carry |-> reached.batch]]
    /\ UNCHANGED <<pointVars, run, posted, late, runs, disorder, clipped, untidy, mishaps>>

\* A process that survived is watched again, and a run that has written its
\* meta.json is resumed.
Continue(m) ==
    /\ run[m].base >= 0
    /\ UNCHANGED <<run, runs>>

\* The pairs that were reported // batch_pairs: the batch that was reported, or the
\* one before if it is not a full one, which only the last can be, or one beyond.
Bases(batch) == {batch} \union (IF batch >= LastBatch THEN {batch - 1} ELSE {})

\* choose_launch_mode without a meta.json, which an old directory loses when it is
\* cleaned up: a new run from the state of the server, or from the start when
\* nothing was reported.
Begin(m) ==
    /\ \E base \in Bases(monitor[m].carry) :
          run' = [run EXCEPT ![m] = [base |-> base, done |-> base, final |-> FALSE]]
    /\ runs < MaxRuns /\ runs' = runs + 1

Launch(m) ==
    /\ monitor[m].pc = "assigned"
    /\ Continue(m) \/ Begin(m)
    /\ monitor' = [monitor EXCEPT ![m].pc = "monitoring", ![m].carry = 0]
    /\ UNCHANGED <<pointVars, posted, late, disorder, clipped, untidy, mishaps>>

\* remaining = max(1, total_pairs - carry['pairs'])
End(m) == Max({LastBatch, run[m].base + 1})

\* The tuner, external, and running with nobody watching too: a batch is done
\* when all its files are written.  It ends after its last batch, or stops early.
FinishBatch(m) ==
    /\ run[m].base >= 0 /\ ~run[m].final /\ ~reached.over
    /\ \E stop \in BOOLEAN :
          run' = [run EXCEPT ![m].done = @ + 1, ![m].final = stop \/ run[m].done + 1 = End(m)]
    /\ UNCHANGED <<pointVars, monitor, posted, late, runs, disorder, clipped, untidy, mishaps>>

Wanted_NoOverlap(m, read) == (Max({0, monitor[m].after, run[m].base})) .. read

Wanted(m, read) == (Max({0, monitor[m].after - 1, run[m].base})) .. read
Newer(rows)     == {b \in rows : b > Max(rows) - MaxRows}

\* report_progress: read_run_progress and read_trajectory.  Each file may already be
\* that of the next batch, which is not done before all of them are; a meta.json
\* that is being written cannot be read, so that only the offset is reported, and
\* the last line of a csv is left out, or read with its last number cut short.
ReportProgress(m) ==
    /\ monitor[m].pc = "monitoring"
    /\ \E ahead \in SUBSET Files, cut \in BOOLEAN, unread \in BOOLEAN, final \in BOOLEAN :
         LET next  == run[m].done + 1
             At(f) == run[m].done + (IF f \in ahead THEN 1 ELSE 0)
             torn  == IF cut THEN {next} ELSE {}
             meta  == IF unread THEN run[m].base ELSE At("meta")
             rows  == Wanted(m, At("csv")) \union torn
         IN  /\ \/ ahead = {} /\ ~cut /\ ~unread /\ UNCHANGED untidy
                \/ ~run[m].final /\ untidy < MaxUntidy /\ untidy' = untidy + 1
             /\ cut => "csv" \notin ahead
             /\ unread => "meta" \notin ahead
             /\ final => run[m].final
             /\ posted' = [posted EXCEPT ![m] =
                    [pc    |-> "sent",
                     base  |-> run[m].base,
                     meta  |-> meta,
                     exact |-> At("state") = meta,
                     rows  |-> Newer(rows) \ torn,
                     torn  |-> torn,
                     final |-> final]]
             /\ clipped' = (clipped \/ Cardinality(rows) > MaxRows)
             /\ disorder' = (disorder \/ unread)
    /\ monitor' = [monitor EXCEPT ![m].pc = "waiting"]
    /\ UNCHANGED <<pointVars, run, late, runs, mishaps>>

-----------------------------------------------------------------------------
(***************************************************************************)
(* _merge_spsa_trajectory, in the transaction of update_spsa_workload.     *)
(***************************************************************************)
MergedValues(p) ==
    [b \in Batches |->
        CASE b = p.meta /\ p.meta > 0 -> IF p.exact THEN "exact" ELSE "off"
          [] b \in p.torn /\ ~(b = p.meta /\ p.meta > 0) -> "off"
          [] b \in p.rows /\ ~(b = p.meta /\ p.meta > 0) -> "exact"
          [] OTHER -> curve[b]]

\* A run has no statistics of the batch that it starts from.
Counts(p) == {b \in p.rows : b > p.base} \union {p.meta}

MergedStats_Uncut(p) == counted \union Counts(p)

MergedStats(p) == (counted \union Counts(p)) \intersect (1 .. LastBatch)

\* A test that is over is left alone.
Merge(p) ==
    /\ ~reached.over
    /\ curve' = MergedValues(p)
    /\ counted' = MergedStats(p)
    /\ reached' = [batch |-> p.meta, over |-> p.final]

\* The report is handled, and its reply carries the newest batch; or it says stop.
Answer(m) ==
    /\ posted[m] # NoPost
    /\ \/ Merge(posted[m])
       \/ reached.over /\ UNCHANGED pointVars
    /\ posted' = [posted EXCEPT ![m] = NoPost]
    /\ monitor' = [monitor EXCEPT ![m] =
           IF reached'.over THEN Away ELSE [pc |-> "monitoring", after |-> Newest(curve'), carry |-> 0]]
    /\ UNCHANGED <<run, late, runs, disorder, clipped, untidy, mishaps>>

\* The machine goes on without the reply: the report was handled, or is still on
\* its way.
LoseReport(m) ==
    /\ posted[m] # NoPost /\ ~reached.over /\ mishaps < MaxMishaps /\ mishaps' = mishaps + 1
    /\ \/ Merge(posted[m]) /\ UNCHANGED late
       \/ UNCHANGED pointVars /\ late' = late \union {posted[m]}
    /\ posted' = [posted EXCEPT ![m] = NoPost]
    /\ monitor' = [monitor EXCEPT ![m].pc = "monitoring"]
    /\ UNCHANGED <<run, runs, disorder, clipped, untidy>>

\* Such a report is handled now, whatever its sender or others reported meanwhile.
HandleLate ==
    /\ \E p \in late : Merge(p) /\ late' = late \ {p}
    /\ disorder' = TRUE
    /\ UNCHANGED <<run, monitor, posted, runs, clipped, untidy, mishaps>>

\* The machine is gone, or was not heard of for three minutes.
Depart(m) ==
    /\ monitor[m].pc # "away" /\ ~reached.over
    /\ mishaps < MaxMishaps /\ mishaps' = mishaps + 1
    /\ monitor' = [monitor EXCEPT ![m] = Away]
    /\ posted' = [posted EXCEPT ![m] = NoPost]
    /\ late' = late \union ({posted[m]} \ {NoPost})
    /\ UNCHANGED <<pointVars, run, runs, disorder, clipped, untidy>>

TrajectoryNext ==
    \/ \E m \in Tuners : \/ Assign(m) \/ Launch(m) \/ FinishBatch(m) \/ ReportProgress(m)
                         \/ Answer(m) \/ LoseReport(m) \/ Depart(m)
    \/ HandleLate

TrajectorySpec == TrajectoryInit /\ [][TrajectoryNext]_trajectoryVars

-----------------------------------------------------------------------------
(***************************************************************************)
(* Whatever is lost, handled late, cut short, taken over or run by two     *)
(* machines at a time, the curve has a point and a statistic for every     *)
(* batch before its newest one and for all that the workload has reached;  *)
(* and as long as one run was made, every report read its meta.json and    *)
(* none was handled late, the points before the batch it has reached are   *)
(* that run's own, and the last one too when the workload is over          *)
(* (utils.py, _merge_spsa_trajectory; spsa_rshogi.py, read_trajectory,     *)
(* which sends the row before the newest again).                           *)
(***************************************************************************)
Has(b) == curve[b] # "none" /\ (b = 0 \/ b \in counted)

CurveIsComplete ==
    clipped \/
        /\ \A b \in Batches : b < Newest(curve) \/ b <= reached.batch => Has(b)
        /\ runs <= 1 /\ ~disorder =>
              \A b \in Batches : b < reached.batch \/ (reached.over /\ b = reached.batch) =>
                  curve[b] = "exact"
=============================================================================
