------------------------------- MODULE MCServer -------------------------------
(***************************************************************************)
(* The server's side, for TLC: how a form becomes a test, the networks and *)
(* their files, and the curve of an SPSA workload. These do not share      *)
(* state, so that a behaviour is one of one of them, its subject.          *)
(***************************************************************************)
EXTENDS Creation, Networks, Trajectory, TLC

VARIABLE subject

serverVars == <<creationVars, netVars, trajectoryVars, subject>>

-----------------------------------------------------------------------------
(* Creation: forms that differ from a good one in one field.               *)
CONSTANTS s1, s2

GoodEngine == [threads |-> "1", control |-> "fischer", ponder |-> "off", written |-> "whole",
               rest |-> TRUE]
GoodParams == [names |-> {"p", "q"}, active |-> {"p"}, wellFormed |-> TRUE, matched |-> TRUE,
               inRange |-> TRUE]

\* A form that every check accepts; each kind reads its own fields of it.
GoodForm ==
    [kind |-> "TEST", dev |-> GoodEngine, base |-> GoodEngine, network |-> FALSE,
     build |-> "default", command |-> <<>>, private |-> FALSE, mode |-> "SPRT", bounds |-> "ordered",
     confidence |-> "inside", games |-> "1", throughput |-> "1", size |-> "1", nps |-> "1",
     priority |-> "0", book |-> "known", reverses |-> "YES", total |-> "3", batch |-> "1",
     schedule |-> {"1"}, seed |-> "", patience |-> "", thresholds |-> FALSE,
     params |-> GoodParams, mapping |-> "NONE", kit |-> FALSE]

Numbers == {"-1", "0", "0.5", "1", "inf", "x"}

Threads == {[GoodEngine EXCEPT !.threads = n] : n \in Numbers \cup {"3"}}
OtherControls == {[GoodEngine EXCEPT !.control = c] : c \in {"cyclic", "nodes", "depth", "other"}}
Written == {[GoodEngine EXCEPT !.written = w] : w \in {"openQuote", "lineBreak"}}
Ponders == {[GoodEngine EXCEPT !.ponder = p] : p \in {"standard", "early", "other"}}
Early == {[GoodEngine EXCEPT !.control = c, !.ponder = "early"] :
             c \in {"cyclic", "movetime", "nodes", "depth", "other"}}

Params ==
    {[GoodParams EXCEPT !.wellFormed = FALSE], [GoodParams EXCEPT !.active = {}],
     [GoodParams EXCEPT !.active = {"p", "q"}], [GoodParams EXCEPT !.matched = FALSE],
     [GoodParams EXCEPT !.names = {"p"}], [GoodParams EXCEPT !.inRange = FALSE]}

\* A text with everything the worker manages, the same without a make, one that
\* is too long, one that does not parse and one that builds nothing.
MCCommands ==
    {<< <<"cd", "src">>, <<"make", "clean">>, <<"make", "-j", "8", "CXX=x", "ARCH=AVX2">> >>,
     << <<"-j8", "EXE=x", "ARCH=AVX512", "8">>, <<"make", "clean">> >>,
     << <<"make", "long">> >>, << <<"make", "'">> >>, << <<"cd", "src">> >>}

\* One field of a form that differs from the good one; each kind has its own.
Different(f) ==
    {[f EXCEPT !.throughput = n] : n \in Numbers} \cup {[f EXCEPT !.nps = n] : n \in Numbers}
    \cup {[f EXCEPT !.priority = n] : n \in Numbers}
    \cup {[f EXCEPT !.network = TRUE], [f EXCEPT !.build = "variant"]}
    \cup {[f EXCEPT !.build = "custom", !.command = c] : c \in MCCommands}

Books(f) == {[f EXCEPT !.book = b] : b \in {"known", "NONE", "other"}}

DifferentGames(f) ==
    {[f EXCEPT !.dev = e] : e \in Threads \cup Ponders \cup {[GoodEngine EXCEPT !.rest = FALSE]}}
    \cup {[f EXCEPT !.base = e] : e \in Threads \cup Early \cup Written}
    \cup {[f EXCEPT !.games = n] : n \in Numbers} \cup {[f EXCEPT !.size = n] : n \in Numbers}

DifferentTune(f) ==
    {[f EXCEPT !.dev = e] : e \in Threads \cup OtherControls \cup Written}
    \cup {[f EXCEPT !.total = n] : n \in Numbers} \cup {[f EXCEPT !.batch = n] : n \in Numbers}
    \cup {[f EXCEPT !.total = "1", !.batch = "3"]} \cup {[f EXCEPT !.schedule = {n}] : n \in Numbers}
    \cup {[f EXCEPT !.seed = n] : n \in Numbers}
    \cup {[f EXCEPT !.patience = n, !.thresholds = b] : n \in Numbers, b \in BOOLEAN}
    \cup {[f EXCEPT !.kit = TRUE, !.params = p] : p \in Params \cup {GoodParams}}
    \cup {[f EXCEPT !.params = p] : p \in Params \ {[GoodParams EXCEPT !.names = {"p"}], [GoodParams EXCEPT !.inRange = FALSE]}}
    \cup {[f EXCEPT !.mapping = m] : m \in {"YO", "other"}}

GamesForm == [GoodForm EXCEPT !.mode = "GAMES"]
TuneForm == [GoodForm EXCEPT !.kind = "TUNE"]
DatagenForm == [GoodForm EXCEPT !.kind = "DATAGEN"]

AllForms ==
    {GoodForm, [GoodForm EXCEPT !.bounds = "reversed"], [GoodForm EXCEPT !.confidence = "outside"],
     [GoodForm EXCEPT !.mode = "other"], [GamesForm EXCEPT !.private = TRUE]}
    \cup DifferentGames(GamesForm) \cup Books(GamesForm)
    \cup Different(TuneForm) \cup DifferentTune(TuneForm) \cup Books(TuneForm)
    \cup Books(DatagenForm)
    \cup {[DatagenForm EXCEPT !.games = n] : n \in Numbers}
    \cup {[DatagenForm EXCEPT !.base = e] : e \in Written}
    \cup {[DatagenForm EXCEPT !.reverses = r] : r \in {"NO", "other"}}

\* One thread sees every form, the other one that reads all the rows.
FewForms == {[TuneForm EXCEPT !.network = TRUE, !.build = "variant", !.kit = TRUE]}

MCForms == [t \in {s1, s2} |-> IF t = s1 THEN AllForms ELSE FewForms]

MCKitTexts ==
    {[names |-> {"p"}, onBranch |-> TRUE, broken |-> FALSE],
     [names |-> {"p"}, onBranch |-> FALSE, broken |-> TRUE]}
-----------------------------------------------------------------------------
\* The machines that run a tuning are alike, and so are the threads on networks.
CONSTANTS m1, m2, u1, u2
Symmetry == Permutations(Tuners) \cup Permutations(NetThreads)

ServerInit ==
    /\ subject \in {"creation", "networks", "trajectory"}
    /\ CreationInit /\ NetworksInit /\ TrajectoryInit

CreationSteps   == subject = "creation" /\ CreationNext
NetworksSteps   == subject = "networks" /\ NetworksNext
TrajectorySteps == subject = "trajectory" /\ TrajectoryNext

ServerNext ==
    \/ CreationSteps /\ UNCHANGED <<netVars, trajectoryVars, subject>>
    \/ NetworksSteps /\ UNCHANGED <<creationVars, trajectoryVars, subject>>
    \/ TrajectorySteps /\ UNCHANGED <<creationVars, netVars, subject>>

ServerSpec == ServerInit /\ [][ServerNext]_serverVars

\* The types of all the variables.
ServerTypeOK == CreationTypeOK /\ NetworksTypeOK /\ TrajectoryTypeOK
=============================================================================
