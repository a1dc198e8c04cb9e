----------------------------- MODULE ServerProofs ---------------------------
(***************************************************************************)
(* The server's side, for any constants: every row that a form leads to    *)
(* can run, a profile's counts are real, the curve of an SPSA workload is  *)
(* complete, and all the variables keep their types.                       *)
(***************************************************************************)
EXTENDS MCServer, NetworksProofs

(***************************************************************************)
(* Creation: a form that passed its checks becomes a row the rest of the   *)
(* system can work with, for any forms, kits, threads and page changes.    *)
(***************************************************************************)
CanRun(w) ==
    /\ IsTest(w)
    /\ w.throughput >= 1 /\ w.nps >= 1
    /\ w.mode \in {"GAMES", "DATAGEN"} => w.games >= 1
    /\ w.mode = "SPSA" => w.batch <= w.pairs /\ w.tuned # {}
    /\ w.early \subseteq {"fischer", "movetime"}
    /\ w.args \cap Managed = {}

\* Python's conversions of the texts that the checks accept.
LEMMA Numerals ==
    /\ DOMAIN IntOf = {"-1", "0", "1", "3"}
    /\ \A x \in DOMAIN IntOf : IntOf[x] \in Int
    /\ \A x : VerifyCount(x) => x \in DOMAIN IntOf /\ IntOf[x] \in Nat \ {0}
    /\ \A x : VerifyGreaterThanZero(x) /\ x \in DOMAIN IntOf => IntOf[x] \in Nat \ {0}
  <1>1. DOMAIN IntOf = {"-1", "0", "1", "3"}
    BY DEF IntOf
  <1>2. IntOf["-1"] = -1 /\ IntOf["0"] = 0 /\ IntOf["1"] = 1 /\ IntOf["3"] = 3
    BY DEF IntOf
  <1> HIDE DEF IntOf
  <1> QED BY <1>1, <1>2 DEF VerifyCount, VerifyGreaterThanZero, Positive

\* Nothing that the worker manages is left of a pasted command.
LEMMA ArgumentsAreFree == \A a \in Arguments : a \cap Managed = {}
  <1>1. \A text : Normalized(text) \cap Managed = {}
    BY DEF Normalized, IsDropped
  <1>2. {} \cap Managed = {} /\ {"ARCH=AVX2"} \cap Managed = {}
    BY DEF Managed
  <1> QED BY <1>1, <1>2 DEF Arguments

LEMMA BuildArgsAre ==
    ASSUME NEW f \in Submitted, catalog \in Catalog, VerifyGeneral(f)
    PROVE  BuildArgs(f) \in Arguments
  <1>1. CASE f.build = "custom"
    <2>1. VerifyCommand(f.command) /\ f.command \in Commands \cup {g.command : g \in Submitted}
      BY <1>1 DEF VerifyGeneral
    <2>2. Normalized(f.command) \in Arguments
      BY <2>1 DEF Arguments
    <2> QED BY <1>1, <2>2 DEF BuildArgs
  <1>2. CASE f.build # "custom" /\ f.build = "variant" /\ catalog.variant # Absent
    BY <1>2 DEF BuildArgs, Catalog
  <1>3. CASE ~(f.build = "custom") /\ ~(f.build = "variant" /\ catalog.variant # Absent)
    <2>1. {} \in Arguments
      BY DEF Arguments
    <2> QED BY <1>3, <2>1 DEF BuildArgs
  <1> QED BY <1>1, <1>2, <1>3

\* A row that differs in some columns.
LEMMA RowWith ==
    ASSUME NEW r \in Row
    PROVE  /\ \A m \in Modes : [r EXCEPT !.mode = m] \in Row
           /\ \A n \in Int : [r EXCEPT !.size = n] \in Row
           /\ \A n \in Int : [r EXCEPT !.games = n] \in Row
           /\ \A n \in Int : [r EXCEPT !.batch = n] \in Row
           /\ \A n \in Int : [r EXCEPT !.pairs = n] \in Row
           /\ \A b \in BOOLEAN : /\ [r EXCEPT !.ponder = b] \in Row
                                 /\ [r EXCEPT !.reverses = b] \in Row
                                 /\ [r EXCEPT !.approved = b] \in Row
           /\ \A e \in SUBSET Controls : [r EXCEPT !.early = e] \in Row
           /\ \A u \in {f.params.active : f \in Submitted} : [r EXCEPT !.tuned = u] \in Row
           /\ \A k \in Kits \cup {Absent} : [r EXCEPT !.kit = k] \in Row
  BY DEF Row

\* The columns that every kind of form leads to.
LEMMA NewRowIs ==
    ASSUME NEW f \in Submitted, NEW base, NEW awaiting \in BOOLEAN, catalog \in Catalog,
           VerifyGeneral(f), VerifyCount(f.dev.threads), VerifyCount(base.threads),
           f.throughput \in DOMAIN IntOf
    PROVE  LET r == NewRow(f, base, awaiting)
           IN /\ r \in Row /\ r.args \cap Managed = {}
              /\ {r.size, r.batch, r.throughput, r.nps} \subseteq Nat \ {0}
              /\ {r.dev, r.base} \subseteq Nat
              /\ ~Merges(f) \/ (Whole(f.dev) /\ Whole(base)) => 0 \notin {r.dev, r.base}
              /\ r.early = {} /\ r.mode = "SPRT"
  <1>1. /\ IntOf[f.dev.threads] \in Nat \ {0} /\ IntOf[base.threads] \in Nat \ {0}
        /\ IntOf[f.throughput] \in Nat \ {0} /\ IntOf[f.nps] \in Nat \ {0}
        /\ IntOf[f.priority] \in Int
    BY Numerals DEF VerifyGeneral, VerifyInteger
  <1>2. BuildArgs(f) \in Arguments /\ BuildArgs(f) \cap Managed = {}
    BY BuildArgsAre, ArgumentsAreFree
  <1>3. /\ StoredThreads(f, f.dev) \in Nat /\ StoredThreads(f, base) \in Nat
        /\ ~Merges(f) \/ (Whole(f.dev) /\ Whole(base)) =>
               StoredThreads(f, f.dev) # 0 /\ StoredThreads(f, base) # 0
    BY <1>1 DEF StoredThreads, NoThreads
  <1> QED BY <1>1, <1>2, <1>3 DEF NewRow, Row, Modes

\* Whether a row can run does not depend on its other columns.
LEMMA CanRunAlike ==
    ASSUME NEW w \in Row, NEW x \in Row,
           w.dev = x.dev, w.base = x.base, w.size = x.size, w.throughput = x.throughput,
           w.nps = x.nps, w.mode = x.mode, w.ponder = x.ponder, w.reverses = x.reverses,
           w.games = x.games, w.batch = x.batch, w.pairs = x.pairs, w.tuned = x.tuned,
           w.early = x.early, w.args = x.args
    PROVE  /\ CanRun(w) => CanRun(x)
           /\ CanRun(WithThreads(w)) => CanRun(WithThreads(x))
  BY DEF Row, CanRun, IsTest, WithThreads, NoThreads

LEMMA TestCanRun ==
    ASSUME NEW f \in Submitted, NEW awaiting \in BOOLEAN, catalog \in Catalog,
           VerifyTest(f), ~CannotBuild(f)
    PROVE  LET w == CreateNewTest(f, awaiting)
           IN w \in Row /\ CanRun(WithThreads(w)) /\ (Whole(f.dev) /\ Whole(f.base) => CanRun(w))
  <1> DEFINE r == NewRow(f, f.base, awaiting)
             early == {s.control : s \in {x \in {f.dev, f.base} : x.ponder = "early"}}
             games == IF f.mode = "GAMES" THEN IntOf[f.games] ELSE 0
             ponder == f.dev.ponder # "off" \/ f.base.ponder # "off"
  <1>1. /\ r \in Row /\ r.args \cap Managed = {}
        /\ {r.size, r.batch, r.throughput, r.nps} \subseteq Nat \ {0} /\ {r.dev, r.base} \subseteq Nat
        /\ Whole(f.dev) /\ Whole(f.base) => 0 \notin {r.dev, r.base}
    BY NewRowIs DEF VerifyTest, VerifyEngine, CannotBuild
  <1>2. IntOf[f.size] \in Nat \ {0} /\ games \in Int /\ (f.mode = "GAMES" => games \in Nat \ {0})
    BY Numerals DEF VerifyTest, VerifySize, VerifyInteger, VerifyMaxGames
  <1>2a. IntOf[f.size] \in Int
    BY <1>2
  <1>3. early \subseteq {"fischer", "movetime"} /\ early \in SUBSET Controls
    BY DEF VerifyTest, VerifyPonder, VerifyEngine, Controls
  <1>4. f.mode \in {"SPRT", "GAMES"} /\ ponder \in BOOLEAN
    BY DEF VerifyTest, VerifyTestMode
  <1>5. CreateNewTest(f, awaiting) =
            [r EXCEPT !.mode = f.mode, !.size = IntOf[f.size], !.games = games,
                      !.ponder = ponder, !.early = early]
    BY DEF CreateNewTest
  <1> HIDE DEF r, early, games, ponder
  <1>6. CreateNewTest(f, awaiting) \in Row
    <2> DEFINE r1 == [r EXCEPT !.mode = f.mode]
               r2 == [r1 EXCEPT !.size = IntOf[f.size]]
               r3 == [r2 EXCEPT !.games = games]
               r4 == [r3 EXCEPT !.ponder = ponder]
               r5 == [r4 EXCEPT !.early = early]
    <2>1. r1 \in Row
      BY <1>1, <1>4, RowWith DEF Modes
    <2> HIDE DEF r1
    <2>2. r2 \in Row
      BY <2>1, <1>2a, RowWith
    <2> HIDE DEF r2
    <2>3. r3 \in Row
      BY <2>2, <1>2, RowWith
    <2> HIDE DEF r3
    <2>4. r4 \in Row
      BY <2>3, <1>4, RowWith
    <2> HIDE DEF r4
    <2>5. r5 \in Row
      BY <2>4, <1>3, RowWith
    <2> HIDE DEF r5
    <2>6. CreateNewTest(f, awaiting) = r5
      BY <1>5 DEF r1, r2, r3, r4, r5
    <2> QED BY <2>5, <2>6
  <1> DEFINE w == CreateNewTest(f, awaiting)
  <1>7. /\ w \in Row /\ w.dev = r.dev /\ w.base = r.base /\ w.size = IntOf[f.size] /\ w.batch = r.batch
        /\ w.throughput = r.throughput /\ w.nps = r.nps /\ w.mode = f.mode /\ w.games = games
        /\ w.ponder = ponder /\ w.reverses \in BOOLEAN /\ w.early = early /\ w.args = r.args
    BY <1>1, <1>5, <1>6 DEF Row
  <1> HIDE DEF w
  <1>8. CanRun(WithThreads(w)) /\ (Whole(f.dev) /\ Whole(f.base) => CanRun(w))
    BY <1>1, <1>2, <1>3, <1>4, <1>7 DEF Row, CanRun, IsTest, Modes, WithThreads, NoThreads
  <1> QED BY <1>7, <1>8 DEF w

LEMMA TuneCanRun ==
    ASSUME NEW f \in Submitted, NEW awaiting \in BOOLEAN, catalog \in Catalog,
           f.kind = "TUNE", VerifyTune(f), ~CannotBuild(f)
    PROVE  CreateNewTune(f, awaiting) \in Row /\ CanRun(CreateNewTune(f, awaiting))
  <1> DEFINE r == NewRow(f, f.dev, awaiting)
             c == SpsaConfig(f)
  <1>1. /\ r \in Row /\ r.args \cap Managed = {} /\ r.early = {}
        /\ {r.dev, r.base, r.size, r.batch, r.throughput, r.nps} \subseteq Nat \ {0}
    BY NewRowIs DEF VerifyTune, VerifyEngine, CannotBuild, Merges
  <1>2. /\ IntOf[f.batch] \in Nat \ {0} /\ IntOf[f.total] \in Nat \ {0}
        /\ IntOf[f.batch] <= IntOf[f.total]
    BY Numerals DEF VerifyTune, VerifyPairCounts, VerifyInteger
  <1>2a. IntOf[f.batch] \in Int /\ IntOf[f.total] \in Int
    BY <1>2
  <1>3. f.params.active # {} /\ c.kit \in Kits \cup {Absent}
    BY DEF VerifyTune, VerifyParams, SpsaConfig, Catalog
  <1>4. CreateNewTune(f, awaiting) =
            [r EXCEPT !.mode = "SPSA", !.size = IntOf[f.batch], !.batch = IntOf[f.batch],
                      !.pairs = IntOf[f.total], !.tuned = f.params.active, !.kit = c.kit]
    BY DEF CreateNewTune, SpsaConfig
  <1> HIDE DEF r, c
  <1>5. CreateNewTune(f, awaiting) \in Row
    <2> DEFINE r1 == [r EXCEPT !.mode = "SPSA"]
               r2 == [r1 EXCEPT !.size = IntOf[f.batch]]
               r3 == [r2 EXCEPT !.batch = IntOf[f.batch]]
               r4 == [r3 EXCEPT !.pairs = IntOf[f.total]]
               r5 == [r4 EXCEPT !.tuned = f.params.active]
               r6 == [r5 EXCEPT !.kit = c.kit]
    <2>1. r1 \in Row
      BY <1>1, RowWith DEF Modes
    <2> HIDE DEF r1
    <2>2. r2 \in Row
      BY <2>1, <1>2a, RowWith
    <2> HIDE DEF r2
    <2>3. r3 \in Row
      BY <2>2, <1>2a, RowWith
    <2> HIDE DEF r3
    <2>4. r4 \in Row
      BY <2>3, <1>2a, RowWith
    <2> HIDE DEF r4
    <2>5. r5 \in Row
      BY <2>4, RowWith
    <2> HIDE DEF r5
    <2>6. r6 \in Row
      BY <2>5, <1>3, RowWith
    <2> HIDE DEF r6
    <2>7. CreateNewTune(f, awaiting) = r6
      BY <1>4 DEF r1, r2, r3, r4, r5, r6
    <2> QED BY <2>6, <2>7
  <1>6. CanRun(CreateNewTune(f, awaiting))
    BY <1>1, <1>2, <1>3, <1>4 DEF Row, CanRun, IsTest, Modes
  <1> QED BY <1>5, <1>6

LEMMA DatagenCanRun ==
    ASSUME NEW f \in Submitted, NEW awaiting \in BOOLEAN, catalog \in Catalog,
           f.kind = "DATAGEN", VerifyDatagen(f), ~CannotBuild(f)
    PROVE  CreateNewDatagen(f, awaiting) \in Row /\ CanRun(CreateNewDatagen(f, awaiting))
  <1> DEFINE r == NewRow(f, f.base, awaiting)
             reverses == f.reverses = "YES"
  <1>1. /\ r \in Row /\ r.args \cap Managed = {} /\ r.early = {}
        /\ {r.dev, r.base, r.size, r.batch, r.throughput, r.nps} \subseteq Nat \ {0}
    BY NewRowIs DEF VerifyDatagen, VerifyEngine, CannotBuild, Merges
  <1>2. IntOf[f.size] \in Nat \ {0} /\ IntOf[f.games] \in Nat \ {0}
    BY Numerals DEF VerifyDatagen, VerifySize, VerifyInteger
  <1>2a. IntOf[f.size] \in Int /\ IntOf[f.games] \in Int
    BY <1>2
  <1>3. reverses \in BOOLEAN
    OBVIOUS
  <1>4. CreateNewDatagen(f, awaiting) =
            [r EXCEPT !.mode = "DATAGEN", !.size = IntOf[f.size], !.games = IntOf[f.games],
                      !.reverses = reverses]
    BY DEF CreateNewDatagen
  <1> HIDE DEF r, reverses
  <1>5. CreateNewDatagen(f, awaiting) \in Row
    <2> DEFINE r1 == [r EXCEPT !.mode = "DATAGEN"]
               r2 == [r1 EXCEPT !.size = IntOf[f.size]]
               r3 == [r2 EXCEPT !.games = IntOf[f.games]]
               r4 == [r3 EXCEPT !.reverses = reverses]
    <2>1. r1 \in Row
      BY <1>1, RowWith DEF Modes
    <2> HIDE DEF r1
    <2>2. r2 \in Row
      BY <2>1, <1>2a, RowWith
    <2> HIDE DEF r2
    <2>3. r3 \in Row
      BY <2>2, <1>2a, RowWith
    <2> HIDE DEF r3
    <2>4. r4 \in Row
      BY <2>3, <1>3, RowWith
    <2> HIDE DEF r4
    <2>5. CreateNewDatagen(f, awaiting) = r4
      BY <1>4 DEF r1, r2, r3, r4
    <2> QED BY <2>4, <2>5
  <1>6. CanRun(CreateNewDatagen(f, awaiting))
    BY <1>1, <1>2, <1>3, <1>4 DEF Row, CanRun, IsTest, Modes
  <1> QED BY <1>5, <1>6

LEMMA NewTestCanRun ==
    ASSUME NEW t \in CreationThreads, NEW f \in Verified[t], NEW awaiting \in BOOLEAN,
           catalog \in Catalog, ~CannotBuild(f)
    PROVE  LET w == NewTest(f, awaiting)
               isCut == Merges(f) /\ ~(Whole(f.dev) /\ Whole(f.base))
           IN w \in Row /\ CanRun(IF isCut THEN WithThreads(w) ELSE w)
  <1>1. f \in Submitted /\ Verify(f)
    BY DEF Verified, Submitted
  <1> QED BY <1>1, TestCanRun, TuneCanRun, DatagenCanRun DEF Verify, NewTest, Merges

(***************************************************************************)
(* The inductive invariant of the creation: the variables have their       *)
(* types, a request holds what its next step relies on, and a copy of the  *)
(* account that is yet to be saved shows no more than there is.            *)
(***************************************************************************)
\* The tests and games that the account should show.
Shown == Len(created) - Cardinality(Uncounted) - missed.tests
Credited == reported - owed - missed.games

\* A game is owed, missed or credited.
CountTypesOK ==
    /\ owed \in Nat /\ reported \in 0 .. pageChanges /\ missed \in [tests : Nat, games : Nat]
    /\ owed + missed.games <= reported

CreationTypes ==
    /\ catalog \in Catalog /\ account \in Profile
    /\ created \in Seq(Row) /\ Len(created) <= MaxTests
    /\ form \in [CreationThreads -> Request \cup {Absent}]
    /\ submits \in [CreationThreads -> 0 .. MaxSubmits]
    /\ lost \in BOOLEAN /\ cut \subseteq 1 .. Len(created) /\ pageChanges \in 0 .. MaxPageChanges
    /\ CountTypesOK

RequestOK(t) ==
    form[t] # Absent =>
        /\ form[t].at \in {"github", "kit", "build"} => form[t].form \in Verified[t]
        /\ form[t].at = "retune" => form[t].form \in Kits
        /\ form[t].at \in {"profile", "count", "finalize"} => form[t].test \in 1 .. Len(created)
        /\ form[t].at \in {"count", "config", "repos"} =>
              /\ form[t].profile \in Profile
              /\ form[t].profile.tests <= Shown /\ form[t].profile.games <= Credited

Requests == \A t \in CreationThreads : RequestOK(t)

AccountIsReal ==
    /\ account.tests <= Shown /\ account.games <= Credited
    /\ ~lost => account.tests = Shown /\ account.games = Credited

RowsCanRun == \A i \in 1 .. Len(created) : CanRun(Readable(i))

CreationInv == CreationTypes /\ Requests /\ AccountIsReal /\ RowsCanRun

LEMMA ShownIsANumber ==
    ASSUME CreationTypes
    PROVE  /\ IsFiniteSet(Uncounted) /\ Cardinality(Uncounted) \in Nat
           /\ Len(created) \in Nat /\ Shown \in Int /\ Shown <= Len(created) /\ missed.tests \in Nat
  <1>1. IsFiniteSet(Uncounted)
    BY CreationAssumption, FS_Subset DEF Uncounted
  <1>2. Cardinality(Uncounted) \in Nat
    BY <1>1, FS_CardinalityType
  <1>3. Len(created) \in Nat /\ missed.tests \in Nat
    BY DEF CreationTypes, CountTypesOK
  <1> QED BY <1>1, <1>2, <1>3 DEF Shown

LEMMA CreditedIsANumber ==
    ASSUME CountTypesOK, pageChanges \in Nat
    PROVE  Credited \in Nat /\ Credited <= reported /\ reported \in Nat
  BY DEF CountTypesOK, Credited

\* A step that counts nothing.
LEMMA CountsStay ==
    ASSUME CreationTypes, UNCHANGED <<owed, reported, missed>>,
           pageChanges' \in {pageChanges, pageChanges + 1} \cap 0 .. MaxPageChanges
    PROVE  CountTypesOK' /\ Credited' = Credited /\ Credited \in Nat
  <1>1. CountTypesOK /\ pageChanges \in Nat
    BY DEF CreationTypes
  <1>2. CountTypesOK' /\ Credited' = Credited
    BY <1>1 DEF CountTypesOK, Credited
  <1> QED BY <1>1, <1>2, CreditedIsANumber

\* A step of a thread that neither adds to nor takes from the tests not counted.
LEMMA SameUncounted ==
    ASSUME CreationTypes, NEW t \in CreationThreads, NEW v,
           form' = [form EXCEPT ![t] = v],
           At(t, "profile") \/ At(t, "count") <=> v # Absent /\ v.at \in {"profile", "count"}
    PROVE  Uncounted' = Uncounted
  <1>1. \A o \in CreationThreads : form'[o] = IF o = t THEN v ELSE form[o]
    BY DEF CreationTypes
  <1> QED BY <1>1 DEF Uncounted, At, Idle

\* The requests of the other threads do not mind.
LEMMA OtherRequests ==
    ASSUME CreationInv, NEW t \in CreationThreads, NEW v, form' = [form EXCEPT ![t] = v],
           Len(created') \in Nat, Len(created') >= Len(created),
           Shown' \in Int, Shown' >= Shown, Credited' \in Nat, Credited' >= Credited
    PROVE  \A o \in CreationThreads \ {t} : RequestOK(o)'
  <1> SUFFICES ASSUME NEW o \in CreationThreads \ {t} PROVE RequestOK(o)'
    OBVIOUS
  <1>1. form'[o] = form[o] /\ RequestOK(o)
    BY DEF CreationInv, CreationTypes, Requests
  <1>2. Len(created) \in Nat /\ Shown \in Int /\ Credited \in Int
    BY ShownIsANumber, CreditedIsANumber DEF CreationInv, CreationTypes
  <1>3. ASSUME form[o].profile \in Profile
        PROVE  form[o].profile.tests \in Int /\ form[o].profile.games \in Int
    BY <1>3 DEF Profile
  <1> QED BY <1>1, <1>2, <1>3 DEF RequestOK

\* A step that moves a request of a thread and nothing that is counted.
LEMMA MoveKeeps ==
    ASSUME CreationInv, NEW t \in CreationThreads, NEW v \in Request \cup {Absent},
           form' = [form EXCEPT ![t] = v],
           At(t, "profile") \/ At(t, "count") <=> v # Absent /\ v.at \in {"profile", "count"},
           v # Absent =>
             /\ v.at \in {"github", "kit", "build"} => v.form \in Verified[t]
             /\ v.at = "retune" => v.form \in Kits
             /\ v.at \in {"profile", "count", "finalize"} => v.test \in 1 .. Len(created)
             /\ v.at \in {"count", "config", "repos"} =>
                   v.profile \in Profile /\ v.profile.tests <= Shown /\ v.profile.games <= Credited,
           UNCHANGED <<created, owed, reported, missed, cut, lost>>, catalog' \in Catalog,
           UNCHANGED account, pageChanges' \in {pageChanges, pageChanges + 1} \cap 0 .. MaxPageChanges,
           submits' \in [CreationThreads -> 0 .. MaxSubmits]
    PROVE  CreationInv'
  <1>0. CountTypesOK' /\ Credited' = Credited /\ Credited \in Nat
    BY CountsStay DEF CreationInv
  <1>1. Shown' = Shown /\ Shown \in Int /\ Len(created) \in Nat
    BY SameUncounted, ShownIsANumber DEF Shown, CreationInv
  <1>2. form'[t] = v
    BY DEF CreationInv, CreationTypes
  <1>3. RequestOK(t)'
    BY <1>0, <1>1, <1>2 DEF RequestOK
  <1>4. \A o \in CreationThreads \ {t} : RequestOK(o)'
    <2>1. /\ Len(created') = Len(created) /\ Len(created') \in Nat /\ Len(created') >= Len(created)
          /\ Shown' \in Int /\ Shown' >= Shown
      BY <1>1
    <2>2. Credited' \in Nat /\ Credited' >= Credited
      BY <1>0
    <2> QED BY <2>1, <2>2, OtherRequests
  <1>5. CreationTypes'
    <2>1. form' \in [CreationThreads -> Request \cup {Absent}]
      BY DEF CreationInv, CreationTypes
    <2>2. pageChanges' \in 0 .. MaxPageChanges
      BY DEF CreationInv, CreationTypes
    <2> QED BY <1>0, <2>1, <2>2 DEF CreationInv, CreationTypes
  <1>6. AccountIsReal' /\ RowsCanRun'
    BY <1>0, <1>1 DEF CreationInv, AccountIsReal, RowsCanRun, Readable
  <1> QED BY <1>3, <1>4, <1>5, <1>6 DEF CreationInv, Requests

LEMMA SubmitKeeps ==
    ASSUME CreationInv, NEW t \in CreationThreads, Submit(t)
    PROVE  CreationInv'
  <1>1. PICK f \in Verified[t] :
            form' = [form EXCEPT ![t] =
                [at |-> "github", form |-> f, awaiting |-> FALSE, test |-> 0, profile |-> Absent]]
    BY DEF Submit
  <1> DEFINE v == [at |-> "github", form |-> f, awaiting |-> FALSE, test |-> 0, profile |-> Absent]
  <1>2. f \in Submitted
    BY <1>1 DEF Verified, Submitted
  <1>3. v \in Request
    BY <1>2 DEF Request
  <1>4. submits' \in [CreationThreads -> 0 .. MaxSubmits]
    BY CreationAssumption DEF Submit, CreationInv, CreationTypes
  <1>5. v # Absent /\ v.at = "github" /\ v.form = f /\ ~(At(t, "profile") \/ At(t, "count"))
    BY <1>3, CreationAssumption DEF Submit, At
  <1>6. catalog' \in Catalog /\ pageChanges' \in {pageChanges, pageChanges + 1} \cap 0 .. MaxPageChanges
    BY DEF Submit, CreationInv, CreationTypes
  <1>7. UNCHANGED <<account, created, owed, reported, missed, cut, lost>>
    BY DEF Submit, reportVars, pastVars
  <1> HIDE DEF v
  <1> QED BY <1>1, <1>3, <1>4, <1>5, <1>6, <1>7, MoveKeeps DEF v

LEMMA AskGithubKeeps ==
    ASSUME CreationInv, NEW t \in CreationThreads, AskGithub(t)
    PROVE  CreationInv'
  <1>1. form[t] \in Request /\ form[t].at = "github" /\ form[t] # Absent /\ form[t].form \in Verified[t]
    BY DEF AskGithub, At, Idle, CreationInv, CreationTypes, Requests, RequestOK
  <1>2. /\ catalog' \in Catalog /\ pageChanges' \in {pageChanges, pageChanges + 1} \cap 0 .. MaxPageChanges
        /\ submits' \in [CreationThreads -> 0 .. MaxSubmits]
        /\ UNCHANGED <<account, created, owed, reported, missed, cut, lost>> /\ ~(At(t, "profile") \/ At(t, "count"))
    BY <1>1 DEF AskGithub, At, CreationInv, CreationTypes, reportVars, pastVars
  <1>3. CASE Leave(t)
    BY <1>1, <1>2, <1>3, MoveKeeps DEF Leave
  <1>4. ASSUME NEW a \in Awaiting(form[t].form),
               form' = [form EXCEPT ![t].at = IF form[t].form.kind = "TUNE" THEN "kit" ELSE "build",
                                    ![t].awaiting = a]
        PROVE  CreationInv'
    <2> DEFINE v == [form[t] EXCEPT !.at = IF form[t].form.kind = "TUNE" THEN "kit" ELSE "build",
                                    !.awaiting = a]
    <2>1. form' = [form EXCEPT ![t] = v]
      BY <1>4 DEF CreationInv, CreationTypes
    <2>2. a \in BOOLEAN
      BY <1>4 DEF Awaiting
    <2>3. v \in Request /\ v.at \in {"kit", "build"} /\ v.form = form[t].form
      BY <1>1, <2>2 DEF Request
    <2>4. v # Absent
      BY <2>3, CreationAssumption
    <2> HIDE DEF v
    <2> QED BY <1>1, <1>2, <2>1, <2>3, <2>4, MoveKeeps
  <1> QED BY <1>3, <1>4 DEF AskGithub

LEMMA MatchKitKeeps ==
    ASSUME CreationInv, NEW t \in CreationThreads, MatchKit(t)
    PROVE  CreationInv'
  <1>1. form[t] \in Request /\ form[t].at = "kit" /\ form[t] # Absent /\ form[t].form \in Verified[t]
    BY DEF MatchKit, At, Idle, CreationInv, CreationTypes, Requests, RequestOK
  <1>2. /\ catalog' \in Catalog /\ pageChanges' \in {pageChanges, pageChanges + 1} \cap 0 .. MaxPageChanges
        /\ submits' \in [CreationThreads -> 0 .. MaxSubmits]
        /\ UNCHANGED <<account, created, owed, reported, missed, cut, lost>> /\ ~(At(t, "profile") \/ At(t, "count"))
    BY <1>1 DEF MatchKit, At, CreationInv, CreationTypes, reportVars, pastVars
  <1>3. CASE Leave(t)
    BY <1>1, <1>2, <1>3, MoveKeeps DEF Leave
  <1>4. CASE Move(t, "build")
    <2> DEFINE v == [form[t] EXCEPT !.at = "build"]
    <2>1. form' = [form EXCEPT ![t] = v]
      BY <1>4 DEF Move, CreationInv, CreationTypes
    <2>2. v \in Request /\ v.at = "build" /\ v.form = form[t].form
      BY <1>1 DEF Request
    <2>3. v # Absent
      BY <2>2, CreationAssumption
    <2> HIDE DEF v
    <2> QED BY <1>1, <1>2, <2>1, <2>2, <2>3, MoveKeeps
  <1> QED BY <1>3, <1>4 DEF MatchKit

LEMMA FailBuildingKeeps ==
    ASSUME CreationInv, NEW t \in CreationThreads, FailBuilding(t)
    PROVE  CreationInv'
  <1>1. form[t] \in Request /\ form[t].at = "build" /\ form[t] # Absent
    BY DEF FailBuilding, At, Idle, CreationInv, CreationTypes
  <1>2. /\ catalog' \in Catalog /\ pageChanges' \in {pageChanges, pageChanges + 1} \cap 0 .. MaxPageChanges
        /\ submits' \in [CreationThreads -> 0 .. MaxSubmits]
        /\ UNCHANGED <<account, created, owed, reported, missed, cut, lost>> /\ ~(At(t, "profile") \/ At(t, "count"))
    BY <1>1 DEF FailBuilding, At, CreationInv, CreationTypes, reportVars, pastVars
  <1> QED BY <1>2, MoveKeeps DEF FailBuilding, Leave

LEMMA ReadProfileKeeps ==
    ASSUME CreationInv, NEW t \in CreationThreads, ReadProfile(t)
    PROVE  CreationInv'
  <1>1. form[t] \in Request /\ form[t].at = "profile" /\ form[t] # Absent
        /\ form[t].test \in 1 .. Len(created)
    BY DEF ReadProfile, At, Idle, CreationInv, CreationTypes, Requests, RequestOK
  <1>2. /\ catalog' \in Catalog /\ pageChanges' \in {pageChanges, pageChanges + 1} \cap 0 .. MaxPageChanges
        /\ submits' \in [CreationThreads -> 0 .. MaxSubmits]
        /\ UNCHANGED <<account, created, owed, reported, missed, cut, lost>> /\ At(t, "profile")
    BY DEF ReadProfile, CreationInv, CreationTypes, reportVars, pastVars
  <1> DEFINE v == [form[t] EXCEPT !.at = "count", !.profile = account]
  <1>3. form' = [form EXCEPT ![t] = v]
    BY DEF ReadProfile, CreationInv, CreationTypes
  <1>4. account \in Profile /\ account.tests <= Shown /\ account.games <= Credited
    BY DEF CreationInv, CreationTypes, AccountIsReal
  <1>5. v \in Request /\ v.at = "count" /\ v.profile = account /\ v.test = form[t].test
    BY <1>1, <1>4 DEF Request
  <1>6. v # Absent
    BY <1>5, CreationAssumption
  <1> HIDE DEF v
  <1> QED BY <1>1, <1>2, <1>3, <1>4, <1>5, <1>6, MoveKeeps

LEMMA OpenProfilePageKeeps ==
    ASSUME CreationInv, NEW t \in CreationThreads, OpenProfilePage(t)
    PROVE  CreationInv'
  <1> DEFINE v == [at |-> "config", form |-> Absent, awaiting |-> FALSE, test |-> 0, profile |-> account]
  <1>1. account \in Profile /\ account.tests <= Shown /\ account.games <= Credited
    BY DEF CreationInv, CreationTypes, AccountIsReal
  <1>2. v \in Request /\ v.at = "config" /\ v.profile = account
    BY <1>1 DEF Request
  <1>3. v # Absent
    BY <1>2, CreationAssumption
  <1>4. form' = [form EXCEPT ![t] = v] /\ UNCHANGED <<account, created, owed, reported, missed, cut, lost>>
    BY DEF OpenProfilePage, reportVars, pastVars
  <1>5. /\ catalog' \in Catalog /\ pageChanges' \in {pageChanges, pageChanges + 1} \cap 0 .. MaxPageChanges
        /\ submits' \in [CreationThreads -> 0 .. MaxSubmits]
    BY CreationAssumption DEF OpenProfilePage, PageChange, CreationInv, CreationTypes
  <1>6. ~(At(t, "profile") \/ At(t, "count"))
    BY DEF OpenProfilePage, At
  <1> HIDE DEF v
  <1> QED BY <1>1, <1>2, <1>3, <1>4, <1>5, <1>6, MoveKeeps

LEMMA OpenRetuneKeeps ==
    ASSUME CreationInv, NEW t \in CreationThreads, OpenRetune(t)
    PROVE  CreationInv'
  <1> DEFINE v == [at |-> "retune", form |-> catalog.kit, awaiting |-> FALSE, test |-> 0,
                   profile |-> Absent]
  <1>1. catalog.kit \in Kits
    BY DEF OpenRetune, CreationInv, CreationTypes, Catalog
  <1>2. v \in Request /\ v.at = "retune" /\ v.form = catalog.kit
    BY <1>1 DEF Request
  <1>3. v # Absent
    BY <1>2, CreationAssumption
  <1>4. form' = [form EXCEPT ![t] = v] /\ UNCHANGED <<account, created, owed, reported, missed, cut, lost>>
    BY DEF OpenRetune, reportVars, pastVars
  <1>5. /\ catalog' \in Catalog /\ pageChanges' \in {pageChanges, pageChanges + 1} \cap 0 .. MaxPageChanges
        /\ submits' \in [CreationThreads -> 0 .. MaxSubmits]
    BY CreationAssumption DEF OpenRetune, PageChange, CreationInv, CreationTypes
  <1>6. ~(At(t, "profile") \/ At(t, "count"))
    BY DEF OpenRetune, At
  <1> HIDE DEF v
  <1> QED BY <1>1, <1>2, <1>3, <1>4, <1>5, <1>6, MoveKeeps

\* A kit that is on its branch is the kit of some text, too.
LEMMA KitsAreOnBranch == \A k \in Kits : [k EXCEPT !.onBranch = TRUE] \in Kits
  <1> SUFFICES ASSUME NEW k \in Kits PROVE [k EXCEPT !.onBranch = TRUE] \in Kits
    OBVIOUS
  <1>1. CASE k \in KitTexts
    BY <1>1 DEF Kits
  <1>2. CASE k \notin KitTexts
    <2>1. PICK x \in KitTexts : k = [x EXCEPT !.onBranch = TRUE]
      BY <1>2 DEF Kits
    <2>2. [k EXCEPT !.onBranch = TRUE] = [x EXCEPT !.onBranch = TRUE]
      BY <2>1
    <2> QED BY <2>2 DEF Kits
  <1> QED BY <1>1, <1>2

LEMMA CatalogWith ==
    ASSUME catalog \in Catalog
    PROVE  /\ \A b \in BOOLEAN : [catalog EXCEPT !.net = b] \in Catalog
           /\ \A v \in Arguments \cup {Absent} : [catalog EXCEPT !.variant = v] \in Catalog
           /\ \A k \in Kits \cup {Absent} : [catalog EXCEPT !.kit = k] \in Catalog
  BY DEF Catalog

LEMMA SaveRetuneKeeps ==
    ASSUME CreationInv, NEW t \in CreationThreads, SaveRetune(t)
    PROVE  CreationInv'
  <1>1. form[t] \in Request /\ form[t].at = "retune" /\ form[t] # Absent /\ form[t].form \in Kits
    BY DEF SaveRetune, At, Idle, CreationInv, CreationTypes, Requests, RequestOK
  <1>2. [form[t].form EXCEPT !.onBranch = TRUE] \in Kits
    BY <1>1, KitsAreOnBranch
  <1>3. catalog' \in Catalog
    BY <1>2, CatalogWith DEF SaveRetune, CreationInv, CreationTypes
  <1>4. /\ pageChanges' \in {pageChanges, pageChanges + 1} \cap 0 .. MaxPageChanges
        /\ submits' \in [CreationThreads -> 0 .. MaxSubmits]
        /\ UNCHANGED <<account, created, owed, reported, missed, cut, lost>> /\ ~(At(t, "profile") \/ At(t, "count"))
    BY <1>1 DEF SaveRetune, At, CreationInv, CreationTypes, reportVars, pastVars
  <1> QED BY <1>1, <1>3, <1>4, MoveKeeps DEF SaveRetune, Leave

\* The row is saved, and the account is still to count it.
LEMMA SaveTestKeeps ==
    ASSUME CreationInv, NEW t \in CreationThreads, SaveTest(t)
    PROVE  CreationInv'
  <1> DEFINE w == NewTest(form[t].form, form[t].awaiting)
             isCut == /\ Merges(form[t].form)
                      /\ ~(Whole(form[t].form.dev) /\ Whole(form[t].form.base))
             v == [form[t] EXCEPT !.at = "profile", !.form = Absent, !.awaiting = FALSE,
                                  !.test = Len(created) + 1]
  <1>1. form[t] \in Request /\ form[t].at = "build" /\ form[t] # Absent /\ form[t].form \in Verified[t]
    BY DEF SaveTest, At, Idle, CreationInv, CreationTypes, Requests, RequestOK
  <1>2. w \in Row /\ CanRun(IF isCut THEN WithThreads(w) ELSE w)
    <2>1. form[t].awaiting \in BOOLEAN /\ catalog \in Catalog /\ ~CannotBuild(form[t].form)
      BY <1>1 DEF SaveTest, Request, CreationInv, CreationTypes
    <2> QED BY <1>1, <2>1, NewTestCanRun
  <1>3. /\ created \in Seq(Row) /\ created' = Append(created, w) /\ Len(created) < MaxTests
        /\ form' = [form EXCEPT ![t] = v]
    BY DEF SaveTest, CreationInv, CreationTypes
  <1> HIDE DEF w
  <1>4. created' \in Seq(Row) /\ Len(created') = Len(created) + 1 /\ Len(created) \in Nat
    BY <1>2, <1>3
  <1>5. v \in Request /\ v.at = "profile" /\ v.test = Len(created) + 1
    <2> DEFINE u == [form[t] EXCEPT !.at = "profile", !.form = Absent, !.awaiting = FALSE]
    <2>1. u \in Request /\ u.at = "profile"
      BY <1>1 DEF Request
    <2>2. v = [u EXCEPT !.test = Len(created) + 1] /\ Len(created) + 1 \in Nat
      BY <1>4
    <2> HIDE DEF u, v
    <2> QED BY <2>1, <2>2 DEF Request
  <1>6. v # Absent
    BY <1>5, CreationAssumption
  <1> HIDE DEF v
  <1>7. form'[t] = v /\ \A o \in CreationThreads : form'[o] = IF o = t THEN v ELSE form[o]
    BY <1>3 DEF CreationInv, CreationTypes
  <1>8. Shown' = Shown /\ Shown \in Int
    <2>1. Uncounted' = Uncounted \cup {t} /\ t \notin Uncounted
      BY <1>1, <1>5, <1>6, <1>7 DEF Uncounted, At, Idle
    <2>2. /\ IsFiniteSet(Uncounted) /\ Cardinality(Uncounted) \in Nat /\ Shown \in Int
          /\ missed.tests \in Nat /\ missed' = missed
      BY ShownIsANumber DEF CreationInv, SaveTest
    <2>3. Cardinality(Uncounted') = Cardinality(Uncounted) + 1
      BY <2>1, <2>2, FS_AddElement
    <2> QED BY <1>4, <2>2, <2>3 DEF Shown
  <1>9. UNCHANGED <<catalog, account, owed, reported, missed, lost, submits, pageChanges>>
    BY DEF SaveTest, reportVars
  <1>9a. cut' = IF isCut THEN cut \cup {Len(created) + 1} ELSE cut
    BY DEF SaveTest
  <1>9b. CountTypesOK' /\ Credited' = Credited /\ Credited \in Nat
    BY <1>9, CountsStay DEF CreationInv, CreationTypes
  <1>9c. cut \subseteq 1 .. Len(created)
    BY DEF CreationInv, CreationTypes
  <1> HIDE DEF isCut
  <1>10. CreationTypes'
    <2>1. form' \in [CreationThreads -> Request \cup {Absent}]
      BY <1>3, <1>5 DEF CreationInv, CreationTypes
    <2>2. Len(created') <= MaxTests
      BY <1>3, <1>4, CreationAssumption
    <2>3. cut' \subseteq 1 .. Len(created')
      <3>1. /\ Len(created) + 1 \in 1 .. Len(created')
            /\ 1 .. Len(created) \subseteq 1 .. Len(created')
        BY <1>4
      <3> QED BY <1>9a, <1>9c, <3>1
    <2> QED BY <1>4, <1>9, <1>9b, <2>1, <2>2, <2>3 DEF CreationInv, CreationTypes
  <1>11. Requests'
    <2>1. RequestOK(t)'
      BY <1>4, <1>5, <1>7 DEF RequestOK
    <2>2. Credited' \in Nat /\ Credited' >= Credited
      BY <1>9b
    <2>3. Len(created') \in Nat /\ Len(created') >= Len(created) /\ Shown' \in Int /\ Shown' >= Shown
      BY <1>4, <1>8
    <2>4. \A o \in CreationThreads \ {t} : RequestOK(o)'
      BY <1>3, <2>2, <2>3, OtherRequests
    <2> QED BY <2>1, <2>4 DEF Requests
  <1>12. AccountIsReal'
    BY <1>8, <1>9, <1>9b DEF CreationInv, AccountIsReal
  <1>13. RowsCanRun'
    <2> SUFFICES ASSUME NEW i \in 1 .. Len(created') PROVE CanRun(Readable(i)')
      BY DEF RowsCanRun
    <2>1. CASE i = Len(created) + 1
      <3>1. created'[i] = w /\ (i \in cut' <=> isCut)
        BY <1>3, <1>4, <1>9a, <1>9c, <2>1
      <3> QED BY <1>2, <3>1 DEF Readable
    <2>2. CASE i # Len(created) + 1
      <3>1. i \in 1 .. Len(created) /\ created'[i] = created[i] /\ (i \in cut' <=> i \in cut)
        BY <1>3, <1>4, <1>9a, <2>2
      <3>2. Readable(i)' = Readable(i)
        BY <3>1 DEF Readable
      <3> QED BY <3>1, <3>2 DEF CreationInv, RowsCanRun
    <2> QED BY <2>1, <2>2
  <1> QED BY <1>10, <1>11, <1>12, <1>13 DEF CreationInv

\* The copy of the account counts the test, whatever it brings back.
LEMMA SaveCountKeeps ==
    ASSUME CreationInv, NEW t \in CreationThreads, SaveCount(t)
    PROVE  CreationInv'
  <1> DEFINE p == form[t].profile
             v == [form[t] EXCEPT !.at = "finalize", !.profile = Absent]
  <1>1. /\ form[t] \in Request /\ form[t].at = "count" /\ form[t] # Absent
        /\ form[t].test \in 1 .. Len(created)
        /\ p \in Profile /\ p.tests <= Shown /\ p.games <= Credited
    BY DEF SaveCount, At, Idle, CreationInv, CreationTypes, Requests, RequestOK
  <1>2. form' = [form EXCEPT ![t] = v] /\ account' = [p EXCEPT !.tests = @ + 1]
    BY DEF SaveCount, CreationInv, CreationTypes
  <1>3. UNCHANGED <<catalog, created, owed, reported, missed, cut, submits, pageChanges>>
    BY DEF SaveCount, reportVars
  <1>3a. CountTypesOK' /\ Credited' = Credited /\ Credited \in Nat
    BY <1>3, CountsStay DEF CreationInv, CreationTypes
  <1>4. v \in Request /\ v.at = "finalize" /\ v.test = form[t].test
    BY <1>1 DEF Request
  <1>5. v # Absent
    BY <1>4, CreationAssumption
  <1>6. lost' \in BOOLEAN /\ (lost' <=> lost \/ account # p)
    BY DEF SaveCount
  <1> HIDE DEF p, v
  <1>7. account' \in Profile /\ account'.tests = p.tests + 1 /\ account'.games = p.games
    BY <1>1, <1>2 DEF Profile
  <1>8. form'[t] = v /\ \A o \in CreationThreads : form'[o] = IF o = t THEN v ELSE form[o]
    BY <1>2 DEF CreationInv, CreationTypes
  <1>9. Shown' = Shown + 1 /\ Shown \in Int /\ Len(created) \in Nat
    <2>1. Uncounted' = Uncounted \ {t} /\ t \in Uncounted
      BY <1>1, <1>4, <1>8 DEF Uncounted, At, Idle
    <2>2. /\ IsFiniteSet(Uncounted) /\ Cardinality(Uncounted) \in Nat /\ Shown \in Int
          /\ Len(created) \in Nat /\ missed.tests \in Nat
      BY ShownIsANumber DEF CreationInv
    <2>3. Cardinality(Uncounted') = Cardinality(Uncounted) - 1
      BY <2>1, <2>2, FS_RemoveElement
    <2> QED BY <1>3, <2>2, <2>3 DEF Shown
  <1>10. CreationTypes'
    <2>1. form' \in [CreationThreads -> Request \cup {Absent}]
      BY <1>2, <1>4 DEF CreationInv, CreationTypes
    <2> QED BY <1>3, <1>3a, <1>6, <1>7, <2>1 DEF CreationInv, CreationTypes
  <1>11. Requests'
    <2>1. RequestOK(t)'
      BY <1>1, <1>3, <1>4, <1>8 DEF RequestOK
    <2>2. Credited' \in Nat /\ Credited' >= Credited
      BY <1>3a
    <2>3. Len(created') \in Nat /\ Len(created') >= Len(created) /\ Shown' \in Int /\ Shown' >= Shown
      BY <1>3, <1>9
    <2>4. \A o \in CreationThreads \ {t} : RequestOK(o)'
      BY <1>2, <2>2, <2>3, OtherRequests
    <2> QED BY <2>1, <2>4 DEF Requests
  <1>12. AccountIsReal'
    <2>1. p.tests \in Int /\ p.games \in Int /\ Credited \in Int
      BY <1>1, <1>3a DEF Profile
    <2>2. account'.tests <= Shown' /\ account'.games <= Credited'
      BY <1>1, <1>3a, <1>7, <1>9, <2>1
    <2>3. ASSUME ~lost' PROVE account'.tests = Shown' /\ account'.games = Credited'
      <3>1. ~lost /\ account = p
        BY <1>6, <2>3
      <3>2. p.tests = Shown /\ p.games = Credited
        BY <3>1 DEF CreationInv, AccountIsReal
      <3> QED BY <1>1, <1>3a, <1>7, <1>9, <2>1, <3>2
    <2> QED BY <2>2, <2>3 DEF AccountIsReal
  <1>13. RowsCanRun'
    BY <1>3 DEF CreationInv, RowsCanRun, Readable
  <1> QED BY <1>10, <1>11, <1>12, <1>13 DEF CreationInv

\* Approval changes one column of the row.
LEMMA FinalizeKeeps ==
    ASSUME CreationInv, NEW t \in CreationThreads, Finalize(t)
    PROVE  CreationInv'
  <1>1. /\ form[t] \in Request /\ form[t].at = "finalize" /\ form[t] # Absent
        /\ form[t].test \in 1 .. Len(created)
    BY DEF Finalize, At, Idle, CreationInv, CreationTypes, Requests, RequestOK
  <1>2. /\ form' = [form EXCEPT ![t] = Absent]
        /\ UNCHANGED <<catalog, account, owed, reported, missed, cut, lost, submits, pageChanges>>
    BY DEF Finalize, Leave, reportVars, pastVars
  <1>2a. CountTypesOK' /\ Credited' = Credited /\ Credited \in Nat
    BY <1>2, CountsStay DEF CreationInv, CreationTypes
  <1>3. created \in Seq(Row) /\ Len(created) \in Nat /\ Len(created) <= MaxTests
    BY DEF CreationInv, CreationTypes
  <1>4. /\ created' \in Seq(Row) /\ Len(created') = Len(created)
        /\ RowsCanRun'
    <2>1. CASE created' = created
      BY <1>2, <1>3, <2>1 DEF CreationInv, RowsCanRun, Readable
    <2>2. CASE created' = [created EXCEPT ![form[t].test].approved = TRUE]
      <3> DEFINE k == form[t].test
                 w == [created[k] EXCEPT !.approved = TRUE]
      <3>1. k \in 1 .. Len(created) /\ created[k] \in Row /\ CanRun(Readable(k))
        BY <1>1, <1>3 DEF CreationInv, RowsCanRun
      <3>2. w \in Row
        BY <3>1, RowWith
      <3>3. CanRun(IF k \in cut THEN WithThreads(w) ELSE w)
        <4>1. /\ w.dev = created[k].dev /\ w.base = created[k].base /\ w.size = created[k].size
              /\ w.throughput = created[k].throughput /\ w.nps = created[k].nps
              /\ w.mode = created[k].mode /\ w.games = created[k].games /\ w.batch = created[k].batch
              /\ w.pairs = created[k].pairs /\ w.tuned = created[k].tuned
              /\ w.early = created[k].early /\ w.args = created[k].args
              /\ w.ponder = created[k].ponder /\ w.reverses = created[k].reverses
          BY <3>1 DEF Row
        <4>2. /\ CanRun(created[k]) => CanRun(w)
              /\ CanRun(WithThreads(created[k])) => CanRun(WithThreads(w))
          BY <3>1, <3>2, <4>1, CanRunAlike
        <4> QED BY <3>1, <4>2 DEF Readable
      <3>4. created' = [created EXCEPT ![k] = w]
        BY <2>2
      <3> HIDE DEF k, w
      <3>5. created' \in Seq(Row) /\ Len(created') = Len(created)
            /\ \A i \in 1 .. Len(created) : created'[i] = IF i = k THEN w ELSE created[i]
        BY <1>3, <3>1, <3>2, <3>4
      <3>6. ASSUME NEW i \in 1 .. Len(created') PROVE CanRun(Readable(i)')
        <4>1. CASE i = k
          BY <1>2, <3>3, <3>5, <4>1 DEF Readable
        <4>2. CASE i # k
          <5>1. Readable(i)' = Readable(i)
            BY <1>2, <3>5, <4>2 DEF Readable
          <5> QED BY <3>5, <5>1 DEF CreationInv, RowsCanRun
        <4> QED BY <4>1, <4>2
      <3> QED BY <3>5, <3>6 DEF RowsCanRun
    <2> QED BY <2>1, <2>2 DEF Finalize
  <1>5. Shown' = Shown /\ Shown \in Int
    BY <1>1, <1>2, <1>4, SameUncounted, ShownIsANumber DEF Shown, CreationInv, At
  <1>6. CreationTypes'
    BY <1>2, <1>2a, <1>3, <1>4 DEF CreationInv, CreationTypes
  <1>7. Requests'
    <2>1. form'[t] = Absent
      BY <1>2 DEF CreationInv, CreationTypes
    <2>2. RequestOK(t)'
      BY <2>1 DEF RequestOK
    <2>3. Credited' \in Nat /\ Credited' >= Credited
      BY <1>2a
    <2>4. Len(created') \in Nat /\ Len(created') >= Len(created) /\ Shown' \in Int /\ Shown' >= Shown
      BY <1>3, <1>4, <1>5
    <2>5. \A o \in CreationThreads \ {t} : RequestOK(o)'
      BY <1>2, <2>3, <2>4, OtherRequests
    <2> QED BY <2>2, <2>5 DEF Requests
  <1>8. AccountIsReal'
    BY <1>2, <1>2a, <1>5 DEF CreationInv, AccountIsReal
  <1> QED BY <1>4, <1>6, <1>7, <1>8 DEF CreationInv

LEMMA SaveProfilePageKeeps ==
    ASSUME CreationInv, NEW t \in CreationThreads, SaveProfilePage(t)
    PROVE  CreationInv'
  <1> DEFINE p == form[t].profile
  <1>1. /\ form[t] # Absent /\ form[t].at \in {"config", "repos"} /\ form[t] \in Request
        /\ p \in Profile /\ p.tests <= Shown /\ p.games <= Credited
    BY DEF SaveProfilePage, At, Idle, CreationInv, CreationTypes, Requests, RequestOK
  <1>2. account' = p
        /\ UNCHANGED <<catalog, created, owed, reported, missed, cut, submits, pageChanges>>
    BY DEF SaveProfilePage, reportVars
  <1>2a. CountTypesOK' /\ Credited' = Credited /\ Credited \in Nat
    BY <1>2, CountsStay DEF CreationInv, CreationTypes
  <1>2b. PICK v \in Request \cup {Absent} :
            /\ form' = [form EXCEPT ![t] = v]
            /\ v # Absent => v.at = "repos" /\ v.profile = p
    <2>1. [form[t] EXCEPT !.at = "repos"] \in Request
      BY <1>1 DEF Request
    <2>2. CASE Leave(t)
      BY <2>2 DEF Leave
    <2>3. CASE Move(t, "repos")
      <3>1. form' = [form EXCEPT ![t] = [form[t] EXCEPT !.at = "repos"]]
        BY <2>3 DEF Move, CreationInv, CreationTypes
      <3>2. /\ [form[t] EXCEPT !.at = "repos"].at = "repos"
            /\ [form[t] EXCEPT !.at = "repos"].profile = p
        BY <1>1 DEF Request
      <3> QED BY <2>1, <3>1, <3>2
    <2> QED BY <2>2, <2>3 DEF SaveProfilePage
  <1>3. lost' \in BOOLEAN /\ (lost' <=> lost \/ account # p)
    BY DEF SaveProfilePage
  <1> HIDE DEF p
  <1>4. Shown' = Shown /\ Shown \in Int /\ Len(created) \in Nat
    BY <1>1, <1>2, <1>2b, SameUncounted, ShownIsANumber DEF Shown, CreationInv, At
  <1>5. CreationTypes'
    <2>1. form' \in [CreationThreads -> Request \cup {Absent}]
      BY <1>2b DEF CreationInv, CreationTypes
    <2> QED BY <1>1, <1>2, <1>2a, <1>3, <2>1 DEF CreationInv, CreationTypes
  <1>6. Requests'
    <2>1. form'[t] = v
      BY <1>2b DEF CreationInv, CreationTypes
    <2>2. RequestOK(t)'
      BY <1>1, <1>2a, <1>2b, <1>4, <2>1 DEF RequestOK
    <2>3. Credited' \in Nat /\ Credited' >= Credited
      BY <1>2a
    <2>4. Len(created') \in Nat /\ Len(created') >= Len(created) /\ Shown' \in Int /\ Shown' >= Shown
      BY <1>2, <1>4
    <2>5. \A o \in CreationThreads \ {t} : RequestOK(o)'
      BY <1>2b, <2>3, <2>4, OtherRequests
    <2> QED BY <2>2, <2>5 DEF Requests
  <1>7. AccountIsReal'
    <2>1. ASSUME ~lost' PROVE account.tests = Shown /\ account.games = Credited /\ account = p
      BY <1>3, <2>1 DEF CreationInv, AccountIsReal
    <2> QED BY <1>1, <1>2, <1>2a, <1>4, <2>1 DEF AccountIsReal
  <1>8. RowsCanRun'
    BY <1>2 DEF CreationInv, RowsCanRun, Readable
  <1> QED BY <1>5, <1>6, <1>7, <1>8 DEF CreationInv

\* A failing thread leaves its test uncounted for good, if it has saved one.
LEMMA FailRequestKeeps ==
    ASSUME CreationInv, NEW t \in CreationThreads, FailRequest(t)
    PROVE  CreationInv'
  <1>1. /\ form' = [form EXCEPT ![t] = Absent] /\ form[t] # Absent
        /\ UNCHANGED <<catalog, account, created, owed, reported, cut, lost, submits>>
        /\ pageChanges' \in {pageChanges, pageChanges + 1} \cap 0 .. MaxPageChanges
    BY CreationAssumption DEF FailRequest, PageChange, Leave, Idle, reportVars, CreationInv, CreationTypes
  <1>2. catalog' \in Catalog /\ submits' \in [CreationThreads -> 0 .. MaxSubmits]
    BY <1>1 DEF CreationInv, CreationTypes
  <1>3. CASE t \notin Uncounted
    <2>1. missed' = missed /\ ~(At(t, "profile") \/ At(t, "count"))
      BY <1>3 DEF FailRequest, Uncounted
    <2> QED BY <1>1, <1>2, <2>1, MoveKeeps
  <1>4. CASE t \in Uncounted
    <2>1. missed' = [missed EXCEPT !.tests = @ + 1] /\ missed \in [tests : Nat, games : Nat]
      BY <1>4 DEF FailRequest, CreationInv, CreationTypes, CountTypesOK
    <2>2. /\ missed' \in [tests : Nat, games : Nat] /\ missed'.games = missed.games
          /\ missed'.tests = missed.tests + 1 /\ missed.tests \in Nat
      BY <2>1
    <2>3. CountTypesOK' /\ Credited' = Credited /\ Credited \in Nat
      <3>1. CountTypesOK /\ pageChanges \in Nat
        BY DEF CreationInv, CreationTypes
      <3>2. CountTypesOK' /\ Credited' = Credited
        BY <1>1, <2>2, <3>1 DEF CountTypesOK, Credited
      <3> QED BY <3>1, <3>2, CreditedIsANumber
    <2>4. form'[t] = Absent /\ \A o \in CreationThreads : form'[o] = IF o = t THEN Absent ELSE form[o]
      BY <1>1 DEF CreationInv, CreationTypes
    <2>5. Shown' = Shown /\ Shown \in Int /\ Len(created) \in Nat
      <3>1. Uncounted' = Uncounted \ {t}
        BY <2>4 DEF Uncounted, At, Idle
      <3>2. /\ IsFiniteSet(Uncounted) /\ Cardinality(Uncounted) \in Nat /\ Shown \in Int
            /\ Len(created) \in Nat
        BY ShownIsANumber DEF CreationInv
      <3>3. Cardinality(Uncounted') = Cardinality(Uncounted) - 1
        BY <1>4, <3>1, <3>2, FS_RemoveElement
      <3> QED BY <1>1, <2>2, <3>2, <3>3 DEF Shown
    <2>6. CreationTypes'
      <3>1. form' \in [CreationThreads -> Request \cup {Absent}]
        BY <1>1 DEF CreationInv, CreationTypes
      <3> QED BY <1>1, <2>3, <3>1 DEF CreationInv, CreationTypes
    <2>7. Requests'
      <3>1. RequestOK(t)'
        BY <2>4 DEF RequestOK
      <3>2. \A o \in CreationThreads \ {t} : RequestOK(o)'
        <4>1. /\ Len(created') \in Nat /\ Len(created') >= Len(created) /\ Shown' \in Int
              /\ Shown' >= Shown /\ Credited' \in Nat /\ Credited' >= Credited
          BY <1>1, <2>3, <2>5
        <4> QED BY <1>1, <4>1, OtherRequests
      <3> QED BY <3>1, <3>2 DEF Requests
    <2>8. AccountIsReal' /\ RowsCanRun'
      BY <1>1, <2>3, <2>5 DEF CreationInv, AccountIsReal, RowsCanRun, Readable
    <2> QED BY <2>6, <2>7, <2>8 DEF CreationInv
  <1> QED BY <1>3, <1>4

\* The other pages and the reports change the catalog or the account, and no
\* request.
LEMMA PageKeeps ==
    ASSUME CreationInv, UNCHANGED <<created, form, lost, cut, submits>>, catalog' \in Catalog,
           pageChanges' \in {pageChanges, pageChanges + 1} \cap 0 .. MaxPageChanges,
           account' \in Profile, account'.tests = account.tests,
           CountTypesOK', missed'.tests = missed.tests,
           \/ Credited' = Credited /\ account'.games = account.games
           \/ Credited' = Credited + 1 /\ account'.games = account.games + 1
    PROVE  CreationInv'
  <1>1. Shown' = Shown /\ Shown \in Int /\ Len(created) \in Nat
    BY ShownIsANumber DEF Shown, Uncounted, At, Idle, CreationInv
  <1>2. Credited \in Nat /\ Credited' \in Nat /\ Credited' >= Credited /\ account \in Profile
    BY CreditedIsANumber DEF CreationInv, CreationTypes
  <1>3. CreationTypes'
    BY <1>2 DEF CreationInv, CreationTypes
  <1>4. Requests'
    <2> SUFFICES ASSUME NEW t \in CreationThreads PROVE RequestOK(t)'
      BY DEF Requests
    <2>1. RequestOK(t)
      BY DEF CreationInv, Requests
    <2>2. ASSUME form[t].profile \in Profile PROVE form[t].profile.games \in Int
      BY <2>2 DEF Profile
    <2> QED BY <1>1, <1>2, <2>1, <2>2 DEF RequestOK
  <1>5. AccountIsReal'
    BY <1>1, <1>2 DEF CreationInv, AccountIsReal, Profile
  <1>6. RowsCanRun'
    BY DEF CreationInv, RowsCanRun, Readable
  <1> QED BY <1>3, <1>4, <1>5, <1>6 DEF CreationInv

\* A page that counts nothing.
LEMMA QuietPageKeeps ==
    ASSUME CreationInv, PageChange, UNCHANGED <<created, form, reportVars, pastVars>>,
           catalog' \in Catalog, account' \in Profile,
           account'.tests = account.tests, account'.games = account.games
    PROVE  CreationInv'
  <1>1. /\ pageChanges' \in {pageChanges, pageChanges + 1} \cap 0 .. MaxPageChanges
        /\ UNCHANGED <<owed, reported, missed, cut, lost, submits>>
    BY CreationAssumption DEF PageChange, reportVars, pastVars, CreationInv, CreationTypes
  <1>2. CountTypesOK' /\ Credited' = Credited
    BY <1>1, CountsStay DEF CreationInv
  <1> QED BY <1>1, <1>2, PageKeeps

\* A game is reported, credited, or never credited.
LEMMA ReportedKeeps ==
    ASSUME CreationInv, CommitReport \/ CreditGame \/ FailCredit
    PROVE  CreationInv'
  <1>1. /\ CountTypesOK /\ pageChanges \in 0 .. MaxPageChanges /\ MaxPageChanges \in Nat
        /\ catalog \in Catalog /\ account \in Profile
    BY CreationAssumption DEF CreationInv, CreationTypes
  <1>2. CASE CommitReport
    <2>1. /\ owed' = owed + 1 /\ reported' = reported + 1 /\ pageChanges' = pageChanges + 1
          /\ pageChanges' \in 0 .. MaxPageChanges /\ UNCHANGED <<missed, cut, lost, submits>>
          /\ UNCHANGED <<catalog, account, created, form>>
      BY <1>1, <1>2 DEF CommitReport, PageChange, pastVars
    <2>2. CountTypesOK' /\ Credited' = Credited
      BY <1>1, <2>1 DEF CountTypesOK, Credited
    <2> QED BY <1>1, <2>1, <2>2, PageKeeps
  <1>3. CASE CreditGame
    <2>1. /\ owed > 0 /\ owed' = owed - 1
          /\ UNCHANGED <<reported, missed, cut, lost, submits, pageChanges, catalog, created, form>>
      BY <1>3 DEF CreditGame, pastVars
    <2>2. CountTypesOK' /\ Credited' = Credited + 1
      BY <1>1, <2>1 DEF CountTypesOK, Credited
    <2>3. account' \in Profile /\ account'.tests = account.tests /\ account'.games = account.games + 1
      BY <1>1, <1>3 DEF CreditGame, Profile
    <2> QED BY <1>1, <2>1, <2>2, <2>3, PageKeeps
  <1>4. CASE FailCredit
    <2>1. /\ owed > 0 /\ owed' = owed - 1 /\ pageChanges' = pageChanges + 1
          /\ pageChanges' \in 0 .. MaxPageChanges /\ UNCHANGED <<reported, cut, lost, submits>>
          /\ UNCHANGED <<catalog, account, created, form>>
      BY <1>1, <1>4 DEF FailCredit, PageChange
    <2>2. /\ missed' \in [tests : Nat, games : Nat] /\ missed'.tests = missed.tests
          /\ missed'.games = missed.games + 1
      BY <1>1, <1>4 DEF FailCredit, CountTypesOK
    <2>3. CountTypesOK' /\ Credited' = Credited
      BY <1>1, <2>1, <2>2 DEF CountTypesOK, Credited
    <2> QED BY <1>1, <2>1, <2>2, <2>3, PageKeeps
  <1> QED BY <1>2, <1>3, <1>4

LEMMA AdministerKeeps ==
    ASSUME CreationInv, Administer
    PROVE  CreationInv'
  <1>1. account \in Profile /\ (~account.enabled) \in BOOLEAN
    BY DEF CreationInv, CreationTypes
  <1>2. account' = [account EXCEPT !.enabled = ~account.enabled]
    BY DEF Administer
  <1>3. account' \in Profile /\ account'.tests = account.tests /\ account'.games = account.games
    BY <1>1, <1>2 DEF Profile
  <1> QED BY <1>3, QuietPageKeeps DEF Administer, CreationInv, CreationTypes

LEMMA CatalogKeeps ==
    ASSUME CreationInv,
           ChangeNetwork \/ ChangeVariant \/ CreateKit \/ ChangeKit
    PROVE  CreationInv'
  <1>1. catalog \in Catalog /\ account \in Profile
    BY DEF CreationInv, CreationTypes
  <1>2. KitTexts \subseteq Kits
    BY DEF Kits
  <1>3. {Normalized(c) : c \in {x \in Commands : VerifyCommand(x)}} \subseteq Arguments
    BY DEF Arguments
  <1>4. CASE ChangeNetwork
    <2>1. (~catalog.net) \in BOOLEAN
      OBVIOUS
    <2>2. catalog' \in Catalog
      BY <1>1, <1>4, <2>1, CatalogWith DEF ChangeNetwork
    <2> QED BY <1>1, <1>4, <2>2, QuietPageKeeps DEF ChangeNetwork
  <1>5. CASE ChangeVariant
    <2>1. catalog' \in Catalog
      BY <1>1, <1>3, <1>5, CatalogWith DEF ChangeVariant
    <2> QED BY <1>1, <1>5, <2>1, QuietPageKeeps DEF ChangeVariant
  <1>6. CASE CreateKit
    <2>1. catalog' \in Catalog
      BY <1>1, <1>2, <1>6, CatalogWith DEF CreateKit
    <2> QED BY <1>1, <1>6, <2>1, QuietPageKeeps DEF CreateKit
  <1>7. CASE ChangeKit
    <2>1. catalog' \in Catalog
      BY <1>1, <1>2, <1>7, CatalogWith DEF ChangeKit
    <2> QED BY <1>1, <1>7, <2>1, QuietPageKeeps DEF ChangeKit
  <1> QED BY <1>4, <1>5, <1>6, <1>7

LEMMA CreationStarts == CreationInit => CreationInv
  <1> SUFFICES ASSUME CreationInit PROVE CreationInv
    OBVIOUS
  <1>1. /\ account = [tests |-> 0, games |-> 0, enabled |-> TRUE, approver |-> TRUE] /\ created = <<>>
        /\ form = [t \in CreationThreads |-> Absent] /\ submits = [t \in CreationThreads |-> 0]
        /\ owed = 0 /\ reported = 0 /\ pageChanges = 0
        /\ missed = [tests |-> 0, games |-> 0] /\ cut = {} /\ lost = FALSE
    BY DEF CreationInit
  <1>2. catalog \in Catalog
    <2>1. (CHOOSE k \in KitTexts : k.onBranch) \in Kits
      BY CreationAssumption DEF Kits
    <2>2. {"ARCH=AVX2"} \in Arguments
      BY DEF Arguments
    <2> QED BY <2>1, <2>2 DEF CreationInit, Catalog
  <1>3. created \in Seq(Row) /\ Len(created) = 0
    BY <1>1
  <1>4. CreationTypes
    <2>1. account \in Profile
      BY <1>1 DEF Profile
    <2>2. Len(created) <= MaxTests /\ pageChanges \in 0 .. MaxPageChanges /\ CountTypesOK
      BY <1>1, <1>3, CreationAssumption DEF CountTypesOK
    <2>3. form \in [CreationThreads -> Request \cup {Absent}]
      BY <1>1
    <2>4. submits \in [CreationThreads -> 0 .. MaxSubmits]
      BY <1>1, CreationAssumption
    <2> QED BY <1>1, <1>2, <1>3, <2>1, <2>2, <2>3, <2>4 DEF CreationTypes
  <1>5. Uncounted = {}
    BY <1>1 DEF Uncounted, At, Idle
  <1>6. Shown = 0 /\ Credited = 0
    BY <1>1, <1>3, <1>5, FS_EmptySet DEF Shown, Credited
  <1>7. Requests /\ AccountIsReal /\ RowsCanRun
    BY <1>1, <1>3, <1>6 DEF Requests, RequestOK, AccountIsReal, RowsCanRun
  <1> QED BY <1>4, <1>7 DEF CreationInv

LEMMA CreationStep == CreationInv /\ [CreationNext]_creationVars => CreationInv'
  <1> SUFFICES ASSUME CreationInv, [CreationNext]_creationVars PROVE CreationInv'
    OBVIOUS
  <1>1. CASE UNCHANGED creationVars
    BY <1>1 DEF creationVars, reportVars, pastVars, CreationInv, CreationTypes, CountTypesOK,
                Requests, RequestOK, AccountIsReal, RowsCanRun, Readable, Shown, Credited,
                Uncounted, At, Idle
  <1>2. ASSUME NEW t \in CreationThreads,
               \/ Submit(t) \/ AskGithub(t) \/ MatchKit(t) \/ FailBuilding(t) \/ SaveTest(t)
               \/ ReadProfile(t) \/ SaveCount(t) \/ Finalize(t) \/ FailRequest(t)
               \/ OpenProfilePage(t) \/ SaveProfilePage(t) \/ OpenRetune(t) \/ SaveRetune(t)
        PROVE  CreationInv'
    BY <1>2, SubmitKeeps, AskGithubKeeps, MatchKitKeeps, FailBuildingKeeps, SaveTestKeeps,
       ReadProfileKeeps, SaveCountKeeps, FinalizeKeeps, OpenProfilePageKeeps,
       SaveProfilePageKeeps, OpenRetuneKeeps, SaveRetuneKeeps, FailRequestKeeps
  <1>3. CASE \/ CommitReport \/ CreditGame \/ FailCredit \/ Administer \/ ChangeNetwork
             \/ ChangeVariant \/ CreateKit \/ ChangeKit
    BY <1>3, ReportedKeeps, AdministerKeeps, CatalogKeeps
  <1> QED BY <1>1, <1>2, <1>3 DEF CreationNext

LEMMA CreationInvHolds == CreationSpec => []CreationInv
  BY CreationStarts, CreationStep, PTL DEF CreationSpec

\* The rows of all forms, for any forms, kits and commands: the distribution of
\* games never divides by zero because of one, the worker manages its own build, and
\* the threads of a row can be read again unless the text they were checked in was not
\* stored as it was (verify_workload.py, create_workload.py, utils.py
\* merge_engine_test_options).
THEOREM CreatedTestsCanRun == CreationSpec => []NewTestsCanRun
  <1>1. CreationInv => NewTestsCanRun
    BY DEF CreationInv, RowsCanRun, CanRun, NewTestsCanRun
  <1> QED BY <1>1, CreationInvHolds, PTL

\* For any number of threads that create tests and save profiles, any of which may
\* fail between two saves: no profile shows a test or a game that is not there, and
\* those it lacks are the ones whose thread failed, unless a stale copy was saved over
\* it (create_workload.py, views.py profile_config, utils.py update_test).
THEOREM ProfilesCountWhatIsThere == CreationSpec => []ProfileCountsAreReal
  <1>1. CreationInv => ProfileCountsAreReal
    BY DEF CreationInv, AccountIsReal, Shown, Credited, ProfileCountsAreReal
  <1> QED BY <1>1, CreationInvHolds, PTL

\* The types of the creation's variables, with their bounds.
LEMMA CreationTypesHold == CreationInv => CreationTypeOK
  <1> SUFFICES ASSUME CreationInv PROVE CreationTypeOK
    OBVIOUS
  <1>1. account.tests \in Int /\ account.games \in Int
    BY DEF CreationInv, CreationTypes, Profile
  <1>2. account.tests <= MaxTests /\ account.games <= MaxPageChanges
    BY <1>1, ShownIsANumber, CreditedIsANumber, CreationAssumption
    DEF CreationInv, CreationTypes, CountTypesOK, AccountIsReal
  <1>3. owed \in 0 .. MaxPageChanges /\ reported \in 0 .. MaxPageChanges
    BY CreationAssumption DEF CreationInv, CreationTypes, CountTypesOK
  <1> QED BY <1>2, <1>3 DEF CreationInv, CreationTypes, CountTypesOK, CreationTypeOK

-----------------------------------------------------------------------------
(***************************************************************************)
(* The curve of an SPSA workload, for any machines, batches, rows of a     *)
(* report, runs, losses and departures.                                    *)
(***************************************************************************)
\* The library's Max, where there is a largest number.
LEMMA MaxIs ==
    ASSUME NEW S, S \subseteq Int, NEW e \in S, \A x \in S : x <= e
    PROVE  Max(S) = e
  <1>1. \E x \in S : \A y \in S : x >= y
    OBVIOUS
  <1>2. Max(S) \in S /\ \A y \in S : Max(S) >= y
    BY <1>1 DEF Max
  <1>3. Max(S) <= e /\ Max(S) >= e
    BY <1>2
  <1>4. Max(S) \in Int /\ e \in Int
    BY <1>2
  <1> QED BY <1>3, <1>4

LEMMA LargestExists ==
    ASSUME NEW n \in Nat, NEW S, S \subseteq 0 .. n, S # {}
    PROVE  \E e \in S : \A x \in S : x <= e
  <1> DEFINE R == StrictSubsetOrdering(0 .. n)
             Above == {i .. n : i \in S}
  <1>1. IsWellFoundedOn(R, SUBSET (0 .. n))
    <2>1. IsFiniteSet(0 .. n)
      BY FS_Interval
    <2> QED BY <2>1, FS_StrictSubsetOrderingWellFounded, FS_FiniteSubsetsOfFinite
  <1>2. Above \subseteq SUBSET (0 .. n) /\ Above # {}
    <2>1. \A i \in S : i .. n \subseteq 0 .. n
      OBVIOUS
    <2> QED BY <2>1
  <1>3. PICK T \in Above : \A U \in Above : ~(<<U, T>> \in R)
    <2> HIDE DEF R, Above
    <2> QED BY <1>1, <1>2, WFMin
  <1>4. PICK e \in S : T = e .. n
    BY <1>3
  <1>5. \A x \in S : x <= e
    <2> SUFFICES ASSUME NEW x \in S, e < x PROVE FALSE
      OBVIOUS
    <2>1. x .. n \in Above
      OBVIOUS
    <2>2. x .. n \subseteq e .. n /\ e \in e .. n /\ e \notin x .. n
      OBVIOUS
    <2>3. x .. n \in SUBSET (0 .. n) /\ e .. n \in SUBSET (0 .. n)
      BY <1>2, <1>3, <1>4, <2>1
    <2>4. <<x .. n, e .. n>> \in R
      BY <2>2, <2>3 DEF StrictSubsetOrdering
    <2> QED BY <1>3, <1>4, <2>1, <2>4
  <1> QED BY <1>5

\* The newest point of a curve with a first one.
LEMMA NewestIs ==
    ASSUME NEW c \in [Batches -> {"none", "off", "exact"}], c[0] # "none"
    PROVE  /\ Newest(c) \in Batches /\ c[Newest(c)] # "none"
           /\ \A b \in Batches : c[b] # "none" => b <= Newest(c)
  <1> DEFINE S == {b \in Batches : c[b] # "none"}
  <1>1. LastBatch \in Nat
    BY TrajectoryAssumption
  <1>2. S \subseteq 0 .. LastBatch /\ 0 \in S
    BY <1>1 DEF Batches
  <1>3. PICK e \in S : \A x \in S : x <= e
    <2> HIDE DEF S
    <2> QED BY <1>1, <1>2, LargestExists
  <1>4. Max(S) = e
    <2>1. S \subseteq Int
      BY <1>1 DEF Batches
    <2> HIDE DEF S
    <2> QED BY <2>1, <1>3, MaxIs
  <1> QED BY <1>3, <1>4 DEF Newest

\* The rows that a report is to have: from the one before the newest that the
\* machine was told of, if its run has it.
LEMMA WantedIs ==
    ASSUME NEW m \in Tuners, run[m].base \in Int, monitor[m].after \in Nat, NEW read \in Nat
    PROVE  \E s \in Nat :
               /\ Wanted(m, read) = s .. read
               /\ s >= run[m].base /\ s >= monitor[m].after - 1
               /\ s = 0 \/ s = run[m].base \/ s = monitor[m].after - 1
  <1> DEFINE S == {0, monitor[m].after - 1, run[m].base}
  <1>1. PICK e \in S : \A x \in S : x <= e
    OBVIOUS
  <1>2. Max(S) = e
    <2>1. S \subseteq Int
      OBVIOUS
    <2> HIDE DEF S
    <2> QED BY <1>1, <2>1, MaxIs
  <1>3. e \in Nat /\ e >= run[m].base /\ e >= monitor[m].after - 1
    BY <1>1
  <1> QED BY <1>1, <1>2, <1>3 DEF Wanted

\* No row is left out of a report that is short enough.
LEMMA NothingIsClipped ==
    ASSUME NEW s \in Nat, NEW e \in Nat, NEW rows, rows = s .. e \/ rows = {e},
           Cardinality(rows) <= MaxRows
    PROVE  Newer(rows) = rows
  <1>1. MaxRows \in Nat \ {0}
    BY TrajectoryAssumption
  <1>2. CASE rows = {e}
    <2>1. Max(rows) = e
      BY <1>2, MaxIs
    <2> QED BY <1>1, <1>2, <2>1 DEF Newer
  <1>3. CASE rows = s .. e /\ s > e
    <2>1. rows = {}
      BY <1>3
    <2> QED BY <2>1 DEF Newer
  <1>4. CASE rows = s .. e /\ s <= e
    <2>1. Max(rows) = e
      <3>1. rows \subseteq Int /\ e \in rows /\ \A x \in rows : x <= e
        BY <1>4
      <3> QED BY <3>1, MaxIs
    <2>2. e - s + 1 <= MaxRows
      BY <1>4, FS_Interval
    <2> QED BY <1>1, <1>4, <2>1, <2>2 DEF Newer
  <1> QED BY <1>2, <1>3, <1>4

\* What a report leaves of the curve.
LEMMA MergeIs ==
    ASSUME curve \in Points, curve[0] # "none", counted \subseteq 1 .. LastBatch,
           NEW p \in Posts, p.rows \cap p.torn = {}, Merge(p)
    PROVE  /\ curve' \in Points /\ counted' \subseteq 1 .. LastBatch
           /\ \A b \in Batches :
                /\ curve'[b] # "none" <=> \/ curve[b] # "none" \/ b \in p.rows \cup p.torn
                                          \/ b = p.meta /\ p.meta > 0
                /\ b \notin p.torn /\ b # p.meta /\ (curve[b] = "exact" \/ b \in p.rows) => curve'[b] = "exact"
                /\ b = p.meta /\ p.meta > 0 /\ p.exact => curve'[b] = "exact"
           /\ \A b \in counted : b \in counted'
           /\ \A b \in 1 .. LastBatch : (b \in p.rows /\ b > p.base) \/ b = p.meta => b \in counted'
           /\ reached' = [batch |-> p.meta, over |-> p.final]
  <1>1. /\ p.meta \in Nat /\ p.rows \subseteq Nat /\ p.torn \subseteq Nat /\ LastBatch \in Nat
        /\ curve' = MergedValues(p) /\ counted' = MergedStats(p)
        /\ reached' = [batch |-> p.meta, over |-> p.final]
    BY TrajectoryAssumption DEF Posts, Merge
  <1> DEFINE Value(b) ==
               CASE b = p.meta /\ p.meta > 0 -> IF p.exact THEN "exact" ELSE "off"
                 [] b \in p.torn /\ ~(b = p.meta /\ p.meta > 0) -> "off"
                 [] b \in p.rows /\ ~(b = p.meta /\ p.meta > 0) -> "exact"
                 [] OTHER -> curve[b]
             Meta(b) == b = p.meta /\ p.meta > 0
  <1>2. curve' = [b \in Batches |-> Value(b)]
    BY <1>1 DEF MergedValues
  <1>3. ASSUME NEW b \in Batches
        PROVE  /\ Meta(b) => Value(b) = IF p.exact THEN "exact" ELSE "off"
               /\ b \in p.torn /\ ~Meta(b) => Value(b) = "off"
               /\ b \in p.rows \ p.torn /\ ~Meta(b) => Value(b) = "exact"
               /\ b \notin p.rows \cup p.torn /\ ~Meta(b) => Value(b) = curve[b]
    <2>1. CASE Meta(b)
      BY <2>1
    <2>2. CASE ~Meta(b) /\ b \in p.torn
      <3>1. b \notin p.rows
        BY <2>2
      <3> QED BY <2>2, <3>1
    <2>3. CASE ~Meta(b) /\ b \in p.rows \ p.torn
      BY <2>3
    <2>4. CASE ~Meta(b) /\ b \notin p.rows \cup p.torn
      BY <2>4
    <2> QED BY <2>1, <2>2, <2>3, <2>4
  <1> HIDE DEF Value
  <1>4. curve' \in Points
    <2>1. \A b \in Batches : Value(b) \in {"none", "off", "exact"}
      BY <1>3 DEF Points
    <2> QED BY <1>2, <2>1 DEF Points
  <1>5. \A b \in Batches :
                /\ curve'[b] # "none" <=> \/ curve[b] # "none" \/ b \in p.rows \cup p.torn
                                          \/ b = p.meta /\ p.meta > 0
                /\ b \notin p.torn /\ b # p.meta /\ (curve[b] = "exact" \/ b \in p.rows) => curve'[b] = "exact"
                /\ b = p.meta /\ p.meta > 0 /\ p.exact => curve'[b] = "exact"
    BY <1>2, <1>3
  <1> QED BY <1>1, <1>4, <1>5 DEF MergedStats, Counts

(***************************************************************************)
(* The inductive invariant of the curve.  A report is one that is waited   *)
(* for, or comes late.  Of the machines: one that reports has a run, and   *)
(* as long as one run was started one machine has it.  Of the curve,       *)
(* unless rows were left out: it has everything before its newest point    *)
(* and up to the batch that a run starts from, and a report that is under  *)
(* way closes whatever hole it could make.  If there is one run and every  *)
(* report came in order, the points before the batch that was reported are *)
(* its own.                                                                *)
(***************************************************************************)
Reports == late \cup ({posted[m] : m \in Tuners} \ {NoPost})

Sound(p) == p.rows \cap p.torn = {}

MachineOK(m) ==
    /\ posted[m] # NoPost <=> monitor[m].pc = "waiting"
    /\ monitor[m].pc \in {"monitoring", "waiting"} => run[m].base >= 0
    /\ run[m].base <= run[m].done
    /\ run[m].final => run[m].done > 0
    /\ monitor[m].after <= Newest(curve)

RunsOK ==
    /\ runs = 0 => \A m \in Tuners : run[m].base < 0
    /\ runs <= 1 => \A m, o \in Tuners : run[m].base >= 0 /\ run[o].base >= 0 => m = o

MachinesOK ==
    /\ TrajectoryTypeOK /\ curve[0] # "none"
    /\ \A m \in Tuners : MachineOK(m)
    /\ \A p \in Reports : Sound(p)
    /\ RunsOK

\* The curve has the points and the statistics up to a batch.
FullTo(n) == \A b \in Batches : b <= n => Has(b)

PostCovers(p) ==
    /\ FullTo(p.base)
    /\ \A x \in p.rows \cup p.torn \cup {p.meta}, b \in Batches : b < x => Has(b) \/ b \in p.rows

Covered ==
    /\ \A b \in Batches : b < Newest(curve) => Has(b)
    /\ FullTo(reached.batch)
    /\ \A m \in Tuners : FullTo(run[m].base) /\ FullTo(monitor[m].carry)
    /\ \A p \in Reports : PostCovers(p)

PostIsExact(p, done) ==
    /\ Newest(curve) <= p.meta + 1
    /\ \A x \in p.rows \cup p.torn \cup {p.meta} : x <= p.meta + 1 /\ x <= done + 1
    /\ \A x \in p.torn : x >= p.meta
    /\ \A b \in Batches : b < p.meta => curve[b] = "exact" \/ b \in p.rows
    /\ p.final => p.exact /\ p.meta > 0

ExactSoFar ==
    /\ Newest(curve) <= reached.batch + 1
    /\ \A b \in Batches : b < reached.batch => curve[b] = "exact"
    /\ reached.over /\ reached.batch \in Batches => curve[reached.batch] = "exact"
    /\ runs = 0 => reached.batch = 0 /\ \A m \in Tuners : monitor[m].carry = 0
    /\ \A m \in Tuners : run[m].base >= 0 => run[m].base = 0 /\ Newest(curve) <= run[m].done + 1
    /\ \A m \in Tuners : posted[m] # NoPost => PostIsExact(posted[m], run[m].done)

OneRun == runs <= 1 /\ ~disorder

TrajectoryInv == MachinesOK /\ (clipped \/ (Covered /\ (OneRun => ExactSoFar)))

LEMMA NewestOfCurve ==
    ASSUME MachinesOK
    PROVE  /\ Newest(curve) \in Batches /\ curve[Newest(curve)] # "none"
           /\ \A b \in Batches : curve[b] # "none" => b <= Newest(curve)
           /\ Newest(curve) \in Nat /\ LastBatch \in Nat /\ 0 \in Batches
           /\ \A b \in Batches : b \in Nat /\ (b = 0 \/ b \in 1 .. LastBatch)
  <1>1. LastBatch \in Nat /\ Batches = 0 .. LastBatch
    BY TrajectoryAssumption DEF Batches
  <1>2. curve \in [Batches -> {"none", "off", "exact"}] /\ curve[0] # "none"
    BY DEF MachinesOK, TrajectoryTypeOK, Points
  <1>3. /\ Newest(curve) \in Batches /\ curve[Newest(curve)] # "none"
        /\ \A b \in Batches : curve[b] # "none" => b <= Newest(curve)
    BY <1>2, NewestIs
  <1> QED BY <1>1, <1>3

\* What the types say of a machine.
LEMMA MachineTypes ==
    ASSUME MachinesOK, NEW m \in Tuners
    PROVE  /\ run[m] \in Runs /\ run[m].base \in Int /\ run[m].done \in Nat /\ run[m].final \in BOOLEAN
           /\ monitor[m] \in Monitors /\ monitor[m].after \in Nat /\ monitor[m].carry \in Nat
           /\ monitor[m].pc \in {"away", "assigned", "monitoring", "waiting"}
           /\ posted[m] # NoPost => posted[m] \in Posts
           /\ reached.batch \in Nat /\ reached.over \in BOOLEAN /\ runs \in Nat
           /\ MachineOK(m)
  <1>1. /\ run[m] \in Runs /\ monitor[m] \in Monitors /\ posted[m] \in {NoPost} \union Posts
        /\ reached \in [batch : Nat, over : BOOLEAN] /\ runs \in Nat /\ MachineOK(m)
    BY DEF MachinesOK, TrajectoryTypeOK
  <1> QED BY <1>1 DEF Runs, Monitors

\* What they say of a report.
LEMMA ReportTypes ==
    ASSUME MachinesOK, NEW p \in Reports
    PROVE  /\ p \in Posts /\ p.rows \cap p.torn = {} /\ p.base \in Nat /\ p.meta \in Nat
           /\ p.rows \subseteq Nat /\ p.torn \subseteq Nat
  <1>1. p \in Posts
    BY DEF MachinesOK, TrajectoryTypeOK, Reports
  <1> QED BY <1>1 DEF MachinesOK, Sound, Posts

LEMMA Waited ==
    ASSUME NEW m \in Tuners, posted[m] # NoPost
    PROVE  posted[m] \in Reports
  BY DEF Reports

LEMMA TrajectoryStarts == TrajectoryInit => TrajectoryInv
  <1> SUFFICES ASSUME TrajectoryInit PROVE TrajectoryInv
    OBVIOUS
  <1>1. LastBatch \in Nat /\ Batches = 0 .. LastBatch
    BY TrajectoryAssumption DEF Batches
  <1>2. /\ curve = [b \in Batches |-> IF b = 0 THEN "exact" ELSE "none"] /\ counted = {}
        /\ reached = [batch |-> 0, over |-> FALSE]
        /\ run = [m \in Tuners |-> NoRunYet] /\ monitor = [m \in Tuners |-> Away]
        /\ posted = [m \in Tuners |-> NoPost] /\ late = {}
        /\ runs = 0 /\ disorder = FALSE /\ clipped = FALSE /\ untidy = 0 /\ mishaps = 0
    BY DEF TrajectoryInit
  <1>3. curve \in [Batches -> {"none", "off", "exact"}] /\ curve[0] = "exact"
        /\ \A b \in Batches : curve[b] # "none" => b = 0
    BY <1>1, <1>2
  <1>4. TrajectoryTypeOK
    <2>1. run \in [Tuners -> Runs]
      BY <1>2 DEF NoRunYet, Runs
    <2>2. monitor \in [Tuners -> Monitors]
      BY <1>2 DEF Away, Monitors
    <2> QED BY <1>2, <1>3, <2>1, <2>2 DEF TrajectoryTypeOK, Points
  <1>5. Newest(curve) = 0
    BY <1>1, <1>3, NewestIs
  <1>6. \A m \in Tuners : /\ run[m].base = -1 /\ run[m].done = 0 /\ run[m].final = FALSE
                          /\ monitor[m].pc = "away" /\ monitor[m].after = 0 /\ monitor[m].carry = 0
                          /\ posted[m] = NoPost
    BY <1>2 DEF NoRunYet, Away
  <1>7. Reports = {}
    BY <1>2, <1>6 DEF Reports
  <1>8. MachinesOK
    <2>1. \A m \in Tuners : MachineOK(m)
      BY <1>5, <1>6 DEF MachineOK
    <2>2. RunsOK
      BY <1>6 DEF RunsOK
    <2> QED BY <1>3, <1>4, <1>7, <2>1, <2>2 DEF MachinesOK
  <1>9. Covered
    <2>1. Has(0)
      BY <1>3 DEF Has
    <2>2. FullTo(0) /\ FullTo(-1)
      BY <1>1, <2>1 DEF FullTo
    <2>3. \A b \in Batches : ~(b < Newest(curve))
      BY <1>1, <1>5
    <2> QED BY <1>2, <1>6, <1>7, <2>2, <2>3 DEF Covered
  <1>10. ExactSoFar
    BY <1>1, <1>2, <1>3, <1>5, <1>6 DEF ExactSoFar
  <1> QED BY <1>8, <1>9, <1>10 DEF TrajectoryInv

-----------------------------------------------------------------------------
(* What is common to the steps.                                            *)

\* Machines that the step is not about stay as they are.
LEMMA OthersStay ==
    ASSUME MachinesOK, TrajectoryTypeOK', curve'[0] # "none", RunsOK',
           Newest(curve)' \in Nat, Newest(curve)' >= Newest(curve),
           \A o \in Tuners : \/ run'[o] = run[o] /\ monitor'[o] = monitor[o] /\ posted'[o] = posted[o]
                            \/ MachineOK(o)',
           \A p \in Reports' : p \in Reports \/ Sound(p)
    PROVE  MachinesOK'
  <1>1. ASSUME NEW o \in Tuners, run'[o] = run[o] /\ monitor'[o] = monitor[o] /\ posted'[o] = posted[o]
        PROVE  MachineOK(o)'
    <2>1. MachineOK(o) /\ Newest(curve) \in Nat /\ monitor[o].after \in Nat
      BY MachineTypes, NewestOfCurve
    <2> QED BY <1>1, <2>1 DEF MachineOK
  <1>2. \A o \in Tuners : MachineOK(o)'
    BY <1>1
  <1>3. \A p \in Reports' : Sound(p)
    BY DEF MachinesOK
  <1>4. (\A p \in Reports : Sound(p))'
    BY <1>3 DEF Sound
  <1> QED BY <1>2, <1>4 DEF MachinesOK

\* A step that leaves the curve alone.
LEMMA CurveStays ==
    ASSUME Covered, UNCHANGED pointVars,
           \A m \in Tuners : FullTo(run'[m].base) /\ FullTo(monitor'[m].carry),
           \A p \in Reports' : p \in Reports \/ PostCovers(p)
    PROVE  Covered'
  <1>1. \A b : Has(b)' <=> Has(b)
    BY DEF Has, pointVars
  <1>2. reached' = reached /\ Newest(curve)' = Newest(curve)
    BY DEF pointVars
  <1>3. FullTo(reached.batch)'
    BY <1>1, <1>2 DEF Covered, FullTo
  <1>4. \A m \in Tuners : FullTo(run[m].base)' /\ FullTo(monitor[m].carry)'
    BY <1>1 DEF FullTo
  <1>5. \A p \in Reports' : PostCovers(p)
    BY DEF Covered
  <1>6. (\A p \in Reports : PostCovers(p))'
    BY <1>1, <1>5 DEF PostCovers, FullTo
  <1>7. \A b \in Batches : b < Newest(curve)' => Has(b)'
    BY <1>1, <1>2 DEF Covered
  <1> QED BY <1>3, <1>4, <1>6, <1>7 DEF Covered

\* Such a step of a machine that has not reported yet, or goes.
LEMMA NewestStays ==
    ASSUME MachinesOK, UNCHANGED pointVars
    PROVE  /\ Newest(curve)' = Newest(curve) /\ Newest(curve)' \in Nat /\ Newest(curve)' >= Newest(curve)
           /\ curve'[0] # "none"
  BY NewestOfCurve DEF pointVars, MachinesOK

LEMMA AssignKeeps ==
    ASSUME TrajectoryInv, NEW m \in Tuners, Assign(m)
    PROVE  TrajectoryInv'
  <1> DEFINE a == [pc |-> "assigned", after |-> Newest(curve), carry |-> reached.batch]
  <1>1. /\ monitor[m].pc = "away" /\ monitor' = [monitor EXCEPT ![m] = a]
        /\ UNCHANGED <<pointVars, run, posted, late, runs, disorder, clipped, untidy, mishaps>>
    BY DEF Assign
  <1>2. MachinesOK /\ Newest(curve) \in Nat /\ reached.batch \in Nat
    BY NewestOfCurve, MachineTypes DEF TrajectoryInv
  <1>3. a \in Monitors /\ a.pc = "assigned" /\ a.after = Newest(curve) /\ a.carry = reached.batch
    BY <1>2 DEF Monitors
  <1> HIDE DEF a
  <1>4. monitor'[m] = a /\ \A o \in Tuners \ {m} : monitor'[o] = monitor[o]
    BY <1>1, <1>2 DEF MachinesOK, TrajectoryTypeOK
  <1>5. TrajectoryTypeOK'
    <2>1. monitor' \in [Tuners -> Monitors]
      BY <1>1, <1>2, <1>3 DEF MachinesOK, TrajectoryTypeOK
    <2> QED BY <1>1, <1>2, <2>1 DEF MachinesOK, TrajectoryTypeOK, pointVars
  <1>6. Reports' = Reports /\ (RunsOK' <=> RunsOK)
    BY <1>1 DEF Reports, RunsOK
  <1>7. MachineOK(m)'
    BY <1>1, <1>2, <1>3, <1>4, NewestStays, MachineTypes DEF MachineOK
  <1>8. MachinesOK'
    <2>1. RunsOK
      BY <1>2 DEF MachinesOK
    <2> QED BY <1>1, <1>2, <1>4, <1>5, <1>6, <1>7, <2>1, NewestStays, OthersStay
  <1>9. ASSUME Covered PROVE Covered'
    BY <1>1, <1>3, <1>4, <1>6, <1>9, CurveStays DEF Covered
  <1>10. ASSUME ExactSoFar PROVE ExactSoFar'
    <2>1. runs = 0 => reached.batch = 0 /\ \A o \in Tuners : monitor'[o].carry = 0
      BY <1>3, <1>4, <1>10 DEF ExactSoFar
    <2> QED BY <1>1, <1>10, <2>1 DEF ExactSoFar, PostIsExact, pointVars
  <1> QED BY <1>1, <1>8, <1>9, <1>10 DEF TrajectoryInv, OneRun

LEMMA BasesAre ==
    ASSUME NEW batch \in Nat, NEW base \in Bases(batch)
    PROVE  base \in Nat /\ base <= batch
  BY TrajectoryAssumption DEF Bases

\* The start values are there from the beginning.
LEMMA StartIsCovered ==
    ASSUME MachinesOK
    PROVE  FullTo(0)
  <1>1. curve[0] # "none"
    BY DEF MachinesOK
  <1> QED BY <1>1, NewestOfCurve DEF FullTo, Has

LEMMA LaunchKeeps ==
    ASSUME TrajectoryInv, NEW m \in Tuners, Launch(m)
    PROVE  TrajectoryInv'
  <1> DEFINE w == [monitor[m] EXCEPT !.pc = "monitoring", !.carry = 0]
             Fresh(base) == [base |-> base, done |-> base, final |-> FALSE]
  <1>1. /\ monitor[m].pc = "assigned" /\ monitor' = [monitor EXCEPT ![m] = w]
        /\ UNCHANGED <<pointVars, posted, late, disorder, clipped, untidy, mishaps>>
    BY DEF Launch
  <1>2. MachinesOK /\ monitor[m].carry \in Nat /\ runs \in Nat /\ monitor[m] \in Monitors
    BY MachineTypes DEF TrajectoryInv
  <1>3. w \in Monitors /\ w.pc = "monitoring" /\ w.after = monitor[m].after /\ w.carry = 0
    BY <1>2 DEF Monitors
  <1> HIDE DEF w
  <1>4. monitor'[m] = w /\ \A o \in Tuners \ {m} : monitor'[o] = monitor[o]
    BY <1>1, <1>2 DEF MachinesOK, TrajectoryTypeOK
  <1>5. \/ run[m].base >= 0 /\ run' = run /\ runs' = runs
        \/ /\ runs' = runs + 1
           /\ \E base \in Bases(monitor[m].carry) : run' = [run EXCEPT ![m] = Fresh(base)]
    BY DEF Launch, Continue, Begin
  <1>6. \/ /\ run[m].base >= 0 /\ run' = run /\ runs' = runs
        \/ /\ runs' = runs + 1 /\ \A o \in Tuners \ {m} : run'[o] = run[o]
           /\ run' \in [Tuners -> Runs]
           /\ \E base \in Bases(monitor[m].carry) : base \in Nat /\ base <= monitor[m].carry
                                                    /\ run'[m] = Fresh(base)
    <2>1. ASSUME NEW base \in Bases(monitor[m].carry), run' = [run EXCEPT ![m] = Fresh(base)]
          PROVE  /\ \A o \in Tuners \ {m} : run'[o] = run[o]
                 /\ run' \in [Tuners -> Runs]
                 /\ base \in Nat /\ base <= monitor[m].carry /\ run'[m] = Fresh(base)
      <3>1. base \in Nat /\ base <= monitor[m].carry
        BY <1>2, BasesAre
      <3>2. Fresh(base) \in Runs
        BY <3>1 DEF Runs
      <3> HIDE DEF Fresh
      <3> QED BY <1>2, <2>1, <3>1, <3>2 DEF MachinesOK, TrajectoryTypeOK
    <2> HIDE DEF Fresh
    <2> QED BY <1>5, <2>1
  <1>7. /\ \A o \in Tuners \ {m} : run'[o] = run[o]
        /\ run' \in [Tuners -> Runs] /\ runs' \in Nat
    BY <1>2, <1>6 DEF MachinesOK, TrajectoryTypeOK
  <1>8. /\ run'[m].base >= 0 /\ run'[m].base <= run'[m].done /\ (run'[m].final => run'[m].done > 0)
    <2>1. CASE run[m].base >= 0 /\ run' = run
      BY <1>2, <2>1, MachineTypes DEF MachineOK
    <2>2. ASSUME NEW base \in Nat, run'[m] = Fresh(base)
          PROVE  /\ run'[m].base >= 0 /\ run'[m].base <= run'[m].done /\ (run'[m].final => run'[m].done > 0)
      BY <2>2
    <2> HIDE DEF Fresh
    <2> QED BY <1>6, <2>1, <2>2
  <1>9. TrajectoryTypeOK'
    <2>1. monitor' \in [Tuners -> Monitors]
      BY <1>1, <1>2, <1>3 DEF MachinesOK, TrajectoryTypeOK
    <2> QED BY <1>1, <1>2, <1>7, <2>1 DEF MachinesOK, TrajectoryTypeOK, pointVars
  <1>10. Reports' = Reports
    BY <1>1 DEF Reports
  <1>11. RunsOK'
    <2>1. RunsOK
      BY <1>2 DEF MachinesOK
    <2>2. CASE run' = run /\ runs' = runs
      BY <2>1, <2>2 DEF RunsOK
    <2>3. CASE runs' = runs + 1
      <3>1. runs' <= 1 => \A o \in Tuners \ {m} : run'[o].base < 0
        BY <1>2, <1>7, <2>1, <2>3 DEF RunsOK
      <3>2. \A o \in Tuners : run'[o].base \in Int
        BY <1>7 DEF Runs
      <3> QED BY <1>2, <2>3, <3>1, <3>2 DEF RunsOK
    <2> QED BY <1>6, <2>2, <2>3
  <1>12. MachineOK(m)'
    BY <1>1, <1>2, <1>3, <1>4, <1>8, NewestStays, MachineTypes DEF MachineOK
  <1>13. MachinesOK'
    BY <1>1, <1>2, <1>4, <1>7, <1>9, <1>10, <1>11, <1>12, NewestStays, OthersStay
  <1>14. ASSUME Covered PROVE Covered'
    <2>1. FullTo(run'[m].base)
      <3>1. ASSUME NEW base \in Nat, base <= monitor[m].carry, run'[m] = Fresh(base)
            PROVE  FullTo(run'[m].base)
        <4>1. run'[m].base = base
          BY <3>1
        <4>2. \A b \in Batches : b <= base => b <= monitor[m].carry
          BY <1>2, <3>1, NewestOfCurve
        <4>3. FullTo(monitor[m].carry)
          BY <1>14 DEF Covered
        <4> QED BY <4>1, <4>2, <4>3 DEF FullTo
      <3> HIDE DEF Fresh
      <3> QED BY <1>6, <1>14, <3>1 DEF Covered
    <2>2. \A o \in Tuners : FullTo(run'[o].base) /\ FullTo(monitor'[o].carry)
      BY <1>2, <1>3, <1>4, <1>7, <1>14, <2>1, StartIsCovered DEF Covered
    <2> QED BY <1>1, <1>10, <1>14, <2>2, CurveStays
  <1>15. ASSUME ExactSoFar, runs' <= 1 PROVE ExactSoFar'
    <2>1. run'[m].base = 0 /\ Newest(curve) <= run'[m].done + 1
      <3>1. CASE run[m].base >= 0 /\ run' = run
        BY <1>15, <3>1 DEF ExactSoFar
      <3>2. ASSUME NEW base \in Bases(monitor[m].carry), run'[m] = Fresh(base), runs' = runs + 1
            PROVE  run'[m].base = 0 /\ Newest(curve) <= run'[m].done + 1
        <4>1. runs = 0
          BY <1>2, <1>15, <3>2
        <4>2. monitor[m].carry = 0 /\ Newest(curve) <= 1
          BY <1>15, <4>1 DEF ExactSoFar
        <4>3. base = 0
          BY <3>2, <4>2, TrajectoryAssumption DEF Bases
        <4> QED BY <3>2, <4>2, <4>3
      <3> HIDE DEF Fresh
      <3> QED BY <1>6, <3>1, <3>2
    <2>2. \A o \in Tuners : run'[o].base >= 0 => run'[o].base = 0 /\ Newest(curve) <= run'[o].done + 1
      BY <1>7, <1>15, <2>1 DEF ExactSoFar
    <2>3. runs' = 0 => reached.batch = 0 /\ \A o \in Tuners : monitor'[o].carry = 0
      BY <1>2, <1>3, <1>4, <1>6, <1>15 DEF ExactSoFar
    <2>4. posted[m] = NoPost
      BY <1>1, <1>2, MachineTypes DEF MachineOK
    <2>5. ASSUME NEW o \in Tuners, posted'[o] # NoPost PROVE PostIsExact(posted[o], run[o].done)'
      <3>1. posted'[o] = posted[o] /\ run'[o] = run[o]
        BY <1>1, <1>7, <2>4, <2>5
      <3> QED BY <1>1, <1>15, <2>5, <3>1 DEF ExactSoFar, PostIsExact, pointVars
    <2> QED BY <1>1, <1>15, <2>2, <2>3, <2>5 DEF ExactSoFar, pointVars
  <1>16. runs' <= 1 => runs <= 1
    BY <1>2, <1>6
  <1> QED BY <1>1, <1>13, <1>14, <1>15, <1>16 DEF TrajectoryInv, OneRun

LEMMA FinishBatchKeeps ==
    ASSUME TrajectoryInv, NEW m \in Tuners, FinishBatch(m)
    PROVE  TrajectoryInv'
  <1>1. /\ run[m].base >= 0
        /\ UNCHANGED <<pointVars, monitor, posted, late, runs, disorder, clipped, untidy, mishaps>>
    BY DEF FinishBatch
  <1>2. MachinesOK /\ run[m] \in Runs /\ run[m].done \in Nat /\ run[m].base \in Int
    BY MachineTypes DEF TrajectoryInv
  <1>3. PICK f \in BOOLEAN : run' = [run EXCEPT ![m].done = @ + 1, ![m].final = f]
    <2>1. \A stop \in BOOLEAN : (stop \/ run[m].done + 1 = End(m)) \in BOOLEAN
      OBVIOUS
    <2> QED BY <2>1 DEF FinishBatch
  <1> DEFINE r == [run[m] EXCEPT !.done = run[m].done + 1, !.final = f]
  <1>4. r \in Runs /\ r.base = run[m].base /\ r.done = run[m].done + 1
    <2>1. PICK u \in Runs : u = run[m]
      BY <1>2
    <2>2. r = [u EXCEPT !.done = u.done + 1, !.final = f]
      BY <2>1
    <2> HIDE DEF r
    <2>3. u.done + 1 \in Nat
      BY DEF Runs
    <2>4. r \in Runs /\ r.base = u.base /\ r.done = u.done + 1
      BY <2>2, <2>3 DEF Runs
    <2> QED BY <2>1, <2>4
  <1>5. run' = [run EXCEPT ![m] = r] /\ run'[m] = r /\ \A o \in Tuners \ {m} : run'[o] = run[o]
    BY <1>2, <1>3 DEF MachinesOK, TrajectoryTypeOK
  <1> HIDE DEF r
  <1>6. TrajectoryTypeOK'
    <2>1. run' \in [Tuners -> Runs]
      BY <1>2, <1>4, <1>5 DEF MachinesOK, TrajectoryTypeOK
    <2> QED BY <1>1, <1>2, <2>1 DEF MachinesOK, TrajectoryTypeOK, pointVars
  <1>7. \A o \in Tuners : run'[o].base = run[o].base
    BY <1>4, <1>5
  <1>8. Reports' = Reports
    BY <1>1 DEF Reports
  <1>9. RunsOK'
    BY <1>1, <1>2, <1>7 DEF MachinesOK, RunsOK
  <1>10. MachineOK(m)'
    BY <1>1, <1>2, <1>4, <1>5, NewestStays, MachineTypes DEF MachineOK
  <1>11. MachinesOK'
    BY <1>1, <1>2, <1>5, <1>6, <1>8, <1>9, <1>10, NewestStays, OthersStay
  <1>12. ASSUME Covered PROVE Covered'
    BY <1>1, <1>7, <1>8, <1>12, CurveStays DEF Covered
  <1>13. ASSUME ExactSoFar PROVE ExactSoFar'
    <2>1. \A o \in Tuners : run'[o].done \in Nat /\ run[o].done \in Nat /\ run'[o].done >= run[o].done
      BY <1>2, <1>4, <1>5, MachineTypes
    <2>2. Newest(curve) \in Nat
      BY <1>2, NewestOfCurve
    <2>3. \A o \in Tuners : run'[o].base >= 0 => run'[o].base = 0 /\ Newest(curve) <= run'[o].done + 1
      BY <1>7, <1>13, <2>1, <2>2 DEF ExactSoFar
    <2>4. ASSUME NEW o \in Tuners, posted'[o] # NoPost PROVE PostIsExact(posted[o], run[o].done)'
      <3>1. posted'[o] = posted[o] /\ PostIsExact(posted[o], run[o].done) /\ posted[o] \in Reports
        BY <1>1, <1>13, <2>4, Waited DEF ExactSoFar
      <3>2. \A x \in posted[o].rows \cup posted[o].torn \cup {posted[o].meta} : x \in Nat
        BY <1>2, <3>1, ReportTypes
      <3>3. \A x \in posted[o].rows \cup posted[o].torn \cup {posted[o].meta} : x <= run'[o].done + 1
        BY <2>1, <3>1, <3>2 DEF PostIsExact
      <3> QED BY <1>1, <3>1, <3>3 DEF PostIsExact, pointVars
    <2> QED BY <1>1, <1>13, <2>3, <2>4 DEF ExactSoFar, pointVars
  <1> QED BY <1>1, <1>11, <1>12, <1>13 DEF TrajectoryInv, OneRun

\* A machine that goes leaves its report on its way.
LEMMA DepartKeeps ==
    ASSUME TrajectoryInv, NEW m \in Tuners, Depart(m)
    PROVE  TrajectoryInv'
  <1>1. /\ monitor' = [monitor EXCEPT ![m] = Away] /\ posted' = [posted EXCEPT ![m] = NoPost]
        /\ late' = late \union ({posted[m]} \ {NoPost}) /\ mishaps' = mishaps + 1
        /\ UNCHANGED <<pointVars, run, runs, disorder, clipped, untidy>>
    BY DEF Depart
  <1>2. MachinesOK
    BY DEF TrajectoryInv
  <1>3. /\ monitor'[m] = Away /\ posted'[m] = NoPost
        /\ \A o \in Tuners \ {m} : monitor'[o] = monitor[o] /\ posted'[o] = posted[o]
    BY <1>1, <1>2 DEF MachinesOK, TrajectoryTypeOK
  <1>4. Away \in Monitors /\ Away.pc = "away" /\ Away.after = 0 /\ Away.carry = 0
    BY DEF Away, Monitors
  <1>5. TrajectoryTypeOK'
    <2>1. monitor' \in [Tuners -> Monitors] /\ posted' \in [Tuners -> {NoPost} \union Posts]
      BY <1>1, <1>2, <1>4 DEF MachinesOK, TrajectoryTypeOK
    <2>2. mishaps' \in Nat /\ late' \subseteq Posts
      BY <1>1, <1>2 DEF MachinesOK, TrajectoryTypeOK
    <2> QED BY <1>1, <1>2, <2>1, <2>2 DEF MachinesOK, TrajectoryTypeOK, pointVars
  <1>6. Reports' \subseteq Reports
    BY <1>1, <1>3 DEF Reports
  <1>7. RunsOK'
    BY <1>1, <1>2 DEF MachinesOK, RunsOK
  <1>8. MachineOK(m)'
    <2>1. MachineOK(m) /\ Newest(curve)' \in Nat
      BY <1>1, <1>2, NewestStays, MachineTypes
    <2> QED BY <1>1, <1>3, <1>4, <2>1 DEF MachineOK
  <1>9. MachinesOK'
    BY <1>1, <1>2, <1>3, <1>5, <1>6, <1>7, <1>8, NewestStays, OthersStay
  <1>10. ASSUME Covered PROVE Covered'
    <2>1. FullTo(0)
      BY <1>2, StartIsCovered
    <2>2. \A o \in Tuners : FullTo(run'[o].base) /\ FullTo(monitor'[o].carry)
      BY <1>1, <1>3, <1>4, <1>10, <2>1 DEF Covered
    <2> QED BY <1>1, <1>6, <1>10, <2>2, CurveStays
  <1>11. ASSUME ExactSoFar PROVE ExactSoFar'
    <2>1. ASSUME NEW o \in Tuners, posted'[o] # NoPost PROVE PostIsExact(posted[o], run[o].done)'
      <3>1. posted'[o] = posted[o]
        BY <1>3, <2>1
      <3> QED BY <1>1, <1>11, <2>1, <3>1 DEF ExactSoFar, PostIsExact, pointVars
    <2>2. runs = 0 => \A o \in Tuners : monitor'[o].carry = 0
      BY <1>3, <1>4, <1>11 DEF ExactSoFar
    <2> QED BY <1>1, <1>11, <2>1, <2>2 DEF ExactSoFar, pointVars
  <1> QED BY <1>1, <1>9, <1>10, <1>11 DEF TrajectoryInv, OneRun

-----------------------------------------------------------------------------
(***************************************************************************)
(* A report: each file is that of the batch that is done, or of the next.  *)
(***************************************************************************)
Reads(m, f, ahead) == run[m].done + (IF f \in ahead THEN 1 ELSE 0)
ReadMeta(m, ahead, unread) == IF unread THEN run[m].base ELSE Reads(m, "meta", ahead)
Torn(m, half) == IF half THEN {run[m].done + 1} ELSE {}
Lines(m, ahead, half) == Wanted(m, Reads(m, "csv", ahead)) \union Torn(m, half)
Report(m, ahead, half, unread, final) ==
    [pc    |-> "sent",
     base  |-> run[m].base,
     meta  |-> ReadMeta(m, ahead, unread),
     exact |-> Reads(m, "state", ahead) = ReadMeta(m, ahead, unread),
     rows  |-> Newer(Lines(m, ahead, half)) \ Torn(m, half),
     torn  |-> Torn(m, half),
     final |-> final]

LEMMA ReportIs ==
    ASSUME NEW m \in Tuners, ReportProgress(m)
    PROVE  \E ahead \in SUBSET Files, half \in BOOLEAN, unread \in BOOLEAN, final \in BOOLEAN :
              /\ \/ ahead = {} /\ ~half /\ ~unread /\ UNCHANGED untidy
                 \/ ~run[m].final /\ untidy' = untidy + 1
              /\ half => "csv" \notin ahead
              /\ final => run[m].final
              /\ posted' = [posted EXCEPT ![m] = Report(m, ahead, half, unread, final)]
              /\ clipped' = (clipped \/ Cardinality(Lines(m, ahead, half)) > MaxRows)
              /\ disorder' = (disorder \/ unread)
  <1>1. PICK ahead \in SUBSET Files, half \in BOOLEAN, unread \in BOOLEAN, final \in BOOLEAN :
         LET next  == run[m].done + 1
             Read(f) == run[m].done + (IF f \in ahead THEN 1 ELSE 0)
             torn  == IF half THEN {next} ELSE {}
             meta  == IF unread THEN run[m].base ELSE Read("meta")
             rows  == Wanted(m, Read("csv")) \union torn
         IN  /\ \/ ahead = {} /\ ~half /\ ~unread /\ UNCHANGED untidy
                \/ ~run[m].final /\ untidy < MaxUntidy /\ untidy' = untidy + 1
             /\ half => "csv" \notin ahead
             /\ unread => "meta" \notin ahead
             /\ final => run[m].final
             /\ posted' = [posted EXCEPT ![m] =
                    [pc    |-> "sent",
                     base  |-> run[m].base,
                     meta  |-> meta,
                     exact |-> Read("state") = meta,
                     rows  |-> Newer(rows) \ torn,
                     torn  |-> torn,
                     final |-> final]]
             /\ clipped' = (clipped \/ Cardinality(rows) > MaxRows)
             /\ disorder' = (disorder \/ unread)
    BY DEF ReportProgress
  <1>2. posted' = [posted EXCEPT ![m] = Report(m, ahead, half, unread, final)]
    BY <1>1 DEF Report, ReadMeta, Reads, Lines, Torn
  <1>3. clipped' = (clipped \/ Cardinality(Lines(m, ahead, half)) > MaxRows)
    BY <1>1 DEF Reads, Lines, Torn
  <1>4. /\ \/ ahead = {} /\ ~half /\ ~unread /\ UNCHANGED untidy
           \/ ~run[m].final /\ untidy' = untidy + 1
        /\ half => "csv" \notin ahead
        /\ final => run[m].final
        /\ disorder' = (disorder \/ unread)
    BY <1>1
  <1> QED BY <1>2, <1>3, <1>4

\* The rows of a report, and that none is missing unless some were left out.
LEMMA ReportRows ==
    ASSUME MachinesOK, NEW m \in Tuners, NEW ahead \in SUBSET Files, NEW half \in BOOLEAN,
           NEW unread \in BOOLEAN, NEW final \in BOOLEAN,
           final => ahead = {} /\ ~unread, half => "csv" \notin ahead, run[m].base >= 0
    PROVE  LET p == Report(m, ahead, half, unread, final)
           IN /\ p \in Posts /\ p.rows \cap p.torn = {} /\ p.base = run[m].base
              /\ p.meta = run[m].base \/ (p.meta \in Nat /\ p.meta <= run[m].done + 1)
              /\ ~unread => p.meta \in {run[m].done, run[m].done + 1}
              /\ \A x \in p.rows \cup p.torn : x \in Nat /\ x <= run[m].done + 1
              /\ \A x \in p.torn : x = run[m].done + 1
              /\ p.final => final /\ p.meta = run[m].done /\ p.exact
              /\ Cardinality(Lines(m, ahead, half)) <= MaxRows =>
                    \A b \in Nat : b <= run[m].done /\ b >= run[m].base /\ b >= monitor[m].after - 1
                                      => b \in p.rows
  <1> DEFINE p == Report(m, ahead, half, unread, final)
             csv == Reads(m, "csv", ahead)
             meta == ReadMeta(m, ahead, unread)
             lines == Lines(m, ahead, half)
             torn == Torn(m, half)
  <1>1. run[m].base \in Int /\ run[m].done \in Nat /\ monitor[m].after \in Nat
    BY MachineTypes
  <1>2. csv \in Nat /\ csv \in {run[m].done, run[m].done + 1} /\ (half => csv = run[m].done)
    BY <1>1 DEF Reads
  <1>3. /\ torn = IF half THEN {run[m].done + 1} ELSE {}
        /\ torn \subseteq Nat /\ \A x \in torn : x = run[m].done + 1
    BY <1>1 DEF Torn
  <1>4. PICK s \in Nat : /\ Wanted(m, csv) = s .. csv
                         /\ s = 0 \/ s = run[m].base \/ s = monitor[m].after - 1
    BY <1>1, <1>2, WantedIs
  <1>5. lines = (s .. csv) \cup torn
    BY <1>4 DEF Lines
  <1>6. /\ p.rows = Newer(lines) \ torn /\ p.torn = torn /\ p.meta = meta /\ p.final = final
        /\ p.base = run[m].base /\ p.exact = (Reads(m, "state", ahead) = meta)
    BY DEF Report
  <1>7. Newer(lines) \subseteq lines
    BY DEF Newer
  <1>8. /\ meta \in Nat /\ (meta = run[m].base \/ meta <= run[m].done + 1)
        /\ ~unread => meta \in {run[m].done, run[m].done + 1}
    BY <1>1 DEF ReadMeta, Reads
  <1>9. p \in Posts
    <2>1. Newer(lines) \ torn \subseteq Nat
      <3>1. s .. csv \subseteq Nat
        BY <1>2
      <3> HIDE DEF lines, torn, csv
      <3> QED BY <1>3, <1>5, <1>7, <3>1
    <2>2. (Reads(m, "state", ahead) = meta) \in BOOLEAN /\ run[m].base \in Nat
      BY <1>1
    <2> QED BY <1>3, <1>8, <2>1, <2>2 DEF Report, Posts
  <1>10. \A x \in p.rows \cup p.torn : x \in Nat /\ x <= run[m].done + 1
    BY <1>1, <1>2, <1>3, <1>5, <1>6, <1>7
  <1>11. ASSUME p.final PROVE final /\ p.meta = run[m].done /\ p.exact
    <2>1. final /\ ahead = {} /\ ~unread
      BY <1>6, <1>11
    <2>2. meta = run[m].done /\ Reads(m, "state", ahead) = run[m].done
      BY <1>1, <2>1 DEF ReadMeta, Reads
    <2> QED BY <1>6, <2>1, <2>2
  <1>12. ASSUME Cardinality(lines) <= MaxRows, NEW b \in Nat, b <= run[m].done,
                b >= run[m].base, b >= monitor[m].after - 1
         PROVE  b \in p.rows
    <2>1. b \in s .. csv /\ b \notin torn
      BY <1>1, <1>2, <1>3, <1>4, <1>12
    <2>2. CASE half
      <3>1. lines = s .. (run[m].done + 1)
        BY <1>1, <1>2, <1>3, <1>5, <2>1, <2>2
      <3>2. Newer(lines) = lines
        BY <1>1, <1>12, <3>1, NothingIsClipped
      <3> QED BY <1>5, <1>6, <2>1, <3>2
    <2>3. CASE ~half
      <3>1. lines = s .. csv
        BY <1>3, <1>5, <2>3
      <3>2. Newer(lines) = lines
        BY <1>2, <1>12, <3>1, NothingIsClipped
      <3> QED BY <1>6, <2>1, <3>1, <3>2
    <2> QED BY <2>2, <2>3
  <1> HIDE DEF p, csv, lines, torn, meta
  <1>13. /\ p \in Posts /\ p.rows \cap p.torn = {} /\ p.base = run[m].base
         /\ p.meta = run[m].base \/ (p.meta \in Nat /\ p.meta <= run[m].done + 1)
         /\ ~unread => p.meta \in {run[m].done, run[m].done + 1}
         /\ \A x \in p.torn : x = run[m].done + 1
    BY <1>3, <1>6, <1>8, <1>9
  <1> QED BY <1>10, <1>11, <1>12, <1>13 DEF p, lines

LEMMA ReportKeeps ==
    ASSUME TrajectoryInv, NEW m \in Tuners, ReportProgress(m)
    PROVE  TrajectoryInv'
  <1>1. /\ monitor[m].pc = "monitoring" /\ monitor' = [monitor EXCEPT ![m].pc = "waiting"]
        /\ UNCHANGED <<pointVars, run, late, runs, mishaps>>
    BY DEF ReportProgress
  <1>2. /\ MachinesOK /\ Newest(curve) \in Nat /\ run[m].base >= 0 /\ MachineOK(m)
        /\ run[m].base \in Int /\ run[m].done \in Nat /\ monitor[m].after \in Nat
        /\ reached.batch \in Nat /\ run[m].base <= run[m].done /\ monitor[m].after <= Newest(curve)
    BY <1>1, NewestOfCurve, MachineTypes DEF TrajectoryInv, MachineOK
  <1>3. PICK ahead \in SUBSET Files, half \in BOOLEAN, unread \in BOOLEAN, final \in BOOLEAN :
              /\ \/ ahead = {} /\ ~half /\ ~unread /\ UNCHANGED untidy
                 \/ ~run[m].final /\ untidy' = untidy + 1
              /\ half => "csv" \notin ahead
              /\ final => run[m].final
              /\ posted' = [posted EXCEPT ![m] = Report(m, ahead, half, unread, final)]
              /\ clipped' = (clipped \/ Cardinality(Lines(m, ahead, half)) > MaxRows)
              /\ disorder' = (disorder \/ unread)
    BY ReportIs
  <1> DEFINE p == Report(m, ahead, half, unread, final)
             w == [monitor[m] EXCEPT !.pc = "waiting"]
             short == Cardinality(Lines(m, ahead, half)) <= MaxRows
  <1>4. /\ p \in Posts /\ p.rows \cap p.torn = {} /\ p.base = run[m].base
        /\ p.meta = run[m].base \/ (p.meta \in Nat /\ p.meta <= run[m].done + 1)
        /\ ~unread => p.meta \in {run[m].done, run[m].done + 1}
        /\ \A x \in p.rows \cup p.torn : x \in Nat /\ x <= run[m].done + 1
        /\ \A x \in p.torn : x = run[m].done + 1
        /\ p.final => final /\ p.meta = run[m].done /\ p.exact
        /\ short => \A b \in Nat : b <= run[m].done /\ b >= run[m].base /\ b >= monitor[m].after - 1
                                      => b \in p.rows
    BY <1>2, <1>3, ReportRows
  <1>5. p.meta \in Nat /\ p.meta <= run[m].done + 1
    BY <1>2, <1>4
  <1>6. /\ monitor' = [monitor EXCEPT ![m] = w] /\ monitor'[m] = w
        /\ \A o \in Tuners \ {m} : monitor'[o] = monitor[o]
        /\ posted' = [posted EXCEPT ![m] = p] /\ posted'[m] = p
        /\ \A o \in Tuners \ {m} : posted'[o] = posted[o]
    BY <1>1, <1>2, <1>3 DEF MachinesOK, TrajectoryTypeOK
  <1>7. /\ w \in Monitors /\ w.pc = "waiting" /\ w.after = monitor[m].after
        /\ w.carry = monitor[m].carry
    BY <1>2, MachineTypes DEF Monitors
  <1>8. Cardinality(Lines(m, ahead, half)) \in Nat
    <2>1. Reads(m, "csv", ahead) \in Nat
      BY <1>2 DEF Reads
    <2>2. IsFiniteSet(Wanted(m, Reads(m, "csv", ahead)))
      <3>1. PICK s \in Nat : Wanted(m, Reads(m, "csv", ahead)) = s .. Reads(m, "csv", ahead)
        BY <1>2, <2>1, WantedIs
      <3>2. IsFiniteSet(s .. Reads(m, "csv", ahead))
        BY <2>1, FS_Interval
      <3> QED BY <3>1, <3>2
    <2>3. IsFiniteSet(Torn(m, half))
      BY FS_EmptySet, FS_Singleton DEF Torn
    <2>4. IsFiniteSet(Lines(m, ahead, half))
      BY <2>2, <2>3, FS_Union DEF Lines
    <2> QED BY <2>4, FS_CardinalityType
  <1>9. /\ clipped' \in BOOLEAN /\ disorder' \in BOOLEAN /\ untidy' \in Nat
        /\ ~clipped' => ~clipped /\ short
    <2>1. ~clipped' => ~clipped /\ ~(Cardinality(Lines(m, ahead, half)) > MaxRows)
      BY <1>3
    <2>2. untidy' \in Nat
      BY <1>2, <1>3 DEF MachinesOK, TrajectoryTypeOK
    <2> QED BY <1>3, <1>8, <2>1, <2>2, TrajectoryAssumption
  <1>10. ~disorder' => ~disorder /\ ~unread
    BY <1>3
  <1> HIDE DEF p, w, short
  <1>11. TrajectoryTypeOK'
    <2>1. monitor' \in [Tuners -> Monitors] /\ posted' \in [Tuners -> {NoPost} \union Posts]
      BY <1>2, <1>4, <1>6, <1>7 DEF MachinesOK, TrajectoryTypeOK
    <2> QED BY <1>1, <1>2, <1>9, <2>1 DEF MachinesOK, TrajectoryTypeOK, pointVars
  <1>12. p # NoPost
    BY <1>4 DEF Posts, NoPost
  <1>13. \A q \in Reports' : q \in Reports \/ q = p
    BY <1>1, <1>6 DEF Reports
  <1>14. RunsOK' /\ Sound(p)
    BY <1>1, <1>2, <1>4 DEF MachinesOK, RunsOK, Sound
  <1>15. MachineOK(m)'
    BY <1>1, <1>2, <1>6, <1>7, <1>12, NewestStays DEF MachineOK
  <1>16. MachinesOK'
    BY <1>1, <1>2, <1>6, <1>11, <1>13, <1>14, <1>15, NewestStays, OthersStay
  <1>17. ASSUME NEW b \in Batches
         PROVE  b \in Nat
    BY <1>2, NewestOfCurve
  <1>18. ASSUME Covered, short PROVE Covered'
    <2>1. FullTo(run[m].base)
      BY <1>18 DEF Covered
    <2>2. ASSUME NEW x \in p.rows \cup p.torn \cup {p.meta}, NEW b \in Batches, b < x, b \notin p.rows
          PROVE  Has(b)
      <3>1. x \in Nat /\ x <= run[m].done + 1
        BY <1>4, <1>5, <2>2
      <3>2. b \in Nat /\ b <= run[m].done
        BY <1>2, <1>17, <2>2, <3>1
      <3>3. b < run[m].base \/ b < monitor[m].after - 1
        BY <1>2, <1>4, <1>18, <2>2, <3>2
      <3>4. CASE b < run[m].base
        BY <1>2, <2>1, <3>2, <3>4 DEF FullTo
      <3>5. CASE b < monitor[m].after - 1
        <4>1. b < Newest(curve)
          BY <1>2, <3>2, <3>5
        <4> QED BY <1>18, <4>1 DEF Covered
      <3> QED BY <3>3, <3>4, <3>5
    <2>3. PostCovers(p)
      BY <1>4, <2>1, <2>2 DEF PostCovers
    <2>4. \A o \in Tuners : FullTo(run'[o].base) /\ FullTo(monitor'[o].carry)
      BY <1>1, <1>6, <1>7, <1>18 DEF Covered
    <2> QED BY <1>1, <1>13, <1>18, <2>3, <2>4, CurveStays
  <1>19. ASSUME ExactSoFar, short, ~unread PROVE ExactSoFar'
    <2>1. /\ run[m].base = 0 /\ Newest(curve) <= run[m].done + 1 /\ Newest(curve) <= reached.batch + 1
          /\ \A b \in Batches : b < reached.batch => curve[b] = "exact"
      BY <1>2, <1>19 DEF ExactSoFar
    <2>2. p.meta >= run[m].done
      BY <1>2, <1>4, <1>19
    <2>3. Newest(curve) <= p.meta + 1
      BY <1>2, <1>5, <2>1, <2>2
    <2>4. \A x \in p.rows \cup p.torn \cup {p.meta} : x <= p.meta + 1 /\ x <= run[m].done + 1
      BY <1>2, <1>4, <1>5, <2>2
    <2>5. \A x \in p.torn : x >= p.meta
      BY <1>2, <1>4, <1>5
    <2>6. ASSUME NEW b \in Batches, b < p.meta, b \notin p.rows PROVE curve[b] = "exact"
      <3>1. b \in Nat /\ b <= run[m].done
        BY <1>2, <1>5, <1>17, <2>6
      <3>2. b < run[m].base \/ b < monitor[m].after - 1
        BY <1>2, <1>4, <1>19, <2>6, <3>1
      <3>3. b < reached.batch
        BY <1>2, <2>1, <3>1, <3>2
      <3> QED BY <2>1, <3>3
    <2>7. p.final => p.exact /\ p.meta > 0
      BY <1>2, <1>3, <1>4 DEF MachineOK
    <2>8. PostIsExact(p, run[m].done)
      BY <2>3, <2>4, <2>5, <2>6, <2>7 DEF PostIsExact
    <2>9. \A o \in Tuners : posted'[o] # NoPost => PostIsExact(posted'[o], run'[o].done)
      BY <1>1, <1>6, <1>19, <2>8 DEF ExactSoFar
    <2>10. (\A o \in Tuners : posted[o] # NoPost => PostIsExact(posted[o], run[o].done))'
      BY <1>1, <2>9 DEF PostIsExact, pointVars
    <2>11. runs = 0 => \A o \in Tuners : monitor'[o].carry = 0
      BY <1>6, <1>7, <1>19 DEF ExactSoFar
    <2> QED BY <1>1, <1>19, <2>10, <2>11 DEF ExactSoFar, pointVars
  <1> QED BY <1>1, <1>9, <1>10, <1>16, <1>18, <1>19 DEF TrajectoryInv, OneRun

-----------------------------------------------------------------------------
(***************************************************************************)
(* The server merges a report.                                             *)
(***************************************************************************)
\* The curve keeps its type and only grows.
LEMMA MergeGrows ==
    ASSUME MachinesOK, NEW p \in Reports, Merge(p)
    PROVE  /\ curve' \in Points /\ curve'[0] # "none" /\ counted' \subseteq 1 .. LastBatch
           /\ reached' = [batch |-> p.meta, over |-> p.final]
           /\ reached' \in [batch : Nat, over : BOOLEAN]
           /\ Newest(curve)' \in Batches /\ curve'[Newest(curve)'] # "none"
           /\ Newest(curve)' \in Nat /\ Newest(curve)' >= Newest(curve)
           /\ \/ Newest(curve)' <= Newest(curve)
              \/ Newest(curve)' \in p.rows \cup p.torn \cup {p.meta}
  <1>1. /\ curve \in Points /\ curve[0] # "none" /\ counted \subseteq 1 .. LastBatch
        /\ p \in Posts /\ p.rows \cap p.torn = {} /\ p.meta \in Nat
    BY ReportTypes DEF MachinesOK, TrajectoryTypeOK
  <1>2. /\ curve' \in Points /\ counted' \subseteq 1 .. LastBatch
        /\ \A b \in Batches : curve'[b] # "none" <=>
               (curve[b] # "none" \/ b \in p.rows \cup p.torn \/ (b = p.meta /\ p.meta > 0))
        /\ reached' = [batch |-> p.meta, over |-> p.final]
    BY <1>1, MergeIs
  <1>3. /\ Newest(curve) \in Batches /\ Newest(curve) \in Nat /\ curve[Newest(curve)] # "none"
        /\ 0 \in Batches /\ \A b \in Batches : b \in Nat /\ (curve[b] # "none" => b <= Newest(curve))
    BY NewestOfCurve
  <1>4. curve'[0] # "none"
    BY <1>1, <1>2, <1>3
  <1>5. /\ Newest(curve') \in Batches /\ curve'[Newest(curve')] # "none"
        /\ \A b \in Batches : curve'[b] # "none" => b <= Newest(curve')
    BY <1>2, <1>4, NewestIs DEF Points
  <1>6. Newest(curve)' = Newest(curve')
    BY DEF Newest
  <1>7. p.final \in BOOLEAN
    BY <1>1 DEF Posts
  <1>8. \/ Newest(curve') <= Newest(curve)
        \/ Newest(curve') \in p.rows \cup p.torn \cup {p.meta}
    BY <1>2, <1>3, <1>5
  <1> QED BY <1>1, <1>2, <1>3, <1>4, <1>5, <1>6, <1>7, <1>8

\* No hole is left by it.
LEMMA MergeCovers ==
    ASSUME MachinesOK, Covered, NEW p \in Reports, Merge(p)
    PROVE  /\ \A b \in Batches : Has(b) => Has(b)'
           /\ \A b \in Batches : b < Newest(curve)' => Has(b)'
           /\ \A b \in Batches : b <= p.meta => Has(b)'
  <1>1. /\ curve \in Points /\ curve[0] # "none" /\ counted \subseteq 1 .. LastBatch
        /\ p \in Posts /\ p.rows \cap p.torn = {} /\ p.meta \in Nat /\ p.base \in Nat
    BY ReportTypes DEF MachinesOK, TrajectoryTypeOK
  <1>2. /\ \A b \in Batches : curve'[b] # "none" <=>
               (curve[b] # "none" \/ b \in p.rows \cup p.torn \/ (b = p.meta /\ p.meta > 0))
        /\ \A b \in counted : b \in counted'
        /\ \A b \in 1 .. LastBatch : (b \in p.rows /\ b > p.base) \/ b = p.meta => b \in counted'
    BY <1>1, MergeIs
  <1>3. 0 \in Batches /\ \A b \in Batches : b \in Nat /\ (b = 0 \/ b \in 1 .. LastBatch)
    BY NewestOfCurve
  <1>4. PostCovers(p)
    BY DEF Covered
  <1>5. ASSUME NEW b \in Batches, Has(b) PROVE Has(b)'
    BY <1>2, <1>5 DEF Has
  <1>6. ASSUME NEW b \in Batches, b \in p.rows PROVE Has(b)'
    <2>1. CASE b <= p.base
      <3>1. Has(b)
        BY <1>4, <2>1 DEF PostCovers, FullTo
      <3> QED BY <1>5, <3>1
    <2>2. CASE b > p.base
      BY <1>1, <1>2, <1>3, <1>6, <2>2 DEF Has
    <2> QED BY <1>1, <1>3, <2>1, <2>2
  <1>7. ASSUME NEW x \in p.rows \cup p.torn \cup {p.meta}, NEW b \in Batches, b < x PROVE Has(b)'
    BY <1>4, <1>5, <1>6, <1>7 DEF PostCovers
  <1>8. ASSUME NEW b \in Batches, b < Newest(curve)' PROVE Has(b)'
    <2>1. CASE Newest(curve)' <= Newest(curve)
      <3>1. b < Newest(curve)
        BY <1>3, <1>8, <2>1, MergeGrows, NewestOfCurve
      <3> QED BY <1>5, <3>1 DEF Covered
    <2>2. CASE Newest(curve)' \in p.rows \cup p.torn \cup {p.meta}
      BY <1>7, <1>8, <2>2
    <2> QED BY <2>1, <2>2, MergeGrows
  <1>9. ASSUME NEW b \in Batches, b <= p.meta PROVE Has(b)'
    <2>1. CASE b < p.meta
      BY <1>7, <2>1
    <2>2. CASE b = p.meta /\ b = 0
      BY <1>1, <1>5, <2>2 DEF Has
    <2>3. CASE b = p.meta /\ b # 0
      BY <1>1, <1>2, <1>3, <2>3 DEF Has
    <2> QED BY <1>1, <1>3, <1>9, <2>1, <2>2, <2>3
  <1> QED BY <1>5, <1>8, <1>9

\* What holds of the curve after it, whatever becomes of the sender.
LEMMA CurveGrows ==
    ASSUME MachinesOK, Covered, NEW p \in Reports, Merge(p), Reports' \subseteq Reports,
           UNCHANGED run,
           \A m \in Tuners : monitor'[m].carry \in {0, monitor[m].carry}
    PROVE  Covered'
  <1>1. /\ \A b \in Batches : Has(b) => Has(b)'
        /\ \A b \in Batches : b < Newest(curve)' => Has(b)'
        /\ \A b \in Batches : b <= p.meta => Has(b)'
        /\ reached'.batch = p.meta
    BY MergeCovers, MergeGrows
  <1>2. FullTo(reached.batch)'
    BY <1>1 DEF FullTo
  <1>3. \A m \in Tuners : FullTo(run[m].base)' /\ FullTo(monitor[m].carry)'
    <2>1. FullTo(0) /\ \A m \in Tuners : FullTo(run[m].base) /\ FullTo(monitor[m].carry)
      BY StartIsCovered DEF Covered
    <2>2. ASSUME NEW n, FullTo(n) PROVE \A b \in Batches : b <= n => Has(b)'
      BY <1>1, <2>2 DEF FullTo
    <2> QED BY <2>1, <2>2 DEF FullTo
  <1>4. \A q \in Reports' : PostCovers(q)
    BY DEF Covered
  <1>5. (\A q \in Reports : PostCovers(q))'
    BY <1>1, <1>4 DEF PostCovers, FullTo
  <1> QED BY <1>1, <1>2, <1>3, <1>5 DEF Covered

\* One run's report, in order.
LEMMA MergeExact ==
    ASSUME MachinesOK, ExactSoFar, NEW m \in Tuners, posted[m] # NoPost, Merge(posted[m])
    PROVE  /\ Newest(curve)' <= reached'.batch + 1 /\ Newest(curve)' <= run[m].done + 1
           /\ \A b \in Batches : b < reached'.batch => curve'[b] = "exact"
           /\ reached'.over /\ reached'.batch \in Batches => curve'[reached'.batch] = "exact"
  <1> DEFINE p == posted[m]
  <1>1. p \in Reports /\ p \in Posts /\ p.rows \cap p.torn = {} /\ p.meta \in Nat
        /\ p.rows \subseteq Nat /\ p.torn \subseteq Nat
    BY Waited, ReportTypes
  <1>2. /\ curve \in Points /\ curve[0] # "none" /\ counted \subseteq 1 .. LastBatch
    BY DEF MachinesOK, TrajectoryTypeOK
  <1>3. \A b \in Batches :
             /\ b \notin p.torn /\ b # p.meta /\ (curve[b] = "exact" \/ b \in p.rows) => curve'[b] = "exact"
             /\ b = p.meta /\ p.meta > 0 /\ p.exact => curve'[b] = "exact"
    BY <1>1, <1>2, MergeIs
  <1>4. /\ reached'.batch = p.meta /\ reached'.over = p.final /\ Newest(curve)' \in Nat
        /\ \/ Newest(curve)' <= Newest(curve)
           \/ Newest(curve)' \in p.rows \cup p.torn \cup {p.meta}
    BY <1>1, MergeGrows
  <1>5. PostIsExact(p, run[m].done)
    BY DEF ExactSoFar
  <1>6. run[m].base >= 0 /\ run[m].done \in Nat /\ Newest(curve) \in Nat
    BY MachineTypes, NewestOfCurve DEF MachineOK
  <1>7. Newest(curve) <= run[m].done + 1
    BY <1>6 DEF ExactSoFar
  <1> HIDE DEF p
  <1>8. Newest(curve)' <= p.meta + 1 /\ Newest(curve)' <= run[m].done + 1
    <2>1. CASE Newest(curve)' <= Newest(curve)
      BY <1>1, <1>4, <1>5, <1>6, <1>7, <2>1 DEF PostIsExact
    <2>2. CASE Newest(curve)' \in p.rows \cup p.torn \cup {p.meta}
      BY <1>5, <2>2 DEF PostIsExact
    <2> QED BY <1>4, <2>1, <2>2
  <1>9. ASSUME NEW b \in Batches, b < p.meta PROVE curve'[b] = "exact"
    <2>1. b \in Nat /\ b # p.meta
      BY <1>1, <1>9, NewestOfCurve
    <2>2. b \notin p.torn
      BY <1>1, <1>5, <1>9, <2>1 DEF PostIsExact
    <2>3. curve[b] = "exact" \/ b \in p.rows
      BY <1>5, <1>9 DEF PostIsExact
    <2> QED BY <1>3, <2>1, <2>2, <2>3
  <1>10. p.final /\ p.meta \in Batches => curve'[p.meta] = "exact"
    BY <1>3, <1>5 DEF PostIsExact
  <1> QED BY <1>4, <1>8, <1>9, <1>10

\* The sender hears of it, or goes on without.
LEMMA MergeKeeps ==
    ASSUME TrajectoryInv, NEW m \in Tuners, posted[m] # NoPost, Merge(posted[m]),
           UNCHANGED <<run, late, runs, disorder, clipped, untidy>>, mishaps' \in Nat,
           posted' = [posted EXCEPT ![m] = NoPost], monitor' \in [Tuners -> Monitors],
           \A o \in Tuners \ {m} : monitor'[o] = monitor[o],
           monitor'[m].pc \in {"away", "monitoring"}, monitor'[m].carry \in {0, monitor[m].carry},
           monitor'[m].after \in {0, monitor[m].after, Newest(curve)'}
    PROVE  TrajectoryInv'
  <1>1. MachinesOK /\ posted[m] \in Reports /\ MachineOK(m) /\ run[m].base >= 0 /\ runs \in Nat
    BY Waited, MachineTypes DEF TrajectoryInv, MachineOK
  <1>2. /\ curve' \in Points /\ curve'[0] # "none" /\ counted' \subseteq 1 .. LastBatch
        /\ reached' \in [batch : Nat, over : BOOLEAN]
        /\ Newest(curve)' \in Nat /\ Newest(curve)' >= Newest(curve) /\ Newest(curve) \in Nat
    BY <1>1, MergeGrows, NewestOfCurve
  <1>3. /\ posted'[m] = NoPost /\ posted' \in [Tuners -> {NoPost} \union Posts]
        /\ \A o \in Tuners \ {m} : posted'[o] = posted[o]
    BY <1>1 DEF MachinesOK, TrajectoryTypeOK
  <1>4. TrajectoryTypeOK'
    BY <1>1, <1>2, <1>3 DEF MachinesOK, TrajectoryTypeOK
  <1>5. Reports' \subseteq Reports
    BY <1>3 DEF Reports
  <1>6. RunsOK'
    BY <1>1 DEF MachinesOK, RunsOK
  <1>7. MachineOK(m)'
    <2>1. monitor'[m].after <= Newest(curve)'
      BY <1>1, <1>2, MachineTypes DEF MachineOK
    <2> QED BY <1>1, <1>3, <2>1 DEF MachineOK
  <1>8. MachinesOK'
    BY <1>1, <1>2, <1>3, <1>4, <1>5, <1>6, <1>7, OthersStay
  <1>9. ASSUME Covered PROVE Covered'
    <2>1. \A o \in Tuners : monitor'[o].carry \in {0, monitor[o].carry}
      OBVIOUS
    <2> QED BY <1>1, <1>5, <1>9, <2>1, CurveGrows
  <1>10. ASSUME ExactSoFar, runs <= 1 PROVE ExactSoFar'
    <2>1. \A o \in Tuners : run[o].base >= 0 => o = m
      BY <1>1, <1>10 DEF MachinesOK, RunsOK
    <2>2. \A o \in Tuners : posted'[o] = NoPost
      <3>1. \A o \in Tuners : posted[o] # NoPost => run[o].base >= 0
        BY <1>1, MachineTypes DEF MachineOK
      <3> QED BY <1>3, <2>1, <3>1
    <2>3. runs # 0
      BY <1>1, MachineTypes DEF MachinesOK, RunsOK
    <2>4. /\ Newest(curve)' <= reached'.batch + 1 /\ Newest(curve)' <= run[m].done + 1
          /\ \A b \in Batches : b < reached'.batch => curve'[b] = "exact"
          /\ reached'.over /\ reached'.batch \in Batches => curve'[reached'.batch] = "exact"
      BY <1>1, <1>10, MergeExact
    <2>5. \A o \in Tuners : run'[o].base >= 0 => run'[o].base = 0 /\ Newest(curve)' <= run'[o].done + 1
      BY <1>10, <2>1, <2>4 DEF ExactSoFar
    <2> QED BY <2>2, <2>3, <2>4, <2>5 DEF ExactSoFar
  <1> QED BY <1>8, <1>9, <1>10 DEF TrajectoryInv, OneRun

\* The sender goes on, and the curve is as it was.
LEMMA ReplyKeeps ==
    ASSUME TrajectoryInv, NEW m \in Tuners, posted[m] # NoPost,
           UNCHANGED <<pointVars, run, runs, disorder, clipped, untidy>>, mishaps' \in Nat,
           late' \subseteq late \union {posted[m]},
           posted' = [posted EXCEPT ![m] = NoPost], monitor' \in [Tuners -> Monitors],
           \A o \in Tuners \ {m} : monitor'[o] = monitor[o],
           monitor'[m].pc \in {"away", "monitoring"}, monitor'[m].carry \in {0, monitor[m].carry},
           monitor'[m].after \in {0, monitor[m].after, Newest(curve)'}
    PROVE  TrajectoryInv'
  <1>1. MachinesOK /\ posted[m] \in Reports /\ MachineOK(m) /\ run[m].base >= 0
    BY Waited, MachineTypes DEF TrajectoryInv, MachineOK
  <1>2. Newest(curve)' \in Nat /\ Newest(curve)' = Newest(curve) /\ Newest(curve)' >= Newest(curve)
        /\ curve'[0] # "none"
    BY <1>1, NewestStays
  <1>3. /\ posted'[m] = NoPost /\ posted' \in [Tuners -> {NoPost} \union Posts]
        /\ \A o \in Tuners \ {m} : posted'[o] = posted[o]
    BY <1>1 DEF MachinesOK, TrajectoryTypeOK
  <1>4. TrajectoryTypeOK'
    <2>1. late' \subseteq Posts
      BY <1>1, ReportTypes DEF MachinesOK, TrajectoryTypeOK
    <2> QED BY <1>1, <1>3, <2>1 DEF MachinesOK, TrajectoryTypeOK, pointVars
  <1>5. Reports' \subseteq Reports
    BY <1>1, <1>3 DEF Reports
  <1>6. RunsOK'
    BY <1>1 DEF MachinesOK, RunsOK
  <1>7. MachineOK(m)'
    <2>1. monitor'[m].after <= Newest(curve)'
      BY <1>1, <1>2, MachineTypes DEF MachineOK
    <2> QED BY <1>1, <1>3, <2>1 DEF MachineOK
  <1>8. MachinesOK'
    BY <1>1, <1>2, <1>3, <1>4, <1>5, <1>6, <1>7, OthersStay
  <1>9. ASSUME Covered PROVE Covered'
    <2>1. \A o \in Tuners : FullTo(run'[o].base) /\ FullTo(monitor'[o].carry)
      BY <1>1, <1>9, StartIsCovered DEF Covered
    <2> QED BY <1>1, <1>5, <1>9, <2>1, CurveStays
  <1>10. ASSUME ExactSoFar PROVE ExactSoFar'
    <2>1. ASSUME NEW o \in Tuners, posted'[o] # NoPost PROVE PostIsExact(posted[o], run[o].done)'
      <3>1. posted'[o] = posted[o]
        BY <1>3, <2>1
      <3> QED BY <1>10, <2>1, <3>1 DEF ExactSoFar, PostIsExact, pointVars
    <2>2. runs = 0 => \A o \in Tuners : monitor'[o].carry = 0
      BY <1>10 DEF ExactSoFar
    <2> QED BY <1>10, <2>1, <2>2 DEF ExactSoFar, pointVars
  <1> QED BY <1>8, <1>9, <1>10 DEF TrajectoryInv, OneRun

LEMMA AnswerKeeps ==
    ASSUME TrajectoryInv, NEW m \in Tuners, Answer(m)
    PROVE  TrajectoryInv'
  <1> DEFINE w == IF reached'.over THEN Away
                  ELSE [pc |-> "monitoring", after |-> Newest(curve'), carry |-> 0]
  <1>1. /\ posted[m] # NoPost /\ posted' = [posted EXCEPT ![m] = NoPost]
        /\ Merge(posted[m]) \/ UNCHANGED pointVars
        /\ UNCHANGED <<run, late, runs, disorder, clipped, untidy, mishaps>>
    BY DEF Answer
  <1>2. MachinesOK /\ posted[m] \in Reports /\ monitor[m] \in Monitors
    BY <1>1, Waited, MachineTypes DEF TrajectoryInv
  <1>3. monitor' = [monitor EXCEPT ![m] = w] /\ monitor'[m] = w
        /\ \A o \in Tuners \ {m} : monitor'[o] = monitor[o]
    BY <1>2 DEF Answer, MachinesOK, TrajectoryTypeOK
  <1>4. Newest(curve') = Newest(curve)' /\ Newest(curve)' \in Nat
    <2>1. Newest(curve)' \in Nat
      BY <1>1, <1>2, MergeGrows, NewestStays
    <2> QED BY <2>1 DEF Newest
  <1>5. /\ w \in Monitors /\ w.carry = 0
        /\ w.pc \in {"away", "monitoring"} /\ w.after \in {0, Newest(curve)'}
    BY <1>4 DEF Monitors, Away
  <1>6. mishaps' \in Nat
    BY <1>1, <1>2 DEF MachinesOK, TrajectoryTypeOK
  <1> HIDE DEF w
  <1>7. monitor' \in [Tuners -> Monitors]
    BY <1>2, <1>3, <1>5 DEF MachinesOK, TrajectoryTypeOK
  <1>8. CASE Merge(posted[m])
    BY <1>1, <1>3, <1>5, <1>6, <1>7, <1>8, MergeKeeps
  <1>9. CASE UNCHANGED pointVars
    BY <1>1, <1>3, <1>5, <1>6, <1>7, <1>9, ReplyKeeps
  <1> QED BY <1>1, <1>8, <1>9

LEMMA LoseReportKeeps ==
    ASSUME TrajectoryInv, NEW m \in Tuners, LoseReport(m)
    PROVE  TrajectoryInv'
  <1> DEFINE w == [monitor[m] EXCEPT !.pc = "monitoring"]
  <1>1. /\ posted[m] # NoPost /\ posted' = [posted EXCEPT ![m] = NoPost] /\ mishaps' = mishaps + 1
        /\ \/ Merge(posted[m]) /\ UNCHANGED late
           \/ UNCHANGED pointVars /\ late' = late \union {posted[m]}
        /\ UNCHANGED <<run, runs, disorder, clipped, untidy>>
    BY DEF LoseReport
  <1>2. MachinesOK /\ monitor[m] \in Monitors
    BY MachineTypes DEF TrajectoryInv
  <1>3. monitor' = [monitor EXCEPT ![m] = w] /\ monitor'[m] = w
        /\ \A o \in Tuners \ {m} : monitor'[o] = monitor[o]
    BY <1>2 DEF LoseReport, MachinesOK, TrajectoryTypeOK
  <1>4. /\ w \in Monitors /\ w.carry = monitor[m].carry
        /\ w.pc = "monitoring" /\ w.after = monitor[m].after
    BY <1>2 DEF Monitors
  <1>5. mishaps' \in Nat
    BY <1>1, <1>2 DEF MachinesOK, TrajectoryTypeOK
  <1> HIDE DEF w
  <1>6. monitor' \in [Tuners -> Monitors]
    BY <1>2, <1>3, <1>4 DEF MachinesOK, TrajectoryTypeOK
  <1>7. CASE Merge(posted[m]) /\ UNCHANGED late
    BY <1>1, <1>3, <1>4, <1>5, <1>6, <1>7, MergeKeeps
  <1>8. CASE UNCHANGED pointVars /\ late' = late \union {posted[m]}
    BY <1>1, <1>3, <1>4, <1>5, <1>6, <1>8, ReplyKeeps
  <1> QED BY <1>1, <1>7, <1>8

LEMMA HandleLateKeeps ==
    ASSUME TrajectoryInv, HandleLate
    PROVE  TrajectoryInv'
  <1>1. PICK p \in late : Merge(p) /\ late' = late \ {p}
    BY DEF HandleLate
  <1>2. disorder' = TRUE /\ UNCHANGED <<run, monitor, posted, runs, clipped, untidy, mishaps>>
    BY DEF HandleLate
  <1>3. MachinesOK /\ p \in Reports
    BY DEF TrajectoryInv, Reports
  <1>4. /\ curve' \in Points /\ curve'[0] # "none" /\ counted' \subseteq 1 .. LastBatch
        /\ reached' \in [batch : Nat, over : BOOLEAN]
        /\ Newest(curve)' \in Nat /\ Newest(curve)' >= Newest(curve)
    BY <1>1, <1>3, MergeGrows
  <1>5. TrajectoryTypeOK'
    BY <1>1, <1>2, <1>3, <1>4 DEF MachinesOK, TrajectoryTypeOK
  <1>6. Reports' \subseteq Reports
    BY <1>1, <1>2 DEF Reports
  <1>7. RunsOK'
    BY <1>2, <1>3 DEF MachinesOK, RunsOK
  <1>8. MachinesOK'
    BY <1>2, <1>3, <1>4, <1>5, <1>6, <1>7, OthersStay
  <1>9. ASSUME Covered PROVE Covered'
    BY <1>1, <1>2, <1>3, <1>6, <1>9, CurveGrows
  <1> QED BY <1>2, <1>8, <1>9 DEF TrajectoryInv, OneRun

LEMMA TrajectoryStep == TrajectoryInv /\ [TrajectoryNext]_trajectoryVars => TrajectoryInv'
  <1> SUFFICES ASSUME TrajectoryInv, [TrajectoryNext]_trajectoryVars PROVE TrajectoryInv'
    OBVIOUS
  <1>1. CASE UNCHANGED trajectoryVars
    <2>1. /\ UNCHANGED <<run, monitor, posted, late, runs, disorder, clipped, untidy, mishaps>>
          /\ UNCHANGED pointVars
      BY <1>1 DEF trajectoryVars
    <2>2. Reports' = Reports /\ MachinesOK
      BY <2>1 DEF Reports, TrajectoryInv
    <2>3. MachinesOK'
      BY <2>1, <2>2 DEF MachinesOK, MachineOK, TrajectoryTypeOK, RunsOK, Sound, pointVars
    <2>4. Covered => Covered'
      BY <2>1, <2>2, CurveStays DEF Covered
    <2>5. ExactSoFar => ExactSoFar'
      BY <2>1 DEF ExactSoFar, PostIsExact, pointVars
    <2> QED BY <2>1, <2>3, <2>4, <2>5 DEF TrajectoryInv, OneRun
  <1>2. ASSUME NEW m \in Tuners,
               \/ Assign(m) \/ Launch(m) \/ FinishBatch(m) \/ ReportProgress(m)
               \/ Answer(m) \/ LoseReport(m) \/ Depart(m)
        PROVE  TrajectoryInv'
    BY <1>2, AssignKeeps, LaunchKeeps, FinishBatchKeeps, ReportKeeps, AnswerKeeps,
       LoseReportKeeps, DepartKeeps
  <1> QED BY <1>1, <1>2, HandleLateKeeps DEF TrajectoryNext

LEMMA TrajectoryInvHolds == TrajectorySpec => []TrajectoryInv
  BY TrajectoryStarts, TrajectoryStep, PTL DEF TrajectorySpec

\* For any machines, batches and rows of a report, however many reports are lost,
\* handled late or cut short, and however many machines run the tuner: the curve of a
\* workload has everything before its newest point and up to the batch that it has
\* reached; and the points of a single run whose reports came in order are its own
\* (utils.py, _merge_spsa_trajectory; spsa_rshogi.py, read_trajectory).
THEOREM CurvesAreComplete == TrajectorySpec => []CurveIsComplete
  <1>1. TrajectoryInv => CurveIsComplete
    <2> SUFFICES ASSUME TrajectoryInv, ~clipped PROVE CurveIsComplete
      BY DEF CurveIsComplete
    <2>1. MachinesOK /\ Covered /\ (OneRun => ExactSoFar)
      BY DEF TrajectoryInv
    <2>2. \A b \in Batches : b < Newest(curve) \/ b <= reached.batch => Has(b)
      BY <2>1 DEF Covered, FullTo
    <2>3. ASSUME runs <= 1, ~disorder, NEW b \in Batches,
                 b < reached.batch \/ (reached.over /\ b = reached.batch)
          PROVE  curve[b] = "exact"
      BY <2>1, <2>3 DEF OneRun, ExactSoFar
    <2> QED BY <2>2, <2>3 DEF CurveIsComplete
  <1> QED BY <1>1, TrajectoryInvHolds, PTL

-----------------------------------------------------------------------------
(***************************************************************************)
(* The whole of MCServer.                                                  *)
(***************************************************************************)
\* The ids of the table are counted up to its bound; what is marked or stored has a name.
NetBounds ==
    /\ nextNet \in 1 .. MaxNetworks + 1
    /\ overlap \subseteq NetEngines \cup Contents
    /\ media \subseteq Contents

ServerInv == CreationInv /\ NetInv /\ NetBounds /\ TrajectoryInv

LEMMA NetworksStep == NetInv /\ [NetworksNext]_netVars => NetInv'
  BY TypeStep, AloneStep, FilesStep, DefaultsStep DEF NetInv

LEMMA BoundsStart == NetworksInit => NetBounds
  BY NetworksAssumption DEF NetworksInit, NetBounds

LEMMA BoundsStep == NetType /\ NetBounds /\ [NetworksNext]_netVars => NetBounds'
  <1> SUFFICES ASSUME NetType, NetBounds, [NetworksNext]_netVars PROVE NetBounds'
    OBVIOUS
  <1>1. ASSUME NEW t \in NetThreads, NEW r, Open(t, r), UNCHANGED <<media, nextNet>> PROVE NetBounds'
    BY <1>1 DEF Open, Marked, NetBounds
  <1>2. ASSUME NEW t \in NetThreads, NEW op, NEW at, BeginOn(t, op, at) PROVE NetBounds'
    BY <1>1, <1>2 DEF BeginOn
  <1>3. ASSUME NEW t \in NetThreads,
               BeginUpload(t) \/ BeginAuxAdd(t) \/ BeginAuxRemove(t)
        PROVE  NetBounds'
    BY <1>1, <1>3 DEF BeginUpload, BeginAuxAdd, BeginAuxRemove
  <1>4. ASSUME NEW t \in NetThreads, BeginDefault(t) \/ BeginEdit(t) \/ BeginDelete(t)
        PROVE  NetBounds'
    BY <1>2, <1>4 DEF BeginDefault, BeginEdit, BeginDelete
  <1>5. ASSUME NEW t \in NetThreads, CreateRow(t) PROVE NetBounds'
    BY <1>5, NetworksAssumption DEF CreateRow, NetBounds
  <1>6. ASSUME NEW t \in NetThreads,
               \/ StoreFile(t) \/ StoreAux(t) \/ CreateAuxRows(t) \/ ClearDefaults(t)
               \/ SaveDefault(t) \/ SaveEdit(t) \/ DeleteRow(t) \/ Unlink(t) \/ UnlinkAux(t)
        PROVE  NetBounds'
    <2>1. nextNet' = nextNet /\ overlap' = overlap
      BY <1>6 DEF StoreFile, StoreAux, CreateAuxRows, ClearDefaults, SaveDefault, SaveEdit,
                  DeleteRow, Unlink, UnlinkAux, Proceed, Done
    <2>2. ASSUME StoreFile(t) \/ StoreAux(t) PROVE media' \subseteq Contents
      <3>1. netReq[t] \in NetRequest
        BY <2>2 DEF StoreFile, StoreAux, NetType, Busy
      <3>2. netReq[t].copy.content \in Contents /\ {x[2] : x \in netReq[t].aux} \subseteq Contents
        BY <3>1 DEF NetRequest, NetworkRow
      <3> QED BY <2>2, <3>2 DEF StoreFile, StoreAux, NetBounds
    <2>3. ASSUME ~(StoreFile(t) \/ StoreAux(t)) PROVE media' \subseteq media
      BY <1>6, <2>3 DEF CreateAuxRows, ClearDefaults, SaveDefault, SaveEdit, DeleteRow, Unlink, UnlinkAux
    <2> QED BY <2>1, <2>2, <2>3 DEF NetBounds
  <1>7. CASE UNCHANGED netVars
    BY <1>7 DEF netVars, NetBounds
  <1> QED BY <1>3, <1>4, <1>5, <1>6, <1>7 DEF NetworksNext

LEMMA NetworksTypesHold == NetInv /\ NetBounds => NetworksTypeOK
  <1> SUFFICES ASSUME NetInv, NetBounds PROVE NetworksTypeOK
    OBVIOUS
  <1>1. NetType
    BY DEF NetInv
  <1> QED BY <1>1 DEF NetType, NetBounds, NetworksTypeOK, Busy

\* What the run checks of all the variables holds for any values of the constants
\* (create_workload.py, utils.py, models.py).
THEOREM ServerTypesHold == ServerSpec => []ServerTypeOK
  <1>1. ServerInit => ServerInv
    BY CreationStarts, InitEstablishes, BoundsStart, TrajectoryStarts DEF ServerInit, ServerInv
  <1>2. ServerInv /\ [ServerNext]_serverVars => ServerInv'
    <2>1. [ServerNext]_serverVars => [CreationNext]_creationVars /\ [NetworksNext]_netVars
                                     /\ [TrajectoryNext]_trajectoryVars
      BY DEF ServerNext, serverVars, CreationSteps, NetworksSteps, TrajectorySteps
    <2> QED BY <2>1, CreationStep, NetworksStep, BoundsStep, TrajectoryStep DEF ServerInv, NetInv
  <1>3. ServerInv => ServerTypeOK
    BY CreationTypesHold, NetworksTypesHold
       DEF ServerInv, ServerTypeOK, TrajectoryInv, MachinesOK
  <1> QED BY <1>1, <1>2, <1>3, PTL DEF ServerSpec
=============================================================================
