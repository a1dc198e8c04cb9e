------------------------------- MODULE Creation -------------------------------
(***************************************************************************)
(* A form becomes a Test row: OpenBench/workloads/verify_workload.py and   *)
(* create_workload.py, and what the request reads on its way while the     *)
(* pages of OpenBench/views.py change it: networks, build variants, tune   *)
(* kits and the Profile row of the account, which also counts its games.   *)
(*                                                                         *)
(* A form is verified, GitHub is asked about its branches, and only then   *)
(* is the row put together, with a second look at the networks, variants   *)
(* and kit. A form with errors leaves nothing behind. The texts of a form  *)
(* are classes of texts that the checks and conversions tell apart.        *)
(***************************************************************************)
EXTENDS Integers, FiniteSets, SequencesExt, Distribution

CONSTANTS
    Forms,              \* thread -> the forms that are submitted to it
    CreationThreads,    \* server threads
    KitTexts,           \* contents of a tune kit: [names, onBranch, broken]
    Commands,           \* pasted build commands, as sequences of sequences of tokens
    UseCrossApproval,   \* the configuration's use_cross_approval
    Absent,             \* in place of a row or a value
    MaxTests,           \* bound: tests created
    MaxSubmits,         \* bound: forms submitted to a thread
    MaxPageChanges      \* bound: reports, failing threads, and changes made on the other pages

VARIABLES
    catalog,    \* net: the network a form may name exists; variant: the arguments
                \* of the variant it may name; kit: the content of the kit
    account,    \* the Profile row
    created,    \* the Test rows
    form,       \* thread -> the request it handles
    owed,       \* threads between the commit of a report and its credit
    reported,   \* history: games of committed reports
    missed,     \* history: tests and games whose thread failed before it counted them
    cut,        \* history: the tests whose option text was not stored as it was checked
    lost,       \* history: a stale Profile row was saved over a newer one
    submits,    \* thread -> the forms submitted to it
    pageChanges

reportVars == <<owed, reported>>
pastVars == <<missed, cut, lost>>
creationVars == <<catalog, account, created, form, reportVars, pastVars, submits, pageChanges>>

-----------------------------------------------------------------------------
(* Numbers in a form: Python's int() and float() of the texts.             *)

IntOf == [x \in {"-1", "0", "1", "3"} |->
    CASE x = "-1" -> -1 [] x = "0" -> 0 [] x = "1" -> 1 [] x = "3" -> 3]
Positive == {"1", "3", "0.5", "inf"}     \* float(x) > 0

VerifyInteger(x) == x \in DOMAIN IntOf
VerifyGreaterThanZero(x) == x \in Positive
VerifyCount(x) == x \in DOMAIN IntOf /\ IntOf[x] > 0

\* The kinds of time control that TimeControl.parse makes of a text, which it
\* upper-cases first: "N=1" is one, "nodes=1" is not.
Controls == {"fischer", "cyclic", "movetime", "nodes", "depth"}
VerifyTimeControl(s) == s.control \in Controls

-----------------------------------------------------------------------------
(* normalize_build_command: the make arguments that a pasted text stands   *)
(* for. The worker chooses the jobs, the compiler and the file's name.     *)

Candidates(text) == SelectSeq(text, LAMBDA c : c # <<>> /\ c[1] # "cd" /\ ~Contains(c, "clean"))

\* An open quote anywhere, or nothing to build, is a ValueError.
Parses(text) == Candidates(text) # <<>> /\ \A i \in DOMAIN text : ~Contains(text[i], "'")

Managed == {"-j", "-j8", "EXE=x", "CXX=x"}

\* The program itself, what the worker manages, and the number after a lone -j.
IsDropped(c, i) ==
    \/ i = 1 /\ c[i] = "make"
    \/ c[i] \in Managed
    \/ i > 1 /\ c[i] = "8" /\ c[i - 1] = "-j"

\* The last command that builds something counts.  The order of the arguments
\* does not matter here.
Normalized(text) ==
    LET c == Last(Candidates(text))
    IN {c[i] : i \in {j \in 1 .. Len(c) : ~IsDropped(c, j)}}

\* At most 512 characters may remain.
VerifyCommand(text) == Parses(text) /\ "long" \notin Normalized(text)

-----------------------------------------------------------------------------
(* verify_workload: one engine of the form, then the three kinds.          *)

\* verify_options reads the number after Threads= with extract_option, in quotes
\* that may stay open, and past a line break.
VerifyEngine(s) == VerifyCount(s.threads) /\ VerifyTimeControl(s) /\ s.rest

\* Early pondering needs a clock that it can be given again at the ponderhit.
VerifyPonder(s) ==
    /\ s.ponder \in {"off", "standard", "early"}
    /\ s.ponder = "early" => s.control \in {"movetime", "fischer"} \/ ~VerifyTimeControl(s)

VerifyGeneral_AnyThroughput(f) ==
    /\ VerifyInteger(f.priority) /\ VerifyInteger(f.throughput)
    /\ VerifyInteger(f.nps) /\ VerifyGreaterThanZero(f.nps)
    /\ f.build = "custom" => VerifyCommand(f.command)

\* Only the throughput is not required to be an integer.
VerifyGeneral(f) ==
    /\ VerifyInteger(f.priority) /\ VerifyGreaterThanZero(f.throughput)
    /\ VerifyInteger(f.nps) /\ VerifyGreaterThanZero(f.nps)
    /\ f.build = "custom" => VerifyCommand(f.command)

VerifySize(f) == VerifyInteger(f.size) /\ VerifyGreaterThanZero(f.size)

VerifyTestMode(f) == f.mode \in {"SPRT", "GAMES"}
VerifySprt(f) == f.mode = "SPRT" => f.bounds = "ordered" /\ f.confidence = "inside"
VerifyMaxGames(f) == f.mode = "GAMES" => VerifyCount(f.games)

VerifyTest(f) ==
    /\ VerifyEngine(f.dev) /\ VerifyPonder(f.dev)
    /\ VerifyEngine(f.base) /\ VerifyPonder(f.base)
    /\ f.book = "known"
    /\ VerifyTestMode(f) /\ VerifySprt(f) /\ VerifyMaxGames(f)
    /\ VerifyGeneral(f) /\ VerifySize(f)

VerifyTuneControl(s) == s.control \in {"fischer", "movetime", "nodes"}
VerifySeed(f) == f.seed = "" \/ f.seed \in {x \in DOMAIN IntOf : IntOf[x] >= 0}
VerifyPairCounts(f) ==
    VerifyInteger(f.total) /\ VerifyInteger(f.batch) => IntOf[f.total] >= IntOf[f.batch]
VerifyEarlyStop(f) == f.patience = "" \/ (VerifyCount(f.patience) /\ f.thresholds)

\* parse_params_text: each row is well formed and one at least is tuned; the
\* regular expression matches one of these.
VerifyParams(p) == p.wellFormed /\ p.active # {} /\ p.active \subseteq p.names
VerifyMapping(f) == f.mapping \in {"NONE", "YO"}
VerifyRegex(f) == VerifyParams(f.params) => f.params.matched

VerifyTune(f) ==
    /\ VerifyParams(f.params)
    /\ VerifyEngine(f.dev) /\ VerifyTuneControl(f.dev)
    /\ f.book = "known"
    /\ VerifyGeneral(f)
    /\ \A x \in {f.total, f.batch} : VerifyInteger(x) /\ VerifyGreaterThanZero(x)
    /\ \A x \in f.schedule : VerifyGreaterThanZero(x)
    /\ VerifyPairCounts(f) /\ VerifySeed(f) /\ VerifyEarlyStop(f) /\ VerifyRegex(f)
    /\ VerifyMapping(f)

VerifyReverse(f) == f.reverses \in {"YES", "NO"}
VerifyDatagenBook(f) == f.book \in {"known", "NONE"}

VerifyDatagen(f) ==
    /\ VerifyEngine(f.dev) /\ VerifyEngine(f.base)
    /\ VerifyCount(f.games)
    /\ VerifyReverse(f) /\ VerifyDatagenBook(f)
    /\ VerifyGeneral(f) /\ VerifySize(f)

Verify(f) ==
    \/ f.kind = "TEST" /\ VerifyTest(f)
    \/ f.kind = "TUNE" /\ VerifyTune(f)
    \/ f.kind = "DATAGEN" /\ VerifyDatagen(f)

\* The forms that pass the checks that look at nothing but the form.
Verified == [t \in CreationThreads |-> {f \in Forms[t] : Verify(f)}]

\* verify_spsa_tune_kit: every parameter of the kit is in the form, every tuned
\* one of the form is in the kit, in the kit's range, under its own name.
VerifyKit(f, kit) ==
    /\ kit # Absent /\ f.mapping = "NONE"
    /\ kit.names \subseteq f.params.names /\ f.params.active \subseteq kit.names
    /\ ~kit.broken /\ f.params.inRange

\* The checks that read rows.
VerifyNetwork(f) == f.network => catalog.net
VerifyBuildVariant(f) == f.build = "variant" => catalog.variant # Absent

VerifyRows(f) ==
    /\ VerifyNetwork(f) /\ VerifyBuildVariant(f)
    /\ f.kind = "TUNE" /\ f.kit => VerifyKit(f, catalog.kit)

-----------------------------------------------------------------------------
(* What the tables and a request hold.                                     *)

Submitted == UNION {Forms[t] : t \in CreationThreads}
Kits == KitTexts \cup {[k EXCEPT !.onBranch = TRUE] : k \in KitTexts}
Arguments ==
    {Normalized(c) : c \in {x \in Commands \cup {f.command : f \in Submitted} : VerifyCommand(x)}}
    \cup {{}, {"ARCH=AVX2"}}

Catalog == [net : BOOLEAN, variant : Arguments \cup {Absent}, kit : Kits \cup {Absent}]
Profile == [tests : Nat, games : Nat, enabled : BOOLEAN, approver : BOOLEAN]
Row ==
    [awaiting : BOOLEAN, approved : BOOLEAN, args : Arguments, dev : Int, base : Int,
     throughput : Int, nps : Int, priority : Int, mode : Modes, ponder : BOOLEAN,
     early : SUBSET Controls, size : Int, games : Int, reverses : BOOLEAN, batch : Int,
     pairs : Int, tuned : {f.params.active : f \in Submitted} \cup {{}}, kit : Kits \cup {Absent}]
Request ==
    [at : {"github", "kit", "build", "profile", "count", "finalize", "config", "repos", "retune"},
     form : Submitted \cup Kits \cup {Absent}, awaiting : BOOLEAN, test : Nat,
     profile : Profile \cup {Absent}]

ASSUME CreationAssumption ==
    /\ UseCrossApproval \in BOOLEAN /\ {MaxTests, MaxSubmits, MaxPageChanges} \subseteq Nat
    /\ IsFiniteSet(CreationThreads)
    /\ \A k \in KitTexts : k.onBranch \in BOOLEAN /\ k.broken \in BOOLEAN
    /\ \E k \in KitTexts : k.onBranch
    /\ Absent \notin Request

-----------------------------------------------------------------------------
Idle(t) == form[t] = Absent
At(t, at) == ~Idle(t) /\ form[t].at = at

Move(t, at) == form' = [form EXCEPT ![t].at = at]
Leave(t) == form' = [form EXCEPT ![t] = Absent]

\* create_workload up to the checks of the form.
Submit(t) ==
    \E f \in Verified[t] :
        /\ Idle(t)
        /\ account.enabled /\ VerifyRows(f)
        /\ form' = [form EXCEPT ![t] =
               [at |-> "github", form |-> f, awaiting |-> FALSE, test |-> 0, profile |-> Absent]]
        /\ submits[t] < MaxSubmits /\ submits' = [submits EXCEPT ![t] = @ + 1]
        /\ UNCHANGED <<catalog, account, created, reportVars, pastVars, pageChanges>>

\* fetch_artifact_url: whether a test awaits artifacts of its commit, which only
\* private engines have; GitHub gives any answer.
Awaiting(f) == IF f.private THEN BOOLEAN ELSE {FALSE}

\* collect_github_info: an unknown branch or a failing call is an error.
AskGithub(t) ==
    /\ At(t, "github")
    /\ \/ Leave(t)
       \/ \E a \in Awaiting(form[t].form) :
             form' = [form EXCEPT ![t].at = IF form[t].form.kind = "TUNE" THEN "kit" ELSE "build",
                                  ![t].awaiting = a]
    /\ UNCHANGED <<catalog, account, created, reportVars, pastVars, submits, pageChanges>>

\* verify_kit_matches_branch, on the kit as it is now.
MatchKit(t) ==
    /\ At(t, "kit")
    /\ IF form[t].form.kit /\ catalog.kit # Absent /\ ~catalog.kit.onBranch
       THEN Leave(t) ELSE Move(t, "build")
    /\ UNCHANGED <<catalog, account, created, reportVars, pastVars, submits, pageChanges>>

\* resolve_build_variant: a variant that is gone by now has no arguments.
BuildArgs(f) ==
    CASE f.build = "custom" -> Normalized(f.command)
      [] f.build = "variant" /\ catalog.variant # Absent -> catalog.variant
      [] OTHER -> {}

\* merge_engine_test_options takes the text of one engine of a TEST apart into
\* tokens and joins them again, with the required options of the configuration,
\* none of which is Threads.  The number stays with its name if they are one token;
\* a quote that nothing closes is dropped and, like white space, parts the two.
Merges(f) == f.kind = "TEST"
Whole(s) == s.written = "whole"

\* What get_workload.py will read from the text of an engine that is stored: int('')
\* raises.
NoThreads == 0
StoredThreads(f, s) == IF Merges(f) /\ ~Whole(s) THEN NoThreads ELSE IntOf[s.threads]

\* The columns that every kind of row takes from its form, and the defaults of
\* models.py for the others.  The threads are those of the stored texts.
NewRow(f, base, awaiting) ==
    [awaiting |-> awaiting, approved |-> FALSE, args |-> BuildArgs(f),
     dev |-> StoredThreads(f, f.dev), base |-> StoredThreads(f, base),
     throughput |-> IntOf[f.throughput], nps |-> IntOf[f.nps], priority |-> IntOf[f.priority],
     mode |-> "SPRT", ponder |-> FALSE, early |-> {}, size |-> 1, games |-> 0,
     reverses |-> TRUE, batch |-> 1, pairs |-> 0, tuned |-> {}, kit |-> Absent]

CreateNewTest(f, awaiting) ==
    [NewRow(f, f.base, awaiting) EXCEPT
        !.mode = f.mode, !.size = IntOf[f.size],
        !.games = IF f.mode = "GAMES" THEN IntOf[f.games] ELSE 0,
        !.ponder = f.dev.ponder # "off" \/ f.base.ponder # "off",
        !.early = {s.control : s \in {x \in {f.dev, f.base} : x.ponder = "early"}}]

\* The kit is read once more, and the rows of its parameters are kept.
SpsaConfig(f) ==
    [batch |-> IntOf[f.batch], pairs |-> IntOf[f.total], tuned |-> f.params.active,
     kit |-> IF f.kit THEN catalog.kit ELSE Absent]

\* The engine plays itself; a batch is what a machine is given at a time.
CreateNewTune(f, awaiting) ==
    LET spsa == SpsaConfig(f)
    IN [NewRow(f, f.dev, awaiting) EXCEPT
           !.mode = "SPSA", !.size = spsa.batch, !.batch = spsa.batch, !.pairs = spsa.pairs,
           !.tuned = spsa.tuned, !.kit = spsa.kit]

CreateNewDatagen(f, awaiting) ==
    [NewRow(f, f.base, awaiting) EXCEPT
        !.mode = "DATAGEN", !.size = IntOf[f.size], !.games = IntOf[f.games],
        !.reverses = f.reverses = "YES"]

NewTest(f, awaiting) ==
    CASE f.kind = "TEST" -> CreateNewTest(f, awaiting)
      [] f.kind = "TUNE" -> CreateNewTune(f, awaiting)
      [] f.kind = "DATAGEN" -> CreateNewDatagen(f, awaiting)

\* int() of a throughput that is no integer raises, and so does the name of a
\* network that is gone; the Engine rows remain.
CannotBuild(f) == f.throughput \notin DOMAIN IntOf \/ (f.network /\ ~catalog.net)

FailBuilding_Counted(t) ==
    /\ At(t, "build") /\ CannotBuild(form[t].form)
    /\ Leave(t)
    /\ account' = [account EXCEPT !.tests = @ + 1]
    /\ UNCHANGED <<catalog, created, reportVars, pastVars, submits, pageChanges>>

FailBuilding(t) ==
    /\ At(t, "build") /\ CannotBuild(form[t].form)
    /\ Leave(t)
    /\ UNCHANGED <<catalog, account, created, reportVars, pastVars, submits, pageChanges>>

SaveTest(t) ==
    /\ At(t, "build") /\ ~CannotBuild(form[t].form)
    /\ Len(created) < MaxTests
    /\ created' = Append(created, NewTest(form[t].form, form[t].awaiting))
    /\ cut' = IF Merges(form[t].form) /\ ~(Whole(form[t].form.dev) /\ Whole(form[t].form.base))
              THEN cut \cup {Len(created) + 1} ELSE cut
    /\ form' = [form EXCEPT ![t].at = "profile", ![t].form = Absent, ![t].awaiting = FALSE,
                            ![t].test = Len(created) + 1]
    /\ UNCHANGED <<catalog, account, reportVars, missed, lost, submits, pageChanges>>

\* profile.tests += 1 on a copy, which is saved whole.
ReadProfile(t) ==
    /\ At(t, "profile")
    /\ form' = [form EXCEPT ![t].at = "count", ![t].profile = account]
    /\ UNCHANGED <<catalog, account, created, reportVars, pastVars, submits, pageChanges>>

SaveCount(t) ==
    /\ At(t, "count")
    /\ account' = [form[t].profile EXCEPT !.tests = @ + 1]
    /\ lost' = (lost \/ account # form[t].profile)
    /\ form' = [form EXCEPT ![t].at = "finalize", ![t].profile = Absent]
    /\ UNCHANGED <<catalog, created, reportVars, missed, cut, submits, pageChanges>>

\* finalize_workload_creation: the column alone is saved.
Finalize(t) ==
    /\ At(t, "finalize")
    /\ created' = IF ~UseCrossApproval /\ account.approver
                  THEN [created EXCEPT ![form[t].test].approved = TRUE] ELSE created
    /\ Leave(t)
    /\ UNCHANGED <<catalog, account, reportVars, pastVars, submits, pageChanges>>

-----------------------------------------------------------------------------
PageChange == pageChanges < MaxPageChanges /\ pageChanges' = pageChanges + 1 /\ UNCHANGED submits

\* A statement of the request raises, or the process ends: what was saved before
\* stays, and a test that is not counted yet never will be.
Uncounted == {t \in CreationThreads : At(t, "profile") \/ At(t, "count")}

FailRequest(t) ==
    /\ PageChange /\ ~Idle(t)
    /\ missed' = IF t \in Uncounted THEN [missed EXCEPT !.tests = @ + 1] ELSE missed
    /\ Leave(t)
    /\ UNCHANGED <<catalog, account, created, reportVars, cut, lost>>

-----------------------------------------------------------------------------
(* The other pages.                                                        *)

\* update_test: the transaction that counts the game of a report.
CommitReport ==
    /\ PageChange
    /\ owed' = owed + 1 /\ reported' = reported + 1
    /\ UNCHANGED <<catalog, account, created, form, pastVars>>

\* After it, the games of the Profile row are increased with F().
CreditGame ==
    /\ owed > 0 /\ owed' = owed - 1
    /\ account' = [account EXCEPT !.games = @ + 1]
    /\ UNCHANGED <<catalog, created, form, reported, pastVars, submits, pageChanges>>

\* Or the thread does not get there.
FailCredit ==
    /\ PageChange
    /\ owed > 0 /\ owed' = owed - 1
    /\ missed' = [missed EXCEPT !.games = @ + 1]
    /\ UNCHANGED <<catalog, account, created, form, reported, cut, lost>>

\* profile_config reads the Profile row and saves it whole, with other repos.
OpenProfilePage(t) ==
    /\ PageChange /\ Idle(t) /\ account.enabled
    /\ form' = [form EXCEPT ![t] =
           [at |-> "config", form |-> Absent, awaiting |-> FALSE, test |-> 0, profile |-> account]]
    /\ UNCHANGED <<catalog, account, created, reportVars, pastVars>>

\* The changes of the listed repositories, and once more when one is added.
SaveProfilePage(t) ==
    /\ \/ At(t, "config") /\ (Leave(t) \/ Move(t, "repos"))
       \/ At(t, "repos") /\ Leave(t)
    /\ account' = form[t].profile
    /\ lost' = (lost \/ account # form[t].profile)
    /\ UNCHANGED <<catalog, created, reportVars, missed, cut, submits, pageChanges>>

\* The administrator's pages, which save the row in one go.
Administer ==
    /\ PageChange
    /\ account' = [account EXCEPT !.enabled = ~@]
    /\ UNCHANGED <<catalog, created, form, reportVars, pastVars>>

\* A network is deleted, or uploaded again.
ChangeNetwork ==
    /\ PageChange
    /\ catalog' = [catalog EXCEPT !.net = ~@]
    /\ UNCHANGED <<account, created, form, reportVars, pastVars>>

\* builds: a variant is created, replaced or deleted.
ChangeVariant ==
    /\ PageChange /\ account.enabled
    /\ \E v \in {Normalized(c) : c \in {x \in Commands : VerifyCommand(x)}} \cup {Absent} :
          catalog' = [catalog EXCEPT !.variant = v]
    /\ UNCHANGED <<account, created, form, reportVars, pastVars>>

\* tunekits: a kit under a name that is free.
CreateKit ==
    /\ PageChange /\ account.enabled /\ catalog.kit = Absent
    /\ \E k \in KitTexts : catalog' = [catalog EXCEPT !.kit = k]
    /\ UNCHANGED <<account, created, form, reportVars, pastVars>>

\* The actions save, sync_params and delete of tunekit.
ChangeKit ==
    /\ PageChange /\ account.enabled /\ catalog.kit # Absent
    /\ \E k \in KitTexts \cup {Absent} : catalog' = [catalog EXCEPT !.kit = k]
    /\ UNCHANGED <<account, created, form, reportVars, pastVars>>

\* retune asks GitHub between its read and its save, which brings back a kit that
\* was deleted meanwhile.
OpenRetune(t) ==
    /\ PageChange /\ Idle(t) /\ account.enabled /\ catalog.kit # Absent
    /\ form' = [form EXCEPT ![t] =
           [at |-> "retune", form |-> catalog.kit, awaiting |-> FALSE, test |-> 0, profile |-> Absent]]
    /\ UNCHANGED <<catalog, account, created, reportVars, pastVars>>

SaveRetune(t) ==
    /\ At(t, "retune")
    /\ \/ catalog' = [catalog EXCEPT !.kit = [form[t].form EXCEPT !.onBranch = TRUE]]
       \/ UNCHANGED catalog
    /\ Leave(t)
    /\ UNCHANGED <<account, created, reportVars, pastVars, submits, pageChanges>>

-----------------------------------------------------------------------------
CreationInit ==
    /\ catalog = [net |-> TRUE, variant |-> {"ARCH=AVX2"}, kit |-> CHOOSE k \in KitTexts : k.onBranch]
    /\ account = [tests |-> 0, games |-> 0, enabled |-> TRUE, approver |-> TRUE]
    /\ created = <<>>
    /\ form = [t \in CreationThreads |-> Absent]
    /\ submits = [t \in CreationThreads |-> 0]
    /\ owed = 0 /\ reported = 0 /\ pageChanges = 0
    /\ missed = [tests |-> 0, games |-> 0] /\ cut = {} /\ lost = FALSE

CreationNext ==
    \/ \E t \in CreationThreads :
          \/ Submit(t) \/ AskGithub(t) \/ MatchKit(t) \/ FailBuilding(t) \/ SaveTest(t)
          \/ ReadProfile(t) \/ SaveCount(t) \/ Finalize(t) \/ FailRequest(t)
          \/ OpenProfilePage(t) \/ SaveProfilePage(t) \/ OpenRetune(t) \/ SaveRetune(t)
    \/ CommitReport \/ CreditGame \/ FailCredit \/ Administer \/ ChangeNetwork \/ ChangeVariant
    \/ CreateKit \/ ChangeKit

CreationSpec == CreationInit /\ [][CreationNext]_creationVars

-----------------------------------------------------------------------------
\* The types of the variables.
CreationTypeOK ==
    /\ catalog \in Catalog
    /\ account \in Profile /\ account.tests <= MaxTests /\ account.games <= MaxPageChanges
    /\ created \in Seq(Row) /\ Len(created) <= MaxTests
    /\ form \in [CreationThreads -> Request \cup {Absent}]
    /\ submits \in [CreationThreads -> 0 .. MaxSubmits]
    /\ owed \in 0 .. MaxPageChanges /\ reported \in 0 .. MaxPageChanges
    /\ missed \in [tests : Nat, games : Nat] /\ cut \subseteq 1 .. Len(created) /\ lost \in BOOLEAN
    /\ pageChanges \in 0 .. MaxPageChanges

\* A row whose threads cannot be read, as if they could.
WithThreads(w) == [w EXCEPT !.dev = IF @ = NoThreads THEN 1 ELSE @,
                            !.base = IF @ = NoThreads THEN 1 ELSE @]

Readable(i) == IF i \in cut THEN WithThreads(created[i]) ELSE created[i]

\* Every row that a form leads to is one that the rest of the system can work
\* with: its threads, sizes and modes are those the distribution of games divides
\* by, its throughput does not stop select_workload for everybody, its games or
\* pairs are not over before they begin, an early ponder has a clock, and its build
\* arguments leave to the worker what the worker manages, although the checks and
\* the conversions read the form separately (verify_workload.py,
\* create_workload.py).  One thing may be wrong with it: get_workload.py cannot read
\* the threads of an engine, and only if the option text of a TEST has a quote that
\* nothing closes or a line break behind Threads= (utils.py, option_tokens).
NewTestsCanRun ==
    \A i \in 1 .. Len(created) :
        LET w == Readable(i)
        IN /\ IsTest(w)
           /\ w.throughput >= 1 /\ w.nps >= 1
           /\ w.mode \in {"GAMES", "DATAGEN"} => w.games >= 1
           /\ w.mode = "SPSA" => w.batch <= w.pairs /\ w.tuned # {}
           /\ w.early \subseteq {"fischer", "movetime"}
           /\ w.args \cap Managed = {}

\* A profile never shows tests that were not created or games that nobody
\* reported, whatever was saved over what and whichever thread failed; and it shows
\* all of them but those whose own thread failed before it counted them or has yet
\* to, when no stale row was saved over a newer one (create_workload.py:214-218,
\* views.py profile_config, utils.py update_test).
ProfileCountsAreReal ==
    LET tests == Len(created) - Cardinality(Uncounted) - missed.tests
        games == reported - owed - missed.games
    IN /\ account.tests <= tests /\ account.games <= games
       /\ ~lost => account.tests = tests /\ account.games = games
=============================================================================
