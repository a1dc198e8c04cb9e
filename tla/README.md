# Verification of ShogiBench

ShogiBench is a distributed testing framework for shogi engines (a fork of
OpenBench): a Django server keeps *workloads* (tests, data generation, SPSA
tunings), any number of worker machines ask it for work, play games, and report
what they played.  This directory holds TLA+ models of the parts of it in which
several actors touch the same state, TLC configurations that check them on small
instances, and theorems about them that TLAPS checks for every value of the
constants.

    tlc -config MCResults_faults.cfg MCResults.tla     # check one run
    tlapm ResultsProofs.tla                            # check the proofs of one module

All definitions are translated from the source.  `PROJECT.json` names, for each
definition, the lines it stands for; for each property, a mutation of the model
that breaks it; and for each hazard of the code, the properties that watch it.

## 1. Inventory

### The processes

* **Server**: gunicorn with two processes of four threads each
  (`Deploy/server/entrypoint.sh`), SQLite as the database, files under `Media/`.
  `select_for_update` does nothing on SQLite; transactions are deferred, so what
  keeps them apart is SQLite itself: a transaction that has written keeps others
  from writing, one that has read keeps others from committing, and a statement
  that waits too long fails with "database is locked".
* **Watchers**: an `ArtifactWatcher` and a `PGNWatcher` thread in one of the
  server processes, the one that holds a lockfile (`apps.py`).
* **Workers**: a restart loop (`Deploy/worker/setup_worker.sh`) starts `client.py`,
  which starts `worker.py`, which loops: ask for a workload,
  download, build, bench, play, report.  One worker runs several match runners
  (fastchess-like processes with a reading thread each) or, for SPSA, one detached
  `rshogi spsa` process.
* **People**: the forms and buttons of the workload pages, the pages of networks,
  profile and tune kits, the buttons of `/workers/`, and whoever connects a machine.

### The components

| component | state | operations | interacts through | hard behaviour | correct when |
|---|---|---|---|---|---|
| **Results** (`utils.update_test`, `views.client_submit_results`, `client_heartbeat`, `client_bench_error`, `modify_workload`, `watcher.py`, `get_workload`, `worker.ResultsReporter`) | `Test`, `Result`, `Profile` rows; queue and pending results of a worker | assign, play, collect, report, credit, heartbeat, stop/delete/restart/..., artifacts found, bench error | HTTP requests; whole-row `save()` next to `F()` updates | lost replies, retries, threads that fail between statements, stale copies of rows | no finished game is lost silently or counted twice, the verdict fits the numbers, openings are disjoint, every workload ends |
| **PGN archive** (`PGNArchiveReporter`, `client_submit_pgn`, `pgn_watcher.py`) | PGN rows, raw files, one tar per test, offsets and part number of the worker | checkpoint, upload, archive | part numbers; files that no transaction rolls back | resends, crash between tar, file and row, locks | no game twice in the tar, no row without its games, every row archived |
| **SPSA runner** (`spsa_rshogi.py`, `update_spsa_workload`, `valid_spsa_assignment`) | the progress in the Test row, `offsets.json` and the run directory of a machine, the process | assign, launch (fresh, takeover, resume, attach), report, stop | cumulative reports that overwrite the row | two machines at once, old run directories, late reports | progress is real and credited, a finished tuning is complete, a tuning ends |
| **Machine sessions** (`verify_worker`, `client_worker_info`, `/workers/` pages, `client.py`) | `Machine` row (info, secret, workload, time stamp), worker keys, the worker's secret | check version, register, report, stop, resume, revoke, deploy | `Machine` saved whole; answers that are exceptions of the worker | a session replaced by an older one, a stop lost to a whole-row save, exceptions caught by the wrong loop | a row is one session's; a revoked key shuts its workers down, and nothing else does |
| **Workload selection** (`select_workload`, `game_distribution` in `get_workload.py`; `affinity_settings` of the worker, `genfens.py`) | none of its own: `Machine.workload` and its time stamp | filter, weigh, choose, distribute, pin | rows of tests and recent machines, read by several threads before any of them saves | integer divisions in different orders, the same count seen twice, machines that keep what they have | what a machine is given fits it; alike tests all get machines |
| **Worker: downloads, builds, benches** (`complete_workload`, `cleanup_client`, `utils.py`, `bench.py`) | `Books/`, `Networks/`, staged copies, `Engines/`, blacklist | clean, ask, fetch, stage, build, bench, report a failure | the disk, which outlives the process; bench and build reports | kills in the middle of a file, links to a damaged file, names that must tell builds apart, exceptions that must lead back to the loop, calls without a timeout | a match starts with the right files; a test is stopped for its own faults only; the worker keeps asking |
| **Deployment: supervision** (`setup_worker.sh`, `client.py`, the lock and the exits of `worker.py`) | processes, two locks, `openbench.exit` | connect again, take over, check the key, restart, exit 65 and 66, update | signals, exit codes, flock | old loops that restart what ended for good, an update that drops its own lock, refusals that are repeated for ever | one client per directory; revoked stays down; a machine is served |
| **Watcher start-up** (`apps.py`, `entrypoint.sh`) | the lockfile | open, lock, end, remove | the file system | the file removed after the lock is released | one set of watchers, and some in the end |
| **SPSA trajectory** (`read_run_progress`, `read_trajectory`, `_merge_spsa_trajectory`) | trajectory in `Test.spsa` | assign, launch, report, merge, renumber | cumulative reports from files that are being written | lost and late reports, torn files, takeovers, two tuners at once | every batch is there, and a single run's are its own |
| **Networks** (`network_upload`, `network_default`, `network_edit`, `network_delete`, `network_aux_delete`) | Network and NetworkAuxFile rows, files by hash | upload, set default, edit, delete, add and remove auxiliary files | rows, and files that rows share | read, clear, save as separate statements | one default per engine; every network has its file |
| **Workload creation** (`verify_workload.py`, `create_workload.py`, variants, tune kits, `Profile`) | the new `Test` row, `Profile` | verify, ask GitHub, build, save, count | networks, variants and kits that change between the checks and the row; `Profile` saved whole | two readings of one text, a text that is stored in another form, threads that fail between two saves, stale rows | rows the rest can work with; counts that are real |
| Statistics and ratings | - | Elo, SPRT, Ordo-like ratings | - | numerics | - |
| Tuning tools, match-runner command lines, pages, accounts | - | - | - | - | - |

`PROJECT.json` lists the same components with their sources and status.

### The hazards

`PROJECT.json` lists them by line.  In short: SQLite rows that are read, changed
and saved whole while `F()` updates and transactions change them; a request whose
reply is lost after it took effect; statements after a transaction that a failing
thread leaves undone; files that are written inside a transaction and survive its
rollback; a tar that is appended to before the row says so; a window of three
minutes standing for the death of a machine; cumulative reports that arrive out of
order or from two machines; a run directory that is older than the server's state;
a disk on which everything a killed worker left is used again; a clean exit that a
supervisor undoes, or a supervisor that ends where it should not; a lock that
belongs to a file and not to its name; calls that have no timeout; a form that is
checked by one conversion and stored by another.

One hazard has no property: the final checkpoint of the PGN archive
(`worker.py:1582`) is tried once, and the games since the one before are lost with
it.  The code accepts that, and the archive's properties allow it.

## 2. The modules

| module | what it is |
|---|---|
| `TestRow` | the `Test` row and the pure functions handlers apply to it: sums, verdict, openings, buttons |
| `Results` | EXTENDS `TestRow`: workers, the threads that handle their requests, whole-row saves |
| `ResultsProofs`, `DeliveryProofs` | theorems about `Results`: types, verdict, openings; delivery, credits and the overrun |
| `MCResults` | `Results` with concrete pairs and a concrete likelihood ratio |
| `PartStore` | abstract: what the archive promises of a part |
| `PgnArchive` | reporter, upload, table, files, tar, watcher; an INSTANCE of `PartStore` is refined |
| `PgnArchiveProofs` | theorems about it, the refinement among them |
| `MCPgnArchive` | its symmetry |
| `Spsa` | one tuning: assignment, launch, the tuner, reports, takeover |
| `SpsaProofs` | theorems about progress, credit and the end of a tuning |
| `MCSpsa` | its symmetry |
| `Sessions`, `SessionsProofs` | registration, the session's requests, buttons and keys of `/workers/`, deployments; small enough to be checked without an MC module; theorems about rows, shutdowns and types |
| `Distribution` | how many games a machine plays at once, as operators |
| `Selection` | EXTENDS `Distribution`: which test a machine is given |
| `Preparation` | one worker between two matches: its disk, its jobs, its way back to the loop |
| `Supervision` | restart loops, clients, the bootstrap |
| `Startup` | server processes and the lock file |
| `MCWorkers` | the four above for TLC: machines, tests and branches |
| `WorkersProofs` | theorems about `Distribution`, `Selection`, `Preparation`, `Supervision`, `Startup` and the four as `MCWorkers` composes them |
| `Creation` | from a form to a `Test` row, while pages change what it reads; EXTENDS `Distribution` for what a row has to be |
| `Networks`, `NetworksProofs` | network rows and files under several requests; theorems about both |
| `Trajectory` | the curve of one tuning |
| `MCServer` | the three above for TLC: forms, contents |
| `ServerProofs` | theorems about `Creation`, `Trajectory` and the three as `MCServer` composes them |

Definitions that end in `_Something` after the name of another one (as
`NoAnswer_ForgetPending`) are mutations of it that no specification uses.

### Results

State: `test` is the row; `result` and `profile` are the other two rows credited;
`worker[w]` has the position in the loop, the pairs not yet played (`left`), the
queue between match runners and reporter, and `pending_results`; `assign`,
`thread` and `editor` are the server threads with the copies of rows they hold.
`played`, `delivered`, `dropped`, `handed`, `overlap` and `clobbered` record what
happened and are read by the properties only.

| action | code |
|---|---|
| `SelectTest`, `OpenResult`, `SaveResult`, `SaveScale`, `TakeBookIndex` | the steps of `get_workload`: select, `get_or_create`, `result.save()`, the whole-row save for tests older than `scale_nps`, the transaction on `book_index` |
| `FinishPair`, `Collect`, `SendReport`, `SendFinalReport`, `FinishWorkload`, `HeartbeatStop` | match runners and `ResultsReporter.process_until_finished` |
| `CommitReport`, `CreditResult`, `CreditProfile`, `Reply`, `EndThread` | `update_test`: the transaction, then one `F()` update each, then the reply |
| `BeginPageOp`, `BeginArtifacts`, `BeginBenchError`, `SaveEdit` | the three users of `test.save()` outside a transaction |
| `GiveUpAssignment`, `GiveUpReport`, `LoseFinalReport`, `FailThread`, `Abort` | timeouts, lost requests and replies, "database is locked" and killed threads, the end of the worker |

A test's tally is a function of nine columns.  What a pair may add to it is the
constant `Pairs`; the likelihood ratio of a tally is the constant operator `LLR`,
about which it is only assumed that the empty tally lies between the bounds.

### PgnArchive

State: `reporter[r]` is a workload with its written games, accepted offset and part
number; `upload[t]` a server thread inside `client_submit_pgn`; `table` the
committed PGN rows; `raw` the files; `tar` the members of the archive, `torn` when
it ends in half a member or is empty; `watcher[v]` the pass of a `PGNWatcher`,
step by step: read the row, look for the tar, open it, add the member, delete the
raw file, commit.  `WriteFrom` is what `tarfile` does when another process changed
the archive since it was opened: it writes at the offset it found then.  Games of
a workload are numbered, and a part is an interval of them.

Two facts about the file storage matter and are modelled: `FileSystemStorage.save`
never overwrites, so that a file left by a rolled-back transaction makes the next
one go to a name nothing refers to; and the tar is changed before the row is.

A reporter owns its keys: the model assumes that no two workloads of a machine on
a test have the same `book_index`.  `Results!OpeningsDisjoint` says when this is
so: as long as no stale whole-row save puts an older `book_index` back.

### Spsa

State: `test` is the progress, in pairs, and the flags; `row[m]` says whether the
Machine row names the tuning and is younger than three minutes; `assign`, `worker`
and `thread` as above; `dir[m]` is `SPSA/<test_id>/` on the machine: the offsets
(`base`), the pairs run (`done`) of the schedule (`total`), whether `meta.json` and
`final.params` exist; `proc[m]` is the tuner, a detached process.  The tuner itself
is external, and modelled from the files `spsa_rshogi.py` reads: it runs pairs,
leaves `meta.json` after the first batch and `final.params` at the end, and may
end before its last pair only if early stopping is configured.

`LaunchRun` is the choice between attaching, resuming, taking over and starting
afresh.  `CommitSpsa` overwrites the row with the cumulative numbers of a report;
`CreditSpsa` adds the difference to what was there before to the Result row.

### Sessions

State: `row[w]` is the Machine row that the machine token of a worker finds, with
the part of `info` that concerns sessions; `key` the worker keys, `account` the
owner's `Profile.enabled`; `server` the client version and the configuration
checksum of the deployed server; `worker[w]` the worker's process, with its
position, its version, its credential and the secret of its session; `thread[t]`
a request with the copy of the row it was read with, or its reply.  A secret is the
number of the registration that drew it, and `opened` lists them.

| action | code |
|---|---|
| `CheckVersion`, `SkipVersion`, `Update` | `wait_for_server_version`, `download_client_files` |
| `Register`, `RefuseRevoked`, `OpenSession` | `server_configure_worker` and `client_worker_info`, between whose look-up and save other handlers run |
| `RequestWorkload`, `ReportNPS`, `Report` | the requests, with the verdict of `verify_worker` on the row as it is then |
| `GetWorkload`, `SubmitNPS`, `Heartbeat`, `SubmitResults` | the handlers: what they save of the copy, and what they answer |
| `Reply` | where the answer, or the exception it turns into, leaves the worker |
| `PressButton`, `SetStop`, `SetKey`, `SetAccount` | the page of machines and keys; the administrator |
| `GiveUp`, `FailThread`, `Crash`, `Reconnect`, `Deploy` | timeouts, failed handlers, restarts of worker and server |

`Results` and `Spsa` take the session for granted: there a worker has one, and a
`stop` for an answer is a failure of theirs.

### Distribution and Selection

`Distribution` has the arithmetic only: `ValidHardware` is the filter of
`valid_hardware_assignment`, `Sockets`, `Concurrency` and the rest what
`game_distribution` makes of an admitted test, and `Fits`, `SpsaFits`, `OpeningsFit`
what the worker, the tuner and the opening books then assume.

`Selection`'s state: the open tests, `works[h]` and `seen[h]` (the workload and the
minutes since the time stamp of a Machine row), the blacklist of a session, and
`choice[h]`, what a request has selected and not saved yet.  `Select` is the first
half of `get_workload` (filters, focus, priorities, ratios), `Assign` the second;
between them other threads select from the same counts.  `Lapse`, `Connect`,
`Blacklist` and `OpenOrClose` come from outside.  Ratios are compared as products of
naturals, with the balance option's shares brought to a common factor.

### Preparation

The disk is `book`, `net`, `stage` (the staged directory of a network, a hard link
or a copy) and `binary`, by name; a file is none, good or bad, a binary the branch
it was built from or the torn beginning of a file.  `prep` is the list of jobs of
`complete_workload`, and each job an action that fetches, copies, builds or benches,
fails with the exception the code raises there, or is interrupted by `Kill`.
`Age` makes a file older than `cleanup_client` keeps it.  `BackToLoop` and `Restart`
are the two handlers of `run_openbench_worker`.  Where the code waits without a bound
(`credentialed_request`, the download of a book or an artifact, `make`, `cargo`), the
job may also stall for good (`Unbounded`, `Hang`); only a kill ends that.

### Supervision

A loop is one started by the current `setup_worker.sh`, which knows the exit codes
(`Acks`), or an older one: with the script's name in its command line (`Named`), in a
shell pipe that shows none, or a supervisor of another kind.  `ConnectAgain`,
`TakeOver`, `CheckKey`, `CheckUnanswered` are the bootstrap with its lock;
`StartClient`, `TakeLock`, `Ask`, `Work`, `UpdateClient` the client; `ExitForGood` the
exits 65 and 66 with `terminate_legacy_wrapper`.  A process that ends lets go of the
directory's lock, whatever it ends with.  Which of the older loops still turn on the
machine is open in the initial state, and so a machine may have loops of the current
kind only.

A revocation reaches a client through a refusal that carries `shutdown`, and not every
refusal does.  A client that signs in with a password never gets one (`Keyed`).  A
working client that is outdated is told so before its key is looked at, and then asks
for its files in vain (`UpdateClient`).  One whose Machine row is gone, or another
session's, or whose server has another configuration (`RefuseSession`) repeats its
request inside `try_forever`, which only a refusal of the version ends (`AskInVain`).
And a client may hang in a call without a timeout (`HangClient`).

### Startup

A lock belongs to the file that was opened (`opened[p]`, a number that no two files
share), while `named` is the file that has the name.  `OpenLockfile`, `TryLock`,
`EndInOrder`, `RemoveLockfile` are `acquire_watcher_lockfile` and `shutdown`;
`Killed` is a signal or gunicorn's timeout, and `Replace` gunicorn's master.  The
migration of `entrypoint.sh` is a process that goes first.

### Creation

`form[t]` is the request of a thread at its place: verified (`Submit`), GitHub asked
(`AskGithub`), the kit read again (`MatchKit`), the row built and saved (`FailBuilding`,
`SaveTest`), the profile read and saved (`ReadProfile`, `SaveCount`), finalized.
`catalog` is what it reads and the pages change in between: network, variant, kit.
`account` is the Profile row, saved whole by creation, by the profile page (once or
twice) and by the administrator, and credited by `update_test`, whose transaction
(`CommitReport`) and credit (`CreditGame`) are two statements.  A thread may fail
between any two statements (`FailRequest`, `FailCredit`): `missed` counts what it then
leaves uncounted.

The options of a TEST are not stored as they were checked: `merge_engine_test_options`
takes them apart into tokens, and drops a quote that nothing closes, while
`extract_option` reads on to the end of the text or over a line break.  An engine of a
form therefore says how its text is `written`, and `StoredThreads` is what
`get_workload.py` will find in the row; `cut` are the rows for which that is not what
was checked.  A text of a form is
one of the classes that the checks and conversions tell apart (`"0.5"` is a number
for `float` and not for `int`, `"inf"` for `float` and compares, `"x"` for neither).

### Networks

`row`, `auxRow` and `media` are the two tables and the stored files; a file is named
by the hash of its content, so `media` is a set of contents.  A request is a record in
`netReq[t]`, and every database statement or file operation a step: `StoreFile`,
`StoreAux`, `CreateRow`, `CreateAuxRows` of an upload; `ClearDefaults`, `SaveDefault`;
`SaveEdit` (one transaction); `DeleteRow`, `Unlink`; `BeginAuxAdd`, `BeginAuxRemove`,
`UnlinkAux`.  `save()` of a copy writes every column, and inserts a row that is gone.
`overlap` collects what two requests had open at once, where the code gives no
promise.

### Trajectory

`run[m]` is a run directory: where it counts from, the batch that is done, and whether
it has ended; `monitor[m]` the loop of `run_workload` with what it was assigned with;
`posted[m]` the report it waits for, and `late` those whose senders wait no longer;
`curve` and `counted` what the server has merged, and `reached` the progress.

Nothing keeps the machines apart: any of them may be assigned, launch and report at any
time, since `Spsa` shows that two can (`SingleRunner`).  A new run counts from the pairs
that were reported when it was *assigned*, divided by the size of a batch (`Bases`).
A report is read while the tuner goes on writing: `meta.json`, `state.params` and the
two csv files may each be of the next batch, a `meta.json` that cannot be read stands for
no progress, and the last line of a csv may be cut short.  A report that is given up
has been handled, or is handled at any later time (`HandleLate`), after others of its
sender or of other machines.

### How the modules meet

`Results`, `PgnArchive`, `Spsa` and `Sessions` share rows of the database and say
above what they take from each other.  `Selection` hands over to `Preparation` (a
test and its branches), that to `Results` (a match with the right files);
`Supervision` restarts what `Sessions` calls a crash; `Startup` justifies the single
`watcher` of `PgnArchive`; `Creation` delivers rows for which `IsTest`, the
assumption of `Distribution`, is a checked invariant (`NewTestsCanRun`); `Networks`
delivers the files that `Preparation` downloads; `Trajectory` is the part of a report
that `Spsa` leaves out.  These seven have no variable in common, and so
`MCWorkers` and `MCServer` check each of them by itself: `subject` is chosen in the
initial state, and only the subject moves.  That is a sum of state spaces instead of
a product, and nothing is lost by it, since no action of one reads a variable of
another.

## 3. The runs

Every cfg bounds the failures (`MaxFailures`), the whole-row saves or buttons
(`MaxEdits`), and the work; all runs set `CHECK_DEADLOCK FALSE`, as the system
stops when all the work its bounds allow has been handed out and done.  Symmetry
is used only for safety.

| run | question | instance | states |
|---|---|---|---|
| `MCResults_faults` | are games lost, duplicated or credited wrongly when requests, replies, threads and workers fail; does every workload end? | 2 workers, 2 threads, 2 failures, 4 pairs | 0.25 million |
| `MCResults_edits` | do verdict, sums and openings survive whole-row saves? | 2 workers, 1 thread, every button, all modes, old and new rows | 1.8 million |
| `MCPgnArchive_archive` | is the archive right whatever fails, does it implement `PartStore`, and does every row get archived? | 1 workload of 3 games, 2 threads, 1 watcher, 2 failures | 0.14 million |
| `MCSpsa_takeover` | is progress real and credited, and a finished tuning complete? | 2 machines, 2 report threads, 1 expiry, 1 failure, 1 STOP | 4.9 million |
| `MCSpsa_live` | is a tuning finished? | 2 machines, 1 failure, early stopping | 0.5 million |
| `MCWorkers_workers` | does what is selected fit, do tests get machines, does a match start with the right files, does a worker keep asking, does one client run and stay down, is there one set of watchers? | `Selection`: 2 or 3 machines, 2 to 4 tests, 2 changes; `Preparation`: 5 tests, 2 mishaps, 1 aging; `Supervision`: up to 5 loops, 4 events; `Startup`: 2 processes, 3 ends | 0.24 million |
| `MCServer_server` | can every new test run, are counts real, has each engine one default and each network its file, is the curve complete? | `Creation`: every form that differs from a good one in one field, 2 threads, 2 reports, failures or page changes; `Networks`: 2 threads, 2 engines, 2 contents, 4 forms; `Trajectory`: 2 machines, 3 batches, 2 runs, 1 report given up or machine that leaves, 1 report from half-written files | 3.6 million |
| `Sessions_revoked` | is a row always one session's, and does a revoked key shut its workers down, and nothing else? | 1 worker, 1 key and the password, 2 threads, 2 registrations, any 3 events | 0.4 million |

The bounds are small, and chosen so that each hazard fits in: two workers are
enough to race for a row; two pairs per workload, so that a report can be partial
and a queue can fill while a request is out; two server threads, so that a request
its worker gave up can overlap with the next one, of the same or the other worker;
two failures, so that one can hit the recovery of the other; a limit of three
games, below what four pairs add, so that a test finishes while games are out;
three games in an archive, so that a resent part can have grown.  Workers meet in
`Sessions` through keys and accounts only, so that one of them with two threads has
all the races for its row (with two workers and two events, 2.6 million states, the
invariants hold as well); `MaxEvents` is one budget for everything that comes from
outside, so that three events may be of any kinds, such as a button, a lost request
and a deleted key.

`Selection` is looked at in three cases: more machines than tests, more tests than
machines, both with one server thread, for the liveness; and machines and tests that
differ in everything the filters look at, with several threads, for the safety,
which `AssignmentsFit` proves for all cases.  `Preparation` has a test for each way
a branch can be bad (an option alone tells its engines apart, it does not compile,
its bench is wrong, its source or its artifact is gone), so that two mishaps can hit
one file twice, or the file and its staged link.  `Supervision` has a loop of each
kind and two of the current one, so that one can take over from the other, with any of
the older ones absent; four events allow a second connection, a crash, a deployment and
a revocation.  One of the loops signs in with a password.
`Creation` varies one field at a time, since the checks read one field, or a field
and its kind, each; engines vary in pairs of clock and ponder, and batch and total
pairs together.  Options with an open quote and with a line break are among the forms
of each kind.

In `Trajectory` three batches are what a hole needs: one before it, itself, one after.
Two runs and two machines are what two tuners at once, or a takeover with a return to
the old directory, need; one mishap makes one report late, which both machines can
overtake.  `MaxRows` is three, so that reports of four rows are cut (`clipped`); what
happens then is under 5.  The machines are alike, and
so are the threads of `Networks`, which `Symmetry` uses.

### Fairness

`Results!Fairness` is weak fairness of each worker's loop (it turns every few
seconds, games end, `process_until_finished` sends something at least every
`REPORT_INTERVAL`) and of each thread that has a request (it is executed).  A
request that gets no thread or no answer is a failure, which the worker's timeout
(`TIMEOUT_HTTP`) turns into an exception.  Nothing is assumed of people, the
watcher or faults.

`Sessions!Fairness` is strong for a worker's loop, whose requests wait in
gunicorn's queue until a thread is free, and weak for a thread with a request.

`PgnArchive!Fairness` is strong fairness of uploads and watcher: they wait for
each other's locks, a wait ends in a refusal, and the watcher is back 15 seconds
later, so that a commit may be enabled again and again without being enabled for
good.  `Spsa!Fairness` is weak for a machine's loop, the tuner and the threads, and
strong for the reply to an assignment and for the launch, which the other steps of
the machine do not supersede; time passes, so that a machine that is idle for
three minutes does not count as recent.

`Preparation` is weakly fair as a whole: the worker is one thread, and a call of its
returns, raises or times out, but for those of `Unbounded`, which may stall for good
(`Hang` takes the worker to a place that no fair action leaves).  `Supervision` is weak
for each loop and its client, unless that is refused for good or hangs, and `Startup`
for what begins to start or to end.  `Selection` asks for a worker's requests
strongly and for their answers weakly, and only in the cases with one server thread:
with several, requests can see the same counts for ever, and nothing is promised.
`Creation`, `Networks` and `Trajectory` have safety properties only.

### What the code does not do

Four statements of comments, documents and messages are refuted by runs that
expect a violation (`findings` in `PROJECT.json`):

* `MCResults_sum`: the numbers of a test are the "collection of all individual
  `Result()` objects", but MODIFY saves a row it read before a report came in.
* `MCPgnArchive_acked`: offsets advance "only after the sending has succeeded", but
  the answer to a part sent again is a success although its content, grown since
  the first time, is dropped.
* `MCSpsa_single`: a tuning "is always owned by one worker", but the check and the
  save of the Machine row are not one step, and builds go unreported for longer
  than three minutes.
* `Sessions_outdated`: a worker is "prompted to soft-restart if its config is out of
  date", but one that has nothing to do when the server is deployed with other
  build configurations asks inside `try_forever`, which catches the exception that
  is to restart it and asks again, for ever.

`RevokedStaysDown` names the clients that a revocation does not reach: one that updates
itself, is refused for another reason or hangs.  `RevokedShutsDown` names the sessions, and the run
fails without any of them: a session that another one has replaced (a late
registration, or a late save of the row from before), an outdated one, one whose key
was deleted between the authentication and the look-up of `client_worker_info`, and
a worker that is downloading its client (`download_client_files` does not look for
`shutdown`).  In the first two the worker asks inside `try_forever`, too.

More of the kind were seen while modelling, and have no run of their own:

* "Workload was Deleted!", but the `ArtifactWatcher` saves a row it read before the
  deletion, and the test is back (`watcher.py:65`);
* a takeover starts "from the newest state the server keeps" (`SPSA.md:139`), but a
  machine that has a run directory resumes that (`spsa_rshogi.py:441`);
* `result.save()` in `get_workload` can write an older copy of a Result row over a
  credit ("no risk from concurrent access", `utils.py:736`);
* `games_delta` of `update_spsa_workload` can credit a machine with pairs another one
  ran ("only this machine's contribution", `utils.py:936`);
* a stop that the page has saved is lost when a heartbeat or an assignment read the
  row before and saves it after (`get_workload.py:60`), which `StopReachesWorker`
  allows for;
* a staged directory older than the networks are kept ends every pass of
  `cleanup_client` with an exception (`worker.py:1177`), which `AsksForWork` excepts;
* a worker hangs for good when the peer of a download, or a compiler, stalls
  (`Client/utils.py:156`, `279`, `428`, `462`, `474`), which `AsksForWork` and
  `MachinesServed` except;
* a bootstrap that gets no answer to its credential check has already stopped the loop
  before it (`setup_worker.sh:522`), which `MachinesServed` excepts; when it is refused
  it leaves the tuner of that loop running, which `RevokedStaysDown` excepts;
* a form with `Threads="1`, whose quote nothing closes, passes its checks, and is stored
  as a row whose threads `get_workload.py:210` cannot read, so that the selection raises
  for every machine; `NewTestsCanRun` excepts the threads of such rows and nothing else;
* a thread that fails between `test.save()` and `profile.save()` leaves a test that the
  profile never counts (`create_workload.py:214`);
* an SPSA report that is handled after a later one overwrites a value of the curve with
  that of another batch, for good (`utils.py:850`), which `CurveIsComplete` excepts;
* a server process that ends removes the lock file after it let go of it, under
  one that has locked it since (`apps.py:112`), which `OneSetOfWatchers` excepts;
* two requests on one engine can leave two default networks, and two on one content a
  network without its file, which `overlap` excepts.

## 4. What is proved

Every invariant of the passing runs is a theorem, for every value of the constants,
and so are the action property `FinishedIsComplete` and the refinement of `PartStore`.
Eight modules hold the theorems.  Each assumes nothing but the ASSUMEs of the modules
it proves about; the theorems about the archive have one hypothesis more, which is
explained there.

The ASSUMEs say of what kind the constants are, and TLC evaluates them on every run.
That sets of workers, machines, threads and tuners are finite is needed for the
sums and the counts.  Some say a little more: a pair has two games and a workload at
least one pair (`ResultsAssumption`; `worker.py` plays and reports pairs), a branch is
the record of what its build depends on (`PreparationAssumption`), there is a file to
create (`StartupAssumption`), some tune kit fits some branch (`CreationAssumption`).

Sums (`Total` in `Results`, `SumFunction` of the community modules in `Spsa`) are
defined by recursion over a set that `CHOOSE` takes apart, and the induction theorems
of the library take a predicate, which the provers cannot instantiate.  `SubsetInduction`
says the same of a set `G` of sets (if `T` is in `G` whenever all `T \ {x}` are, `G` has
all subsets), from the well-foundedness of the strict subsets of a finite set; from it
follows that the recursion has its solution, and then that a sum changes by what one
entry changes by, and is at least each of its entries.

### Results

`ResultsProofs` proves, for any sets of workers, threads and editors, any tallies,
bounds, limits and any likelihood ratio:

* `TypeCorrect`: `Spec => []TypeOK`;
* `VerdictIsSound`: `Spec => []VerdictSound`.  The verdict of the row is always the
  verdict of its own numbers.
* `OpeningsAreDisjoint`: `Spec => []OpeningsDisjoint`.  Without a stale save no two
  workloads share an opening.

None of the last two is inductive.  A row is saved whole from a copy read earlier,
so that the verdict of the *copies* matters: `CopiesConsistent` says that the row
in the database, the row every `get_workload` thread holds and the row every
editor holds all have the verdict of their numbers (and, being functions of
`Tally`, are well-typed).  It is preserved because every function that handlers
apply to a row preserves it: adding a report recomputes the verdict from the new
sums (`AddReportConsistent`), the buttons touch neither numbers nor `passed` and
`failed` (`EditedConsistent`), and the rest touch neither (`ScaledConsistent`,
`TakeOpeningsForward`).  `SpansForward` says that `handed` equals the row's
`book_index`, or is below it, until some save clobbered a newer row.  The inductive
invariant is

    RowInv == TypeOK /\ CopiesConsistent /\ SpansForward

with `RowInvInit`, one lemma per action that changes a row (`SaveScaleRowInv`,
`CommitReportRowInv`, `SaveEditRowInv`, ...), one for each group of actions that
changes none, and `RowInvNext`, which splits `Next` into them.

`DeliveryProofs` proves the safety properties of the run `faults`, `NoPairIsLost`,
`NoPairCountsTwice`, `CreditsNeverLead` and `OverrunIsOneReport`, and one of the run `edits`,
`TestNeverOvercounts`, which is about saves of old copies and so is checked where editors are.
They are one induction (`DeliveryInvariant`), over

    DeliveryInv == ReportInv /\ DeliveredInv /\ CreditedOnce /\ CreditInv /\ CopiesInv

* `ReportInv`: a worker waits for one thread at a time, what that thread holds is what
  the worker has pending, and a worker holds as many games as it has played and not
  sent.  This is what makes a retry after a lost reply the only way to count twice.
* `DeliveredInv`: for each worker, what it delivered, gave up, has in its queue and has
  not sent is what it played; what is pending stops to count as *not sent* when the
  thread that holds it has committed.  Equality while nothing failed, at most
  otherwise.
* `CreditedOnce` and `CreditInv`: a Result row and the Profile, together with what
  threads between two statements still owe them, have exactly what was delivered while
  nothing failed, and at most that whatever failed.
* `CopiesInv`: every copy of the Test row, in the database and in the hands of a
  handler, has at most what was delivered, and exceeds the limit of games by less than
  one report.  Without it no step that saves a row whole would preserve anything.

### The PGN archive

`PgnArchiveProofs`: `ArchiveTypeCorrect`, `GamesArchivedOnce`, `FlagIsTrue`,
`NothingCommittedIsLost`, and `ArchiveImplementsPartStore`, each with the hypothesis

    LoneWatcher == \A u, v \in Watchers : u = v

that one thread runs `PGNWatcher`, as in the runs.  That is what the lock file of
`apps.py` is for, and `OneWatcherProcess` shows when it holds.  Without it the last two
invariants and the refinement are false: of two passes that have the archive open, one
writes from where the archive ended when it opened it, and cuts off the member of the
other; TLC finds that in seconds with a second watcher.  For the first two TLC found no
counterexample with two watchers, three games and up to two failures (one for `TypeOK`);
they have the hypothesis because one induction carries all of them.  The invariant is

    ArchiveInv == TypeOK /\ PartsInv /\ TableInv /\ TarInv

`PartsInv` looks at everything that exists of a part (a request, a file, a member of
the tar) at once: each lies where its reporter was when the part had that number, and
two parts of a reporter follow each other, so that different numbers never share a
game and equal numbers begin with the same one.  `TableInv` is about rows and requests
between insert and commit; `TarInv` says that a key has one member, and what each
position of the watcher's pass (`PassInv`) knows of tar, file and row, from which the
next step can be taken, or given up.  For the refinement the mapped value of every part
is a function of the row and of the place its games are in, and each of the steps
(add the member, delete the file, commit the flag) leaves that value as it is.

### SPSA

`SpsaProofs`: `TypesHold`, `ProgressWasRun`, `FinishedWasComplete`, `ProgressWasCredited`.
Nothing in the invariant says who runs the tuning, since two machines can.
`AllIsReal` says instead that every number that is written down or under way (the
row, what an assignment hands on, offsets with the pairs of a run directory, a report)
is at most what was run; `SchedulesAreCovered` that a run together with the offsets it
was launched with reaches the end of the schedule, and that what is called final has
reached it (without early stopping); `DueIsCommitted` that only a report between its
two statements owes a credit; `OneQuestion` that a machine waits for one answer.  A
launch preserves `AllIsReal` and `SchedulesAreCovered` because it takes the offsets and
the schedule both from the assignment, or both from the directory it resumes.

`ProgressIsCredited` is said as far as credits are counted: `MaxCredit` is a bound of the
model on a Result row, and the claim is about `Min({test.pairs, MaxCredit})`.

### The workers

`WorkersProofs` proves, for any test (`IsTest`) and any machine (`IsMachine`):
`WorkloadFits`, `TunerFits`, `OpeningsAreThere`.  They are about floors of quotients;
`Division` and `Budget` say what is needed of `\div`, and each theorem
splits on sockets, ponder and mode, as the code does.

`AssignmentsFit` is `SelectionSpec => []AssignmentFits`.  The inductive
invariant says that what is saved and what is merely chosen was admitted by the
filters that depend on the row and the machine only; the filters that depend on
other machines can be stale by then, and are not needed.

`OneClientAtATime` is `SupSpec => []OneWorkerRuns`.  The invariant is
`LockIsHeld`: a client that has passed `TakeLock`, and may by now be refused or hang,
is the one `dirLock` names.  An update gives the lock up, but only together with its own
position.

`OneWatcherProcess` is `StartupSpec => []OnceUnlessOvertaken`.  Unless
something was overtaken, every process that opened or locked a file opened the one
that has the name now, so that `TryLock` sees whoever watches.

`GamesAreOfTheirTest` and `BenchReportsStopTheGuilty` are about `Preparation`.  Their invariant

    PrepInv ==
        /\ PreparationTypeOK /\ prep \in Position
        /\ NamesHold /\ JobsAreDone /\ BenchStopIsDeserved

has the two facts the code relies on without saying so.  `NamesHold`: a whole file under
the name of an engine was built from what the name says, whichever test built it; so
the name has to tell builds apart, which `BinaryName` and the branches' records do
(`Built` is what a branch's build depends on; a private engine's network is not part
of it, since it comes with the artifact).  `JobsAreDone`: the jobs before the next one
have left what they promise, since nothing but `Kill` and the end of the workload
comes between; `Age` only touches files while the worker is in its loop.

`WorkersTypesHold`: `WorkersSpec => []WorkersTypeOK`, for the four specifications as
the run composes them.

### The server

`NetworksProofs`: `NetworksKeepTheirFiles` and `OneDefaultAtMost`.  The invariant is

    NetInv == NetType /\ Alone /\ FilesAreThere /\ DefaultsAreFew

where `Alone` says that two open requests have nothing in common but what `overlap`
names, `FilesAreThere` that the file is there for each content that a row has *or an
open request is about to save*, and `DefaultsAreFew` that an engine has one default,
and none when a request has cleared them and is to save.  The second halves are what
the state between two statements of one request needs, and `Alone` is what keeps
another request from spoiling it.

`ServerProofs`: `CreatedTestsCanRun`, `ProfilesCountWhatIsThere`, `CurvesAreComplete`,
`ServerTypesHold`.  For `Creation`,

    CreationInv == CreationTypes /\ Requests /\ AccountIsReal /\ RowsCanRun

where `Requests` says what the place of a request has established: a form is one of the
verified ones until it is a row, and a copy of the profile shows no more than there is;
`AccountIsReal` that the row shows exactly what there is unless `lost`, where what there
is leaves out the tests whose thread is about to count them or failed before it did
(`Shown`), and the games whose credit is owed or was never given (`Credited`).  What the
checks accept and what the conversions make of it are compared field by field
(`Numerals`, `NewTestCanRun`, ...); a row whose option text was cut is read as if its
threads were there (`Readable`), and so has to be right in everything else.

For `Trajectory`,

    TrajectoryInv == MachinesOK /\ (clipped \/ (Covered /\ (OneRun => ExactSoFar)))

`Covered` is about whoever has written down a number: the curve is full up to the batch
that was reached, the offset of every run and the progress every assignment has taken
along, and each report under way or late leaves no batch out below its own numbers that
the curve has not.  It is preserved for any number of machines because a curve is never
taken back: a report that covers the gap it leaves still does after others were merged.
`ExactSoFar` is about one run whose reports came in order (`OneRun`): there a report is
at most one batch ahead of what was reached, and no point before its `meta.json` is one
that `state.params` can still overwrite.  `ServerTypesHold` composes the two with `NetInv`
and its bounds.

### Sessions

`SessionsProofs`: `SessionsAreConsistent`, `Spec => []SessionIsConsistent`,
`OnlyTheRevokedShutDown`, `Spec => []ShutdownOnlyWhenRevoked`, and `SessionTypesHold`,
`Spec => []TypeOK`.  The first two are not inductive:
a handler saves a copy of the row that may be older than the session, and answers by
the key in that copy.  The invariant is

    SessionsInv ==
        /\ Types /\ RowsAreSessions /\ CopiesAreSessions /\ HaveRows /\ KeysAreOwn
        /\ OneAwaited /\ SecretsAreOwn /\ AwaitedAreOwn /\ RevokedIsKept
        /\ ShutdownOnlyWhenRevoked

`CopiesAreSessions` carries the first theorem over every stale save.  The second one
needs that the copy which decides a shutdown names the key of the worker that is told
to: the copy's secret was compared with the worker's when it was read, the worker has
waited since (`OneAwaited`), so that the copy is of the worker's own session
(`AwaitedAreOwn`), which its own credential opened (`SecretsAreOwn`, `KeysAreOwn`).  A
reply nobody waits for may say anything, and reaches nobody.  There the bounds of the model
only enter as natural numbers; `SessionTypesHold` adds `Bounds`, of which `RoomForAll` is the
part that is not obvious: a registration that was read has its secret as good as drawn.

### What is only model-checked

* Liveness, in all the runs: `WorkloadEnds`, `CommittedIsArchived`, `TuningFinishes`,
  `RevokedShutsDown`, `StopReachesWorker`, `AsksForWork`, `TestsAreServed`,
  `RevokedStaysDown`, `MachinesServed`, and the second half of `OneSetOfWatchers` (its first
  is `OneWatcherProcess`).  The provers know nothing of fairness and ENABLED.
* The four statements that are refuted: a counterexample is what TLC is for.

## 5. Abstractions, and what is not modelled

* `crashes`, `timelosses` and `illegals` of a Result, `Test.error`, and the fields
  that MODIFY edits (names, priority, throughput, size) take part in no condition
  that is modelled; MODIFY is left as the whole-row save it makes.
* The Profile is one: that of a single owner.  What `create_workload` and the pages
  do to it is in `Creation`, what reports credit to it in both.
* A transaction is one step where nothing outside the database happens in it
  (`CommitReport`, `TakeBookIndex`): of two that conflict SQLite refuses one, which
  is `FailThread`.  In `PgnArchive` it is several steps, as files change in between.
* One `clientGetWorkload` request of a machine is handled at a time.
* A machine that is stopped from `/workers/` or whose key is revoked gets `stop`
  for an answer: a branch of `Reply` and `ReplySpsa`, counted as a failure.  What
  leads to it is in `Sessions`.
* `Sessions` leaves out the 600 seconds a worker waits for a server older than itself
  (it may update at once), the two requests for match runners between the version
  check and the registration (they authenticate like it), `openbench.exit`, `--fleet`,
  and worker keys that are created.
* Times are left out.  Intervals become "may happen", windows become `recent`.
* SPSA progress is counted in pairs; games, results and parameter values are
  reported together with them.  A row deletes its old run directories after a long
  time; that clean-up is left out.
* A game record is a number.  `strip_new_pgns`, compression and the COMPACT format
  are left out.

* `Selection` leaves out how equal ratios are told apart (a random choice among the
  least) and the speed of machines, which the code does not ask for either.  With five
  machines and six tests alike, all machines are within a quarter of the fair ratio
  and the sixth test waits (`get_workload.py:104`); `TestsAreServed` is said of as many
  machines as tests.
* `Preparation`: the match runners' own build, `determine_scale_factor` and the
  genfens processes are left out.
* `Supervision`: the directory's file system has flock (without it the client goes on
  without a lock, by design).  Piped loops that are never killed are in the model.  A
  tuner that a refused bootstrap leaves running is stopped by nobody (`setup_worker.sh`),
  and no property says it would be.
* `Creation`: engine names, URLs and commit hashes are one field; `get_engine`, which
  may create an Engine row twice, is left out.  A network that is deleted between the
  check and the row raises (`FailBuilding`).  GitHub is external.
* `Networks`: names of networks are a second label of the content.  Active tests and
  auxiliary rows are not asked when a network is deleted, and so not in the property.
* `Trajectory`: parameter values are reduced to whether they are those of their batch in
  the run they come from, so that with two runs only their presence means anything;
  the property says so (`runs <= 1`).  After an outage longer than
  `TRAJECTORY_MAX_ROWS` batches rows are left out (`clipped`), and the property says
  nothing more.  A tuner that is started again in its directory goes on with the batch
  after the last one that is done.

Not modelled, with the reasons in `PROJECT.json`: statistics and ratings (floating
point; the likelihood ratio is a constant about which nothing is assumed), the
tuning tools (text transformations without state), pages, API and templates
(queries), accounts and administration (sign-up, log-in, commands run by hand).
`partly` are the SPSA runner (build of its binary, clean-up of old directories), the
worker's preparation and the deployment (installation of packages), for what the
list above leaves out.

## 6. What could come next

1. `Sessions` composed with the assignment of `Results`, so that the session decides
   who may report.
2. The build of the match runners and the genfens processes in `Preparation`.
3. `ArchiveTypeCorrect` and `GamesArchivedOnce` for any number of watchers.
4. Action properties that the invariants above imply: offsets and part numbers of a
   reporter never go back, a verdict is only withdrawn by a button.
