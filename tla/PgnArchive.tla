----------------------------- MODULE PgnArchive -----------------------------
(***************************************************************************)
(* How the game records of a test reach its archive.                       *)
(*                                                                         *)
(* During a workload the PGNArchiveReporter of a worker sends the games    *)
(* that were finished since its last accepted part; the part carries a     *)
(* number, and is sent again under the same number when no answer came.    *)
(* clientSubmitPGN inserts a PGN row and saves the file in one transaction,*)
(* and the PGNWatcher threads move the files into the tar of the test.     *)
(*                                                                         *)
(* A database transaction can be rolled back; files and the tar cannot.    *)
(* The database is SQLite: a transaction that has read keeps the others    *)
(* from committing, one that has written keeps the others from writing,    *)
(* and a statement that waits too long fails ("database is locked").       *)
(***************************************************************************)
EXTENDS Integers, Sequences, FiniteSets

CONSTANTS
    Reporters,  \* the workloads of the test, one PGNArchiveReporter each
    Threads,    \* server threads that can be busy with clientSubmitPGN
    Watchers,   \* PGNWatcher threads; the lockfile is meant to leave one
    MaxGames,   \* bound: games of a workload
    MaxFailures \* bound: failed threads, lost requests and replies, crashes

ASSUME ArchiveAssumption == MaxGames \in Nat /\ MaxFailures \in Nat

VARIABLES
    reporter,   \* reporter -> its match runners and its PGNArchiveReporter
    upload,     \* thread -> the request it is handling
    table,      \* the committed PGN rows, in the order of their ids
    raw,        \* key -> the content of the file <key>.pgn.bz2
    tar,        \* the members of the archive
    torn,       \* the archive is an empty file, or ends in half a member
    watcher,    \* watcher -> its pass
    failures

vars == <<reporter, upload, table, raw, tar, torn, watcher, failures>>

Games    == 0..MaxGames
Keys     == Reporters \X (0..MaxGames)     \* PGN's unique constraint
Contents == [from : Games, to : Games]     \* the games from+1 .. to
NoFile   == [file |-> "none"]
NoUpload == [pc |-> "idle"]
NoPass   == [pc |-> "waiting"]

Reporter == [pc : {"playing", "sending", "finished", "closing", "closed"},
             written : Games, offset : Games, part : 0..MaxGames]
Upload == [pc : {"received", "inserted", "saved", "done"}, key : Keys,
           content : Contents, awaited : BOOLEAN]
Pass == [pc : {"next", "begun", "append", "create", "opened", "added", "deleted"},
         todo : SUBSET Nat, id : Nat, end : Nat, present : BOOLEAN]

TypeOK ==
    /\ reporter \in [Reporters -> Reporter]
    /\ upload \in [Threads -> {NoUpload} \union Upload]
    /\ table \in Seq([key : Keys, processed : BOOLEAN])
    /\ raw \in [Keys -> Contents \union {NoFile}]
    /\ tar \in Seq([key : Keys, content : Contents])
    /\ torn \in BOOLEAN
    /\ watcher \in [Watchers -> {NoPass} \union Pass]
    /\ failures \in 0..MaxFailures

Init ==
    /\ reporter = [r \in Reporters |-> [pc |-> "playing", written |-> 0,
                                        offset |-> 0, part |-> 0]]
    /\ upload = [t \in Threads |-> NoUpload]
    /\ table = <<>>
    /\ raw = [k \in Keys |-> NoFile]
    /\ tar = <<>>
    /\ torn = FALSE
    /\ watcher = [v \in Watchers |-> NoPass]
    /\ failures = 0

Failure == failures < MaxFailures /\ failures' = failures + 1

-----------------------------------------------------------------------------
(***************************************************************************)
(* The worker.                                                             *)
(***************************************************************************)
WriteGame(r) ==
    /\ reporter[r].pc \in {"playing", "sending"} /\ reporter[r].written < MaxGames
    /\ reporter' = [reporter EXCEPT ![r].written = @ + 1]
    /\ UNCHANGED <<upload, table, raw, tar, torn, watcher, failures>>

\* The match runners are killed or done, and have closed their files; a game
\* that ends at the end of a file counts only now.
FinishGames(r) ==
    /\ reporter[r].pc = "playing"
    /\ \E more \in {0, 1} :
        /\ reporter[r].written + more <= MaxGames
        /\ reporter' = [reporter EXCEPT ![r].pc = "finished", ![r].written = @ + more]
    /\ UNCHANGED <<upload, table, raw, tar, torn, watcher, failures>>

Send_Empty(r, t, next) ==
    /\ upload[t] = NoUpload
    /\ upload' = [upload EXCEPT ![t] = [pc |-> "received",
            key |-> <<r, reporter[r].part>>,
            content |-> [from |-> reporter[r].offset, to |-> reporter[r].written],
            awaited |-> TRUE]]
    /\ reporter' = [reporter EXCEPT ![r].pc = next]
    /\ UNCHANGED <<table, raw, tar, torn, watcher, failures>>

Send(r, t, next) ==
    /\ reporter[r].offset < reporter[r].written
    /\ upload[t] = NoUpload
    /\ upload' = [upload EXCEPT ![t] = [pc |-> "received",
            key |-> <<r, reporter[r].part>>,
            content |-> [from |-> reporter[r].offset, to |-> reporter[r].written],
            awaited |-> TRUE]]
    /\ reporter' = [reporter EXCEPT ![r].pc = next]
    /\ UNCHANGED <<table, raw, tar, torn, watcher, failures>>

Checkpoint(r, t) == reporter[r].pc = "playing" /\ Send(r, t, "sending")
FinalCheckpoint(r, t) == reporter[r].pc = "finished" /\ Send(r, t, "closing")

\* Nothing to send, or the final request is lost: the files are deleted
\* before the next workload.
Close(r) ==
    /\ reporter[r].pc = "finished"
    /\ \/ reporter[r].offset = reporter[r].written /\ UNCHANGED failures
       \/ reporter[r].offset < reporter[r].written /\ Failure
    /\ reporter' = [reporter EXCEPT ![r].pc = "closed"]
    /\ UNCHANGED <<upload, table, raw, tar, torn, watcher>>

Answered(u) ==
    [reporter EXCEPT ![u.key[1]].pc = IF @ = "sending" THEN "playing" ELSE "closed",
                     ![u.key[1]].offset = u.content.to,
                     ![u.key[1]].part = @ + 1]

\* checkpoint_pgn swallows the exception of a regular checkpoint; that of the
\* final one ends the workload.
Unanswered(u) ==
    [reporter EXCEPT ![u.key[1]].pc = IF @ = "sending" THEN "playing" ELSE "closed"]

-----------------------------------------------------------------------------
(***************************************************************************)
(* clientSubmitPGN: get_or_create, save the file, commit.                  *)
(***************************************************************************)
Writing(t) == upload[t].pc \in {"inserted", "saved"}
Reading(v) == watcher[v].pc \notin {"waiting", "next"}
Rows(k)    == { i \in DOMAIN table : table[i].key = k }

GetOrCreate(t) ==
    /\ upload[t].pc = "received"
    /\ \/ Rows(upload[t].key) # {}
          /\ upload' = [upload EXCEPT ![t].pc = "done"]
       \/ Rows(upload[t].key) = {} /\ \A s \in Threads : ~Writing(s)
          /\ upload' = [upload EXCEPT ![t].pc = "inserted"]
    /\ UNCHANGED <<reporter, table, raw, tar, torn, watcher, failures>>

SaveFile_OtherName(t) ==
    /\ upload[t].pc = "inserted"
    /\ upload' = [upload EXCEPT ![t].pc = "saved"]
    /\ UNCHANGED <<reporter, table, raw, tar, torn, watcher, failures>>

\* FileSystemStorage.save never overwrites: with a file of that name in place,
\* left there by a transaction that was rolled back, it picks another name,
\* which nothing refers to.
SaveFile(t) ==
    /\ upload[t].pc = "inserted"
    /\ raw' = [raw EXCEPT ![upload[t].key] = IF @ = NoFile THEN upload[t].content ELSE @]
    /\ upload' = [upload EXCEPT ![t].pc = "saved"]
    /\ UNCHANGED <<reporter, table, tar, torn, watcher, failures>>

CommitUpload(t) ==
    /\ upload[t].pc = "saved"
    /\ \A v \in Watchers : ~Reading(v)
    /\ table' = Append(table, [key |-> upload[t].key, processed |-> FALSE])
    /\ upload' = [upload EXCEPT ![t].pc = "done"]
    /\ UNCHANGED <<reporter, raw, tar, torn, watcher, failures>>

ReplyUpload(t) ==
    /\ upload[t].pc = "done"
    /\ reporter' = IF upload[t].awaited THEN Answered(upload[t]) ELSE reporter
    /\ upload' = [upload EXCEPT ![t] = NoUpload]
    /\ UNCHANGED <<table, raw, tar, torn, watcher, failures>>

\* The thread raises or dies; its transaction is rolled back.
FailUpload(t) ==
    /\ upload[t].pc \in {"received", "inserted", "saved"} /\ Failure
    /\ reporter' = IF upload[t].awaited THEN Unanswered(upload[t]) ELSE reporter
    /\ upload' = [upload EXCEPT ![t] = NoUpload]
    /\ UNCHANGED <<table, raw, tar, torn, watcher>>

\* The request times out for the worker, or its reply is lost.
GiveUpUpload(t) ==
    /\ upload[t] # NoUpload /\ upload[t].awaited /\ Failure
    /\ reporter' = Unanswered(upload[t])
    /\ upload' = [upload EXCEPT ![t].awaited = FALSE]
    /\ UNCHANGED <<table, raw, tar, torn, watcher>>

-----------------------------------------------------------------------------
(***************************************************************************)
(* PGNWatcher.                                                             *)
(***************************************************************************)
Unprocessed == { i \in DOMAIN table : ~table[i].processed }
Key(v) == table[watcher[v].id].key
Members(k) == { i \in DOMAIN tar : tar[i].key = k }
First(ids) == CHOOSE i \in ids : \A j \in ids : i <= j

StartPass(v) ==
    /\ watcher[v] = NoPass /\ Unprocessed # {}
    /\ watcher' = [watcher EXCEPT ![v] = [pc |-> "next", todo |-> Unprocessed,
                                          id |-> 0, end |-> 0, present |-> FALSE]]
    /\ UNCHANGED <<reporter, upload, table, raw, tar, torn, failures>>

\* The transaction begins with a read of the row.
BeginPart(v) ==
    /\ watcher[v].pc = "next" /\ watcher[v].todo # {}
    /\ LET i == First(watcher[v].todo)
       IN  watcher' = [watcher EXCEPT ![v].todo = @ \ {i},
                           ![v].pc = IF table[i].processed THEN @ ELSE "begun",
                           ![v].id = IF table[i].processed THEN @ ELSE i]
    /\ UNCHANGED <<reporter, upload, table, raw, tar, torn, failures>>

\* os.path.exists, and the mode that follows from it.
LookForTar(v) ==
    /\ watcher[v].pc = "begun"
    /\ watcher' = [watcher EXCEPT ![v].pc = IF tar # <<>> \/ torn THEN "append" ELSE "create"]
    /\ UNCHANGED <<reporter, upload, table, raw, tar, torn, failures>>

\* Mode w leaves an empty file until the first member is written.  Mode a reads
\* all the headers first, and does not open a torn archive.
OpenTar(v) ==
    /\ \/ watcher[v].pc = "create" /\ tar' = <<>> /\ torn' = TRUE
       \/ watcher[v].pc = "append" /\ ~torn /\ UNCHANGED <<tar, torn>>
    /\ watcher' = [watcher EXCEPT ![v].pc = "opened", ![v].end = Len(tar'),
                ![v].present = \E i \in DOMAIN tar' : tar'[i].key = Key(v)]
    /\ UNCHANGED <<reporter, upload, table, raw, failures>>

\* What is in the archive when members are written from end on, which is where
\* the archive ended when it was opened.  Behind a hole nothing is readable.
WriteFrom(end, members) ==
    IF end > Len(tar) THEN tar ELSE SubSeq(tar, 1, end) \o members

Member(v) == [key |-> Key(v), content |-> raw[Key(v)]]

AddMember_Always(v) ==
    /\ watcher[v].pc = "opened"
    /\ \/ raw[Key(v)] = NoFile /\ UNCHANGED <<tar, torn>>
       \/ raw[Key(v)] # NoFile /\ torn' = FALSE
          /\ tar' = WriteFrom(watcher[v].end, <<Member(v)>>)
    /\ watcher' = [watcher EXCEPT ![v].pc = "added"]
    /\ UNCHANGED <<reporter, upload, table, raw, failures>>

\* Closing the archive writes its end, also when no member was added.
AddMember(v) ==
    /\ watcher[v].pc = "opened"
    /\ \/ watcher[v].present /\ tar' = WriteFrom(watcher[v].end, <<>>) /\ UNCHANGED torn
       \/ ~watcher[v].present /\ raw[Key(v)] # NoFile
          /\ tar' = WriteFrom(watcher[v].end, <<Member(v)>>) /\ torn' = FALSE
    /\ watcher' = [watcher EXCEPT ![v].pc = "added"]
    /\ UNCHANGED <<reporter, upload, table, raw, failures>>

DeleteRaw_First(v) ==
    /\ watcher[v].pc \in {"opened", "added"}
    /\ raw' = [raw EXCEPT ![Key(v)] = NoFile]
    /\ watcher' = [watcher EXCEPT ![v].pc = "deleted"]
    /\ UNCHANGED <<reporter, upload, table, tar, torn, failures>>

DeleteRaw(v) ==
    /\ watcher[v].pc = "added"
    /\ raw' = [raw EXCEPT ![Key(v)] = NoFile]
    /\ watcher' = [watcher EXCEPT ![v].pc = "deleted"]
    /\ UNCHANGED <<reporter, upload, table, tar, torn, failures>>

Locked(v) ==
    \/ \E t \in Threads : Writing(t)
    \/ \E u \in Watchers \ {v} : Reading(u)

CommitProcessed(v) ==
    /\ watcher[v].pc = "deleted" /\ ~Locked(v)
    /\ table' = [table EXCEPT ![watcher[v].id].processed = TRUE]
    /\ watcher' = [watcher EXCEPT ![v].pc = "next", ![v].id = 0, ![v].end = 0,
                                  ![v].present = FALSE]
    /\ UNCHANGED <<reporter, upload, raw, tar, torn, failures>>

RefusePass_Exit(v) ==
    /\ watcher[v].pc = "deleted" /\ Locked(v)
    /\ watcher' = [watcher EXCEPT ![v] = [pc |-> "exited"]]
    /\ UNCHANGED <<reporter, upload, table, raw, tar, torn, failures>>

\* "database is locked": of two transactions that wait for each other, the
\* one that has only read so far is refused.
RefusePass(v) ==
    /\ watcher[v].pc = "deleted" /\ Locked(v)
    /\ watcher' = [watcher EXCEPT ![v] = NoPass]
    /\ UNCHANGED <<reporter, upload, table, raw, tar, torn, failures>>

EndPass(v) ==
    /\ watcher[v].pc = "next" /\ watcher[v].todo = {}
    /\ watcher' = [watcher EXCEPT ![v] = NoPass]
    /\ UNCHANGED <<reporter, upload, table, raw, tar, torn, failures>>

\* What tarfile.open or tar.add raise is swallowed by run, with the rest of
\* the pass.
MissPart(v) ==
    /\ \/ watcher[v].pc = "append" /\ torn
       \/ watcher[v].pc = "opened" /\ ~watcher[v].present /\ raw[Key(v)] = NoFile
    /\ watcher' = [watcher EXCEPT ![v] = NoPass]
    /\ UNCHANGED <<reporter, upload, table, raw, tar, torn, failures>>

FailPass_Commit(v) ==
    /\ watcher[v] # NoPass /\ Failure
    /\ watcher' = [watcher EXCEPT ![v] = NoPass]
    /\ table' = IF watcher[v].id = 0 THEN table
                ELSE [table EXCEPT ![watcher[v].id].processed = TRUE]
    /\ UNCHANGED <<reporter, upload, raw, tar, torn>>

\* An error of the database or of the file system, or the death of the process,
\* which can leave half a member at the end of the archive.
FailPass(v) ==
    /\ watcher[v] # NoPass /\ Failure
    /\ watcher' = [watcher EXCEPT ![v] = NoPass]
    /\ \/ UNCHANGED <<tar, torn>>
       \/ watcher[v].pc = "opened" /\ ~watcher[v].present /\ raw[Key(v)] # NoFile
          /\ tar' = WriteFrom(watcher[v].end, <<>>) /\ torn' = TRUE
    /\ UNCHANGED <<reporter, upload, table, raw>>

-----------------------------------------------------------------------------
ReporterStep(r) ==
    \/ WriteGame(r)
    \/ FinishGames(r)
    \/ \E t \in Threads : Checkpoint(r, t) \/ FinalCheckpoint(r, t)
    \/ Close(r)

UploadStep(t) == GetOrCreate(t) \/ SaveFile(t) \/ CommitUpload(t) \/ ReplyUpload(t)

WatcherStep(v) ==
    \/ StartPass(v) \/ BeginPart(v) \/ LookForTar(v) \/ OpenTar(v) \/ AddMember(v)
    \/ DeleteRaw(v) \/ CommitProcessed(v) \/ RefusePass(v) \/ EndPass(v) \/ MissPart(v)

Fault ==
    \/ \E t \in Threads : FailUpload(t) \/ GiveUpUpload(t)
    \/ \E v \in Watchers : FailPass(v)

Next ==
    \/ \E r \in Reporters : ReporterStep(r)
    \/ \E t \in Threads : UploadStep(t)
    \/ \E v \in Watchers : WatcherStep(v)
    \/ Fault

Spec == Init /\ [][Next]_vars

\* A watcher wakes up every 15 seconds; a thread that can commit does.
Fairness ==
    /\ \A t \in Threads : SF_vars(UploadStep(t))
    /\ \A v \in Watchers : SF_vars(WatcherStep(v))

FairSpec == Spec /\ Fairness

-----------------------------------------------------------------------------
(***************************************************************************)
(* Properties.                                                             *)
(***************************************************************************)
Overlapping(c, d) == c.from < d.to /\ d.from < c.to

\* No game is in the archive twice: a part sent again keeps its key, a key is
\* inserted once, a member is added once, and parts of a workload follow each
\* other, whatever requests, threads and watchers fail in between.
NoGameArchivedTwice ==
    \A i, j \in DOMAIN tar :
        i # j /\ tar[i].key[1] = tar[j].key[1] => ~Overlapping(tar[i].content, tar[j].content)

\* A row is flagged processed only when its games are in the archive: the flag
\* is committed after the member was written, and no crash undoes the member.
ProcessedIsArchived ==
    \A i \in DOMAIN table : table[i].processed => Members(table[i].key) # {}

\* The games of a row that is not processed are still somewhere: the raw file
\* is deleted only once they are in the archive, and no row is without either.
UnprocessedIsKept ==
    \A i \in Unprocessed : raw[table[i].key] # NoFile \/ Members(table[i].key) # {}

\* Every part the server committed gets into the archive, although a watcher
\* fails or dies now and then, unless it died while writing to the archive.
CommittedIsArchived ==
    \A k \in Keys :
        Rows(k) # {} ~> (torn \/ \E i \in Rows(k) : table[i].processed)

(***************************************************************************)
(* The archive implements PartStore.                                       *)
(***************************************************************************)
ContentOf(k) == IF Members(k) # {} THEN tar[First(Members(k))].content ELSE raw[k]

Store == INSTANCE PartStore
    WITH Nothing  <- NoFile,
         kept     <- [k \in Keys |-> IF Rows(k) = {} THEN NoFile ELSE ContentOf(k)],
         archived <- { k \in Keys : \E i \in Rows(k) : table[i].processed }

\* A part is kept whole and unchanged from the commit of its row on, across the
\* move from its file into the archive, and archived once.
ImplementsPartStore == Store!StoreSpec

(***************************************************************************)
(* What the repository says, and the code does not do.                     *)
(***************************************************************************)
\* "Only after the sending has succeeded do the position and the number advance"
\* (worker.py): every game before the reporter's position is with the server.
AcknowledgedIsStored ==
    \A r \in Reporters : \A g \in 1..reporter[r].offset :
        \E i \in DOMAIN table :
            /\ table[i].key[1] = r
            /\ LET c == ContentOf(table[i].key) IN c.from < g /\ g <= c.to
=============================================================================
