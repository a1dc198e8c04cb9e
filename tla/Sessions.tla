------------------------------ MODULE Sessions ------------------------------
(***************************************************************************)
(* The session of a machine: registration, the secret, the stop button,    *)
(* and the revocation of worker keys.                                      *)
(*                                                                         *)
(* A worker (client.py, worker.py) checks its version, registers with its  *)
(* credential and is given a secret; from then on its requests carry the   *)
(* secret only.  The server keeps one Machine row per machine token, which *)
(* every registration takes over.  A handler reads that row, decides on    *)
(* the copy (verify_worker), and most of them save the copy whole, with    *)
(* its info, its secret and its workload.  People stop and resume machines *)
(* and revoke keys on /workers/, and the server is deployed again with a   *)
(* new client version or new build configurations.                         *)
(*                                                                         *)
(* A machine token is only used by the worker that made it, so a worker    *)
(* stands for its token and for its row.                                   *)
(***************************************************************************)
EXTENDS Naturals, Sequences, FiniteSets

CONSTANTS
    Workers,
    Keys,         \* the worker keys of the account
    Password,     \* the password of the account, as a credential of a worker
    Threads,      \* the server threads
    MaxVersion,   \* bound: client versions 0..MaxVersion
    MaxSessions,  \* bound: registrations
    MaxEvents     \* bound: what happens from outside: buttons, changed keys,
                  \* accounts and credentials, deployments, lost requests, crashes

ASSUME SessionsAssumption ==
    /\ Password \notin Keys /\ IsFiniteSet(Threads)
    /\ MaxVersion \in Nat /\ MaxSessions \in Nat /\ MaxEvents \in Nat

VARIABLES
    row,        \* worker -> the Machine row of its token
    key,        \* worker key -> whether it is enabled, disabled or deleted
    account,    \* the owner's Profile is enabled
    server,     \* the client version and the checksum the server was deployed with
    worker,     \* worker -> its process
    thread,     \* thread -> the request it is handling
    \* History, read by the properties only.
    opened,     \* the registrations, in the order of their secrets
    revoked,    \* the keys that were disabled or deleted at some time
    events

vars == <<row, key, account, server, worker, thread, opened, revoked, events>>

Credential == Keys \union {Password}
NoKey == [key |-> "none"]    \* worker_key_id = None
NoSecret == 0
NoRow == [workload |-> "no row"]
NoRequest == [pc |-> "idle"]

\* Machine.info, as far as sessions are concerned.
Info == [client_ver : 0..MaxVersion, checksum : 0..MaxEvents,
         worker_key_id : Keys \union {NoKey}, stop_requested : BOOLEAN]

Row == [info : Info, secret : 1..MaxSessions, workload : BOOLEAN]

Worker == [pc : {"starting", "registering", "asking", "building", "playing",
                 "updating", "shutdown"},
           version : 0..MaxVersion, password : Credential,
           secret : 0..MaxSessions, waiting : BOOLEAN]

\* The requests, and the buttons of /workers/.
Endpoint == {"clientGetWorkload", "clientSubmitNPS", "clientHeartbeat",
             "clientSubmitResults", "stop_machine", "resume_machine"}

\* A request whose handler has read the row, and one that has its reply.
Request == [pc : {"read"}, endpoint : Endpoint, from : Workers, awaited : BOOLEAN,
            machine : Row \union {NoRow}]
Registration == [pc : {"read"}, endpoint : {"clientWorkerInfo"}, from : Workers,
                 awaited : BOOLEAN, machine : Row \union {NoRow},
                 version : 0..MaxVersion, password : Credential]
Answered == [pc : {"done"}, from : Workers, secret : 0..MaxSessions,
             reply : {"session", "workload", "go", "stop", "error", "version", "shutdown"}]

TypeOK ==
    /\ row \in [Workers -> Row \union {NoRow}]
    /\ key \in [Keys -> {"enabled", "disabled", "deleted"}]
    /\ account \in BOOLEAN
    /\ server \in [version : 0..MaxVersion, checksum : 0..MaxEvents]
    /\ worker \in [Workers -> Worker]
    /\ thread \in [Threads -> Request \union Registration \union Answered \union {NoRequest}]
    /\ opened \in Seq([owner : Workers, password : Credential, info : Info])
    /\ Len(opened) <= MaxSessions
    /\ revoked \subseteq Keys
    /\ events \in 0..MaxEvents

Init ==
    /\ row = [w \in Workers |-> NoRow]
    /\ key = [k \in Keys |-> "enabled"]
    /\ account = TRUE
    /\ server = [version |-> 0, checksum |-> 0]
    /\ \E password \in [Workers -> Credential] :
          worker = [w \in Workers |-> [pc |-> "starting", version |-> 0,
                        password |-> password[w], secret |-> NoSecret, waiting |-> FALSE]]
    /\ thread = [t \in Threads |-> NoRequest]
    /\ opened = <<>> /\ revoked = {}
    /\ events = 0

Event == events < MaxEvents /\ events' = events + 1

-----------------------------------------------------------------------------
(***************************************************************************)
(* Credentials.                                                            *)
(***************************************************************************)
\* client_authenticate: the password of an enabled account, or an enabled key
\* of an enabled account.
Authenticates(c) == account /\ (c \in Keys => key[c] = "enabled")

\* credentials_look_revoked: whether a refusal is permanent.
LooksRevoked_Refused(c) == ~Authenticates(c)
LooksRevoked(c) == c # Password /\ key[c] # "enabled"

\* machine_key_revoked: the key that opened the session of this row.
KeyRevoked(machine) ==
    LET k == machine.info.worker_key_id IN k # NoKey /\ key[k] # "enabled"

-----------------------------------------------------------------------------
(***************************************************************************)
(* wait_for_server_version, and client.py after BadVersionException.       *)
(* What it downloads is the client of the repository, of any version.      *)
(***************************************************************************)
Proceed(w, pc) == worker' = [worker EXCEPT ![w].pc = pc]

CheckVersion(w) ==
    /\ worker[w].pc = "starting"
    /\ \/ Authenticates(worker[w].password) /\ server.version = worker[w].version
          /\ Proceed(w, "registering")
       \/ Authenticates(worker[w].password) /\ server.version # worker[w].version
          /\ Proceed(w, "updating")
       \/ ~Authenticates(worker[w].password) /\ LooksRevoked(worker[w].password)
          /\ Proceed(w, "shutdown")
       \/ ~Authenticates(worker[w].password) /\ ~LooksRevoked(worker[w].password)
          /\ Proceed(w, "registering")
    /\ UNCHANGED <<row, key, account, server, thread, opened, revoked, events>>

\* No answer: the worker registers with the version it has.
SkipVersion(w) ==
    /\ worker[w].pc = "starting" /\ Event
    /\ Proceed(w, "registering")
    /\ UNCHANGED <<row, key, account, server, thread, opened, revoked>>

\* download_client_files authenticates, but any refusal is repeated by
\* try_forever: it does not look for a shutdown.
Update(w) ==
    /\ worker[w].pc = "updating" /\ Authenticates(worker[w].password)
    /\ \E v \in 0..MaxVersion :
          worker' = [worker EXCEPT ![w].pc = "starting", ![w].version = v]
    /\ UNCHANGED <<row, key, account, server, thread, opened, revoked, events>>

-----------------------------------------------------------------------------
(***************************************************************************)
(* clientWorkerInfo.  The handler authenticates and looks the row up; it   *)
(* then draws a secret, looks the key up again and saves.  If its INSERT   *)
(* meets a row, it adopts that one.                                        *)
(***************************************************************************)
Received(endpoint, w, awaited) ==
    [pc |-> "read", endpoint |-> endpoint, from |-> w, awaited |-> awaited,
     machine |-> row[w]]

\* A reply nobody waits for is dropped.
Answer(request, reply, secret) ==
    IF request.awaited
    THEN [pc |-> "done", from |-> request.from, reply |-> reply, secret |-> secret]
    ELSE NoRequest

Handles(t, endpoints) == thread[t].pc = "read" /\ thread[t].endpoint \in endpoints

Registering == { t \in Threads : Handles(t, {"clientWorkerInfo"}) }

Register(w, t) ==
    /\ Len(opened) + Cardinality(Registering) < MaxSessions
    /\ worker[w].pc = "registering" /\ ~worker[w].waiting
    /\ Authenticates(worker[w].password)
    /\ thread[t] = NoRequest
    /\ thread' = [thread EXCEPT ![t] =
          [pc |-> "read", endpoint |-> "clientWorkerInfo", from |-> w, awaited |-> TRUE,
           machine |-> row[w], version |-> worker[w].version, password |-> worker[w].password]]
    /\ worker' = [worker EXCEPT ![w].waiting = TRUE]
    /\ UNCHANGED <<row, key, account, server, opened, revoked, events>>

\* Any other refusal is repeated by try_forever.
RefuseRevoked(w) ==
    /\ worker[w].pc = "registering" /\ ~worker[w].waiting
    /\ ~Authenticates(worker[w].password) /\ LooksRevoked(worker[w].password)
    /\ Proceed(w, "shutdown")
    /\ UNCHANGED <<row, key, account, server, thread, opened, revoked, events>>

NewInfo_AnyCredential(request) ==
    [client_ver |-> request.version, checksum |-> server.checksum,
     worker_key_id |-> request.password, stop_requested |-> FALSE]

NewInfo(request) ==
    [client_ver |-> request.version, checksum |-> server.checksum,
     worker_key_id |-> IF request.password \in Keys /\ key[request.password] # "deleted"
                       THEN request.password ELSE NoKey,
     stop_requested |-> FALSE]

\* The copy that was read, with this session's data.
TakeOver(machine, info, secret) == [info |-> info, secret |-> secret, workload |-> FALSE]

Adopt_SecretOnly(winner, info, secret) == [winner EXCEPT !.secret = secret]

\* Another registration has inserted the row since.
Adopt(winner, info, secret) ==
    [winner EXCEPT !.info = info, !.secret = secret, !.workload = FALSE]

OpenSession(t) ==
    /\ Handles(t, {"clientWorkerInfo"})
    /\ LET w == thread[t].from
           info == NewInfo(thread[t])
           secret == Len(opened) + 1
       IN  /\ row' = [row EXCEPT ![w] =
                        IF thread[t].machine = NoRow /\ row[w] # NoRow
                        THEN Adopt(row[w], info, secret)
                        ELSE TakeOver(thread[t].machine, info, secret)]
           /\ opened' = Append(opened, [owner |-> w, password |-> thread[t].password,
                                        info |-> info])
           /\ thread' = [thread EXCEPT ![t] = Answer(@, "session", secret)]
    /\ UNCHANGED <<key, account, server, worker, revoked, events>>

-----------------------------------------------------------------------------
(***************************************************************************)
(* The requests of a session.                                              *)
(***************************************************************************)
\* verify_worker: version, secret, configuration, in this order.
Verdict_NoSecret(w) ==
    CASE row[w].info.client_ver # server.version -> "version"
      [] row[w].info.checksum # server.checksum -> "error"
      [] OTHER -> "none"

Verdict(w) ==
    CASE row[w].info.client_ver # server.version -> "version"
      [] row[w].secret # worker[w].secret -> "error"
      [] row[w].info.checksum # server.checksum -> "error"
      [] OTHER -> "none"

Send(w, t, endpoint) ==
    /\ ~worker[w].waiting /\ thread[t] = NoRequest
    /\ thread' = [thread EXCEPT ![t] =
          IF Verdict(w) = "none" THEN Received(endpoint, w, TRUE)
          ELSE Answer(Received(endpoint, w, TRUE), Verdict(w), NoSecret)]
    /\ worker' = [worker EXCEPT ![w].waiting = TRUE]
    /\ UNCHANGED <<row, key, account, server, opened, revoked, events>>

RequestWorkload(w, t) == worker[w].pc = "asking" /\ Send(w, t, "clientGetWorkload")
ReportNPS(w, t) == worker[w].pc = "building" /\ Send(w, t, "clientSubmitNPS")
Report(w, t) ==
    /\ worker[w].pc = "playing"
    /\ \E endpoint \in {"clientHeartbeat", "clientSubmitResults"} : Send(w, t, endpoint)

\* The workload is done, or it fails: a download, a build, a bench.
EndWorkload(w) ==
    /\ worker[w].pc \in {"building", "playing"} /\ ~worker[w].waiting
    /\ Proceed(w, "asking")
    /\ UNCHANGED <<row, key, account, server, thread, opened, revoked, events>>

Finish(t, machine, reply) ==
    /\ row' = [row EXCEPT ![thread[t].from] = machine]
    /\ thread' = [thread EXCEPT ![t] = Answer(@, reply, NoSecret)]
    /\ UNCHANGED <<key, account, server, worker, opened, revoked, events>>

GetWorkload_StopFirst(t) ==
    /\ Handles(t, {"clientGetWorkload"})
    /\ LET machine == thread[t].machine
           stopped == machine.info.stop_requested
       IN  \/ ~stopped /\ KeyRevoked(machine) /\ Finish(t, row[thread[t].from], "shutdown")
           \/ (stopped \/ ~KeyRevoked(machine)) /\ Finish(t, row[thread[t].from], "go")
           \/ ~stopped /\ ~KeyRevoked(machine)
              /\ Finish(t, [machine EXCEPT !.workload = TRUE], "workload")

\* get_workload: revoked, stopped, nothing to do, or a workload.
GetWorkload(t) ==
    /\ Handles(t, {"clientGetWorkload"})
    /\ LET machine == thread[t].machine
           revokedNow == KeyRevoked(machine)
       IN  \/ revokedNow /\ Finish(t, row[thread[t].from], "shutdown")
           \/ ~revokedNow /\ Finish(t, row[thread[t].from], "go")
           \/ ~revokedNow /\ ~machine.info.stop_requested
              /\ Finish(t, [machine EXCEPT !.workload = TRUE], "workload")

SubmitNPS(t) == Handles(t, {"clientSubmitNPS"}) /\ Finish(t, thread[t].machine, "go")

StopFlag_Finished(machine) == KeyRevoked(machine)
StopFlag(machine) == machine.info.stop_requested \/ KeyRevoked(machine)

\* The test may also be finished.
Heartbeat(t) ==
    /\ Handles(t, {"clientHeartbeat"})
    /\ \/ Finish(t, thread[t].machine, "stop")
       \/ ~StopFlag(thread[t].machine) /\ Finish(t, thread[t].machine, "go")

\* update_test does not save the row it was given.
SubmitResults(t) ==
    /\ Handles(t, {"clientSubmitResults"})
    /\ \/ Finish(t, row[thread[t].from], "stop")
       \/ ~StopFlag(thread[t].machine) /\ Finish(t, row[thread[t].from], "go")

\* Where a reply leaves the worker.  A fatal answer (error) ends a workload and
\* restarts the session; but the request for a workload runs in try_forever,
\* which catches the exception and asks again.
Next_pc(pc, reply) ==
    CASE reply = "shutdown" -> "shutdown"
      [] reply = "version" -> "updating"
      [] reply = "session" -> "asking"
      [] reply = "workload" -> "building"
      [] reply = "stop" -> "asking"
      [] reply = "error" -> IF pc = "asking" THEN "asking" ELSE "registering"
      [] reply = "go" -> IF pc = "building" THEN "playing" ELSE pc

Reply(t) ==
    /\ thread[t].pc = "done"
    /\ LET w == thread[t].from
           reply == thread[t].reply
       IN  worker' = [worker EXCEPT ![w].waiting = FALSE, ![w].pc = Next_pc(@, reply),
                          ![w].secret = IF reply = "session" THEN thread[t].secret ELSE @]
    /\ thread' = [thread EXCEPT ![t] = NoRequest]
    /\ UNCHANGED <<row, key, account, server, opened, revoked, events>>

-----------------------------------------------------------------------------
(***************************************************************************)
(* /workers/, and the account.                                             *)
(***************************************************************************)
PressButton(w, t) ==
    /\ Event /\ row[w] # NoRow /\ thread[t] = NoRequest
    /\ \E endpoint \in {"stop_machine", "resume_machine"} :
          thread' = [thread EXCEPT ![t] = Received(endpoint, w, FALSE)]
    /\ UNCHANGED <<row, key, account, server, worker, opened, revoked>>

SetStop(t) ==
    /\ Handles(t, {"stop_machine", "resume_machine"})
    /\ Finish(t, [thread[t].machine EXCEPT !.info.stop_requested =
                      (thread[t].endpoint = "stop_machine")], "go")

SetKey(k) ==
    /\ Event /\ key[k] # "deleted"
    /\ \E state \in {"enabled", "disabled", "deleted"} :
          /\ key' = [key EXCEPT ![k] = state]
          /\ revoked' = IF state = "enabled" THEN revoked ELSE revoked \union {k}
    /\ UNCHANGED <<row, account, server, worker, thread, opened>>

SetAccount ==
    /\ Event /\ account' = ~account
    /\ UNCHANGED <<row, key, server, worker, thread, opened, revoked>>

-----------------------------------------------------------------------------
(***************************************************************************)
(* Failures.                                                               *)
(***************************************************************************)
\* The threads, when worker w no longer waits for any of them.
Abandoned(w) ==
    [t \in Threads |->
        CASE thread[t].pc = "read" /\ thread[t].from = w -> [thread[t] EXCEPT !.awaited = FALSE]
          [] thread[t].pc = "done" /\ thread[t].from = w -> NoRequest
          [] OTHER -> thread[t]]

\* An exception out of a request: try_forever repeats it, ResultsReporter
\* carries on, and a workload that is being built ends.
Excepted(pc) == IF pc = "building" THEN "asking" ELSE pc

\* The worker's request times out, or its reply is lost; the thread goes on.
GiveUp(w) ==
    /\ worker[w].waiting /\ Event
    /\ worker' = [worker EXCEPT ![w].waiting = FALSE, ![w].pc = Excepted(@)]
    /\ thread' = Abandoned(w)
    /\ UNCHANGED <<row, key, account, server, opened, revoked>>

\* A handler dies ("database is locked"), and the worker sees an error page.
FailThread(t) ==
    /\ thread[t].pc = "read" /\ Event
    /\ thread' = [thread EXCEPT ![t] = NoRequest]
    /\ worker' = IF thread[t].awaited
                 THEN [worker EXCEPT ![thread[t].from].waiting = FALSE,
                                     ![thread[t].from].pc = Excepted(@)]
                 ELSE worker
    /\ UNCHANGED <<row, key, account, server, opened, revoked>>

\* The process dies and setup_worker.sh starts it again.
Crash(w) ==
    /\ worker[w].pc # "shutdown" /\ Event
    /\ worker' = [worker EXCEPT ![w].pc = "starting", ![w].waiting = FALSE,
                                ![w].secret = NoSecret]
    /\ thread' = Abandoned(w)
    /\ UNCHANGED <<row, key, account, server, opened, revoked>>

\* Somebody runs setup_worker.sh again, perhaps with another credential.
Reconnect(w, c) ==
    /\ Event
    /\ worker' = [worker EXCEPT ![w].pc = "starting", ![w].waiting = FALSE,
                                ![w].secret = NoSecret, ![w].password = c]
    /\ thread' = Abandoned(w)
    /\ UNCHANGED <<row, key, account, server, opened, revoked>>

\* The requests that are being handled are lost with the old processes.
Deploy ==
    /\ Event
    /\ \E v \in 0..MaxVersion, c \in {server.checksum, events'} :
          server' = [version |-> v, checksum |-> c]
    /\ thread' = [t \in Threads |-> NoRequest]
    /\ worker' = [w \in Workers |-> IF worker[w].waiting
                     THEN [worker[w] EXCEPT !.waiting = FALSE, !.pc = Excepted(@)]
                     ELSE worker[w]]
    /\ UNCHANGED <<row, key, account, opened, revoked>>

-----------------------------------------------------------------------------
WorkerStep(w) ==
    \/ CheckVersion(w) \/ Update(w) \/ RefuseRevoked(w)
    \/ \E t \in Threads : \/ Register(w, t) \/ RequestWorkload(w, t)
                          \/ ReportNPS(w, t) \/ Report(w, t)

ThreadStep(t) ==
    \/ OpenSession(t) \/ GetWorkload(t) \/ SubmitNPS(t) \/ Heartbeat(t)
    \/ SubmitResults(t) \/ SetStop(t) \/ Reply(t)

Next ==
    \/ \E w \in Workers :
          \/ WorkerStep(w) \/ SkipVersion(w) \/ EndWorkload(w) \/ GiveUp(w) \/ Crash(w)
          \/ \E t \in Threads : PressButton(w, t)
          \/ \E c \in Credential : Reconnect(w, c)
    \/ \E t \in Threads : ThreadStep(t) \/ FailThread(t)
    \/ \E k \in Keys : SetKey(k)
    \/ SetAccount
    \/ Deploy

Spec == Init /\ [][Next]_vars

(***************************************************************************)
(* The worker's loop turns, also when its session is refused; a request    *)
(* that waits for a server thread gets one in the end (gunicorn's queue);  *)
(* a thread that has a request handles it.  Nothing is assumed of people,  *)
(* deployments and faults.                                                 *)
(***************************************************************************)
Fairness ==
    /\ \A w \in Workers : SF_vars(WorkerStep(w))
    /\ \A t \in Threads : WF_vars(ThreadStep(t))

FairSpec == Spec /\ Fairness

-----------------------------------------------------------------------------
(***************************************************************************)
(* Properties.                                                             *)
(***************************************************************************)
\* Whichever handlers have saved the row whole, from whatever copy: its secret,
\* its key, its version and its configuration are those of one registration of
\* this machine.  A stale save brings back a whole session, never parts of one.
SessionIsConsistent ==
    \A w \in Workers : row[w] # NoRow =>
        LET session == opened[row[w].secret]
        IN  /\ session.owner = w
            /\ [row[w].info EXCEPT !.stop_requested = FALSE] = session.info

\* A worker only shuts down for good (exit 66) when its own credential is a key
\* that was disabled or deleted: never for a password, a disabled account, a
\* lost session, a new configuration, or the key of somebody else's session.
ShutdownOnlyWhenRevoked ==
    \A w \in Workers : worker[w].pc = "shutdown" => worker[w].password \in revoked

\* It asks for work in a session that another registration, or a stale save,
\* has replaced; or that was opened under another configuration.
Replaced(w) == worker[w].pc = "asking" /\ row[w].secret # worker[w].secret
Outdated(w) == worker[w].pc = "asking" /\ row[w].info.checksum # server.checksum

\* Its key was deleted between the authentication and the look-up of the key:
\* the session looks like one that was opened with a password.
Keyless(w) ==
    /\ row[w] # NoRow /\ row[w].secret = worker[w].secret
    /\ worker[w].password \in Keys /\ row[w].info.worker_key_id = NoKey

\* A worker whose key stays disabled or deleted shuts down, whatever it was
\* doing and whichever requests were lost; except a worker whose session is
\* refused when it asks for work, or does not know its key, or that tries to
\* update its client.
RevokedShutsDown ==
    \A w \in Workers, k \in Keys :
        <>[](worker[w].password = k /\ key[k] # "enabled")
            => <>[](\/ worker[w].pc \in {"shutdown", "updating"}
                   \/ Replaced(w) \/ Outdated(w) \/ Keyless(w))

\* A machine that is told to stop stops playing, at the latest with its next
\* reports, unless the request to stop is withdrawn, or lost.
StopReachesWorker ==
    \A w \in Workers :
        (worker[w].pc = "playing" /\ row[w].info.stop_requested)
            ~> (worker[w].pc # "playing" \/ ~row[w].info.stop_requested)

(***************************************************************************)
(* What the repository says, and the code does not do.                     *)
(***************************************************************************)
\* "Prompt the worker to soft-restart if its config is out of date" (views.py):
\* a worker that asks for work in an outdated session registers again.
OutdatedRestarts == \A w \in Workers : Outdated(w) ~> ~Outdated(w)
=============================================================================
