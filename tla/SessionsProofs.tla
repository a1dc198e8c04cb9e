---------------------------- MODULE SessionsProofs ----------------------------
(***************************************************************************)
(* That a Machine row is always one session's, and that a worker only      *)
(* shuts down for good when its own key was revoked, for any workers,      *)
(* keys, server threads and bounds.                                        *)
(*                                                                         *)
(* Handlers save copies that they read long ago, so that the facts about   *)
(* the rows are facts about every copy; and a reply shuts a worker down by *)
(* the key of the copy, which is the worker's own because the copy was     *)
(* read when its secret was compared, and nothing has changed the worker   *)
(* since.                                                                  *)
(***************************************************************************)
EXTENDS Sessions, FiniteSetTheorems, TLAPS

\* The types, without the bounds.
AnyInfo == [client_ver : Nat, checksum : Nat,
            worker_key_id : Keys \union {NoKey}, stop_requested : BOOLEAN]
AnyRow == [info : AnyInfo, secret : Nat \ {0}, workload : BOOLEAN]
AnyWorker == [pc : {"starting", "registering", "asking", "building", "playing",
                    "updating", "shutdown"},
              version : Nat, password : Credential, secret : Nat, waiting : BOOLEAN]
AnyRequest == [pc : {"read"}, endpoint : Endpoint, from : Workers, awaited : BOOLEAN,
               machine : AnyRow]
AnyRegistration == [pc : {"read"}, endpoint : {"clientWorkerInfo"}, from : Workers,
                    awaited : BOOLEAN, machine : AnyRow \union {NoRow},
                    version : Nat, password : Credential]
AnyAnswered == [pc : {"done"}, from : Workers, secret : Nat,
                reply : {"session", "workload", "go", "stop", "error", "version", "shutdown"}]
AnySession == [owner : Workers, password : Credential, info : AnyInfo]

Types ==
    /\ row \in [Workers -> AnyRow \union {NoRow}]
    /\ key \in [Keys -> {"enabled", "disabled", "deleted"}]
    /\ server \in [version : Nat, checksum : Nat]
    /\ worker \in [Workers -> AnyWorker]
    /\ thread \in [Threads -> AnyRequest \union AnyRegistration \union AnyAnswered \union {NoRequest}]
    /\ opened \in Seq(AnySession)
    /\ events \in Nat

\* Of machine w, and all of one registration.
OfSession(w, machine) ==
    /\ machine \in AnyRow
    /\ machine.secret \in 1..Len(opened)
    /\ opened[machine.secret].owner = w
    /\ [machine.info EXCEPT !.stop_requested = FALSE] = opened[machine.secret].info

RowsAreSessions == \A w \in Workers : row[w] # NoRow => OfSession(w, row[w])

CopiesAreSessions ==
    \A t \in Threads : thread[t].pc = "read" /\ thread[t].machine # NoRow
                           => OfSession(thread[t].from, thread[t].machine)

\* A worker that is in a session, and a thread that answers one, has a row.
InSession(w) == worker[w].pc \in {"asking", "building", "playing"}

HaveRows ==
    /\ \A w \in Workers : InSession(w) => row[w] \in AnyRow
    /\ \A t \in Threads :
          thread[t].pc = "done" \/ (thread[t].pc = "read" /\ thread[t].endpoint # "clientWorkerInfo")
              => row[thread[t].from] \in AnyRow

\* A session records the key it was opened with, or none.
KeysAreOwn ==
    \A i \in 1..Len(opened) : opened[i].info.worker_key_id \in {opened[i].password, NoKey}

\* A worker waits for one thread at most.
Awaited(t) == thread[t].pc = "done" \/ (thread[t].pc = "read" /\ thread[t].awaited)

OneAwaited ==
    /\ \A t \in Threads : Awaited(t) => worker[thread[t].from].waiting
    /\ \A t, u \in Threads :
          Awaited(t) /\ Awaited(u) /\ thread[t].from = thread[u].from => t = u

\* A secret was drawn in a session that a credential opened.
OpenedWith(secret, password) ==
    secret \in 1..Len(opened) /\ opened[secret].password = password

SecretsAreOwn ==
    \A w \in Workers : worker[w].secret # 0 => OpenedWith(worker[w].secret, worker[w].password)

\* What the thread that a worker waits for holds is of the worker's own session,
\* or of its own credential.
Own(t) ==
    LET w == worker[thread[t].from] IN
    /\ thread[t].pc = "read" /\ thread[t].endpoint = "clientWorkerInfo"
          => thread[t].password = w.password
    /\ thread[t].pc = "read" /\ thread[t].endpoint # "clientWorkerInfo"
          => thread[t].machine.secret = w.secret
    /\ thread[t].pc = "done" /\ thread[t].reply = "session"
          => OpenedWith(thread[t].secret, w.password)
    /\ thread[t].pc = "done" /\ thread[t].reply = "shutdown" => w.password \in revoked

AwaitedAreOwn == \A t \in Threads : Awaited(t) => Own(t)

RevokedIsKept == \A k \in Keys : key[k] # "enabled" => k \in revoked

SessionsInv ==
    /\ Types /\ RowsAreSessions /\ CopiesAreSessions /\ HaveRows /\ KeysAreOwn
    /\ OneAwaited /\ SecretsAreOwn /\ AwaitedAreOwn /\ RevokedIsKept
    /\ ShutdownOnlyWhenRevoked

-----------------------------------------------------------------------------
LEMMA InitEstablishes == Init => SessionsInv
  <1> SUFFICES ASSUME Init PROVE SessionsInv
    OBVIOUS
  <1> USE SessionsAssumption
  <1>1. PICK password \in [Workers -> Credential] :
            worker = [w \in Workers |-> [pc |-> "starting", version |-> 0,
                         password |-> password[w], secret |-> NoSecret, waiting |-> FALSE]]
    BY DEF Init
  <1>2. Types
    BY <1>1 DEF Init, Types, AnyWorker, NoSecret
  <1>3. \A t \in Threads : thread[t].pc = "idle"
    BY DEF Init, NoRequest
  <1>4. RowsAreSessions /\ CopiesAreSessions /\ HaveRows /\ KeysAreOwn /\ OneAwaited /\ AwaitedAreOwn
        /\ RevokedIsKept
    BY <1>1, <1>3 DEF Init, RowsAreSessions, CopiesAreSessions, HaveRows, InSession, KeysAreOwn,
                      OneAwaited, Awaited, AwaitedAreOwn, RevokedIsKept
  <1>5. SecretsAreOwn /\ ShutdownOnlyWhenRevoked
    BY <1>1 DEF SecretsAreOwn, ShutdownOnlyWhenRevoked, NoSecret
  <1> QED
    BY <1>2, <1>4, <1>5 DEF SessionsInv

-----------------------------------------------------------------------------
\* The steps of a worker alone leave the sessions and the threads as they are.
LEMMA WorkerAlone ==
    ASSUME SessionsInv, NEW w \in Workers, NEW q \in AnyWorker,
           q.pc \in {"asking", "building", "playing"} => InSession(w),
           q.pc = "shutdown" => q.password \in revoked,
           q.password = worker[w].password, q.secret = worker[w].secret,
           q.waiting = worker[w].waiting,
           worker' = [worker EXCEPT ![w] = q],
           UNCHANGED <<row, key, server, thread, opened, revoked>>, events' \in Nat
    PROVE  SessionsInv'
  <1>1. worker'[w] = q /\ \A u \in Workers \ {w} : worker'[u] = worker[u]
    BY DEF SessionsInv, Types
  <1>2. \A u \in Workers : /\ worker'[u].password = worker[u].password
                           /\ worker'[u].secret = worker[u].secret
                           /\ worker'[u].waiting = worker[u].waiting
    BY <1>1
  <1>3. Types'
    BY <1>1 DEF SessionsInv, Types
  <1>4. RowsAreSessions' /\ CopiesAreSessions' /\ KeysAreOwn' /\ RevokedIsKept'
    BY DEF SessionsInv, RowsAreSessions, CopiesAreSessions, OfSession, KeysAreOwn, RevokedIsKept
  <1>5. HaveRows' /\ ShutdownOnlyWhenRevoked'
    BY <1>1 DEF SessionsInv, HaveRows, InSession, ShutdownOnlyWhenRevoked
  <1>6. \A t \in Threads : Awaited(t) => thread[t].from \in Workers
    BY DEF SessionsInv, Types, Awaited, AnyRequest, AnyRegistration, AnyAnswered, NoRequest
  <1>7. OneAwaited' /\ SecretsAreOwn'
    BY <1>2, <1>6 DEF SessionsInv, OneAwaited, Awaited, SecretsAreOwn, OpenedWith
  <1>8. AwaitedAreOwn'
    BY <1>2, <1>6 DEF SessionsInv, AwaitedAreOwn, Awaited, Own, OpenedWith
  <1> QED
    BY <1>3, <1>4, <1>5, <1>7, <1>8 DEF SessionsInv

\* A worker that goes on with the position pc.
LEMMA Proceeds ==
    ASSUME SessionsInv, NEW w \in Workers,
           NEW pc \in {"starting", "registering", "asking", "updating", "shutdown"}, Proceed(w, pc),
           pc = "asking" => InSession(w),
           pc = "shutdown" => worker[w].password \in revoked,
           UNCHANGED <<row, key, server, thread, opened, revoked>>, events' \in Nat
    PROVE  SessionsInv'
  <1> DEFINE q == [worker[w] EXCEPT !.pc = pc]
  <1>1. worker[w] \in AnyWorker /\ worker' = [worker EXCEPT ![w] = q]
    BY DEF SessionsInv, Types, Proceed
  <1>2. /\ q \in AnyWorker /\ q.pc = pc /\ q.password = worker[w].password
        /\ q.secret = worker[w].secret /\ q.waiting = worker[w].waiting
    BY <1>1 DEF AnyWorker
  <1> HIDE DEF q
  <1> QED
    BY <1>1, <1>2, WorkerAlone

\* A credential that looks revoked is a key that was.
LEMMA LooksRevokedIsRevoked ==
    ASSUME SessionsInv, NEW c \in Credential, LooksRevoked(c)
    PROVE  c \in revoked
  BY DEF SessionsInv, RevokedIsKept, LooksRevoked, Credential

\* The version check, the registration that is refused, the end of a workload.
LEMMA WorkerAloneSteps ==
    ASSUME SessionsInv, NEW w \in Workers,
           CheckVersion(w) \/ SkipVersion(w) \/ RefuseRevoked(w) \/ EndWorkload(w)
    PROVE  SessionsInv'
  <1>1. worker[w].password \in Credential /\ events \in Nat
    BY DEF SessionsInv, Types, AnyWorker
  <1>2. CASE CheckVersion(w)
    <2>1. PICK pc \in {"registering", "updating", "shutdown"} :
              Proceed(w, pc) /\ (pc = "shutdown" => LooksRevoked(worker[w].password))
      BY <1>2 DEF CheckVersion
    <2> QED
      BY <1>1, <1>2, <2>1, Proceeds, LooksRevokedIsRevoked DEF CheckVersion
  <1>3. CASE SkipVersion(w)
    BY <1>1, <1>3, Proceeds DEF SkipVersion, Event
  <1>4. CASE RefuseRevoked(w)
    BY <1>1, <1>4, Proceeds, LooksRevokedIsRevoked DEF RefuseRevoked
  <1>5. CASE EndWorkload(w)
    BY <1>1, <1>5, Proceeds DEF EndWorkload, InSession
  <1> QED
    BY <1>2, <1>3, <1>4, <1>5

LEMMA UpdateKeeps ==
    ASSUME SessionsInv, NEW w \in Workers, Update(w)
    PROVE  SessionsInv'
  <1> USE SessionsAssumption
  <1>1. PICK v \in 0..MaxVersion :
            worker' = [worker EXCEPT ![w].pc = "starting", ![w].version = v]
    BY DEF Update
  <1> DEFINE r == [worker[w] EXCEPT !.pc = "starting"]
             q == [r EXCEPT !.version = v]
  <1>2. worker[w] \in AnyWorker /\ worker' = [worker EXCEPT ![w] = q] /\ v \in Nat
    <2>1. v \in Nat
      BY DEF SessionsAssumption
    <2>2. worker[w] \in AnyWorker
      BY DEF SessionsInv, Types
    <2> QED
      BY <1>1, <2>1, <2>2
  <1>3. /\ r \in AnyWorker /\ r.pc = "starting" /\ r.password = worker[w].password
        /\ r.secret = worker[w].secret /\ r.waiting = worker[w].waiting
    BY <1>2 DEF AnyWorker
  <1>4. /\ q \in AnyWorker /\ q.pc = "starting" /\ q.password = worker[w].password
        /\ q.secret = worker[w].secret /\ q.waiting = worker[w].waiting
    <2> HIDE DEF r
    <2> QED BY <1>2, <1>3 DEF AnyWorker
  <1>5. UNCHANGED <<row, key, server, thread, opened, revoked, events>> /\ events \in Nat
    BY DEF Update, SessionsInv, Types
  <1> HIDE DEF q
  <1> QED
    BY <1>2, <1>4, <1>5, WorkerAlone

-----------------------------------------------------------------------------
\* A thread has a request of a worker, or none.
LEMMA ThreadType ==
    ASSUME SessionsInv, NEW t \in Threads, thread[t].pc # "idle"
    PROVE  /\ thread[t] \in AnyRequest \union AnyRegistration \union AnyAnswered
           /\ thread[t].from \in Workers
           /\ thread[t].pc \in {"read", "done"}
  BY DEF SessionsInv, Types, AnyRequest, AnyRegistration, AnyAnswered, NoRequest

\* A worker that waits for nothing takes a thread, with what is its own.
LEMMA TakesThread ==
    ASSUME SessionsInv, NEW w \in Workers, NEW t \in Threads,
           NEW r \in AnyRequest \union AnyRegistration \union AnyAnswered,
           ~worker[w].waiting, r.from = w,
           worker' = [worker EXCEPT ![w].waiting = TRUE], thread' = [thread EXCEPT ![t] = r],
           UNCHANGED <<row, key, server, opened, revoked, events>>,
           r.pc = "read" /\ r.machine # NoRow => OfSession(w, r.machine),
           r.pc = "read" /\ r.endpoint = "clientWorkerInfo" => r.password = worker[w].password,
           r.pc = "read" /\ r.endpoint # "clientWorkerInfo" => r.machine.secret = worker[w].secret,
           r.pc = "done" => r.reply \notin {"session", "shutdown"},
           r.pc = "done" \/ r.endpoint # "clientWorkerInfo" => row[w] \in AnyRow
    PROVE  SessionsInv'
  <1> DEFINE q == [worker[w] EXCEPT !.waiting = TRUE]
  <1>1. worker[w] \in AnyWorker /\ worker' = [worker EXCEPT ![w] = q]
    BY DEF SessionsInv, Types
  <1>2. /\ q \in AnyWorker /\ q.pc = worker[w].pc /\ q.password = worker[w].password
        /\ q.secret = worker[w].secret /\ q.waiting
    BY <1>1 DEF AnyWorker
  <1> HIDE DEF q
  <1>3. worker'[w] = q /\ \A u \in Workers \ {w} : worker'[u] = worker[u]
    BY <1>1 DEF SessionsInv, Types
  <1>4. thread'[t] = r /\ \A u \in Threads \ {t} : thread'[u] = thread[u]
    BY DEF SessionsInv, Types
  <1>5. \A u \in Workers : /\ worker'[u].password = worker[u].password
                           /\ worker'[u].secret = worker[u].secret
                           /\ worker'[u].pc = worker[u].pc
                           /\ worker[u].waiting => worker'[u].waiting
    BY <1>2, <1>3
  <1>6. \A u \in Threads \ {t} : Awaited(u) => thread[u].from \in Workers \ {w}
    BY ThreadType DEF Awaited, SessionsInv, OneAwaited
  <1>7. Types'
    BY <1>2, <1>3, <1>4 DEF SessionsInv, Types
  <1>8. RowsAreSessions' /\ KeysAreOwn' /\ RevokedIsKept'
    BY DEF SessionsInv, RowsAreSessions, OfSession, KeysAreOwn, RevokedIsKept
  <1>9. CopiesAreSessions'
    BY <1>4 DEF SessionsInv, CopiesAreSessions, OfSession
  <1>10. HaveRows'
    BY <1>4, <1>5 DEF SessionsInv, HaveRows, InSession
  <1>11. OneAwaited'
    BY <1>2, <1>3, <1>4, <1>5, <1>6 DEF SessionsInv, OneAwaited, Awaited
  <1>12. SecretsAreOwn' /\ ShutdownOnlyWhenRevoked'
    BY <1>5 DEF SessionsInv, SecretsAreOwn, OpenedWith, ShutdownOnlyWhenRevoked
  <1>13. Own(t)'
    BY <1>2, <1>3, <1>4 DEF Own
  <1>14. \A u \in Threads \ {t} : Awaited(u)' => Own(u)'
    BY <1>4, <1>5, <1>6 DEF SessionsInv, AwaitedAreOwn, Awaited, Own, OpenedWith
  <1> QED
    BY <1>7, <1>8, <1>9, <1>10, <1>11, <1>12, <1>13, <1>14 DEF SessionsInv, AwaitedAreOwn

LEMMA SendKeeps ==
    ASSUME SessionsInv, NEW w \in Workers, NEW t \in Threads,
           RequestWorkload(w, t) \/ ReportNPS(w, t) \/ Report(w, t)
    PROVE  SessionsInv'
  <1>1. PICK e \in {"clientGetWorkload", "clientSubmitNPS", "clientHeartbeat", "clientSubmitResults"} :
            InSession(w) /\ Send(w, t, e)
    BY DEF RequestWorkload, ReportNPS, Report, InSession
  <1>2. row[w] \in AnyRow /\ (row[w] # NoRow => OfSession(w, row[w]))
    BY <1>1 DEF SessionsInv, HaveRows, RowsAreSessions
  <1>3. CASE Verdict(w) = "none"
    <2> DEFINE r == Received(e, w, TRUE)
    <2>1. row[w].secret = worker[w].secret
      BY <1>3 DEF Verdict
    <2>2. /\ r \in AnyRequest /\ r.pc = "read" /\ r.from = w /\ r.endpoint = e
          /\ r.machine = row[w] /\ thread' = [thread EXCEPT ![t] = r]
      BY <1>1, <1>2, <1>3 DEF Send, Received, AnyRequest, Endpoint
    <2> HIDE DEF r
    <2>3. /\ r \in AnyRequest \union AnyRegistration \union AnyAnswered
          /\ r.machine # NoRow => OfSession(w, r.machine)
          /\ r.machine.secret = worker[w].secret
          /\ r.endpoint # "clientWorkerInfo" /\ row[w] \in AnyRow
      BY <1>1, <1>2, <2>1, <2>2 DEF SessionsInv, RowsAreSessions, HaveRows
    <2>4. /\ ~worker[w].waiting /\ worker' = [worker EXCEPT ![w].waiting = TRUE]
          /\ UNCHANGED <<row, key, server, opened, revoked, events>>
      BY <1>1 DEF Send
    <2> QED
      BY <2>2, <2>3, <2>4, TakesThread
  <1>4. CASE Verdict(w) # "none"
    <2> DEFINE r == [pc |-> "done", from |-> w, reply |-> Verdict(w), secret |-> NoSecret]
    <2>1. Verdict(w) \in {"version", "error"}
      BY <1>4 DEF Verdict
    <2>2. /\ r \in AnyAnswered /\ r.pc = "done" /\ r.from = w /\ r.reply \in {"version", "error"}
      BY <2>1 DEF AnyAnswered, NoSecret
    <2>3. thread' = [thread EXCEPT ![t] = r]
      BY <1>1, <1>4 DEF Send, Received, Answer
    <2> HIDE DEF r
    <2> QED
      BY <1>1, <1>2, <2>2, <2>3, TakesThread DEF Send
  <1> QED
    BY <1>3, <1>4

LEMMA RegisterKeeps ==
    ASSUME SessionsInv, NEW w \in Workers, NEW t \in Threads, Register(w, t)
    PROVE  SessionsInv'
  <1> DEFINE r == [pc |-> "read", endpoint |-> "clientWorkerInfo", from |-> w, awaited |-> TRUE,
                   machine |-> row[w], version |-> worker[w].version,
                   password |-> worker[w].password]
  <1>1. worker[w] \in AnyWorker /\ row[w] \in AnyRow \union {NoRow}
        /\ (row[w] # NoRow => OfSession(w, row[w]))
    BY DEF SessionsInv, Types, RowsAreSessions
  <1>2. /\ r \in AnyRegistration /\ r.pc = "read" /\ r.endpoint = "clientWorkerInfo" /\ r.from = w
        /\ r.machine = row[w] /\ r.password = worker[w].password
        /\ thread' = [thread EXCEPT ![t] = r]
    BY <1>1 DEF Register, AnyRegistration, AnyWorker
  <1> HIDE DEF r
  <1>3. /\ r \in AnyRequest \union AnyRegistration \union AnyAnswered
        /\ r.machine # NoRow => OfSession(w, r.machine)
        /\ ~worker[w].waiting /\ worker' = [worker EXCEPT ![w].waiting = TRUE]
        /\ UNCHANGED <<row, key, server, opened, revoked, events>>
    BY <1>1, <1>2 DEF Register
  <1> QED
    BY <1>2, <1>3, TakesThread

-----------------------------------------------------------------------------
\* What a handler leaves in its thread: nothing, or the reply its worker waits for.
LeftBy(t, r) ==
    \/ r = NoRequest
    \/ r \in AnyAnswered /\ r.from = thread[t].from /\ Awaited(t)

\* A handler saves a row of a session, and leaves no session for a reply.
LEMMA Handled ==
    ASSUME SessionsInv, NEW t \in Threads, thread[t].pc = "read", NEW m, NEW r,
           m = row[thread[t].from] \/ OfSession(thread[t].from, m),
           row[thread[t].from] \in AnyRow \/ m \in AnyRow,
           row' = [row EXCEPT ![thread[t].from] = m], thread' = [thread EXCEPT ![t] = r],
           LeftBy(t, r),
           r # NoRequest => r.reply # "session",
           r # NoRequest /\ r.reply = "shutdown" => worker[thread[t].from].password \in revoked,
           UNCHANGED <<key, server, worker, opened, revoked, events>>
    PROVE  SessionsInv'
  <1> DEFINE w == thread[t].from
  <1>1. w \in Workers
    BY ThreadType
  <1>2. thread'[t] = r /\ \A u \in Threads \ {t} : thread'[u] = thread[u]
    BY DEF SessionsInv, Types
  <1>3. row'[w] = m /\ m \in AnyRow /\ \A u \in Workers \ {w} : row'[u] = row[u]
    BY <1>1 DEF SessionsInv, Types, OfSession
  <1>4. \A u \in Workers : row[u] \in AnyRow => row'[u] \in AnyRow
    BY <1>3
  <1>5. Types'
    BY <1>1, <1>2, <1>3 DEF SessionsInv, Types, LeftBy
  <1>6. RowsAreSessions'
    BY <1>1, <1>3 DEF SessionsInv, RowsAreSessions, OfSession
  <1>7. r = NoRequest \/ (r.pc = "done" /\ r.from = w /\ Awaited(t))
    BY DEF LeftBy, AnyAnswered
  <1>8. CopiesAreSessions'
    BY <1>2, <1>7 DEF SessionsInv, CopiesAreSessions, OfSession, NoRequest
  <1>9. KeysAreOwn' /\ SecretsAreOwn' /\ RevokedIsKept' /\ ShutdownOnlyWhenRevoked'
    BY DEF SessionsInv, KeysAreOwn, SecretsAreOwn, OpenedWith, RevokedIsKept, ShutdownOnlyWhenRevoked
  <1>10. HaveRows'
    <2>1. \A u \in Workers : InSession(u)' => row'[u] \in AnyRow
      BY <1>4 DEF SessionsInv, HaveRows, InSession
    <2>2. \A u \in Threads \ {t} :
              thread[u].pc = "done" \/ (thread[u].pc = "read" /\ thread[u].endpoint # "clientWorkerInfo")
                  => row'[thread[u].from] \in AnyRow
      BY <1>4, ThreadType DEF SessionsInv, HaveRows
    <2> QED
      BY <1>2, <1>3, <1>7, <2>1, <2>2 DEF HaveRows, NoRequest
  <1>11. OneAwaited'
    BY <1>2, <1>7 DEF SessionsInv, OneAwaited, Awaited, NoRequest
  <1>12. AwaitedAreOwn'
    <2>1. Awaited(t)' => Own(t)'
      BY <1>2, <1>7 DEF Own, Awaited, NoRequest
    <2>2. \A u \in Threads \ {t} : Awaited(u)' => Own(u)'
      BY <1>2 DEF SessionsInv, AwaitedAreOwn, Awaited, Own, OpenedWith
    <2> QED
      BY <2>1, <2>2 DEF AwaitedAreOwn
  <1> QED
    BY <1>5, <1>6, <1>8, <1>9, <1>10, <1>11, <1>12 DEF SessionsInv

\* The reply to a request, when the row that is saved is of a session.
LEMMA Finished ==
    ASSUME SessionsInv, NEW t \in Threads, thread[t].pc = "read",
           thread[t].endpoint # "clientWorkerInfo", NEW m,
           m = row[thread[t].from] \/ OfSession(thread[t].from, m),
           NEW reply \in {"workload", "go", "stop", "shutdown"}, Finish(t, m, reply),
           reply = "shutdown" /\ thread[t].awaited => worker[thread[t].from].password \in revoked
    PROVE  SessionsInv'
  <1> DEFINE r == Answer(thread[t], reply, NoSecret)
  <1>1. row[thread[t].from] \in AnyRow
    BY ThreadType DEF SessionsInv, HaveRows
  <1>2. LeftBy(t, r) /\ (r # NoRequest => r.reply = reply /\ thread[t].awaited)
    BY ThreadType DEF LeftBy, Answer, Awaited, AnyAnswered, NoSecret
  <1>3. thread' = [thread EXCEPT ![t] = r] /\ row' = [row EXCEPT ![thread[t].from] = m]
    BY DEF Finish, SessionsInv, Types
  <1> HIDE DEF r
  <1> QED
    BY <1>1, <1>2, <1>3, Handled DEF Finish

-----------------------------------------------------------------------------
\* A row that is there has more fields than the one that is not.
LEMMA NoRowIsNone == NoRow \notin AnyRow
  <1>1. DOMAIN NoRow = {"workload"}
    BY DEF NoRow
  <1>2. \A m \in AnyRow : "info" \in DOMAIN m
    BY DEF AnyRow
  <1> QED
    BY <1>1, <1>2

\* The copy that a request holds is of a session of its machine.
LEMMA CopyOfSession ==
    ASSUME SessionsInv, NEW t \in Threads, thread[t].pc = "read",
           thread[t].endpoint # "clientWorkerInfo"
    PROVE  /\ thread[t] \in AnyRequest
           /\ OfSession(thread[t].from, thread[t].machine)
  <1>1. thread[t] \in AnyRequest
    BY ThreadType DEF AnyRegistration, AnyAnswered
  <1> QED
    BY <1>1, NoRowIsNone DEF SessionsInv, CopiesAreSessions, AnyRequest

\* A handler that changes what a session does not fix keeps the copy's session.
LEMMA StillOfSession ==
    ASSUME NEW w, NEW m, OfSession(w, m), NEW b \in BOOLEAN
    PROVE  /\ OfSession(w, [m EXCEPT !.workload = TRUE])
           /\ OfSession(w, [m EXCEPT !.info.stop_requested = b])
  <1>1. m \in AnyRow /\ m.info \in AnyInfo
    BY DEF OfSession, AnyRow
  <1>2. OfSession(w, [m EXCEPT !.workload = TRUE])
    <2> DEFINE n == [m EXCEPT !.workload = TRUE]
    <2>1. n \in AnyRow /\ n.info = m.info /\ n.secret = m.secret
      BY <1>1 DEF AnyRow
    <2> HIDE DEF n
    <2>2. OfSession(w, n)
      BY <2>1 DEF OfSession
    <2> QED
      BY <2>2 DEF n
  <1>3. OfSession(w, [m EXCEPT !.info.stop_requested = b])
    <2> DEFINE i == [m.info EXCEPT !.stop_requested = b]
               n == [m EXCEPT !.info = i]
    <2>1. i \in AnyInfo /\ [i EXCEPT !.stop_requested = FALSE] = [m.info EXCEPT !.stop_requested = FALSE]
      <3> DEFINE c == [m.info EXCEPT !.stop_requested = FALSE]
                 d == [i EXCEPT !.stop_requested = FALSE]
      <3>1. /\ i \in AnyInfo /\ i.client_ver = m.info.client_ver /\ i.checksum = m.info.checksum
            /\ i.worker_key_id = m.info.worker_key_id
        BY <1>1 DEF AnyInfo
      <3>2. /\ c \in AnyInfo /\ c.client_ver = m.info.client_ver /\ c.checksum = m.info.checksum
            /\ c.worker_key_id = m.info.worker_key_id /\ c.stop_requested = FALSE
        BY <1>1 DEF AnyInfo
      <3>3. /\ d \in AnyInfo /\ d.client_ver = m.info.client_ver /\ d.checksum = m.info.checksum
            /\ d.worker_key_id = m.info.worker_key_id /\ d.stop_requested = FALSE
        <4> HIDE DEF i
        <4> QED BY <3>1 DEF AnyInfo
      <3> HIDE DEF c, d
      <3>4. c = d
        BY <3>2, <3>3 DEF AnyInfo
      <3> QED
        BY <3>1, <3>4 DEF c, d
    <2>2. [m EXCEPT !.info.stop_requested = b] = n
      BY <1>1 DEF AnyRow
    <2>3. n \in AnyRow /\ n.info = i /\ n.secret = m.secret
      <3> HIDE DEF i
      <3> QED BY <1>1, <2>1 DEF AnyRow
    <2> HIDE DEF n, i
    <2> QED
      BY <2>1, <2>2, <2>3 DEF OfSession
  <1> QED
    BY <1>2, <1>3

\* The key that a copy names is the worker's own, if the worker waits for it.
LEMMA CopyNamesOwnKey ==
    ASSUME SessionsInv, NEW t \in Threads, thread[t].pc = "read", thread[t].awaited,
           thread[t].endpoint # "clientWorkerInfo", KeyRevoked(thread[t].machine)
    PROVE  worker[thread[t].from].password \in revoked
  <1> DEFINE w == thread[t].from
             m == thread[t].machine
             k == m.info.worker_key_id
  <1>1. OfSession(w, m) /\ w \in Workers /\ m \in AnyRow /\ m.info \in AnyInfo
    BY CopyOfSession, ThreadType DEF OfSession, AnyRow
  <1>2. m.secret = worker[w].secret /\ worker[w] \in AnyWorker
    BY <1>1 DEF SessionsInv, AwaitedAreOwn, Awaited, Own, Types
  <1>3. m.secret \in Nat \ {0} /\ OpenedWith(m.secret, worker[w].password)
    BY <1>1, <1>2 DEF SessionsInv, SecretsAreOwn, AnyRow
  <1>4. k = opened[m.secret].info.worker_key_id
    BY <1>1 DEF OfSession, AnyInfo
  <1>5. k \in {worker[w].password, NoKey}
    BY <1>3, <1>4 DEF SessionsInv, KeysAreOwn, OpenedWith
  <1>6. k # NoKey /\ key[k] # "enabled" /\ k \in Keys
    BY <1>1 DEF KeyRevoked, AnyInfo
  <1> QED
    BY <1>5, <1>6 DEF SessionsInv, RevokedIsKept

\* The handlers of a session and of the page.
LEMMA HandlersKeep ==
    ASSUME SessionsInv, NEW t \in Threads,
           GetWorkload(t) \/ SubmitNPS(t) \/ Heartbeat(t) \/ SubmitResults(t) \/ SetStop(t)
    PROVE  SessionsInv'
  <1> DEFINE m == thread[t].machine
             w == thread[t].from
  <1>1. thread[t].pc = "read" /\ thread[t].endpoint # "clientWorkerInfo"
    BY DEF GetWorkload, SubmitNPS, Heartbeat, SubmitResults, SetStop, Handles
  <1>2. OfSession(w, m) /\ \A b \in BOOLEAN :
            OfSession(w, [m EXCEPT !.workload = TRUE]) /\ OfSession(w, [m EXCEPT !.info.stop_requested = b])
    BY <1>1, CopyOfSession, StillOfSession
  <1>3. CASE GetWorkload(t)
    <2>1. CASE KeyRevoked(m) /\ Finish(t, row[w], "shutdown")
      BY <1>1, <2>1, CopyNamesOwnKey, Finished
    <2>2. CASE Finish(t, row[w], "go")
      BY <1>1, <2>2, Finished
    <2>3. CASE Finish(t, [m EXCEPT !.workload = TRUE], "workload")
      BY <1>1, <1>2, <2>3, Finished
    <2> QED
      BY <1>3, <2>1, <2>2, <2>3 DEF GetWorkload
  <1>4. CASE SubmitNPS(t) \/ Heartbeat(t)
    <2>1. Finish(t, m, "go") \/ Finish(t, m, "stop")
      BY <1>4 DEF SubmitNPS, Heartbeat
    <2> QED
      BY <1>1, <1>2, <2>1, Finished
  <1>5. CASE SubmitResults(t)
    <2>1. Finish(t, row[w], "go") \/ Finish(t, row[w], "stop")
      BY <1>5 DEF SubmitResults
    <2> QED
      BY <1>1, <2>1, Finished
  <1>6. CASE SetStop(t)
    <2> DEFINE b == thread[t].endpoint = "stop_machine"
    <2>1. Finish(t, [m EXCEPT !.info.stop_requested = b], "go") /\ b \in BOOLEAN
      BY <1>6 DEF SetStop
    <2>2. OfSession(w, [m EXCEPT !.info.stop_requested = b])
      BY <1>2
    <2> HIDE DEF b
    <2> QED
      BY <1>1, <2>1, <2>2, Finished
  <1> QED
    BY <1>3, <1>4, <1>5, <1>6

-----------------------------------------------------------------------------
\* A registration is recorded with the credential it came with.
LEMMA OpenSessionKeeps ==
    ASSUME SessionsInv, NEW t \in Threads, OpenSession(t)
    PROVE  SessionsInv'
  <1> DEFINE w == thread[t].from
             info == NewInfo(thread[t])
             s == Len(opened) + 1
             session == [owner |-> w, password |-> thread[t].password, info |-> info]
             m == IF thread[t].machine = NoRow /\ row[w] # NoRow
                  THEN Adopt(row[w], info, s) ELSE TakeOver(thread[t].machine, info, s)
             r == Answer(thread[t], "session", s)
  <1>1. thread[t].pc = "read" /\ thread[t].endpoint = "clientWorkerInfo" /\ w \in Workers
    BY ThreadType DEF OpenSession, Handles
  <1>2. thread[t] \in AnyRegistration /\ thread[t].password \in Credential
        /\ thread[t].version \in Nat /\ thread[t].awaited \in BOOLEAN
    BY <1>1, ThreadType DEF AnyRequest, AnyAnswered, AnyRegistration, Endpoint
  <1>3. opened \in Seq(AnySession) /\ Len(opened) \in Nat /\ s \in Nat \ {0}
    BY DEF SessionsInv, Types
  <1>4. /\ info \in AnyInfo /\ info.stop_requested = FALSE
        /\ info.worker_key_id \in {thread[t].password, NoKey}
    BY <1>2 DEF NewInfo, AnyInfo, SessionsInv, Types
  <1>5. session \in AnySession /\ session.owner = w /\ session.info = info
        /\ session.password = thread[t].password
    <2> HIDE DEF info
    <2> QED BY <1>1, <1>2, <1>4 DEF AnySession
  <1>6. [info EXCEPT !.stop_requested = FALSE] = info
    <2> HIDE DEF info
    <2> QED BY <1>4 DEF AnyInfo
  <1>7. m \in AnyRow /\ m.info = info /\ m.secret = s
    <2> HIDE DEF info, s
    <2>1. CASE thread[t].machine = NoRow /\ row[w] # NoRow
      <3> DEFINE a == [row[w] EXCEPT !.info = info]
                 c == [a EXCEPT !.secret = s]
                 d == [c EXCEPT !.workload = FALSE]
      <3>1. row[w] \in AnyRow
        BY <1>1, <2>1 DEF SessionsInv, Types
      <3>2. a \in AnyRow /\ a.info = info
        BY <1>4, <3>1 DEF AnyRow
      <3>3. c \in AnyRow /\ c.info = info /\ c.secret = s
        <4> HIDE DEF a
        <4> QED BY <1>3, <3>2 DEF AnyRow
      <3>4. d \in AnyRow /\ d.info = info /\ d.secret = s
        <4> HIDE DEF c
        <4> QED BY <3>3 DEF AnyRow
      <3>5. m = d
        BY <2>1 DEF Adopt
      <3> QED
        BY <3>4, <3>5
    <2>2. CASE ~(thread[t].machine = NoRow /\ row[w] # NoRow)
      <3>1. m = [info |-> info, secret |-> s, workload |-> FALSE]
        BY <2>2 DEF TakeOver
      <3> HIDE DEF m
      <3> QED
        BY <1>3, <1>4, <3>1 DEF AnyRow
    <2> QED
      BY <2>1, <2>2
  <1>8. /\ row' = [row EXCEPT ![w] = m] /\ opened' = Append(opened, session)
        /\ thread' = [thread EXCEPT ![t] = r]
        /\ UNCHANGED <<key, server, worker, revoked, events>>
    BY DEF OpenSession, SessionsInv, Types
  <1>9. r = NoRequest \/ (/\ r \in AnyAnswered /\ r.pc = "done" /\ r.from = w /\ r.reply = "session"
                          /\ r.secret = s /\ Awaited(t))
    <2> HIDE DEF s
    <2> QED BY <1>1, <1>2, <1>3 DEF Answer, AnyAnswered, Awaited
  <1> HIDE DEF info, session, m, r
  <1>10. /\ opened' \in Seq(AnySession) /\ Len(opened') = s /\ opened'[s] = session
         /\ \A i \in 1..Len(opened) : opened'[i] = opened[i]
    BY <1>3, <1>5, <1>8
  <1>11. 1..Len(opened) \subseteq 1..Len(opened') /\ s \in 1..Len(opened')
         /\ 1..Len(opened') = (1..Len(opened)) \union {s}
    BY <1>3, <1>10
  <1>12. row'[w] = m /\ \A u \in Workers \ {w} : row'[u] = row[u]
    BY <1>1, <1>8 DEF SessionsInv, Types
  <1>13. thread'[t] = r /\ \A u \in Threads \ {t} : thread'[u] = thread[u]
    BY <1>8 DEF SessionsInv, Types
  <1> HIDE DEF s
  <1>14. \A u, n : OfSession(u, n) => OfSession(u, n)'
    BY <1>10, <1>11 DEF OfSession
  <1>15. \A u, n : u = w /\ n = m => OfSession(u, n)'
    BY <1>5, <1>6, <1>7, <1>10, <1>11 DEF OfSession
  <1>16. \A n, p : OpenedWith(n, p) => OpenedWith(n, p)'
    BY <1>10, <1>11 DEF OpenedWith
  <1>17. Types'
    BY <1>1, <1>7, <1>8, <1>9, <1>10, <1>12, <1>13 DEF SessionsInv, Types
  <1>18. RowsAreSessions'
    BY <1>12, <1>14, <1>15 DEF SessionsInv, RowsAreSessions
  <1>19. CopiesAreSessions'
    BY <1>9, <1>13, <1>14 DEF SessionsInv, CopiesAreSessions, NoRequest
  <1>20. HaveRows'
    <2>1. \A u \in Workers : row[u] \in AnyRow \/ u = w => row'[u] \in AnyRow
      BY <1>7, <1>12
    <2>2. \A u \in Workers : InSession(u)' => row'[u] \in AnyRow
      BY <1>8, <2>1 DEF SessionsInv, HaveRows, InSession
    <2>3. \A u \in Threads \ {t} :
              thread[u].pc = "done" \/ (thread[u].pc = "read" /\ thread[u].endpoint # "clientWorkerInfo")
                  => row'[thread[u].from] \in AnyRow
      BY <2>1, ThreadType DEF SessionsInv, HaveRows
    <2> QED
      BY <1>1, <1>9, <1>13, <2>1, <2>2, <2>3 DEF HaveRows, NoRequest
  <1>21. KeysAreOwn'
    BY <1>4, <1>5, <1>10, <1>11 DEF SessionsInv, KeysAreOwn
  <1>22. OneAwaited'
    BY <1>8, <1>9, <1>13 DEF SessionsInv, OneAwaited, Awaited, NoRequest
  <1>23. SecretsAreOwn' /\ RevokedIsKept' /\ ShutdownOnlyWhenRevoked'
    BY <1>8, <1>16 DEF SessionsInv, SecretsAreOwn, RevokedIsKept, ShutdownOnlyWhenRevoked
  <1>24. AwaitedAreOwn'
    <2>1. Awaited(t)' => Own(t)'
      <3>1. Awaited(t) => thread[t].password = worker[w].password
        BY <1>1 DEF SessionsInv, AwaitedAreOwn, Own
      <3> QED
        BY <1>5, <1>8, <1>9, <1>10, <1>11, <1>13, <3>1 DEF Own, Awaited, NoRequest, OpenedWith
    <2>2. \A u \in Threads \ {t} : Awaited(u)' => Own(u)'
      BY <1>8, <1>13, <1>16 DEF SessionsInv, AwaitedAreOwn, Awaited, Own
    <2> QED
      BY <2>1, <2>2 DEF AwaitedAreOwn
  <1> QED
    BY <1>17, <1>18, <1>19, <1>20, <1>21, <1>22, <1>23, <1>24 DEF SessionsInv

-----------------------------------------------------------------------------
\* A thread whose worker no longer waits for it.
LEMMA Unawaited ==
    ASSUME SessionsInv, NEW t \in Threads, thread[t].pc = "read"
    PROVE  LET r == [thread[t] EXCEPT !.awaited = FALSE] IN
           /\ r \in AnyRequest \union AnyRegistration
           /\ r.pc = "read" /\ ~r.awaited /\ r.from = thread[t].from
           /\ r.machine = thread[t].machine /\ r.endpoint = thread[t].endpoint
  <1>1. thread[t] \in AnyRequest \/ thread[t] \in AnyRegistration
    BY ThreadType DEF AnyAnswered
  <1>2. CASE thread[t] \in AnyRequest
    BY <1>2 DEF AnyRequest
  <1>3. CASE thread[t] \in AnyRegistration
    BY <1>3 DEF AnyRegistration
  <1> QED
    BY <1>1, <1>2, <1>3

\* What a thread is left with when a worker, or the server, gives its request up.
Left(t) ==
    \/ thread'[t] = thread[t]
    \/ thread'[t] = NoRequest
    \/ thread[t].pc = "read" /\ thread'[t] = [thread[t] EXCEPT !.awaited = FALSE]

\* Workers go on, and threads are given up.
LEMMA GivenUp ==
    ASSUME SessionsInv, worker' \in [Workers -> AnyWorker],
           thread' = [t \in Threads |-> thread'[t]], \A t \in Threads : Left(t),
           \A t \in Threads : Awaited(t)' =>
               LET w == thread[t].from IN
               /\ worker'[w].waiting = worker[w].waiting
               /\ worker'[w].password = worker[w].password
               /\ worker'[w].secret = worker[w].secret,
           \A w \in Workers :
               worker'[w].secret # 0 => OpenedWith(worker'[w].secret, worker'[w].password),
           \A w \in Workers :
               worker'[w].pc \in {"asking", "building", "playing"} => row[w] \in AnyRow,
           \A w \in Workers : worker'[w].pc = "shutdown" => worker'[w].password \in revoked,
           UNCHANGED <<row, key, opened, revoked>>,
           server' \in [version : Nat, checksum : Nat], events' \in Nat
    PROVE  SessionsInv'
  <1>1. \A t \in Threads :
            /\ thread'[t] \in AnyRequest \union AnyRegistration \union AnyAnswered \union {NoRequest}
            /\ thread'[t].pc \in {"read", "done"} =>
                  /\ thread'[t].pc = thread[t].pc /\ thread'[t].from = thread[t].from
            /\ thread'[t].pc = "read" =>
                  /\ thread'[t].machine = thread[t].machine
                  /\ thread'[t].endpoint = thread[t].endpoint
            /\ Awaited(t)' => Awaited(t) /\ thread'[t] = thread[t]
    <2> TAKE t \in Threads
    <2>1. CASE thread'[t] = thread[t]
      BY <2>1 DEF SessionsInv, Types, Awaited
    <2>2. CASE thread'[t] = NoRequest
      BY <2>2 DEF NoRequest, Awaited
    <2>3. CASE thread[t].pc = "read" /\ thread'[t] = [thread[t] EXCEPT !.awaited = FALSE]
      BY <2>3, Unawaited DEF Awaited
    <2> QED
      BY <2>1, <2>2, <2>3 DEF Left
  <1>2. Types'
    BY <1>1 DEF SessionsInv, Types
  <1>3. RowsAreSessions' /\ KeysAreOwn' /\ RevokedIsKept'
    BY DEF SessionsInv, RowsAreSessions, OfSession, KeysAreOwn, RevokedIsKept
  <1>4. CopiesAreSessions'
    <2>1. \A v, n : OfSession(v, n) => OfSession(v, n)'
      BY DEF OfSession
    <2> QED
      BY <1>1, <2>1 DEF SessionsInv, CopiesAreSessions
  <1>5. HaveRows'
    BY <1>1 DEF SessionsInv, HaveRows, InSession
  <1>6. OneAwaited'
    BY <1>1 DEF SessionsInv, OneAwaited
  <1>7. SecretsAreOwn' /\ ShutdownOnlyWhenRevoked'
    BY DEF SecretsAreOwn, OpenedWith, ShutdownOnlyWhenRevoked
  <1>8. AwaitedAreOwn'
    BY <1>1 DEF SessionsInv, AwaitedAreOwn, Own, OpenedWith
  <1> QED
    BY <1>2, <1>3, <1>4, <1>5, <1>6, <1>7, <1>8 DEF SessionsInv

\* One worker becomes q, and the others stay as they are.
LEMMA Becomes ==
    ASSUME SessionsInv, NEW w \in Workers, NEW q \in AnyWorker,
           worker' = [worker EXCEPT ![w] = q],
           q.secret # 0 => OpenedWith(q.secret, q.password),
           q.pc \in {"asking", "building", "playing"} => row[w] \in AnyRow,
           q.pc = "shutdown" => q.password \in revoked
    PROVE  /\ worker' \in [Workers -> AnyWorker]
           /\ worker'[w] = q /\ \A v \in Workers \ {w} : worker'[v] = worker[v]
           /\ \A v \in Workers :
                 /\ worker'[v].secret # 0 => OpenedWith(worker'[v].secret, worker'[v].password)
                 /\ worker'[v].pc \in {"asking", "building", "playing"} => row[v] \in AnyRow
                 /\ worker'[v].pc = "shutdown" => worker'[v].password \in revoked
  <1>1. /\ worker' \in [Workers -> AnyWorker]
        /\ worker'[w] = q /\ \A v \in Workers \ {w} : worker'[v] = worker[v]
    BY DEF SessionsInv, Types
  <1> QED
    BY <1>1 DEF SessionsInv, SecretsAreOwn, HaveRows, InSession, ShutdownOnlyWhenRevoked

\* A worker whose request raised an exception.
LEMMA Interrupted ==
    ASSUME SessionsInv, NEW w \in Workers
    PROVE  LET q == [worker[w] EXCEPT !.waiting = FALSE, !.pc = Excepted(@)] IN
           /\ q \in AnyWorker /\ q.password = worker[w].password /\ q.secret = worker[w].secret
           /\ q.secret # 0 => OpenedWith(q.secret, q.password)
           /\ q.pc \in {"asking", "building", "playing"} => row[w] \in AnyRow
           /\ q.pc = "shutdown" => q.password \in revoked
  <1> DEFINE r == [worker[w] EXCEPT !.waiting = FALSE]
             pc == Excepted(worker[w].pc)
             q == [r EXCEPT !.pc = pc]
  <1>1. worker[w] \in AnyWorker
    BY DEF SessionsInv, Types
  <1>2. /\ r \in AnyWorker /\ r.pc = worker[w].pc /\ r.password = worker[w].password
        /\ r.secret = worker[w].secret
    BY <1>1 DEF AnyWorker
  <1>3. /\ pc \in {"starting", "registering", "asking", "building", "playing", "updating", "shutdown"}
        /\ pc = worker[w].pc \/ (pc = "asking" /\ worker[w].pc = "building")
    BY <1>1 DEF AnyWorker, Excepted
  <1>4. /\ q \in AnyWorker /\ q.pc = pc /\ q.password = worker[w].password
        /\ q.secret = worker[w].secret
    <2> HIDE DEF r, pc
    <2> QED BY <1>2, <1>3 DEF AnyWorker
  <1>5. [worker[w] EXCEPT !.waiting = FALSE, !.pc = Excepted(@)] = q
    BY <1>1 DEF AnyWorker
  <1> HIDE DEF r, pc, q
  <1>6. q.pc \in {"asking", "building", "playing"} => InSession(w)
    BY <1>3, <1>4 DEF InSession
  <1>7. q.pc = "shutdown" => worker[w].pc = "shutdown"
    BY <1>3, <1>4
  <1>8. /\ q.secret # 0 => OpenedWith(q.secret, q.password)
        /\ q.pc \in {"asking", "building", "playing"} => row[w] \in AnyRow
        /\ q.pc = "shutdown" => q.password \in revoked
    BY <1>4, <1>6, <1>7 DEF SessionsInv, SecretsAreOwn, HaveRows, ShutdownOnlyWhenRevoked
  <1> QED
    BY <1>4, <1>5, <1>8

\* The threads that worker w no longer waits for.
LEMMA AbandonedIsLeft ==
    ASSUME SessionsInv, NEW w \in Workers, thread' = Abandoned(w)
    PROVE  /\ thread' = [t \in Threads |-> thread'[t]] /\ \A t \in Threads : Left(t)
           /\ \A t \in Threads : Awaited(t)' => thread[t].from \in Workers \ {w}
  <1>1. thread' = [t \in Threads |-> thread'[t]]
    BY DEF Abandoned
  <1>2. ASSUME NEW t \in Threads
        PROVE  Left(t) /\ (Awaited(t)' => thread[t].from \in Workers \ {w})
    <2>1. CASE thread[t].pc = "read" /\ thread[t].from = w
      <3>1. thread'[t] = [thread[t] EXCEPT !.awaited = FALSE]
        BY <2>1 DEF Abandoned
      <3> QED
        BY <2>1, <3>1, Unawaited DEF Left, Awaited
    <2>2. CASE thread[t].pc = "done" /\ thread[t].from = w
      BY <2>2 DEF Abandoned, Left, Awaited, NoRequest
    <2>3. CASE ~(thread[t].pc \in {"read", "done"} /\ thread[t].from = w)
      <3>1. thread'[t] = thread[t]
        BY <2>3 DEF Abandoned
      <3> QED
        BY <2>3, <3>1, ThreadType DEF Left, Awaited
    <2> QED
      BY <2>1, <2>2, <2>3
  <1> QED
    BY <1>1, <1>2

\* A worker that gives its request up, dies or is connected again.
LEMMA AbandonKeeps ==
    ASSUME SessionsInv, NEW w \in Workers, NEW q \in AnyWorker,
           worker' = [worker EXCEPT ![w] = q], thread' = Abandoned(w),
           q.secret # 0 => OpenedWith(q.secret, q.password),
           q.pc \in {"asking", "building", "playing"} => row[w] \in AnyRow,
           q.pc = "shutdown" => q.password \in revoked,
           UNCHANGED <<row, key, server, opened, revoked>>, events' \in Nat
    PROVE  SessionsInv'
  <1>1. /\ thread' = [t \in Threads |-> thread'[t]] /\ \A t \in Threads : Left(t)
        /\ \A t \in Threads : Awaited(t)' => thread[t].from \in Workers \ {w}
    BY AbandonedIsLeft
  <1>2. /\ worker' \in [Workers -> AnyWorker]
        /\ worker'[w] = q /\ \A v \in Workers \ {w} : worker'[v] = worker[v]
        /\ \A v \in Workers :
              /\ worker'[v].secret # 0 => OpenedWith(worker'[v].secret, worker'[v].password)
              /\ worker'[v].pc \in {"asking", "building", "playing"} => row[v] \in AnyRow
              /\ worker'[v].pc = "shutdown" => worker'[v].password \in revoked
    BY Becomes
  <1>3. \A t \in Threads : Awaited(t)' =>
            LET v == thread[t].from IN
            /\ worker'[v].waiting = worker[v].waiting
            /\ worker'[v].password = worker[v].password
            /\ worker'[v].secret = worker[v].secret
    BY <1>1, <1>2
  <1>4. server' \in [version : Nat, checksum : Nat]
    BY DEF SessionsInv, Types
  <1> QED
    BY <1>1, <1>2, <1>3, <1>4, GivenUp

LEMMA WorkerFailureKeeps ==
    ASSUME SessionsInv, NEW w \in Workers,
           GiveUp(w) \/ Crash(w) \/ \E c \in Credential : Reconnect(w, c)
    PROVE  SessionsInv'
  <1>1. worker[w] \in AnyWorker /\ events \in Nat /\ events + 1 \in Nat
    BY DEF SessionsInv, Types
  <1>2. CASE GiveUp(w)
    <2> DEFINE q == [worker[w] EXCEPT !.waiting = FALSE, !.pc = Excepted(@)]
    <2>1. /\ q \in AnyWorker
          /\ q.secret # 0 => OpenedWith(q.secret, q.password)
          /\ q.pc \in {"asking", "building", "playing"} => row[w] \in AnyRow
          /\ q.pc = "shutdown" => q.password \in revoked
      BY Interrupted
    <2>2. worker' = [worker EXCEPT ![w] = q]
      BY <1>2 DEF GiveUp, SessionsInv, Types
    <2>3. /\ thread' = Abandoned(w) /\ events' \in Nat
          /\ UNCHANGED <<row, key, server, opened, revoked>>
      BY <1>1, <1>2 DEF GiveUp, Event
    <2> HIDE DEF q
    <2> QED
      BY <2>1, <2>2, <2>3, AbandonKeeps
  <1>3. ASSUME NEW c \in Credential,
               \/ Reconnect(w, c)
               \/ Crash(w) /\ c = worker[w].password
        PROVE  SessionsInv'
    <2> DEFINE q == [pc |-> "starting", version |-> worker[w].version, password |-> c,
                     secret |-> NoSecret, waiting |-> FALSE]
    <2>1. q \in AnyWorker /\ q.secret = 0 /\ q.pc = "starting"
      BY <1>1, <1>3 DEF AnyWorker, NoSecret
    <2>2. worker' = [worker EXCEPT ![w] = q]
      BY <1>1, <1>3 DEF Crash, Reconnect, AnyWorker, SessionsInv, Types
    <2>3. /\ thread' = Abandoned(w) /\ events' \in Nat
          /\ UNCHANGED <<row, key, server, opened, revoked>>
      BY <1>1, <1>3 DEF Crash, Reconnect, Event
    <2> HIDE DEF q
    <2> QED
      BY <2>1, <2>2, <2>3, AbandonKeeps
  <1>4. worker[w].password \in Credential
    BY <1>1 DEF AnyWorker
  <1> QED
    BY <1>2, <1>3, <1>4

LEMMA FailThreadKeeps ==
    ASSUME SessionsInv, NEW t \in Threads, FailThread(t)
    PROVE  SessionsInv'
  <1> DEFINE w == thread[t].from
             q == [worker[w] EXCEPT !.waiting = FALSE, !.pc = Excepted(@)]
  <1>1. thread[t].pc = "read" /\ w \in Workers
    BY ThreadType DEF FailThread
  <1>2. /\ thread' = [u \in Threads |-> thread'[u]] /\ thread'[t] = NoRequest
        /\ \A u \in Threads \ {t} : thread'[u] = thread[u]
    BY DEF FailThread, SessionsInv, Types
  <1>3. /\ \A u \in Threads : Left(u)
        /\ \A u \in Threads : Awaited(u)' => u # t /\ Awaited(u) /\ thread[u].from \in Workers
    BY <1>2, ThreadType DEF Left, Awaited, NoRequest
  <1>4. /\ UNCHANGED <<row, key, opened, revoked>>
        /\ server' \in [version : Nat, checksum : Nat] /\ events' \in Nat
    BY DEF FailThread, Event, SessionsInv, Types
  <1>5. CASE ~thread[t].awaited
    <2>1. worker' = worker
      BY <1>5 DEF FailThread
    <2>2. /\ worker' \in [Workers -> AnyWorker]
          /\ \A v \in Workers :
                /\ worker'[v].secret # 0 => OpenedWith(worker'[v].secret, worker'[v].password)
                /\ worker'[v].pc \in {"asking", "building", "playing"} => row[v] \in AnyRow
                /\ worker'[v].pc = "shutdown" => worker'[v].password \in revoked
      BY <2>1 DEF SessionsInv, Types, SecretsAreOwn, HaveRows, InSession, ShutdownOnlyWhenRevoked
    <2> QED
      BY <1>2, <1>3, <1>4, <2>1, <2>2, GivenUp
  <1>6. CASE thread[t].awaited
    <2>1. /\ q \in AnyWorker
          /\ q.secret # 0 => OpenedWith(q.secret, q.password)
          /\ q.pc \in {"asking", "building", "playing"} => row[w] \in AnyRow
          /\ q.pc = "shutdown" => q.password \in revoked
      BY <1>1, Interrupted
    <2>2. worker' = [worker EXCEPT ![w] = q]
      BY <1>1, <1>6 DEF FailThread, SessionsInv, Types
    <2> HIDE DEF q
    <2>3. /\ worker' \in [Workers -> AnyWorker]
          /\ worker'[w] = q /\ \A v \in Workers \ {w} : worker'[v] = worker[v]
          /\ \A v \in Workers :
                /\ worker'[v].secret # 0 => OpenedWith(worker'[v].secret, worker'[v].password)
                /\ worker'[v].pc \in {"asking", "building", "playing"} => row[v] \in AnyRow
                /\ worker'[v].pc = "shutdown" => worker'[v].password \in revoked
      BY <1>1, <2>1, <2>2, Becomes
    <2>4. \A u \in Threads : Awaited(u)' => thread[u].from \in Workers \ {w}
      BY <1>1, <1>3, <1>6 DEF SessionsInv, OneAwaited, Awaited
    <2>5. \A u \in Threads : Awaited(u)' => worker'[thread[u].from] = worker[thread[u].from]
      BY <2>3, <2>4
    <2> QED
      BY <1>2, <1>3, <1>4, <2>3, <2>5, GivenUp
  <1> QED
    BY <1>5, <1>6

LEMMA DeployKeeps ==
    ASSUME SessionsInv, Deploy
    PROVE  SessionsInv'
  <1> USE SessionsAssumption
  <1> DEFINE q(w) == [worker[w] EXCEPT !.waiting = FALSE, !.pc = Excepted(@)]
  <1>1. events' \in Nat /\ server' \in [version : Nat, checksum : Nat]
    <2>1. events \in Nat /\ events' \in Nat /\ server.checksum \in Nat
      <3>1. events \in Nat /\ server \in [version : Nat, checksum : Nat]
        BY DEF SessionsInv, Types
      <3>2. events' = events + 1
        BY DEF Deploy, Event
      <3> QED
        BY <3>1, <3>2
    <2>2. PICK v \in 0..MaxVersion, c \in {server.checksum, events'} :
              server' = [version |-> v, checksum |-> c]
      BY DEF Deploy
    <2>3. v \in Nat /\ c \in Nat
      BY <2>1, <2>2 DEF SessionsAssumption
    <2> QED
      BY <2>1, <2>2, <2>3
  <1>2. \A t \in Threads : Left(t) /\ ~Awaited(t)'
    BY DEF Deploy, Left, Awaited, NoRequest
  <1>3. thread' = [t \in Threads |-> thread'[t]] /\ UNCHANGED <<row, key, opened, revoked>>
    BY DEF Deploy
  <1>4. \A w \in Workers :
            /\ q(w) \in AnyWorker
            /\ q(w).secret # 0 => OpenedWith(q(w).secret, q(w).password)
            /\ q(w).pc \in {"asking", "building", "playing"} => row[w] \in AnyRow
            /\ q(w).pc = "shutdown" => q(w).password \in revoked
    BY Interrupted
  <1>5. worker' = [w \in Workers |-> IF worker[w].waiting THEN q(w) ELSE worker[w]]
    BY DEF Deploy
  <1> HIDE DEF q
  <1>6. /\ worker' \in [Workers -> AnyWorker]
        /\ \A w \in Workers : worker'[w] = q(w) \/ worker'[w] = worker[w]
    BY <1>4, <1>5 DEF SessionsInv, Types
  <1>7. \A w \in Workers :
            /\ worker'[w].secret # 0 => OpenedWith(worker'[w].secret, worker'[w].password)
            /\ worker'[w].pc \in {"asking", "building", "playing"} => row[w] \in AnyRow
            /\ worker'[w].pc = "shutdown" => worker'[w].password \in revoked
    <2> TAKE w \in Workers
    <2>1. CASE worker'[w] = q(w)
      BY <1>4, <2>1
    <2>2. CASE worker'[w] = worker[w]
      BY <2>2 DEF SessionsInv, SecretsAreOwn, HaveRows, InSession, ShutdownOnlyWhenRevoked
    <2> QED
      BY <1>6, <2>1, <2>2
  <1> QED
    BY <1>1, <1>2, <1>3, <1>6, <1>7, GivenUp

-----------------------------------------------------------------------------
\* The worker takes its reply, and with it a session, or the end.
LEMMA ReplyKeeps ==
    ASSUME SessionsInv, NEW t \in Threads, Reply(t)
    PROVE  SessionsInv'
  <1> DEFINE w == thread[t].from
             reply == thread[t].reply
             pc == Next_pc(worker[w].pc, reply)
             secret == IF reply = "session" THEN thread[t].secret ELSE worker[w].secret
             q == [pc |-> pc, version |-> worker[w].version, password |-> worker[w].password,
                   secret |-> secret, waiting |-> FALSE]
  <1>1. /\ thread[t].pc = "done" /\ Awaited(t) /\ w \in Workers /\ thread[t] \in AnyAnswered
        /\ worker[w] \in AnyWorker
    BY ThreadType DEF Reply, Awaited, AnyRequest, AnyRegistration, SessionsInv, Types
  <1>2. /\ thread[t].secret \in Nat
        /\ reply \in {"session", "workload", "go", "stop", "error", "version", "shutdown"}
    BY <1>1 DEF AnyAnswered
  <1>3. row[w] \in AnyRow
    BY <1>1 DEF SessionsInv, HaveRows
  <1>4. /\ pc \in {"starting", "registering", "asking", "building", "playing", "updating", "shutdown"}
        /\ pc = "shutdown" => reply = "shutdown" \/ worker[w].pc = "shutdown"
    BY <1>1, <1>2 DEF Next_pc, AnyWorker
  <1>5. pc = "shutdown" => worker[w].password \in revoked
    BY <1>1, <1>4 DEF SessionsInv, AwaitedAreOwn, Own, ShutdownOnlyWhenRevoked
  <1>6. secret \in Nat /\ (secret # 0 => OpenedWith(secret, worker[w].password))
    BY <1>1, <1>2 DEF SessionsInv, AwaitedAreOwn, Own, SecretsAreOwn, AnyWorker
  <1>7. worker' = [worker EXCEPT ![w] = q]
    <2>1. worker' = [worker EXCEPT ![w] = [worker[w] EXCEPT !.waiting = FALSE, !.pc = pc,
                                                            !.secret = secret]]
      BY <1>1 DEF Reply, SessionsInv, Types
    <2> DEFINE a == [worker[w] EXCEPT !.waiting = FALSE]
               b == [a EXCEPT !.pc = pc]
               c == [b EXCEPT !.secret = secret]
    <2> HIDE DEF pc, secret
    <2>2. /\ a \in AnyWorker /\ a.version = worker[w].version /\ a.password = worker[w].password
          /\ a.waiting = FALSE
      BY <1>1 DEF AnyWorker
    <2>3. /\ b \in AnyWorker /\ b.version = worker[w].version /\ b.password = worker[w].password
          /\ b.waiting = FALSE /\ b.pc = pc
      <3> HIDE DEF a
      <3> QED BY <1>4, <2>2 DEF AnyWorker
    <2>4. /\ c \in AnyWorker /\ c.version = worker[w].version /\ c.password = worker[w].password
          /\ c.waiting = FALSE /\ c.pc = pc /\ c.secret = secret
      <3> HIDE DEF b
      <3> QED BY <1>6, <2>3 DEF AnyWorker
    <2>5. c = [worker[w] EXCEPT !.waiting = FALSE, !.pc = pc, !.secret = secret]
      BY <1>1 DEF AnyWorker
    <2>6. c = q
      <3> HIDE DEF c
      <3> QED BY <2>4 DEF AnyWorker
    <2> QED
      BY <2>1, <2>5, <2>6
  <1> HIDE DEF pc, secret
  <1>8. /\ q \in AnyWorker /\ q.pc = pc /\ q.secret = secret /\ q.password = worker[w].password
    BY <1>1, <1>4, <1>6 DEF AnyWorker
  <1> HIDE DEF q
  <1>9. /\ worker' \in [Workers -> AnyWorker]
        /\ worker'[w] = q /\ \A v \in Workers \ {w} : worker'[v] = worker[v]
        /\ \A v \in Workers :
              /\ worker'[v].secret # 0 => OpenedWith(worker'[v].secret, worker'[v].password)
              /\ worker'[v].pc \in {"asking", "building", "playing"} => row[v] \in AnyRow
              /\ worker'[v].pc = "shutdown" => worker'[v].password \in revoked
    BY <1>1, <1>3, <1>5, <1>6, <1>7, <1>8, Becomes
  <1>10. /\ thread' = [u \in Threads |-> thread'[u]] /\ thread'[t] = NoRequest
         /\ \A u \in Threads \ {t} : thread'[u] = thread[u]
    BY DEF Reply, SessionsInv, Types
  <1>11. /\ \A u \in Threads : Left(u)
         /\ \A u \in Threads : Awaited(u)' => u # t /\ Awaited(u) /\ thread[u].from \in Workers
    BY <1>10, ThreadType DEF Left, Awaited, NoRequest
  <1>12. \A u \in Threads : Awaited(u)' => thread[u].from \in Workers \ {w}
    BY <1>1, <1>11 DEF SessionsInv, OneAwaited
  <1>13. \A u \in Threads : Awaited(u)' => worker'[thread[u].from] = worker[thread[u].from]
    BY <1>9, <1>12
  <1>14. /\ UNCHANGED <<row, key, opened, revoked>>
         /\ server' \in [version : Nat, checksum : Nat] /\ events' \in Nat
    BY DEF Reply, SessionsInv, Types
  <1> QED
    BY <1>9, <1>10, <1>11, <1>13, <1>14, GivenUp

-----------------------------------------------------------------------------
\* A button reads the row of its machine, and no worker waits for it.
LEMMA PressButtonKeeps ==
    ASSUME SessionsInv, NEW w \in Workers, NEW t \in Threads, PressButton(w, t)
    PROVE  SessionsInv'
  <1>1. PICK e \in {"stop_machine", "resume_machine"} :
            thread' = [thread EXCEPT ![t] = Received(e, w, FALSE)]
    BY DEF PressButton
  <1> DEFINE r == Received(e, w, FALSE)
  <1>2. row[w] \in AnyRow /\ OfSession(w, row[w])
    BY DEF PressButton, SessionsInv, Types, RowsAreSessions
  <1>3. /\ r \in AnyRequest /\ r.pc = "read" /\ ~r.awaited /\ r.from = w /\ r.machine = row[w]
    BY <1>2 DEF Received, AnyRequest, Endpoint
  <1> HIDE DEF r
  <1>4. thread'[t] = r /\ \A u \in Threads \ {t} : thread'[u] = thread[u]
    BY <1>1 DEF SessionsInv, Types, r
  <1>5. UNCHANGED <<row, key, server, worker, opened, revoked>> /\ events' \in Nat
    BY DEF PressButton, Event, SessionsInv, Types
  <1>6. Types'
    <2>1. thread' \in [Threads -> AnyRequest \union AnyRegistration \union AnyAnswered \union {NoRequest}]
      BY <1>1, <1>3 DEF SessionsInv, Types, r
    <2> QED
      BY <1>5, <2>1 DEF SessionsInv, Types
  <1>7. RowsAreSessions' /\ KeysAreOwn' /\ RevokedIsKept' /\ SecretsAreOwn' /\ ShutdownOnlyWhenRevoked'
    BY <1>5 DEF SessionsInv, RowsAreSessions, OfSession, KeysAreOwn, RevokedIsKept, SecretsAreOwn,
                OpenedWith, ShutdownOnlyWhenRevoked
  <1>8. CopiesAreSessions'
    <2>1. \A v, n : OfSession(v, n) => OfSession(v, n)'
      BY <1>5 DEF OfSession
    <2> QED
      BY <1>2, <1>3, <1>4, <2>1 DEF SessionsInv, CopiesAreSessions
  <1>9. HaveRows'
    BY <1>2, <1>3, <1>4, <1>5 DEF SessionsInv, HaveRows, InSession
  <1>10. OneAwaited'
    BY <1>3, <1>4, <1>5 DEF SessionsInv, OneAwaited, Awaited
  <1>11. AwaitedAreOwn'
    BY <1>3, <1>4, <1>5 DEF SessionsInv, AwaitedAreOwn, Awaited, Own, OpenedWith
  <1> QED
    BY <1>6, <1>7, <1>8, <1>9, <1>10, <1>11 DEF SessionsInv

\* A key is disabled, enabled or deleted; an account too; or nothing happens.
LEMMA KeysKeep ==
    ASSUME SessionsInv, (\E k \in Keys : SetKey(k)) \/ SetAccount \/ UNCHANGED vars
    PROVE  SessionsInv'
  <1>1. /\ UNCHANGED <<row, server, worker, thread, opened>> /\ events' \in Nat
        /\ revoked \subseteq revoked'
        /\ key' \in [Keys -> {"enabled", "disabled", "deleted"}]
    BY DEF SetKey, SetAccount, Event, vars, SessionsInv, Types
  <1>2. RevokedIsKept'
    BY DEF SetKey, SetAccount, vars, SessionsInv, Types, RevokedIsKept
  <1>3. Types'
    BY <1>1 DEF SessionsInv, Types
  <1>4. RowsAreSessions' /\ KeysAreOwn' /\ SecretsAreOwn' /\ ShutdownOnlyWhenRevoked' /\ HaveRows'
        /\ OneAwaited'
    BY <1>1 DEF SessionsInv, RowsAreSessions, OfSession, KeysAreOwn, SecretsAreOwn, OpenedWith,
                ShutdownOnlyWhenRevoked, HaveRows, InSession, OneAwaited, Awaited
  <1>5. CopiesAreSessions'
    BY <1>1 DEF SessionsInv, CopiesAreSessions, OfSession
  <1>6. AwaitedAreOwn'
    BY <1>1 DEF SessionsInv, AwaitedAreOwn, Awaited, Own, OpenedWith
  <1> QED
    BY <1>2, <1>3, <1>4, <1>5, <1>6 DEF SessionsInv

LEMMA StepKeeps ==
    ASSUME SessionsInv, [Next]_vars
    PROVE  SessionsInv'
  <1>1. CASE UNCHANGED vars
    BY <1>1, KeysKeep
  <1>2. ASSUME NEW w \in Workers, WorkerStep(w)
        PROVE  SessionsInv'
    BY <1>2, WorkerAloneSteps, UpdateKeeps, RegisterKeeps, SendKeeps DEF WorkerStep
  <1>3. ASSUME NEW w \in Workers,
               \/ SkipVersion(w) \/ EndWorkload(w) \/ GiveUp(w) \/ Crash(w)
               \/ \E t \in Threads : PressButton(w, t)
               \/ \E c \in Credential : Reconnect(w, c)
        PROVE  SessionsInv'
    BY <1>3, WorkerAloneSteps, WorkerFailureKeeps, PressButtonKeeps
  <1>4. ASSUME NEW t \in Threads, ThreadStep(t) \/ FailThread(t)
        PROVE  SessionsInv'
    BY <1>4, OpenSessionKeeps, HandlersKeep, ReplyKeeps, FailThreadKeeps DEF ThreadStep
  <1> QED
    BY <1>1, <1>2, <1>3, <1>4, KeysKeep, DeployKeeps DEF Next

-----------------------------------------------------------------------------
\* What is saved whole is a whole session: the secret, the key, the version and
\* the configuration of a Machine row (clientWorkerInfo, and every handler that
\* saves the copy it was given) are always those of one registration of that
\* machine, for any number of workers, threads and events.
THEOREM SessionsAreConsistent == Spec => []SessionIsConsistent
  <1>1. SessionsInv => SessionIsConsistent
    BY DEF SessionsInv, RowsAreSessions, OfSession, SessionIsConsistent
  <1>2. SessionsInv /\ [Next]_vars => SessionsInv'
    BY StepKeeps
  <1> QED
    BY InitEstablishes, <1>1, <1>2, PTL DEF Spec

\* A worker that shuts down for good (exit 66, after which setup_worker.sh does
\* not start it again) holds a key that was disabled or deleted: no order of
\* stale saves, takeovers and lost replies brings another worker's shutdown to it.
THEOREM OnlyTheRevokedShutDown == Spec => []ShutdownOnlyWhenRevoked
  <1>1. SessionsInv => ShutdownOnlyWhenRevoked
    BY DEF SessionsInv
  <1>2. SessionsInv /\ [Next]_vars => SessionsInv'
    BY StepKeeps
  <1> QED
    BY InitEstablishes, <1>1, <1>2, PTL DEF Spec

-----------------------------------------------------------------------------
(***************************************************************************)
(* The types with their bounds.  A thread that has read the row for a      *)
(* registration has its secret as good as drawn: there is room for it.     *)
(***************************************************************************)
ServerBounds ==
    /\ server.version \in 0..MaxVersion /\ server.checksum \in 0..MaxEvents
    /\ events \in 0..MaxEvents
    /\ account \in BOOLEAN /\ revoked \subseteq Keys

ClientBounds == \A w \in Workers : worker[w].version \in 0..MaxVersion

SessionBounds ==
    \A i \in 1..Len(opened) : /\ opened[i].info.client_ver \in 0..MaxVersion
                              /\ opened[i].info.checksum \in 0..MaxEvents

ThreadBounds(t) ==
    /\ Handles(t, {"clientWorkerInfo"}) => thread[t].version \in 0..MaxVersion
    /\ thread[t].pc = "done" => thread[t].secret \in 0..Len(opened)

RoomForAll == Len(opened) + Cardinality(Registering) <= MaxSessions

Bounds ==
    /\ ServerBounds /\ ClientBounds /\ SessionBounds
    /\ \A t \in Threads : ThreadBounds(t)
    /\ RoomForAll

LEMMA BoundsStart == Init => Bounds
  <1> SUFFICES ASSUME Init PROVE Bounds
    OBVIOUS
  <1>1. \A t \in Threads : thread[t].pc = "idle"
    BY DEF Init, NoRequest
  <1>2. Registering = {}
    BY <1>1 DEF Registering, Handles
  <1>3. Cardinality(Registering) = 0
    BY <1>2, FS_EmptySet
  <1>4. ClientBounds
    BY SessionsAssumption DEF Init, ClientBounds
  <1> QED
    BY <1>1, <1>3, <1>4, SessionsAssumption
       DEF Init, Bounds, ServerBounds, SessionBounds, ThreadBounds, Handles, RoomForAll

\* What the steps other than a registration's leave a thread with.
Quiet(t) ==
    \/ Left(t)
    \/ thread'[t].pc = "read" /\ thread'[t].endpoint # "clientWorkerInfo"
    \/ thread'[t].pc = "done" /\ thread'[t].secret = 0

LEMMA AnswerQuiet ==
    ASSUME NEW t, NEW request, NEW reply, thread'[t] = Answer(request, reply, NoSecret)
    PROVE  Quiet(t)
  BY DEF Answer, Quiet, Left, NoSecret

LEMMA SendQuiet ==
    ASSUME SessionsInv, NEW w \in Workers, NEW t \in Threads,
           RequestWorkload(w, t) \/ ReportNPS(w, t) \/ Report(w, t)
    PROVE  \A u \in Threads : Quiet(u)
  <1>1. PICK e \in {"clientGetWorkload", "clientSubmitNPS", "clientHeartbeat", "clientSubmitResults"} :
            Send(w, t, e)
    BY DEF RequestWorkload, ReportNPS, Report
  <1> DEFINE r == IF Verdict(w) = "none" THEN Received(e, w, TRUE)
                  ELSE Answer(Received(e, w, TRUE), Verdict(w), NoSecret)
  <1>2. thread' = [thread EXCEPT ![t] = r] /\ DOMAIN thread = Threads
    BY <1>1 DEF Send, SessionsInv, Types
  <1>3. thread'[t] = r /\ \A u \in Threads \ {t} : thread'[u] = thread[u]
    <2> HIDE DEF r
    <2> QED BY <1>2
  <1>4. Quiet(t)
    BY <1>3, AnswerQuiet DEF Quiet, Received
  <1> QED BY <1>3, <1>4 DEF Quiet, Left

LEMMA FinishQuiet ==
    ASSUME SessionsInv, NEW t \in Threads, NEW machine, NEW reply, Finish(t, machine, reply)
    PROVE  \A u \in Threads : Quiet(u)
  <1>1. /\ thread'[t] = Answer(thread[t], reply, NoSecret)
        /\ \A u \in Threads \ {t} : thread'[u] = thread[u]
    BY DEF Finish, SessionsInv, Types
  <1> QED BY <1>1, AnswerQuiet DEF Quiet, Left

\* Every step registers somebody, opens a session, or is quiet and opens none.
LEMMA MostAreQuiet ==
    ASSUME SessionsInv, [Next]_vars
    PROVE  \/ \E w \in Workers, t \in Threads : Register(w, t)
           \/ \E t \in Threads : OpenSession(t)
           \/ opened' = opened /\ \A t \in Threads : Quiet(t)
  <1> DEFINE Silent == opened' = opened /\ \A t \in Threads : Quiet(t)
  <1>1. CASE thread' = thread /\ opened' = opened
    BY <1>1 DEF Quiet, Left
  <1>2. ASSUME NEW w \in Workers, WorkerStep(w), \A t \in Threads : ~Register(w, t)
        PROVE  Silent
    <2>1. CASE CheckVersion(w) \/ Update(w) \/ RefuseRevoked(w)
      <3>1. thread' = thread /\ opened' = opened
        BY <2>1 DEF CheckVersion, Update, RefuseRevoked
      <3> QED BY <3>1 DEF Quiet, Left
    <2>2. ASSUME NEW t \in Threads, RequestWorkload(w, t) \/ ReportNPS(w, t) \/ Report(w, t)
          PROVE  Silent
      BY <2>2, SendQuiet DEF RequestWorkload, ReportNPS, Report, Send
    <2> QED BY <1>2, <2>1, <2>2 DEF WorkerStep
  <1>3. ASSUME NEW w \in Workers, SkipVersion(w) \/ EndWorkload(w)
        PROVE  Silent
    <2>1. thread' = thread /\ opened' = opened
      BY <1>3 DEF SkipVersion, EndWorkload
    <2> QED BY <2>1 DEF Quiet, Left
  <1>4. ASSUME NEW w \in Workers, GiveUp(w) \/ Crash(w) \/ \E c \in Credential : Reconnect(w, c)
        PROVE  Silent
    <2>1. thread' = Abandoned(w) /\ opened' = opened
      BY <1>4 DEF GiveUp, Crash, Reconnect
    <2> QED BY <2>1, AbandonedIsLeft DEF Quiet
  <1>5. ASSUME NEW w \in Workers, NEW t \in Threads, PressButton(w, t)
        PROVE  Silent
    <2>1. PICK e \in {"stop_machine", "resume_machine"} :
              thread' = [thread EXCEPT ![t] = Received(e, w, FALSE)]
      BY <1>5 DEF PressButton
    <2>2. opened' = opened /\ DOMAIN thread = Threads
      BY <1>5 DEF PressButton, SessionsInv, Types
    <2> QED BY <2>1, <2>2 DEF Quiet, Left, Received
  <1>6. ASSUME NEW t \in Threads, ThreadStep(t), ~OpenSession(t)
        PROVE  Silent
    <2>1. CASE Reply(t)
      BY <2>1 DEF Reply, Quiet, Left, SessionsInv, Types
    <2>2. ASSUME NEW machine, NEW reply, Finish(t, machine, reply)
          PROVE  Silent
      BY <2>2, FinishQuiet DEF Finish
    <2> QED
      BY <1>6, <2>1, <2>2
         DEF ThreadStep, GetWorkload, SubmitNPS, Heartbeat, SubmitResults, SetStop
  <1>7. ASSUME NEW t \in Threads, FailThread(t)
        PROVE  Silent
    BY <1>7 DEF FailThread, Quiet, Left, SessionsInv, Types
  <1>8. CASE (\E k \in Keys : SetKey(k)) \/ SetAccount \/ UNCHANGED vars
    BY <1>1, <1>8 DEF SetKey, SetAccount, vars
  <1>9. CASE Deploy
    BY <1>9 DEF Deploy, Quiet, Left
  <1> QED
    BY <1>2, <1>3, <1>4, <1>5, <1>6, <1>7, <1>8, <1>9 DEF Next

LEMMA ServerStep ==
    ASSUME SessionsInv, Bounds, [Next]_vars
    PROVE  ServerBounds'
  <1> USE SessionsAssumption DEF Bounds, ServerBounds
  <1>1. CASE UNCHANGED <<server, account, revoked>> /\ (UNCHANGED events \/ Event)
    BY <1>1 DEF Event
  <1>2. ASSUME NEW k \in Keys, SetKey(k) PROVE ServerBounds'
    BY <1>2 DEF SetKey, Event
  <1>3. CASE SetAccount
    BY <1>3 DEF SetAccount, Event
  <1>4. CASE Deploy
    <2>0. Event /\ UNCHANGED <<account, revoked>>
      BY <1>4 DEF Deploy
    <2>1. events' \in 0..MaxEvents /\ UNCHANGED <<account, revoked>>
      BY <2>0 DEF Event
    <2>2. PICK v \in 0..MaxVersion, c \in {server.checksum, events'} :
              server' = [version |-> v, checksum |-> c]
      BY <1>4 DEF Deploy
    <2> QED BY <2>1, <2>2
  <1> DEFINE Elsewhere == UNCHANGED <<server, account, revoked>> /\ (UNCHANGED events \/ Event)
  <1>5. ASSUME NEW w \in Workers, WorkerStep(w) PROVE Elsewhere
    BY <1>5 DEF WorkerStep, CheckVersion, Update, RefuseRevoked, Register, RequestWorkload, ReportNPS,
                Report, Send
  <1>6. ASSUME NEW w \in Workers, SkipVersion(w) \/ EndWorkload(w) \/ GiveUp(w) \/ Crash(w)
        PROVE  Elsewhere
    BY <1>6 DEF SkipVersion, EndWorkload, GiveUp, Crash
  <1>7. ASSUME NEW w \in Workers, NEW t \in Threads, PressButton(w, t) PROVE Elsewhere
    BY <1>7 DEF PressButton
  <1>8. ASSUME NEW w \in Workers, NEW c \in Credential, Reconnect(w, c) PROVE Elsewhere
    BY <1>8 DEF Reconnect
  <1>9. ASSUME NEW t \in Threads, ThreadStep(t) \/ FailThread(t) PROVE Elsewhere
    BY <1>9 DEF ThreadStep, OpenSession, GetWorkload, SubmitNPS, Heartbeat, SubmitResults, SetStop,
                Finish, Reply, FailThread
  <1>10. CASE UNCHANGED vars
    BY <1>10, <1>1 DEF vars
  <1> QED
    BY <1>1, <1>2, <1>3, <1>4, <1>5, <1>6, <1>7, <1>8, <1>9, <1>10 DEF Next

\* Only an update changes the client that a worker runs.
LEMMA ClientStep ==
    ASSUME SessionsInv, Bounds, [Next]_vars
    PROVE  ClientBounds'
  <1>1. worker \in [Workers -> AnyWorker] /\ ClientBounds
    BY DEF SessionsInv, Types, Bounds
  <1>2. ASSUME NEW w \in Workers, NEW q,
               worker' = [worker EXCEPT ![w] = q], q.version = worker[w].version
        PROVE  ClientBounds'
    BY <1>1, <1>2 DEF ClientBounds
  <1>3. ASSUME NEW w \in Workers, NEW pc, Proceed(w, pc)
        PROVE  ClientBounds'
    <2> DEFINE q == [worker[w] EXCEPT !.pc = pc]
    <2>1. worker' = [worker EXCEPT ![w] = q] /\ q.version = worker[w].version
      BY <1>1, <1>3 DEF Proceed, AnyWorker
    <2> HIDE DEF q
    <2> QED BY <1>2, <2>1
  <1>4. ASSUME NEW w \in Workers, worker' = [worker EXCEPT ![w].waiting = TRUE]
        PROVE  ClientBounds'
    <2> DEFINE q == [worker[w] EXCEPT !.waiting = TRUE]
    <2>1. worker' = [worker EXCEPT ![w] = q] /\ q.version = worker[w].version
      BY <1>1, <1>4 DEF AnyWorker
    <2> HIDE DEF q
    <2> QED BY <1>2, <2>1
  <1>5. ASSUME NEW w \in Workers, Update(w) PROVE ClientBounds'
    <2>1. PICK v \in 0..MaxVersion : worker' = [worker EXCEPT ![w].pc = "starting", ![w].version = v]
      BY <1>5 DEF Update
    <2> DEFINE p == [worker[w] EXCEPT !.pc = "starting"]
               q == [p EXCEPT !.version = v]
    <2>2. "version" \in DOMAIN p
      BY <1>1 DEF AnyWorker
    <2>3. q.version = v
      <3> HIDE DEF p
      <3> QED BY <2>2
    <2>4. worker' = [worker EXCEPT ![w] = q]
      BY <1>1, <2>1
    <2> HIDE DEF q
    <2> QED BY <1>1, <2>3, <2>4 DEF ClientBounds
  <1>6. ASSUME NEW w \in Workers, GiveUp(w) \/ \E t \in Threads : FailThread(t) /\ thread[t].from = w
                                                                   /\ thread[t].awaited
        PROVE  ClientBounds'
    <2> DEFINE q == [worker[w] EXCEPT !.waiting = FALSE, !.pc = Excepted(@)]
    <2>1. worker' = [worker EXCEPT ![w] = q]
      BY <1>1, <1>6 DEF GiveUp, FailThread
    <2>2. q.version = worker[w].version
      <3> DEFINE r == [worker[w] EXCEPT !.waiting = FALSE]
                 p == [r EXCEPT !.pc = Excepted(worker[w].pc)]
      <3>1. r \in AnyWorker /\ r.version = worker[w].version
        BY <1>1 DEF AnyWorker
      <3>2. q = p
        BY <1>1 DEF AnyWorker
      <3>3. p.version = r.version
        <4> HIDE DEF r
        <4> QED BY <3>1 DEF AnyWorker
      <3> QED BY <3>1, <3>2, <3>3
    <2> HIDE DEF q
    <2> QED BY <1>2, <2>1, <2>2
  <1>7. ASSUME NEW w \in Workers, Crash(w) \/ \E c \in Credential : Reconnect(w, c)
        PROVE  ClientBounds'
    <2> DEFINE r == [worker[w] EXCEPT !.pc = "starting"]
               p == [r EXCEPT !.waiting = FALSE]
               q == [p EXCEPT !.secret = NoSecret]
    <2>1. r \in AnyWorker /\ r.version = worker[w].version
      BY <1>1 DEF AnyWorker
    <2>2. p \in AnyWorker /\ p.version = r.version
      <3> HIDE DEF r
      <3> QED BY <2>1 DEF AnyWorker
    <2>3. q \in AnyWorker /\ q.version = p.version
      <3> HIDE DEF p
      <3> QED BY <2>2 DEF AnyWorker, NoSecret
    <2>4. CASE Crash(w)
      <3>1. worker' = [worker EXCEPT ![w] = q]
        BY <1>1, <2>4 DEF Crash
      <3> HIDE DEF r, p, q
      <3> QED BY <1>2, <2>1, <2>2, <2>3, <3>1
    <2>5. ASSUME NEW c \in Credential, Reconnect(w, c) PROVE ClientBounds'
      <3> DEFINE s == [q EXCEPT !.password = c]
      <3>1. s.version = q.version
        <4> HIDE DEF q
        <4> QED BY <2>3 DEF AnyWorker
      <3>2. worker' = [worker EXCEPT ![w] = s]
        BY <1>1, <2>5 DEF Reconnect
      <3> HIDE DEF r, p, q, s
      <3> QED BY <1>2, <2>1, <2>2, <2>3, <3>1, <3>2
    <2> QED BY <1>7, <2>4, <2>5
  <1>8. ASSUME NEW t \in Threads, Reply(t) PROVE ClientBounds'
    <2> DEFINE w == thread[t].from
               secret == IF thread[t].reply = "session" THEN thread[t].secret ELSE worker[w].secret
               r == [worker[w] EXCEPT !.waiting = FALSE]
               p == [r EXCEPT !.pc = Next_pc(worker[w].pc, thread[t].reply)]
               q == [p EXCEPT !.secret = secret]
    <2>1. w \in Workers
      BY <1>8, ThreadType DEF Reply
    <2>2. r \in AnyWorker /\ r.version = worker[w].version
      BY <1>1, <2>1 DEF AnyWorker
    <2>3. DOMAIN p = DOMAIN r /\ p.version = r.version
      <3> HIDE DEF r
      <3> QED BY <2>2 DEF AnyWorker
    <2>4. q.version = p.version
      <3> HIDE DEF p
      <3> QED BY <2>2, <2>3 DEF AnyWorker
    <2>5. worker' = [worker EXCEPT ![w] = q]
      BY <1>1, <1>8, <2>1 DEF Reply, AnyWorker
    <2> HIDE DEF r, p, q
    <2> QED BY <1>2, <2>1, <2>2, <2>3, <2>4, <2>5
  <1>9. CASE Deploy
    <2>1. ASSUME NEW w \in Workers PROVE worker'[w].version = worker[w].version
      <3> DEFINE r == [worker[w] EXCEPT !.waiting = FALSE]
                 p == [r EXCEPT !.pc = Excepted(worker[w].pc)]
      <3>1. r \in AnyWorker /\ r.version = worker[w].version
        BY <1>1 DEF AnyWorker
      <3>2. p.version = r.version
        <4> HIDE DEF r
        <4> QED BY <3>1 DEF AnyWorker
      <3>3. worker'[w] = worker[w] \/ worker'[w] = p
        BY <1>1, <1>9 DEF Deploy, AnyWorker
      <3> HIDE DEF r, p
      <3> QED BY <3>1, <3>2, <3>3
    <2> QED BY <1>1, <2>1 DEF ClientBounds
  <1>10. CASE worker' = worker
    BY <1>1, <1>10 DEF ClientBounds
  <1>11. ASSUME NEW w \in Workers, WorkerStep(w) PROVE ClientBounds'
    BY <1>3, <1>4, <1>5, <1>11
       DEF WorkerStep, CheckVersion, RefuseRevoked, Register, RequestWorkload, ReportNPS, Report, Send
  <1>12. ASSUME NEW t \in Threads, FailThread(t) PROVE ClientBounds'
    <2>1. thread[t].from \in Workers
      BY <1>12, ThreadType DEF FailThread
    <2> QED BY <1>6, <1>10, <1>12, <2>1 DEF FailThread
  <1>13. ASSUME NEW t \in Threads, ThreadStep(t) PROVE ClientBounds'
    BY <1>8, <1>10, <1>13
       DEF ThreadStep, OpenSession, GetWorkload, SubmitNPS, Heartbeat, SubmitResults, SetStop, Finish
  <1> QED
    BY <1>3, <1>6, <1>7, <1>9, <1>10, <1>11, <1>12, <1>13
       DEF Next, SkipVersion, EndWorkload, PressButton, SetKey, SetAccount, vars

\* A registration takes a thread that nobody uses.
LEMMA RegisterLeaves ==
    ASSUME SessionsInv, NEW w \in Workers, NEW t \in Threads, Register(w, t)
    PROVE  /\ opened' = opened /\ \A u \in Threads \ {t} : thread'[u] = thread[u]
           /\ thread'[t].pc = "read" /\ thread'[t].version = worker[w].version
  BY DEF Register, SessionsInv, Types

LEMMA OpenSessionLeaves ==
    ASSUME SessionsInv, NEW t \in Threads, OpenSession(t)
    PROVE  /\ \A u \in Threads \ {t} : thread'[u] = thread[u]
           /\ \/ thread'[t] = NoRequest
              \/ thread'[t].pc = "done" /\ thread'[t].secret = Len(opened) + 1
           /\ opened' = Append(opened, [owner |-> thread[t].from, password |-> thread[t].password,
                                        info |-> NewInfo(thread[t])])
           /\ Len(opened) \in Nat /\ Len(opened') = Len(opened) + 1
  <1> DEFINE s == [owner |-> thread[t].from, password |-> thread[t].password, info |-> NewInfo(thread[t])]
  <1>1. opened \in Seq(AnySession) /\ opened' = Append(opened, s)
    BY DEF OpenSession, SessionsInv, Types
  <1>2. Len(opened) \in Nat /\ Len(opened') = Len(opened) + 1
    <2> HIDE DEF s
    <2>1. Len(Append(opened, s)) = Len(opened) + 1
      BY <1>1
    <2> QED BY <1>1, <2>1
  <1> QED BY <1>1, <1>2 DEF OpenSession, Answer, SessionsInv, Types

\* A quiet thread starts no registration, and keeps what it read for one.
LEMMA QuietKeeps ==
    ASSUME SessionsInv, NEW t \in Threads, Quiet(t), Len(opened)' \in Nat, Len(opened) <= Len(opened)',
           ThreadBounds(t)
    PROVE  ThreadBounds(t)' /\ (Handles(t, {"clientWorkerInfo"})' => Handles(t, {"clientWorkerInfo"}))
  <1>1. Len(opened) \in Nat
    BY DEF SessionsInv, Types
  <1>2. CASE thread'[t] = thread[t]
    BY <1>1, <1>2 DEF ThreadBounds, Handles
  <1>3. CASE thread'[t] = NoRequest
    BY <1>3 DEF ThreadBounds, Handles, NoRequest
  <1>4. CASE thread[t].pc = "read" /\ thread'[t] = [thread[t] EXCEPT !.awaited = FALSE]
    <2>1. thread[t] \in AnyRequest \/ thread[t] \in AnyRegistration
      BY <1>4, ThreadType DEF AnyAnswered
    <2>2. thread[t] \in AnyRequest => ~Handles(t, {"clientWorkerInfo"})'
      BY <1>4 DEF AnyRequest, Endpoint, Handles
    <2>3. thread[t] \in AnyRegistration => thread'[t].version = thread[t].version /\ thread'[t].pc = "read"
                                          /\ thread'[t].endpoint = thread[t].endpoint
      BY <1>4 DEF AnyRegistration
    <2>4. thread'[t].pc = "read"
      BY <1>4, Unawaited
    <2> QED BY <1>4, <2>1, <2>2, <2>3, <2>4 DEF ThreadBounds, Handles
  <1>5. CASE thread'[t].pc = "read" /\ thread'[t].endpoint # "clientWorkerInfo"
    BY <1>5 DEF ThreadBounds, Handles
  <1>6. CASE thread'[t].pc = "done" /\ thread'[t].secret = 0
    BY <1>1, <1>6 DEF ThreadBounds, Handles
  <1> QED BY <1>2, <1>3, <1>4, <1>5, <1>6 DEF Quiet, Left

LEMMA ThreadStepBounds ==
    ASSUME SessionsInv, Bounds, [Next]_vars
    PROVE  \A t \in Threads : ThreadBounds(t)'
  <1>1. Len(opened) \in Nat /\ \A t \in Threads : ThreadBounds(t)
    BY DEF SessionsInv, Types, Bounds
  <1>2. ASSUME NEW w \in Workers, NEW t \in Threads, Register(w, t)
        PROVE  \A u \in Threads : ThreadBounds(u)'
    <2>1. ThreadBounds(t)'
      BY <1>2, RegisterLeaves DEF ThreadBounds, Bounds, ClientBounds
    <2>2. \A u \in Threads \ {t} : ThreadBounds(u)'
      BY <1>1, <1>2, RegisterLeaves DEF ThreadBounds, Handles
    <2> QED BY <2>1, <2>2
  <1>3. ASSUME NEW t \in Threads, OpenSession(t)
        PROVE  \A u \in Threads : ThreadBounds(u)'
    <2>1. /\ Len(opened') = Len(opened) + 1
          /\ \A u \in Threads \ {t} : thread'[u] = thread[u]
          /\ \/ thread'[t] = NoRequest
             \/ thread'[t].pc = "done" /\ thread'[t].secret = Len(opened) + 1
      BY <1>3, OpenSessionLeaves
    <2>2. ThreadBounds(t)'
      <3>1. CASE thread'[t] = NoRequest
        BY <3>1 DEF ThreadBounds, Handles, NoRequest
      <3>2. CASE thread'[t].pc = "done" /\ thread'[t].secret = Len(opened) + 1
        BY <1>1, <2>1, <3>2 DEF ThreadBounds, Handles
      <3> QED BY <2>1, <3>1, <3>2
    <2>3. ASSUME NEW u \in Threads \ {t} PROVE ThreadBounds(u)'
      <3>1. ThreadBounds(u) /\ thread'[u] = thread[u]
        BY <1>1, <2>1
      <3> QED BY <1>1, <2>1, <3>1 DEF ThreadBounds, Handles
    <2> QED BY <2>2, <2>3
  <1>4. CASE opened' = opened /\ \A t \in Threads : Quiet(t)
    BY <1>1, <1>4, QuietKeeps
  <1> QED BY <1>2, <1>3, <1>4, MostAreQuiet

LEMMA SessionStepBounds ==
    ASSUME SessionsInv, Bounds, [Next]_vars
    PROVE  SessionBounds'
  <1>1. opened \in Seq(AnySession) /\ SessionBounds
    BY DEF SessionsInv, Types, Bounds
  <1>2. CASE opened' = opened
    BY <1>1, <1>2 DEF SessionBounds
  <1>3. ASSUME NEW t \in Threads, OpenSession(t) PROVE SessionBounds'
    <2> DEFINE s == [owner |-> thread[t].from, password |-> thread[t].password, info |-> NewInfo(thread[t])]
    <2>1. opened' = Append(opened, s)
      BY <1>3, OpenSessionLeaves
    <2>2. s.info.client_ver \in 0..MaxVersion /\ s.info.checksum \in 0..MaxEvents
      BY <1>3 DEF OpenSession, Bounds, ThreadBounds, ServerBounds, NewInfo
    <2> HIDE DEF s
    <2>3. Len(opened') = Len(opened) + 1 /\ opened'[Len(opened) + 1] = s
          /\ \A i \in 1..Len(opened) : opened'[i] = opened[i]
      BY <1>1, <2>1
    <2>4. \A i \in 1..Len(opened') : i \in 1..Len(opened) \/ i = Len(opened) + 1
      BY <1>1, <2>3
    <2> QED BY <1>1, <2>2, <2>3, <2>4 DEF SessionBounds
  <1> QED BY <1>2, <1>3, MostAreQuiet, RegisterLeaves

\* Every session that is opened was counted when its registration was read.
LEMMA RoomStep ==
    ASSUME SessionsInv, Bounds, [Next]_vars
    PROVE  RoomForAll'
  <1>1. /\ Len(opened) \in Nat /\ MaxSessions \in Nat
        /\ IsFiniteSet(Registering) /\ Cardinality(Registering) \in Nat
        /\ Len(opened) + Cardinality(Registering) <= MaxSessions
    <2>1. Registering \in SUBSET Threads
      BY DEF Registering
    <2> QED
      BY <2>1, SessionsAssumption, FS_Subset, FS_CardinalityType DEF SessionsInv, Types, Bounds, RoomForAll
  <1> DEFINE R == Registering
             Q == Registering'
  <1>2. \A t \in Threads : t \in R <=> Handles(t, {"clientWorkerInfo"})
    BY DEF Registering
  <1>3. Q \subseteq Threads /\ \A t \in Threads : t \in Q <=> Handles(t, {"clientWorkerInfo"})'
    BY DEF Registering
  <1>4. ASSUME NEW w \in Workers, NEW t \in Threads, Register(w, t) PROVE RoomForAll'
    <2>1. Len(opened) + Cardinality(R) < MaxSessions /\ opened' = opened
      BY <1>4 DEF Register
    <2>2. Q \subseteq R \union {t}
      BY <1>2, <1>3, <1>4, RegisterLeaves DEF Handles
    <2>3. IsFiniteSet(R \union {t}) /\ Cardinality(R \union {t}) <= Cardinality(R) + 1
          /\ Cardinality(R \union {t}) \in Nat
      <3> HIDE DEF R
      <3>1. IsFiniteSet(R) /\ Cardinality(R) \in Nat
        BY <1>1 DEF R
      <3> QED BY <3>1, FS_AddElement, FS_CardinalityType
    <2>4. Cardinality(Q) <= Cardinality(R \union {t}) /\ Cardinality(Q) \in Nat
      <3> HIDE DEF R, Q
      <3> QED BY <2>2, <2>3, FS_Subset, FS_CardinalityType
    <2> QED BY <1>1, <2>1, <2>3, <2>4 DEF RoomForAll
  <1>5. ASSUME NEW t \in Threads, OpenSession(t) PROVE RoomForAll'
    <2>1. Len(opened') = Len(opened) + 1
      BY <1>5, OpenSessionLeaves
    <2>2. t \in R /\ Q \subseteq R \ {t}
      <3>1. Handles(t, {"clientWorkerInfo"})
        BY <1>5 DEF OpenSession
      <3>2. ~Handles(t, {"clientWorkerInfo"})'
        <4>1. thread'[t] = NoRequest \/ thread'[t].pc = "done"
          BY <1>5, OpenSessionLeaves
        <4> QED BY <4>1 DEF Handles, NoRequest
      <3>3. \A u \in Threads \ {t} : thread'[u] = thread[u]
        BY <1>5, OpenSessionLeaves
      <3>4. \A u \in Threads \ {t} : Handles(u, {"clientWorkerInfo"})' => Handles(u, {"clientWorkerInfo"})
        BY <3>3 DEF Handles
      <3> HIDE DEF R, Q
      <3> QED BY <1>2, <1>3, <3>1, <3>2, <3>4
    <2>3. IsFiniteSet(R \ {t}) /\ Cardinality(R \ {t}) = Cardinality(R) - 1
      <3> HIDE DEF R
      <3>1. IsFiniteSet(R)
        BY <1>1 DEF R
      <3> QED BY <2>2, <3>1, FS_RemoveElement
    <2>4. Cardinality(Q) <= Cardinality(R \ {t}) /\ Cardinality(Q) \in Nat
      <3> HIDE DEF R, Q
      <3> QED BY <2>2, <2>3, FS_Subset, FS_CardinalityType
    <2> QED BY <1>1, <2>1, <2>3, <2>4 DEF RoomForAll
  <1>6. CASE opened' = opened /\ \A t \in Threads : Quiet(t)
    <2>1. Q \subseteq R
      BY <1>1, <1>2, <1>3, <1>6, QuietKeeps DEF Bounds
    <2>2. Cardinality(Q) <= Cardinality(R) /\ Cardinality(Q) \in Nat
      <3>1. IsFiniteSet(R)
        BY <1>1
      <3> HIDE DEF R, Q
      <3> QED BY <2>1, <3>1, FS_Subset, FS_CardinalityType
    <2> QED BY <1>1, <1>6, <2>2 DEF RoomForAll
  <1> QED BY <1>4, <1>5, <1>6, MostAreQuiet

LEMMA BoundsStep ==
    ASSUME SessionsInv, Bounds, [Next]_vars
    PROVE  Bounds'
  BY ServerStep, ClientStep, ThreadStepBounds, SessionStepBounds, RoomStep DEF Bounds

LEMMA OpenedHaveRoom ==
    ASSUME SessionsInv, Bounds
    PROVE  Len(opened) <= MaxSessions /\ Len(opened) \in Nat
  <1>1. Len(opened) \in Nat /\ MaxSessions \in Nat
    BY SessionsAssumption DEF SessionsInv, Types
  <1>2. Cardinality(Registering) \in Nat
    <2>1. Registering \in SUBSET Threads
      BY DEF Registering
    <2> QED BY <2>1, SessionsAssumption, FS_Subset, FS_CardinalityType
  <1> QED BY <1>1, <1>2 DEF Bounds, RoomForAll

\* A row is of a session, so its bounds are the session's.
LEMMA RowsAreBounded ==
    ASSUME SessionsInv, Bounds, NEW w, NEW machine, OfSession(w, machine)
    PROVE  machine \in Row
  <1> DEFINE s == opened[machine.secret]
             info == machine.info
  <1>1. /\ machine \in AnyRow /\ machine.secret \in 1..Len(opened)
        /\ [info EXCEPT !.stop_requested = FALSE] = s.info
    BY DEF OfSession
  <1>2. s.info.client_ver \in 0..MaxVersion /\ s.info.checksum \in 0..MaxEvents
    BY <1>1 DEF Bounds, SessionBounds
  <1>3. info \in AnyInfo
    BY <1>1 DEF AnyRow
  <1>4. info.client_ver = s.info.client_ver /\ info.checksum = s.info.checksum
    <2> HIDE DEF info, s
    <2> QED BY <1>1, <1>3 DEF AnyInfo
  <1>5. info \in Info
    <2> HIDE DEF info, s
    <2> QED BY <1>2, <1>3, <1>4 DEF AnyInfo, Info
  <1>6. machine.secret \in 1..MaxSessions
    <2>1. Len(opened) <= MaxSessions /\ Len(opened) \in Nat
      BY OpenedHaveRoom
    <2> QED BY <1>1, <2>1, SessionsAssumption
  <1> QED BY <1>1, <1>5, <1>6 DEF AnyRow, Row

LEMMA BoundedTypes == SessionsInv /\ Bounds => TypeOK
  <1> SUFFICES ASSUME SessionsInv, Bounds PROVE TypeOK
    OBVIOUS
  <1> USE SessionsAssumption
  <1>1. Len(opened) <= MaxSessions /\ Len(opened) \in Nat
    BY OpenedHaveRoom
  <1>2. ASSUME NEW w \in Workers PROVE row[w] \in Row \union {NoRow}
    BY RowsAreBounded DEF SessionsInv, RowsAreSessions
  <1>3. ASSUME NEW w \in Workers PROVE worker[w] \in Worker
    <2>1. worker[w] \in AnyWorker /\ worker[w].version \in 0..MaxVersion
      BY DEF SessionsInv, Types, Bounds, ClientBounds
    <2>2. worker[w].secret \in 0..MaxSessions
      BY <1>1, <2>1 DEF SessionsInv, SecretsAreOwn, OpenedWith, AnyWorker
    <2> QED BY <2>1, <2>2 DEF AnyWorker, Worker
  <1>4. ASSUME NEW t \in Threads
        PROVE  thread[t] \in Request \union Registration \union Answered \union {NoRequest}
    <2>1. thread[t] = NoRequest \/ thread[t] \in AnyRequest \/ thread[t] \in AnyRegistration
          \/ thread[t] \in AnyAnswered
      BY DEF SessionsInv, Types
    <2>2. thread[t].pc = "read" => thread[t].machine = NoRow \/ thread[t].machine \in Row
      BY RowsAreBounded DEF SessionsInv, CopiesAreSessions
    <2>3. ThreadBounds(t)
      BY DEF Bounds
    <2>4. CASE thread[t] \in AnyRequest
      BY <2>2, <2>4 DEF AnyRequest, Request
    <2>5. CASE thread[t] \in AnyRegistration
      <3>1. thread[t].version \in 0..MaxVersion
        BY <2>3, <2>5 DEF AnyRegistration, ThreadBounds, Handles
      <3> QED BY <2>2, <2>5, <3>1 DEF AnyRegistration, Registration
    <2>6. CASE thread[t] \in AnyAnswered
      <3>1. thread[t].secret \in 0..MaxSessions
        BY <1>1, <2>3, <2>6 DEF AnyAnswered, ThreadBounds
      <3> QED BY <2>6, <3>1 DEF AnyAnswered, Answered
    <2> QED BY <2>1, <2>4, <2>5, <2>6
  <1>5. opened \in Seq([owner : Workers, password : Credential, info : Info])
    <2>1. opened \in Seq(AnySession)
      BY DEF SessionsInv, Types
    <2>2. ASSUME NEW i \in 1..Len(opened)
          PROVE  opened[i] \in [owner : Workers, password : Credential, info : Info]
      <3>1. opened[i] \in AnySession
        BY <2>1
      <3>2. opened[i].info.client_ver \in 0..MaxVersion /\ opened[i].info.checksum \in 0..MaxEvents
        BY DEF Bounds, SessionBounds
      <3>3. opened[i].info \in Info
        <4>1. opened[i].info \in AnyInfo
          BY <3>1 DEF AnySession
        <4> QED BY <3>2, <4>1 DEF AnyInfo, Info
      <3> QED BY <3>1, <3>3 DEF AnySession
    <2> DEFINE S == [owner : Workers, password : Credential, info : Info]
    <2>3. opened \in [1..Len(opened) -> S] /\ Len(opened) \in Nat
      BY <2>1, <2>2
    <2> HIDE DEF S
    <2>4. opened \in Seq(S)
      BY <2>3
    <2> QED BY <2>4 DEF S
  <1>6. server \in [version : 0..MaxVersion, checksum : 0..MaxEvents]
    BY DEF SessionsInv, Types, Bounds, ServerBounds
  <1>7. account \in BOOLEAN /\ revoked \subseteq Keys /\ events \in 0..MaxEvents
    BY DEF Bounds, ServerBounds
  <1>8. row \in [Workers -> Row \union {NoRow}] /\ worker \in [Workers -> Worker]
        /\ thread \in [Threads -> Request \union Registration \union Answered \union {NoRequest}]
        /\ key \in [Keys -> {"enabled", "disabled", "deleted"}]
    BY <1>2, <1>3, <1>4 DEF SessionsInv, Types
  <1> QED BY <1>1, <1>5, <1>6, <1>7, <1>8 DEF TypeOK

\* Every variable keeps its type, with its bound: the rows and the copies of
\* them have the versions, the configurations and the secrets of sessions that
\* were opened, and a registration that was read leaves room for its secret.
THEOREM SessionTypesHold == Spec => []TypeOK
  <1>1. Init => SessionsInv /\ Bounds
    BY InitEstablishes, BoundsStart
  <1>2. SessionsInv /\ Bounds /\ [Next]_vars => (SessionsInv /\ Bounds)'
    BY StepKeeps, BoundsStep
  <1> QED
    BY <1>1, <1>2, BoundedTypes, PTL DEF Spec
=============================================================================
