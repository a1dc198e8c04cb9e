-------------------------- MODULE PgnArchiveProofs --------------------------
(***************************************************************************)
(* That no game is archived twice and none that was committed is lost, and *)
(* that the archive implements PartStore, for any reporters, server        *)
(* threads and bounds, if one process runs the PGNWatcher at a time (which *)
(* is what the lockfile is for: see OneWatcherProcess in WorkersProofs).   *)
(***************************************************************************)
EXTENDS PgnArchive, FiniteSetTheorems, WellFoundedInduction, TLAPS

\* One watcher thread in one process.
LoneWatcher == \A u, v \in Watchers : u = v

\* Whatever exists of a part: a request, a file, a member of the archive.
Part == [key : Keys, content : Contents]

UploadedParts ==
    { [key |-> upload[t].key, content |-> upload[t].content] :
          t \in { t \in Threads : upload[t] # NoUpload } }
FileParts == { [key |-> k, content |-> raw[k]] : k \in { k \in Keys : raw[k] # NoFile } }
TarParts == { tar[i] : i \in DOMAIN tar }
Parts == UploadedParts \union FileParts \union TarParts

\* What there is of a part lies where its reporter was when the part had the
\* number it has, and parts of one reporter follow each other.
Placed(p) ==
    LET q == reporter[p.key[1]] IN
    /\ p.content.from < p.content.to
    /\ p.key[2] <= q.part
    /\ p.key[2] < q.part => p.content.to <= q.offset
    /\ p.key[2] = q.part => p.content.from = q.offset /\ p.content.to <= q.written

InOrder(p, q) ==
    p.key[1] = q.key[1] /\ p.key[2] < q.key[2] => p.content.to <= q.content.from

\* A request that is waited for carries the last part, and all there is of it.
Awaited(t) == upload[t] # NoUpload /\ upload[t].awaited

Last(t) ==
    LET u == upload[t]  r == u.key[1] IN
    /\ u.key[2] = reporter[r].part /\ reporter[r].pc \in {"sending", "closing"}
    /\ \A p \in Parts : p.key = u.key => p.content.to <= u.content.to

PartsInv ==
    /\ \A r \in Reporters :
          reporter[r].part <= reporter[r].offset /\ reporter[r].offset <= reporter[r].written
    /\ \A p \in Parts : Placed(p)
    /\ \A p, q \in Parts : InOrder(p, q)
    /\ \A t \in Threads : Awaited(t) => Last(t)
    /\ \A s, t \in Threads :
          Awaited(s) /\ Awaited(t) /\ upload[s].key[1] = upload[t].key[1] => s = t

\* A key is inserted once, by one transaction at a time, which has its file.
TableInv ==
    /\ \A i, j \in DOMAIN table : table[i].key = table[j].key => i = j
    /\ \A s, t \in Threads : Writing(s) /\ Writing(t) => s = t
    /\ \A t \in Threads : Writing(t) => Rows(upload[t].key) = {}
    /\ \A t \in Threads : upload[t].pc = "saved" => raw[upload[t].key] # NoFile

\* What a pass found out is still so.
PassInv(v) ==
    LET w == watcher[v] IN
    w # NoPass =>
        /\ w.todo \subseteq DOMAIN table
        /\ w.pc = "next" <=> w.id = 0
        /\ w.pc # "next" => w.id \in DOMAIN table
        /\ w.pc = "create" => tar = <<>>
        /\ w.pc = "opened" => w.end = Len(tar) /\ (w.present <=> Members(Key(v)) # {})
        /\ w.pc \in {"added", "deleted"} => Members(Key(v)) # {}

\* A key has one member, and every row its file or its member.
TarInv ==
    /\ \A i, j \in DOMAIN tar : tar[i].key = tar[j].key => i = j
    /\ \A v \in Watchers : PassInv(v)
    /\ ProcessedIsArchived /\ UnprocessedIsKept

ArchiveInv == TypeOK /\ PartsInv /\ TableInv /\ TarInv

-----------------------------------------------------------------------------
(***************************************************************************)
(* What requests, parts and passes look like.                              *)
(***************************************************************************)
LEMMA UploadShape ==
    ASSUME TypeOK, NEW t \in Threads, upload[t] # NoUpload
    PROVE  /\ upload[t] \in Upload
           /\ upload[t].key \in Keys /\ upload[t].content \in Contents
           /\ upload[t].awaited \in BOOLEAN
           /\ upload[t].pc \in {"received", "inserted", "saved", "done"}
BY DEF TypeOK, Upload

LEMMA BusyUpload ==
    ASSUME NEW t \in Threads, upload[t].pc \in {"received", "inserted", "saved", "done"}
    PROVE  upload[t] # NoUpload
BY DEF NoUpload

LEMMA KeyShape ==
    ASSUME NEW k \in Keys
    PROVE  k[1] \in Reporters /\ k[2] \in 0..MaxGames /\ k = <<k[1], k[2]>>
BY DEF Keys

LEMMA SeqElements ==
    ASSUME NEW S, NEW s \in Seq(S) PROVE DOMAIN s \subseteq Nat /\ \A i \in DOMAIN s : s[i] \in S
OBVIOUS

LEMMA Appended ==
    ASSUME NEW S, NEW s \in Seq(S), NEW x \in S
    PROVE  /\ Append(s, x) \in Seq(S)
           /\ Len(s) \in Nat /\ DOMAIN s = 1..Len(s)
           /\ DOMAIN Append(s, x) = DOMAIN s \union {Len(s) + 1}
           /\ Len(s) + 1 \notin DOMAIN s
           /\ \A i \in DOMAIN s : Append(s, x)[i] = s[i]
           /\ Append(s, x)[Len(s) + 1] = x
OBVIOUS

LEMMA PartsType == TypeOK => Parts \subseteq Part
<1> SUFFICES ASSUME TypeOK PROVE Parts \subseteq Part
    OBVIOUS
<1>1. UploadedParts \subseteq Part
  BY UploadShape DEF UploadedParts, Part
<1>2. FileParts \subseteq Part
  BY DEF FileParts, Part, TypeOK
<1>3. TarParts \subseteq Part
  <2>1. tar \in Seq(Part)
    BY DEF TypeOK, Part
  <2> QED BY <2>1 DEF TarParts
<1> QED BY <1>1, <1>2, <1>3 DEF Parts

LEMMA PartShape ==
    ASSUME TypeOK, NEW p \in Parts
    PROVE  /\ p.key \in Keys /\ p.key[1] \in Reporters /\ p.key[2] \in 0..MaxGames
           /\ p.content.from \in 0..MaxGames /\ p.content.to \in 0..MaxGames
<1>1. p \in Part
  BY PartsType
<1>2. p.key \in Keys /\ p.content \in Contents
  BY <1>1 DEF Part
<1> QED BY <1>2, KeyShape DEF Contents, Games

LEMMA ReporterShape ==
    ASSUME TypeOK, NEW r \in Reporters
    PROVE  /\ reporter[r] \in Reporter
           /\ reporter[r].part \in Nat /\ reporter[r].offset \in Nat /\ reporter[r].written \in Nat
           /\ reporter[r].written <= MaxGames /\ reporter[r].pc = reporter[r].pc
BY ArchiveAssumption DEF TypeOK, Reporter, Games, ArchiveAssumption

\* The part of a request is a part.
LEMMA UploadIsPart ==
    ASSUME NEW t \in Threads, upload[t] # NoUpload
    PROVE  [key |-> upload[t].key, content |-> upload[t].content] \in Parts
BY DEF Parts, UploadedParts

-----------------------------------------------------------------------------
(***************************************************************************)
(* The order of the parts.                                                 *)
(***************************************************************************)
\* A step keeps it that makes no part, and leaves the reporters where they are.
LEMMA PartsKept ==
    ASSUME TypeOK, PartsInv, Parts' \subseteq Parts,
           \A r \in Reporters :
               /\ reporter'[r].part = reporter[r].part /\ reporter'[r].offset = reporter[r].offset
               /\ reporter'[r].written \in Nat /\ reporter[r].written <= reporter'[r].written,
           \A t \in Threads : Awaited(t)' =>
               /\ Awaited(t)
               /\ upload'[t].key = upload[t].key /\ upload'[t].content = upload[t].content
               /\ reporter'[upload[t].key[1]].pc = reporter[upload[t].key[1]].pc
    PROVE  PartsInv'
<1>1. \A r \in Reporters :
          reporter'[r].part <= reporter'[r].offset /\ reporter'[r].offset <= reporter'[r].written
  BY ReporterShape DEF PartsInv
<1>2. ASSUME NEW p \in Parts' PROVE Placed(p)'
  <2>1. p \in Parts /\ Placed(p)
    BY <1>2 DEF PartsInv
  <2>2. /\ p.key[1] \in Reporters /\ p.content.to \in Nat
    BY <2>1, PartShape, ArchiveAssumption DEF ArchiveAssumption
  <2> QED BY <2>1, <2>2, ReporterShape DEF Placed
<1>3. \A p, q \in Parts' : InOrder(p, q)
  BY DEF PartsInv
<1>4. ASSUME NEW t \in Threads, Awaited(t)' PROVE Last(t)'
  <2>1. Awaited(t) /\ Last(t) /\ upload[t].key[1] \in Reporters
    BY <1>4, UploadShape, KeyShape DEF PartsInv, Awaited
  <2> QED BY <1>4, <2>1 DEF Last
<1>5. \A s, t \in Threads :
          Awaited(s)' /\ Awaited(t)' /\ upload'[s].key[1] = upload'[t].key[1] => s = t
  BY DEF PartsInv
<1> QED BY <1>1, <1>2, <1>3, <1>4, <1>5 DEF PartsInv, InOrder

\* The parts, when one request changes into r and the files stay.
LEMMA PartsOfOneUpload ==
    ASSUME TypeOK, NEW t \in Threads, NEW u, upload' = [upload EXCEPT ![t] = u],
           UNCHANGED <<raw, tar>>
    PROVE  /\ u = NoUpload => Parts' \subseteq Parts
           /\ Parts' \subseteq Parts \union {[key |-> u.key, content |-> u.content]}
<1>1. upload'[t] = u /\ \A s \in Threads \ {t} : upload'[s] = upload[s]
  BY DEF TypeOK
<1>2. FileParts' = FileParts /\ TarParts' = TarParts
  BY DEF FileParts, TarParts
<1>3. /\ u = NoUpload => UploadedParts' \subseteq UploadedParts
      /\ UploadedParts' \subseteq UploadedParts \union {[key |-> u.key, content |-> u.content]}
  BY <1>1 DEF UploadedParts
<1> QED BY <1>2, <1>3 DEF Parts

\* A checkpoint makes the next part, or the last one again and longer.
LEMMA SendKeepsOrder ==
    ASSUME TypeOK, PartsInv, NEW r \in Reporters, NEW t \in Threads,
           Checkpoint(r, t) \/ FinalCheckpoint(r, t)
    PROVE  PartsInv'
<1> DEFINE q == reporter[r]
           c == [from |-> q.offset, to |-> q.written]
           k == <<r, q.part>>
           new == [key |-> k, content |-> c]
<1>1. PICK next \in {"sending", "closing"} :
          Send(r, t, next) /\ q.pc \in {"playing", "finished"}
  BY DEF Checkpoint, FinalCheckpoint
<1>2. /\ q.part \in Nat /\ q.offset \in Nat /\ q.written \in Nat /\ q.offset < q.written
      /\ q.part <= q.offset
  BY <1>1, ReporterShape DEF Send, PartsInv
<1>3. /\ reporter'[r].part = q.part /\ reporter'[r].offset = q.offset
      /\ reporter'[r].written = q.written /\ reporter'[r].pc = next
      /\ \A s \in Reporters \ {r} : reporter'[s] = reporter[s]
  BY <1>1 DEF Send, TypeOK, Reporter
<1>4. /\ upload'[t] = [pc |-> "received", key |-> k, content |-> c, awaited |-> TRUE]
      /\ \A s \in Threads \ {t} : upload'[s] = upload[s]
  BY <1>1 DEF Send, TypeOK
<1>5. Parts' \subseteq Parts \union {new}
  <2>1. PICK u : /\ upload' = [upload EXCEPT ![t] = u] /\ u.key = k /\ u.content = c
                 /\ UNCHANGED <<raw, tar>>
    <3>1. upload' = [upload EXCEPT ![t] = [pc |-> "received", key |-> k, content |-> c,
                                           awaited |-> TRUE]]
      BY <1>1 DEF Send
    <3> QED BY <1>1, <3>1 DEF Send
  <2> HIDE DEF k, c
  <2> QED BY <2>1, PartsOfOneUpload
<1>6. /\ new.key[1] = r /\ new.key[2] = q.part /\ new.key = k
      /\ new.content.from = q.offset /\ new.content.to = q.written
  OBVIOUS
<1>7. upload'[t] # NoUpload /\ upload'[t].awaited /\ upload'[t].key = k
      /\ upload'[t].key[1] = r /\ upload'[t].key[2] = q.part /\ upload'[t].content.to = q.written
  BY <1>4 DEF NoUpload
<1> HIDE DEF new, k, c, q
<1>8. \A s \in Reporters :
          reporter'[s].part <= reporter'[s].offset /\ reporter'[s].offset <= reporter'[s].written
  BY <1>2, <1>3 DEF PartsInv
<1>9. \A p : p = new => Placed(p)'
  BY <1>2, <1>3, <1>6 DEF Placed
<1>10. \A p \in Parts : Placed(p)'
  <2> TAKE p \in Parts
  <2>1. Placed(p) /\ p.key[1] \in Reporters
    BY PartShape DEF PartsInv
  <2> QED BY <1>3, <2>1 DEF Placed, q
<1>11. \A p \in Parts : InOrder(p, new) /\ InOrder(new, p)
  <2> TAKE p \in Parts
  <2>1. Placed(p) /\ p.key[1] \in Reporters /\ p.key[2] \in Nat
    BY PartShape, ArchiveAssumption DEF PartsInv, ArchiveAssumption
  <2> QED BY <1>2, <1>6, <2>1 DEF Placed, InOrder, q
<1>12. InOrder(new, new)
  BY <1>2, <1>6 DEF InOrder
<1>13. \A p \in Parts' : Placed(p)'
  BY <1>5, <1>9, <1>10
<1>14. \A p1, p2 \in Parts' : InOrder(p1, p2)
  BY <1>5, <1>11, <1>12 DEF PartsInv
<1>15. \A s \in Threads \ {t} :
           Awaited(s)' => Awaited(s) /\ upload[s].key[1] \in Reporters \ {r}
  <2> TAKE s \in Threads \ {t}
  <2>1. Awaited(s)' => Awaited(s)
    BY <1>4 DEF Awaited
  <2>2. Awaited(s) => Last(s) /\ upload[s].key[1] \in Reporters
    BY UploadShape, KeyShape DEF PartsInv, Awaited
  <2> QED BY <1>1, <2>1, <2>2 DEF Last, q
<1>16. \A s \in Threads \ {t} : Awaited(s)' => Last(s)'
  <2> SUFFICES ASSUME NEW s \in Threads \ {t}, Awaited(s)' PROVE Last(s)'
    OBVIOUS
  <2>1. Last(s) /\ upload[s].key[1] \in Reporters \ {r} /\ upload'[s] = upload[s]
    BY <1>4, <1>15 DEF PartsInv
  <2>2. new.key # upload[s].key
    BY <1>6, <2>1
  <2> QED BY <1>3, <1>5, <2>1, <2>2 DEF Last
<1>17. Last(t)'
  <2>1. \A p \in Parts : p.key = k => p.content.to <= q.written
    <3> SUFFICES ASSUME NEW p \in Parts, p.key = k PROVE p.content.to <= q.written
      OBVIOUS
    <3> QED BY <1>6 DEF PartsInv, Placed, q
  <2>2. new.content.to <= q.written
    BY <1>2, <1>6
  <2> QED BY <1>1, <1>3, <1>5, <1>7, <2>1, <2>2 DEF Last
<1>18. \A s \in Threads : Awaited(s)' => Last(s)'
  BY <1>16, <1>17
<1>19. \A s, u \in Threads :
           Awaited(s)' /\ Awaited(u)' /\ upload'[s].key[1] = upload'[u].key[1] => s = u
  BY <1>4, <1>7, <1>15 DEF PartsInv
<1> QED BY <1>8, <1>13, <1>14, <1>18, <1>19 DEF PartsInv, InOrder

\* An answer moves the reporter behind its last part.
LEMMA AnswerKeepsOrder ==
    ASSUME TypeOK, PartsInv, NEW t \in Threads, Awaited(t),
           reporter' = Answered(upload[t]), upload' = [upload EXCEPT ![t] = NoUpload],
           UNCHANGED <<raw, tar>>
    PROVE  PartsInv'
<1> DEFINE u == upload[t]
           r == u.key[1]
           q == reporter[r]
<1>1. /\ u # NoUpload /\ r \in Reporters /\ u.key \in Keys /\ u.content \in Contents
      /\ u.content.to \in Nat /\ u.content.from \in Nat
  BY UploadShape, KeyShape, ArchiveAssumption DEF Awaited, Contents, Games, ArchiveAssumption
<1>2. Last(t) /\ Placed([key |-> u.key, content |-> u.content])
  BY <1>1, UploadIsPart DEF PartsInv
<1>3. /\ u.key[2] = q.part /\ u.content.from = q.offset /\ u.content.from < u.content.to
      /\ u.content.to <= q.written
  BY <1>2 DEF Last, Placed
<1>4. /\ reporter'[r].part = q.part + 1 /\ reporter'[r].offset = u.content.to
      /\ reporter'[r].written = q.written
      /\ \A s \in Reporters \ {r} : reporter'[s] = reporter[s]
  BY <1>1 DEF Answered, TypeOK, Reporter
<1>5. Parts' \subseteq Parts
  BY PartsOfOneUpload
<1>6. \A s \in Threads : Awaited(s)' => s # t /\ Awaited(s) /\ upload'[s] = upload[s]
                                          /\ upload[s].key[1] \in Reporters \ {r}
  <2> SUFFICES ASSUME NEW s \in Threads, Awaited(s)'
               PROVE s # t /\ Awaited(s) /\ upload'[s] = upload[s]
                           /\ upload[s].key[1] \in Reporters \ {r}
    OBVIOUS
  <2>1. s # t /\ upload'[s] = upload[s] /\ Awaited(s)
    BY DEF Awaited, TypeOK
  <2>2. upload[s].key[1] \in Reporters
    BY <2>1, UploadShape, KeyShape DEF Awaited
  <2> QED BY <2>1, <2>2 DEF PartsInv
<1> HIDE DEF u, r, q
<1>7. /\ q.part \in Nat /\ q.offset \in Nat /\ q.written \in Nat /\ q.part <= q.offset
  BY <1>1, ReporterShape DEF PartsInv, q
<1>8. \A s \in Reporters :
          reporter'[s].part <= reporter'[s].offset /\ reporter'[s].offset <= reporter'[s].written
  BY <1>1, <1>3, <1>4, <1>7 DEF PartsInv
<1>9. ASSUME NEW p \in Parts' PROVE Placed(p)'
  <2>1. /\ p \in Parts /\ Placed(p) /\ p.key[1] \in Reporters /\ p.key[2] \in Nat
        /\ p.content.to \in Nat
    BY <1>5, <1>9, PartShape, ArchiveAssumption DEF PartsInv, ArchiveAssumption
  <2>2. CASE p.key[1] # r
    BY <1>4, <2>1, <2>2 DEF Placed
  <2>3. CASE p.key[1] = r /\ p.key[2] < q.part
    BY <1>1, <1>3, <1>4, <1>7, <2>1, <2>3 DEF Placed, q
  <2>4. CASE p.key[1] = r /\ p.key[2] = q.part
    <3>1. p.key = u.key
      BY <1>1, <1>3, <2>1, <2>4, PartShape, KeyShape DEF r
    <3>2. p.content.to <= u.content.to
      BY <1>2, <2>1, <3>1 DEF Last, u
    <3> QED BY <1>1, <1>3, <1>4, <1>7, <2>1, <2>4, <3>2 DEF Placed
  <2> QED BY <1>7, <2>1, <2>2, <2>3, <2>4 DEF Placed, q
<1>10. \A p1, p2 \in Parts' : InOrder(p1, p2)
  BY <1>5 DEF PartsInv
<1>11. \A s \in Threads : Awaited(s)' => Last(s)'
  <2> SUFFICES ASSUME NEW s \in Threads, Awaited(s)' PROVE Last(s)'
    OBVIOUS
  <2>1. Last(s) /\ upload'[s] = upload[s] /\ upload[s].key[1] \in Reporters \ {r}
    BY <1>6 DEF PartsInv
  <2> QED BY <1>4, <1>5, <2>1 DEF Last
<1>12. \A s1, s2 \in Threads :
           Awaited(s1)' /\ Awaited(s2)' /\ upload'[s1].key[1] = upload'[s2].key[1] => s1 = s2
  BY <1>6 DEF PartsInv
<1> QED BY <1>8, <1>9, <1>10, <1>11, <1>12 DEF PartsInv, InOrder

\* The requests and their answers keep it; the reporters go their own way.
LEMMA ReporterKeepsOrder ==
    ASSUME TypeOK, PartsInv, NEW r \in Reporters, ReporterStep(r)
    PROVE  PartsInv'
<1>1. CASE \E t \in Threads : Checkpoint(r, t) \/ FinalCheckpoint(r, t)
  BY <1>1, SendKeepsOrder
<1>2. CASE WriteGame(r) \/ FinishGames(r) \/ Close(r)
  <2>1. UNCHANGED <<upload, raw, tar>>
    BY <1>2 DEF WriteGame, FinishGames, Close
  <2>2. Parts' \subseteq Parts
    BY <2>1 DEF Parts, UploadedParts, FileParts, TarParts
  <2>3. \A s \in Reporters :
           /\ reporter'[s].part = reporter[s].part /\ reporter'[s].offset = reporter[s].offset
           /\ reporter'[s].written \in Nat /\ reporter[s].written <= reporter'[s].written
    <3>1. CASE WriteGame(r)
      BY <3>1, ReporterShape DEF WriteGame, TypeOK, Reporter
    <3>2. CASE FinishGames(r)
      <4>1. PICK more \in {0, 1} :
               reporter' = [reporter EXCEPT ![r].pc = "finished", ![r].written = @ + more]
        BY <3>2 DEF FinishGames
      <4> QED BY <4>1, ReporterShape DEF TypeOK, Reporter
    <3>3. CASE Close(r)
      BY <3>3, ReporterShape DEF Close, TypeOK, Reporter
    <3> QED BY <1>2, <3>1, <3>2, <3>3
  <2>4. \A s \in Reporters :
           reporter'[s].pc = reporter[s].pc \/ reporter[s].pc \in {"playing", "finished"}
    BY <1>2 DEF WriteGame, FinishGames, Close, TypeOK, Reporter
  <2>5. SUFFICES ASSUME NEW t \in Threads, Awaited(t)'
                 PROVE  /\ Awaited(t)
                        /\ upload'[t].key = upload[t].key
                        /\ upload'[t].content = upload[t].content
                        /\ reporter'[upload[t].key[1]].pc = reporter[upload[t].key[1]].pc
    BY <2>2, <2>3, PartsKept
  <2>6. Awaited(t) /\ upload'[t] = upload[t]
    BY <2>1, <2>5 DEF Awaited
  <2>7. Last(t) /\ upload[t].key[1] \in Reporters
    BY <2>6, UploadShape, KeyShape DEF PartsInv, Awaited
  <2> QED BY <2>4, <2>6, <2>7 DEF Last
<1> QED BY <1>1, <1>2 DEF ReporterStep

\* A request that ends unanswered, or is not waited for any more, leaves its
\* reporter where it was.
LEMMA SilenceKeepsOrder ==
    ASSUME TypeOK, PartsInv, NEW t \in Threads, upload[t] # NoUpload,
           NEW u, upload' = [upload EXCEPT ![t] = u],
           \/ u = NoUpload
           \/ u # NoUpload /\ u.awaited = FALSE /\ u.key = upload[t].key
                           /\ u.content = upload[t].content,
           reporter' = IF upload[t].awaited THEN Unanswered(upload[t]) ELSE reporter,
           UNCHANGED <<raw, tar>>
    PROVE  PartsInv'
<1>1. upload[t].key[1] \in Reporters
  BY UploadShape, KeyShape
<1>2. Parts' \subseteq Parts
  BY PartsOfOneUpload, UploadIsPart
<1>3. \A s \in Reporters :
         /\ reporter'[s].part = reporter[s].part /\ reporter'[s].offset = reporter[s].offset
         /\ reporter'[s].written = reporter[s].written
         /\ s # upload[t].key[1] \/ ~upload[t].awaited => reporter'[s].pc = reporter[s].pc
  BY <1>1 DEF Unanswered, TypeOK, Reporter
<1>4. \A s \in Threads : Awaited(s)' => s # t /\ Awaited(s) /\ upload'[s] = upload[s]
  <2>1. upload'[t] = u /\ \A s \in Threads \ {t} : upload'[s] = upload[s]
    BY DEF TypeOK
  <2> QED BY <2>1 DEF Awaited
<1>5. \A s \in Threads : Awaited(s)' =>
         upload[s].key[1] \in Reporters /\ (upload[t].awaited => upload[s].key[1] # upload[t].key[1])
  <2> SUFFICES ASSUME NEW s \in Threads, Awaited(s)'
               PROVE  /\ upload[s].key[1] \in Reporters
                      /\ upload[t].awaited => upload[s].key[1] # upload[t].key[1]
    OBVIOUS
  <2>1. s # t /\ Awaited(s)
    BY <1>4
  <2>2. upload[s].key[1] \in Reporters
    BY <2>1, UploadShape, KeyShape DEF Awaited
  <2>3. upload[t].awaited => Awaited(t)
    BY DEF Awaited
  <2> QED BY <2>1, <2>2, <2>3 DEF PartsInv
<1> QED BY <1>2, <1>3, <1>4, <1>5, ReporterShape, PartsKept

\* A step keeps it that moves a request on, or saves its file.
LEMMA ProgressKeepsOrder ==
    ASSUME TypeOK, PartsInv, UNCHANGED reporter,
           \A t \in Threads : \/ upload'[t] = upload[t]
                              \/ /\ upload[t] # NoUpload /\ upload'[t].key = upload[t].key
                                 /\ upload'[t].content = upload[t].content
                                 /\ upload'[t].awaited = upload[t].awaited,
           FileParts' \subseteq FileParts \union UploadedParts,
           TarParts' \subseteq TarParts \union FileParts
    PROVE  PartsInv'
<1>1. UploadedParts' \subseteq UploadedParts
  BY DEF UploadedParts
<1>2. Parts' \subseteq Parts
  BY <1>1 DEF Parts
<1>3. \A t \in Threads : Awaited(t)' =>
         /\ Awaited(t) /\ upload'[t].key = upload[t].key
         /\ upload'[t].content = upload[t].content
  BY DEF Awaited
<1> QED BY <1>2, <1>3, ReporterShape, PartsKept

LEMMA UploadKeepsOrder ==
    ASSUME TypeOK, PartsInv, NEW t \in Threads, UploadStep(t)
    PROVE  PartsInv'
<1>1. CASE ReplyUpload(t)
  <2>1. upload[t] # NoUpload /\ upload' = [upload EXCEPT ![t] = NoUpload]
        /\ UNCHANGED <<raw, tar>>
    BY <1>1, BusyUpload DEF ReplyUpload
  <2>2. CASE upload[t].awaited
    BY <1>1, <2>1, <2>2, AnswerKeepsOrder DEF ReplyUpload, Awaited
  <2>3. CASE ~upload[t].awaited
    BY <1>1, <2>1, <2>3, SilenceKeepsOrder DEF ReplyUpload
  <2> QED BY <2>2, <2>3
<1>2. CASE GetOrCreate(t) \/ SaveFile(t) \/ CommitUpload(t)
  <2>1. upload[t] # NoUpload
    BY <1>2, BusyUpload DEF GetOrCreate, SaveFile, CommitUpload
  <2>2. PICK pc : upload' = [upload EXCEPT ![t].pc = pc]
    BY <1>2 DEF GetOrCreate, SaveFile, CommitUpload
  <2>3. \A s \in Threads :
           /\ upload'[s].key = upload[s].key /\ upload'[s].content = upload[s].content
           /\ upload'[s].awaited = upload[s].awaited
           /\ s # t => upload'[s] = upload[s]
    BY <2>1, <2>2, UploadShape DEF TypeOK, Upload
  <2>4. FileParts' \subseteq FileParts \union UploadedParts
    <3>1. \A k \in Keys : \/ raw'[k] = raw[k]
                          \/ k = upload[t].key /\ raw'[k] = upload[t].content
      BY <1>2 DEF GetOrCreate, SaveFile, CommitUpload, TypeOK
    <3> QED BY <2>1, <3>1 DEF FileParts, UploadedParts
  <2>5. TarParts' = TarParts /\ UNCHANGED reporter
    BY <1>2 DEF GetOrCreate, SaveFile, CommitUpload, TarParts
  <2> QED BY <2>1, <2>3, <2>4, <2>5, ProgressKeepsOrder
<1> QED BY <1>1, <1>2 DEF UploadStep

LEMMA FailureKeepsOrder ==
    ASSUME TypeOK, PartsInv, NEW t \in Threads, FailUpload(t) \/ GiveUpUpload(t)
    PROVE  PartsInv'
<1>1. CASE FailUpload(t)
  BY <1>1, BusyUpload, SilenceKeepsOrder DEF FailUpload
<1>2. CASE GiveUpUpload(t)
  <2>1. PICK u : u = [upload[t] EXCEPT !.awaited = FALSE]
    OBVIOUS
  <2>2. /\ upload' = [upload EXCEPT ![t] = u] /\ upload[t] # NoUpload /\ upload[t].awaited
        /\ reporter' = Unanswered(upload[t]) /\ UNCHANGED <<raw, tar>>
    BY <1>2, <2>1 DEF GiveUpUpload
  <2>3. u # NoUpload /\ u.awaited = FALSE /\ u.key = upload[t].key
        /\ u.content = upload[t].content
    BY <2>1, <2>2, UploadShape DEF Upload, NoUpload
  <2> QED BY <2>2, <2>3, SilenceKeepsOrder
<1> QED BY <1>1, <1>2

-----------------------------------------------------------------------------
(***************************************************************************)
(* The passes of the watcher.                                              *)
(***************************************************************************)
LEMMA FirstIsOne == ASSUME NEW ids \in SUBSET Nat, ids # {} PROVE First(ids) \in ids
<1>1. PICK m \in ids : TRUE
  OBVIOUS
<1> DEFINE R == StrictSubsetOrdering(0..m)
           Below == { 0..j : j \in { j \in ids : j <= m } }
<1>2. IsWellFoundedOn(R, SUBSET (0..m))
  <2>1. IsFiniteSet(0..m)
    BY FS_Interval
  <2> QED BY <2>1, FS_StrictSubsetOrderingWellFounded, FS_FiniteSubsetsOfFinite
<1>3. Below \subseteq SUBSET (0..m) /\ 0..m \in Below
  BY <1>1
<1>4. PICK T \in Below : \A U \in Below : ~(<<U, T>> \in R)
  <2> HIDE DEF R, Below
  <2> QED BY <1>2, <1>3, WFMin
<1>5. PICK i \in ids : i <= m /\ T = 0..i
  BY <1>4
<1>6. \A j \in ids : i <= j
  <2> SUFFICES ASSUME NEW j \in ids, j < i PROVE FALSE
    OBVIOUS
  <2>1. 0..j \in Below
    BY <1>1, <1>5
  <2>2. 0..j \subseteq 0..i /\ i \in 0..i /\ i \notin 0..j
    BY <1>5
  <2>3. 0..j \in SUBSET (0..m) /\ 0..i \in SUBSET (0..m)
    BY <1>3, <1>5, <2>1
  <2>4. <<0..j, 0..i>> \in R
    BY <2>2, <2>3 DEF StrictSubsetOrdering
  <2> HIDE DEF R, Below
  <2> QED BY <1>4, <1>5, <2>1, <2>4
<1> QED BY <1>6 DEF First

LEMMA PassShape ==
    ASSUME TypeOK, NEW v \in Watchers, watcher[v] # NoPass
    PROVE  /\ watcher[v] \in Pass
           /\ watcher[v].todo \in SUBSET Nat /\ watcher[v].id \in Nat /\ watcher[v].end \in Nat
           /\ watcher[v].present \in BOOLEAN
BY DEF TypeOK, Pass

LEMMA BusyPass ==
    ASSUME NEW v \in Watchers,
           watcher[v].pc \in {"next", "begun", "append", "create", "opened", "added", "deleted"}
    PROVE  watcher[v] # NoPass
BY DEF NoPass

\* The row a pass is at, and its part.
LEMMA PassRow ==
    ASSUME TypeOK, NEW v \in Watchers, PassInv(v),
           watcher[v].pc \in {"begun", "append", "create", "opened", "added", "deleted"}
    PROVE  /\ watcher[v] # NoPass
           /\ watcher[v].id \in DOMAIN table /\ watcher[v].id # 0
           /\ Key(v) \in Keys /\ raw[Key(v)] \in Contents \union {NoFile}
           /\ raw[Key(v)] # NoFile =>
                  Member(v) \in [key : Keys, content : Contents] /\ Member(v) \in FileParts
<1>1. watcher[v] # NoPass /\ watcher[v].id \in DOMAIN table /\ watcher[v].id # 0
  <2>1. watcher[v] # NoPass /\ watcher[v].pc # "next"
    BY BusyPass
  <2> QED BY <2>1 DEF PassInv
<1>2. Key(v) \in Keys
  <2>1. \A i \in DOMAIN table : table[i] \in [key : Keys, processed : BOOLEAN]
    BY SeqElements DEF TypeOK
  <2>2. \A i \in DOMAIN table : table[i].key \in Keys
    BY <2>1
  <2> QED BY <1>1, <2>2 DEF Key
<1> QED BY <1>1, <1>2 DEF TypeOK, Member, FileParts

\* Flagging a row changes the rows in nothing else.
LEMMA FlagRow ==
    ASSUME TypeOK, NEW i \in DOMAIN table
    PROVE  LET flagged == [table EXCEPT ![i].processed = TRUE] IN
           /\ flagged \in Seq([key : Keys, processed : BOOLEAN])
           /\ Len(flagged) = Len(table)
           /\ DOMAIN flagged = DOMAIN table
           /\ flagged[i].processed
           /\ \A j \in DOMAIN table : flagged[j].key = table[j].key
           /\ \A j \in DOMAIN table \ {i} : flagged[j] = table[j]
<1> DEFINE row == [key : Keys, processed : BOOLEAN]
           flagged == [table EXCEPT ![i].processed = TRUE]
<1>1. table \in Seq(row) /\ table[i] \in row
  BY SeqElements DEF TypeOK
<1>2. [table[i] EXCEPT !.processed = TRUE] \in row
      /\ [table[i] EXCEPT !.processed = TRUE].key = table[i].key
      /\ [table[i] EXCEPT !.processed = TRUE].processed
  BY <1>1
<1>3. PICK r \in row : r.key = table[i].key /\ r.processed /\ flagged = [table EXCEPT ![i] = r]
  BY <1>2
<1> HIDE DEF flagged, row
<1>4. flagged \in Seq(row) /\ Len(flagged) = Len(table) /\ DOMAIN flagged = DOMAIN table
      /\ flagged[i] = r /\ \A j \in DOMAIN table \ {i} : flagged[j] = table[j]
  BY <1>1, <1>3
<1> QED BY <1>3, <1>4 DEF flagged, row

\* With the archive as it was when it was opened, writing to it adds to it.
LEMMA WriteAtEnd ==
    ASSUME TypeOK
    PROVE  /\ WriteFrom(Len(tar), <<>>) = tar
           /\ \A m \in [key : Keys, content : Contents] :
                  WriteFrom(Len(tar), <<m>>) = Append(tar, m)
<1>1. tar \in Seq([key : Keys, content : Contents]) /\ Len(tar) \in Nat
  BY DEF TypeOK
<1>2. SubSeq(tar, 1, Len(tar)) = tar
  BY <1>1
<1>3. tar \o <<>> = tar
  BY <1>1
<1>4. \A m \in [key : Keys, content : Contents] : tar \o <<m>> = Append(tar, m)
  BY <1>1
<1>5. \A members : WriteFrom(Len(tar), members) = SubSeq(tar, 1, Len(tar)) \o members
  BY <1>1 DEF WriteFrom
<1> QED BY <1>2, <1>3, <1>4, <1>5

\* What a step of the watcher does to the archive.
LEMMA TarOfAdd ==
    ASSUME TypeOK, NEW v \in Watchers, PassInv(v), AddMember(v)
    PROVE  \/ watcher[v].present /\ Members(Key(v)) # {} /\ tar' = tar
           \/ /\ Members(Key(v)) = {} /\ raw[Key(v)] # NoFile
              /\ tar' = Append(tar, Member(v))
<1>1. /\ watcher[v] # NoPass /\ watcher[v].end = Len(tar)
      /\ watcher[v].present <=> Members(Key(v)) # {}
  <2>1. watcher[v] # NoPass /\ watcher[v].pc = "opened"
    BY BusyPass DEF AddMember
  <2> QED BY <2>1 DEF PassInv
<1> QED BY <1>1, PassRow, WriteAtEnd DEF AddMember

LEMMA TarOfOpen ==
    ASSUME TypeOK, NEW v \in Watchers, PassInv(v), OpenTar(v)
    PROVE  tar' = tar
BY BusyPass DEF OpenTar, PassInv

LEMMA TarOfFailPass ==
    ASSUME TypeOK, NEW v \in Watchers, PassInv(v), FailPass(v)
    PROVE  tar' = tar
BY WriteAtEnd DEF FailPass, PassInv

LEMMA WatcherKeepsOrder ==
    ASSUME TypeOK, PartsInv, NEW v \in Watchers, PassInv(v), WatcherStep(v) \/ FailPass(v)
    PROVE  PartsInv'
<1>1. UNCHANGED <<reporter, upload>>
  BY DEF WatcherStep, StartPass, BeginPart, LookForTar, OpenTar, AddMember, DeleteRaw,
         CommitProcessed, RefusePass, EndPass, MissPart, FailPass
<1>2. FileParts' \subseteq FileParts
  <2>1. \A k \in Keys : raw'[k] = raw[k] \/ raw'[k] = NoFile
    BY DEF WatcherStep, StartPass, BeginPart, LookForTar, OpenTar, AddMember, DeleteRaw,
           CommitProcessed, RefusePass, EndPass, MissPart, FailPass, TypeOK
  <2> QED BY <2>1 DEF FileParts
<1>3. TarParts' \subseteq TarParts \union FileParts
  <2>1. CASE AddMember(v)
    <3>1. tar' = tar \/ (tar' = Append(tar, Member(v)) /\ Member(v) \in FileParts)
      BY <2>1, TarOfAdd, PassRow DEF AddMember
    <3>2. tar \in Seq([key : Keys, content : Contents])
      BY DEF TypeOK
    <3> QED BY <3>1, <3>2 DEF TarParts
  <2>2. CASE ~AddMember(v)
    <3>1. tar' = tar
      BY <2>2, TarOfOpen, TarOfFailPass DEF WatcherStep, StartPass, BeginPart, LookForTar,
         DeleteRaw, CommitProcessed, RefusePass, EndPass, MissPart
    <3> QED BY <3>1 DEF TarParts
  <2> QED BY <2>1, <2>2
<1> QED BY <1>1, <1>2, <1>3, ProgressKeepsOrder

LEMMA OrderIsKept ==
    ASSUME TypeOK, PartsInv, \A v \in Watchers : PassInv(v), Next
    PROVE  PartsInv'
BY ReporterKeepsOrder, UploadKeepsOrder, WatcherKeepsOrder, FailureKeepsOrder DEF Next, Fault

-----------------------------------------------------------------------------
(***************************************************************************)
(* Type correctness.                                                       *)
(***************************************************************************)
LEMMA FailuresKeepType ==
    ASSUME TypeOK, Failure \/ UNCHANGED failures
    PROVE  failures' \in 0..MaxFailures
<1>1. failures \in 0..MaxFailures
  BY DEF TypeOK
<1> QED BY <1>1, ArchiveAssumption DEF Failure, ArchiveAssumption

LEMMA ReporterKeepsType ==
    ASSUME TypeOK, NEW r \in Reporters, ReporterStep(r)
    PROVE  TypeOK'
<1>1. CASE WriteGame(r) \/ FinishGames(r)
  <2>1. /\ reporter[r] \in Reporter
        /\ \E n \in 0..MaxGames, pc \in {reporter[r].pc, "finished"} :
              reporter' = [reporter EXCEPT ![r] = [reporter[r] EXCEPT !.pc = pc, !.written = n]]
    <3>1. CASE WriteGame(r)
      <4>1. reporter[r] \in Reporter /\ reporter[r].written + 1 \in 0..MaxGames
        BY <3>1, ReporterShape, ArchiveAssumption DEF WriteGame, ArchiveAssumption
      <4>2. reporter' = [reporter EXCEPT ![r].pc = reporter[r].pc,
                                         ![r].written = reporter[r].written + 1]
        BY <3>1, <4>1 DEF WriteGame, TypeOK, Reporter
      <4> QED BY <4>1, <4>2
    <3>2. CASE FinishGames(r)
      <4>1. PICK more \in {0, 1} :
               /\ reporter[r].written + more <= MaxGames
               /\ reporter' = [reporter EXCEPT ![r].pc = "finished",
                                               ![r].written = reporter[r].written + more]
        BY <3>2 DEF FinishGames
      <4>2. reporter[r] \in Reporter /\ reporter[r].written + more \in 0..MaxGames
        BY <4>1, ReporterShape, ArchiveAssumption DEF ArchiveAssumption
      <4> QED BY <4>1, <4>2
    <3> QED BY <1>1, <3>1, <3>2
  <2>2. \A n \in 0..MaxGames, pc \in {reporter[r].pc, "finished"} :
             [reporter[r] EXCEPT !.pc = pc, !.written = n] \in Reporter
    BY <2>1 DEF Reporter, Games
  <2>3. reporter' \in [Reporters -> Reporter]
    BY <2>1, <2>2 DEF TypeOK
  <2> QED BY <1>1, <2>3 DEF WriteGame, FinishGames, TypeOK
<1>2. CASE Close(r)
  <2>1. reporter' \in [Reporters -> Reporter]
    <3>1. [reporter[r] EXCEPT !.pc = "closed"] \in Reporter
      BY ReporterShape DEF Reporter
    <3>2. reporter' = [reporter EXCEPT ![r] = [reporter[r] EXCEPT !.pc = "closed"]]
      BY <1>2 DEF Close
    <3> QED BY <3>1, <3>2 DEF TypeOK
  <2>2. failures' \in 0..MaxFailures
    BY <1>2, FailuresKeepType DEF Close
  <2> QED BY <1>2, <2>1, <2>2 DEF Close, TypeOK
<1>3. ASSUME NEW t \in Threads, NEW next \in {"sending", "closing"}, Send(r, t, next)
      PROVE  TypeOK'
  <2>1. reporter' \in [Reporters -> Reporter]
    BY <1>3 DEF Send, TypeOK, Reporter
  <2>2. <<r, reporter[r].part>> \in Keys
        /\ [from |-> reporter[r].offset, to |-> reporter[r].written] \in Contents
    BY DEF TypeOK, Reporter, Keys, Contents
  <2>3. [pc |-> "received", key |-> <<r, reporter[r].part>>,
         content |-> [from |-> reporter[r].offset, to |-> reporter[r].written],
         awaited |-> TRUE] \in Upload
    BY <2>2 DEF Upload
  <2>4. upload' \in [Threads -> {NoUpload} \union Upload]
    BY <1>3, <2>3 DEF Send, TypeOK
  <2> QED BY <1>3, <2>1, <2>4 DEF Send, TypeOK
<1> QED BY <1>1, <1>2, <1>3 DEF ReporterStep, Checkpoint, FinalCheckpoint

\* The next number after an answer is within the bound: a part has a game.
LEMMA AnswerKeepsType ==
    ASSUME TypeOK, PartsInv, NEW t \in Threads, Awaited(t)
    PROVE  Answered(upload[t]) \in [Reporters -> Reporter]
<1> DEFINE u == upload[t]
           q == reporter[u.key[1]]
<1>1. /\ u # NoUpload /\ u.key[1] \in Reporters /\ u.content.to \in Games
      /\ u.content.to \in Nat /\ u.content.from \in Nat
  BY UploadShape, KeyShape, ArchiveAssumption DEF Awaited, Contents, Games, ArchiveAssumption
<1>2. u.key[2] = q.part /\ Placed([key |-> u.key, content |-> u.content])
  BY <1>1, UploadIsPart DEF PartsInv, Last
<1>3. u.content.from = q.offset /\ u.content.from < u.content.to /\ u.content.to <= q.written
  BY <1>2 DEF Placed
<1>4. /\ q \in Reporter /\ q.part \in Nat /\ q.offset \in Nat /\ q.written \in Nat
      /\ q.written <= MaxGames /\ q.part <= q.offset
  BY <1>1, ReporterShape DEF PartsInv
<1>5. q.part + 1 \in 0..MaxGames
  BY <1>1, <1>3, <1>4, ArchiveAssumption DEF ArchiveAssumption
<1> QED BY <1>1, <1>4, <1>5 DEF Answered, TypeOK, Reporter

LEMMA SilenceKeepsType ==
    ASSUME TypeOK, NEW t \in Threads, upload[t] # NoUpload
    PROVE  Unanswered(upload[t]) \in [Reporters -> Reporter]
<1>1. upload[t].key[1] \in Reporters
  BY UploadShape, KeyShape
<1> QED BY <1>1 DEF Unanswered, TypeOK, Reporter

LEMMA UploadKeepsType ==
    ASSUME TypeOK, PartsInv, NEW t \in Threads, UploadStep(t) \/ FailUpload(t) \/ GiveUpUpload(t)
    PROVE  TypeOK'
<1>1. upload[t] # NoUpload /\ upload[t] \in Upload
  BY BusyUpload, UploadShape
     DEF UploadStep, GetOrCreate, SaveFile, CommitUpload, ReplyUpload, FailUpload, GiveUpUpload
<1>2. upload' \in [Threads -> {NoUpload} \union Upload]
  <2>1. /\ \A pc \in {"inserted", "saved", "done"} : [upload[t] EXCEPT !.pc = pc] \in Upload
        /\ [upload[t] EXCEPT !.awaited = FALSE] \in Upload
    BY <1>1 DEF Upload
  <2>2. \E u \in {NoUpload} \union Upload : upload' = [upload EXCEPT ![t] = u]
    BY <2>1 DEF UploadStep, GetOrCreate, SaveFile, CommitUpload, ReplyUpload, FailUpload,
                GiveUpUpload
  <2> QED BY <2>2 DEF TypeOK
<1>3. reporter' \in [Reporters -> Reporter]
  <2>1. CASE ReplyUpload(t)
    BY <1>1, <2>1, AnswerKeepsType DEF ReplyUpload, Awaited, TypeOK
  <2>2. CASE ~ReplyUpload(t)
    BY <1>1, <2>2, SilenceKeepsType DEF TypeOK, UploadStep, GetOrCreate, SaveFile,
                                        CommitUpload, FailUpload, GiveUpUpload
  <2> QED BY <2>1, <2>2
<1>4. table' \in Seq([key : Keys, processed : BOOLEAN])
  <2>1. CASE CommitUpload(t)
    <3>1. [key |-> upload[t].key, processed |-> FALSE] \in [key : Keys, processed : BOOLEAN]
      BY <1>1 DEF Upload
    <3> QED BY <2>1, <3>1 DEF CommitUpload, TypeOK
  <2>2. CASE ~CommitUpload(t)
    BY <2>2 DEF TypeOK, UploadStep, GetOrCreate, SaveFile, ReplyUpload, FailUpload,
                GiveUpUpload
  <2> QED BY <2>1, <2>2
<1>5. raw' \in [Keys -> Contents \union {NoFile}]
  <2>1. upload[t].content \in Contents
    BY <1>1 DEF Upload
  <2> QED BY <2>1 DEF TypeOK, UploadStep, GetOrCreate, SaveFile, CommitUpload, ReplyUpload,
                      FailUpload, GiveUpUpload
<1>6. failures' \in 0..MaxFailures
  BY FailuresKeepType DEF UploadStep, GetOrCreate, SaveFile, CommitUpload, ReplyUpload,
     FailUpload, GiveUpUpload
<1>7. UNCHANGED <<tar, torn, watcher>>
  BY DEF UploadStep, GetOrCreate, SaveFile, CommitUpload, ReplyUpload, FailUpload, GiveUpUpload
<1> QED BY <1>2, <1>3, <1>4, <1>5, <1>6, <1>7 DEF TypeOK

LEMMA WatcherKeepsType ==
    ASSUME TypeOK, NEW v \in Watchers, PassInv(v), WatcherStep(v) \/ FailPass(v)
    PROVE  TypeOK'
<1>1. CASE StartPass(v)
  <2>1. Unprocessed \in SUBSET Nat
    BY SeqElements DEF Unprocessed, TypeOK
  <2>2. [pc |-> "next", todo |-> Unprocessed, id |-> 0, end |-> 0, present |-> FALSE] \in Pass
    BY <2>1 DEF Pass
  <2>3. watcher' \in [Watchers -> {NoPass} \union Pass]
    BY <1>1, <2>2 DEF StartPass, TypeOK
  <2> QED BY <1>1, <2>3 DEF StartPass, TypeOK
<1>2. CASE BeginPart(v)
  <2>1. watcher[v] # NoPass /\ watcher[v] \in Pass /\ watcher[v].todo \in SUBSET Nat
    BY <1>2, BusyPass, PassShape DEF BeginPart
  <2> DEFINE i == First(watcher[v].todo)
  <2>2. i \in Nat
    BY <1>2, <2>1, FirstIsOne DEF BeginPart
  <2>3. \E pc \in {watcher[v].pc, "begun"}, id \in {watcher[v].id, i} :
           watcher' = [watcher EXCEPT ![v] =
                         [watcher[v] EXCEPT !.todo = @ \ {i}, !.pc = pc, !.id = id]]
    BY <1>2 DEF BeginPart
  <2> HIDE DEF i
  <2>4. \A pc \in {watcher[v].pc, "begun"}, id \in {watcher[v].id, i} :
           [watcher[v] EXCEPT !.todo = @ \ {i}, !.pc = pc, !.id = id] \in Pass
    BY <2>1, <2>2 DEF Pass
  <2>5. watcher' \in [Watchers -> {NoPass} \union Pass]
    BY <2>3, <2>4 DEF TypeOK
  <2> QED BY <1>2, <2>5 DEF BeginPart, TypeOK
<1>3. CASE LookForTar(v) \/ OpenTar(v) \/ DeleteRaw(v) \/ CommitProcessed(v) \/ AddMember(v)
  <2>1. /\ watcher[v] # NoPass /\ watcher[v] \in Pass
        /\ watcher[v].pc \in {"begun", "append", "create", "opened", "added", "deleted"}
    BY <1>3, BusyPass, PassShape
       DEF LookForTar, OpenTar, DeleteRaw, CommitProcessed, AddMember
  <2>2. tar' = tar \/ (tar' = Append(tar, Member(v)) /\ raw[Key(v)] # NoFile)
    BY <1>3, TarOfOpen, TarOfAdd DEF LookForTar, DeleteRaw, CommitProcessed
  <2>3. tar' \in Seq([key : Keys, content : Contents])
    <3> DEFINE S == [key : Keys, content : Contents]
    <3>1. tar \in Seq(S) /\ (raw[Key(v)] # NoFile => Member(v) \in S)
      BY <2>1, PassRow DEF TypeOK
    <3> HIDE DEF S
    <3>2. tar' \in Seq(S)
      BY <2>2, <3>1, Appended
    <3> QED BY <3>2 DEF S
  <2>4. Len(tar') \in Nat
    BY <2>3
  <2>5. /\ \A pc \in {"append", "create", "added", "deleted"} :
              [watcher[v] EXCEPT !.pc = pc] \in Pass
        /\ \A b \in BOOLEAN :
              [watcher[v] EXCEPT !.pc = "opened", !.end = Len(tar'), !.present = b] \in Pass
        /\ [watcher[v] EXCEPT !.pc = "next", !.id = 0, !.end = 0, !.present = FALSE] \in Pass
    BY <2>1, <2>4 DEF Pass
  <2>6. \E w \in Pass : watcher' = [watcher EXCEPT ![v] = w]
    <3>1. CASE OpenTar(v)
      <4>1. \E b \in BOOLEAN : watcher' = [watcher EXCEPT ![v] =
               [watcher[v] EXCEPT !.pc = "opened", !.end = Len(tar'), !.present = b]]
        BY <3>1 DEF OpenTar
      <4> QED BY <2>5, <4>1
    <3>2. CASE ~OpenTar(v)
      <4>1. \E w \in { [watcher[v] EXCEPT !.pc = "append"], [watcher[v] EXCEPT !.pc = "create"],
                       [watcher[v] EXCEPT !.pc = "added"], [watcher[v] EXCEPT !.pc = "deleted"],
                       [watcher[v] EXCEPT !.pc = "next", !.id = 0, !.end = 0,
                                          !.present = FALSE] } :
               watcher' = [watcher EXCEPT ![v] = w]
        BY <1>3, <3>2 DEF LookForTar, DeleteRaw, CommitProcessed, AddMember
      <4> QED BY <2>5, <4>1
    <3> QED BY <3>1, <3>2
  <2>7. watcher' \in [Watchers -> {NoPass} \union Pass]
    BY <2>6 DEF TypeOK
  <2>8. raw' \in [Keys -> Contents \union {NoFile}]
    BY <1>3 DEF LookForTar, OpenTar, DeleteRaw, CommitProcessed, AddMember, TypeOK
  <2>9. table' \in Seq([key : Keys, processed : BOOLEAN])
    <3>1. watcher[v].id \in DOMAIN table
      BY <2>1, PassRow
    <3>2. table' = table \/ table' = [table EXCEPT ![watcher[v].id].processed = TRUE]
      BY <1>3 DEF LookForTar, OpenTar, DeleteRaw, CommitProcessed, AddMember
    <3> QED BY <3>1, <3>2, FlagRow DEF TypeOK
  <2>10. torn' \in BOOLEAN /\ UNCHANGED <<reporter, upload, failures>>
    BY <1>3 DEF LookForTar, OpenTar, DeleteRaw, CommitProcessed, AddMember, TypeOK
  <2> QED BY <2>3, <2>7, <2>8, <2>9, <2>10 DEF TypeOK
<1>4. CASE RefusePass(v) \/ EndPass(v) \/ MissPart(v)
  <2>1. watcher' \in [Watchers -> {NoPass} \union Pass]
    BY <1>4 DEF RefusePass, EndPass, MissPart, TypeOK
  <2> QED BY <1>4, <2>1 DEF RefusePass, EndPass, MissPart, TypeOK
<1>5. CASE FailPass(v)
  <2>1. watcher' \in [Watchers -> {NoPass} \union Pass] /\ torn' \in BOOLEAN
    BY <1>5 DEF FailPass, TypeOK
  <2>2. failures' \in 0..MaxFailures
    BY <1>5, FailuresKeepType DEF FailPass
  <2> QED BY <1>5, <2>1, <2>2, TarOfFailPass DEF FailPass, TypeOK
<1> QED BY <1>1, <1>2, <1>3, <1>4, <1>5 DEF WatcherStep

LEMMA TypeIsKept ==
    ASSUME TypeOK, PartsInv, \A v \in Watchers : PassInv(v), Next
    PROVE  TypeOK'
BY ReporterKeepsType, UploadKeepsType, WatcherKeepsType DEF Next, Fault

-----------------------------------------------------------------------------
(***************************************************************************)
(* The rows.                                                               *)
(***************************************************************************)
\* A step that leaves the rows' keys alone and starts no writing keeps the
\* table, if no file of a transaction that writes is deleted.
LEMMA TableKept ==
    ASSUME TypeOK, TableInv,
           DOMAIN table' = DOMAIN table, \A i \in DOMAIN table : table'[i].key = table[i].key,
           \A t \in Threads : Writing(t)' => Writing(t) /\ upload'[t].key = upload[t].key,
           \A t \in Threads : upload'[t].pc = "saved" =>
               raw'[upload[t].key] # NoFile
    PROVE  TableInv'
<1>1. \A k : Rows(k)' = Rows(k)
  BY DEF Rows
<1>2. \A t \in Threads : upload'[t].pc = "saved" => Writing(t)'
  BY DEF Writing
<1> QED BY <1>1, <1>2 DEF TableInv

LEMMA CommitKeepsTable ==
    ASSUME TypeOK, TableInv, NEW t \in Threads, CommitUpload(t)
    PROVE  TableInv'
<1> DEFINE S == [key : Keys, processed : BOOLEAN]
           k == upload[t].key
           row == [key |-> k, processed |-> FALSE]
<1>1. Writing(t) /\ k \in Keys /\ row \in S /\ row.key = k
  BY BusyUpload, UploadShape DEF CommitUpload, Writing
<1>2. table \in Seq(S) /\ table' = Append(table, row) /\ raw' = raw
  BY DEF TypeOK, CommitUpload
<1>3. \A i \in DOMAIN table : table[i].key # k
  BY <1>1 DEF TableInv, Rows
<1>4. upload'[t].pc = "done" /\ \A s \in Threads \ {t} : upload'[s] = upload[s]
  <2>1. upload[t] \in Upload
    BY BusyUpload, UploadShape DEF CommitUpload
  <2> QED BY <2>1 DEF CommitUpload, TypeOK, Upload
<1>5. \A s \in Threads : ~Writing(s)'
  BY <1>1, <1>4 DEF Writing, TableInv
<1> HIDE DEF S, row, k
<1>6. \A i, j \in DOMAIN table' : table'[i].key = table'[j].key => i = j
  <2>1. \A i \in DOMAIN table' : i \in DOMAIN table \/ i = Len(table) + 1
    BY <1>1, <1>2, Appended
  <2>2. \A i \in DOMAIN table : table'[i].key = table[i].key
    BY <1>1, <1>2, Appended
  <2>3. table'[Len(table) + 1].key = k
    BY <1>1, <1>2, Appended
  <2> QED BY <1>3, <2>1, <2>2, <2>3 DEF TableInv
<1> QED BY <1>5, <1>6 DEF TableInv, Writing

LEMMA InsertKeepsTable ==
    ASSUME TypeOK, TableInv, NEW t \in Threads, GetOrCreate(t) \/ SaveFile(t)
    PROVE  TableInv'
<1>1. PICK pc \in {"inserted", "saved", "done"} :
          /\ upload' = [upload EXCEPT ![t].pc = pc]
          /\ pc = "inserted" => Rows(upload[t].key) = {} /\ \A s \in Threads : ~Writing(s)
          /\ pc = "saved" => Writing(t) /\ raw'[upload[t].key] # NoFile
  <2>1. upload[t] # NoUpload
    BY BusyUpload DEF GetOrCreate, SaveFile
  <2>2. upload[t].key \in Keys /\ upload[t].content # NoFile
    BY <2>1, UploadShape DEF Contents, NoFile
  <2> QED BY <2>2 DEF GetOrCreate, SaveFile, Writing, TypeOK
<1>2. upload[t] # NoUpload /\ upload[t] \in Upload
  BY BusyUpload, UploadShape DEF GetOrCreate, SaveFile
<1>3. /\ upload'[t].pc = pc /\ upload'[t].key = upload[t].key
      /\ \A s \in Threads \ {t} : upload'[s] = upload[s]
  BY <1>1, <1>2 DEF Upload, TypeOK
<1>4. UNCHANGED table /\ \A k : Rows(k)' = Rows(k)
  BY DEF GetOrCreate, SaveFile, Rows
<1>5. \A k \in Keys : raw[k] # NoFile => raw'[k] # NoFile
  <2>1. upload[t].content # NoFile
    BY <1>2, UploadShape DEF Contents, NoFile
  <2> QED BY <2>1 DEF GetOrCreate, SaveFile, TypeOK
<1>6. \A s \in Threads : upload[s].pc = "saved" => upload[s].key \in Keys
  BY BusyUpload, UploadShape
<1> QED BY <1>1, <1>3, <1>4, <1>5, <1>6 DEF TableInv, Writing

\* The file a watcher deletes has a row, that of a transaction that writes none.
LEMMA WatcherKeepsTable ==
    ASSUME TypeOK, TableInv, NEW v \in Watchers, PassInv(v), WatcherStep(v) \/ FailPass(v)
    PROVE  TableInv'
<1>1. UNCHANGED upload
  BY DEF WatcherStep, StartPass, BeginPart, LookForTar, OpenTar, AddMember, DeleteRaw,
         CommitProcessed, RefusePass, EndPass, MissPart, FailPass
<1>2. DOMAIN table' = DOMAIN table /\ \A i \in DOMAIN table : table'[i].key = table[i].key
  <2>1. CASE CommitProcessed(v)
    <3>1. watcher[v].id \in DOMAIN table
      BY <2>1, PassRow DEF CommitProcessed
    <3> QED BY <2>1, <3>1, FlagRow DEF CommitProcessed
  <2>2. CASE ~CommitProcessed(v)
    BY <2>2 DEF WatcherStep, StartPass, BeginPart, LookForTar, OpenTar, AddMember, DeleteRaw,
                RefusePass, EndPass, MissPart, FailPass
  <2> QED BY <2>1, <2>2
<1>3. ASSUME NEW t \in Threads, upload[t].pc = "saved" PROVE raw'[upload[t].key] # NoFile
  <2>1. Writing(t) /\ raw[upload[t].key] # NoFile /\ Rows(upload[t].key) = {}
    BY <1>3 DEF TableInv, Writing
  <2>2. upload[t].key \in Keys
    BY <1>3, BusyUpload, UploadShape
  <2>3. CASE DeleteRaw(v)
    <3>1. watcher[v].id \in DOMAIN table
      BY <2>3, PassRow DEF DeleteRaw
    <3>2. Key(v) # upload[t].key
      BY <2>1, <3>1 DEF Rows, Key
    <3> QED BY <2>1, <2>2, <2>3, <3>2 DEF DeleteRaw, TypeOK
  <2>4. CASE ~DeleteRaw(v)
    BY <2>1, <2>4 DEF WatcherStep, StartPass, BeginPart, LookForTar, OpenTar, AddMember,
                      CommitProcessed, RefusePass, EndPass, MissPart, FailPass
  <2> QED BY <2>3, <2>4
<1> QED BY <1>1, <1>2, <1>3, TableKept DEF Writing

LEMMA TableIsKept ==
    ASSUME TypeOK, TableInv, \A v \in Watchers : PassInv(v), Next
    PROVE  TableInv'
<1>1. ASSUME NEW r \in Reporters, ReporterStep(r) PROVE TableInv'
  <2>1. UNCHANGED <<table, raw>>
    BY <1>1 DEF ReporterStep, WriteGame, FinishGames, Checkpoint, FinalCheckpoint, Send, Close
  <2>2. \A t \in Threads : upload'[t] = upload[t] \/ upload'[t].pc = "received"
    BY <1>1 DEF ReporterStep, WriteGame, FinishGames, Checkpoint, FinalCheckpoint, Send, Close,
                TypeOK
  <2>3. \A t \in Threads : Writing(t)' => Writing(t) /\ upload'[t].key = upload[t].key
    BY <2>2 DEF Writing
  <2> QED BY <2>1, <2>2, <2>3, TableKept DEF TableInv
<1>2. ASSUME NEW t \in Threads, ReplyUpload(t) \/ FailUpload(t) \/ GiveUpUpload(t)
      PROVE  TableInv'
  <2>1. UNCHANGED <<table, raw>>
    BY <1>2 DEF ReplyUpload, FailUpload, GiveUpUpload
  <2>2. \A s \in Threads : \/ upload'[s] = NoUpload
                           \/ upload'[s].pc = upload[s].pc /\ upload'[s].key = upload[s].key
    <3>1. upload[t] \in Upload
      BY <1>2, BusyUpload, UploadShape DEF ReplyUpload, FailUpload, GiveUpUpload
    <3> QED BY <1>2, <3>1 DEF ReplyUpload, FailUpload, GiveUpUpload, TypeOK, Upload
  <2>3. \A s \in Threads : Writing(s)' => Writing(s) /\ upload'[s].key = upload[s].key
    BY <2>2 DEF Writing, NoUpload
  <2>4. \A s \in Threads : upload'[s].pc = "saved" => raw'[upload[s].key] # NoFile
    BY <2>1, <2>2 DEF TableInv, NoUpload
  <2> QED BY <2>1, <2>3, <2>4, TableKept
<1> QED BY <1>1, <1>2, CommitKeepsTable, InsertKeepsTable, WatcherKeepsTable
        DEF Next, UploadStep, WatcherStep, Fault

-----------------------------------------------------------------------------
(***************************************************************************)
(* The archive.                                                            *)
(***************************************************************************)
\* A pass is not disturbed by what becomes of the rows behind those it found.
LEMMA PassKept ==
    ASSUME TypeOK, NEW v \in Watchers, PassInv(v),
           watcher'[v] = watcher[v], UNCHANGED tar, DOMAIN table \subseteq DOMAIN table',
           \A i \in DOMAIN table : table'[i].key = table[i].key
    PROVE  PassInv(v)'
<1>1. \A k : Members(k)' = Members(k)
  BY DEF Members
<1>2. ASSUME watcher[v] # NoPass, watcher[v].pc # "next" PROVE Key(v)' = Key(v)
  <2>1. watcher[v].id \in DOMAIN table
    BY <1>2 DEF PassInv
  <2> QED BY <2>1 DEF Key
<1>3. watcher[v] # NoPass => watcher[v] \in Pass
  BY PassShape
<1> QED BY <1>1, <1>2, <1>3 DEF PassInv

LEMMA CommitKeepsTar ==
    ASSUME TypeOK, TableInv, TarInv, NEW t \in Threads, CommitUpload(t)
    PROVE  TarInv'
<1> DEFINE S == [key : Keys, processed : BOOLEAN]
           row == [key |-> upload[t].key, processed |-> FALSE]
           n == Len(table) + 1
<1>1. row \in S /\ row.key = upload[t].key /\ ~row.processed /\ raw[row.key] # NoFile
  BY BusyUpload, UploadShape DEF CommitUpload, TableInv
<1>2. table \in Seq(S) /\ table' = Append(table, row) /\ UNCHANGED <<raw, tar, watcher>>
  BY DEF TypeOK, CommitUpload
<1> HIDE DEF S, row
<1>3. /\ DOMAIN table' = DOMAIN table \union {n} /\ table'[n] = row
      /\ \A i \in DOMAIN table : table'[i] = table[i]
  BY <1>1, <1>2, Appended
<1> HIDE DEF n
<1>4. \A v \in Watchers : PassInv(v)'
  BY <1>2, <1>3, PassKept DEF TarInv
<1>5. \A k : Members(k)' = Members(k)
  BY <1>2 DEF Members
<1>6. ProcessedIsArchived'
  BY <1>1, <1>3, <1>5 DEF TarInv, ProcessedIsArchived
<1>7. UnprocessedIsKept'
  BY <1>1, <1>2, <1>3, <1>5 DEF TarInv, UnprocessedIsKept, Unprocessed
<1> QED BY <1>2, <1>4, <1>6, <1>7 DEF TarInv

\* A step keeps the archive that leaves it, the rows and the passes alone, and
\* deletes no file.
LEMMA TarKept ==
    ASSUME TypeOK, TarInv, UNCHANGED <<table, tar>>,
           \A v \in Watchers : watcher'[v] = watcher[v] \/ watcher'[v] = NoPass,
           \A k \in Keys : raw[k] # NoFile => raw'[k] # NoFile
    PROVE  TarInv'
<1>1. \A v \in Watchers : PassInv(v)'
  <2> SUFFICES ASSUME NEW v \in Watchers PROVE PassInv(v)'
    OBVIOUS
  <2>1. CASE watcher'[v] = watcher[v]
    BY <2>1, PassKept DEF TarInv
  <2>2. CASE watcher'[v] = NoPass
    BY <2>2 DEF PassInv
  <2> QED BY <2>1, <2>2
<1>2. \A k : Members(k)' = Members(k)
  BY DEF Members
<1>3. \A i \in DOMAIN table : table[i].key \in Keys
  <2>1. \A i \in DOMAIN table : table[i] \in [key : Keys, processed : BOOLEAN]
    BY SeqElements DEF TypeOK
  <2> QED BY <2>1
<1> QED BY <1>1, <1>2, <1>3 DEF TarInv, ProcessedIsArchived, UnprocessedIsKept, Unprocessed

LEMMA OthersKeepTar ==
    ASSUME TypeOK, TableInv, TarInv,
           \/ \E r \in Reporters : ReporterStep(r)
           \/ \E t \in Threads : UploadStep(t) \/ FailUpload(t) \/ GiveUpUpload(t)
    PROVE  TarInv'
<1>1. CASE \E t \in Threads : CommitUpload(t)
  BY <1>1, CommitKeepsTar
<1>2. CASE \E r \in Reporters : ReporterStep(r)
  BY <1>2, TarKept
     DEF ReporterStep, WriteGame, FinishGames, Checkpoint, FinalCheckpoint, Send, Close
<1>3. ASSUME NEW t \in Threads, \/ GetOrCreate(t) \/ SaveFile(t) \/ ReplyUpload(t)
                                \/ FailUpload(t) \/ GiveUpUpload(t)
      PROVE  TarInv'
  <2>1. upload[t].content # NoFile
    BY <1>3, BusyUpload, UploadShape DEF GetOrCreate, SaveFile, ReplyUpload, FailUpload,
       GiveUpUpload, Contents, NoFile
  <2>2. \A k \in Keys : raw[k] # NoFile => raw'[k] # NoFile
    BY <1>3, <2>1 DEF GetOrCreate, SaveFile, ReplyUpload, FailUpload, GiveUpUpload, TypeOK
  <2>3. UNCHANGED <<table, tar, watcher>>
    BY <1>3 DEF GetOrCreate, SaveFile, ReplyUpload, FailUpload, GiveUpUpload
  <2> QED BY <2>2, <2>3, TarKept
<1> QED BY <1>1, <1>2, <1>3 DEF UploadStep

\* The steps of a pass that change neither the archive nor the rows.
LEMMA PassKeepsTar ==
    ASSUME TypeOK, TarInv, NEW v \in Watchers, LoneWatcher,
           \/ StartPass(v) \/ BeginPart(v) \/ LookForTar(v) \/ OpenTar(v)
           \/ RefusePass(v) \/ EndPass(v) \/ MissPart(v) \/ FailPass(v)
    PROVE  TarInv'
<1>1. UNCHANGED <<table, raw>>
  BY DEF StartPass, BeginPart, LookForTar, OpenTar, RefusePass, EndPass, MissPart, FailPass
<1>2. PassInv(v) /\ tar' = tar
  BY TarOfOpen, TarOfFailPass
     DEF TarInv, StartPass, BeginPart, LookForTar, RefusePass, EndPass, MissPart
<1>3. \A k : Members(k)' = Members(k)
  BY <1>2 DEF Members
<1>4. PassInv(v)'
  <2>1. CASE RefusePass(v) \/ EndPass(v) \/ MissPart(v) \/ FailPass(v)
    <3>1. watcher'[v] = NoPass
      BY <2>1 DEF RefusePass, EndPass, MissPart, FailPass, TypeOK
    <3> QED BY <3>1 DEF PassInv
  <2>2. CASE StartPass(v)
    <3>1. watcher'[v] = [pc |-> "next", todo |-> Unprocessed, id |-> 0, end |-> 0,
                         present |-> FALSE]
      BY <2>2 DEF StartPass, TypeOK
    <3> QED BY <1>1, <3>1 DEF PassInv, Unprocessed
  <2>3. CASE BeginPart(v)
    <3> DEFINE i == First(watcher[v].todo)
    <3>1. /\ watcher[v] # NoPass /\ watcher[v] \in Pass /\ watcher[v].pc = "next"
          /\ watcher[v].todo \subseteq DOMAIN table /\ watcher[v].id = 0
      BY <1>2, <2>3, BusyPass, PassShape DEF BeginPart, PassInv
    <3>2. i \in DOMAIN table /\ i # 0
      <4>1. i \in watcher[v].todo
        BY <2>3, <3>1, PassShape, FirstIsOne DEF BeginPart
      <4>2. DOMAIN table = 1..Len(table) /\ Len(table) \in Nat
        BY DEF TypeOK
      <4> QED BY <3>1, <4>1, <4>2
    <3>3. /\ watcher'[v].todo = watcher[v].todo \ {i}
          /\ \/ watcher'[v].pc = "next" /\ watcher'[v].id = 0
             \/ watcher'[v].pc = "begun" /\ watcher'[v].id = i
      <4>1. \E pc \in {"begun", "next"}, id \in {0, i} :
               /\ pc = "next" <=> id = 0
               /\ watcher' = [watcher EXCEPT ![v] =
                               [watcher[v] EXCEPT !.todo = @ \ {i}, !.pc = pc, !.id = id]]
        BY <2>3, <3>1, <3>2 DEF BeginPart
      <4> HIDE DEF i
      <4>2. \A pc \in {"begun", "next"}, id \in {0, i} :
               LET w == [watcher[v] EXCEPT !.todo = @ \ {i}, !.pc = pc, !.id = id]
               IN  w.todo = watcher[v].todo \ {i} /\ w.pc = pc /\ w.id = id
        BY <3>1 DEF Pass
      <4>3. \E pc \in {"begun", "next"}, id \in {0, i} :
               /\ pc = "next" <=> id = 0
               /\ watcher'[v] = [watcher[v] EXCEPT !.todo = @ \ {i}, !.pc = pc, !.id = id]
        BY <4>1 DEF TypeOK
      <4> QED BY <4>2, <4>3
    <3> HIDE DEF i
    <3> QED BY <1>1, <3>1, <3>2, <3>3 DEF PassInv
  <2>4. CASE LookForTar(v)
    <3>1. watcher[v] # NoPass /\ watcher[v] \in Pass /\ watcher[v].pc = "begun"
      BY <2>4, BusyPass, PassShape DEF LookForTar
    <3>2. /\ watcher'[v].todo = watcher[v].todo /\ watcher'[v].id = watcher[v].id
          /\ watcher'[v].pc \in {"append", "create"}
          /\ watcher'[v].pc = "create" => tar = <<>>
      BY <2>4, <3>1 DEF LookForTar, TypeOK, Pass
    <3> QED BY <1>1, <1>2, <3>1, <3>2 DEF PassInv
  <2>5. CASE OpenTar(v)
    <3>1. watcher[v] # NoPass /\ watcher[v] \in Pass /\ watcher[v].pc \in {"append", "create"}
      BY <2>5, BusyPass, PassShape DEF OpenTar
    <3>2. PICK b \in BOOLEAN :
              /\ b <=> Members(Key(v)) # {}
              /\ watcher' = [watcher EXCEPT ![v].pc = "opened", ![v].end = Len(tar),
                                            ![v].present = b]
      BY <1>2, <2>5 DEF OpenTar, Members
    <3>3. /\ watcher'[v].todo = watcher[v].todo /\ watcher'[v].id = watcher[v].id
          /\ watcher'[v].pc = "opened" /\ watcher'[v].end = Len(tar) /\ watcher'[v].present = b
      BY <3>1, <3>2 DEF TypeOK, Pass
    <3>4. Key(v)' = Key(v)
      BY <1>1, <3>3 DEF Key
    <3> QED BY <1>1, <1>2, <1>3, <3>1, <3>2, <3>3, <3>4 DEF PassInv
  <2> QED BY <2>1, <2>2, <2>3, <2>4, <2>5
<1>5. \A u \in Watchers : PassInv(u)'
  BY <1>4 DEF LoneWatcher
<1> QED BY <1>1, <1>2, <1>3, <1>5 DEF TarInv, ProcessedIsArchived, UnprocessedIsKept, Unprocessed

\* A member is added when its key has none.
LEMMA AddKeepsTar ==
    ASSUME TypeOK, TarInv, NEW v \in Watchers, LoneWatcher, AddMember(v)
    PROVE  TarInv'
<1> DEFINE S == [key : Keys, content : Contents]
           k == Key(v)
           n == Len(tar) + 1
<1>1. /\ watcher[v] # NoPass /\ watcher[v] \in Pass /\ PassInv(v)
      /\ watcher[v].pc = "opened" /\ watcher[v].id \in DOMAIN table
  BY BusyPass, PassShape, PassRow DEF AddMember, TarInv
<1>2. /\ watcher'[v].pc = "added" /\ watcher'[v].id = watcher[v].id
      /\ watcher'[v].todo = watcher[v].todo
  BY <1>1 DEF AddMember, TypeOK, Pass
<1>3. UNCHANGED <<table, raw>> /\ Key(v)' = k
  BY <1>2 DEF AddMember, Key
<1>4. \/ tar' = tar /\ Members(k) # {}
      \/ Members(k) = {} /\ raw[k] # NoFile /\ tar' = Append(tar, Member(v))
  BY <1>1, TarOfAdd
<1>5. /\ \A i, j \in DOMAIN tar' : tar'[i].key = tar'[j].key => i = j
      /\ \A key : Members(key) # {} \/ key = k => Members(key)' # {}
  <2>1. CASE tar' = tar /\ Members(k) # {}
    BY <2>1 DEF TarInv, Members
  <2>2. CASE Members(k) = {} /\ raw[k] # NoFile /\ tar' = Append(tar, Member(v))
    <3>1. tar \in Seq(S) /\ Member(v) \in S /\ Member(v).key = k
      BY <1>1, <2>2, PassRow DEF TypeOK, Member
    <3> HIDE DEF S, k
    <3>2. /\ DOMAIN tar' = DOMAIN tar \union {n} /\ tar'[n].key = k
          /\ \A i \in DOMAIN tar : tar'[i] = tar[i]
      BY <2>2, <3>1, Appended
    <3>3. \A i \in DOMAIN tar : tar[i].key # k
      BY <2>2 DEF Members
    <3> HIDE DEF n
    <3> QED BY <3>2, <3>3 DEF TarInv, Members
  <2> QED BY <1>4, <2>1, <2>2
<1>6. PassInv(v)'
  <2>1. \A key : key = k => Members(key)' # {}
    BY <1>5
  <2>2. Members(Key(v))' # {}
    BY <1>3, <2>1
  <2> QED BY <1>1, <1>2, <1>3, <2>2 DEF PassInv
<1>7. \A u \in Watchers : PassInv(u)'
  BY <1>6 DEF LoneWatcher
<1> QED BY <1>3, <1>5, <1>7 DEF TarInv, ProcessedIsArchived, UnprocessedIsKept, Unprocessed

\* A file is deleted when its key has a member.
LEMMA DeleteKeepsTar ==
    ASSUME TypeOK, TarInv, NEW v \in Watchers, LoneWatcher, DeleteRaw(v)
    PROVE  TarInv'
<1>1. /\ watcher[v] # NoPass /\ watcher[v] \in Pass /\ PassInv(v)
      /\ watcher[v].pc = "added" /\ watcher[v].id \in DOMAIN table
  BY BusyPass, PassShape, PassRow DEF DeleteRaw, TarInv
<1>2. /\ watcher'[v].pc = "deleted" /\ watcher'[v].id = watcher[v].id
      /\ watcher'[v].todo = watcher[v].todo
  BY <1>1 DEF DeleteRaw, TypeOK, Pass
<1>3. UNCHANGED <<table, tar>> /\ Key(v)' = Key(v) /\ Members(Key(v)) # {}
  BY <1>1, <1>2 DEF DeleteRaw, Key, PassInv
<1>4. \A k : Members(k)' = Members(k)
  BY <1>3 DEF Members
<1>5. PassInv(v)'
  BY <1>1, <1>2, <1>3, <1>4 DEF PassInv
<1>6. \A u \in Watchers : PassInv(u)'
  BY <1>5 DEF LoneWatcher
<1>7. \A i \in DOMAIN table : table[i].key \in Keys
  <2>1. \A i \in DOMAIN table : table[i] \in [key : Keys, processed : BOOLEAN]
    BY SeqElements DEF TypeOK
  <2> QED BY <2>1
<1>8. \A k \in Keys : raw'[k] = raw[k] \/ k = Key(v)
  BY DEF DeleteRaw, TypeOK
<1>9. UnprocessedIsKept'
  BY <1>3, <1>4, <1>7, <1>8 DEF TarInv, UnprocessedIsKept, Unprocessed
<1> QED BY <1>3, <1>4, <1>6, <1>9 DEF TarInv, ProcessedIsArchived

\* A row is flagged when its key has a member.
LEMMA FlagKeepsTar ==
    ASSUME TypeOK, TarInv, NEW v \in Watchers, LoneWatcher, CommitProcessed(v)
    PROVE  TarInv'
<1> DEFINE i == watcher[v].id
<1>1. /\ watcher[v] # NoPass /\ watcher[v] \in Pass /\ PassInv(v)
      /\ watcher[v].pc = "deleted" /\ i \in DOMAIN table
  BY BusyPass, PassShape, PassRow DEF CommitProcessed, TarInv
<1>2. /\ watcher'[v].pc = "next" /\ watcher'[v].id = 0
      /\ watcher'[v].todo = watcher[v].todo
  BY <1>1 DEF CommitProcessed, TypeOK, Pass
<1>3. UNCHANGED <<tar, raw>> /\ Members(table[i].key) # {}
  BY <1>1 DEF CommitProcessed, Key, PassInv
<1>4. /\ DOMAIN table' = DOMAIN table
      /\ \A j \in DOMAIN table : table'[j].key = table[j].key
      /\ \A j \in DOMAIN table \ {i} : table'[j] = table[j]
      /\ table'[i].processed
  BY <1>1, FlagRow DEF CommitProcessed
<1> HIDE DEF i
<1>5. \A k : Members(k)' = Members(k)
  BY <1>3 DEF Members
<1>6. PassInv(v)'
  BY <1>1, <1>2, <1>3, <1>4 DEF PassInv
<1>7. \A u \in Watchers : PassInv(u)'
  BY <1>6 DEF LoneWatcher
<1>8. ProcessedIsArchived' /\ UnprocessedIsKept'
  BY <1>3, <1>4, <1>5 DEF TarInv, ProcessedIsArchived, UnprocessedIsKept, Unprocessed
<1> QED BY <1>3, <1>7, <1>8 DEF TarInv

-----------------------------------------------------------------------------
(***************************************************************************)
(* The invariant.                                                          *)
(***************************************************************************)
LEMMA ArchiveInvInit == Init => ArchiveInv
<1> SUFFICES ASSUME Init PROVE ArchiveInv
    OBVIOUS
<1>1. TypeOK
  <2>1. reporter \in [Reporters -> Reporter]
    BY ArchiveAssumption DEF Init, Reporter, Games, ArchiveAssumption
  <2>2. failures \in 0..MaxFailures
    BY ArchiveAssumption DEF Init, ArchiveAssumption
  <2>3. \A S : <<>> \in Seq(S)
    OBVIOUS
  <2>4. table \in Seq([key : Keys, processed : BOOLEAN]) /\ tar \in Seq([key : Keys, content : Contents])
    BY <2>3 DEF Init
  <2>5. /\ upload \in [Threads -> {NoUpload} \union Upload]
        /\ raw \in [Keys -> Contents \union {NoFile}]
        /\ watcher \in [Watchers -> {NoPass} \union Pass]
        /\ torn \in BOOLEAN
    BY DEF Init
  <2> QED BY <2>1, <2>2, <2>4, <2>5 DEF TypeOK
<1>2. Parts = {}
  BY DEF Init, Parts, UploadedParts, FileParts, TarParts
<1>3. PartsInv
  BY <1>2 DEF Init, PartsInv, Awaited
<1>4. TableInv
  BY DEF Init, TableInv, Writing, NoUpload
<1>5. TarInv
  BY DEF Init, TarInv, PassInv, ProcessedIsArchived, UnprocessedIsKept, Unprocessed
<1> QED BY <1>1, <1>3, <1>4, <1>5 DEF ArchiveInv

LEMMA ArchiveInvNext == LoneWatcher /\ ArchiveInv /\ [Next]_vars => ArchiveInv'
<1> SUFFICES ASSUME LoneWatcher, ArchiveInv, [Next]_vars PROVE ArchiveInv'
    OBVIOUS
<1>1. TypeOK /\ PartsInv /\ TableInv /\ TarInv /\ \A v \in Watchers : PassInv(v)
  BY DEF ArchiveInv, TarInv
<1>2. CASE Next
  <2>1. TypeOK' /\ PartsInv' /\ TableInv'
    BY <1>1, <1>2, TypeIsKept, OrderIsKept, TableIsKept
  <2>2. TarInv'
    BY <1>1, <1>2, OthersKeepTar, PassKeepsTar, AddKeepsTar, DeleteKeepsTar, FlagKeepsTar
       DEF Next, UploadStep, WatcherStep, Fault
  <2> QED BY <2>1, <2>2 DEF ArchiveInv
<1>3. CASE UNCHANGED vars
  <2>1. TypeOK'
    BY <1>1, <1>3 DEF vars, TypeOK
  <2>2. PartsInv'
    BY <1>1, <1>3 DEF vars, PartsInv, Parts, UploadedParts, FileParts, TarParts, Placed,
       InOrder, Awaited, Last
  <2>3. TableInv'
    BY <1>1, <1>3 DEF vars, TableInv, Writing, Rows
  <2>4. TarInv'
    BY <1>1, <1>3 DEF vars, TarInv, PassInv, Key, Members, ProcessedIsArchived,
       UnprocessedIsKept, Unprocessed
  <2> QED BY <2>1, <2>2, <2>3, <2>4 DEF ArchiveInv
<1> QED BY <1>2, <1>3

THEOREM ArchiveInvariant == ASSUME LoneWatcher PROVE Spec => []ArchiveInv
<1>1. ArchiveInv /\ [Next]_vars => ArchiveInv'
  BY ArchiveInvNext
<1> QED BY <1>1, ArchiveInvInit, PTL DEF Spec

\* The archive's state has the types TypeOK gives it.
THEOREM ArchiveTypeCorrect == ASSUME LoneWatcher PROVE Spec => []TypeOK
<1>1. ArchiveInv => TypeOK
  BY DEF ArchiveInv
<1> QED BY <1>1, ArchiveInvariant, PTL

\* No game is in the archive twice, whatever is retried or fails.
THEOREM GamesArchivedOnce == ASSUME LoneWatcher PROVE Spec => []NoGameArchivedTwice
<1>1. ArchiveInv => NoGameArchivedTwice
  <2> SUFFICES ASSUME ArchiveInv, NEW i \in DOMAIN tar, NEW j \in DOMAIN tar, i # j,
                      tar[i].key[1] = tar[j].key[1]
               PROVE  ~Overlapping(tar[i].content, tar[j].content)
    BY DEF NoGameArchivedTwice
  <2>1. TypeOK /\ tar[i].key # tar[j].key /\ tar[i] \in Parts /\ tar[j] \in Parts
    BY DEF ArchiveInv, TarInv, Parts, TarParts
  <2>2. InOrder(tar[i], tar[j]) /\ InOrder(tar[j], tar[i])
    BY <2>1 DEF ArchiveInv, PartsInv
  <2>3. \A p \in Parts : p.key = <<p.key[1], p.key[2]>> /\ p.key[2] \in Nat
                         /\ p.content.from \in Nat /\ p.content.to \in Nat
    BY <2>1, PartShape, KeyShape, ArchiveAssumption DEF ArchiveAssumption
  <2>4. tar[i].key[2] # tar[j].key[2]
    BY <2>1, <2>3
  <2> QED BY <2>1, <2>2, <2>3, <2>4 DEF InOrder, Overlapping
<1> QED BY <1>1, ArchiveInvariant, PTL

\* A row that is flagged processed has its games in the archive.
THEOREM FlagIsTrue == ASSUME LoneWatcher PROVE Spec => []ProcessedIsArchived
<1>1. ArchiveInv => ProcessedIsArchived
  BY DEF ArchiveInv, TarInv
<1> QED BY <1>1, ArchiveInvariant, PTL

\* A row that is not has its games in its file or already in the archive.
THEOREM NothingCommittedIsLost == ASSUME LoneWatcher PROVE Spec => []UnprocessedIsKept
<1>1. ArchiveInv => UnprocessedIsKept
  BY DEF ArchiveInv, TarInv
<1> QED BY <1>1, ArchiveInvariant, PTL

-----------------------------------------------------------------------------
(***************************************************************************)
(* The archive implements PartStore.                                       *)
(***************************************************************************)
Kept     == [k \in Keys |-> IF Rows(k) = {} THEN NoFile ELSE ContentOf(k)]
Archived == { k \in Keys : \E i \in Rows(k) : table[i].processed }

LEMMA MemberContent ==
    ASSUME TypeOK, NEW k \in Keys, Members(k) # {}
    PROVE  /\ First(Members(k)) \in Members(k)
           /\ ContentOf(k) = tar[First(Members(k))].content
           /\ ContentOf(k) \in Contents /\ ContentOf(k) # NoFile
<1>1. Members(k) \in SUBSET Nat
  BY SeqElements DEF TypeOK, Members
<1>2. First(Members(k)) \in Members(k)
  BY <1>1, FirstIsOne
<1>3. \A i \in DOMAIN tar : tar[i] \in [key : Keys, content : Contents]
  BY SeqElements DEF TypeOK
<1>4. tar[First(Members(k))].content \in Contents
  BY <1>2, <1>3 DEF Members
<1> QED BY <1>2, <1>4 DEF ContentOf, Contents, NoFile

\* A step that changes no row, and no content of a row, is not seen.
LEMMA StoreUnchanged ==
    ASSUME UNCHANGED table, \A k \in Keys : Rows(k) # {} => ContentOf(k)' = ContentOf(k)
    PROVE  Kept' = Kept /\ Archived' = Archived
<1>1. \A k : Rows(k)' = Rows(k)
  BY DEF Rows
<1> QED BY <1>1 DEF Kept, Archived

LEMMA CommitKeepsPart ==
    ASSUME ArchiveInv, NEW t \in Threads, CommitUpload(t)
    PROVE  \E k \in Keys : \E c \in Contents :
               Kept[k] = NoFile /\ Kept' = [Kept EXCEPT ![k] = c] /\ Archived' = Archived
<1> DEFINE S == [key : Keys, processed : BOOLEAN]
           k == upload[t].key
           row == [key |-> k, processed |-> FALSE]
           n == Len(table) + 1
<1>1. /\ TypeOK /\ TableInv /\ Writing(t) /\ k \in Keys /\ row \in S /\ row.key = k
      /\ ~row.processed /\ raw[k] # NoFile /\ Rows(k) = {}
  BY BusyUpload, UploadShape DEF CommitUpload, Writing, ArchiveInv, TableInv
<1>2. table \in Seq(S) /\ table' = Append(table, row) /\ UNCHANGED <<raw, tar>>
  BY <1>1 DEF TypeOK, CommitUpload
<1> HIDE DEF S, row
<1>3. /\ DOMAIN table' = DOMAIN table \union {n} /\ n \notin DOMAIN table /\ table'[n] = row
      /\ \A i \in DOMAIN table : table'[i] = table[i]
  BY <1>1, <1>2, Appended
<1> HIDE DEF n, k
<1>4. \A key : key # k => Rows(key)' = Rows(key)
  BY <1>1, <1>3 DEF Rows
<1>5. \A key : key = k => Rows(key)' = {n}
  BY <1>1, <1>3 DEF Rows
<1>6. \A key : ContentOf(key)' = ContentOf(key)
  BY <1>2 DEF ContentOf, Members
<1>7. ContentOf(k) \in Contents
  BY <1>1, MemberContent DEF ContentOf, TypeOK
<1>8. Kept[k] = NoFile /\ Kept' = [Kept EXCEPT ![k] = ContentOf(k)]
  BY <1>1, <1>4, <1>5, <1>6 DEF Kept
<1>9. Archived' = Archived
  BY <1>1, <1>3, <1>4, <1>5 DEF Archived, Rows
<1> QED BY <1>1, <1>7, <1>8, <1>9

LEMMA FlagArchivesPart ==
    ASSUME ArchiveInv, NEW v \in Watchers, CommitProcessed(v)
    PROVE  \E k \in Keys :
               Kept[k] # NoFile /\ Kept' = Kept /\ Archived' = Archived \union {k}
<1> DEFINE i == watcher[v].id
           k == table[i].key
<1>1. /\ TypeOK /\ watcher[v] # NoPass /\ PassInv(v) /\ watcher[v].pc = "deleted"
      /\ i \in DOMAIN table /\ Key(v) \in Keys
  BY BusyPass, PassRow DEF CommitProcessed, ArchiveInv, TarInv
<1>2. UNCHANGED <<tar, raw>> /\ Members(k) # {} /\ k \in Keys
  BY <1>1 DEF CommitProcessed, Key, PassInv
<1>3. /\ DOMAIN table' = DOMAIN table
      /\ \A j \in DOMAIN table : table'[j].key = table[j].key
      /\ \A j \in DOMAIN table \ {i} : table'[j] = table[j]
      /\ table'[i].processed
  BY <1>1, FlagRow DEF CommitProcessed
<1>4. \A key : Rows(key)' = Rows(key) /\ ContentOf(key)' = ContentOf(key)
  BY <1>2, <1>3 DEF Rows, ContentOf, Members
<1>5. Kept' = Kept
  BY <1>4 DEF Kept
<1>6. i \in Rows(k) /\ \A key : i \in Rows(key) => key = k
  BY <1>1 DEF Rows
<1>7. Kept[k] # NoFile
  BY <1>1, <1>2, <1>6, MemberContent DEF Kept
<1> HIDE DEF i, k
<1>8. Archived' = Archived \union {k}
  <2>1. \A key \in Keys : (\E j \in Rows(key)' : table'[j].processed)
                          <=> key = k \/ \E j \in Rows(key) : table[j].processed
    BY <1>3, <1>4, <1>6 DEF Rows
  <2> QED BY <1>2, <2>1 DEF Archived
<1> QED BY <1>2, <1>5, <1>7, <1>8

\* The content of a row moves from its file into the archive unchanged.
LEMMA AddKeepsContent ==
    ASSUME ArchiveInv, NEW v \in Watchers, AddMember(v)
    PROVE  Kept' = Kept /\ Archived' = Archived
<1> DEFINE S == [key : Keys, content : Contents]
           k == Key(v)
           n == Len(tar) + 1
<1>1. TypeOK /\ PassInv(v) /\ watcher[v].pc = "opened" /\ UNCHANGED <<table, raw>>
  BY DEF ArchiveInv, TarInv, AddMember
<1>2. CASE tar' = tar
  <2>1. \A key : ContentOf(key)' = ContentOf(key)
    BY <1>1, <1>2 DEF ContentOf, Members
  <2> QED BY <1>1, <2>1, StoreUnchanged
<1>3. CASE Members(k) = {} /\ raw[k] # NoFile /\ tar' = Append(tar, Member(v))
  <2>1. tar \in Seq(S) /\ Member(v) \in S /\ Member(v).key = k /\ Member(v).content = raw[k]
    BY <1>1, <1>3, PassRow DEF TypeOK, Member
  <2> HIDE DEF S, k
  <2>2. /\ DOMAIN tar' = DOMAIN tar \union {n} /\ tar'[n].key = k /\ tar'[n].content = raw[k]
        /\ n \notin DOMAIN tar /\ n \in Nat /\ \A i \in DOMAIN tar : tar'[i] = tar[i]
    BY <1>3, <2>1, Appended
  <2> HIDE DEF n
  <2>3. ASSUME NEW key \in Keys PROVE ContentOf(key)' = ContentOf(key)
    <3>1. CASE key # k
      <4>1. Members(key)' = Members(key)
        BY <2>2, <3>1 DEF Members
      <4>2. CASE Members(key) = {}
        BY <1>1, <4>1, <4>2 DEF ContentOf
      <4>3. CASE Members(key) # {}
        <5>1. First(Members(key)) \in DOMAIN tar
          BY <1>1, <4>3, MemberContent DEF Members
        <5> QED BY <2>2, <4>1, <4>3, <5>1 DEF ContentOf
      <4> QED BY <4>2, <4>3
    <3>2. CASE key = k
      <4>1. Members(key)' = {n} /\ Members(key) = {}
        BY <1>3, <2>2, <3>2 DEF Members
      <4>2. First({n}) = n
        BY <2>2, FirstIsOne
      <4> QED BY <2>2, <3>2, <4>1, <4>2 DEF ContentOf
    <3> QED BY <3>1, <3>2
  <2> QED BY <1>1, <2>3, StoreUnchanged
<1> QED BY <1>1, <1>2, <1>3, TarOfAdd

LEMMA OthersKeepContent ==
    ASSUME ArchiveInv, Next,
           ~ \E t \in Threads : CommitUpload(t),
           ~ \E v \in Watchers : CommitProcessed(v) \/ AddMember(v)
    PROVE  Kept' = Kept /\ Archived' = Archived
<1>1. TypeOK /\ TableInv /\ \A v \in Watchers : PassInv(v)
  BY DEF ArchiveInv, TarInv
<1>2. UNCHANGED <<table, tar>>
  <2>1. ASSUME NEW v \in Watchers, WatcherStep(v) \/ FailPass(v) PROVE UNCHANGED <<table, tar>>
    BY <1>1, <2>1, TarOfOpen, TarOfFailPass
       DEF WatcherStep, StartPass, BeginPart, LookForTar, OpenTar, DeleteRaw, RefusePass,
           EndPass, MissPart, FailPass
  <2> QED BY <2>1 DEF Next, Fault, ReporterStep, WriteGame, FinishGames, Checkpoint,
      FinalCheckpoint, Send, Close, UploadStep, GetOrCreate, SaveFile, ReplyUpload,
      FailUpload, GiveUpUpload
<1>3. ASSUME NEW k \in Keys, Rows(k) # {}
      PROVE  raw'[k] = raw[k] \/ Members(k) # {}
  <2>1. ASSUME NEW t \in Threads, SaveFile(t) PROVE raw'[k] = raw[k]
    <3>1. Rows(upload[t].key) = {}
      BY <1>1, <2>1 DEF SaveFile, TableInv, Writing
    <3> QED BY <1>1, <1>3, <2>1, <3>1 DEF SaveFile, TypeOK
  <2>2. ASSUME NEW v \in Watchers, DeleteRaw(v) PROVE raw'[k] = raw[k] \/ Members(k) # {}
    <3>1. Members(Key(v)) # {}
      BY <1>1, <2>2, BusyPass DEF DeleteRaw, PassInv
    <3> QED BY <1>1, <2>2, <3>1 DEF DeleteRaw, TypeOK
  <2> QED BY <2>1, <2>2 DEF Next, Fault, ReporterStep, WriteGame, FinishGames, Checkpoint,
      FinalCheckpoint, Send, Close, UploadStep, GetOrCreate, ReplyUpload, FailUpload,
      GiveUpUpload, WatcherStep, StartPass, BeginPart, LookForTar, OpenTar, RefusePass,
      EndPass, MissPart, FailPass
<1>4. \A k \in Keys : Rows(k) # {} => ContentOf(k)' = ContentOf(k)
  BY <1>2, <1>3 DEF ContentOf, Members
<1> QED BY <1>2, <1>4, StoreUnchanged

LEMMA StoreSteps == ArchiveInv /\ [Next]_vars => [Store!StoreNext]_(Store!storeVars)
<1> SUFFICES ASSUME ArchiveInv, [Next]_vars PROVE [Store!StoreNext]_(Store!storeVars)
    OBVIOUS
<1>1. \/ Kept' = Kept /\ Archived' = Archived
      \/ \E k \in Keys : \E c \in Contents :
             Kept[k] = NoFile /\ Kept' = [Kept EXCEPT ![k] = c] /\ Archived' = Archived
      \/ \E k \in Keys : Kept[k] # NoFile /\ Kept' = Kept /\ Archived' = Archived \union {k}
  <2>1. CASE UNCHANGED vars
    BY <2>1 DEF vars, Kept, Archived, Rows, ContentOf, Members
  <2>2. CASE Next
    BY <2>2, CommitKeepsPart, FlagArchivesPart, AddKeepsContent, OthersKeepContent
  <2> QED BY <2>1, <2>2
<1>2. CASE Kept' = Kept /\ Archived' = Archived
  BY <1>2 DEF Store!storeVars, Kept, Archived
<1>3. ASSUME NEW k \in Keys, NEW c \in Contents,
             Kept[k] = NoFile, Kept' = [Kept EXCEPT ![k] = c], Archived' = Archived
      PROVE  Store!StoreNext
  BY <1>3 DEF Store!StoreNext, Store!Keep, Kept, Archived
<1>4. ASSUME NEW k \in Keys, Kept[k] # NoFile, Kept' = Kept, Archived' = Archived \union {k}
      PROVE  [Store!StoreNext]_(Store!storeVars)
  <2>1. CASE k \in Archived
    <3>1. Archived' = Archived
      BY <1>4, <2>1
    <3> QED BY <1>2, <1>4, <3>1
  <2>2. CASE k \notin Archived
    BY <1>4, <2>2 DEF Store!StoreNext, Store!Archive, Kept, Archived
  <2> QED BY <2>1, <2>2
<1> QED BY <1>1, <1>2, <1>3, <1>4

\* A part is kept whole and unchanged from the commit of its row on, across the
\* move of its file into the archive, and it is archived once.
THEOREM ArchiveImplementsPartStore == ASSUME LoneWatcher PROVE Spec => ImplementsPartStore
<1>1. Init => Store!StoreInit
  BY DEF Init, Store!StoreInit, Rows
<1>2. ArchiveInv /\ [Next]_vars => [Store!StoreNext]_(Store!storeVars)
  BY StoreSteps
<1> QED BY <1>1, <1>2, ArchiveInvariant, PTL DEF Spec, ImplementsPartStore, Store!StoreSpec
=============================================================================
