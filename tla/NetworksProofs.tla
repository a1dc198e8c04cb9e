---------------------------- MODULE NetworksProofs ----------------------------
(***************************************************************************)
(* That an engine has at most one default network and that every network   *)
(* has its file, for any engines, contents, threads and requests, except   *)
(* where two requests on one engine or one content were open at once.      *)
(*                                                                         *)
(* The argument for both: of the requests that are open, at most one       *)
(* touches an engine or a content without overlap, so what it has found or *)
(* made of it is still so when it comes to save.                           *)
(***************************************************************************)
EXTENDS Networks, FiniteSetTheorems, TLAPS

Touches(r) == {r.copy.engine} \cup Uses(r)

\* The types of the rows and requests, and that an auxiliary row has its network.
NetType ==
    /\ row \in [Ids -> NetworkRow \cup {NoRow}]
    /\ auxRow \subseteq AuxRow
    /\ netReq \in [NetThreads -> NetRequest \cup {NoRequest}]
    /\ nextNet \in Nat \ {0}
    /\ \A a \in auxRow : row[a.network] # NoRow
    /\ \A t \in NetThreads : Busy(t) =>
          /\ netReq[t].op # "upload" \/ netReq[t].at = "auxrow" => netReq[t].id \in Ids
          /\ netReq[t].op = "upload" => ~netReq[t].copy.default

\* Two requests that are open have nothing in common but what is marked.
Alone ==
    \A t, u \in NetThreads :
        t # u /\ Busy(t) /\ Busy(u) => Touches(netReq[t]) \cap Touches(netReq[u]) \subseteq overlap

\* A request that will save a row of its content.
WillSave(r) == (r.op = "upload" /\ r.at \in {"aux", "row"}) \/ r.op \in {"default", "edit"}

\* A row has the content, or is about to have it.
Held(c) == \/ \E i \in Rows : row[i].content = c
           \/ \E t \in NetThreads : Busy(t) /\ WillSave(netReq[t]) /\ netReq[t].copy.content = c

\* The file is there for every content that is held.
FilesAreThere == \A c \in Contents \ overlap : Held(c) => c \in media

IsDefault(i, e) == row[i].engine = e /\ row[i].default

\* One default at most, and none when a request has cleared them and is to save.
DefaultsAreFew ==
    \A e \in NetEngines \ overlap :
        /\ \A i, j \in Rows : IsDefault(i, e) /\ IsDefault(j, e) => i = j
        /\ \A t \in NetThreads :
              Busy(t) /\ netReq[t].op = "default" /\ netReq[t].at = "save" /\ netReq[t].copy.engine = e
                  => \A i \in Rows : ~IsDefault(i, e)

NetInv == NetType /\ Alone /\ FilesAreThere /\ DefaultsAreFew

-----------------------------------------------------------------------------
LEMMA InitEstablishes == NetworksInit => NetInv
  BY NetworksAssumption
     DEF NetworksInit, NetInv, NetType, Alone, FilesAreThere, DefaultsAreFew, Held, Rows, Busy, Ids

\* A request that is opened is the only new one, and a request of its type.
LEMMA OpenType ==
    ASSUME NetType, NEW t \in NetThreads, NEW r \in NetRequest, Open(t, r)
    PROVE  /\ netReq' = [netReq EXCEPT ![t] = r]
           /\ netReq' \in [NetThreads -> NetRequest \cup {NoRequest}]
           /\ overlap \subseteq overlap'
  BY DEF Open, NetType

\* A copy of a row is one of the type.
LEMMA RowType ==
    ASSUME NetType, NEW i \in Rows
    PROVE  i \in Ids /\ row[i] \in NetworkRow
  BY DEF NetType, Rows

\* A network is created with no default mark, an auxiliary row for a network there is.
LEMMA TypeStep == NetType /\ [NetworksNext]_netVars => NetType'
  <1> SUFFICES ASSUME NetType, [NetworksNext]_netVars PROVE NetType'
    OBVIOUS
  <1> USE NetworksAssumption
  <1>1. ASSUME NEW t \in NetThreads, BeginUpload(t) PROVE NetType'
    <2>1. PICK e \in NetEngines, c \in Contents, aux \in SUBSET (AuxNames \X Contents) :
              Open(t, [op |-> "upload", at |-> "file", id |-> 0, aux |-> aux,
                       copy |-> [engine |-> e, content |-> c, default |-> FALSE, was |-> FALSE],
                       default |-> FALSE, was |-> FALSE])
              /\ UNCHANGED <<row, auxRow, media, nextNet>>
      BY <1>1 DEF BeginUpload
    <2> DEFINE r == [op |-> "upload", at |-> "file", id |-> 0, aux |-> aux,
                       copy |-> [engine |-> e, content |-> c, default |-> FALSE, was |-> FALSE],
                       default |-> FALSE, was |-> FALSE]
    <2>2. r \in NetRequest
      BY DEF NetRequest, NetOps, NetworkRow
    <2>3. netReq' = [netReq EXCEPT ![t] = r] /\ netReq' \in [NetThreads -> NetRequest \cup {NoRequest}]
      BY <2>1, <2>2, OpenType
    <2> QED
      BY <2>1, <2>2, <2>3 DEF NetType, Busy
  <1>2. ASSUME NEW t \in NetThreads, StoreFile(t) PROVE NetType'
    BY <1>2 DEF StoreFile, Proceed, NetType, Busy, NetRequest
  <1>3. ASSUME NEW t \in NetThreads, StoreAux(t) PROVE NetType'
    BY <1>3 DEF StoreAux, Proceed, NetType, Busy, NetRequest
  <1>4. ASSUME NEW t \in NetThreads, CreateRow(t) PROVE NetType'
    <2> DEFINE r == [netReq[t] EXCEPT !.at = "auxrow"]
               q == [r EXCEPT !.id = nextNet]
    <2>1. netReq[t] \in NetRequest /\ nextNet \in Ids /\ nextNet \in 0 .. MaxNetworks
      BY <1>4 DEF CreateRow, NetType, Busy, Ids
    <2>11. r \in NetRequest /\ r.op = netReq[t].op /\ r.copy = netReq[t].copy
      BY <2>1 DEF NetRequest
    <2>2. q \in NetRequest /\ q.id = nextNet /\ q.op = netReq[t].op /\ q.copy = netReq[t].copy
      <3> HIDE DEF r
      <3> QED BY <2>1, <2>11 DEF NetRequest
    <2>3. netReq' = [netReq EXCEPT ![t] = q]
      BY <1>4, <2>1 DEF CreateRow, NetType
    <2>4. netReq[t].copy \in NetworkRow
      BY <2>1 DEF NetRequest
    <2>5. row' \in [Ids -> NetworkRow \cup {NoRow}] /\ \A i \in Ids : row[i] # NoRow => row'[i] # NoRow
      BY <1>4, <2>1, <2>4 DEF CreateRow, NetType
    <2>6. \A a \in auxRow' : a \in AuxRow /\ a.network \in Ids
      BY <1>4 DEF CreateRow, NetType, AuxRow
    <2>7. netReq' \in [NetThreads -> NetRequest \cup {NoRequest}]
      BY <2>2, <2>3 DEF NetType
    <2>8. nextNet' \in Nat \ {0}
      BY <1>4 DEF CreateRow, NetType
    <2>9. \A a \in auxRow' : row'[a.network] # NoRow
      BY <1>4, <2>5, <2>6 DEF CreateRow, NetType
    <2>10. \A u \in NetThreads : Busy(u)' =>
             /\ netReq'[u].op # "upload" \/ netReq'[u].at = "auxrow" => netReq'[u].id \in Ids
             /\ netReq'[u].op = "upload" => ~netReq'[u].copy.default
      <3>1. netReq'[t] = q /\ \A u \in NetThreads \ {t} : netReq'[u] = netReq[u]
        <4> HIDE DEF q
        <4> QED BY <2>3 DEF NetType
      <3>2. q.id \in Ids /\ ~q.copy.default
        <4> HIDE DEF q
        <4> QED BY <1>4, <2>1, <2>2 DEF CreateRow, NetType
      <3> HIDE DEF q
      <3> QED BY <3>1, <3>2 DEF NetType, Busy
    <2> QED
      BY <2>5, <2>6, <2>7, <2>8, <2>9, <2>10 DEF NetType, Busy
  <1>5. ASSUME NEW t \in NetThreads, CreateAuxRows(t) PROVE NetType'
    <2> DEFINE i == netReq[t].id
               new == {[network |-> i, name |-> x[1], content |-> x[2]] : x \in netReq[t].aux}
    <2>1. netReq[t] \in NetRequest /\ i \in Ids
      BY <1>5 DEF CreateAuxRows, NetType, Busy
    <2>2. new \subseteq AuxRow
      BY <2>1 DEF NetRequest, AuxRow
    <2>3. auxRow' = auxRow \/ (auxRow' = auxRow \cup new /\ row[i] # NoRow)
      BY <1>5 DEF CreateAuxRows
    <2>4. \A a \in auxRow' : a \in AuxRow /\ row[a.network] # NoRow
      BY <2>2, <2>3 DEF NetType
    <2> QED
      BY <1>5, <2>4 DEF CreateAuxRows, Done, NetType, Busy
  <1>6. ASSUME NEW t \in NetThreads, NEW op \in NetOps \ {"upload"},
               NEW at \in {"clear", "save", "row"}, BeginOn(t, op, at)
        PROVE  NetType'
    <2>1. PICK i \in Rows, d \in BOOLEAN, w \in BOOLEAN :
              Open(t, [op |-> op, at |-> at, id |-> i, copy |-> row[i], aux |-> {},
                       default |-> d, was |-> w])
              /\ UNCHANGED <<row, auxRow, media, nextNet>>
      BY <1>6 DEF BeginOn
    <2> DEFINE r == [op |-> op, at |-> at, id |-> i, copy |-> row[i], aux |-> {},
                     default |-> d, was |-> w]
    <2>2. r \in NetRequest /\ i \in Ids
      BY RowType DEF NetRequest, Ids
    <2>3. netReq' = [netReq EXCEPT ![t] = r] /\ netReq' \in [NetThreads -> NetRequest \cup {NoRequest}]
      BY <2>1, <2>2, OpenType
    <2> QED
      BY <2>1, <2>2, <2>3 DEF NetType, Busy
  <1>7. ASSUME NEW t \in NetThreads, BeginDefault(t) \/ BeginEdit(t) \/ BeginDelete(t)
        PROVE  NetType'
    BY <1>6, <1>7 DEF BeginDefault, BeginEdit, BeginDelete, NetOps
  <1>8. ASSUME NEW t \in NetThreads, ClearDefaults(t) PROVE NetType'
    <2>1. row' \in [Ids -> NetworkRow \cup {NoRow}]
      BY <1>8 DEF ClearDefaults, Cleared, NetType, Rows, NetworkRow
    <2>2. \A i \in Ids : row[i] # NoRow => row'[i] # NoRow
      BY <1>8 DEF ClearDefaults, Cleared, NetType, Rows, NetworkRow
    <2>3. \A a \in auxRow : a.network \in Ids
      BY DEF NetType, AuxRow
    <2> QED
      BY <1>8, <2>1, <2>2, <2>3 DEF ClearDefaults, Proceed, NetType, Busy, NetRequest
  <1>9. ASSUME NEW t \in NetThreads, SaveDefault(t) PROVE NetType'
    BY <1>9 DEF SaveDefault, Done, NetType, Busy, NetRequest, NetworkRow, AuxRow
  <1>10. ASSUME NEW t \in NetThreads, SaveEdit(t) PROVE NetType'
    <2> DEFINE q == netReq[t]
               base == IF q.default THEN Cleared(q.copy.engine) ELSE row
               saved == [q.copy EXCEPT !.default = q.default, !.was = q.default \/ q.was]
    <2>1. q \in NetRequest /\ q.id \in Ids
      BY <1>10 DEF SaveEdit, NetType, Busy
    <2>2. saved \in NetworkRow
      BY <2>1 DEF NetRequest, NetworkRow
    <2>3. base \in [Ids -> NetworkRow \cup {NoRow}] /\ \A i \in Ids : row[i] # NoRow => base[i] # NoRow
      BY DEF Cleared, NetType, Rows, NetworkRow
    <2>4. row' = [base EXCEPT ![q.id] = saved]
      BY <1>10 DEF SaveEdit
    <2>5. row' \in [Ids -> NetworkRow \cup {NoRow}] /\ \A i \in Ids : row[i] # NoRow => row'[i] # NoRow
      BY <2>1, <2>2, <2>3, <2>4
    <2>6. \A a \in auxRow : a.network \in Ids
      BY DEF NetType, AuxRow
    <2> QED
      BY <1>10, <2>5, <2>6 DEF SaveEdit, Done, NetType, Busy
  <1>11. ASSUME NEW t \in NetThreads, DeleteRow(t) PROVE NetType'
    BY <1>11 DEF DeleteRow, Proceed, NetType, Busy, NetRequest, AuxRow
  <1>12. ASSUME NEW t \in NetThreads, Unlink(t) \/ UnlinkAux(t) PROVE NetType'
    BY <1>12 DEF Unlink, UnlinkAux, Done, NetType, Busy
  <1>13. ASSUME NEW t \in NetThreads, BeginAuxAdd(t) PROVE NetType'
    <2>1. PICK i \in Rows, n \in AuxNames, c \in Contents :
              Open(t, [op |-> "add", at |-> "aux", id |-> i, copy |-> row[i],
                       aux |-> {<<n, c>>}, default |-> FALSE, was |-> FALSE])
              /\ UNCHANGED <<row, auxRow, media, nextNet>>
      BY <1>13 DEF BeginAuxAdd
    <2> DEFINE r == [op |-> "add", at |-> "aux", id |-> i, copy |-> row[i],
                     aux |-> {<<n, c>>}, default |-> FALSE, was |-> FALSE]
    <2>2. r \in NetRequest /\ i \in Ids
      BY RowType DEF NetRequest, Ids, NetOps
    <2>3. netReq' = [netReq EXCEPT ![t] = r] /\ netReq' \in [NetThreads -> NetRequest \cup {NoRequest}]
      BY <2>1, <2>2, OpenType
    <2> QED
      BY <2>1, <2>2, <2>3 DEF NetType, Busy
  <1>14. ASSUME NEW t \in NetThreads, BeginAuxRemove(t) PROVE NetType'
    <2>1. PICK a \in auxRow :
              auxRow' = auxRow \ {a}
              /\ Open(t, [op |-> "remove", at |-> "unlink", id |-> a.network, copy |-> row[a.network],
                          aux |-> {<<a.name, a.content>>}, default |-> FALSE, was |-> FALSE])
              /\ UNCHANGED <<row, media, nextNet>>
      BY <1>14 DEF BeginAuxRemove
    <2> DEFINE r == [op |-> "remove", at |-> "unlink", id |-> a.network, copy |-> row[a.network],
                     aux |-> {<<a.name, a.content>>}, default |-> FALSE, was |-> FALSE]
    <2>2. a.network \in Rows /\ a.name \in AuxNames /\ a.content \in Contents
      BY DEF NetType, AuxRow, Rows
    <2>3. r \in NetRequest
      BY <2>2, RowType DEF NetRequest, Ids, NetOps
    <2>4. netReq' = [netReq EXCEPT ![t] = r] /\ netReq' \in [NetThreads -> NetRequest \cup {NoRequest}]
      BY <2>1, <2>3, OpenType
    <2> QED
      BY <2>1, <2>2, <2>4, RowType DEF NetType, Busy
  <1>15. CASE UNCHANGED netVars
    BY <1>15 DEF netVars, NetType, Busy
  <1> QED
    BY <1>1, <1>2, <1>3, <1>4, <1>5, <1>7, <1>8, <1>9, <1>10, <1>11, <1>12, <1>13, <1>14, <1>15
       DEF NetworksNext

-----------------------------------------------------------------------------
\* A step that opens no request leaves what the open ones touch as it was.
Unopened ==
    /\ overlap' = overlap
    /\ \A t \in NetThreads : Busy(t)' => /\ Busy(t)
                                         /\ netReq'[t].copy = netReq[t].copy
                                         /\ netReq'[t].aux = netReq[t].aux

\* A step that opens a request takes a thread that has none, and marks what it shares.
Opened ==
    \E t \in NetThreads, r \in NetRequest :
        ~Busy(t) /\ netReq' = [netReq EXCEPT ![t] = r] /\ overlap' = overlap \cup Marked(r)

\* Proceed and Done open no request.
LEMMA GoesOn ==
    ASSUME NetType, NEW t \in NetThreads, Busy(t),
           Done(t) \/ \E at \in {"aux", "row", "auxrow", "save", "unlink"} : Proceed(t, at)
    PROVE  Unopened
  <1>1. netReq[t] \in NetRequest
    BY DEF NetType, Busy
  <1>2. CASE Done(t)
    BY <1>2 DEF Done, Unopened, Busy, NetType
  <1>3. ASSUME NEW at \in {"aux", "row", "auxrow", "save", "unlink"}, Proceed(t, at)
        PROVE  Unopened
    BY <1>1, <1>3 DEF Proceed, Unopened, Busy, NetType, NetRequest
  <1> QED
    BY <1>2, <1>3

\* Each step opens one request or none.
LEMMA OpenedOrNot ==
    ASSUME NetType, [NetworksNext]_netVars
    PROVE  Unopened \/ Opened
  <1> USE NetworksAssumption
  <1>1. ASSUME NEW t \in NetThreads, BeginUpload(t) PROVE Opened
    <2>1. PICK e \in NetEngines, c \in Contents, aux \in SUBSET (AuxNames \X Contents) :
              ~Busy(t)
              /\ Open(t, [op |-> "upload", at |-> "file", id |-> 0, aux |-> aux,
                       copy |-> [engine |-> e, content |-> c, default |-> FALSE, was |-> FALSE],
                       default |-> FALSE, was |-> FALSE])
      BY <1>1 DEF BeginUpload
    <2> DEFINE r == [op |-> "upload", at |-> "file", id |-> 0, aux |-> aux,
                       copy |-> [engine |-> e, content |-> c, default |-> FALSE, was |-> FALSE],
                       default |-> FALSE, was |-> FALSE]
    <2>2. r \in NetRequest
      BY DEF NetRequest, NetOps, NetworkRow
    <2> QED
      BY <2>1, <2>2 DEF Open, Opened
  <1>2. ASSUME NEW t \in NetThreads, NEW op \in NetOps \ {"upload"},
               NEW at \in {"clear", "save", "row"}, BeginOn(t, op, at)
        PROVE  Opened
    <2>1. PICK i \in Rows, d \in BOOLEAN, w \in BOOLEAN :
              ~Busy(t)
              /\ Open(t, [op |-> op, at |-> at, id |-> i, copy |-> row[i], aux |-> {},
                       default |-> d, was |-> w])
      BY <1>2 DEF BeginOn
    <2> DEFINE r == [op |-> op, at |-> at, id |-> i, copy |-> row[i], aux |-> {},
                     default |-> d, was |-> w]
    <2>2. r \in NetRequest
      BY RowType DEF NetRequest, Ids
    <2> QED
      BY <2>1, <2>2 DEF Open, Opened
  <1>3. ASSUME NEW t \in NetThreads, BeginDefault(t) \/ BeginEdit(t) \/ BeginDelete(t)
        PROVE  Opened
    BY <1>2, <1>3 DEF BeginDefault, BeginEdit, BeginDelete, NetOps
  <1>4. ASSUME NEW t \in NetThreads, BeginAuxAdd(t) PROVE Opened
    <2>1. PICK i \in Rows, n \in AuxNames, c \in Contents :
              ~Busy(t)
              /\ Open(t, [op |-> "add", at |-> "aux", id |-> i, copy |-> row[i],
                       aux |-> {<<n, c>>}, default |-> FALSE, was |-> FALSE])
      BY <1>4 DEF BeginAuxAdd
    <2> DEFINE r == [op |-> "add", at |-> "aux", id |-> i, copy |-> row[i],
                     aux |-> {<<n, c>>}, default |-> FALSE, was |-> FALSE]
    <2>2. r \in NetRequest
      BY RowType DEF NetRequest, Ids, NetOps
    <2> QED
      BY <2>1, <2>2 DEF Open, Opened
  <1>5. ASSUME NEW t \in NetThreads, BeginAuxRemove(t) PROVE Opened
    <2>1. PICK a \in auxRow :
              ~Busy(t)
              /\ Open(t, [op |-> "remove", at |-> "unlink", id |-> a.network, copy |-> row[a.network],
                          aux |-> {<<a.name, a.content>>}, default |-> FALSE, was |-> FALSE])
      BY <1>5 DEF BeginAuxRemove
    <2> DEFINE r == [op |-> "remove", at |-> "unlink", id |-> a.network, copy |-> row[a.network],
                     aux |-> {<<a.name, a.content>>}, default |-> FALSE, was |-> FALSE]
    <2>2. a.network \in Rows /\ a.name \in AuxNames /\ a.content \in Contents
      BY DEF NetType, AuxRow, Rows
    <2>3. r \in NetRequest
      BY <2>2, RowType DEF NetRequest, Ids, NetOps
    <2> QED
      BY <2>1, <2>3 DEF Open, Opened
  <1>6. ASSUME NEW t \in NetThreads, CreateRow(t) PROVE Unopened
    <2> DEFINE r == [netReq[t] EXCEPT !.at = "auxrow"]
               q == [r EXCEPT !.id = nextNet]
    <2>1. netReq[t] \in NetRequest /\ netReq' = [netReq EXCEPT ![t] = q]
          /\ Busy(t) /\ overlap' = overlap
      BY <1>6 DEF CreateRow, NetType, Busy
    <2>2. r.copy = netReq[t].copy /\ r.aux = netReq[t].aux /\ r \in NetRequest
      BY <2>1 DEF NetRequest
    <2>3. q.copy = netReq[t].copy /\ q.aux = netReq[t].aux
      <3> HIDE DEF r
      <3> QED BY <2>2 DEF NetRequest
    <2>4. netReq'[t] = q /\ \A u \in NetThreads \ {t} : netReq'[u] = netReq[u]
      <3> HIDE DEF q
      <3> QED BY <2>1 DEF NetType
    <2> HIDE DEF q
    <2> QED
      BY <2>1, <2>3, <2>4 DEF Unopened, Busy
  <1>7. ASSUME NEW t \in NetThreads,
               StoreFile(t) \/ StoreAux(t) \/ CreateAuxRows(t) \/ ClearDefaults(t) \/ SaveDefault(t)
               \/ SaveEdit(t) \/ DeleteRow(t) \/ Unlink(t) \/ UnlinkAux(t)
        PROVE  Unopened
    BY <1>7, GoesOn DEF StoreFile, StoreAux, CreateAuxRows, ClearDefaults, SaveDefault, SaveEdit,
                        DeleteRow, Unlink, UnlinkAux
  <1>8. CASE UNCHANGED netVars
    BY <1>8 DEF netVars, Unopened, Busy
  <1> QED
    BY <1>1, <1>3, <1>4, <1>5, <1>6, <1>7, <1>8 DEF NetworksNext

\* What a request touches are engines and contents.
LEMMA TouchesType ==
    ASSUME NEW r \in NetRequest
    PROVE  Touches(r) \subseteq NetEngines \cup Contents
  BY DEF Touches, Uses, NetRequest, NetworkRow

\* Two open requests have in common only what is marked: the later one marked it.
LEMMA AloneStep == NetType /\ Alone /\ [NetworksNext]_netVars => Alone'
  <1> SUFFICES ASSUME NetType, Alone, [NetworksNext]_netVars PROVE Alone'
    OBVIOUS
  <1> USE NetworksAssumption
  <1>1. CASE Unopened
    BY <1>1 DEF Unopened, Alone, Touches, Uses
  <1>2. CASE Opened
    <2>1. PICK t \in NetThreads, r \in NetRequest :
              ~Busy(t) /\ netReq' = [netReq EXCEPT ![t] = r] /\ overlap' = overlap \cup Marked(r)
      BY <1>2 DEF Opened
    <2>2. netReq'[t] = r /\ \A u \in NetThreads \ {t} : netReq'[u] = netReq[u]
      BY <2>1 DEF NetType
    <2>3. ASSUME NEW u \in NetThreads, u # t, Busy(u)
          PROVE  Touches(netReq[u]) \cap Touches(r) \subseteq overlap'
      BY <2>1, <2>3, TouchesType DEF Marked, Touches
    <2>4. ASSUME NEW u \in NetThreads, NEW w \in NetThreads, u # w, Busy(u)', Busy(w)'
          PROVE  Touches(netReq'[u]) \cap Touches(netReq'[w]) \subseteq overlap'
      <3>1. CASE u = t
        BY <2>2, <2>3, <2>4, <3>1 DEF Busy
      <3>2. CASE w = t
        BY <2>2, <2>3, <2>4, <3>2 DEF Busy
      <3>3. CASE u # t /\ w # t
        BY <2>1, <2>2, <2>4, <3>3 DEF Alone, Busy
      <3> QED
        BY <3>1, <3>2, <3>3
    <2> QED
      BY <2>4 DEF Alone, Touches, Uses
  <1> QED
    BY <1>1, <1>2, OpenedOrNot

-----------------------------------------------------------------------------
\* Files stay when no content is newly held and no file is removed.
LEMMA FilesKept ==
    ASSUME FilesAreThere, overlap \subseteq overlap', media \subseteq media',
           \A c \in Contents : Held(c)' => Held(c)
    PROVE  FilesAreThere'
  BY DEF FilesAreThere

\* A request opened on a row holds what the row holds, and rows may only go.
LEMMA OpenHolds ==
    ASSUME NetType, NEW t \in NetThreads, NEW i \in Rows, NEW r \in NetRequest,
           Open(t, r), row' = row, r.copy = row[i]
    PROVE  \A c \in Contents : Held(c)' => Held(c)
  <1>1. netReq'[t] = r /\ \A u \in NetThreads \ {t} : netReq'[u] = netReq[u]
    BY DEF Open, NetType
  <1> QED
    BY <1>1 DEF Held, Rows, Busy

\* A row is stored by the request that holds its content, and a file is only
\* removed when no row and, without overlap, no other request holds it.
LEMMA FilesStep == NetType /\ Alone /\ FilesAreThere /\ [NetworksNext]_netVars => FilesAreThere'
  <1> SUFFICES ASSUME NetType, Alone, FilesAreThere, [NetworksNext]_netVars PROVE FilesAreThere'
    OBVIOUS
  <1> USE NetworksAssumption
  <1>1. ASSUME NEW t \in NetThreads, BeginUpload(t) PROVE FilesAreThere'
    <2>1. PICK e \in NetEngines, c \in Contents, aux \in SUBSET (AuxNames \X Contents) :
              Open(t, [op |-> "upload", at |-> "file", id |-> 0, aux |-> aux,
                       copy |-> [engine |-> e, content |-> c, default |-> FALSE, was |-> FALSE],
                       default |-> FALSE, was |-> FALSE])
              /\ UNCHANGED <<row, auxRow, media, nextNet>>
      BY <1>1 DEF BeginUpload
    <2> DEFINE r == [op |-> "upload", at |-> "file", id |-> 0, aux |-> aux,
                       copy |-> [engine |-> e, content |-> c, default |-> FALSE, was |-> FALSE],
                       default |-> FALSE, was |-> FALSE]
    <2>2. ~WillSave(r)
      BY DEF WillSave
    <2>3. netReq'[t] = r /\ \A u \in NetThreads \ {t} : netReq'[u] = netReq[u]
      BY <2>1 DEF Open, NetType
    <2>4. \A d \in Contents : Held(d)' => Held(d)
      <3> HIDE DEF r
      <3> QED BY <2>1, <2>2, <2>3 DEF Held, Rows, Busy, WillSave
    <2> QED
      BY <2>1, <2>4, FilesKept DEF Open
  <1>2. ASSUME NEW t \in NetThreads, StoreFile(t) PROVE FilesAreThere'
    <2> DEFINE d == netReq[t].copy.content
    <2>1. netReq[t] \in NetRequest
      BY <1>2 DEF StoreFile, NetType, Busy
    <2>2. \A u \in NetThreads : Busy(u)' =>
              /\ Busy(u) /\ netReq'[u].copy = netReq[u].copy /\ netReq'[u].op = netReq[u].op
              /\ u # t => netReq'[u] = netReq[u]
      BY <1>2, <2>1 DEF StoreFile, Proceed, NetType, Busy, NetRequest
    <2>3. \A c \in Contents : Held(c)' => Held(c) \/ c = d
      BY <1>2, <2>2 DEF StoreFile, Held, Rows, Busy, WillSave
    <2>4. ASSUME d \notin overlap PROVE d \in media'
      <3>1. CASE RowsWith(d) = {}
        BY <1>2, <3>1 DEF StoreFile
      <3>2. CASE RowsWith(d) # {}
        BY <1>2, <2>1, <2>4, <3>2 DEF StoreFile, RowsWith, FilesAreThere, Held, NetRequest, NetworkRow
      <3> QED
        BY <3>1, <3>2
    <2> QED
      BY <1>2, <2>3, <2>4 DEF StoreFile, Proceed, FilesAreThere
  <1>3. ASSUME NEW t \in NetThreads, StoreAux(t) PROVE FilesAreThere'
    <2>1. netReq[t] \in NetRequest
      BY <1>3 DEF StoreAux, NetType, Busy
    <2>2. \A c \in Contents : Held(c)' => Held(c)
      BY <1>3, <2>1 DEF StoreAux, Proceed, NetType, Held, Rows, Busy, WillSave, NetRequest
    <2> QED
      BY <1>3, <2>2, FilesKept DEF StoreAux, Proceed
  <1>4. ASSUME NEW t \in NetThreads, CreateRow(t) PROVE FilesAreThere'
    <2> DEFINE r == [netReq[t] EXCEPT !.at = "auxrow"]
               q == [r EXCEPT !.id = nextNet]
    <2>1. netReq[t] \in NetRequest /\ netReq' = [netReq EXCEPT ![t] = q] /\ Busy(t)
      BY <1>4 DEF CreateRow, NetType, Busy
    <2>2. r \in NetRequest /\ r.op = netReq[t].op /\ r.at = "auxrow"
      BY <2>1 DEF NetRequest
    <2>3. q.op = netReq[t].op /\ q.at = "auxrow"
      <3> HIDE DEF r
      <3> QED BY <2>2 DEF NetRequest
    <2>4. netReq'[t] = q /\ \A u \in NetThreads \ {t} : netReq'[u] = netReq[u]
      <3> HIDE DEF q
      <3> QED BY <2>1 DEF NetType
    <2>5. WillSave(netReq[t]) /\ ~WillSave(q)
      <3> HIDE DEF q
      <3> QED BY <1>4, <2>3 DEF CreateRow, WillSave
    <2>6. \A i \in Rows' : row'[i] = netReq[t].copy \/ (i \in Rows /\ row'[i] = row[i])
      BY <1>4 DEF CreateRow, Rows, NetType
    <2>7. \A c \in Contents : Held(c)' => Held(c)
      <3> HIDE DEF q
      <3> QED BY <2>1, <2>4, <2>5, <2>6 DEF Held, Busy, WillSave
    <2> QED
      BY <1>4, <2>7, FilesKept DEF CreateRow
  <1>5. ASSUME NEW t \in NetThreads, CreateAuxRows(t) PROVE FilesAreThere'
    <2>1. \A c \in Contents : Held(c)' => Held(c)
      BY <1>5 DEF CreateAuxRows, Done, NetType, Held, Rows, Busy, WillSave
    <2> QED
      BY <1>5, <2>1, FilesKept DEF CreateAuxRows, Done
  <1>6. ASSUME NEW t \in NetThreads, NEW op \in NetOps \ {"upload"},
               NEW at \in {"clear", "save", "row"}, BeginOn(t, op, at)
        PROVE  FilesAreThere'
    <2>1. PICK i \in Rows, d \in BOOLEAN, w \in BOOLEAN :
              Open(t, [op |-> op, at |-> at, id |-> i, copy |-> row[i], aux |-> {},
                       default |-> d, was |-> w])
              /\ UNCHANGED <<row, auxRow, media, nextNet>>
      BY <1>6 DEF BeginOn
    <2> DEFINE r == [op |-> op, at |-> at, id |-> i, copy |-> row[i], aux |-> {},
                     default |-> d, was |-> w]
    <2>2. r \in NetRequest /\ r.copy = row[i]
      BY RowType DEF NetRequest, Ids
    <2>3. \A c \in Contents : Held(c)' => Held(c)
      <3> HIDE DEF r
      <3> QED BY <2>1, <2>2, OpenHolds DEF r
    <2> QED
      BY <2>1, <2>3, FilesKept DEF Open
  <1>7. ASSUME NEW t \in NetThreads, BeginDefault(t) \/ BeginEdit(t) \/ BeginDelete(t)
        PROVE  FilesAreThere'
    BY <1>6, <1>7 DEF BeginDefault, BeginEdit, BeginDelete, NetOps
  <1>8. ASSUME NEW t \in NetThreads, ClearDefaults(t) PROVE FilesAreThere'
    <2>1. netReq[t] \in NetRequest
      BY <1>8 DEF ClearDefaults, NetType, Busy
    <2>2. \A i \in Rows' : i \in Rows /\ row'[i].content = row[i].content
      BY <1>8 DEF ClearDefaults, Cleared, Rows, NetType, NetworkRow
    <2>3. \A u \in NetThreads : Busy(u)' =>
              /\ Busy(u) /\ netReq'[u].copy = netReq[u].copy /\ netReq'[u].op = netReq[u].op
              /\ u # t => netReq'[u] = netReq[u]
              /\ u = t => netReq'[u].at = "save"
      BY <1>8, <2>1 DEF ClearDefaults, Proceed, NetType, Busy, NetRequest
    <2>4. \A c \in Contents : Held(c)' => Held(c)
      BY <2>2, <2>3 DEF Held, Busy, WillSave
    <2> QED
      BY <1>8, <2>4, FilesKept DEF ClearDefaults, Proceed
  <1>9. ASSUME NEW t \in NetThreads, SaveDefault(t) \/ SaveEdit(t) PROVE FilesAreThere'
    <2> DEFINE q == netReq[t]
    <2>1. q \in NetRequest /\ Busy(t) /\ WillSave(q)
      BY <1>9 DEF SaveDefault, SaveEdit, NetType, Busy, WillSave
    <2>2. \A i \in Rows' : row'[i].content = q.copy.content
                           \/ (i \in Rows /\ row'[i].content = row[i].content)
      <3> DEFINE base == Cleared(q.copy.engine)
      <3>1. q.copy \in NetworkRow
        BY <2>1 DEF NetRequest
      <3>2. PICK saved \in NetworkRow :
                /\ saved.content = q.copy.content
                /\ row' = [row EXCEPT ![q.id] = saved] \/ row' = [base EXCEPT ![q.id] = saved]
        <4>1. CASE SaveDefault(t)
          <5>1. [q.copy EXCEPT !.default = TRUE, !.was = TRUE] \in NetworkRow
                /\ [q.copy EXCEPT !.default = TRUE, !.was = TRUE].content = q.copy.content
            BY <3>1 DEF NetworkRow
          <5> QED BY <4>1, <5>1 DEF SaveDefault
        <4>2. CASE SaveEdit(t)
          <5> DEFINE s == [q.copy EXCEPT !.default = q.default, !.was = q.default \/ q.was]
          <5>1. s \in NetworkRow /\ s.content = q.copy.content
            BY <2>1, <3>1 DEF NetworkRow, NetRequest
          <5>2. row' = [row EXCEPT ![q.id] = s] \/ row' = [base EXCEPT ![q.id] = s]
            BY <4>2 DEF SaveEdit
          <5> HIDE DEF s, base
          <5> QED BY <5>1, <5>2
        <4> QED BY <1>9, <4>1, <4>2
      <3>3. /\ base \in [Ids -> NetworkRow \cup {NoRow}]
            /\ \A i \in Ids : base[i] # NoRow => i \in Rows /\ base[i].content = row[i].content
        BY DEF Cleared, Rows, NetType, NetworkRow
      <3> HIDE DEF base
      <3> QED BY <3>2, <3>3 DEF Rows, NetType
    <2>3. \A u \in NetThreads : Busy(u)' => Busy(u) /\ netReq'[u] = netReq[u]
      BY <1>9 DEF SaveDefault, SaveEdit, Done, NetType, Busy
    <2>4. \A c \in Contents : Held(c)' => Held(c)
      BY <2>1, <2>2, <2>3 DEF Held, Busy
    <2> QED
      BY <1>9, <2>4, FilesKept DEF SaveDefault, SaveEdit, Done
  <1>10. ASSUME NEW t \in NetThreads, DeleteRow(t) PROVE FilesAreThere'
    <2>1. netReq[t] \in NetRequest
      BY <1>10 DEF DeleteRow, NetType, Busy
    <2>2. \A i \in Rows' : i \in Rows /\ row'[i] = row[i]
      BY <1>10 DEF DeleteRow, Rows, NetType
    <2>3. \A u \in NetThreads : Busy(u)' =>
              /\ Busy(u) /\ netReq'[u].copy = netReq[u].copy /\ netReq'[u].op = netReq[u].op
              /\ u # t => netReq'[u] = netReq[u]
              /\ u = t => netReq'[u].at = "unlink"
      BY <1>10, <2>1 DEF DeleteRow, Proceed, NetType, Busy, NetRequest
    <2>4. \A c \in Contents : Held(c)' => Held(c)
      BY <2>2, <2>3 DEF Held, Busy, WillSave
    <2> QED
      BY <1>10, <2>4, FilesKept DEF DeleteRow, Proceed
  <1>11. ASSUME NEW t \in NetThreads, Unlink(t) \/ UnlinkAux(t) PROVE FilesAreThere'
    <2> DEFINE q == netReq[t]
    <2>1. q \in NetRequest /\ Busy(t) /\ row' = row /\ overlap' = overlap
      BY <1>11 DEF Unlink, UnlinkAux, Done, NetType, Busy
    <2>2. \A u \in NetThreads : Busy(u)' => Busy(u) /\ u # t /\ netReq'[u] = netReq[u]
      BY <1>11 DEF Unlink, UnlinkAux, Done, NetType, Busy
    <2>3. ASSUME NEW c \in Contents, c \in media, c \notin media'
          PROVE  c \in Touches(q) /\ RowsWith(c) = {}
      BY <1>11, <2>3 DEF Unlink, UnlinkAux, Touches, Uses
    <2>4. ASSUME NEW c \in Contents \ overlap, Held(c)' PROVE c \in media'
      <3>1. Held(c) /\ c \in media
        BY <2>1, <2>2, <2>4 DEF Held, Rows, Busy, FilesAreThere
      <3>2. CASE \E i \in Rows' : row'[i].content = c
        BY <2>1, <2>3, <3>1, <3>2 DEF RowsWith, Rows
      <3>3. CASE \E u \in NetThreads : Busy(u)' /\ netReq'[u].copy.content = c
        BY <2>1, <2>2, <2>3, <2>4, <3>1, <3>3 DEF Alone, Touches, Uses
      <3> QED
        BY <2>4, <3>2, <3>3 DEF Held
    <2> QED
      BY <2>1, <2>4 DEF FilesAreThere
  <1>12. ASSUME NEW t \in NetThreads, BeginAuxAdd(t) PROVE FilesAreThere'
    <2>1. PICK i \in Rows, n \in AuxNames, c \in Contents :
              Open(t, [op |-> "add", at |-> "aux", id |-> i, copy |-> row[i],
                       aux |-> {<<n, c>>}, default |-> FALSE, was |-> FALSE])
              /\ UNCHANGED <<row, auxRow, media, nextNet>>
      BY <1>12 DEF BeginAuxAdd
    <2> DEFINE r == [op |-> "add", at |-> "aux", id |-> i, copy |-> row[i],
                     aux |-> {<<n, c>>}, default |-> FALSE, was |-> FALSE]
    <2>2. r \in NetRequest /\ r.copy = row[i]
      BY RowType DEF NetRequest, Ids, NetOps
    <2>3. \A d \in Contents : Held(d)' => Held(d)
      <3> HIDE DEF r
      <3> QED BY <2>1, <2>2, OpenHolds DEF r
    <2> QED
      BY <2>1, <2>3, FilesKept DEF Open
  <1>13. ASSUME NEW t \in NetThreads, BeginAuxRemove(t) PROVE FilesAreThere'
    <2>1. PICK a \in auxRow :
              Open(t, [op |-> "remove", at |-> "unlink", id |-> a.network, copy |-> row[a.network],
                          aux |-> {<<a.name, a.content>>}, default |-> FALSE, was |-> FALSE])
              /\ UNCHANGED <<row, media, nextNet>>
      BY <1>13 DEF BeginAuxRemove
    <2> DEFINE r == [op |-> "remove", at |-> "unlink", id |-> a.network, copy |-> row[a.network],
                     aux |-> {<<a.name, a.content>>}, default |-> FALSE, was |-> FALSE]
    <2>2. a.network \in Rows /\ a.name \in AuxNames /\ a.content \in Contents
      BY DEF NetType, AuxRow, Rows
    <2>3. r \in NetRequest /\ r.copy = row[a.network]
      BY <2>2, RowType DEF NetRequest, Ids, NetOps
    <2>4. \A d \in Contents : Held(d)' => Held(d)
      <3> HIDE DEF r
      <3> QED BY <2>1, <2>2, <2>3, OpenHolds DEF r
    <2> QED
      BY <2>1, <2>4, FilesKept DEF Open
  <1>14. CASE UNCHANGED netVars
    BY <1>14, FilesKept DEF netVars, Held, Rows, Busy, WillSave
  <1> QED
    BY <1>1, <1>2, <1>3, <1>4, <1>5, <1>7, <1>8, <1>9, <1>10, <1>11, <1>12, <1>13, <1>14
       DEF NetworksNext

-----------------------------------------------------------------------------
\* A request that has cleared the defaults of an engine and is to save one.
ToSave(t, e) == /\ Busy(t) /\ netReq[t].op = "default" /\ netReq[t].at = "save"
                /\ netReq[t].copy.engine = e

\* One default stays at most when no row gets the mark and no request is to save.
LEMMA DefaultsKept ==
    ASSUME DefaultsAreFew, overlap \subseteq overlap',
           \A e \in NetEngines : \A i \in Rows' : IsDefault(i, e)' => i \in Rows /\ IsDefault(i, e),
           \A e \in NetEngines, t \in NetThreads : ToSave(t, e)' => ToSave(t, e)
    PROVE  DefaultsAreFew'
  BY DEF DefaultsAreFew, ToSave, Busy

\* A request that is opened is not to save before it has cleared the defaults.
LEMMA OpenSaves ==
    ASSUME NetType, NEW t \in NetThreads, NEW r \in NetRequest, Open(t, r),
           r.op # "default" \/ r.at # "save"
    PROVE  \A e \in NetEngines, u \in NetThreads : ToSave(u, e)' => ToSave(u, e)
  <1>1. netReq'[t] = r /\ \A u \in NetThreads \ {t} : netReq'[u] = netReq[u]
    BY DEF Open, NetType
  <1> QED
    BY <1>1 DEF ToSave, Busy

\* The only steps that mark a row are those that clear the others first.
LEMMA DefaultsStep == NetType /\ Alone /\ DefaultsAreFew /\ [NetworksNext]_netVars => DefaultsAreFew'
  <1> SUFFICES ASSUME NetType, Alone, DefaultsAreFew, [NetworksNext]_netVars PROVE DefaultsAreFew'
    OBVIOUS
  <1> USE NetworksAssumption
  <1>1. ASSUME NEW t \in NetThreads, BeginUpload(t) PROVE DefaultsAreFew'
    <2>1. PICK e \in NetEngines, c \in Contents, aux \in SUBSET (AuxNames \X Contents) :
              Open(t, [op |-> "upload", at |-> "file", id |-> 0, aux |-> aux,
                       copy |-> [engine |-> e, content |-> c, default |-> FALSE, was |-> FALSE],
                       default |-> FALSE, was |-> FALSE])
              /\ UNCHANGED <<row, auxRow, media, nextNet>>
      BY <1>1 DEF BeginUpload
    <2> DEFINE r == [op |-> "upload", at |-> "file", id |-> 0, aux |-> aux,
                       copy |-> [engine |-> e, content |-> c, default |-> FALSE, was |-> FALSE],
                       default |-> FALSE, was |-> FALSE]
    <2>2. r \in NetRequest /\ r.op = "upload"
      BY DEF NetRequest, NetOps, NetworkRow
    <2>3. \A x \in NetEngines, u \in NetThreads : ToSave(u, x)' => ToSave(u, x)
      <3> HIDE DEF r
      <3> QED BY <2>1, <2>2, OpenSaves DEF r
    <2> QED
      BY <2>1, <2>3, DefaultsKept DEF Open, IsDefault, Rows
  <1>2. ASSUME NEW t \in NetThreads, StoreFile(t) \/ StoreAux(t) PROVE DefaultsAreFew'
    <2>1. netReq[t] \in NetRequest
      BY <1>2 DEF StoreFile, StoreAux, NetType, Busy
    <2>2. \A u \in NetThreads : netReq'[u] = netReq[u] \/ netReq'[u].at # "save"
      BY <1>2, <2>1 DEF StoreFile, StoreAux, Proceed, NetType, NetRequest
    <2> QED
      BY <1>2, <2>2, DefaultsKept DEF StoreFile, StoreAux, Proceed, IsDefault, Rows, ToSave, Busy
  <1>3. ASSUME NEW t \in NetThreads, CreateRow(t) PROVE DefaultsAreFew'
    <2> DEFINE r == [netReq[t] EXCEPT !.at = "auxrow"]
               q == [r EXCEPT !.id = nextNet]
    <2>1. netReq[t] \in NetRequest /\ netReq' = [netReq EXCEPT ![t] = q]
      BY <1>3 DEF CreateRow, NetType, Busy
    <2>2. r \in NetRequest /\ r.at = "auxrow"
      BY <2>1 DEF NetRequest
    <2>3. q.at = "auxrow"
      <3> HIDE DEF r
      <3> QED BY <2>2 DEF NetRequest
    <2>4. netReq'[t] = q /\ \A u \in NetThreads \ {t} : netReq'[u] = netReq[u]
      <3> HIDE DEF q
      <3> QED BY <2>1 DEF NetType
    <2>5. \A x \in NetEngines, u \in NetThreads : ToSave(u, x)' => ToSave(u, x)
      <3> HIDE DEF q
      <3> QED BY <2>3, <2>4 DEF ToSave, Busy
    <2>6. \A e \in NetEngines : \A i \in Rows' : IsDefault(i, e)' => i \in Rows /\ IsDefault(i, e)
      BY <1>3 DEF CreateRow, Rows, NetType, IsDefault
    <2> QED
      BY <1>3, <2>5, <2>6, DefaultsKept DEF CreateRow
  <1>4. ASSUME NEW t \in NetThreads, CreateAuxRows(t) \/ Unlink(t) \/ UnlinkAux(t)
        PROVE  DefaultsAreFew'
    <2>1. \A x \in NetEngines, u \in NetThreads : ToSave(u, x)' => ToSave(u, x)
      BY <1>4 DEF CreateAuxRows, Unlink, UnlinkAux, Done, NetType, ToSave, Busy
    <2> QED
      BY <1>4, <2>1, DefaultsKept DEF CreateAuxRows, Unlink, UnlinkAux, Done, IsDefault, Rows
  <1>5. ASSUME NEW t \in NetThreads, NEW op \in NetOps \ {"upload"},
               NEW at \in {"clear", "save", "row"}, op # "default" \/ at # "save", BeginOn(t, op, at)
        PROVE  DefaultsAreFew'
    <2>1. PICK i \in Rows, d \in BOOLEAN, w \in BOOLEAN :
              Open(t, [op |-> op, at |-> at, id |-> i, copy |-> row[i], aux |-> {},
                       default |-> d, was |-> w])
              /\ UNCHANGED <<row, auxRow, media, nextNet>>
      BY <1>5 DEF BeginOn
    <2> DEFINE r == [op |-> op, at |-> at, id |-> i, copy |-> row[i], aux |-> {},
                     default |-> d, was |-> w]
    <2>2. r \in NetRequest /\ (r.op # "default" \/ r.at # "save")
      BY <1>5, RowType DEF NetRequest, Ids
    <2>3. \A x \in NetEngines, u \in NetThreads : ToSave(u, x)' => ToSave(u, x)
      <3> HIDE DEF r
      <3> QED BY <2>1, <2>2, OpenSaves DEF r
    <2> QED
      BY <2>1, <2>3, DefaultsKept DEF Open, IsDefault, Rows
  <1>6. ASSUME NEW t \in NetThreads, BeginDefault(t) \/ BeginEdit(t) \/ BeginDelete(t)
        PROVE  DefaultsAreFew'
    BY <1>5, <1>6 DEF BeginDefault, BeginEdit, BeginDelete, NetOps
  <1>7. ASSUME NEW t \in NetThreads, ClearDefaults(t) PROVE DefaultsAreFew'
    <2> DEFINE e == netReq[t].copy.engine
    <2>1. netReq[t] \in NetRequest
      BY <1>7 DEF ClearDefaults, NetType, Busy
    <2>2. \A i \in Rows' : i \in Rows /\ row'[i].engine = row[i].engine
                           /\ row'[i].default = (row[i].default /\ row[i].engine # e)
      BY <1>7 DEF ClearDefaults, Cleared, Rows, NetType, NetworkRow
    <2>3. \A u \in NetThreads : Busy(u)' =>
              /\ Busy(u) /\ netReq'[u].copy = netReq[u].copy /\ netReq'[u].op = netReq[u].op
              /\ u # t => netReq'[u] = netReq[u]
      BY <1>7, <2>1 DEF ClearDefaults, Proceed, NetType, Busy, NetRequest
    <2>4. \A x \in NetEngines, i \in Rows' : IsDefault(i, x)' => i \in Rows /\ IsDefault(i, x) /\ x # e
      BY <2>2 DEF IsDefault
    <2>5. \A x \in NetEngines, u \in NetThreads : ToSave(u, x)' => ToSave(u, x) \/ x = e
      BY <2>3 DEF ToSave, Busy
    <2>6. overlap' = overlap
      BY <1>7 DEF ClearDefaults, Proceed
    <2> QED
      BY <2>4, <2>5, <2>6 DEF DefaultsAreFew, ToSave
  <1>8. ASSUME NEW t \in NetThreads, SaveDefault(t) \/ SaveEdit(t) PROVE DefaultsAreFew'
    <2> DEFINE q == netReq[t]
               e == q.copy.engine
    <2>1. q \in NetRequest /\ Busy(t) /\ overlap' = overlap /\ q.copy \in NetworkRow
          /\ \A u \in NetThreads : Busy(u)' => Busy(u) /\ netReq'[u] = netReq[u] /\ u # t
      BY <1>8 DEF SaveDefault, SaveEdit, Done, NetType, Busy, NetRequest
    <2>2. PICK saved \in NetworkRow, base \in [Ids -> NetworkRow \cup {NoRow}] :
              /\ saved.engine = e
              /\ row' = [base EXCEPT ![q.id] = saved]
              /\ \A x \in NetEngines, i \in Ids :
                     base[i] # NoRow /\ base[i].engine = x /\ base[i].default
                         => i \in Rows /\ IsDefault(i, x)
              /\ saved.default => \A i \in Ids : base[i] # NoRow /\ base[i].default
                                     => base[i].engine # e \/ e \in overlap
      <3>1. CASE SaveDefault(t)
        <4> DEFINE s == [q.copy EXCEPT !.default = TRUE, !.was = TRUE]
        <4>1. s \in NetworkRow /\ s.engine = e /\ row' = [row EXCEPT ![q.id] = s]
          BY <2>1, <3>1 DEF SaveDefault, NetworkRow
        <4>2. ToSave(t, e) /\ e \in NetEngines
          BY <2>1, <3>1 DEF SaveDefault, ToSave, NetworkRow
        <4>3. \A i \in Ids : row[i] # NoRow /\ row[i].default => row[i].engine # e \/ e \in overlap
          BY <4>2 DEF DefaultsAreFew, ToSave, Rows, IsDefault
        <4>4. row \in [Ids -> NetworkRow \cup {NoRow}]
              /\ \A x \in NetEngines, i \in Ids :
                     row[i] # NoRow /\ row[i].engine = x /\ row[i].default
                         => i \in Rows /\ IsDefault(i, x)
          BY DEF NetType, Rows, IsDefault
        <4> HIDE DEF s
        <4> QED BY <4>1, <4>3, <4>4
      <3>2. CASE SaveEdit(t)
        <4> DEFINE s == [q.copy EXCEPT !.default = q.default, !.was = q.default \/ q.was]
                   b == IF q.default THEN Cleared(e) ELSE row
        <4>1. s \in NetworkRow /\ s.engine = e /\ s.default = q.default
          BY <2>1 DEF NetworkRow, NetRequest
        <4>2. row' = [b EXCEPT ![q.id] = s]
          BY <3>2 DEF SaveEdit
        <4>3. b \in [Ids -> NetworkRow \cup {NoRow}]
              /\ \A x \in NetEngines, i \in Ids :
                     b[i] # NoRow /\ b[i].engine = x /\ b[i].default
                         => i \in Rows /\ IsDefault(i, x)
          BY DEF Cleared, NetType, Rows, IsDefault, NetworkRow
        <4>4. q.default => \A i \in Ids : b[i] # NoRow /\ b[i].default => b[i].engine # e
          BY DEF Cleared, NetType, Rows, NetworkRow
        <4> HIDE DEF s, b
        <4> QED BY <4>1, <4>2, <4>3, <4>4
      <3> QED
        BY <1>8, <3>1, <3>2
    <2>3. ASSUME NEW x \in NetEngines \ overlap, NEW i \in Rows', NEW j \in Rows',
                 IsDefault(i, x)', IsDefault(j, x)'
          PROVE  i = j
      BY <2>2, <2>3 DEF Rows, IsDefault, DefaultsAreFew
    <2>4. ASSUME NEW x \in NetEngines \ overlap, NEW u \in NetThreads, ToSave(u, x)'
          PROVE  \A i \in Rows' : ~IsDefault(i, x)'
      <3>1. ToSave(u, x) /\ u # t /\ Busy(u)
        BY <2>1, <2>4 DEF ToSave, Busy
      <3>2. x # e
        BY <2>1, <3>1 DEF Alone, Touches, ToSave
      <3>3. \A i \in Rows : ~IsDefault(i, x)
        BY <3>1 DEF DefaultsAreFew, ToSave
      <3> QED
        BY <2>2, <3>2, <3>3 DEF Rows, IsDefault
    <2> QED
      BY <2>1, <2>3, <2>4 DEF DefaultsAreFew, ToSave
  <1>9. ASSUME NEW t \in NetThreads, DeleteRow(t) PROVE DefaultsAreFew'
    <2>1. netReq[t] \in NetRequest
      BY <1>9 DEF DeleteRow, NetType, Busy
    <2>2. \A u \in NetThreads : netReq'[u] = netReq[u] \/ netReq'[u].at # "save"
      BY <1>9, <2>1 DEF DeleteRow, Proceed, NetType, NetRequest
    <2>3. \A x \in NetEngines, u \in NetThreads : ToSave(u, x)' => ToSave(u, x)
      BY <2>2 DEF ToSave, Busy
    <2>4. \A x \in NetEngines : \A i \in Rows' : IsDefault(i, x)' => i \in Rows /\ IsDefault(i, x)
      BY <1>9 DEF DeleteRow, NetType, IsDefault, Rows
    <2> QED
      BY <1>9, <2>3, <2>4, DefaultsKept DEF DeleteRow, Proceed
  <1>10. ASSUME NEW t \in NetThreads, BeginAuxAdd(t) PROVE DefaultsAreFew'
    <2>1. PICK i \in Rows, n \in AuxNames, c \in Contents :
              Open(t, [op |-> "add", at |-> "aux", id |-> i, copy |-> row[i],
                       aux |-> {<<n, c>>}, default |-> FALSE, was |-> FALSE])
              /\ UNCHANGED <<row, auxRow, media, nextNet>>
      BY <1>10 DEF BeginAuxAdd
    <2> DEFINE r == [op |-> "add", at |-> "aux", id |-> i, copy |-> row[i],
                     aux |-> {<<n, c>>}, default |-> FALSE, was |-> FALSE]
    <2>2. r \in NetRequest /\ r.op = "add"
      BY RowType DEF NetRequest, Ids, NetOps
    <2>3. \A x \in NetEngines, u \in NetThreads : ToSave(u, x)' => ToSave(u, x)
      <3> HIDE DEF r
      <3> QED BY <2>1, <2>2, OpenSaves DEF r
    <2> QED
      BY <2>1, <2>3, DefaultsKept DEF Open, IsDefault, Rows
  <1>11. ASSUME NEW t \in NetThreads, BeginAuxRemove(t) PROVE DefaultsAreFew'
    <2>1. PICK a \in auxRow :
              Open(t, [op |-> "remove", at |-> "unlink", id |-> a.network, copy |-> row[a.network],
                          aux |-> {<<a.name, a.content>>}, default |-> FALSE, was |-> FALSE])
              /\ UNCHANGED <<row, media, nextNet>>
      BY <1>11 DEF BeginAuxRemove
    <2> DEFINE r == [op |-> "remove", at |-> "unlink", id |-> a.network, copy |-> row[a.network],
                     aux |-> {<<a.name, a.content>>}, default |-> FALSE, was |-> FALSE]
    <2>2. a.network \in Rows /\ a.name \in AuxNames /\ a.content \in Contents
      BY DEF NetType, AuxRow, Rows
    <2>3. r \in NetRequest /\ r.op = "remove"
      BY <2>2, RowType DEF NetRequest, Ids, NetOps
    <2>4. \A x \in NetEngines, u \in NetThreads : ToSave(u, x)' => ToSave(u, x)
      <3> HIDE DEF r
      <3> QED BY <2>1, <2>3, OpenSaves DEF r
    <2> QED
      BY <2>1, <2>4, DefaultsKept DEF Open, IsDefault, Rows
  <1>12. CASE UNCHANGED netVars
    BY <1>12, DefaultsKept DEF netVars, IsDefault, Rows, ToSave, Busy
  <1> QED
    BY <1>1, <1>2, <1>3, <1>4, <1>6, <1>7, <1>8, <1>9, <1>10, <1>11, <1>12 DEF NetworksNext

-----------------------------------------------------------------------------
\* The four facts hold together in every state.
LEMMA NetInvariant == NetworksSpec => []NetInv
  <1>1. NetInv /\ [NetworksNext]_netVars => NetInv'
    BY TypeStep, AloneStep, FilesStep, DefaultsStep DEF NetInv
  <1> QED
    BY <1>1, InitEstablishes, PTL DEF NetworksSpec

\* The file of every network is stored, for any engines, contents, threads and
\* forms, unless two requests on its content were open at once (network_upload,
\* network_delete, network_aux_delete).
THEOREM NetworksKeepTheirFiles == NetworksSpec => []NetworkHasItsFile
  <1>1. NetInv => NetworkHasItsFile
    BY DEF NetInv, NetType, FilesAreThere, Held, NetworkHasItsFile, Downloadable, Rows, NetworkRow
  <1> QED
    BY <1>1, NetInvariant, PTL

\* An engine has one default network at most, unless two requests on its
\* networks were open at once (network_default, network_edit).
THEOREM OneDefaultAtMost == NetworksSpec => []AtMostOneDefault
  <1>1. NetInv => AtMostOneDefault
    <2> SUFFICES ASSUME NetInv, NEW e \in NetEngines \ overlap
                 PROVE  Cardinality({i \in Rows : row[i].engine = e /\ row[i].default}) <= 1
      BY DEF AtMostOneDefault
    <2> DEFINE D == {i \in Rows : row[i].engine = e /\ row[i].default}
    <2>1. \A i, j \in D : i = j
      BY DEF NetInv, DefaultsAreFew, IsDefault
    <2>2. D = {} \/ \E i \in D : D = {i}
      BY <2>1
    <2>3. CASE D = {}
      BY <2>3, FS_EmptySet
    <2>4. ASSUME NEW i \in D, D = {i} PROVE Cardinality(D) <= 1
      <3> HIDE DEF D
      <3>1. Cardinality({i}) = 1
        BY FS_Singleton
      <3> QED
        BY <2>4, <3>1
    <2> QED
      BY <2>2, <2>3, <2>4
  <1> QED
    BY <1>1, NetInvariant, PTL
=============================================================================
