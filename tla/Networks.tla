------------------------------ MODULE Networks ------------------------------
(***************************************************************************)
(* The networks of a ShogiBench server: rows of Network and NetworkAuxFile *)
(* and the files under /Media/ that hold their contents, written by the    *)
(* pages and the API (OpenBench/views.py, utils.py, model_utils.py) from   *)
(* several server threads at once.                                         *)
(*                                                                         *)
(* A file is named after the hash of its content, so two rows with the     *)
(* same content share one file: the module calls that name the content.    *)
(* A network's name is a second label with the same check as its hash and  *)
(* is left out. A request is the record of its thread; a step is one       *)
(* database statement (or one transaction) or one file operation with the  *)
(* query that decides it.                                                  *)
(***************************************************************************)
EXTENDS Naturals, FiniteSets

CONSTANTS NetEngines,   \* engines of the configuration
          Contents,     \* file contents, by hash
          AuxNames,     \* names of auxiliary files
          NetThreads,   \* server threads that handle a request
          MaxNetworks,  \* bound: Network rows ever created
          MaxForms,     \* bound: requests ever made
          NoRow,        \* the value of a row that does not exist
          NoRequest     \* the value of a thread that handles no request

VARIABLES row,      \* row[i]: the Network row with id i
          auxRow,   \* the NetworkAuxFile rows
          media,    \* the contents whose file is stored
          nextNet,  \* the next id of the Network table
          netReq,   \* netReq[t]: the request that thread t handles
          forms,    \* the number of requests made so far
          overlap   \* engines and contents that two requests used at one time

netVars == <<row, auxRow, media, nextNet, netReq, forms, overlap>>

Ids == 1 .. MaxNetworks
NetworkRow == [engine: NetEngines, content: Contents, default: BOOLEAN, was: BOOLEAN]
AuxRow == [network: Ids, name: AuxNames, content: Contents]

\* What a form asks of a network; "add" and "remove" concern one auxiliary file.
NetOps == {"upload", "default", "delete", "edit", "add", "remove"}

\* A request: the operation, the step it is at, the id and the copy of the row
\* it works on, the auxiliary file it brings or removes, and the form's flags.
NetRequest ==
    [op: NetOps, at: {"file", "aux", "row", "auxrow", "clear", "save", "unlink"},
     id: 0 .. MaxNetworks, copy: NetworkRow, aux: SUBSET (AuxNames \X Contents),
     default: BOOLEAN, was: BOOLEAN]

ASSUME NetworksAssumption ==
    /\ {MaxNetworks, MaxForms} \subseteq Nat
    /\ NetEngines \cap Contents = {}
    /\ NoRow \notin NetworkRow /\ NoRequest \notin NetRequest

Busy(t) == netReq[t] # NoRequest
Rows == {i \in Ids : row[i] # NoRow}
RowsWith(c) == {i \in Rows : row[i].content = c}

\* network_download opens the file of the row.
Downloadable(i) == row[i].content \in media

\* The contents a request reads or writes.
Uses(r) == {r.copy.content} \cup {x[2] : x \in r.aux}

\* A request that begins marks what another open request also works on.
Marked(r) ==
    {x \in NetEngines \cup Contents :
        \E u \in NetThreads : /\ Busy(u)
                              /\ x \in {netReq[u].copy.engine} \cup Uses(netReq[u])
                              /\ x \in {r.copy.engine} \cup Uses(r)}

Open(t, r) ==
    /\ forms < MaxForms
    /\ forms' = forms + 1
    /\ netReq' = [netReq EXCEPT ![t] = r]
    /\ overlap' = overlap \cup Marked(r)

Proceed(t, at) == /\ netReq' = [netReq EXCEPT ![t].at = at] /\ UNCHANGED <<forms, overlap>>
Done(t) == /\ netReq' = [netReq EXCEPT ![t] = NoRequest] /\ UNCHANGED <<forms, overlap>>

-----------------------------------------------------------------------------
(* network_upload: the checks, the files, then the rows.                   *)

BeginUpload(t) ==
    \E e \in NetEngines, c \in Contents, aux \in SUBSET (AuxNames \X Contents) :
        /\ ~Busy(t)
        /\ \A x, y \in aux : x[1] = y[1] => x = y
        /\ ~\E i \in RowsWith(c) : row[i].engine = e
        /\ Open(t, [op |-> "upload", at |-> "file", id |-> 0, aux |-> aux,
                    copy |-> [engine |-> e, content |-> c, default |-> FALSE, was |-> FALSE],
                    default |-> FALSE, was |-> FALSE])
        /\ UNCHANGED <<row, auxRow, media, nextNet>>

\* A name already taken on the disk makes Django save under another name: the
\* file of this content is there already.
StoreFile(t) ==
    /\ Busy(t) /\ netReq[t].at = "file"
    /\ media' = IF RowsWith(netReq[t].copy.content) = {}
                THEN media \cup {netReq[t].copy.content} ELSE media
    /\ Proceed(t, "aux")
    /\ UNCHANGED <<row, auxRow, nextNet>>

\* Both forms store the files that os.path.exists does not find.
StoreAux(t) ==
    /\ Busy(t) /\ netReq[t].at = "aux"
    /\ media' = media \cup {x[2] : x \in netReq[t].aux}
    /\ Proceed(t, IF netReq[t].op = "upload" THEN "row" ELSE "auxrow")
    /\ UNCHANGED <<row, auxRow, nextNet>>

CreateRow(t) ==
    /\ Busy(t) /\ netReq[t].at = "row" /\ netReq[t].op = "upload"
    /\ nextNet <= MaxNetworks
    /\ row' = [row EXCEPT ![nextNet] = netReq[t].copy]
    /\ nextNet' = nextNet + 1
    /\ netReq' = [netReq EXCEPT ![t].at = "auxrow", ![t].id = nextNet]
    /\ UNCHANGED <<auxRow, media, forms, overlap>>

\* A row whose network is gone, or a name taken meanwhile, fails the request.
CreateAuxRows(t) ==
    /\ Busy(t) /\ netReq[t].at = "auxrow"
    /\ LET i == netReq[t].id
           new == {[network |-> i, name |-> x[1], content |-> x[2]] : x \in netReq[t].aux}
           taken == \E a \in auxRow, b \in new : a.network = i /\ a.name = b.name
       IN auxRow' = IF row[i] = NoRow \/ taken THEN auxRow ELSE auxRow \cup new
    /\ Done(t)
    /\ UNCHANGED <<row, media, nextNet>>

-----------------------------------------------------------------------------
(* The actions on a network that network_disambiguate found: the request   *)
(* keeps the row as it was read.                                           *)

BeginOn(t, op, at) ==
    \E i \in Rows, d \in BOOLEAN, w \in BOOLEAN :
        /\ ~Busy(t)
        /\ op # "edit" => ~d /\ ~w
        /\ d => ~w
        /\ Open(t, [op |-> op, at |-> at, id |-> i, copy |-> row[i], aux |-> {},
                    default |-> d, was |-> w])
        /\ UNCHANGED <<row, auxRow, media, nextNet>>

BeginDefault(t) == BeginOn(t, "default", "clear")
BeginEdit(t) == BeginOn(t, "edit", "save")

\* Default and previous default networks are refused at once.
BeginDelete(t) ==
    /\ BeginOn(t, "delete", "row")
    /\ ~netReq'[t].copy.default /\ ~netReq'[t].copy.was

Cleared_None(e) == row

\* The UPDATE that takes the mark from the current default of the engine.
Cleared(e) ==
    [i \in Ids |-> IF i \in Rows /\ row[i].engine = e /\ row[i].default
                   THEN [row[i] EXCEPT !.default = FALSE, !.was = TRUE] ELSE row[i]]

ClearDefaults(t) ==
    /\ Busy(t) /\ netReq[t].at = "clear"
    /\ row' = Cleared(netReq[t].copy.engine)
    /\ Proceed(t, "save")
    /\ UNCHANGED <<auxRow, media, nextNet>>

\* save() writes every column of the copy, and inserts a row that is gone.
SaveDefault(t) ==
    /\ Busy(t) /\ netReq[t].at = "save" /\ netReq[t].op = "default"
    /\ row' = [row EXCEPT ![netReq[t].id] =
                   [netReq[t].copy EXCEPT !.default = TRUE, !.was = TRUE]]
    /\ Done(t)
    /\ UNCHANGED <<auxRow, media, nextNet>>

\* network_edit does both in one transaction.
SaveEdit(t) ==
    /\ Busy(t) /\ netReq[t].at = "save" /\ netReq[t].op = "edit"
    /\ LET q == netReq[t]
           base == IF q.default THEN Cleared(q.copy.engine) ELSE row
       IN row' = [base EXCEPT ![q.id] =
                      [q.copy EXCEPT !.default = q.default, !.was = q.default \/ q.was]]
    /\ Done(t)
    /\ UNCHANGED <<auxRow, media, nextNet>>

\* The delete cascades to the auxiliary rows, not to their files.
DeleteRow(t) ==
    /\ Busy(t) /\ netReq[t].at = "row" /\ netReq[t].op = "delete"
    /\ row' = [row EXCEPT ![netReq[t].id] = NoRow]
    /\ auxRow' = {a \in auxRow : a.network # netReq[t].id}
    /\ Proceed(t, "unlink")
    /\ UNCHANGED <<media, nextNet>>

Unlink_Always(t) ==
    /\ Busy(t) /\ netReq[t].at = "unlink" /\ netReq[t].op = "delete"
    /\ media' = media \ {netReq[t].copy.content}
    /\ Done(t)
    /\ UNCHANGED <<row, auxRow, nextNet>>

\* Only other networks keep the file; auxiliary rows are not asked.
Unlink(t) ==
    /\ Busy(t) /\ netReq[t].at = "unlink" /\ netReq[t].op = "delete"
    /\ media' = IF RowsWith(netReq[t].copy.content) = {}
                THEN media \ {netReq[t].copy.content} ELSE media
    /\ Done(t)
    /\ UNCHANGED <<row, auxRow, nextNet>>

-----------------------------------------------------------------------------
(* The edit page adds and removes auxiliary files.                         *)

BeginAuxAdd(t) ==
    \E i \in Rows, n \in AuxNames, c \in Contents :
        /\ ~Busy(t)
        /\ ~\E a \in auxRow : a.network = i /\ a.name = n
        /\ Open(t, [op |-> "add", at |-> "aux", id |-> i, copy |-> row[i],
                    aux |-> {<<n, c>>}, default |-> FALSE, was |-> FALSE])
        /\ UNCHANGED <<row, auxRow, media, nextNet>>

\* network_aux_delete: the row, then the file if nothing refers to it.
BeginAuxRemove(t) ==
    \E a \in auxRow :
        /\ ~Busy(t)
        /\ auxRow' = auxRow \ {a}
        /\ Open(t, [op |-> "remove", at |-> "unlink", id |-> a.network, copy |-> row[a.network],
                    aux |-> {<<a.name, a.content>>}, default |-> FALSE, was |-> FALSE])
        /\ UNCHANGED <<row, media, nextNet>>

UnlinkAux(t) ==
    /\ Busy(t) /\ netReq[t].at = "unlink" /\ netReq[t].op = "remove"
    /\ media' = media \ {c \in {x[2] : x \in netReq[t].aux} :
                            RowsWith(c) = {} /\ ~\E a \in auxRow : a.content = c}
    /\ Done(t)
    /\ UNCHANGED <<row, auxRow, nextNet>>

-----------------------------------------------------------------------------
NetworksInit ==
    /\ row = [i \in Ids |-> NoRow]
    /\ auxRow = {}
    /\ media = {}
    /\ nextNet = 1
    /\ netReq = [t \in NetThreads |-> NoRequest]
    /\ forms = 0
    /\ overlap = {}

NetworksNext ==
    \E t \in NetThreads :
        \/ BeginUpload(t) \/ StoreFile(t) \/ StoreAux(t) \/ CreateRow(t) \/ CreateAuxRows(t)
        \/ BeginDefault(t) \/ ClearDefaults(t) \/ SaveDefault(t)
        \/ BeginEdit(t) \/ SaveEdit(t)
        \/ BeginDelete(t) \/ DeleteRow(t) \/ Unlink(t)
        \/ BeginAuxAdd(t) \/ BeginAuxRemove(t) \/ UnlinkAux(t)

NetworksSpec == NetworksInit /\ [][NetworksNext]_netVars

-----------------------------------------------------------------------------
\* The types of the variables.
NetworksTypeOK ==
    /\ row \in [Ids -> NetworkRow \cup {NoRow}]
    /\ auxRow \subseteq AuxRow
    /\ media \subseteq Contents
    /\ nextNet \in 1 .. MaxNetworks + 1
    /\ \A t \in NetThreads : Busy(t) => netReq[t] \in NetRequest
    /\ overlap \subseteq NetEngines \cup Contents

\* An engine has at most one default network, which api_build_info and the
\* creation form rely on, as long as no two requests on that engine's networks
\* were open at once (utils.py network_default, network_edit).
AtMostOneDefault ==
    \A e \in NetEngines \ overlap :
        Cardinality({i \in Rows : row[i].engine = e /\ row[i].default}) <= 1

\* The file of every network that can be downloaded is stored, whatever was
\* uploaded to, deleted from or detached from other engines and networks with the
\* same content, as long as no two requests on that content were open at once
\* (utils.py network_upload, network_aux_delete; model_utils.py network_delete).
NetworkHasItsFile ==
    \A i \in Rows : row[i].content \in overlap \/ Downloadable(i)
=============================================================================
