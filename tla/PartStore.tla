----------------------------- MODULE PartStore -----------------------------
(***************************************************************************)
(* What the PGN archive promises of a part: nothing of it is visible until *)
(* the server keeps it, what is kept under its key never changes, and it   *)
(* is archived once.                                                       *)
(***************************************************************************)
CONSTANTS
    Keys,       \* what identifies a part: its assignment and its number
    Contents,   \* what a part can consist of
    Nothing     \* what is kept of a part that is not there

VARIABLES kept, archived

storeVars == <<kept, archived>>

StoreTypeOK ==
    /\ kept \in [Keys -> Contents \union {Nothing}]
    /\ archived \subseteq Keys

StoreInit ==
    /\ kept = [k \in Keys |-> Nothing]
    /\ archived = {}

Keep(k, c) ==
    /\ kept[k] = Nothing
    /\ kept' = [kept EXCEPT ![k] = c]
    /\ UNCHANGED archived

Archive(k) ==
    /\ kept[k] # Nothing /\ k \notin archived
    /\ archived' = archived \union {k}
    /\ UNCHANGED kept

StoreNext == \E k \in Keys : Archive(k) \/ \E c \in Contents : Keep(k, c)

StoreSpec == StoreInit /\ [][StoreNext]_storeVars
=============================================================================
