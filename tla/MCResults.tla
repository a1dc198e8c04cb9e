----------------------------- MODULE MCResults -----------------------------
(***************************************************************************)
(* Results on small instances: a pair is won, lost or split, and the       *)
(* likelihood ratio is the balance of the pentanomial.                     *)
(***************************************************************************)
EXTENDS Results, TLC

PairOf(column, l, d, w) ==
    [c \in Columns |-> CASE c = column   -> 1
                         [] c = "games"  -> 2
                         [] c = "losses" -> l
                         [] c = "draws"  -> d
                         [] c = "wins"   -> w
                         [] OTHER        -> 0]

WonPair   == PairOf("WW", 0, 0, 2)
LostPair  == PairOf("LL", 2, 0, 0)
SplitPair == PairOf("DD", 1, 0, 1)

MCPairs == {WonPair, LostPair}
OnePair == {WonPair}
Balance(t) == 2 * (t["WW"] - t["LL"]) + t["DW"] - t["LD"]
MCLowerLLR == -1

\* Approved at once, with artifacts at hand: a new row, or an old one.
Ready(modes) == { r \in NewRows : r.mode \in modes /\ r.approved /\ ~r.awaiting
                                  /\ ~r.reverses }
ReadyGames == { r \in Ready({"GAMES"}) : r.scaled }
\* The watcher and the buttons have work to do on these.
Unready == { r \in NewRows : r.mode = "GAMES" /\ r.scaled /\ ~r.reverses }
ReadyAll   == Ready(AllModes) \union { r \in Unready : r.approved }

Symmetry == Permutations(Workers) \union Permutations(Threads) \union Permutations(Editors)
=============================================================================
