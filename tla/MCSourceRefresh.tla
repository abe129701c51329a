-------------------------- MODULE MCSourceRefresh --------------------------
(***************************************************************************)
(* Instance of SourceRefresh: two WebTRIS sites, which replace each other, *)
(* and the TfGM archive, on one map.  A site is shown by its first product *)
(* and refreshed only with the others; one of those stands for both.       *)
(***************************************************************************)
EXTENDS SourceRefresh, TLC

CONSTANTS s1, s2

MCSources == {"site34", "site35", "signals"}
MCFamily == [s \in Sources |-> IF s = "signals" THEN "tfgm" ELSE "webtris"]
MCMode == [s \in Sources |-> "latest_available"]
MCProducts == [s \in Sources |-> IF s = "signals" THEN 1 ELSE 2]
MCShown == [s \in Sources |-> 1]

SessionSymmetry == Permutations(Sessions)

=============================================================================
