-------------------------- MODULE MCHistoricalStore --------------------------
(***************************************************************************)
(* A dataset, also offered with another record under its name; two         *)
(* versions of a feature; a snapshot of the dataset and the second         *)
(* version.  All payloads are the same bytes, so that every write meets    *)
(* the one file that another may just make or remove.                      *)
(***************************************************************************)
EXTENDS HistoricalStore, TLC

CONSTANTS d1, d1x, f1, f2, s1, p

MCItems == {d1, d1x, f1, f2, s1}
MCKind == (d1 :> "dataset") @@ (d1x :> "dataset")
  @@ (f1 :> "feature") @@ (f2 :> "feature") @@ (s1 :> "snapshot")
MCSubject == (d1 :> "traffic") @@ (d1x :> "traffic") @@ (f1 :> "speed@1") @@ (f2 :> "speed@2") @@ (s1 :> "monday")
MCNeeds == (d1 :> {}) @@ (d1x :> {}) @@ (f1 :> {}) @@ (f2 :> {}) @@ (s1 :> {d1, f2})
MCPriorVersion == (f2 :> "speed@1") @@ [i \in MCItems |-> None]
MCDigest == (d1 :> p) @@ (d1x :> p) @@ (s1 :> p) @@ (f1 :> None) @@ (f2 :> None)
Symmetry == Permutations(Handles) \union Permutations(Contracts)
=============================================================================
