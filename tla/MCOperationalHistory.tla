------------------------- MODULE MCOperationalHistory -------------------------
(***************************************************************************)
(* Three attempts: the last tick of day 0, the first tick of day 1, and    *)
(* one in the other hour of day 0; days of two hours of one tick.          *)
(***************************************************************************)
EXTENDS OperationalHistory, TLC

CONSTANTS a1, a2, a3

MCTerminal == (a1 :> 1) @@ (a2 :> 2) @@ (a3 :> 0)
MCSource == (a1 :> "bods") @@ (a2 :> "bods") @@ (a3 :> "national_highways")
MCTrigger == (a1 :> "automatic") @@ (a2 :> "operator") @@ (a3 :> "automatic")
MCSources == {"bods", "national_highways"}
MCExpectations == {[s \in MCSources |-> 0], [s \in MCSources |-> 1]}
Symmetry == Permutations(Clients)
=============================================================================
