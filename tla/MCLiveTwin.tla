----------------------------- MODULE MCLiveTwin -----------------------------
(***************************************************************************)
(* A small instance of LiveTwin: every command a caller could build from   *)
(* three interchangeable idempotency keys, three positions and five kinds: *)
(* one that pauses, one that resumes, one that changes the treatment, one  *)
(* whose plugin is not bound and one that is not granted.  Three keys and  *)
(* positions are one more than the command budget, and two treatments cost *)
(* more than the cost budget, so each budget is breached.  Two update ids  *)
(* at two positions include a reuse with changes.                          *)
(***************************************************************************)
EXTENDS LiveTwin

CONSTANT Keys

Kinds == {"pause", "resume", "close_lane", "invoke_plugin", "publish_recommendation"}

MCCommands ==
  {c \in [key : Keys, seq : 1 .. 3, expects : {"running", "paused"},
          kind : Kinds, cost : {0, 2}, treats : BOOLEAN] :
     /\ c.treats <=> c.kind = "close_lane"
     /\ c.cost = 2 <=> c.kind = "close_lane"}

MCGranted == Kinds \ {"publish_recommendation"}

MCUpdates == [id : {"u1", "u2"}, seq : 1 .. 2]

KeysAlike == Permutations(Keys)
=============================================================================
