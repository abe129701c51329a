---------------------------- MODULE BodsRetention ----------------------------
(***************************************************************************)
(* Private BODS snapshots come and go: a live refresh preserves a response *)
(* in quarantine, promotes it to the accepted area and points the live     *)
(* scene at it (bods_live.py, bods_acquisition.py, snapshots.py), while an *)
(* operator previews what is out of bounds and, after confirming it,       *)
(* deletes it (bods_retention.py).  Refreshes exclude each other with the  *)
(* control lock; retention takes no lock at all, and neither waits for the *)
(* other.                                                                  *)
(*                                                                         *)
(* A snapshot family is named by the time its retrieval started.  The      *)
(* retrieval is inside the control lock and the clock is assumed not to be *)
(* set back, so each family is newer than those before it.                 *)
(***************************************************************************)
EXTENDS Naturals, FiniteSets

CONSTANTS
  Operators,     \* sessions of the operations page
  MaxTime,       \* bound of the clock
  LastRequest,   \* bound: no refresh starts later
  MaxAge, MaxCount, MinNewest,   \* BodsRetentionPolicy
  NoScene, NoPlan

Families == 1 .. LastRequest
Times == 1 .. MaxTime

ASSUME RetentionAssumption ==
  /\ MaxTime \in Nat \ {0} /\ LastRequest \in 0 .. MaxTime
  /\ MaxAge \in Nat \ {0} /\ MaxCount \in Nat
  /\ MinNewest \in Nat \ {0} /\ MinNewest <= MaxCount
  /\ NoScene \notin Families

VARIABLES
  now,
  accepted, quarantine,  \* the two directories of each family
  scene,                 \* the family live_vehicles.json refers to
  step, fresh,           \* how far the running refresh is, and its family
  phase,                 \* what each operator's session is doing
  plan,                  \* the preview kept in its session state
  seen,                  \* the inventory being taken: time and families found
  left,                  \* candidates still to be deleted
  gone,                  \* accepted directories this apply has deleted
  preserved              \* ghost: families that ever reached quarantine

store == <<accepted, quarantine>>
refresh == <<scene, step, fresh, preserved>>
sessions == <<phase, plan, seen, left, gone>>
vars == <<now, store, refresh, sessions>>

Init ==
  /\ now = 1
  /\ accepted = [f \in Families |-> "none"] /\ quarantine = [f \in Families |-> "none"]
  /\ scene = NoScene /\ step = "idle" /\ fresh = 0 /\ preserved = {}
  /\ phase = [o \in Operators |-> "idle"] /\ plan = [o \in Operators |-> NoPlan]
  /\ seen = [o \in Operators |-> {}] /\ left = [o \in Operators |-> {}]
  /\ gone = [o \in Operators |-> 0]

\* Time passes unseen until somebody reads the clock.
ReadClock(t) == t >= now /\ now' = t

-----------------------------------------------------------------------------
(* The refresh.  Every step may fail, or be the last one of its process.   *)

Whole(f) == accepted[f] = "whole" /\ quarantine[f] = "whole"

Moves(from, to) == step = from /\ step' = to

\* The control state spaces attempts, so no two have the same time.
Request(t) ==
  /\ Moves("idle", "requested")
  /\ ReadClock(t) /\ t > fresh
  /\ fresh' = t
  /\ UNCHANGED <<store, scene, preserved, sessions>>

\* Both areas publish a staged directory with one rename.
PublishQuarantine ==
  /\ Moves("requested", "quarantined")
  /\ quarantine' = [quarantine EXCEPT ![fresh] = "whole"]
  /\ preserved' = preserved \union {fresh}
  /\ UNCHANGED <<now, accepted, scene, fresh, sessions>>

\* The feed is valid; the members are read back from quarantine.
ReadForPromotion ==
  /\ Moves("quarantined", "promoting")
  /\ quarantine[fresh] = "whole"
  /\ UNCHANGED <<now, store, scene, fresh, preserved, sessions>>

PublishAccepted ==
  /\ Moves("promoting", "accepted")
  /\ accepted' = [accepted EXCEPT ![fresh] = "whole"]
  /\ UNCHANGED <<now, quarantine, scene, fresh, preserved, sessions>>

\* The receipt verifies the quarantine again, the scene reads the accepted copy.
BuildScene ==
  /\ Moves("accepted", "built")
  /\ Whole(fresh)
  /\ UNCHANGED <<now, store, scene, fresh, preserved, sessions>>

PublishScene ==
  /\ Moves("built", "idle")
  /\ scene' = fresh
  /\ UNCHANGED <<now, store, fresh, preserved, sessions>>

\* An exception or the end of the process; what was published stays.
RefreshEnds ==
  /\ step # "idle"
  /\ step' = "idle"
  /\ UNCHANGED <<now, store, scene, fresh, preserved, sessions>>

-----------------------------------------------------------------------------
(* Preview: which families there are, which are protected, which go.       *)

Goes(o, from, to) == phase[o] = from /\ phase' = [phase EXCEPT ![o] = to]

Newest(found) == {f \in found : Cardinality({g \in found : g > f}) < MinNewest}

\* Mutants: one of the two is not protected, or the wrong end is.
ProtectedActive(found, active) == active
ProtectedNewest(found, active) == Newest(found)
ProtectedOldest(found, active) == {f \in found : Cardinality({g \in found : g < f}) < MinNewest} \union active

Protected(found, active) == Newest(found) \union active

Expired(found, at) == {f \in found : f + MaxAge < at}

\* The oldest unprotected families, as many as there are too many in all.
Overflow(found, active) ==
  LET free == found \ Protected(found, active) IN
  {f \in free : Cardinality({g \in free : g <= f}) + MaxCount <= Cardinality(found)}

Candidates(found, at, active) ==
  (Expired(found, at) \union Overflow(found, active)) \ Protected(found, active)

Present(area) == {f \in Families : area[f] # "none"}

\* First the accepted directories are listed.
ListAccepted(o, at) ==
  /\ seen' = [seen EXCEPT ![o] = [at |-> at, listed |-> Present(accepted), decisions |-> {}]]
  /\ UNCHANGED <<store, refresh, plan, left, gone>>

Preview(o, t) ==
  /\ Goes(o, "idle", "previewing")
  /\ ReadClock(t)
  /\ ListAccepted(o, t)

\* An apply takes the preview again, for the time of its plan.
PlanTime == 0

Apply(o) ==
  /\ plan[o] # NoPlan
  /\ Goes(o, "idle", "applying")
  /\ ListAccepted(o, PlanTime)
  /\ UNCHANGED now

\* Then quarantine, and every family found is verified.
TakeInventory(o) ==
  /\ phase[o] \in {"previewing", "applying"}
  /\ seen[o].listed \subseteq Present(quarantine)
  /\ \A f \in Present(quarantine) : quarantine[f] = "whole"
  /\ \A f \in seen[o].listed : accepted[f] = "whole"
  /\ phase' = [phase EXCEPT ![o] = IF @ = "applying" THEN "rechecking" ELSE "deciding"]
  /\ seen' = [seen EXCEPT ![o].listed = {},
                          ![o].decisions = {[family |-> f, accepted |-> f \in seen[o].listed] : f \in Present(quarantine)}]
  /\ UNCHANGED <<now, store, refresh, plan, left, gone>>

\* Last the scene is read: the plan that follows.
Active == IF scene = NoScene THEN {} ELSE {scene}

\* The candidates follow from the rest and from the time of the plan, which an
\* apply repeats; they are kept instead of that time.
Previewed(o, candidates) == [active |-> Active, decisions |-> seen[o].decisions, candidates |-> candidates]

Found(o) == {d.family : d \in seen[o].decisions}

Dangling(o) == ~ Active \subseteq Found(o)

\* The page offers no apply for a plan that deletes nothing: it is not kept.
Decide(o) ==
  /\ Goes(o, "deciding", "idle")
  /\ ~ Dangling(o)
  /\ LET candidates == Candidates(Found(o), seen[o].at, Active) IN
     plan' = [plan EXCEPT ![o] = IF candidates = {} THEN NoPlan ELSE Previewed(o, candidates)]
  /\ seen' = [seen EXCEPT ![o] = {}]
  /\ UNCHANGED <<now, store, refresh, left, gone>>

\* A raised error, PLAN_DRIFT included, leaves the session's plan as it is;
\* the end of the session's process leaves none.
SessionFails(o) ==
  /\ phase[o] # "idle"
  /\ phase' = [phase EXCEPT ![o] = "idle"]
  /\ plan' \in {plan, [plan EXCEPT ![o] = NoPlan]}
  /\ seen' = [seen EXCEPT ![o] = {}] /\ left' = [left EXCEPT ![o] = {}] /\ gone' = [gone EXCEPT ![o] = 0]
  /\ UNCHANGED <<now, store, refresh>>

-----------------------------------------------------------------------------
(* Applying a plan.                                                        *)

Recheck(o) ==
  /\ Goes(o, "rechecking", "deleting")
  /\ ~ Dangling(o)
  /\ plan[o] = Previewed(o, plan[o].candidates)
  /\ left' = [left EXCEPT ![o] = plan[o].candidates]
  /\ seen' = [seen EXCEPT ![o] = {}]
  /\ UNCHANGED <<now, store, refresh, plan, gone>>

\* Candidates go in the order of their names.
Current(o, f) == f \in left[o] /\ \A g \in left[o] : f <= g

\* rmtree takes its files one by one and the directory last.  Whoever is in a
\* directory that another apply removes cannot go on (SessionFails).
Removing(area, f) == IF area[f] = "whole" THEN {"torn", "none"} ELSE {"none"}

DeleteAccepted(o, f) ==
  /\ Current(o, f) /\ phase[o] \in {"deleting", "inAccepted"} /\ accepted[f] # "none"
  /\ \E rest \in Removing(accepted, f) :
       /\ accepted' = [accepted EXCEPT ![f] = rest]
       /\ phase' = [phase EXCEPT ![o] = IF rest = "none" THEN "inQuarantine" ELSE "inAccepted"]
       /\ gone' = [gone EXCEPT ![o] = IF rest = "none" THEN @ + 1 ELSE @]
  /\ UNCHANGED <<now, quarantine, refresh, plan, seen, left>>

\* Mutant: the quarantine goes first, and the accepted copy outlives it.
AtQuarantineEarly(o, f) == phase[o] \in {"deleting", "inQuarantine"}

\* Where an apply turns to the quarantine of its family.
AtQuarantine(o, f) == phase[o] = "inQuarantine" \/ (phase[o] = "deleting" /\ accepted[f] = "none")

\* Mutant: an error of rmtree is ignored.
DeleteQuarantineIgnoringErrors(o, f) ==
  /\ Current(o, f) /\ AtQuarantine(o, f) /\ quarantine[f] # "none"
  /\ \E rest \in Removing(quarantine, f) : quarantine' = [quarantine EXCEPT ![f] = rest]
  /\ left' = [left EXCEPT ![o] = @ \ {f}]
  /\ phase' = [phase EXCEPT ![o] = "deleting"]
  /\ UNCHANGED <<now, accepted, refresh, plan, seen, gone>>

DeleteQuarantine(o, f) ==
  /\ Current(o, f) /\ AtQuarantine(o, f) /\ quarantine[f] # "none"
  /\ \E rest \in Removing(quarantine, f) :
       /\ quarantine' = [quarantine EXCEPT ![f] = rest]
       /\ left' = IF rest = "none" THEN [left EXCEPT ![o] = @ \ {f}] ELSE left
       /\ phase' = [phase EXCEPT ![o] = IF rest = "none" THEN "deleting" ELSE "inQuarantine"]
  /\ UNCHANGED <<now, accepted, refresh, plan, seen, gone>>

\* A receipt is only valid with the deletions its plan announced; the page then
\* forgets the plan.
Announced(o) == {d \in plan[o].decisions : d.accepted /\ d.family \in plan[o].candidates}

Receipt(o) ==
  /\ Goes(o, "deleting", "idle") /\ left[o] = {}
  /\ gone[o] = Cardinality(Announced(o))
  /\ plan' = [plan EXCEPT ![o] = NoPlan] /\ gone' = [gone EXCEPT ![o] = 0]
  /\ UNCHANGED <<now, store, refresh, seen, left>>

-----------------------------------------------------------------------------

Refresh ==
  \/ \E t \in Families : Request(t)
  \/ PublishQuarantine \/ ReadForPromotion \/ PublishAccepted
  \/ BuildScene \/ PublishScene \/ RefreshEnds

Retain(o) ==
  \/ \E t \in Times : Preview(o, t)
  \/ Apply(o) \/ TakeInventory(o) \/ Decide(o) \/ Recheck(o)
  \/ \E f \in Families : DeleteAccepted(o, f) \/ DeleteQuarantine(o, f)
  \/ Receipt(o) \/ SessionFails(o)

Next == Refresh \/ \E o \in Operators : Retain(o)

Spec == Init /\ [][Next]_vars

-----------------------------------------------------------------------------
(* What must hold.                                                         *)

Plans == [active : SUBSET Families, candidates : SUBSET Families,
          decisions : SUBSET [family : Families, accepted : BOOLEAN]]

Deleting == {"deleting", "inAccepted", "inQuarantine"}

TypeOK ==
  /\ now \in Times
  /\ accepted \in [Families -> {"none", "whole", "torn"}]
  /\ quarantine \in [Families -> {"none", "whole", "torn"}]
  /\ scene \in Families \union {NoScene} /\ fresh \in 0 .. now
  /\ step \in {"idle", "requested", "quarantined", "promoting", "accepted", "built"}
  /\ phase \in [Operators -> {"idle", "previewing", "applying", "deciding", "rechecking"} \union Deleting]
  /\ \A o \in Operators : plan[o] = NoPlan \/ plan[o] \in Plans
  /\ left \in [Operators -> SUBSET Families] /\ gone \in [Operators -> 0 .. LastRequest]
  /\ preserved \subseteq Families

\* The family on display is there in full, in both areas: although retention
\* takes no lock, no plan it confirms can hold the family that a refresh is about
\* to display.
ActiveSceneBacked == scene # NoScene => Whole(scene)

\* A refresh finds its own response wherever it has got to.
FreshIsKept ==
  /\ step \in {"quarantined", "promoting"} => quarantine[fresh] = "whole"
  /\ step \in {"accepted", "built"} => Whole(fresh)

\* An accepted copy, in whole or in part, never outlives its quarantine: without
\* it no inventory could be taken any more.
AcceptedHasQuarantine == \A f \in Families : accepted[f] # "none" => quarantine[f] = "whole"

\* Of everything ever preserved the newest MinNewest families are still there,
\* whoever previewed, confirmed, failed and retried meanwhile.
NewestKept == \A f \in Newest(preserved) : quarantine[f] = "whole"

\* A receipt is true: what an apply has done with is gone from both areas, even
\* with another apply at the same families, and with its last candidate all are.
ReceiptTrue ==
  \A o \in Operators : phase[o] \in Deleting =>
    \A f \in plan[o].candidates \ left[o] : accepted[f] = "none" /\ quarantine[f] = "none"
=============================================================================
