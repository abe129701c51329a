-------------------------- MODULE BodsRetentionProofs --------------------------
(***************************************************************************)
(* Proofs about BodsRetention, for any number of operators, every policy   *)
(* and every bound on time and refreshes.                                  *)
(***************************************************************************)
EXTENDS BodsRetention, FiniteSetTheorems, TLAPS

Decisions == [family : Families, accepted : BOOLEAN]
Inventories == [at : Nat, listed : SUBSET Families, decisions : SUBSET Decisions]

\* At least MinNewest newer families have been preserved since.  This can
\* only become true, and is what keeps a plan harmless however old it gets.
Superseded(f) == Cardinality({g \in preserved : g > f}) >= MinNewest

Types ==
  /\ now \in Times
  /\ accepted \in [Families -> {"none", "whole", "torn"}]
  /\ quarantine \in [Families -> {"none", "whole", "torn"}]
  /\ scene \in Families \union {NoScene} /\ fresh \in 0 .. now
  /\ step \in {"idle", "requested", "quarantined", "promoting", "accepted", "built"}
  /\ preserved \subseteq Families

SessionTypes ==
  /\ phase \in [Operators -> {"idle", "previewing", "applying", "deciding", "rechecking"} \union Deleting]
  /\ plan \in [Operators -> Plans \union {NoPlan}]
  /\ seen \in [Operators -> Inventories \union {{}}]
  /\ left \in [Operators -> SUBSET Families]
  /\ gone \in [Operators -> 0 .. LastRequest]

\* What has been in quarantine is no younger than the running refresh.
RefreshFits ==
  /\ \A f \in preserved : f <= fresh
  /\ \A f \in Families : quarantine[f] # "none" => f \in preserved
  /\ step # "idle" => fresh \in Families

Stored == Types /\ RefreshFits /\ FreshIsKept /\ ActiveSceneBacked /\ AcceptedHasQuarantine /\ NewestKept

InventoryFits(o) ==
  phase[o] \in {"previewing", "applying", "deciding", "rechecking"} =>
    seen[o] \in Inventories /\ \A d \in seen[o].decisions : d.family \in preserved

PlanFits(o) ==
  plan[o] # NoPlan => \A c \in plan[o].candidates : Superseded(c) /\ c \notin plan[o].active

\* An apply works on what its plan named, and is done with what is gone.
ApplyFits(o) ==
  /\ phase[o] \in {"applying", "rechecking"} \union Deleting => plan[o] # NoPlan
  /\ phase[o] \in Deleting =>
       /\ left[o] \subseteq plan[o].candidates /\ scene \notin left[o]
       /\ \A f \in plan[o].candidates \ left[o] : accepted[f] = "none" /\ quarantine[f] = "none"
  /\ phase[o] = "inQuarantine" => left[o] # {} /\ \A f \in Families : Current(o, f) => accepted[f] = "none"

\* Each of the families still to be deleted adds one deletion at most.
GoneFits(o) ==
  /\ phase[o] \notin Deleting => gone[o] = 0
  /\ phase[o] \in {"deleting", "inAccepted"} => gone[o] + Cardinality(left[o]) <= LastRequest
  /\ phase[o] = "inQuarantine" => gone[o] + Cardinality(left[o]) <= LastRequest + 1

SessionFits(o) == InventoryFits(o) /\ PlanFits(o) /\ ApplyFits(o) /\ GoneFits(o)

IInv == Stored /\ SessionTypes /\ \A o \in Operators : SessionFits(o)

LEMMA InvariantsFollow ==
  IInv => TypeOK /\ ActiveSceneBacked /\ FreshIsKept /\ AcceptedHasQuarantine /\ NewestKept /\ ReceiptTrue
<1> SUFFICES ASSUME IInv PROVE TypeOK /\ ReceiptTrue
  BY DEF IInv, Stored
<1>1. TypeOK
  BY DEF IInv, Stored, Types, SessionTypes, TypeOK
<1>2. ReceiptTrue
  BY DEF IInv, SessionFits, ApplyFits, ReceiptTrue
<1> QED BY <1>1, <1>2

-----------------------------------------------------------------------------
(* Families that have been superseded.                                     *)

LEMMA FamiliesFinite ==
  /\ IsFiniteSet(Families) /\ Families \subseteq Nat /\ Cardinality(Families) = LastRequest
  /\ \A S \in SUBSET Families : IsFiniteSet(S) /\ Cardinality(S) \in Nat /\ Cardinality(S) <= LastRequest
<1>1. IsFiniteSet(Families) /\ Cardinality(Families) = LastRequest /\ Families \subseteq Nat
  BY RetentionAssumption, FS_Interval DEF Families
<1>2. ASSUME NEW S \in SUBSET Families
      PROVE  IsFiniteSet(S) /\ Cardinality(S) \in Nat /\ Cardinality(S) <= LastRequest
  BY <1>1, FS_Subset, FS_CardinalityType
<1> QED BY <1>1, <1>2

LEMMA CountsGrow ==
  ASSUME NEW S, NEW T, S \subseteq T, T \subseteq Families, NEW f
  PROVE  Cardinality({g \in S : g > f}) <= Cardinality({g \in T : g > f})
<1>1. {g \in T : g > f} \in SUBSET Families
  OBVIOUS
<1>2. IsFiniteSet({g \in T : g > f})
  BY <1>1, FamiliesFinite
<1>3. {g \in S : g > f} \in SUBSET {g \in T : g > f}
  OBVIOUS
<1> QED BY <1>2, <1>3, FS_Subset

LEMMA StaysSuperseded ==
  ASSUME NEW f, Superseded(f), preserved \subseteq preserved', preserved' \subseteq Families
  PROVE  Superseded(f)'
<1> DEFINE before == {g \in preserved : g > f}
           after == {g \in preserved' : g > f}
<1>1. Cardinality(before) <= Cardinality(after)
  BY CountsGrow
<1>2. before \in SUBSET Families /\ after \in SUBSET Families
  OBVIOUS
<1>3. Cardinality(before) \in Nat /\ Cardinality(after) \in Nat
  BY <1>2, FamiliesFinite
<1>4. Cardinality(before) >= MinNewest
  BY DEF Superseded
<1>5. Cardinality(after) >= MinNewest
  <2> HIDE DEF before, after
  <2> QED BY <1>1, <1>3, <1>4, RetentionAssumption
<1> QED BY <1>5 DEF Superseded

LEMMA SupersededIsOlder ==
  ASSUME Stored, NEW f \in Families, Superseded(f)
  PROVE  f < fresh /\ f \notin Newest(preserved)
<1> DEFINE newer == {g \in preserved : g > f}
<1>1. newer \in SUBSET Families
  BY DEF Stored, Types
<1>2. Cardinality(newer) \in Nat /\ Cardinality(newer) >= MinNewest /\ MinNewest \in Nat \ {0}
  BY <1>1, FamiliesFinite, RetentionAssumption DEF Superseded
<1>3. newer # {}
  <2> HIDE DEF newer
  <2> QED BY <1>2, FS_EmptySet
<1>4. PICK g \in preserved : g > f
  BY <1>3
<1>5. f < fresh
  BY <1>4, FamiliesFinite DEF Stored, Types, RefreshFits
<1>6. ~ (Cardinality(newer) < MinNewest)
  <2> HIDE DEF newer
  <2> QED BY <1>2
<1> QED BY <1>5, <1>6 DEF Newest

\* What a preview selects has been superseded and is not on display.
LEMMA CandidatesSuperseded ==
  ASSUME Stored, NEW found \in SUBSET preserved, NEW at, NEW active
  PROVE  /\ Candidates(found, at, active) \subseteq Families
         /\ \A c \in Candidates(found, at, active) : Superseded(c) /\ c \notin active
<1>1. Candidates(found, at, active) \subseteq found \ Protected(found, active)
  BY DEF Candidates, Expired, Overflow
<1>2. preserved \subseteq Families
  BY DEF Stored, Types
<1>3. ASSUME NEW c \in Candidates(found, at, active) PROVE Superseded(c) /\ c \notin active
  <2>1. c \in found /\ c \notin Newest(found) /\ c \notin active
    BY <1>1, <1>3 DEF Protected
  <2> DEFINE inFound == {g \in found : g > c}
             everywhere == {g \in preserved : g > c}
  <2>2. ~ (Cardinality(inFound) < MinNewest)
    BY <2>1 DEF Newest
  <2>3. Cardinality(inFound) <= Cardinality(everywhere)
    BY <1>2, CountsGrow
  <2>4. inFound \in SUBSET Families /\ everywhere \in SUBSET Families
    BY <1>2
  <2>5. Cardinality(inFound) \in Nat /\ Cardinality(everywhere) \in Nat
    BY <2>4, FamiliesFinite
  <2>6. Cardinality(everywhere) >= MinNewest
    <3> HIDE DEF inFound, everywhere
    <3> QED BY <2>2, <2>3, <2>5, RetentionAssumption
  <2> QED BY <2>1, <2>6 DEF Superseded
<1> QED BY <1>1, <1>2, <1>3

-----------------------------------------------------------------------------
(* The first state, and the refresh.                                       *)

LEMMA InitEstablishes == Init => IInv
<1> SUFFICES ASSUME Init PROVE IInv
  OBVIOUS
<1> USE DEF Init
<1>1. Types
  BY RetentionAssumption DEF Types, Times
<1>2. RefreshFits /\ FreshIsKept /\ ActiveSceneBacked /\ AcceptedHasQuarantine
  BY DEF RefreshFits, FreshIsKept, ActiveSceneBacked, AcceptedHasQuarantine
<1>3. NewestKept
  BY DEF NewestKept, Newest
<1>4. SessionTypes
  BY RetentionAssumption DEF SessionTypes
<1>5. ASSUME NEW o \in Operators PROVE SessionFits(o)
  BY DEF SessionFits, InventoryFits, PlanFits, ApplyFits, GoneFits, Deleting
<1> QED BY <1>1, <1>2, <1>3, <1>4, <1>5 DEF IInv, Stored

\* A refresh touches its own family only, and displays no other.
LEMMA RefreshKeepsSessions ==
  ASSUME IInv, UNCHANGED sessions, preserved \subseteq preserved', preserved' \subseteq Families,
         \A f \in Families \ {fresh} : accepted'[f] = accepted[f] /\ quarantine'[f] = quarantine[f],
         scene' \in {scene, fresh}
  PROVE  SessionTypes' /\ \A o \in Operators : SessionFits(o)'
<1>1. SessionTypes'
  BY DEF IInv, SessionTypes, sessions
<1>2. ASSUME NEW o \in Operators PROVE SessionFits(o)'
  <2>1. SessionFits(o) /\ plan[o] \in Plans \union {NoPlan} /\ left[o] \in SUBSET Families
    BY DEF IInv, SessionTypes
  <2>2. InventoryFits(o)'
    BY <2>1 DEF SessionFits, InventoryFits, sessions
  <2>3. ASSUME plan[o] # NoPlan, NEW c \in plan[o].candidates
        PROVE  c \in Families /\ c < fresh /\ Superseded(c)' /\ c \notin plan[o].active
    <3>1. c \in Families
      BY <2>1, <2>3 DEF Plans
    <3>2. Superseded(c) /\ c \notin plan[o].active
      BY <2>1, <2>3 DEF SessionFits, PlanFits
    <3> QED BY <3>1, <3>2, StaysSuperseded, SupersededIsOlder DEF IInv
  <2>4. PlanFits(o)'
    BY <2>3 DEF PlanFits, sessions
  <2>5. ApplyFits(o)'
    <3>1. fresh \in Nat
      BY DEF IInv, Stored, Types, Times
    <3>2. ASSUME phase[o] \in Deleting
          PROVE  /\ fresh \notin plan[o].candidates /\ fresh \notin left[o]
                 /\ \A f \in plan[o].candidates : accepted'[f] = accepted[f] /\ quarantine'[f] = quarantine[f]
      <4>1. plan[o] # NoPlan /\ left[o] \subseteq plan[o].candidates
        BY <2>1, <3>2 DEF SessionFits, ApplyFits
      <4>2. \A c \in plan[o].candidates : c \in Families /\ c < fresh
        BY <2>3, <4>1
      <4>3. fresh \notin plan[o].candidates
        BY <3>1, <4>2
      <4> QED BY <4>1, <4>2, <4>3
    <3>3. phase[o] = "inQuarantine" => phase[o] \in Deleting
      BY DEF Deleting
    <3> QED BY <2>1, <3>2, <3>3 DEF SessionFits, ApplyFits, Current, sessions
  <2>6. GoneFits(o)'
    BY <2>1 DEF SessionFits, GoneFits, sessions
  <2> QED BY <2>2, <2>4, <2>5, <2>6 DEF SessionFits
<1> QED BY <1>1, <1>2

LEMMA NewFamilyIsNewest ==
  ASSUME Types, NEW f, preserved' = preserved \union {fresh}, fresh \in Families, f \in Newest(preserved)', f # fresh
  PROVE  f \in Newest(preserved)
<1> DEFINE before == {g \in preserved : g > f}
           after == {g \in preserved' : g > f}
<1>1. preserved' \subseteq Families /\ preserved \subseteq preserved'
  BY DEF Types
<1>2. Cardinality(before) <= Cardinality(after)
  BY <1>1, CountsGrow
<1>3. before \in SUBSET Families /\ after \in SUBSET Families
  BY <1>1
<1>4. Cardinality(before) \in Nat /\ Cardinality(after) \in Nat
  BY <1>3, FamiliesFinite
<1>5. f \in preserved' /\ Cardinality(after) < MinNewest
  BY DEF Newest
<1>6. Cardinality(before) < MinNewest
  <2> HIDE DEF before, after
  <2> QED BY <1>2, <1>4, <1>5, RetentionAssumption
<1> QED BY <1>5, <1>6 DEF Newest

LEMMA RefreshPreserves ==
  ASSUME IInv, Refresh
  PROVE  IInv'
<1> USE DEF IInv, Stored
<1>1. Types'
  <2> USE DEF Types, Moves
  <2>1. CASE \E t \in Families : Request(t)
    BY <2>1, RetentionAssumption DEF Request, ReadClock, Families, Times, store
  <2>2. CASE PublishQuarantine
    BY <2>2 DEF PublishQuarantine, RefreshFits
  <2>3. CASE ReadForPromotion \/ BuildScene \/ PublishScene \/ RefreshEnds
    BY <2>3 DEF ReadForPromotion, BuildScene, PublishScene, RefreshEnds, store, RefreshFits
  <2>4. CASE PublishAccepted
    BY <2>4 DEF PublishAccepted
  <2> QED BY <2>1, <2>2, <2>3, <2>4 DEF Refresh
<1>2. RefreshFits'
  <2>1. fresh \in Nat
    BY DEF Types, Times
  <2> USE DEF RefreshFits, Types, Moves
  <2>2. CASE \E t \in Families : Request(t)
    BY <2>1, <2>2, FamiliesFinite DEF Request, store
  <2>3. CASE PublishQuarantine
    BY <2>1, <2>3 DEF PublishQuarantine
  <2>4. CASE ReadForPromotion \/ BuildScene \/ PublishScene \/ RefreshEnds \/ PublishAccepted
    BY <2>4 DEF ReadForPromotion, BuildScene, PublishScene, RefreshEnds, PublishAccepted, store
  <2> QED BY <2>2, <2>3, <2>4 DEF Refresh
<1>3. FreshIsKept' /\ ActiveSceneBacked' /\ AcceptedHasQuarantine'
  <2> USE DEF FreshIsKept, ActiveSceneBacked, AcceptedHasQuarantine, Whole, Moves, RefreshFits, Types
  <2>1. CASE \E t \in Families : Request(t)
    BY <2>1 DEF Request, store
  <2>2. CASE PublishQuarantine
    BY <2>2 DEF PublishQuarantine
  <2>3. CASE ReadForPromotion \/ BuildScene \/ PublishScene \/ RefreshEnds
    BY <2>3 DEF ReadForPromotion, BuildScene, PublishScene, RefreshEnds, store
  <2>4. CASE PublishAccepted
    BY <2>4 DEF PublishAccepted
  <2> QED BY <2>1, <2>2, <2>3, <2>4 DEF Refresh
<1>4. NewestKept'
  <2>1. CASE PublishQuarantine
    <3>1. quarantine' = [quarantine EXCEPT ![fresh] = "whole"] /\ preserved' = preserved \union {fresh} /\ fresh \in Families
      BY <2>1 DEF PublishQuarantine, Moves, RefreshFits
    <3>2. \A f \in Newest(preserved)' : f = fresh \/ f \in Newest(preserved)
      BY <3>1, NewFamilyIsNewest
    <3>3. \A f \in Newest(preserved)' : f \in Families
      BY <1>1 DEF Newest, Types
    <3> QED BY <3>1, <3>2, <3>3 DEF NewestKept, Types
  <2>2. CASE ~ PublishQuarantine
    <3>1. UNCHANGED <<quarantine, preserved>>
      BY <2>2 DEF Refresh, Request, ReadForPromotion, PublishAccepted, BuildScene, PublishScene, RefreshEnds, store
    <3> QED BY <3>1 DEF NewestKept, Newest
  <2> QED BY <2>1, <2>2
<1>5. SessionTypes' /\ \A o \in Operators : SessionFits(o)'
  <2>1. preserved' \subseteq Families
    BY <1>1 DEF Types
  <2>2. /\ UNCHANGED sessions /\ preserved \subseteq preserved' /\ scene' \in {scene, fresh}
        /\ \A f \in Families \ {fresh} : accepted'[f] = accepted[f] /\ quarantine'[f] = quarantine[f]
    BY DEF Refresh, Request, PublishQuarantine, ReadForPromotion, PublishAccepted, BuildScene, PublishScene, RefreshEnds, store, Types
  <2> QED BY <2>1, <2>2, RefreshKeepsSessions
<1> QED BY <1>1, <1>2, <1>3, <1>4, <1>5

-----------------------------------------------------------------------------
(* The sessions.                                                           *)

\* A step of one session that leaves the store alone.
LEMMA SessionStep ==
  ASSUME IInv, NEW o \in Operators, now' \in Times, now' >= now, UNCHANGED <<store, refresh>>, SessionTypes',
         \A p \in Operators \ {o} :
           /\ phase'[p] = phase[p] /\ plan'[p] = plan[p] /\ seen'[p] = seen[p]
           /\ left'[p] = left[p] /\ gone'[p] = gone[p],
         SessionFits(o)'
  PROVE  IInv'
<1>1. Stored'
  BY DEF IInv, Stored, Types, RefreshFits, FreshIsKept, ActiveSceneBacked, AcceptedHasQuarantine, NewestKept,
         Newest, Whole, store, refresh, Times
<1>2. ASSUME NEW p \in Operators \ {o} PROVE SessionFits(p)'
  BY <1>2 DEF IInv, SessionFits, InventoryFits, PlanFits, Superseded, ApplyFits, Current, GoneFits, store, refresh
<1> QED BY <1>1, <1>2 DEF IInv

LEMMA ListingFits ==
  ASSUME IInv, NEW o \in Operators, NEW at \in Nat, ListAccepted(o, at), now' \in Times, now' >= now,
         \/ Goes(o, "idle", "previewing")
         \/ Goes(o, "idle", "applying") /\ plan[o] # NoPlan
  PROVE  IInv'
<1> DEFINE inventory == [at |-> at, listed |-> Present(accepted), decisions |-> {}]
<1>1. inventory \in Inventories
  BY DEF Inventories, Present
<1>2. /\ seen' = [seen EXCEPT ![o] = inventory] /\ UNCHANGED <<store, refresh, plan, left, gone>>
      /\ phase[o] = "idle" /\ phase' \in {[phase EXCEPT ![o] = "previewing"], [phase EXCEPT ![o] = "applying"]}
      /\ phase'[o] = "applying" => plan[o] # NoPlan
  BY DEF ListAccepted, Goes, IInv, SessionTypes
<1>3. inventory.decisions = {}
  OBVIOUS
<1> HIDE DEF inventory
<1>4. SessionTypes'
  BY <1>1, <1>2 DEF IInv, SessionTypes
<1>5. SessionFits(o)'
  BY <1>1, <1>2, <1>3 DEF IInv, SessionTypes, SessionFits, InventoryFits, PlanFits, Superseded, ApplyFits, GoneFits,
                          Deleting, refresh
<1>6. \A p \in Operators \ {o} :
        /\ phase'[p] = phase[p] /\ plan'[p] = plan[p] /\ seen'[p] = seen[p]
        /\ left'[p] = left[p] /\ gone'[p] = gone[p]
  BY <1>2 DEF IInv, SessionTypes
<1> QED BY <1>2, <1>4, <1>5, <1>6, SessionStep

LEMMA PreviewPreserves ==
  ASSUME IInv, NEW o \in Operators, (\E t \in Times : Preview(o, t)) \/ Apply(o)
  PROVE  IInv'
<1>1. now \in Times /\ Times \subseteq Nat
  BY DEF IInv, Stored, Types, Times
<1>2. CASE \E t \in Times : Preview(o, t)
  BY <1>1, <1>2, ListingFits DEF Preview, ReadClock
<1>3. CASE Apply(o)
  BY <1>1, <1>3, ListingFits DEF Apply, PlanTime
<1> QED BY <1>2, <1>3

LEMMA InventoryPreserves ==
  ASSUME IInv, NEW o \in Operators, TakeInventory(o)
  PROVE  IInv'
<1> DEFINE found == {[family |-> f, accepted |-> f \in seen[o].listed] : f \in Present(quarantine)}
           inventory == [seen[o] EXCEPT !.listed = {}, !.decisions = found]
           to == IF phase[o] = "applying" THEN "rechecking" ELSE "deciding"
<1>1. phase[o] \in {"previewing", "applying"} /\ phase' = [phase EXCEPT ![o] = to]
  BY DEF TakeInventory
<1>2. UNCHANGED <<now, store, refresh, plan, left, gone>>
  BY DEF TakeInventory
<1>3. seen[o] \in Inventories /\ SessionFits(o)
  BY <1>1 DEF IInv, SessionFits, InventoryFits
<1>4. found \in SUBSET Decisions /\ \A d \in found : d.family \in preserved
  <2>1. \A f \in Present(quarantine) : f \in Families /\ f \in preserved
    BY DEF Present, IInv, Stored, RefreshFits
  <2>2. \A f \in Families : [family |-> f, accepted |-> f \in seen[o].listed] \in Decisions
    <3>1. \A f \in Families, b \in BOOLEAN : [family |-> f, accepted |-> b] \in Decisions
      BY DEF Decisions
    <3>2. \A f \in Families : (f \in seen[o].listed) \in BOOLEAN
      OBVIOUS
    <3> QED BY <3>1, <3>2, Zenon
  <2>3. \A f : [family |-> f, accepted |-> f \in seen[o].listed].family = f
    OBVIOUS
  <2> QED BY <2>1, <2>2, <2>3, Zenon
<1> HIDE DEF found
<1>5. inventory \in Inventories /\ inventory.decisions = found
  BY <1>3, <1>4 DEF Inventories
<1>6. seen' = [seen EXCEPT ![o] = inventory]
  BY <1>3 DEF TakeInventory, found, IInv, SessionTypes
<1> HIDE DEF inventory
<1>7. SessionTypes'
  BY <1>1, <1>2, <1>5, <1>6 DEF IInv, SessionTypes
<1>8. SessionFits(o)'
  BY <1>1, <1>2, <1>3, <1>4, <1>5, <1>6 DEF IInv, SessionTypes, SessionFits, InventoryFits, PlanFits, Superseded,
                                           ApplyFits, GoneFits, Deleting, refresh
<1>9. \A p \in Operators \ {o} :
        /\ phase'[p] = phase[p] /\ plan'[p] = plan[p] /\ seen'[p] = seen[p]
        /\ left'[p] = left[p] /\ gone'[p] = gone[p]
  BY <1>1, <1>2, <1>6 DEF IInv, SessionTypes
<1>10. now' \in Times /\ now' >= now
  BY <1>2 DEF IInv, Stored, Types, Times
<1> QED BY <1>2, <1>7, <1>8, <1>9, <1>10, SessionStep

\* The plan that follows names only families that are superseded.
LEMMA DecidePreserves ==
  ASSUME IInv, NEW o \in Operators, Decide(o)
  PROVE  IInv'
<1> DEFINE candidates == Candidates(Found(o), seen[o].at, Active)
           decided == Previewed(o, candidates)
<1>1. phase[o] = "deciding" /\ phase' = [phase EXCEPT ![o] = "idle"] /\ SessionFits(o)
  BY DEF Decide, Goes, IInv
<1>2. seen[o] \in Inventories /\ Found(o) \subseteq preserved
  BY <1>1 DEF SessionFits, InventoryFits, Found
<1>3. candidates \subseteq Families /\ \A c \in candidates : Superseded(c) /\ c \notin Active
  BY <1>2, CandidatesSuperseded DEF IInv
<1>4. Active \subseteq Families
  BY DEF Active, IInv, Stored, Types
<1> HIDE DEF candidates
<1>5. decided \in Plans /\ decided.candidates = candidates /\ decided.active = Active
  BY <1>2, <1>3, <1>4 DEF Previewed, Plans, Inventories, Decisions
<1>6. \/ plan' = [plan EXCEPT ![o] = NoPlan]
      \/ plan' = [plan EXCEPT ![o] = decided]
  BY DEF Decide, candidates
<1>7. seen' = [seen EXCEPT ![o] = {}] /\ UNCHANGED <<now, store, refresh, left, gone>>
  BY DEF Decide
<1> HIDE DEF decided
<1>8. SessionTypes'
  BY <1>1, <1>5, <1>6, <1>7 DEF IInv, SessionTypes
<1>9. PlanFits(o)'
  <2>1. plan'[o] \in {NoPlan, decided}
    BY <1>6 DEF IInv, SessionTypes
  <2>2. \A c \in candidates : Superseded(c)'
    BY <1>3, <1>7 DEF Superseded, refresh
  <2> QED BY <1>3, <1>5, <2>1, <2>2 DEF PlanFits
<1>10. SessionFits(o)'
  BY <1>1, <1>7, <1>9 DEF IInv, SessionTypes, SessionFits, InventoryFits, ApplyFits, GoneFits, Deleting
<1>11. \A p \in Operators \ {o} :
        /\ phase'[p] = phase[p] /\ plan'[p] = plan[p] /\ seen'[p] = seen[p]
        /\ left'[p] = left[p] /\ gone'[p] = gone[p]
  BY <1>1, <1>6, <1>7 DEF IInv, SessionTypes
<1>12. now' \in Times /\ now' >= now
  BY <1>7 DEF IInv, Stored, Types, Times
<1> QED BY <1>7, <1>8, <1>10, <1>11, <1>12, SessionStep

\* A session that fails or has its receipt.
LEMMA EndingPreserves ==
  ASSUME IInv, NEW o \in Operators, SessionFails(o) \/ Receipt(o)
  PROVE  IInv'
<1>1. /\ phase' = [phase EXCEPT ![o] = "idle"] /\ plan' \in {plan, [plan EXCEPT ![o] = NoPlan]}
      /\ seen' \in {seen, [seen EXCEPT ![o] = {}]} /\ left' \in {left, [left EXCEPT ![o] = {}]}
      /\ gone' = [gone EXCEPT ![o] = 0] /\ UNCHANGED <<now, store, refresh>>
  BY DEF SessionFails, Receipt, Goes
<1>2. SessionTypes'
  BY <1>1, RetentionAssumption DEF IInv, SessionTypes
<1>3. SessionFits(o)'
  BY <1>1 DEF IInv, SessionTypes, SessionFits, InventoryFits, PlanFits, Superseded, ApplyFits, GoneFits, Deleting, refresh
<1>4. \A p \in Operators \ {o} :
        /\ phase'[p] = phase[p] /\ plan'[p] = plan[p] /\ seen'[p] = seen[p]
        /\ left'[p] = left[p] /\ gone'[p] = gone[p]
  BY <1>1 DEF IInv, SessionTypes
<1>5. now' \in Times /\ now' >= now
  BY <1>1 DEF IInv, Stored, Types, Times
<1> QED BY <1>1, <1>2, <1>3, <1>4, <1>5, SessionStep

\* The plan confirmed is that for the scene of now, which is none of its candidates.
LEMMA RecheckPreserves ==
  ASSUME IInv, NEW o \in Operators, Recheck(o)
  PROVE  IInv'
<1>1. /\ phase[o] = "rechecking" /\ phase' = [phase EXCEPT ![o] = "deleting"] /\ SessionFits(o)
      /\ plan[o] = Previewed(o, plan[o].candidates) /\ left' = [left EXCEPT ![o] = plan[o].candidates]
      /\ seen' = [seen EXCEPT ![o] = {}] /\ UNCHANGED <<now, store, refresh, plan, gone>>
  BY DEF Recheck, Goes, IInv
<1>2. plan[o] # NoPlan /\ plan[o] \in Plans
  BY <1>1 DEF SessionFits, ApplyFits, IInv, SessionTypes
<1>3. plan[o].candidates \subseteq Families /\ plan[o].active = Active
  <2>1. \A c : Previewed(o, c).active = Active
    BY DEF Previewed
  <2> QED BY <1>1, <1>2, <2>1 DEF Plans
<1>4. scene \notin plan[o].candidates
  BY <1>1, <1>2, <1>3, RetentionAssumption DEF SessionFits, PlanFits, Active
<1>5. SessionTypes'
  BY <1>1, <1>3 DEF IInv, SessionTypes, Deleting
<1>6. gone[o] = 0 /\ Cardinality(plan[o].candidates) <= LastRequest /\ Cardinality(plan[o].candidates) \in Nat
  BY <1>1, <1>3, FamiliesFinite DEF SessionFits, GoneFits, Deleting
<1>7. SessionFits(o)'
  <2>1. phase'[o] = "deleting" /\ left'[o] = plan[o].candidates
    BY <1>1 DEF IInv, SessionTypes
  <2>2. InventoryFits(o)' /\ PlanFits(o)'
    BY <1>1, <2>1 DEF InventoryFits, SessionFits, PlanFits, Superseded, refresh
  <2>3. ApplyFits(o)'
    BY <1>1, <1>2, <1>4, <2>1 DEF ApplyFits, refresh
  <2>4. GoneFits(o)'
    BY <1>1, <1>6, <2>1 DEF GoneFits, Deleting
  <2> QED BY <2>2, <2>3, <2>4 DEF SessionFits
<1>8. \A p \in Operators \ {o} :
        /\ phase'[p] = phase[p] /\ plan'[p] = plan[p] /\ seen'[p] = seen[p]
        /\ left'[p] = left[p] /\ gone'[p] = gone[p]
  BY <1>1 DEF IInv, SessionTypes
<1>9. now' \in Times /\ now' >= now
  BY <1>1 DEF IInv, Stored, Types, Times
<1> QED BY <1>1, <1>5, <1>7, <1>8, <1>9, SessionStep

-----------------------------------------------------------------------------
(* Deletion.                                                               *)

\* A family that an apply deletes is neither displayed, nor in work, nor among
\* the newest.
LEMMA DeletedIsOld ==
  ASSUME IInv, NEW o \in Operators, NEW f \in left[o], phase[o] \in Deleting
  PROVE  f \in Families /\ f # scene /\ f # fresh /\ f \notin Newest(preserved)
<1>1. SessionFits(o) /\ left[o] \in SUBSET Families
  BY DEF IInv, SessionTypes
<1>2. f \in Families /\ f # scene /\ Superseded(f)
  BY <1>1 DEF SessionFits, ApplyFits, PlanFits
<1>3. f < fresh /\ f \notin Newest(preserved)
  BY <1>2, SupersededIsOlder DEF IInv
<1>4. f \in Nat /\ fresh \in Nat
  BY <1>2, FamiliesFinite DEF IInv, Stored, Types, Times
<1> QED BY <1>2, <1>3, <1>4

\* What one apply deletes stays gone for the others.
LEMMA OthersFit ==
  ASSUME IInv, NEW o \in Operators, UNCHANGED <<refresh, plan, seen>>,
         \A p \in Operators \ {o} : phase'[p] = phase[p] /\ left'[p] = left[p] /\ gone'[p] = gone[p],
         \A f \in Families : (accepted[f] = "none" => accepted'[f] = "none")
                             /\ (quarantine[f] = "none" => quarantine'[f] = "none"),
         NEW p \in Operators \ {o}
  PROVE  SessionFits(p)'
<1>1. SessionFits(p) /\ plan[p] \in Plans \union {NoPlan} /\ left[p] \in SUBSET Families
  BY DEF IInv, SessionTypes
<1>2. InventoryFits(p)' /\ PlanFits(p)' /\ GoneFits(p)'
  BY <1>1 DEF SessionFits, InventoryFits, PlanFits, GoneFits, Superseded, refresh
<1>3. phase[p] \in Deleting => plan[p] \in Plans
  BY <1>1 DEF SessionFits, ApplyFits
<1>4. ApplyFits(p)'
  BY <1>1, <1>3 DEF SessionFits, ApplyFits, Current, Plans, refresh
<1> QED BY <1>2, <1>4 DEF SessionFits

\* The first of what is left is one family.
LEMMA CurrentIsOne ==
  ASSUME SessionTypes, NEW o \in Operators, NEW f \in Families, NEW g \in Families, Current(o, f), Current(o, g)
  PROVE  f = g
BY FamiliesFinite DEF Current, SessionTypes

LEMMA DeleteAcceptedPreserves ==
  ASSUME IInv, NEW o \in Operators, NEW f \in Families, DeleteAccepted(o, f)
  PROVE  IInv'
<1>1. PICK rest \in {"torn", "none"} :
        /\ accepted' = [accepted EXCEPT ![f] = rest]
        /\ phase' = [phase EXCEPT ![o] = IF rest = "none" THEN "inQuarantine" ELSE "inAccepted"]
        /\ gone' = [gone EXCEPT ![o] = IF rest = "none" THEN @ + 1 ELSE @]
  BY DEF DeleteAccepted, Removing
<1>2. /\ f \in left[o] /\ phase[o] \in {"deleting", "inAccepted"} /\ accepted[f] # "none" /\ Current(o, f)
      /\ UNCHANGED <<now, quarantine, refresh, plan, seen, left>>
  BY DEF DeleteAccepted, Current
<1>3. f # scene /\ f # fresh
  BY <1>2, DeletedIsOld DEF Deleting
<1>4. Stored'
  <2>1. Types' /\ RefreshFits' /\ NewestKept'
    BY <1>1, <1>2 DEF IInv, Stored, Types, RefreshFits, NewestKept, Newest, refresh
  <2>2. FreshIsKept' /\ ActiveSceneBacked'
    BY <1>1, <1>2, <1>3 DEF IInv, Stored, Types, RefreshFits, FreshIsKept, ActiveSceneBacked, Whole, refresh
  <2>3. AcceptedHasQuarantine'
    BY <1>1, <1>2 DEF IInv, Stored, Types, AcceptedHasQuarantine
  <2> QED BY <2>1, <2>2, <2>3 DEF Stored
<1>5. /\ gone[o] \in Nat /\ Cardinality(left[o]) \in Nat /\ Cardinality(left[o]) # 0
      /\ gone[o] + Cardinality(left[o]) <= LastRequest
  <2>1. left[o] \in SUBSET Families /\ gone[o] \in Nat
    BY DEF IInv, SessionTypes
  <2>2. IsFiniteSet(left[o]) /\ Cardinality(left[o]) \in Nat /\ left[o] # {}
    BY <1>2, <2>1, FamiliesFinite
  <2>3. Cardinality(left[o]) # 0
    BY <2>2, FS_EmptySet
  <2> QED BY <1>2, <2>1, <2>2, <2>3 DEF IInv, SessionFits, GoneFits
<1>6. gone[o] + 1 \in 0 .. LastRequest
  BY <1>5, RetentionAssumption
<1>7. SessionTypes'
  BY <1>1, <1>2, <1>6 DEF IInv, SessionTypes, Deleting
<1>8. SessionFits(o)'
  <2>1. SessionFits(o) /\ plan[o] \in Plans \union {NoPlan} /\ left[o] \in SUBSET Families
    BY DEF IInv, SessionTypes
  <2>2. /\ phase'[o] = (IF rest = "none" THEN "inQuarantine" ELSE "inAccepted")
        /\ gone'[o] = (IF rest = "none" THEN gone[o] + 1 ELSE gone[o])
        /\ accepted'[f] = rest /\ \A g \in Families \ {f} : accepted'[g] = accepted[g]
    BY <1>1 DEF IInv, SessionTypes, Stored, Types
  <2>3. InventoryFits(o)' /\ PlanFits(o)'
    BY <1>2, <2>1, <2>2 DEF InventoryFits, SessionFits, PlanFits, Superseded, refresh
  <2>4. ApplyFits(o)'
    <3>1. plan[o] \in Plans /\ plan[o] # NoPlan
      BY <1>2, <2>1 DEF SessionFits, ApplyFits, Deleting
    <3>2. \A g \in Families : Current(o, g)' => g = f
      BY <1>2, CurrentIsOne DEF Current, IInv
    <3>3. \A g \in plan[o].candidates \ left[o] : accepted'[g] = "none" /\ quarantine'[g] = "none"
      BY <1>2, <2>1, <2>2, <3>1 DEF SessionFits, ApplyFits, Deleting, Plans
    <3> QED BY <1>2, <2>1, <2>2, <3>1, <3>2, <3>3 DEF SessionFits, ApplyFits, Deleting, refresh
  <2>5. GoneFits(o)'
    <3>1. left'[o] = left[o]
      BY <1>2
    <3>2. CASE rest = "none"
      BY <1>5, <2>2, <3>1, <3>2, RetentionAssumption DEF GoneFits, Deleting
    <3>3. CASE rest = "torn"
      BY <1>5, <2>2, <3>1, <3>3 DEF GoneFits, Deleting
    <3> QED BY <3>2, <3>3
  <2> QED BY <2>3, <2>4, <2>5 DEF SessionFits
<1>9. ASSUME NEW p \in Operators \ {o} PROVE SessionFits(p)'
  <2>1. phase'[p] = phase[p] /\ left'[p] = left[p] /\ gone'[p] = gone[p]
    BY <1>1, <1>2 DEF IInv, SessionTypes
  <2>2. \A g \in Families : (accepted[g] = "none" => accepted'[g] = "none")
                            /\ (quarantine[g] = "none" => quarantine'[g] = "none")
    BY <1>1, <1>2 DEF IInv, Stored, Types
  <2>3. \A q \in Operators \ {o} : phase'[q] = phase[q] /\ left'[q] = left[q] /\ gone'[q] = gone[q]
    BY <1>1, <1>2 DEF IInv, SessionTypes
  <2> QED BY <1>2, <2>2, <2>3, OthersFit
<1> QED BY <1>4, <1>7, <1>8, <1>9 DEF IInv

LEMMA DeleteQuarantinePreserves ==
  ASSUME IInv, NEW o \in Operators, NEW f \in Families, DeleteQuarantine(o, f)
  PROVE  IInv'
<1>1. PICK rest \in {"torn", "none"} :
        /\ quarantine' = [quarantine EXCEPT ![f] = rest]
        /\ left' = IF rest = "none" THEN [left EXCEPT ![o] = @ \ {f}] ELSE left
        /\ phase' = [phase EXCEPT ![o] = IF rest = "none" THEN "deleting" ELSE "inQuarantine"]
  BY DEF DeleteQuarantine, Removing
<1>2. /\ f \in left[o] /\ Current(o, f) /\ quarantine[f] # "none"
      /\ UNCHANGED <<now, accepted, refresh, plan, seen, gone>>
      /\ phase[o] = "inQuarantine" \/ (phase[o] = "deleting" /\ accepted[f] = "none")
  BY DEF DeleteQuarantine, Current, AtQuarantine
<1>3. /\ f # scene /\ f # fresh /\ f \notin Newest(preserved)
  BY <1>2, DeletedIsOld DEF Deleting
<1>4. SessionFits(o) /\ plan[o] \in Plans /\ plan[o] # NoPlan /\ left[o] \in SUBSET Families /\ phase[o] \in Deleting
  BY <1>2 DEF IInv, SessionTypes, SessionFits, ApplyFits, Deleting
<1>5. accepted[f] = "none"
  BY <1>2, <1>4 DEF SessionFits, ApplyFits
<1>6. Stored'
  <2>1. Types' /\ RefreshFits'
    BY <1>1, <1>2 DEF IInv, Stored, Types, RefreshFits, refresh
  <2>2. NewestKept'
    BY <1>1, <1>2, <1>3 DEF IInv, Stored, Types, NewestKept, Newest, refresh
  <2>3. FreshIsKept' /\ ActiveSceneBacked'
    BY <1>1, <1>2, <1>3 DEF IInv, Stored, Types, RefreshFits, FreshIsKept, ActiveSceneBacked, Whole, refresh
  <2>4. AcceptedHasQuarantine'
    BY <1>1, <1>2, <1>5 DEF IInv, Stored, Types, AcceptedHasQuarantine
  <2> QED BY <2>1, <2>2, <2>3, <2>4 DEF Stored
<1>7. SessionTypes'
  BY <1>1, <1>2 DEF IInv, SessionTypes, Deleting
<1>8. /\ phase'[o] = (IF rest = "none" THEN "deleting" ELSE "inQuarantine")
      /\ left'[o] = (IF rest = "none" THEN left[o] \ {f} ELSE left[o])
      /\ quarantine'[f] = rest /\ \A g \in Families \ {f} : quarantine'[g] = quarantine[g]
  BY <1>1 DEF IInv, SessionTypes, Stored, Types
<1>9. SessionFits(o)'
  <2>1. InventoryFits(o)' /\ PlanFits(o)'
    BY <1>2, <1>4, <1>8 DEF InventoryFits, SessionFits, PlanFits, Superseded, refresh
  <2>2. ApplyFits(o)'
    <3>1. left'[o] \subseteq plan[o].candidates /\ scene \notin left'[o]
      BY <1>4, <1>8 DEF SessionFits, ApplyFits
    <3>2. ASSUME NEW g \in plan[o].candidates \ left'[o] PROVE accepted[g] = "none" /\ quarantine'[g] = "none"
      <4>1. CASE g = f
        BY <1>2, <1>5, <1>8, <3>2, <4>1
      <4>2. CASE g # f
        BY <1>4, <1>8, <3>2, <4>2 DEF SessionFits, ApplyFits, Plans
      <4> QED BY <4>1, <4>2
    <3>3. rest # "none" => \A g \in Families : Current(o, g)' => g = f
      BY <1>2, <1>8, CurrentIsOne DEF Current, IInv
    <3> QED BY <1>2, <1>4, <1>5, <1>8, <3>1, <3>2, <3>3 DEF ApplyFits, refresh
  <2>3. GoneFits(o)'
    <3>1. IsFiniteSet(left[o]) /\ Cardinality(left[o]) \in Nat
      BY <1>4, FamiliesFinite
    <3>2. Cardinality(left[o] \ {f}) = Cardinality(left[o]) - 1
      BY <1>2, <3>1, FS_RemoveElement
    <3>3. gone[o] \in Nat /\ LastRequest \in Nat
      BY RetentionAssumption DEF IInv, SessionTypes
    <3>4. gone[o] + Cardinality(left[o]) <= LastRequest + 1
      BY <1>2, <1>4, <3>1, <3>3 DEF SessionFits, GoneFits
    <3> QED BY <1>2, <1>8, <3>1, <3>2, <3>3, <3>4 DEF GoneFits, Deleting
  <2> QED BY <2>1, <2>2, <2>3 DEF SessionFits
<1>10. ASSUME NEW p \in Operators \ {o} PROVE SessionFits(p)'
  <2>1. \A g \in Families : (accepted[g] = "none" => accepted'[g] = "none")
                            /\ (quarantine[g] = "none" => quarantine'[g] = "none")
    BY <1>1, <1>2, <1>5 DEF IInv, Stored, Types, DeleteQuarantine
  <2>2. \A q \in Operators \ {o} : phase'[q] = phase[q] /\ left'[q] = left[q] /\ gone'[q] = gone[q]
    BY <1>1, <1>2 DEF IInv, SessionTypes
  <2> QED BY <1>2, <2>1, <2>2, OthersFit
<1> QED BY <1>6, <1>7, <1>9, <1>10 DEF IInv

-----------------------------------------------------------------------------
LEMMA NextPreserves == IInv /\ [Next]_vars => IInv'
<1> SUFFICES ASSUME IInv, [Next]_vars PROVE IInv'
  OBVIOUS
<1>1. CASE UNCHANGED vars
  <2>1. Stored' /\ SessionTypes'
    BY <1>1 DEF vars, store, refresh, sessions, IInv, Stored, Types, RefreshFits, FreshIsKept, ActiveSceneBacked, Whole,
                AcceptedHasQuarantine, NewestKept, Newest, SessionTypes
  <2>2. \A o \in Operators : SessionFits(o)'
    BY <1>1 DEF vars, store, refresh, sessions, IInv, SessionFits, InventoryFits, PlanFits, Superseded, ApplyFits, Current, GoneFits
  <2> QED BY <2>1, <2>2 DEF IInv
<1>2. CASE Refresh
  BY <1>2, RefreshPreserves
<1>3. ASSUME NEW o \in Operators, Retain(o) PROVE IInv'
  BY <1>3, PreviewPreserves, InventoryPreserves, DecidePreserves, EndingPreserves, RecheckPreserves,
     DeleteAcceptedPreserves, DeleteQuarantinePreserves, Zenon DEF Retain
<1> QED BY <1>1, <1>2, <1>3 DEF Next

\* One invariant, from which the properties follow.
LEMMA Invariant == Spec => []IInv
BY InitEstablishes, NextPreserves, PTL DEF Spec

\* The types, and no apply deletes more than there is.
THEOREM TypeCorrect == Spec => []TypeOK
<1>1. IInv => TypeOK
  BY InvariantsFollow
<1> QED BY <1>1, Invariant, PTL

\* Without any lock, no confirmed plan takes what is on display.
THEOREM SceneBacked == Spec => []ActiveSceneBacked
<1>1. IInv => ActiveSceneBacked
  BY InvariantsFollow
<1> QED BY <1>1, Invariant, PTL

\* A refresh finds its own response at each of its steps.
THEOREM FreshKept == Spec => []FreshIsKept
<1>1. IInv => FreshIsKept
  BY InvariantsFollow
<1> QED BY <1>1, Invariant, PTL

\* Wherever an apply stops, every accepted copy still has its quarantine.
THEOREM QuarantineOutlives == Spec => []AcceptedHasQuarantine
<1>1. IInv => AcceptedHasQuarantine
  BY InvariantsFollow
<1> QED BY <1>1, Invariant, PTL

\* Plans of different ages, applied in any order, leave the newest families.
THEOREM NewestStay == Spec => []NewestKept
<1>1. IInv => NewestKept
  BY InvariantsFollow
<1> QED BY <1>1, Invariant, PTL

\* What an apply has done with is gone from both areas and stays gone.
THEOREM ReceiptsTrue == Spec => []ReceiptTrue
<1>1. IInv => ReceiptTrue
  BY InvariantsFollow
<1> QED BY <1>1, Invariant, PTL
=============================================================================
