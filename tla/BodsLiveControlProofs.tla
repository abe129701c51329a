----------------------- MODULE BodsLiveControlProofs -----------------------
(***************************************************************************)
(* Proofs about BodsLiveControl, for every set of callers, every interval, *)
(* every bound on retries, redirects and history, and an unbounded clock.  *)
(*                                                                         *)
(* Part 1: the order of summaries and what _bounded_history returns.       *)
(* Part 2: the inductive invariant.                                        *)
(* Part 3: the invariants of the runs, and the refinement of SourceGate.   *)
(* Part 4: the scene and the state.                                        *)
(* Part 5: a bound on the steps of a call.                                 *)
(***************************************************************************)
EXTENDS BodsLiveControl, TLAPS, FiniteSetTheorems, WellFoundedInduction

-----------------------------------------------------------------------------
(***************************************************************************)
(* Part 1.                                                                 *)
(***************************************************************************)

\* Before is a strict total order on summaries.
LEMMA BeforeOrders ==
  /\ \A i \in Summary : ~Before(i, i)
  /\ \A i, j, k \in Summary : Before(i, j) /\ Before(j, k) => Before(i, k)
  /\ \A i, j \in Summary : i # j => Before(i, j) \/ Before(j, i)
<1>1. \A i \in Summary : i.at \in Nat /\ i.attempt \in Nat
  BY DEF Summary
<1>2. ASSUME NEW i \in Summary, NEW j \in Summary, i.at = j.at, i.attempt = j.attempt
      PROVE  i = j
  BY <1>2 DEF Summary
<1> QED  BY <1>1, <1>2 DEF Before

After(h, i) == {j \in h : Before(i, j)}

\* A later summary has strictly fewer summaries after it.
LEMMA AfterShrinks ==
  ASSUME NEW h \in SUBSET Summary, NEW i \in h, NEW j \in h, Before(i, j)
  PROVE  After(h, j) \subseteq After(h, i) /\ After(h, j) # After(h, i)
<1>1. After(h, j) \subseteq After(h, i)
  BY BeforeOrders DEF After
<1>2. j \in After(h, i) /\ j \notin After(h, j)
  BY BeforeOrders DEF After
<1> QED  BY <1>1, <1>2

\* history[-1] exists: a nonempty finite history has a last entry.
LEMMA LatestIsMaximal ==
  ASSUME NEW h \in SUBSET Summary, IsFiniteSet(h), h # {}
  PROVE  Latest(h) \in h /\ \A j \in h \ {Latest(h)} : Before(j, Latest(h))
<1> DEFINE T == {After(h, i) : i \in h}
           R == StrictSubsetOrdering(h)
<1>1. IsWellFoundedOn(R, FiniteSubsetsOf(h))
  BY FS_StrictSubsetOrderingWellFounded
<1>2. T \subseteq FiniteSubsetsOf(h) /\ T # {}
  <2>1. FiniteSubsetsOf(h) = SUBSET h
    <3> HIDE DEF T, R
    <3> QED  BY FS_FiniteSubsetsOfFinite
  <2>2. \A i \in h : After(h, i) \in SUBSET h
    BY DEF After
  <2> QED  BY <2>1, <2>2
<1> HIDE DEF R
<1>3. \E x \in T : \A y \in T : <<y, x>> \notin R
  <2> HIDE DEF T
  <2> QED  BY <1>1, <1>2, WFMin
<1>4. PICK i \in h : \A y \in T : <<y, After(h, i)>> \notin R
  BY <1>3
<1>5. After(h, i) = {}
  <2>1. SUFFICES ASSUME NEW j \in After(h, i)  PROVE FALSE
    OBVIOUS
  <2>2. j \in h /\ Before(i, j)
    BY DEF After
  <2>3. After(h, j) \subseteq After(h, i) /\ After(h, j) # After(h, i)
    BY <2>2, AfterShrinks
  <2>4. <<After(h, j), After(h, i)>> \in R
    BY <2>2, <2>3 DEF R, StrictSubsetOrdering, After
  <2> QED  BY <1>4, <2>2, <2>4
<1>6. \A j \in h \ {i} : Before(j, i)
  BY <1>5, BeforeOrders DEF After
<1> QED  BY <1>6 DEF Latest

\* What _bounded_history returns: it adds at most the new summary and never
\* holds more than MaxHistory entries, whatever it was given.
LEMMA BoundedHistoryBounds ==
  ASSUME NEW h \in SUBSET Summary, IsFiniteSet(h), NEW item \in Summary, NEW at \in Nat
  PROVE  /\ BoundedHistory(h, item, at) \in SUBSET Summary
         /\ IsFiniteSet(BoundedHistory(h, item, at))
         /\ Cardinality(BoundedHistory(h, item, at)) <= Cardinality(h) + 1
         /\ Cardinality(BoundedHistory(h, item, at)) <= MaxHistory
<1> DEFINE fresh == {i \in h \cup {item} : i.at + MaxAge >= at}
           kept == {i \in fresh : Cardinality({j \in fresh : Before(i, j)}) < MaxHistory}
           rank == [i \in kept |-> Cardinality(After(fresh, i))]
<1>1. kept = BoundedHistory(h, item, at)
  BY DEF BoundedHistory
<1>2. /\ IsFiniteSet(h \cup {item})
      /\ Cardinality(h \cup {item}) \in Nat /\ Cardinality(h) \in Nat
      /\ Cardinality(h \cup {item}) <= Cardinality(h) + 1
  BY FS_AddElement, FS_CardinalityType
<1>3. IsFiniteSet(fresh) /\ fresh \in SUBSET Summary
  BY <1>2, FS_Subset
<1>4. kept \subseteq fresh /\ kept \in SUBSET (h \cup {item})
  OBVIOUS
<1> HIDE DEF fresh
<1>5. /\ IsFiniteSet(kept)
      /\ Cardinality(kept) <= Cardinality(h \cup {item})
      /\ Cardinality(kept) \in Nat
  <2> HIDE DEF kept
  <2> QED  BY <1>2, <1>4, FS_Subset, FS_CardinalityType
<1>6. \A i \in kept : rank[i] \in 0 .. MaxHistory - 1
  <2>1. \A i \in fresh : IsFiniteSet(After(fresh, i)) /\ Cardinality(After(fresh, i)) \in Nat
    BY <1>3, FS_Subset, FS_CardinalityType DEF After
  <2>2. \A i \in kept : Cardinality(After(fresh, i)) < MaxHistory
    BY DEF After
  <2> HIDE DEF kept
  <2> QED  BY <1>4, <2>1, <2>2, BoundsAssumption
<1>7. ASSUME NEW i \in kept, NEW j \in kept, Before(i, j)
      PROVE  rank[i] # rank[j]
  <2>1. After(fresh, j) \subseteq After(fresh, i) /\ After(fresh, j) # After(fresh, i)
    BY <1>3, <1>4, <1>7, AfterShrinks
  <2>2. IsFiniteSet(After(fresh, i))
    BY <1>3, FS_Subset DEF After
  <2>3. Cardinality(After(fresh, i)) # Cardinality(After(fresh, j))
    BY <2>1, <2>2, FS_Subset
  <2> QED  BY <2>3
<1>8. rank \in Injection(kept, 0 .. MaxHistory - 1)
  <2>1. \A i, j \in kept : i # j => rank[i] # rank[j]
    BY <1>3, <1>4, <1>7, BeforeOrders
  <2>2. rank \in [kept -> 0 .. MaxHistory - 1]
    BY <1>6
  <2> HIDE DEF rank
  <2> QED  BY <2>1, <2>2 DEF Injection, IsInjective
<1>9. /\ IsFiniteSet(0 .. MaxHistory - 1)
      /\ Cardinality(0 .. MaxHistory - 1) = MaxHistory
  BY FS_Interval, BoundsAssumption
<1>10. Cardinality(kept) <= MaxHistory
  <2> HIDE DEF kept, rank
  <2> QED  BY <1>8, <1>9, FS_Injection
<1> QED
  <2> HIDE DEF kept
  <2> QED  BY <1>1, <1>2, <1>3, <1>4, <1>5, <1>10, BoundsAssumption

-----------------------------------------------------------------------------
(***************************************************************************)
(* Part 2.  StateReconciles, AttemptOnRecord and AttemptsSpaced are not    *)
(* inductive: they rest on who may hold the lock, on what a call's locals  *)
(* are at each location, and on how the last stamp that asked the provider *)
(* relates to the last stamp on record.                                    *)
(***************************************************************************)

\* Exactly the caller inside the locked section holds the lock.
LockHeld ==
  /\ \A a \in Actors : pc[a] \in Holding => lock = a
  /\ lock # NoActor => pc[lock] \in Holding

\* Locals: the transport counters are in bounds and start at zero, and a
\* response is kept from its acceptance to the end of the call.
LocalsFit ==
  \A a \in Actors :
    /\ pc[a] = "requesting" => tries[a] < MaxTries
    /\ pc[a] = "waiting" => tries[a] > 0
    /\ pc[a] \notin {"requesting", "waiting"} => tries[a] = 0 /\ hops[a] = 0
    /\ pc[a] \in {"received", "published"} => got[a] \in Summary

\* The last stamp that asked the provider against the last stamp on record.
AskedNow == sent # <<>> /\ sent[Len(sent)] = state.lastAt

SentFits ==
  /\ sent # <<>> => state.lastAt # NoTime /\ sent[Len(sent)] <= state.lastAt
  /\ \A a \in Actors :
       /\ pc[a] = "requesting" /\ tries[a] = 0 /\ hops[a] = 0 =>
            (sent # <<>> => sent[Len(sent)] + MinInterval <= state.lastAt)
       /\ pc[a] = "requesting" /\ (tries[a] # 0 \/ hops[a] # 0) => AskedNow
       /\ pc[a] \in {"waiting", "received", "published"} => AskedNow

IInv ==
  /\ TypeOK
  /\ LockHeld
  /\ AttemptOnRecord
  /\ StateReconciles
  /\ HistoryBounded
  /\ LocalsFit
  /\ SentFits
  /\ AttemptsSpaced

\* The initial state of the file is well typed and passes the validator.
LEMMA InitialStateReconciles ==
  /\ InitialState \in ControlState
  /\ Reconciles(InitialState)
  /\ Cardinality(InitialState.history) = 0
BY FS_EmptySet, NoTimeAssumption DEF InitialState, ControlState, Status, Reconciles

LEMMA InitEstablishes == Init => IInv
<1> SUFFICES ASSUME Init  PROVE IInv
  OBVIOUS
<1> USE InitialStateReconciles, BoundsAssumption, ActorsAssumption
<1>1. TypeOK
  <2>1. "idle" \in Locations /\ 0 \in 0 .. MaxTries /\ 0 \in 0 .. MaxRedirects
    BY DEF Locations
  <2>2. sent \in Seq(Nat)
    BY DEF Init
  <2> QED  BY <2>1, <2>2 DEF Init, TypeOK
<1>2. LockHeld /\ AttemptOnRecord /\ LocalsFit
  BY DEF Init, LockHeld, AttemptOnRecord, LocalsFit, Holding, InFlight
<1>3. StateReconciles /\ HistoryBounded
  BY DEF Init, StateReconciles, HistoryBounded
<1>4. SentFits /\ AttemptsSpaced
  BY DEF Init, SentFits, AttemptsSpaced
<1> QED  BY <1>1, <1>2, <1>3, <1>4 DEF IInv

\* Only one caller is inside the locked section.
LEMMA HoldersAgree ==
  ASSUME IInv, NEW a \in Actors, NEW b \in Actors, pc[a] \in Holding, pc[b] \in Holding
  PROVE  a = b
BY DEF IInv, LockHeld

\* How a call ends, whatever it leaves in the state file: enough that what it
\* leaves is a valid state that does not fall behind the stamps already sent.
LEMMA EndOfCall ==
  ASSUME IInv, NEW a \in Actors, pc[a] # "idle", Return(a),
         state' \in ControlState, Reconciles(state'),
         Cardinality(state'.history) <= MaxHistory,
         pc[a] \in Holding \/ state' = state,
         sent # <<>> => state'.lastAt # NoTime /\ sent[Len(sent)] <= state'.lastAt,
         UNCHANGED <<now, scene, ghosts>>
  PROVE  IInv'
<1> USE InitialStateReconciles, BoundsAssumption, ActorsAssumption
<1>1. TypeOK'
  BY DEF IInv, TypeOK, Return, ghosts, Locations
<1>2. /\ pc'[a] = "idle"
      /\ \A b \in Actors \ {a} : pc'[b] = pc[b] /\ stamp'[b] = stamp[b]
           /\ view'[b] = view[b] /\ tries'[b] = tries[b] /\ hops'[b] = hops[b]
           /\ got'[b] = got[b]
      /\ tries'[a] = 0 /\ hops'[a] = 0
  BY DEF IInv, TypeOK, Return
<1>3. LockHeld'
  <2>1. ASSUME NEW b \in Actors, pc'[b] \in Holding  PROVE lock' = b
    <3>1. b # a /\ pc[b] \in Holding
      BY <1>2, <2>1 DEF Holding, InFlight
    <3> QED  BY <3>1 DEF IInv, LockHeld, Return
  <2>2. ASSUME lock' # NoActor  PROVE pc'[lock'] \in Holding
    <3>1. lock' = lock /\ lock # a /\ lock \in Actors /\ pc[lock] \in Holding
      BY <2>2 DEF IInv, LockHeld, Return, TypeOK
    <3> QED  BY <3>1, <1>2
  <2> QED  BY <2>1, <2>2 DEF LockHeld
<1>4. \A b \in Actors : pc'[b] \in InFlight => b # a /\ pc[b] \in InFlight /\ state' = state
  <2> SUFFICES ASSUME NEW b \in Actors, pc'[b] \in InFlight
               PROVE  b # a /\ pc[b] \in InFlight /\ state' = state
    OBVIOUS
  <2>1. b # a /\ pc[b] \in InFlight
    BY <1>2 DEF InFlight
  <2> QED  BY <2>1, HoldersAgree DEF Holding
<1>5. AttemptOnRecord'
  BY <1>2, <1>4 DEF IInv, AttemptOnRecord
<1>6. StateReconciles' /\ HistoryBounded'
  BY DEF StateReconciles, HistoryBounded
<1>7. LocalsFit'
  BY <1>2 DEF IInv, LocalsFit
<1>8. SentFits'
  <2>1. sent' = sent
    BY DEF ghosts
  <2>2. \A b \in Actors : pc'[b] \in {"requesting", "waiting", "received", "published"} =>
          b # a /\ pc'[b] = pc[b] /\ state' = state
    BY <1>2, <1>4 DEF InFlight
  <2> QED  BY <1>2, <2>1, <2>2 DEF IInv, SentFits, AskedNow
<1>9. AttemptsSpaced'
  BY DEF IInv, AttemptsSpaced, ghosts
<1> QED  BY <1>1, <1>3, <1>5, <1>6, <1>7, <1>8, <1>9 DEF IInv

\* The in_progress record passes the validator, also when it settles an
\* abandoned attempt, and leaves MinInterval after the last stamp sent.
LEMMA InProgressReconciles ==
  ASSUME IInv, NEW a \in Actors, Due(a)
  PROVE  /\ InProgress(a) \in ControlState
         /\ Reconciles(InProgress(a))
         /\ InProgress(a).history = state.history
         /\ InProgress(a).lastAt = stamp[a]
         /\ InProgress(a).status = "in_progress"
         /\ stamp[a] \in Nat /\ stamp[a] # NoTime
         /\ sent # <<>> => sent[Len(sent)] + MinInterval <= stamp[a]
<1>1. state \in ControlState /\ stamp[a] \in Nat /\ sent \in Seq(Nat)
  BY DEF IInv, TypeOK
<1>2. Reconciles(state)
  BY DEF IInv, StateReconciles
<1>3. InProgress(a) \in ControlState
  <2>1. PICK r : r = InProgress(a)
    OBVIOUS
  <2>2. r = [attempts |-> state.attempts + 1, successes |-> state.successes,
             failures |-> SettledFailures, lastAt |-> stamp[a],
             status |-> "in_progress", latest |-> state.latest,
             history |-> state.history]
    BY <1>1, <2>1 DEF InProgress, ControlState
  <2>3. SettledFailures \in Nat
    BY <1>1 DEF SettledFailures, ControlState
  <2>4. r \in ControlState
    BY <1>1, <2>2, <2>3 DEF ControlState, Status
  <2> QED  BY <2>1, <2>4
<1>4. /\ InProgress(a).attempts = state.attempts + 1
      /\ InProgress(a).successes = state.successes
      /\ InProgress(a).failures =
           IF state.status = "in_progress" THEN state.failures + 1 ELSE state.failures
      /\ InProgress(a).latest = state.latest
      /\ InProgress(a).history = state.history
      /\ InProgress(a).lastAt = stamp[a]
      /\ InProgress(a).status = "in_progress"
  BY <1>1 DEF InProgress, ControlState, SettledFailures
<1>5. Reconciles(InProgress(a))
  BY <1>1, <1>2, <1>4, NoTimeAssumption DEF Reconciles, ControlState
<1>6. sent # <<>> => sent[Len(sent)] + MinInterval <= stamp[a]
  <2> SUFFICES ASSUME sent # <<>>  PROVE sent[Len(sent)] + MinInterval <= stamp[a]
    OBVIOUS
  <2>1. Len(sent) \in 1 .. Len(sent) /\ sent[Len(sent)] \in Nat
    BY <1>1
  <2>2. state.lastAt \in Nat /\ sent[Len(sent)] <= state.lastAt
    BY <1>1 DEF IInv, SentFits, ControlState
  <2>3. stamp[a] >= state.lastAt + MinInterval
    BY <2>2 DEF Due, IInv, SentFits
  <2> QED  BY <1>1, <2>1, <2>2, <2>3, BoundsAssumption
<1> QED  BY <1>1, <1>3, <1>4, <1>5, <1>6, NoTimeAssumption

\* The terminal records, built from the record made before the transport.
LEMMA OutcomeReconciles ==
  ASSUME IInv, NEW a \in Actors, RecordSuccess(a) \/ RecordFailure(a)
  PROVE  /\ state' \in ControlState
         /\ Reconciles(state')
         /\ Cardinality(state'.history) <= MaxHistory
         /\ state'.lastAt = state.lastAt
<1>1. /\ state \in ControlState /\ stamp[a] \in Nat
      /\ Reconciles(state) /\ Cardinality(state.history) <= MaxHistory
  BY DEF IInv, TypeOK, StateReconciles, HistoryBounded
<1>2. view[a] = state /\ state.status = "in_progress"
  BY DEF IInv, AttemptOnRecord, RecordSuccess, RecordFailure, InFlight
<1>3. CASE RecordFailure(a)
  <2>1. state' = [attempts |-> state.attempts, successes |-> state.successes,
                  failures |-> state.failures + 1, lastAt |-> state.lastAt,
                  status |-> "failed", latest |-> state.latest,
                  history |-> state.history]
    BY <1>1, <1>2, <1>3 DEF RecordFailure, ControlState
  <2>2. state' \in ControlState
    BY <1>1, <2>1 DEF ControlState, Status
  <2>3. Reconciles(state')
    BY <1>1, <1>2, <2>1 DEF Reconciles, ControlState
  <2> QED  BY <1>1, <2>1, <2>2, <2>3
<1>4. CASE RecordSuccess(a)
  <2> DEFINE h == NewHistory(a)
  <2>1. got[a] \in Summary
    BY <1>4 DEF IInv, LocalsFit, RecordSuccess
  <2>2. state.history \in SUBSET Summary /\ IsFiniteSet(state.history)
    BY <1>1 DEF ControlState, Reconciles
  <2>3. /\ h \in SUBSET Summary /\ IsFiniteSet(h)
        /\ Cardinality(h) <= Cardinality(state.history) + 1
        /\ Cardinality(h) <= MaxHistory
    BY <1>1, <1>2, <2>1, <2>2, BoundedHistoryBounds DEF NewHistory
  <2>4. h # {}
    BY <1>4 DEF RecordSuccess
  <2> HIDE DEF h
  <2>5. Latest(h) \in Summary
    BY <2>3, <2>4, LatestIsMaximal
  <2>6. state' = [state EXCEPT !.successes = @ + 1, !.status = "succeeded",
                               !.latest = Latest(h), !.history = h]
    BY <1>2, <1>4 DEF RecordSuccess, h
  <2>7. state' = [attempts |-> state.attempts, successes |-> state.successes + 1,
                  failures |-> state.failures, lastAt |-> state.lastAt,
                  status |-> "succeeded", latest |-> Latest(h), history |-> h]
    BY <1>1, <2>6 DEF ControlState
  <2>8. Cardinality(h) \in Nat /\ Cardinality(state.history) \in Nat
    BY <2>2, <2>3, FS_CardinalityType
  <2>9. Reconciles(state')
    BY <1>1, <1>2, <2>3, <2>4, <2>7, <2>8 DEF Reconciles, ControlState
  <2>10. state' \in ControlState
    BY <1>1, <2>3, <2>5, <2>7 DEF ControlState, Status
  <2> QED  BY <2>3, <2>7, <2>9, <2>10
<1> QED  BY <1>3, <1>4

\* The steps that end a call preserve the invariant.
LEMMA EndingsPreserve ==
  ASSUME IInv, NEW a \in Actors,
         \/ Refuse(a) \/ BeginRaises(a) \/ Conclude(a) \/ ProcessExits(a)
  PROVE  IInv'
<1>1. /\ state \in ControlState /\ Reconciles(state)
      /\ Cardinality(state.history) <= MaxHistory
      /\ sent # <<>> => state.lastAt # NoTime /\ sent[Len(sent)] <= state.lastAt
  BY DEF IInv, TypeOK, StateReconciles, HistoryBounded, SentFits
<1>2. CASE Refuse(a) \/ HistoryEmpty(a) \/ OutcomeNotWritten(a) \/ ProcessExits(a)
  <2>1. /\ Return(a) /\ pc[a] # "idle" /\ state' = state
        /\ UNCHANGED <<now, scene, ghosts>>
    BY <1>2 DEF Refuse, RefuseBusy, RefuseClock, RefuseTooSoon, HistoryEmpty,
                OutcomeNotWritten, ProcessExits, disk
  <2> QED  BY <1>1, <2>1, EndOfCall
<1>3. CASE BeginRaises(a)
  <2>1. /\ Return(a) /\ pc[a] # "idle" /\ pc[a] \in Holding /\ Due(a)
        /\ state' \in {state, InProgress(a)} /\ UNCHANGED <<now, scene, ghosts>>
    BY <1>3 DEF BeginRaises, Holding
  <2>2. CASE state' = state
    BY <1>1, <2>1, <2>2, EndOfCall
  <2>3. CASE state' = InProgress(a)
    <3>1. /\ state' \in ControlState /\ Reconciles(state')
          /\ Cardinality(state'.history) <= MaxHistory
          /\ state'.lastAt = stamp[a] /\ stamp[a] \in Nat /\ stamp[a] # NoTime
          /\ sent # <<>> => sent[Len(sent)] + MinInterval <= stamp[a]
      BY <1>1, <2>1, <2>3, InProgressReconciles
    <3>2. sent # <<>> => sent[Len(sent)] \in Nat
      BY DEF IInv, TypeOK
    <3>3. sent # <<>> => state'.lastAt # NoTime /\ sent[Len(sent)] <= state'.lastAt
      BY <3>1, <3>2, BoundsAssumption
    <3> QED  BY <2>1, <3>1, <3>3, EndOfCall
  <2> QED  BY <2>1, <2>2, <2>3
<1>4. CASE RecordSuccess(a) \/ RecordFailure(a)
  <2>1. /\ Return(a) /\ pc[a] # "idle" /\ pc[a] \in Holding
        /\ UNCHANGED <<now, scene, ghosts>>
    BY <1>4 DEF RecordSuccess, RecordFailure, Holding, InFlight
  <2> QED  BY <1>1, <1>4, <2>1, OutcomeReconciles, EndOfCall
<1> QED  BY <1>2, <1>3, <1>4 DEF Conclude

\* A caller that moves between two locations of the refresh, both inside or
\* both outside the lock, without touching the state file: what is left to
\* show of the invariant is its typing and what it says of the caller itself.
LEMMA MoveInside ==
  ASSUME IInv, NEW a \in Actors, NEW to \in Locations,
         pc' = [pc EXCEPT ![a] = to], TypeOK',
         pc[a] \in Holding <=> to \in Holding,
         pc[a] \in InFlight <=> to \in InFlight,
         \A b \in Actors : b # a =>
           tries'[b] = tries[b] /\ hops'[b] = hops[b] /\ got'[b] = got[b],
         to \in InFlight => stamp' = stamp,
         \A b \in Actors : b # a => stamp'[b] = stamp[b],
         UNCHANGED <<lock, state, view>>
  PROVE  /\ pc'[a] = to
         /\ \A b \in Actors : b # a => pc'[b] = pc[b]
         /\ LockHeld' /\ AttemptOnRecord' /\ StateReconciles' /\ HistoryBounded'
<1>1. pc'[a] = to /\ \A b \in Actors : b # a => pc'[b] = pc[b]
  BY DEF IInv, TypeOK
<1>2. LockHeld'
  BY <1>1 DEF IInv, LockHeld, TypeOK
<1>3. AttemptOnRecord'
  BY <1>1 DEF IInv, AttemptOnRecord
<1>4. StateReconciles' /\ HistoryBounded'
  BY DEF IInv, StateReconciles, HistoryBounded
<1> QED  BY <1>1, <1>2, <1>3, <1>4

LEMMA CallPreserves ==
  ASSUME IInv, NEW a \in Actors, Call(a)
  PROVE  IInv'
<1>1. TypeOK'
  BY DEF IInv, TypeOK, Call, Goto, ghosts, disk, Locations
<1>2. /\ pc'[a] = "stamped" /\ \A b \in Actors : b # a => pc'[b] = pc[b]
      /\ LockHeld' /\ AttemptOnRecord' /\ StateReconciles' /\ HistoryBounded'
  <2>1. "stamped" \in Locations /\ "stamped" \notin Holding /\ "stamped" \notin InFlight
    BY DEF Locations, Holding, InFlight
  <2>2. /\ pc[a] = "idle" /\ pc' = [pc EXCEPT ![a] = "stamped"]
        /\ UNCHANGED <<lock, state, view, tries, hops, got>>
        /\ \A b \in Actors : b # a => stamp'[b] = stamp[b]
    BY DEF Call, Goto, disk, IInv, TypeOK
  <2>3. pc[a] \notin Holding /\ pc[a] \notin InFlight
    BY <2>2 DEF Holding, InFlight
  <2> QED  BY <1>1, <2>1, <2>2, <2>3, MoveInside
<1>3. pc[a] = "idle" /\ UNCHANGED <<tries, hops, got, state, sent>>
  BY DEF Call, Goto, disk, ghosts
<1>4. LocalsFit'
  BY <1>2, <1>3 DEF IInv, LocalsFit
<1>5. SentFits' /\ AttemptsSpaced'
  BY <1>2, <1>3 DEF IInv, SentFits, AskedNow, AttemptsSpaced
<1> QED  BY <1>1, <1>2, <1>4, <1>5 DEF IInv

LEMMA AcquireLockPreserves ==
  ASSUME IInv, NEW a \in Actors, AcquireLock(a)
  PROVE  IInv'
<1>1. TypeOK'
  BY DEF IInv, TypeOK, AcquireLock, Goto, ghosts, disk, locals, Locations, Holding
<1>2. /\ pc[a] = "stamped" /\ pc'[a] = "locked" /\ \A b \in Actors : b # a => pc'[b] = pc[b]
      /\ lock = NoActor /\ lock' = a
      /\ UNCHANGED <<state, stamp, view, tries, hops, got, sent>>
  BY DEF AcquireLock, Goto, disk, locals, ghosts, IInv, TypeOK
<1>3. \A b \in Actors : pc[b] \notin Holding
  BY <1>2, ActorsAssumption DEF IInv, LockHeld
<1>4. LockHeld'
  BY <1>2, <1>3 DEF LockHeld, Holding
<1>5. AttemptOnRecord' /\ StateReconciles' /\ HistoryBounded'
  BY <1>2 DEF IInv, AttemptOnRecord, StateReconciles, HistoryBounded, InFlight
<1>6. LocalsFit'
  BY <1>2 DEF IInv, LocalsFit
<1>7. SentFits' /\ AttemptsSpaced'
  BY <1>2 DEF IInv, SentFits, AskedNow, AttemptsSpaced
<1> QED  BY <1>1, <1>4, <1>5, <1>6, <1>7 DEF IInv

LEMMA BeginPreserves ==
  ASSUME IInv, NEW a \in Actors, Begin(a)
  PROVE  IInv'
<1>1. /\ pc[a] = "locked" /\ Due(a)
      /\ pc' = [pc EXCEPT ![a] = "requesting"]
      /\ pc'[a] = "requesting" /\ \A b \in Actors : b # a => pc'[b] = pc[b]
      /\ view' = [view EXCEPT ![a] = InProgress(a)]
      /\ view'[a] = InProgress(a) /\ state' = InProgress(a)
      /\ UNCHANGED <<now, lock, scene, stamp, tries, hops, got, sent, regressed>>
  BY DEF Begin, Goto, ghosts, IInv, TypeOK
<1>2. /\ InProgress(a) \in ControlState /\ Reconciles(InProgress(a))
      /\ InProgress(a).history = state.history
      /\ InProgress(a).lastAt = stamp[a] /\ InProgress(a).status = "in_progress"
      /\ stamp[a] \in Nat /\ stamp[a] # NoTime
      /\ sent # <<>> => sent[Len(sent)] + MinInterval <= stamp[a]
  BY <1>1, InProgressReconciles
<1>3. TypeOK'
  BY <1>1, <1>2 DEF IInv, TypeOK, Locations, Holding, InFlight
<1>4. \A b \in Actors : b # a => pc'[b] \notin Holding
  BY <1>1, HoldersAgree DEF Holding
<1>5. LockHeld'
  BY <1>1 DEF IInv, LockHeld, Holding, InFlight, TypeOK
<1>6. AttemptOnRecord'
  BY <1>1, <1>2, <1>4 DEF AttemptOnRecord, Holding
<1>7. StateReconciles' /\ HistoryBounded'
  BY <1>1, <1>2 DEF IInv, StateReconciles, HistoryBounded
<1>8. LocalsFit'
  BY <1>1, BoundsAssumption DEF IInv, LocalsFit
<1>9. SentFits'
  <2>1. sent # <<>> => sent[Len(sent)] \in Nat
    BY DEF IInv, TypeOK
  <2>2. sent # <<>> => state'.lastAt # NoTime /\ sent[Len(sent)] <= state'.lastAt
    BY <1>1, <1>2, <2>1, BoundsAssumption
  <2>3. tries[a] = 0 /\ hops[a] = 0
    BY <1>1 DEF IInv, LocalsFit
  <2> QED  BY <1>1, <1>2, <1>4, <2>2, <2>3 DEF SentFits, Holding, InFlight
<1>10. AttemptsSpaced'
  BY <1>1 DEF IInv, AttemptsSpaced
<1> QED  BY <1>3, <1>5, <1>6, <1>7, <1>8, <1>9, <1>10 DEF IInv

\* What every step inside the attempt has in common.
LEMMA InFlightFacts ==
  ASSUME IInv, NEW a \in Actors, pc[a] \in InFlight
  PROVE  /\ state = view[a] /\ state.status = "in_progress"
         /\ state.lastAt = stamp[a] /\ stamp[a] \in Nat
         /\ \A b \in Actors : b # a => pc[b] \notin Holding
BY HoldersAgree DEF IInv, AttemptOnRecord, TypeOK, Holding

LEMMA SendRequestPreserves ==
  ASSUME IInv, NEW a \in Actors, SendRequest(a)
  PROVE  IInv'
<1> DEFINE first == tries[a] = 0 /\ hops[a] = 0
<1>1. /\ pc[a] = "requesting" /\ pc' = [pc EXCEPT ![a] = "waiting"]
      /\ tries' = [tries EXCEPT ![a] = @ + 1]
      /\ sent' = IF first THEN Append(sent, stamp[a]) ELSE sent
      /\ UNCHANGED <<now, lock, state, scene, stamp, view, hops, got, regressed>>
  BY DEF SendRequest, Goto, disk
<1>2. /\ tries[a] \in Nat /\ tries[a] < MaxTries /\ tries'[a] = tries[a] + 1
      /\ \A b \in Actors : b # a => tries'[b] = tries[b]
  BY <1>1, BoundsAssumption DEF IInv, TypeOK, LocalsFit
<1>3. /\ pc[a] \in InFlight /\ state.lastAt = stamp[a] /\ stamp[a] \in Nat
      /\ \A b \in Actors : b # a => pc[b] \notin Holding
  BY <1>1, InFlightFacts DEF InFlight
<1>4. TypeOK'
  <2>1. tries' \in [Actors -> 0 .. MaxTries]
    BY <1>1, <1>2, BoundsAssumption DEF IInv, TypeOK
  <2>2. sent' \in Seq(Nat)
    BY <1>1, <1>3 DEF IInv, TypeOK
  <2>3. pc' \in [Actors -> Locations]
    BY <1>1 DEF IInv, TypeOK, Locations, Holding, InFlight
  <2> QED  BY <1>1, <2>1, <2>2, <2>3 DEF IInv, TypeOK
<1>5. /\ pc'[a] = "waiting" /\ \A b \in Actors : b # a => pc'[b] = pc[b]
      /\ LockHeld' /\ AttemptOnRecord' /\ StateReconciles' /\ HistoryBounded'
  <2>1. "waiting" \in Locations /\ "waiting" \in Holding /\ "waiting" \in InFlight
    BY DEF Locations, Holding, InFlight
  <2> QED  BY <1>1, <1>2, <1>3, <1>4, <2>1, MoveInside DEF Holding
<1>6. LocalsFit'
  BY <1>1, <1>2, <1>5 DEF IInv, LocalsFit
<1>7. sent \in Seq(Nat) /\ Len(sent) \in Nat
  BY DEF IInv, TypeOK
<1>8. AskedNow'
  <2>1. CASE first
    BY <1>1, <1>3, <1>7, <2>1 DEF AskedNow
  <2>2. CASE ~first
    BY <1>1, <2>2 DEF AskedNow, IInv, SentFits
  <2> QED  BY <2>1, <2>2
<1>9. SentFits'
  <2>1. \A b \in Actors : b # a => pc'[b] \notin {"requesting", "waiting", "received", "published"}
    BY <1>3, <1>5 DEF Holding, InFlight
  <2> QED  BY <1>1, <1>3, <1>5, <1>8, <2>1, NoTimeAssumption DEF SentFits, AskedNow
<1>10. AttemptsSpaced'
  <2>1. CASE ~first
    BY <1>1, <2>1 DEF IInv, AttemptsSpaced
  <2>2. CASE first
    <3>1. /\ sent' = Append(sent, stamp[a]) /\ Len(sent') = Len(sent) + 1
          /\ sent'[Len(sent) + 1] = stamp[a]
          /\ \A i \in 1 .. Len(sent) : sent'[i] = sent[i]
      BY <1>1, <1>3, <1>7, <2>2
    <3>2. sent # <<>> => sent[Len(sent)] + MinInterval <= stamp[a]
      BY <1>1, <1>3, <2>2 DEF IInv, SentFits
    <3>3. ASSUME NEW i \in 1 .. Len(sent') - 1
          PROVE  sent'[i + 1] >= sent'[i] + MinInterval
      <4>1. CASE i < Len(sent)
        BY <1>7, <3>1, <4>1 DEF IInv, AttemptsSpaced
      <4>2. CASE i = Len(sent)
        <5>1. sent[i] \in Nat /\ sent # <<>>
          BY <1>7, <3>1, <4>2
        <5> QED  BY <1>3, <1>7, <3>1, <3>2, <4>2, <5>1, BoundsAssumption
      <4> QED  BY <1>7, <3>1, <4>1, <4>2
    <3> QED  BY <3>3 DEF AttemptsSpaced
  <2> QED  BY <2>1, <2>2
<1> QED  BY <1>4, <1>5, <1>6, <1>9, <1>10 DEF IInv

\* The steps between the first request and the publication of the scene.
LEMMA MovesPreserve ==
  ASSUME IInv, NEW a \in Actors,
         \/ Retry(a) \/ Redirected(a) \/ Fetched(a) \/ RefreshFails(a)
         \/ PublishScene(a) \/ PublishRaises(a)
  PROVE  IInv'
<1>1. PICK to \in InFlight :
        /\ pc[a] \in InFlight /\ pc' = [pc EXCEPT ![a] = to]
        /\ UNCHANGED <<lock, state, stamp, view, sent>>
  BY DEF Retry, Redirected, Fetched, RefreshFails, PublishScene, PublishRaises, Goto,
         disk, locals, ghosts, InFlight
<1>2. /\ state = view[a] /\ state.lastAt = stamp[a] /\ stamp[a] \in Nat
      /\ \A b \in Actors : b # a => pc[b] \notin Holding
  BY <1>1, InFlightFacts
<1>3. TypeOK'
  <2>1. view[a].attempts \in Nat
    BY DEF IInv, TypeOK, ControlState
  <2>2. pc' \in [Actors -> Locations]
    BY <1>1 DEF IInv, TypeOK, Locations, Holding
  <2>3. tries' \in [Actors -> 0 .. MaxTries] /\ hops' \in [Actors -> 0 .. MaxRedirects]
    <3>1. 0 \in 0 .. MaxTries /\ 0 \in 0 .. MaxRedirects
      BY BoundsAssumption
    <3>2. tries' = tries \/ tries' = [tries EXCEPT ![a] = 0]
      BY DEF Retry, Redirected, Fetched, RefreshFails, PublishScene, PublishRaises, locals
    <3>3. \/ hops' = hops \/ hops' = [hops EXCEPT ![a] = 0]
          \/ hops[a] < MaxRedirects /\ hops' = [hops EXCEPT ![a] = @ + 1]
      BY DEF Retry, Redirected, Fetched, RefreshFails, PublishScene, PublishRaises, locals
    <3>4. tries \in [Actors -> 0 .. MaxTries] /\ hops \in [Actors -> 0 .. MaxRedirects]
      BY DEF IInv, TypeOK
    <3> QED  BY <3>1, <3>2, <3>3, <3>4, BoundsAssumption
  <2>4. got' \in [Actors -> Summary \cup {NoScene}] /\ scene' \in Summary \cup {NoScene}
    <3>1. got \in [Actors -> Summary \cup {NoScene}] /\ scene \in Summary \cup {NoScene}
      BY DEF IInv, TypeOK
    <3>2. \/ got' = got \/ got' = [got EXCEPT ![a] = NoScene]
          \/ got' = [got EXCEPT ![a] = [at |-> now, attempt |-> view[a].attempts]]
      BY DEF Retry, Redirected, Fetched, RefreshFails, PublishScene, PublishRaises, locals
    <3>3. [at |-> now, attempt |-> view[a].attempts] \in Summary
      BY <2>1 DEF IInv, TypeOK, Summary
    <3>4. scene' = scene \/ scene' = got[a]
      BY DEF Retry, Redirected, Fetched, RefreshFails, PublishScene, PublishRaises, disk
    <3> QED  BY <3>1, <3>2, <3>3, <3>4
  <2>5. now' = now /\ regressed' = regressed
    BY DEF Retry, Redirected, Fetched, RefreshFails, PublishScene, PublishRaises, ghosts
  <2> QED  BY <1>1, <2>2, <2>3, <2>4, <2>5 DEF IInv, TypeOK
<1>4. \A b \in Actors : b # a =>
        tries'[b] = tries[b] /\ hops'[b] = hops[b] /\ got'[b] = got[b]
  BY DEF Retry, Redirected, Fetched, RefreshFails, PublishScene, PublishRaises,
         locals, IInv, TypeOK
<1>5. /\ pc'[a] = to /\ \A b \in Actors : b # a => pc'[b] = pc[b]
      /\ LockHeld' /\ AttemptOnRecord' /\ StateReconciles' /\ HistoryBounded'
  <2>1. to \in Locations /\ to \in Holding /\ pc[a] \in Holding
    BY <1>1 DEF Locations, Holding
  <2> QED  BY <1>1, <1>3, <1>4, <2>1, MoveInside
<1>6. /\ to = "requesting" => tries'[a] < MaxTries /\ (tries'[a] # 0 \/ hops'[a] # 0)
      /\ to # "waiting"
      /\ to # "requesting" => tries'[a] = 0 /\ hops'[a] = 0
      /\ to \in {"received", "published"} => got'[a] \in Summary
      /\ to # "failing" => AskedNow
  <2>1. CASE Retry(a)
    BY <2>1, <1>5 DEF Retry, Goto, locals, IInv, TypeOK, LocalsFit, SentFits
  <2>2. CASE Redirected(a)
    BY <2>2, <1>5, BoundsAssumption DEF Redirected, Goto, IInv, TypeOK, LocalsFit, SentFits
  <2>3. CASE Fetched(a)
    <3>1. view[a].attempts \in Nat
      BY DEF IInv, TypeOK, ControlState
    <3> QED  BY <2>3, <3>1, <1>5 DEF Fetched, Goto, IInv, TypeOK, SentFits, Summary
  <2>4. CASE RefreshFails(a)
    BY <2>4, <1>5 DEF RefreshFails, IInv, TypeOK
  <2>5. CASE PublishScene(a)
    BY <2>5, <1>5 DEF PublishScene, Goto, locals, IInv, TypeOK, LocalsFit, SentFits
  <2>6. CASE PublishRaises(a)
    BY <2>6, <1>5 DEF PublishRaises, Goto, IInv, TypeOK, LocalsFit, SentFits
  <2> QED  BY <2>1, <2>2, <2>3, <2>4, <2>5, <2>6
<1>7. LocalsFit'
  BY <1>4, <1>5, <1>6 DEF IInv, LocalsFit
<1>8. SentFits'
  <2>1. \A b \in Actors : b # a => pc'[b] \notin {"requesting", "waiting", "received", "published"}
    BY <1>2, <1>5 DEF Holding, InFlight
  <2> QED  BY <1>1, <1>5, <1>6, <2>1 DEF IInv, SentFits, AskedNow
<1>9. AttemptsSpaced'
  BY <1>1 DEF IInv, AttemptsSpaced
<1> QED  BY <1>3, <1>5, <1>7, <1>8, <1>9 DEF IInv

LEMMA NextPreserves == IInv /\ [Next]_vars => IInv'
<1> SUFFICES ASSUME IInv, [Next]_vars  PROVE IInv'
  OBVIOUS
<1>1. ASSUME NEW a \in Actors, Call(a)  PROVE IInv'
  BY <1>1, CallPreserves
<1>2. ASSUME NEW a \in Actors, AcquireLock(a)  PROVE IInv'
  BY <1>2, AcquireLockPreserves
<1>3. ASSUME NEW a \in Actors, Begin(a)  PROVE IInv'
  BY <1>3, BeginPreserves
<1>4. ASSUME NEW a \in Actors, SendRequest(a)  PROVE IInv'
  BY <1>4, SendRequestPreserves
<1>5. ASSUME NEW a \in Actors,
             \/ Retry(a) \/ Redirected(a) \/ Fetched(a) \/ RefreshFails(a)
             \/ PublishScene(a) \/ PublishRaises(a)
      PROVE  IInv'
  BY <1>5, MovesPreserve
<1>6. ASSUME NEW a \in Actors,
             Refuse(a) \/ BeginRaises(a) \/ Conclude(a) \/ ProcessExits(a)
      PROVE  IInv'
  BY <1>6, EndingsPreserve
<1>7. CASE Tick \/ ClockSetBack \/ UNCHANGED vars
  <2>1. UNCHANGED <<lock, state, scene, pc, stamp, view, tries, hops, got, sent>>
    BY <1>7 DEF Tick, ClockSetBack, vars, disk, locals, ghosts
  <2>2. now' \in Nat /\ regressed' \in BOOLEAN
    <3>1. now \in Nat /\ regressed \in BOOLEAN
      BY DEF IInv, TypeOK
    <3>2. now' = now \/ now' = now + 1 \/ now' \in 0 .. now
      BY <1>7 DEF Tick, ClockSetBack, vars
    <3>3. regressed' = regressed \/ regressed' = TRUE
      BY <1>7 DEF Tick, ClockSetBack, vars, ghosts
    <3>4. now' \in Nat
      BY <3>1, <3>2
    <3>5. regressed' \in BOOLEAN
      BY <3>1, <3>3, Zenon
    <3> QED  BY <3>4, <3>5
  <2>3. TypeOK'
    BY <2>1, <2>2 DEF IInv, TypeOK
  <2>4. /\ LockHeld' /\ AttemptOnRecord' /\ StateReconciles' /\ HistoryBounded'
        /\ LocalsFit' /\ SentFits' /\ AttemptsSpaced'
    BY <2>1 DEF IInv, LockHeld, AttemptOnRecord, StateReconciles, HistoryBounded,
                LocalsFit, SentFits, AskedNow, AttemptsSpaced
  <2> QED  BY <2>3, <2>4 DEF IInv
<1> QED  BY <1>1, <1>2, <1>3, <1>4, <1>5, <1>6, <1>7 DEF Next, Progress, Transport

\* IInv holds of every state the coordinator reaches.
THEOREM Inductive == Spec => []IInv
<1> QED  BY InitEstablishes, NextPreserves, PTL DEF Spec

-----------------------------------------------------------------------------
(***************************************************************************)
(* Part 3.                                                                 *)
(***************************************************************************)

\* The persisted state, the scene and every caller's locals keep their types.
THEOREM TypeCorrect == Spec => []TypeOK
<1>1. IInv => TypeOK
  BY DEF IInv
<1> QED  BY <1>1, Inductive, PTL

\* Whatever crashes, failed writes and interleaved callers leave in the state
\* file, the next load accepts it.
THEOREM StateAlwaysReconciles == Spec => []StateReconciles
<1>1. IInv => StateReconciles
  BY DEF IInv
<1> QED  BY <1>1, Inductive, PTL

\* The history never outgrows its bound, for any bound and any callers.
THEOREM HistoryAlwaysBounded == Spec => []HistoryBounded
<1>1. IInv => HistoryBounded
  BY DEF IInv
<1> QED  BY <1>1, Inductive, PTL

\* One refresh at a time, for any number of callers in any processes.
THEOREM MutualExclusion == Spec => []OneRefreshAtATime
<1>1. IInv => OneRefreshAtATime
  BY HoldersAgree DEF OneRefreshAtATime, Holding
<1> QED  BY <1>1, Inductive, PTL

\* The provider is only talked to while that very attempt is on record.
THEOREM AttemptsOnRecord == Spec => []AttemptOnRecord
<1>1. IInv => AttemptOnRecord
  BY DEF IInv
<1> QED  BY <1>1, Inductive, PTL

\* Stamps of attempts that asked the provider are MinInterval apart, across
\* crashes, abandoned attempts and clocks that were set back.
THEOREM AttemptsAlwaysSpaced == Spec => []AttemptsSpaced
<1>1. IInv => AttemptsSpaced
  BY DEF IInv
<1> QED  BY <1>1, Inductive, PTL

\* A record of an attempt opens the gate: the stamp moves on by MinInterval
\* and a predecessor without outcome becomes a failure.
LEMMA BeginOpens ==
  ASSUME IInv, NEW a \in Actors, Due(a), state' = InProgress(a), sent' = sent
  PROVE  Gate!Open
<1>1. state \in ControlState /\ stamp[a] \in Nat
  BY DEF IInv, TypeOK
<1>2. /\ state'.attempts = state.attempts + 1
      /\ state'.successes = state.successes
      /\ state'.failures = SettledFailures
      /\ state'.lastAt = stamp[a]
      /\ state'.status = "in_progress"
  BY <1>1 DEF InProgress, ControlState
<1>3. SettledFailures =
        IF state.status = "in_progress" THEN state.failures + 1 ELSE state.failures
  BY <1>1 DEF SettledFailures, ControlState
<1>4. state.lastAt # NoTime => state'.lastAt >= state.lastAt + MinInterval
  BY <1>2 DEF Due
<1> QED  BY <1>1, <1>2, <1>3, <1>4 DEF Gate!Open

LEMMA StepRefines == IInv /\ [Next]_vars => [Gate!GateNext]_(Gate!gateVars)
<1> SUFFICES ASSUME IInv, [Next]_vars  PROVE Gate!GateNext \/ UNCHANGED Gate!gateVars
  OBVIOUS
<1>1. ASSUME UNCHANGED <<state, sent>>  PROVE UNCHANGED Gate!gateVars
  BY <1>1 DEF Gate!gateVars
<1>2. ASSUME NEW a \in Actors, Begin(a) \/ BeginRaises(a)
      PROVE  Gate!GateNext \/ UNCHANGED Gate!gateVars
  <2>1. Due(a) /\ state' \in {state, InProgress(a)} /\ sent' = sent
    BY <1>2 DEF Begin, BeginRaises, ghosts
  <2> QED  BY <1>1, <2>1, BeginOpens DEF Gate!GateNext
<1>3. ASSUME NEW a \in Actors, SendRequest(a)
      PROVE  Gate!GateNext \/ UNCHANGED Gate!gateVars
  <2>1. /\ pc[a] = "requesting" /\ state' = state
        /\ sent' = IF tries[a] = 0 /\ hops[a] = 0 THEN Append(sent, stamp[a]) ELSE sent
    BY <1>3 DEF SendRequest, Goto, disk
  <2>2. state.status = "in_progress" /\ state.lastAt = stamp[a] /\ stamp[a] \in Nat
    BY <2>1, InFlightFacts DEF InFlight
  <2>3. CASE tries[a] = 0 /\ hops[a] = 0
    <3>1. ~AskedNow
      <4> SUFFICES ASSUME sent # <<>>, sent[Len(sent)] = state.lastAt  PROVE FALSE
        BY DEF AskedNow
      <4>1. sent[Len(sent)] + MinInterval <= state.lastAt
        BY <2>1, <2>3 DEF IInv, SentFits
      <4> QED  BY <2>2, <4>1, BoundsAssumption
    <3> QED  BY <2>1, <2>2, <2>3, <3>1 DEF Gate!GateNext, Gate!Ask, Gate!Asked, AskedNow
  <2> QED  BY <1>1, <2>1, <2>3
<1>4. ASSUME NEW a \in Actors, RecordSuccess(a) \/ RecordFailure(a)
      PROVE  Gate!GateNext
  <2>1. /\ pc[a] \in InFlight /\ sent' = sent
    BY <1>4 DEF RecordSuccess, RecordFailure, InFlight, ghosts
  <2>2. state \in ControlState /\ view[a] = state /\ state.status = "in_progress"
    BY <2>1, InFlightFacts DEF IInv, TypeOK
  <2>3. CASE RecordSuccess(a)
    <3>1. /\ state'.successes = state.successes + 1 /\ state'.status = "succeeded"
          /\ state'.attempts = state.attempts /\ state'.failures = state.failures
          /\ state'.lastAt = state.lastAt
      BY <2>2, <2>3 DEF RecordSuccess, ControlState
    <3>2. AskedNow
      BY <2>3 DEF RecordSuccess, IInv, SentFits
    <3> QED  BY <2>1, <2>2, <3>1, <3>2 DEF Gate!GateNext, Gate!Succeed, Gate!Asked, AskedNow
  <2>4. CASE RecordFailure(a)
    <3>1. /\ state'.successes = state.successes /\ state'.status = "failed"
          /\ state'.attempts = state.attempts /\ state'.failures = state.failures + 1
          /\ state'.lastAt = state.lastAt
      BY <2>2, <2>4 DEF RecordFailure, ControlState
    <3> QED  BY <2>1, <2>2, <3>1 DEF Gate!GateNext, Gate!Fail
  <2> QED  BY <1>4, <2>3, <2>4
<1>5. ASSUME NEW a \in Actors,
             \/ Call(a) \/ AcquireLock(a) \/ Refuse(a) \/ ProcessExits(a)
             \/ Retry(a) \/ Redirected(a) \/ Fetched(a) \/ RefreshFails(a)
             \/ PublishScene(a) \/ PublishRaises(a)
             \/ HistoryEmpty(a) \/ OutcomeNotWritten(a)
      PROVE  UNCHANGED <<state, sent>>
  BY <1>5 DEF Call, AcquireLock, Refuse, RefuseBusy, RefuseClock, RefuseTooSoon,
              ProcessExits, Retry, Redirected, Fetched, RefreshFails, PublishScene,
              PublishRaises, HistoryEmpty, OutcomeNotWritten, disk, locals, ghosts
<1>6. CASE Tick \/ ClockSetBack \/ UNCHANGED vars
  BY <1>1, <1>6 DEF Tick, ClockSetBack, vars, disk, locals, ghosts
<1> QED
  BY <1>1, <1>2, <1>3, <1>4, <1>5, <1>6 DEF Next, Progress, Transport, Conclude

\* The coordinator, with its lock, its file and its crashes, implements the
\* gate: SourceGate is what a caller may rely on.
THEOREM GateImplemented == Spec => GateSpec
<1>1. Init => Gate!GateInit
  BY DEF Init, InitialState, Gate!GateInit
<1> QED  BY <1>1, StepRefines, Inductive, PTL DEF Spec, GateSpec, Gate!GateSpec

-----------------------------------------------------------------------------
(***************************************************************************)
(* Part 4.  The scene backs the state.  While the clock is never set back, *)
(* every response is younger than the history it joins, and is thus what   *)
(* _bounded_history ends with.                                             *)
(***************************************************************************)

\* A response that is on its way into the history.
Newest(a) ==
  /\ got[a].attempt = state.attempts
  /\ stamp[a] <= got[a].at /\ got[a].at <= now
  /\ \A h \in state.history : h.at <= got[a].at

Ordered ==
  /\ \A h \in state.history :
       /\ h.at <= now /\ h.attempt <= state.attempts
       /\ state.status = "in_progress" => h.attempt < state.attempts
  /\ \A a \in Actors :
       /\ stamp[a] <= now
       /\ pc[a] \in {"received", "published"} => Newest(a)
       /\ pc[a] = "published" => scene = got[a]
  /\ state.latest # NoScene => scene \in Summary /\ ~Before(scene, state.latest)
  /\ state.status = "succeeded" => scene = state.latest

SceneInd == ~regressed => Ordered

\* A response younger than the history is the last entry of the new history.
LEMMA NewestIsLatest ==
  ASSUME NEW h \in SUBSET Summary, IsFiniteSet(h), NEW item \in Summary, NEW at \in Nat,
         at <= item.at, \A j \in h : j.at <= item.at /\ j.attempt < item.attempt
  PROVE  LET new == BoundedHistory(h, item, at)
         IN  new \subseteq h \cup {item} /\ Latest(new) = item
<1> DEFINE fresh == {i \in h \cup {item} : i.at + MaxAge >= at}
<1> DEFINE new == BoundedHistory(h, item, at)
<1>1. \A j \in h : Before(j, item)
  BY DEF Before, Summary
<1>2. item \in fresh
  BY BoundsAssumption DEF Summary
<1>3. {j \in fresh : Before(item, j)} = {}
  BY <1>1, BeforeOrders
<1>4. item \in new
  BY <1>2, <1>3, FS_EmptySet, BoundsAssumption DEF BoundedHistory
<1>5. new \subseteq h \cup {item}
  BY DEF BoundedHistory
<1>6. new \in SUBSET Summary /\ IsFiniteSet(new)
  BY BoundedHistoryBounds
<1> HIDE DEF new
<1>7. Latest(new) \in new /\ \A j \in new \ {Latest(new)} : Before(j, Latest(new))
  BY <1>4, <1>6, LatestIsMaximal
<1>8. Latest(new) = item
  <2> SUFFICES ASSUME Latest(new) # item PROVE FALSE
    OBVIOUS
  <2>1. Before(item, Latest(new)) /\ Latest(new) \in h
    BY <1>4, <1>5, <1>7
  <2> QED BY <1>1, <1>6, <1>7, <2>1, BeforeOrders
<1> QED BY <1>5, <1>8 DEF new

\* The state a call starts from and the stamps are in range.
LEMMA SceneTypes ==
  ASSUME IInv
  PROVE  /\ now \in Nat /\ \A a \in Actors : stamp[a] \in Nat
         /\ state \in ControlState /\ state.attempts \in Nat
         /\ state.history \in SUBSET Summary /\ IsFiniteSet(state.history)
         /\ state.latest \in state.history \cup {NoScene}
         /\ \A a \in Actors : pc[a] \in {"received", "published"} => got[a] \in Summary
<1>1. /\ now \in Nat /\ \A a \in Actors : stamp[a] \in Nat
      /\ state \in ControlState
      /\ \A a \in Actors : pc[a] \in {"received", "published"} => got[a] \in Summary
  BY DEF IInv, TypeOK, LocalsFit
<1>2. state.attempts \in Nat /\ state.history \in SUBSET Summary
  BY <1>1 DEF ControlState
<1>3. IsFiniteSet(state.history) /\ state.latest = IF state.history = {} THEN NoScene ELSE Latest(state.history)
  BY DEF IInv, StateReconciles, Reconciles
<1>4. state.latest \in state.history \cup {NoScene}
  BY <1>2, <1>3, LatestIsMaximal
<1> QED BY <1>1, <1>2, <1>3, <1>4

\* Steps that leave the two files alone and bring nobody a response.
LEMMA QuietKeepsScene ==
  ASSUME IInv, SceneInd, disk' = disk, regressed' = regressed, now' \in Nat, now' >= now,
         \A a \in Actors :
           /\ stamp'[a] = stamp[a] \/ (stamp'[a] \in Nat /\ stamp'[a] <= now')
           /\ pc'[a] \in {"received", "published"} =>
                pc'[a] = pc[a] /\ got'[a] = got[a] /\ stamp'[a] = stamp[a]
  PROVE  SceneInd'
<1> SUFFICES ASSUME ~regressed PROVE Ordered'
  BY DEF SceneInd
<1>1. Ordered
  BY DEF SceneInd
<1>2. state' = state /\ scene' = scene
  BY DEF disk
<1>3. \A h \in state.history : h.at \in Nat
  BY SceneTypes DEF Summary
<1>4. \A a \in Actors : pc'[a] \in {"received", "published"} => Newest(a)'
  <2> SUFFICES ASSUME NEW a \in Actors, pc'[a] \in {"received", "published"} PROVE Newest(a)'
    OBVIOUS
  <2>1. /\ Newest(a) /\ got'[a] = got[a] /\ stamp'[a] = stamp[a] /\ got[a] \in Summary
    BY <1>1, SceneTypes DEF Ordered
  <2>2. got[a].at \in Nat /\ got[a].at <= now /\ now \in Nat
    BY <2>1, SceneTypes DEF Summary, Newest
  <2>3. got[a].at <= now'
    BY <2>2
  <2> QED BY <1>2, <2>1, <2>3 DEF Newest
<1>5. \A a \in Actors : stamp'[a] <= now'
  BY <1>1, SceneTypes DEF Ordered
<1>6. \A h \in state.history : h.at <= now'
  BY <1>1, <1>3, SceneTypes DEF Ordered
<1> QED BY <1>1, <1>2, <1>4, <1>5, <1>6 DEF Ordered

\* Nobody else has a response while one caller holds the lock.
LEMMA NobodyElse ==
  ASSUME IInv, NEW a \in Actors, pc[a] \in Holding, NEW b \in Actors, b # a
  PROVE  pc[b] \notin {"received", "published"}
BY HoldersAgree DEF Holding, InFlight

LEMMA FetchedKeepsScene ==
  ASSUME IInv, SceneInd, NEW a \in Actors, Fetched(a)
  PROVE  SceneInd'
<1>1. /\ pc[a] = "waiting" /\ state' = state /\ scene' = scene /\ now' = now /\ stamp' = stamp
      /\ regressed' = regressed /\ pc'[a] = "received"
      /\ got'[a] = [at |-> now, attempt |-> view[a].attempts]
      /\ \A b \in Actors : b # a => pc'[b] = pc[b] /\ got'[b] = got[b]
  BY DEF Fetched, Goto, disk, ghosts, IInv, TypeOK
<1>2. view[a] = state /\ pc[a] \in Holding
  BY <1>1, InFlightFacts DEF InFlight, Holding
<1>3. \A b \in Actors : b # a => pc'[b] \notin {"received", "published"}
  BY <1>1, <1>2, NobodyElse
<1>4. Ordered => Newest(a)'
  BY <1>1, <1>2, SceneTypes DEF Ordered, Newest
<1> QED BY <1>1, <1>3, <1>4 DEF SceneInd, Ordered

LEMMA PublishKeepsScene ==
  ASSUME IInv, SceneInd, NEW a \in Actors, PublishScene(a) \/ PublishRaises(a)
  PROVE  SceneInd'
<1>1. /\ pc[a] = "received" /\ state' = state /\ scene' = got[a] /\ now' = now /\ stamp' = stamp
      /\ regressed' = regressed
      /\ \/ pc'[a] = "published" /\ got'[a] = got[a]
         \/ pc'[a] = "failing"
      /\ \A b \in Actors : b # a => pc'[b] = pc[b] /\ got'[b] = got[b]
  BY DEF PublishScene, PublishRaises, Goto, locals, ghosts, IInv, TypeOK
<1>2. /\ view[a] = state /\ pc[a] \in Holding /\ state.status = "in_progress"
      /\ got[a] \in Summary
  BY <1>1, InFlightFacts, SceneTypes DEF InFlight, Holding
<1>3. \A b \in Actors : b # a => pc'[b] \notin {"received", "published"}
  BY <1>1, <1>2, NobodyElse
<1> SUFFICES ASSUME ~regressed PROVE Ordered'
  BY <1>1 DEF SceneInd
<1>4. Ordered /\ Newest(a)
  BY <1>1 DEF SceneInd, Ordered
<1>5. state.latest # NoScene => ~Before(got[a], state.latest)
  <2> SUFFICES ASSUME state.latest # NoScene PROVE ~Before(got[a], state.latest)
    OBVIOUS
  <2>1. state.latest \in state.history /\ state.latest \in Summary
    BY SceneTypes
  <2>2. /\ state.latest.at <= got[a].at /\ state.latest.attempt < got[a].attempt
    BY <1>2, <1>4, <2>1 DEF Ordered, Newest
  <2> QED BY <1>2, <2>1, <2>2 DEF Before, Summary
<1>6. pc'[a] = "published" => Newest(a)'
  BY <1>1, <1>4 DEF Newest
<1> QED BY <1>1, <1>2, <1>3, <1>4, <1>5, <1>6 DEF Ordered

\* What a record of a new attempt leaves of the order.
LEMMA BeginKeepsScene ==
  ASSUME IInv, SceneInd, NEW a \in Actors, Begin(a) \/ BeginRaises(a)
  PROVE  SceneInd'
<1>1. /\ pc[a] = "locked" /\ pc[a] \in Holding /\ scene' = scene /\ now' = now /\ regressed' = regressed
      /\ state' \in {state, InProgress(a)}
      /\ pc'[a] \notin {"received", "published"}
      /\ \A b \in Actors : b # a => pc'[b] = pc[b]
      /\ \A b \in Actors : stamp'[b] \in {stamp[b], 0}
  BY DEF Begin, BeginRaises, Return, Goto, ghosts, Holding, IInv, TypeOK
<1>2. \A b \in Actors : pc'[b] \notin {"received", "published"}
  BY <1>1, NobodyElse
<1>3. \/ state' = state
      \/ /\ state'.attempts = state.attempts + 1 /\ state'.history = state.history
         /\ state'.latest = state.latest /\ state'.status = "in_progress"
  BY <1>1, SceneTypes DEF InProgress, ControlState
<1> SUFFICES ASSUME ~regressed PROVE Ordered'
  BY <1>1 DEF SceneInd
<1>4. Ordered
  BY DEF SceneInd
<1>5. \A b \in Actors : stamp'[b] <= now'
  BY <1>1, <1>4, SceneTypes DEF Ordered
<1>6. \A h \in state.history : h.attempt \in Nat
  BY SceneTypes DEF Summary
<1>7. CASE state' = state
  BY <1>1, <1>2, <1>4, <1>5, <1>7 DEF Ordered
<1>8. CASE /\ state'.attempts = state.attempts + 1 /\ state'.history = state.history
           /\ state'.latest = state.latest /\ state'.status = "in_progress"
  BY <1>1, <1>2, <1>4, <1>5, <1>6, <1>8, SceneTypes DEF Ordered
<1> QED BY <1>3, <1>7, <1>8

LEMMA OutcomeKeepsScene ==
  ASSUME IInv, SceneInd, NEW a \in Actors, RecordSuccess(a) \/ RecordFailure(a)
  PROVE  SceneInd'
<1>1. /\ pc[a] \in InFlight /\ pc[a] \in Holding
      /\ scene' = scene /\ now' = now /\ regressed' = regressed
      /\ pc'[a] = "idle" /\ \A b \in Actors : b # a => pc'[b] = pc[b]
      /\ \A b \in Actors : stamp'[b] \in {stamp[b], 0}
  BY DEF RecordSuccess, RecordFailure, Return, ghosts, InFlight, Holding, IInv, TypeOK
<1>2. view[a] = state /\ state.status = "in_progress"
  BY <1>1, InFlightFacts
<1>3. \A b \in Actors : pc'[b] \notin {"received", "published"}
  BY <1>1, NobodyElse
<1> SUFFICES ASSUME ~regressed PROVE Ordered'
  BY <1>1 DEF SceneInd
<1>4. Ordered
  BY DEF SceneInd
<1>5. \A b \in Actors : stamp'[b] <= now'
  BY <1>1, <1>4, SceneTypes DEF Ordered
<1>6. CASE RecordFailure(a)
  <2>1. /\ state'.attempts = state.attempts /\ state'.history = state.history
        /\ state'.latest = state.latest /\ state'.status = "failed"
    BY <1>2, <1>6, SceneTypes DEF RecordFailure, ControlState
  <2> QED BY <1>1, <1>3, <1>4, <1>5, <2>1 DEF Ordered
<1>7. CASE RecordSuccess(a)
  <2>1. /\ pc[a] = "published" /\ got[a] \in Summary /\ Newest(a) /\ scene = got[a]
        /\ stamp[a] \in Nat
    BY <1>4, <1>7, SceneTypes DEF RecordSuccess, Ordered
  <2>2. /\ state'.attempts = state.attempts /\ state'.history = NewHistory(a)
        /\ state'.latest = Latest(NewHistory(a)) /\ state'.status = "succeeded"
    BY <1>2, <1>7, SceneTypes DEF RecordSuccess, ControlState
  <2>3. NewHistory(a) = BoundedHistory(state.history, got[a], stamp[a])
    BY <1>2 DEF NewHistory
  <2>4. \A h \in state.history : h.at <= got[a].at /\ h.attempt < got[a].attempt
    BY <1>2, <1>4, <2>1 DEF Ordered, Newest
  <2>5. NewHistory(a) \subseteq state.history \cup {got[a]} /\ Latest(NewHistory(a)) = got[a]
    BY <2>1, <2>3, <2>4, NewestIsLatest, SceneTypes DEF Newest
  <2>6. \A h \in state'.history : h.at <= now' /\ h.attempt <= state'.attempts
    <3>1. \A h \in state.history : h.at <= now /\ h.attempt <= state.attempts
      BY <1>4 DEF Ordered
    <3>2. got[a].at <= now /\ got[a].attempt <= state.attempts
      BY <2>1, SceneTypes DEF Newest
    <3> QED BY <1>1, <2>2, <2>5, <3>1, <3>2
  <2>7. ~Before(scene', state'.latest)
    BY <1>1, <2>1, <2>2, <2>5, BeforeOrders
  <2> QED BY <1>1, <1>3, <1>5, <2>1, <2>2, <2>5, <2>6, <2>7 DEF Ordered
<1> QED BY <1>6, <1>7

LEMMA SceneIndPreserved == IInv /\ SceneInd /\ [Next]_vars => SceneInd'
<1> SUFFICES ASSUME IInv, SceneInd, [Next]_vars PROVE SceneInd'
  OBVIOUS
<1>0. /\ now \in Nat /\ \A a \in Actors : stamp[a] \in Nat
  BY SceneTypes
<1>1. ASSUME NEW a \in Actors,
             Call(a) \/ AcquireLock(a) \/ SendRequest(a) \/ Retry(a) \/ Redirected(a) \/ RefreshFails(a)
      PROVE  SceneInd'
  <2>1. UNCHANGED <<disk, regressed, now>>
    BY <1>1 DEF Call, AcquireLock, SendRequest, Retry, Redirected, RefreshFails, ghosts
  <2>2. \A b \in Actors :
          /\ stamp'[b] = stamp[b] \/ stamp'[b] = now
          /\ pc'[b] \in {"received", "published"} =>
               pc'[b] = pc[b] /\ got'[b] = got[b] /\ stamp'[b] = stamp[b]
    BY <1>1 DEF Call, AcquireLock, SendRequest, Retry, Redirected, RefreshFails, Goto, locals, IInv, TypeOK
  <2>3. disk' = disk /\ regressed' = regressed /\ now' \in Nat /\ now' >= now
    BY <1>0, <2>1
  <2>4. \A b \in Actors : stamp'[b] = stamp[b] \/ (stamp'[b] \in Nat /\ stamp'[b] <= now')
    BY <1>0, <2>1, <2>2
  <2> QED BY <2>2, <2>3, <2>4, QuietKeepsScene
<1>2. ASSUME NEW a \in Actors,
             Refuse(a) \/ HistoryEmpty(a) \/ OutcomeNotWritten(a) \/ ProcessExits(a)
      PROVE  SceneInd'
  <2>1. UNCHANGED <<disk, regressed, now>> /\ Return(a)
    BY <1>2 DEF Refuse, RefuseBusy, RefuseClock, RefuseTooSoon, HistoryEmpty, OutcomeNotWritten,
                ProcessExits, ghosts
  <2>2. \A b \in Actors :
          /\ stamp'[b] = stamp[b] \/ stamp'[b] = 0
          /\ pc'[b] \in {"received", "published"} =>
               pc'[b] = pc[b] /\ got'[b] = got[b] /\ stamp'[b] = stamp[b]
    BY <2>1 DEF Return, IInv, TypeOK
  <2>3. disk' = disk /\ regressed' = regressed /\ now' \in Nat /\ now' >= now
    BY <1>0, <2>1
  <2>4. \A b \in Actors : stamp'[b] = stamp[b] \/ (stamp'[b] \in Nat /\ stamp'[b] <= now')
    BY <1>0, <2>1, <2>2
  <2> QED BY <2>2, <2>3, <2>4, QuietKeepsScene
<1>3. CASE Tick \/ UNCHANGED vars
  <2>1. /\ UNCHANGED <<disk, regressed, stamp, pc, got>> /\ now' \in Nat /\ now' >= now
    BY <1>0, <1>3 DEF Tick, vars, disk, locals, ghosts
  <2>2. disk' = disk /\ regressed' = regressed
    BY <2>1
  <2>3. \A b \in Actors :
          /\ stamp'[b] = stamp[b] \/ (stamp'[b] \in Nat /\ stamp'[b] <= now')
          /\ pc'[b] \in {"received", "published"} =>
               pc'[b] = pc[b] /\ got'[b] = got[b] /\ stamp'[b] = stamp[b]
    BY <2>1
  <2> QED BY <2>1, <2>2, <2>3, QuietKeepsScene
<1>4. CASE ClockSetBack
  BY <1>4 DEF ClockSetBack, SceneInd
<1> QED
  BY <1>1, <1>2, <1>3, <1>4, FetchedKeepsScene, PublishKeepsScene, BeginKeepsScene, OutcomeKeepsScene
  DEF Next, Progress, Transport, Conclude

\* The scene on display is the one the state vouches for, for any callers and
\* bounds, as long as the clock is not set back.
THEOREM SceneAlwaysBacks == Spec => []SceneBacksState
<1>1. Init => SceneInd
  BY DEF Init, InitialState, SceneInd, Ordered
<1>2. IInv /\ SceneInd => SceneBacksState
  BY NoSceneAssumption DEF SceneInd, Ordered, SceneBacksState
<1> QED BY <1>1, <1>2, SceneIndPreserved, Inductive, PTL DEF Spec

-----------------------------------------------------------------------------
(***************************************************************************)
(* Part 5.  How long a call can go on.                                     *)
(***************************************************************************)

\* Requests that a number of redirects and of tries still allow, and the wait
\* after each.
Asks(redirects, attempted) == redirects * (2 * MaxTries) + 2 * (MaxTries - attempted)

\* What a call still has before it.
StepsLeft(at, attempted, followed) ==
  CASE at = "idle"       -> 0
    [] at = "stamped"    -> 5 + Asks(MaxRedirects, 0)
    [] at = "locked"     -> 4 + Asks(MaxRedirects, 0)
    [] at = "requesting" -> 3 + Asks(MaxRedirects - followed, attempted)
    [] at = "waiting"    -> 4 + Asks(MaxRedirects - followed, attempted)
    [] at = "received"   -> 3
    [] at = "published"  -> 2
    [] at = "failing"    -> 1

\* A call stays where it is, or is nearer to its end.
CallAdvances ==
  \A a \in Actors : pc[a] # "idle" =>
    \/ pc'[a] = pc[a] /\ tries'[a] = tries[a] /\ hops'[a] = hops[a]
    \/ StepsLeft(pc'[a], tries'[a], hops'[a]) < StepsLeft(pc[a], tries[a], hops[a])

\* How many steps a call may still take: the policy of the transport is all
\* that makes it longer.
CallBounded ==
  \A a \in Actors : StepsLeft(pc[a], tries[a], hops[a]) \in 0 .. 2 * MaxTries * (MaxRedirects + 1) + 5

LEMMA Multiples ==
  ASSUME NEW n \in Nat, NEW m \in Nat
  PROVE  n * (2 * m) \in Nat /\ (n + 1) * (2 * m) = n * (2 * m) + 2 * m
OBVIOUS

LEMMA AsksAre ==
  ASSUME NEW r \in Nat, NEW t \in 0 .. MaxTries
  PROVE  /\ Asks(r, t) \in Nat /\ Asks(r, t) = Asks(r, 0) - 2 * t
         /\ Asks(r + 1, t) = Asks(r, t) + 2 * MaxTries
<1>1. MaxTries \in Nat
  BY BoundsAssumption
<1>2. r * (2 * MaxTries) \in Nat /\ (r + 1) * (2 * MaxTries) = r * (2 * MaxTries) + 2 * MaxTries
  BY <1>1, Multiples
<1> DEFINE product == r * (2 * MaxTries)
           larger == (r + 1) * (2 * MaxTries)
<1>3. Asks(r, t) = product + 2 * (MaxTries - t) /\ Asks(r, 0) = product + 2 * (MaxTries - 0)
  BY DEF Asks
<1>4. Asks(r + 1, t) = larger + 2 * (MaxTries - t)
  BY DEF Asks
<1>5. product \in Nat /\ larger = product + 2 * MaxTries
  BY <1>2
<1> HIDE DEF product, larger
<1> QED BY <1>1, <1>3, <1>4, <1>5

\* More asks than are left by any number of tries and redirects there are not.
LEMMA FewerAsks ==
  ASSUME NEW r \in 0 .. MaxRedirects, NEW t \in 0 .. MaxTries
  PROVE  Asks(r, t) <= Asks(MaxRedirects, 0)
<1>1. MaxTries \in Nat /\ MaxRedirects \in Nat /\ r \in Nat
  BY BoundsAssumption
<1>2. \A n, m, k \in Nat : n <= m => n * (2 * k) <= m * (2 * k)
  OBVIOUS
<1> DEFINE product == r * (2 * MaxTries)
           largest == MaxRedirects * (2 * MaxTries)
<1>3. product \in Nat /\ largest \in Nat /\ product <= largest
  BY <1>1, <1>2, Multiples
<1>4. Asks(r, t) = product + 2 * (MaxTries - t) /\ Asks(MaxRedirects, 0) = largest + 2 * (MaxTries - 0)
  BY DEF Asks
<1> HIDE DEF product, largest
<1> QED BY <1>1, <1>3, <1>4

LEMMA StepsAre ==
  ASSUME IInv, NEW a \in Actors
  PROVE  /\ MaxRedirects \in Nat /\ MaxTries \in Nat
         /\ tries[a] \in 0 .. MaxTries /\ hops[a] \in 0 .. MaxRedirects
         /\ MaxRedirects - hops[a] \in 0 .. MaxRedirects
         /\ Asks(MaxRedirects - hops[a], tries[a]) \in Nat /\ Asks(MaxRedirects, 0) \in Nat
         /\ Asks(MaxRedirects - hops[a], tries[a]) <= Asks(MaxRedirects, 0)
         /\ StepsLeft(pc[a], tries[a], hops[a]) \in 0 .. Asks(MaxRedirects, 0) + 5
         /\ pc[a] # "idle" => StepsLeft(pc[a], tries[a], hops[a]) > 0
<1>1. MaxRedirects \in Nat /\ MaxTries \in Nat
  BY BoundsAssumption
<1>2. tries[a] \in 0 .. MaxTries /\ hops[a] \in 0 .. MaxRedirects /\ pc[a] \in Locations
  BY DEF IInv, TypeOK
<1>3. MaxRedirects - hops[a] \in 0 .. MaxRedirects
  BY <1>1, <1>2
<1>4. /\ Asks(MaxRedirects - hops[a], tries[a]) \in Nat /\ Asks(MaxRedirects, 0) \in Nat
      /\ Asks(MaxRedirects - hops[a], tries[a]) <= Asks(MaxRedirects, 0)
  <2>1. PICK r \in 0 .. MaxRedirects : r = MaxRedirects - hops[a]
    BY <1>3
  <2>2. PICK t \in 0 .. MaxTries : t = tries[a]
    BY <1>2
  <2>3. r \in Nat /\ 0 \in 0 .. MaxTries
    BY <1>1
  <2>4. Asks(r, t) \in Nat
    BY <2>3, AsksAre
  <2>5. Asks(MaxRedirects, 0) \in Nat
    BY <1>1, <2>3, AsksAre
  <2>6. Asks(r, t) <= Asks(MaxRedirects, 0)
    BY FewerAsks
  <2> QED BY <2>1, <2>2, <2>4, <2>5, <2>6
<1> QED BY <1>1, <1>2, <1>3, <1>4 DEF StepsLeft, Locations, Holding, InFlight

\* Retries and redirects use up what the policy of the transport allows.
LEMMA TransportAdvances ==
  ASSUME IInv, NEW a \in Actors, SendRequest(a) \/ Retry(a) \/ Redirected(a)
  PROVE  StepsLeft(pc'[a], tries'[a], hops'[a]) < StepsLeft(pc[a], tries[a], hops[a])
<1> DEFINE r == MaxRedirects - hops[a]
<1>1. /\ MaxTries \in Nat /\ tries[a] \in 0 .. MaxTries /\ hops[a] \in 0 .. MaxRedirects /\ r \in Nat
      /\ Asks(r, tries[a]) \in Nat /\ Asks(r, tries[a]) = Asks(r, 0) - 2 * tries[a] /\ Asks(r, 0) \in Nat
  <2>1. MaxTries \in Nat /\ tries[a] \in 0 .. MaxTries /\ hops[a] \in 0 .. MaxRedirects /\ r \in 0 .. MaxRedirects
    BY StepsAre
  <2> HIDE DEF r
  <2>2. PICK q \in Nat : q = r
    BY <2>1
  <2>3. PICK t \in 0 .. MaxTries : t = tries[a]
    BY <2>1
  <2>4. 0 \in 0 .. MaxTries
    BY <2>1
  <2>5. Asks(q, t) \in Nat /\ Asks(q, t) = Asks(q, 0) - 2 * t
    BY AsksAre
  <2>6. Asks(q, 0) \in Nat
    BY <2>4, AsksAre
  <2> QED BY <2>1, <2>2, <2>3, <2>5, <2>6
<1>2. DOMAIN pc = Actors /\ DOMAIN tries = Actors /\ DOMAIN hops = Actors
  BY DEF IInv, TypeOK
<1>3. CASE SendRequest(a)
  <2>1. /\ pc[a] = "requesting" /\ pc'[a] = "waiting" /\ hops'[a] = hops[a] /\ tries'[a] = tries[a] + 1
    BY <1>2, <1>3 DEF SendRequest, Goto
  <2>2. tries[a] + 1 \in 0 .. MaxTries
    BY <1>1, <2>1 DEF IInv, LocalsFit
  <2>3. Asks(r, tries[a] + 1) = Asks(r, 0) - 2 * (tries[a] + 1)
    BY <1>1, <2>2, AsksAre
  <2>4. /\ StepsLeft(pc[a], tries[a], hops[a]) = 3 + Asks(r, tries[a])
        /\ StepsLeft(pc'[a], tries'[a], hops'[a]) = 4 + Asks(r, tries[a] + 1)
    BY <2>1 DEF StepsLeft
  <2> HIDE DEF r
  <2> QED BY <1>1, <2>3, <2>4
<1>4. CASE Retry(a)
  <2>1. /\ pc[a] = "waiting" /\ pc'[a] = "requesting" /\ hops'[a] = hops[a] /\ tries'[a] = tries[a]
    BY <1>2, <1>4 DEF Retry, Goto, locals
  <2>2. /\ StepsLeft(pc[a], tries[a], hops[a]) = 4 + Asks(r, tries[a])
        /\ StepsLeft(pc'[a], tries'[a], hops'[a]) = 3 + Asks(r, tries[a])
    BY <2>1 DEF StepsLeft
  <2> HIDE DEF r
  <2> QED BY <1>1, <2>2
<1>5. CASE Redirected(a)
  <2>1. /\ pc[a] = "waiting" /\ pc'[a] = "requesting" /\ hops'[a] = hops[a] + 1 /\ tries'[a] = 0
        /\ hops[a] < MaxRedirects
    BY <1>2, <1>5 DEF Redirected, Goto
  <2>2. /\ MaxRedirects \in Nat /\ MaxRedirects - (hops[a] + 1) \in Nat
        /\ (MaxRedirects - (hops[a] + 1)) + 1 = r
    BY <1>1, <2>1, StepsAre
  <2>3. Asks(r, 0) = Asks(MaxRedirects - (hops[a] + 1), 0) + 2 * MaxTries /\ Asks(MaxRedirects - (hops[a] + 1), 0) \in Nat
    <3>1. 0 \in 0 .. MaxTries
      BY <1>1
    <3>2. PICK q \in Nat : q = MaxRedirects - (hops[a] + 1)
      BY <2>2
    <3>3. Asks(q + 1, 0) = Asks(q, 0) + 2 * MaxTries /\ Asks(q, 0) \in Nat
      BY <3>1, AsksAre
    <3> HIDE DEF r
    <3> QED BY <2>2, <3>2, <3>3
  <2>4. /\ StepsLeft(pc[a], tries[a], hops[a]) = 4 + Asks(r, tries[a])
        /\ StepsLeft(pc'[a], tries'[a], hops'[a]) = 3 + Asks(MaxRedirects - (hops[a] + 1), 0)
    BY <2>1 DEF StepsLeft
  <2> HIDE DEF r
  <2> QED BY <1>1, <2>3, <2>4
<1> QED BY <1>3, <1>4, <1>5

\* Every other step of a call leads to a later position.
LEMMA OtherStepsAdvance ==
  ASSUME IInv, NEW a \in Actors, pc[a] # "idle",
         \/ AcquireLock(a) \/ Refuse(a) \/ Begin(a) \/ BeginRaises(a) \/ Fetched(a) \/ RefreshFails(a)
         \/ PublishScene(a) \/ PublishRaises(a) \/ Conclude(a) \/ ProcessExits(a)
  PROVE  StepsLeft(pc'[a], tries'[a], hops'[a]) < StepsLeft(pc[a], tries[a], hops[a])
<1>1. DOMAIN pc = Actors /\ DOMAIN tries = Actors /\ DOMAIN hops = Actors /\ MaxRedirects - 0 = MaxRedirects
  BY StepsAre DEF IInv, TypeOK
<1>2. Asks(MaxRedirects - hops[a], tries[a]) \in Nat /\ Asks(MaxRedirects, 0) \in Nat
  BY StepsAre
<1>3. CASE AcquireLock(a)
  <2>1. pc[a] = "stamped" /\ pc'[a] = "locked"
    BY <1>1, <1>3 DEF AcquireLock, Goto
  <2> QED BY <1>2, <2>1 DEF StepsLeft
<1>4. CASE Begin(a)
  <2>1. pc[a] = "locked" /\ pc'[a] = "requesting" /\ tries'[a] = 0 /\ hops'[a] = 0
    BY <1>1, <1>4 DEF Begin, Goto, IInv, LocalsFit
  <2>2. /\ StepsLeft(pc[a], tries[a], hops[a]) = 4 + Asks(MaxRedirects, 0)
        /\ StepsLeft(pc'[a], tries'[a], hops'[a]) = 3 + Asks(MaxRedirects - 0, 0)
    BY <2>1 DEF StepsLeft
  <2> QED BY <1>1, <1>2, <2>2
<1>5. CASE Fetched(a)
  <2>1. pc[a] = "waiting" /\ pc'[a] = "received"
    BY <1>1, <1>5 DEF Fetched, Goto
  <2> QED BY <1>2, <2>1 DEF StepsLeft
<1>6. CASE RefreshFails(a)
  <2>1. pc[a] \in {"requesting", "waiting", "received"} /\ pc'[a] = "failing"
    BY <1>1, <1>6 DEF RefreshFails
  <2> QED BY <1>2, <2>1 DEF StepsLeft
<1>7. CASE PublishScene(a) \/ PublishRaises(a)
  <2>1. pc[a] = "received" /\ pc'[a] \in {"published", "failing"}
    BY <1>1, <1>7 DEF PublishScene, PublishRaises, Goto
  <2> QED BY <2>1 DEF StepsLeft
<1>8. CASE Refuse(a) \/ BeginRaises(a) \/ Conclude(a) \/ ProcessExits(a)
  <2>1. Return(a)
    BY <1>8 DEF Refuse, RefuseBusy, RefuseClock, RefuseTooSoon, BeginRaises, Conclude, RecordSuccess, HistoryEmpty,
                RecordFailure, OutcomeNotWritten, ProcessExits
  <2>2. pc'[a] = "idle"
    BY <1>1, <2>1 DEF Return
  <2>3. StepsLeft(pc'[a], tries'[a], hops'[a]) = 0
    BY <2>2 DEF StepsLeft
  <2> QED BY <2>3, StepsAre
<1> QED BY <1>3, <1>4, <1>5, <1>6, <1>7, <1>8

\* What another caller does leaves this one where it is.
LEMMA OthersWait ==
  ASSUME IInv, NEW a \in Actors, NEW b \in Actors, a # b, Call(b) \/ Progress(b) \/ ProcessExits(b)
  PROVE  pc'[a] = pc[a] /\ tries'[a] = tries[a] /\ hops'[a] = hops[a]
<1>1. DOMAIN pc = Actors /\ DOMAIN tries = Actors /\ DOMAIN hops = Actors
  BY DEF IInv, TypeOK
<1>2. CASE Return(b)
  BY <1>1, <1>2 DEF Return
<1>3. CASE Refuse(b) \/ BeginRaises(b) \/ Conclude(b) \/ ProcessExits(b)
  BY <1>2, <1>3 DEF Refuse, RefuseBusy, RefuseClock, RefuseTooSoon, BeginRaises, Conclude, RecordSuccess, HistoryEmpty,
                RecordFailure, OutcomeNotWritten, ProcessExits
<1>4. CASE Call(b) \/ AcquireLock(b) \/ Begin(b)
  BY <1>1, <1>4 DEF Call, AcquireLock, Begin, Goto, locals
<1>5. CASE Transport(b)
  BY <1>1, <1>5 DEF Transport, SendRequest, Retry, Redirected, Fetched, RefreshFails, Goto, locals
<1>6. CASE PublishScene(b) \/ PublishRaises(b)
  BY <1>1, <1>6 DEF PublishScene, PublishRaises, Goto, locals
<1> QED BY <1>3, <1>4, <1>5, <1>6 DEF Progress

\* A call is over after at most 2 * MaxTries * (MaxRedirects + 1) + 5 steps of
\* its own: whatever the provider answers, no retry or redirect brings it back
\* to where it was, and nothing that others do takes it further from its end.
THEOREM CallsAreFinite == Spec => []CallBounded /\ [][CallAdvances]_vars
<1>1. ASSUME IInv PROVE CallBounded
  <2>1. Asks(MaxRedirects, 0) + 5 = 2 * MaxTries * (MaxRedirects + 1) + 5
    <3>1. \A n, m \in Nat : n * (2 * m) + 2 * (m - 0) = 2 * m * (n + 1)
      OBVIOUS
    <3> QED BY <3>1, BoundsAssumption DEF Asks
  <2> QED BY <1>1, <2>1, StepsAre DEF CallBounded
<1>2. ASSUME IInv, [Next]_vars PROVE [CallAdvances]_vars
  <2> SUFFICES ASSUME Next, NEW a \in Actors, pc[a] # "idle"
               PROVE  \/ pc'[a] = pc[a] /\ tries'[a] = tries[a] /\ hops'[a] = hops[a]
                      \/ StepsLeft(pc'[a], tries'[a], hops'[a]) < StepsLeft(pc[a], tries[a], hops[a])
    BY <1>2 DEF CallAdvances
  <2>1. CASE Tick \/ ClockSetBack
    BY <2>1 DEF Tick, ClockSetBack, locals
  <2>2. ASSUME NEW b \in Actors, a # b, Call(b) \/ Progress(b) \/ ProcessExits(b)
        PROVE  pc'[a] = pc[a] /\ tries'[a] = tries[a] /\ hops'[a] = hops[a]
    BY <1>2, <2>2, OthersWait
  <2>3. ~ Call(a)
    BY DEF Call, Goto
  <2>4. ASSUME Progress(a) \/ ProcessExits(a)
        PROVE  StepsLeft(pc'[a], tries'[a], hops'[a]) < StepsLeft(pc[a], tries[a], hops[a])
    BY <1>2, <2>4, TransportAdvances, OtherStepsAdvance, Zenon DEF Progress, Transport
  <2> QED BY <2>1, <2>2, <2>3, <2>4 DEF Next
<1> QED BY <1>1, <1>2, Inductive, PTL DEF Spec
=============================================================================
