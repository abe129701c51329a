--------------------- MODULE NationalHighwaysLiveProofs ---------------------
(***************************************************************************)
(* Proofs about NationalHighwaysLive, for any workers, operators and       *)
(* intervals, whatever ends, fails or sets the clock back.                 *)
(*                                                                         *)
(* The argument: who holds the lock works on the last attempt, on the      *)
(* state file it has read, and nobody else touches either (InFlightFits).  *)
(* What is on record is then one chain of attempts, each of which waited   *)
(* for the one before (Told), and the file is its account.                 *)
(***************************************************************************)
EXTENDS NationalHighwaysLive, FiniteSetTheorems, TLAPS

-----------------------------------------------------------------------------
(* The bounded history.                                                    *)

KeptOf(W) ==
  {s \in W : /\ \A t \in W : t.at <= s.at + MaxAge
             /\ Cardinality({t \in W : t.attempt > s.attempt}) < MaxHistory}

\* Trimming what was kept and one newer summary keeps what trimming everything
\* would have kept.
LEMMA TrimmingComposes ==
  ASSUME NEW W \in SUBSET Summary, IsFiniteSet(W), NEW s \in Summary,
         \A t \in W : t.at <= s.at /\ t.attempt < s.attempt,
         \A t, u \in W : t.attempt < u.attempt => t.at <= u.at
  PROVE  BoundedHistory(KeptOf(W) \union {s}, s.at) = KeptOf(W \union {s})
<1> DEFINE Newer(S, x) == {t \in S : t.attempt > x.attempt}
<1> DEFINE Fresh == {i \in KeptOf(W) \union {s} : i.at + MaxAge >= s.at}
<1>0. MaxAge \in Nat /\ MaxHistory \in Nat
  BY BoundsAssumption
<1>1. \A S \in SUBSET W, x \in Summary :
        IsFiniteSet(Newer(S, x)) /\ Cardinality(Newer(S, x)) \in Nat
  BY FS_Subset, FS_CardinalityType
<1>2. \A x \in W : IsFiniteSet(Newer(W, x)) /\ Cardinality(Newer(W, x)) \in Nat
  BY <1>1
<1>3. \A x \in W, y \in W : x.attempt < y.attempt => Cardinality(Newer(W, y)) <= Cardinality(Newer(W, x))
  <2> SUFFICES ASSUME NEW x \in W, NEW y \in W, x.attempt < y.attempt
               PROVE  Cardinality(Newer(W, y)) <= Cardinality(Newer(W, x))
    OBVIOUS
  <2>1. Newer(W, y) \subseteq Newer(W, x)
    BY DEF Summary
  <2> QED BY <2>1, <1>2, FS_Subset
<1>4. ASSUME NEW x \in KeptOf(W), NEW y \in W, x.attempt < y.attempt
      PROVE  y \in KeptOf(W)
  <2>1. \A t \in W : t.at <= y.at + MaxAge
    BY <1>0, <1>4 DEF KeptOf, Summary
  <2>2. Cardinality(Newer(W, y)) < MaxHistory
    <3>1. Cardinality(Newer(W, x)) < MaxHistory
      BY <1>4 DEF KeptOf
    <3>2. x \in W
      BY DEF KeptOf
    <3>3. Cardinality(Newer(W, y)) <= Cardinality(Newer(W, x))
      BY <1>3, <1>4, <3>2
    <3>4. Cardinality(Newer(W, x)) \in Nat /\ Cardinality(Newer(W, y)) \in Nat
      BY <1>2, <3>2
    <3> HIDE DEF Newer
    <3> QED BY <1>0, <3>1, <3>3, <3>4
  <2> QED BY <2>1, <2>2 DEF KeptOf
<1>5. ASSUME NEW x \in KeptOf(W), x.at + MaxAge >= s.at
      PROVE  Newer(Fresh, x) = Newer(W \union {s}, x)
  <2>1. ASSUME NEW y \in Newer(W, x) PROVE y \in Fresh
    <3>1. y \in KeptOf(W)
      BY <1>4 DEF Summary
    <3>2. y.at + MaxAge >= s.at
      BY <1>0, <1>5 DEF KeptOf, Summary
    <3> QED BY <3>1, <3>2
  <2>2. s \in Fresh
    BY <1>0 DEF Summary
  <2>3. Fresh \subseteq W \union {s}
    BY DEF KeptOf
  <2> QED BY <2>1, <2>2, <2>3
<1>6. Newer(Fresh, s) = {} /\ Newer(W \union {s}, s) = {}
  BY DEF KeptOf, Summary
<1>7. \A x \in W : Newer(W \union {s}, x) = Newer(W, x) \union {s} /\ s \notin Newer(W, x)
  BY DEF Summary
<1>8. \A x \in W : Cardinality(Newer(W \union {s}, x)) = Cardinality(Newer(W, x)) + 1
  <2> SUFFICES ASSUME NEW x \in W
               PROVE  Cardinality(Newer(W \union {s}, x)) = Cardinality(Newer(W, x)) + 1
    OBVIOUS
  <2>1. IsFiniteSet(Newer(W, x)) /\ s \notin Newer(W, x) /\ Newer(W \union {s}, x) = Newer(W, x) \union {s}
    BY <1>2, <1>7
  <2> HIDE DEF Newer
  <2> QED BY <2>1, FS_AddElement
<1>9. \A x \in W \union {s} : x \in KeptOf(W \union {s}) <=>
        /\ x.at + MaxAge >= s.at
        /\ Cardinality(Newer(W \union {s}, x)) < MaxHistory
        /\ x = s \/ x \in KeptOf(W)
  <2>1. MaxHistory > 0
    BY BoundsAssumption
  <2>2. s \in KeptOf(W \union {s}) /\ Cardinality(Newer(W \union {s}, s)) < MaxHistory
    BY <1>0, <1>6, <2>1, FS_EmptySet DEF KeptOf, Summary
  <2>3. ASSUME NEW x \in W
        PROVE  x \in KeptOf(W \union {s}) <=>
                 /\ x.at + MaxAge >= s.at
                 /\ Cardinality(Newer(W \union {s}, x)) < MaxHistory
                 /\ x \in KeptOf(W)
    <3>1. Cardinality(Newer(W \union {s}, x)) < MaxHistory => Cardinality(Newer(W, x)) < MaxHistory
      <4>1. Cardinality(Newer(W, x)) \in Nat
        BY <1>2, <2>3
      <4>2. Cardinality(Newer(W \union {s}, x)) = Cardinality(Newer(W, x)) + 1
        BY <1>8, <2>3
      <4> HIDE DEF Newer
      <4> QED BY <1>0, <4>1, <4>2
    <3>2. (\A t \in W \union {s} : t.at <= x.at + MaxAge) <=>
            (\A t \in W : t.at <= x.at + MaxAge) /\ x.at + MaxAge >= s.at
      BY <1>0 DEF Summary
    <3> QED BY <3>1, <3>2 DEF KeptOf
  <2>4. s.at + MaxAge >= s.at
    BY <1>0 DEF Summary
  <2>5. s \notin W
    BY DEF Summary
  <2> QED BY <2>2, <2>3, <2>4, <2>5
<1>10. \A x : x \in BoundedHistory(KeptOf(W) \union {s}, s.at) <=>
        x \in Fresh /\ Cardinality(Newer(Fresh, x)) < MaxHistory
  BY DEF BoundedHistory
<1>11. \A x \in Fresh : Newer(Fresh, x) = Newer(W \union {s}, x)
  BY <1>5, <1>6
<1>12. KeptOf(W \union {s}) \subseteq W \union {s} /\ Fresh \subseteq W \union {s}
  BY DEF KeptOf
<1>13. \A x : x \in KeptOf(W \union {s}) <=> x \in BoundedHistory(KeptOf(W) \union {s}, s.at)
  BY <1>9, <1>10, <1>11, <1>12
<1> QED BY <1>13

-----------------------------------------------------------------------------
(* Types.                                                                  *)

LEMMA InitTypes == Init => TypeOK
<1> SUFFICES ASSUME Init PROVE TypeOK
  OBVIOUS
<1>1. InitialState \in ControlState
  BY DEF InitialState, ControlState
<1>2. NoCall \in Call
  BY <1>1 DEF NoCall, Call, Products
<1>3. attempts \in Seq(Attempt)
  BY DEF Init
<1> QED BY <1>1, <1>2, <1>3 DEF Init, TypeOK, Locations

-----------------------------------------------------------------------------
(* Who is in flight works on the last attempt and on the state it has read.*)

Exclusive == \A a \in Actors : pc[a] \in Holding => lock = a

Open(a) ==
  /\ call[a].view = state
  /\ call[a].number = Len(attempts) /\ Len(attempts) # 0
  /\ attempts[Len(attempts)] = [at |-> call[a].stamp, outcome |-> "open"]
  /\ state.lastAt # NoTime => call[a].stamp >= state.lastAt + MinInterval

InFlightFits == \A a \in Actors : pc[a] \in InFlight => Open(a)

Guarded == TypeOK /\ Exclusive /\ InFlightFits

USE DEF Actors

LEMMA ReturnTypes ==
  ASSUME TypeOK, NEW a \in Actors, Return(a) PROVE
  /\ lock' \in Actors \union {NoActor}
  /\ pc' \in [Actors -> Locations] /\ pc'[a] \in {"off", "planning"}
  /\ \A b \in Actors : b # a => pc'[b] = pc[b] /\ call'[b] = call[b] /\ (lock = b => lock' = b)
  /\ call' \in [Actors -> Call]
  /\ UNCHANGED worker
<1>1. NoCall \in Call
  BY DEF NoCall, Call, Products, InitialState, ControlState
<1> QED BY <1>1 DEF Return, LeaveCall, TypeOK, Locations

\* The steps of a call before it goes out, and of a worker, touch no file.
LEMMA EarlyStepsGuarded ==
  ASSUME Guarded, NEW a \in Actors,
         \/ a \in Workers /\ (Ensure(a) \/ Plan(a) \/ Wake(a))
         \/ a \in Operators /\ Click(a)
         \/ ReadClock(a) \/ AcquireLock(a) \/ RefuseBusy(a) \/ CallRaises(a) \/ RefuseEarly(a)
  PROVE  Guarded'
<1> USE DEF Guarded
<1>0. Wall \in Nat /\ NoTime \notin Nat /\ Interval \in Nat
  BY BoundsAssumption, NoTimeAssumption DEF TypeOK, Wall
<1>1. CASE a \in Workers /\ Ensure(a)
  BY <1>1 DEF Ensure, Goto, TypeOK, Exclusive, InFlightFits, Open, InFlight, Holding, Locations, clocks, disk, overlays, worker
<1>2. CASE a \in Workers /\ Plan(a)
  <2>1. \A recorded \in {state.lastAt, NoTime} : Known(a, recorded) \in Nat \union {NoTime}
    BY <1>2 DEF Known, Later, TypeOK, ControlState
  <2>2. \A t \in Nat \union {NoTime} : Delay(t) \in Nat
    BY <1>0 DEF Delay
  <2>3. due' \in [Workers -> Nat]
    <3>1. PICK recorded \in {state.lastAt, NoTime} :
            due' = [due EXCEPT ![a] = now + Delay(Known(a, recorded))]
      BY <1>2 DEF Plan
    <3>2. Delay(Known(a, recorded)) \in Nat
      BY <2>1, <2>2
    <3>3. now + Delay(Known(a, recorded)) \in Nat
      BY <3>2 DEF TypeOK
    <3> QED BY <1>2, <3>1, <3>3 DEF TypeOK
  <2> QED BY <1>2, <2>3 DEF Plan, Goto, TypeOK, Exclusive, InFlightFits, Open, InFlight, Holding, Locations, clocks, disk, overlays
<1>3. CASE a \in Workers /\ Wake(a)
  BY <1>0, <1>3 DEF Wake, Goto, TypeOK, Exclusive, InFlightFits, Open, InFlight, Holding, Calling, Locations, clocks, disk, overlays
<1>4. CASE a \in Operators /\ Click(a)
  BY <1>4 DEF Click, Goto, TypeOK, Exclusive, InFlightFits, Open, InFlight, Holding, Calling, Locations, clocks, disk, overlays, worker
<1>5. CASE ReadClock(a)
  <2>1. call' \in [Actors -> Call]
    BY <1>0, <1>5 DEF ReadClock, TypeOK, Call
  <2>2. TypeOK' /\ Exclusive'
    BY <1>5, <2>1 DEF ReadClock, Goto, TypeOK, Exclusive, Holding, InFlight, Calling, Locations, clocks, disk, overlays, worker
  <2>3. \A b \in Actors : pc'[b] \in InFlight => b # a /\ pc'[b] = pc[b] /\ call'[b] = call[b]
    BY <1>5 DEF ReadClock, Goto, TypeOK, InFlight
  <2> QED BY <1>5, <2>2, <2>3 DEF ReadClock, InFlightFits, Open, disk
<1>6. CASE AcquireLock(a)
  <2>1. \A b \in Actors : pc[b] \notin Holding
    BY <1>6, ActorsAssumption DEF AcquireLock, Exclusive
  <2> QED BY <1>6, <2>1 DEF AcquireLock, Goto, TypeOK, Exclusive, InFlightFits, InFlight, Holding, Calling, Locations, clocks, disk, overlays, worker
<1>7. CASE RefuseBusy(a) \/ CallRaises(a) \/ RefuseEarly(a)
  <2>1. Return(a) /\ UNCHANGED <<clocks, disk, attempts>>
    BY <1>7 DEF RefuseBusy, CallRaises, RefuseEarly
  <2>2. TypeOK'
    BY <2>1, ReturnTypes DEF TypeOK, clocks, disk, overlays, worker
  <2>3. Exclusive' /\ InFlightFits'
    BY <2>1, ReturnTypes DEF Exclusive, InFlightFits, Open, Holding, InFlight, disk
  <2> QED BY <2>2, <2>3
<1> QED BY <1>1, <1>2, <1>3, <1>4, <1>5, <1>6, <1>7

\* While a refresh is under way, nothing but its end and the overlays changes.
LEMMA FlightStepsGuarded ==
  ASSUME Guarded, NEW a \in Actors,
         Begin(a) \/ Acquire(a) \/ RefreshFails(a) \/ PublishLatest(a) \/ PublishLive(a)
  PROVE  Guarded'
<1> USE DEF Guarded
<1>0. call[a] \in Call /\ state \in ControlState /\ Len(attempts) \in Nat
  BY DEF TypeOK
<1>1. CASE Begin(a)
  <2>1. call'[a] = [call[a] EXCEPT !.view = state, !.number = Len(attempts) + 1]
    BY <1>1 DEF Begin, TypeOK
  <2>0. call'[a] = [stamp |-> call[a].stamp, view |-> state, number |-> Len(attempts) + 1,
                    fetched |-> call[a].fetched]
    BY <1>0, <2>1 DEF Call
  <2>2. /\ call'[a] \in Call /\ call'[a].view = state /\ call'[a].number = Len(attempts) + 1
        /\ call'[a].stamp = call[a].stamp /\ call[a].stamp \in Nat
    BY <1>0, <2>0 DEF Call
  <2>3. call' \in [Actors -> Call] /\ \A b \in Actors : b # a => call'[b] = call[b]
    BY <1>1, <2>2 DEF Begin, TypeOK
  <2>4. [at |-> call[a].stamp, outcome |-> "open"] \in Attempt
    BY <2>2 DEF Attempt
  <2>5. /\ attempts' \in Seq(Attempt) /\ Len(attempts') = Len(attempts) + 1
        /\ attempts'[Len(attempts) + 1] = [at |-> call[a].stamp, outcome |-> "open"]
    BY <1>1, <2>4 DEF Begin, TypeOK
  <2>6. TypeOK'
    BY <1>1, <2>3, <2>5 DEF Begin, Goto, TypeOK, Locations, Calling, Holding, InFlight, clocks, disk, overlays, worker
  <2>7. \A b \in Actors : pc'[b] \in Holding => b = a
    BY <1>1 DEF Begin, Goto, TypeOK, Exclusive, Holding
  <2>8. Exclusive'
    BY <1>1, <2>7 DEF Begin, Goto, Exclusive, Holding
  <2>9. Open(a)'
    <3>1. /\ Due(a) /\ state' = state /\ Len(attempts') # 0
          /\ Len(attempts') = Len(attempts) + 1
      BY <1>0, <1>1, <2>5 DEF Begin, disk
    <3> QED BY <2>2, <2>5, <3>1 DEF Due, Open
  <2> QED BY <2>6, <2>7, <2>8, <2>9 DEF InFlightFits, Holding
<1>2. CASE Acquire(a)
  <2>0. call'[a] = [stamp |-> call[a].stamp, view |-> call[a].view, number |-> call[a].number,
                    fetched |-> call[a].fetched + 1]
    <3>1. call'[a] = [call[a] EXCEPT !.fetched = @ + 1]
      BY <1>2 DEF Acquire, TypeOK
    <3> QED BY <1>0, <3>1 DEF Call
  <2>1. /\ call'[a] \in Call
        /\ \A b \in Actors : /\ call'[b].view = call[b].view /\ call'[b].number = call[b].number
                             /\ call'[b].stamp = call[b].stamp
    <3>1. call'[a] \in Call
      BY <1>0, <1>2, <2>0 DEF Acquire, Call, Products
    <3>2. \A b \in Actors : b # a => call'[b] = call[b]
      BY <1>2 DEF Acquire, TypeOK
    <3> QED BY <2>0, <3>1, <3>2
  <2>2. call' \in [Actors -> Call]
    BY <1>2, <2>1 DEF Acquire, TypeOK
  <2> QED BY <1>2, <2>1, <2>2 DEF Acquire, TypeOK, Exclusive, InFlightFits, Open, clocks, disk, overlays, worker
<1>3. CASE RefreshFails(a)
  BY <1>3 DEF RefreshFails, TypeOK, Exclusive, InFlightFits, Open, InFlight, Holding, Calling, Locations, clocks, disk, overlays, worker
<1>4. CASE PublishLatest(a)
  BY <1>0, <1>4 DEF PublishLatest, Goto, Call, TypeOK, Exclusive, InFlightFits, Open, InFlight, Holding, Calling, Locations, clocks, worker
<1>5. CASE PublishLive(a)
  BY <1>0, <1>5 DEF PublishLive, Goto, Call, TypeOK, Exclusive, InFlightFits, Open, InFlight, Holding, Calling, Locations, clocks, worker
<1> QED BY <1>1, <1>2, <1>3, <1>4, <1>5

\* The state a call writes, and what it makes of the last attempt.
Outcome(a) == IF pc[a] = "published" THEN "succeeded" ELSE "failed"

LEMMA RecordGuarded ==
  ASSUME Guarded, NEW a \in Actors, RecordSuccess(a) \/ RecordFailure(a)
  PROVE  /\ Guarded'
         /\ Open(a)
         /\ \A b \in Actors : pc'[b] \notin InFlight
         /\ Len(attempts') = Len(attempts)
         /\ attempts'[Len(attempts)] = [at |-> call[a].stamp, outcome |-> Outcome(a)]
         /\ \A i \in 1 .. Len(attempts) : i # Len(attempts) => attempts'[i] = attempts[i]
<1> USE DEF Guarded
<1>1. Open(a) /\ pc[a] \in InFlight /\ Return(a) /\ UNCHANGED <<clocks, overlays>>
  BY DEF RecordSuccess, RecordFailure, InFlightFits, InFlight
<1>2. call[a] \in Call /\ state \in ControlState
  BY DEF TypeOK
<1>3. attempts' = [attempts EXCEPT ![Len(attempts)].outcome = Outcome(a)]
  BY <1>1 DEF RecordSuccess, RecordFailure, Conclude, Outcome, Open
<1>4. /\ attempts' \in Seq(Attempt) /\ Len(attempts') = Len(attempts)
      /\ attempts'[Len(attempts)] = [at |-> attempts[Len(attempts)].at, outcome |-> Outcome(a)]
      /\ \A i \in 1 .. Len(attempts) : i # Len(attempts) => attempts'[i] = attempts[i]
  <2>1. attempts \in Seq(Attempt) /\ Len(attempts) \in 1 .. Len(attempts)
    BY <1>1 DEF TypeOK, Open
  <2>2. Outcome(a) \in {"succeeded", "failed"}
    BY DEF Outcome
  <2> DEFINE o == Outcome(a)  n == Len(attempts)
  <2>3. attempts' = [attempts EXCEPT ![n] = [attempts[n] EXCEPT !.outcome = o]]
    BY <1>3
  <2>4. attempts[n] \in Attempt /\ n \in 1 .. Len(attempts)
    BY <2>1
  <2> HIDE DEF o
  <2>5. [attempts[n] EXCEPT !.outcome = o] = [at |-> attempts[n].at, outcome |-> o]
    BY <2>4 DEF Attempt
  <2>6. attempts' = [attempts EXCEPT ![n] = [at |-> attempts[n].at, outcome |-> o]]
    BY <2>3, <2>5
  <2>7. [at |-> attempts[n].at, outcome |-> o] \in Attempt
    BY <2>2, <2>4 DEF Attempt, o
  <2> QED BY <2>1, <2>4, <2>6, <2>7 DEF o
<1>5. attempts[Len(attempts)].at = call[a].stamp
  BY <1>1 DEF Open
<1>6. state' \in ControlState
  <2>1. CASE RecordSuccess(a)
    <3> DEFINE new == [at |-> call[a].stamp, attempt |-> call[a].number]
    <3>1. new \in Summary
      BY <1>2 DEF Call, Summary
    <3>2. BoundedHistory(state.history \union {new}, call[a].stamp) \subseteq Summary
      BY <1>2, <3>1 DEF BoundedHistory, ControlState
    <3>3. state' = [state EXCEPT !.attempts = @ + 1, !.successes = @ + 1, !.lastAt = call[a].stamp,
                                 !.status = "succeeded",
                                 !.history = BoundedHistory(state.history \union {new}, call[a].stamp)]
      BY <1>1, <1>2, <2>1 DEF RecordSuccess, Open, ControlState
    <3>4. call[a].stamp \in Nat
      BY <1>2 DEF Call
    <3>5. state' = [attempts |-> state.attempts + 1, successes |-> state.successes + 1,
                    failures |-> state.failures, lastAt |-> call[a].stamp, status |-> "succeeded",
                    history |-> BoundedHistory(state.history \union {new}, call[a].stamp)]
      BY <1>2, <3>3 DEF ControlState
    <3> DEFINE h == BoundedHistory(state.history \union {new}, call[a].stamp)
    <3> HIDE DEF h
    <3>6. state' = [attempts |-> state.attempts + 1, successes |-> state.successes + 1,
                    failures |-> state.failures, lastAt |-> call[a].stamp, status |-> "succeeded",
                    history |-> h]
      BY <3>5 DEF h
    <3>7. h \in SUBSET Summary
      BY <3>2 DEF h
    <3> QED BY <1>2, <3>4, <3>6, <3>7 DEF ControlState
  <2>2. CASE RecordFailure(a)
    <3>1. call[a].stamp \in Nat
      BY <1>2 DEF Call
    <3>2. state' = [state EXCEPT !.attempts = @ + 1, !.failures = @ + 1,
                                 !.lastAt = call[a].stamp, !.status = "failed"]
      BY <1>1, <2>2 DEF RecordFailure, Open
    <3>3. state' = [attempts |-> state.attempts + 1, successes |-> state.successes,
                    failures |-> state.failures + 1, lastAt |-> call[a].stamp, status |-> "failed",
                    history |-> state.history]
      BY <1>2, <3>2 DEF ControlState
    <3> QED BY <1>2, <3>1, <3>3 DEF ControlState
  <2> QED BY <2>1, <2>2
<1>7. TypeOK'
  BY <1>1, <1>4, <1>6, ReturnTypes DEF TypeOK, clocks, overlays, worker
<1>8. \A b \in Actors : b # a => pc[b] \notin Holding
  BY <1>1, ActorsAssumption DEF Exclusive, Holding
<1>9. \A b \in Actors : pc'[b] \notin Holding
  BY <1>1, <1>8, ReturnTypes DEF Holding, InFlight
<1> QED BY <1>1, <1>4, <1>5, <1>7, <1>9 DEF Exclusive, InFlightFits, Holding

\* A call that ends without a record, and what the environment does.
LEMMA OthersGuarded ==
  ASSUME Guarded,
         (\E a \in Actors : OutcomeNotWritten(a) \/ ProcessExits(a)) \/ Tick \/ ClockSetBack
  PROVE  Guarded'
<1> USE DEF Guarded
<1>1. ASSUME NEW a \in Actors, OutcomeNotWritten(a) PROVE Guarded'
  <2>1. Return(a) /\ UNCHANGED <<clocks, disk, attempts>>
    BY <1>1 DEF OutcomeNotWritten
  <2>2. TypeOK'
    BY <2>1, ReturnTypes DEF TypeOK, clocks, disk, overlays, worker
  <2>3. Exclusive' /\ InFlightFits'
    BY <2>1, ReturnTypes DEF Exclusive, InFlightFits, Open, Holding, InFlight, disk
  <2> QED BY <2>2, <2>3
<1>2. ASSUME NEW a \in Actors, ProcessExits(a) PROVE Guarded'
  <2>1. NoCall \in Call
    BY DEF NoCall, Call, Products, InitialState, ControlState
  <2>2. TypeOK'
    BY <1>2, <2>1 DEF ProcessExits, LeaveCall, TypeOK, Locations, clocks, disk, overlays
  <2>3. Exclusive' /\ InFlightFits'
    BY <1>2 DEF ProcessExits, LeaveCall, TypeOK, Exclusive, InFlightFits, Open, Holding, InFlight, disk
  <2> QED BY <2>2, <2>3
<1>3. CASE Tick
  BY <1>3 DEF Tick, TypeOK, Exclusive, InFlightFits, Open, disk, overlays, worker
<1>4. CASE ClockSetBack
  <2>1. back' \in 0 .. now
    BY <1>4 DEF ClockSetBack, Wall, TypeOK
  <2> QED BY <1>4, <2>1 DEF ClockSetBack, TypeOK, Exclusive, InFlightFits, Open, disk, overlays, worker
<1> QED BY <1>1, <1>2, <1>3, <1>4

-----------------------------------------------------------------------------
(* The invariant of the lock.                                              *)

LEMMA NextGuarded == Guarded /\ [Next]_vars => Guarded'
<1> SUFFICES ASSUME Guarded, [Next]_vars PROVE Guarded'
  OBVIOUS
<1>1. CASE UNCHANGED vars
  BY <1>1 DEF Guarded, TypeOK, Exclusive, InFlightFits, Open, vars, clocks, disk, overlays, worker
<1>2. CASE \E w \in Workers : Ensure(w) \/ Plan(w) \/ Wake(w)
  BY <1>2, EarlyStepsGuarded
<1>3. CASE \E o \in Operators : Click(o)
  BY <1>3, EarlyStepsGuarded
<1>4. ASSUME NEW a \in Actors, Refresh(a) PROVE Guarded'
  BY <1>4, EarlyStepsGuarded, FlightStepsGuarded, RecordGuarded, OthersGuarded DEF Refresh
<1>5. CASE (\E a \in Actors : ProcessExits(a)) \/ Tick \/ ClockSetBack
  BY <1>5, OthersGuarded
<1> QED BY <1>1, <1>2, <1>3, <1>4, <1>5 DEF Next

LEMMA InitGuarded == Init => Guarded
<1> SUFFICES ASSUME Init PROVE Guarded
  OBVIOUS
<1>1. \A a \in Actors : pc[a] = "off"
  BY DEF Init
<1> QED BY <1>1, InitTypes DEF Guarded, Exclusive, InFlightFits, Holding, InFlight

LEMMA AlwaysGuarded == Spec => []Guarded
BY InitGuarded, NextGuarded, PTL DEF Spec

\* Every type is kept: the files, the workers and the locals of every call.
THEOREM TypeCorrect == Spec => []TypeOK
<1>1. Guarded => TypeOK
  BY DEF Guarded
<1> QED BY <1>1, AlwaysGuarded, PTL

\* Only a call that starts, and one whose outcome is recorded, touch the history
\* of attempts or the state file.
LEMMA StepShapes ==
  ASSUME Guarded, [Next]_vars
  PROVE  \/ UNCHANGED <<state, attempts>>
         \/ \E a \in Actors : Begin(a) \/ RecordSuccess(a) \/ RecordFailure(a)
<1>1. ASSUME NEW w \in Workers, Ensure(w) \/ Plan(w) \/ Wake(w) PROVE UNCHANGED <<state, attempts>>
  BY <1>1 DEF Ensure, Plan, Wake, disk
<1>2. ASSUME NEW o \in Operators, Click(o) PROVE UNCHANGED <<state, attempts>>
  BY <1>2 DEF Click, disk
<1>3. ASSUME NEW a \in Actors, Refresh(a), ~Begin(a), ~RecordSuccess(a), ~RecordFailure(a)
      PROVE  UNCHANGED <<state, attempts>>
  BY <1>3 DEF Refresh, ReadClock, AcquireLock, RefuseBusy, CallRaises, RefuseEarly, Acquire,
              RefreshFails, PublishLatest, PublishLive, OutcomeNotWritten, disk
<1>4. ASSUME NEW a \in Actors, ProcessExits(a) PROVE UNCHANGED <<state, attempts>>
  BY <1>4 DEF ProcessExits, disk
<1>5. Tick \/ ClockSetBack \/ UNCHANGED vars => UNCHANGED <<state, attempts>>
  BY DEF Tick, ClockSetBack, vars, disk
<1> QED BY <1>1, <1>2, <1>3, <1>4, <1>5 DEF Next

\* An attempt that starts joins none of the reported ones.
LEMMA BeginHistory ==
  ASSUME Guarded, NEW a \in Actors, Begin(a)
  PROVE  /\ With("succeeded")' = With("succeeded") /\ With("failed")' = With("failed")
         /\ Len(attempts') = Len(attempts) + 1
         /\ attempts'[Len(attempts) + 1].at = call[a].stamp
         /\ \A i \in 1 .. Len(attempts) : attempts'[i] = attempts[i]
         /\ state' = state /\ Due(a) /\ call[a].stamp \in Nat
<1>1. attempts \in Seq(Attempt) /\ Len(attempts) \in Nat /\ call[a].stamp \in Nat
  BY DEF Guarded, TypeOK, Call
<1>2. attempts' = Append(attempts, [at |-> call[a].stamp, outcome |-> "open"])
  BY DEF Begin
<1>3. /\ Len(attempts') = Len(attempts) + 1 /\ DOMAIN attempts' = 1 .. Len(attempts) + 1
      /\ attempts'[Len(attempts) + 1] = [at |-> call[a].stamp, outcome |-> "open"]
      /\ \A i \in 1 .. Len(attempts) : attempts'[i] = attempts[i]
  BY <1>1, <1>2
<1>4. DOMAIN attempts = 1 .. Len(attempts)
  BY <1>1
<1>5. With("succeeded")' = With("succeeded") /\ With("failed")' = With("failed")
  BY <1>1, <1>3, <1>4 DEF With
<1> QED BY <1>1, <1>3, <1>5 DEF Begin, disk

\* Recording an outcome moves the last attempt, and it alone, to the reported ones.
LEMMA RecordHistory ==
  ASSUME Guarded, NEW a \in Actors, RecordSuccess(a) \/ RecordFailure(a)
  PROVE  /\ Len(attempts) \in Nat \ {0} /\ Len(attempts') = Len(attempts)
         /\ call[a].number = Len(attempts) /\ attempts[Len(attempts)].at = call[a].stamp
         /\ Len(attempts) \notin Reported
         /\ \A i \in 1 .. Len(attempts) : attempts'[i].at = attempts[i].at
         /\ RecordSuccess(a) => /\ With("succeeded")' = With("succeeded") \union {Len(attempts)}
                                /\ With("failed")' = With("failed")
         /\ RecordFailure(a) => /\ With("failed")' = With("failed") \union {Len(attempts)}
                                /\ With("succeeded")' = With("succeeded")
         /\ state.lastAt # NoTime => call[a].stamp >= state.lastAt + MinInterval
         /\ call[a].stamp \in Nat
         /\ state'.lastAt = call[a].stamp
<1> DEFINE n == Len(attempts)
<1>1. /\ attempts \in Seq(Attempt) /\ n \in Nat /\ call[a].stamp \in Nat
      /\ state \in ControlState
  BY DEF Guarded, TypeOK, Call
<1>2. /\ Open(a) /\ Len(attempts') = n
      /\ attempts'[n] = [at |-> call[a].stamp, outcome |-> Outcome(a)]
      /\ \A i \in 1 .. n : i # n => attempts'[i] = attempts[i]
      /\ Guarded'
  BY RecordGuarded
<1>3. n # 0 /\ call[a].number = n /\ attempts[n] = [at |-> call[a].stamp, outcome |-> "open"]
  BY <1>2 DEF Open
<1>4. DOMAIN attempts = 1 .. n /\ DOMAIN attempts' = 1 .. n
  BY <1>1, <1>2 DEF Guarded, TypeOK
<1>5. /\ RecordSuccess(a) => Outcome(a) = "succeeded"
      /\ RecordFailure(a) => Outcome(a) = "failed"
  BY DEF RecordSuccess, RecordFailure, Outcome
<1> HIDE DEF n
<1>6. n \notin Reported
  BY <1>3 DEF Reported, With
<1>7. RecordSuccess(a) => /\ With("succeeded")' = With("succeeded") \union {n}
                          /\ With("failed")' = With("failed")
  BY <1>1, <1>2, <1>3, <1>4, <1>5 DEF With
<1>8. RecordFailure(a) => /\ With("failed")' = With("failed") \union {n}
                          /\ With("succeeded")' = With("succeeded")
  BY <1>1, <1>2, <1>3, <1>4, <1>5 DEF With
<1>9. state'.lastAt = call[a].stamp
  <2>1. call[a].view = state
    BY <1>2 DEF Open
  <2> QED BY <1>1, <2>1 DEF RecordSuccess, RecordFailure, ControlState
<1>10. \A i \in 1 .. n : attempts'[i].at = attempts[i].at
  BY <1>2, <1>3
<1>11. state.lastAt # NoTime => call[a].stamp >= state.lastAt + MinInterval
  BY <1>2 DEF Open
<1> QED BY <1>1, <1>2, <1>3, <1>6, <1>7, <1>8, <1>9, <1>10, <1>11 DEF n

-----------------------------------------------------------------------------
(* The minute between recorded attempts.                                   *)

LEMMA HistoryTypes ==
  ASSUME Guarded
  PROVE  /\ attempts \in Seq(Attempt) /\ DOMAIN attempts = 1 .. Len(attempts)
         /\ Len(attempts) \in Nat /\ MinInterval \in Nat
         /\ \A i \in 1 .. Len(attempts) : attempts[i].at \in Nat
         /\ state \in ControlState /\ NoTime \notin Nat
         /\ Reported \subseteq 1 .. Len(attempts)
<1>1. attempts \in Seq(Attempt) /\ state \in ControlState
  BY DEF Guarded, TypeOK
<1>2. DOMAIN attempts = 1 .. Len(attempts) /\ Len(attempts) \in Nat
  BY <1>1
<1>3. \A i \in 1 .. Len(attempts) : attempts[i] \in Attempt
  BY <1>1
<1>4. \A i \in 1 .. Len(attempts) : attempts[i].at \in Nat
  BY <1>3 DEF Attempt
<1>5. Reported \subseteq 1 .. Len(attempts)
  BY <1>2 DEF Reported, With
<1> QED BY <1>1, <1>2, <1>4, <1>5, BoundsAssumption, NoTimeAssumption

\* The file tells of the latest of the reported attempts.
Told == \A i \in Reported : state.lastAt # NoTime /\ attempts[i].at <= state.lastAt

Spaced == Told /\ RecordedSpaced

LEMMA SpacedPreserved == Guarded /\ Spaced /\ [Next]_vars => Spaced'
<1> SUFFICES ASSUME Guarded, Spaced, [Next]_vars PROVE Spaced'
  OBVIOUS
<1> USE DEF Spaced
<1>0. /\ attempts \in Seq(Attempt) /\ DOMAIN attempts = 1 .. Len(attempts)
      /\ Len(attempts) \in Nat /\ MinInterval \in Nat
      /\ \A i \in 1 .. Len(attempts) : attempts[i].at \in Nat
      /\ state \in ControlState /\ NoTime \notin Nat
  BY HistoryTypes
<1>1. CASE UNCHANGED <<state, attempts>>
  BY <1>1 DEF Told, RecordedSpaced, Reported, With
<1>2. ASSUME NEW a \in Actors, Begin(a) PROVE Spaced'
  <2>1. /\ With("succeeded")' = With("succeeded") /\ With("failed")' = With("failed")
        /\ Len(attempts') = Len(attempts) + 1
        /\ attempts'[Len(attempts) + 1].at = call[a].stamp
        /\ \A i \in 1 .. Len(attempts) : attempts'[i] = attempts[i]
        /\ state' = state /\ Due(a) /\ call[a].stamp \in Nat
    BY <1>2, BeginHistory
  <2>2. Reported' = Reported /\ Reported \subseteq 1 .. Len(attempts)
    BY <1>0, <2>1 DEF Reported, With
  <2>3. DOMAIN attempts' = 1 .. Len(attempts) + 1
    BY <1>2, <1>0 DEF Begin
  <2>4. Told'
    BY <2>1, <2>2 DEF Told
  <2>5. ASSUME NEW i \in Reported, NEW j \in DOMAIN attempts', i < j
        PROVE  attempts'[j].at >= attempts'[i].at + MinInterval
    <3>1. CASE j \in 1 .. Len(attempts)
      BY <1>0, <2>1, <2>2, <2>5, <3>1 DEF RecordedSpaced
    <3>2. CASE j = Len(attempts) + 1
      <4>1. /\ state.lastAt # NoTime /\ attempts[i].at <= state.lastAt
            /\ call[a].stamp >= state.lastAt + MinInterval /\ state.lastAt \in Nat
        BY <1>0, <2>1 DEF Told, Due, ControlState
      <4> QED BY <1>0, <2>1, <2>2, <3>2, <4>1
    <3> QED BY <1>0, <2>3, <3>1, <3>2
  <2> QED BY <2>2, <2>4, <2>5 DEF RecordedSpaced
<1>3. ASSUME NEW a \in Actors, RecordSuccess(a) \/ RecordFailure(a) PROVE Spaced'
  <2> DEFINE n == Len(attempts)
  <2>1. /\ n \in Nat \ {0} /\ Len(attempts') = n /\ attempts[n].at = call[a].stamp
        /\ \A i \in 1 .. n : attempts'[i].at = attempts[i].at
        /\ Reported' = Reported \union {n}
        /\ state.lastAt # NoTime => call[a].stamp >= state.lastAt + MinInterval
        /\ call[a].stamp \in Nat /\ state'.lastAt = call[a].stamp
    BY <1>3, RecordHistory DEF Reported
  <2>2. Reported \subseteq 1 .. n
    BY <1>0 DEF Reported, With
  <2>3. DOMAIN attempts' = 1 .. n
    BY <1>3, RecordGuarded, <2>1 DEF Guarded, TypeOK
  <2>4. \A i \in Reported : attempts[i].at <= call[a].stamp
    <3>1. SUFFICES ASSUME NEW i \in Reported PROVE attempts[i].at <= call[a].stamp
      OBVIOUS
    <3>2. /\ state.lastAt # NoTime /\ attempts[i].at <= state.lastAt /\ state.lastAt \in Nat
          /\ attempts[i].at \in Nat
      BY <1>0, <2>2 DEF Told, ControlState
    <3> QED BY <1>0, <2>1, <3>2
  <2>5. Told'
    <3>1. SUFFICES ASSUME NEW i \in Reported \union {n}
                   PROVE  state'.lastAt # NoTime /\ attempts'[i].at <= state'.lastAt
      BY <2>1 DEF Told
    <3>2. i \in 1 .. n /\ attempts'[i].at = attempts[i].at
      BY <2>1, <2>2
    <3>3. attempts[i].at <= call[a].stamp
      BY <2>1, <2>4
    <3> QED BY <1>0, <2>1, <3>2, <3>3
  <2>6. RecordedSpaced'
    <3>1. SUFFICES ASSUME NEW i \in Reported \union {n}, NEW j \in 1 .. n, i < j
                   PROVE  attempts'[j].at >= attempts'[i].at + MinInterval
      BY <2>1, <2>3 DEF RecordedSpaced
    <3>2. i \in Reported /\ i \in 1 .. n /\ j \in DOMAIN attempts
      BY <1>0, <2>1, <2>2, <3>1
    <3> QED BY <2>1, <3>1, <3>2 DEF RecordedSpaced
  <2> QED BY <2>5, <2>6
<1> QED BY <1>1, <1>2, <1>3, StepShapes

LEMMA AlwaysSpaced == Spec => []Spaced
<1>1. Init => Spaced
  BY DEF Init, Spaced, Told, RecordedSpaced, Reported, With
<1> QED BY <1>1, AlwaysGuarded, SpacedPreserved, PTL DEF Spec

\* The minimum interval holds off from every attempt on record, over restarts
\* and clock changes.
THEOREM MinuteKept == Spec => []RecordedSpaced
<1>1. Spaced => RecordedSpaced
  BY DEF Spaced
<1> QED BY <1>1, AlwaysSpaced, PTL

-----------------------------------------------------------------------------
(* The state file is the account of what was reported.                     *)

LEMMA LedgerPreserved ==
  Guarded /\ Spaced /\ LedgerAccounts /\ [Next]_vars => LedgerAccounts'
<1> SUFFICES ASSUME Guarded, Spaced, LedgerAccounts, [Next]_vars PROVE LedgerAccounts'
  OBVIOUS
<1>0. /\ attempts \in Seq(Attempt) /\ DOMAIN attempts = 1 .. Len(attempts)
      /\ Len(attempts) \in Nat /\ MinInterval \in Nat
      /\ \A i \in 1 .. Len(attempts) : attempts[i].at \in Nat
      /\ state \in ControlState /\ NoTime \notin Nat
  BY HistoryTypes
<1>1. CASE UNCHANGED <<state, attempts>>
  BY <1>1 DEF LedgerAccounts, Kept, Won, SummaryOf, Reported, With
<1>2. ASSUME NEW a \in Actors, Begin(a) PROVE LedgerAccounts'
  <2>1. /\ With("succeeded")' = With("succeeded") /\ With("failed")' = With("failed")
        /\ \A i \in 1 .. Len(attempts) : attempts'[i] = attempts[i]
        /\ state' = state
    BY <1>2, BeginHistory
  <2>2. Reported' = Reported /\ Reported \subseteq 1 .. Len(attempts)
    BY <1>0, <2>1 DEF Reported, With
  <2>3. With("succeeded") \subseteq 1 .. Len(attempts)
    BY <1>0 DEF With
  <2>4. Won' = Won
    BY <2>1, <2>3 DEF Won, SummaryOf
  <2>5. Kept' = Kept
    BY <2>4 DEF Kept
  <2> QED BY <2>1, <2>2, <2>4, <2>5 DEF LedgerAccounts
<1>3. ASSUME NEW a \in Actors, RecordSuccess(a) \/ RecordFailure(a) PROVE LedgerAccounts'
  <2> DEFINE n == Len(attempts)
  <2> DEFINE new == [at |-> call[a].stamp, attempt |-> n]
  <2>1. /\ n \in Nat \ {0} /\ Len(attempts') = n /\ call[a].number = n
        /\ attempts[n].at = call[a].stamp /\ n \notin Reported
        /\ \A i \in 1 .. n : attempts'[i].at = attempts[i].at
        /\ Reported' = Reported \union {n}
        /\ call[a].stamp \in Nat /\ state'.lastAt = call[a].stamp
        /\ state.lastAt # NoTime => call[a].stamp >= state.lastAt + MinInterval
    BY <1>3, RecordHistory DEF Reported
  <2>2. Reported \subseteq 1 .. n /\ With("succeeded") \subseteq Reported /\ With("failed") \subseteq Reported
    BY <1>0 DEF Reported, With
  <2>3. call[a].view = state
    BY <1>3, RecordGuarded DEF Open
  <2>4. attempts'[n] = [at |-> call[a].stamp, outcome |-> Outcome(a)]
    BY <1>3, RecordGuarded
  <2>5. IsFiniteSet(With("succeeded")) /\ IsFiniteSet(With("failed"))
    <3>1. IsFiniteSet(1 .. n)
      BY <1>0, FS_Interval
    <3>2. With("succeeded") \subseteq 1 .. n /\ With("failed") \subseteq 1 .. n
      BY <2>2
    <3> QED BY <3>1, <3>2, FS_Subset
  <2>6. IsFiniteSet(Won) /\ Won \subseteq Summary
    <3>1. IsFiniteSet(Won)
      <4> DEFINE f == [i \in With("succeeded") |-> SummaryOf(i)]
      <4>1. Won = {f[i] : i \in With("succeeded")}
        BY DEF Won
      <4>2. f \in Surjection(With("succeeded"), Won)
        BY <4>1, Zenon DEF Surjection
      <4> QED BY <2>5, <4>2, FS_Surjection
    <3>2. \A i \in With("succeeded") : SummaryOf(i) \in Summary
      <4>1. \A i \in With("succeeded") : i \in 1 .. n
        BY <2>2
      <4>2. \A i \in 1 .. n : i \in Nat /\ attempts[i].at \in Nat
        BY <1>0
      <4> QED BY <4>1, <4>2 DEF SummaryOf, Summary
    <3> QED BY <3>1, <3>2 DEF Won
  <2>7. \A t \in Won : t.at <= new.at /\ t.attempt < n
    <3>1. SUFFICES ASSUME NEW i \in With("succeeded")
                   PROVE  attempts[i].at <= call[a].stamp /\ i < n
      BY DEF Won, SummaryOf
    <3>2. i \in 1 .. n /\ i # n /\ i \in Reported
      BY <2>1, <2>2
    <3>3. state.lastAt # NoTime /\ attempts[i].at <= state.lastAt /\ state.lastAt \in Nat /\ attempts[i].at \in Nat
      BY <1>0, <3>2 DEF Spaced, Told, ControlState
    <3>4. attempts[i].at <= call[a].stamp
      BY <1>0, <2>1, <3>3
    <3>5. i < n
      <4>1. n \in Nat /\ i \in 1 .. n /\ i # n
        BY <1>0, <3>2
      <4> HIDE DEF n
      <4> QED BY <4>1
    <3> QED BY <3>4, <3>5
  <2>8. \A i \in 1 .. n : SummaryOf(i)' = SummaryOf(i)
    BY <2>1 DEF SummaryOf
  <2>9. Reported' # {}
    BY <2>1
  <2>10. \A i \in Reported' : (\A j \in Reported' : j <= i) => i = n
    <3>1. SUFFICES ASSUME NEW i \in Reported \union {n}, n <= i PROVE i = n
      BY <2>1
    <3>2. i \in 1 .. n
      BY <2>1, <2>2
    <3>3. n \in Nat
      BY <1>0
    <3> HIDE DEF n
    <3> QED BY <3>1, <3>2, <3>3
  <2>11. CASE RecordSuccess(a)
    <3>1. With("succeeded")' = With("succeeded") \union {n} /\ With("failed")' = With("failed")
      BY <2>11, RecordHistory
    <3>2. Won' = Won \union {new}
      <4>1. SummaryOf(n) = new
        BY <2>1 DEF SummaryOf
      <4> HIDE DEF new
      <4>2. With("succeeded")' \subseteq 1 .. n
        <5>1. n \in 1 .. n
          BY <2>1
        <5> QED BY <2>2, <3>1, <5>1
      <4>3. Won' = {SummaryOf(i) : i \in With("succeeded")'}
        BY <2>8, <4>2 DEF Won
      <4> HIDE DEF n
      <4> QED BY <3>1, <4>1, <4>3 DEF Won
    <3>3. new \notin Won /\ new \in Summary
      BY <1>0, <2>1, <2>7 DEF Summary
    <3>4. Cardinality(Won') = Cardinality(Won) + 1
      <4> HIDE DEF new
      <4> QED BY <2>6, <3>2, <3>3, FS_AddElement
    <3>5. BoundedHistory(Kept \union {new}, call[a].stamp) = Kept'
      <4>1. \A t, u \in Won : t.attempt < u.attempt => t.at <= u.at
        <5>1. SUFFICES ASSUME NEW i \in With("succeeded"), NEW j \in With("succeeded"), i < j
                       PROVE  attempts[i].at <= attempts[j].at
          BY DEF Won, SummaryOf
        <5>2. i \in Reported /\ j \in DOMAIN attempts /\ attempts[i].at \in Nat /\ attempts[j].at \in Nat
          BY <1>0, <2>2
        <5>3. attempts[j].at >= attempts[i].at + MinInterval
          BY <5>1, <5>2 DEF Spaced, RecordedSpaced
        <5> QED BY <1>0, <5>2, <5>3
      <4>2. \A t \in Won : t.at <= new.at /\ t.attempt < new.attempt
        BY <2>7
      <4>3. new.at = call[a].stamp
        OBVIOUS
      <4> HIDE DEF new
      <4>4. BoundedHistory(KeptOf(Won) \union {new}, new.at) = KeptOf(Won \union {new})
        BY <2>6, <3>3, <4>1, <4>2, TrimmingComposes
      <4> QED BY <3>2, <4>3, <4>4 DEF Kept, KeptOf
    <3>6. /\ state'.successes = state.successes + 1 /\ state'.failures = state.failures
          /\ state'.attempts = state.attempts + 1 /\ state'.status = "succeeded"
          /\ state'.history = BoundedHistory(state.history \union {new}, call[a].stamp)
      BY <1>0, <2>1, <2>3, <2>11 DEF RecordSuccess, ControlState
    <3>7. Outcome(a) = "succeeded"
      BY <2>11 DEF RecordSuccess, Outcome
    <3>8. state.history = Kept /\ state.successes = Cardinality(Won)
          /\ state.failures = Cardinality(With("failed")) /\ state.attempts = state.successes + state.failures
      BY DEF LedgerAccounts
    <3>9. state.successes \in Nat /\ state.failures \in Nat
      BY <1>0 DEF ControlState
    <3>10. /\ state'.successes = Cardinality(Won') /\ state'.history = Kept'
           /\ state'.failures = Cardinality(With("failed")')
           /\ state'.attempts = state'.successes + state'.failures
      BY <3>1, <3>4, <3>5, <3>6, <3>8, <3>9
    <3>11. \A i \in Reported' : (\A j \in Reported' : j <= i) =>
             state'.lastAt = attempts'[i].at /\ state'.status = attempts'[i].outcome
      BY <2>1, <2>4, <2>10, <3>6, <3>7
    <3> QED BY <2>9, <3>10, <3>11 DEF LedgerAccounts
  <2>12. CASE RecordFailure(a)
    <3>1. With("failed")' = With("failed") \union {n} /\ With("succeeded")' = With("succeeded")
      BY <2>12, RecordHistory
    <3>2. Won' = Won
      <4>1. With("succeeded") \subseteq 1 .. n
        BY <2>2
      <4> QED BY <2>8, <3>1, <4>1 DEF Won
    <3>3. Kept' = Kept
      BY <3>2 DEF Kept
    <3>4. Cardinality(With("failed")') = Cardinality(With("failed")) + 1
      BY <2>1, <2>2, <2>5, <3>1, FS_AddElement
    <3>6. /\ state'.successes = state.successes /\ state'.failures = state.failures + 1
          /\ state'.attempts = state.attempts + 1 /\ state'.status = "failed"
          /\ state'.history = state.history
      BY <1>0, <2>1, <2>3, <2>12 DEF RecordFailure, ControlState
    <3>7. Outcome(a) = "failed"
      BY <2>12 DEF RecordFailure, Outcome
    <3>8. state.history = Kept /\ state.successes = Cardinality(Won)
          /\ state.failures = Cardinality(With("failed")) /\ state.attempts = state.successes + state.failures
      BY DEF LedgerAccounts
    <3>9. state.successes \in Nat /\ state.failures \in Nat
      BY <1>0 DEF ControlState
    <3>10. /\ state'.successes = Cardinality(Won') /\ state'.history = Kept'
           /\ state'.failures = Cardinality(With("failed")')
           /\ state'.attempts = state'.successes + state'.failures
      BY <3>2, <3>3, <3>4, <3>6, <3>8, <3>9
    <3>11. \A i \in Reported' : (\A j \in Reported' : j <= i) =>
             state'.lastAt = attempts'[i].at /\ state'.status = attempts'[i].outcome
      BY <2>1, <2>4, <2>10, <3>6, <3>7
    <3> QED BY <2>9, <3>10, <3>11 DEF LedgerAccounts
  <2> QED BY <1>3, <2>11, <2>12
<1> QED BY <1>1, <1>2, <1>3, StepShapes

LEMMA InitAccounts == Init => LedgerAccounts
<1> SUFFICES ASSUME Init PROVE LedgerAccounts
  OBVIOUS
<1>1. With("succeeded") = {} /\ With("failed") = {}
  BY DEF Init, With
<1>2. Won = {} /\ Kept = {} /\ Reported = {}
  BY <1>1 DEF Won, Kept, Reported
<1>3. state = InitialState
  BY DEF Init
<1>4. Cardinality(Won) = 0 /\ Cardinality(With("failed")) = 0
  BY <1>1, <1>2, FS_EmptySet
<1>5. InitialState.successes = 0 /\ InitialState.failures = 0 /\ InitialState.attempts = 0
      /\ InitialState.history = {}
  BY DEF InitialState
<1> QED BY <1>2, <1>3, <1>4, <1>5 DEF LedgerAccounts

\* The state file accounts for every reported attempt and for no other.
THEOREM LedgerTrue == Spec => []LedgerAccounts
BY InitAccounts, LedgerPreserved, AlwaysGuarded, AlwaysSpaced, PTL DEF Spec

-----------------------------------------------------------------------------
(* The overlays.                                                           *)

\* While a refresh publishes, the first overlay, then both, are its own.
OverlaysFit ==
  /\ latest <= Len(attempts)
  /\ \A a \in Actors : pc[a] \in {"publishing", "published"} => latest = call[a].number
  /\ \A a \in Actors : pc[a] = "published" => live = call[a].number

OverlaysInd == OverlaysFit /\ OverlaysBackLedger

LEMMA OverlaysPreserved == Guarded /\ OverlaysInd /\ [Next]_vars => OverlaysInd'
<1> SUFFICES ASSUME Guarded, OverlaysInd, [Next]_vars PROVE OverlaysInd'
  OBVIOUS
<1>0. /\ Len(attempts) \in Nat /\ latest \in Nat /\ live \in Nat
      /\ live <= latest /\ latest <= Len(attempts)
      /\ \A i \in With("succeeded") : i \in 1 .. Len(attempts) /\ i <= live
  BY HistoryTypes DEF Guarded, TypeOK, OverlaysInd, OverlaysFit, OverlaysBackLedger, Reported
<1>1. \A a, b \in Actors : pc[a] \in Holding /\ pc[b] \in Holding => a = b
  BY DEF Guarded, Exclusive
<1>2. \A a \in Actors : pc[a] \in InFlight => call[a].number = Len(attempts)
  BY DEF Guarded, InFlightFits, Open
\* What is left to show once the three inequalities are kept.
<1>3. (/\ live' <= latest' /\ latest' <= Len(attempts') /\ live' \in Nat /\ latest' \in Nat
       /\ Len(attempts') \in Nat /\ \A i \in With("succeeded")' : i <= live')
      => OverlaysBackLedger'
  BY DEF OverlaysBackLedger
\* A step that touches neither the overlays nor the attempts, and brings nobody
\* closer to the end of its publication.
<1>4. ASSUME UNCHANGED <<overlays, attempts>>,
             \A a \in Actors : pc'[a] \in {"publishing", "published"} => pc'[a] = pc[a] /\ call'[a] = call[a]
      PROVE  OverlaysInd'
  BY <1>4 DEF OverlaysInd, OverlaysFit, OverlaysBackLedger, overlays, With
<1>5. ASSUME NEW w \in Workers, Ensure(w) \/ Plan(w) \/ Wake(w) PROVE OverlaysInd'
  BY <1>4, <1>5 DEF Ensure, Plan, Wake, Goto, disk, Guarded, TypeOK
<1>6. ASSUME NEW o \in Operators, Click(o) PROVE OverlaysInd'
  BY <1>4, <1>6 DEF Click, Goto, disk, Guarded, TypeOK
<1>7. ASSUME NEW a \in Actors, ReadClock(a) \/ AcquireLock(a) \/ Acquire(a) \/ RefreshFails(a)
      PROVE  OverlaysInd'
  BY <1>4, <1>7 DEF ReadClock, AcquireLock, Acquire, RefreshFails, Goto, disk, Guarded, TypeOK
<1>8. ASSUME NEW a \in Actors, Return(a), UNCHANGED <<overlays, attempts>> PROVE OverlaysInd'
  BY <1>4, <1>8, ReturnTypes DEF Guarded
<1>9. ASSUME NEW a \in Actors, ProcessExits(a) PROVE OverlaysInd'
  <2>1. \A b \in Actors : b # a => pc'[b] = pc[b] /\ call'[b] = call[b]
    BY <1>9 DEF ProcessExits, LeaveCall, Guarded, TypeOK
  <2>2. pc'[a] = "off"
    BY <1>9 DEF ProcessExits, Guarded, TypeOK
  <2> QED BY <1>4, <1>9, <2>1, <2>2 DEF ProcessExits, disk
<1>10. CASE Tick \/ ClockSetBack \/ UNCHANGED vars
  BY <1>4, <1>10 DEF Tick, ClockSetBack, vars, disk
<1>11. ASSUME NEW a \in Actors, Begin(a) PROVE OverlaysInd'
  <2>1. With("succeeded")' = With("succeeded") /\ Len(attempts') = Len(attempts) + 1
    BY <1>11, BeginHistory
  <2>2. latest' = latest /\ live' = live
    BY <1>11 DEF Begin, disk, overlays
  <2>3. \A b \in Actors : pc'[b] \notin {"publishing", "published"}
    BY <1>1, <1>11 DEF Begin, Goto, Holding, InFlight, Guarded, TypeOK
  <2>4. OverlaysBackLedger'
    BY <1>0, <1>3, <2>1, <2>2
  <2> QED BY <1>0, <2>1, <2>2, <2>3, <2>4 DEF OverlaysInd, OverlaysFit
<1>12. ASSUME NEW a \in Actors, PublishLatest(a) PROVE OverlaysInd'
  <2>1. /\ latest' = Len(attempts) /\ live' = live /\ attempts' = attempts /\ call' = call
        /\ pc'[a] = "publishing" /\ \A b \in Actors : b # a => pc'[b] = pc[b]
    BY <1>2, <1>12 DEF PublishLatest, Goto, InFlight, Guarded, TypeOK
  <2>2. pc[a] = "asking" /\ \A b \in Actors : b # a => pc'[b] \notin {"publishing", "published"}
    BY <1>1, <1>12, <2>1 DEF PublishLatest, Goto, Holding, InFlight
  <2>3. With("succeeded")' = With("succeeded")
    BY <2>1 DEF With
  <2>4. OverlaysBackLedger'
    BY <1>0, <1>3, <2>1, <2>3
  <2>5. call[a].number = Len(attempts)
    BY <1>2, <2>2 DEF InFlight
  <2> QED BY <1>0, <2>1, <2>2, <2>4, <2>5 DEF OverlaysInd, OverlaysFit
<1>13. ASSUME NEW a \in Actors, PublishLive(a) PROVE OverlaysInd'
  <2>1. /\ live' = Len(attempts) /\ latest' = latest /\ attempts' = attempts /\ call' = call
        /\ pc'[a] = "published" /\ \A b \in Actors : b # a => pc'[b] = pc[b]
    BY <1>2, <1>13 DEF PublishLive, Goto, InFlight, Guarded, TypeOK
  <2>2. pc[a] = "publishing" /\ \A b \in Actors : b # a => pc'[b] \notin {"publishing", "published"}
    BY <1>1, <1>13, <2>1 DEF PublishLive, Goto, Holding, InFlight
  <2>3. With("succeeded")' = With("succeeded")
    BY <2>1 DEF With
  <2>4. call[a].number = Len(attempts) /\ latest = Len(attempts)
    BY <1>2, <2>2 DEF InFlight, OverlaysInd, OverlaysFit
  <2>5. OverlaysBackLedger'
    BY <1>0, <1>3, <2>1, <2>3, <2>4
  <2> QED BY <1>0, <2>1, <2>2, <2>4, <2>5 DEF OverlaysInd, OverlaysFit
<1>14. ASSUME NEW a \in Actors, RecordSuccess(a) \/ RecordFailure(a) PROVE OverlaysInd'
  <2>1. latest' = latest /\ live' = live /\ Len(attempts') = Len(attempts)
    BY <1>14, RecordHistory DEF RecordSuccess, RecordFailure, overlays
  <2>2. \A b \in Actors : pc'[b] \notin {"publishing", "published"}
    BY <1>14, RecordGuarded DEF InFlight
  <2>3. \A i \in With("succeeded")' : i <= live
    <3>1. CASE RecordSuccess(a)
      <4>1. With("succeeded")' = With("succeeded") \union {Len(attempts)}
        BY <3>1, RecordHistory
      <4>2. live = Len(attempts)
        BY <1>2, <3>1 DEF RecordSuccess, InFlight, OverlaysInd, OverlaysFit
      <4> QED BY <1>0, <4>1, <4>2
    <3>2. CASE RecordFailure(a)
      BY <1>0, <3>2, RecordHistory
    <3> QED BY <1>14, <3>1, <3>2
  <2>4. OverlaysBackLedger'
    BY <1>0, <1>3, <2>1, <2>3
  <2> QED BY <1>0, <2>1, <2>2, <2>4 DEF OverlaysInd, OverlaysFit
<1>15. ASSUME NEW a \in Actors, Refresh(a) PROVE OverlaysInd'
  <2>1. CASE RefuseBusy(a) \/ CallRaises(a) \/ RefuseEarly(a) \/ OutcomeNotWritten(a)
    BY <1>8, <2>1 DEF RefuseBusy, CallRaises, RefuseEarly, OutcomeNotWritten, disk
  <2> QED BY <1>7, <1>11, <1>12, <1>13, <1>14, <1>15, <2>1 DEF Refresh
<1> QED BY <1>5, <1>6, <1>9, <1>10, <1>15 DEF Next

LEMMA InitOverlays == Init => OverlaysInd
<1> SUFFICES ASSUME Init PROVE OverlaysInd
  OBVIOUS
<1>1. /\ With("succeeded") = {} /\ Len(attempts) = 0 /\ live = 0 /\ latest = 0
      /\ \A a \in Actors : pc[a] = "off"
  BY DEF Init, With
<1> QED BY <1>1 DEF OverlaysInd, OverlaysFit, OverlaysBackLedger

\* The overlays are never older than a success on record.
THEOREM OverlaysBack == Spec => []OverlaysBackLedger
<1>1. OverlaysInd => OverlaysBackLedger
  BY DEF OverlaysInd
<1> QED BY <1>1, InitOverlays, OverlaysPreserved, AlwaysGuarded, PTL DEF Spec

-----------------------------------------------------------------------------
(* The pace of a worker.                                                   *)

\* A worker remembers its last call by the wall clock, which has been set back
\* by at most "back" since, and what it waits for lies an interval after it.
PaceFits(w) ==
  /\ woke[w] # NoTime => seen[w] # NoTime /\ woke[w] <= seen[w] + back
  /\ pc[w] = "sleeping" /\ woke[w] # NoTime => due[w] >= woke[w] + Interval

PaceInd == \A w \in Workers : PaceFits(w)

LEMMA PacePreserved == Guarded /\ PaceInd /\ [Next]_vars => PaceInd'
<1> SUFFICES ASSUME Guarded, PaceInd, [Next]_vars, NEW w \in Workers PROVE PaceFits(w)'
  BY DEF PaceInd
<1>0. /\ now \in Nat /\ back \in Nat /\ back <= now /\ due[w] \in Nat /\ Interval \in Nat
      /\ seen[w] \in Nat \union {NoTime} /\ woke[w] \in Nat \union {NoTime} /\ NoTime \notin Nat
      /\ state.lastAt \in Nat \union {NoTime} /\ w \in Actors
      /\ PaceFits(w)
  BY BoundsAssumption, NoTimeAssumption DEF Guarded, TypeOK, ControlState, PaceInd
<1>1. ASSUME seen'[w] = seen[w], woke'[w] = woke[w], due'[w] = due[w], back' \in Nat, back' >= back,
             pc'[w] = "sleeping" => pc[w] = "sleeping"
      PROVE  PaceFits(w)'
  BY <1>0, <1>1 DEF PaceFits
<1>2. CASE Plan(w)
  <2>1. PICK recorded \in {state.lastAt, NoTime} : due'[w] = now + Delay(Known(w, recorded))
    BY <1>2 DEF Plan, Guarded, TypeOK
  <2>2. seen' = seen /\ woke' = woke /\ back' = back
    BY <1>2 DEF Plan, clocks
  <2>3. ASSUME woke[w] # NoTime PROVE due'[w] >= woke[w] + Interval
    <3>1. seen[w] \in Nat /\ woke[w] \in Nat /\ woke[w] <= seen[w] + back
      BY <1>0, <2>3 DEF PaceFits
    <3> DEFINE last == Known(w, recorded)
    <3>2. last \in Nat /\ last >= seen[w]
      BY <1>0, <3>1 DEF Known, Later
    <3> HIDE DEF last
    <3>3. due'[w] = now + Delay(last)
      BY <2>1 DEF last
    <3>4. CASE last + Interval <= now - back
      BY <1>0, <3>1, <3>2, <3>3, <3>4 DEF Delay, Wall
    <3>5. CASE ~(last + Interval <= now - back)
      <4>1. Delay(last) = last + Interval - (now - back)
        BY <1>0, <3>2, <3>5 DEF Delay, Wall
      <4> QED BY <1>0, <3>1, <3>2, <3>3, <4>1
    <3> QED BY <3>4, <3>5
  <2> QED BY <1>0, <2>2, <2>3 DEF PaceFits
<1>3. CASE Wake(w)
  BY <1>0, <1>3 DEF Wake, Goto, Wall, PaceFits, Guarded, TypeOK, clocks
<1>4. CASE Ensure(w)
  BY <1>0, <1>1, <1>4 DEF Ensure, Goto, clocks, worker, Guarded, TypeOK
<1>5. ASSUME NEW v \in Workers, v # w, Ensure(v) \/ Plan(v) \/ Wake(v) PROVE PaceFits(w)'
  BY <1>0, <1>1, <1>5 DEF Ensure, Plan, Wake, Goto, clocks, worker, Guarded, TypeOK
<1>6. ASSUME NEW o \in Operators, Click(o) PROVE PaceFits(w)'
  BY <1>0, <1>1, <1>6 DEF Click, Goto, clocks, worker, Guarded, TypeOK
<1>7. ASSUME NEW a \in Actors, Refresh(a) PROVE PaceFits(w)'
  <2>1. worker' = worker /\ clocks' = clocks
    <3>1. CASE ReadClock(a) \/ AcquireLock(a) \/ Begin(a) \/ Acquire(a) \/ RefreshFails(a)
               \/ PublishLatest(a) \/ PublishLive(a)
      BY <3>1 DEF ReadClock, AcquireLock, Begin, Acquire, RefreshFails, PublishLatest, PublishLive
    <3>2. CASE RefuseBusy(a) \/ CallRaises(a) \/ RefuseEarly(a) \/ RecordSuccess(a)
               \/ RecordFailure(a) \/ OutcomeNotWritten(a)
      BY <3>2 DEF RefuseBusy, CallRaises, RefuseEarly, RecordSuccess, RecordFailure,
                  OutcomeNotWritten, Return
    <3> QED BY <1>7, <3>1, <3>2 DEF Refresh
  <2>2. pc'[w] = "sleeping" => pc[w] = "sleeping"
    <3>1. CASE ReadClock(a) \/ AcquireLock(a) \/ Begin(a) \/ Acquire(a) \/ RefreshFails(a)
               \/ PublishLatest(a) \/ PublishLive(a)
      BY <1>0, <3>1 DEF ReadClock, AcquireLock, Begin, Acquire, RefreshFails, PublishLatest,
                        PublishLive, Goto, Guarded, TypeOK
    <3>2. CASE RefuseBusy(a) \/ CallRaises(a) \/ RefuseEarly(a) \/ RecordSuccess(a)
               \/ RecordFailure(a) \/ OutcomeNotWritten(a)
      <4>1. Return(a)
        BY <3>2 DEF RefuseBusy, CallRaises, RefuseEarly, RecordSuccess, RecordFailure, OutcomeNotWritten
      <4> QED BY <1>0, <4>1, ReturnTypes DEF Guarded
    <3> QED BY <1>7, <3>1, <3>2 DEF Refresh
  <2> QED BY <1>0, <1>1, <2>1, <2>2 DEF worker, clocks
<1>8. ASSUME NEW a \in Actors, ProcessExits(a) PROVE PaceFits(w)'
  <2>1. CASE a = w
    BY <1>0, <1>8, <2>1 DEF ProcessExits, PaceFits, Guarded, TypeOK
  <2>2. CASE a # w
    BY <1>0, <1>1, <1>8, <2>2 DEF ProcessExits, clocks, Guarded, TypeOK
  <2> QED BY <2>1, <2>2
<1>9. CASE Tick
  BY <1>0, <1>1, <1>9 DEF Tick, worker
<1>10. CASE ClockSetBack
  <2>1. back' \in Nat /\ back' >= back
    BY <1>0, <1>10 DEF ClockSetBack
  <2> QED BY <1>1, <1>10, <2>1 DEF ClockSetBack, worker
<1>11. CASE UNCHANGED vars
  BY <1>0, <1>1, <1>11 DEF vars, worker, clocks
<1> QED BY <1>2, <1>3, <1>4, <1>5, <1>6, <1>7, <1>8, <1>9, <1>10, <1>11 DEF Next

\* Only the end of its wait brings a worker from its sleep to a call.
LEMMA OnlyWakeCalls ==
  ASSUME Guarded, NEW w \in Workers, pc[w] = "sleeping", pc'[w] = "calling", [Next]_vars
  PROVE  Wake(w)
<1>0. w \in Actors /\ pc \in [Actors -> Locations] /\ w \notin Operators
  BY ActorsAssumption DEF Guarded, TypeOK
<1>1. ~UNCHANGED vars /\ ~Tick /\ ~ClockSetBack
  BY DEF vars, Tick, ClockSetBack
<1>2. \A v \in Workers : ~Ensure(v) /\ ~Plan(v) /\ (Wake(v) => v = w)
  BY <1>0 DEF Ensure, Plan, Wake, Goto
<1>3. \A o \in Operators : ~Click(o)
  BY <1>0 DEF Click, Goto
<1>4. ASSUME NEW a \in Actors, Refresh(a) PROVE FALSE
  <2>1. CASE ReadClock(a) \/ AcquireLock(a) \/ Begin(a) \/ Acquire(a) \/ RefreshFails(a)
             \/ PublishLatest(a) \/ PublishLive(a)
    BY <1>0, <2>1 DEF ReadClock, AcquireLock, Begin, Acquire, RefreshFails, PublishLatest, PublishLive, Goto
  <2>2. CASE RefuseBusy(a) \/ CallRaises(a) \/ RefuseEarly(a) \/ RecordSuccess(a)
             \/ RecordFailure(a) \/ OutcomeNotWritten(a)
    <3>1. Return(a)
      BY <2>2 DEF RefuseBusy, CallRaises, RefuseEarly, RecordSuccess, RecordFailure, OutcomeNotWritten
    <3> QED BY <1>0, <3>1, ReturnTypes DEF Guarded
  <2> QED BY <1>4, <2>1, <2>2 DEF Refresh
<1>5. \A a \in Actors : ~ProcessExits(a)
  BY <1>0 DEF ProcessExits
<1> QED BY <1>1, <1>2, <1>3, <1>4, <1>5 DEF Next

\* A worker never calls twice within its interval, although the clock is set
\* back and whatever it can read of the state file.
THEOREM WorkersPaced == Spec => WorkerPaced
<1>1. Init => PaceInd
  BY DEF Init, PaceInd, PaceFits
<1>2. Guarded /\ PaceInd /\ [Next]_vars => [\A w \in Workers : Paced(w)]_vars
  <2> SUFFICES ASSUME Guarded, PaceInd, [Next]_vars, NEW w \in Workers,
                      pc[w] = "sleeping", pc'[w] = "calling", woke[w] # NoTime
               PROVE  now >= woke[w] + Interval
    BY DEF Paced
  <2>1. Wake(w)
    BY OnlyWakeCalls
  <2>2. now >= due[w] /\ due[w] >= woke[w] + Interval
    BY <2>1 DEF Wake, PaceInd, PaceFits
  <2>3. now \in Nat /\ due[w] \in Nat /\ woke[w] \in Nat /\ Interval \in Nat
    BY BoundsAssumption DEF Guarded, TypeOK
  <2> QED BY <2>2, <2>3
<1> QED BY <1>1, <1>2, PacePreserved, AlwaysGuarded, PTL DEF Spec, WorkerPaced

-----------------------------------------------------------------------------
(* How long a call can go on.                                              *)

\* What a call still has before it, the products it asks for one by one
\* included; a worker that is back from one has to plan its next wait.
StepsLeft(at, fetched) ==
  CASE at = "calling"    -> 8 + Products
    [] at = "stamped"    -> 7 + Products
    [] at = "locked"     -> 6 + Products
    [] at = "asking"     -> 5 + (Products - fetched)
    [] at = "publishing" -> 4
    [] at = "published"  -> 3
    [] at = "failing"    -> 2
    [] at = "planning"   -> 1
    [] OTHER             -> 0

Busy(a) == pc[a] \in Calling \union {"planning"}

\* An actor stays where it is, or is nearer to the end of its call.
CallAdvances ==
  \A a \in Actors : Busy(a) =>
    \/ pc'[a] = pc[a] /\ call'[a] = call[a]
    \/ StepsLeft(pc'[a], call'[a].fetched) < StepsLeft(pc[a], call[a].fetched)

LEMMA StepsAre ==
  ASSUME Guarded, NEW a \in Actors
  PROVE  /\ pc[a] \in Locations /\ call[a].fetched \in 0 .. 3 /\ Products = 3
         /\ StepsLeft(pc[a], call[a].fetched) \in 0 .. 11
         /\ Busy(a) => StepsLeft(pc[a], call[a].fetched) > 0
<1>1. pc[a] \in Locations /\ call[a].fetched \in 0 .. 3 /\ Products = 3
  BY DEF Guarded, TypeOK, Call, Products
<1> QED BY <1>1 DEF StepsLeft, Busy, Locations, Calling, Holding, InFlight

LEMMA OwnStepAdvances ==
  ASSUME Guarded, NEW a \in Actors, Busy(a), Refresh(a) \/ ProcessExits(a) \/ (a \in Workers /\ Plan(a))
  PROVE  StepsLeft(pc'[a], call'[a].fetched) < StepsLeft(pc[a], call[a].fetched)
<1>1. /\ DOMAIN pc = Actors /\ DOMAIN call = Actors /\ call[a] \in Call /\ Products = 3
      /\ call[a].fetched \in 0 .. 3
  BY StepsAre DEF Guarded, TypeOK
<1>2. CASE ReadClock(a) \/ AcquireLock(a)
  <2>1. \/ pc[a] = "calling" /\ pc'[a] = "stamped"
        \/ pc[a] = "stamped" /\ pc'[a] = "locked"
    BY <1>1, <1>2 DEF ReadClock, AcquireLock, Goto
  <2> QED BY <1>1, <2>1 DEF StepsLeft
<1>3. CASE Begin(a)
  <2>1. pc[a] = "locked" /\ pc'[a] = "asking" /\ call'[a].fetched = call[a].fetched
    BY <1>1, <1>3 DEF Begin, Goto, Call
  <2> QED BY <1>1, <2>1 DEF StepsLeft
<1>4. CASE Acquire(a)
  <2>1. pc[a] = "asking" /\ pc'[a] = "asking" /\ call'[a].fetched = call[a].fetched + 1
    BY <1>1, <1>4 DEF Acquire, Call
  <2> QED BY <1>1, <2>1 DEF StepsLeft
<1>5. CASE PublishLatest(a) \/ PublishLive(a) \/ RefreshFails(a)
  <2>1. \/ pc[a] = "asking" /\ pc'[a] \in {"publishing", "failing"}
        \/ pc[a] = "publishing" /\ pc'[a] \in {"published", "failing"}
        \/ pc[a] = "published" /\ pc'[a] = "failing"
    BY <1>1, <1>5 DEF PublishLatest, PublishLive, RefreshFails, Goto
  <2> QED BY <1>1, <2>1 DEF StepsLeft
<1>6. CASE RefuseBusy(a) \/ CallRaises(a) \/ RefuseEarly(a) \/ RecordSuccess(a) \/ RecordFailure(a) \/ OutcomeNotWritten(a)
  <2>1. Return(a) /\ pc[a] \in Calling
    BY <1>6 DEF RefuseBusy, CallRaises, RefuseEarly, RecordSuccess, RecordFailure, OutcomeNotWritten, Calling, Holding, InFlight
  <2>2. pc'[a] \in {"planning", "off"}
    BY <1>1, <2>1 DEF Return
  <2> QED BY <1>1, <2>1, <2>2 DEF StepsLeft, Calling, Holding, InFlight
<1>7. CASE ProcessExits(a) \/ (a \in Workers /\ Plan(a))
  <2>1. pc'[a] \in {"off", "sleeping"}
    BY <1>1, <1>7 DEF ProcessExits, Plan, Goto
  <2>2. StepsLeft(pc'[a], call'[a].fetched) = 0
    BY <2>1 DEF StepsLeft
  <2> QED BY <2>2, StepsAre
<1> QED BY <1>2, <1>3, <1>4, <1>5, <1>6, <1>7 DEF Refresh

\* What another actor does leaves this one where it is.
LEMMA OthersWait ==
  ASSUME Guarded, NEW a \in Actors, NEW b \in Actors, a # b,
         \/ b \in Workers /\ (Ensure(b) \/ Plan(b) \/ Wake(b))
         \/ b \in Operators /\ Click(b)
         \/ Refresh(b) \/ ProcessExits(b)
  PROVE  pc'[a] = pc[a] /\ call'[a] = call[a]
<1>1. DOMAIN pc = Actors /\ DOMAIN call = Actors
  BY DEF Guarded, TypeOK
<1>2. CASE Return(b)
  BY <1>1, <1>2 DEF Return, LeaveCall
<1>3. CASE RefuseBusy(b) \/ CallRaises(b) \/ RefuseEarly(b) \/ RecordSuccess(b) \/ RecordFailure(b) \/ OutcomeNotWritten(b)
  BY <1>2, <1>3 DEF RefuseBusy, CallRaises, RefuseEarly, RecordSuccess, RecordFailure, OutcomeNotWritten
<1>4. CASE ProcessExits(b)
  BY <1>1, <1>4 DEF ProcessExits, LeaveCall
<1>5. CASE Ensure(b) \/ Plan(b) \/ Wake(b) \/ Click(b)
  BY <1>1, <1>5 DEF Ensure, Plan, Wake, Click, Goto
<1>6. CASE ReadClock(b) \/ AcquireLock(b) \/ Begin(b) \/ Acquire(b)
  BY <1>1, <1>6 DEF ReadClock, AcquireLock, Begin, Acquire, Goto
<1>7. CASE RefreshFails(b) \/ PublishLatest(b) \/ PublishLive(b)
  BY <1>1, <1>7 DEF RefreshFails, PublishLatest, PublishLive, Goto
<1> QED BY <1>3, <1>4, <1>5, <1>6, <1>7 DEF Refresh

\* Whatever the provider, the disk and the clock do, a call of an operator or
\* of a worker is over after at most eleven steps of its own.
THEOREM CallsAreFinite ==
  Spec => [](\A a \in Actors : StepsLeft(pc[a], call[a].fetched) \in 0 .. 11) /\ [][CallAdvances]_vars
<1>1. Guarded => \A a \in Actors : StepsLeft(pc[a], call[a].fetched) \in 0 .. 11
  BY StepsAre
<1>2. ASSUME Guarded, [Next]_vars PROVE [CallAdvances]_vars
  <2> SUFFICES ASSUME Next, NEW a \in Actors, Busy(a)
               PROVE  \/ pc'[a] = pc[a] /\ call'[a] = call[a]
                      \/ StepsLeft(pc'[a], call'[a].fetched) < StepsLeft(pc[a], call[a].fetched)
    BY <1>2 DEF CallAdvances
  <2>1. CASE Tick \/ ClockSetBack
    BY <2>1 DEF Tick, ClockSetBack
  <2>2. PICK b \in Actors : \/ Tick \/ ClockSetBack
                            \/ b \in Workers /\ (Ensure(b) \/ Plan(b) \/ Wake(b))
                            \/ b \in Operators /\ Click(b)
                            \/ Refresh(b) \/ ProcessExits(b)
    BY DEF Next, Actors
  <2>3. CASE a # b
    BY <1>2, <2>1, <2>2, <2>3, OthersWait
  <2>4. CASE a = b
    <3>1. ~ Ensure(a) /\ ~ Wake(a) /\ ~ Click(a)
      BY DEF Busy, Ensure, Wake, Click, Goto, Calling, Holding, InFlight
    <3> QED BY <1>2, <2>1, <2>2, <2>4, <3>1, OwnStepAdvances
  <2> QED BY <2>3, <2>4
<1> QED BY <1>1, <1>2, AlwaysGuarded, PTL DEF Spec
=============================================================================
