------------------------ MODULE NationalHighwaysLive ------------------------
(***************************************************************************)
(* Controlled refresh of the three National Highways products and the      *)
(* automatic workers that ask for it                                       *)
(* (integration/manchester/national_highways_live.py and                   *)
(* national_highways_auto_refresh.py).                                     *)
(*                                                                         *)
(* Operators and the workers of server processes share one workspace.  A   *)
(* call reads the clock, takes a non-blocking advisory file lock, checks   *)
(* the last attempt on record, asks for the products one after the other,  *)
(* replaces the two overlays and only then writes the outcome to the state *)
(* file: an attempt whose process ends, or whose outcome cannot be         *)
(* written, leaves no record (BodsLiveControl records it first).  A worker *)
(* sleeps until it is due, by the state file and by its own memory, calls, *)
(* and survives whatever the call raises.                                  *)
(*                                                                         *)
(* A product's acquisition is one step (its transport is the one of        *)
(* BodsLiveControl).  Of a summary, the trigger and the numbers of items   *)
(* are left out, of a worker's status the totals it shows: nothing is      *)
(* decided by them.                                                        *)
(***************************************************************************)
EXTENDS Naturals, Sequences, FiniteSets

CONSTANTS
  Workers,       \* server processes, each with at most one worker thread
  Operators,     \* threads that refresh on a click
  NoActor,       \* the lock is free
  NoTime,        \* a time that is None
  MinInterval,   \* NATIONAL_HIGHWAYS_MINIMUM_INTERVAL_SECONDS
  Interval,      \* interval_seconds of the workers
  MaxAge,        \* how long a summary stays in the history
  MaxHistory,    \* NATIONAL_HIGHWAYS_HISTORY_MAX_ENTRIES
  MaxTime,       \* bound of the model: time stops here
  MaxBack,       \* bound of the model: the clock is set back so far in all
  MaxAttempts    \* bound of the model: attempts started

Actors == Workers \cup Operators

ASSUME ActorsAssumption ==
  /\ Workers \cap Operators = {}
  /\ NoActor \notin Actors
  /\ IsFiniteSet(Actors)

ASSUME BoundsAssumption ==
  /\ MinInterval \in Nat \ {0} /\ Interval \in Nat
  /\ MaxAge \in Nat /\ MaxHistory \in Nat \ {0}
  /\ MaxTime \in Nat /\ MaxBack \in Nat /\ MaxAttempts \in Nat

ASSUME NoTimeAssumption == NoTime \notin Nat

VARIABLES
  now,       \* time that only passes: what Event.wait measures
  back,      \* how far the wall clock was set back in all
  lock,      \* holder of the flock on .national-highways-refresh.lock
  state,     \* the state file, national-highways-refresh-state.json
  latest,    \* the attempt national_highways_latest_available.json is from
  live,      \* the attempt national_highways_live_vehicles.json is from
  pc,        \* where each actor is
  call,      \* locals of the call
  seen,      \* last_attempt_at_utc in the status of each worker
  due,       \* when the wait of each worker ends
  attempts,  \* history: attempts that went out to the provider
  woke       \* history: when each worker last woke up

overlays == <<latest, live>>
disk == <<state, overlays>>
clocks == <<now, back>>
worker == <<seen, due, woke>>
vars == <<clocks, lock, disk, pc, call, worker, attempts>>

Wall == now - back

Products == 3   \* closures, speed_limits and vms, in this order

Summary == [at : Nat, attempt : Nat]

ControlState ==
  [attempts  : Nat,
   successes : Nat,
   failures  : Nat,
   lastAt    : Nat \cup {NoTime},
   status    : {"never", "succeeded", "failed"},
   history   : SUBSET Summary]

\* initial_national_highways_control_state, what an absent file is read as
InitialState ==
  [attempts |-> 0, successes |-> 0, failures |-> 0, lastAt |-> NoTime,
   status |-> "never", history |-> {}]

Call == [stamp : Nat, view : ControlState, number : Nat, fetched : 0 .. Products]
NoCall == [stamp |-> 0, view |-> InitialState, number |-> 0, fetched |-> 0]

InFlight == {"asking", "publishing", "published", "failing"}
Holding == {"locked"} \cup InFlight
Calling == {"calling", "stamped"} \cup Holding
Locations == {"off", "planning", "sleeping"} \cup Calling

Init ==
  /\ now = 0 /\ back = 0
  /\ lock = NoActor
  /\ state = InitialState
  /\ latest = 0 /\ live = 0
  /\ pc = [a \in Actors |-> "off"]
  /\ call = [a \in Actors |-> NoCall]
  /\ seen = [w \in Workers |-> NoTime]
  /\ due = [w \in Workers |-> 0]
  /\ attempts = <<>>
  /\ woke = [w \in Workers |-> NoTime]

-----------------------------------------------------------------------------

Goto(a, from, to) ==
  /\ pc[a] = from
  /\ pc' = [pc EXCEPT ![a] = to]

\* The finally clause, and the end of the call's frame.
LeaveCall(a) ==
  /\ call' = [call EXCEPT ![a] = NoCall]
  /\ lock' = IF lock = a THEN NoActor ELSE lock

\* A worker thread that ends with the first refresh.
ReturnOnce(a) ==
  /\ LeaveCall(a)
  /\ pc' = [pc EXCEPT ![a] = IF a \in Workers THEN "dead" ELSE "off"]
  /\ UNCHANGED worker

\* A worker plans again, whether the refresh raised or not; an operator is
\* answered.
Return(a) ==
  /\ LeaveCall(a)
  /\ pc' = [pc EXCEPT ![a] = IF a \in Workers THEN "planning" ELSE "off"]
  /\ UNCHANGED worker

\* The model starts no call that could go beyond MaxAttempts.
Room == Len(attempts) + Cardinality({a \in Actors : pc[a] \in Calling \ InFlight}) < MaxAttempts

(***************************************************************************)
(* The workers.                                                            *)
(***************************************************************************)
\* ensure_national_highways_auto_refresh, under the lock of the registry: a
\* live worker is left alone, whatever configuration is asked for.
Ensure(w) ==
  /\ Goto(w, "off", "planning")
  /\ UNCHANGED <<clocks, lock, disk, call, worker, attempts>>

Later(s, t) == IF s = NoTime THEN t ELSE IF t = NoTime \/ t < s THEN s ELSE t

\* A worker that goes by the state file alone.
KnownFromFile(w, recorded) == recorded

Known(w, recorded) == Later(recorded, seen[w])

\* _seconds_until_due.  A last attempt in the future, after the clock was set
\* back, makes the wait longer than the interval.
Delay(last) ==
  IF last = NoTime \/ last + Interval <= Wall THEN 0 ELSE last + Interval - Wall

\* The state file may be unreadable; then the worker's own memory decides.
Plan(w) ==
  /\ Goto(w, "planning", "sleeping")
  /\ \E recorded \in {state.lastAt, NoTime} :
       due' = [due EXCEPT ![w] = now + Delay(Known(w, recorded))]
  /\ UNCHANGED <<clocks, lock, disk, call, seen, woke, attempts>>

\* The wait is over: _record_attempt.
Wake(w) ==
  /\ Room
  /\ now >= due[w]
  /\ Goto(w, "sleeping", "calling")
  /\ seen' = [seen EXCEPT ![w] = Wall]
  /\ woke' = [woke EXCEPT ![w] = now]
  /\ due' = [due EXCEPT ![w] = 0]
  /\ UNCHANGED <<clocks, lock, disk, call, attempts>>

Click(o) ==
  /\ Room
  /\ Goto(o, "off", "calling")
  /\ UNCHANGED <<clocks, lock, disk, call, worker, attempts>>

(***************************************************************************)
(* The coordinated refresh.                                                *)
(***************************************************************************)
ReadClock(a) ==
  /\ Goto(a, "calling", "stamped")
  /\ call' = [call EXCEPT ![a].stamp = Wall]
  /\ UNCHANGED <<clocks, lock, disk, worker, attempts>>

\* Every caller that opens the lock file goes on.
AcquireLockShared(a) ==
  /\ Goto(a, "stamped", "locked")
  /\ lock' = a
  /\ UNCHANGED <<clocks, disk, call, worker, attempts>>

\* _acquire_lock, flock(LOCK_EX | LOCK_NB)
AcquireLock(a) ==
  /\ lock = NoActor
  /\ Goto(a, "stamped", "locked")
  /\ lock' = a
  /\ UNCHANGED <<clocks, disk, call, worker, attempts>>

RefuseBusy(a) ==
  /\ lock # NoActor
  /\ pc[a] = "stamped"
  /\ Return(a)
  /\ UNCHANGED <<clocks, disk, attempts>>

\* The workspace, the lock file or the state file cannot be used.
CallRaises(a) ==
  /\ pc[a] \in {"calling", "stamped", "locked"}
  /\ Return(a)
  /\ UNCHANGED <<clocks, disk, attempts>>

\* A check that forgets the attempts that failed.
DueSinceSuccess(a) ==
  \A h \in state.history : call[a].stamp >= h.at + MinInterval

Due(a) == state.lastAt # NoTime => call[a].stamp >= state.lastAt + MinInterval

\* CLOCK_REGRESSION and REFRESH_TOO_SOON
RefuseEarly(a) ==
  /\ pc[a] = "locked"
  /\ ~Due(a)
  /\ Return(a)
  /\ UNCHANGED <<clocks, disk, attempts>>

\* The call keeps the state it read; nothing on disk tells of the attempt.
Begin(a) ==
  /\ Due(a)
  /\ Goto(a, "locked", "asking")
  /\ call' = [call EXCEPT ![a].view = state, ![a].number = Len(attempts) + 1]
  /\ attempts' = Append(attempts, [at |-> call[a].stamp, outcome |-> "open"])
  /\ UNCHANGED <<clocks, lock, disk, worker>>

\* acquire_national_highways_snapshot of the next product
Acquire(a) ==
  /\ pc[a] = "asking"
  /\ call[a].fetched < Products
  /\ call' = [call EXCEPT ![a].fetched = @ + 1]
  /\ UNCHANGED <<clocks, lock, disk, pc, worker, attempts>>

\* A product is refused, an overlay cannot be built or replaced, or the summary
\* does not add up.
RefreshFails(a) ==
  /\ pc[a] \in {"asking", "publishing", "published"}
  /\ pc' = [pc EXCEPT ![a] = "failing"]
  /\ UNCHANGED <<clocks, lock, disk, call, worker, attempts>>

PublishLatest(a) ==
  /\ call[a].fetched = Products
  /\ Goto(a, "asking", "publishing")
  /\ latest' = call[a].number
  /\ UNCHANGED <<clocks, lock, state, live, call, worker, attempts>>

\* The summary is written after the first of the two overlays.
PublishLiveLater(a) ==
  /\ Goto(a, "publishing", "published")
  /\ UNCHANGED <<clocks, lock, disk, call, worker, attempts>>

PublishLive(a) ==
  /\ Goto(a, "publishing", "published")
  /\ live' = call[a].number
  /\ UNCHANGED <<clocks, lock, state, latest, call, worker, attempts>>

(***************************************************************************)
(* The outcome is recorded from the state read before the products.        *)
(***************************************************************************)
\* _bounded_history: drop what is older than MaxAge, keep the last MaxHistory.
BoundedHistory(h, at) ==
  LET fresh == {i \in h : i.at + MaxAge >= at}
  IN  {i \in fresh : Cardinality({j \in fresh : j.attempt > i.attempt}) < MaxHistory}

Conclude(a, outcome) ==
  attempts' = [attempts EXCEPT ![call[a].number].outcome = outcome]

RecordSuccess(a) ==
  LET c == call[a]
      summary == [at |-> c.stamp, attempt |-> c.number]
  IN  /\ pc[a] = "published"
      /\ state' = [c.view EXCEPT
                     !.attempts = @ + 1, !.successes = @ + 1,
                     !.lastAt = c.stamp, !.status = "succeeded",
                     !.history = BoundedHistory(@ \cup {summary}, c.stamp)]
      /\ Conclude(a, "succeeded")
      /\ Return(a)
      /\ UNCHANGED <<clocks, overlays>>

RecordFailure(a) ==
  /\ pc[a] = "failing"
  /\ state' = [call[a].view EXCEPT
                 !.attempts = @ + 1, !.failures = @ + 1,
                 !.lastAt = call[a].stamp, !.status = "failed"]
  /\ Conclude(a, "failed")
  /\ Return(a)
  /\ UNCHANGED <<clocks, overlays>>

\* _store_state raises before the replacement: the attempt was never made, as
\* far as the disk can tell.
OutcomeNotWritten(a) ==
  /\ pc[a] \in {"published", "failing"}
  /\ Return(a)
  /\ UNCHANGED <<clocks, disk, attempts>>

(***************************************************************************)
(* The environment.                                                        *)
(***************************************************************************)
\* The process ends; the operating system drops its lock, a worker its memory.
ProcessExits(a) ==
  /\ pc[a] # "off"
  /\ pc' = [pc EXCEPT ![a] = "off"]
  /\ LeaveCall(a)
  /\ seen' = IF a \in Workers THEN [seen EXCEPT ![a] = NoTime] ELSE seen
  /\ due' = IF a \in Workers THEN [due EXCEPT ![a] = 0] ELSE due
  /\ woke' = IF a \in Workers THEN [woke EXCEPT ![a] = NoTime] ELSE woke
  /\ UNCHANGED <<clocks, disk, attempts>>

Tick ==
  /\ now < MaxTime
  /\ now' = now + 1
  /\ UNCHANGED <<back, lock, disk, pc, call, worker, attempts>>

ClockSetBack ==
  /\ \E t \in 1 .. Wall : back + t <= MaxBack /\ back' = back + t
  /\ UNCHANGED <<now, lock, disk, pc, call, worker, attempts>>

Refresh(a) ==
  \/ ReadClock(a) \/ AcquireLock(a) \/ RefuseBusy(a) \/ CallRaises(a)
  \/ RefuseEarly(a) \/ Begin(a) \/ Acquire(a) \/ RefreshFails(a)
  \/ PublishLatest(a) \/ PublishLive(a)
  \/ RecordSuccess(a) \/ RecordFailure(a) \/ OutcomeNotWritten(a)

Work(w) == Plan(w) \/ Wake(w) \/ Refresh(w)

Next ==
  \/ \E w \in Workers : Ensure(w) \/ Plan(w) \/ Wake(w)
  \/ \E o \in Operators : Click(o)
  \/ \E a \in Actors : Refresh(a) \/ ProcessExits(a)
  \/ Tick
  \/ ClockSetBack

Spec == Init /\ [][Next]_vars

\* A daemon thread keeps running, and the transport's deadline ends every wait
\* for the provider; nobody is obliged to click, to exit or to start a worker.
FairSpec == Spec /\ \A w \in Workers : WF_vars(Work(w))

-----------------------------------------------------------------------------
(***************************************************************************)
(* Properties.                                                             *)
(***************************************************************************)
Attempt == [at : Nat, outcome : {"open", "succeeded", "failed"}]

\* Types of the files, of the workers and of every call's locals.
TypeOK ==
  /\ now \in Nat /\ back \in 0 .. now
  /\ lock \in Actors \cup {NoActor}
  /\ state \in ControlState
  /\ latest \in Nat /\ live \in Nat
  /\ pc \in [Actors -> Locations]
  /\ call \in [Actors -> Call]
  /\ seen \in [Workers -> Nat \cup {NoTime}]
  /\ due \in [Workers -> Nat]
  /\ attempts \in Seq(Attempt)
  /\ woke \in [Workers -> Nat \cup {NoTime}]

With(outcome) == {i \in DOMAIN attempts : attempts[i].outcome = outcome}
Reported == With("succeeded") \cup With("failed")
SummaryOf(i) == [at |-> attempts[i].at, attempt |-> i]
Won == {SummaryOf(i) : i \in With("succeeded")}

\* The newest MaxHistory successes that were at most MaxAge old at the last one.
Kept ==
  {s \in Won : /\ \A t \in Won : t.at <= s.at + MaxAge
               /\ Cardinality({t \in Won : t.attempt > s.attempt}) < MaxHistory}

\* The state file, which each call builds from the one it read before it went
\* out, accounts for every attempt whose outcome was reported and for no other,
\* in order, and its bounded history is that of the successes: no call
\* overwrites another's outcome, whoever crashed or failed to write in between.
LedgerAccounts ==
  /\ state.successes = Cardinality(Won)
  /\ state.failures = Cardinality(With("failed"))
  /\ state.attempts = state.successes + state.failures
  /\ Reported = {} => state = InitialState
  /\ \A i \in Reported : (\A j \in Reported : j <= i) =>
       state.lastAt = attempts[i].at /\ state.status = attempts[i].outcome
  /\ state.history = Kept

\* "A minimum minute between attempts" holds off from every attempt that is on
\* record, over clock changes and restarts; one that left no record holds off
\* nobody.
RecordedSpaced ==
  \A i \in Reported, j \in DOMAIN attempts :
    i < j => attempts[j].at >= attempts[i].at + MinInterval

\* The overlays are never older than a success on record, and after a success
\* that nothing followed both are its own.  A refresh that stops between the
\* two leaves the first one newer.
OverlaysBackLedger ==
  /\ live <= latest
  /\ \A i \in With("succeeded") : i <= live
  /\ Len(attempts) \in With("succeeded") => latest = Len(attempts) /\ live = Len(attempts)

\* A worker comes back to its wait from whatever a refresh raises: only the end
\* of its process ends it.
WorkersReturn ==
  \A w \in Workers : pc[w] # "off" ~> pc[w] \in {"sleeping", "off"}

\* A worker never calls twice within its interval, whatever it can read of the
\* state file, whatever others recorded, and although the clock is set back.
Paced(w) ==
  pc[w] = "sleeping" /\ pc'[w] = "calling" /\ woke[w] # NoTime => now >= woke[w] + Interval

WorkerPaced == [][\A w \in Workers : Paced(w)]_vars

=============================================================================
