-------------------------- MODULE BodsLiveControl --------------------------
(***************************************************************************)
(* Controlled refresh of the private live bus overlay                      *)
(* (integration/manchester/bods_live_control.py and bods_live.py).         *)
(*                                                                         *)
(* Any number of callers share one workspace: operator clicks, the server  *)
(* worker, scheduled sessions, in one process or in several.  A call reads *)
(* the clock, takes a non-blocking advisory file lock, checks the state    *)
(* file, puts the attempt on record, asks the provider (with bounded       *)
(* retries and redirects inside the attempt), replaces the scene file and  *)
(* records the outcome.  A process may exit at any point; the operating    *)
(* system then drops its lock and nothing else.                            *)
(***************************************************************************)
EXTENDS Naturals, Sequences, FiniteSets

CONSTANTS
  Actors,        \* callers of coordinated_bods_live_refresh
  NoActor,       \* the lock is free
  NoTime,        \* last_attempt_at_utc is None
  NoScene,       \* no scene file, or latest_success is None
  MinInterval,   \* minimum_interval_seconds
  MaxAge,        \* history_max_age_hours
  MaxHistory,    \* history_max_entries
  MaxTries,      \* max_attempts of the transport policy
  MaxRedirects,  \* max_redirects of the transport policy
  MaxTime        \* bound of the model: the clock stops here

ASSUME ActorsAssumption == NoActor \notin Actors

ASSUME BoundsAssumption ==
  /\ MinInterval \in Nat \ {0}
  /\ MaxAge \in Nat
  /\ MaxHistory \in Nat \ {0}
  /\ MaxTries \in Nat \ {0}
  /\ MaxRedirects \in Nat
  /\ MaxTime \in Nat

ASSUME NoTimeAssumption == NoTime \notin Nat

VARIABLES
  now,       \* the wall clock callers read
  lock,      \* holder of the flock on .bods-refresh.lock
  state,     \* the state file, bods-refresh-state.json
  scene,     \* summary of the scene in scenes/live_vehicles.json
  pc,        \* where each caller is in the coordinated refresh
  stamp,     \* attempted_at of the call
  view,      \* the in_progress record the call built and stored
  tries,     \* transport requests sent since the last redirect
  hops,      \* redirects followed
  got,       \* summary of the response this call accepted
  sent,      \* history: stamps of the attempts that asked the provider
  regressed  \* history: the wall clock was once set back

disk == <<state, scene>>
locals == <<stamp, view, tries, hops, got>>
ghosts == <<sent, regressed>>
vars == <<now, lock, disk, pc, locals, ghosts>>

(***************************************************************************)
(* Data.  A summary stands for a BodsLiveRefreshSummary: its evaluation    *)
(* time and the snapshot it was built from, which the snapshot store makes *)
(* unique; it is named here by the number of the attempt that fetched it.  *)
(* The code keeps history as a tuple sorted by that pair without           *)
(* repetitions, which is a set under the order Before.                     *)
(***************************************************************************)
Summary == [at : Nat, attempt : Nat]

ASSUME NoSceneAssumption == NoScene \notin Summary

Before(i, j) == i.at < j.at \/ (i.at = j.at /\ i.attempt < j.attempt)

Latest(h) == CHOOSE i \in h : \A j \in h \ {i} : Before(j, i)

\* A coordinator that sorts the wrong way would retain the oldest entries.
OldestKept(h, item, at) ==
  LET fresh == {i \in h \cup {item} : i.at + MaxAge >= at}
  IN  {i \in fresh : Cardinality({j \in fresh : Before(j, i)}) < MaxHistory}

\* _bounded_history: drop what is older than MaxAge, keep the last MaxHistory.
BoundedHistory(h, item, at) ==
  LET fresh == {i \in h \cup {item} : i.at + MaxAge >= at}
  IN  {i \in fresh : Cardinality({j \in fresh : Before(i, j)}) < MaxHistory}

Status == {"never", "in_progress", "succeeded", "failed"}

ControlState ==
  [attempts  : Nat,
   successes : Nat,
   failures  : Nat,
   lastAt    : Nat \cup {NoTime},
   status    : Status,
   latest    : Summary \cup {NoScene},
   history   : SUBSET Summary]

\* initial_bods_live_control_state, what an absent file is read as
InitialState ==
  [attempts |-> 0, successes |-> 0, failures |-> 0, lastAt |-> NoTime,
   status |-> "never", latest |-> NoScene, history |-> {}]

InFlight == {"requesting", "waiting", "received", "published", "failing"}
Holding == {"locked"} \cup InFlight
Locations == {"idle", "stamped"} \cup Holding

Init ==
  /\ now = 0
  /\ lock = NoActor
  /\ state = InitialState
  /\ scene = NoScene
  /\ pc = [a \in Actors |-> "idle"]
  /\ stamp = [a \in Actors |-> 0]
  /\ view = [a \in Actors |-> InitialState]
  /\ tries = [a \in Actors |-> 0]
  /\ hops = [a \in Actors |-> 0]
  /\ got = [a \in Actors |-> NoScene]
  /\ sent = <<>>
  /\ regressed = FALSE

-----------------------------------------------------------------------------

Goto(a, from, to) ==
  /\ pc[a] = from
  /\ pc' = [pc EXCEPT ![a] = to]

\* The call is over: its local variables are gone and the finally clause of
\* coordinated_bods_live_refresh has released the lock it held.
Return(a) ==
  /\ pc' = [pc EXCEPT ![a] = "idle"]
  /\ lock' = IF lock = a THEN NoActor ELSE lock
  /\ stamp' = [stamp EXCEPT ![a] = 0]
  /\ view' = [view EXCEPT ![a] = InitialState]
  /\ tries' = [tries EXCEPT ![a] = 0]
  /\ hops' = [hops EXCEPT ![a] = 0]
  /\ got' = [got EXCEPT ![a] = NoScene]

(***************************************************************************)
(* A call reads the clock before it asks for the lock.                     *)
(***************************************************************************)
Call(a) ==
  /\ Goto(a, "idle", "stamped")
  /\ stamp' = [stamp EXCEPT ![a] = now]
  /\ UNCHANGED <<now, lock, disk, view, tries, hops, got, ghosts>>

\* _acquire_lock, flock(LOCK_EX | LOCK_NB)
AcquireLock(a) ==
  /\ lock = NoActor
  /\ Goto(a, "stamped", "locked")
  /\ lock' = a
  /\ UNCHANGED <<now, disk, locals, ghosts>>

RefuseBusy(a) ==
  /\ lock # NoActor
  /\ pc[a] = "stamped"
  /\ Return(a)
  /\ UNCHANGED <<now, disk, ghosts>>

(***************************************************************************)
(* The interval check, against the state file read under the lock.         *)
(***************************************************************************)
\* A coordinator that only compares with the last success forgets failures.
DueSinceSuccess(a) ==
  state.latest # NoScene => stamp[a] >= state.latest.at + MinInterval

Due(a) == state.lastAt # NoTime => stamp[a] >= state.lastAt + MinInterval

RefuseClock(a) ==
  /\ pc[a] = "locked"
  /\ state.lastAt # NoTime /\ stamp[a] < state.lastAt
  /\ Return(a)
  /\ UNCHANGED <<now, disk, ghosts>>

RefuseTooSoon(a) ==
  /\ pc[a] = "locked"
  /\ state.lastAt # NoTime /\ stamp[a] >= state.lastAt /\ ~Due(a)
  /\ Return(a)
  /\ UNCHANGED <<now, disk, ghosts>>

(***************************************************************************)
(* The attempt is put on record.  An in_progress record found on disk      *)
(* belongs to a process that is gone and is counted as a failure here.     *)
(***************************************************************************)
SettledFailures ==
  state.failures + (IF state.status = "in_progress" THEN 1 ELSE 0)

\* The abandoned attempt is dropped instead of settled.
Unsettled(a) ==
  [state EXCEPT !.attempts = @ + 1,
                !.lastAt = stamp[a],
                !.status = "in_progress"]

InProgress(a) ==
  [state EXCEPT !.attempts = @ + 1,
                !.failures = SettledFailures,
                !.lastAt = stamp[a],
                !.status = "in_progress"]

Begin(a) ==
  /\ Due(a)
  /\ Goto(a, "locked", "requesting")
  /\ view' = [view EXCEPT ![a] = InProgress(a)]
  /\ state' = InProgress(a)
  /\ UNCHANGED <<now, lock, scene, stamp, tries, hops, got, ghosts>>

\* _store_state raises: before the replacement, or after it (chmod).
BeginRaises(a) ==
  /\ pc[a] = "locked"
  /\ Due(a)
  /\ state' \in {state, InProgress(a)}
  /\ Return(a)
  /\ UNCHANGED <<now, scene, ghosts>>

(***************************************************************************)
(* The transport, BoundedHttpClient.fetch.                                 *)
(***************************************************************************)
SendRequest(a) ==
  /\ Goto(a, "requesting", "waiting")
  /\ tries' = [tries EXCEPT ![a] = @ + 1]
  /\ sent' = IF tries[a] = 0 /\ hops[a] = 0 THEN Append(sent, stamp[a]) ELSE sent
  /\ UNCHANGED <<now, lock, disk, stamp, view, hops, got, regressed>>

\* A transport that never gives up on a provider that keeps failing.
RetryForever(a) ==
  /\ Goto(a, "waiting", "requesting")
  /\ tries' = [tries EXCEPT ![a] = 1]
  /\ UNCHANGED <<now, lock, disk, stamp, view, hops, got, ghosts>>

\* A network error or a retryable status; the backoff is at most a second.
Retry(a) ==
  /\ tries[a] < MaxTries
  /\ Goto(a, "waiting", "requesting")
  /\ UNCHANGED <<now, lock, disk, locals, ghosts>>

Redirected(a) ==
  /\ hops[a] < MaxRedirects
  /\ Goto(a, "waiting", "requesting")
  /\ hops' = [hops EXCEPT ![a] = @ + 1]
  /\ tries' = [tries EXCEPT ![a] = 0]
  /\ UNCHANGED <<now, lock, disk, stamp, view, got, ghosts>>

\* The response is complete; retrieval.completed_at_utc dates the evaluation.
Fetched(a) ==
  /\ Goto(a, "waiting", "received")
  /\ got' = [got EXCEPT ![a] = [at |-> now, attempt |-> view[a].attempts]]
  /\ tries' = [tries EXCEPT ![a] = 0]
  /\ hops' = [hops EXCEPT ![a] = 0]
  /\ UNCHANGED <<now, lock, disk, stamp, view, ghosts>>

\* Deadline, rejected status, exhausted retries, refused or malformed feed:
\* every exception of refresh_bods_live_scene before the scene is replaced.
RefreshFails(a) ==
  /\ pc[a] \in {"requesting", "waiting", "received"}
  /\ pc' = [pc EXCEPT ![a] = "failing"]
  /\ tries' = [tries EXCEPT ![a] = 0]
  /\ hops' = [hops EXCEPT ![a] = 0]
  /\ got' = [got EXCEPT ![a] = NoScene]
  /\ UNCHANGED <<now, lock, disk, stamp, view, ghosts>>

(***************************************************************************)
(* The scene file is replaced atomically; the directory fsync after the    *)
(* replacement can still fail, and then the attempt fails with the new     *)
(* scene in place.                                                         *)
(***************************************************************************)
PublishScene(a) ==
  /\ Goto(a, "received", "published")
  /\ scene' = got[a]
  /\ UNCHANGED <<now, lock, state, locals, ghosts>>

PublishRaises(a) ==
  /\ Goto(a, "received", "failing")
  /\ scene' = got[a]
  /\ got' = [got EXCEPT ![a] = NoScene]
  /\ UNCHANGED <<now, lock, state, stamp, view, tries, hops, ghosts>>

(***************************************************************************)
(* The outcome is recorded from the record built before the transport.     *)
(***************************************************************************)
NewHistory(a) == BoundedHistory(view[a].history, got[a], stamp[a])

RecordSuccess(a) ==
  /\ pc[a] = "published"
  /\ NewHistory(a) # {}
  /\ state' = [view[a] EXCEPT !.successes = @ + 1,
                              !.status = "succeeded",
                              !.latest = Latest(NewHistory(a)),
                              !.history = NewHistory(a)]
  /\ Return(a)
  /\ UNCHANGED <<now, scene, ghosts>>

\* Nothing was young enough to keep: history[-1] raises, nothing is stored.
HistoryEmpty(a) ==
  /\ pc[a] = "published"
  /\ NewHistory(a) = {}
  /\ Return(a)
  /\ UNCHANGED <<now, disk, ghosts>>

\* The failure record is built from totals that already count the attempt.
FailureCountedTwice(a) ==
  /\ pc[a] = "failing"
  /\ state' = [view[a] EXCEPT !.failures = @ + 2, !.status = "failed"]
  /\ Return(a)
  /\ UNCHANGED <<now, scene, ghosts>>

RecordFailure(a) ==
  /\ pc[a] = "failing"
  /\ state' = [view[a] EXCEPT !.failures = @ + 1, !.status = "failed"]
  /\ Return(a)
  /\ UNCHANGED <<now, scene, ghosts>>

\* _store_state raises before the replacement: in_progress stays on disk.
OutcomeNotWritten(a) ==
  /\ pc[a] \in {"published", "failing"}
  /\ Return(a)
  /\ UNCHANGED <<now, disk, ghosts>>

(***************************************************************************)
(* The environment: processes exit, the wall clock advances or is set back.*)
(***************************************************************************)
ProcessExits(a) ==
  /\ pc[a] # "idle"
  /\ Return(a)
  /\ UNCHANGED <<now, disk, ghosts>>

Tick ==
  /\ now < MaxTime
  /\ now' = now + 1
  /\ UNCHANGED <<lock, disk, pc, locals, ghosts>>

ClockSetBack ==
  /\ \E t \in 0 .. now : t < now /\ now' = t
  /\ regressed' = TRUE
  /\ UNCHANGED <<lock, disk, pc, locals, sent>>

Refuse(a) == RefuseBusy(a) \/ RefuseClock(a) \/ RefuseTooSoon(a)

Transport(a) ==
  SendRequest(a) \/ Retry(a) \/ Redirected(a) \/ Fetched(a) \/ RefreshFails(a)

Conclude(a) ==
  RecordSuccess(a) \/ HistoryEmpty(a) \/ RecordFailure(a) \/ OutcomeNotWritten(a)

\* What the thread running the call does by itself.
Progress(a) ==
  \/ AcquireLock(a) \/ Refuse(a)
  \/ Begin(a) \/ BeginRaises(a)
  \/ Transport(a) \/ PublishScene(a) \/ PublishRaises(a)
  \/ Conclude(a)

Next ==
  \/ \E a \in Actors : Call(a) \/ Progress(a) \/ ProcessExits(a)
  \/ Tick
  \/ ClockSetBack

Spec == Init /\ [][Next]_vars

\* A thread inside the refresh keeps running, and the transport deadline ends
\* every wait for the provider; nobody is obliged to call, exit or reset a clock.
FairSpec == Spec /\ \A a \in Actors : WF_vars(Progress(a))

-----------------------------------------------------------------------------
(***************************************************************************)
(* Properties.                                                             *)
(***************************************************************************)

\* Types of the persisted files, of the callers' locals and of the history.
TypeOK ==
  /\ now \in Nat
  /\ lock \in Actors \cup {NoActor}
  /\ state \in ControlState
  /\ scene \in Summary \cup {NoScene}
  /\ pc \in [Actors -> Locations]
  /\ stamp \in [Actors -> Nat]
  /\ view \in [Actors -> ControlState]
  /\ tries \in [Actors -> 0 .. MaxTries]
  /\ hops \in [Actors -> 0 .. MaxRedirects]
  /\ got \in [Actors -> Summary \cup {NoScene}]
  /\ sent \in Seq(Nat)
  /\ regressed \in BOOLEAN

\* The validator of BodsLiveControlState: a file that fails it makes every
\* later load, and so every later refresh, fail with CONTROL_STATE_INVALID.
\* Whatever crashes and failed writes leave on disk must pass it.
Reconciles(s) ==
  /\ s.attempts = s.successes + s.failures + (IF s.status = "in_progress" THEN 1 ELSE 0)
  /\ IsFiniteSet(s.history) /\ Cardinality(s.history) <= s.successes
  /\ s.latest = IF s.history = {} THEN NoScene ELSE Latest(s.history)
  /\ s.status = "never" <=> s.attempts = 0
  /\ s.status = "never" <=> s.lastAt = NoTime

StateReconciles == Reconciles(state)

\* "At most 240 successful aggregate summaries and at most 24 hours": the
\* bound also holds for what interleaved successes and clock changes leave.
HistoryBounded == Cardinality(state.history) <= MaxHistory

\* "One source refresh at a time": two callers, in one process or two, are
\* never both between the record of their attempt and its outcome.
OneRefreshAtATime ==
  \A a, b \in Actors : pc[a] \in InFlight /\ pc[b] \in InFlight => a = b

\* While a call talks to the provider or publishes, the disk holds exactly the
\* in_progress record of that call, so a crash at any point is auditable and
\* the record the outcome is built from is never stale.
AttemptOnRecord ==
  \A a \in Actors : pc[a] \in InFlight =>
    /\ state = view[a]
    /\ state.status = "in_progress"
    /\ state.lastAt = stamp[a]

\* "At least 60 seconds between attempted source requests", read as the code
\* does: by the stamps of the attempts, across crashes and failed writes.
AttemptsSpaced ==
  \A i \in 1 .. Len(sent) - 1 : sent[i + 1] >= sent[i] + MinInterval

\* The scene file the page draws is the one the state file vouches for: after
\* a success it is latest_success, and it is never older, unless the wall
\* clock was set back.
SceneBacksState ==
  ~regressed /\ state.latest # NoScene =>
    /\ scene # NoScene
    /\ ~Before(scene, state.latest)
    /\ state.status = "succeeded" => scene = state.latest

\* The coordinator implements the abstract gate.
Gate == INSTANCE SourceGate WITH
  attempts  <- state.attempts,
  successes <- state.successes,
  failures  <- state.failures,
  last      <- state.lastAt,
  open      <- state.status = "in_progress"

GateSpec == Gate!GateSpec

\* Every call ends, and the lock does not outlive its calls.
CallsReturn == \A a \in Actors : pc[a] # "idle" ~> pc[a] = "idle"

=============================================================================
