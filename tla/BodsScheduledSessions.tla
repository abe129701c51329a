------------------------ MODULE BodsScheduledSessions ------------------------
(***************************************************************************)
(* Scheduled observation sessions                                          *)
(* (integration/manchester/bods_scheduled_sessions.py and                  *)
(* scripts/bods_scheduled_runner.py).                                      *)
(*                                                                         *)
(* A supervisor process claims a pid file, then wakes up again and again:  *)
(* it marks the windows it is too late for as skipped and runs the first   *)
(* window that is due.  A session asks for its snapshots one by one,       *)
(* writes the completion marker and then the artifacts, each of which may  *)
(* fail.  A supervisor dies of an exception nothing catches, which removes *)
(* its pid file, or is killed, which removes nothing; it may be launched   *)
(* again at any time.  Two launches may overlap: raced is set when they do *)
(* so in the way that makes both of them supervise.                        *)
(*                                                                         *)
(* A window occurrence (date, label) is named by its start time: the       *)
(* schedule validator makes start times unique.                            *)
(***************************************************************************)
EXTENDS Naturals, FiniteSets

CONSTANTS
  Supervisors,        \* supervisor processes, launched and relaunched
  Windows,            \* start times of the window occurrences
  DayLength,          \* length of a calendar day
  Tolerance,          \* late_tolerance_seconds
  Snapshots,          \* snapshots requested in each window
  RefusalLimit,       \* CONSECUTIVE_REFUSAL_LIMIT
  NoPid, Stale,       \* no pid file; a pid file naming a dead process
  NoWindow, Absent,   \* nothing to run; a file that is not there
  MaxTime             \* bound of the model: the clock stops here

ASSUME WindowsAssumption ==
  /\ Windows \subseteq Nat
  /\ IsFiniteSet(Windows)
  /\ NoWindow \notin Windows

ASSUME ScheduleAssumption ==
  /\ DayLength \in Nat \ {0} /\ Tolerance \in Nat
  /\ Snapshots \in [Windows -> Nat \ {0}] /\ RefusalLimit \in Nat \ {0}
  /\ MaxTime \in Nat

ASSUME PidAssumption == NoPid \notin Supervisors /\ Stale \notin Supervisors /\ NoPid # Stale

VARIABLES
  now,          \* the local clock
  pidFile,      \* supervisor.pid: its live owner, Stale or NoPid
  phase,        \* where each supervisor is
  job,          \* locals of each supervisor's wake-up and session
  marker,       \* completion marker of each window
  skipped,      \* windows with a skip marker
  ledger,       \* windows with a refusal ledger
  measurement,  \* cadence measurement of each window
  aggregate,    \* windows with an activity aggregate
  record,       \* session record of each window
  raced         \* ghost: the pid file was checked between another supervisor's
                \* check and its write

markers == <<marker, skipped>>
artifacts == <<ledger, measurement, aggregate, record>>
vars == <<now, pidFile, phase, job, markers, artifacts, raced>>

Asking == {"acquiring", "retrying"}
PostSteps == {"ledger", "extract", "measure", "measuring", "aggregate", "record", "retention"}
Supervising == {"awake", "skipping", "starting", "marking"} \cup Asking \cup PostSteps
Phases == {"off", "checking", "claiming"} \cup Supervising

\* A measurement is absent, cut off in the middle of the write, or computed
\* from some or from all of the accepted snapshots.
Measurements == {"none", "torn", "some", "all"}

Marker == [accepted : Nat, refused : Nat, stopped : BOOLEAN]
Record == [measured : BOOLEAN, aggregated : BOOLEAN, errors : BOOLEAN]

ASSUME AbsentAssumption == Absent \notin Marker

Job ==
  [late        : SUBSET Windows,          \* plan.late, still to be marked
   window      : Windows \cup {NoWindow}, \* plan.run_now
   accepted    : Nat,
   refused     : Nat,
   consecutive : 0 .. RefusalLimit,
   extracted   : {"none", "some", "all"}, \* extraction_results
   measured    : BOOLEAN,                 \* measurement_written
   aggregated  : BOOLEAN,                 \* aggregate_written
   errors      : BOOLEAN]                 \* post_step_errors is not empty

NoJob ==
  [late |-> {}, window |-> NoWindow, accepted |-> 0, refused |-> 0, consecutive |-> 0,
   extracted |-> "none", measured |-> FALSE, aggregated |-> FALSE, errors |-> FALSE]

Init ==
  /\ now = 0
  /\ pidFile = NoPid
  /\ phase = [s \in Supervisors |-> "off"]
  /\ job = [s \in Supervisors |-> NoJob]
  /\ marker = [w \in Windows |-> Absent]
  /\ skipped = {}
  /\ ledger = {}
  /\ measurement = [w \in Windows |-> "none"]
  /\ aggregate = {}
  /\ record = [w \in Windows |-> Absent]
  /\ raced = FALSE

Goto(s, from, to) == phase[s] = from /\ phase' = [phase EXCEPT ![s] = to]

Alive(s) == phase[s] # "off"

-----------------------------------------------------------------------------
(***************************************************************************)
(* supervisor_singleton: the pid file is read, then written, and nothing   *)
(* keeps another supervisor from reading it in between.                    *)
(***************************************************************************)
Launch(s) ==
  /\ Goto(s, "off", "checking")
  /\ UNCHANGED <<now, raced, pidFile, job, markers, artifacts>>

\* A supervisor that misreads the answer of the liveness probe.
InvertedProbe == pidFile \in Supervisors /\ ~Alive(pidFile)

\* _pid_alive of the recorded pid
OwnerAlive == pidFile \in Supervisors /\ Alive(pidFile)

ClaimChecked(s) ==
  /\ ~OwnerAlive
  /\ Goto(s, "checking", "claiming")
  /\ raced' = (raced \/ \E t \in Supervisors : phase[t] = "claiming")
  /\ UNCHANGED <<now, pidFile, job, markers, artifacts>>

RefuseSecond(s) ==
  /\ OwnerAlive
  /\ Goto(s, "checking", "off")
  /\ UNCHANGED <<now, raced, pidFile, job, markers, artifacts>>

WritePid(s) ==
  /\ Goto(s, "claiming", "awake")
  /\ pidFile' = s
  /\ UNCHANGED <<now, raced, job, markers, artifacts>>

\* The finally clause removes the pid file if it still names this process.
Leaves(s) ==
  /\ phase' = [phase EXCEPT ![s] = "off"]
  /\ job' = [job EXCEPT ![s] = NoJob]
  /\ pidFile' = IF pidFile = s THEN NoPid ELSE pidFile

-----------------------------------------------------------------------------
(***************************************************************************)
(* plan_next_action, computed from one reading of the clock.  Only today's *)
(* and tomorrow's windows are looked at.                                   *)
(***************************************************************************)
Resolved(w) == marker[w] # Absent \/ w \in skipped

InSight(w) == w \div DayLength \in {now \div DayLength, now \div DayLength + 1}

Due == {w \in Windows : InSight(w) /\ ~Resolved(w) /\ w <= now /\ now <= w + Tolerance}

\* A planner that forgets a window once it is long past its start.
OnlyJustLate ==
  {w \in Windows : InSight(w) /\ ~Resolved(w) /\ now = w + Tolerance + 1}

Late == {w \in Windows : InSight(w) /\ ~Resolved(w) /\ now > w + Tolerance}

RunNow ==
  IF Due = {} THEN NoWindow ELSE CHOOSE w \in Due : \A v \in Due : w <= v

\* A planner that also marks the windows that are merely due.
PlanMarksDue(s) ==
  /\ Late \cup Due # {}
  /\ Goto(s, "awake", "skipping")
  /\ job' = [job EXCEPT ![s] = [NoJob EXCEPT !.late = Late \cup Due, !.window = RunNow]]
  /\ UNCHANGED <<now, raced, pidFile, markers, artifacts>>

\* With nothing late and nothing due the supervisor sleeps and plans again.
Plan(s) ==
  /\ Late \cup Due # {}
  /\ Goto(s, "awake", "skipping")
  /\ job' = [job EXCEPT ![s] = [NoJob EXCEPT !.late = Late, !.window = RunNow]]
  /\ UNCHANGED <<now, raced, pidFile, markers, artifacts>>

WriteSkipMarker(s) ==
  /\ phase[s] = "skipping"
  /\ \E w \in job[s].late :
       /\ skipped' = skipped \cup {w}
       /\ job' = [job EXCEPT ![s].late = @ \ {w}]
  /\ UNCHANGED <<now, raced, pidFile, phase, marker, artifacts>>

SkipsWritten(s) ==
  /\ job[s].late = {}
  /\ Goto(s, "skipping", IF job[s].window = NoWindow THEN "awake" ELSE "starting")
  /\ UNCHANGED <<now, raced, pidFile, job, markers, artifacts>>

-----------------------------------------------------------------------------
(***************************************************************************)
(* run_scheduled_session and its loop.  The caller's acquire may return a  *)
(* snapshot, refuse with an error the loop catches, or raise anything else.*)
(***************************************************************************)
\* WINDOW_ALREADY_COMPLETED ends the supervisor: nothing catches it.
StartSession(s) ==
  /\ phase[s] = "starting"
  /\ IF marker[job[s].window] = Absent
     THEN Goto(s, "starting", "acquiring") /\ UNCHANGED <<pidFile, job>>
     ELSE Leaves(s)
  /\ UNCHANGED <<now, raced, markers, artifacts>>

Attempts(j) == j.accepted + j.refused

\* A loop whose range ends one attempt early.
ShortLoop(j) == Attempts(j) + 1 >= Snapshots[j.window] \/ j.consecutive = RefusalLimit

LoopOver(j) == Attempts(j) = Snapshots[j.window] \/ j.consecutive = RefusalLimit

AfterAttempt(s, j) ==
  /\ job' = [job EXCEPT ![s] = j]
  /\ phase' = [phase EXCEPT ![s] = IF LoopOver(j) THEN "marking" ELSE "acquiring"]

Accept(s) ==
  /\ phase[s] \in Asking
  /\ AfterAttempt(s, [job[s] EXCEPT !.accepted = @ + 1, !.consecutive = 0])
  /\ UNCHANGED <<now, raced, pidFile, markers, artifacts>>

\* A loop that asks again after a refused retry, without counting it.
RefuseUncounted(s) ==
  /\ Goto(s, "retrying", "acquiring")
  /\ UNCHANGED <<now, raced, pidFile, job, markers, artifacts>>

Refuse(s) ==
  /\ phase[s] \in Asking
  /\ AfterAttempt(s, [job[s] EXCEPT !.refused = @ + 1, !.consecutive = @ + 1])
  /\ UNCHANGED <<now, raced, pidFile, markers, artifacts>>

\* REFRESH_TOO_SOON: wait and ask once more within the same attempt.
TooSoon(s) ==
  /\ Goto(s, "acquiring", "retrying")
  /\ UNCHANGED <<now, raced, pidFile, job, markers, artifacts>>

\* The completion marker, atomically, before any post-step.
WriteMarker(s) ==
  /\ Goto(s, "marking", "ledger")
  /\ marker' = [marker EXCEPT ![job[s].window] =
                  [accepted |-> job[s].accepted, refused |-> job[s].refused,
                   stopped |-> job[s].consecutive = RefusalLimit]]
  /\ UNCHANGED <<now, raced, pidFile, job, skipped, artifacts>>

-----------------------------------------------------------------------------
(***************************************************************************)
(* The post-steps.  Each is caught when it fails and noted in the record.  *)
(***************************************************************************)
PostStep(s, from, to, j) ==
  /\ Goto(s, from, to)
  /\ job' = [job EXCEPT ![s] = j]
  /\ UNCHANGED <<now, raced, pidFile, markers>>

Failed(j) == [j EXCEPT !.errors = TRUE]

\* Two accepted snapshots are needed for a measurement.
AfterLedger(j) == IF j.accepted >= 2 THEN "extract" ELSE "record"

WriteLedger(s) ==
  LET j == job[s] IN
  \/ /\ PostStep(s, "ledger", AfterLedger(j), j)
     /\ ledger' = ledger \cup {j.window}
     /\ UNCHANGED <<measurement, aggregate, record>>
  \/ /\ PostStep(s, "ledger", AfterLedger(j), Failed(j))
     /\ UNCHANGED artifacts

\* A failing extraction keeps the results it already has.
Extract(s) ==
  /\ \/ PostStep(s, "extract", "measure", [job[s] EXCEPT !.extracted = "all"])
     \/ PostStep(s, "extract", "measure", Failed([job[s] EXCEPT !.extracted = "some"]))
     \/ PostStep(s, "extract", "record", Failed(job[s]))
  /\ UNCHANGED artifacts

\* measurement_written is set before the file is written.
MeasureTooEarly(s) ==
  \/ /\ PostStep(s, "measure", "measuring", [job[s] EXCEPT !.measured = TRUE])
     /\ measurement' = [measurement EXCEPT ![job[s].window] = "torn"]
     /\ UNCHANGED <<ledger, aggregate, record>>
  \/ /\ PostStep(s, "measure", "aggregate", Failed(job[s]))
     /\ UNCHANGED artifacts

\* The measurement is computed and the file opened, which truncates it: this
\* is the one artifact that is not written to a temporary file first.
Measure(s) ==
  \/ /\ PostStep(s, "measure", "measuring", job[s])
     /\ measurement' = [measurement EXCEPT ![job[s].window] = "torn"]
     /\ UNCHANGED <<ledger, aggregate, record>>
  \/ /\ PostStep(s, "measure", "aggregate", Failed(job[s]))
     /\ UNCHANGED artifacts

MeasurementWritten(s) ==
  \/ /\ PostStep(s, "measuring", "aggregate", [job[s] EXCEPT !.measured = TRUE])
     /\ measurement' = [measurement EXCEPT ![job[s].window] = job[s].extracted]
     /\ UNCHANGED <<ledger, aggregate, record>>
  \/ /\ PostStep(s, "measuring", "aggregate", Failed(job[s]))
     /\ UNCHANGED artifacts

WriteAggregate(s) ==
  \/ /\ PostStep(s, "aggregate", "record", [job[s] EXCEPT !.aggregated = TRUE])
     /\ aggregate' = aggregate \cup {job[s].window}
     /\ UNCHANGED <<ledger, measurement, record>>
  \/ /\ PostStep(s, "aggregate", "record", Failed(job[s]))
     /\ UNCHANGED artifacts

WriteRecord(s) ==
  \/ /\ PostStep(s, "record", "retention", job[s])
     /\ record' = [record EXCEPT ![job[s].window] =
                     [measured |-> job[s].measured, aggregated |-> job[s].aggregated,
                      errors |-> job[s].errors]]
     /\ UNCHANGED <<ledger, measurement, aggregate>>
  \/ /\ PostStep(s, "record", "retention", job[s])
     /\ UNCHANGED artifacts

\* The retention report that follows a session is read by no step.  It lists
\* a window once its measurement exists, a torn one too.
RetentionReport(s) ==
  /\ Goto(s, "retention", "awake")
  /\ job' = [job EXCEPT ![s] = NoJob]
  /\ UNCHANGED <<now, raced, pidFile, markers, artifacts>>

\* run --once
ExitAfterSession(s) ==
  /\ phase[s] = "retention"
  /\ Leaves(s)
  /\ UNCHANGED <<now, raced, markers, artifacts>>

-----------------------------------------------------------------------------
(***************************************************************************)
(* The environment.                                                        *)
(***************************************************************************)

\* An exception nothing catches: a marker that cannot be written, a refresh
\* error that is neither of the two the loop expects, an interrupt.
Raises(s) ==
  /\ phase[s] \in Supervising
  /\ Leaves(s)
  /\ UNCHANGED <<now, raced, markers, artifacts>>

Killed(s) ==
  /\ Alive(s)
  /\ phase' = [phase EXCEPT ![s] = "off"]
  /\ job' = [job EXCEPT ![s] = NoJob]
  /\ pidFile' = IF pidFile = s THEN Stale ELSE pidFile
  /\ UNCHANGED <<now, raced, markers, artifacts>>

Tick ==
  /\ now < MaxTime
  /\ now' = now + 1
  /\ UNCHANGED <<raced, pidFile, phase, job, markers, artifacts>>

Claim(s) == ClaimChecked(s) \/ RefuseSecond(s) \/ WritePid(s)

Session(s) ==
  \/ StartSession(s) \/ Accept(s) \/ Refuse(s) \/ TooSoon(s) \/ WriteMarker(s)
  \/ WriteLedger(s) \/ Extract(s) \/ Measure(s) \/ MeasurementWritten(s)
  \/ WriteAggregate(s) \/ WriteRecord(s)
  \/ RetentionReport(s) \/ ExitAfterSession(s)

Work(s) == Claim(s) \/ Plan(s) \/ WriteSkipMarker(s) \/ SkipsWritten(s) \/ Session(s)

Next ==
  \/ \E s \in Supervisors : Launch(s) \/ Work(s) \/ Raises(s) \/ Killed(s)
  \/ Tick

Spec == Init /\ [][Next]_vars

\* A live supervisor keeps working; nobody has to launch or to kill one.
FairSpec == Spec /\ \A s \in Supervisors : WF_vars(Work(s))

-----------------------------------------------------------------------------
(***************************************************************************)
(* Properties.                                                             *)
(***************************************************************************)

\* Types of the files and of every supervisor's locals.
TypeOK ==
  /\ now \in 0 .. MaxTime
  /\ pidFile \in Supervisors \cup {NoPid, Stale}
  /\ phase \in [Supervisors -> Phases]
  /\ job \in [Supervisors -> Job]
  /\ marker \in [Windows -> Marker \cup {Absent}]
  /\ skipped \subseteq Windows
  /\ ledger \subseteq Windows
  /\ measurement \in [Windows -> Measurements]
  /\ aggregate \subseteq Windows
  /\ record \in [Windows -> Record \cup {Absent}]
  /\ raced \in BOOLEAN

\* "Pid-file singleton: a second supervisor refuses to start", says
\* supervisor_singleton.  The code does not keep to it: two that both check the
\* file before either writes it both go on to supervise.
OneSupervisor ==
  \A s, t \in Supervisors :
    phase[s] \in Supervising /\ phase[t] \in Supervising => s = t

\* What the pid file does achieve: two supervise at once only after such a race.
\* Stale files, kills at any step, an owner that leaves while another checks
\* and launches beside a live owner never lead to it.
RivalsRaced == raced \/ OneSupervisor

\* "A window with a completion or skip marker is never touched again": unless
\* the pid file was raced for, no session asks for snapshots of a resolved
\* window, over crashes, relaunches and overlapping windows.
ResolvedWindowsRest ==
  raced \/ \A s \in Supervisors :
    phase[s] \in {"starting", "marking"} \cup Asking => ~Resolved(job[s].window)

\* The marker accounts for every attempt of the window, unless the session was
\* stopped by refusals in a row, and says so exactly then.
MarkerAccounts ==
  \A w \in Windows : marker[w] # Absent =>
    /\ marker[w].accepted + marker[w].refused = Snapshots[w] \/ marker[w].stopped
    /\ marker[w].stopped => marker[w].refused >= RefusalLimit

\* The session record is true of the files beside it: what it lists exists
\* and is intact, and without errors everything the session owes is there.
\* Two sessions of one window, after a race for the pid file, share the files.
RecordTellsTruth ==
  raced \/ \A w \in Windows : record[w] # Absent =>
    /\ record[w].measured => measurement[w] \in {"some", "all"}
    /\ record[w].aggregated => w \in aggregate
    /\ measurement[w] \in {"torn", "some"} => record[w].errors
    /\ ~record[w].errors =>
         /\ w \in ledger
         /\ marker[w].accepted >= 2 => measurement[w] = "all" /\ w \in aggregate

\* "A same-day window found beyond the tolerance is skip-marked": it does not
\* stay unresolved while a supervisor keeps planning.
LateWindowsSettle ==
  \A w \in Windows :
    (/\ InSight(w) /\ ~Resolved(w) /\ now > w + Tolerance
     /\ \E s \in Supervisors : phase[s] \in Supervising) ~>
      (Resolved(w) \/ ~InSight(w) \/ \A s \in Supervisors : phase[s] \notin Supervising)

\* Every session ends: refusals and early asks never keep it in its loop.
SessionsEnd ==
  \A s \in Supervisors : phase[s] = "starting" ~> phase[s] \in {"off", "awake"}

=============================================================================
