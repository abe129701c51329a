--------------------- MODULE BodsScheduledSessionsProofs ---------------------
(***************************************************************************)
(* Proofs about BodsScheduledSessions, for every number of supervisors,    *)
(* every set of windows and every bound.  What depends on there being one  *)
(* supervisor is proved of every state that no race for the pid file leads *)
(* to.                                                                     *)
(***************************************************************************)
EXTENDS BodsScheduledSessions, WellFoundedInduction, TLAPS

\* The first due window is one of those that are due.
LEMMA RunNowIsDue == RunNow = NoWindow \/ RunNow \in Due
<1> SUFFICES ASSUME Due # {} PROVE \E w \in Due : \A v \in Due : w <= v
  BY DEF RunNow
<1>1. Due \subseteq Nat
  BY WindowsAssumption DEF Due
<1>2. PICK w \in Due : \A v \in Due : <<v, w>> \notin OpToRel(<, Nat)
  BY <1>1, NatLessThanWellFounded, WFMin, Zenon
<1>3. \A v \in Due : ~ (v < w)
  <2>1. \A v \in Due : <<v, w>> \in OpToRel(<, Nat) <=> v < w
    BY <1>1, Zenon DEF OpToRel
  <2> QED BY <1>2, <2>1
<1>4. \A v, u \in Nat : ~ (v < u) => u <= v
  OBVIOUS
<1> QED BY <1>1, <1>3, <1>4, Zenon

-----------------------------------------------------------------------------
(* Types, and what the loop of a session has counted.                      *)

InSession == {"starting", "marking"} \union Asking \union PostSteps

\* Where a supervisor is bounds what its session has counted; nothing is
\* counted before the loop begins.
JobFits(j, at) ==
  /\ j.consecutive <= j.refused
  /\ at \in Asking => Attempts(j) < Snapshots[j.window] /\ j.consecutive < RefusalLimit
  /\ at = "marking" => LoopOver(j)
  /\ at \in InSession => j.window \in Windows
  /\ at \in {"skipping", "starting"} =>
       /\ j.accepted = 0 /\ j.refused = 0 /\ j.consecutive = 0
       /\ j.extracted = "none" /\ ~ j.measured /\ ~ j.aggregated /\ ~ j.errors
  /\ at \in Asking \union {"marking", "ledger"} =>
       j.extracted = "none" /\ ~ j.measured /\ ~ j.aggregated /\ ~ j.errors

JobsFit == \A s \in Supervisors : JobFits(job[s], phase[s])

Counted == TypeOK /\ JobsFit /\ MarkerAccounts

LEMMA NoJobFits == NoJob \in Job /\ \A at \in {"off", "checking", "claiming", "awake"} : JobFits(NoJob, at)
<1>1. NoJob \in Job
  BY ScheduleAssumption DEF NoJob, Job
<1>2. \A at \in {"off", "checking", "claiming", "awake"} : JobFits(NoJob, at)
  BY ScheduleAssumption DEF NoJob, JobFits, Asking, InSession, PostSteps
<1> QED BY <1>1, <1>2

LEMMA InitCounts == Init => Counted
<1> SUFFICES ASSUME Init PROVE Counted
  OBVIOUS
<1>1. TypeOK
  <2>1. now \in 0 .. MaxTime
    <3>1. MaxTime \in Nat
      BY ScheduleAssumption
    <3> QED BY <3>1 DEF Init
  <2>6. raced \in BOOLEAN
    BY Zenon DEF Init
  <2>2. phase \in [Supervisors -> Phases] /\ job \in [Supervisors -> Job]
    BY NoJobFits DEF Init, Phases
  <2>3. marker \in [Windows -> Marker \union {Absent}] /\ record \in [Windows -> Record \union {Absent}]
    BY DEF Init
  <2>4. measurement \in [Windows -> Measurements]
    BY DEF Init, Measurements
  <2>5. pidFile \in Supervisors \union {NoPid, Stale} /\ skipped \subseteq Windows /\ ledger \subseteq Windows
        /\ aggregate \subseteq Windows
    BY DEF Init
  <2> QED BY <2>1, <2>2, <2>3, <2>4, <2>5, <2>6 DEF TypeOK
<1>2. JobsFit
  BY NoJobFits DEF Init, JobsFit
<1>3. MarkerAccounts
  BY DEF Init, MarkerAccounts
<1> QED BY <1>1, <1>2, <1>3 DEF Counted

\* A step that moves one supervisor and leaves the files alone.
LEMMA Moving ==
  ASSUME Counted, NEW s \in Supervisors, NEW to \in Phases, NEW j \in Job, JobFits(j, to),
         phase' = [phase EXCEPT ![s] = to], job' = [job EXCEPT ![s] = j],
         pidFile' \in Supervisors \union {NoPid, Stale}, now' = now, UNCHANGED marker,
         skipped' \subseteq Windows, ledger' \subseteq Windows, aggregate' \subseteq Windows,
         measurement' \in [Windows -> Measurements], record' \in [Windows -> Record \union {Absent}],
         raced' \in BOOLEAN
  PROVE  Counted'
<1>1. TypeOK'
  BY DEF Counted, TypeOK
<1>2. JobsFit'
  BY DEF Counted, TypeOK, JobsFit
<1>3. MarkerAccounts'
  BY DEF Counted, MarkerAccounts
<1> QED BY <1>1, <1>2, <1>3 DEF Counted

\* The same for a step that leaves the locals as they are.
LEMMA Going ==
  ASSUME Counted, NEW s \in Supervisors, NEW from, NEW to \in Phases, Goto(s, from, to),
         JobFits(job[s], from) => JobFits(job[s], to),
         pidFile' \in Supervisors \union {NoPid, Stale}, raced' \in BOOLEAN,
         UNCHANGED <<now, job, markers, artifacts>>
  PROVE  Counted'
<1>1. job[s] \in Job /\ job' = [job EXCEPT ![s] = job[s]]
  BY DEF Counted, TypeOK
<1>2. JobFits(job[s], to)
  BY DEF Counted, JobsFit, Goto
<1>3. phase' = [phase EXCEPT ![s] = to] /\ now' = now /\ UNCHANGED marker
  BY DEF Goto, markers
<1>4. /\ skipped' \subseteq Windows /\ ledger' \subseteq Windows /\ aggregate' \subseteq Windows
      /\ measurement' \in [Windows -> Measurements] /\ record' \in [Windows -> Record \union {Absent}]
  BY DEF Counted, TypeOK, markers, artifacts
<1> QED BY <1>1, <1>2, <1>3, <1>4, Moving

\* A supervisor that is gone has no locals.
LEMMA Leaving ==
  ASSUME Counted, NEW s \in Supervisors,
         phase' = [phase EXCEPT ![s] = "off"], job' = [job EXCEPT ![s] = NoJob],
         pidFile' \in {pidFile, NoPid, Stale}, UNCHANGED <<now, raced, markers, artifacts>>
  PROVE  Counted'
<1>1. "off" \in Phases /\ pidFile' \in Supervisors \union {NoPid, Stale}
  BY DEF Counted, TypeOK, Phases
<1>2. /\ skipped' \subseteq Windows /\ ledger' \subseteq Windows /\ aggregate' \subseteq Windows
      /\ measurement' \in [Windows -> Measurements] /\ record' \in [Windows -> Record \union {Absent}]
      /\ now' = now /\ UNCHANGED marker /\ raced' \in BOOLEAN
  BY DEF Counted, TypeOK, markers, artifacts
<1> QED BY <1>1, <1>2, NoJobFits, Moving

LEMMA ClaimCounts ==
  ASSUME Counted, NEW s \in Supervisors, Launch(s) \/ Claim(s)
  PROVE  Counted'
<1> USE DEF JobFits, Asking, InSession, PostSteps
<1>0. {"off", "checking", "claiming", "awake"} \subseteq Phases
  BY DEF Phases, Supervising
<1>1. pidFile \in Supervisors \union {NoPid, Stale} /\ raced \in BOOLEAN
  BY DEF Counted, TypeOK
<1>2. CASE Launch(s)
  BY <1>0, <1>1, <1>2, Going DEF Launch
<1>3. CASE ClaimChecked(s)
  BY <1>0, <1>1, <1>3, Going DEF ClaimChecked
<1>4. CASE RefuseSecond(s)
  BY <1>0, <1>1, <1>4, Going DEF RefuseSecond
<1>5. CASE WritePid(s)
  BY <1>0, <1>1, <1>5, Going DEF WritePid
<1> QED BY <1>2, <1>3, <1>4, <1>5 DEF Claim

LEMMA PlanCounts ==
  ASSUME Counted, NEW s \in Supervisors, Plan(s) \/ WriteSkipMarker(s) \/ SkipsWritten(s) \/ StartSession(s)
  PROVE  Counted'
<1>1. /\ pidFile \in Supervisors \union {NoPid, Stale} /\ job[s] \in Job /\ JobFits(job[s], phase[s])
      /\ raced \in BOOLEAN
  BY DEF Counted, TypeOK, JobsFit
<1>2. /\ skipped \subseteq Windows /\ ledger \subseteq Windows /\ aggregate \subseteq Windows
      /\ measurement \in [Windows -> Measurements] /\ record \in [Windows -> Record \union {Absent}]
  BY DEF Counted, TypeOK
<1>3. CASE Plan(s)
  <2> DEFINE j == [NoJob EXCEPT !.late = Late, !.window = RunNow]
  <2>1. Late \subseteq Windows /\ RunNow \in Windows \union {NoWindow}
    BY RunNowIsDue DEF Late, Due
  <2>2. j \in Job
    BY <2>1, NoJobFits DEF Job
  <2>3. JobFits(j, "skipping")
    BY ScheduleAssumption DEF JobFits, NoJob, Asking, InSession, PostSteps
  <2>4. "skipping" \in Phases /\ phase' = [phase EXCEPT ![s] = "skipping"] /\ job' = [job EXCEPT ![s] = j]
    BY <1>3 DEF Plan, Goto, Phases, Supervising
  <2>5. UNCHANGED <<now, raced, pidFile, markers, artifacts>>
    BY <1>3 DEF Plan
  <2> HIDE DEF j
  <2> QED BY <1>1, <1>2, <2>2, <2>3, <2>4, <2>5, Moving DEF markers, artifacts
<1>4. CASE WriteSkipMarker(s)
  <2>1. PICK w \in job[s].late : skipped' = skipped \union {w} /\ job' = [job EXCEPT ![s].late = @ \ {w}]
    BY <1>4 DEF WriteSkipMarker
  <2> DEFINE j == [job[s] EXCEPT !.late = @ \ {w}]
  <2>2. w \in Windows /\ j \in Job
    BY <1>1 DEF Job
  <2>3. JobFits(j, "skipping")
    BY <1>1, <1>4 DEF JobFits, Job, Attempts, LoopOver, WriteSkipMarker, Asking, InSession, PostSteps
  <2>4. "skipping" \in Phases /\ phase' = [phase EXCEPT ![s] = "skipping"] /\ job' = [job EXCEPT ![s] = j]
    BY <1>1, <1>4, <2>1 DEF Counted, TypeOK, WriteSkipMarker, Phases, Supervising
  <2>5. skipped' \subseteq Windows
    BY <1>2, <2>1, <2>2
  <2>6. UNCHANGED <<now, raced, pidFile, marker, artifacts>>
    BY <1>4 DEF WriteSkipMarker
  <2> HIDE DEF j
  <2> QED BY <1>1, <1>2, <2>2, <2>3, <2>4, <2>5, <2>6, Moving DEF artifacts
<1>5. CASE SkipsWritten(s)
  <2>1. PICK to \in {"awake", "starting"} :
          /\ Goto(s, "skipping", to)
          /\ to = "starting" => job[s].window # NoWindow
    BY <1>5 DEF SkipsWritten
  <2>2. JobFits(job[s], "skipping") => JobFits(job[s], to)
    BY <1>1, <2>1 DEF JobFits, Job, Asking, InSession, PostSteps
  <2>3. to \in Phases
    BY DEF Phases, Supervising
  <2> QED BY <1>1, <1>5, <2>1, <2>2, <2>3, Going DEF SkipsWritten
<1>6. CASE StartSession(s)
  <2>1. JobFits(job[s], "starting") => JobFits(job[s], "acquiring")
    BY <1>1, ScheduleAssumption DEF JobFits, Job, Attempts, Asking, InSession, PostSteps
  <2>2. "acquiring" \in Phases
    BY DEF Phases, Supervising, Asking
  <2>3. CASE marker[job[s].window] = Absent
    BY <1>1, <1>6, <2>1, <2>2, <2>3, Going DEF StartSession
  <2>4. CASE marker[job[s].window] # Absent
    BY <1>6, <2>4, Leaving DEF StartSession, Leaves
  <2> QED BY <2>3, <2>4
<1> QED BY <1>3, <1>4, <1>5, <1>6

LEMMA AttemptCounts ==
  ASSUME Counted, NEW s \in Supervisors, Accept(s) \/ Refuse(s) \/ TooSoon(s)
  PROVE  Counted'
<1>1. /\ pidFile \in Supervisors \union {NoPid, Stale} /\ job[s] \in Job /\ JobFits(job[s], phase[s])
      /\ raced \in BOOLEAN /\ skipped \subseteq Windows /\ ledger \subseteq Windows /\ aggregate \subseteq Windows
      /\ measurement \in [Windows -> Measurements] /\ record \in [Windows -> Record \union {Absent}]
  BY DEF Counted, TypeOK, JobsFit
<1>2. CASE Accept(s) \/ Refuse(s)
  <2> DEFINE one == [job[s] EXCEPT !.accepted = @ + 1, !.consecutive = 0]
             other == [job[s] EXCEPT !.refused = @ + 1, !.consecutive = @ + 1]
  <2>1. PICK j \in {one, other} : AfterAttempt(s, j)
    BY <1>2 DEF Accept, Refuse
  <2>2. /\ phase[s] \in Asking /\ Attempts(job[s]) < Snapshots[job[s].window] /\ job[s].consecutive < RefusalLimit
        /\ job[s].consecutive <= job[s].refused /\ job[s].window \in Windows
    BY <1>1, <1>2 DEF Accept, Refuse, JobFits, InSession
  <2>3. /\ job[s].accepted \in Nat /\ job[s].refused \in Nat /\ job[s].consecutive \in Nat
        /\ Snapshots[job[s].window] \in Nat \ {0} /\ RefusalLimit \in Nat \ {0}
    BY <1>1, <2>2, ScheduleAssumption DEF Job
  <2>4. one \in Job /\ other \in Job
    <3>1. /\ job[s].accepted + 1 \in Nat /\ job[s].refused + 1 \in Nat
          /\ job[s].consecutive + 1 \in 0 .. RefusalLimit /\ 0 \in 0 .. RefusalLimit
      BY <2>2, <2>3 DEF Attempts
    <3> QED BY <1>1, <3>1 DEF Job
  <2>5. /\ j \in Job /\ j.consecutive <= j.refused /\ j.window \in Windows /\ j.window = job[s].window
        /\ j.accepted \in Nat /\ j.refused \in Nat /\ j.consecutive \in Nat
        /\ Attempts(j) <= Snapshots[j.window] /\ j.consecutive <= RefusalLimit
        /\ j.extracted = job[s].extracted /\ j.measured = job[s].measured
        /\ j.aggregated = job[s].aggregated /\ j.errors = job[s].errors
    <3>1. CASE j = one
      BY <1>1, <2>2, <2>3, <2>4, <3>1 DEF Attempts, Job
    <3>2. CASE j = other
      BY <1>1, <2>2, <2>3, <2>4, <3>2 DEF Attempts, Job
    <3> QED BY <2>1, <3>1, <3>2
  <2> DEFINE to == IF LoopOver(j) THEN "marking" ELSE "acquiring"
  <2>6. ~ LoopOver(j) => Attempts(j) < Snapshots[j.window] /\ j.consecutive < RefusalLimit
    BY <2>3, <2>5 DEF LoopOver, Attempts
  <2>7. JobFits(j, to)
    BY <1>1, <2>2, <2>5, <2>6 DEF JobFits, Asking, InSession, PostSteps
  <2>8. phase' = [phase EXCEPT ![s] = to] /\ job' = [job EXCEPT ![s] = j] /\ to \in Phases
    BY <2>1 DEF AfterAttempt, Phases, Supervising, Asking
  <2>9. UNCHANGED <<now, raced, pidFile, markers, artifacts>>
    BY <1>2 DEF Accept, Refuse
  <2> HIDE DEF to
  <2> QED BY <1>1, <2>5, <2>7, <2>8, <2>9, Moving DEF markers, artifacts
<1>3. CASE TooSoon(s)
  <2>1. JobFits(job[s], "acquiring") => JobFits(job[s], "retrying")
    BY DEF JobFits, Asking, InSession
  <2>2. "retrying" \in Phases
    BY DEF Phases, Supervising, Asking
  <2> QED BY <1>1, <1>3, <2>1, <2>2, Going DEF TooSoon
<1> QED BY <1>2, <1>3

\* The marker is what the loop counted when it was over.
LEMMA MarkerCounts ==
  ASSUME Counted, NEW s \in Supervisors, WriteMarker(s)
  PROVE  Counted'
<1> DEFINE j == job[s]
           m == [accepted |-> j.accepted, refused |-> j.refused, stopped |-> j.consecutive = RefusalLimit]
<1>1. j \in Job /\ phase[s] = "marking" /\ LoopOver(j) /\ j.consecutive <= j.refused /\ j.window \in Windows
  BY DEF Counted, TypeOK, JobsFit, JobFits, WriteMarker, Goto, InSession
<1>2. m \in Marker
  BY <1>1, Zenon DEF Job, Marker
<1>3. marker' = [marker EXCEPT ![j.window] = m]
  BY DEF WriteMarker
<1>4. phase' = [phase EXCEPT ![s] = "ledger"] /\ UNCHANGED <<now, raced, pidFile, job, skipped, artifacts>>
  BY DEF WriteMarker, Goto
<1>5. TypeOK'
  <2>1. marker' \in [Windows -> Marker \union {Absent}]
    BY <1>1, <1>2, <1>3 DEF Counted, TypeOK
  <2>2. phase' \in [Supervisors -> Phases]
    BY <1>4 DEF Counted, TypeOK, Phases, Supervising, PostSteps
  <2> QED BY <1>4, <2>1, <2>2 DEF Counted, TypeOK, artifacts
<1>6. JobsFit'
  <2>1. JobFits(j, "marking") => JobFits(j, "ledger")
    BY DEF JobFits, Asking, InSession, PostSteps
  <2> QED BY <1>1, <1>4, <2>1 DEF Counted, TypeOK, JobsFit
<1>7. MarkerAccounts'
  <2> SUFFICES ASSUME NEW w \in Windows, marker'[w] # Absent
               PROVE  /\ marker'[w].accepted + marker'[w].refused = Snapshots[w] \/ marker'[w].stopped
                      /\ marker'[w].stopped => marker'[w].refused >= RefusalLimit
    BY DEF MarkerAccounts
  <2>1. CASE w = j.window
    <3>1. marker'[w] = m
      BY <1>3, <2>1 DEF Counted, TypeOK
    <3>2. j.accepted + j.refused = Snapshots[w] \/ j.consecutive = RefusalLimit
      BY <1>1, <2>1 DEF LoopOver, Attempts
    <3>3. j.consecutive = RefusalLimit => j.refused >= RefusalLimit
      BY <1>1, ScheduleAssumption DEF Job
    <3>4. marker'[w].accepted = j.accepted /\ marker'[w].refused = j.refused
      BY <3>1
    <3>5. marker'[w].stopped <=> j.consecutive = RefusalLimit
      <4>1. \A a, r, b : [accepted |-> a, refused |-> r, stopped |-> b].stopped = b
        OBVIOUS
      <4>2. m.stopped = (j.consecutive = RefusalLimit)
        BY <4>1, Zenon
      <4> QED BY <3>1, <4>2, Zenon
    <3> HIDE DEF j, m
    <3> QED BY <3>2, <3>3, <3>4, <3>5
  <2>2. CASE w # j.window
    BY <1>3, <2>2 DEF Counted, TypeOK, MarkerAccounts
  <2> QED BY <2>1, <2>2
<1> QED BY <1>5, <1>6, <1>7 DEF Counted

LEMMA PostStepCounts ==
  ASSUME Counted, NEW s \in Supervisors,
         \/ WriteLedger(s) \/ Extract(s) \/ Measure(s) \/ MeasurementWritten(s)
         \/ WriteAggregate(s) \/ WriteRecord(s)
  PROVE  Counted'
<1>1. /\ pidFile \in Supervisors \union {NoPid, Stale} /\ job[s] \in Job /\ JobFits(job[s], phase[s])
      /\ raced \in BOOLEAN /\ skipped \subseteq Windows /\ ledger \subseteq Windows /\ aggregate \subseteq Windows
      /\ measurement \in [Windows -> Measurements] /\ record \in [Windows -> Record \union {Absent}]
  BY DEF Counted, TypeOK, JobsFit
<1> DEFINE steps == {job[s], Failed(job[s]), [job[s] EXCEPT !.extracted = "all"],
                     Failed([job[s] EXCEPT !.extracted = "some"]),
                     [job[s] EXCEPT !.measured = TRUE], [job[s] EXCEPT !.aggregated = TRUE]}
<1>2. \A j \in steps : /\ j \in Job /\ j.consecutive = job[s].consecutive
                       /\ j.refused = job[s].refused /\ j.window = job[s].window
  BY <1>1 DEF Job, Failed
<1>3. AfterLedger(job[s]) \in {"extract", "record"}
  BY DEF AfterLedger
<1>4. \E from \in PostSteps, to \in PostSteps \ {"ledger"}, j \in steps : PostStep(s, from, to, j)
  <2> USE DEF PostSteps
  <2> HIDE DEF steps
  <2>0. /\ job[s] \in steps /\ Failed(job[s]) \in steps /\ [job[s] EXCEPT !.extracted = "all"] \in steps
        /\ Failed([job[s] EXCEPT !.extracted = "some"]) \in steps
        /\ [job[s] EXCEPT !.measured = TRUE] \in steps /\ [job[s] EXCEPT !.aggregated = TRUE] \in steps
    BY DEF steps
  <2>1. CASE WriteLedger(s)
    BY <1>3, <2>0, <2>1 DEF WriteLedger
  <2>2. CASE Extract(s)
    BY <2>0, <2>2 DEF Extract
  <2>3. CASE Measure(s)
    BY <2>0, <2>3 DEF Measure
  <2>4. CASE MeasurementWritten(s)
    BY <2>0, <2>4 DEF MeasurementWritten
  <2>5. CASE WriteAggregate(s)
    BY <2>0, <2>5 DEF WriteAggregate
  <2>6. CASE WriteRecord(s)
    BY <2>0, <2>6 DEF WriteRecord
  <2> QED BY <2>1, <2>2, <2>3, <2>4, <2>5, <2>6
<1>5. PICK from \in PostSteps, to \in PostSteps \ {"ledger"}, j \in Job :
        /\ phase[s] = from /\ PostStep(s, from, to, j)
        /\ j.consecutive = job[s].consecutive /\ j.refused = job[s].refused /\ j.window = job[s].window
  <2> HIDE DEF steps
  <2> QED BY <1>2, <1>4 DEF PostStep, Goto
<1>6. job[s].window \in Windows
  BY <1>1, <1>5 DEF JobFits, InSession
<1>7. JobFits(j, to)
  BY <1>1, <1>5 DEF JobFits, Asking, InSession, PostSteps
<1>8. /\ ledger' \subseteq Windows /\ aggregate' \subseteq Windows
      /\ measurement' \in [Windows -> Measurements] /\ record' \in [Windows -> Record \union {Absent}]
  <2>1. CASE WriteLedger(s)
    BY <1>1, <1>6, <2>1 DEF WriteLedger, artifacts
  <2>2. CASE Extract(s)
    BY <1>1, <2>2 DEF Extract, artifacts
  <2>3. CASE Measure(s)
    BY <1>1, <1>6, <2>3 DEF Measure, artifacts, Measurements
  <2>4. CASE MeasurementWritten(s)
    BY <1>1, <1>6, <2>4 DEF MeasurementWritten, artifacts, Measurements, Job
  <2>5. CASE WriteAggregate(s)
    BY <1>1, <1>6, <2>5 DEF WriteAggregate, artifacts
  <2>6. CASE WriteRecord(s)
    <3> DEFINE r == [measured |-> job[s].measured, aggregated |-> job[s].aggregated, errors |-> job[s].errors]
    <3>1. r \in Record
      BY <1>1 DEF Record, Job
    <3>2. record' \in {record, [record EXCEPT ![job[s].window] = r]}
      BY <2>6 DEF WriteRecord, artifacts
    <3>3. record' \in [Windows -> Record \union {Absent}]
      BY <1>1, <3>1, <3>2
    <3> QED BY <1>1, <2>6, <3>3 DEF WriteRecord, artifacts
  <2> QED BY <2>1, <2>2, <2>3, <2>4, <2>5, <2>6
<1>9. /\ phase' = [phase EXCEPT ![s] = to] /\ job' = [job EXCEPT ![s] = j]
      /\ UNCHANGED <<now, raced, pidFile, markers>>
  BY <1>5 DEF PostStep, Goto
<1>10. to \in Phases
  BY DEF Phases, Supervising
<1> QED BY <1>1, <1>5, <1>7, <1>8, <1>9, <1>10, Moving DEF markers

LEMMA EndCounts ==
  ASSUME Counted, NEW s \in Supervisors, RetentionReport(s) \/ ExitAfterSession(s) \/ Raises(s) \/ Killed(s)
  PROVE  Counted'
<1>1. CASE RetentionReport(s)
  <2>1. phase' = [phase EXCEPT ![s] = "awake"] /\ "awake" \in Phases /\ JobFits(NoJob, "awake") /\ NoJob \in Job
    BY <1>1, NoJobFits DEF RetentionReport, Goto, Phases, Supervising
  <2> QED BY <1>1, <2>1, Moving DEF RetentionReport, Counted, TypeOK, markers, artifacts
<1>2. CASE ExitAfterSession(s) \/ Raises(s) \/ Killed(s)
  BY <1>2, Leaving DEF ExitAfterSession, Raises, Killed, Leaves
<1> QED BY <1>1, <1>2

LEMMA NextCounts == Counted /\ [Next]_vars => Counted'
<1> SUFFICES ASSUME Counted, [Next]_vars PROVE Counted'
  OBVIOUS
<1>1. CASE UNCHANGED vars
  BY <1>1 DEF vars, markers, artifacts, Counted, TypeOK, JobsFit, MarkerAccounts
<1>2. CASE Tick
  <2>1. now' \in 0 .. MaxTime
    BY <1>2, ScheduleAssumption DEF Tick, Counted, TypeOK
  <2> QED BY <1>2, <2>1 DEF Tick, markers, artifacts, Counted, TypeOK, JobsFit, MarkerAccounts
<1>3. ASSUME NEW s \in Supervisors, Launch(s) \/ Work(s) \/ Raises(s) \/ Killed(s) PROVE Counted'
  BY <1>3, ClaimCounts, PlanCounts, AttemptCounts, MarkerCounts, PostStepCounts, EndCounts, Zenon DEF Work, Session
<1> QED BY <1>1, <1>2, <1>3 DEF Next

-----------------------------------------------------------------------------
(* What holds for any launches.                                            *)

\* Every file and every local of a supervisor has its type, whatever overlaps.
THEOREM TypeCorrect == Spec => []TypeOK
<1>1. Counted => TypeOK
  BY DEF Counted
<1> QED BY <1>1, InitCounts, NextCounts, PTL DEF Spec

\* A completion marker accounts for all attempts of its window, or says that
\* the session was stopped by refusals in a row, and only then.
THEOREM MarkersAccount == Spec => []MarkerAccounts
<1>1. Counted => MarkerAccounts
  BY DEF Counted
<1> QED BY <1>1, InitCounts, NextCounts, PTL DEF Spec

-----------------------------------------------------------------------------
(* How long a session can go on.                                           *)

\* The phases a session still has before it, one attempt more not counted.
PhasesLeft ==
  [starting |-> 9, acquiring |-> 8, retrying |-> 7, marking |-> 8, ledger |-> 7, extract |-> 6,
   measure |-> 5, measuring |-> 4, aggregate |-> 3, record |-> 2, retention |-> 1]

\* An attempt is made of two steps when it is answered with "too soon".
StepsLeft(at, j) ==
  IF at \notin InSession THEN 0
  ELSE PhasesLeft[at] + IF at \in {"starting"} \union Asking THEN 2 * (Snapshots[j.window] - Attempts(j)) ELSE 0

\* A supervisor stays where it is, or its session is nearer to its end.
SessionAdvances ==
  \A s \in Supervisors : phase[s] \in InSession =>
    \/ phase'[s] = phase[s] /\ job'[s] = job[s]
    \/ StepsLeft(phase'[s], job'[s]) < StepsLeft(phase[s], job[s])

\* How many steps a supervisor may still take in its session.
SessionBounded ==
  \A s \in Supervisors : phase[s] \in InSession =>
    StepsLeft(phase[s], job[s]) \in 1 .. 2 * Snapshots[job[s].window] + 9

LEMMA JobCounts ==
  ASSUME Counted, NEW s \in Supervisors
  PROVE  /\ phase[s] \in Phases /\ job[s] \in Job
         /\ job[s].accepted \in Nat /\ job[s].refused \in Nat /\ job[s].consecutive \in Nat
         /\ Attempts(job[s]) \in Nat
         /\ phase[s] \in InSession => job[s].window \in Windows /\ Snapshots[job[s].window] \in Nat \ {0}
         /\ phase[s] \in Asking => Attempts(job[s]) < Snapshots[job[s].window]
         /\ phase[s] = "starting" => Attempts(job[s]) = 0
<1>1. /\ phase[s] \in Phases /\ job[s] \in Job /\ JobFits(job[s], phase[s])
      /\ job[s].accepted \in Nat /\ job[s].refused \in Nat /\ job[s].consecutive \in Nat
  BY DEF Counted, TypeOK, Job, JobsFit
<1> QED BY <1>1, ScheduleAssumption DEF Attempts, JobFits

LEMMA LoopAdvances ==
  ASSUME Counted, NEW s \in Supervisors, StartSession(s) \/ Accept(s) \/ Refuse(s) \/ TooSoon(s)
  PROVE  StepsLeft(phase'[s], job'[s]) < StepsLeft(phase[s], job[s])
<1> DEFINE left == Snapshots[job[s].window] - Attempts(job[s])
<1>1. /\ phase[s] \in Phases /\ job[s] \in Job /\ left \in Int
      /\ job[s].accepted \in Nat /\ job[s].refused \in Nat /\ job[s].consecutive \in Nat
      /\ phase[s] \in Asking => left >= 1
  BY JobCounts DEF StartSession, Accept, Refuse, TooSoon, Goto, InSession, Asking
<1>2. DOMAIN phase = Supervisors /\ DOMAIN job = Supervisors
  BY DEF Counted, TypeOK
<1>3. CASE StartSession(s)
  <2>1. /\ phase[s] = "starting"
        /\ \/ phase'[s] = "acquiring" /\ job'[s] = job[s]
           \/ phase'[s] = "off"
    BY <1>2, <1>3 DEF StartSession, Goto, Leaves
  <2>2. left >= 1
    BY <2>1, JobCounts DEF InSession
  <2>3. CASE phase'[s] = "acquiring" /\ job'[s] = job[s]
    BY <1>1, <2>1, <2>3 DEF StepsLeft, PhasesLeft, InSession, Asking
  <2>4. CASE phase'[s] = "off"
    <3>1. StepsLeft(phase'[s], job'[s]) = 0
      BY <2>4 DEF StepsLeft, InSession, Asking, PostSteps
    <3>2. StepsLeft(phase[s], job[s]) = 9 + 2 * left
      BY <2>1 DEF StepsLeft, PhasesLeft, InSession
    <3> QED BY <1>1, <2>2, <3>1, <3>2
  <2> QED BY <2>1, <2>3, <2>4
<1>4. CASE TooSoon(s)
  <2>1. phase[s] = "acquiring" /\ phase'[s] = "retrying" /\ job'[s] = job[s]
    BY <1>2, <1>4 DEF TooSoon, Goto
  <2> QED BY <1>1, <2>1 DEF StepsLeft, PhasesLeft, InSession, Asking
<1>5. CASE Accept(s) \/ Refuse(s)
  <2>1. PICK j \in {[job[s] EXCEPT !.accepted = @ + 1, !.consecutive = 0],
                    [job[s] EXCEPT !.refused = @ + 1, !.consecutive = @ + 1]} :
          AfterAttempt(s, j) /\ phase[s] \in Asking
    BY <1>5 DEF Accept, Refuse
  <2>2. Attempts(j) = Attempts(job[s]) + 1
    <3>1. CASE j = [job[s] EXCEPT !.accepted = @ + 1, !.consecutive = 0]
      <4>1. j.accepted = job[s].accepted + 1 /\ j.refused = job[s].refused
        BY <1>1, <3>1 DEF Job
      <4> QED BY <1>1, <4>1 DEF Attempts
    <3>2. CASE j = [job[s] EXCEPT !.refused = @ + 1, !.consecutive = @ + 1]
      <4>1. j.refused = job[s].refused + 1 /\ j.accepted = job[s].accepted
        BY <1>1, <3>2 DEF Job
      <4> QED BY <1>1, <4>1 DEF Attempts
    <3> QED BY <2>1, <3>1, <3>2
  <2>3. job'[s] = j /\ phase'[s] \in {"marking", "acquiring"}
    BY <1>2, <2>1 DEF AfterAttempt
  <2>4. 2 * (Snapshots[j.window] - Attempts(j)) = 2 * left - 2
    <3>1. j.window = job[s].window
      BY <1>1, <2>1 DEF Job
    <3>2. Snapshots[job[s].window] \in Nat /\ Attempts(job[s]) \in Nat
      BY <2>1, JobCounts DEF InSession
    <3> QED BY <2>2, <3>1, <3>2
  <2>5. StepsLeft(phase[s], job[s]) >= 7 + 2 * left
    BY <1>1, <2>1 DEF StepsLeft, PhasesLeft, InSession, Asking
  <2>6. StepsLeft(phase'[s], job'[s]) = 8 + IF phase'[s] = "acquiring" THEN 2 * left - 2 ELSE 0
    BY <2>3, <2>4 DEF StepsLeft, PhasesLeft, InSession, Asking
  <2> HIDE DEF left
  <2>7. left >= 1 /\ left \in Int
    BY <1>1, <2>1
  <2>8. StepsLeft(phase[s], job[s]) \in Int
    <3>1. StepsLeft(phase[s], job[s]) = (IF phase[s] = "acquiring" THEN 8 ELSE 7) + 2 * left
      BY <2>1 DEF StepsLeft, PhasesLeft, InSession, Asking, left
    <3> QED BY <2>7, <3>1
  <2>9. CASE phase'[s] = "acquiring"
    BY <2>5, <2>6, <2>7, <2>8, <2>9
  <2>10. CASE phase'[s] = "marking"
    BY <2>5, <2>6, <2>7, <2>8, <2>10
  <2> QED BY <2>3, <2>9, <2>10
<1> QED BY <1>3, <1>4, <1>5

LEMMA PostStepsAdvance ==
  ASSUME Counted, NEW s \in Supervisors,
         \/ WriteMarker(s) \/ WriteLedger(s) \/ Extract(s) \/ Measure(s) \/ MeasurementWritten(s)
         \/ WriteAggregate(s) \/ WriteRecord(s) \/ RetentionReport(s)
  PROVE  StepsLeft(phase'[s], job'[s]) < StepsLeft(phase[s], job[s])
<1>1. \/ phase[s] = "marking" /\ phase'[s] = "ledger"
      \/ phase[s] = "ledger" /\ phase'[s] \in {"extract", "record"}
      \/ phase[s] = "extract" /\ phase'[s] \in {"measure", "record"}
      \/ phase[s] = "measure" /\ phase'[s] \in {"measuring", "aggregate"}
      \/ phase[s] = "measuring" /\ phase'[s] = "aggregate"
      \/ phase[s] = "aggregate" /\ phase'[s] = "record"
      \/ phase[s] = "record" /\ phase'[s] = "retention"
      \/ phase[s] = "retention" /\ phase'[s] = "awake"
  <2>1. DOMAIN phase = Supervisors
    BY DEF Counted, TypeOK
  <2> QED BY <2>1 DEF WriteMarker, WriteLedger, Extract, Measure, MeasurementWritten, WriteAggregate, WriteRecord,
       RetentionReport, PostStep, Goto, AfterLedger
<1> QED BY <1>1 DEF StepsLeft, PhasesLeft, InSession, Asking, PostSteps

LEMMA OthersWait ==
  ASSUME Counted, NEW s \in Supervisors, NEW t \in Supervisors, s # t,
         Launch(s) \/ Work(s) \/ Raises(s) \/ Killed(s)
  PROVE  phase'[t] = phase[t] /\ job'[t] = job[t]
<1> SUFFICES (phase' = phase \/ \E p : phase' = [phase EXCEPT ![s] = p]) /\ (job' = job \/ \E j : job' = [job EXCEPT ![s] = j])
  BY DEF Counted, TypeOK
<1>1. CASE Launch(s) \/ Claim(s)
  BY <1>1 DEF Launch, Claim, ClaimChecked, RefuseSecond, WritePid, Goto
<1>2. CASE Plan(s) \/ WriteSkipMarker(s) \/ SkipsWritten(s)
  <2>1. CASE Plan(s)
    BY <2>1 DEF Plan, Goto
  <2>2. CASE WriteSkipMarker(s)
    BY <2>2 DEF WriteSkipMarker
  <2>3. CASE SkipsWritten(s)
    BY <2>3 DEF SkipsWritten, Goto
  <2> QED BY <1>2, <2>1, <2>2, <2>3
<1>3. CASE StartSession(s) \/ Accept(s) \/ Refuse(s) \/ TooSoon(s)
  BY <1>3 DEF StartSession, Leaves, Accept, Refuse, TooSoon, AfterAttempt, Goto
<1>4. CASE \/ WriteMarker(s) \/ WriteLedger(s) \/ Extract(s) \/ Measure(s) \/ MeasurementWritten(s)
           \/ WriteAggregate(s) \/ WriteRecord(s)
  BY <1>4 DEF WriteMarker, WriteLedger, Extract, Measure, MeasurementWritten, WriteAggregate, WriteRecord, PostStep, Goto
<1>5. CASE RetentionReport(s) \/ ExitAfterSession(s) \/ Raises(s) \/ Killed(s)
  BY <1>5 DEF RetentionReport, ExitAfterSession, Raises, Killed, Leaves, Goto
<1> QED BY <1>1, <1>2, <1>3, <1>4, <1>5 DEF Work, Session

\* A session of w is over after at most 2 * Snapshots[w] + 9 steps of its
\* supervisor: no refusal, early ask or failing post-step brings it back to
\* where it was.
THEOREM SessionsAreFinite == Spec => []SessionBounded /\ [][SessionAdvances]_vars
<1>1. ASSUME Counted PROVE SessionBounded
  <2> SUFFICES ASSUME NEW s \in Supervisors, phase[s] \in InSession
               PROVE  StepsLeft(phase[s], job[s]) \in 1 .. 2 * Snapshots[job[s].window] + 9
    BY DEF SessionBounded
  <2> DEFINE bound == Snapshots[job[s].window]
  <2>1. /\ Attempts(job[s]) \in Nat /\ bound \in Nat
        /\ phase[s] \in {"starting"} \union Asking => Attempts(job[s]) <= bound
    BY <1>1, JobCounts
  <2>2. PhasesLeft[phase[s]] \in 1 .. 9
    BY DEF PhasesLeft, InSession, Asking, PostSteps
  <2>3. StepsLeft(phase[s], job[s]) =
          PhasesLeft[phase[s]] + IF phase[s] \in {"starting"} \union Asking THEN 2 * (bound - Attempts(job[s])) ELSE 0
    BY DEF StepsLeft
  <2> DEFINE asked == Attempts(job[s])
             left == PhasesLeft[phase[s]]
  <2> HIDE DEF bound, asked, left
  <2>4. CASE phase[s] \in {"starting"} \union Asking
    <3>1. StepsLeft(phase[s], job[s]) = left + 2 * (bound - asked)
      BY <2>3, <2>4 DEF asked, left
    <3>2. asked \in Nat /\ bound \in Nat /\ asked <= bound /\ left \in 1 .. 9
      BY <2>1, <2>2, <2>4 DEF asked, left
    <3>3. left + 2 * (bound - asked) \in 1 .. 2 * bound + 9
      BY <3>2
    <3> QED BY <3>1, <3>3 DEF bound
  <2>5. CASE phase[s] \notin {"starting"} \union Asking
    <3>1. StepsLeft(phase[s], job[s]) = left + 0
      BY <2>3, <2>5 DEF left
    <3>2. bound \in Nat /\ left \in 1 .. 9
      BY <2>1, <2>2 DEF left
    <3>3. left + 0 \in 1 .. 2 * bound + 9
      BY <3>2
    <3> QED BY <3>1, <3>3 DEF bound
  <2> QED BY <2>4, <2>5
<1>2. ASSUME Counted, [Next]_vars PROVE [SessionAdvances]_vars
  <2> SUFFICES ASSUME Next, NEW s \in Supervisors, phase[s] \in InSession
               PROVE  \/ phase'[s] = phase[s] /\ job'[s] = job[s]
                      \/ StepsLeft(phase'[s], job'[s]) < StepsLeft(phase[s], job[s])
    BY <1>2 DEF SessionAdvances
  <2>1. CASE Tick
    BY <2>1 DEF Tick
  <2>2. ASSUME NEW t \in Supervisors, t # s, Launch(t) \/ Work(t) \/ Raises(t) \/ Killed(t)
        PROVE  phase'[s] = phase[s] /\ job'[s] = job[s]
    BY <1>2, <2>2, OthersWait
  <2>3. CASE Launch(s) \/ Claim(s) \/ Plan(s) \/ WriteSkipMarker(s) \/ SkipsWritten(s)
    BY <2>3 DEF Launch, Claim, ClaimChecked, RefuseSecond, WritePid, Plan, WriteSkipMarker, SkipsWritten, Goto, InSession, Asking, PostSteps
  <2>4. CASE Session(s) /\ ~ ExitAfterSession(s)
    BY <1>2, <2>4, LoopAdvances, PostStepsAdvance, Zenon DEF Session
  <2>5. CASE ExitAfterSession(s) \/ Raises(s) \/ Killed(s)
    <3>1. phase'[s] = "off"
      BY <1>2, <2>5 DEF ExitAfterSession, Raises, Killed, Leaves, Counted, TypeOK
    <3>2. StepsLeft(phase'[s], job'[s]) = 0
      BY <3>1 DEF StepsLeft, InSession, Asking, PostSteps
    <3>3. StepsLeft(phase[s], job[s]) \in Int /\ StepsLeft(phase[s], job[s]) >= 1
      <4>1. PhasesLeft[phase[s]] \in 1 .. 9
        BY DEF PhasesLeft, InSession, Asking, PostSteps
      <4>2. StepsLeft(phase[s], job[s]) \in 1 .. 2 * Snapshots[job[s].window] + 9
        BY <1>1, <1>2 DEF SessionBounded
      <4> QED BY <1>2, <4>2, JobCounts
    <3> QED BY <3>2, <3>3
  <2> QED BY <2>1, <2>2, <2>3, <2>4, <2>5 DEF Next, Work
<1> QED BY <1>1, <1>2, InitCounts, NextCounts, PTL DEF Spec

-----------------------------------------------------------------------------
(* What holds unless the pid file was raced for.                           *)

\* A race is never undone.
LEMMA RaceStays == [Next]_vars /\ raced => raced'
<1> SUFFICES ASSUME [Next]_vars, raced PROVE raced'
  OBVIOUS
<1>1. CASE UNCHANGED vars \/ Tick
  BY <1>1 DEF vars, Tick
<1>2. ASSUME NEW s \in Supervisors, Launch(s) \/ Claim(s) \/ Plan(s) \/ WriteSkipMarker(s) \/ SkipsWritten(s)
      PROVE  raced'
  BY <1>2 DEF Launch, Claim, ClaimChecked, RefuseSecond, WritePid, Plan, WriteSkipMarker, SkipsWritten
<1>3. ASSUME NEW s \in Supervisors, Session(s) \/ Raises(s) \/ Killed(s)
      PROVE  raced'
  BY <1>3 DEF Session, StartSession, Accept, Refuse, TooSoon, WriteMarker, WriteLedger, Extract, Measure, MeasurementWritten,
              WriteAggregate, WriteRecord, PostStep, RetentionReport, ExitAfterSession, Raises, Killed
<1> QED BY <1>1, <1>2, <1>3 DEF Next, Work

\* A working supervisor's name is in the pid file, and nobody is about to
\* overwrite it: the check just made found no live owner.
PidClaimed ==
  /\ \A s, t \in Supervisors : phase[s] = "claiming" /\ phase[t] = "claiming" => s = t
  /\ \A s \in Supervisors : phase[s] \in Supervising => pidFile = s
  /\ \A s, t \in Supervisors : phase[s] = "claiming" => phase[t] \notin Supervising

LEMMA PidClaimedSuffices == PidClaimed => OneSupervisor
BY DEF PidClaimed, OneSupervisor

\* Steps within the work of a supervisor leave the claims alone.
LEMMA WorkKeepsClaims ==
  ASSUME TypeOK, PidClaimed, NEW s \in Supervisors, phase[s] \in Supervising,
         phase' \in [Supervisors -> Phases], phase'[s] \in Supervising,
         \A t \in Supervisors \ {s} : phase'[t] = phase[t], UNCHANGED pidFile
  PROVE  PidClaimed'
BY DEF PidClaimed, Supervising, Asking, PostSteps

\* So does the end of a supervisor, at whatever step.
LEMMA LeavingKeepsClaims ==
  ASSUME TypeOK, PidClaimed, NEW s \in Supervisors, phase' = [phase EXCEPT ![s] = "off"],
         pidFile' = pidFile \/ (pidFile = s /\ pidFile' \in {NoPid, Stale})
  PROVE  PidClaimed'
BY DEF TypeOK, PidClaimed, Supervising, Asking, PostSteps

LEMMA NextKeepsClaims ==
  ASSUME ~ raced', TypeOK, TypeOK', PidClaimed, [Next]_vars
  PROVE  PidClaimed'
<1> USE DEF TypeOK
<1>1. CASE UNCHANGED vars \/ Tick
  BY <1>1 DEF vars, Tick, PidClaimed
<1>2. ASSUME NEW s \in Supervisors, Launch(s) \/ ClaimChecked(s) PROVE PidClaimed'
  <2>1. pidFile' = pidFile /\ \A t \in Supervisors \ {s} : phase'[t] = phase[t]
    BY <1>2 DEF Launch, ClaimChecked, Goto
  <2>2. CASE Launch(s)
    BY <2>1, <2>2 DEF Launch, Goto, PidClaimed, Supervising, Asking, PostSteps
  <2>3. CASE ClaimChecked(s)
    <3>1. \A t \in Supervisors : phase[t] \notin Supervising
      BY <2>3 DEF ClaimChecked, OwnerAlive, Alive, PidClaimed, Supervising, Asking, PostSteps
    <3> QED BY <2>1, <2>3, <3>1 DEF ClaimChecked, Goto, PidClaimed, Supervising, Asking, PostSteps
  <2> QED BY <1>2, <2>2, <2>3
<1>3. ASSUME NEW s \in Supervisors, WritePid(s) PROVE PidClaimed'
  BY <1>3 DEF WritePid, Goto, PidClaimed, Supervising, Asking, PostSteps
<1>4. ASSUME NEW s \in Supervisors, RefuseSecond(s) \/ Raises(s) \/ Killed(s) \/ ExitAfterSession(s) PROVE PidClaimed'
  BY <1>4, LeavingKeepsClaims DEF RefuseSecond, Goto, Raises, Killed, ExitAfterSession, Leaves
<1>6. ASSUME NEW s \in Supervisors, StartSession(s), marker[job[s].window] # Absent PROVE PidClaimed'
  BY <1>6, LeavingKeepsClaims DEF StartSession, Leaves
<1>5. ASSUME NEW s \in Supervisors,
             \/ Plan(s) \/ WriteSkipMarker(s) \/ SkipsWritten(s) \/ Accept(s) \/ Refuse(s)
             \/ StartSession(s) /\ marker[job[s].window] = Absent
             \/ TooSoon(s) \/ WriteMarker(s) \/ WriteLedger(s) \/ Extract(s) \/ Measure(s)
             \/ MeasurementWritten(s) \/ WriteAggregate(s) \/ WriteRecord(s) \/ RetentionReport(s)
      PROVE  PidClaimed'
  <2>1. /\ phase[s] \in Supervising /\ phase'[s] \in Supervising /\ pidFile' = pidFile
        /\ \A t \in Supervisors \ {s} : phase'[t] = phase[t]
    <3> USE DEF Goto, Supervising, Asking, PostSteps
    <3>1. CASE Plan(s) \/ WriteSkipMarker(s) \/ SkipsWritten(s)
      BY <3>1 DEF Plan, WriteSkipMarker, SkipsWritten
    <3>4. CASE StartSession(s) /\ marker[job[s].window] = Absent
      BY <3>4 DEF StartSession
    <3>2. CASE Accept(s) \/ Refuse(s) \/ TooSoon(s) \/ WriteMarker(s) \/ RetentionReport(s)
      BY <3>2 DEF Accept, Refuse, TooSoon, WriteMarker, RetentionReport, AfterAttempt
    <3>3. CASE WriteLedger(s) \/ Extract(s) \/ Measure(s) \/ MeasurementWritten(s) \/ WriteAggregate(s) \/ WriteRecord(s)
      BY <3>3 DEF WriteLedger, AfterLedger, Extract, Measure, MeasurementWritten, WriteAggregate, WriteRecord, PostStep
    <3> QED BY <1>5, <3>1, <3>2, <3>3, <3>4, Zenon
  <2>2. phase' \in [Supervisors -> Phases]
    OBVIOUS
  <2> QED BY <2>1, <2>2, WorkKeepsClaims
<1> QED BY <1>1, <1>2, <1>3, <1>4, <1>5, <1>6, Zenon DEF Next, Work, Claim, Session

\* Whoever is killed, refused and relaunched, and whatever stale files are
\* found: two supervise at once only after one of them checked the pid file
\* between the check and the write of another.
THEOREM OnlyRacesDouble == Spec => []RivalsRaced
<1>1. Init => raced \/ PidClaimed
  BY DEF Init, PidClaimed, Supervising, Asking, PostSteps
<1>2. TypeOK /\ TypeOK' /\ (raced \/ PidClaimed) /\ [Next]_vars => (raced \/ PidClaimed)'
  BY RaceStays, NextKeepsClaims
<1>3. raced \/ PidClaimed => RivalsRaced
  BY PidClaimedSuffices DEF RivalsRaced
<1> QED BY <1>1, <1>2, <1>3, TypeCorrect, PTL DEF Spec

-----------------------------------------------------------------------------
(* Windows that are resolved rest.                                         *)

\* The window a supervisor is about to run, or is running, is unresolved, and
\* is not one of those it is about to skip.
WindowOpen(s) ==
  phase[s] \in {"skipping", "starting", "marking"} \union Asking /\ job[s].window # NoWindow =>
    ~ Resolved(job[s].window) /\ (phase[s] = "skipping" => job[s].window \notin job[s].late)

WindowsOpen == \A s \in Supervisors : WindowOpen(s)

LEMMA WindowsOpenSuffices == Counted /\ WindowsOpen => ResolvedWindowsRest
BY WindowsAssumption DEF Counted, JobsFit, JobFits, InSession, WindowsOpen, WindowOpen, ResolvedWindowsRest

\* Whoever works works alone.
LEMMA Alone ==
  ASSUME PidClaimed, NEW s \in Supervisors, phase[s] \in Supervising, NEW t \in Supervisors \ {s}
  PROVE  phase[t] \notin Supervising
BY DEF PidClaimed

LEMMA NextKeepsOpen ==
  ASSUME Counted, PidClaimed, WindowsOpen, [Next]_vars
  PROVE  WindowsOpen'
<1> USE DEF Counted, TypeOK
<1>1. CASE UNCHANGED vars \/ Tick
  BY <1>1 DEF vars, markers, Tick, WindowsOpen, WindowOpen, Resolved
<1>2. ASSUME NEW s \in Supervisors, NEW t \in Supervisors \ {s}, phase[s] \in Supervising, phase'[t] = phase[t]
      PROVE  WindowOpen(t)'
  BY <1>2, Alone DEF WindowOpen, Supervising, Asking
<1>3. ASSUME NEW s \in Supervisors, Launch(s) \/ Claim(s) \/ Raises(s) \/ Killed(s) \/ ExitAfterSession(s) \/ RetentionReport(s)
      PROVE  WindowsOpen'
  <2>1. UNCHANGED markers /\ phase' = [phase EXCEPT ![s] = phase'[s]]
    BY <1>3 DEF Launch, Claim, ClaimChecked, RefuseSecond, WritePid, Raises, Killed, ExitAfterSession, RetentionReport, Leaves, Goto
  <2>2. phase'[s] \in {"off", "checking", "claiming", "awake"}
    BY <1>3 DEF Launch, Claim, ClaimChecked, RefuseSecond, WritePid, Raises, Killed, ExitAfterSession, RetentionReport, Leaves, Goto
  <2>3. \A t \in Supervisors \ {s} : job'[t] = job[t]
    BY <1>3 DEF Launch, Claim, ClaimChecked, RefuseSecond, WritePid, Raises, Killed, ExitAfterSession, RetentionReport, Leaves, Goto
  <2> QED BY <2>1, <2>2, <2>3 DEF WindowsOpen, WindowOpen, Resolved, markers, Asking
<1>4. ASSUME NEW s \in Supervisors, Plan(s) PROVE WindowsOpen'
  <2>1. RunNow # NoWindow => RunNow \in Due
    BY RunNowIsDue
  <2>2. RunNow # NoWindow => ~ Resolved(RunNow) /\ RunNow \notin Late
    <3>1. \A w \in Due : w \in Nat /\ now \in Nat /\ Tolerance \in Nat /\ now <= w + Tolerance /\ ~ Resolved(w)
      BY WindowsAssumption, ScheduleAssumption DEF Due
    <3>2. \A w \in Late : now > w + Tolerance
      BY DEF Late
    <3> QED BY <2>1, <3>1, <3>2
  <2>3. job'[s].window = RunNow /\ job'[s].late = Late
    BY <1>4 DEF Plan, NoJob
  <2>4. UNCHANGED markers /\ phase[s] \in Supervising /\ phase'[s] = "skipping"
        /\ \A t \in Supervisors \ {s} : phase'[t] = phase[t]
    BY <1>4 DEF Plan, Goto, Supervising
  <2>5. WindowOpen(s)'
    BY <2>2, <2>3, <2>4 DEF WindowOpen, Resolved, markers
  <2> QED BY <1>2, <2>4, <2>5 DEF WindowsOpen
<1>5. ASSUME NEW s \in Supervisors, WriteSkipMarker(s) PROVE WindowsOpen'
  <2>1. PICK w \in job[s].late : skipped' = skipped \union {w} /\ job' = [job EXCEPT ![s].late = @ \ {w}]
    BY <1>5 DEF WriteSkipMarker
  <2>2. job'[s].window = job[s].window /\ job'[s].late = job[s].late \ {w}
    BY <2>1 DEF Job
  <2>3. phase' = phase /\ phase[s] = "skipping" /\ marker' = marker
    BY <1>5 DEF WriteSkipMarker
  <2>4. WindowOpen(s)'
    BY <2>1, <2>2, <2>3 DEF WindowsOpen, WindowOpen, Resolved
  <2>5. phase[s] \in Supervising
    BY <2>3 DEF Supervising
  <2> QED BY <1>2, <2>3, <2>4, <2>5 DEF WindowsOpen
<1>6. ASSUME NEW s \in Supervisors, SkipsWritten(s) \/ StartSession(s) \/ Accept(s) \/ Refuse(s) \/ TooSoon(s) PROVE WindowsOpen'
  <2>1. /\ phase[s] \in {"skipping", "starting"} \union Asking /\ UNCHANGED markers
        /\ phase'[s] \in {"off", "awake", "starting", "marking"} \union Asking
        /\ \A t \in Supervisors \ {s} : phase'[t] = phase[t]
    BY <1>6 DEF SkipsWritten, StartSession, Leaves, Accept, Refuse, TooSoon, AfterAttempt, Goto, Asking
  <2>2. phase'[s] # "off" => job'[s].window = job[s].window
    BY <1>6 DEF SkipsWritten, StartSession, Leaves, Goto, Accept, Refuse, TooSoon, AfterAttempt, Job
  <2>3. WindowOpen(s)'
    BY <2>1, <2>2 DEF WindowsOpen, WindowOpen, Resolved, markers, Asking
  <2>4. phase[s] \in Supervising
    BY <2>1 DEF Supervising
  <2> QED BY <1>2, <2>1, <2>3, <2>4 DEF WindowsOpen
<1>7. ASSUME NEW s \in Supervisors,
             \/ WriteMarker(s) \/ WriteLedger(s) \/ Extract(s) \/ Measure(s)
             \/ MeasurementWritten(s) \/ WriteAggregate(s) \/ WriteRecord(s)
      PROVE  WindowsOpen'
  <2>1. /\ phase[s] \in {"marking"} \union PostSteps /\ phase'[s] \in PostSteps
        /\ \A t \in Supervisors \ {s} : phase'[t] = phase[t]
    BY <1>7 DEF WriteMarker, WriteLedger, AfterLedger, Extract, Measure, MeasurementWritten, WriteAggregate, WriteRecord, PostStep, Goto, PostSteps
  <2>2. phase[s] \in Supervising /\ WindowOpen(s)'
    BY <2>1 DEF WindowOpen, Supervising, PostSteps, Asking
  <2> QED BY <1>2, <2>1, <2>2 DEF WindowsOpen
<1> QED BY <1>1, <1>3, <1>4, <1>5, <1>6, <1>7, Zenon DEF Next, Work, Session

\* "A window with a completion or skip marker is never touched again": without
\* a race for the pid file no session asks for a resolved one, over crashes,
\* relaunches and overlapping windows.
THEOREM ResolvedRest == Spec => []ResolvedWindowsRest
<1> DEFINE Kept == raced \/ (PidClaimed /\ WindowsOpen)
<1>1. Init => Counted /\ Kept
  BY InitCounts DEF Init, PidClaimed, WindowsOpen, WindowOpen, Supervising, Asking, PostSteps
<1>2. Counted /\ Kept /\ [Next]_vars => (Counted /\ Kept)'
  <2>1. Counted /\ [Next]_vars => Counted'
    BY NextCounts
  <2>2. Counted /\ Counted' => TypeOK /\ TypeOK'
    BY DEF Counted
  <2> QED BY <2>1, <2>2, RaceStays, NextKeepsClaims, NextKeepsOpen
<1>3. Counted /\ Kept => ResolvedWindowsRest
  BY WindowsOpenSuffices DEF ResolvedWindowsRest
<1> QED BY <1>1, <1>2, <1>3, PTL DEF Spec

-----------------------------------------------------------------------------
(* The session record is true.                                             *)

\* What a record says of a window, or is about to say.
Told(w, measured, aggregated, errors) ==
  /\ measured => measurement[w] \in {"some", "all"}
  /\ aggregated => w \in aggregate
  /\ measurement[w] \in {"torn", "some"} => errors
  /\ ~ errors =>
       /\ w \in ledger
       /\ marker[w].accepted >= 2 => measurement[w] = "all" /\ w \in aggregate

\* A window without a marker has no artifacts, and a record is true.
FileFits(w) ==
  /\ marker[w] = Absent => record[w] = Absent /\ measurement[w] = "none"
  /\ record[w] # Absent => Told(w, record[w].measured, record[w].aggregated, record[w].errors)

\* What the post-steps have left behind, up to the one a supervisor is at.
LeftBehind(at, j, w) ==
  /\ marker[w] # Absent /\ marker[w].accepted = j.accepted
  /\ at # "retention" => record[w] = Absent
  /\ at \in {"extract", "measure", "measuring", "aggregate"} /\ ~ j.errors => w \in ledger
  /\ at \in {"ledger", "extract"} => j.extracted = "none"
  /\ at \in {"ledger", "extract", "measure"} => measurement[w] = "none"
  /\ at \in {"ledger", "extract", "measure", "measuring"} => ~ j.measured
  /\ at \in {"ledger", "extract", "measure", "measuring", "aggregate"} => ~ j.aggregated
  /\ at \in {"measure", "measuring"} => j.extracted \in {"some", "all"} /\ (j.extracted = "some" => j.errors)
  /\ at = "aggregate" =>
       /\ j.measured => measurement[w] \in {"some", "all"}
       /\ measurement[w] \in {"torn", "some"} => j.errors
       /\ ~ j.errors => measurement[w] = "all"
  /\ at = "record" => Told(w, j.measured, j.aggregated, j.errors)

PostFits(s) == phase[s] \in PostSteps => LeftBehind(phase[s], job[s], job[s].window)

FilesFit == (\A w \in Windows : FileFits(w)) /\ (\A s \in Supervisors : PostFits(s))

LEMMA FilesFitSuffices == FilesFit => RecordTellsTruth
BY DEF FilesFit, FileFits, Told, RecordTellsTruth

\* A step after which the files of the other windows are as they were.
LEMMA OneWindow ==
  ASSUME PidClaimed, FilesFit, NEW s \in Supervisors, NEW o \in Windows, phase[s] \in Supervising,
         \A t \in Supervisors \ {s} : phase'[t] = phase[t],
         \A w \in Windows \ {o} :
           /\ marker'[w] = marker[w] /\ record'[w] = record[w] /\ measurement'[w] = measurement[w]
           /\ w \in ledger' <=> w \in ledger
           /\ w \in aggregate' <=> w \in aggregate,
         FileFits(o)',
         PostFits(s)'
  PROVE  FilesFit'
<1>1. ASSUME NEW w \in Windows PROVE FileFits(w)'
  <2>1. CASE w = o
    BY <2>1
  <2>2. CASE w # o
    <3>1. /\ marker'[w] = marker[w] /\ record'[w] = record[w] /\ measurement'[w] = measurement[w]
          /\ w \in ledger' <=> w \in ledger
          /\ w \in aggregate' <=> w \in aggregate
      BY <2>2
    <3>2. FileFits(w)
      BY DEF FilesFit
    <3> QED BY <3>1, <3>2 DEF FileFits, Told
  <2> QED BY <2>1, <2>2
<1>2. ASSUME NEW t \in Supervisors PROVE PostFits(t)'
  BY <1>2, Alone DEF PostFits, Supervising
<1> QED BY <1>1, <1>2 DEF FilesFit

LEMMA MarkerKeepsFiles ==
  ASSUME Counted, PidClaimed, WindowsOpen, FilesFit, NEW s \in Supervisors, WriteMarker(s)
  PROVE  FilesFit'
<1> DEFINE j == job[s]
<1>0. PICK o \in Windows : o = j.window
  BY DEF Counted, JobsFit, JobFits, InSession, WriteMarker, Goto
<1> DEFINE m == [accepted |-> j.accepted, refused |-> j.refused, stopped |-> j.consecutive = RefusalLimit]
<1>1. /\ phase[s] = "marking" /\ j \in Job /\ j.window \in Windows
      /\ j.extracted = "none" /\ ~ j.measured /\ ~ j.aggregated /\ ~ j.errors
  BY DEF Counted, TypeOK, JobsFit, JobFits, InSession, WriteMarker, Goto
<1>2. marker[j.window] = Absent
  BY <1>1, WindowsAssumption DEF WindowsOpen, WindowOpen, Resolved
<1>3. m \in Marker
  BY <1>1, Zenon DEF Job, Marker
<1>4. m # Absent /\ m.accepted = j.accepted
  BY <1>3, AbsentAssumption
<1>5. marker' = [marker EXCEPT ![j.window] = m] /\ marker \in [Windows -> Marker \union {Absent}]
  BY DEF WriteMarker, Counted, TypeOK
<1>6. /\ phase' = [phase EXCEPT ![s] = "ledger"] /\ job' = job
      /\ UNCHANGED <<ledger, measurement, aggregate, record>>
  BY DEF WriteMarker, Goto, artifacts
<1> HIDE DEF m
<1>7. record[j.window] = Absent /\ measurement[j.window] = "none"
  BY <1>1, <1>2 DEF FilesFit, FileFits
<1>8. phase'[s] = "ledger" /\ \A t \in Supervisors \ {s} : phase'[t] = phase[t]
  BY <1>6 DEF Counted, TypeOK
<1>9. marker'[j.window] = m /\ \A w \in Windows \ {j.window} : marker'[w] = marker[w]
  BY <1>1, <1>5
<1>10. FileFits(o)'
  BY <1>0, <1>4, <1>6, <1>7, <1>9 DEF FileFits
<1>11. PostFits(s)'
  BY <1>1, <1>4, <1>6, <1>7, <1>8, <1>9 DEF PostFits, LeftBehind
<1>12. phase[s] \in Supervising
  BY <1>1 DEF Supervising
<1> HIDE DEF j
<1> QED BY <1>0, <1>6, <1>8, <1>9, <1>10, <1>11, <1>12, OneWindow DEF j

\* An extraction that is left unfinished is noted as an error.
LEMMA Extracting ==
  ASSUME Counted, NEW s \in Supervisors, Extract(s)
  PROVE  \E to \in {"measure", "record"}, k \in Job :
           /\ phase[s] = "extract" /\ phase'[s] = to /\ job'[s] = k /\ UNCHANGED artifacts
           /\ k.window = job[s].window /\ k.accepted = job[s].accepted
           /\ k.measured = job[s].measured /\ k.aggregated = job[s].aggregated
           /\ ~ k.errors => ~ job[s].errors
           /\ to = "measure" => k.extracted \in {"some", "all"} /\ (k.extracted = "some" => k.errors)
           /\ to = "record" => k.errors
<1>1. job[s] \in Job /\ job \in [Supervisors -> Job] /\ phase \in [Supervisors -> Phases]
  BY DEF Counted, TypeOK
<1>2. UNCHANGED artifacts
  BY DEF Extract
<1> DEFINE all == [job[s] EXCEPT !.extracted = "all"]
           some == Failed([job[s] EXCEPT !.extracted = "some"])
           none == Failed(job[s])
<1>3. /\ all \in Job /\ all.window = job[s].window /\ all.accepted = job[s].accepted
      /\ all.measured = job[s].measured /\ all.aggregated = job[s].aggregated
      /\ all.errors = job[s].errors /\ all.extracted = "all"
  BY <1>1 DEF Job
<1>4. /\ some \in Job /\ some.window = job[s].window /\ some.accepted = job[s].accepted
      /\ some.measured = job[s].measured /\ some.aggregated = job[s].aggregated
      /\ some.errors /\ some.extracted = "some"
  BY <1>1 DEF Job, Failed
<1>5. /\ none \in Job /\ none.window = job[s].window /\ none.accepted = job[s].accepted
      /\ none.measured = job[s].measured /\ none.aggregated = job[s].aggregated /\ none.errors
  BY <1>1 DEF Job, Failed
<1>6. \/ PostStep(s, "extract", "measure", all)
      \/ PostStep(s, "extract", "measure", some)
      \/ PostStep(s, "extract", "record", none)
  BY DEF Extract
<1> HIDE DEF all, some, none
<1>7. CASE PostStep(s, "extract", "measure", all)
  BY <1>1, <1>2, <1>3, <1>7 DEF PostStep, Goto
<1>8. CASE PostStep(s, "extract", "measure", some)
  BY <1>1, <1>2, <1>4, <1>8 DEF PostStep, Goto
<1>9. CASE PostStep(s, "extract", "record", none)
  BY <1>1, <1>2, <1>5, <1>9 DEF PostStep, Goto
<1> QED BY <1>6, <1>7, <1>8, <1>9

\* A post-step that writes one artifact of its window, at most.
LEMMA PostStepKeepsFiles ==
  ASSUME Counted, PidClaimed, FilesFit, NEW s \in Supervisors,
         \/ WriteLedger(s) \/ Extract(s) \/ Measure(s) \/ MeasurementWritten(s)
         \/ WriteAggregate(s) \/ WriteRecord(s)
  PROVE  FilesFit'
<1> DEFINE j == job[s]
<1>0. PICK o \in Windows : o = j.window
  BY DEF Counted, JobsFit, JobFits, InSession, PostSteps, PostStep, Goto,
         WriteLedger, Extract, Measure, MeasurementWritten, WriteAggregate, WriteRecord
<1>1. /\ j \in Job /\ job \in [Supervisors -> Job] /\ phase \in [Supervisors -> Phases]
      /\ measurement \in [Windows -> Measurements] /\ record \in [Windows -> Record \union {Absent}]
  BY DEF Counted, TypeOK
<1>2. FileFits(o) /\ PostFits(s)
  BY DEF FilesFit
<1>3. UNCHANGED marker
  BY DEF WriteLedger, Extract, Measure, MeasurementWritten, WriteAggregate, WriteRecord, PostStep, markers
<1>4. /\ phase[s] \in PostSteps \ {"retention"} /\ phase'[s] \in PostSteps
      /\ \A t \in Supervisors \ {s} : phase'[t] = phase[t]
  BY <1>1 DEF WriteLedger, AfterLedger, Extract, Measure, MeasurementWritten, WriteAggregate, WriteRecord,
              PostStep, Goto, PostSteps
<1>5. /\ marker[o] # Absent /\ marker[o].accepted = j.accepted /\ record[o] = Absent
      /\ LeftBehind(phase[s], j, o)
  BY <1>0, <1>2, <1>4 DEF PostFits, LeftBehind
<1>6. phase[s] \in Supervising
  BY <1>4 DEF Supervising
\* What the step does to its window, and to no other.
<1>7. /\ job'[s].window = o /\ job'[s].accepted = j.accepted
      /\ \A w \in Windows \ {o} :
           /\ record'[w] = record[w] /\ measurement'[w] = measurement[w]
           /\ w \in ledger' <=> w \in ledger
           /\ w \in aggregate' <=> w \in aggregate
  <2> USE <1>0, <1>1 DEF PostStep, artifacts, Failed, Job
  <2>1. CASE WriteLedger(s)
    BY <2>1 DEF WriteLedger
  <2>2. CASE Extract(s)
    BY <2>2, Extracting
  <2>3. CASE Measure(s)
    BY <2>3 DEF Measure
  <2>4. CASE MeasurementWritten(s)
    BY <2>4 DEF MeasurementWritten
  <2>5. CASE WriteAggregate(s)
    BY <2>5 DEF WriteAggregate
  <2>6. CASE WriteRecord(s)
    BY <2>6 DEF WriteRecord
  <2> QED BY <2>1, <2>2, <2>3, <2>4, <2>5, <2>6
<1>8. FileFits(o)' /\ LeftBehind(phase[s], job[s], o)'
  <2> USE <1>0, <1>1, <1>3, <1>5, <1>7
  <2>1. CASE WriteLedger(s)
    <3>1. PICK to \in {"extract", "record"}, k \in {j, Failed(j)} :
            /\ phase[s] = "ledger" /\ phase'[s] = to /\ job'[s] = k
            /\ to = "record" => ~ j.accepted >= 2
            /\ ~ k.errors => ledger' = ledger \union {o}
            /\ UNCHANGED <<measurement, aggregate, record>>
      BY <2>1 DEF WriteLedger, AfterLedger, artifacts, Job, PostStep, Goto, Failed
    <3>2. /\ k.extracted = "none" /\ ~ k.measured /\ ~ k.aggregated /\ measurement'[o] = "none"
      BY <3>1 DEF Job, Failed, LeftBehind
    <3>3. FileFits(o)'
      BY <3>1 DEF FileFits
    <3>4. LeftBehind(to, k, o)'
      BY <3>1, <3>2 DEF LeftBehind, Told
    <3> QED BY <3>1, <3>3, <3>4 DEF LeftBehind, Told
  <2>2. CASE Extract(s)
    <3>1. PICK to \in {"measure", "record"}, k \in Job :
            /\ phase[s] = "extract" /\ phase'[s] = to /\ job'[s] = k /\ UNCHANGED artifacts
            /\ k.measured = j.measured /\ k.aggregated = j.aggregated
            /\ ~ k.errors => ~ j.errors
            /\ to = "measure" => k.extracted \in {"some", "all"} /\ (k.extracted = "some" => k.errors)
            /\ to = "record" => k.errors
      BY <2>2, Extracting
    <3>2. ~ k.measured /\ ~ k.aggregated /\ measurement'[o] = "none" /\ (~ k.errors => o \in ledger')
      BY <3>1 DEF LeftBehind, artifacts
    <3>3. FileFits(o)'
      BY <3>1 DEF FileFits, artifacts
    <3>4. LeftBehind(to, k, o)'
      BY <3>1, <3>2 DEF LeftBehind, Told, artifacts
    <3> QED BY <3>1, <3>3, <3>4 DEF LeftBehind, Told
  <2>3. CASE Measure(s)
    <3>1. \/ /\ phase'[s] = "measuring" /\ job'[s] = j /\ measurement'[o] = "torn"
             /\ UNCHANGED <<ledger, aggregate, record>>
          \/ /\ phase'[s] = "aggregate" /\ job'[s] = Failed(j) /\ UNCHANGED artifacts
      BY <2>3 DEF Measure, PostStep, Goto
    <3>2. phase[s] = "measure"
      BY <2>3 DEF Measure, PostStep, Goto
    <3>3. Failed(j).errors /\ ~ Failed(j).measured /\ ~ Failed(j).aggregated
      BY <3>2 DEF LeftBehind, Failed, Job
    <3>4. FileFits(o)'
      BY <3>1 DEF FileFits, artifacts
    <3>5. LeftBehind(phase[s], job[s], o)'
      BY <3>1, <3>2, <3>3 DEF LeftBehind, artifacts
    <3> QED BY <3>4, <3>5
  <2>4. CASE MeasurementWritten(s)
    <3> DEFINE written == [j EXCEPT !.measured = TRUE]
    <3>1. \/ /\ phase'[s] = "aggregate" /\ job'[s] = written /\ measurement'[o] = j.extracted
             /\ UNCHANGED <<ledger, aggregate, record>>
          \/ /\ phase'[s] = "aggregate" /\ job'[s] = Failed(j) /\ UNCHANGED artifacts
      BY <2>4 DEF MeasurementWritten, PostStep, Goto
    <3>2. phase[s] = "measuring"
      BY <2>4 DEF MeasurementWritten, PostStep, Goto
    <3>3. Failed(j).errors /\ ~ Failed(j).measured /\ ~ Failed(j).aggregated
      BY <3>2 DEF LeftBehind, Failed, Job
    <3>4. written.errors = j.errors /\ ~ written.aggregated
      BY <3>2 DEF LeftBehind, Job
    <3>5. FileFits(o)'
      BY <3>1 DEF FileFits, artifacts
    <3> HIDE DEF written
    <3>6. LeftBehind(phase[s], job[s], o)'
      BY <3>1, <3>2, <3>3, <3>4 DEF LeftBehind, artifacts
    <3> QED BY <3>5, <3>6
  <2>5. CASE WriteAggregate(s)
    <3> DEFINE written == [j EXCEPT !.aggregated = TRUE]
    <3>1. \/ /\ phase'[s] = "record" /\ job'[s] = written /\ aggregate' = aggregate \union {o}
             /\ UNCHANGED <<ledger, measurement, record>>
          \/ /\ phase'[s] = "record" /\ job'[s] = Failed(j) /\ UNCHANGED artifacts
      BY <2>5 DEF WriteAggregate, PostStep, Goto
    <3>2. phase[s] = "aggregate"
      BY <2>5 DEF WriteAggregate, PostStep, Goto
    <3>3. Failed(j).errors /\ Failed(j).measured = j.measured /\ ~ Failed(j).aggregated
      BY <3>2 DEF LeftBehind, Failed, Job
    <3>4. written.errors = j.errors /\ written.measured = j.measured
      BY DEF Job
    <3>5. FileFits(o)'
      BY <3>1 DEF FileFits, artifacts
    <3> HIDE DEF written
    <3>6. LeftBehind(phase[s], job[s], o)'
      BY <3>1, <3>2, <3>3, <3>4 DEF LeftBehind, Told, artifacts
    <3> QED BY <3>5, <3>6
  <2>6. CASE WriteRecord(s)
    <3> DEFINE r == [measured |-> j.measured, aggregated |-> j.aggregated, errors |-> j.errors]
    <3>1. /\ phase[s] = "record" /\ phase'[s] = "retention" /\ job'[s] = j
          /\ UNCHANGED <<ledger, measurement, aggregate>> /\ record'[o] \in {Absent, r}
      BY <2>6 DEF WriteRecord, PostStep, Goto, artifacts
    <3>2. Told(o, r.measured, r.aggregated, r.errors)
      BY <3>1 DEF LeftBehind
    <3>3. FileFits(o)'
      BY <3>1, <3>2 DEF FileFits, Told
    <3>4. LeftBehind(phase[s], job[s], o)'
      BY <3>1 DEF LeftBehind
    <3> QED BY <3>3, <3>4
  <2> QED BY <2>1, <2>2, <2>3, <2>4, <2>5, <2>6
<1>9. PostFits(s)'
  BY <1>4, <1>7, <1>8 DEF PostFits, LeftBehind, Told
<1> QED BY <1>3, <1>4, <1>6, <1>7, <1>8, <1>9, OneWindow

LEMMA NextKeepsFiles ==
  ASSUME Counted, PidClaimed, WindowsOpen, FilesFit, [Next]_vars
  PROVE  FilesFit'
<1> USE DEF Counted, TypeOK
\* Steps that touch no file and stay clear of the post-steps.
<1>1. ASSUME NEW s \in Supervisors, UNCHANGED <<marker, artifacts>>, phase'[s] \notin PostSteps,
             \A t \in Supervisors \ {s} : phase'[t] = phase[t] /\ job'[t] = job[t]
      PROVE  FilesFit'
  <2>1. \A w \in Windows : FileFits(w)'
    BY <1>1 DEF FilesFit, FileFits, Told, artifacts
  <2>2. PostFits(s)'
    BY <1>1 DEF PostFits
  <2>3. ASSUME NEW t \in Supervisors \ {s} PROVE PostFits(t)'
    BY <1>1, <2>3 DEF FilesFit, PostFits, LeftBehind, Told, artifacts
  <2> QED BY <2>1, <2>2, <2>3 DEF FilesFit
<1>2. CASE UNCHANGED vars \/ Tick
  BY <1>2 DEF vars, markers, artifacts, Tick, FilesFit, FileFits, PostFits, LeftBehind, Told
<1>3. ASSUME NEW s \in Supervisors,
             \/ Launch(s) \/ Claim(s) \/ Raises(s) \/ Killed(s) \/ ExitAfterSession(s) \/ RetentionReport(s)
      PROVE  FilesFit'
  <2> USE DEF Launch, Claim, ClaimChecked, RefuseSecond, WritePid, Raises, Killed, ExitAfterSession,
              RetentionReport, Leaves, Goto, markers, PostSteps
  <2>1. /\ UNCHANGED <<marker, artifacts>> /\ phase'[s] \notin PostSteps
        /\ \A t \in Supervisors \ {s} : phase'[t] = phase[t] /\ job'[t] = job[t]
    BY <1>3
  <2> QED BY <1>1, <2>1
<1>4. ASSUME NEW s \in Supervisors,
             \/ Plan(s) \/ WriteSkipMarker(s) \/ SkipsWritten(s) \/ StartSession(s)
             \/ Accept(s) \/ Refuse(s) \/ TooSoon(s)
      PROVE  FilesFit'
  <2> USE DEF Plan, WriteSkipMarker, SkipsWritten, StartSession, Leaves, Accept, Refuse, TooSoon, AfterAttempt,
              Goto, markers, PostSteps
  <2>1. /\ UNCHANGED <<marker, artifacts>> /\ phase'[s] \notin PostSteps
        /\ \A t \in Supervisors \ {s} : phase'[t] = phase[t] /\ job'[t] = job[t]
    BY <1>4
  <2> QED BY <1>1, <2>1
<1> QED BY <1>2, <1>3, <1>4, MarkerKeepsFiles, PostStepKeepsFiles, Zenon DEF Next, Work, Session

\* The session record is true of the files beside it, whatever failed and
\* whoever was killed meanwhile, unless the pid file was raced for.
THEOREM RecordsTrue == Spec => []RecordTellsTruth
<1> DEFINE Kept == raced \/ (PidClaimed /\ WindowsOpen /\ FilesFit)
<1>1. Init => Counted /\ Kept
  BY InitCounts DEF Init, PidClaimed, WindowsOpen, WindowOpen, FilesFit, FileFits, PostFits,
                    Supervising, Asking, PostSteps
<1>2. Counted /\ Kept /\ [Next]_vars => (Counted /\ Kept)'
  <2>1. Counted /\ [Next]_vars => Counted'
    BY NextCounts
  <2>2. Counted /\ Counted' => TypeOK /\ TypeOK'
    BY DEF Counted
  <2> QED BY <2>1, <2>2, RaceStays, NextKeepsClaims, NextKeepsOpen, NextKeepsFiles
<1>3. Kept => RecordTellsTruth
  BY FilesFitSuffices DEF RecordTellsTruth
<1> QED BY <1>1, <1>2, <1>3, PTL DEF Spec
=============================================================================
