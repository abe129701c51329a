-------------------------- MODULE ScenarioRegistry --------------------------
(***************************************************************************)
(* The scenario and run registry (platform/scenario_registry.py) behind    *)
(* the lifecycle service (platform/scenario_lifecycle.py): an append-only  *)
(* file of JSON lines, and the timelines a handle replays from it when it  *)
(* is opened and keeps in memory from then on.                             *)
(*                                                                         *)
(* The digest of an event covers its whole content, its prior digest       *)
(* included, so it is represented by what it stands for: the timeline up   *)
(* to the event.  A line is written by one append; the write may fail with *)
(* nothing, a fragment, everything but the line break, or everything in    *)
(* the file, and in each case the call raises and leaves the memory alone. *)
(***************************************************************************)
EXTENDS Naturals, SequencesExt

CONSTANTS
  Handles,      \* registry objects over one log file
  Scenarios,    \* scenarios that may be registered
  Parent,       \* the prior revision of each, or NoScenario
  Artifacts,    \* external artifacts that events are made from
  Overlap,      \* TRUE: several handles may be open at once
  MaxFailures,  \* bound on the appends to the file that fail half-way
  MaxLines,     \* bound on the length of the log
  NoScenario, NoAnalysis, Garbage, Refused, Closed

ASSUME RegistryAssumption ==
  /\ Overlap \in BOOLEAN /\ MaxFailures \in Nat /\ MaxLines \in Nat
  /\ Parent \in [Scenarios -> Scenarios \union {NoScenario}]

VARIABLES
  log,          \* the lines of the file
  broken,       \* the last line lacks its line break
  view,         \* for each handle the timelines in memory, or Closed
  receipted,    \* ghost: lines whose append returned a receipt
  failures      \* ghost: how many appends have failed

registryVars == <<log, broken, view, receipted, failures>>

-----------------------------------------------------------------------------
(* What may follow what: _VALID_TRANSITIONS and the proofs of an event.    *)

Successors == [
  scenario_drafted    |-> {"approval_bound", "scenario_closed"},
  approval_bound      |-> {"execution_receipted", "scenario_closed"},
  execution_receipted |-> {"deviation_recorded", "analysis_bound", "admission_recorded", "scenario_closed"},
  deviation_recorded  |-> {"deviation_recorded", "analysis_bound", "admission_recorded", "scenario_closed"},
  analysis_bound      |-> {"deviation_recorded", "admission_recorded", "scenario_closed"},
  admission_recorded  |-> {"deviation_recorded", "scenario_closed"},
  scenario_closed     |-> {}]

HeadType(timeline) == IF timeline = <<>> THEN "scenario_drafted" ELSE Last(timeline).type

Positions(timeline, type) == {i \in DOMAIN timeline : timeline[i].type = type}

\* The timeline needs exactly one event of this type, made from this artifact.
Binds(timeline, type, id) ==
  \E i \in DOMAIN timeline : Positions(timeline, type) = {i} /\ timeline[i].id = id

\* Mutant: the first analysis instead of the latest.
FirstAnalysis(timeline) ==
  LET analyses == Positions(timeline, "analysis_bound")
  IN  IF analyses = {} THEN NoAnalysis ELSE timeline[Min(analyses)].id

CurrentAnalysis(timeline) ==
  LET analyses == Positions(timeline, "analysis_bound")
  IN  IF analyses = {} THEN NoAnalysis ELSE timeline[Max(analyses)].id

\* The artifact proves the event: an approval names this draft, an execution
\* receipt the approval, and all that follows the execution; an admission
\* also names the analysis that is current.
Proves(a, s, timeline) ==
  /\ a.type = "approval_bound" => a.source = s
  /\ a.type = "execution_receipted" => Binds(timeline, "approval_bound", a.source)
  /\ a.type \in {"deviation_recorded", "analysis_bound", "admission_recorded"} =>
       Binds(timeline, "execution_receipted", a.source)
  /\ a.type = "admission_recorded" => a.analysis = CurrentAnalysis(timeline)

-----------------------------------------------------------------------------
(* Lines, and what a handle accepts on top of the timelines it knows.      *)

ScenarioLine(s) == [kind |-> "scenario", scenario |-> s]
EventLine(s, prior, a) == [kind |-> "event", scenario |-> s, prior |-> prior, artifact |-> a]

Accepts(known, line) ==
  IF line.kind = "scenario" THEN line.scenario \notin DOMAIN known
  ELSE /\ line.scenario \in DOMAIN known
       /\ line.prior = known[line.scenario]
       /\ line.artifact.type \in Successors[HeadType(known[line.scenario])]
       /\ Proves(line.artifact, line.scenario, known[line.scenario])

Learn(known, line) ==
  [s \in DOMAIN known \union {line.scenario} |->
     IF s # line.scenario THEN known[s]
     ELSE IF line.kind = "scenario" THEN <<>> ELSE Append(line.prior, line.artifact)]

Nothing == [s \in {} |-> <<>>]

\* Mutant: a bad line is skipped.
SkipBadLine(known, line) ==
  IF line = Garbage THEN known ELSE IF Accepts(known, line) THEN Learn(known, line) ELSE known

\* A line that is no JSON document, or is not accepted, refuses the whole log.
ReplayLine(known, line) ==
  IF known = Refused \/ line = Garbage THEN Refused
  ELSE IF Accepts(known, line) THEN Learn(known, line) ELSE Refused

ReplayLog(lines) ==
  LET known[n \in 0 .. Len(lines)] ==
        IF n = 0 THEN Nothing ELSE ReplayLine(known[n - 1], lines[n])
  IN  known[Len(lines)]

-----------------------------------------------------------------------------
(* The file and the handles.                                               *)

RegistryInit ==
  /\ log = <<>> /\ broken = FALSE
  /\ view = [h \in Handles |-> Closed]
  /\ receipted = {} /\ failures = 0

Open(h) ==
  /\ view[h] = Closed
  /\ Overlap \/ \A g \in Handles : view[g] = Closed
  /\ ReplayLog(log) # Refused
  /\ view' = [view EXCEPT ![h] = ReplayLog(log)]
  /\ UNCHANGED <<log, broken, receipted, failures>>

\* The handle is dropped, or its process dies between two calls.
Close(h) ==
  /\ view[h] # Closed
  /\ view' = [view EXCEPT ![h] = Closed]
  /\ UNCHANGED <<log, broken, receipted, failures>>

\* Bytes appended after a line without its break become part of that line.
Written(line) == IF broken THEN [log EXCEPT ![Len(log)] = Garbage] ELSE Append(log, line)

AppendLine(h, line) ==
  /\ Len(Written(line)) <= MaxLines
  /\ log' = Written(line) /\ broken' = FALSE
  /\ view' = [view EXCEPT ![h] = Learn(view[h], line)]
  /\ receipted' = receipted \union {line}
  /\ UNCHANGED failures

\* Mutant: the memory is updated before the line is written.
FailsAfterMemory(h, line) ==
  /\ failures < MaxFailures /\ Len(Written(line)) <= MaxLines
  /\ UNCHANGED <<log, broken, receipted>>
  /\ view' = [view EXCEPT ![h] = Learn(view[h], line)]
  /\ failures' = failures + 1

\* The line break is missing when only a part of the line was written.
AppendLineFails(h, line) ==
  /\ failures < MaxFailures /\ Len(Written(line)) <= MaxLines
  /\ \/ UNCHANGED <<log, broken>>
     \/ log' = Written(Garbage) /\ broken' = TRUE
     \/ log' = Written(line) /\ broken' \in BOOLEAN
  /\ failures' = failures + 1
  /\ UNCHANGED <<view, receipted>>

\* A new scenario; a revision needs its prior one, and is its only child.
Registrable(h, s) ==
  /\ view[h] # Closed
  /\ s \notin DOMAIN view[h]
  /\ Parent[s] # NoScenario =>
       /\ Parent[s] \in DOMAIN view[h]
       /\ \A r \in DOMAIN view[h] : Parent[r] # Parent[s]

Register(h, s) == Registrable(h, s) /\ AppendLine(h, ScenarioLine(s))

RegisterFails(h, s) == Registrable(h, s) /\ AppendLineFails(h, ScenarioLine(s))

\* The prior digests a caller may name: the head of any timeline that it
\* read, earlier or from another handle.
ReadHeads(s) ==
  UNION {IF view[g] # Closed /\ s \in DOMAIN view[g] THEN Prefixes(view[g][s]) ELSE {} : g \in Handles}

\* An event that this handle already holds is answered with its receipt
\* again and changes nothing; any other must pass every check.
Appendable(h, line) ==
  /\ view[h] # Closed
  /\ Accepts(view[h], line)

AppendEvent(h, line) == Appendable(h, line) /\ AppendLine(h, line)

AppendEventFails(h, line) == Appendable(h, line) /\ AppendLineFails(h, line)

Submitted == UNION {{EventLine(s, prior, a) : prior \in ReadHeads(s), a \in Artifacts} : s \in Scenarios}

RegistryNext ==
  \/ \E h \in Handles : Open(h) \/ Close(h)
  \/ \E h \in Handles, s \in Scenarios : Register(h, s) \/ RegisterFails(h, s)
  \/ \E h \in Handles : \E line \in Submitted : AppendEvent(h, line) \/ AppendEventFails(h, line)

RegistrySpec == RegistryInit /\ [][RegistryNext]_registryVars

-----------------------------------------------------------------------------
(* What must hold.                                                         *)

Lines ==
  [kind : {"scenario"}, scenario : Scenarios] \union
  [kind : {"event"}, scenario : Scenarios, prior : Seq(Artifacts), artifact : Artifacts]

\* What a handle may know: a timeline for each of some scenarios.
IsHistory(known) == \E names \in SUBSET Scenarios : known \in [names -> Seq(Artifacts)]

ASSUME ArtifactsAssumption ==
  \A a \in Artifacts : a.type \in DOMAIN Successors \ {"scenario_drafted"}

ASSUME MarksAssumption == Garbage \notin Lines /\ ~ IsHistory(Refused)

\* Types of the file, the handles and the histories.
RegistryTypeOK ==
  /\ log \in Seq(Lines \union {Garbage}) /\ Len(log) <= MaxLines
  /\ broken \in BOOLEAN /\ (broken => log # <<>>)
  /\ DOMAIN view = Handles /\ \A h \in Handles : view[h] = Closed \/ IsHistory(view[h])
  /\ receipted \in SUBSET Lines
  /\ failures \in 0 .. MaxFailures

Replayable == ReplayLog(log) # Refused

\* "The registry fails closed, never silently": whatever writes fail and
\* processes die, a log that still opens holds everything that was ever
\* receipted to a caller; otherwise it does not open at all.
NothingSilentlyLost ==
  Replayable =>
    \A line \in receipted :
      /\ line.scenario \in DOMAIN ReplayLog(log)
      /\ line.kind = "event" =>
           IsPrefix(Append(line.prior, line.artifact), ReplayLog(log)[line.scenario])

\* "Every write uses optimistic concurrency": appends that all succeed leave
\* a file that opens, whatever else was appended in between.
LogOpens == failures = 0 => Replayable

\* What a handle shows is never a branch of its own: if the log opens, every
\* timeline in memory is an initial part of the one on disk, even when a
\* failed append left the file ahead of the memory.
ViewsOnDisk ==
  Replayable =>
    \A h \in Handles : view[h] # Closed =>
      \A s \in DOMAIN view[h] :
        s \in DOMAIN ReplayLog(log) /\ IsPrefix(view[h][s], ReplayLog(log)[s])

\* What a timeline t of scenario s says: an execution follows its approval,
\* every deviation, analysis and admission is about the one execution before
\* it, an admission judged the latest analysis of its time, and nothing
\* follows a closure.
Means(s, t) == \A i \in DOMAIN t :
  LET before == {t[j] : j \in 1 .. i - 1}
      runs == {a \in before : a.type = "execution_receipted"}
      judged == {j \in 1 .. i - 1 : t[j].type = "analysis_bound"}
  IN  /\ \A a \in before : a.type # "scenario_closed"
      /\ t[i].type = "execution_receipted" =>
           /\ runs = {}
           /\ \E a \in before : a.type = "approval_bound" /\ a.source = s /\ a.id = t[i].source
      /\ t[i].type \in {"deviation_recorded", "analysis_bound", "admission_recorded"} =>
           \E a \in runs : runs = {a} /\ a.id = t[i].source
      /\ t[i].type = "admission_recorded" =>
           \/ judged = {} /\ t[i].analysis = NoAnalysis
           \/ \E j \in judged : t[j].id = t[i].analysis /\ \A k \in judged : k <= j

\* "Execution is not admission": whatever order artifacts arrive in, every
\* timeline a handle shows means what it says.
TimelinesMean ==
  \A h \in Handles : view[h] # Closed => \A s \in DOMAIN view[h] : Means(s, view[h][s])
=============================================================================
