------------------------- MODULE SourceRefreshProofs -------------------------
(***************************************************************************)
(* Proofs about SourceRefresh, for any sessions, selections, products and  *)
(* modes, whatever fails or ends and however the clock is set.             *)
(*                                                                         *)
(* The argument has three strands over the types.  Files: a session that   *)
(* publishes owns its lock, what it placed is there, and nothing is        *)
(* accepted before it is in the quarantine.  Traces: as long as a          *)
(* retrieval is the only one of its second, every lock and directory with  *)
(* its id is the work of the session that carries it.  Layers: what is on  *)
(* a map or retained by a session is backed, by Files for a new layer, and *)
(* a session retains what has been on display all along.                   *)
(***************************************************************************)
EXTENDS SourceRefresh, TLAPS

Carrying == {"ready", "published"} \cup Publishing

-----------------------------------------------------------------------------
(* Types.                                                                  *)

LEMMA NoJobFits == NoJob \in Job
<1>1. (CHOOSE s \in Sources : TRUE) \in Sources
  BY SourcesAssumption
<1> QED BY <1>1 DEF NoJob, NewJob, Job, Areas

LEMMA SnapshotIdFits == ASSUME TypeOK, NEW a \in Sessions PROVE SnapshotId(a) \in Id /\ Lock(a) \in Areas \X Id
BY DEF TypeOK, SnapshotId, Lock, Job, Id

\* What every step of a session leaves of the others.
Elsewhere(a) ==
  \A b \in Sessions : b # a => phase'[b] = phase[b] /\ job'[b] = job[b] /\ base'[b] = base[b]

Step(a) ==
  \/ \E s \in Sources : Begin(a, s)
  \/ Acquire(a) \/ ReadScene(a) \/ PublishScene(a)
  \/ RefreshFails(a) \/ ProcessDies(a)

LEMMA StepsAlone == ASSUME TypeOK, NEW a \in Sessions, Step(a) PROVE Elsewhere(a)
BY DEF Step, Elsewhere, Acquire, Begin, Fetch, AcquireLock, Place, ReleaseLock, Validate, Accepted,
       ReadScene, PublishScene, RefreshFails, ProcessDies, Leave, Goto, TypeOK

\* After Leave a session is idle, with nothing retained.
LEMMA LeavesIdle ==
  ASSUME TypeOK, NEW a \in Sessions, Leave(a)
  PROVE  phase'[a] = "idle" /\ job'[a] = NoJob /\ base'[a] = {}
BY DEF Leave, TypeOK

LEMMA TypePreserved == TypeOK /\ [Next]_vars => TypeOK'
<1> SUFFICES ASSUME TypeOK, [Next]_vars PROVE TypeOK'
  OBVIOUS
<1> USE DEF TypeOK
<1>0. NoJob \in Job
  BY NoJobFits
<1>1. ASSUME NEW a \in Sessions, NEW s \in Sources, Begin(a, s) PROVE TypeOK'
  <2>1. NewJob(s) \in Job
    BY DEF NewJob, Job, Areas
  <2>2. begun' \in 0 .. MaxBegun
    BY <1>1, SourcesAssumption DEF Begin
  <2> QED BY <1>1, <2>1, <2>2 DEF Begin, Goto, Working, snapshots, ghosts
<1>2. ASSUME NEW a \in Sessions, Fetch(a) PROVE TypeOK'
  <2>1. [source |-> job[a].source, product |-> job[a].product, at |-> now] \in Id
    BY DEF Job, Id
  <2>2. job' \in [Sessions -> Job]
    <3>1. job[a] \in Job
      OBVIOUS
    <3>2. [job[a] EXCEPT !.at = now, !.area = "quarantine"] \in Job
      BY <3>1 DEF Job, Areas
    <3>3. job' = [job EXCEPT ![a] = [job[a] EXCEPT !.at = now, !.area = "quarantine"]]
      BY <1>2 DEF Fetch
    <3> QED BY <3>2, <3>3
  <2>3. asked' \subseteq Id /\ again' \subseteq asked'
    BY <1>2, <2>1 DEF Fetch
  <2> QED BY <1>2, <2>2, <2>3 DEF Fetch, Goto, Working, snapshots
<1>3. ASSUME NEW a \in Sessions, AcquireLock(a) PROVE TypeOK'
  BY <1>3, SnapshotIdFits DEF AcquireLock, Goto, Working, Publishing, ghosts
<1>4. ASSUME NEW a \in Sessions, Place(a) PROVE TypeOK'
  <2>1. job[a].area \in Areas
    BY DEF Job
  <2> QED BY <1>4, <2>1, SnapshotIdFits DEF Place, Goto, Working, Publishing, ghosts
<1>5. ASSUME NEW a \in Sessions, ReleaseLock(a) PROVE TypeOK'
  BY <1>5 DEF ReleaseLock, Goto, Working, ghosts
<1>6. ASSUME NEW a \in Sessions, Validate(a) PROVE TypeOK'
  <2>1. job' \in [Sessions -> Job]
    BY <1>6 DEF Validate, Job, Areas
  <2> QED BY <1>6, <2>1 DEF Validate, Goto, Working, snapshots, ghosts
<1>7. ASSUME NEW a \in Sessions, Accepted(a) PROVE TypeOK'
  <2> DEFINE shown == IF job[a].product = Shown[job[a].source] THEN job[a].at ELSE job[a].shown
  <2>1. shown \in Nat /\ job[a].source \in Sources /\ Mode[job[a].source] \in Modes
    BY DEF Job, Modes
  <2>2. \/ job' = [job EXCEPT ![a].product = @ + 1, ![a].shown = shown]
        \/ job' = [job EXCEPT ![a].shown = shown]
    BY <1>7 DEF Accepted
  <2> HIDE DEF shown
  <2>3. job' \in [Sessions -> Job]
    <3>1. job[a] \in Job
      OBVIOUS
    <3>2. [job[a] EXCEPT !.product = @ + 1, !.shown = shown] \in Job
      <4>1. job[a].product + 1 \in Nat
        BY <3>1 DEF Job
      <4> QED BY <2>1, <3>1, <4>1 DEF Job
    <3>3. [job[a] EXCEPT !.shown = shown] \in Job
      BY <2>1, <3>1 DEF Job
    <3>4. \/ job' = [job EXCEPT ![a] = [job[a] EXCEPT !.product = @ + 1, !.shown = shown]]
          \/ job' = [job EXCEPT ![a] = [job[a] EXCEPT !.shown = shown]]
      BY <2>2
    <3> QED BY <3>2, <3>3, <3>4
  <2>4. since' \in [Sessions -> SUBSET Layer]
    BY <1>7, <2>1 DEF Accepted
  <2>5. phase' \in [Sessions -> {"idle"} \cup Working]
    BY <1>7 DEF Accepted, Working, Composed
  <2> QED BY <1>7, <2>3, <2>4, <2>5 DEF Accepted, snapshots
<1>8. ASSUME NEW a \in Sessions, ReadScene(a) PROVE TypeOK'
  <2>1. Unrelated(scene[Mode[job[a].source]], job[a].source) \in SUBSET Layer
    BY DEF Unrelated, Job, Modes
  <2> QED BY <1>8, <2>1 DEF ReadScene, Goto, Working, Composed, snapshots, ghosts
<1>9. ASSUME NEW a \in Sessions, PublishScene(a) PROVE TypeOK'
  <2>1. NewLayer(a) \in Layer
    BY DEF NewLayer, Layer, Job
  <2>2. scene' \in [Modes -> SUBSET Layer]
    BY <1>9, <2>1 DEF PublishScene
  <2>3. since' \in [Sessions -> SUBSET Layer]
    BY <1>9 DEF PublishScene
  <2> QED BY <1>0, <1>9, <2>2, <2>3 DEF PublishScene, Leave, snapshots
<1>10. ASSUME NEW a \in Sessions, RefreshFails(a) \/ ProcessDies(a) PROVE TypeOK'
  BY <1>0, <1>10 DEF RefreshFails, ProcessDies, Leave, snapshots
<1>11. CASE ClockMoves
  BY <1>11, SourcesAssumption DEF ClockMoves, snapshots, locals, ghosts
<1>12. CASE UNCHANGED vars
  BY <1>12 DEF vars, snapshots, locals, ghosts
<1> QED BY <1>1, <1>2, <1>3, <1>4, <1>5, <1>6, <1>7, <1>8, <1>9, <1>10, <1>11, <1>12 DEF Next, Acquire

\* Types of the files, the locals and the histories, for every instance.
THEOREM TypeCorrect == Spec => []TypeOK
<1>1. Init => TypeOK
  BY NoJobFits, SourcesAssumption DEF Init, TypeOK
<1> QED BY <1>1, TypePreserved, PTL DEF Spec

-----------------------------------------------------------------------------
(* Files.                                                                  *)

Files ==
  /\ \A a \in Sessions : phase[a] \in Publishing => Lock(a) \in locks
  /\ \A a, b \in Sessions :
       (a # b /\ phase[a] \in Publishing /\ phase[b] \in Publishing) => Lock(a) # Lock(b)
  /\ \A a \in Sessions :
       phase[a] \in {"placed", "published"} => SnapshotId(a) \in store[job[a].area]
  /\ \A a \in Sessions :
       (phase[a] \in Carrying /\ job[a].area = "accepted") => SnapshotId(a) \in store["quarantine"]
  /\ store["accepted"] \subseteq store["quarantine"]
  /\ OneReceipt

\* What the ids and locks of the others are after a step of one session.
LEMMA IdsElsewhere ==
  ASSUME TypeOK, NEW a \in Sessions, Elsewhere(a)
  PROVE  \A b \in Sessions : b # a => SnapshotId(b)' = SnapshotId(b) /\ Lock(b)' = Lock(b)
BY DEF Elsewhere, SnapshotId, Lock

\* A step after which the session carries nothing yet, or bytes for the quarantine.
LEMMA QuietKeepsFiles ==
  ASSUME TypeOK, Files, NEW a \in Sessions, Elsewhere(a), store' = store,
         \A k \in locks : k \in locks' \/ (phase[a] \in Publishing /\ k = Lock(a)),
         phase'[a] \notin Carrying \/ (phase'[a] = "ready" /\ job'[a].area = "quarantine")
  PROVE  Files'
<1>1. \A b \in Sessions : b # a => /\ phase'[b] = phase[b] /\ job'[b] = job[b]
                                   /\ SnapshotId(b)' = SnapshotId(b) /\ Lock(b)' = Lock(b)
  BY IdsElsewhere DEF Elsewhere
<1>2. phase'[a] \notin Publishing \cup {"placed", "published"}
  BY DEF Carrying, Publishing
<1>3. \A b \in Sessions : phase'[b] \in Publishing => Lock(b)' \in locks'
  BY <1>1, <1>2 DEF Files
<1>4. \A b, c \in Sessions :
        (b # c /\ phase'[b] \in Publishing /\ phase'[c] \in Publishing) => Lock(b)' # Lock(c)'
  BY <1>1, <1>2 DEF Files
<1>5. \A b \in Sessions :
        phase'[b] \in {"placed", "published"} => SnapshotId(b)' \in store'[job'[b].area]
  BY <1>1, <1>2 DEF Files
<1>6. \A b \in Sessions :
        (phase'[b] \in Carrying /\ job'[b].area = "accepted") => SnapshotId(b)' \in store'["quarantine"]
  BY <1>1 DEF Files
<1>7. OneReceipt'
  BY <1>1, <1>2 DEF Files, OneReceipt
<1> QED BY <1>3, <1>4, <1>5, <1>6, <1>7 DEF Files

\* A step of a session that keeps its id.
LEMMA SameId ==
  ASSUME TypeOK, NEW a \in Sessions, job' = job
  PROVE  SnapshotId(a)' = SnapshotId(a) /\ Lock(a)' = Lock(a)
BY DEF SnapshotId, Lock

LEMMA LockKeepsFiles ==
  ASSUME TypeOK, Files, NEW a \in Sessions, AcquireLock(a) PROVE Files'
<1>1. \A b \in Sessions : SnapshotId(b)' = SnapshotId(b) /\ Lock(b)' = Lock(b)
  BY SameId DEF AcquireLock
<1>2. /\ phase[a] = "ready" /\ phase'[a] = "locked" /\ Lock(a) \notin locks
      /\ \A b \in Sessions : b # a => phase'[b] = phase[b]
      /\ locks' = locks \cup {Lock(a)} /\ store' = store /\ job' = job
  BY DEF AcquireLock, Goto, TypeOK
<1> QED BY <1>1, <1>2 DEF Files, OneReceipt, Publishing, Carrying

LEMMA PlaceKeepsFiles ==
  ASSUME TypeOK, Files, NEW a \in Sessions, Place(a) PROVE Files'
<1>1. \A b \in Sessions : SnapshotId(b)' = SnapshotId(b) /\ Lock(b)' = Lock(b)
  BY SameId DEF Place
<1>2. /\ phase[a] = "locked" /\ phase'[a] = "placed" /\ SnapshotId(a) \notin store[job[a].area]
      /\ \A b \in Sessions : b # a => phase'[b] = phase[b]
      /\ locks' = locks /\ job' = job
  BY DEF Place, Goto, TypeOK
<1>3. /\ SnapshotId(a) \in store'[job[a].area] /\ job[a].area \in Areas
      /\ \A r \in Areas : store[r] \subseteq store'[r] /\ store'[r] \subseteq store[r] \cup {SnapshotId(a)}
      /\ \A r \in Areas : r # job[a].area => store'[r] = store[r]
  BY DEF Place, TypeOK, Job
<1>4. \A b \in Sessions : job[b].area \in Areas
  BY DEF TypeOK, Job
<1>5. store'["accepted"] \subseteq store'["quarantine"]
  BY <1>2, <1>3 DEF Files, Areas, Carrying, Publishing
<1>6. \A b \in Sessions : b # a /\ phase[b] \in {"placed", "published"} => Lock(b) # Lock(a)
  BY <1>2 DEF Files, Lock
<1>7. OneReceipt'
  BY <1>1, <1>2, <1>6 DEF Files, OneReceipt
<1> QED BY <1>1, <1>2, <1>3, <1>4, <1>5, <1>7 DEF Files, Publishing, Carrying, Areas

LEMMA ReleaseKeepsFiles ==
  ASSUME TypeOK, Files, NEW a \in Sessions, ReleaseLock(a) PROVE Files'
<1>1. \A b \in Sessions : SnapshotId(b)' = SnapshotId(b) /\ Lock(b)' = Lock(b)
  BY SameId DEF ReleaseLock
<1>2. /\ phase[a] = "placed" /\ phase'[a] = "published"
      /\ \A b \in Sessions : b # a => phase'[b] = phase[b]
      /\ locks' = locks \ {Lock(a)} /\ store' = store /\ job' = job
  BY DEF ReleaseLock, Goto, TypeOK
<1> QED BY <1>1, <1>2 DEF Files, OneReceipt, Publishing, Carrying

LEMMA ValidateKeepsFiles ==
  ASSUME TypeOK, Files, NEW a \in Sessions, Validate(a) PROVE Files'
<1>1. Elsewhere(a)
  BY StepsAlone DEF Step, Acquire
<1>2. \A b \in Sessions : b # a => SnapshotId(b)' = SnapshotId(b) /\ Lock(b)' = Lock(b)
  BY <1>1, IdsElsewhere
<1>3. /\ phase'[a] = "ready" /\ SnapshotId(a)' = SnapshotId(a) /\ SnapshotId(a) \in store["quarantine"]
      /\ locks' = locks /\ store' = store
  BY DEF Validate, Goto, TypeOK, SnapshotId, Job, snapshots
<1> QED BY <1>1, <1>2, <1>3 DEF Files, OneReceipt, Publishing, Elsewhere

LEMMA FilesPreserved == TypeOK /\ Files /\ [Next]_vars => Files'
<1> SUFFICES ASSUME TypeOK, Files, [Next]_vars PROVE Files'
  OBVIOUS
<1>1. ASSUME NEW a \in Sessions,
             (\E s \in Sources : Begin(a, s)) \/ Fetch(a) \/ Accepted(a) \/ ReadScene(a)
             \/ PublishScene(a) \/ RefreshFails(a) \/ ProcessDies(a)
      PROVE  Files'
  <2>1. Elsewhere(a)
    BY <1>1, StepsAlone DEF Step, Acquire
  <2>2. store' = store
    BY <1>1 DEF Begin, Fetch, Accepted, ReadScene, PublishScene, RefreshFails, ProcessDies, snapshots
  <2>3. \A k \in locks : k \in locks' \/ (phase[a] \in Publishing /\ k = Lock(a))
    BY <1>1 DEF Begin, Fetch, Accepted, ReadScene, PublishScene, RefreshFails, ProcessDies, snapshots
  <2>4. phase'[a] \notin Carrying \/ (phase'[a] = "ready" /\ job'[a].area = "quarantine")
    BY <1>1, LeavesIdle
    DEF Begin, Fetch, Accepted, ReadScene, PublishScene, RefreshFails, ProcessDies, Goto, TypeOK, Job,
        Carrying, Publishing
  <2> QED BY <2>1, <2>2, <2>3, <2>4, QuietKeepsFiles
<1>2. CASE ClockMoves \/ UNCHANGED vars
  <2>1. UNCHANGED <<store, locks, phase, job>>
    BY <1>2 DEF ClockMoves, vars, snapshots, locals
  <2> QED BY <2>1 DEF Files, OneReceipt, Lock, SnapshotId
<1> QED
  BY <1>1, <1>2, LockKeepsFiles, PlaceKeepsFiles, ReleaseKeepsFiles, ValidateKeepsFiles DEF Next, Acquire

\* No snapshot is published twice: of all refreshes at most one holds the
\* receipt of a snapshot, whatever locks and directories were left behind.
THEOREM PublishedOnce == Spec => []OneReceipt
<1>1. Init => Files
  BY DEF Init, Files, OneReceipt, Publishing, Carrying, Areas
<1>2. Files => OneReceipt
  BY DEF Files
<1> QED BY <1>1, <1>2, FilesPreserved, TypeCorrect, PTL DEF Spec

-----------------------------------------------------------------------------
(* Layers that are backed.                                                 *)

Evident(layers) == \A l \in layers : \A r \in Areas : Evidence(l) \in store[r]

Backed ==
  /\ \A m \in Modes : Evident(scene[m])
  /\ \A a \in Sessions : Evident(base[a])

\* No step takes a snapshot away.
LEMMA StoreGrows ==
  ASSUME TypeOK, [Next]_vars
  PROVE  \A r \in Areas : store[r] \subseteq store'[r]
<1>1. ASSUME NEW a \in Sessions, Place(a) PROVE \A r \in Areas : store[r] \subseteq store'[r]
  BY <1>1 DEF Place, TypeOK
<1>2. ASSUME NEW a \in Sessions,
             (\E s \in Sources : Begin(a, s)) \/ Fetch(a) \/ AcquireLock(a) \/ ReleaseLock(a)
             \/ Validate(a) \/ Accepted(a) \/ ReadScene(a) \/ PublishScene(a)
             \/ RefreshFails(a) \/ ProcessDies(a)
      PROVE  store' = store
  BY <1>2 DEF Begin, Fetch, AcquireLock, ReleaseLock, Validate, Accepted, ReadScene, PublishScene,
              RefreshFails, ProcessDies, snapshots
<1>3. (ClockMoves \/ UNCHANGED vars) => store' = store
  BY DEF ClockMoves, vars, snapshots
<1> QED BY <1>1, <1>2, <1>3 DEF Next, Acquire

LEMMA EvidentStays ==
  ASSUME NEW layers, \A r \in Areas : store[r] \subseteq store'[r], Evident(layers)
  PROVE  \A l \in layers : \A r \in Areas : Evidence(l) \in store'[r]
BY DEF Evident

\* The steps other than ReadScene and PublishScene: layers stay where they are.
LEMMA QuietKeepsBacked ==
  ASSUME TypeOK, Backed, \A r \in Areas : store[r] \subseteq store'[r], scene' = scene,
         \A a \in Sessions : base'[a] = base[a] \/ base'[a] = {}
  PROVE  Backed'
<1>1. \A m \in Modes : \A l \in scene'[m] : \A r \in Areas : Evidence(l) \in store'[r]
  BY EvidentStays DEF Backed
<1>2. \A a \in Sessions : \A l \in base'[a] : \A r \in Areas : Evidence(l) \in store'[r]
  BY EvidentStays DEF Backed
<1> QED BY <1>1, <1>2 DEF Backed, Evident, Evidence

LEMMA BackedPreserved == TypeOK /\ Files /\ Backed /\ [Next]_vars => Backed'
<1> SUFFICES ASSUME TypeOK, Files, Backed, [Next]_vars PROVE Backed'
  OBVIOUS
<1>0. \A r \in Areas : store[r] \subseteq store'[r]
  BY StoreGrows
<1>1. ASSUME NEW a \in Sessions,
             (\E s \in Sources : Begin(a, s)) \/ Acquire(a) \/ RefreshFails(a) \/ ProcessDies(a)
      PROVE  Backed'
  <2>1. scene' = scene
    BY <1>1 DEF Begin, Acquire, Fetch, AcquireLock, Place, ReleaseLock, Validate, Accepted,
                RefreshFails, ProcessDies
  <2>2. \A b \in Sessions : base'[b] = base[b] \/ base'[b] = {}
    BY <1>1 DEF Begin, Acquire, Fetch, AcquireLock, Place, ReleaseLock, Validate, Accepted,
                RefreshFails, ProcessDies, Leave, TypeOK
  <2> QED BY <1>0, <2>1, <2>2, QuietKeepsBacked
<1>2. ASSUME NEW a \in Sessions, ReadScene(a) PROVE Backed'
  <2>1. /\ scene' = scene /\ store' = store
        /\ base'[a] \subseteq scene[Mode[job[a].source]]
        /\ \A b \in Sessions : b # a => base'[b] = base[b]
    BY <1>2 DEF ReadScene, Unrelated, TypeOK, snapshots
  <2>2. Mode[job[a].source] \in Modes
    BY DEF TypeOK, Job, Modes
  <2> QED BY <2>1, <2>2 DEF Backed, Evident, Evidence
<1>3. ASSUME NEW a \in Sessions, PublishScene(a) PROVE Backed'
  <2> DEFINE mode == Mode[job[a].source]
  <2>1. /\ store' = store /\ \A b \in Sessions : base'[b] = base[b] \/ base'[b] = {}
        /\ \A m \in Modes : scene'[m] = scene[m] \/ scene'[m] = base[a] \cup {NewLayer(a)}
    BY <1>3 DEF PublishScene, Leave, TypeOK, snapshots
  <2>2. \A r \in Areas : Evidence(NewLayer(a)) \in store[r]
    BY <1>3 DEF PublishScene, Files, Areas
  <2> QED BY <2>1, <2>2 DEF Backed, Evident, Evidence
<1>4. CASE ClockMoves \/ UNCHANGED vars
  BY <1>0, <1>4, QuietKeepsBacked DEF ClockMoves, vars, locals
<1> QED BY <1>1, <1>2, <1>3, <1>4 DEF Next

\* Every layer on a map shows a snapshot that was accepted and lies in the
\* quarantine too, for any number of refreshes that overlap, fail or die.
THEOREM LayersAlwaysBacked == Spec => []LayersBacked
<1>1. Init => Files /\ Backed
  BY DEF Init, Files, OneReceipt, Publishing, Carrying, Areas, Backed, Evident
<1>2. Backed => LayersBacked
  BY DEF Backed, Evident, LayersBacked
<1> QED BY <1>1, <1>2, FilesPreserved, BackedPreserved, TypeCorrect, PTL DEF Spec

-----------------------------------------------------------------------------
(* Traces.                                                                 *)

\* What the only retrieval of its second finds before it: nothing.
Untouched(a) ==
  /\ phase[a] = "ready" => Lock(a) \notin locks
  /\ phase[a] \in {"ready", "locked"} => SnapshotId(a) \notin store[job[a].area]
  /\ job[a].area = "quarantine" =>
       <<"accepted", SnapshotId(a)>> \notin locks /\ SnapshotId(a) \notin store["accepted"]

Traces ==
  /\ \A a \in Sessions : phase[a] \in Carrying => SnapshotId(a) \in asked
  /\ \A r \in Areas : \A id \in Id : (id \in store[r] \/ <<r, id>> \in locks) => id \in asked
  /\ \A a, b \in Sessions :
       (a # b /\ phase[a] \in Carrying /\ phase[b] \in Carrying /\ SnapshotId(a) = SnapshotId(b))
         => SnapshotId(a) \in again
  /\ \A a \in Sessions : (phase[a] \in Carrying /\ SnapshotId(a) \notin again) => Untouched(a)

\* A step that adds no trace, and after which nobody carries who did not.
LEMMA QuietKeepsTraces ==
  ASSUME TypeOK, Traces, store' = store, locks' \subseteq locks, asked' = asked, again' = again,
         \A a \in Sessions :
           \/ phase'[a] \notin Carrying
           \/ /\ job'[a] = job[a]
              /\ phase'[a] = phase[a] \/ (phase[a] = "placed" /\ phase'[a] = "published")
  PROVE  Traces'
<1>1. \A a \in Sessions : phase'[a] \in Carrying =>
        /\ phase[a] \in Carrying /\ job'[a] = job[a]
        /\ phase'[a] = phase[a] \/ (phase[a] = "placed" /\ phase'[a] = "published")
  BY DEF Carrying, Publishing
<1>2. \A a \in Sessions : phase'[a] \in Carrying =>
        SnapshotId(a)' = SnapshotId(a) /\ Lock(a)' = Lock(a)
  BY <1>1 DEF SnapshotId, Lock
<1>3. ASSUME NEW a \in Sessions, phase'[a] \in Carrying, SnapshotId(a)' \notin again' PROVE Untouched(a)'
  BY <1>1, <1>2, <1>3 DEF Traces, Untouched
<1> QED BY <1>1, <1>2, <1>3 DEF Traces

LEMMA FetchKeepsTraces ==
  ASSUME TypeOK, Traces, NEW a \in Sessions, Fetch(a) PROVE Traces'
<1>1. Elsewhere(a)
  BY StepsAlone DEF Step, Acquire
<1>2. \A b \in Sessions : b # a => SnapshotId(b)' = SnapshotId(b) /\ Lock(b)' = Lock(b)
  BY <1>1, IdsElsewhere
<1>3. /\ store' = store /\ locks' = locks
      /\ asked' = asked \cup {SnapshotId(a)'}
      /\ again' = IF SnapshotId(a)' \in asked THEN again \cup {SnapshotId(a)'} ELSE again
      /\ phase'[a] = "ready" /\ job'[a].area = "quarantine"
  BY DEF Fetch, Goto, TypeOK, Job, SnapshotId, snapshots
<1>4. SnapshotId(a)' \in Id
  BY TypePreserved, SnapshotIdFits DEF TypeOK, Next, Acquire, Id, SnapshotId, Job, Fetch
<1>5. Lock(a)' = <<"quarantine", SnapshotId(a)'>>
  BY <1>3 DEF Lock
<1>6. SnapshotId(a)' \notin again' => Untouched(a)'
  BY <1>3, <1>4, <1>5 DEF Traces, Untouched, Areas
<1>7. ASSUME NEW b \in Sessions, b # a, phase'[b] \in Carrying, SnapshotId(b)' \notin again'
      PROVE  Untouched(b)'
  BY <1>1, <1>2, <1>3, <1>7 DEF Traces, Untouched, Elsewhere
<1>8. ASSUME NEW b \in Sessions, b # a, phase'[b] \in Carrying, SnapshotId(b)' = SnapshotId(a)'
      PROVE  SnapshotId(a)' \in again'
  BY <1>1, <1>2, <1>3, <1>8 DEF Traces, Elsewhere
<1>9. \A b, c \in Sessions :
       (b # c /\ phase'[b] \in Carrying /\ phase'[c] \in Carrying /\ SnapshotId(b)' = SnapshotId(c)')
         => SnapshotId(b)' \in again'
  <2>1. \A b, c \in Sessions :
         (b # c /\ b # a /\ c # a /\ phase'[b] \in Carrying /\ phase'[c] \in Carrying
          /\ SnapshotId(b)' = SnapshotId(c)')
           => SnapshotId(b)' \in again'
    BY <1>1, <1>2, <1>3 DEF Traces, Elsewhere
  <2> QED BY <1>8, <2>1
<1> QED BY <1>1, <1>2, <1>3, <1>6, <1>7, <1>9 DEF Traces, Elsewhere

LEMMA LockKeepsTraces ==
  ASSUME TypeOK, Traces, NEW a \in Sessions, AcquireLock(a) PROVE Traces'
<1>1. \A b \in Sessions : SnapshotId(b)' = SnapshotId(b) /\ Lock(b)' = Lock(b)
  BY SameId DEF AcquireLock
<1>2. /\ phase[a] = "ready" /\ phase'[a] = "locked"
      /\ \A b \in Sessions : b # a => phase'[b] = phase[b]
      /\ locks' = locks \cup {Lock(a)} /\ store' = store /\ job' = job
      /\ asked' = asked /\ again' = again
  BY DEF AcquireLock, Goto, TypeOK, ghosts
<1>3. Lock(a) = <<job[a].area, SnapshotId(a)>>
  BY DEF Lock
<1>4. ASSUME NEW b \in Sessions, phase'[b] \in Carrying, SnapshotId(b)' \notin again'
      PROVE  Untouched(b)'
  <2>1. CASE b = a
    BY <1>1, <1>2, <1>3, <1>4, <2>1 DEF Traces, Untouched, Carrying, Publishing
  <2>2. CASE b # a
    <3>1. SnapshotId(b) # SnapshotId(a)
      BY <1>1, <1>2, <1>4, <2>2 DEF Traces, Carrying, Publishing
    <3> QED BY <1>1, <1>2, <1>3, <1>4, <2>2, <3>1 DEF Traces, Untouched, Lock
  <2> QED BY <2>1, <2>2
<1>5. \A r \in Areas : \A id \in Id : (id \in store'[r] \/ <<r, id>> \in locks') => id \in asked'
  BY <1>2, <1>3 DEF Traces, Carrying
<1> QED BY <1>1, <1>2, <1>4, <1>5 DEF Traces, Carrying, Publishing

LEMMA PlaceKeepsTraces ==
  ASSUME TypeOK, Traces, NEW a \in Sessions, Place(a) PROVE Traces'
<1>1. \A b \in Sessions : SnapshotId(b)' = SnapshotId(b) /\ Lock(b)' = Lock(b)
  BY SameId DEF Place
<1>2. /\ phase[a] = "locked" /\ phase'[a] = "placed"
      /\ \A b \in Sessions : b # a => phase'[b] = phase[b]
      /\ locks' = locks /\ job' = job /\ asked' = asked /\ again' = again
  BY DEF Place, Goto, TypeOK, ghosts
<1>3. /\ job[a].area \in Areas
      /\ \A r \in Areas : store'[r] = IF r = job[a].area THEN store[r] \cup {SnapshotId(a)} ELSE store[r]
  BY DEF Place, TypeOK, Job
<1>4. ASSUME NEW b \in Sessions, phase'[b] \in Carrying, SnapshotId(b)' \notin again'
      PROVE  Untouched(b)'
  <2>0. job[b].area \in Areas
    BY DEF TypeOK, Job
  <2>1. CASE b = a
    BY <1>1, <1>2, <1>3, <1>4, <2>1 DEF Traces, Untouched, Carrying, Publishing, Areas
  <2>2. CASE b # a
    <3>1. SnapshotId(b) # SnapshotId(a)
      BY <1>1, <1>2, <1>4, <2>2 DEF Traces, Carrying, Publishing
    <3> QED BY <1>1, <1>2, <1>3, <1>4, <2>0, <2>2, <3>1 DEF Traces, Untouched, Areas
  <2> QED BY <2>1, <2>2
<1>5. \A r \in Areas : \A id \in Id : (id \in store'[r] \/ <<r, id>> \in locks') => id \in asked'
  <2>1. SnapshotId(a) \in asked
    BY <1>2 DEF Traces, Carrying, Publishing
  <2>2. \A r \in Areas : \A id \in Id : id \in store'[r] => id \in store[r] \/ id = SnapshotId(a)
    BY <1>3
  <2> QED BY <1>2, <2>1, <2>2 DEF Traces
<1> QED BY <1>1, <1>2, <1>4, <1>5 DEF Traces, Carrying, Publishing

LEMMA ValidateKeepsTraces ==
  ASSUME TypeOK, Traces, NEW a \in Sessions, Validate(a) PROVE Traces'
<1>1. Elsewhere(a)
  BY StepsAlone DEF Step, Acquire
<1>2. \A b \in Sessions : b # a => SnapshotId(b)' = SnapshotId(b) /\ Lock(b)' = Lock(b)
  BY <1>1, IdsElsewhere
<1>3. /\ phase[a] = "published" /\ job[a].area = "quarantine"
      /\ phase'[a] = "ready" /\ job'[a].area = "accepted" /\ SnapshotId(a)' = SnapshotId(a)
      /\ locks' = locks /\ store' = store /\ asked' = asked /\ again' = again
  BY DEF Validate, Goto, TypeOK, SnapshotId, Job, snapshots, ghosts
<1>4. SnapshotId(a)' \notin again' => Untouched(a)'
  BY <1>3 DEF Traces, Untouched, Lock, Carrying
<1>5. ASSUME NEW b \in Sessions, b # a, phase'[b] \in Carrying, SnapshotId(b)' \notin again'
      PROVE  Untouched(b)'
  BY <1>1, <1>2, <1>3, <1>5 DEF Traces, Untouched, Elsewhere
<1>6. \A b \in Sessions : SnapshotId(b)' = SnapshotId(b) /\ (phase'[b] \in Carrying => phase[b] \in Carrying)
  BY <1>1, <1>2, <1>3 DEF Elsewhere, Carrying
<1> QED BY <1>3, <1>4, <1>5, <1>6 DEF Traces

LEMMA TracesPreserved == TypeOK /\ Traces /\ [Next]_vars => Traces'
<1> SUFFICES ASSUME TypeOK, Traces, [Next]_vars PROVE Traces'
  OBVIOUS
<1>1. ASSUME NEW a \in Sessions,
             (\E s \in Sources : Begin(a, s)) \/ ReleaseLock(a) \/ Accepted(a) \/ ReadScene(a)
             \/ PublishScene(a) \/ RefreshFails(a) \/ ProcessDies(a)
      PROVE  Traces'
  <2>1. Elsewhere(a)
    BY <1>1, StepsAlone DEF Step, Acquire
  <2>2. store' = store /\ locks' \subseteq locks /\ asked' = asked /\ again' = again
    BY <1>1 DEF Begin, ReleaseLock, Accepted, ReadScene, PublishScene, RefreshFails, ProcessDies,
                snapshots, ghosts
  <2>3. \/ phase'[a] \notin Carrying
        \/ job'[a] = job[a] /\ phase[a] = "placed" /\ phase'[a] = "published"
    BY <1>1, LeavesIdle
    DEF Begin, ReleaseLock, Accepted, ReadScene, PublishScene, RefreshFails, ProcessDies, Goto, TypeOK,
        Carrying, Publishing
  <2> QED BY <2>1, <2>2, <2>3, QuietKeepsTraces DEF Elsewhere
<1>2. CASE ClockMoves \/ UNCHANGED vars
  <2>1. UNCHANGED <<store, locks, asked, again, phase, job>>
    BY <1>2 DEF ClockMoves, vars, snapshots, locals, ghosts
  <2> QED BY <2>1, QuietKeepsTraces
<1> QED
  BY <1>1, <1>2, FetchKeepsTraces, LockKeepsTraces, PlaceKeepsTraces, ValidateKeepsTraces DEF Next, Acquire

\* What crashes and overlapping refreshes leave behind never refuses a
\* publication, unless the same product was retrieved twice in one second.
THEOREM LeftoversStayHarmless == Spec => []LeftoversHarmless
<1>1. Init => Traces
  BY DEF Init, Traces, Publishing, Carrying, Areas
<1>2. Traces => LeftoversHarmless
  BY DEF Traces, Untouched, LeftoversHarmless, SnapshotId, Carrying, Publishing
<1> QED BY <1>1, <1>2, TracesPreserved, TypeCorrect, PTL DEF Spec

-----------------------------------------------------------------------------
(* Layers that stay on display.                                            *)

Retained ==
  \A a \in Sessions :
    LET mode == Mode[job[a].source] IN
    /\ phase[a] \in Composed => since[a] \subseteq scene[mode]
    /\ phase[a] = "composing" => Unrelated(since[a], job[a].source) \subseteq base[a]

\* A step after which nobody composes who did not, and no scene changed.
LEMMA QuietKeepsRetained ==
  ASSUME Retained, scene' = scene,
         \A a \in Sessions :
           \/ phase'[a] \notin Composed
           \/ phase'[a] = phase[a] /\ job'[a] = job[a] /\ base'[a] = base[a] /\ since'[a] = since[a]
  PROVE  Retained'
BY DEF Retained, Unrelated, Composed

LEMMA RetainedPreserved == TypeOK /\ Retained /\ [Next]_vars => Retained'
<1> SUFFICES ASSUME TypeOK, Retained, [Next]_vars PROVE Retained'
  OBVIOUS
<1>1. ASSUME NEW a \in Sessions,
             (\E s \in Sources : Begin(a, s)) \/ Fetch(a) \/ AcquireLock(a) \/ Place(a)
             \/ ReleaseLock(a) \/ Validate(a) \/ RefreshFails(a) \/ ProcessDies(a)
      PROVE  Retained'
  <2>1. Elsewhere(a)
    BY <1>1, StepsAlone DEF Step, Acquire
  <2>2. scene' = scene /\ phase'[a] \notin Composed /\ \A b \in Sessions : b # a => since'[b] = since[b]
    BY <1>1, LeavesIdle DEF Begin, Fetch, AcquireLock, Place, ReleaseLock, Validate, RefreshFails,
       ProcessDies, Goto, TypeOK, Composed, ghosts
  <2> QED BY <2>1, <2>2, QuietKeepsRetained DEF Elsewhere
<1>2. ASSUME NEW a \in Sessions, Accepted(a) PROVE Retained'
  <2>1. Elsewhere(a)
    BY <1>2, StepsAlone DEF Step, Acquire
  <2>2. /\ scene' = scene /\ \A b \in Sessions : b # a => since'[b] = since[b]
        /\ job'[a].source = job[a].source
        /\ \/ phase'[a] = "asking"
           \/ phase'[a] = "acquired" /\ since'[a] = scene[Mode[job[a].source]]
    BY <1>2 DEF Accepted, TypeOK, Job
  <2> QED BY <2>1, <2>2 DEF Retained, Elsewhere, Unrelated, Composed
<1>3. ASSUME NEW a \in Sessions, ReadScene(a) PROVE Retained'
  <2>1. /\ scene' = scene /\ since' = since /\ job' = job
        /\ phase[a] = "acquired" /\ phase'[a] = "composing"
        /\ base'[a] = Unrelated(scene[Mode[job[a].source]], job[a].source)
        /\ \A b \in Sessions : b # a => phase'[b] = phase[b] /\ base'[b] = base[b]
    BY <1>3 DEF ReadScene, Goto, TypeOK, ghosts
  <2> QED BY <2>1 DEF Retained, Unrelated, Composed
<1>4. ASSUME NEW a \in Sessions, PublishScene(a) PROVE Retained'
  <2> DEFINE mode == Mode[job[a].source]
  <2>1. Elsewhere(a) /\ phase'[a] = "idle"
    BY <1>4, StepsAlone, LeavesIdle DEF Step, PublishScene
  <2>2. /\ \A m : m \in Modes /\ m # mode => scene'[m] = scene[m]
        /\ \A b \in Sessions : b # a =>
             since'[b] = IF Mode[job[b].source] = mode THEN since[b] \cap scene'[mode] ELSE since[b]
    BY <1>4 DEF PublishScene, TypeOK
  <2>3. ASSUME NEW b \in Sessions, b # a, phase'[b] \in Composed
        PROVE  since'[b] \subseteq scene'[Mode[job'[b].source]] /\ since'[b] \subseteq since[b]
    <3>1. job'[b] = job[b] /\ phase'[b] = phase[b] /\ Mode[job[b].source] \in Modes
      BY <2>1, <2>3 DEF Elsewhere, TypeOK, Job, Modes
    <3> QED BY <2>2, <2>3, <3>1 DEF Retained
  <2> QED BY <2>1, <2>3 DEF Retained, Elsewhere, Unrelated, Composed
<1>5. CASE ClockMoves \/ UNCHANGED vars
  BY <1>5, QuietKeepsRetained DEF ClockMoves, vars, locals, ghosts
<1> QED BY <1>1, <1>2, <1>3, <1>4, <1>5 DEF Next, Acquire

\* A refresh that publishes removes no layer of another selection that was on
\* the map ever since it had acquired its own products.
THEOREM EarlierLayersAlwaysStay == Spec => EarlierLayersStay
<1>1. Init => Retained
  BY DEF Init, Retained, Composed
<1>2. TypeOK /\ Retained =>
        \A a \in Sessions : PublishScene(a) =>
          Unrelated(since[a], job[a].source) \subseteq scene'[Mode[job[a].source]]
  <2> SUFFICES ASSUME TypeOK, Retained, NEW a \in Sessions, PublishScene(a)
               PROVE  Unrelated(since[a], job[a].source) \subseteq scene'[Mode[job[a].source]]
    OBVIOUS
  <2>1. Mode[job[a].source] \in Modes
    BY DEF TypeOK, Job, Modes
  <2>2. scene'[Mode[job[a].source]] = base[a] \cup {NewLayer(a)}
    BY <2>1 DEF PublishScene, TypeOK
  <2> QED BY <2>2 DEF PublishScene, Retained
<1> QED BY <1>1, <1>2, RetainedPreserved, TypeCorrect, PTL DEF Spec, EarlierLayersStay

=============================================================================
