--------------------------- MODULE SourceRefresh ---------------------------
(***************************************************************************)
(* The operator's refreshes of WebTRIS, TfGM and DfT evidence              *)
(* (integration/manchester/source_refresh.py) on the snapshot store        *)
(* (snapshots.py) and the scene files (scene_publication.py).              *)
(*                                                                         *)
(* A refresh acquires its products one after the other.  The bytes of each *)
(* are published to the quarantine, parsed, and published again to the     *)
(* accepted area; every publication is guarded by an exclusive lock file   *)
(* of its own, which the end of a process leaves behind.  At last the      *)
(* refresh reads the scene of its mode, drops the layers its own replaces, *)
(* verifies its snapshot again and replaces the file.  No lock spans this  *)
(* reading and the replacement, nor two refreshes.                         *)
(*                                                                         *)
(* A directory appears by one rename of a verified staging tree, so a      *)
(* snapshot is there or not; staging trees that a crash leaves have hidden *)
(* names and are read by nobody.  The same selection fetched in the same   *)
(* second has the same bytes, so a snapshot id is the selection, the       *)
(* product and the second.  Policies, parsing and the contents of layers   *)
(* are data: a rejection by one of them is RefreshFails.                   *)
(***************************************************************************)
EXTENDS Naturals

CONSTANTS
  Sessions,   \* who refreshes: sessions of the operations page
  Sources,    \* selections a refresh can be asked for: a site, the archive, rows
  Family,     \* what a selection's layer replaces: webtris-site-*, one layer id
  Mode,       \* the scene a selection's layer belongs to
  Products,   \* how many products a refresh of a selection acquires
  Shown,      \* which of them the layer shows
  MaxTime,    \* bound of the model: the last second
  MaxBegun    \* bound of the model: refreshes begun

Modes == {Mode[s] : s \in Sources}

ASSUME SourcesAssumption ==
  /\ Sources # {}
  /\ Products \in [Sources -> Nat \ {0}]
  /\ Shown \in [Sources -> Nat \ {0}]
  /\ \A s \in Sources : Shown[s] <= Products[s]
  /\ MaxTime \in Nat /\ MaxBegun \in Nat

VARIABLES
  now,     \* the clock, in the seconds of a snapshot id
  begun,   \* how many refreshes were begun
  store,   \* the snapshot directories of each area
  locks,   \* the .publish.lock files, with the area they lie in
  scene,   \* the scene file of each mode; without a file it has no layers
  phase,   \* where each session is
  job,     \* the refresh each session runs
  base,    \* layers a session retains: _existing_layer_requests
  asked,   \* history: retrievals that got an answer
  again,   \* history: those that were repeated within their second
  since    \* history: layers on display ever since a session's last acquisition

snapshots == <<store, locks>>
locals == <<phase, job, base>>
ghosts == <<asked, again, since>>
vars == <<now, begun, snapshots, scene, locals, ghosts>>

Areas == {"quarantine", "accepted"}
Id == [source : Sources, product : Nat, at : Nat]
Layer == [source : Sources, at : Nat]
Job == [source : Sources, product : Nat, area : Areas, at : Nat, shown : Nat]
NewJob(s) == [source |-> s, product |-> 1, area |-> "quarantine", at |-> 0, shown |-> 0]
NoJob == NewJob(CHOOSE s \in Sources : TRUE)

Publishing == {"locked", "placed"}
Composed == {"acquired", "composing"}
Working == {"asking", "ready", "published"} \cup Publishing \cup Composed

Init ==
  /\ now = 0 /\ begun = 0
  /\ store = [r \in Areas |-> {}] /\ locks = {}
  /\ scene = [m \in Modes |-> {}]
  /\ phase = [a \in Sessions |-> "idle"] /\ job = [a \in Sessions |-> NoJob]
  /\ base = [a \in Sessions |-> {}]
  /\ asked = {} /\ again = {}
  /\ since = [a \in Sessions |-> {}]

-----------------------------------------------------------------------------

Goto(a, from, to) ==
  /\ phase[a] = from
  /\ phase' = [phase EXCEPT ![a] = to]

\* Mutant: ids without the time of the retrieval.
SnapshotIdAgeless(a) == [source |-> job[a].source, product |-> job[a].product, at |-> 0]

\* build_snapshot_id of the product that is being acquired.
SnapshotId(a) == [source |-> job[a].source, product |-> job[a].product, at |-> job[a].at]

Lock(a) == <<job[a].area, SnapshotId(a)>>

\* The snapshot a layer was built from.
Evidence(l) == [source |-> l.source, product |-> Shown[l.source], at |-> l.at]

NewLayer(a) == [source |-> job[a].source, at |-> job[a].shown]

\* Layers that a refresh of a selection does not replace.
Unrelated(layers, s) == {l \in layers : Family[l.source] # Family[s]}

\* The refresh is over; its locals are gone.
Leave(a) ==
  /\ phase' = [phase EXCEPT ![a] = "idle"]
  /\ job' = [job EXCEPT ![a] = NoJob]
  /\ base' = [base EXCEPT ![a] = {}]

Begin(a, s) ==
  /\ begun < MaxBegun /\ begun' = begun + 1
  /\ Goto(a, "idle", "asking")
  /\ job' = [job EXCEPT ![a] = NewJob(s)]
  /\ UNCHANGED <<now, snapshots, scene, base, ghosts>>

\* Mutant: the response goes to the accepted area at once.
FetchUnquarantined(a) ==
  /\ Goto(a, "asking", "ready")
  /\ job' = [job EXCEPT ![a].at = now, ![a].area = "accepted"]
  /\ LET retrieval == [source |-> job[a].source, product |-> job[a].product, at |-> now] IN
       /\ again' = IF retrieval \in asked THEN again \cup {retrieval} ELSE again
       /\ asked' = asked \cup {retrieval}
  /\ UNCHANGED <<now, begun, snapshots, scene, base, since>>

\* The provider answers; the id is of the second in which the retrieval began.
Fetch(a) ==
  /\ Goto(a, "asking", "ready")
  /\ job' = [job EXCEPT ![a].at = now, ![a].area = "quarantine"]
  /\ LET retrieval == [source |-> job[a].source, product |-> job[a].product, at |-> now] IN
       /\ again' = IF retrieval \in asked THEN again \cup {retrieval} ELSE again
       /\ asked' = asked \cup {retrieval}
  /\ UNCHANGED <<now, begun, snapshots, scene, base, since>>

\* _acquire_publication_lock: O_EXCL creates the file or fails.
AcquireLock(a) ==
  /\ Goto(a, "ready", "locked")
  /\ Lock(a) \notin locks
  /\ locks' = locks \cup {Lock(a)}
  /\ UNCHANGED <<now, begun, store, scene, job, base, ghosts>>

\* The tree is staged and verified, and renamed to the snapshot's directory.
Place(a) ==
  /\ Goto(a, "locked", "placed")
  /\ SnapshotId(a) \notin store[job[a].area]
  /\ store' = [store EXCEPT ![job[a].area] = @ \cup {SnapshotId(a)}]
  /\ UNCHANGED <<now, begun, locks, scene, job, base, ghosts>>

\* The finally clause: staging removed, lock removed.
ReleaseLock(a) ==
  /\ Goto(a, "placed", "published")
  /\ locks' = locks \ {Lock(a)}
  /\ UNCHANGED <<now, begun, store, scene, job, base, ghosts>>

\* The quarantined bytes are verified and parsed, the result is admitted.
Validate(a) ==
  /\ job[a].area = "quarantine" /\ SnapshotId(a) \in store["quarantine"]
  /\ Goto(a, "published", "ready")
  /\ job' = [job EXCEPT ![a].area = "accepted"]
  /\ UNCHANGED <<now, begun, snapshots, scene, base, ghosts>>

\* The product is accepted; the next one, or the map.
Accepted(a) ==
  LET shown == IF job[a].product = Shown[job[a].source] THEN job[a].at ELSE job[a].shown IN
  /\ phase[a] = "published" /\ job[a].area = "accepted"
  /\ IF job[a].product < Products[job[a].source]
     THEN /\ phase' = [phase EXCEPT ![a] = "asking"]
          /\ job' = [job EXCEPT ![a].product = @ + 1, ![a].shown = shown]
          /\ since' = since
     ELSE /\ phase' = [phase EXCEPT ![a] = "acquired"]
          /\ job' = [job EXCEPT ![a].shown = shown]
          /\ since' = [since EXCEPT ![a] = scene[Mode[job[a].source]]]
  /\ UNCHANGED <<now, begun, snapshots, scene, base, asked, again>>

\* Mutant: the refresh retains the layers it found when it began.
ReadSceneForgets(a) ==
  /\ Goto(a, "acquired", "composing")
  /\ UNCHANGED <<now, begun, snapshots, scene, job, base, ghosts>>

\* _existing_layer_requests
ReadScene(a) ==
  /\ Goto(a, "acquired", "composing")
  /\ base' = [base EXCEPT ![a] = Unrelated(scene[Mode[job[a].source]], job[a].source)]
  /\ UNCHANGED <<now, begun, snapshots, scene, job, ghosts>>

\* The layer is built from the accepted snapshot, verified again, and the file
\* replaced.  Whether the directory's fsync fails after that changes only what
\* the operator is told.
PublishScene(a) ==
  /\ phase[a] = "composing"
  /\ Evidence(NewLayer(a)) \in store["accepted"]
  /\ LET mode == Mode[job[a].source] IN
       /\ scene' = [scene EXCEPT ![mode] = base[a] \cup {NewLayer(a)}]
       /\ since' = [b \in Sessions |->
            IF b = a THEN {}
            ELSE IF Mode[job[b].source] = mode THEN since[b] \cap scene'[mode] ELSE since[b]]
  /\ Leave(a)
  /\ UNCHANGED <<now, begun, snapshots, asked, again>>

\* Anything raises: transport, a limit, PUBLICATION_LOCKED, DESTINATION_EXISTS,
\* a write, a rejected response, a scene that is refused.  Finally clauses run.
RefreshFails(a) ==
  /\ phase[a] \in Working
  /\ Leave(a)
  /\ locks' = IF phase[a] \in Publishing THEN locks \ {Lock(a)} ELSE locks
  /\ since' = [since EXCEPT ![a] = {}]
  /\ UNCHANGED <<now, begun, store, scene, asked, again>>

\* The process ends: no finally clause runs.
ProcessDies(a) ==
  /\ phase[a] \in Working
  /\ Leave(a)
  /\ since' = [since EXCEPT ![a] = {}]
  /\ UNCHANGED <<now, begun, snapshots, scene, asked, again>>

\* Time passes, or the clock is set.
ClockMoves ==
  /\ now' \in 0 .. MaxTime
  /\ now' # now
  /\ UNCHANGED <<begun, snapshots, scene, locals, ghosts>>

Acquire(a) ==
  \/ Fetch(a) \/ AcquireLock(a) \/ Place(a) \/ ReleaseLock(a)
  \/ Validate(a) \/ Accepted(a)

Next ==
  \/ \E a \in Sessions :
       \/ \E s \in Sources : Begin(a, s)
       \/ Acquire(a) \/ ReadScene(a) \/ PublishScene(a)
       \/ RefreshFails(a) \/ ProcessDies(a)
  \/ ClockMoves

Spec == Init /\ [][Next]_vars

-----------------------------------------------------------------------------
(***************************************************************************)
(* Properties.                                                             *)
(***************************************************************************)

\* Types of the files, the locals and the histories.
TypeOK ==
  /\ now \in Nat /\ begun \in 0 .. MaxBegun
  /\ store \in [Areas -> SUBSET Id] /\ locks \subseteq Areas \X Id
  /\ scene \in [Modes -> SUBSET Layer]
  /\ phase \in [Sessions -> {"idle"} \cup Working]
  /\ job \in [Sessions -> Job]
  /\ base \in [Sessions -> SUBSET Layer]
  /\ asked \subseteq Id /\ again \subseteq asked
  /\ since \in [Sessions -> SUBSET Layer]

\* Whatever fails or ends between two steps, each layer on the map shows a
\* snapshot that was accepted and whose raw bytes are in the quarantine.
LayersBacked ==
  \A m \in Modes : \A l \in scene[m] : \A r \in Areas : Evidence(l) \in store[r]

\* Lock files and directories that crashed or overlapping refreshes leave
\* refuse a publication only if the same product was retrieved twice within
\* one second: no crash blocks a later refresh.
LeftoversHarmless ==
  \A a \in Sessions :
    LET retrieval == [source |-> job[a].source, product |-> job[a].product, at |-> job[a].at] IN
    (phase[a] \in {"ready", "locked"} /\ retrieval \notin again) =>
      /\ phase[a] = "ready" => Lock(a) \notin locks
      /\ SnapshotId(a) \notin store[job[a].area]

\* Of two refreshes that overlap one may remove a layer of the other from the
\* map, but only a layer published after it had acquired its own products.
EarlierLayersStay ==
  [][\A a \in Sessions : PublishScene(a) =>
       Unrelated(since[a], job[a].source) \subseteq scene'[Mode[job[a].source]]]_vars

\* No snapshot is published by two refreshes: one receipt for each.
OneReceipt ==
  \A a, b \in Sessions :
    (a # b /\ phase[a] \in {"placed", "published"} /\ phase[b] \in {"placed", "published"})
      => Lock(a) # Lock(b)

=============================================================================
